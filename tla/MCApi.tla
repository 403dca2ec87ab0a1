------------------------------- MODULE MCApi -------------------------------
(* Api on a small instance.                                                *)
EXTENDS Api, TLC

Entries == {"call", "transact", "create"}
Calls(entries, options) == [entry : entries, options : options]

\* Options that may or may not be written.
Maybe(o, f, values) == {o} \cup {o @@ (f :> v) : v \in values}
EachMaybe(O, f, values) == UNION {Maybe(o, f, values) : o \in O}

-----------------------------------------------------------------------------
(* An embedder that moves funds: payments either way, sent again, sent with *)
(* the nonce not checked or with simulation switches, simulated, created.   *)

Pay(from, to, nonce) == [from |-> from, to |-> to, nonce |-> nonce, value |-> 1,
                         gasLimit |-> 1, gasPrice |-> 1]

Switch == {"disableBaseFee", "disableBalanceCheck", "disableBlockGasLimit",
           "disableEip3607"}

Ledger ==
    Calls({"transact"}, {Pay(1, 2, 0), Pay(1, 2, 1), Pay(2, 1, 0), Pay(2, 1, 1)})
    \cup Calls({"transact"}, {Pay(2, 1, 0) @@ [checkNonce |-> FALSE],
                              Pay(1, 2, 0) @@ [commit |-> FALSE],
                              Pay(1, 2, 0) @@ [returnState |-> FALSE]})
    \cup Calls({"call", "create"}, {Pay(1, 2, 0)})
    \cup Calls({"transact"}, {Pay(from, 1, 0) @@ (f :> TRUE) : from \in {0, 3}, f \in Switch})
    \cup Calls({"call"}, {Pay(0, 1, 0) @@ ("disableBalanceCheck" :> TRUE)})

-----------------------------------------------------------------------------
(* One that simulates: every pair of switches, transactions that break any   *)
(* rules, with the state wanted or not.                                     *)

Simulations ==
    LET base == {[from |-> from, to |-> 1, nonce |-> nonce, gasLimit |-> gas, value |-> 1] :
                    from \in {0, 1, 3}, nonce \in {0, 1}, gas \in {1, 9}}
        switched == UNION {{[g \in {f, h} |-> TRUE] @@ o : o \in base} : f, h \in Switch}
    IN Calls({"call", "transact"},
             {o @@ [commit |-> FALSE] : o \in EachMaybe(base \cup switched, "returnState", {FALSE})})

-----------------------------------------------------------------------------
(* One that uses every option there is, alone and in some company.          *)

Fields ==
    [gasPrice |-> {0, 1, -1}, maxFeePerGas |-> {0, 2}, maxPriorityFeePerGas |-> {0, 1},
     txType |-> {0, 2}, nonce |-> {0, 1}, maxFeePerBlobGas |-> {0, 1, U128 + 1},
     accessList |-> {<<>>, <<[address |-> 7]>>,
                     <<[address |-> 7, storageKeys |-> <<5>>], [address |-> 8]>>},
     blobVersionedHashes |-> {<<>>, <<4, 5>>},
     authorizationList |-> {<<>>, <<[chainId |-> 1, address |-> 7, nonce |-> 3, yParity |-> 1]>>,
                           <<[chainId |-> U256 + 1, address |-> 7, nonce |-> -1, yParity |-> 0]>>},
     gasLimit |-> {1, -1, U64 + 1}, value |-> {1, U256 + 1}, from |-> {1}, to |-> {2},
     data |-> {<<6>>}, chainId |-> {5, -1},
     spec |-> {[name |-> "FRONTIER"], [name |-> "PRAGUE"], [name |-> "AMSTERDAM"], [id |-> 0],
              [id |-> 14], [id |-> 15], [id |-> 200], [id |-> 268], [id |-> -1]},
     block |-> {[number |-> 4], [number |-> U64 + 1], [timestamp |-> 4, gasLimit |-> 7], [coinbase |-> 2],
                [baseFeePerGas |-> 0], [baseFeePerGas |-> 2], [excessBlobGas |-> 0],
                [excessBlobGas |-> 6], [prevRandao |-> 0], [prevRandao |-> 9]}]

Alone == UNION {{(f :> v) : v \in Fields[f]} : f \in DOMAIN Fields}
Company == {"maxPriorityFeePerGas", "gasPrice", "block", "accessList"}
Shapes ==
    Calls({"call"}, Alone \cup UNION {EachMaybe({o \in Alone : f \notin DOMAIN o}, f, Fields[f]) :
                                        f \in Company})
    \cup Calls({"transact", "create"}, {o @@ [commit |-> FALSE] : o \in Alone})

-----------------------------------------------------------------------------
AllPrograms == {Ledger, Simulations, Shapes}

\* Hardforks and nothing else, of the table, of one byte and of more.
Forks == Calls(Entries, {[spec |-> fork] : fork \in Fields["spec"]})
ForkPrograms == {Forks}

Shipped == {"precompiles-all", "relaxed-validation"}
Small == {"precompiles-none"}
Builds == {Shipped, Small}

Bare == [spec |-> 11, chainId |-> 1, block |-> [x \in {} |-> 0]]
Chain == [spec |-> 12, chainId |-> 3,
          block |-> [number |-> 5, baseFeePerGas |-> 1, gasLimit |-> 8, prevRandao |-> 9]]
SomeDefaults == {Bare, Chain}

Purse(n) == [balance |-> n, nonce |-> 0]
Start0 == {(0 :> Purse(0)) @@ (1 :> Purse(4)) @@ (2 :> Purse(3)) @@ (3 :> Purse(9))}
=============================================================================
