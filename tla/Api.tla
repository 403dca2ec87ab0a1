-------------------------------- MODULE Api --------------------------------
(***************************************************************************)
(* The entry points of the Revm class, call, transact and create, from the *)
(* options a caller gives them to what happens to the accounts in his      *)
(* store: the flags each sets, the combinations #run refuses, the request  *)
(* the artifact decodes (RequestCodec), the rules it then checks, and the  *)
(* commit, account by account, which a throw of the store may cut short.   *)
(*                                                                         *)
(* Of an account only balance and nonce matter here.  All the gas of a     *)
(* transaction is used, at its own price, and goes to nobody in the model; *)
(* what a creation deploys is left out.                                    *)
(***************************************************************************)
EXTENDS RequestCodec, Build, FiniteSets, Functions

CONSTANTS Addr,         \* addresses, ordered as their bytes are
          Contract,     \* those with code
          Programs,     \* the sets of calls an embedder may be written to make
          Artifacts,    \* builds of the module, each its set of cargo features
          Defaults,     \* instance defaults: spec, chainId, block
          Stores,       \* states to start from
          MaxNonce,     \* transactions committed for one sender
          MaxThrows     \* throws of the store

\* What builds for measurements leave out, and builds that are shipped never do.
Ablations == {"ablate-outcome-v1", "ablate-commit", "ablate-extra-exports",
              "ablate-bloom", "ablate-fees", "ablate-egp"}

ASSUME ArtifactsAssumption == \A features \in Artifacts : features \cap Ablations = {}

ASSUME ApiAssumption ==
    /\ Addr \subseteq Nat /\ IsFiniteSet(Addr)
    /\ Contract \subseteq Addr
    /\ MaxNonce \in Nat /\ MaxThrows \in Nat
    /\ Stores \subseteq [Addr -> [balance : Nat, nonce : {0}]]

VARIABLES
    store,      \* the embedder's state
    program,    \* the calls the embedder makes
    instance,   \* the artifact and the defaults of the instance in use
    phase,      \* "idle", "running", "committing", "done", "dead"
    call,       \* the call under way: who made it how, and what reached revm
    outcome,    \* and what came of it
    pending,    \* accounts still to be written
    paid,       \* ghost: how often the recipient of a call was credited
    torn,       \* ghost: calls cut short after the recipient, before the sender
    throws      \* throws so far

vars == <<store, program, instance, phase, call, outcome, pending, paid, torn, throws>>

NoCall == [entry |-> "none"]
NoOutcome == [status |-> "none"]
nothing == [a \in {} |-> 0]

Instances == [features : Artifacts, defaults : Defaults]

\* Left out, either is the zero address.
Sender(c) == or(c.options, "from", Zeros)
Recipient(c) == or(c.options, "to", Zeros)

\* Transactions that move something, with the nonce checked.
Payment(c) == /\ c.entry = "transact"
              /\ or(c.options, "value", 0) > 0
              /\ or(c.options, "checkNonce", TRUE)

Init ==
    /\ store \in Stores
    /\ program \in Programs
    /\ instance \in Instances
    /\ phase = "idle"
    /\ call = NoCall
    /\ outcome = NoOutcome
    /\ pending = nothing
    /\ paid = [c \in {c \in program : Payment(c)} |-> 0]
    /\ torn = {}
    /\ throws = 0

-----------------------------------------------------------------------------
(* The entry points.                                                       *)

switches == [disableBaseFee |-> "DISABLE_BASE_FEE",
             disableBalanceCheck |-> "DISABLE_BALANCE_CHECK",
             disableBlockGasLimit |-> "DISABLE_BLOCK_GAS_LIMIT",
             disableEip3607 |-> "DISABLE_EIP3607"]

\* The hardforks by revm's numbers for them.
Hardfork == [FRONTIER |-> 0, HOMESTEAD |-> 1, TANGERINE |-> 2, SPURIOUS_DRAGON |-> 3,
             BYZANTIUM |-> 4, PETERSBURG |-> 5, ISTANBUL |-> 6, BERLIN |-> 7, LONDON |-> 8,
             MERGE |-> 9, SHANGHAI |-> 10, CANCUN |-> 11, PRAGUE |-> 12, OSAKA |-> 13,
             AMSTERDAM |-> 14]

\* What the types of ExecuteOptions and CreateRevmOptions say, an option that is
\* left out counting as its default.  A hardfork may be any number; the type of a
\* transaction is one byte (EIP-2718), and a parity is 0 or 1.
ASSUME OptionsAssumption ==
    \A P \in Programs : \A c \in P :
        LET o == c.options
        IN /\ c \in [entry : {"call", "transact", "create"}, options : {o}]
           /\ Sender(c) \in Addr /\ Recipient(c) \in Addr
           /\ \A f \in {"gasLimit", "gasPrice", "maxFeePerGas", "maxPriorityFeePerGas",
                        "maxFeePerBlobGas", "nonce", "value", "chainId"} : or(o, f, 0) \in Int
           /\ \A f \in DOMAIN switches \cup {"checkNonce", "commit", "returnState"} :
                 or(o, f, FALSE) \in BOOLEAN
           /\ or(o, "txType", 0) \in 0..255
           /\ or(o, "spec", [id |-> 0]) \in [id : Int] \cup [name : DOMAIN Hardfork]
           /\ \A i \in DOMAIN or(o, "authorizationList", <<>>) :
                 LET a == o["authorizationList"][i]
                 IN a.chainId \in Int /\ a.nonce \in Int /\ a.yParity \in {0, 1}

BlockTyped(block) ==
    /\ \A f \in {"number", "timestamp", "gasLimit", "baseFeePerGas", "excessBlobGas"} :
          or(block, f, 0) \in Int
    /\ or(block, "prevRandao", Zeros) # None

ASSUME DefaultsAssumption ==
    /\ \A d \in Defaults : d.spec \in Int /\ d.chainId \in Int /\ BlockTyped(d.block)
    /\ \A P \in Programs : \A c \in P : BlockTyped(or(c.options, "block", nothing))
    /\ None \notin 0..U64 /\ None \notin [id : Int] \cup [name : DOMAIN Hardfork]

simulationFlags(o) ==
    {Flags[switches[f]] : f \in {g \in DOMAIN switches : or(o, g, FALSE)}}

\* Bits that are wanted when their conditions hold.
bits(f, condition) == IF condition THEN {Flags[f]} ELSE {}

flagsOf_Unchecked(entry, o) ==
    simulationFlags(o) \cup bits("CHECK_NONCE", or(o, "checkNonce", FALSE))
      \cup bits("COMMIT", entry # "call" /\ or(o, "commit", TRUE))
      \cup bits("CREATE", entry = "create")
flagsOf(entry, o) ==
    simulationFlags(o) \cup bits("CHECK_NONCE", or(o, "checkNonce", entry # "call"))
      \cup bits("COMMIT", entry # "call" /\ or(o, "commit", TRUE))
      \cup bits("CREATE", entry = "create")

SIMULATION_FLAGS_First ==
    {Flags.RELAX_VALIDATION, Flags.DISABLE_BASE_FEE, Flags.DISABLE_BLOCK_GAS_LIMIT,
     Flags.DISABLE_BALANCE_CHECK}
SIMULATION_FLAGS_Free ==
    {Flags.RELAX_VALIDATION, Flags.DISABLE_BASE_FEE, Flags.DISABLE_BLOCK_GAS_LIMIT,
     Flags.DISABLE_EIP3607}
SIMULATION_FLAGS ==
    {Flags.RELAX_VALIDATION, Flags.DISABLE_BASE_FEE, Flags.DISABLE_BLOCK_GAS_LIMIT,
     Flags.DISABLE_BALANCE_CHECK, Flags.DISABLE_EIP3607}

hasValidationSwitches_Assumed(i) == TRUE
hasValidationSwitches(i) == "relaxed-validation" \in build_config(i.features)

light(o) == ~ or(o, "returnState", TRUE)

refused(o, flags) ==
    \/ light(o) /\ Flags.COMMIT \in flags
    \/ /\ flags \cap SIMULATION_FLAGS # {}
       /\ Flags.COMMIT \in flags \/ ~ hasValidationSwitches(instance)

Refuse(c) ==
    /\ phase = "idle"
    /\ refused(c.options, flagsOf(c.entry, c.options))
    /\ call' = [entry |-> c.entry, options |-> c.options]
    /\ outcome' = [status |-> "refused"]
    /\ phase' = "done"
    /\ UNCHANGED <<store, program, instance, pending, paid, torn, throws>>

-----------------------------------------------------------------------------
(* Validation, which is revm's: the rules a transaction breaks in a block, *)
(* on a state.  The artifact that has no switches checks them all.         *)

Broken(tx, block, s) ==
    LET sender == s[tx.caller]
    IN {rule \in {"base_fee", "balance", "block_gas_limit", "eip3607", "nonce"} :
          \/ rule = "base_fee" /\ tx.gas_price < block.basefee
          \/ rule = "balance" /\ sender.balance < tx.gas_limit * tx.gas_price + tx.value
          \/ rule = "block_gas_limit" /\ tx.gas_limit > block.gas_limit
          \/ rule = "eip3607" /\ tx.caller \in Contract
          \/ rule = "nonce" /\ tx.nonce # sender.nonce}

\* What all accounts have.
Funds(s) == FoldFunction(LAMBDA x, y : x + y, 0, [a \in Addr |-> s[a].balance])

\* apply_env, on an artifact with these features
apply_cfg(req, features) ==
    [spec |-> req.spec, chain_id |-> req.chain_id,
     disable_nonce_check |-> ~ checks_nonce(req),
     switches |-> IF "relaxed-validation" \in features THEN from_flags(req.flags)
                  ELSE from_flags({})]

Skipped(cfg) == {rule \in DOMAIN cfg.switches : cfg.switches[rule]}
                  \cup IF cfg.disable_nonce_check THEN {"nonce"} ELSE {}

Start(c) ==
    /\ phase = "idle"
    /\ LET flags == flagsOf(c.entry, c.options)
           req == decode_request(encodeRequest(c.options, instance.defaults, flags))
           tx == build_tx(req)
       IN /\ ~ refused(c.options, flags)
          /\ wants_commit(req) => store[tx.caller].nonce < MaxNonce
          /\ call' = [entry |-> c.entry, options |-> c.options, tx |-> tx,
                      block |-> block_env(req), cfg |-> apply_cfg(req, instance.features),
                      commits |-> wants_commit(req),
                      broken |-> Broken(tx, block_env(req), store),
                      funds |-> Funds(store)]
    /\ phase' = "running"
    /\ UNCHANGED <<store, program, instance, outcome, pending, paid, torn, throws>>

\* A rule is broken that was not switched off, or one that is not modelled.
Reject(rule) ==
    /\ phase = "running"
    /\ rule \in (call.broken \ Skipped(call.cfg)) \cup {"other"}
    /\ outcome' = [status |-> "rejected", rule |-> rule]
    /\ phase' = "done"
    /\ UNCHANGED <<store, program, instance, call, pending, paid, torn, throws>>

-----------------------------------------------------------------------------
(* Execution, which is revm's too: the accounts it leaves.  Without the    *)
(* balance check the sender is lent what he lacks for the value.           *)

Charged(tx, cfg) ==
    LET cost == tx.gas_limit * tx.gas_price
        had == store[tx.caller].balance
        left == IF had < cost THEN 0 ELSE had - cost
    IN IF cfg.switches.balance /\ left < tx.value THEN tx.value ELSE left

Recipients(tx) == IF tx.kind[1] = "call" THEN {tx.kind[2]} \ {tx.caller} ELSE {}

Finished(tx, cfg, success) ==
    LET moved == IF success THEN tx.value ELSE 0
    IN [a \in {tx.caller} \cup Recipients(tx) |->
          IF a = tx.caller
          THEN [balance |-> Charged(tx, cfg)
                              - IF tx.kind = <<"call", a>> THEN 0 ELSE moved,
                nonce |-> store[a].nonce + 1]
          ELSE [store[a] EXCEPT !.balance = @ + moved]]

Execute(success) ==
    /\ phase = "running"
    /\ call.broken \subseteq Skipped(call.cfg)
    /\ outcome' = [status |-> "ran", success |-> success]
    /\ IF call.commits
       THEN phase' = "committing" /\ pending' = Finished(call.tx, call.cfg, success)
       ELSE phase' = "done" /\ UNCHANGED pending
    /\ UNCHANGED <<store, program, instance, call, paid, torn, throws>>

\* The commit writes the accounts in the order of their addresses.
Made(c) == [entry |-> c.entry, options |-> c.options]
Credited(a) == /\ Made(call) \in DOMAIN paid
               /\ a \in Recipients(call.tx)
               /\ outcome.success

WriteAccount(a) ==
    /\ phase = "committing"
    /\ a \in DOMAIN pending
    /\ \A b \in DOMAIN pending : a <= b
    /\ store' = [store EXCEPT ![a] = pending[a]]
    /\ pending' = Restrict(pending, DOMAIN pending \ {a})
    /\ paid' = IF Credited(a) THEN [paid EXCEPT ![Made(call)] = @ + 1] ELSE paid
    /\ phase' = IF DOMAIN pending = {a} THEN "done" ELSE "committing"
    /\ UNCHANGED <<program, instance, call, outcome, torn, throws>>

-----------------------------------------------------------------------------
\* A host function throws, at a read or instead of a write.
Throw ==
    /\ phase \in {"running", "committing"}
    /\ throws < MaxThrows
    /\ throws' = throws + 1
    /\ torn' = IF /\ phase = "committing"
                  /\ call.tx.caller \in DOMAIN pending
                  /\ ~ Recipients(call.tx) \subseteq DOMAIN pending
               THEN torn \cup {Made(call)} ELSE torn
    /\ phase' = "dead"
    /\ UNCHANGED <<store, program, instance, call, outcome, pending, paid>>

Clear == /\ phase' = "idle"
         /\ call' = NoCall
         /\ outcome' = NoOutcome
         /\ pending' = nothing

Return ==
    /\ phase = "done"
    /\ Clear
    /\ UNCHANGED <<store, program, instance, paid, torn, throws>>

\* A new instance, of any artifact that is shipped, over the state as it is.
Recreate ==
    /\ phase = "dead"
    /\ Clear
    /\ instance' \in Instances
    /\ UNCHANGED <<store, program, paid, torn, throws>>

Next ==
    \/ \E c \in program : Refuse(c) \/ Start(c)
    \/ phase = "running" /\ \E rule \in call.broken \cup {"other"} : Reject(rule)
    \/ \E success \in BOOLEAN : Execute(success)
    \/ \E a \in DOMAIN pending : WriteAccount(a)
    \/ Throw
    \/ Return
    \/ Recreate

Spec == Init /\ [][Next]_vars

-----------------------------------------------------------------------------
(* What the options say, by the comments of the ExecuteOptions type.       *)

Within(number, max) ==
    IF number \in 0..max THEN number ELSE IF number < 0 THEN 0 ELSE max

\* A block field: the call's own, or the instance's, or the default.
BlockField(o, f, default) == or(or(o, "block", nothing), f,
                                or(instance.defaults.block, f, default))

AskedTx(entry, o) ==
    [tx_type |-> or(o, "txType", None),
     caller |-> or(o, "from", Zeros),
     kind |-> IF entry = "create" THEN <<"create">> ELSE <<"call", or(o, "to", Zeros)>>,
     data |-> or(o, "data", <<>>),
     gas_limit |-> Within(or(o, "gasLimit", 30000000), U64),
     gas_price |-> Within(or(o, "maxFeePerGas", or(o, "gasPrice", 0)), U128),
     gas_priority_fee |-> IF "maxPriorityFeePerGas" \in DOMAIN o
                          THEN Within(o["maxPriorityFeePerGas"], U128) ELSE None,
     nonce |-> Within(or(o, "nonce", 0), U64),
     access_list |-> [i \in DOMAIN or(o, "accessList", <<>>) |->
                        LET e == o["accessList"][i]
                        IN [address |-> e.address, keys |-> or(e, "storageKeys", <<>>)]],
     blob_hashes |-> or(o, "blobVersionedHashes", <<>>),
     max_fee_per_blob_gas |-> Within(or(o, "maxFeePerBlobGas", 0), U128),
     authorization_list |-> [i \in DOMAIN or(o, "authorizationList", <<>>) |->
                               LET a == o["authorizationList"][i]
                               IN [chain_id |-> Within(a.chainId, U256), address |-> a.address,
                                   nonce |-> Within(a.nonce, U64), y_parity |-> a.yParity]],
     value |-> Within(or(o, "value", 0), U256),
     chain_id |-> Within(or(o, "chainId", instance.defaults.chainId), U64)]

AskedBlock(o) ==
    [number |-> Within(BlockField(o, "number", 0), U64),
     timestamp |-> Within(BlockField(o, "timestamp", 0), U64),
     gas_limit |-> Within(BlockField(o, "gasLimit", 30000000), U64),
     beneficiary |-> BlockField(o, "coinbase", Zeros),
     prevrandao |-> BlockField(o, "prevRandao", Zeros),
     basefee |-> Within(BlockField(o, "baseFeePerGas", 0), U64),
     excess |-> Within(BlockField(o, "excessBlobGas", 0), U64)]

\* The hardfork by its name or its number.
AskedFork(o) ==
    IF "spec" \notin DOMAIN o THEN instance.defaults.spec
    ELSE IF "name" \in DOMAIN o["spec"] THEN Hardfork[o["spec"].name]
    ELSE o["spec"].id

Known(fork) == \E name \in DOMAIN Hardfork : fork = Hardfork[name]

\* The rules a caller does not want checked.
Waived(entry, o) ==
    LET off == [base_fee |-> "disableBaseFee", balance |-> "disableBalanceCheck",
                block_gas_limit |-> "disableBlockGasLimit", eip3607 |-> "disableEip3607"]
    IN {rule \in DOMAIN off : or(o, off[rule], FALSE)}
         \cup IF or(o, "checkNonce", entry # "call") THEN {} ELSE {"nonce"}

-----------------------------------------------------------------------------
TypeOK ==
    /\ store \in [Addr -> [balance : Nat, nonce : 0..MaxNonce]]
    /\ phase \in {"idle", "running", "committing", "done", "dead"}
    /\ instance \in Instances
    /\ DOMAIN pending \subseteq Addr
    /\ phase = "running" =>
         /\ call.tx.gas_limit \in 0..U64 /\ call.tx.nonce \in 0..U64
         /\ call.tx.gas_price \in 0..U128 /\ call.tx.value \in 0..U256
         /\ call.cfg.spec \in 0..AMSTERDAM
    /\ phase = "committing" => DOMAIN pending # {} /\ call.commits
    /\ \A c \in DOMAIN paid : paid[c] \in Nat
    /\ torn \subseteq program

\* What revm is given is what the caller asked for: every option arrives in its
\* field or has its documented default, whether the extras were sent or left out.
\* A hardfork the artifact does not know runs as CANCUN if its number fits in a
\* byte (UnknownForkIsCancun is about all others).
AskedIsServed ==
    phase = "running" =>
        /\ call.tx = AskedTx(call.entry, call.options)
        /\ call.block = AskedBlock(call.options)
        /\ LET fork == AskedFork(call.options)
           IN /\ Known(fork) => call.cfg.spec = fork
              /\ fork \in 0..255 /\ ~ Known(fork) => call.cfg.spec = Hardfork["CANCUN"]

\* A rule is skipped if and only if the caller asked for that; an artifact that
\* cannot skip it says so instead of rejecting the call by that very rule.
SwitchesHonoured ==
    phase = "done" =>
        LET waived == Waived(call.entry, call.options)
        IN /\ outcome.status = "rejected" => outcome.rule \notin waived
           /\ outcome.status = "ran" => call.broken \subseteq waived

\* Only a transaction the chain would accept is written to the store, its nonce
\* apart if the caller had that not checked, and only if he wanted it written,
\* even where the first account written is left as it was.
CommittedIsValid ==
    [][phase = "committing" /\ pending = Finished(call.tx, call.cfg, outcome.success) =>
        LET o == call.options
        IN /\ call.entry \in {"transact", "create"}
           /\ or(o, "commit", TRUE) /\ or(o, "returnState", TRUE)
           /\ Broken(AskedTx(call.entry, o), AskedBlock(o), store)
                \subseteq IF or(o, "checkNonce", TRUE) THEN {} ELSE {"nonce"}]_<<store, pending>>

\* The accounts together never have more for a call that was committed, though
\* a simulation may lend its sender what it is to send.
NothingInvented == phase = "done" /\ outcome.status = "ran" => Funds(store) <= call.funds

\* A payment with the nonce checked is made once, however often it is sent,
\* unless the store threw after it credited the recipient and before it wrote
\* the sender; a sender whose address sorts before is safe even then.
PaidOnce ==
    \A c \in DOMAIN paid : paid[c] > 1 => c \in torn /\ Recipient(c) < Sender(c)

\* A hardfork number this artifact does not know runs as CANCUN, whatever number
\* it is (spec.ts:10-12).
UnknownForkIsCancun ==
    phase = "running" /\ ~ Known(AskedFork(call.options))
        => call.cfg.spec = Hardfork["CANCUN"]
=============================================================================
