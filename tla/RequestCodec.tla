---------------------------- MODULE RequestCodec ----------------------------
(***************************************************************************)
(* A request on its way from the caller's options to the transaction and   *)
(* the block revm is given: which option goes to which field, what becomes *)
(* of one that is left out, and of a number too large for its field.       *)
(*                                                                         *)
(* Options, the block among them, and the entries of an access list are    *)
(* functions whose domain is the fields the caller wrote.  The blob is a   *)
(* record of its fields (RequestBounds has their lengths), and its extras  *)
(* are a sequence, empty when the section is left out.                     *)
(***************************************************************************)
EXTENDS Wire, Integers, Sequences

CONSTANTS None,
          Zeros,            \* a fixed-size field nothing is copied to
          U64, U128, U256   \* the largest number of each width

ASSUME CodecAssumption ==
    /\ U64 \in Nat /\ U128 \in Nat /\ U256 \in Nat
    /\ 30000000 < U64 /\ U64 < U128 /\ U128 < U256

DefaultGasLimit == 30000000

\* The package's own table of flags, and its table of hardforks.
Flags == [COMMIT |-> 0, CREATE |-> 1, RELAX_VALIDATION |-> 2, CHECK_NONCE |-> 3,
          DISABLE_BASE_FEE |-> 4, DISABLE_BALANCE_CHECK |-> 5,
          DISABLE_BLOCK_GAS_LIMIT |-> 6, DISABLE_EIP3607 |-> 7]

SpecNames == <<"FRONTIER", "HOMESTEAD", "TANGERINE", "SPURIOUS_DRAGON", "BYZANTIUM",
               "PETERSBURG", "ISTANBUL", "BERLIN", "LONDON", "MERGE", "SHANGHAI",
               "CANCUN", "PRAGUE", "OSAKA", "AMSTERDAM">>

-----------------------------------------------------------------------------
(* Encoding.                                                               *)

given(o, f) == f \in DOMAIN o
or(o, f, default) == IF given(o, f) THEN o[f] ELSE default

\* Numbers saturate, but a byte is truncated.
clamp_Unchecked(number, max) == number
clamp(number, max) == IF number < 0 THEN 0 ELSE IF number > max THEN max ELSE number
byte(number) == number % 256

\* A hardfork is given by name or by number; a name that is unknown throws.
specToByte(spec, fallback) ==
    IF spec = None THEN fallback
    ELSE IF "id" \in DOMAIN spec THEN spec.id
    ELSE (CHOOSE i \in DOMAIN SpecNames : SpecNames[i] = spec.name) - 1

\* {...defaults.block, ...o.block}
blockOf(o, defaults) ==
    LET own == or(o, "block", [f \in {} |-> 0])
    IN [f \in DOMAIN own \cup DOMAIN defaults.block |-> or(own, f, or(defaults.block, f, 0))]

\* Without any of these the section is left out.
needsExtras_NonceForgotten(o, block) ==
    \/ \E f \in {"gasPrice", "maxFeePerGas", "maxPriorityFeePerGas", "txType",
                 "maxFeePerBlobGas"} : given(o, f)
    \/ \E f \in {"accessList", "blobVersionedHashes", "authorizationList"} :
           or(o, f, <<>>) # <<>>
    \/ or(block, "baseFeePerGas", 0) # 0
    \/ given(block, "excessBlobGas")
    \/ given(block, "prevRandao")
needsExtras(o, block) ==
    \/ \E f \in {"gasPrice", "maxFeePerGas", "maxPriorityFeePerGas", "txType",
                 "maxFeePerBlobGas"} : given(o, f)
    \/ or(o, "nonce", 0) # 0
    \/ \E f \in {"accessList", "blobVersionedHashes", "authorizationList"} :
           or(o, f, <<>>) # <<>>
    \/ or(block, "baseFeePerGas", 0) # 0
    \/ given(block, "excessBlobGas")
    \/ given(block, "prevRandao")

encodeExtras(o, block) ==
    [present |-> {bit \in 0..3 :
                    \/ bit = 0 /\ given(o, "maxPriorityFeePerGas")
                    \/ bit = 1 /\ given(o, "txType")
                    \/ bit = 2 /\ given(block, "excessBlobGas")
                    \/ bit = 3 /\ given(block, "prevRandao")},
     tx_type |-> byte(or(o, "txType", 0)),
     fee |-> clamp(or(o, "maxFeePerGas", or(o, "gasPrice", 0)), U128),
     priority |-> clamp(or(o, "maxPriorityFeePerGas", 0), U128),
     blob_fee |-> clamp(or(o, "maxFeePerBlobGas", 0), U128),
     basefee |-> clamp(or(block, "baseFeePerGas", 0), U64),
     nonce |-> clamp(or(o, "nonce", 0), U64),
     excess |-> clamp(or(block, "excessBlobGas", 0), U64),
     access |-> [i \in DOMAIN or(o, "accessList", <<>>) |->
                   [address |-> o["accessList"][i].address,
                    keys |-> or(o["accessList"][i], "storageKeys", <<>>)]],
     blobs |-> or(o, "blobVersionedHashes", <<>>),
     auths |-> [i \in DOMAIN or(o, "authorizationList", <<>>) |->
                  LET a == o["authorizationList"][i]
                  IN [chain_id |-> clamp(a.chainId, U256), address |-> a.address,
                      nonce |-> clamp(a.nonce, U64), y_parity |-> byte(a.yParity)]],
     prev_randao |-> or(block, "prevRandao", Zeros)]

encodeRequest(o, defaults, flags) ==
    LET block == blockOf(o, defaults)
    IN [spec |-> byte(specToByte(or(o, "spec", None), defaults.spec)),
        flags |-> flags,
        gas_limit |-> clamp(or(o, "gasLimit", DefaultGasLimit), U64),
        chain_id |-> clamp(or(o, "chainId", defaults.chainId), U64),
        number |-> clamp(or(block, "number", 0), U64),
        timestamp |-> clamp(or(block, "timestamp", 0), U64),
        block_gas_limit |-> clamp(or(block, "gasLimit", DefaultGasLimit), U64),
        caller |-> or(o, "from", Zeros),
        to |-> or(o, "to", Zeros),
        coinbase |-> or(block, "coinbase", Zeros),
        value |-> clamp(or(o, "value", 0), U256),
        data |-> or(o, "data", <<>>),
        extras |-> IF needsExtras(o, block) THEN <<encodeExtras(o, block)>> ELSE <<>>]

-----------------------------------------------------------------------------
(* Decoding.                                                               *)

\* TxExtras::default
NoExtras == [gas_price |-> 0, gas_priority_fee |-> None, tx_type |-> None, nonce |-> 0,
             access_list |-> <<>>, blob_hashes |-> <<>>, max_fee_per_blob_gas |-> 0,
             authorization_list |-> <<>>, basefee |-> 0, excess_blob_gas |-> None,
             prev_randao |-> None]

decode(x) ==
    LET if_present(bit, field) == IF bit \in x.present THEN field ELSE None
    IN [gas_price |-> x.fee,
        gas_priority_fee |-> if_present(0, x.priority),
        tx_type |-> if_present(1, x.tx_type),
        nonce |-> x.nonce,
        access_list |-> x.access,
        blob_hashes |-> x.blobs,
        max_fee_per_blob_gas |-> x.blob_fee,
        authorization_list |-> x.auths,
        basefee |-> x.basefee,
        excess_blob_gas |-> if_present(2, x.excess),
        prev_randao |-> if_present(3, x.prev_randao)]

decode_request(blob) ==
    [blob EXCEPT !.spec = spec_from_u8(@),
                 !.extras = IF @ = <<>> THEN NoExtras ELSE decode(@[1])]

\* The transaction, whose type revm's builder derives unless it is stated.
build_tx(req) ==
    LET x == req.extras
    IN [tx_type |-> x.tx_type, caller |-> req.caller,
        kind |-> IF is_create(req) THEN <<"create">> ELSE <<"call", req.to>>,
        data |-> req.data, gas_limit |-> req.gas_limit, gas_price |-> x.gas_price,
        gas_priority_fee |-> x.gas_priority_fee, nonce |-> x.nonce,
        access_list |-> x.access_list, blob_hashes |-> x.blob_hashes,
        max_fee_per_blob_gas |-> x.max_fee_per_blob_gas,
        authorization_list |-> x.authorization_list,
        value |-> req.value, chain_id |-> req.chain_id]

block_env(req) ==
    LET x == req.extras
    IN [number |-> req.number, timestamp |-> req.timestamp,
        gas_limit |-> req.block_gas_limit, beneficiary |-> req.coinbase,
        prevrandao |-> IF x.prev_randao = None THEN Zeros ELSE x.prev_randao,
        basefee |-> x.basefee,
        excess |-> IF x.excess_blob_gas = None THEN 0 ELSE x.excess_blob_gas]
=============================================================================
