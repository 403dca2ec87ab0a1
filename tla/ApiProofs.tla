------------------------------ MODULE ApiProofs ------------------------------
(***************************************************************************)
(* What holds of the entry points for any options, defaults and artifacts, *)
(* any state, any number of transactions and throws.                       *)
(***************************************************************************)
EXTENDS Api, FiniteSetTheorems, WellFoundedInduction, TLAPS

-----------------------------------------------------------------------------
(* What the proofs need of the request on its way.                         *)

FeeCap(o) == clamp(or(o, "maxFeePerGas", or(o, "gasPrice", 0)), U128)
NonceOf(o) == clamp(or(o, "nonce", 0), U64)

LEMMA ClampType ==
    ASSUME NEW n \in Int, NEW max \in Nat
    PROVE  clamp(n, max) \in 0..max /\ clamp(n, max) = Within(n, max)
  BY DEF clamp, Within

LEMMA RequestFields ==
    ASSUME NEW o, NEW d, NEW flags
    PROVE  LET block == blockOf(o, d)
               req == decode_request(encodeRequest(o, d, flags))
           IN /\ req.flags = flags
              /\ req.spec = spec_from_u8(byte(specToByte(or(o, "spec", None), d.spec)))
              /\ req.caller = or(o, "from", Zeros)
              /\ req.to = or(o, "to", Zeros)
              /\ req.data = or(o, "data", <<>>)
              /\ req.gas_limit = clamp(or(o, "gasLimit", DefaultGasLimit), U64)
              /\ req.value = clamp(or(o, "value", 0), U256)
              /\ req.chain_id = clamp(or(o, "chainId", d.chainId), U64)
              /\ req.number = clamp(or(block, "number", 0), U64)
              /\ req.timestamp = clamp(or(block, "timestamp", 0), U64)
              /\ req.block_gas_limit = clamp(or(block, "gasLimit", DefaultGasLimit), U64)
              /\ req.coinbase = or(block, "coinbase", Zeros)
              /\ req.extras = IF needsExtras(o, block) THEN decode(encodeExtras(o, block))
                              ELSE NoExtras
<1> DEFINE block == blockOf(o, d)
           blob == encodeRequest(o, d, flags)
           req == decode_request(blob)
<1>1. /\ blob.flags = flags
      /\ blob.spec = byte(specToByte(or(o, "spec", None), d.spec))
      /\ blob.caller = or(o, "from", Zeros)
      /\ blob.to = or(o, "to", Zeros)
      /\ blob.data = or(o, "data", <<>>)
      /\ blob.gas_limit = clamp(or(o, "gasLimit", DefaultGasLimit), U64)
      /\ blob.value = clamp(or(o, "value", 0), U256)
      /\ blob.chain_id = clamp(or(o, "chainId", d.chainId), U64)
      /\ blob.number = clamp(or(block, "number", 0), U64)
      /\ blob.timestamp = clamp(or(block, "timestamp", 0), U64)
      /\ blob.coinbase = or(block, "coinbase", Zeros)
      /\ blob.block_gas_limit = clamp(or(block, "gasLimit", DefaultGasLimit), U64)
      /\ blob.extras = IF needsExtras(o, block) THEN <<encodeExtras(o, block)>> ELSE <<>>
      /\ DOMAIN blob = {"spec", "flags", "gas_limit", "chain_id", "number", "timestamp",
                        "block_gas_limit", "caller", "to", "coinbase", "value", "data", "extras"}
  BY DEF encodeRequest
<1> HIDE DEF blob, block
<1>2. /\ req.flags = blob.flags /\ req.caller = blob.caller /\ req.to = blob.to
      /\ req.gas_limit = blob.gas_limit /\ req.value = blob.value
      /\ req.data = blob.data /\ req.chain_id = blob.chain_id
      /\ req.number = blob.number /\ req.timestamp = blob.timestamp
      /\ req.block_gas_limit = blob.block_gas_limit /\ req.coinbase = blob.coinbase
      /\ req.spec = spec_from_u8(blob.spec)
      /\ req.extras = IF blob.extras = <<>> THEN NoExtras ELSE decode(blob.extras[1])
  BY <1>1 DEF decode_request
<1>3. req.extras = IF needsExtras(o, block) THEN decode(encodeExtras(o, block)) ELSE NoExtras
  BY <1>1, <1>2
<1> HIDE DEF req
<1> QED
  BY <1>1, <1>2, <1>3 DEF req, blob, block

AccessOf(o) == [i \in DOMAIN or(o, "accessList", <<>>) |->
                  [address |-> o["accessList"][i].address,
                   keys |-> or(o["accessList"][i], "storageKeys", <<>>)]]
AuthsOf(o) == [i \in DOMAIN or(o, "authorizationList", <<>>) |->
                 LET a == o["authorizationList"][i]
                 IN [chain_id |-> clamp(a.chainId, U256), address |-> a.address,
                     nonce |-> clamp(a.nonce, U64), y_parity |-> byte(a.yParity)]]
Stated(o, f, number) == IF given(o, f) THEN number ELSE None

\* Left out or sent, the extras say the same.
LEMMA ExtrasFields ==
    ASSUME NEW o, NEW block
    PROVE  LET x == IF needsExtras(o, block) THEN decode(encodeExtras(o, block)) ELSE NoExtras
           IN /\ x.gas_price = FeeCap(o)
              /\ x.nonce = NonceOf(o)
              /\ x.basefee = clamp(or(block, "baseFeePerGas", 0), U64)
              /\ x.gas_priority_fee = Stated(o, "maxPriorityFeePerGas",
                                             clamp(or(o, "maxPriorityFeePerGas", 0), U128))
              /\ x.tx_type = Stated(o, "txType", byte(or(o, "txType", 0)))
              /\ x.access_list = AccessOf(o)
              /\ x.blob_hashes = or(o, "blobVersionedHashes", <<>>)
              /\ x.max_fee_per_blob_gas = clamp(or(o, "maxFeePerBlobGas", 0), U128)
              /\ x.authorization_list = AuthsOf(o)
              /\ x.excess_blob_gas = Stated(block, "excessBlobGas",
                                            clamp(or(block, "excessBlobGas", 0), U64))
              /\ x.prev_randao = Stated(block, "prevRandao", or(block, "prevRandao", Zeros))
<1>1. CASE needsExtras(o, block)
  <2> DEFINE x == encodeExtras(o, block)
  <2>1. /\ x.present = {bit \in 0..3 :
                          \/ bit = 0 /\ given(o, "maxPriorityFeePerGas")
                          \/ bit = 1 /\ given(o, "txType")
                          \/ bit = 2 /\ given(block, "excessBlobGas")
                          \/ bit = 3 /\ given(block, "prevRandao")}
        /\ x.tx_type = byte(or(o, "txType", 0))
        /\ x.fee = FeeCap(o)
        /\ x.priority = clamp(or(o, "maxPriorityFeePerGas", 0), U128)
        /\ x.blob_fee = clamp(or(o, "maxFeePerBlobGas", 0), U128)
        /\ x.basefee = clamp(or(block, "baseFeePerGas", 0), U64)
        /\ x.nonce = NonceOf(o)
        /\ x.excess = clamp(or(block, "excessBlobGas", 0), U64)
        /\ x.access = AccessOf(o)
        /\ x.blobs = or(o, "blobVersionedHashes", <<>>)
        /\ x.auths = AuthsOf(o)
        /\ x.prev_randao = or(block, "prevRandao", Zeros)
    BY DEF encodeExtras, FeeCap, NonceOf, AccessOf, AuthsOf
  <2> HIDE DEF x
  <2>2. /\ 0 \in x.present <=> given(o, "maxPriorityFeePerGas")
        /\ 1 \in x.present <=> given(o, "txType")
        /\ 2 \in x.present <=> given(block, "excessBlobGas")
        /\ 3 \in x.present <=> given(block, "prevRandao")
    BY <2>1
  <2>3. /\ decode(x).gas_price = x.fee
        /\ decode(x).gas_priority_fee = IF 0 \in x.present THEN x.priority ELSE None
        /\ decode(x).tx_type = IF 1 \in x.present THEN x.tx_type ELSE None
        /\ decode(x).nonce = x.nonce
        /\ decode(x).access_list = x.access
        /\ decode(x).blob_hashes = x.blobs
        /\ decode(x).max_fee_per_blob_gas = x.blob_fee
        /\ decode(x).authorization_list = x.auths
        /\ decode(x).basefee = x.basefee
        /\ decode(x).excess_blob_gas = IF 2 \in x.present THEN x.excess ELSE None
        /\ decode(x).prev_randao = IF 3 \in x.present THEN x.prev_randao ELSE None
    BY DEF decode
  <2> QED
    BY <1>1, <2>1, <2>2, <2>3 DEF x, Stated
<1>2. CASE ~ needsExtras(o, block)
  <2>1. /\ or(o, "nonce", 0) = 0
        /\ or(block, "baseFeePerGas", 0) = 0
        /\ or(o, "maxFeePerGas", or(o, "gasPrice", 0)) = 0
        /\ or(o, "maxFeePerBlobGas", 0) = 0
        /\ or(o, "accessList", <<>>) = <<>>
        /\ or(o, "blobVersionedHashes", <<>>) = <<>>
        /\ or(o, "authorizationList", <<>>) = <<>>
        /\ ~ given(o, "maxPriorityFeePerGas") /\ ~ given(o, "txType")
        /\ ~ given(block, "excessBlobGas") /\ ~ given(block, "prevRandao")
    BY <1>2 DEF needsExtras, or, given
  <2>2. clamp(0, U64) = 0 /\ clamp(0, U128) = 0
    BY CodecAssumption DEF clamp
  <2>3. AccessOf(o) = <<>> /\ AuthsOf(o) = <<>>
    BY <2>1 DEF AccessOf, AuthsOf
  <2> QED
    BY <1>2, <2>1, <2>2, <2>3 DEF NoExtras, FeeCap, NonceOf, Stated
<1> QED
  BY <1>1, <1>2

-----------------------------------------------------------------------------
(* The switches.                                                           *)

\* The four flags are distinct from each other and from the rest, so what comes
\* out of the flag word is what the caller put in.
LEMMA FlagsSayIt ==
    ASSUME NEW o, NEW entry
    PROVE  LET flags == flagsOf(entry, o)
           IN /\ CHECK_NONCE \in flags <=> or(o, "checkNonce", entry # "call")
              /\ COMMIT \in flags <=> (entry # "call" /\ or(o, "commit", TRUE))
              /\ CREATE \in flags <=> entry = "create"
              /\ RELAX_VALIDATION \notin flags
              /\ DISABLE_BASE_FEE \in flags <=> or(o, "disableBaseFee", FALSE)
              /\ DISABLE_BALANCE_CHECK \in flags <=> or(o, "disableBalanceCheck", FALSE)
              /\ DISABLE_BLOCK_GAS_LIMIT \in flags <=> or(o, "disableBlockGasLimit", FALSE)
              /\ DISABLE_EIP3607 \in flags <=> or(o, "disableEip3607", FALSE)
<1>1. /\ 4 \in simulationFlags(o) <=> or(o, "disableBaseFee", FALSE)
      /\ 5 \in simulationFlags(o) <=> or(o, "disableBalanceCheck", FALSE)
      /\ 6 \in simulationFlags(o) <=> or(o, "disableBlockGasLimit", FALSE)
      /\ 7 \in simulationFlags(o) <=> or(o, "disableEip3607", FALSE)
      /\ \A n \in 0..3 : n \notin simulationFlags(o)
  <2>1. /\ DOMAIN switches = {"disableBaseFee", "disableBalanceCheck",
                              "disableBlockGasLimit", "disableEip3607"}
        /\ Flags[switches["disableBaseFee"]] = 4
        /\ Flags[switches["disableBalanceCheck"]] = 5
        /\ Flags[switches["disableBlockGasLimit"]] = 6
        /\ Flags[switches["disableEip3607"]] = 7
    BY DEF switches, Flags
  <2>2. \A n : n \in simulationFlags(o) <=>
                 \E g \in DOMAIN switches : or(o, g, FALSE) /\ n = Flags[switches[g]]
    BY DEF simulationFlags
  <2>3. \A g \in DOMAIN switches :
          /\ Flags[switches[g]] = 4 <=> g = "disableBaseFee"
          /\ Flags[switches[g]] = 5 <=> g = "disableBalanceCheck"
          /\ Flags[switches[g]] = 6 <=> g = "disableBlockGasLimit"
          /\ Flags[switches[g]] = 7 <=> g = "disableEip3607"
          /\ Flags[switches[g]] \notin 0..3
    BY <2>1
  <2>4. /\ "disableBaseFee" \in DOMAIN switches /\ "disableBalanceCheck" \in DOMAIN switches
        /\ "disableBlockGasLimit" \in DOMAIN switches /\ "disableEip3607" \in DOMAIN switches
    BY <2>1
  <2>5. 4 \in simulationFlags(o) <=> or(o, "disableBaseFee", FALSE)
    BY <2>2, <2>3, <2>4, ZenonT(30)
  <2>6. 5 \in simulationFlags(o) <=> or(o, "disableBalanceCheck", FALSE)
    BY <2>2, <2>3, <2>4, ZenonT(30)
  <2>7. 6 \in simulationFlags(o) <=> or(o, "disableBlockGasLimit", FALSE)
    BY <2>2, <2>3, <2>4, ZenonT(30)
  <2>8. 7 \in simulationFlags(o) <=> or(o, "disableEip3607", FALSE)
    BY <2>2, <2>3, <2>4, ZenonT(30)
  <2>9. \A n \in 0..3 : n \notin simulationFlags(o)
    <3> SUFFICES ASSUME NEW n \in 0..3, n \in simulationFlags(o) PROVE FALSE
      OBVIOUS
    <3>1. PICK g \in DOMAIN switches : n = Flags[switches[g]]
      BY <2>2, Zenon
    <3> QED
      BY <3>1, <2>3
  <2> QED
    BY <2>5, <2>6, <2>7, <2>8, <2>9
<1>2. /\ Flags["CHECK_NONCE"] = 3 /\ Flags["COMMIT"] = 0 /\ Flags["CREATE"] = 1
      /\ \A n : n \in flagsOf(entry, o) <=>
                   \/ n \in simulationFlags(o)
                   \/ n \in bits("CHECK_NONCE", or(o, "checkNonce", entry # "call"))
                   \/ n \in bits("COMMIT", entry # "call" /\ or(o, "commit", TRUE))
                   \/ n \in bits("CREATE", entry = "create")
  BY DEF flagsOf, Flags
<1>3. \A f, b, n : n \in bits(f, b) <=> (b /\ n = Flags[f])
  BY DEF bits
<1>4. /\ \A b : 3 \in bits("CHECK_NONCE", b) <=> b
      /\ \A b : 0 \in bits("COMMIT", b) <=> b
      /\ \A b : 1 \in bits("CREATE", b) <=> b
      /\ \A b, n : n # 3 => n \notin bits("CHECK_NONCE", b)
      /\ \A b, n : n # 0 => n \notin bits("COMMIT", b)
      /\ \A b, n : n # 1 => n \notin bits("CREATE", b)
  BY <1>2, <1>3
<1>5. 3 \in flagsOf(entry, o) <=> or(o, "checkNonce", entry # "call")
  <2>1. 3 \notin simulationFlags(o) /\ 3 # 0 /\ 3 # 1
    BY <1>1
  <2> QED
    BY <2>1, <1>2, <1>4, Zenon
<1>6. 0 \in flagsOf(entry, o) <=> (entry # "call" /\ or(o, "commit", TRUE))
  <2>1. 0 \notin simulationFlags(o) /\ 0 # 3 /\ 0 # 1
    BY <1>1
  <2> QED
    BY <2>1, <1>2, <1>4, Zenon
<1>7. 1 \in flagsOf(entry, o) <=> entry = "create"
  <2>1. 1 \notin simulationFlags(o) /\ 1 # 0 /\ 1 # 3
    BY <1>1
  <2> QED
    BY <2>1, <1>2, <1>4, Zenon
<1>8. \A n \in {2, 4, 5, 6, 7} : n \in flagsOf(entry, o) <=> n \in simulationFlags(o)
  <2>1. \A n \in {2, 4, 5, 6, 7} : n # 0 /\ n # 1 /\ n # 3
    OBVIOUS
  <2> QED
    BY <2>1, <1>2, <1>4, Zenon
<1>9. 2 \notin flagsOf(entry, o)
  BY <1>1, <1>8
<1> QED
  BY <1>1, <1>5, <1>6, <1>7, <1>8, <1>9, Zenon
     DEF CHECK_NONCE, COMMIT, CREATE, RELAX_VALIDATION, DISABLE_BASE_FEE,
     DISABLE_BALANCE_CHECK, DISABLE_BLOCK_GAS_LIMIT, DISABLE_EIP3607

\* A call that is not refused skips the rules its caller waived: either no switch
\* is on, or the artifact has them.
LEMMA SkippedIsWaived ==
    ASSUME NEW o, NEW entry, NEW d, ~ refused(o, flagsOf(entry, o))
    PROVE  LET req == decode_request(encodeRequest(o, d, flagsOf(entry, o)))
           IN Skipped(apply_cfg(req, instance.features)) = Waived(entry, o)
<1> DEFINE flags == flagsOf(entry, o)
           req == decode_request(encodeRequest(o, d, flags))
           cfg == apply_cfg(req, instance.features)
           off == [base_fee |-> "disableBaseFee", balance |-> "disableBalanceCheck",
                   block_gas_limit |-> "disableBlockGasLimit", eip3607 |-> "disableEip3607"]
           rules == {"base_fee", "balance", "block_gas_limit", "eip3607"}
<1>1. req.flags = flags
  BY RequestFields
<1>2. /\ cfg.disable_nonce_check = (~ CHECK_NONCE \in flags)
      /\ cfg.switches = IF "relaxed-validation" \in instance.features
                        THEN from_flags(flags) ELSE from_flags({})
  BY <1>1 DEF apply_cfg, checks_nonce
<1>3. cfg.disable_nonce_check <=> ~ or(o, "checkNonce", entry # "call")
  BY <1>2, FlagsSayIt
<1>4. /\ DOMAIN cfg.switches = rules
      /\ \A rule \in rules : cfg.switches[rule] <=> or(o, off[rule], FALSE)
  <2>1. CASE "relaxed-validation" \in instance.features
    <3>1. cfg.switches = from_flags(flags)
      BY <1>2, <2>1
    <3> HIDE DEF cfg, flags
    <3>2. /\ DOMAIN cfg.switches = rules
          /\ cfg.switches["base_fee"] = (RELAX_VALIDATION \in flags \/ DISABLE_BASE_FEE \in flags)
          /\ cfg.switches["balance"]
               = (RELAX_VALIDATION \in flags \/ DISABLE_BALANCE_CHECK \in flags)
          /\ cfg.switches["block_gas_limit"]
               = (RELAX_VALIDATION \in flags \/ DISABLE_BLOCK_GAS_LIMIT \in flags)
          /\ cfg.switches["eip3607"] = (DISABLE_EIP3607 \in flags)
      BY <3>1 DEF from_flags
    <3>3. /\ off["base_fee"] = "disableBaseFee"
          /\ off["balance"] = "disableBalanceCheck"
          /\ off["block_gas_limit"] = "disableBlockGasLimit"
          /\ off["eip3607"] = "disableEip3607"
      OBVIOUS
    <3> QED
      BY <3>2, <3>3, FlagsSayIt, ZenonT(30) DEF flags
  <2>2. CASE "relaxed-validation" \notin instance.features
    <3>1. cfg.switches = from_flags({})
      BY <1>2, <2>2
    <3>2. DOMAIN cfg.switches = rules /\ \A rule \in rules : ~ cfg.switches[rule]
      <4>1. /\ DOMAIN from_flags({}) = rules
            /\ ~ from_flags({})["base_fee"] /\ ~ from_flags({})["balance"]
            /\ ~ from_flags({})["block_gas_limit"] /\ ~ from_flags({})["eip3607"]
        BY DEF from_flags
      <4> QED
        BY <3>1, <4>1
    <3>3. ~ hasValidationSwitches(instance)
      BY <2>2 DEF hasValidationSwitches, build_config
    <3>4. flags \cap SIMULATION_FLAGS = {}
      BY <3>3 DEF refused
    <3>5. /\ ~ or(o, "disableBaseFee", FALSE) /\ ~ or(o, "disableBalanceCheck", FALSE)
          /\ ~ or(o, "disableBlockGasLimit", FALSE) /\ ~ or(o, "disableEip3607", FALSE)
      BY <3>4, FlagsSayIt DEF SIMULATION_FLAGS, Flags, DISABLE_BASE_FEE,
         DISABLE_BALANCE_CHECK, DISABLE_BLOCK_GAS_LIMIT, DISABLE_EIP3607
    <3>6. /\ off["base_fee"] = "disableBaseFee"
          /\ off["balance"] = "disableBalanceCheck"
          /\ off["block_gas_limit"] = "disableBlockGasLimit"
          /\ off["eip3607"] = "disableEip3607"
      OBVIOUS
    <3> HIDE DEF off, cfg, flags
    <3> QED
      BY <3>2, <3>5, <3>6
  <2> QED
    BY <2>1, <2>2
<1> HIDE DEF cfg
<1>5. Skipped(cfg) = {rule \in rules : or(o, off[rule], FALSE)}
                       \cup IF or(o, "checkNonce", entry # "call") THEN {} ELSE {"nonce"}
  BY <1>3, <1>4 DEF Skipped
<1> QED
  BY <1>5 DEF Waived, cfg

WaivedOnly ==
    /\ phase = "running" => Skipped(call.cfg) = Waived(call.entry, call.options)
    /\ phase = "committing" => /\ outcome.status = "ran"
                               /\ call.broken \subseteq Waived(call.entry, call.options)

\* A rule is skipped if and only if the caller waived it, whatever artifact is
\* used and whichever flags the entry point sets of its own.
THEOREM SwitchesAlwaysHonoured == Spec => []SwitchesHonoured
<1> DEFINE Inv == WaivedOnly /\ SwitchesHonoured
<1>1. Init => Inv
  BY DEF Init, WaivedOnly, SwitchesHonoured
<1>2. Inv /\ [Next]_vars => Inv'
  <2> SUFFICES ASSUME Inv, [Next]_vars PROVE Inv'
    OBVIOUS
  <2>1. CASE \E c \in program : Refuse(c)
    BY <2>1 DEF Refuse, WaivedOnly, SwitchesHonoured
  <2>2. ASSUME NEW c \in program, Start(c) PROVE Inv'
    <3>1. Skipped(call'.cfg) = Waived(c.entry, c.options)
      BY <2>2, SkippedIsWaived DEF Start
    <3>2. call'.entry = c.entry /\ call'.options = c.options /\ phase' = "running"
      BY <2>2 DEF Start
    <3> QED
      BY <3>1, <3>2 DEF WaivedOnly, SwitchesHonoured, Skipped, Waived
  <2>3. ASSUME NEW rule \in call.broken \cup {"other"}, Reject(rule) PROVE Inv'
    <3>1. "other" \notin Waived(call.entry, call.options)
      BY DEF Waived
    <3> QED
      BY <2>3, <3>1 DEF Reject, WaivedOnly, SwitchesHonoured, Waived
  <2>4. ASSUME NEW success \in BOOLEAN, Execute(success) PROVE Inv'
    BY <2>4 DEF Execute, WaivedOnly, SwitchesHonoured, Waived
  <2>5. ASSUME NEW a \in DOMAIN pending, WriteAccount(a) PROVE Inv'
    BY <2>5 DEF WriteAccount, WaivedOnly, SwitchesHonoured, Waived
  <2>6. CASE Throw
    BY <2>6 DEF Throw, WaivedOnly, SwitchesHonoured
  <2>7. CASE Return \/ Recreate
    BY <2>7 DEF Return, Recreate, Clear, WaivedOnly, SwitchesHonoured
  <2>8. CASE UNCHANGED vars
    BY <2>8 DEF vars, WaivedOnly, SwitchesHonoured, Waived, Skipped
  <2> QED
    BY <2>1, <2>2, <2>3, <2>4, <2>5, <2>6, <2>7, <2>8 DEF Next
<1> QED
  BY <1>1, <1>2, PTL DEF Spec

-----------------------------------------------------------------------------
(* The call under way.                                                     *)

requestOf(c, d) == decode_request(encodeRequest(c.options, d, flagsOf(c.entry, c.options)))

\* The package numbers the hardforks it names as revm does.
LEMMA SpecNumber ==
    ASSUME NEW spec \in [id : Int] \cup [name : DOMAIN Hardfork], NEW fallback
    PROVE  /\ specToByte(spec, fallback)
                = IF "name" \in DOMAIN spec THEN Hardfork[spec.name] ELSE spec.id
           /\ specToByte(spec, fallback) \in Int
<1>1. DOMAIN Hardfork = {SpecNames[i] : i \in 1..15} /\ DOMAIN SpecNames = 1..15
  BY SMTT(60) DEF Hardfork, SpecNames
<1>2. \A i \in 1..15 : Hardfork[SpecNames[i]] = i - 1
  BY SMTT(60) DEF Hardfork, SpecNames
<1>3. spec # None
  BY DefaultsAssumption
<1>4. CASE spec \in [id : Int]
  <2>1. DOMAIN spec = {"id"} /\ spec.id \in Int
    BY <1>4
  <2> QED
    BY <1>3, <2>1 DEF specToByte
<1>5. CASE spec \in [name : DOMAIN Hardfork]
  <2>1. DOMAIN spec = {"name"} /\ spec.name \in DOMAIN Hardfork
    BY <1>5
  <2> DEFINE i == CHOOSE i \in DOMAIN SpecNames : SpecNames[i] = spec.name
  <2>2. i \in 1..15 /\ SpecNames[i] = spec.name
    BY <1>1, <2>1
  <2>3. specToByte(spec, fallback) = i - 1
    BY <1>3, <2>1 DEF specToByte
  <2> HIDE DEF i
  <2> QED
    BY <1>2, <2>1, <2>2, <2>3
<1> QED
  BY <1>4, <1>5

\* The hardforks are the numbers from 0 to 14.
LEMMA KnownForks ==
    /\ \A m : Known(m) <=> m \in 0..14
    /\ Hardfork["CANCUN"] = 11
<1>1. DOMAIN Hardfork = {SpecNames[i] : i \in 1..15} /\ DOMAIN SpecNames = 1..15
  BY SMTT(60) DEF Hardfork, SpecNames
<1>2. \A i \in 1..15 : Hardfork[SpecNames[i]] = i - 1
  BY SMTT(60) DEF Hardfork, SpecNames
<1>3. Hardfork["CANCUN"] = 11
  BY DEF Hardfork
<1>4. \A m \in 0..14 : m + 1 \in 1..15 /\ Hardfork[SpecNames[m + 1]] = m
  BY <1>2
<1>5. \A i \in 1..15 : i - 1 \in 0..14
  OBVIOUS
<1>6. ASSUME NEW m \in 0..14 PROVE Known(m)
  BY <1>1, <1>4 DEF Known
<1>7. ASSUME NEW m, Known(m) PROVE m \in 0..14
  BY <1>1, <1>2, <1>5, <1>7 DEF Known
<1> QED
  BY <1>3, <1>6, <1>7

\* A number in its byte, and one there is no hardfork for.
LEMMA SpecArrives ==
    ASSUME NEW P \in Programs, NEW c \in P, instance \in Instances
    PROVE  LET fork == AskedFork(c.options)
               served == spec_from_u8(byte(specToByte(or(c.options, "spec", None),
                                                      instance.defaults.spec)))
           IN /\ Known(fork) => served = fork
              /\ fork \in 0..255 /\ ~ Known(fork) => served = Hardfork["CANCUN"]
<1> DEFINE o == c.options
           d == instance.defaults
           n == specToByte(or(o, "spec", None), d.spec)
           fork == AskedFork(o)
<1>1. d \in Defaults /\ d.spec \in Int
  BY DefaultsAssumption DEF Instances
<1>2. or(o, "spec", [id |-> 0]) \in [id : Int] \cup [name : DOMAIN Hardfork]
  BY OptionsAssumption
<1> HIDE DEF o
<1>3. n = fork /\ n \in Int
  <2>1. CASE "spec" \in DOMAIN o
    <3>1. or(o, "spec", None) = o["spec"]
          /\ o["spec"] \in [id : Int] \cup [name : DOMAIN Hardfork]
      BY <1>2, <2>1 DEF or, given
    <3> QED
      BY <2>1, <3>1, SpecNumber DEF AskedFork
  <2>2. CASE "spec" \notin DOMAIN o
    <3>1. or(o, "spec", None) = None
      BY <2>2 DEF or, given
    <3> QED
      BY <1>1, <2>2, <3>1 DEF specToByte, AskedFork
  <2> QED
    BY <2>1, <2>2
<1> HIDE DEF n, fork, d
<1>4. n \in 0..255 => byte(n) = n
  BY <1>3 DEF byte
<1>5. /\ Known(fork) => spec_from_u8(byte(n)) = fork
      /\ fork \in 0..255 /\ ~ Known(fork) => spec_from_u8(byte(n)) = Hardfork["CANCUN"]
  <2>1. Known(fork) <=> fork \in 0..14
    BY KnownForks
  <2> QED
    BY <1>3, <1>4, <2>1, KnownForks DEF spec_from_u8, AMSTERDAM, CANCUN
<1> QED
  BY <1>5 DEF n, o, d, fork

\* What is clamped is brought within its field.
LEMMA BlockFieldArrives ==
    ASSUME NEW o, NEW f, NEW default \in Int, NEW max \in Nat,
           or(or(o, "block", nothing), f, 0) \in Int,
           or(instance.defaults.block, f, 0) \in Int
    PROVE  clamp(or(blockOf(o, instance.defaults), f, default), max)
             = Within(BlockField(o, f, default), max)
<1>1. or(blockOf(o, instance.defaults), f, default) = BlockField(o, f, default)
  BY DEF blockOf, BlockField, nothing, or, given
<1>2. BlockField(o, f, default) \in Int
  BY DEF BlockField, or, given
<1> QED
  BY <1>1, <1>2, ClampType

\* Whatever the options, revm is given what they ask for.
LEMMA RequestArrives ==
    ASSUME NEW P \in Programs, NEW c \in P, instance \in Instances
    PROVE  LET req == requestOf(c, instance.defaults)
           IN /\ build_tx(req) = AskedTx(c.entry, c.options)
              /\ block_env(req) = AskedBlock(c.options)
              /\ LET fork == AskedFork(c.options)
                 IN /\ Known(fork) => req.spec = fork
                    /\ fork \in 0..255 /\ ~ Known(fork) => req.spec = Hardfork["CANCUN"]
<1> DEFINE o == c.options
           d == instance.defaults
           block == blockOf(o, d)
           req == requestOf(c, d)
           x == req.extras
<1>1. d \in Defaults
  BY DEF Instances
<1>2. U64 \in Nat /\ U128 \in Nat /\ U256 \in Nat /\ DefaultGasLimit \in Int
  BY CodecAssumption, SMT DEF DefaultGasLimit
<1>3. /\ or(o, "gasLimit", 0) \in Int /\ or(o, "value", 0) \in Int /\ or(o, "nonce", 0) \in Int
      /\ or(o, "gasPrice", 0) \in Int /\ or(o, "maxFeePerGas", 0) \in Int
      /\ or(o, "maxPriorityFeePerGas", 0) \in Int /\ or(o, "maxFeePerBlobGas", 0) \in Int
      /\ or(o, "chainId", 0) \in Int /\ d.chainId \in Int
      /\ or(o, "txType", 0) \in 0..255
  <2>1. /\ \A f \in {"gasLimit", "gasPrice", "maxFeePerGas", "maxPriorityFeePerGas",
                     "maxFeePerBlobGas", "nonce", "value", "chainId"} : or(o, f, 0) \in Int
        /\ or(o, "txType", 0) \in 0..255
    BY OptionsAssumption
  <2>2. d.chainId \in Int
    BY <1>1, DefaultsAssumption
  <2> HIDE DEF o, d
  <2> QED
    BY <2>1, <2>2
<1>4. \A i \in DOMAIN or(o, "authorizationList", <<>>) :
         LET a == o["authorizationList"][i]
         IN a.chainId \in Int /\ a.nonce \in Int /\ a.yParity \in {0, 1}
  BY OptionsAssumption
<1>5. \A n \in Int, max \in Nat : clamp(n, max) = Within(n, max)
  BY ClampType
<1>6. \A f \in {"number", "timestamp", "gasLimit", "baseFeePerGas", "excessBlobGas"} :
         /\ or(or(o, "block", nothing), f, 0) \in Int
         /\ or(d.block, f, 0) \in Int
  BY <1>1, DefaultsAssumption DEF BlockTyped
<1>7. /\ or(or(o, "block", nothing), "prevRandao", Zeros) # None
      /\ or(d.block, "prevRandao", Zeros) # None
  BY <1>1, DefaultsAssumption DEF BlockTyped
<1>8. /\ req.flags = flagsOf(c.entry, o)
      /\ req.spec = spec_from_u8(byte(specToByte(or(o, "spec", None), d.spec)))
      /\ req.caller = or(o, "from", Zeros)
      /\ req.to = or(o, "to", Zeros)
      /\ req.data = or(o, "data", <<>>)
      /\ req.gas_limit = clamp(or(o, "gasLimit", DefaultGasLimit), U64)
      /\ req.value = clamp(or(o, "value", 0), U256)
      /\ req.chain_id = clamp(or(o, "chainId", d.chainId), U64)
      /\ req.number = clamp(or(block, "number", 0), U64)
      /\ req.timestamp = clamp(or(block, "timestamp", 0), U64)
      /\ req.block_gas_limit = clamp(or(block, "gasLimit", DefaultGasLimit), U64)
      /\ req.coinbase = or(block, "coinbase", Zeros)
      /\ x = IF needsExtras(o, block) THEN decode(encodeExtras(o, block)) ELSE NoExtras
  BY RequestFields DEF requestOf
<1> HIDE DEF req, o, d, block
<1>9. /\ x.gas_price = FeeCap(o)
      /\ x.nonce = NonceOf(o)
      /\ x.basefee = clamp(or(block, "baseFeePerGas", 0), U64)
      /\ x.gas_priority_fee = Stated(o, "maxPriorityFeePerGas",
                                     clamp(or(o, "maxPriorityFeePerGas", 0), U128))
      /\ x.tx_type = Stated(o, "txType", byte(or(o, "txType", 0)))
      /\ x.access_list = AccessOf(o)
      /\ x.blob_hashes = or(o, "blobVersionedHashes", <<>>)
      /\ x.max_fee_per_blob_gas = clamp(or(o, "maxFeePerBlobGas", 0), U128)
      /\ x.authorization_list = AuthsOf(o)
      /\ x.excess_blob_gas = Stated(block, "excessBlobGas",
                                    clamp(or(block, "excessBlobGas", 0), U64))
      /\ x.prev_randao = Stated(block, "prevRandao", or(block, "prevRandao", Zeros))
  BY <1>8, ExtrasFields
<1> HIDE DEF x
<1>10. build_tx(req) = AskedTx(c.entry, o)
  <2> DEFINE asked == AskedTx(c.entry, o)
  <2>1. is_create(req) <=> c.entry = "create"
    BY <1>8, FlagsSayIt, Zenon DEF is_create
  <2>2. build_tx(req).kind = IF c.entry = "create" THEN <<"create">>
                             ELSE <<"call", or(o, "to", Zeros)>>
    <3>1. build_tx(req).kind = IF is_create(req) THEN <<"create">> ELSE <<"call", req.to>>
      BY DEF build_tx
    <3> QED
      BY <1>8, <2>1, <3>1, Zenon
  <2>3. /\ clamp(or(o, "gasLimit", DefaultGasLimit), U64)
             = Within(or(o, "gasLimit", 30000000), U64)
        /\ FeeCap(o) = Within(or(o, "maxFeePerGas", or(o, "gasPrice", 0)), U128)
        /\ NonceOf(o) = Within(or(o, "nonce", 0), U64)
        /\ clamp(or(o, "maxFeePerBlobGas", 0), U128) = Within(or(o, "maxFeePerBlobGas", 0), U128)
        /\ clamp(or(o, "value", 0), U256) = Within(or(o, "value", 0), U256)
        /\ clamp(or(o, "chainId", d.chainId), U64) = Within(or(o, "chainId", d.chainId), U64)
    <3>1. /\ or(o, "gasLimit", DefaultGasLimit) \in Int
          /\ or(o, "maxFeePerGas", or(o, "gasPrice", 0)) \in Int
          /\ or(o, "chainId", d.chainId) \in Int
      BY <1>2, <1>3 DEF or, given
    <3> QED
      BY <1>2, <1>3, <1>5, <3>1, SMT DEF FeeCap, NonceOf, DefaultGasLimit
  <2>4. Stated(o, "maxPriorityFeePerGas", clamp(or(o, "maxPriorityFeePerGas", 0), U128))
          = IF "maxPriorityFeePerGas" \in DOMAIN o
            THEN Within(o["maxPriorityFeePerGas"], U128) ELSE None
    BY <1>2, <1>3, <1>5 DEF Stated, or, given
  <2>5. Stated(o, "txType", byte(or(o, "txType", 0))) = or(o, "txType", None)
    <3>1. byte(or(o, "txType", 0)) = or(o, "txType", 0)
      BY <1>3 DEF byte
    <3> QED
      BY <3>1 DEF Stated, or, given
  <2>6. AuthsOf(o) = asked.authorization_list
    <3>1. asked.authorization_list
            = [i \in DOMAIN or(o, "authorizationList", <<>>) |->
                 LET a == o["authorizationList"][i]
                 IN [chain_id |-> Within(a.chainId, U256), address |-> a.address,
                     nonce |-> Within(a.nonce, U64), y_parity |-> a.yParity]]
      BY DEF AskedTx
    <3>2. ASSUME NEW i \in DOMAIN or(o, "authorizationList", <<>>)
          PROVE  LET a == o["authorizationList"][i]
                 IN /\ clamp(a.chainId, U256) = Within(a.chainId, U256)
                    /\ clamp(a.nonce, U64) = Within(a.nonce, U64)
                    /\ byte(a.yParity) = a.yParity
      BY <1>2, <1>4, <1>5 DEF byte
    <3> QED
      BY <3>1, <3>2 DEF AuthsOf
  <2>7. /\ asked.access_list = AccessOf(o)
        /\ asked.tx_type = or(o, "txType", None)
        /\ asked.kind = IF c.entry = "create" THEN <<"create">> ELSE <<"call", or(o, "to", Zeros)>>
    BY DEF AskedTx, AccessOf
  <2>8. /\ build_tx(req).tx_type = asked.tx_type
        /\ build_tx(req).caller = asked.caller
        /\ build_tx(req).kind = asked.kind
        /\ build_tx(req).data = asked.data
        /\ build_tx(req).gas_limit = asked.gas_limit
        /\ build_tx(req).gas_price = asked.gas_price
        /\ build_tx(req).gas_priority_fee = asked.gas_priority_fee
        /\ build_tx(req).nonce = asked.nonce
        /\ build_tx(req).access_list = asked.access_list
        /\ build_tx(req).blob_hashes = asked.blob_hashes
        /\ build_tx(req).max_fee_per_blob_gas = asked.max_fee_per_blob_gas
        /\ build_tx(req).authorization_list = asked.authorization_list
        /\ build_tx(req).value = asked.value
        /\ build_tx(req).chain_id = asked.chain_id
    <3>1. /\ build_tx(req).tx_type = x.tx_type
          /\ build_tx(req).caller = req.caller
          /\ build_tx(req).data = req.data
          /\ build_tx(req).gas_limit = req.gas_limit
          /\ build_tx(req).gas_price = x.gas_price
          /\ build_tx(req).gas_priority_fee = x.gas_priority_fee
          /\ build_tx(req).nonce = x.nonce
          /\ build_tx(req).access_list = x.access_list
          /\ build_tx(req).blob_hashes = x.blob_hashes
          /\ build_tx(req).max_fee_per_blob_gas = x.max_fee_per_blob_gas
          /\ build_tx(req).authorization_list = x.authorization_list
          /\ build_tx(req).value = req.value
          /\ build_tx(req).chain_id = req.chain_id
      BY DEF build_tx, x
    <3>2. /\ asked.caller = or(o, "from", Zeros)
          /\ asked.data = or(o, "data", <<>>)
          /\ asked.gas_limit = Within(or(o, "gasLimit", 30000000), U64)
          /\ asked.gas_price = Within(or(o, "maxFeePerGas", or(o, "gasPrice", 0)), U128)
          /\ asked.gas_priority_fee = IF "maxPriorityFeePerGas" \in DOMAIN o
                                      THEN Within(o["maxPriorityFeePerGas"], U128) ELSE None
          /\ asked.nonce = Within(or(o, "nonce", 0), U64)
          /\ asked.blob_hashes = or(o, "blobVersionedHashes", <<>>)
          /\ asked.max_fee_per_blob_gas = Within(or(o, "maxFeePerBlobGas", 0), U128)
          /\ asked.value = Within(or(o, "value", 0), U256)
          /\ asked.chain_id = Within(or(o, "chainId", d.chainId), U64)
      BY SMT DEF AskedTx, d
    <3> HIDE DEF asked
    <3> QED
      BY <1>8, <1>9, <2>2, <2>3, <2>4, <2>5, <2>6, <2>7, <3>1, <3>2
  <2>9. build_tx(req) = [tx_type |-> build_tx(req).tx_type, caller |-> build_tx(req).caller,
                         kind |-> build_tx(req).kind, data |-> build_tx(req).data,
                         gas_limit |-> build_tx(req).gas_limit,
                         gas_price |-> build_tx(req).gas_price,
                         gas_priority_fee |-> build_tx(req).gas_priority_fee,
                         nonce |-> build_tx(req).nonce,
                         access_list |-> build_tx(req).access_list,
                         blob_hashes |-> build_tx(req).blob_hashes,
                         max_fee_per_blob_gas |-> build_tx(req).max_fee_per_blob_gas,
                         authorization_list |-> build_tx(req).authorization_list,
                         value |-> build_tx(req).value, chain_id |-> build_tx(req).chain_id]
    BY DEF build_tx
  <2>10. asked = [tx_type |-> asked.tx_type, caller |-> asked.caller,
                  kind |-> asked.kind, data |-> asked.data, gas_limit |-> asked.gas_limit,
                  gas_price |-> asked.gas_price, gas_priority_fee |-> asked.gas_priority_fee,
                  nonce |-> asked.nonce, access_list |-> asked.access_list,
                  blob_hashes |-> asked.blob_hashes,
                  max_fee_per_blob_gas |-> asked.max_fee_per_blob_gas,
                  authorization_list |-> asked.authorization_list,
                  value |-> asked.value, chain_id |-> asked.chain_id]
    BY SMTT(60) DEF AskedTx
  <2> HIDE DEF asked
  <2> QED
    BY <2>8, <2>9, <2>10 DEF asked
<1>11. block_env(req) = AskedBlock(o)
  <2>1. /\ U64 \in Nat /\ 0 \in Int
        /\ \A n \in 0..U64 : n # None
    BY <1>2, DefaultsAssumption
  <2>2. /\ clamp(or(block, "number", 0), U64) = Within(BlockField(o, "number", 0), U64)
        /\ clamp(or(block, "timestamp", 0), U64) = Within(BlockField(o, "timestamp", 0), U64)
        /\ clamp(or(block, "gasLimit", DefaultGasLimit), U64)
             = Within(BlockField(o, "gasLimit", DefaultGasLimit), U64)
        /\ clamp(or(block, "baseFeePerGas", 0), U64)
             = Within(BlockField(o, "baseFeePerGas", 0), U64)
        /\ clamp(or(block, "excessBlobGas", 0), U64)
             = Within(BlockField(o, "excessBlobGas", 0), U64)
    BY <1>2, <1>6, <2>1, BlockFieldArrives DEF block, d
  <2>3. /\ or(block, "coinbase", Zeros) = BlockField(o, "coinbase", Zeros)
        /\ or(block, "prevRandao", Zeros) = BlockField(o, "prevRandao", Zeros)
        /\ given(block, "prevRandao") => or(block, "prevRandao", Zeros) # None
        /\ or(block, "excessBlobGas", 0) = BlockField(o, "excessBlobGas", 0)
    BY <1>7 DEF block, d, blockOf, BlockField, nothing, or, given
  <2>4. BlockField(o, "excessBlobGas", 0) \in Int
    BY <1>6 DEF BlockField, d, or, given
  <2>5. (IF x.excess_blob_gas = None THEN 0 ELSE x.excess_blob_gas)
          = Within(BlockField(o, "excessBlobGas", 0), U64)
    <3>1. CASE given(block, "excessBlobGas")
      <4>1. clamp(or(block, "excessBlobGas", 0), U64) \in 0..U64
        BY <2>1, <2>3, <2>4, ClampType
      <4> QED
        BY <1>9, <2>1, <2>2, <3>1, <4>1 DEF Stated
    <3>2. CASE ~ given(block, "excessBlobGas")
      <4>1. or(block, "excessBlobGas", 0) = 0 /\ clamp(0, U64) = 0
        BY <2>1, <3>2 DEF or, clamp
      <4> QED
        BY <1>9, <2>2, <3>2, <4>1 DEF Stated
    <3> QED
      BY <3>1, <3>2
  <2>6. (IF x.prev_randao = None THEN Zeros ELSE x.prev_randao)
          = BlockField(o, "prevRandao", Zeros)
    BY <1>9, <2>3 DEF Stated, or
  <2>7. block_env(req)
          = [number |-> req.number, timestamp |-> req.timestamp,
             gas_limit |-> req.block_gas_limit, beneficiary |-> req.coinbase,
             prevrandao |-> IF x.prev_randao = None THEN Zeros ELSE x.prev_randao,
             basefee |-> x.basefee,
             excess |-> IF x.excess_blob_gas = None THEN 0 ELSE x.excess_blob_gas]
    BY DEF block_env, x
  <2>8. AskedBlock(o)
          = [number |-> Within(BlockField(o, "number", 0), U64),
             timestamp |-> Within(BlockField(o, "timestamp", 0), U64),
             gas_limit |-> Within(BlockField(o, "gasLimit", DefaultGasLimit), U64),
             beneficiary |-> BlockField(o, "coinbase", Zeros),
             prevrandao |-> BlockField(o, "prevRandao", Zeros),
             basefee |-> Within(BlockField(o, "baseFeePerGas", 0), U64),
             excess |-> Within(BlockField(o, "excessBlobGas", 0), U64)]
    BY SMT DEF AskedBlock, DefaultGasLimit
  <2> QED
    BY <1>8, <1>9, <2>2, <2>3, <2>5, <2>6, <2>7, <2>8
<1>12. LET fork == AskedFork(o)
       IN /\ Known(fork) => req.spec = fork
          /\ fork \in 0..255 /\ ~ Known(fork) => req.spec = Hardfork["CANCUN"]
  BY <1>8, SpecArrives DEF o, d
<1> QED
  BY <1>10, <1>11, <1>12 DEF req, o, d

\* What reaches revm of a call, in the fields the rules and the ledger look at.
LEMMA CallFacts ==
    ASSUME NEW P \in Programs, NEW c \in P, NEW d \in Defaults
    PROVE  LET o == c.options
               tx == build_tx(requestOf(c, d))
               block == block_env(requestOf(c, d))
           IN /\ tx.caller = Sender(c) /\ tx.caller \in Addr
              /\ tx.kind = IF c.entry = "create" THEN <<"create">> ELSE <<"call", Recipient(c)>>
              /\ tx.nonce = NonceOf(o) /\ tx.nonce \in 0..U64
              /\ tx.gas_limit = Within(or(o, "gasLimit", DefaultGasLimit), U64)
              /\ tx.gas_limit \in 0..U64
              /\ tx.gas_price = FeeCap(o) /\ tx.gas_price \in 0..U128
              /\ tx.value = Within(or(o, "value", 0), U256) /\ tx.value \in 0..U256
              /\ block.basefee = clamp(or(blockOf(o, d), "baseFeePerGas", 0), U64)
              /\ block.gas_limit
                   = clamp(or(blockOf(o, d), "gasLimit", DefaultGasLimit), U64)
              /\ requestOf(c, d).spec \in 0..AMSTERDAM
              /\ wants_commit(requestOf(c, d)) <=> (c.entry # "call" /\ or(o, "commit", TRUE))
<1> DEFINE opts == c.options
           req == requestOf(c, d)
           merged == blockOf(opts, d)
           flags == flagsOf(c.entry, opts)
<1> HIDE DEF merged, opts
<1>1. /\ req.flags = flags
      /\ req.spec = spec_from_u8(byte(specToByte(or(opts, "spec", None), d.spec)))
      /\ req.caller = Sender(c)
      /\ req.to = Recipient(c)
      /\ req.gas_limit = clamp(or(opts, "gasLimit", DefaultGasLimit), U64)
      /\ req.value = clamp(or(opts, "value", 0), U256)
      /\ req.block_gas_limit = clamp(or(merged, "gasLimit", DefaultGasLimit), U64)
      /\ req.extras = IF needsExtras(opts, merged) THEN decode(encodeExtras(opts, merged)) ELSE NoExtras
  <2> HIDE DEF flags
  <2>1. req = decode_request(encodeRequest(opts, d, flags))
    BY DEF requestOf, opts, flags
  <2>2. Sender(c) = or(opts, "from", Zeros) /\ Recipient(c) = or(opts, "to", Zeros)
    BY DEF Sender, Recipient, opts
  <2> HIDE DEF req
  <2> QED
    BY <2>1, <2>2, RequestFields DEF merged
<1>2. /\ req.extras.gas_price = FeeCap(opts)
      /\ req.extras.nonce = NonceOf(opts)
      /\ req.extras.basefee = clamp(or(merged, "baseFeePerGas", 0), U64)
  BY <1>1, ExtrasFields
<1>3. /\ is_create(req) <=> c.entry = "create"
      /\ wants_commit(req) <=> (c.entry # "call" /\ or(opts, "commit", TRUE))
  BY <1>1, FlagsSayIt, Zenon DEF is_create, wants_commit
<1>4. /\ Sender(c) \in Addr
      /\ or(opts, "gasLimit", 0) \in Int /\ or(opts, "value", 0) \in Int /\ or(opts, "nonce", 0) \in Int
      /\ or(opts, "gasPrice", 0) \in Int /\ or(opts, "maxFeePerGas", 0) \in Int
  BY OptionsAssumption, ZenonT(60) DEF opts
<1>5. /\ or(opts, "gasLimit", DefaultGasLimit) \in Int
      /\ or(opts, "maxFeePerGas", or(opts, "gasPrice", 0)) \in Int
  <2>1. DefaultGasLimit \in Int
    BY SMT DEF DefaultGasLimit
  <2> QED
    BY <1>4, <2>1 DEF or, given
<1>6. /\ clamp(or(opts, "gasLimit", DefaultGasLimit), U64)
           = Within(or(opts, "gasLimit", DefaultGasLimit), U64)
      /\ clamp(or(opts, "gasLimit", DefaultGasLimit), U64) \in 0..U64
      /\ clamp(or(opts, "value", 0), U256) = Within(or(opts, "value", 0), U256)
      /\ clamp(or(opts, "value", 0), U256) \in 0..U256
      /\ FeeCap(opts) \in 0..U128
      /\ NonceOf(opts) \in 0..U64
  <2>1. U64 \in Nat /\ U128 \in Nat /\ U256 \in Nat
    BY CodecAssumption, SMT
  <2> QED
    BY <1>4, <1>5, <2>1, ClampType DEF FeeCap, NonceOf
<1>7. req.spec \in 0..AMSTERDAM
  <2>1. specToByte(or(opts, "spec", None), d.spec) \in Int
    <3>1. /\ d.spec \in Int
          /\ or(opts, "spec", [id |-> 0]) \in [id : Int] \cup [name : DOMAIN Hardfork]
      BY OptionsAssumption, DefaultsAssumption DEF opts
    <3>2. CASE "spec" \in DOMAIN opts
      BY <3>1, <3>2, SpecNumber DEF or, given
    <3>3. CASE "spec" \notin DOMAIN opts
      BY <3>1, <3>3 DEF or, given, specToByte
    <3> QED
      BY <3>2, <3>3
  <2> QED
    BY <2>1, <1>1 DEF spec_from_u8, byte, AMSTERDAM, CANCUN
<1> HIDE DEF req, flags
<1>8. /\ build_tx(req).caller = req.caller
      /\ build_tx(req).kind = IF is_create(req) THEN <<"create">> ELSE <<"call", req.to>>
      /\ build_tx(req).nonce = req.extras.nonce
      /\ build_tx(req).gas_limit = req.gas_limit
      /\ build_tx(req).gas_price = req.extras.gas_price
      /\ build_tx(req).value = req.value
  BY DEF build_tx
<1>9. /\ block_env(req).basefee = req.extras.basefee
      /\ block_env(req).gas_limit = req.block_gas_limit
  BY DEF block_env
<1>10. build_tx(req).kind = IF c.entry = "create" THEN <<"create">> ELSE <<"call", Recipient(c)>>
  BY <1>1, <1>3, <1>8, Zenon
<1> QED
  BY <1>1, <1>2, <1>3, <1>4, <1>6, <1>7, <1>8, <1>9, <1>10 DEF req, merged, opts

Parties(tx) == {tx.caller} \cup Recipients(tx)

\* The call under way is the embedder's, was not refused, and reached revm as the
\* request that was encoded for it.
Sent ==
    phase \in {"running", "committing"} =>
        LET c == Made(call)
            req == requestOf(c, instance.defaults)
        IN /\ c \in program
           /\ ~ refused(c.options, flagsOf(c.entry, c.options))
           /\ call.tx = build_tx(req)
           /\ call.block = block_env(req)
           /\ call.cfg = apply_cfg(req, instance.features)
           /\ call.commits = wants_commit(req)

\* Until the first account is written the rules a call breaks are those it broke
\* when it was checked; a sender who is not written has room for a nonce.
Fresh ==
    /\ phase = "running" \/ (phase = "committing" /\ DOMAIN pending = Parties(call.tx))
         => call.broken = Broken(call.tx, call.block, store)
    /\ phase = "running" /\ call.commits => store[call.tx.caller].nonce < MaxNonce

\* A commit writes what execution left of the parties, the lower address first.
Writing ==
    phase = "committing" =>
        /\ call.commits
        /\ call.broken \subseteq Skipped(call.cfg)
        /\ DOMAIN pending \subseteq Parties(call.tx) /\ DOMAIN pending # {}
        /\ \A a \in DOMAIN pending :
              /\ pending[a] \in [balance : Nat, nonce : 0..MaxNonce]
              /\ pending[a].nonce = store[a].nonce + IF a = call.tx.caller THEN 1 ELSE 0
        /\ \A a \in DOMAIN pending, b \in Parties(call.tx) \ DOMAIN pending : b < a

CallInv == TypeOK /\ program \in Programs /\ Sent /\ Fresh /\ Writing

\* A call that writes has no switch on but, perhaps, that of the nonce check.
LEMMA WritesUnswitched ==
    ASSUME NEW o, NEW entry, NEW d,
           ~ refused(o, flagsOf(entry, o)), COMMIT \in flagsOf(entry, o)
    PROVE  LET req == decode_request(encodeRequest(o, d, flagsOf(entry, o)))
           IN /\ entry # "call" /\ or(o, "commit", TRUE) /\ or(o, "returnState", TRUE)
              /\ Skipped(apply_cfg(req, instance.features))
                   = IF or(o, "checkNonce", TRUE) THEN {} ELSE {"nonce"}
<1>1. entry # "call" /\ or(o, "commit", TRUE)
  BY FlagsSayIt
<1>2. or(o, "returnState", TRUE)
  BY Zenon DEF refused, light, Flags, COMMIT
<1>3. flagsOf(entry, o) \cap SIMULATION_FLAGS = {}
  BY DEF refused, Flags, COMMIT
<1>4. /\ ~ or(o, "disableBaseFee", FALSE) /\ ~ or(o, "disableBalanceCheck", FALSE)
      /\ ~ or(o, "disableBlockGasLimit", FALSE) /\ ~ or(o, "disableEip3607", FALSE)
  BY <1>3, FlagsSayIt DEF SIMULATION_FLAGS, Flags, DISABLE_BASE_FEE,
     DISABLE_BALANCE_CHECK, DISABLE_BLOCK_GAS_LIMIT, DISABLE_EIP3607
<1>5. or(o, "checkNonce", entry # "call") <=> or(o, "checkNonce", TRUE)
  BY <1>1 DEF or, given
<1>6. Waived(entry, o) = IF or(o, "checkNonce", TRUE) THEN {} ELSE {"nonce"}
  <2> DEFINE off == [base_fee |-> "disableBaseFee", balance |-> "disableBalanceCheck",
                     block_gas_limit |-> "disableBlockGasLimit", eip3607 |-> "disableEip3607"]
  <2>0. /\ DOMAIN off = {"base_fee", "balance", "block_gas_limit", "eip3607"}
        /\ off["base_fee"] = "disableBaseFee" /\ off["balance"] = "disableBalanceCheck"
        /\ off["block_gas_limit"] = "disableBlockGasLimit"
        /\ off["eip3607"] = "disableEip3607"
    OBVIOUS
  <2>1. {rule \in DOMAIN off : or(o, off[rule], FALSE)} = {}
    <3> HIDE DEF off
    <3> QED
      BY <1>4, <2>0
  <2>2. Waived(entry, o) = {rule \in DOMAIN off : or(o, off[rule], FALSE)}
                             \cup IF or(o, "checkNonce", entry # "call") THEN {} ELSE {"nonce"}
    BY DEF Waived
  <2> HIDE DEF off
  <2> QED
    BY <1>5, <2>1, <2>2
<1> QED
  BY <1>1, <1>2, <1>6, SkippedIsWaived

LEMMA SentFacts ==
    ASSUME CallInv, phase \in {"running", "committing"}
    PROVE  LET c == Made(call)
           IN /\ c \in program
              /\ call.tx.caller = Sender(c) /\ call.tx.caller \in Addr
              /\ call.tx.nonce = NonceOf(c.options)
              /\ call.tx.kind = IF c.entry = "create" THEN <<"create">>
                                ELSE <<"call", Recipient(c)>>
              /\ Recipients(call.tx) = IF c.entry = "create" THEN {}
                                       ELSE {Recipient(c)} \ {Sender(c)}
              /\ Parties(call.tx) \subseteq Addr
              /\ call.tx.gas_limit \in Nat /\ call.tx.gas_price \in Nat
              /\ call.tx.value \in Nat /\ call.tx.nonce \in Nat
              /\ call.commits => Skipped(call.cfg)
                                   = IF or(c.options, "checkNonce", TRUE) THEN {} ELSE {"nonce"}
<1> DEFINE c == Made(call)
           d == instance.defaults
<1>1. /\ c \in program /\ program \in Programs /\ d \in Defaults
      /\ ~ refused(c.options, flagsOf(c.entry, c.options))
      /\ call.tx = build_tx(requestOf(c, d))
      /\ call.cfg = apply_cfg(requestOf(c, d), instance.features)
      /\ call.commits = wants_commit(requestOf(c, d))
  BY DEF CallInv, TypeOK, Sent, Instances
<1> HIDE DEF c, d
<1>2. /\ call.tx.caller = Sender(c) /\ call.tx.caller \in Addr
      /\ call.tx.nonce = NonceOf(c.options) /\ call.tx.nonce \in 0..U64
      /\ call.tx.kind = IF c.entry = "create" THEN <<"create">> ELSE <<"call", Recipient(c)>>
      /\ call.tx.gas_limit \in 0..U64 /\ call.tx.gas_price \in 0..U128
      /\ call.tx.value \in 0..U256
  BY <1>1, CallFacts
<1>3. Recipient(c) \in Addr
  BY <1>1, OptionsAssumption
<1>4. Recipients(call.tx) = IF c.entry = "create" THEN {} ELSE {Recipient(c)} \ {Sender(c)}
  BY <1>2 DEF Recipients
<1>5. Parties(call.tx) \subseteq Addr
  BY <1>2, <1>3, <1>4 DEF Parties
<1>6. call.commits => Skipped(call.cfg)
                        = IF or(c.options, "checkNonce", TRUE) THEN {} ELSE {"nonce"}
  <2> SUFFICES ASSUME call.commits
               PROVE  Skipped(call.cfg)
                        = IF or(c.options, "checkNonce", TRUE) THEN {} ELSE {"nonce"}
    OBVIOUS
  <2>1. COMMIT \in flagsOf(c.entry, c.options)
    <3>1. requestOf(c, d).flags = flagsOf(c.entry, c.options)
      BY RequestFields DEF requestOf
    <3> QED
      BY <1>1, <3>1 DEF wants_commit
  <2> QED
    BY <1>1, <2>1, WritesUnswitched, ZenonT(30) DEF requestOf
<1>7. /\ call.tx.gas_limit \in Nat /\ call.tx.gas_price \in Nat
      /\ call.tx.value \in Nat /\ call.tx.nonce \in Nat
  BY <1>2
<1> QED
  BY <1>1, <1>2, <1>4, <1>5, <1>6, <1>7 DEF c

\* A call that may be written leaves nobody with less than nothing, and gives away
\* what it takes.
LEMMA FinishedFacts ==
    ASSUME CallInv, phase = "running", call.commits, call.broken \subseteq Skipped(call.cfg),
           NEW success \in BOOLEAN
    PROVE  LET left == Finished(call.tx, call.cfg, success)
           IN /\ DOMAIN left = Parties(call.tx)
              /\ \A a \in DOMAIN left :
                    /\ left[a] \in [balance : Nat, nonce : 0..MaxNonce]
                    /\ left[a].nonce = store[a].nonce + IF a = call.tx.caller THEN 1 ELSE 0
              /\ left[call.tx.caller].balance
                   <= store[call.tx.caller].balance
                        - IF call.tx.kind = <<"call", call.tx.caller>> THEN 0
                          ELSE IF success THEN call.tx.value ELSE 0
              /\ \A a \in DOMAIN left \ {call.tx.caller} :
                    left[a].balance = store[a].balance + IF success THEN call.tx.value ELSE 0
<1> DEFINE left == Finished(call.tx, call.cfg, success)
           tx == call.tx
           cost == tx.gas_limit * tx.gas_price
           had == store[tx.caller].balance
           moved == IF success THEN tx.value ELSE 0
<1>1. /\ tx.caller \in Addr /\ Parties(tx) \subseteq Addr
      /\ tx.gas_limit \in Nat /\ tx.gas_price \in Nat /\ tx.value \in Nat
      /\ Skipped(call.cfg) \subseteq {"nonce"}
  BY SentFacts
<1>2. \A a \in Addr : store[a] \in [balance : Nat, nonce : 0..MaxNonce]
  BY DEF CallInv, TypeOK
<1>3. cost \in Nat /\ had \in Nat /\ moved \in 0..tx.value
  BY <1>1, <1>2
<1>4. had >= cost + tx.value
  <2>1. "balance" \notin Broken(tx, call.block, store)
    BY <1>1 DEF CallInv, Fresh
  <2>2. ~ (had < cost + tx.value)
    BY <2>1 DEF Broken
  <2> HIDE DEF cost, had
  <2> QED
    BY <2>2, <1>1, <1>3
<1>5. Charged(tx, call.cfg) = had - cost
  <2>1. Charged(tx, call.cfg)
          = LET rest == IF had < cost THEN 0 ELSE had - cost
            IN IF call.cfg.switches.balance /\ rest < tx.value THEN tx.value ELSE rest
    BY DEF Charged
  <2> HIDE DEF cost, had
  <2> QED
    BY <2>1, <1>1, <1>3, <1>4
<1>6. store[tx.caller].nonce + 1 \in 0..MaxNonce
  <2>1. store[tx.caller].nonce < MaxNonce
    BY DEF CallInv, Fresh
  <2>2. store[tx.caller].nonce \in 0..MaxNonce /\ MaxNonce \in Nat
    BY <1>1, <1>2, ApiAssumption
  <2> QED
    BY <2>1, <2>2
<1>7. DOMAIN left = Parties(tx)
  BY DEF Finished, Parties
<1>8. /\ left[tx.caller] \in [balance : Nat, nonce : 0..MaxNonce]
      /\ left[tx.caller].nonce = store[tx.caller].nonce + 1
      /\ left[tx.caller].balance
           <= had - IF tx.kind = <<"call", tx.caller>> THEN 0 ELSE moved
  <2>1. left[tx.caller]
          = [balance |-> Charged(tx, call.cfg)
                           - IF tx.kind = <<"call", tx.caller>> THEN 0 ELSE moved,
             nonce |-> store[tx.caller].nonce + 1]
    BY DEF Finished
  <2> HIDE DEF cost, had, moved, left
  <2>2. LET sent == IF tx.kind = <<"call", tx.caller>> THEN 0 ELSE moved
        IN Charged(tx, call.cfg) - sent \in Nat /\ Charged(tx, call.cfg) - sent <= had - sent
    <3> DEFINE sent == IF tx.kind = <<"call", tx.caller>> THEN 0 ELSE moved
    <3>1. sent \in 0..tx.value
      BY <1>1, <1>3
    <3> DEFINE value == tx.value
    <3> HIDE DEF sent, value
    <3>2. /\ had \in Nat /\ cost \in Nat /\ value \in Nat /\ sent \in 0..value
          /\ had >= cost + value
      BY <1>1, <1>3, <1>4, <3>1 DEF value
    <3>3. had - cost - sent \in Nat /\ had - cost - sent <= had - sent
      BY <3>2
    <3> QED
      BY <1>5, <3>3 DEF sent
  <2> QED
    BY <2>1, <2>2, <1>6
<1>9. ASSUME NEW a \in Parties(tx), a # tx.caller
      PROVE  /\ left[a] \in [balance : Nat, nonce : 0..MaxNonce]
             /\ left[a].nonce = store[a].nonce
             /\ left[a].balance = store[a].balance + moved
  <2>1. left[a] = [store[a] EXCEPT !.balance = @ + moved]
    BY <1>9 DEF Finished, Parties
  <2>2. store[a] \in [balance : Nat, nonce : 0..MaxNonce]
    BY <1>1, <1>2
  <2> HIDE DEF moved, left
  <2> QED
    BY <2>1, <2>2, <1>1, <1>3
<1> HIDE DEF left
<1>10. ASSUME NEW a \in DOMAIN left
       PROVE  /\ left[a] \in [balance : Nat, nonce : 0..MaxNonce]
              /\ left[a].nonce = store[a].nonce + IF a = tx.caller THEN 1 ELSE 0
  BY <1>1, <1>2, <1>7, <1>8, <1>9
<1>11. /\ left[tx.caller].balance
            <= store[tx.caller].balance - IF tx.kind = <<"call", tx.caller>> THEN 0 ELSE moved
       /\ \A a \in DOMAIN left \ {tx.caller} : left[a].balance = store[a].balance + moved
  BY <1>7, <1>8, <1>9
<1> QED
  BY <1>7, <1>10, <1>11 DEF left

LEMMA CallInvInit == Init => CallInv
<1> SUFFICES ASSUME Init PROVE CallInv
  OBVIOUS
<1>1. store \in [Addr -> [balance : Nat, nonce : 0..MaxNonce]]
  <2>1. store \in [Addr -> [balance : Nat, nonce : {0}]] /\ 0 \in 0..MaxNonce
    BY ApiAssumption DEF Init
  <2> QED
    BY <2>1
<1>2. DOMAIN pending = {}
  BY DEF Init, nothing
<1> QED
  BY <1>1, <1>2 DEF Init, CallInv, TypeOK, Sent, Fresh, Writing

\* Once the call is over nothing is said of it.
LEMMA CallInvOver ==
    ASSUME CallInv, phase' \in {"idle", "done", "dead"},
           UNCHANGED <<store, program, paid>>, instance' \in Instances,
           DOMAIN pending' \subseteq Addr, torn' \subseteq program
    PROVE  CallInv'
  BY DEF CallInv, TypeOK, Sent, Fresh, Writing

LEMMA CallInvStart ==
    ASSUME CallInv, NEW c \in program, Start(c)
    PROVE  CallInv'
<1> DEFINE d == instance.defaults
           req == requestOf(c, d)
           tx == build_tx(req)
<1>1. /\ program \in Programs /\ c \in program /\ d \in Defaults
      /\ phase' = "running"
      /\ UNCHANGED <<store, program, instance, outcome, pending, paid, torn, throws>>
  BY DEF CallInv, TypeOK, Instances, Start
<1>2. /\ ~ refused(c.options, flagsOf(c.entry, c.options))
      /\ wants_commit(req) => store[tx.caller].nonce < MaxNonce
      /\ call' = [entry |-> c.entry, options |-> c.options, tx |-> tx,
                  block |-> block_env(req), cfg |-> apply_cfg(req, instance.features),
                  commits |-> wants_commit(req),
                  broken |-> Broken(tx, block_env(req), store),
                  funds |-> Funds(store)]
  BY DEF Start, requestOf
<1>3. c = [entry |-> c.entry, options |-> c.options]
  BY <1>1, OptionsAssumption
<1> HIDE DEF d, req, tx
<1>4. Made(call)' = c /\ call'.tx = tx /\ call'.block = block_env(req)
      /\ call'.cfg = apply_cfg(req, instance.features)
      /\ call'.commits = wants_commit(req)
      /\ call'.broken = Broken(tx, block_env(req), store)
  BY <1>2, <1>3 DEF Made
<1>5. /\ tx.gas_limit \in 0..U64 /\ tx.nonce \in 0..U64
      /\ tx.gas_price \in 0..U128 /\ tx.value \in 0..U256
      /\ req.spec \in 0..AMSTERDAM
  BY <1>1, CallFacts DEF req, tx
<1>6. call'.cfg.spec = req.spec
  BY <1>4 DEF apply_cfg
<1>7. TypeOK'
  BY <1>1, <1>4, <1>5, <1>6 DEF CallInv, TypeOK
<1>8. Sent'
  <2>1. ~ refused(c.options, flagsOf(c.entry, c.options))'
    BY <1>1, <1>2 DEF refused
  <2>2. /\ Made(call)' \in program' /\ call'.tx = build_tx(requestOf(Made(call)', instance'.defaults))
        /\ call'.block = block_env(requestOf(Made(call)', instance'.defaults))
        /\ call'.cfg = apply_cfg(requestOf(Made(call)', instance'.defaults), instance'.features)
        /\ call'.commits = wants_commit(requestOf(Made(call)', instance'.defaults))
    BY <1>1, <1>4 DEF req, tx, d
  <2> QED
    BY <1>4, <2>1, <2>2 DEF Sent, refused
<1>9. Fresh'
  BY <1>1, <1>2, <1>4 DEF Fresh
<1>10. Writing'
  BY <1>1 DEF Writing
<1> QED
  BY <1>1, <1>7, <1>8, <1>9, <1>10 DEF CallInv

LEMMA CallInvExecute ==
    ASSUME CallInv, NEW success \in BOOLEAN, Execute(success)
    PROVE  CallInv'
<1>1. CASE ~ call.commits
  <2>1. phase' = "done" /\ pending' = pending /\ torn' = torn /\ instance' = instance
        /\ UNCHANGED <<store, program, paid>>
    BY <1>1 DEF Execute
  <2> QED
    BY <2>1, CallInvOver DEF CallInv, TypeOK
<1>2. CASE call.commits
  <2>1. /\ phase = "running" /\ phase' = "committing"
        /\ call.broken \subseteq Skipped(call.cfg)
        /\ pending' = Finished(call.tx, call.cfg, success)
        /\ UNCHANGED <<store, program, instance, call, paid, torn, throws>>
    BY <1>2 DEF Execute
  <2>2. /\ DOMAIN pending' = Parties(call.tx)
        /\ \A a \in DOMAIN pending' :
              /\ pending'[a] \in [balance : Nat, nonce : 0..MaxNonce]
              /\ pending'[a].nonce = store[a].nonce + IF a = call.tx.caller THEN 1 ELSE 0
    BY <1>2, <2>1, FinishedFacts
  <2>3. Parties(call.tx) \subseteq Addr /\ Parties(call.tx) # {}
    BY <2>1, SentFacts DEF Parties
  <2>4. TypeOK'
    BY <1>2, <2>1, <2>2, <2>3 DEF CallInv, TypeOK
  <2>5. Sent'
    <3>1. Sent /\ phase = "running"
      BY <2>1 DEF CallInv
    <3> QED
      BY <2>1, <3>1 DEF Sent, refused
  <2>6. Fresh'
    <3>1. call.broken = Broken(call.tx, call.block, store)
      BY <2>1 DEF CallInv, Fresh
    <3> QED
      BY <2>1, <3>1 DEF Fresh
  <2>7. Writing'
    BY <1>2, <2>1, <2>2, <2>3 DEF Writing
  <2> QED
    BY <2>1, <2>4, <2>5, <2>6, <2>7 DEF CallInv
<1> QED
  BY <1>1, <1>2

LEMMA CallInvWrite ==
    ASSUME CallInv, NEW a \in DOMAIN pending, WriteAccount(a)
    PROVE  CallInv'
<1>1. /\ phase = "committing"
      /\ \A b \in DOMAIN pending : a <= b
      /\ store' = [store EXCEPT ![a] = pending[a]]
      /\ pending' = Restrict(pending, DOMAIN pending \ {a})
      /\ phase' = IF DOMAIN pending = {a} THEN "done" ELSE "committing"
      /\ UNCHANGED <<program, instance, call, outcome, torn, throws>>
  BY DEF WriteAccount
<1>2. /\ DOMAIN pending' = DOMAIN pending \ {a}
      /\ \A b \in DOMAIN pending' : pending'[b] = pending[b]
  BY <1>1 DEF Restrict
<1>3. /\ DOMAIN pending \subseteq Parties(call.tx) /\ DOMAIN pending # {}
      /\ call.commits /\ call.broken \subseteq Skipped(call.cfg)
      /\ \A b \in DOMAIN pending :
            /\ pending[b] \in [balance : Nat, nonce : 0..MaxNonce]
            /\ pending[b].nonce = store[b].nonce + IF b = call.tx.caller THEN 1 ELSE 0
      /\ \A c \in DOMAIN pending, b \in Parties(call.tx) \ DOMAIN pending : b < c
  BY <1>1 DEF CallInv, Writing
<1>4. Parties(call.tx) \subseteq Addr /\ Addr \subseteq Nat
  BY <1>1, SentFacts, ApiAssumption
<1>5. store' \in [Addr -> [balance : Nat, nonce : 0..MaxNonce]]
  BY <1>1, <1>3, <1>4 DEF CallInv, TypeOK
<1>6. TypeOK'
  <2>1. \A c \in DOMAIN paid' : paid'[c] \in Nat
    BY DEF WriteAccount, CallInv, TypeOK
  <2>2. phase' \in {"done", "committing"}
        /\ (phase' = "committing" => DOMAIN pending' # {} /\ call'.commits)
    BY <1>1, <1>2, <1>3
  <2>3. DOMAIN pending' \subseteq Addr
    BY <1>2, <1>3, <1>4
  <2>4. instance' \in Instances /\ torn' \subseteq program'
    BY <1>1 DEF CallInv, TypeOK
  <2> QED
    BY <1>5, <2>1, <2>2, <2>3, <2>4 DEF TypeOK
<1>7. Sent'
  BY <1>1 DEF CallInv, Sent, refused
<1>8. DOMAIN pending' # Parties(call'.tx)
  BY <1>1, <1>2, <1>3
<1>9. Fresh'
  BY <1>1, <1>8 DEF Fresh
<1>10. Writing'
  <2>1. ASSUME NEW b \in DOMAIN pending'
        PROVE  /\ pending'[b] \in [balance : Nat, nonce : 0..MaxNonce]
               /\ pending'[b].nonce = store'[b].nonce + IF b = call.tx.caller THEN 1 ELSE 0
    <3>1. b # a /\ store'[b] = store[b]
      BY <1>1, <1>2, <1>3, <1>4 DEF CallInv, TypeOK
    <3> QED
      BY <1>2, <1>3, <3>1
  <2>2. ASSUME NEW c \in DOMAIN pending', NEW b \in Parties(call.tx) \ DOMAIN pending'
        PROVE  b < c
    <3>1. CASE b = a
      <4>1. c \in DOMAIN pending /\ c # a /\ a <= c
        BY <1>1, <1>2
      <4>2. a \in Nat /\ c \in Nat
        BY <1>3, <1>4, <4>1
      <4> QED
        BY <3>1, <4>1, <4>2
    <3>2. CASE b # a
      BY <1>2, <1>3, <3>2
    <3> QED
      BY <3>1, <3>2
  <2>3. phase' = "committing" => DOMAIN pending' # {}
    BY <1>1, <1>2
  <2> QED
    <3> SUFFICES ASSUME phase' = "committing" PROVE Writing'
      BY DEF Writing
    <3>1. call'.commits /\ call'.broken \subseteq Skipped(call'.cfg)
      BY <1>1, <1>3
    <3>2. DOMAIN pending' \subseteq Parties(call'.tx) /\ DOMAIN pending' # {}
      BY <1>1, <1>2, <1>3
    <3>3. call' = call
      BY <1>1
    <3> QED
      BY <2>1, <2>2, <3>1, <3>2, <3>3 DEF Writing
<1> QED
  BY <1>1, <1>6, <1>7, <1>9, <1>10 DEF CallInv

LEMMA CallInvNext == CallInv /\ [Next]_vars => CallInv'
<1> SUFFICES ASSUME CallInv, [Next]_vars PROVE CallInv'
  OBVIOUS
<1>1. instance \in Instances /\ DOMAIN pending \subseteq Addr /\ torn \subseteq program
  BY DEF CallInv, TypeOK
<1>2. ASSUME NEW c \in program, Refuse(c) PROVE CallInv'
  BY <1>1, <1>2, CallInvOver DEF Refuse
<1>3. ASSUME NEW c \in program, Start(c) PROVE CallInv'
  BY <1>3, CallInvStart
<1>4. ASSUME NEW rule \in call.broken \cup {"other"}, Reject(rule) PROVE CallInv'
  BY <1>1, <1>4, CallInvOver DEF Reject
<1>5. ASSUME NEW success \in BOOLEAN, Execute(success) PROVE CallInv'
  BY <1>5, CallInvExecute
<1>6. ASSUME NEW a \in DOMAIN pending, WriteAccount(a) PROVE CallInv'
  BY <1>6, CallInvWrite
<1>7. CASE Throw
  <2>1. Made(call) \in program
    <3>1. phase \in {"running", "committing"}
      BY <1>7 DEF Throw
    <3> QED
      BY <3>1, SentFacts
  <2>2. torn' \subseteq program
    BY <1>1, <1>7, <2>1 DEF Throw
  <2> QED
    BY <1>1, <1>7, <2>2, CallInvOver DEF Throw
<1>8. CASE Return \/ Recreate
  <2>1. DOMAIN nothing = {}
    BY DEF nothing
  <2> QED
    BY <1>1, <1>8, <2>1, CallInvOver DEF Return, Recreate, Clear
<1>9. CASE UNCHANGED vars
  BY <1>9 DEF vars, CallInv, TypeOK, Sent, Fresh, Writing, refused, Made
<1> QED
  BY <1>2, <1>3, <1>4, <1>5, <1>6, <1>7, <1>8, <1>9 DEF Next

\* No balance and no nonce is ever written below zero or past its bound, and what
\* reaches revm fits the width of its field, whatever number the caller gave.
THEOREM ApiTypes == Spec => []TypeOK
<1>1. CallInv => TypeOK
  BY DEF CallInv
<1> QED
  BY <1>1, CallInvInit, CallInvNext, PTL DEF Spec

\* Every option reaches revm in its own field, within the width of that field, or
\* its default does, whether the extras are sent or not, from any entry point.
THEOREM OptionsArrive == Spec => []AskedIsServed
<1>1. CallInv => AskedIsServed
  <2> SUFFICES ASSUME CallInv, phase = "running" PROVE AskedIsServed
    BY DEF AskedIsServed
  <2> DEFINE c == Made(call)
             req == requestOf(c, instance.defaults)
  <2>1. /\ program \in Programs /\ c \in program /\ instance \in Instances
        /\ call.tx = build_tx(req) /\ call.block = block_env(req)
        /\ call.cfg = apply_cfg(req, instance.features)
    BY DEF CallInv, TypeOK, Sent
  <2>2. c.entry = call.entry /\ c.options = call.options
    BY DEF Made
  <2> HIDE DEF c, req
  <2>3. call.cfg.spec = req.spec
    BY <2>1 DEF apply_cfg
  <2> QED
    BY <2>1, <2>2, <2>3, RequestArrives DEF AskedIsServed, req
<1> QED
  BY <1>1, CallInvInit, CallInvNext, PTL DEF Spec

-----------------------------------------------------------------------------
(* What is committed.                                                      *)

LEMMA FirstWriteIsValid ==
    ASSUME CallInv, phase = "committing",
           pending = Finished(call.tx, call.cfg, outcome.success)
    PROVE  LET o == call.options
           IN /\ call.entry \in {"transact", "create"}
              /\ or(o, "commit", TRUE) /\ or(o, "returnState", TRUE)
              /\ Broken(AskedTx(call.entry, o), AskedBlock(o), store)
                   \subseteq IF or(o, "checkNonce", TRUE) THEN {} ELSE {"nonce"}
<1> DEFINE c == Made(call)
           d == instance.defaults
           req == requestOf(c, d)
<1>1. /\ c \in program /\ program \in Programs /\ d \in Defaults /\ instance \in Instances
      /\ ~ refused(c.options, flagsOf(c.entry, c.options))
      /\ call.tx = build_tx(req) /\ call.block = block_env(req)
      /\ call.cfg = apply_cfg(req, instance.features)
      /\ call.commits = wants_commit(req)
      /\ call.commits
      /\ call.broken \subseteq Skipped(call.cfg)
  BY DEF CallInv, TypeOK, Sent, Writing, Instances
<1>2. c.entry = call.entry /\ c.options = call.options
  BY DEF Made
<1>3. call.broken = Broken(call.tx, call.block, store)
  <2>1. DOMAIN pending = Parties(call.tx)
    BY DEF Finished, Parties
  <2> QED
    BY <2>1 DEF CallInv, Fresh
<1> HIDE DEF c, d, req
<1>4. /\ c.entry # "call" /\ or(c.options, "commit", TRUE) /\ or(c.options, "returnState", TRUE)
      /\ Skipped(call.cfg) = IF or(c.options, "checkNonce", TRUE) THEN {} ELSE {"nonce"}
  <2>1. COMMIT \in flagsOf(c.entry, c.options)
    <3>1. req.flags = flagsOf(c.entry, c.options)
      BY RequestFields DEF req, requestOf
    <3> QED
      BY <1>1, <3>1 DEF wants_commit
  <2> QED
    BY <1>1, <2>1, WritesUnswitched, ZenonT(30) DEF req, requestOf
<1>5. c.entry \in {"call", "transact", "create"}
  BY <1>1, OptionsAssumption
<1>6. call.tx = AskedTx(c.entry, c.options) /\ call.block = AskedBlock(c.options)
  BY <1>1, RequestArrives DEF req, d
<1> QED
  BY <1>1, <1>2, <1>3, <1>4, <1>5, <1>6

\* Whatever the artifact can be made to skip, what is written has passed every rule
\* on the state it is written to.
THEOREM OnlyValidCommitted == Spec => CommittedIsValid
<1>1. CallInv => (phase = "committing" /\ pending = Finished(call.tx, call.cfg, outcome.success) =>
                    LET o == call.options
                    IN /\ call.entry \in {"transact", "create"}
                       /\ or(o, "commit", TRUE) /\ or(o, "returnState", TRUE)
                       /\ Broken(AskedTx(call.entry, o), AskedBlock(o), store)
                            \subseteq IF or(o, "checkNonce", TRUE) THEN {} ELSE {"nonce"})
  BY FirstWriteIsValid
<1> QED
  BY <1>1, CallInvInit, CallInvNext, PTL DEF Spec, CommittedIsValid

-----------------------------------------------------------------------------
(* Induction, by the least number for which something fails.               *)

LessThan == {ss \in Nat \X Nat : ss[1] < ss[2]}

\* Of any numbers there is a least.
LEMMA LeastNat ==
    ASSUME NEW T \in SUBSET Nat, T # {}
    PROVE  \E m \in T : \A n \in T : m <= n
<1>0. IsWellFoundedOn(LessThan, Nat)
  BY ONLY NatLessThanWellFounded DEF OpToRel, LessThan
<1>1. PICK m \in T : \A n \in T : ~ (<<n, m>> \in LessThan)
  BY <1>0, WFMin
<1>2. \A n \in T : m <= n
  <2> TAKE n \in T
  <2>1. m \in Nat /\ n \in Nat
    OBVIOUS
  <2>2. ~ (n < m)
    BY <1>1, <2>1 DEF LessThan
  <2> QED
    BY <2>1, <2>2
<1> QED
  BY <1>1, <1>2

\* A set of numbers with 0 in it and the successor of each of its members is all.
LEMMA AllNat ==
    ASSUME NEW T, 0 \in T, \A n \in Nat : n \in T => n + 1 \in T
    PROVE  Nat \subseteq T
<1> SUFFICES ASSUME Nat \ T # {} PROVE FALSE
  OBVIOUS
<1>1. PICK m \in Nat \ T : \A n \in Nat \ T : m <= n
  BY LeastNat
<1>2. m # 0 /\ m - 1 \in Nat
  BY <1>1
<1>3. m - 1 \in T
  BY <1>1, <1>2
<1> QED
  BY <1>2, <1>3

-----------------------------------------------------------------------------
(* Sums, as the fold of the community modules takes them: one index after  *)
(* the other, in an order that is chosen.                                  *)

AnyOf(T) == CHOOSE x \in T : TRUE
SumStep(f, g, T) == IF T = {} THEN 0 ELSE f[AnyOf(T)] + g[T \ {AnyOf(T)}]
Sums(f) == CHOOSE g : g = [T \in SUBSET DOMAIN f |-> SumStep(f, g, T)]
Upto(D, n) == {T \in SUBSET D : Cardinality(T) <= n}

\* A finite set is smaller by one without one of its members.
LEMMA LessAny ==
    ASSUME NEW T, IsFiniteSet(T), NEW x \in T
    PROVE  /\ IsFiniteSet(T \ {x}) /\ Cardinality(T) \in Nat
           /\ Cardinality(T \ {x}) = Cardinality(T) - 1
           /\ Cardinality(T) # 0 /\ Cardinality(T \ {x}) \in Nat
  BY FS_RemoveElement, FS_CardinalityType, FS_EmptySet

\* The fold is defined on every set of indices of a function that has finitely many.
LEMMA SumsDefined ==
    ASSUME NEW f, IsFiniteSet(DOMAIN f)
    PROVE  Sums(f) = [T \in SUBSET DOMAIN f |-> SumStep(f, Sums(f), T)]
<1> DEFINE D == DOMAIN f
           Ok(g, n) == g = [T \in Upto(D, n) |-> SumStep(f, g, T)]
           Good == {n \in Nat : \E g : Ok(g, n)}
<1>0. \A T \in SUBSET D : IsFiniteSet(T) /\ Cardinality(T) \in Nat
  BY FS_Subset, FS_CardinalityType
<1>1. 0 \in Good
  <2> DEFINE g == [T \in Upto(D, 0) |-> 0]
  <2>1. ASSUME NEW T \in Upto(D, 0) PROVE T = {}
    BY <1>0, FS_EmptySet DEF Upto
  <2>2. [T \in Upto(D, 0) |-> SumStep(f, g, T)] = g
    BY <2>1 DEF SumStep
  <2> QED
    BY <2>2
<1>2. ASSUME NEW n \in Nat, n \in Good PROVE n + 1 \in Good
  <2>1. PICK g : Ok(g, n)
    BY <1>2
  <2> DEFINE h == [T \in Upto(D, n + 1) |-> SumStep(f, g, T)]
  <2>2. ASSUME NEW T \in Upto(D, n) PROVE T \in Upto(D, n + 1) /\ h[T] = g[T]
    <3>1. T \in Upto(D, n + 1)
      BY <1>0 DEF Upto
    <3>2. g[T] = SumStep(f, g, T)
      BY <2>1
    <3> QED
      BY <3>1, <3>2
  <2>3. ASSUME NEW T \in Upto(D, n + 1) PROVE SumStep(f, g, T) = SumStep(f, h, T)
    <3>1. CASE T = {}
      BY <3>1 DEF SumStep
    <3>2. CASE T # {}
      <4>1. AnyOf(T) \in T
        BY <3>2 DEF AnyOf
      <4>2. T \ {AnyOf(T)} \in Upto(D, n)
        BY <1>0, <4>1, LessAny DEF Upto
      <4>3. h[T \ {AnyOf(T)}] = g[T \ {AnyOf(T)}]
        BY <2>2, <4>2
      <4> HIDE DEF h
      <4> QED
        BY <4>3 DEF SumStep
    <3> QED
      BY <3>1, <3>2
  <2>4. h = [T \in Upto(D, n + 1) |-> SumStep(f, h, T)]
    <3> DEFINE k == [T \in Upto(D, n + 1) |-> SumStep(f, h, T)]
    <3>1. \A T \in Upto(D, n + 1) : h[T] = k[T]
      BY <2>3
    <3> QED
      BY <3>1
  <2> HIDE DEF h
  <2> QED
    BY <2>4
<1> HIDE DEF Good
<1>3. Nat \subseteq Good
  BY <1>1, <1>2, AllNat
<1>4. Cardinality(D) \in Good
  BY <1>0, <1>3
<1>5. PICK g : Ok(g, Cardinality(D))
  BY <1>4 DEF Good
<1>6. Upto(D, Cardinality(D)) = SUBSET D
  BY FS_Subset, <1>0 DEF Upto
<1>7. g = [T \in SUBSET D |-> SumStep(f, g, T)]
  BY <1>5, <1>6
<1> HIDE DEF Ok
<1> QED
  BY <1>7 DEF Sums

\* Sums of numbers are numbers, and any of them may be taken first.
Takes(f, U) == /\ Sums(f)[U] \in Int
               /\ \A x \in U : Sums(f)[U] = f[x] + Sums(f)[U \ {x}]

LEMMA SumsTake ==
    ASSUME NEW f, IsFiniteSet(DOMAIN f), \A a \in DOMAIN f : f[a] \in Int,
           NEW T \in SUBSET DOMAIN f
    PROVE  Takes(f, T)
<1> DEFINE D == DOMAIN f
           Good == {n \in Nat : \A U \in SUBSET D : Cardinality(U) <= n => Takes(f, U)}
<1>0. \A U \in SUBSET D : IsFiniteSet(U) /\ Cardinality(U) \in Nat
  BY FS_Subset, FS_CardinalityType
<1>1. \A U \in SUBSET D : Sums(f)[U] = SumStep(f, Sums(f), U)
  BY SumsDefined
<1>2. Takes(f, {})
  <2>1. {} \in SUBSET D
    OBVIOUS
  <2>2. Sums(f)[{}] = 0
    BY <1>1, <2>1, Zenon DEF SumStep
  <2> QED
    BY <2>2 DEF Takes
<1>3. 0 \in Good
  <2> SUFFICES ASSUME NEW U \in SUBSET D, Cardinality(U) <= 0 PROVE U = {}
    BY <1>2
  <2> QED
    BY <1>0, FS_EmptySet
<1>4. ASSUME NEW n \in Nat, n \in Good PROVE n + 1 \in Good
  <2> SUFFICES ASSUME NEW U \in SUBSET D, Cardinality(U) <= n + 1, U # {} PROVE Takes(f, U)
    BY <1>2
  <2> DEFINE c == AnyOf(U)
  <2>1. c \in U
    BY DEF AnyOf
  <2>2. Sums(f)[U] = f[c] + Sums(f)[U \ {c}]
    BY <1>1 DEF SumStep
  <2> HIDE DEF c
  <2>3. ASSUME NEW x \in U
        PROVE  /\ Takes(f, U \ {x})
               /\ \A y \in U \ {x} : Takes(f, (U \ {x}) \ {y})
    <3>1. /\ IsFiniteSet(U \ {x}) /\ U \ {x} \in SUBSET D
          /\ Cardinality(U \ {x}) \in Nat /\ Cardinality(U \ {x}) <= n
      BY <1>0, LessAny
    <3>2. ASSUME NEW y \in U \ {x}
          PROVE  (U \ {x}) \ {y} \in SUBSET D /\ Cardinality((U \ {x}) \ {y}) <= n
      BY <3>1, LessAny
    <3> QED
      BY <1>4, <3>1, <3>2
  <2>4. f[c] \in Int /\ Sums(f)[U \ {c}] \in Int
    BY <2>1, <2>3 DEF Takes
  <2>5. ASSUME NEW x \in U, x # c PROVE Sums(f)[U] = f[x] + Sums(f)[U \ {x}]
    <3> DEFINE W == (U \ {c}) \ {x}
    <3>1. W = (U \ {x}) \ {c} /\ x \in U \ {c} /\ c \in U \ {x}
      BY <2>1, <2>5
    <3>2. Sums(f)[U \ {c}] = f[x] + Sums(f)[W] /\ Sums(f)[W] \in Int
      BY <2>1, <2>3, <3>1 DEF Takes
    <3>3. Sums(f)[U \ {x}] = f[c] + Sums(f)[W]
      BY <2>3, <3>1 DEF Takes
    <3>4. f[x] \in Int
      OBVIOUS
    <3> HIDE DEF W
    <3> QED
      BY <2>2, <2>4, <3>2, <3>3, <3>4
  <2>6. Sums(f)[U] \in Int
    BY <2>2, <2>4
  <2> QED
    BY <2>2, <2>5, <2>6 DEF Takes
<1> HIDE DEF Good
<1>5. Nat \subseteq Good
  BY <1>3, <1>4, AllNat
<1>6. Cardinality(T) \in Good
  BY <1>0, <1>5
<1> QED
  BY <1>0, <1>6 DEF Good

\* One number more or less is as much more or less in the sum.
LEMMA SumsChange ==
    ASSUME NEW f, NEW g, IsFiniteSet(DOMAIN f), DOMAIN g = DOMAIN f, NEW x \in DOMAIN f,
           \A a \in DOMAIN f : f[a] \in Int /\ g[a] \in Int /\ (a # x => g[a] = f[a])
    PROVE  Sums(g)[DOMAIN f] = Sums(f)[DOMAIN f] + (g[x] - f[x])
<1> DEFINE D == DOMAIN f
           Good == {n \in Nat : \A U \in SUBSET (D \ {x}) :
                                   Cardinality(U) = n => Sums(g)[U] = Sums(f)[U]}
<1>0. \A U \in SUBSET D : IsFiniteSet(U) /\ Cardinality(U) \in Nat
  BY FS_Subset, FS_CardinalityType
<1>1. \A U \in SUBSET D : Takes(f, U) /\ Takes(g, U)
  BY SumsTake
<1>2. 0 \in Good
  <2> SUFFICES ASSUME NEW U \in SUBSET (D \ {x}), Cardinality(U) = 0
               PROVE  Sums(g)[U] = Sums(f)[U]
    OBVIOUS
  <2>1. U = {} /\ U \in SUBSET D
    BY <1>0, FS_EmptySet
  <2> QED
    BY <2>1, SumsDefined DEF SumStep
<1>3. ASSUME NEW n \in Nat, n \in Good PROVE n + 1 \in Good
  <2> SUFFICES ASSUME NEW U \in SUBSET (D \ {x}), Cardinality(U) = n + 1
               PROVE  Sums(g)[U] = Sums(f)[U]
    OBVIOUS
  <2>1. PICK c \in U : TRUE
    BY FS_EmptySet
  <2>2. U \ {c} \in SUBSET (D \ {x}) /\ Cardinality(U \ {c}) = n /\ U \in SUBSET D
    BY <1>0, LessAny
  <2>3. Sums(g)[U \ {c}] = Sums(f)[U \ {c}]
    BY <1>3, <2>2
  <2>4. Sums(f)[U] = f[c] + Sums(f)[U \ {c}] /\ Sums(g)[U] = g[c] + Sums(g)[U \ {c}]
    BY <1>1, <2>2 DEF Takes
  <2> QED
    BY <2>3, <2>4
<1> HIDE DEF Good
<1>4. Nat \subseteq Good
  BY <1>2, <1>3, AllNat
<1>5. Sums(g)[D \ {x}] = Sums(f)[D \ {x}] /\ D \ {x} \in SUBSET D /\ D \in SUBSET D
  <2>1. Cardinality(D \ {x}) \in Good
    BY <1>0, <1>4
  <2> QED
    BY <2>1 DEF Good
<1>6. /\ Sums(f)[D] = f[x] + Sums(f)[D \ {x}] /\ Sums(g)[D] = g[x] + Sums(g)[D \ {x}]
      /\ Sums(f)[D \ {x}] \in Int
  BY <1>1, <1>5 DEF Takes
<1>7. f[x] \in Int /\ g[x] \in Int
  OBVIOUS
<1> HIDE DEF D
<1> QED
  BY <1>5, <1>6, <1>7 DEF D

BalancesOf(s) == [a \in Addr |-> s[a].balance]

\* What all accounts have is the sum of their balances.
LEMMA FundsAreSums == ASSUME NEW s PROVE Funds(s) = Sums(BalancesOf(s))[Addr]
<1>1. DOMAIN BalancesOf(s) = Addr
  BY DEF BalancesOf
<1> QED
  BY <1>1 DEF Funds, FoldFunction, FoldFunctionOnSet, MapThenFoldSet, Sums, SumStep,
              AnyOf, BalancesOf

Accounts == [Addr -> [balance : Nat, nonce : 0..MaxNonce]]

LEMMA FundsType == ASSUME NEW s \in Accounts PROVE Funds(s) \in Int
<1>1. /\ DOMAIN BalancesOf(s) = Addr /\ IsFiniteSet(Addr)
      /\ \A a \in Addr : BalancesOf(s)[a] \in Int
  BY ApiAssumption DEF BalancesOf, Accounts
<1>2. Takes(BalancesOf(s), Addr)
  BY <1>1, SumsTake
<1> QED
  BY <1>2, FundsAreSums DEF Takes

\* Two stores that differ in one account, and two that differ in two.
LEMMA FundsOneChange ==
    ASSUME NEW s \in Accounts, NEW t \in Accounts, NEW p \in Addr,
           \A a \in Addr \ {p} : t[a] = s[a], t[p].balance <= s[p].balance
    PROVE  Funds(t) <= Funds(s)
<1> DEFINE f == BalancesOf(s)
           g == BalancesOf(t)
<1>1. /\ DOMAIN f = Addr /\ DOMAIN g = Addr /\ IsFiniteSet(Addr)
      /\ \A a \in Addr : f[a] \in Int /\ g[a] \in Int /\ (a # p => g[a] = f[a])
      /\ g[p] <= f[p]
  BY ApiAssumption DEF BalancesOf, Accounts
<1> HIDE DEF f, g
<1>2. Sums(g)[Addr] = Sums(f)[Addr] + (g[p] - f[p])
  BY <1>1, SumsChange
<1>3. Sums(f)[Addr] \in Int
  BY FundsType, FundsAreSums DEF f
<1>4. g[p] - f[p] <= 0 /\ g[p] - f[p] \in Int
  BY <1>1
<1> QED
  BY <1>2, <1>3, <1>4, FundsAreSums DEF f, g

LEMMA FundsTwoChanges ==
    ASSUME NEW s \in Accounts, NEW t \in Accounts, NEW p \in Addr, NEW q \in Addr, p # q,
           \A a \in Addr \ {p, q} : t[a] = s[a],
           t[p].balance + t[q].balance <= s[p].balance + s[q].balance
    PROVE  Funds(t) <= Funds(s)
<1> DEFINE f == BalancesOf(s)
           g == BalancesOf(t)
           h == [a \in Addr |-> IF a = p THEN g[p] ELSE f[a]]
<1>1. /\ DOMAIN f = Addr /\ DOMAIN g = Addr /\ IsFiniteSet(Addr)
      /\ \A a \in Addr : f[a] \in Int /\ g[a] \in Int /\ (a \notin {p, q} => g[a] = f[a])
      /\ g[p] + g[q] <= f[p] + f[q]
  BY ApiAssumption DEF BalancesOf, Accounts
<1> HIDE DEF f, g
<1>2. /\ DOMAIN h = Addr
      /\ \A a \in Addr : /\ h[a] \in Int
                         /\ a # p => h[a] = f[a]
                         /\ a # q => g[a] = h[a]
      /\ h[p] = g[p] /\ h[q] = f[q]
  BY <1>1
<1> HIDE DEF h
<1>3. Sums(h)[Addr] = Sums(f)[Addr] + (h[p] - f[p])
  BY <1>1, <1>2, SumsChange
<1>4. Sums(g)[Addr] = Sums(h)[Addr] + (g[q] - h[q])
  BY <1>1, <1>2, SumsChange
<1>5. Sums(f)[Addr] \in Int
  BY FundsType, FundsAreSums DEF f
<1>6. f[p] \in Int /\ f[q] \in Int /\ g[p] \in Int /\ g[q] \in Int
  BY <1>1
<1>7. Sums(g)[Addr] <= Sums(f)[Addr]
  BY <1>1, <1>2, <1>3, <1>4, <1>5, <1>6
<1> QED
  BY <1>7, FundsAreSums DEF f, g

-----------------------------------------------------------------------------
(* What a commit leaves of the funds.                                      *)

\* The store as it will be when all that is pending is written.
Settled == [a \in Addr |-> IF a \in DOMAIN pending THEN pending[a] ELSE store[a]]

\* From when a call is checked to when it has ended, what was there is not exceeded:
\* not by what is written so far and what is still to be written together.
LedgerInv ==
    /\ phase = "running" => call.funds = Funds(store)
    /\ phase = "committing" => Funds(Settled) <= call.funds
    /\ phase = "done" /\ outcome.status = "ran" => Funds(store) <= call.funds

\* Nobody gets more than the sender is charged.
LEMMA ExecuteKeepsFunds ==
    ASSUME CallInv, NEW success \in BOOLEAN, Execute(success), call.commits
    PROVE  Funds(Settled') <= Funds(store)
<1> DEFINE tx == call.tx
           left == Finished(tx, call.cfg, success)
           moved == IF success THEN tx.value ELSE 0
           later == Settled'
<1>1. /\ phase = "running" /\ call.broken \subseteq Skipped(call.cfg)
      /\ pending' = left /\ store' = store
  BY DEF Execute
<1>2. /\ tx.caller \in Addr /\ Parties(tx) \subseteq Addr /\ tx.value \in Nat
      /\ store \in Accounts
  BY <1>1, SentFacts DEF CallInv, TypeOK, Accounts
<1>3. /\ DOMAIN left = Parties(tx)
      /\ \A a \in DOMAIN left : left[a] \in [balance : Nat, nonce : 0..MaxNonce]
      /\ left[tx.caller].balance
           <= store[tx.caller].balance - IF tx.kind = <<"call", tx.caller>> THEN 0 ELSE moved
      /\ \A a \in DOMAIN left \ {tx.caller} : left[a].balance = store[a].balance + moved
  BY <1>1, FinishedFacts
<1>4. later = [a \in Addr |-> IF a \in Parties(tx) THEN left[a] ELSE store[a]]
  BY <1>1, <1>3 DEF Settled
<1>5. moved \in Nat
  BY <1>2
<1> HIDE DEF tx, left, moved, later
<1>6. later \in Accounts
  BY <1>2, <1>3, <1>4 DEF Accounts
<1>7. /\ tx.caller \in Parties(tx) /\ later[tx.caller] = left[tx.caller]
      /\ store[tx.caller].balance \in Nat /\ later[tx.caller].balance \in Nat
  BY <1>2, <1>4, <1>6 DEF Parties, Accounts
<1>8. CASE Recipients(tx) = {}
  <2>1. \A a \in Addr \ {tx.caller} : later[a] = store[a]
    BY <1>4, <1>8 DEF Parties
  <2>2. later[tx.caller].balance <= store[tx.caller].balance
    BY <1>3, <1>5, <1>7
  <2> QED
    BY <1>2, <1>6, <2>1, <2>2, FundsOneChange DEF later
<1>9. CASE Recipients(tx) # {}
  <2>1. PICK r \in Addr : /\ Recipients(tx) = {r} /\ r # tx.caller
                          /\ tx.kind # <<"call", tx.caller>>
    <3>1. tx.kind[1] = "call" /\ tx.kind[2] # tx.caller /\ Recipients(tx) = {tx.kind[2]}
      BY <1>9 DEF Recipients
    <3>2. tx.kind # <<"call", tx.caller>>
      BY <3>1
    <3>3. tx.kind[2] \in Addr
      BY <1>2, <3>1 DEF Parties
    <3> QED
      BY <3>1, <3>2, <3>3
  <2>2. \A a \in Addr \ {tx.caller, r} : later[a] = store[a]
    BY <1>4, <2>1 DEF Parties
  <2>3. later[tx.caller].balance <= store[tx.caller].balance - moved
    BY <1>3, <1>7, <2>1
  <2>4. later[r].balance = store[r].balance + moved /\ store[r].balance \in Nat
    BY <1>2, <1>3, <1>4, <2>1 DEF Parties, Accounts
  <2>5. later[tx.caller].balance + later[r].balance
          <= store[tx.caller].balance + store[r].balance
    BY <1>5, <1>7, <2>3, <2>4
  <2> QED
    BY <1>2, <1>6, <2>1, <2>2, <2>5, FundsTwoChanges DEF later
<1> QED
  BY <1>8, <1>9 DEF later

LEMMA LedgerInvInit == Init => LedgerInv
  BY DEF Init, LedgerInv

LEMMA LedgerInvNext == CallInv /\ LedgerInv /\ [Next]_vars => LedgerInv'
<1> SUFFICES ASSUME CallInv, LedgerInv, [Next]_vars PROVE LedgerInv'
  OBVIOUS
<1>0. store \in Accounts
  BY DEF CallInv, TypeOK, Accounts
<1>1. ASSUME NEW c \in program, Refuse(c) PROVE LedgerInv'
  BY <1>1 DEF Refuse, LedgerInv
<1>2. ASSUME NEW c \in program, Start(c) PROVE LedgerInv'
  <2>1. call'.funds = Funds(store) /\ phase' = "running" /\ store' = store
    BY <1>2 DEF Start
  <2> QED
    BY <2>1 DEF LedgerInv
<1>3. ASSUME NEW rule \in call.broken \cup {"other"}, Reject(rule) PROVE LedgerInv'
  BY <1>3 DEF Reject, LedgerInv
<1>4. ASSUME NEW success \in BOOLEAN, Execute(success) PROVE LedgerInv'
  <2>1. /\ call.funds = Funds(store) /\ Funds(store) \in Int
        /\ store' = store /\ call' = call
    BY <1>0, <1>4, FundsType DEF Execute, LedgerInv
  <2>2. CASE call.commits
    <3>1. phase' = "committing" /\ Funds(Settled') <= Funds(store)
      BY <1>4, <2>2, ExecuteKeepsFunds DEF Execute
    <3> QED
      BY <2>1, <3>1 DEF LedgerInv
  <2>3. CASE ~ call.commits
    <3>1. phase' = "done"
      BY <1>4, <2>3 DEF Execute
    <3> QED
      BY <2>1, <3>1 DEF LedgerInv
  <2> QED
    BY <2>2, <2>3
<1>5. ASSUME NEW a \in DOMAIN pending, WriteAccount(a) PROVE LedgerInv'
  <2>1. /\ phase = "committing" /\ call' = call
        /\ store' = [store EXCEPT ![a] = pending[a]]
        /\ pending' = Restrict(pending, DOMAIN pending \ {a})
        /\ phase' = IF DOMAIN pending = {a} THEN "done" ELSE "committing"
    BY <1>5 DEF WriteAccount
  <2>2. /\ DOMAIN pending' = DOMAIN pending \ {a}
        /\ \A b \in DOMAIN pending' : pending'[b] = pending[b]
    BY <2>1 DEF Restrict
  <2>3. DOMAIN pending \subseteq Addr
    BY DEF CallInv, TypeOK
  <2>4. /\ DOMAIN store' = Addr
        /\ \A b \in Addr : store'[b] = IF b = a THEN pending[a] ELSE store[b]
    BY <1>0, <2>1, <2>3 DEF Accounts
  <2>5. Settled' = Settled
    BY <2>2, <2>3, <2>4 DEF Settled
  <2>6. Funds(Settled) <= call.funds
    BY <2>1 DEF LedgerInv
  <2>7. CASE DOMAIN pending = {a}
    <3>1. \A b \in Addr : Settled[b] = store'[b]
      BY <2>4, <2>7 DEF Settled
    <3>2. Funds(Settled) = Funds(store')
      BY <3>1 DEF Funds
    <3> QED
      BY <2>1, <2>6, <2>7, <3>2 DEF LedgerInv
  <2>8. CASE DOMAIN pending # {a}
    BY <2>1, <2>5, <2>6, <2>8 DEF LedgerInv
  <2> QED
    BY <2>7, <2>8
<1>6. CASE Throw
  BY <1>6 DEF Throw, LedgerInv
<1>7. CASE Return \/ Recreate
  BY <1>7 DEF Return, Recreate, Clear, LedgerInv
<1>8. CASE UNCHANGED vars
  BY <1>8 DEF vars, LedgerInv, Settled
<1> QED
  BY <1>1, <1>2, <1>3, <1>4, <1>5, <1>6, <1>7, <1>8 DEF Next

\* However many accounts there are and whatever a call moves, all that is written of
\* it together adds nothing to what there was.
THEOREM FundsNotInvented == Spec => []NothingInvented
<1>1. LedgerInv => NothingInvented
  BY DEF LedgerInv, NothingInvented
<1> QED
  BY <1>1, CallInvInit, CallInvNext, LedgerInvInit, LedgerInvNext, PTL DEF Spec

-----------------------------------------------------------------------------
(* Payments.                                                               *)

Landing(c) == phase = "committing" /\ Made(call) = c
Spent(c) == store[Sender(c)].nonce > NonceOf(c.options)

\* A payment that was made has spent its nonce, or is about to: while it lands, the
\* sender is written or the recipient is not yet paid or both are to come.
Once(c) ==
    /\ paid[c] \in {0, 1}
    /\ Landing(c) /\ Sender(c) \in DOMAIN pending =>
         /\ store[Sender(c)].nonce = NonceOf(c.options)
         /\ Recipients(call.tx) \subseteq DOMAIN pending => paid[c] = 0
    /\ Landing(c) /\ Sender(c) \notin DOMAIN pending =>
         /\ Spent(c)
         /\ Recipients(call.tx) \cap DOMAIN pending # {} => paid[c] = 0
    /\ ~ Landing(c) /\ paid[c] = 1 => Spent(c)

\* The exception is only that of a recipient who is written first.
PaidInv ==
    \A c \in DOMAIN paid :
        /\ c \in program /\ Payment(c)
        /\ IF c \in torn THEN Recipient(c) < Sender(c) ELSE Once(c)

LEMMA PaidInvInit == Init => PaidInv
  BY DEF Init, PaidInv, Once, Landing, Spent

\* A step that neither starts nor continues a commit.
LEMMA PaidInvQuiet ==
    ASSUME PaidInv, phase # "committing", phase' # "committing",
           UNCHANGED <<store, program, paid, torn>>
    PROVE  PaidInv'
  BY DEF PaidInv, Once, Landing, Spent, Payment

LEMMA PaidInvExecute ==
    ASSUME CallInv, PaidInv, NEW success \in BOOLEAN, Execute(success), call.commits
    PROVE  PaidInv'
<1>1. /\ phase = "running" /\ phase' = "committing"
      /\ call.broken \subseteq Skipped(call.cfg)
      /\ pending' = Finished(call.tx, call.cfg, success)
      /\ UNCHANGED <<store, program, call, paid, torn>>
  BY DEF Execute
<1>2. /\ call.tx.caller = Sender(Made(call))
      /\ call.tx.nonce = NonceOf(Made(call).options)
      /\ Skipped(call.cfg)
           = IF or(Made(call).options, "checkNonce", TRUE) THEN {} ELSE {"nonce"}
  BY <1>1, SentFacts
<1>3. DOMAIN pending' = {call.tx.caller} \cup Recipients(call.tx)
  BY <1>1 DEF Finished
<1>4. call.broken = Broken(call.tx, call.block, store)
  BY <1>1 DEF CallInv, Fresh
<1> SUFFICES ASSUME NEW c \in DOMAIN paid
             PROVE  /\ c \in program /\ Payment(c)
                    /\ IF c \in torn THEN Recipient(c) < Sender(c) ELSE Once(c)'
  BY <1>1 DEF PaidInv
<1>5. /\ c \in program /\ Payment(c)
      /\ IF c \in torn THEN Recipient(c) < Sender(c) ELSE Once(c)
  BY DEF PaidInv
<1>6. CASE c \notin torn /\ c = Made(call)
  <2>1. call.broken = {}
    BY <1>1, <1>2, <1>5, <1>6 DEF Payment
  <2>2. call.tx.nonce = store[call.tx.caller].nonce
    BY <1>4, <2>1 DEF Broken
  <2>3. NonceOf(c.options) \in Nat
    BY <1>1, <1>2, <1>6, SentFacts
  <2>4. paid[c] = 0
    BY <1>1, <1>2, <1>5, <1>6, <2>2, <2>3 DEF Once, Landing, Spent
  <2> QED
    BY <1>1, <1>2, <1>3, <1>5, <1>6, <2>2, <2>4 DEF Once, Landing
<1>7. CASE c \notin torn /\ c # Made(call)
  BY <1>1, <1>5, <1>7 DEF Once, Landing, Spent, Made
<1> QED
  BY <1>5, <1>6, <1>7

LEMMA PaidInvWrite ==
    ASSUME CallInv, PaidInv, NEW a \in DOMAIN pending, WriteAccount(a)
    PROVE  PaidInv'
<1> DEFINE tx == call.tx
           mine == Made(call)
<1>1. /\ phase = "committing"
      /\ store' = [store EXCEPT ![a] = pending[a]]
      /\ DOMAIN pending' = DOMAIN pending \ {a}
      /\ phase' = IF DOMAIN pending = {a} THEN "done" ELSE "committing"
      /\ UNCHANGED <<program, call, torn>>
  BY DEF WriteAccount, Restrict
<1>2. /\ DOMAIN pending \subseteq Parties(tx)
      /\ pending[a].nonce = store[a].nonce + IF a = tx.caller THEN 1 ELSE 0
  BY <1>1 DEF CallInv, Writing
<1>3. /\ tx.caller = Sender(mine) /\ mine \in program /\ tx.nonce = NonceOf(mine.options)
      /\ tx.nonce \in Nat
      /\ \A r, s \in Recipients(tx) : r = s
      /\ tx.caller \notin Recipients(tx)
      /\ Parties(tx) \subseteq Addr
  BY <1>1, SentFacts
<1>4. /\ DOMAIN paid' = DOMAIN paid
      /\ \A c \in DOMAIN paid : c # mine => paid'[c] = paid[c]
      /\ mine \in DOMAIN paid =>
           paid'[mine] = IF Credited(a) THEN paid[mine] + 1 ELSE paid[mine]
  BY DEF WriteAccount
<1>5. Credited(a) => a \in Recipients(tx)
  BY DEF Credited
<1>6. /\ \A b \in Addr : store[b].nonce \in Nat
      /\ \A b \in Addr : store'[b].nonce
           = IF b = a THEN store[b].nonce + (IF a = tx.caller THEN 1 ELSE 0)
             ELSE store[b].nonce
  <2>1. store \in [Addr -> [balance : Nat, nonce : 0..MaxNonce]]
    BY DEF CallInv, TypeOK
  <2> QED
    BY <1>1, <1>2, <2>1
<1> SUFFICES ASSUME NEW c \in DOMAIN paid
             PROVE  /\ c \in program /\ Payment(c)
                    /\ IF c \in torn THEN Recipient(c) < Sender(c) ELSE Once(c)'
  BY <1>1, <1>4 DEF PaidInv
<1>7. /\ c \in program /\ Payment(c)
      /\ IF c \in torn THEN Recipient(c) < Sender(c) ELSE Once(c)
  BY DEF PaidInv
<1>8. Sender(c) \in Addr /\ program \in Programs
  BY <1>7, OptionsAssumption DEF CallInv
<1>9. NonceOf(c.options) \in Nat
  <2>1. or(c.options, "nonce", 0) \in Int
    BY <1>7, <1>8, OptionsAssumption
  <2>2. U64 \in Nat
    BY CodecAssumption, SMT
  <2> QED
    BY <2>1, <2>2, ClampType DEF NonceOf
<1> HIDE DEF tx, mine
<1>10. Spent(c) => Spent(c)'
  BY <1>6, <1>8, <1>9 DEF Spent
<1>11. CASE c \notin torn /\ c # mine
  <2>1. ~ Landing(c) /\ ~ Landing(c)'
    BY <1>1, <1>11 DEF Landing, mine, Made
  <2> QED
    BY <1>4, <1>7, <1>10, <1>11, <2>1 DEF Once
<1>12. CASE c \notin torn /\ c = mine
  <2>1. Landing(c) /\ Once(c) /\ Sender(c) = tx.caller
    BY <1>1, <1>3, <1>7, <1>12 DEF Landing, mine
  <2>2. Landing(c)' <=> DOMAIN pending # {a}
    BY <1>1, <1>12 DEF Landing, mine, Made
  <2>3. CASE a = tx.caller
    <3>1. Spent(c)'
      BY <1>3, <1>6, <1>8, <1>9, <1>12, <2>1, <2>3 DEF Once, Spent
    <3>2. paid'[c] = paid[c]
      BY <1>3, <1>4, <1>5, <1>12, <2>3
    <3>3. Sender(c) \notin DOMAIN pending'
      BY <1>1, <2>1, <2>3
    <3>4. Recipients(tx) \cap DOMAIN pending' # {} => paid[c] = 0
      <4>1. Recipients(tx) \cap DOMAIN pending' # {} => Recipients(tx) \subseteq DOMAIN pending
        BY <1>1, <1>3
      <4> QED
        BY <2>1, <2>3, <4>1 DEF Once, tx
    <3>5. paid'[c] \in {0, 1}
      BY <2>1, <3>2 DEF Once
    <3>6. Recipients(call'.tx) \cap DOMAIN pending' # {} => paid'[c] = 0
      BY <1>1, <3>2, <3>4 DEF tx
    <3> QED
      BY <1>7, <1>12, <3>1, <3>3, <3>5, <3>6 DEF Once
  <2>4. CASE a # tx.caller
    <3>1. a \in Recipients(tx)
      BY <1>2, <2>4 DEF Parties, tx
    <3>2. paid[c] = 0
      <4>1. Recipients(tx) \subseteq DOMAIN pending
        BY <1>3, <3>1
      <4> QED
        BY <2>1, <3>1, <4>1 DEF Once, tx
    <3>3. paid'[c] \in {0, 1}
      BY <1>4, <1>12, <3>2
    <3>4. /\ Sender(c) \in DOMAIN pending' <=> Sender(c) \in DOMAIN pending
          /\ store'[Sender(c)].nonce = store[Sender(c)].nonce
          /\ ~ Recipients(tx) \subseteq DOMAIN pending'
          /\ Recipients(tx) \cap DOMAIN pending' = {}
      BY <1>1, <1>3, <1>6, <1>8, <2>1, <2>4, <3>1
    <3>5. Spent(c)' <=> Spent(c)
      BY <3>4 DEF Spent
    <3>6. ~ Landing(c)' => Sender(c) \notin DOMAIN pending
      BY <2>1, <2>2, <2>4
    <3>7. /\ ~ Recipients(call'.tx) \subseteq DOMAIN pending'
          /\ Recipients(call'.tx) \cap DOMAIN pending' = {}
      BY <1>1, <3>4 DEF tx
    <3>8. /\ Sender(c) \in DOMAIN pending
               => store[Sender(c)].nonce = NonceOf(c.options)
          /\ Sender(c) \notin DOMAIN pending => Spent(c)
      BY <2>1 DEF Once
    <3> QED
      BY <1>7, <1>12, <3>3, <3>4, <3>5, <3>6, <3>7, <3>8 DEF Once
  <2> QED
    BY <2>3, <2>4
<1> QED
  BY <1>7, <1>11, <1>12

LEMMA PaidInvThrow ==
    ASSUME CallInv, PaidInv, Throw
    PROVE  PaidInv'
<1> DEFINE tx == call.tx
           mine == Made(call)
<1>1. /\ phase \in {"running", "committing"} /\ phase' = "dead"
      /\ torn' = IF /\ phase = "committing" /\ tx.caller \in DOMAIN pending
                    /\ ~ Recipients(tx) \subseteq DOMAIN pending
                 THEN torn \cup {mine} ELSE torn
      /\ UNCHANGED <<store, program, call, pending, paid>>
  BY DEF Throw
<1>2. /\ tx.caller = Sender(mine)
      /\ Recipients(tx) \subseteq {Recipient(mine)}
  BY <1>1, SentFacts
<1> SUFFICES ASSUME NEW c \in DOMAIN paid
             PROVE  /\ c \in program /\ Payment(c)
                    /\ IF c \in torn' THEN Recipient(c) < Sender(c) ELSE Once(c)'
  BY <1>1 DEF PaidInv
<1>3. /\ c \in program /\ Payment(c)
      /\ IF c \in torn THEN Recipient(c) < Sender(c) ELSE Once(c)
  BY DEF PaidInv
<1>4. ~ Landing(c)' /\ (Spent(c)' <=> Spent(c))
  BY <1>1 DEF Landing, Spent
<1>5. CASE c \in torn
  BY <1>1, <1>3, <1>5
<1>6. CASE c \notin torn /\ c \in torn'
  <2>1. /\ c = mine /\ phase = "committing" /\ tx.caller \in DOMAIN pending
        /\ ~ Recipients(tx) \subseteq DOMAIN pending
    BY <1>1, <1>6
  <2>2. Recipient(mine) \in Recipients(tx) \ DOMAIN pending
    BY <1>2, <2>1
  <2>3. Recipient(mine) < tx.caller
    BY <2>1, <2>2 DEF CallInv, Writing, Parties
  <2> QED
    BY <1>2, <1>3, <1>6, <2>1, <2>3
<1>7. CASE c \notin torn'
  <2>1. c \notin torn /\ Once(c)
    BY <1>1, <1>3, <1>7
  <2>2. paid[c] = 1 => Spent(c)
    <3>1. CASE ~ Landing(c)
      BY <2>1, <3>1 DEF Once
    <3>2. CASE Landing(c)
      BY <1>1, <1>2, <1>7, <2>1, <3>2 DEF Once, Landing
    <3> QED
      BY <3>1, <3>2
  <2> QED
    BY <1>1, <1>3, <1>4, <1>7, <2>1, <2>2 DEF Once
<1> QED
  BY <1>5, <1>6, <1>7

LEMMA PaidInvNext == CallInv /\ PaidInv /\ [Next]_vars => PaidInv'
<1> SUFFICES ASSUME CallInv, PaidInv, [Next]_vars PROVE PaidInv'
  OBVIOUS
<1>1. CASE \E c \in program : Refuse(c) \/ Start(c)
  BY <1>1, PaidInvQuiet DEF Refuse, Start
<1>2. ASSUME NEW rule \in call.broken \cup {"other"}, Reject(rule) PROVE PaidInv'
  BY <1>2, PaidInvQuiet DEF Reject
<1>3. ASSUME NEW success \in BOOLEAN, Execute(success) PROVE PaidInv'
  <2>1. CASE call.commits
    BY <1>3, <2>1, PaidInvExecute
  <2>2. CASE ~ call.commits
    BY <1>3, <2>2, PaidInvQuiet DEF Execute
  <2> QED
    BY <2>1, <2>2
<1>4. ASSUME NEW a \in DOMAIN pending, WriteAccount(a) PROVE PaidInv'
  BY <1>4, PaidInvWrite
<1>5. CASE Throw
  BY <1>5, PaidInvThrow
<1>6. CASE Return \/ Recreate
  BY <1>6, PaidInvQuiet DEF Return, Recreate, Clear
<1>7. CASE UNCHANGED vars
  BY <1>7 DEF vars, PaidInv, Once, Landing, Spent, Made, Payment
<1> QED
  BY <1>1, <1>2, <1>3, <1>4, <1>5, <1>6, <1>7 DEF Next

\* However often a payment is sent, whatever else is sent in between and however
\* often the store throws, it is made once, but in the one order of a torn write.
THEOREM PaymentsOnce == Spec => []PaidOnce
<1>1. PaidInv => PaidOnce
  BY DEF PaidInv, PaidOnce, Once
<1> QED
  BY <1>1, CallInvInit, CallInvNext, PaidInvInit, PaidInvNext, PTL DEF Spec
=============================================================================
