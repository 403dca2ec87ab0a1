--------------------------- MODULE ExecutorProofs ---------------------------
(***************************************************************************)
(* Keeping the engine alive cannot be told from building one for each      *)
(* request, for every set of requests and every state of the embedder.     *)
(***************************************************************************)
EXTENDS Executor, TLAPS

-----------------------------------------------------------------------------
(* What the engine is fixed to follows its key.                            *)

Keyed(e) == /\ e \in Engine
            /\ e.cfg.spec = spec_from_u8(e.key[1])
            /\ e.cfg.chain = e.key[2]
            /\ e.precompiles = [map |-> precompiles_for(e.cfg.spec), spec |-> e.cfg.spec]

LEMMA SpecType == ASSUME NEW b \in SpecByte PROVE spec_from_u8(b) \in Nat
  BY RequestAssumption DEF spec_from_u8, CANCUN

LEMMA PrecompilesType ==
    ASSUME NEW s \in Nat
    PROVE  [map |-> precompiles_for(s), spec |-> s] \in FixedPrecompiles
  BY DEF precompiles_for, FixedPrecompiles

LEMMA EmptyType == empty \in Partial(Addr, Account) /\ empty \in Partial(Addr, Hash)
                   /\ DOMAIN empty = {}
<1>1. empty \in [{} -> Account] /\ empty \in [{} -> Hash] /\ DOMAIN empty = {}
  BY DEF empty
<1> QED
  BY <1>1 DEF Partial

LEMMA NewKeyed ==
    ASSUME NEW r \in Request
    PROVE  Keyed(new(r)) /\ new(r).key = <<r.spec, r.chain>> /\ new(r).journal = empty
<1>1. /\ r.spec \in SpecByte /\ r.chain \in Chain
      /\ spec_from_u8(r.spec) \in Nat
  BY SpecType DEF Request
<1>2. from_flags({}) \in Switches
  BY DEF from_flags, Switches
<1>3. new(r).block \in BlockEnv
  BY <1>1, RequestAssumption DEF new, BlockEnv, blob_price
<1>4. new(r).cfg \in CfgEnv
  BY <1>1, <1>2 DEF new, CfgEnv
<1>5. new(r) \in Engine
  BY <1>1, <1>3, <1>4, EmptyType, PrecompilesType DEF new, Engine
<1> QED
  BY <1>1, <1>5 DEF Keyed, new

LEMMA EnvType ==
    ASSUME NEW r \in Request
    PROVE  EnvOf(r).block \in BlockEnv /\ EnvOf(r).cfg \in CfgEnv
<1>1. /\ r.spec \in SpecByte /\ r.chain \in Chain /\ r.header \in Word
      /\ unwrap_or(r.randao, Zero) \in Word
      /\ unwrap_or(r.excess, Zero) \in Word
      /\ spec_from_u8(r.spec) \in Nat
  BY SpecType, RequestAssumption DEF Request, unwrap_or
<1>2. from_flags(r.flags) \in Switches
  BY DEF from_flags, Switches
<1>3. EnvOf(r).block \in BlockEnv
  BY <1>1 DEF EnvOf, BlockEnv, blob_price
<1>4. EnvOf(r).cfg \in CfgEnv
  BY <1>1, <1>2 DEF EnvOf, CfgEnv, checks_nonce
<1> QED
  BY <1>3, <1>4

\* Applying a request's environment to an engine with the request's key leaves
\* nothing of the environment before.
LEMMA ApplyEnv ==
    ASSUME NEW r \in Request, NEW e, Keyed(e), e.key = <<r.spec, r.chain>>
    PROVE  LET f == apply_env(e, r)
           IN /\ Keyed(f)
              /\ Env(f) = EnvOf(r)
              /\ f.key = e.key
              /\ f.journal = e.journal
              /\ f.original_code_hash = e.original_code_hash
<1> DEFINE f == apply_env(e, r)
<1>1. e \in Engine /\ e.cfg \in CfgEnv
  BY DEF Keyed, Engine
<1>2. e.cfg.spec = spec_from_u8(r.spec) /\ e.cfg.chain = r.chain
  BY DEF Keyed
<1>3. f.block = EnvOf(r).block
  BY <1>1, <1>2 DEF apply_env, apply_block, EnvOf, Engine
<1>4. f.cfg = EnvOf(r).cfg
  <2> DEFINE c == apply_cfg(e.cfg, r)
  <2>1. from_flags(r.flags) \in Switches
    BY DEF from_flags, Switches
  <2>2. checks_nonce(r) \in BOOLEAN
    BY DEF checks_nonce
  <2>3. c \in CfgEnv
    BY <1>1, <2>1, <2>2 DEF apply_cfg, CfgEnv
  <2>4. /\ c.spec = e.cfg.spec /\ c.chain = e.cfg.chain
        /\ c.disable_nonce_check = ~ checks_nonce(r)
        /\ c.switches = from_flags(r.flags)
    BY <1>1 DEF apply_cfg, CfgEnv
  <2>5. c = [spec |-> c.spec, chain |-> c.chain,
             disable_nonce_check |-> c.disable_nonce_check, switches |-> c.switches]
    BY <2>3 DEF CfgEnv
  <2>6. f.cfg = c
    BY <1>1 DEF apply_env, Engine
  <2> QED
    BY <1>2, <2>4, <2>5, <2>6 DEF EnvOf
<1>5. /\ f.key = e.key /\ f.journal = e.journal
      /\ f.original_code_hash = e.original_code_hash
      /\ f.precompiles = e.precompiles
  BY <1>1 DEF apply_env, Engine
<1>6. apply_block(e.block, e.cfg.spec, r) \in BlockEnv /\ apply_cfg(e.cfg, r) \in CfgEnv
  BY <1>1, <1>3, <1>4, EnvType DEF apply_env, Engine
<1>7. f \in Engine
  BY <1>1, <1>6 DEF Engine, apply_env
<1>8. f.cfg.spec = spec_from_u8(r.spec) /\ f.cfg.chain = r.chain
  BY <1>4 DEF EnvOf
<1>9. e.precompiles = [map |-> precompiles_for(f.cfg.spec), spec |-> f.cfg.spec]
  BY <1>2, <1>8 DEF Keyed
<1>10. Env(f) = EnvOf(r)
  BY <1>3, <1>4, <1>5, <1>8, <1>9 DEF Env, EnvOf
<1> HIDE DEF f
<1> QED
  BY <1>5, <1>7, <1>8, <1>9, <1>10 DEF Keyed, f

LEMMA PreparedEnv ==
    ASSUME NEW r \in Request, executor = None \/ Keyed(executor),
           executor = None \/ executor.journal = empty
    PROVE  LET e == Prepared(r)
           IN Keyed(e) /\ Env(e) = EnvOf(r) /\ e.journal = empty
<1>1. CASE stale(executor, r)
  BY <1>1, NewKeyed, ApplyEnv DEF Prepared
<1>2. CASE ~ stale(executor, r)
  <2>1. Keyed(executor) /\ executor.key = <<r.spec, r.chain>> /\ executor.journal = empty
    BY <1>2 DEF stale
  <2> QED
    BY <1>2, <2>1, ApplyEnv DEF Prepared
<1> QED
  BY <1>1, <1>2

LEMMA BeginTx ==
    ASSUME NEW e, Keyed(e)
    PROVE  LET f == begin_tx(e)
           IN /\ Keyed(f) /\ Env(f) = Env(e) /\ f.journal = e.journal
              /\ f.original_code_hash = empty
  BY EmptyType DEF begin_tx, Keyed, Engine, Env

\* The precompiles are already those of the spec they are told.
LEMMA SetSpec ==
    ASSUME NEW e, Keyed(e)
    PROVE  set_spec(e) = e
<1> DEFINE p == [map |-> precompiles_for(e.cfg.spec), spec |-> e.cfg.spec]
<1>1. e \in Engine /\ e.precompiles = p
  BY DEF Keyed
<1>2. [e.precompiles EXCEPT !.spec = e.cfg.spec] = p
  BY <1>1
<1>3. set_spec(e) = [e EXCEPT !.precompiles = p]
  BY <1>1, <1>2 DEF set_spec, Engine
<1> HIDE DEF p
<1> QED
  BY <1>1, <1>3 DEF Engine

LEMMA Finalize ==
    ASSUME NEW e, Keyed(e)
    PROVE  Keyed(finalize(e)) /\ finalize(e).journal = empty
  BY EmptyType DEF finalize, Keyed, Engine

-----------------------------------------------------------------------------
(* The inductive invariant.  Between calls the engine has no journal, and   *)
(* during one its record of code hashes says what the journal was read as.  *)

Recorded ==
    /\ DOMAIN executor.original_code_hash \subseteq DOMAIN executor.journal
    /\ \A a \in DOMAIN executor.journal :
          original_code_hash_of(executor, a) = hash_of(executor.journal[a])

Running ==
    /\ Keyed(executor)
    /\ request \in Request
    /\ Env(executor) = EnvOf(request)
    /\ \A a \in DOMAIN executor.journal : executor.journal[a] = host[a]
    /\ ~ request.light => Recorded

Inv ==
    /\ host \in [Addr -> Account]
    /\ phase \in {"idle", "running", "done"}
    /\ phase = "idle" => request = None
    /\ phase # "done" => outcome = NoOutcome
    /\ phase = "running" => Running
    /\ phase # "running" => /\ executor = None \/ Keyed(executor)
                            /\ executor = None \/ executor.journal = empty
    /\ CodeReportedIffChanged

LEMMA InitInv == Init => Inv
  BY DEF Init, Inv, CodeReportedIffChanged

LEMMA WrittenType ==
    ASSUME NEW h \in [Addr -> Account], NEW e, Keyed(e),
           NEW fates \in [DOMAIN e.journal -> Fate]
    PROVE  Written(h, encode_outcome(e, fates)) \in [Addr -> Account]
<1> DEFINE c == encode_outcome(e, fates)
<1>1. \A a \in DOMAIN c : c[a].fate \in Fate
  BY DEF encode_outcome
<1>2. \A a \in DOMAIN c : c[a].fate.hash \in CodeHash
  BY <1>1 DEF Fate
<1> HIDE DEF c
<1> QED
  BY <1>2 DEF Written, Account, c

\* What a full execution encodes is the truth about the embedder's state.
LEMMA EncodesTruth ==
    ASSUME Inv, phase = "running", ~ request.light,
           NEW fates \in [DOMAIN executor.journal -> Fate]
    PROVE  LET c == encode_outcome(executor, fates)
           IN /\ \A a \in DOMAIN c :
                    /\ c[a].was = host[a]
                    /\ c[a].code <=> c[a].fate.hash # hash_of(c[a].was)
<1>1. Running /\ Recorded
  BY DEF Inv, Running
<1> QED
  BY <1>1 DEF encode_outcome, Running, Recorded

LEMMA LoadKeepsRunning ==
    ASSUME Inv, NEW a \in Addr, Load(a)
    PROVE  Running'
<1> DEFINE e == executor
           was == host[a]
           J == [b \in DOMAIN e.journal \cup {a} |-> IF b = a THEN was ELSE e.journal[b]]
           O == IF was \notin Hash THEN e.original_code_hash
                ELSE [b \in DOMAIN e.original_code_hash \cup {a} |->
                        IF b = a THEN was ELSE e.original_code_hash[b]]
<1>1. /\ Running /\ e \in Engine /\ a \notin DOMAIN e.journal
      /\ was \in Account
  BY DEF Load, Inv, Running, Keyed
<1>2. executor' = [e EXCEPT !.journal = J, !.original_code_hash = O]
  BY DEF Load
<1>3. J \in Partial(Addr, Account) /\ DOMAIN J = DOMAIN e.journal \cup {a}
  <2>1. PICK D \in SUBSET Addr : e.journal \in [D -> Account]
    BY <1>1 DEF Engine, Partial
  <2>2. J \in [D \cup {a} -> Account]
    BY <1>1, <2>1
  <2> QED
    BY <2>1, <2>2 DEF Partial
<1>4. O \in Partial(Addr, Hash) /\ DOMAIN O \subseteq DOMAIN e.original_code_hash \cup {a}
  <2>1. PICK D \in SUBSET Addr : e.original_code_hash \in [D -> Hash]
    BY <1>1 DEF Engine, Partial
  <2>2. CASE was \in Hash
    <3>1. O \in [D \cup {a} -> Hash]
      BY <2>1, <2>2
    <3> QED
      BY <2>1, <3>1 DEF Partial
  <2>3. CASE was \notin Hash
    BY <2>1, <2>3 DEF Partial
  <2> QED
    BY <2>2, <2>3
<1> HIDE DEF J, O
<1>5. /\ executor'.journal = J /\ executor'.original_code_hash = O
      /\ executor'.key = e.key /\ executor'.block = e.block /\ executor'.cfg = e.cfg
      /\ executor'.precompiles = e.precompiles
      /\ executor' \in Engine
  BY <1>1, <1>2, <1>3, <1>4 DEF Engine
<1>6. Keyed(executor') /\ Env(executor') = Env(e)
  BY <1>1, <1>5 DEF Keyed, Env, Running
<1>7. host' = host /\ request' = request
  BY DEF Load
<1>8. \A b \in DOMAIN J : J[b] = host[b]
  BY <1>1 DEF Running, J
<1>9. ~ request.light => Recorded'
  <2> SUFFICES ASSUME ~ request.light PROVE Recorded'
    OBVIOUS
  <2>1. Recorded
    BY <1>1 DEF Running
  <2>2. DOMAIN O \subseteq DOMAIN J
    BY <1>3, <1>4, <2>1 DEF Recorded
  <2>3. a \notin DOMAIN e.original_code_hash
    BY <1>1, <2>1 DEF Recorded
  <2>4. original_code_hash_of(executor', a) = hash_of(J[a])
    <3>1. J[a] = was
      BY DEF J
    <3>2. CASE was \in Hash
      <4>1. a \in DOMAIN O /\ O[a] = was
        BY <3>2 DEF O
      <4> QED
        BY <1>5, <3>1, <3>2, <4>1, RequestAssumption DEF original_code_hash_of, hash_of
    <3>3. CASE was \notin Hash
      <4>1. a \notin DOMAIN O
        BY <2>3, <3>3 DEF O
      <4>2. hash_of(was) = EmptyHash
        BY <1>1, <3>3 DEF Account, CodeHash, hash_of
      <4> QED
        BY <1>5, <3>1, <4>1, <4>2 DEF original_code_hash_of
    <3> QED
      BY <3>2, <3>3
  <2>5. ASSUME NEW b \in DOMAIN e.journal
        PROVE  original_code_hash_of(executor', b) = hash_of(J[b])
    <3>1. b # a /\ J[b] = e.journal[b]
      BY <1>1 DEF J
    <3>2. /\ b \in DOMAIN O <=> b \in DOMAIN e.original_code_hash
          /\ b \in DOMAIN O => O[b] = e.original_code_hash[b]
      BY <3>1 DEF O
    <3>3. original_code_hash_of(executor', b) = original_code_hash_of(e, b)
      BY <1>5, <3>2 DEF original_code_hash_of
    <3> QED
      BY <2>1, <3>1, <3>3 DEF Recorded
  <2> QED
    BY <1>3, <1>5, <2>2, <2>4, <2>5 DEF Recorded
<1> QED
  BY <1>1, <1>5, <1>6, <1>7, <1>8, <1>9 DEF Running

LEMMA StepInv == Inv /\ [Next]_vars => Inv'
<1> SUFFICES ASSUME Inv, [Next]_vars PROVE Inv'
  OBVIOUS
<1>1. CASE Malformed
  BY <1>1 DEF Malformed, Inv, CodeReportedIffChanged, Rejected
<1>2. ASSUME NEW r \in Request, Unbuildable(r) PROVE Inv'
  BY <1>2, PreparedEnv DEF Unbuildable, Inv, CodeReportedIffChanged, Rejected
<1>3. ASSUME NEW r \in Request, Begin(r) PROVE Inv'
  <2>1. Keyed(Prepared(r)) /\ Env(Prepared(r)) = EnvOf(r) /\ Prepared(r).journal = empty
    BY <1>3, PreparedEnv DEF Begin, Inv
  <2>2. /\ Keyed(executor') /\ Env(executor') = EnvOf(r) /\ executor'.journal = empty
        /\ ~ r.light => executor'.original_code_hash = empty
    BY <1>3, <2>1, BeginTx, SetSpec DEF Begin
  <2>3. Running'
    BY <1>3, <2>2, EmptyType DEF Begin, Running, Recorded
  <2> QED
    BY <1>3, <2>3 DEF Begin, Inv, CodeReportedIffChanged
<1>4. ASSUME NEW a \in Addr, Load(a) PROVE Inv'
  <2>1. phase' = "running" /\ host' = host /\ outcome' = NoOutcome
    BY <1>4 DEF Load, Inv
  <2> QED
    BY <1>4, <2>1, LoadKeepsRunning DEF Inv, CodeReportedIffChanged
<1>5. CASE Reject
  BY <1>5, Finalize DEF Reject, Inv, Running, CodeReportedIffChanged, Rejected
<1>6. ASSUME NEW fates \in [DOMAIN executor.journal -> Fate], Execute(fates) PROVE Inv'
  <2> DEFINE c == encode_outcome(executor, fates)
  <2>1. /\ phase = "running" /\ phase' = "done" /\ ~ request.light
        /\ outcome' = Ran(Env(executor), c)
        /\ host' = IF wants_commit(request) THEN Written(host, c) ELSE host
        /\ executor' = finalize(executor)
    BY <1>6 DEF Execute
  <2>2. Keyed(executor) /\ host \in [Addr -> Account]
    BY <2>1 DEF Inv, Running
  <2>3. host' \in [Addr -> Account]
    BY <2>1, <2>2, WrittenType
  <2>4. Keyed(executor') /\ executor'.journal = empty
    BY <2>1, <2>2, Finalize
  <2>5. \A a \in DOMAIN c : c[a].code <=> c[a].fate.hash # hash_of(c[a].was)
    BY <2>1, EncodesTruth
  <2> HIDE DEF c
  <2>6. outcome'.changes = c
    BY <2>1 DEF Ran
  <2>7. CodeReportedIffChanged'
    BY <2>5, <2>6 DEF CodeReportedIffChanged
  <2> QED
    BY <2>1, <2>3, <2>4, <2>7 DEF Inv
<1>7. CASE ExecuteLight
  BY <1>7, Finalize DEF ExecuteLight, Inv, Running, CodeReportedIffChanged, RanLight
<1>8. CASE Return
  BY <1>8 DEF Return, Inv, CodeReportedIffChanged
<1>9. CASE Throw
  BY <1>9 DEF Throw, Inv, CodeReportedIffChanged
<1>10. ASSUME NEW a \in Addr, NEW account \in Account, Write(a, account) PROVE Inv'
  BY <1>10 DEF Write, Inv, CodeReportedIffChanged
<1>11. CASE UNCHANGED vars
  BY <1>11 DEF vars, Inv, Running, Recorded, CodeReportedIffChanged
<1> QED
  BY <1>1, <1>2, <1>3, <1>4, <1>5, <1>6, <1>7, <1>8, <1>9, <1>10, <1>11 DEF Next

LEMMA AlwaysInv == Spec => []Inv
  BY InitInv, StepInv, PTL DEF Spec

\* A transaction never runs in an environment that has anything of an earlier
\* call's block, switches, chain or spec in it.
THEOREM NeverInherits == Spec => []NothingInherited
<1>1. Inv => NothingInherited
  BY DEF Inv, Running, NothingInherited
<1> QED
  BY <1>1, AlwaysInv, PTL

\* The engine, when there is one, is a whole one, with config and journal.
THEOREM TypeCorrect == Spec => []TypeOK
<1>1. Inv => TypeOK
  BY DEF Inv, Running, Keyed, TypeOK
<1> QED
  BY <1>1, AlwaysInv, PTL

\* Nor does it work with an account as an earlier call left or saw it.
THEOREM ReadsHost == Spec => []ReadsAreCurrent
<1>1. Inv => ReadsAreCurrent
  BY DEF Inv, Running, ReadsAreCurrent
<1> QED
  BY <1>1, AlwaysInv, PTL

\* An outcome has code bytes for exactly the accounts whose code is new.
THEOREM CodeExact == Spec => []CodeReportedIffChanged
<1>1. Inv => CodeReportedIffChanged
  BY DEF Inv
<1> QED
  BY <1>1, AlwaysInv, PTL

\* The promise speaks of the same requests, environments and outcomes.
LEMMA SameWords ==
    /\ Promise!Account = Account
    /\ Promise!Request = Request
    /\ Promise!Rejected = Rejected /\ Promise!NoOutcome = NoOutcome
    /\ \A x : Promise!hash_of(x) = hash_of(x)
    /\ \A r : /\ Promise!EnvOf(r) = EnvOf(r)
              /\ Promise!wants_commit(r) = wants_commit(r)
    /\ \A e : Promise!RanLight(e) = RanLight(e)
    /\ \A h, c : Promise!Written(h, c) = Written(h, c)
<1>1. Promise!Account = Account /\ \A x : Promise!hash_of(x) = hash_of(x)
  BY DEF Promise!Account, Promise!CodeHash, Account, CodeHash, Promise!hash_of, hash_of
<1>2. /\ Promise!Request = Request /\ Promise!Rejected = Rejected
      /\ Promise!NoOutcome = NoOutcome
  BY DEF Promise!Request, Request, Promise!Rejected, Rejected,
         Promise!NoOutcome, NoOutcome
<1>3. \A r : /\ Promise!EnvOf(r) = EnvOf(r)
             /\ Promise!wants_commit(r) = wants_commit(r)
  BY DEF Promise!EnvOf, EnvOf, Promise!wants_commit, wants_commit,
         Promise!spec_from_u8, spec_from_u8, Promise!AMSTERDAM, AMSTERDAM,
         Promise!CANCUN, CANCUN, Promise!unwrap_or, unwrap_or,
         Promise!blob_price, blob_price, Promise!checks_nonce, checks_nonce,
         Promise!precompiles_for, precompiles_for, Promise!from_flags, from_flags,
         Promise!COMMIT, COMMIT, Promise!CHECK_NONCE, CHECK_NONCE,
         Promise!RELAX_VALIDATION, RELAX_VALIDATION,
         Promise!DISABLE_BASE_FEE, DISABLE_BASE_FEE,
         Promise!DISABLE_BALANCE_CHECK, DISABLE_BALANCE_CHECK,
         Promise!DISABLE_BLOCK_GAS_LIMIT, DISABLE_BLOCK_GAS_LIMIT,
         Promise!DISABLE_EIP3607, DISABLE_EIP3607
<1>4. \A e : Promise!RanLight(e) = RanLight(e)
  BY DEF Promise!RanLight, RanLight
<1>5. \A h, c : Promise!Written(h, c) = Written(h, c)
  BY DEF Promise!Written, Written
<1> QED
  BY <1>1, <1>2, <1>3, <1>4, <1>5

LEMMA StepStateless ==
    ASSUME Inv, [Next]_vars
    PROVE  [Promise!Next]_<<host, request, outcome>>
<1>1. CASE Malformed \/ (\E r \in Request : Unbuildable(r)) \/ Reject
  BY <1>1, SameWords
     DEF Inv, Malformed, Unbuildable, Reject, Promise!Next, Promise!Reject
<1>2. ASSUME NEW r \in Request, Begin(r) PROVE Promise!Ask
  BY <1>2, SameWords DEF Inv, Begin, Promise!Ask
<1>3. CASE (\E a \in Addr : Load(a)) \/ UNCHANGED vars
  BY <1>3 DEF Load, vars
<1>4. ASSUME NEW fates \in [DOMAIN executor.journal -> Fate], Execute(fates)
      PROVE  Promise!Serve
  <2> DEFINE c == encode_outcome(executor, fates)
  <2>1. /\ phase = "running" /\ ~ request.light
        /\ outcome' = Ran(Env(executor), c)
        /\ host' = IF wants_commit(request) THEN Written(host, c) ELSE host
        /\ request' = request
    BY <1>4 DEF Execute
  <2>2. request \in Request /\ Env(executor) = EnvOf(request) /\ outcome = NoOutcome
    BY <2>1 DEF Inv, Running
  <2>3. Promise!Truthful(c, host)
    BY <2>1, EncodesTruth, SameWords DEF Promise!Truthful
  <2> HIDE DEF c
  <2>4. /\ outcome'.status = "ran" /\ outcome'.env = EnvOf(request)
        /\ outcome'.changes = c
    BY <2>1, <2>2 DEF Ran
  <2>5. Promise!Full(outcome')
    BY <2>1, <2>3, <2>4, SameWords DEF Promise!Full
  <2> QED
    BY <2>1, <2>2, <2>5, SameWords DEF Promise!Serve
<1>5. CASE ExecuteLight
  <2>1. request \in Request /\ Env(executor) = EnvOf(request) /\ outcome = NoOutcome
    BY <1>5 DEF ExecuteLight, Inv, Running
  <2> QED
    BY <1>5, <2>1, SameWords
       DEF ExecuteLight, Promise!Next, Promise!Serve, Promise!Light
<1>6. CASE Return \/ Throw
  <2>1. Throw => outcome = NoOutcome
    BY DEF Throw, Inv
  <2> QED
    BY <1>6, <2>1, SameWords DEF Return, Throw, Promise!Next, Promise!Collect
<1>7. ASSUME NEW a \in Addr, NEW account \in Account, Write(a, account)
      PROVE  Promise!Embedder
  BY <1>7, SameWords DEF Write, Inv, Promise!Embedder
<1> QED
  BY <1>1, <1>2, <1>3, <1>4, <1>5, <1>6, <1>7 DEF Next, Promise!Next

\* Every execution of the engine that is kept alive is one of the engine that
\* is built anew for each request.
THEOREM Refines == Spec => ImplementsStateless
<1>1. Init => Promise!Init
  BY SameWords DEF Init, Promise!Init
<1> QED
  BY <1>1, AlwaysInv, StepStateless, PTL DEF Spec, ImplementsStateless, Promise!Spec
=============================================================================
