------------------------------ MODULE Executor ------------------------------
(***************************************************************************)
(* The engine that is kept alive between calls: the executor cached by the *)
(* wasm module (run) and the environments, the journal and the record of   *)
(* original code hashes inside it (CallExecutor, HostDatabase).            *)
(*                                                                         *)
(* One request runs at a time (Instance shows why), and the host answers   *)
(* it from a state that does not change under it.                          *)
(***************************************************************************)
EXTENDS Request

VARIABLES host,         \* the embedder's state
          outcome,      \* the outcome blob, while nobody has collected it
          executor,     \* None, or the cached engine
          request,      \* the request being served
          phase         \* "idle", "running", "done"

vars == <<host, outcome, executor, request, phase>>

\* A journal maps the addresses loaded to what they were loaded as.
empty == [a \in {} |-> Absent]

Partial(S, T) == UNION {[D -> T] : D \in SUBSET S}

BlockEnv == [header : Word, randao : Word, blob : Word \X Nat]

CfgEnv == [spec : Nat, chain : Chain, disable_nonce_check : BOOLEAN,
           switches : Switches]

\* The set is fixed when the engine is built; spec is the one last executed.
FixedPrecompiles == [map : SUBSET Nat, spec : Nat]

Engine == [key : SpecByte \X Chain, block : BlockEnv, cfg : CfgEnv,
           precompiles : FixedPrecompiles,
           journal : Partial(Addr, Account),
           original_code_hash : Partial(Addr, Hash)]

TypeOK ==
    /\ host \in [Addr -> Account]
    /\ executor = None \/ executor \in Engine
    /\ phase \in {"idle", "running", "done"}
    /\ phase = "running" => executor \in Engine /\ request \in Request

Init ==
    /\ host \in [Addr -> Account]
    /\ outcome = NoOutcome
    /\ executor = None
    /\ request = None
    /\ phase = "idle"

-----------------------------------------------------------------------------
\* CallExecutor::new: the fields a request sets have revm's defaults.
new(r) ==
    LET spec == spec_from_u8(r.spec)
    IN [key |-> <<r.spec, r.chain>>,
        block |-> [header |-> Zero, randao |-> Zero, blob |-> blob_price(Zero, spec)],
        cfg |-> [spec |-> spec, chain |-> r.chain, disable_nonce_check |-> TRUE,
                 switches |-> from_flags({})],
        precompiles |-> [map |-> precompiles_for(spec), spec |-> spec],
        journal |-> empty,
        original_code_hash |-> empty]

stale_SpecOnly(e, r) == IF e = None THEN TRUE ELSE e.key[1] # r.spec
stale(e, r) == IF e = None THEN TRUE ELSE e.key # <<r.spec, r.chain>>

apply_block_IfSome(block, spec, r) ==
    [header |-> r.header,
     randao |-> unwrap_or(r.randao, Zero),
     blob |-> IF r.excess = None THEN block.blob ELSE blob_price(r.excess, spec)]
apply_block_NoDefault(block, spec, r) ==
    [header |-> r.header,
     randao |-> r.randao,
     blob |-> blob_price(unwrap_or(r.excess, Zero), spec)]
apply_block(block, spec, r) ==
    [header |-> r.header,
     randao |-> unwrap_or(r.randao, Zero),
     blob |-> blob_price(unwrap_or(r.excess, Zero), spec)]

apply_cfg(cfg, r) ==
    [cfg EXCEPT !.disable_nonce_check = ~ checks_nonce(r),
                !.switches = from_flags(r.flags)]

apply_env(e, r) ==
    [e EXCEPT !.block = apply_block(@, e.cfg.spec, r),
              !.cfg = apply_cfg(@, r)]

\* Every transaction tells the precompiles its spec; they do not change with it.
set_spec(e) == [e EXCEPT !.precompiles.spec = e.cfg.spec]

begin_tx_Kept(e) == e
begin_tx(e) == [e EXCEPT !.original_code_hash = empty]

\* The engine that serves r, its environment applied.
Prepared(r) == apply_env(IF stale(executor, r) THEN new(r) ELSE executor, r)

\* A request blob that does not decode never reaches the engine.
Malformed ==
    /\ phase = "idle"
    /\ outcome' = Rejected
    /\ phase' = "done"
    /\ UNCHANGED <<host, executor, request>>

\* build_tx refuses the transaction after the environment was applied.
Unbuildable(r) ==
    /\ phase = "idle"
    /\ executor' = Prepared(r)
    /\ outcome' = Rejected
    /\ phase' = "done"
    /\ UNCHANGED <<host, request>>

\* Only the full path starts a new record of code hashes.
Begin(r) ==
    /\ phase = "idle"
    /\ executor' = set_spec(IF r.light THEN Prepared(r) ELSE begin_tx(Prepared(r)))
    /\ request' = r
    /\ phase' = "running"
    /\ UNCHANGED <<host, outcome>>

\* HostDatabase::basic, asked once for each account the journal lacks.
Load(a) ==
    /\ phase = "running"
    /\ a \notin DOMAIN executor.journal
    /\ executor' =
         [executor EXCEPT
            !.journal = [b \in DOMAIN @ \cup {a} |-> IF b = a THEN host[a] ELSE @[b]],
            !.original_code_hash =
                IF host[a] \notin Hash THEN @
                ELSE [b \in DOMAIN @ \cup {a} |-> IF b = a THEN host[a] ELSE @[b]]]
    /\ UNCHANGED <<host, outcome, request, phase>>

-----------------------------------------------------------------------------
original_code_hash_of(e, a) ==
    IF a \in DOMAIN e.original_code_hash THEN e.original_code_hash[a] ELSE EmptyHash

\* encode_outcome: an account comes with its code iff the hash is a new one.
encode_outcome(e, fates) ==
    [a \in DOMAIN e.journal |->
        [was |-> e.journal[a], fate |-> fates[a],
         code |-> fates[a].hash # original_code_hash_of(e, a)]]

\* revm takes the finished state out of the journal, or discards it.
finalize_Skipped(e) == e
finalize(e) == [e EXCEPT !.journal = empty]

Env(e) == [block |-> e.block, precompiles |-> e.precompiles, cfg |-> e.cfg]

\* revm's validation rejects the transaction, having loaded the sender or not.
Reject ==
    /\ phase = "running"
    /\ outcome' = Rejected
    /\ executor' = finalize(executor)
    /\ phase' = "done"
    /\ UNCHANGED <<host, request>>

Execute(fates) ==
    /\ phase = "running"
    /\ ~ request.light
    /\ LET changes == encode_outcome(executor, fates)
       IN /\ outcome' = Ran(Env(executor), changes)
          /\ host' = IF wants_commit(request) THEN Written(host, changes) ELSE host
    /\ executor' = finalize(executor)
    /\ phase' = "done"
    /\ UNCHANGED request

\* Nothing of the state is encoded, and nothing is committed.
ExecuteLight ==
    /\ phase = "running"
    /\ request.light
    /\ outcome' = RanLight(Env(executor))
    /\ executor' = finalize(executor)
    /\ phase' = "done"
    /\ UNCHANGED <<host, request>>

-----------------------------------------------------------------------------
Return ==
    /\ phase = "done"
    /\ outcome' = NoOutcome
    /\ request' = None
    /\ phase' = "idle"
    /\ UNCHANGED <<host, executor>>

\* A host function throws: the instance is lost, and the next one has no engine.
Throw ==
    /\ phase = "running"
    /\ executor' = None
    /\ request' = None
    /\ phase' = "idle"
    /\ UNCHANGED <<host, outcome>>

\* Between two executions the state is the embedder's to change.
Write(a, account) ==
    /\ phase = "idle"
    /\ host' = [host EXCEPT ![a] = account]
    /\ UNCHANGED <<outcome, executor, request, phase>>

Next ==
    \/ Malformed
    \/ \E r \in Request : Unbuildable(r) \/ Begin(r)
    \/ \E a \in Addr : Load(a)
    \/ Reject
    \/ phase = "running" /\ \E fates \in [DOMAIN executor.journal -> Fate] : Execute(fates)
    \/ ExecuteLight
    \/ Return
    \/ Throw
    \/ \E a \in Addr, account \in Account : Write(a, account)

Spec == Init /\ [][Next]_vars

-----------------------------------------------------------------------------
\* The environment a transaction runs in is the one its own request describes:
\* no field is inherited from a previous call, nor are its precompiles.
NothingInherited == phase = "running" => Env(executor) = EnvOf(request)

\* Every account revm works with was read from the host during this call.
ReadsAreCurrent ==
    phase = "running" =>
        \A a \in DOMAIN executor.journal : executor.journal[a] = host[a]

\* Code bytes are reported for exactly the accounts whose code hash changed.
CodeReportedIffChanged ==
    phase = "done" /\ outcome.status = "ran" =>
        \A a \in DOMAIN outcome.changes :
            LET c == outcome.changes[a] IN c.code <=> c.fate.hash # hash_of(c.was)

\* Keeping the engine alive cannot be told from building one for each request.
Promise == INSTANCE Stateless
ImplementsStateless == Promise!Spec
=============================================================================
