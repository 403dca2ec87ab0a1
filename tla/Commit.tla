------------------------------- MODULE Commit -------------------------------
(***************************************************************************)
(* HostDatabase::commit: the finished state of a transaction goes back to  *)
(* the host as a series of host calls, account by account in address       *)
(* order.  Every host call is a step, because each is a point where the    *)
(* embedder's code runs: it may look at the state (a nested call of        *)
(* another instance over the same store), and it may throw, which unwinds  *)
(* through the wasm frames and leaves the state as it is at that moment.   *)
(***************************************************************************)
EXTENDS Journal, FiniteSets

VARIABLES
    store,      \* the embedder's state
    journal,    \* EvmState of the last execution, by loaded address
    blob,       \* its encoded outcome
    before,     \* ghost: the state the last execution ran against
    commits,    \* req.wants_commit()
    eip161,     \* the spec of the last execution is SPURIOUS_DRAGON or later
    phase,      \* where in commit_account the module is
    todo,       \* addresses commit has not come to yet
    cur,        \* the address it is at
    left        \* slots of cur still to be written

vars == <<store, journal, blob, before, commits, eip161, phase, todo, cur, left>>

none == [a \in {} |-> NoInfo]       \* the empty function

Between == {"next"}
InCall == {"drop", "remove", "clear", "code", "info", "slots"}
Committing == Between \cup InCall

TypeOK ==
    /\ store \in Store
    /\ before \in Store
    /\ DOMAIN journal \subseteq Addr
    /\ \A a \in DOMAIN journal : journal[a] \in Account
    /\ commits \in BOOLEAN
    /\ eip161 \in BOOLEAN
    /\ phase \in {"idle", "done", "dead"} \cup Committing
    /\ todo \subseteq DOMAIN journal
    /\ left \subseteq Key
    /\ phase \in InCall => cur \in DOMAIN journal
    /\ phase = "slots" => left \subseteq DOMAIN journal[cur].slot

Init ==
    /\ store \in {s \in Store : WellFormed(s)}
    /\ before = store
    /\ journal = none
    /\ blob = none
    /\ commits = FALSE
    /\ eip161 = TRUE
    /\ phase = "idle"
    /\ todo = {}
    /\ cur = 0
    /\ left = {}

-----------------------------------------------------------------------------
\* CallExecutor::execute once revm has returned: the blob is encoded before
\* the state is consumed by the commit.
Execute(clearing, j, wants_commit) ==
    /\ phase = "idle"
    /\ before' = store
    /\ journal' = j
    /\ blob' = encode_outcome(j, [a \in DOMAIN j |-> basic(store, a).hash])
    /\ commits' = wants_commit
    /\ eip161' = clearing
    /\ IF wants_commit THEN phase' = "next" /\ todo' = DOMAIN j
                       ELSE phase' = "done" /\ todo' = {}
    /\ UNCHANGED <<store, cur, left>>

\* accounts.sort_by_key(address)
IsFirst_Descending(a, S) == \A b \in S : b <= a
IsFirst(a, S) == \A b \in S : a <= b

\* Code goes to the host if revm has it at hand and it is not empty.
has_code_CreatedOnly(acc) == acc.created /\ acc.code \in Hash
has_code(acc) == acc.info.hash # EmptyHash /\ acc.code \in Hash

CodePhase(acc) == IF has_code(acc) THEN "code" ELSE "info"

FirstPhase_InheritsStorage(acc) ==
    IF ~ acc.touched THEN "next"
    ELSE IF account_is_deleted(acc) THEN "drop" ELSE CodePhase(acc)
FirstPhase_LeavesOrphans(acc) ==
    IF ~ acc.touched THEN "next"
    ELSE IF account_is_deleted(acc) THEN "remove"
    ELSE IF acc.created THEN "clear"
    ELSE CodePhase(acc)
FirstPhase_Untouched(acc) ==
    IF account_is_deleted(acc) THEN "drop"
    ELSE IF acc.created THEN "clear"
    ELSE CodePhase(acc)
FirstPhase(acc) ==
    IF ~ acc.touched THEN "next"
    ELSE IF account_is_deleted(acc) THEN "drop"
    ELSE IF acc.created THEN "clear"
    ELSE CodePhase(acc)

\* Unchanged slots are skipped, unless the account is new.
SlotsToWrite_EveryKey(acc) == Key
SlotsToWrite(acc) ==
    {k \in DOMAIN acc.slot : acc.created \/ is_changed(acc.slot[k])}

NextAccount(a) ==
    /\ phase = "next"
    /\ a \in todo
    /\ IsFirst(a, todo)
    /\ todo' = todo \ {a}
    /\ cur' = a
    /\ phase' = FirstPhase(journal[a])
    /\ UNCHANGED <<store, journal, blob, before, commits, eip161, left>>

Finish ==
    /\ phase = "next"
    /\ todo = {}
    /\ phase' = "done"
    /\ UNCHANGED <<store, journal, blob, before, commits, eip161, todo, cur, left>>

\* One host call, made in phase p.
HostCall(p, written) ==
    /\ phase = p
    /\ store' = written
    /\ UNCHANGED <<journal, blob, before, commits, eip161, todo, cur>>

DropStorage == /\ HostCall("drop", clear_storage(store, cur))
               /\ phase' = "remove"
               /\ UNCHANGED left

RemoveAccount == /\ HostCall("remove", remove_account(store, cur))
                 /\ phase' = "next"
                 /\ UNCHANGED left

ClearStorage == /\ HostCall("clear", clear_storage(store, cur))
                /\ phase' = CodePhase(journal[cur])
                /\ UNCHANGED left

SetCode == /\ HostCall("code", set_code(store, journal[cur].code))
           /\ phase' = "info"
           /\ UNCHANGED left

AfterSlots(rest) == IF rest = {} THEN "next" ELSE "slots"

SetAccount == /\ HostCall("info", set_account(store, cur, journal[cur].info))
              /\ left' = SlotsToWrite(journal[cur])
              /\ phase' = AfterSlots(left')

\* The slots of an account come in no particular order.
SetStorage(k) ==
    /\ HostCall("slots", set_storage(store, cur, k, journal[cur].slot[k].now))
    /\ k \in left
    /\ left' = left \ {k}
    /\ phase' = AfterSlots(left')

Work == \/ \E a \in todo : NextAccount(a)
        \/ Finish
        \/ DropStorage \/ RemoveAccount
        \/ ClearStorage \/ SetCode \/ SetAccount
        \/ \E k \in left : SetStorage(k)

-----------------------------------------------------------------------------
\* A host function throws instead of doing the write.  The frames of the wasm
\* module are abandoned with its state still borrowed: it never runs again.
Throw ==
    /\ phase \in InCall
    /\ phase' = "dead"
    /\ UNCHANGED <<store, journal, blob, before, commits, eip161, todo, cur, left>>

\* The blob is in the embedder's hands and the execution is over; after a
\* throw, the embedder makes a new instance over the state it has.
Forget ==
    /\ journal' = none
    /\ blob' = none
    /\ before' = store
    /\ commits' = FALSE
    /\ eip161' = TRUE
    /\ phase' = "idle"
    /\ todo' = {}
    /\ cur' = 0
    /\ left' = {}
    /\ UNCHANGED store

Return == phase = "done" /\ Forget

Recreate == phase = "dead" /\ Forget

Call == /\ phase = "idle"
        /\ \E clearing, wants_commit \in BOOLEAN, D \in SUBSET Addr :
               \E j \in RevmState(store, D, clearing) :
                   Execute(clearing, j, wants_commit)

Next == \/ Call
        \/ Work
        \/ Throw
        \/ Return
        \/ Recreate

Spec == Init /\ [][Next]_vars

-----------------------------------------------------------------------------
\* At every host call, whoever looks at the state can fetch the code of every
\* account in it: set_code comes before the set_account that refers to it.
CodeBeforeAccount == CodeHeld(store)

\* At every host call, an address without an account has no storage: storage
\* goes before its account and comes after it.
NoOrphanStorage == NoOrphans(store)

\* A host that applies the blob itself and a host that lets the module commit
\* end up with the same state.
CommitMatchesBlob ==
    phase = "done" => store = IF commits THEN Applied(before, blob) ELSE before

\* Bytes reported for an account are those of the hash it now has, and every
\* account of the new state whose code the old one did not hold has them.
BlobCarriesNewCode ==
    \A a \in DOMAIN blob :
        LET e == blob[a]
        IN /\ e.code # NotLoaded => e.code = e.info.hash
           /\ e.touched /\ ~ e.deleted /\ e.info.hash \in Hash \ before.code
                => e.code = e.info.hash

\* A commit writes to the accounts the transaction touched and to no other.
OnlyTouchedWritten ==
    [][\A a \in Addr :
        \/ store'.acct[a] # store.acct[a]
        \/ store'.slot[a] # store.slot[a]
        => a \in DOMAIN journal /\ journal[a].touched]_store

\* The state changes by whole blobs, but for one torn account when the host
\* throws (AtomicState).
Visible == IF phase \in Committing THEN before ELSE store
Atomic == INSTANCE AtomicState WITH state <- Visible
ImplementsAtomicState == Atomic!Spec

\* Before EIP-161 only SELFDESTRUCT deletes an account: the rule that deletes a
\* touched empty one is said to be applicable unconditionally, because revm has
\* cleared the touch flag of such accounts by then (lib.rs:377-380).
ClearsOnlyFromEip161 ==
    ~ eip161 => \A a \in DOMAIN blob : blob[a].deleted => blob[a].selfdestructed
=============================================================================
