---------------------------- MODULE AtomicState ----------------------------
(***************************************************************************)
(* What the package promises about the embedder's state: an execution      *)
(* reports a blob, and the state changes only by that blob being applied   *)
(* to it as a whole -- or, when a host function throws half way, up to one *)
(* address, which alone may be caught between its old and its new account. *)
(***************************************************************************)
EXTENDS Journal

VARIABLES state, blob

\* Slot values an interrupted write of entry e can leave over old ones.
Between(old, e) ==
    {l \in [Key -> Val] : \A k \in Key :
        l[k] \in {old[k], AppliedSlot(old, e)[k]}
                   \cup IF e.created \/ e.deleted THEN {Zero} ELSE {}}

Report == UNCHANGED state       \* whatever the blob

Apply == /\ state' = Applied(state, blob)
         /\ UNCHANGED blob

\* Addresses before n are written, addresses after it are not.
TornAt(n) ==
    LET new == Applied(state, blob)
    IN /\ \A a \in Addr : a < n => /\ state'.acct[a] = new.acct[a]
                                   /\ state'.slot[a] = new.slot[a]
       /\ \A a \in Addr : a > n => /\ state'.acct[a] = state.acct[a]
                                   /\ state'.slot[a] = state.slot[a]
       /\ state'.acct[n] \in {state.acct[n], new.acct[n]}
       /\ state'.slot[n] \in Between(state.slot[n], blob[n])
       /\ state.code \subseteq state'.code
       /\ state'.code \subseteq new.code

Tear == /\ \E n \in DOMAIN blob : TornAt(n)
        /\ UNCHANGED blob

Next == Report \/ Apply \/ Tear

Spec == WellFormed(state) /\ [][Next]_<<state, blob>>
=============================================================================
