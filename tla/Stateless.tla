----------------------------- MODULE Stateless -----------------------------
(***************************************************************************)
(* What the engine promises: an outcome is a function of the request and   *)
(* of the embedder's state, whatever was executed before.  There is no     *)
(* engine here to inherit anything from.                                   *)
(***************************************************************************)
EXTENDS Request

VARIABLES host, request, outcome

Init == host \in [Addr -> Account] /\ request = None /\ outcome = NoOutcome

Ask ==
    /\ request = None
    /\ outcome = NoOutcome
    /\ request' \in Request
    /\ UNCHANGED <<host, outcome>>

\* The changes tell the truth about the state they were made to, and come with
\* code for exactly the accounts whose code is new.
Truthful(changes, h) ==
    \A a \in DOMAIN changes :
        LET c == changes[a]
        IN /\ c.was = h[a]
           /\ c.code <=> c.fate.hash # hash_of(h[a])

Full(o) ==
    /\ ~ request.light
    /\ o.status = "ran"
    /\ o.env = EnvOf(request)
    /\ Truthful(o.changes, host)
    /\ host' = IF wants_commit(request) THEN Written(host, o.changes) ELSE host

Light(o) == request.light /\ o = RanLight(EnvOf(request)) /\ UNCHANGED host

Serve ==
    /\ request \in Request
    /\ outcome = NoOutcome
    /\ Full(outcome') \/ Light(outcome')
    /\ UNCHANGED request

\* The request is refused, before anybody knows what it is or after.
Reject ==
    /\ outcome = NoOutcome
    /\ outcome' = Rejected
    /\ UNCHANGED <<host, request>>

\* The outcome is collected, or there is none because a host function threw.
Collect == outcome' = NoOutcome /\ request' = None /\ UNCHANGED host

\* The state is the embedder's, but not while it is being executed on.
Embedder ==
    /\ request = None
    /\ outcome = NoOutcome
    /\ host' \in [Addr -> Account]
    /\ UNCHANGED <<request, outcome>>

Next == Ask \/ Serve \/ Reject \/ Collect \/ Embedder

Spec == Init /\ [][Next]_<<host, request, outcome>>
=============================================================================
