--------------------------- MODULE MCOutcomeCodec ---------------------------
(* OutcomeCodec on a small instance.                                       *)
EXTENDS OutcomeCodec

CONSTANTS byte, topic

Logs == {[address |-> 1, topics |-> <<>>, data |-> <<byte>>],
         [address |-> 2, topics |-> <<topic, topic>>, data |-> <<>>]}

Outcomes(statuses, outputs, logs) ==
    [status : statuses, gas : {<<3, 2, 1>>}, output : outputs, logs : logs]

\* Only a successful transaction has logs.
Results == Outcomes({"success"}, {<<>>, <<byte>>}, BoundedSeq(Logs, 2))
             \cup Outcomes({"revert", "halt"}, {<<>>, <<byte>>}, {<<>>})

\* An account that was called, one that was created and one that is gone.
Flagged(sd, created, deleted) ==
    [touched : {TRUE}, selfdestructed : {sd}, created : {created}, deleted : {deleted},
     info : {[purse |-> EmptyPurse, hash |-> EmptyHash]}, code : Code,
     slot : UNION {[L -> {Zero}] : L \in SUBSET Key}]

AllChanges ==
    UNION {[D -> Flagged(FALSE, FALSE, FALSE) \cup Flagged(TRUE, TRUE, TRUE)] :
        D \in SUBSET Addr}

Messages == {<<byte>>, <<byte, byte>>}
=============================================================================
