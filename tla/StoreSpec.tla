----------------------------- MODULE StoreSpec -----------------------------
(***************************************************************************)
(* What the module expects of a StateStore: each write it calls for does   *)
(* what that write of HostStore does, and nothing else changes.            *)
(***************************************************************************)
EXTENDS HostStore

CONSTANT Block              \* block numbers asked for

VARIABLES store, call       \* call: the last write or block hash called for

Init == /\ store = [acct |-> [a \in Addr |-> Absent],
                    code |-> {},
                    slot |-> [a \in Addr |-> [k \in Key |-> Zero]]]
        /\ call = <<>>

Next ==
    \/ \E a \in Addr, info \in Info : /\ call' = <<"setAccount", a, info>>
                                      /\ store' = set_account(store, a, info)
    \/ \E h \in Hash : /\ call' = <<"setCode", h>>
                       /\ store' = set_code(store, h)
    \/ \E a \in Addr, k \in Key, v \in Val : /\ call' = <<"setStorage", a, k, v>>
                                            /\ store' = set_storage(store, a, k, v)
    \/ \E a \in Addr : /\ call' = <<"clearStorage", a>>
                       /\ store' = clear_storage(store, a)
    \/ \E a \in Addr : /\ call' = <<"removeAccount", a>>
                       /\ store' = remove_account(store, a)
    \/ \E n \in Block : /\ call' = <<"getBlockHash", n>>
                         /\ UNCHANGED store

Spec == Init /\ [][Next]_<<store, call>>
=============================================================================
