---------------------------- MODULE MemoryStore ----------------------------
(***************************************************************************)
(* The store the package ships, behind the host functions made for it:     *)
(* three maps, with storage by account and, under it, by slot.  A map is a *)
(* function whose domain is the keys it holds.                             *)
(***************************************************************************)
EXTENDS HostFunctions, Functions

VARIABLES accounts,     \* address -> account
          code,         \* hashes of the code held
          slots,        \* address -> (slot -> value), the field named storage
          call          \* ghost: the last write or block hash called for

vars == <<accounts, code, slots, call>>

emptyMap == [x \in {} |-> Zero]

Put(map, x, y) == [z \in DOMAIN map \cup {x} |-> IF z = x THEN y ELSE map[z]]
Delete(map, x) == Restrict(map, DOMAIN map \ {x})

Init == accounts = emptyMap /\ code = {} /\ slots = emptyMap /\ call = <<>>

setAccount(a, account) ==
    /\ call' = <<"setAccount", a, account>>
    /\ accounts' = Put(accounts, a, accountState(packed_info(account)))
    /\ UNCHANGED <<code, slots>>

setCode(h) ==
    /\ call' = <<"setCode", h>>
    /\ code' = code \cup {h}
    /\ UNCHANGED <<accounts, slots>>

\* The map of a, made if there is none.
MapOf(a) == IF a \in DOMAIN slots THEN slots[a] ELSE emptyMap

\* A zero deletes the slot, and makes no map for it.
Stored_ZeroToo(a, k, v) == Put(slots, a, Put(MapOf(a), k, v))
Stored(a, k, v) ==
    IF v # Zero THEN Put(slots, a, Put(MapOf(a), k, v))
    ELSE IF a \in DOMAIN slots THEN Put(slots, a, Delete(slots[a], k))
    ELSE slots

setStorage(a, k, v) ==
    /\ call' = <<"setStorage", a, k, v>>
    /\ slots' = Stored(a, k, v)
    /\ UNCHANGED <<accounts, code>>

clearStorage(a) ==
    /\ call' = <<"clearStorage", a>>
    /\ slots' = Delete(slots, a)
    /\ UNCHANGED <<accounts, code>>

removeAccount(a) ==
    /\ call' = <<"removeAccount", a>>
    /\ accounts' = Delete(accounts, a)
    /\ UNCHANGED <<code, slots>>

\* BLOCKHASH: the store is asked for a number, and keeps nothing.
getBlockHash(n) ==
    /\ call' = <<"getBlockHash", blockNumber(halves(n))>>
    /\ UNCHANGED <<accounts, code, slots>>

Next ==
    \/ \E a \in Addr, account \in Info : setAccount(a, account)
    \/ \E h \in Hash : setCode(h)
    \/ \E a \in Addr, k \in Key, v \in Val : setStorage(a, k, v)
    \/ \E a \in Addr : clearStorage(a) \/ removeAccount(a)
    \/ \E n \in Block : getBlockHash(n)

Spec == Init /\ [][Next]_vars

-----------------------------------------------------------------------------
\* getAccount and getStorage, through the host functions: undefined is no
\* account, and the zero word.
getAccount(a) ==
    IF a \in DOMAIN accounts THEN unpacked_info(packed(accounts[a])) ELSE Absent
getStorage(a, k) ==
    IF a \in DOMAIN slots /\ k \in DOMAIN slots[a] THEN slots[a][k] ELSE Zero

\* No slot is held with the value zero: what the EVM takes for the same state
\* is not told apart by an explicit zero.
ZeroIsAbsence == \A a \in DOMAIN slots : \A k \in DOMAIN slots[a] : slots[a][k] # Zero

\* Through its reads, MemoryStore is the store the module expects (StoreSpec).
Abstract == INSTANCE StoreSpec WITH
    store <- [acct |-> [a \in Addr |-> getAccount(a)],
              code |-> code,
              slot |-> [a \in Addr |-> [k \in Key |-> getStorage(a, k)]]]
ImplementsStore == Abstract!Spec
=============================================================================
