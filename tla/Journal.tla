------------------------------ MODULE Journal ------------------------------
(***************************************************************************)
(* What a finished transaction hands back (revm's EvmState, one Account    *)
(* per address it loaded), what the outcome blob reports of it, and what a *)
(* host has to do with such a report when it applies the blob itself       *)
(* instead of letting the wasm module commit.                              *)
(*                                                                         *)
(* revm is not part of this repository.  The set of accounts it can return *)
(* (RevmAccount) is external, and over-approximates it: any funds, any     *)
(* slots, any new code, within the flag combinations it produces.          *)
(***************************************************************************)
EXTENDS HostStore

CONSTANT NotLoaded      \* AccountInfo::code = None

ASSUME NotLoadedAssumption == NotLoaded \notin Hash \cup {EmptyHash}

Code == Hash \cup {EmptyHash, NotLoaded}

Slot == [was : Val, now : Val]

\* The slots an account has loaded are the domain of its slot function.
Account == [touched : BOOLEAN, selfdestructed : BOOLEAN, created : BOOLEAN,
            info : Info, code : Code, slot : UNION {[L -> Slot] : L \in SUBSET Key}]

is_empty(info) == info = NoInfo

account_is_deleted(acc) ==
    acc.touched /\ (acc.selfdestructed \/ is_empty(acc.info))

is_changed(slot) == slot.now # slot.was

-----------------------------------------------------------------------------
(* External: the accounts revm may return for address a.                   *)

\* The slots of a that were loaded, with the values they had and now have.
\* A created account never asks the host for its storage.
Loads(s, a, fresh) ==
    UNION {{[k \in L |-> [was |-> IF fresh THEN Zero ELSE storage(s, a, k),
                          now |-> new[k]]] : new \in [L -> Val]} : L \in SUBSET Key}

Unloaded == {[k \in {} |-> [was |-> Zero, now |-> Zero]]}

Accounts(t, d, c, infos, codes, slots) ==
    [touched : {t}, selfdestructed : {d}, created : {c},
     info : infos, code : codes, slot : slots]

\* Loaded and left alone; the code is fetched only if it was needed.
Untouched(s, a) ==
    {acc \in Accounts(FALSE, FALSE, FALSE, {basic(s, a)},
                      {NotLoaded, basic(s, a).hash}, Loads(s, a, FALSE)) :
        \A k \in DOMAIN acc.slot : ~ is_changed(acc.slot[k])}

\* Paid, charged, or written to by its own code.
Updated(s, a) ==
    LET h == basic(s, a).hash
    IN Accounts(TRUE, FALSE, FALSE, [purse : Purse, hash : {h}] \ {NoInfo},
                {NotLoaded, h},
                IF h = EmptyHash THEN Unloaded ELSE Loads(s, a, FALSE))

\* An EIP-7702 authorization installs, replaces or clears a delegation and
\* spends a nonce.
Delegated(s, a) ==
    UNION {Accounts(TRUE, FALSE, FALSE, [purse : Purse \ {EmptyPurse}, hash : {h}],
                    {h}, Loads(s, a, FALSE)) :
        h \in (Hash \cup {EmptyHash}) \ {basic(s, a).hash}}

\* Deployed, with new code h, at an address without code.
Deployed(s, a, destroyed) ==
    IF basic(s, a).hash # EmptyHash THEN {}
    ELSE UNION {Accounts(TRUE, destroyed, TRUE,
                         [purse : Purse, hash : {h}] \ {NoInfo}, {h},
                         Loads(s, a, TRUE)) : h \in Hash \cup {EmptyHash}}

Created(s, a) == Deployed(s, a, FALSE)

\* SELFDESTRUCTed, in the transaction that created it or (before EIP-6780) not.
Destroyed(s, a) ==
    LET h == basic(s, a).hash
    IN Accounts(TRUE, TRUE, FALSE, [purse : Purse, hash : {h}], {h},
                IF h = EmptyHash THEN {} ELSE Loads(s, a, FALSE))
       \cup Deployed(s, a, TRUE)

\* Touched without being given anything: an unpaid coinbase, a call of no value.
\* From EIP-161 on the account is left touched and empty.  Before it, finalize
\* clears the touch of an account that exists and marks as created one that
\* does not.
TouchedEmpty(s, a, clearing) ==
    IF basic(s, a) # NoInfo THEN {}
    ELSE Accounts(clearing \/ ~ Exists(s, a), FALSE, ~ (clearing \/ Exists(s, a)),
                  {NoInfo}, {NotLoaded}, Unloaded)

RevmAccount(s, a, clearing) ==
    Untouched(s, a) \cup Updated(s, a) \cup Delegated(s, a) \cup Created(s, a)
      \cup Destroyed(s, a) \cup TouchedEmpty(s, a, clearing)

\* The finished states over the addresses D.
RevmState(s, D, clearing) ==
    {j \in [D -> UNION {RevmAccount(s, a, clearing) : a \in D}] :
        \A a \in D : j[a] \in RevmAccount(s, a, clearing)}

-----------------------------------------------------------------------------
(* The blob: one entry per loaded account.                                 *)

\* orig[a] is the code hash a had before the transaction.
Entry_CreatedOnly(acc, orig) ==
    [touched |-> acc.touched, selfdestructed |-> acc.selfdestructed,
     created |-> acc.created, deleted |-> account_is_deleted(acc),
     info |-> acc.info,
     code |-> IF acc.created THEN acc.code ELSE NotLoaded,
     slot |-> [k \in {x \in DOMAIN acc.slot : is_changed(acc.slot[x])} |->
                 acc.slot[k].now]]
Entry(acc, orig) ==
    [touched |-> acc.touched, selfdestructed |-> acc.selfdestructed,
     created |-> acc.created, deleted |-> account_is_deleted(acc),
     info |-> acc.info,
     code |-> IF acc.info.hash # orig THEN acc.code ELSE NotLoaded,
     slot |-> [k \in {x \in DOMAIN acc.slot : is_changed(acc.slot[x])} |->
                 acc.slot[k].now]]

encode_outcome(j, orig) == [a \in DOMAIN j |-> Entry(j[a], orig[a])]

-----------------------------------------------------------------------------
(* A host applying the blob: remove a deleted account with its storage,    *)
(* start a created one from empty storage, keep the code that came along,  *)
(* replace the account and write the slots listed.                         *)

Overwrite(slots, listed) ==
    [k \in Key |-> IF k \in DOMAIN listed THEN listed[k] ELSE slots[k]]

AppliedAcct(old, e) ==
    IF ~ e.touched THEN old ELSE IF e.deleted THEN Absent ELSE e.info

AppliedSlot(old, e) ==
    IF ~ e.touched THEN old
    ELSE IF e.deleted THEN [k \in Key |-> Zero]
    ELSE Overwrite(IF e.created THEN [k \in Key |-> Zero] ELSE old, e.slot)

AppliedCode(e) == IF e.touched /\ ~ e.deleted THEN {e.code} \cap Hash ELSE {}

Applied(s, blob) ==
    [acct |-> [a \in Addr |-> IF a \in DOMAIN blob
                              THEN AppliedAcct(s.acct[a], blob[a]) ELSE s.acct[a]],
     slot |-> [a \in Addr |-> IF a \in DOMAIN blob
                              THEN AppliedSlot(s.slot[a], blob[a]) ELSE s.slot[a]],
     code |-> s.code \cup UNION {AppliedCode(blob[a]) : a \in DOMAIN blob}]
=============================================================================
