---------------------------- MODULE CommitProofs ----------------------------
(***************************************************************************)
(* What holds of Commit for every set of addresses, keys, values, code and *)
(* funds.                                                                  *)
(***************************************************************************)
EXTENDS Commit, TLAPS

-----------------------------------------------------------------------------
(* The reads and writes of the host keep the shape of its state.           *)

LEMMA NoInfoType == NoInfo \in Info
  BY StoreAssumption DEF NoInfo, Info

LEMMA BasicType == ASSUME NEW s \in Store, NEW a \in Addr
                   PROVE  basic(s, a) \in Info
  BY NoInfoType, AbsentAssumption DEF basic, Exists, Store

LEMMA SetAccountType ==
    ASSUME NEW s \in Store, NEW a \in Addr, NEW i \in Info
    PROVE  LET t == set_account(s, a, i)
           IN /\ t \in Store
              /\ t.acct[a] = i
              /\ \A b \in Addr \ {a} : t.acct[b] = s.acct[b]
              /\ t.slot = s.slot
              /\ t.code = s.code
  BY DEF Store, set_account

LEMMA RemoveAccountType ==
    ASSUME NEW s \in Store, NEW a \in Addr
    PROVE  LET t == remove_account(s, a)
           IN /\ t \in Store
              /\ t.acct[a] = Absent
              /\ \A b \in Addr \ {a} : t.acct[b] = s.acct[b]
              /\ t.slot = s.slot
              /\ t.code = s.code
  BY DEF Store, remove_account

LEMMA SetCodeType ==
    ASSUME NEW s \in Store, NEW h \in Hash
    PROVE  LET t == set_code(s, h)
           IN /\ t \in Store
              /\ t.acct = s.acct
              /\ t.slot = s.slot
              /\ t.code = s.code \cup {h}
  BY DEF Store, set_code

LEMMA ClearStorageType ==
    ASSUME NEW s \in Store, NEW a \in Addr
    PROVE  LET t == clear_storage(s, a)
           IN /\ t \in Store
              /\ t.slot[a] = [k \in Key |-> Zero]
              /\ \A b \in Addr \ {a} : t.slot[b] = s.slot[b]
              /\ t.acct = s.acct
              /\ t.code = s.code
  BY StoreAssumption DEF Store, clear_storage

LEMMA SetStorageType ==
    ASSUME NEW s \in Store, NEW a \in Addr, NEW k \in Key, NEW v \in Val
    PROVE  LET t == set_storage(s, a, k, v)
           IN /\ t \in Store
              /\ \A x \in Key : t.slot[a][x] = IF x = k THEN v ELSE s.slot[a][x]
              /\ \A b \in Addr \ {a} : t.slot[b] = s.slot[b]
              /\ t.acct = s.acct
              /\ t.code = s.code
  BY DEF Store, set_storage

-----------------------------------------------------------------------------
(* What is common to all accounts revm returns: their shape, that code which *)
(* was not loaded is code that did not change, and where slots come from.    *)

SlotFunctions == UNION {[L -> Slot] : L \in SUBSET Key}

Sound(s, a, acc) ==
    /\ acc \in Account
    /\ acc.code \in {NotLoaded, acc.info.hash}
    /\ acc.code = NotLoaded => acc.info.hash = basic(s, a).hash
    /\ DOMAIN acc.slot \subseteq Key
    /\ \A k \in DOMAIN acc.slot :
           /\ acc.slot[k].now \in Val
           /\ acc.slot[k].was = IF acc.created THEN Zero ELSE storage(s, a, k)

LEMMA LoadsType ==
    ASSUME NEW s \in Store, NEW a \in Addr, NEW fresh \in BOOLEAN,
           NEW l \in Loads(s, a, fresh)
    PROVE  /\ l \in SlotFunctions
           /\ DOMAIN l \subseteq Key
           /\ \A k \in DOMAIN l :
                 /\ l[k].now \in Val
                 /\ l[k].was = IF fresh THEN Zero ELSE storage(s, a, k)
<1>0. PICK L \in SUBSET Key :
        l \in {[k \in L |-> [was |-> IF fresh THEN Zero ELSE storage(s, a, k),
                             now |-> new[k]]] : new \in [L -> Val]}
  BY DEF Loads
<1>1. PICK new \in [L -> Val] :
        l = [k \in L |-> [was |-> IF fresh THEN Zero ELSE storage(s, a, k),
                          now |-> new[k]]]
  BY <1>0
<1>2. \A k \in L : storage(s, a, k) \in Val
  BY DEF storage, Store
<1>3. l \in [L -> Slot]
  BY <1>1, <1>2, StoreAssumption DEF Slot
<1> QED
  BY <1>1, <1>3 DEF SlotFunctions

LEMMA UnloadedType ==
    ASSUME NEW l \in Unloaded
    PROVE  l \in SlotFunctions /\ DOMAIN l = {}
<1>1. l \in [{} -> Slot]
  BY DEF Unloaded
<1> QED
  BY <1>1 DEF SlotFunctions

\* An account is sound if its info, code and slots are.
LEMMA SoundParts ==
    ASSUME NEW s \in Store, NEW a \in Addr,
           NEW t \in BOOLEAN, NEW d \in BOOLEAN, NEW c \in BOOLEAN,
           NEW infos \in SUBSET Info, NEW codes, NEW slots,
           NEW acc \in Accounts(t, d, c, infos, codes, slots),
           acc.code \in {NotLoaded, acc.info.hash},
           acc.code = NotLoaded => acc.info.hash = basic(s, a).hash,
           \A l \in slots :
              /\ l \in SlotFunctions
              /\ DOMAIN l \subseteq Key
              /\ \A k \in DOMAIN l :
                    /\ l[k].now \in Val
                    /\ l[k].was = IF c THEN Zero ELSE storage(s, a, k)
    PROVE  Sound(s, a, acc)
<1>1. /\ acc = [touched |-> acc.touched, selfdestructed |-> acc.selfdestructed,
                created |-> acc.created, info |-> acc.info, code |-> acc.code,
                slot |-> acc.slot]
      /\ acc.touched = t
      /\ acc.selfdestructed = d
      /\ acc.created = c
      /\ acc.info \in infos
      /\ acc.code \in codes
      /\ acc.slot \in slots
  BY DEF Accounts
<1>2. acc.info \in Info
  BY <1>1
<1>3. acc.code \in Code
  BY <1>1, <1>2 DEF Code, Info
<1>4. acc.slot \in SlotFunctions
  BY <1>1
<1>5. acc \in Account
  BY <1>1, <1>2, <1>3, <1>4 DEF Account, SlotFunctions
<1> QED
  BY <1>1, <1>5 DEF Sound

LEMMA DeployedSound ==
    ASSUME NEW s \in Store, NEW a \in Addr, NEW d \in BOOLEAN,
           NEW acc \in Deployed(s, a, d)
    PROVE  Sound(s, a, acc)
<1>1. PICK h \in Hash \cup {EmptyHash} :
        acc \in Accounts(TRUE, d, TRUE, [purse : Purse, hash : {h}] \ {NoInfo},
                         {h}, Loads(s, a, TRUE))
  BY DEF Deployed
<1>2. [purse : Purse, hash : {h}] \ {NoInfo} \in SUBSET Info
  BY DEF Info
<1>3. acc.info.hash = h /\ acc.code = h
  BY <1>1 DEF Accounts
<1>4. h # NotLoaded
  BY NotLoadedAssumption
<1>5. \A l \in Loads(s, a, TRUE) :
         /\ l \in SlotFunctions
         /\ DOMAIN l \subseteq Key
         /\ \A k \in DOMAIN l : /\ l[k].now \in Val
                                /\ l[k].was = IF TRUE THEN Zero ELSE storage(s, a, k)
  BY LoadsType
<1> HIDE DEF Accounts
<1> QED
  BY <1>1, <1>2, <1>3, <1>4, <1>5, SoundParts

LEMMA RevmAccountSound ==
    ASSUME NEW s \in Store, NEW a \in Addr, NEW clearing \in BOOLEAN,
           NEW acc \in RevmAccount(s, a, clearing)
    PROVE  Sound(s, a, acc)
<1> DEFINE h == basic(s, a).hash
           SlotsOK(slots) ==
             \A l \in slots :
               /\ l \in SlotFunctions
               /\ DOMAIN l \subseteq Key
               /\ \A k \in DOMAIN l : /\ l[k].now \in Val
                                      /\ l[k].was = IF FALSE THEN Zero ELSE storage(s, a, k)
<1>0. basic(s, a) \in Info /\ h \in Hash \cup {EmptyHash} /\ h # NotLoaded
  BY BasicType, NotLoadedAssumption DEF Info
<1>a. SlotsOK(Loads(s, a, FALSE))
  BY LoadsType
<1>b. SlotsOK(Unloaded)
  BY UnloadedType
<1>1. CASE acc \in Untouched(s, a)
  <2>1. acc \in Accounts(FALSE, FALSE, FALSE, {basic(s, a)}, {NotLoaded, h},
                         Loads(s, a, FALSE))
    BY <1>1 DEF Untouched
  <2>2. acc.info.hash = h /\ acc.code \in {NotLoaded, h}
    BY <2>1 DEF Accounts
  <2> QED
    BY <1>0, <1>a, <2>1, <2>2, SoundParts
<1>2. CASE acc \in Updated(s, a)
  <2> DEFINE infos == [purse : Purse, hash : {h}] \ {NoInfo}
             slots == IF h = EmptyHash THEN Unloaded ELSE Loads(s, a, FALSE)
  <2>1. acc \in Accounts(TRUE, FALSE, FALSE, infos, {NotLoaded, h}, slots)
    BY <1>2 DEF Updated
  <2>2. acc.info.hash = h /\ acc.code \in {NotLoaded, h}
    BY <2>1 DEF Accounts
  <2>3. infos \in SUBSET Info
    BY <1>0 DEF Info
  <2>4. SlotsOK(slots)
    BY <1>a, <1>b
  <2> QED
    BY <1>0, <2>1, <2>2, <2>3, <2>4, SoundParts
<1>3. CASE acc \in Delegated(s, a)
  <2> DEFINE infos(g) == [purse : Purse \ {EmptyPurse}, hash : {g}]
  <2>1. PICK g \in (Hash \cup {EmptyHash}) \ {h} :
          acc \in Accounts(TRUE, FALSE, FALSE, infos(g), {g}, Loads(s, a, FALSE))
    BY <1>3 DEF Delegated
  <2>2. acc.info.hash = g /\ acc.code = g
    BY <2>1 DEF Accounts
  <2>3. infos(g) \in SUBSET Info /\ g # NotLoaded
    BY NotLoadedAssumption DEF Info
  <2> QED
    BY <1>a, <2>1, <2>2, <2>3, SoundParts
<1>4. CASE acc \in Created(s, a)
  BY <1>4, DeployedSound DEF Created
<1>5. CASE acc \in Destroyed(s, a)
  <2> DEFINE infos == [purse : Purse, hash : {h}]
             slots == IF h = EmptyHash THEN {} ELSE Loads(s, a, FALSE)
  <2>1. CASE acc \in Accounts(TRUE, TRUE, FALSE, infos, {h}, slots)
    <3>1. acc.info.hash = h /\ acc.code = h
      BY <2>1 DEF Accounts
    <3>2. infos \in SUBSET Info
      BY <1>0 DEF Info
    <3>3. SlotsOK(slots)
      BY <1>a
    <3> HIDE DEF h, infos, slots
    <3> QED
      BY <1>0, <2>1, <3>1, <3>2, <3>3, SoundParts
  <2> QED
    BY <1>5, <2>1, DeployedSound DEF Destroyed
<1>6. CASE acc \in TouchedEmpty(s, a, clearing)
  <2>1. basic(s, a) = NoInfo
    BY <1>6 DEF TouchedEmpty
  <2>2. PICK t \in BOOLEAN, c \in BOOLEAN :
          acc \in Accounts(t, FALSE, c, {NoInfo}, {NotLoaded}, Unloaded)
    BY <1>6 DEF TouchedEmpty, Exists
  <2>3. acc.info.hash = h /\ acc.code = NotLoaded
    BY <2>1, <2>2 DEF Accounts
  <2>4. \A l \in Unloaded :
          /\ l \in SlotFunctions
          /\ DOMAIN l \subseteq Key
          /\ \A k \in DOMAIN l : /\ l[k].now \in Val
                                 /\ l[k].was = IF c THEN Zero ELSE storage(s, a, k)
    BY UnloadedType
  <2> QED
    BY <2>2, <2>3, <2>4, NoInfoType, SoundParts
<1> QED
  BY <1>1, <1>2, <1>3, <1>4, <1>5, <1>6 DEF RevmAccount


LEMMA RevmStateSound ==
    ASSUME NEW s \in Store, NEW D \in SUBSET Addr, NEW clearing \in BOOLEAN,
           NEW j \in RevmState(s, D, clearing)
    PROVE  /\ DOMAIN j = D
           /\ \A a \in D : Sound(s, a, j[a])
  BY RevmAccountSound DEF RevmState

-----------------------------------------------------------------------------
(* The inductive invariant: the journal is sound for the state the execution *)
(* ran against, none of that state's code is ever lost, and every host call  *)
(* is made on what the calls before it have prepared.                        *)

JournalSound == \A a \in DOMAIN journal : Sound(before, a, journal[a])

Prepared ==
    /\ phase = "remove" => store.slot[cur] = [k \in Key |-> Zero]
    /\ phase = "code" => has_code(journal[cur])
    /\ phase = "info" => journal[cur].info.hash \in store.code \cup {EmptyHash}
    /\ phase = "slots" => Exists(store, cur)

SafeInv ==
    /\ TypeOK
    /\ JournalSound
    /\ CodeHeld(before)
    /\ before.code \subseteq store.code
    /\ CodeBeforeAccount
    /\ NoOrphanStorage
    /\ Prepared

LEMMA InitSafe == Init => SafeInv
<1> SUFFICES ASSUME Init PROVE SafeInv
  OBVIOUS
<1>1. DOMAIN journal = {}
  BY DEF Init, none
<1>2. /\ store \in Store /\ before = store
      /\ phase = "idle" /\ todo = {} /\ left = {}
      /\ commits = FALSE /\ eip161 = TRUE
      /\ CodeHeld(store) /\ NoOrphans(store)
  BY DEF Init, WellFormed
<1>3. TypeOK
  BY <1>1, <1>2 DEF TypeOK, Committing, InCall, Between
<1> QED
  BY <1>1, <1>2, <1>3 DEF SafeInv, JournalSound, Prepared, CodeBeforeAccount,
                          NoOrphanStorage

\* Writing the state keeps both of its promises as long as new accounts bring
\* code that is held, and only accounts without storage go away.
LEMMA CodeHeldKept ==
    ASSUME NEW s \in Store, NEW t \in Store, CodeHeld(s),
           s.code \subseteq t.code,
           \A b \in Addr : \/ t.acct[b] = s.acct[b]
                           \/ basic(t, b).hash \in t.code \cup {EmptyHash}
    PROVE  CodeHeld(t)
  BY DEF CodeHeld, basic, Exists

\* Code that is not handed over is held already.
LEMMA CodeAtHand ==
    ASSUME SafeInv, NEW a \in DOMAIN journal, ~ has_code(journal[a])
    PROVE  journal[a].info.hash \in store.code \cup {EmptyHash}
<1>1. Sound(before, a, journal[a]) /\ a \in Addr /\ journal[a].info \in Info
  BY DEF SafeInv, JournalSound, TypeOK, Account
<1>2. journal[a].info.hash \in Hash \cup {EmptyHash}
  BY <1>1 DEF Info
<1>3. CASE journal[a].code = NotLoaded
  <2>1. journal[a].info.hash = basic(before, a).hash
    BY <1>1, <1>3 DEF Sound
  <2> QED
    BY <1>1, <2>1 DEF SafeInv, CodeHeld
<1>4. CASE journal[a].code = journal[a].info.hash
  BY <1>2, <1>4 DEF has_code
<1> QED
  BY <1>1, <1>3, <1>4 DEF Sound

\* The facts a host call for address cur starts from.
LEMMA AtCur ==
    ASSUME SafeInv, phase \in InCall
    PROVE  /\ cur \in DOMAIN journal /\ cur \in Addr
           /\ Sound(before, cur, journal[cur])
           /\ journal[cur] \in Account
           /\ journal[cur].info \in Info
           /\ store \in Store
           /\ before.code \subseteq store.code
           /\ CodeHeld(store)
           /\ NoOrphans(store)
  BY DEF SafeInv, TypeOK, JournalSound, CodeBeforeAccount, NoOrphanStorage, Account

\* What a step that makes no host call leaves to show.
LEMMA NoCallSafe ==
    ASSUME SafeInv, TypeOK', UNCHANGED <<store, journal, before>>, Prepared'
    PROVE  SafeInv'
<1>1. JournalSound' /\ CodeBeforeAccount' /\ NoOrphanStorage'
  BY DEF SafeInv, JournalSound, CodeBeforeAccount, NoOrphanStorage
<1> QED
  BY <1>1 DEF SafeInv

\* What a host call leaves to show.
LEMMA CallSafe ==
    ASSUME SafeInv, TypeOK', UNCHANGED <<journal, before>>, Prepared',
           store.code \subseteq store'.code, CodeHeld(store'), NoOrphans(store')
    PROVE  SafeInv'
<1>1. JournalSound' /\ CodeHeld(before)' /\ (before.code \subseteq store.code)'
  BY DEF SafeInv, JournalSound
<1>2. CodeBeforeAccount' /\ NoOrphanStorage'
  BY DEF CodeBeforeAccount, NoOrphanStorage
<1> QED
  BY <1>1, <1>2 DEF SafeInv

LEMMA CallSteps == ASSUME SafeInv, Call PROVE SafeInv'
<1>1. PICK clearing \in BOOLEAN, wants_commit \in BOOLEAN, D \in SUBSET Addr :
        \E j \in RevmState(store, D, clearing) : Execute(clearing, j, wants_commit)
  BY DEF Call
<1>2. PICK j \in RevmState(store, D, clearing) : Execute(clearing, j, wants_commit)
  BY <1>1
<1>3. store \in Store /\ phase = "idle" /\ left \subseteq Key
  BY <1>2 DEF SafeInv, TypeOK, Execute
<1>4. /\ store' = store /\ before' = store /\ journal' = j /\ left' = left
      /\ commits' \in BOOLEAN /\ eip161' \in BOOLEAN
      /\ phase' \in {"next", "done"} /\ todo' \subseteq DOMAIN j
  BY <1>2 DEF Execute
<1>5. DOMAIN j = D /\ \A a \in D : Sound(store, a, j[a])
  BY <1>3, RevmStateSound
<1>6. \A a \in D : j[a] \in Account
  BY <1>5 DEF Sound
<1>7. TypeOK'
  BY <1>3, <1>4, <1>5, <1>6 DEF TypeOK, Committing, Between, InCall
<1>8. JournalSound'
  BY <1>4, <1>5 DEF JournalSound
<1>9. Prepared'
  BY <1>4 DEF Prepared
<1> QED
  BY <1>4, <1>7, <1>8, <1>9 DEF SafeInv, CodeBeforeAccount, NoOrphanStorage

LEMMA NextAccountSteps ==
    ASSUME SafeInv, NEW a \in todo, NextAccount(a) PROVE SafeInv'
<1> DEFINE acc == journal[a]
<1>1. a \in DOMAIN journal
  BY DEF SafeInv, TypeOK
<1>2. /\ UNCHANGED <<store, journal, before, commits, eip161, left>>
      /\ cur' = a /\ todo' \subseteq todo /\ phase' = FirstPhase(acc)
  BY DEF NextAccount
<1>3. /\ FirstPhase(acc) \in {"next", "drop", "clear", "code", "info"}
      /\ FirstPhase(acc) = "code" => has_code(acc)
      /\ FirstPhase(acc) = "info" => ~ has_code(acc)
  BY DEF FirstPhase, CodePhase
<1>4. TypeOK'
  BY <1>1, <1>2, <1>3 DEF SafeInv, TypeOK, Committing, Between, InCall, NextAccount
<1>5. Prepared'
  <2>1. phase' = "info" => acc.info.hash \in store.code \cup {EmptyHash}
    BY <1>1, <1>2, <1>3, CodeAtHand
  <2> QED
    BY <1>2, <1>3, <2>1 DEF Prepared
<1> QED
  BY <1>2, <1>4, <1>5, NoCallSafe

LEMMA FinishSteps == ASSUME SafeInv, Finish PROVE SafeInv'
<1>1. /\ UNCHANGED <<store, journal, before, commits, eip161, left, todo, cur>>
      /\ phase' = "done"
  BY DEF Finish
<1>2. TypeOK'
  BY <1>1 DEF SafeInv, TypeOK, Committing, Between, InCall
<1>3. Prepared'
  BY <1>1 DEF Prepared
<1> QED
  BY <1>1, <1>2, <1>3, NoCallSafe

LEMMA ThrowSteps == ASSUME SafeInv, Throw PROVE SafeInv'
<1>1. /\ UNCHANGED <<store, journal, before, commits, eip161, left, todo, cur>>
      /\ phase' = "dead"
  BY DEF Throw
<1>2. TypeOK'
  BY <1>1 DEF SafeInv, TypeOK, Committing, Between, InCall
<1>3. Prepared'
  BY <1>1 DEF Prepared
<1> QED
  BY <1>1, <1>2, <1>3, NoCallSafe

LEMMA ForgetSteps == ASSUME SafeInv, Forget PROVE SafeInv'
<1>1. /\ store' = store /\ before' = store /\ DOMAIN journal' = {}
      /\ todo' = {} /\ left' = {} /\ phase' = "idle"
      /\ commits' = FALSE /\ eip161' = TRUE
  BY DEF Forget, none
<1>2. TypeOK'
  BY <1>1 DEF SafeInv, TypeOK, Committing, Between, InCall
<1> QED
  BY <1>1, <1>2 DEF SafeInv, JournalSound, Prepared, CodeBeforeAccount, NoOrphanStorage

LEMMA DropStorageSteps == ASSUME SafeInv, DropStorage PROVE SafeInv'
<1>1. /\ phase = "drop" /\ phase \in InCall /\ phase' = "remove"
      /\ store' = clear_storage(store, cur)
      /\ UNCHANGED <<journal, before, commits, eip161, left, todo, cur>>
  BY DEF DropStorage, HostCall, InCall
<1>2. /\ store' \in Store
      /\ store'.slot[cur] = [k \in Key |-> Zero]
      /\ \A b \in Addr \ {cur} : store'.slot[b] = store.slot[b]
      /\ store'.acct = store.acct
      /\ store'.code = store.code
  BY <1>1, AtCur, ClearStorageType
<1>3. TypeOK'
  BY <1>1, <1>2 DEF SafeInv, TypeOK, Committing, Between, InCall
<1>4. Prepared'
  BY <1>1, <1>2 DEF Prepared
<1>5. CodeHeld(store')
  BY <1>1, <1>2, AtCur, CodeHeldKept
<1>6. NoOrphans(store')
  BY <1>1, <1>2, AtCur DEF NoOrphans, Exists
<1> QED
  BY <1>1, <1>2, <1>3, <1>4, <1>5, <1>6, CallSafe

LEMMA RemoveAccountSteps == ASSUME SafeInv, RemoveAccount PROVE SafeInv'
<1>1. /\ phase = "remove" /\ phase \in InCall /\ phase' = "next"
      /\ store' = remove_account(store, cur)
      /\ store.slot[cur] = [k \in Key |-> Zero]
      /\ UNCHANGED <<journal, before, commits, eip161, left, todo, cur>>
  BY DEF RemoveAccount, HostCall, InCall, SafeInv, Prepared
<1>2. /\ store' \in Store
      /\ store'.acct[cur] = Absent
      /\ \A b \in Addr \ {cur} : store'.acct[b] = store.acct[b]
      /\ store'.slot = store.slot
      /\ store'.code = store.code
  BY <1>1, AtCur, RemoveAccountType
<1>3. TypeOK'
  BY <1>1, <1>2 DEF SafeInv, TypeOK, Committing, Between, InCall
<1>4. Prepared'
  BY <1>1 DEF Prepared
<1>5. basic(store', cur).hash = EmptyHash
  BY <1>2 DEF basic, Exists, NoInfo
<1>6. CodeHeld(store')
  BY <1>1, <1>2, <1>5, AtCur, CodeHeldKept
<1>7. NoOrphans(store')
  BY <1>1, <1>2, AtCur DEF NoOrphans, Exists
<1> QED
  BY <1>1, <1>2, <1>3, <1>4, <1>6, <1>7, CallSafe

LEMMA ClearStorageSteps == ASSUME SafeInv, ClearStorage PROVE SafeInv'
<1>1. /\ phase = "clear" /\ phase \in InCall
      /\ phase' = CodePhase(journal[cur])
      /\ store' = clear_storage(store, cur)
      /\ UNCHANGED <<journal, before, commits, eip161, left, todo, cur>>
  BY DEF ClearStorage, HostCall, InCall
<1>2. /\ store' \in Store
      /\ store'.slot[cur] = [k \in Key |-> Zero]
      /\ \A b \in Addr \ {cur} : store'.slot[b] = store.slot[b]
      /\ store'.acct = store.acct
      /\ store'.code = store.code
  BY <1>1, AtCur, ClearStorageType
<1>3. \/ phase' = "code" /\ has_code(journal[cur])
      \/ phase' = "info" /\ ~ has_code(journal[cur])
  BY <1>1 DEF CodePhase
<1>4. TypeOK'
  BY <1>1, <1>2, <1>3 DEF SafeInv, TypeOK, Committing, Between, InCall
<1>5. Prepared'
  <2>1. ~ has_code(journal[cur]) =>
           journal[cur].info.hash \in store.code \cup {EmptyHash}
    BY <1>1, AtCur, CodeAtHand
  <2> QED
    BY <1>1, <1>2, <1>3, <2>1 DEF Prepared
<1>6. CodeHeld(store')
  BY <1>1, <1>2, AtCur, CodeHeldKept
<1>7. NoOrphans(store')
  BY <1>1, <1>2, AtCur DEF NoOrphans, Exists
<1> QED
  BY <1>1, <1>2, <1>4, <1>5, <1>6, <1>7, CallSafe

LEMMA SetCodeSteps == ASSUME SafeInv, SetCode PROVE SafeInv'
<1> DEFINE acc == journal[cur]
<1>1. /\ phase = "code" /\ phase \in InCall /\ phase' = "info"
      /\ store' = set_code(store, acc.code)
      /\ has_code(acc)
      /\ UNCHANGED <<journal, before, commits, eip161, left, todo, cur>>
  BY DEF SetCode, HostCall, InCall, SafeInv, Prepared
<1>2. acc.code \in Hash /\ acc.info.hash = acc.code
  BY <1>1, AtCur, NotLoadedAssumption DEF has_code, Sound
<1>3. /\ store' \in Store
      /\ store'.acct = store.acct
      /\ store'.slot = store.slot
      /\ store'.code = store.code \cup {acc.code}
  BY <1>1, <1>2, AtCur, SetCodeType
<1>4. TypeOK'
  BY <1>1, <1>3 DEF SafeInv, TypeOK, Committing, Between, InCall
<1>5. Prepared'
  BY <1>1, <1>2, <1>3 DEF Prepared
<1>6. CodeHeld(store')
  BY <1>1, <1>3, AtCur, CodeHeldKept
<1>7. NoOrphans(store')
  BY <1>1, <1>3, AtCur DEF NoOrphans, Exists
<1> QED
  BY <1>1, <1>3, <1>4, <1>5, <1>6, <1>7, CallSafe

LEMMA SetAccountSteps == ASSUME SafeInv, SetAccount PROVE SafeInv'
<1> DEFINE acc == journal[cur]
<1>1. /\ phase = "info" /\ phase \in InCall
      /\ phase' = AfterSlots(left') /\ left' = SlotsToWrite(acc)
      /\ store' = set_account(store, cur, acc.info)
      /\ acc.info.hash \in store.code \cup {EmptyHash}
      /\ UNCHANGED <<journal, before, commits, eip161, todo, cur>>
  BY DEF SetAccount, HostCall, InCall, SafeInv, Prepared
<1>2. /\ store' \in Store
      /\ store'.acct[cur] = acc.info
      /\ \A b \in Addr \ {cur} : store'.acct[b] = store.acct[b]
      /\ store'.slot = store.slot
      /\ store'.code = store.code
  BY <1>1, AtCur, SetAccountType
<1>3. phase' \in {"next", "slots"}
  BY <1>1 DEF AfterSlots
<1>4. left' \subseteq DOMAIN acc.slot /\ left' \subseteq Key
  BY <1>1, AtCur DEF SlotsToWrite, Sound
<1>5. TypeOK'
  BY <1>1, <1>2, <1>3, <1>4, AtCur DEF SafeInv, TypeOK, Committing, Between, InCall
<1>6. Exists(store', cur) /\ basic(store', cur) = acc.info
  BY <1>1, <1>2, AtCur, AbsentAssumption DEF Exists, basic
<1>7. Prepared'
  BY <1>1, <1>3, <1>6 DEF Prepared
<1>8. CodeHeld(store')
  BY <1>1, <1>2, <1>6, AtCur, CodeHeldKept
<1>9. NoOrphans(store')
  BY <1>1, <1>2, <1>6, AtCur DEF NoOrphans, Exists
<1> QED
  BY <1>1, <1>2, <1>5, <1>7, <1>8, <1>9, CallSafe

LEMMA SetStorageSteps ==
    ASSUME SafeInv, NEW k \in left, SetStorage(k) PROVE SafeInv'
<1> DEFINE v == journal[cur].slot[k].now
<1>1. /\ phase = "slots" /\ phase \in InCall
      /\ phase' = AfterSlots(left') /\ left' \subseteq left
      /\ store' = set_storage(store, cur, k, v)
      /\ Exists(store, cur)
      /\ k \in DOMAIN journal[cur].slot
      /\ UNCHANGED <<journal, before, commits, eip161, todo, cur>>
  BY DEF SetStorage, HostCall, InCall, SafeInv, Prepared, TypeOK
<1>2. k \in Key /\ v \in Val
  BY <1>1, AtCur DEF Sound
<1> HIDE DEF v
<1>3. /\ store' \in Store
      /\ \A b \in Addr \ {cur} : store'.slot[b] = store.slot[b]
      /\ store'.acct = store.acct
      /\ store'.code = store.code
  <2>1. cur \in Addr /\ store \in Store
    BY <1>1, AtCur
  <2> DEFINE t == set_storage(store, cur, k, v)
  <2>2. /\ t \in Store
        /\ \A b \in Addr \ {cur} : t.slot[b] = store.slot[b]
        /\ t.acct = store.acct
        /\ t.code = store.code
    BY <1>2, <2>1, SetStorageType
  <2> QED
    BY <1>1, <2>2
<1>4. phase' \in {"next", "slots"}
  BY <1>1 DEF AfterSlots
<1>5. TypeOK'
  BY <1>1, <1>3, <1>4 DEF SafeInv, TypeOK, Committing, Between, InCall
<1>6. Prepared'
  BY <1>1, <1>3, <1>4 DEF Prepared, Exists
<1>7. CodeHeld(store')
  BY <1>1, <1>3, AtCur, CodeHeldKept
<1>8. NoOrphans(store')
  BY <1>1, <1>3, AtCur DEF NoOrphans, Exists
<1> QED
  BY <1>1, <1>3, <1>5, <1>6, <1>7, <1>8, CallSafe

LEMMA StutterSafe == ASSUME SafeInv, UNCHANGED vars PROVE SafeInv'
  BY DEF SafeInv, vars, TypeOK, JournalSound, Prepared, CodeBeforeAccount,
         NoOrphanStorage

LEMMA StepSafe == SafeInv /\ [Next]_vars => SafeInv'
<1> SUFFICES ASSUME SafeInv, [Next]_vars PROVE SafeInv'
  OBVIOUS
<1>1. CASE Call
  BY <1>1, CallSteps
<1>2. CASE \E a \in todo : NextAccount(a)
  BY <1>2, NextAccountSteps
<1>3. CASE Finish
  BY <1>3, FinishSteps
<1>4. CASE DropStorage
  BY <1>4, DropStorageSteps
<1>5. CASE RemoveAccount
  BY <1>5, RemoveAccountSteps
<1>6. CASE ClearStorage
  BY <1>6, ClearStorageSteps
<1>7. CASE SetCode
  BY <1>7, SetCodeSteps
<1>8. CASE SetAccount
  BY <1>8, SetAccountSteps
<1>9. CASE \E k \in left : SetStorage(k)
  BY <1>9, SetStorageSteps
<1>10. CASE Throw
  BY <1>10, ThrowSteps
<1>11. CASE Return \/ Recreate
  BY <1>11, ForgetSteps DEF Return, Recreate
<1>12. CASE UNCHANGED vars
  BY <1>12, StutterSafe
<1> QED
  BY <1>1, <1>2, <1>3, <1>4, <1>5, <1>6, <1>7, <1>8, <1>9, <1>10, <1>11, <1>12
     DEF Next, Work

LEMMA AlwaysSafe == Spec => []SafeInv
<1> QED
  BY InitSafe, StepSafe, PTL DEF Spec

\* Every step of a commit leaves a state, a journal and a position of the types
\* the code gives them.
THEOREM TypeCorrect == Spec => []TypeOK
<1>1. SafeInv => TypeOK
  BY DEF SafeInv
<1> QED
  BY <1>1, AlwaysSafe, PTL

\* Whatever the transaction did, there is no moment between two host calls at
\* which an account refers to code the host has not been given.
THEOREM CodeComesFirst == Spec => []CodeBeforeAccount
<1>1. SafeInv => CodeBeforeAccount
  BY DEF SafeInv
<1> QED
  BY <1>1, AlwaysSafe, PTL

\* Nor one at which the storage of an account outlives the account.
THEOREM NoStorageLeftBehind == Spec => []NoOrphanStorage
<1>1. SafeInv => NoOrphanStorage
  BY DEF SafeInv
<1> QED
  BY <1>1, AlwaysSafe, PTL

-----------------------------------------------------------------------------
(***************************************************************************)
(* The commit and the blob say the same: for every set of addresses, keys, *)
(* values, code and funds, the host calls of a commit that comes to its    *)
(* end add up to the blob that was reported before the first of them.      *)
(***************************************************************************)

(* What the blob's entry of one account makes of it, in terms of the       *)
(* journal the commit works from.                                          *)

Base(a, k) == IF journal[a].created THEN Zero ELSE before.slot[a][k]

\* What the slots of a touched account hold when those in rest are unwritten.
Written(a, rest, k) ==
    IF k \in SlotsToWrite(journal[a]) \ rest THEN journal[a].slot[k].now ELSE Base(a, k)

NewAcct(a) == AppliedAcct(before.acct[a], blob[a])
NewSlot(a, k) == AppliedSlot(before.slot[a], blob[a])[k]

Faithful ==
    /\ DOMAIN blob = DOMAIN journal
    /\ \A a \in DOMAIN journal : blob[a] = Entry(journal[a], basic(before, a).hash)

LEMMA EntryFields ==
    ASSUME NEW acc, NEW orig
    PROVE  LET e == Entry(acc, orig)
           IN /\ e.touched = acc.touched
              /\ e.selfdestructed = acc.selfdestructed
              /\ e.created = acc.created
              /\ e.deleted = account_is_deleted(acc)
              /\ e.info = acc.info
              /\ e.code = IF acc.info.hash # orig THEN acc.code ELSE NotLoaded
              /\ DOMAIN e.slot = {k \in DOMAIN acc.slot : is_changed(acc.slot[k])}
              /\ \A k \in DOMAIN e.slot : e.slot[k] = acc.slot[k].now
  BY DEF Entry

LEMMA EntryApplied ==
    ASSUME SafeInv, Faithful, NEW a \in DOMAIN journal
    PROVE  LET acc == journal[a]
           IN /\ ~ acc.touched =>
                    /\ NewAcct(a) = before.acct[a]
                    /\ \A k \in Key : NewSlot(a, k) = before.slot[a][k]
                    /\ AppliedCode(blob[a]) = {}
              /\ acc.touched /\ account_is_deleted(acc) =>
                    /\ NewAcct(a) = Absent
                    /\ \A k \in Key : NewSlot(a, k) = Zero
                    /\ AppliedCode(blob[a]) = {}
              /\ acc.touched /\ ~ account_is_deleted(acc) =>
                    /\ NewAcct(a) = acc.info
                    /\ \A k \in Key : NewSlot(a, k) = Written(a, {}, k)
<1> DEFINE acc == journal[a]
           e == blob[a]
<1>1. Sound(before, a, acc) /\ a \in Addr
  BY DEF SafeInv, JournalSound, TypeOK
<1>2. /\ e.touched = acc.touched
      /\ e.created = acc.created
      /\ e.deleted = account_is_deleted(acc)
      /\ e.info = acc.info
      /\ DOMAIN e.slot = {k \in DOMAIN acc.slot : is_changed(acc.slot[k])}
      /\ \A k \in DOMAIN e.slot : e.slot[k] = acc.slot[k].now
  BY EntryFields DEF Faithful
<1>3. acc.touched \in BOOLEAN /\ acc.created \in BOOLEAN
  BY <1>1 DEF Sound, Account
<1> HIDE DEF e
<1>4. ASSUME acc.touched, ~ account_is_deleted(acc), NEW k \in Key
      PROVE  NewSlot(a, k) = Written(a, {}, k)
  <2>1. NewSlot(a, k) = IF k \in DOMAIN e.slot THEN e.slot[k]
                        ELSE IF acc.created THEN Zero ELSE before.slot[a][k]
    BY <1>2, <1>3, <1>4 DEF NewSlot, AppliedSlot, Overwrite, e
  <2>2. CASE k \in DOMAIN e.slot
    BY <1>2, <2>1, <2>2 DEF Written, SlotsToWrite
  <2>3. CASE k \notin DOMAIN e.slot
    <3>1. CASE k \in SlotsToWrite(acc)
      <4>1. k \in DOMAIN acc.slot /\ ~ is_changed(acc.slot[k]) /\ acc.created
        BY <1>2, <2>3, <3>1 DEF SlotsToWrite
      <4>2. acc.slot[k].now = Zero
        BY <1>1, <4>1 DEF Sound, is_changed
      <4> QED
        BY <2>1, <2>3, <3>1, <4>1, <4>2 DEF Written
    <3>2. CASE k \notin SlotsToWrite(acc)
      BY <2>1, <2>3, <3>2 DEF Written, Base
    <3> QED
      BY <3>1, <3>2
  <2> QED
    BY <2>2, <2>3
<1>5. acc.touched /\ ~ account_is_deleted(acc) => NewAcct(a) = acc.info
  BY <1>2 DEF NewAcct, AppliedAcct, e
<1>6. ~ acc.touched => /\ NewAcct(a) = before.acct[a]
                       /\ \A k \in Key : NewSlot(a, k) = before.slot[a][k]
                       /\ AppliedCode(blob[a]) = {}
  BY <1>2 DEF NewAcct, NewSlot, AppliedAcct, AppliedSlot, AppliedCode, e
<1>7. acc.touched /\ account_is_deleted(acc) =>
         /\ NewAcct(a) = Absent
         /\ \A k \in Key : NewSlot(a, k) = Zero
         /\ AppliedCode(blob[a]) = {}
  BY <1>2 DEF NewAcct, NewSlot, AppliedAcct, AppliedSlot, AppliedCode, e
<1> QED
  BY <1>4, <1>5, <1>6, <1>7

\* The module hands over code by what revm has at hand, the blob by whether the
\* hash has changed: to a state that held the code of its accounts, the same.
LEMMA CodeAgrees ==
    ASSUME SafeInv, Faithful, NEW a \in DOMAIN journal,
           journal[a].touched, ~ account_is_deleted(journal[a]), NEW h \in Hash
    PROVE  h \in before.code \/ h \in AppliedCode(blob[a])
             <=> h \in before.code \/ (has_code(journal[a]) /\ h = journal[a].code)
<1> DEFINE acc == journal[a]
           e == blob[a]
           orig == basic(before, a).hash
<1>1. Sound(before, a, acc) /\ a \in Addr /\ acc.info \in Info
  BY DEF SafeInv, JournalSound, TypeOK, Account
<1>0. e = Entry(acc, orig)
  BY DEF Faithful
<1> HIDE DEF acc, e, orig
<1>2. /\ e.touched = acc.touched
      /\ e.deleted = account_is_deleted(acc)
      /\ e.code = IF acc.info.hash # orig THEN acc.code ELSE NotLoaded
  BY <1>0, EntryFields
<1>3. AppliedCode(e) = {e.code} \cap Hash
  BY <1>2 DEF AppliedCode, acc
<1>4. orig \in before.code \cup {EmptyHash}
  BY <1>1 DEF SafeInv, CodeHeld, orig
<1>5. acc.code \in {NotLoaded, acc.info.hash} /\ acc.info.hash \in Hash \cup {EmptyHash}
  BY <1>1 DEF Sound, Info
<1>6. h \in AppliedCode(e) <=> h = acc.code /\ acc.info.hash # orig
  BY <1>2, <1>3, NotLoadedAssumption
<1>7. has_code(acc) /\ h = acc.code <=> h = acc.code /\ acc.info.hash # EmptyHash
  BY DEF has_code
<1>8. ASSUME h = acc.code PROVE acc.info.hash = h
  BY <1>5, <1>8, NotLoadedAssumption
<1> QED
  BY <1>4, <1>6, <1>7, <1>8, StoreAssumption DEF acc, e

-----------------------------------------------------------------------------
(* The blob is what the journal makes of it, and the code it carries.      *)

NoBlobNeeded == UNCHANGED <<journal, blob, before>>

LEMMA FaithfulKept == ASSUME Faithful, NoBlobNeeded PROVE Faithful'
  BY DEF Faithful, NoBlobNeeded

LEMMA SafeCarriesNewCode == SafeInv /\ Faithful => BlobCarriesNewCode
<1> SUFFICES ASSUME SafeInv, Faithful, NEW a \in DOMAIN blob
             PROVE  LET e == blob[a]
                    IN /\ e.code # NotLoaded => e.code = e.info.hash
                       /\ e.touched /\ ~ e.deleted /\ e.info.hash \in Hash \ before.code
                            => e.code = e.info.hash
  BY DEF BlobCarriesNewCode
<1> DEFINE acc == journal[a]
           e == blob[a]
           orig == basic(before, a).hash
<1>1. a \in DOMAIN journal /\ Sound(before, a, acc) /\ a \in Addr
  BY DEF SafeInv, JournalSound, TypeOK, Faithful
<1>2. /\ e.info = acc.info
      /\ e.code = IF acc.info.hash # orig THEN acc.code ELSE NotLoaded
  BY <1>1, EntryFields DEF Faithful
<1>3. orig \in before.code \cup {EmptyHash}
  BY <1>1 DEF SafeInv, CodeHeld
<1>4. acc.code \in {NotLoaded, acc.info.hash}
      /\ (acc.code = NotLoaded => acc.info.hash = orig)
  BY <1>1 DEF Sound
<1> HIDE DEF acc, e, orig
<1> QED
  BY <1>2, <1>3, <1>4, StoreAssumption DEF e

-----------------------------------------------------------------------------
(* The inductive invariant: which addresses the commit has dealt with, what  *)
(* has become of the one it is at, and where the code in the state is from.  *)

Under == IF phase \in InCall THEN {cur} ELSE {}
Handled == (DOMAIN journal \ todo) \ Under

\* Addresses whose code has been handed over.
Coded == IF phase \in {"info", "slots"} THEN Handled \cup Under ELSE Handled

AsBefore(a) == store.acct[a] = before.acct[a] /\ \A k \in Key : store.slot[a][k] = before.slot[a][k]
AsBlob(a) == store.acct[a] = NewAcct(a) /\ \A k \in Key : store.slot[a][k] = NewSlot(a, k)

CodeKept ==
    \A h \in Hash :
        h \in store.code <=> h \in before.code \/ \E a \in Coded : h \in AppliedCode(blob[a])

Midway ==
    LET acc == journal[cur]
    IN /\ acc.touched
       /\ account_is_deleted(acc) <=> phase \in {"drop", "remove"}
       /\ phase = "clear" => acc.created
       /\ phase \in {"drop", "clear"} => AsBefore(cur)
       /\ phase # "slots" => store.acct[cur] = before.acct[cur]
       /\ phase \in {"code", "info", "slots"} =>
            \A k \in Key : store.slot[cur][k]
                             = Written(cur, IF phase = "slots" THEN left ELSE Key, k)
       /\ phase = "slots" => store.acct[cur] = acc.info /\ left \subseteq SlotsToWrite(acc)

Position ==
    /\ phase \in Committing => commits
    /\ phase = "done" => todo = {}
    /\ phase = "done" /\ ~ commits => store = before
    /\ phase \in InCall => cur \notin todo

Progress ==
    phase \in Committing \/ (phase = "done" /\ commits) =>
        /\ \A a \in Addr \ (Handled \cup Under) : AsBefore(a)
        /\ \A a \in Handled : AsBlob(a)
        /\ CodeKept
        /\ phase \in InCall => Midway

BlobInv ==
    /\ SafeInv
    /\ Faithful
    /\ Position
    /\ Progress

LEMMA InitBlob == Init => BlobInv
<1> SUFFICES ASSUME Init PROVE BlobInv
  OBVIOUS
<1>1. DOMAIN journal = {} /\ DOMAIN blob = {} /\ phase = "idle"
  BY DEF Init, none
<1> QED
  BY <1>1, InitSafe DEF BlobInv, Faithful, Position, Progress, Committing, Between, InCall

\* A step that leaves no commit under way has only the blob to answer for.
LEMMA IdleBlob ==
    ASSUME SafeInv', Faithful', phase' \in {"idle", "dead"}
    PROVE  BlobInv'
  BY DEF BlobInv, Position, Progress, Committing, Between, InCall

\* The write to cur that a host call makes, and where it leaves cur.
LEMMA CallBlob ==
    ASSUME BlobInv, SafeInv', phase \in InCall,
           UNCHANGED <<journal, blob, before, commits, todo, cur>>,
           phase' \in InCall \cup {"next"},
           \A b \in Addr \ {cur} : /\ store'.acct[b] = store.acct[b]
                                   /\ store'.slot[b] = store.slot[b],
           phase' = "next" => AsBlob(cur)',
           phase' \in InCall => Midway',
           CodeKept'
    PROVE  BlobInv'
<1>1. phase \in Committing /\ phase' \in Committing /\ phase' # "done"
  BY DEF Committing, Between, InCall
<1>2. Faithful'
  BY FaithfulKept DEF BlobInv, NoBlobNeeded
<1>3. Position'
  BY <1>1 DEF BlobInv, Position
<1>4. /\ \A a \in Addr \ (Handled \cup Under) : AsBefore(a)
      /\ \A a \in Handled : AsBlob(a)
      /\ Under = {cur} /\ cur \in DOMAIN journal /\ cur \notin todo
      /\ DOMAIN journal \subseteq Addr
  BY <1>1 DEF BlobInv, Progress, Under, Position, SafeInv, TypeOK
<1>5. Handled' \cup Under' = Handled \cup Under
  BY <1>1, <1>4 DEF Handled, Under
<1>6. \A a \in Addr \ (Handled \cup Under) : AsBefore(a)'
  BY <1>4 DEF AsBefore
<1>7. \A a \in Handled : AsBlob(a)'
  <2> SUFFICES ASSUME NEW a \in Handled PROVE AsBlob(a)'
    OBVIOUS
  <2>1. a \in Addr \ {cur}
    BY <1>4 DEF Handled
  <2>2. NewAcct(a)' = NewAcct(a) /\ \A k \in Key : NewSlot(a, k)' = NewSlot(a, k)
    BY DEF NewAcct, NewSlot
  <2> QED
    BY <1>4, <2>1, <2>2 DEF AsBlob
<1>8. \A a \in Handled' : AsBlob(a)'
  <2>1. CASE phase' = "next"
    BY <1>5, <1>7, <1>4, <2>1
  <2>2. CASE phase' \in InCall
    <3>1. Handled' = Handled
      BY <1>4, <2>2 DEF Handled, Under
    <3> QED
      BY <1>7, <3>1
  <2> QED
    BY <2>1, <2>2
<1>9. Progress'
  BY <1>5, <1>6, <1>8 DEF Progress
<1> QED
  BY <1>2, <1>3, <1>9 DEF BlobInv

\* Where a host call starts from.
LEMMA AtCall ==
    ASSUME BlobInv, phase \in InCall
    PROVE  /\ SafeInv /\ Faithful
           /\ phase \in Committing
           /\ cur \in DOMAIN journal /\ cur \in Addr /\ cur \notin todo
           /\ Sound(before, cur, journal[cur])
           /\ store \in Store
           /\ Midway /\ CodeKept
           /\ Under = {cur} /\ cur \notin Handled
<1>1. phase \in Committing
  BY DEF Committing
<1> QED
  BY <1>1, AtCur DEF BlobInv, Position, Progress, Under, Handled

\* A step within or out of an account that writes no code and needs none.
LEMMA CodeStays ==
    ASSUME BlobInv, phase \in InCall, UNCHANGED <<journal, blob, before, todo, cur>>,
           phase' \in InCall \cup {"next"},
           store'.code = store.code,
           \A h \in Hash : h \in AppliedCode(blob[cur]) =>
               h \in before.code \/ phase \in {"info", "slots"} \/ phase' = "code",
           phase \in {"info", "slots"} => phase' \in {"info", "slots", "next"}
    PROVE  CodeKept'
<1>1. Under = {cur} /\ CodeKept /\ cur \notin Handled /\ cur \in DOMAIN journal
      /\ cur \notin todo
  BY AtCall
<1>2. Handled' \cup Under' = Handled \cup {cur} /\ Handled \subseteq Handled'
  BY <1>1 DEF Handled, Under
<1>3. /\ Coded \subseteq Handled \cup {cur} /\ Coded' \subseteq Handled \cup {cur}
      /\ Handled \subseteq Coded /\ Handled \subseteq Coded'
  BY <1>1, <1>2 DEF Coded
<1>4. phase \in {"info", "slots"} => cur \in Coded /\ cur \in Coded'
  <2>1. ASSUME phase \in {"info", "slots"} PROVE cur \in Coded
    BY <1>1, <2>1 DEF Coded
  <2>2. ASSUME phase' = "next" PROVE cur \in Handled'
    BY <1>1, <2>2 DEF Handled, Under, InCall
  <2>3. ASSUME phase' \in {"info", "slots"} PROVE cur \in Coded'
    BY <1>1, <2>3 DEF Coded, Under, InCall
  <2> QED
    BY <1>3, <2>1, <2>2, <2>3 DEF Coded
<1> HIDE DEF Coded, Handled, Under
<1> SUFFICES ASSUME NEW h \in Hash
             PROVE  h \in store.code <=>
                      h \in before.code \/ \E a \in Coded' : h \in AppliedCode(blob[a])
  BY DEF CodeKept
<1>5. h \in store.code <=> h \in before.code \/ \E a \in Coded : h \in AppliedCode(blob[a])
  BY <1>1 DEF CodeKept
<1>6. CASE phase \in {"info", "slots"}
  <2>1. Coded' = Coded
    BY <1>3, <1>4, <1>6
  <2> QED
    BY <1>5, <2>1
<1>7. CASE phase \notin {"info", "slots"} /\ phase' = "code"
  <2>1. Coded = Handled /\ Coded' = Handled'
    BY <1>7 DEF Coded
  <2>2. Handled' = Handled
    BY <1>1, <1>7 DEF Handled, Under, InCall
  <2> QED
    BY <1>5, <2>1, <2>2
<1>8. CASE phase \notin {"info", "slots"} /\ phase' # "code"
  BY <1>3, <1>5, <1>8
<1> QED
  BY <1>6, <1>7, <1>8

LEMMA DropStorageBlob == ASSUME BlobInv, SafeInv', DropStorage PROVE BlobInv'
<1>1. /\ phase = "drop" /\ phase \in InCall /\ phase' = "remove" /\ phase' \in InCall
      /\ store' = clear_storage(store, cur)
      /\ UNCHANGED <<journal, blob, before, commits, todo, cur>>
  BY DEF DropStorage, HostCall, InCall
<1>2. /\ \A b \in Addr \ {cur} : store'.slot[b] = store.slot[b]
      /\ store'.acct = store.acct
      /\ store'.code = store.code
  BY <1>1, AtCall, ClearStorageType
<1>3. /\ journal[cur].touched /\ account_is_deleted(journal[cur])
      /\ store.acct[cur] = before.acct[cur]
  BY <1>1, AtCall DEF Midway
<1>4. Midway'
  BY <1>1, <1>2, <1>3 DEF Midway
<1>5. AppliedCode(blob[cur]) = {}
  BY <1>1, <1>3, AtCall, EntryApplied
<1>6. CodeKept'
  BY <1>1, <1>2, <1>5, CodeStays
<1> QED
  BY <1>1, <1>2, <1>4, <1>6, CallBlob

LEMMA RemoveAccountBlob == ASSUME BlobInv, SafeInv', RemoveAccount PROVE BlobInv'
<1>1. /\ phase = "remove" /\ phase \in InCall /\ phase' = "next"
      /\ store' = remove_account(store, cur)
      /\ store.slot[cur] = [k \in Key |-> Zero]
      /\ UNCHANGED <<journal, blob, before, commits, todo, cur>>
  BY DEF RemoveAccount, HostCall, InCall, BlobInv, SafeInv, Prepared
<1>2. /\ store'.acct[cur] = Absent
      /\ \A b \in Addr \ {cur} : store'.acct[b] = store.acct[b]
      /\ store'.slot = store.slot
      /\ store'.code = store.code
  BY <1>1, AtCall, RemoveAccountType
<1>3. journal[cur].touched /\ account_is_deleted(journal[cur])
  BY <1>1, AtCall DEF Midway
<1>4. /\ NewAcct(cur) = Absent
      /\ \A k \in Key : NewSlot(cur, k) = Zero
      /\ AppliedCode(blob[cur]) = {}
  BY <1>1, <1>3, AtCall, EntryApplied
<1>5. AsBlob(cur)'
  BY <1>1, <1>2, <1>4 DEF AsBlob, NewAcct, NewSlot
<1>6. CodeKept'
  BY <1>1, <1>2, <1>4, CodeStays
<1>7. phase' \notin InCall
  BY <1>1 DEF InCall
<1> QED
  BY <1>1, <1>2, <1>5, <1>6, <1>7, CallBlob

LEMMA ClearStorageBlob == ASSUME BlobInv, SafeInv', ClearStorage PROVE BlobInv'
<1> DEFINE acc == journal[cur]
<1>1. /\ phase = "clear" /\ phase \in InCall
      /\ phase' = CodePhase(acc)
      /\ store' = clear_storage(store, cur)
      /\ UNCHANGED <<journal, blob, before, commits, todo, cur>>
  BY DEF ClearStorage, HostCall, InCall
<1>2. /\ store'.slot[cur] = [k \in Key |-> Zero]
      /\ \A b \in Addr \ {cur} : store'.slot[b] = store.slot[b]
      /\ store'.acct = store.acct
      /\ store'.code = store.code
  BY <1>1, AtCall, ClearStorageType
<1>3. \/ phase' = "code" /\ has_code(acc)
      \/ phase' = "info" /\ ~ has_code(acc)
  BY <1>1 DEF CodePhase
<1>4. acc.touched /\ ~ account_is_deleted(acc) /\ acc.created
  BY <1>1, AtCall DEF Midway
<1>5. phase' \in InCall
  BY <1>3 DEF InCall
<1>6. Midway'
  BY <1>1, <1>2, <1>3, <1>4, AtCall DEF Midway, Written, Base
<1>7. ~ has_code(acc) => \A h \in Hash : h \in AppliedCode(blob[cur]) => h \in before.code
  BY <1>1, <1>4, AtCall, CodeAgrees
<1>8. CodeKept'
  BY <1>1, <1>2, <1>3, <1>5, <1>7, CodeStays
<1>9. phase' # "next"
  BY <1>3
<1> QED
  BY <1>1, <1>2, <1>5, <1>6, <1>8, <1>9, CallBlob

LEMMA SetCodeBlob == ASSUME BlobInv, SafeInv', SetCode PROVE BlobInv'
<1> DEFINE acc == journal[cur]
<1>1. /\ phase = "code" /\ phase \in InCall /\ phase' = "info" /\ phase' \in InCall
      /\ store' = set_code(store, acc.code)
      /\ has_code(acc)
      /\ UNCHANGED <<journal, blob, before, commits, todo, cur>>
  BY DEF SetCode, HostCall, InCall, BlobInv, SafeInv, Prepared
<1>2. acc.code \in Hash
  BY <1>1 DEF has_code
<1>3. /\ store'.acct = store.acct
      /\ store'.slot = store.slot
      /\ store'.code = store.code \cup {acc.code}
  BY <1>1, <1>2, AtCall, SetCodeType
<1>4. /\ acc.touched /\ ~ account_is_deleted(acc)
      /\ store.acct[cur] = before.acct[cur]
      /\ \A k \in Key : store.slot[cur][k] = Written(cur, Key, k)
  BY <1>1, AtCall DEF Midway
<1>5. Midway'
  BY <1>1, <1>3, <1>4 DEF Midway, Written, Base
<1>6. CodeKept'
  <2> SUFFICES ASSUME NEW h \in Hash
               PROVE  h \in store'.code <=>
                        h \in before.code \/ \E a \in Coded' : h \in AppliedCode(blob[a])
    BY <1>1 DEF CodeKept
  <2>1. Coded = Handled /\ Coded' = Handled \cup {cur}
    BY <1>1, AtCall DEF Coded, Handled, Under
  <2>2. h \in store.code <=> h \in before.code \/ \E a \in Handled : h \in AppliedCode(blob[a])
    BY <1>1, <2>1, AtCall DEF CodeKept
  <2>3. h \in before.code \/ h \in AppliedCode(blob[cur])
          <=> h \in before.code \/ h = acc.code
    BY <1>1, <1>4, AtCall, CodeAgrees
  <2> HIDE DEF acc
  <2> QED
    BY <1>3, <2>1, <2>2, <2>3
<1>7. phase' # "next"
  BY <1>1
<1> QED
  BY <1>1, <1>3, <1>5, <1>6, <1>7, CallBlob

LEMMA SetAccountBlob == ASSUME BlobInv, SafeInv', SetAccount PROVE BlobInv'
<1> DEFINE acc == journal[cur]
<1>1. /\ phase = "info" /\ phase \in InCall
      /\ phase' = AfterSlots(left') /\ left' = SlotsToWrite(acc)
      /\ store' = set_account(store, cur, acc.info)
      /\ UNCHANGED <<journal, blob, before, commits, todo, cur>>
  BY DEF SetAccount, HostCall, InCall
<1>2. /\ store'.acct[cur] = acc.info
      /\ \A b \in Addr \ {cur} : store'.acct[b] = store.acct[b]
      /\ store'.slot = store.slot
      /\ store'.code = store.code
  BY <1>1, AtCall, SetAccountType DEF Sound, Account
<1>3. /\ acc.touched /\ ~ account_is_deleted(acc)
      /\ \A k \in Key : store.slot[cur][k] = Written(cur, Key, k)
  BY <1>1, AtCall DEF Midway
<1>4. phase' = IF left' = {} THEN "next" ELSE "slots"
  BY <1>1 DEF AfterSlots
<1>5. \A k \in Key : Written(cur, Key, k) = Written(cur, left', k)
  BY <1>1 DEF Written
<1>6. ASSUME phase' = "slots" PROVE Midway'
  BY <1>1, <1>2, <1>3, <1>5, <1>6 DEF Midway, Written, Base
<1>7. ASSUME phase' = "next" PROVE AsBlob(cur)'
  <2>1. left' = {}
    BY <1>4, <1>7
  <2>2. NewAcct(cur) = acc.info /\ \A k \in Key : NewSlot(cur, k) = Written(cur, {}, k)
    BY <1>1, <1>3, AtCall, EntryApplied
  <2> QED
    BY <1>1, <1>2, <1>3, <1>5, <2>1, <2>2 DEF AsBlob, NewAcct, NewSlot
<1>8. CodeKept'
  BY <1>1, <1>2, <1>4, CodeStays DEF InCall
<1>9. phase' \in InCall \cup {"next"} /\ (phase' \in InCall => phase' = "slots")
  BY <1>4 DEF InCall
<1> QED
  BY <1>1, <1>2, <1>6, <1>7, <1>8, <1>9, CallBlob

LEMMA SetStorageBlob ==
    ASSUME BlobInv, SafeInv', NEW k \in left, SetStorage(k) PROVE BlobInv'
<1> DEFINE acc == journal[cur]
           v == acc.slot[k].now
<1>1. /\ phase = "slots" /\ phase \in InCall
      /\ phase' = AfterSlots(left') /\ left' = left \ {k}
      /\ store' = set_storage(store, cur, k, v)
      /\ UNCHANGED <<journal, blob, before, commits, todo, cur>>
  BY DEF SetStorage, HostCall, InCall
<1>2. /\ acc.touched /\ ~ account_is_deleted(acc)
      /\ store.acct[cur] = acc.info
      /\ left \subseteq SlotsToWrite(acc)
      /\ \A x \in Key : store.slot[cur][x] = Written(cur, left, x)
  BY <1>1, AtCall DEF Midway
<1>3. k \in DOMAIN acc.slot /\ k \in Key /\ v \in Val /\ store \in Store /\ cur \in Addr
  BY <1>1, <1>2, AtCall DEF SlotsToWrite, Sound
<1> HIDE DEF v
<1>4. /\ \A x \in Key : store'.slot[cur][x] = IF x = k THEN v ELSE store.slot[cur][x]
      /\ \A b \in Addr \ {cur} : store'.slot[b] = store.slot[b]
      /\ store'.acct = store.acct
      /\ store'.code = store.code
  BY <1>1, <1>3, SetStorageType
<1>5. \A x \in Key : store'.slot[cur][x] = Written(cur, left', x)
  BY <1>1, <1>2, <1>4 DEF Written, v
<1>6. phase' = IF left' = {} THEN "next" ELSE "slots"
  BY <1>1 DEF AfterSlots
<1>7. ASSUME phase' = "slots" PROVE Midway'
  BY <1>1, <1>2, <1>4, <1>5, <1>7 DEF Midway, Written, Base
<1>8. ASSUME phase' = "next" PROVE AsBlob(cur)'
  <2>1. left' = {}
    BY <1>6, <1>8
  <2>2. NewAcct(cur) = acc.info /\ \A x \in Key : NewSlot(cur, x) = Written(cur, {}, x)
    BY <1>1, <1>2, AtCall, EntryApplied
  <2> QED
    BY <1>1, <1>2, <1>4, <1>5, <2>1, <2>2 DEF AsBlob, NewAcct, NewSlot
<1>9. CodeKept'
  BY <1>1, <1>4, <1>6, CodeStays DEF InCall
<1>10. phase' \in InCall \cup {"next"} /\ (phase' \in InCall => phase' = "slots")
  BY <1>6 DEF InCall
<1> QED
  BY <1>1, <1>4, <1>7, <1>8, <1>9, <1>10, CallBlob

LEMMA NextAccountBlob ==
    ASSUME BlobInv, SafeInv', NEW a \in todo, NextAccount(a) PROVE BlobInv'
<1> DEFINE acc == journal[a]
<1>1. /\ phase = "next" /\ phase \in Committing /\ phase \notin InCall
      /\ UNCHANGED <<store, journal, blob, before, commits>>
      /\ cur' = a /\ todo' = todo \ {a} /\ phase' = FirstPhase(acc)
  BY DEF NextAccount, Committing, Between, InCall
<1>2. /\ SafeInv /\ Faithful /\ commits
      /\ a \in DOMAIN journal /\ DOMAIN journal \subseteq Addr /\ todo \subseteq DOMAIN journal
      /\ Sound(before, a, acc)
      /\ Under = {} /\ Coded = Handled
      /\ \A b \in Addr \ Handled : AsBefore(b)
      /\ \A b \in Handled : AsBlob(b)
      /\ CodeKept
  BY <1>1 DEF BlobInv, Position, Progress, SafeInv, TypeOK, JournalSound, Under, Coded
<1>3. a \notin Handled /\ AsBefore(a)
  BY <1>2 DEF Handled
<1>4. /\ phase' \in {"next", "drop", "clear", "code", "info"}
      /\ phase' = "next" <=> ~ acc.touched
      /\ phase' # "next" => /\ account_is_deleted(acc) <=> phase' \in {"drop", "remove"}
                            /\ phase' = "clear" => acc.created
                            /\ phase' \in {"code", "info"} => ~ acc.created
                            /\ phase' = "info" => ~ has_code(acc)
  BY <1>1 DEF FirstPhase, CodePhase
<1>5. Faithful'
  BY <1>1, <1>2, FaithfulKept DEF NoBlobNeeded
<1>6. Position'
  BY <1>1, <1>2, <1>4 DEF Position, Committing, Between
<1>7. Handled' \cup Under' = Handled \cup {a}
      /\ Handled' = IF phase' = "next" THEN Handled \cup {a} ELSE Handled
  BY <1>1, <1>2, <1>4 DEF Handled, Under, InCall
<1> HIDE DEF acc
<1>8. \A b \in Addr : AsBefore(b)' = AsBefore(b) /\ AsBlob(b)' = AsBlob(b)
  BY <1>1 DEF AsBefore, AsBlob, NewAcct, NewSlot
<1>9. ~ acc.touched => AsBlob(a) /\ AppliedCode(blob[a]) = {}
  BY <1>2, <1>3, EntryApplied DEF AsBefore, AsBlob, acc
<1>10. phase' \in InCall => Midway'
  BY <1>1, <1>2, <1>3, <1>4 DEF Midway, InCall, AsBefore, Written, Base, acc
<1>11. CodeKept'
  <2>1. acc.touched /\ phase' = "info" =>
           \A h \in Hash : h \in AppliedCode(blob[a]) => h \in before.code
    BY <1>2, <1>4, CodeAgrees DEF acc
  <2>2. Handled \subseteq Coded' /\ Coded' \subseteq Handled \cup {a}
        /\ (a \in Coded' => phase' \in {"next", "info"})
    BY <1>3, <1>4, <1>7 DEF Coded
  <2>3. \A h \in Hash : a \in Coded' /\ h \in AppliedCode(blob[a]) => h \in before.code
    BY <1>4, <1>9, <2>1, <2>2
  <2> HIDE DEF Coded
  <2>4. \A h \in Hash : (\E b \in Coded' : h \in AppliedCode(blob[b])) \/ h \in before.code
                          <=> (\E b \in Handled : h \in AppliedCode(blob[b])) \/ h \in before.code
    BY <2>2, <2>3
  <2> QED
    BY <1>1, <1>2, <2>4 DEF CodeKept
<1>12. Progress'
  <2>1. \A b \in Addr \ (Handled' \cup Under') : AsBefore(b)'
    BY <1>2, <1>7, <1>8
  <2>2. \A b \in Handled' : AsBlob(b)'
    <3>1. Handled \cup {a} \subseteq Addr
      BY <1>2 DEF Handled
    <3> QED
      BY <1>2, <1>4, <1>7, <1>8, <1>9, <3>1
  <2> QED
    BY <1>10, <1>11, <2>1, <2>2 DEF Progress
<1> QED
  BY <1>5, <1>6, <1>12 DEF BlobInv

LEMMA FinishBlob == ASSUME BlobInv, SafeInv', Finish PROVE BlobInv'
<1>1. /\ phase = "next" /\ phase \in Committing /\ phase \notin InCall
      /\ todo = {} /\ phase' = "done" /\ phase' \notin Committing /\ phase' \notin InCall
      /\ UNCHANGED <<store, journal, blob, before, commits, todo, cur, left>>
  BY DEF Finish, Committing, Between, InCall
<1>2. Faithful'
  BY <1>1, FaithfulKept DEF NoBlobNeeded, BlobInv
<1>3. Position'
  BY <1>1 DEF BlobInv, Position
<1>4. /\ \A a \in Addr \ (Handled \cup Under) : AsBefore(a)
      /\ \A a \in Handled : AsBlob(a)
      /\ CodeKept
  BY <1>1 DEF BlobInv, Progress
<1>5. Handled' = Handled /\ Under' = Under /\ Coded' = Coded
  BY <1>1 DEF Handled, Under, Coded
<1>6. \A a : AsBefore(a)' = AsBefore(a) /\ AsBlob(a)' = AsBlob(a)
  BY <1>1 DEF AsBefore, AsBlob, NewAcct, NewSlot
<1>7. CodeKept'
  BY <1>1, <1>4, <1>5 DEF CodeKept
<1>8. Progress'
  BY <1>1, <1>4, <1>5, <1>6, <1>7 DEF Progress
<1> QED
  BY <1>2, <1>3, <1>8 DEF BlobInv

LEMMA CallBlobStarts == ASSUME BlobInv, SafeInv', Call PROVE BlobInv'
<1>1. PICK clearing \in BOOLEAN, wants_commit \in BOOLEAN, D \in SUBSET Addr :
        \E j \in RevmState(store, D, clearing) : Execute(clearing, j, wants_commit)
  BY DEF Call
<1>2. PICK j \in RevmState(store, D, clearing) : Execute(clearing, j, wants_commit)
  BY <1>1
<1>3. /\ store' = store /\ before' = store /\ journal' = j
      /\ blob' = encode_outcome(j, [a \in DOMAIN j |-> basic(store, a).hash])
      /\ commits' = wants_commit
      /\ \/ wants_commit /\ phase' = "next" /\ todo' = DOMAIN j
         \/ ~ wants_commit /\ phase' = "done" /\ todo' = {}
  BY <1>2 DEF Execute
<1>4. phase' \notin InCall /\ (phase' \in Committing => wants_commit)
  BY <1>3 DEF InCall, Committing, Between
<1>5. Faithful'
  BY <1>3 DEF Faithful, encode_outcome
<1>6. Position'
  BY <1>3, <1>4 DEF Position
<1>7. ASSUME phase' \in Committing \/ (phase' = "done" /\ commits')
      PROVE  /\ Handled' = {} /\ Under' = {} /\ Coded' = {}
             /\ \A a \in Addr : AsBefore(a)'
  BY <1>3, <1>4, <1>7 DEF Handled, Under, Coded, AsBefore, InCall
<1>8. Progress'
  BY <1>3, <1>4, <1>7 DEF Progress, CodeKept
<1> QED
  BY <1>5, <1>6, <1>8 DEF BlobInv

LEMMA ForgetBlob == ASSUME SafeInv', Forget PROVE BlobInv'
<1>1. DOMAIN journal' = {} /\ DOMAIN blob' = {} /\ phase' = "idle"
  BY DEF Forget, none
<1> QED
  BY <1>1, IdleBlob DEF Faithful

LEMMA StutterBlob == ASSUME BlobInv, SafeInv', UNCHANGED vars PROVE BlobInv'
<1>1. Faithful' /\ Position'
  BY DEF BlobInv, vars, Faithful, Position
<1>2. Handled' = Handled /\ Under' = Under /\ Coded' = Coded
  BY DEF vars, Handled, Under, Coded
<1>3. \A a : AsBefore(a)' = AsBefore(a) /\ AsBlob(a)' = AsBlob(a)
  BY DEF vars, AsBefore, AsBlob, NewAcct, NewSlot
<1>4. CodeKept' = CodeKept
  BY <1>2 DEF vars, CodeKept
<1>5. Midway' = Midway
  BY DEF vars, Midway, Written, Base, AsBefore
<1>6. Progress'
  BY <1>2, <1>3, <1>4, <1>5 DEF BlobInv, Progress, vars
<1> QED
  BY <1>1, <1>6 DEF BlobInv

LEMMA StepBlob == BlobInv /\ [Next]_vars => BlobInv'
<1> SUFFICES ASSUME BlobInv, [Next]_vars PROVE BlobInv'
  OBVIOUS
<1>0. SafeInv'
  BY StepSafe DEF BlobInv
<1>1. CASE Call
  BY <1>0, <1>1, CallBlobStarts
<1>2. CASE \E a \in todo : NextAccount(a)
  BY <1>0, <1>2, NextAccountBlob
<1>3. CASE Finish
  BY <1>0, <1>3, FinishBlob
<1>4. CASE DropStorage
  BY <1>0, <1>4, DropStorageBlob
<1>5. CASE RemoveAccount
  BY <1>0, <1>5, RemoveAccountBlob
<1>6. CASE ClearStorage
  BY <1>0, <1>6, ClearStorageBlob
<1>7. CASE SetCode
  BY <1>0, <1>7, SetCodeBlob
<1>8. CASE SetAccount
  BY <1>0, <1>8, SetAccountBlob
<1>9. CASE \E k \in left : SetStorage(k)
  BY <1>0, <1>9, SetStorageBlob
<1>10. CASE Throw
  <2>1. Faithful' /\ phase' = "dead"
    BY <1>10, FaithfulKept DEF Throw, NoBlobNeeded, BlobInv
  <2> QED
    BY <1>0, <2>1, IdleBlob
<1>11. CASE Return \/ Recreate
  BY <1>0, <1>11, ForgetBlob DEF Return, Recreate
<1>12. CASE UNCHANGED vars
  BY <1>0, <1>12, StutterBlob
<1> QED
  BY <1>1, <1>2, <1>3, <1>4, <1>5, <1>6, <1>7, <1>8, <1>9, <1>10, <1>11, <1>12
     DEF Next, Work

LEMMA AlwaysBlob == Spec => []BlobInv
<1> QED
  BY InitBlob, StepBlob, PTL DEF Spec

-----------------------------------------------------------------------------
(* Addresses are dealt with in order.                                        *)

Ordered ==
    /\ phase \in Committing => \A a \in todo, b \in DOMAIN journal \ todo : b < a
    /\ phase \in InCall => \A b \in DOMAIN journal \ todo : b <= cur

InOrder == BlobInv /\ Ordered

LEMMA StepInOrder == InOrder /\ [Next]_vars => InOrder'
<1> SUFFICES ASSUME BlobInv, Ordered, [Next]_vars PROVE Ordered'
  BY StepBlob DEF InOrder
<1> USE DEF Committing, Between, InCall
<1>0. DOMAIN journal \subseteq Nat /\ todo \subseteq DOMAIN journal
  BY StoreAssumption DEF BlobInv, SafeInv, TypeOK
<1>1. CASE Call
  <2>1. PICK clearing \in BOOLEAN, wants_commit \in BOOLEAN, D \in SUBSET Addr :
          \E j \in RevmState(store, D, clearing) : Execute(clearing, j, wants_commit)
    BY <1>1 DEF Call
  <2>2. todo' = DOMAIN journal' \/ phase' = "done"
    BY <2>1 DEF Execute
  <2>3. phase' \in {"next", "done"}
    BY <2>1 DEF Execute
  <2> QED
    BY <2>2, <2>3 DEF Ordered
<1>2. ASSUME NEW a \in todo, NextAccount(a) PROVE Ordered'
  <2>1. /\ phase = "next" /\ journal' = journal /\ todo' = todo \ {a} /\ cur' = a
        /\ \A c \in todo : a <= c
    BY <1>2 DEF NextAccount, IsFirst
  <2>2. \A b \in DOMAIN journal \ todo : b < a
    BY <2>1 DEF Ordered
  <2>3. \A b \in DOMAIN journal \ todo' : b <= a
    BY <1>0, <2>1, <2>2
  <2>4. \A c \in todo', b \in DOMAIN journal \ todo' : b < c
    BY <1>0, <2>1, <2>3
  <2> QED
    BY <2>1, <2>3, <2>4 DEF Ordered
<1>3. CASE Finish \/ Throw \/ Return \/ Recreate
  BY <1>3 DEF Ordered, Finish, Throw, Return, Recreate, Forget
<1>4. CASE \/ DropStorage \/ RemoveAccount \/ ClearStorage \/ SetCode \/ SetAccount
           \/ \E k \in left : SetStorage(k)
  <2>1. UNCHANGED <<journal, todo, cur>> /\ phase \in InCall
    BY <1>4 DEF DropStorage, RemoveAccount, ClearStorage, SetCode, SetAccount, SetStorage,
                HostCall
  <2> QED
    BY <2>1 DEF Ordered
<1>5. CASE UNCHANGED vars
  BY <1>5 DEF Ordered, vars
<1> QED
  BY <1>1, <1>2, <1>3, <1>4, <1>5 DEF Next, Work

LEMMA AlwaysInOrder == Spec => []InOrder
<1>1. Init => InOrder
  BY InitBlob DEF InOrder, Ordered, Init, Committing, Between, InCall, none
<1> QED
  BY <1>1, StepInOrder, PTL DEF Spec

-----------------------------------------------------------------------------
(* What the runs check, for every value of the constants.                    *)

\* Applying the blob, field by field.
LEMMA AppliedFields ==
    ASSUME SafeInv, Faithful
    PROVE  LET new == Applied(before, blob)
           IN /\ \A a \in DOMAIN journal :
                    /\ new.acct[a] = NewAcct(a)
                    /\ new.slot[a] = [k \in Key |-> NewSlot(a, k)]
              /\ \A a \in Addr \ DOMAIN journal :
                    /\ new.acct[a] = before.acct[a]
                    /\ new.slot[a] = before.slot[a]
              /\ \A h : h \in new.code <=>
                    h \in before.code \/ \E a \in DOMAIN journal : h \in AppliedCode(blob[a])
<1> DEFINE new == Applied(before, blob)
<1>1. DOMAIN blob = DOMAIN journal /\ DOMAIN journal \subseteq Addr
  BY DEF SafeInv, TypeOK, Faithful
<1>2. ASSUME NEW a \in DOMAIN journal
      PROVE  AppliedSlot(before.slot[a], blob[a]) = [k \in Key |-> NewSlot(a, k)]
  <2>1. before.slot[a] = [k \in Key |-> before.slot[a][k]]
    BY <1>1 DEF SafeInv, TypeOK, Store
  <2> QED
    BY <2>1 DEF NewSlot, AppliedSlot, Overwrite
<1>3. ASSUME NEW a \in DOMAIN journal
      PROVE  new.acct[a] = NewAcct(a) /\ new.slot[a] = AppliedSlot(before.slot[a], blob[a])
  BY <1>1 DEF Applied, NewAcct
<1>4. ASSUME NEW a \in Addr \ DOMAIN journal
      PROVE  new.acct[a] = before.acct[a] /\ new.slot[a] = before.slot[a]
  BY <1>1 DEF Applied
<1>5. new.code = before.code \cup UNION {AppliedCode(blob[a]) : a \in DOMAIN journal}
  BY <1>1 DEF Applied
<1> HIDE DEF new
<1>6. \A h : h \in new.code <=>
        h \in before.code \/ \E a \in DOMAIN journal : h \in AppliedCode(blob[a])
  BY <1>5
<1> QED
  BY <1>2, <1>3, <1>4, <1>6 DEF new

LEMMA DoneIsApplied ==
    ASSUME BlobInv, store \in Store, todo = {}, phase \in {"next", "done"}, commits
    PROVE  store = Applied(before, blob)
<1> DEFINE new == Applied(before, blob)
<1>1. /\ SafeInv /\ Faithful
      /\ Handled = DOMAIN journal /\ Under = {} /\ Coded = DOMAIN journal
      /\ DOMAIN journal \subseteq Addr
      /\ before \in Store
      /\ phase \in Committing \/ phase = "done"
  BY DEF BlobInv, SafeInv, TypeOK, Handled, Under, Coded, InCall, Committing, Between
<1>2. /\ \A a \in Addr \ DOMAIN journal : AsBefore(a)
      /\ \A a \in DOMAIN journal : AsBlob(a)
      /\ CodeKept
  BY <1>1 DEF BlobInv, Progress
<1>3. /\ \A a \in DOMAIN journal :
            new.acct[a] = NewAcct(a) /\ new.slot[a] = [k \in Key |-> NewSlot(a, k)]
      /\ \A a \in Addr \ DOMAIN journal :
            new.acct[a] = before.acct[a] /\ new.slot[a] = before.slot[a]
      /\ \A h : h \in new.code <=>
            h \in before.code \/ \E a \in DOMAIN journal : h \in AppliedCode(blob[a])
  BY <1>1, AppliedFields
<1>4. /\ new = [acct |-> new.acct, slot |-> new.slot, code |-> new.code]
      /\ new.acct = [a \in Addr |-> new.acct[a]]
      /\ new.slot = [a \in Addr |-> new.slot[a]]
  BY DEF Applied
<1>5. /\ store = [acct |-> store.acct, slot |-> store.slot, code |-> store.code]
      /\ store.acct = [a \in Addr |-> store.acct[a]]
      /\ store.slot = [a \in Addr |-> store.slot[a]]
      /\ \A a \in Addr : store.slot[a] = [k \in Key |-> store.slot[a][k]]
      /\ \A a \in Addr : before.slot[a] = [k \in Key |-> before.slot[a][k]]
      /\ store.code \subseteq Hash /\ before.code \subseteq Hash
  BY <1>1 DEF Store
<1> HIDE DEF new
<1>6. \A a \in Addr : store.acct[a] = new.acct[a]
  BY <1>2, <1>3 DEF AsBefore, AsBlob
<1>7. \A a \in Addr : store.slot[a] = new.slot[a]
  <2>1. ASSUME NEW a \in DOMAIN journal PROVE store.slot[a] = new.slot[a]
    <3>1. \A k \in Key : store.slot[a][k] = NewSlot(a, k)
      BY <1>2 DEF AsBlob
    <3> QED
      BY <1>1, <1>3, <1>5, <3>1
  <2>2. ASSUME NEW a \in Addr \ DOMAIN journal PROVE store.slot[a] = new.slot[a]
    <3>1. \A k \in Key : store.slot[a][k] = before.slot[a][k]
      BY <1>2 DEF AsBefore
    <3>2. store.slot[a] \in [Key -> Val] /\ before.slot[a] \in [Key -> Val]
      BY <1>1 DEF Store
    <3>3. store.slot[a] = before.slot[a]
      BY <3>1, <3>2
    <3> QED
      BY <1>3, <3>3
  <2> QED
    BY <2>1, <2>2
<1>8. store.code = new.code
  <2>1. \A h \in Hash : h \in store.code <=> h \in new.code
    BY <1>1, <1>2, <1>3 DEF CodeKept
  <2>2. \A h \in new.code : h \in Hash
    BY <1>3, <1>5 DEF AppliedCode
  <2> QED
    BY <1>5, <2>1, <2>2
<1>9. store.acct = new.acct /\ store.slot = new.slot
  BY <1>4, <1>5, <1>6, <1>7
<1> QED
  BY <1>4, <1>5, <1>8, <1>9 DEF new

\* Whatever the transaction did, a host that applies the blob and a host that
\* lets the module commit have the same state once the call has returned.
THEOREM CommitIsTheBlob == Spec => []CommitMatchesBlob
<1>1. BlobInv => CommitMatchesBlob
  BY DoneIsApplied DEF CommitMatchesBlob, BlobInv, SafeInv, TypeOK, Position
<1> QED
  BY <1>1, AlwaysBlob, PTL

\* The bytes the blob reports are those of the hash the account now has, and no
\* account refers to code the old state lacked without them.
THEOREM NewCodeCarried == Spec => []BlobCarriesNewCode
<1>1. BlobInv => BlobCarriesNewCode
  BY SafeCarriesNewCode DEF BlobInv
<1> QED
  BY <1>1, AlwaysBlob, PTL

\* The host calls an account gets are made only if the transaction touched it.
THEOREM UntouchedUnwritten == Spec => OnlyTouchedWritten
<1> DEFINE A == \A a \in Addr : \/ store'.acct[a] # store.acct[a]
                                \/ store'.slot[a] # store.slot[a]
                                => a \in DOMAIN journal /\ journal[a].touched
<1>1. BlobInv /\ [Next]_vars => [A]_store
  <2> SUFFICES ASSUME BlobInv, Next, store' # store PROVE A
    BY DEF vars
  <2>1. phase \in InCall /\ cur \in Addr
        /\ \A b \in Addr \ {cur} : /\ store'.acct[b] = store.acct[b]
                                   /\ store'.slot[b] = store.slot[b]
    <3>1. CASE DropStorage
      BY <3>1, AtCall, ClearStorageType DEF DropStorage, HostCall, InCall
    <3>2. CASE RemoveAccount
      BY <3>2, AtCall, RemoveAccountType DEF RemoveAccount, HostCall, InCall
    <3>3. CASE ClearStorage
      BY <3>3, AtCall, ClearStorageType DEF ClearStorage, HostCall, InCall
    <3>4. CASE SetCode
      BY <3>4, AtCall, SetCodeType DEF SetCode, HostCall, InCall, has_code, BlobInv, SafeInv,
                                       Prepared
    <3>5. CASE SetAccount
      BY <3>5, AtCall, SetAccountType DEF SetAccount, HostCall, InCall, Sound, Account
    <3>6. ASSUME NEW k \in left, SetStorage(k)
          PROVE  phase \in InCall /\ cur \in Addr
                 /\ \A b \in Addr \ {cur} : /\ store'.acct[b] = store.acct[b]
                                            /\ store'.slot[b] = store.slot[b]
      <4>1. phase \in InCall /\ k \in DOMAIN journal[cur].slot
            /\ store' = set_storage(store, cur, k, journal[cur].slot[k].now)
        BY <3>6 DEF SetStorage, HostCall, InCall, BlobInv, SafeInv, TypeOK
      <4>2. k \in Key /\ journal[cur].slot[k].now \in Val /\ cur \in Addr /\ store \in Store
        BY <4>1, AtCall DEF Sound
      <4> QED
        BY <4>1, <4>2, SetStorageType
    <3> QED
      BY <3>1, <3>2, <3>3, <3>4, <3>5, <3>6 DEF Next, Work, Call, Execute, NextAccount, Finish,
                                         Throw, Return, Recreate, Forget
  <2>2. cur \in DOMAIN journal /\ journal[cur].touched
    BY <2>1, AtCall DEF Midway
  <2> QED
    BY <2>1, <2>2
<1> QED
  BY <1>1, AlwaysBlob, PTL DEF Spec, OnlyTouchedWritten

-----------------------------------------------------------------------------
(***************************************************************************)
(* Commit implements AtomicState: seen from between two calls, the state   *)
(* changes by the whole blob or, after a throw, up to one torn account.    *)
(***************************************************************************)

\* The words of the abstract specification are those of the concrete one.
LEMMA SameWords ==
    ASSUME NEW s, NEW b
    PROVE  /\ Atomic!Applied(s, b) = Applied(s, b)
           /\ Atomic!WellFormed(s) <=> WellFormed(s)
  BY DEF Applied, AppliedAcct, AppliedSlot, AppliedCode, Overwrite, WellFormed, CodeHeld,
         NoOrphans, basic, Exists, NoInfo,
         Atomic!Applied, Atomic!AppliedAcct, Atomic!AppliedSlot, Atomic!AppliedCode,
         Atomic!Overwrite, Atomic!WellFormed, Atomic!CodeHeld, Atomic!NoOrphans, Atomic!basic,
         Atomic!Exists, Atomic!NoInfo

\* What a throw finds of the account the commit is at: each slot old, cleared or
\* new, and the record old or new.
LEMMA TornAccount ==
    ASSUME BlobInv, phase \in InCall
    PROVE  /\ store.acct[cur] \in {before.acct[cur], NewAcct(cur)}
           /\ \A k \in Key :
                 store.slot[cur][k] \in {before.slot[cur][k], NewSlot(cur, k)}
                     \cup IF blob[cur].created \/ blob[cur].deleted THEN {Zero} ELSE {}
<1> DEFINE acc == journal[cur]
<1>1. /\ SafeInv /\ Faithful /\ Midway /\ cur \in DOMAIN journal /\ cur \in Addr
      /\ Sound(before, cur, acc)
  BY AtCall
<1>2. blob[cur].created = acc.created /\ blob[cur].deleted = account_is_deleted(acc)
  BY <1>1, EntryFields DEF Faithful
<1>3. CASE phase \in {"drop", "clear"}
  BY <1>1, <1>3 DEF Midway, AsBefore
<1>4. CASE phase = "remove"
  <2>1. store.slot[cur] = [k \in Key |-> Zero] /\ account_is_deleted(acc)
        /\ store.acct[cur] = before.acct[cur]
    BY <1>1, <1>4 DEF Midway, SafeInv, Prepared
  <2> QED
    BY <1>2, <2>1
<1>5. CASE phase \in {"code", "info", "slots"}
  <2> DEFINE rest == IF phase = "slots" THEN left ELSE Key
  <2>1. /\ acc.touched /\ ~ account_is_deleted(acc)
        /\ \A k \in Key : store.slot[cur][k] = Written(cur, rest, k)
        /\ phase # "slots" => store.acct[cur] = before.acct[cur]
        /\ phase = "slots" => store.acct[cur] = acc.info
    BY <1>1, <1>5 DEF Midway
  <2>2. NewAcct(cur) = acc.info /\ \A k \in Key : NewSlot(cur, k) = Written(cur, {}, k)
    BY <1>1, <2>1, EntryApplied
  <2> HIDE DEF rest, acc
  <2>3. ASSUME NEW k \in Key
        PROVE  store.slot[cur][k] \in {before.slot[cur][k], NewSlot(cur, k)}
                 \cup IF blob[cur].created \/ blob[cur].deleted THEN {Zero} ELSE {}
    <3>1. CASE k \in SlotsToWrite(journal[cur]) \ rest
      BY <2>1, <2>2, <3>1 DEF Written
    <3>2. CASE k \notin SlotsToWrite(journal[cur]) \ rest
      <4>1. store.slot[cur][k] = Base(cur, k)
        BY <2>1, <3>2 DEF Written
      <4> QED
        BY <1>2, <4>1 DEF Base, acc
    <3> QED
      BY <3>1, <3>2
  <2> QED
    BY <2>1, <2>2, <2>3
<1> QED
  BY <1>3, <1>4, <1>5 DEF InCall

\* A throw tears the state at the account the commit is at.
LEMMA ThrowTears == ASSUME InOrder, Throw PROVE Atomic!Tear
<1> DEFINE new == Applied(before, blob)
<1>1. /\ BlobInv /\ Ordered /\ SafeInv /\ Faithful
      /\ phase \in InCall /\ phase \in Committing
      /\ Visible = before /\ Visible' = store /\ blob' = blob
  BY DEF InOrder, BlobInv, Throw, Visible, Committing, Between, InCall
<1>2. /\ cur \in DOMAIN journal /\ cur \in Addr /\ cur \notin todo
      /\ DOMAIN blob = DOMAIN journal /\ DOMAIN journal \subseteq Addr
      /\ store \in Store /\ before \in Store /\ Addr \subseteq Nat
      /\ todo \subseteq DOMAIN journal
      /\ Under = {cur}
  BY <1>1, AtCall, StoreAssumption DEF SafeInv, TypeOK, Faithful
<1>3. /\ \A a \in Addr \ (Handled \cup {cur}) : AsBefore(a)
      /\ \A a \in Handled : AsBlob(a)
      /\ CodeKept
  BY <1>1, <1>2 DEF BlobInv, Progress
<1>4. /\ \A a \in DOMAIN journal :
            new.acct[a] = NewAcct(a) /\ new.slot[a] = [k \in Key |-> NewSlot(a, k)]
      /\ \A a \in Addr \ DOMAIN journal :
            new.acct[a] = before.acct[a] /\ new.slot[a] = before.slot[a]
      /\ \A h : h \in new.code <=>
            h \in before.code \/ \E a \in DOMAIN journal : h \in AppliedCode(blob[a])
  BY <1>1, AppliedFields
<1> HIDE DEF new
<1>5. ASSUME NEW a \in Addr, AsBefore(a)
      PROVE  store.acct[a] = before.acct[a] /\ store.slot[a] = before.slot[a]
  <2>1. store.slot[a] \in [Key -> Val] /\ before.slot[a] \in [Key -> Val]
    BY <1>2 DEF Store
  <2> QED
    BY <1>5, <2>1 DEF AsBefore
<1>6. ASSUME NEW a \in Addr, a < cur
      PROVE  store.acct[a] = new.acct[a] /\ store.slot[a] = new.slot[a]
  <2>1. CASE a \in DOMAIN journal
    <3>1. a \notin todo
      BY <1>1, <1>2, <1>6 DEF Ordered
    <3>2. a \in Handled
      BY <1>2, <1>6, <2>1, <3>1 DEF Handled
    <3>3. store.slot[a] \in [Key -> Val] /\ store.acct[a] = NewAcct(a)
          /\ \A k \in Key : store.slot[a][k] = NewSlot(a, k)
      BY <1>2, <1>3, <3>2 DEF Store, AsBlob
    <3>4. store.slot[a] = [k \in Key |-> NewSlot(a, k)]
      BY <3>3
    <3> QED
      BY <1>4, <2>1, <3>3, <3>4
  <2>2. CASE a \notin DOMAIN journal
    <3>1. AsBefore(a)
      BY <1>2, <1>3, <2>2 DEF Handled
    <3> QED
      BY <1>4, <1>5, <2>2, <3>1
  <2> QED
    BY <2>1, <2>2
<1>7. ASSUME NEW a \in Addr, a > cur
      PROVE  store.acct[a] = before.acct[a] /\ store.slot[a] = before.slot[a]
  <2>1. a \notin Handled \cup {cur}
    BY <1>1, <1>2, <1>7 DEF Handled, Ordered
  <2> QED
    BY <1>3, <1>5, <2>1
<1>8. store.acct[cur] \in {before.acct[cur], new.acct[cur]}
  BY <1>1, <1>2, <1>4, TornAccount
<1>9. store.slot[cur] \in Atomic!Between(before.slot[cur], blob[cur])
  <2>1. store.slot[cur] \in [Key -> Val]
    BY <1>2 DEF Store
  <2>2. Atomic!AppliedSlot(before.slot[cur], blob[cur])
          = AppliedSlot(before.slot[cur], blob[cur])
    BY DEF AppliedSlot, Overwrite, Atomic!AppliedSlot, Atomic!Overwrite
  <2>3. \A k \in Key :
           store.slot[cur][k] \in {before.slot[cur][k],
                                   AppliedSlot(before.slot[cur], blob[cur])[k]}
               \cup IF blob[cur].created \/ blob[cur].deleted THEN {Zero} ELSE {}
    BY <1>1, TornAccount DEF NewSlot
  <2> QED
    BY <2>1, <2>2, <2>3 DEF Atomic!Between
<1>10. before.code \subseteq store.code /\ store.code \subseteq new.code
  <2>1. before.code \subseteq store.code /\ store.code \subseteq Hash
    BY <1>1, <1>2 DEF SafeInv, Store
  <2>2. Coded \subseteq DOMAIN journal
    BY <1>2 DEF Coded, Handled
  <2> QED
    BY <1>3, <1>4, <2>1, <2>2 DEF CodeKept
<1>11. Atomic!Applied(before, blob) = new
  BY SameWords DEF new
<1>12. Atomic!TornAt(cur)
  BY <1>1, <1>6, <1>7, <1>8, <1>9, <1>10, <1>11 DEF Atomic!TornAt
<1> QED
  BY <1>1, <1>2, <1>12 DEF Atomic!Tear

LEMMA StepAtomic ==
    InOrder /\ [Next]_vars => [Atomic!Next]_<<Visible, blob>>
<1> SUFFICES ASSUME InOrder, [Next]_vars PROVE [Atomic!Next]_<<Visible, blob>>
  OBVIOUS
<1>0. BlobInv /\ store \in Store
  BY DEF InOrder, BlobInv, SafeInv, TypeOK
<1>1. CASE Throw
  BY <1>1, ThrowTears DEF Atomic!Next
<1>2. CASE Finish
  <2>1. /\ phase = "next" /\ todo = {} /\ phase' = "done"
        /\ UNCHANGED <<store, blob, before>> /\ commits
    BY <1>0, <1>2 DEF Finish, BlobInv, Position, Committing, Between, InCall
  <2>2. Visible = before /\ Visible' = store
    BY <2>1 DEF Visible, Committing, Between, InCall
  <2>3. store = Applied(before, blob)
    BY <1>0, <2>1, DoneIsApplied
  <2> QED
    BY <2>1, <2>2, <2>3, SameWords DEF Atomic!Next, Atomic!Apply
<1>3. CASE Call
  <2>1. PICK clearing \in BOOLEAN, wants_commit \in BOOLEAN, D \in SUBSET Addr :
          \E j \in RevmState(store, D, clearing) : Execute(clearing, j, wants_commit)
    BY <1>3 DEF Call
  <2>2. phase = "idle" /\ before' = store /\ store' = store
    BY <2>1 DEF Execute
  <2>3. Visible' = Visible
    BY <2>2 DEF Visible, Committing, Between, InCall
  <2> QED
    BY <2>3 DEF Atomic!Next, Atomic!Report
<1>4. CASE Return \/ Recreate
  <2>1. phase \in {"done", "dead"} /\ phase' = "idle" /\ store' = store
    BY <1>4 DEF Return, Recreate, Forget
  <2>2. Visible' = Visible
    BY <2>1 DEF Visible, Committing, Between, InCall
  <2> QED
    BY <2>2 DEF Atomic!Next, Atomic!Report
<1>5. CASE \/ \E a \in todo : NextAccount(a)
           \/ DropStorage \/ RemoveAccount \/ ClearStorage \/ SetCode \/ SetAccount
           \/ \E k \in left : SetStorage(k)
  <2>1. phase \in Committing /\ phase' \in Committing /\ before' = before
    BY <1>5 DEF NextAccount, DropStorage, RemoveAccount, ClearStorage, SetCode, SetAccount,
                SetStorage, HostCall, FirstPhase, CodePhase, AfterSlots, Committing, Between,
                InCall
  <2>2. Visible' = Visible
    BY <2>1 DEF Visible
  <2> QED
    BY <2>2 DEF Atomic!Next, Atomic!Report
<1>6. CASE UNCHANGED vars
  BY <1>6 DEF vars, Visible
<1> QED
  BY <1>1, <1>2, <1>3, <1>4, <1>5, <1>6 DEF Next, Work

\* Whatever the transaction did and wherever a host function throws, a reader
\* between two calls finds the old state, the whole new one, or the new one up
\* to a single address and the old one after it.
THEOREM CommitIsAtomic == Spec => ImplementsAtomicState
<1>1. Init => Atomic!WellFormed(Visible)
  BY SameWords DEF Init, Visible, Committing, Between, InCall
<1> QED
  BY <1>1, StepAtomic, AlwaysInOrder, PTL DEF Spec, ImplementsAtomicState, Atomic!Spec
=============================================================================
