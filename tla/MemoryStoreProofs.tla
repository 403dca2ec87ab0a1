-------------------------- MODULE MemoryStoreProofs --------------------------
(***************************************************************************)
(* MemoryStore, behind its host functions, is the store the module expects *)
(* for any addresses, keys and words, and any width of a limb and a half.  *)
(***************************************************************************)
EXTENDS MemoryStore, TLAPS

-----------------------------------------------------------------------------
(* Digits.                                                                 *)

LEMMA Division ==
    ASSUME NEW n \in Nat, NEW L \in Nat \ {0}
    PROVE  n = L * (n \div L) + (n % L) /\ n % L \in 0..(L - 1) /\ n \div L \in Nat
<1>1. n = L * (n \div L) + (n % L) /\ n \div L \in Int /\ n % L \in 0..(L - 1)
  BY SMT
<1> DEFINE q == n \div L
           r == n % L
<1> HIDE DEF q, r
<1>2. n = L * q + r /\ q \in Int /\ r \in 0..(L - 1)
  BY <1>1 DEF q, r
<1>3. ASSUME q <= 0 - 1 PROVE FALSE
  <2>1. L * q <= L * (0 - 1) /\ L * (0 - 1) = 0 - L
    BY <1>2, <1>3, SMT
  <2> QED
    BY <1>2, <2>1, SMT
<1> QED
  BY <1>1, <1>2, <1>3 DEF q

LEMMA Quotient ==
    ASSUME NEW q \in Nat, NEW L \in Nat \ {0}, NEW r \in 0..(L - 1)
    PROVE  (L * q + r) \div L = q /\ (L * q + r) % L = r
  BY SMT

LEMMA QuotientBound ==
    ASSUME NEW n \in Nat, NEW L \in Nat \ {0}, NEW M \in Nat, n < L * M
    PROVE  n \div L < M
<1> DEFINE q == n \div L
<1>1. L * q < L * M /\ q \in Nat
  BY Division, SMT
<1> HIDE DEF q
<1>2. \A x, y, z \in Nat : x >= y => z * x >= z * y
  BY SMT
<1> QED
  BY <1>1, <1>2, SMT DEF q

\* To divide twice is to divide by the product.
LEMMA DivideTwice ==
    ASSUME NEW n \in Nat, NEW L \in Nat \ {0}, NEW M \in Nat \ {0}
    PROVE  n \div (L * M) = (n \div L) \div M
<1> DEFINE q == n \div L
           r == n % L
           q2 == q \div M
           r2 == q % M
<1>1. n = L * q + r /\ r \in 0..(L - 1) /\ q \in Nat
  BY Division
<1>2. q = M * q2 + r2 /\ r2 \in 0..(M - 1) /\ q2 \in Nat
  BY <1>1, Division
<1> HIDE DEF q, r, q2, r2
<1>3. L * q = (L * M) * q2 + L * r2
  <2>1. L * q = L * (M * q2) + L * r2
    BY <1>1, <1>2, SMT
  <2>2. L * (M * q2) = (L * M) * q2
    BY <1>2, SMT
  <2> QED
    BY <2>1, <2>2
<1>4. L * M \in Nat \ {0} /\ L * r2 \in Nat
  BY <1>2, SMT
<1>5. L * r2 + r \in 0..(L * M - 1)
  <2>1. L * r2 <= L * (M - 1) /\ L * (M - 1) = L * M - L
    BY <1>2, SMT
  <2> QED
    BY <1>1, <1>4, <2>1, SMT
<1>6. n = (L * M) * q2 + (L * r2 + r)
  BY <1>1, <1>2, <1>3, <1>4, SMT
<1>7. n \div (L * M) = q2
  BY <1>2, <1>4, <1>5, <1>6, Quotient
<1> QED
  BY <1>7 DEF q2, q

\* A balance by its limbs, and the balance they make.
LEMMA Limbs ==
    ASSUME NEW b \in 0..(Limb2 * Limb2 - 1)
    PROVE  LET q1 == b \div Limb
               q2 == q1 \div Limb
               q3 == q2 \div Limb
           IN /\ b \div Limb2 = q2 /\ b \div Limb3 = q3 /\ q3 % Limb = q3
              /\ b = ((q3 * Limb + (q2 % Limb)) * Limb + (q1 % Limb)) * Limb + (b % Limb)
              /\ b = q3 * Limb3 + (q2 % Limb) * Limb2 + (q1 % Limb) * Limb + (b % Limb)
<1> DEFINE L == Limb
           q1 == b \div L
           q2 == q1 \div L
           q3 == q2 \div L
           d4 == b % L
           d3 == q1 % L
           d2 == q2 % L
<1>1. L \in Nat \ {0} /\ L * L \in Nat \ {0} /\ L * (L * L) \in Nat
  BY WidthAssumption, SMT
<1>2. Limb2 = L * L /\ Limb3 = (L * L) * L /\ Limb2 * Limb2 = L * (L * (L * L))
  BY <1>1, SMT DEF Limb2, Limb3
<1>3. b \in Nat /\ b < L * (L * (L * L))
  <2>1. b \in 0..(L * (L * (L * L)) - 1) /\ L * (L * (L * L)) \in Int
    BY <1>1, <1>2
  <2> QED
    BY <2>1
<1> HIDE DEF L
<1>4. /\ b = L * q1 + d4 /\ d4 \in 0..(L - 1) /\ q1 \in Nat
      /\ q1 = L * q2 + d3 /\ d3 \in 0..(L - 1) /\ q2 \in Nat
      /\ q2 = L * q3 + d2 /\ d2 \in 0..(L - 1) /\ q3 \in Nat
  BY <1>1, <1>3, Division
<1>5. q3 < L
  <2>1. q1 < L * (L * L)
    BY <1>1, <1>3, QuotientBound
  <2>2. q2 < L * L
    BY <1>1, <1>4, <2>1, QuotientBound
  <2> QED
    BY <1>1, <1>4, <2>2, QuotientBound
<1>6. q3 % L = q3
  BY <1>1, <1>4, <1>5, SMT
<1>7. b \div (L * L) = q2 /\ b \div ((L * L) * L) = q3
  <2>1. b \div (L * L) = q2
    BY <1>1, <1>3, DivideTwice
  <2>2. b \div ((L * L) * L) = (b \div (L * L)) \div L
    BY <1>1, <1>3, DivideTwice
  <2> QED
    BY <2>1, <2>2
<1> HIDE DEF q1, q2, q3, d4, d3, d2
<1>8. b = ((q3 * L + d2) * L + d3) * L + d4
  <2>1. q2 = q3 * L + d2 /\ q1 = q2 * L + d3 /\ b = q1 * L + d4
    BY <1>1, <1>4, SMT
  <2> QED
    BY <2>1
<1>9. ((q3 * L + d2) * L + d3) * L + d4 = q3 * ((L * L) * L) + d2 * (L * L) + d3 * L + d4
  <2>1. \A x, y, z \in Nat : (x + y) * z = x * z + y * z /\ (x * y) * z = x * (y * z)
    BY SMT
  <2>2. d2 \in Nat /\ d3 \in Nat /\ d4 \in Nat /\ L \in Nat /\ q3 * L \in Nat
    BY <1>1, <1>4, SMT
  <2>3. (q3 * L + d2) * L = q3 * (L * L) + d2 * L
    BY <1>4, <2>1, <2>2
  <2>4. (q3 * (L * L) + d2 * L) * L = q3 * ((L * L) * L) + d2 * (L * L)
    <3>1. q3 * (L * L) \in Nat /\ d2 * L \in Nat /\ L * L \in Nat
      BY <1>1, <1>4, <2>2, SMT
    <3>2. (q3 * (L * L) + d2 * L) * L = (q3 * (L * L)) * L + (d2 * L) * L
      BY <2>1, <2>2, <3>1
    <3>3. (q3 * (L * L)) * L = q3 * ((L * L) * L) /\ (d2 * L) * L = d2 * (L * L)
      BY <1>4, <2>1, <2>2, <3>1
    <3> QED
      BY <3>2, <3>3
  <2>5. q3 * (L * L) + d2 * L \in Nat
    BY <1>1, <1>4, <2>2, SMT
  <2>6. ((q3 * L + d2) * L + d3) * L = (q3 * (L * L) + d2 * L) * L + d3 * L
    BY <2>1, <2>2, <2>3, <2>5
  <2> QED
    BY <2>4, <2>6
<1> QED
  BY <1>2, <1>6, <1>7, <1>8, <1>9 DEF L, q1, q2, q3, d4, d3, d2

LEMMA InfoShape ==
    ASSUME NEW info \in Info
    PROVE  /\ info.purse.balance \in 0..(Limb2 * Limb2 - 1)
           /\ info.purse.nonce \in 0..(Limb - 1)
           /\ info = [purse |-> [balance |-> info.purse.balance, nonce |-> info.purse.nonce],
                      hash |-> info.hash]
<1>1. /\ info \in [purse : Purse, hash : Hash \cup {EmptyHash}]
      /\ info.purse \in [balance : 0..(Limb2 * Limb2 - 1), nonce : 0..(Limb - 1)]
  BY PurseAssumption DEF Info
<1> QED
  BY <1>1

\* An account as the store is given it, and as it is read back.
LEMMA AccountThere ==
    ASSUME NEW info \in Info
    PROVE  accountState(packed_info(info))
             = [balance |-> info.purse.balance, nonce |-> info.purse.nonce,
                codeHash |-> info.hash]
<1> DEFINE b == info.purse.balance
           p == packed_info(info)
<1>1. /\ p.limbs[1] = (b \div Limb3) % Limb /\ p.limbs[2] = (b \div Limb2) % Limb
      /\ p.limbs[3] = (b \div Limb) % Limb /\ p.limbs[4] = b % Limb
      /\ p.nonce = info.purse.nonce /\ p.hash = info.hash
  BY DEF packed_info
<1>2. b \in 0..(Limb2 * Limb2 - 1)
  BY InfoShape
<1> HIDE DEF b, p
<1>3. p.limbs[1] * Limb3 + p.limbs[2] * Limb2 + p.limbs[3] * Limb + p.limbs[4] = b
  BY <1>1, <1>2, Limbs
<1> QED
  BY <1>1, <1>3 DEF accountState, p, b

LEMMA AccountBack ==
    ASSUME NEW info \in Info
    PROVE  unpacked_info(packed(accountState(packed_info(info)))) = info
<1> DEFINE b == info.purse.balance
           p == packed(accountState(packed_info(info)))
           q1 == b \div Limb
           q2 == q1 \div Limb
<1>1. /\ p.limbs[1] = (q2 \div Limb) % Limb /\ p.limbs[2] = q2 % Limb
      /\ p.limbs[3] = q1 % Limb /\ p.limbs[4] = b % Limb
      /\ p.nonce = info.purse.nonce % Limb /\ p.hash = info.hash
  BY AccountThere DEF packed
<1>2. b \in 0..(Limb2 * Limb2 - 1) /\ info.purse.nonce \in 0..(Limb - 1)
  BY InfoShape
<1>3. info.purse.nonce % Limb = info.purse.nonce
  BY <1>2, WidthAssumption, SMT
<1>4. ((p.limbs[1] * Limb + p.limbs[2]) * Limb + p.limbs[3]) * Limb + p.limbs[4] = b
  <2> HIDE DEF b, p
  <2> QED
    BY <1>1, <1>2, Limbs
<1> HIDE DEF p
<1>5. unpacked_info(p) = [purse |-> [balance |-> b, nonce |-> info.purse.nonce],
                          hash |-> info.hash]
  BY <1>1, <1>3, <1>4 DEF unpacked_info
<1> QED
  BY <1>5, InfoShape DEF p

\* A block number crosses as two signed halves and arrives as it was.
LEMMA NumberArrives ==
    ASSUME NEW n \in Block
    PROVE  blockNumber(halves(n)) = n
<1> DEFINE H == Half
           q == n \div H
           r == n % H
<1>1. H \in Nat \ {0} /\ n \in 0..(H * H - 1)
  BY WidthAssumption
<1>2. n \in Nat /\ n < H * H
  <2>1. H * H \in Nat
    BY <1>1, SMT
  <2> QED
    BY <1>1, <2>1
<1> HIDE DEF H
<1>3. n = H * q + r /\ r \in 0..(H - 1) /\ q \in Nat
  BY <1>1, <1>2, Division
<1>4. q < H
  BY <1>1, <1>2, QuotientBound
<1> HIDE DEF q, r
<1>5. q % H = q
  BY <1>1, <1>3, <1>4, SMT
<1>6. ASSUME NEW w \in 0..(H - 1)
      PROVE  (IF 2 * w >= H THEN w - H ELSE w) % H = w
  <2>1. (w - H) % H = w
    BY <1>1, SMT
  <2>2. w % H = w
    BY <1>1, SMT
  <2> QED
    BY <2>1, <2>2
<1>7. unsigned(signed(r)) = r /\ unsigned(signed(q)) = q
  BY <1>1, <1>3, <1>4, <1>6 DEF unsigned, signed, H
<1>8. halves(n) = [lo |-> signed(r), hi |-> signed(q % H)]
  BY DEF halves, r, q, H
<1>9. blockNumber(halves(n)) = q * H + r
  BY <1>5, <1>7, <1>8 DEF blockNumber, H
<1> QED
  BY <1>1, <1>3, <1>9, SMT

-----------------------------------------------------------------------------
\* Whatever is written in whatever order, a slot is never held with a zero: not
\* written anew, not written over, not left by a cleared account.
THEOREM ZeroNeverHeld == Spec => []ZeroIsAbsence
<1>1. Init => ZeroIsAbsence
  BY DEF Init, emptyMap, ZeroIsAbsence
<1>2. ZeroIsAbsence /\ [Next]_vars => ZeroIsAbsence'
  <2> SUFFICES ASSUME ZeroIsAbsence, [Next]_vars PROVE ZeroIsAbsence'
    OBVIOUS
  <2>1. ASSUME NEW a \in Addr, NEW k \in Key, NEW v \in Val, setStorage(a, k, v)
        PROVE  ZeroIsAbsence'
    <3>1. slots' = Stored(a, k, v)
      BY <2>1 DEF setStorage
    <3>2. \A x \in DOMAIN MapOf(a) : MapOf(a)[x] # Zero
      BY DEF MapOf, emptyMap, ZeroIsAbsence
    <3>3. CASE v # Zero
      <4>1. slots' = Put(slots, a, Put(MapOf(a), k, v))
        BY <3>1, <3>3 DEF Stored
      <4>2. \A x \in DOMAIN Put(MapOf(a), k, v) : Put(MapOf(a), k, v)[x] # Zero
        BY <3>2, <3>3 DEF Put
      <4> QED
        BY <4>1, <4>2 DEF Put, ZeroIsAbsence
    <3>4. CASE v = Zero /\ a \in DOMAIN slots
      <4>1. slots' = Put(slots, a, Delete(slots[a], k))
        BY <3>1, <3>4 DEF Stored
      <4>2. \A x \in DOMAIN Delete(slots[a], k) : Delete(slots[a], k)[x] # Zero
        BY <3>4 DEF Delete, Restrict, ZeroIsAbsence
      <4> QED
        BY <4>1, <4>2 DEF Put, ZeroIsAbsence
    <3>5. CASE v = Zero /\ a \notin DOMAIN slots
      BY <3>1, <3>5 DEF Stored, ZeroIsAbsence
    <3> QED
      BY <3>3, <3>4, <3>5
  <2>2. ASSUME NEW a \in Addr, clearStorage(a) PROVE ZeroIsAbsence'
    BY <2>2 DEF clearStorage, Delete, Restrict, ZeroIsAbsence
  <2>3. CASE UNCHANGED slots
    BY <2>3 DEF ZeroIsAbsence
  <2> QED
    BY <2>1, <2>2, <2>3
       DEF Next, vars, setAccount, setCode, removeAccount, getBlockHash
<1> QED
  BY <1>1, <1>2, PTL DEF Spec

-----------------------------------------------------------------------------
(* The refinement.                                                         *)

readAccounts == [a \in Addr |-> getAccount(a)]
readSlots == [a \in Addr |-> [k \in Key |-> getStorage(a, k)]]
abstract == [acct |-> readAccounts, code |-> code, slot |-> readSlots]

LEMMA Updates ==
    ASSUME NEW A, NEW C, NEW S, NEW s, s = [acct |-> A, code |-> C, slot |-> S],
           NEW a, NEW x, NEW k
    PROVE  /\ [s EXCEPT !.acct[a] = x] = [acct |-> [A EXCEPT ![a] = x], code |-> C, slot |-> S]
           /\ [s EXCEPT !.code = @ \cup {x}] = [acct |-> A, code |-> C \cup {x}, slot |-> S]
           /\ [s EXCEPT !.slot[a] = x] = [acct |-> A, code |-> C, slot |-> [S EXCEPT ![a] = x]]
           /\ [s EXCEPT !.slot[a][k] = x]
                = [acct |-> A, code |-> C, slot |-> [S EXCEPT ![a][k] = x]]
<1>1. [s EXCEPT !.acct[a] = x] = [acct |-> [A EXCEPT ![a] = x], code |-> C, slot |-> S]
  OBVIOUS
<1>2. [s EXCEPT !.code = @ \cup {x}] = [acct |-> A, code |-> C \cup {x}, slot |-> S]
  OBVIOUS
<1>3. [s EXCEPT !.slot[a] = x] = [acct |-> A, code |-> C, slot |-> [S EXCEPT ![a] = x]]
  OBVIOUS
<1>4. [s EXCEPT !.slot[a][k] = x]
        = [acct |-> A, code |-> C, slot |-> [S EXCEPT ![a][k] = x]]
  OBVIOUS
<1> QED
  BY <1>1, <1>2, <1>3, <1>4

\* The map a write leaves holds, for the reader, the word that was written.
LEMMA StoredReads ==
    ASSUME NEW a, NEW k, NEW v, slots' = Stored(a, k, v), NEW b, NEW x
    PROVE  getStorage(b, x)' = IF b = a /\ x = k THEN v ELSE getStorage(b, x)
<1>1. MapOf(a) = IF a \in DOMAIN slots THEN slots[a] ELSE emptyMap
  BY DEF MapOf
<1>2. CASE v # Zero
  <2>1. slots' = Put(slots, a, Put(MapOf(a), k, v))
    BY <1>2 DEF Stored
  <2>2. CASE b = a
    <3>1. a \in DOMAIN slots' /\ slots'[a] = Put(MapOf(a), k, v)
      BY <2>1 DEF Put
    <3>2. /\ x \in DOMAIN Put(MapOf(a), k, v) <=> (x = k \/ x \in DOMAIN MapOf(a))
          /\ x = k => Put(MapOf(a), k, v)[x] = v
          /\ x # k /\ x \in DOMAIN MapOf(a) => Put(MapOf(a), k, v)[x] = MapOf(a)[x]
      BY DEF Put
    <3>3. DOMAIN emptyMap = {}
      BY DEF emptyMap
    <3> QED
      BY <1>1, <2>2, <3>1, <3>2, <3>3 DEF getStorage
  <2>3. CASE b # a
    BY <2>1, <2>3 DEF Put, getStorage
  <2> QED
    BY <2>2, <2>3
<1>3. CASE v = Zero /\ a \in DOMAIN slots
  <2>1. slots' = Put(slots, a, Delete(slots[a], k))
    BY <1>3 DEF Stored
  <2>2. CASE b = a
    <3>1. a \in DOMAIN slots' /\ slots'[a] = Delete(slots[a], k)
      BY <2>1 DEF Put
    <3> QED
      BY <1>3, <2>2, <3>1 DEF getStorage, Delete, Restrict
  <2>3. CASE b # a
    BY <2>1, <2>3 DEF Put, getStorage
  <2> QED
    BY <2>2, <2>3
<1>4. CASE v = Zero /\ a \notin DOMAIN slots
  BY <1>4 DEF Stored, getStorage
<1> QED
  BY <1>2, <1>3, <1>4

\* Each write does through the reads what the same write of the expected store
\* does, and reads of anything else are not disturbed.
THEOREM StoreImplemented == Spec => ImplementsStore
<1>1. Init => Abstract!Init
  BY DEF Init, emptyMap, getAccount, getStorage, Abstract!Init
<1>2. [Next]_vars => [Abstract!Next]_<<abstract, call>>
  <2> SUFFICES ASSUME [Next]_vars PROVE [Abstract!Next]_<<abstract, call>>
    OBVIOUS
  <2>1. ASSUME NEW a \in Addr, NEW info \in Info, setAccount(a, info)
        PROVE  Abstract!Next
    <3>1. /\ call' = <<"setAccount", a, info>>
          /\ accounts' = Put(accounts, a, accountState(packed_info(info)))
          /\ UNCHANGED <<code, slots>>
      BY <2>1 DEF setAccount
    <3>2. \A b \in Addr : getAccount(b)' = IF b = a THEN info ELSE getAccount(b)
      BY <3>1, AccountBack DEF getAccount, Put
    <3>3. abstract' = [abstract EXCEPT !.acct[a] = info]
      <4>1. [readAccounts EXCEPT ![a] = info] = readAccounts'
        BY <3>2 DEF readAccounts
      <4>2. [abstract EXCEPT !.acct[a] = info]
              = [acct |-> [readAccounts EXCEPT ![a] = info], code |-> code,
                 slot |-> readSlots]
        BY Updates DEF abstract
      <4> QED
        BY <3>1, <4>1, <4>2 DEF abstract, readSlots, getStorage
    <3> QED
      BY <3>1, <3>3 DEF Abstract!Next, Abstract!set_account, Abstract!Info, Info, abstract, readAccounts, readSlots
  <2>2. ASSUME NEW h \in Hash, setCode(h) PROVE Abstract!Next
    <3>1. /\ call' = <<"setCode", h>> /\ code' = code \cup {h}
          /\ UNCHANGED <<accounts, slots>>
      BY <2>2 DEF setCode
    <3>2. abstract' = [abstract EXCEPT !.code = @ \cup {h}]
      <4>1. [abstract EXCEPT !.code = @ \cup {h}]
              = [acct |-> readAccounts, code |-> code \cup {h},
                 slot |-> readSlots]
        BY Updates DEF abstract
      <4> QED
        BY <3>1, <4>1 DEF abstract, readAccounts, readSlots, getStorage, getAccount
    <3> QED
      BY <3>1, <3>2 DEF Abstract!Next, Abstract!set_code, abstract, readAccounts, readSlots
  <2>3. ASSUME NEW a \in Addr, NEW k \in Key, NEW v \in Val, setStorage(a, k, v)
        PROVE  Abstract!Next
    <3>1. /\ call' = <<"setStorage", a, k, v>> /\ slots' = Stored(a, k, v)
          /\ UNCHANGED <<accounts, code>>
      BY <2>3 DEF setStorage
    <3>2. \A b \in Addr, x \in Key :
            getStorage(b, x)' = IF b = a /\ x = k THEN v ELSE getStorage(b, x)
      BY <3>1, StoredReads
    <3>3. abstract' = [abstract EXCEPT !.slot[a][k] = v]
      <4> DEFINE S == [b \in Addr |-> [x \in Key |-> getStorage(b, x)]]
                 T == [b \in Addr |-> [x \in Key |-> getStorage(b, x)']]
      <4>1. ASSUME NEW b \in Addr PROVE T[b] = [S EXCEPT ![a][k] = v][b]
        <5>1. CASE b = a
          <6>1. [S EXCEPT ![a][k] = v][a] = [[x \in Key |-> getStorage(a, x)] EXCEPT ![k] = v]
            OBVIOUS
          <6>2. [x \in Key |-> getStorage(a, x)']
                  = [[x \in Key |-> getStorage(a, x)] EXCEPT ![k] = v]
            BY <3>2
          <6> QED
            BY <5>1, <6>1, <6>2
        <5>2. CASE b # a
          <6>1. [x \in Key |-> getStorage(b, x)'] = [x \in Key |-> getStorage(b, x)]
            BY <3>2, <5>2
          <6> QED
            BY <5>2, <6>1
        <5> QED
          BY <5>1, <5>2
      <4>2. readSlots' = [readSlots EXCEPT ![a][k] = v]
        BY <4>1 DEF readSlots
      <4>3. [abstract EXCEPT !.slot[a][k] = v]
              = [acct |-> readAccounts, code |-> code,
                 slot |-> [readSlots EXCEPT ![a][k] = v]]
        BY Updates DEF abstract
      <4> QED
        BY <3>1, <4>2, <4>3 DEF abstract, readAccounts, getAccount
    <3>4. abstract' = Abstract!set_storage(abstract, a, k, v)
      BY <3>3 DEF Abstract!set_storage
    <3> QED
      BY <3>1, <3>4 DEF Abstract!Next, abstract, readAccounts, readSlots
  <2>4. ASSUME NEW a \in Addr, clearStorage(a) PROVE Abstract!Next
    <3>1. /\ call' = <<"clearStorage", a>> /\ slots' = Delete(slots, a)
          /\ UNCHANGED <<accounts, code>>
      BY <2>4 DEF clearStorage
    <3>2. \A b \in Addr, x \in Key :
            getStorage(b, x)' = IF b = a THEN Zero ELSE getStorage(b, x)
      BY <3>1 DEF getStorage, Delete, Restrict
    <3>3. abstract' = [abstract EXCEPT !.slot[a] = [k \in Key |-> Zero]]
      <4>1. [readSlots EXCEPT ![a] = [k \in Key |-> Zero]] = readSlots'
        BY <3>2 DEF readSlots
      <4>2. [abstract EXCEPT !.slot[a] = [k \in Key |-> Zero]]
              = [acct |-> readAccounts, code |-> code,
                 slot |-> [readSlots EXCEPT ![a] = [k \in Key |-> Zero]]]
        BY Updates DEF abstract
      <4> QED
        BY <3>1, <4>1, <4>2 DEF abstract, readAccounts, getAccount
    <3> QED
      BY <3>1, <3>3 DEF Abstract!Next, Abstract!clear_storage, abstract, readAccounts, readSlots
  <2>5. ASSUME NEW a \in Addr, removeAccount(a) PROVE Abstract!Next
    <3>1. /\ call' = <<"removeAccount", a>> /\ accounts' = Delete(accounts, a)
          /\ UNCHANGED <<code, slots>>
      BY <2>5 DEF removeAccount
    <3>2. \A b \in Addr : getAccount(b)' = IF b = a THEN Absent ELSE getAccount(b)
      BY <3>1 DEF getAccount, Delete, Restrict
    <3>3. abstract' = [abstract EXCEPT !.acct[a] = Absent]
      <4>1. [readAccounts EXCEPT ![a] = Absent] = readAccounts'
        BY <3>2 DEF readAccounts
      <4>2. [abstract EXCEPT !.acct[a] = Absent]
              = [acct |-> [readAccounts EXCEPT ![a] = Absent], code |-> code,
                 slot |-> readSlots]
        BY Updates DEF abstract
      <4> QED
        BY <3>1, <4>1, <4>2 DEF abstract, readSlots, getStorage
    <3> QED
      BY <3>1, <3>3 DEF Abstract!Next, Abstract!remove_account, abstract, readAccounts, readSlots
  <2>6. ASSUME NEW n \in Block, getBlockHash(n) PROVE Abstract!Next
    <3>1. call' = <<"getBlockHash", n>> /\ UNCHANGED <<accounts, code, slots>>
      BY <2>6, NumberArrives DEF getBlockHash
    <3>2. abstract' = abstract
      BY <3>1 DEF abstract, readAccounts, readSlots, getAccount, getStorage
    <3> QED
      BY <3>1, <3>2 DEF Abstract!Next, abstract, readAccounts, readSlots
  <2>7. CASE UNCHANGED vars
    BY <2>7 DEF vars, abstract, readAccounts, readSlots, getAccount, getStorage
  <2> QED
    BY <2>1, <2>2, <2>3, <2>4, <2>5, <2>6, <2>7 DEF Next
<1> QED
  BY <1>1, <1>2, PTL DEF Spec, ImplementsStore, Abstract!Spec, abstract, readAccounts, readSlots
=============================================================================
