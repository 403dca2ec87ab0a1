------------------------- MODULE RequestBoundsProofs -------------------------
(***************************************************************************)
(* What holds of the decoder of requests for any width of a usize and any  *)
(* blob, and of the encoder for any calldata and lists it can hold.        *)
(***************************************************************************)
EXTENDS RequestBounds, FiniteSetTheorems, WellFoundedInduction, TLAPS

-----------------------------------------------------------------------------
(* Induction, by the least number for which something fails.               *)

LessThan == {ss \in Nat \X Nat : ss[1] < ss[2]}

\* Of any numbers there is a least.
LEMMA LeastNat ==
    ASSUME NEW T \in SUBSET Nat, T # {}
    PROVE  \E m \in T : \A n \in T : m <= n
<1>0. IsWellFoundedOn(LessThan, Nat)
  BY ONLY NatLessThanWellFounded DEF OpToRel, LessThan
<1>1. PICK m \in T : \A n \in T : ~ (<<n, m>> \in LessThan)
  BY <1>0, WFMin
<1>2. \A n \in T : m <= n
  <2> TAKE n \in T
  <2>1. m \in Nat /\ n \in Nat
    OBVIOUS
  <2>2. ~ (n < m)
    BY <1>1, <2>1 DEF LessThan
  <2> QED
    BY <2>1, <2>2
<1> QED
  BY <1>1, <1>2

\* A set of numbers with 0 in it and the successor of each of its members is all.
LEMMA AllNat ==
    ASSUME NEW T, 0 \in T, \A n \in Nat : n \in T => n + 1 \in T
    PROVE  Nat \subseteq T
<1> SUFFICES ASSUME Nat \ T # {} PROVE FALSE
  OBVIOUS
<1>1. PICK m \in Nat \ T : \A n \in Nat \ T : m <= n
  BY LeastNat
<1>2. m # 0 /\ m - 1 \in Nat
  BY <1>1
<1>3. m - 1 \in T
  BY <1>1, <1>2
<1> QED
  BY <1>2, <1>3

-----------------------------------------------------------------------------
(* Sums, as the fold of the community modules takes them: one index after  *)
(* the other, in an order that is chosen.                                  *)

AnyOf(T) == CHOOSE x \in T : TRUE
SumStep(f, g, T) == IF T = {} THEN 0 ELSE f[AnyOf(T)] + g[T \ {AnyOf(T)}]
Sums(f) == CHOOSE g : g = [T \in SUBSET DOMAIN f |-> SumStep(f, g, T)]
Upto(D, n) == {T \in SUBSET D : Cardinality(T) <= n}

\* A finite set is smaller by one without one of its members.
LEMMA LessAny ==
    ASSUME NEW T, IsFiniteSet(T), NEW x \in T
    PROVE  /\ IsFiniteSet(T \ {x}) /\ Cardinality(T) \in Nat
           /\ Cardinality(T \ {x}) = Cardinality(T) - 1
           /\ Cardinality(T) # 0 /\ Cardinality(T \ {x}) \in Nat
  BY FS_RemoveElement, FS_CardinalityType, FS_EmptySet

\* The fold is defined on every set of indices of a function that has finitely many.
LEMMA SumsDefined ==
    ASSUME NEW f, IsFiniteSet(DOMAIN f)
    PROVE  Sums(f) = [T \in SUBSET DOMAIN f |-> SumStep(f, Sums(f), T)]
<1> DEFINE D == DOMAIN f
           Ok(g, n) == g = [T \in Upto(D, n) |-> SumStep(f, g, T)]
           Good == {n \in Nat : \E g : Ok(g, n)}
<1>0. \A T \in SUBSET D : IsFiniteSet(T) /\ Cardinality(T) \in Nat
  BY FS_Subset, FS_CardinalityType
<1>1. 0 \in Good
  <2> DEFINE g == [T \in Upto(D, 0) |-> 0]
  <2>1. ASSUME NEW T \in Upto(D, 0) PROVE T = {}
    BY <1>0, FS_EmptySet DEF Upto
  <2>2. [T \in Upto(D, 0) |-> SumStep(f, g, T)] = g
    BY <2>1 DEF SumStep
  <2> QED
    BY <2>2
<1>2. ASSUME NEW n \in Nat, n \in Good PROVE n + 1 \in Good
  <2>1. PICK g : Ok(g, n)
    BY <1>2
  <2> DEFINE h == [T \in Upto(D, n + 1) |-> SumStep(f, g, T)]
  <2>2. ASSUME NEW T \in Upto(D, n) PROVE T \in Upto(D, n + 1) /\ h[T] = g[T]
    <3>1. T \in Upto(D, n + 1)
      BY <1>0 DEF Upto
    <3>2. g[T] = SumStep(f, g, T)
      BY <2>1
    <3> QED
      BY <3>1, <3>2
  <2>3. ASSUME NEW T \in Upto(D, n + 1) PROVE SumStep(f, g, T) = SumStep(f, h, T)
    <3>1. CASE T = {}
      BY <3>1 DEF SumStep
    <3>2. CASE T # {}
      <4>1. AnyOf(T) \in T
        BY <3>2 DEF AnyOf
      <4>2. T \ {AnyOf(T)} \in Upto(D, n)
        BY <1>0, <4>1, LessAny DEF Upto
      <4>3. h[T \ {AnyOf(T)}] = g[T \ {AnyOf(T)}]
        BY <2>2, <4>2
      <4> HIDE DEF h
      <4> QED
        BY <4>3 DEF SumStep
    <3> QED
      BY <3>1, <3>2
  <2>4. h = [T \in Upto(D, n + 1) |-> SumStep(f, h, T)]
    <3> DEFINE k == [T \in Upto(D, n + 1) |-> SumStep(f, h, T)]
    <3>1. \A T \in Upto(D, n + 1) : h[T] = k[T]
      BY <2>3
    <3> QED
      BY <3>1
  <2> HIDE DEF h
  <2> QED
    BY <2>4
<1> HIDE DEF Good
<1>3. Nat \subseteq Good
  BY <1>1, <1>2, AllNat
<1>4. Cardinality(D) \in Good
  BY <1>0, <1>3
<1>5. PICK g : Ok(g, Cardinality(D))
  BY <1>4 DEF Good
<1>6. Upto(D, Cardinality(D)) = SUBSET D
  BY FS_Subset, <1>0 DEF Upto
<1>7. g = [T \in SUBSET D |-> SumStep(f, g, T)]
  BY <1>5, <1>6
<1> HIDE DEF Ok
<1> QED
  BY <1>7 DEF Sums

\* Sums of numbers are numbers, and any of them may be taken first.
Takes(f, U) == /\ Sums(f)[U] \in Nat
               /\ \A x \in U : Sums(f)[U] = f[x] + Sums(f)[U \ {x}]

LEMMA SumsTake ==
    ASSUME NEW f, IsFiniteSet(DOMAIN f), \A a \in DOMAIN f : f[a] \in Nat,
           NEW T \in SUBSET DOMAIN f
    PROVE  Takes(f, T)
<1> DEFINE D == DOMAIN f
           Good == {n \in Nat : \A U \in SUBSET D : Cardinality(U) <= n => Takes(f, U)}
<1>0. \A U \in SUBSET D : IsFiniteSet(U) /\ Cardinality(U) \in Nat
  BY FS_Subset, FS_CardinalityType
<1>1. \A U \in SUBSET D : Sums(f)[U] = SumStep(f, Sums(f), U)
  BY SumsDefined
<1>2. Takes(f, {})
  <2>1. {} \in SUBSET D
    OBVIOUS
  <2>2. Sums(f)[{}] = 0
    BY <1>1, <2>1, Zenon DEF SumStep
  <2> QED
    BY <2>2 DEF Takes
<1>3. 0 \in Good
  <2> SUFFICES ASSUME NEW U \in SUBSET D, Cardinality(U) <= 0 PROVE U = {}
    BY <1>2
  <2> QED
    BY <1>0, FS_EmptySet
<1>4. ASSUME NEW n \in Nat, n \in Good PROVE n + 1 \in Good
  <2> SUFFICES ASSUME NEW U \in SUBSET D, Cardinality(U) <= n + 1, U # {} PROVE Takes(f, U)
    BY <1>2
  <2> DEFINE c == AnyOf(U)
  <2>1. c \in U
    BY DEF AnyOf
  <2>2. Sums(f)[U] = f[c] + Sums(f)[U \ {c}]
    BY <1>1 DEF SumStep
  <2> HIDE DEF c
  <2>3. ASSUME NEW x \in U
        PROVE  /\ Takes(f, U \ {x})
               /\ \A y \in U \ {x} : Takes(f, (U \ {x}) \ {y})
    <3>1. /\ IsFiniteSet(U \ {x}) /\ U \ {x} \in SUBSET D
          /\ Cardinality(U \ {x}) \in Nat /\ Cardinality(U \ {x}) <= n
      BY <1>0, LessAny
    <3>2. ASSUME NEW y \in U \ {x}
          PROVE  (U \ {x}) \ {y} \in SUBSET D /\ Cardinality((U \ {x}) \ {y}) <= n
      <4>1. /\ Cardinality((U \ {x}) \ {y}) = Cardinality(U \ {x}) - 1
            /\ Cardinality((U \ {x}) \ {y}) \in Nat
        BY <3>1, LessAny
      <4> QED
        BY <3>1, <4>1
    <3> QED
      BY <1>4, <3>1, <3>2
  <2>4. f[c] \in Nat /\ Sums(f)[U \ {c}] \in Nat
    BY <2>1, <2>3 DEF Takes
  <2>5. ASSUME NEW x \in U, x # c PROVE Sums(f)[U] = f[x] + Sums(f)[U \ {x}]
    <3> DEFINE W == (U \ {c}) \ {x}
    <3>1. W = (U \ {x}) \ {c} /\ x \in U \ {c} /\ c \in U \ {x}
      BY <2>1, <2>5
    <3>2. Sums(f)[U \ {c}] = f[x] + Sums(f)[W] /\ Sums(f)[W] \in Nat
      BY <2>1, <2>3, <3>1 DEF Takes
    <3>3. Sums(f)[U \ {x}] = f[c] + Sums(f)[W]
      BY <2>3, <3>1 DEF Takes
    <3>4. f[x] \in Nat
      OBVIOUS
    <3> HIDE DEF W
    <3> QED
      BY <2>2, <2>4, <3>2, <3>3, <3>4
  <2>6. Sums(f)[U] \in Nat
    BY <2>2, <2>4
  <2> QED
    BY <2>2, <2>5, <2>6 DEF Takes
<1> HIDE DEF Good
<1>5. Nat \subseteq Good
  BY <1>3, <1>4, AllNat
<1>6. Cardinality(T) \in Good
  BY <1>0, <1>5
<1> QED
  BY <1>0, <1>6 DEF Good

\* What a list adds up to from place i on.
Rest(list, i) == Sums(list)[i..Len(list)]

LEMMA TotalIsRest == ASSUME NEW list \in Seq(Nat) PROVE Total(list) = Rest(list, 1)
<1>1. DOMAIN list = 1..Len(list)
  OBVIOUS
<1>2. Total(list) = Sums(list)[DOMAIN list]
  BY DEF Total, FoldSeq, FoldFunction, FoldFunctionOnSet, MapThenFoldSet, Sums, SumStep, AnyOf
<1> QED
  BY <1>1, <1>2 DEF Rest

LEMMA RestTakes ==
    ASSUME NEW list \in Seq(Nat), NEW i \in 1..Len(list) + 1
    PROVE  /\ Rest(list, i) \in Nat
           /\ i = Len(list) + 1 => Rest(list, i) = 0
           /\ i # Len(list) + 1 => /\ Rest(list, i) = list[i] + Rest(list, i + 1)
                                   /\ Rest(list, i + 1) \in Nat
<1>1. /\ DOMAIN list = 1..Len(list) /\ Len(list) \in Nat
      /\ \A a \in DOMAIN list : list[a] \in Nat
  OBVIOUS
<1>2. IsFiniteSet(DOMAIN list)
  BY <1>1, FS_Interval
<1>3. \A U \in SUBSET DOMAIN list : Takes(list, U)
  BY <1>1, <1>2, SumsTake
<1>4. Rest(list, i) \in Nat
  <2>1. i..Len(list) \in SUBSET DOMAIN list
    BY <1>1
  <2> QED
    BY <1>3, <2>1 DEF Takes, Rest
<1>5. CASE i = Len(list) + 1
  <2>1. i..Len(list) = {} /\ {} \in SUBSET DOMAIN list
    BY <1>1, <1>5
  <2>2. Sums(list)[{}] = SumStep(list, Sums(list), {})
    BY <1>2, <2>1, SumsDefined
  <2> QED
    BY <1>4, <1>5, <2>1, <2>2 DEF SumStep, Rest
<1>6. CASE i # Len(list) + 1
  <2>1. /\ i \in i..Len(list) /\ i..Len(list) \in SUBSET DOMAIN list
        /\ (i..Len(list)) \ {i} = i + 1..Len(list)
        /\ i + 1..Len(list) \in SUBSET DOMAIN list
    BY <1>1, <1>6
  <2> QED
    BY <1>3, <1>4, <1>6, <2>1 DEF Takes, Rest
<1> QED
  BY <1>4, <1>5, <1>6

\* The size of the extras by what they hold.
SizeOf(entries, keys, blobs, auths, with_randao) ==
    76 + 4 + 24 * entries + 32 * keys + 4 + 32 * blobs + 4 + 125 * auths
      + IF with_randao THEN 32 ELSE 0

LEMMA SizeOfType ==
    ASSUME NEW entries \in Nat, NEW keys \in Nat, NEW blobs \in Nat, NEW auths \in Nat
    PROVE  \A r \in BOOLEAN :
              /\ SizeOf(entries, keys, blobs, auths, r) \in Nat
              /\ SizeOf(entries, keys, blobs, auths, r) <= SizeOf(entries, keys, blobs, auths, TRUE)
  BY DEF SizeOf

LEMMA SizeType ==
    ASSUME NEW list \in Lists, NEW blobs \in Few, NEW auths \in Few, NEW r \in BOOLEAN
    PROVE  /\ list \in Seq(Nat) /\ Len(list) \in Nat /\ blobs \in Nat /\ auths \in Nat
           /\ Rest(list, 1) \in Nat
           /\ ExtrasSize(list, blobs, auths, r)
                = SizeOf(Len(list), Rest(list, 1), blobs, auths, r)
           /\ ExtrasSize(list, blobs, auths, r) \in Nat
           /\ ExtrasSize(list, blobs, auths, r) <= ExtrasSize(list, blobs, auths, TRUE)
<1>1. list \in Seq(Nat) /\ blobs \in Nat /\ auths \in Nat /\ Len(list) \in Nat
  BY BoundsAssumption
<1>2. Total(list) = Rest(list, 1) /\ Rest(list, 1) \in Nat
  BY <1>1, TotalIsRest, RestTakes
<1>3. ASSUME NEW x \in BOOLEAN
      PROVE  ExtrasSize(list, blobs, auths, x) = SizeOf(Len(list), Rest(list, 1), blobs, auths, x)
  BY <1>2 DEF ExtrasSize, SizeOf, TX_EXTRAS_HEAD, Entry, Word, Auth
<1>4. \A x \in BOOLEAN :
         /\ SizeOf(Len(list), Rest(list, 1), blobs, auths, x) \in Nat
         /\ SizeOf(Len(list), Rest(list, 1), blobs, auths, x)
              <= SizeOf(Len(list), Rest(list, 1), blobs, auths, TRUE)
  BY ONLY <1>1, <1>2, SizeOfType
<1>5. TRUE \in BOOLEAN
  OBVIOUS
<1>6. /\ ExtrasSize(list, blobs, auths, r) = SizeOf(Len(list), Rest(list, 1), blobs, auths, r)
      /\ ExtrasSize(list, blobs, auths, TRUE)
           = SizeOf(Len(list), Rest(list, 1), blobs, auths, TRUE)
  BY <1>3, <1>5
<1> QED
  BY ONLY <1>1, <1>2, <1>4, <1>6, r \in BOOLEAN, Zenon

-----------------------------------------------------------------------------
(* Arithmetic that does not wrap.                                          *)

\* No number read so far is too big for a vector of the biggest elements.
Small == Allocates(biggest, AuthInMemory)

LEMMA HalfUsize == Usize \div 2 \in Nat /\ Usize \div 2 >= 32768 /\ 2 * (Usize \div 2) <= Usize
  BY BoundsAssumption, SMT

LEMMA NoWrap ==
    ASSUME NEW x \in Nat, NEW y \in Nat, x + y < Usize
    PROVE  plus(x, y) = x + y /\ plus(x, y) \in Nat
  BY BoundsAssumption, SMT DEF plus

LEMMA PlusType == ASSUME NEW x \in Nat, NEW y \in Nat PROVE plus(x, y) \in Nat
  BY BoundsAssumption, SMT DEF plus

LEMMA TimesType == ASSUME NEW x \in Nat, NEW y \in Nat PROVE times(x, y) \in Nat
<1>1. x * y \in Nat
  OBVIOUS
<1> QED
  BY <1>1, BoundsAssumption, SMT DEF times

\* The numbers up to one that is small fit a vector, and a few of them and words for
\* one of them are together less than a usize.
LEMMA SmallNumbers ==
    ASSUME NEW usize \in Nat, NEW half \in Nat, half >= 32768, 2 * half <= usize,
           NEW b \in Nat, b * 168 < half, NEW n \in Nat, n <= b
    PROVE  /\ n * 32 \in Nat /\ n * 32 < half /\ n * 32 < usize /\ n * 168 < half
           /\ 144 + n < usize /\ 148 + n < usize
           /\ \A x \in Nat : x <= b => 148 + n + x < usize /\ x + 125 < usize
                                       /\ x + 24 + n * 32 < usize
  OBVIOUS

\* The facts of SmallNumbers about the width of a usize.
RoomFor(b, n) ==
    /\ n * 32 \in Nat /\ n * 32 < Usize \div 2 /\ n * 32 < Usize /\ n * 168 < Usize \div 2
    /\ 144 + n < Usize /\ 148 + n < Usize
    /\ \A x \in Nat : x <= b => 148 + n + x < Usize /\ x + 125 < Usize
                                /\ x + 24 + n * 32 < Usize

LEMMA HasRoom ==
    ASSUME NEW b \in Nat, Allocates(b, AuthInMemory), NEW n \in Nat, n <= b
    PROVE  RoomFor(b, n)
<1>1. /\ Usize \div 2 \in Nat /\ Usize \div 2 >= 32768 /\ 2 * (Usize \div 2) <= Usize
      /\ b * 168 < Usize \div 2 /\ Usize \in Nat
  BY HalfUsize, BoundsAssumption DEF Allocates, AuthInMemory
<1> QED
  BY ONLY <1>1, b \in Nat, n \in Nat, n <= b, SmallNumbers DEF RoomFor

LEMMA Fits ==
    ASSUME NEW b \in Nat, Allocates(b, AuthInMemory), NEW n \in Nat, n <= b
    PROVE  /\ times(n, Word) = n * 32
           /\ Allocates(n, Item) /\ Allocates(n, Word) /\ Allocates(n, AuthInMemory)
<1>1. RoomFor(b, n)
  BY HasRoom
<1>2. times(n, Word) = n * 32
  <2>1. \A m \in Nat : m < Usize => m % Usize = m
    BY BoundsAssumption, SMT
  <2> QED
    BY ONLY <1>1, <2>1 DEF times, Word, RoomFor
<1>3. Allocates(n, Item) /\ Allocates(n, Word) /\ Allocates(n, AuthInMemory)
  BY ONLY <1>1 DEF Allocates, Item, Word, AuthInMemory, RoomFor
<1> QED
  BY <1>2, <1>3

LEMMA Starts ==
    ASSUME NEW b \in Nat, Allocates(b, AuthInMemory), NEW n \in Nat, n <= b,
           NEW x \in Nat, x <= b
    PROVE  /\ plus(144, n) = 144 + n /\ plus(144 + n, 4) = 148 + n
           /\ plus(148 + n, x) = 148 + n + x
<1>1. RoomFor(b, n)
  BY HasRoom
<1>2. 144 \in Nat /\ 4 \in Nat /\ 144 + n \in Nat /\ 144 + n + 4 = 148 + n /\ 148 + n \in Nat
  OBVIOUS
<1>3. 144 + n < Usize /\ 148 + n < Usize /\ 148 + n + x < Usize
  BY <1>1 DEF RoomFor
<1> QED
  BY ONLY <1>2, <1>3, n \in Nat, x \in Nat, NoWrap

LEMMA Plus ==
    ASSUME NEW b \in Nat, Allocates(b, AuthInMemory), NEW x \in Nat, x <= b,
           NEW c \in Nat, c <= 125
    PROVE  plus(x, c) = x + c
<1>1. RoomFor(b, x) /\ Usize \in Nat
  BY HasRoom, BoundsAssumption
<1>2. x + 125 < Usize
  BY <1>1 DEF RoomFor
<1>3. x + c < Usize
  BY ONLY <1>1, <1>2, x \in Nat, c \in Nat, c <= 125
<1> QED
  BY <1>3, NoWrap

LEMMA PlusWords ==
    ASSUME NEW b \in Nat, Allocates(b, AuthInMemory), NEW x \in Nat, x <= b,
           NEW n \in Nat, n <= b, NEW c \in Nat, c <= 24
    PROVE  plus(x, c + n * 32) = x + (c + n * 32)
<1>1. RoomFor(b, n) /\ Usize \in Nat
  BY HasRoom, BoundsAssumption
<1>2. x + 24 + n * 32 < Usize /\ n * 32 \in Nat
  BY <1>1 DEF RoomFor
<1>3. PICK k \in Nat : k = n * 32
  BY <1>2
<1>4. x + 24 + k < Usize
  BY <1>2, <1>3
<1>5. c + k \in Nat /\ x + (c + k) < Usize
  BY ONLY <1>1, <1>4, k \in Nat, x \in Nat, c \in Nat, c <= 24
<1>6. plus(x, c + k) = x + (c + k)
  BY <1>5, NoWrap
<1> QED
  BY ONLY <1>3, <1>6

-----------------------------------------------------------------------------
(* Where a request cannot trap.                                            *)

Decoding == {"entries", "entry", "blobs", "auths", "auth", "randao"}

Types ==
    /\ len \in Nat /\ data_len \in Nat /\ extras_len \in Nat
    /\ o \in Nat /\ todo \in Nat /\ biggest \in Nat
    /\ honest \in BOOLEAN /\ randao \in BOOLEAN
    /\ data_at = REQ_HEAD + 4
    /\ honest => numbers \in Seq(Nat)

\* While the numbers are small the offsets stay in order and inside the blob.
Inside ==
    Small => /\ at # "trapped"
             /\ data_len <= biggest /\ extras_len <= biggest
             /\ at \in {"extras_len", "extras", "data"} \cup Decoding => data_at + data_len + 4 <= len
             /\ at \in Decoding => o <= extras_len

LEMMA ReadsType ==
    ASSUME Types, NEW n \in Numbers, Reads(n)
    PROVE  /\ n \in Nat /\ biggest' \in Nat /\ n <= biggest' /\ biggest <= biggest'
           /\ honest => numbers' \in Seq(Nat)
           /\ Small' => Small
<1>1. n \in Nat
  <2>1. CASE honest
    BY <2>1 DEF Types, Numbers
  <2>2. CASE ~ honest
    BY <2>2, BoundsAssumption DEF Types, Numbers
  <2> QED
    BY <2>1, <2>2
<1>2. biggest \in Nat /\ biggest' = IF n > biggest THEN n ELSE biggest
  BY DEF Types, Reads
<1>3. honest => numbers' \in Seq(Nat)
  BY DEF Types, Reads
<1>4. biggest' \in Nat /\ n <= biggest' /\ biggest <= biggest'
  BY <1>1, <1>2
<1>5. Small' => Small
  <2>1. biggest * 168 <= biggest' * 168 /\ biggest * 168 \in Nat /\ biggest' * 168 \in Nat
    BY <1>2, <1>4
  <2> QED
    BY <2>1, HalfUsize DEF Small, Allocates, AuthInMemory
<1> QED
  BY <1>1, <1>3, <1>4, <1>5

LEMMA EncodedTypes ==
    ASSUME Encoded
    PROVE  len \in Nat /\ honest = TRUE /\ randao \in BOOLEAN /\ numbers \in Seq(Nat)
<1>1. ASSUME NEW d \in Data, Start(REQ_HEAD + 8 + d, TRUE, <<d, 0>>, FALSE)
      PROVE  len \in Nat /\ honest = TRUE /\ randao \in BOOLEAN /\ numbers \in Seq(Nat)
  <2>1. d \in Nat /\ REQ_HEAD + 8 + d \in Nat
    BY BoundsAssumption DEF REQ_HEAD
  <2>2. <<d, 0>> \in Seq(Nat)
    BY <2>1
  <2> QED
    BY ONLY <1>1, <2>1, <2>2 DEF Start
<1>2. ASSUME NEW d \in Data, NEW list \in Lists, NEW blobs \in Few, NEW auths \in Few,
             NEW r \in BOOLEAN,
             Start(REQ_HEAD + 8 + d + ExtrasSize(list, blobs, auths, r), TRUE,
                   <<d, ExtrasSize(list, blobs, auths, r), Len(list)>> \o list
                     \o <<blobs, auths>>, r)
      PROVE  len \in Nat /\ honest = TRUE /\ randao \in BOOLEAN /\ numbers \in Seq(Nat)
  <2> DEFINE size == ExtrasSize(list, blobs, auths, r)
             all == <<d, size, Len(list)>> \o list \o <<blobs, auths>>
  <2>1. /\ list \in Seq(Nat) /\ Len(list) \in Nat /\ blobs \in Nat /\ auths \in Nat
        /\ size \in Nat /\ d \in Nat
    <3>1. d \in Nat
      BY BoundsAssumption
    <3> QED
      BY <3>1, SizeType
  <2>2. Start(REQ_HEAD + 8 + d + size, TRUE, all, r)
    BY <1>2
  <2> HIDE DEF size
  <2>3. REQ_HEAD + 8 + d + size \in Nat
    BY <2>1 DEF REQ_HEAD
  <2>4. all \in Seq(Nat)
    <3>1. <<d, size, Len(list)>> \in Seq(Nat) /\ <<blobs, auths>> \in Seq(Nat)
      BY <2>1
    <3>2. \A u, v \in Seq(Nat) : u \o v \in Seq(Nat)
      OBVIOUS
    <3> QED
      BY ONLY <2>1, <3>1, <3>2
  <2> HIDE DEF all
  <2> QED
    BY ONLY <2>2, <2>3, <2>4, r \in BOOLEAN DEF Start
<1> QED
  BY <1>1, <1>2 DEF Encoded

LEMMA InitInside == Init => Types /\ Inside
<1> SUFFICES ASSUME Init PROVE Types /\ Inside
  OBVIOUS
<1>1. /\ at = "head" /\ data_at = REQ_HEAD + 4 /\ data_len = 0 /\ extras_len = 0
      /\ o = 0 /\ todo = 0 /\ biggest = 0
  BY DEF Init
<1>2. len \in Nat /\ honest \in BOOLEAN /\ randao \in BOOLEAN /\ (honest => numbers \in Seq(Nat))
  <2>1. CASE Encoded
    BY <2>1, EncodedTypes
  <2>2. ASSUME NEW length \in Length, NEW r \in BOOLEAN, Start(length, FALSE, <<>>, r)
        PROVE  len \in Nat /\ honest = FALSE /\ randao \in BOOLEAN
    <3>1. length \in Nat
      BY BoundsAssumption
    <3> QED
      BY <2>2, <3>1 DEF Start
  <2> QED
    BY <2>1, <2>2 DEF Init
<1>3. Types
  BY <1>1, <1>2 DEF Types
<1> QED
  BY <1>1, <1>3 DEF Inside, Decoding, Types

LEMMA DecodeHeadInside == ASSUME Types, Inside, DecodeHead PROVE Types' /\ Inside'
  BY DEF DecodeHead, Ends, Types, Inside, Decoding, Small

LEMMA DataLengthInside ==
    ASSUME Types, Inside, NEW n \in Numbers, DecodeDataLength(n)
    PROVE  Types' /\ Inside'
<1>1. /\ data_len' = n
      /\ at' = IF len < plus(plus(data_at, n), 4) THEN "rejected"
               ELSE IF ~ Sliced(plus(data_at, n), plus(plus(data_at, n), 4), len) THEN "trapped"
               ELSE "extras_len"
      /\ UNCHANGED <<len, honest, randao, data_at, extras_len, o, todo>>
      /\ at = "data_len" /\ Reads(n)
  BY DEF DecodeDataLength
<1>2. /\ n \in Nat /\ biggest' \in Nat /\ n <= biggest' /\ biggest <= biggest'
      /\ Small' => Small
  BY <1>1, ReadsType
<1>3. Types'
  BY <1>1, <1>2, ReadsType DEF Types
<1>4. ASSUME Small' PROVE plus(data_at, n) = 144 + n /\ plus(144 + n, 4) = 148 + n
  <2>1. data_at = 144 /\ Allocates(biggest', AuthInMemory)
    BY <1>4 DEF Types, REQ_HEAD, Small
  <2> QED
    BY <1>2, <2>1, Starts
<1>5. Inside'
  <2> SUFFICES ASSUME Small' PROVE Inside'
    BY DEF Inside
  <2>1. len \in Nat /\ data_at = 144
    BY DEF Types, REQ_HEAD
  <2>2. at' = IF len < 148 + n THEN "rejected"
              ELSE IF ~ Sliced(144 + n, 148 + n, len) THEN "trapped" ELSE "extras_len"
    BY <1>1, <1>4
  <2>3. ~ len < 148 + n => Sliced(144 + n, 148 + n, len)
    BY <1>2, <2>1 DEF Sliced
  <2>4. at' \in {"rejected", "extras_len"} /\ (at' = "extras_len" => 148 + n <= len)
    BY <1>2, <2>1, <2>2, <2>3
  <2>5. extras_len <= biggest'
    BY <1>2 DEF Inside, Types
  <2> QED
    BY <1>1, <1>2, <2>1, <2>4, <2>5 DEF Inside, Decoding
<1> QED
  BY <1>3, <1>5

LEMMA ExtrasLengthInside ==
    ASSUME Types, Inside, NEW n \in Numbers, DecodeExtrasLength(n)
    PROVE  Types' /\ Inside'
<1> DEFINE start == plus(plus(data_at, data_len), 4)
<1>1. /\ extras_len' = n
      /\ at' = IF len < plus(start, n) THEN "rejected"
               ELSE IF n = 0 THEN "data"
               ELSE IF ~ Sliced(start, plus(start, n), len) THEN "trapped"
               ELSE "extras"
      /\ UNCHANGED <<len, honest, randao, data_at, data_len, o, todo>>
      /\ at = "extras_len" /\ Reads(n)
  BY DEF DecodeExtrasLength
<1>2. /\ n \in Nat /\ biggest' \in Nat /\ n <= biggest' /\ biggest <= biggest'
      /\ Small' => Small
  BY <1>1, ReadsType
<1>3. Types'
  BY <1>1, <1>2, ReadsType DEF Types
<1> HIDE DEF start
<1>4. ASSUME Small'
      PROVE  /\ data_len <= biggest' /\ data_at + data_len + 4 <= len /\ data_at = 144
             /\ start = 148 + data_len /\ plus(start, n) = 148 + data_len + n
  <2>1. /\ data_at = 144 /\ data_len \in Nat /\ data_len <= biggest'
        /\ Allocates(biggest', AuthInMemory) /\ data_at + data_len + 4 <= len
    BY <1>1, <1>2, <1>4 DEF Types, Inside, REQ_HEAD, Small
  <2>2. /\ plus(144, data_len) = 144 + data_len /\ plus(144 + data_len, 4) = 148 + data_len
        /\ plus(148 + data_len, n) = 148 + data_len + n
    BY ONLY <1>2, <2>1, Starts
  <2>3. start = 148 + data_len
    BY <2>1, <2>2 DEF start
  <2> QED
    BY <2>1, <2>2, <2>3
<1>5. Inside'
  <2> SUFFICES ASSUME Small' PROVE Inside'
    BY DEF Inside
  <2>1. len \in Nat /\ data_len \in Nat
    BY DEF Types
  <2>2. ~ len < 148 + data_len + n => Sliced(148 + data_len, 148 + data_len + n, len)
    BY <1>2, <2>1 DEF Sliced
  <2>3. at' \in {"rejected", "data", "extras"}
    BY <1>1, <1>4, <2>2
  <2> QED
    BY <1>1, <1>2, <1>4, <2>3 DEF Inside, Decoding
<1> QED
  BY <1>3, <1>5

LEMMA ExtrasInside == ASSUME Types, Inside, DecodeExtras PROVE Types' /\ Inside'
<1>1. /\ at = "extras" /\ extras_len \in Nat
      /\ UNCHANGED <<len, honest, numbers, randao, data_at, data_len, extras_len, todo, biggest>>
  BY DEF DecodeExtras, Types
<1>2. \/ at' = "rejected" /\ o' = o
      \/ at' = "entries" /\ o' = 76 /\ 76 <= extras_len
  BY <1>1 DEF DecodeExtras, TX_EXTRAS_HEAD
<1>3. Types'
  BY <1>1, <1>2 DEF Types
<1>4. Inside'
  BY <1>1, <1>2 DEF Inside, Decoding, Small
<1> QED
  BY <1>3, <1>4

\* What a step among the extras has to do to stay inside them.
LEMMA StillInside ==
    ASSUME Types, Inside, at \in Decoding,
           UNCHANGED <<len, honest, randao, data_at, data_len, extras_len>>,
           honest => numbers' \in Seq(Nat),
           todo' \in Nat, o' \in Nat, biggest' \in Nat, biggest <= biggest', Small' => Small,
           Small' => /\ at' \in Decoding \cup {"data", "rejected"}
                     /\ at' \in Decoding => o' <= extras_len
    PROVE  Types' /\ Inside'
<1>1. Types'
  BY DEF Types
<1>2. Inside'
  <2> SUFFICES ASSUME Small' PROVE Inside'
    BY DEF Inside
  <2>1. /\ data_len <= biggest /\ extras_len <= biggest /\ data_at + data_len + 4 <= len
        /\ biggest \in Nat /\ data_len \in Nat /\ extras_len \in Nat
    BY DEF Inside, Types
  <2>2. data_len <= biggest' /\ extras_len <= biggest'
    BY <2>1
  <2> QED
    BY <2>1, <2>2 DEF Inside, Decoding
<1> QED
  BY <1>1, <1>2

\* A part that is all there is taken whole.
LEMMA TakeInside ==
    ASSUME Types, NEW k \in Nat, NEW then, Take(k, then)
    PROVE  /\ o' \in Nat
           /\ plus(o, k) = o + k /\ o + k <= extras_len
                => at' = then /\ o' = o + k /\ o' <= extras_len
<1>1. o \in Nat /\ extras_len \in Nat
  BY DEF Types
<1>2. o' = plus(o, k) /\ at' = IF Sliced(o, o', extras_len) THEN then ELSE "trapped"
  BY DEF Take
<1>3. o' \in Nat
  BY <1>1, <1>2, PlusType
<1> QED
  BY <1>1, <1>2, <1>3 DEF Sliced

LEMMA WordsType ==
    ASSUME Types, NEW n \in Nat, NEW size \in Nat, NEW then, DecodeWords(size, n, then)
    PROVE  o' \in Nat
<1>1. o \in Nat /\ size + times(n, Word) \in Nat
  <2>1. times(n, Word) \in Nat
    BY TimesType DEF Word
  <2> QED
    BY <2>1 DEF Types
<1>2. \/ o' = o
      \/ Take(size + times(n, Word), IF Allocates(n, Word) THEN then ELSE "trapped")
  BY DEF DecodeWords
<1> QED
  BY <1>1, <1>2, TakeInside

LEMMA WordsInside ==
    ASSUME Types, NEW b \in Nat, Allocates(b, AuthInMemory), extras_len <= b, o <= extras_len,
           NEW n \in Nat, n <= b, NEW size \in Nat, size <= 24, NEW then,
           DecodeWords(size, n, then)
    PROVE  at' = "rejected" \/ (at' = then /\ o' <= extras_len)
<1>1. o \in Nat /\ extras_len \in Nat /\ o <= b
  BY DEF Types
<1>2. \/ at' = "rejected"
      \/ /\ need(size + times(n, Word))
         /\ Take(size + times(n, Word), IF Allocates(n, Word) THEN then ELSE "trapped")
  BY DEF DecodeWords
<1>3. times(n, Word) = n * 32 /\ Allocates(n, Word)
  BY Fits
<1>4. plus(o, size + n * 32) = o + (size + n * 32)
  BY <1>1, PlusWords
<1>5. PICK k \in Nat : k = n * 32
  OBVIOUS
<1>6. CASE at' # "rejected"
  <2>1. need(size + k) /\ Take(size + k, then) /\ size + k \in Nat
    BY <1>2, <1>3, <1>5, <1>6
  <2>2. plus(o, size + k) = o + (size + k) /\ o + (size + k) <= extras_len
    BY <1>4, <1>5, <2>1 DEF need
  <2> QED
    BY <2>1, <2>2, TakeInside
<1>7. CASE at' = "rejected"
  BY <1>7
<1> QED
  BY <1>6, <1>7

\* What is small when a number has been read was small before, and so is the number.
LEMMA SmallRead ==
    ASSUME Types, Inside, at \in Decoding, biggest' \in Nat, biggest <= biggest',
           Small' => Small, Small'
    PROVE  /\ Allocates(biggest', AuthInMemory) /\ o <= extras_len /\ extras_len <= biggest'
           /\ o \in Nat /\ o <= biggest'
           /\ \A c \in Nat : c <= 125 => plus(o, c) = o + c
<1>1. Small /\ Allocates(biggest', AuthInMemory)
  BY DEF Small
<1>2. o <= extras_len /\ extras_len <= biggest
  BY <1>1 DEF Inside
<1>3. o \in Nat /\ extras_len \in Nat /\ biggest \in Nat
  BY DEF Types
<1>4. o <= biggest' /\ extras_len <= biggest'
  BY <1>2, <1>3
<1>5. ASSUME NEW c \in Nat, c <= 125 PROVE plus(o, c) = o + c
  BY <1>1, <1>3, <1>4, <1>5, Plus
<1> QED
  BY <1>1, <1>2, <1>3, <1>4, <1>5

LEMMA TruncatedInside == ASSUME Types, Inside, Truncated PROVE Types' /\ Inside'
<1>1. /\ at \in Decoding /\ at' = "rejected"
      /\ UNCHANGED <<len, honest, numbers, randao, data_at, data_len, extras_len, o, todo, biggest>>
  BY DEF Truncated, Ends, Decoding
<1>2. Types'
  BY <1>1 DEF Types
<1>3. Inside'
  BY <1>1 DEF Inside, Decoding, Small
<1> QED
  BY <1>2, <1>3

LEMMA CountInside ==
    ASSUME Types, Inside, NEW n \in Numbers, NEW list \in Decoding, NEW each \in Decoding,
           NEW size \in {Item, AuthInMemory}, DecodeCount(list, each, size, n)
    PROVE  Types' /\ Inside'
<1> DEFINE then == IF Allocates(n, size) THEN each ELSE "trapped"
<1>1. /\ at \in Decoding /\ need(4) /\ Reads(n) /\ Take(4, then) /\ todo' = n
      /\ UNCHANGED <<len, honest, randao, data_at, data_len, extras_len>>
  BY DEF DecodeCount
<1> HIDE DEF then
<1>2. /\ n \in Nat /\ biggest' \in Nat /\ n <= biggest' /\ biggest <= biggest'
      /\ (Small' => Small) /\ (honest => numbers' \in Seq(Nat))
  BY <1>1, ReadsType
<1>3. o' \in Nat
  BY <1>1, TakeInside
<1>4. ASSUME Small' PROVE at' = each /\ o' <= extras_len
  <2>1. Allocates(biggest', AuthInMemory) /\ o \in Nat /\ plus(o, 4) = o + 4
    <3>1. \A c \in Nat : c <= 125 => plus(o, c) = o + c
      BY <1>1, <1>2, <1>4, SmallRead
    <3> QED
      BY <1>1, <1>2, <1>4, <3>1, SmallRead
  <2>2. Allocates(n, Item) /\ Allocates(n, AuthInMemory)
    BY <1>2, <2>1, Fits
  <2>4. then = each
    BY <2>2 DEF then
  <2>5. o + 4 <= extras_len
    BY <1>1, <2>1 DEF need
  <2> QED
    BY <1>1, <2>1, <2>4, <2>5, TakeInside
<1> QED
  BY <1>1, <1>2, <1>3, <1>4, StillInside

LEMMA EntryInside ==
    ASSUME Types, Inside, NEW n \in Numbers, DecodeEntry(n)
    PROVE  Types' /\ Inside'
<1>1. /\ at = "entry" /\ todo > 0 /\ Reads(n) /\ DecodeWords(24, n, "entry") /\ todo' = todo - 1
      /\ UNCHANGED <<len, honest, randao, data_at, data_len, extras_len>>
  BY DEF DecodeEntry, Entry
<1>2. /\ n \in Nat /\ biggest' \in Nat /\ n <= biggest' /\ biggest <= biggest'
      /\ (Small' => Small) /\ (honest => numbers' \in Seq(Nat))
  BY <1>1, ReadsType
<1>3. at \in Decoding /\ 24 \in Nat /\ 24 <= 24 /\ "entry" \in Decoding
  BY <1>1 DEF Decoding
<1>4. o' \in Nat
  BY <1>1, <1>2, <1>3, WordsType
<1>5. ASSUME Small' PROVE at' = "rejected" \/ (at' = "entry" /\ o' <= extras_len)
  <2>1. /\ Allocates(biggest', AuthInMemory) /\ o <= extras_len /\ extras_len <= biggest'
    BY <1>2, <1>3, <1>5, SmallRead
  <2> QED
    BY ONLY Types, <1>1, <1>2, <1>3, <2>1, WordsInside
<1>6. todo' \in Nat
  BY <1>1 DEF Types
<1>7. Small' => /\ at' \in Decoding \cup {"data", "rejected"}
                /\ at' \in Decoding => o' <= extras_len
  BY <1>3, <1>5 DEF Decoding
<1> QED
  BY <1>1, <1>2, <1>3, <1>4, <1>6, <1>7, StillInside

LEMMA BlobsInside ==
    ASSUME Types, Inside, NEW n \in Numbers, DecodeBlobs(n)
    PROVE  Types' /\ Inside'
<1>1. /\ at = "blobs" /\ Reads(n) /\ DecodeWords(4, n, "auths") /\ todo' = todo
      /\ UNCHANGED <<len, honest, randao, data_at, data_len, extras_len>>
  BY DEF DecodeBlobs
<1>2. /\ n \in Nat /\ biggest' \in Nat /\ n <= biggest' /\ biggest <= biggest'
      /\ (Small' => Small) /\ (honest => numbers' \in Seq(Nat))
  BY <1>1, ReadsType
<1>3. at \in Decoding /\ 4 \in Nat /\ 4 <= 24 /\ "auths" \in Decoding
  BY <1>1 DEF Decoding
<1>4. o' \in Nat
  BY <1>1, <1>2, <1>3, WordsType
<1>5. ASSUME Small' PROVE at' = "rejected" \/ (at' = "auths" /\ o' <= extras_len)
  <2>1. /\ Allocates(biggest', AuthInMemory) /\ o <= extras_len /\ extras_len <= biggest'
    BY <1>2, <1>3, <1>5, SmallRead
  <2> QED
    BY ONLY Types, <1>1, <1>2, <1>3, <2>1, WordsInside
<1>6. todo' \in Nat
  BY <1>1 DEF Types
<1>7. Small' => /\ at' \in Decoding \cup {"data", "rejected"}
                /\ at' \in Decoding => o' <= extras_len
  BY <1>3, <1>5 DEF Decoding
<1> QED
  BY <1>1, <1>2, <1>3, <1>4, <1>6, <1>7, StillInside

LEMMA AuthInside == ASSUME Types, Inside, DecodeAuth PROVE Types' /\ Inside'
<1>1. /\ at = "auth" /\ need(125) /\ Take(125, "auth") /\ todo' = todo - 1 /\ todo > 0
      /\ UNCHANGED <<len, honest, numbers, randao, data_at, data_len, extras_len, biggest>>
  BY DEF DecodeAuth, Auth
<1>2. /\ biggest' \in Nat /\ biggest <= biggest' /\ (honest => numbers' \in Seq(Nat))
      /\ (Small' => Small) /\ todo' \in Nat /\ at \in Decoding
  BY <1>1 DEF Types, Small, Decoding
<1>3. o' \in Nat
  BY <1>1, TakeInside
<1>4. ASSUME Small' PROVE at' = "auth" /\ o' <= extras_len
  <2>1. \A c \in Nat : c <= 125 => plus(o, c) = o + c
    BY <1>2, <1>4, SmallRead
  <2>2. plus(o, 125) = o + 125
    BY <2>1
  <2> QED
    BY <1>1, <2>2, TakeInside DEF need
<1>5. Small' => /\ at' \in Decoding \cup {"data", "rejected"}
                /\ at' \in Decoding => o' <= extras_len
  BY <1>4 DEF Decoding
<1> QED
  BY <1>1, <1>2, <1>3, <1>5, StillInside

LEMMA RandaoInside == ASSUME Types, Inside, DecodeRandao PROVE Types' /\ Inside'
<1> DEFINE k == IF randao THEN 32 ELSE 0
<1>1. /\ at = "randao" /\ (randao => need(32)) /\ Take(k, "data")
      /\ UNCHANGED <<len, honest, numbers, randao, data_at, data_len, extras_len, todo, biggest>>
  BY DEF DecodeRandao, Word
<1>2. /\ biggest' \in Nat /\ biggest <= biggest' /\ (honest => numbers' \in Seq(Nat))
      /\ (Small' => Small) /\ todo' \in Nat /\ at \in Decoding
  BY <1>1 DEF Types, Small, Decoding
<1>3. o' \in Nat
  BY <1>1, TakeInside
<1>4. ASSUME Small' PROVE at' = "data"
  <2>1. /\ o <= extras_len /\ o \in Nat
        /\ \A c \in Nat : c <= 125 => plus(o, c) = o + c
    BY <1>2, <1>4, SmallRead
  <2>2. plus(o, k) = o + k /\ o + k <= extras_len
    BY <1>1, <2>1 DEF need
  <2> QED
    BY <1>1, <2>2, TakeInside
<1>5. Small' => /\ at' \in Decoding \cup {"data", "rejected"}
                /\ at' \in Decoding => o' <= extras_len
  BY <1>4 DEF Decoding
<1> QED
  BY <1>1, <1>2, <1>3, <1>5, StillInside

LEMMA NoMoreInside == ASSUME Types, Inside, NoMore PROVE Types' /\ Inside'
<1>1. /\ at \in Decoding /\ at' \in {"blobs", "randao"}
      /\ UNCHANGED <<len, honest, numbers, randao, data_at, data_len, extras_len, o, todo, biggest>>
  BY DEF NoMore, Ends, Decoding
<1>2. Types'
  BY <1>1 DEF Types
<1>3. Inside'
  BY <1>1 DEF Inside, Decoding, Small
<1> QED
  BY <1>2, <1>3

LEMMA DataInside == ASSUME Types, Inside, DecodeData PROVE Types' /\ Inside'
<1>1. /\ at = "data"
      /\ at' = IF Sliced(data_at, plus(data_at, data_len), len) THEN "accepted" ELSE "trapped"
      /\ UNCHANGED <<len, honest, numbers, randao, data_at, data_len, extras_len, o, todo, biggest>>
  BY DEF DecodeData, Ends
<1>2. Types'
  BY <1>1 DEF Types
<1>3. ASSUME Small PROVE at' = "accepted"
  <2>1. /\ data_len <= biggest /\ data_at + data_len + 4 <= len /\ data_at = 144
        /\ Allocates(biggest, AuthInMemory)
        /\ biggest \in Nat /\ data_len \in Nat /\ len \in Nat
    BY <1>1, <1>3 DEF Inside, Types, REQ_HEAD, Small
  <2>2. plus(144, data_len) = 144 + data_len
    BY <2>1, Starts
  <2>3. Sliced(144, 144 + data_len, len)
    BY <2>1 DEF Sliced
  <2> QED
    BY <1>1, <2>1, <2>2, <2>3
<1>4. Inside'
  BY <1>1, <1>3 DEF Inside, Decoding, Small
<1> QED
  BY <1>2, <1>4

LEMMA NextInside == Types /\ Inside /\ [Next]_vars => Types' /\ Inside'
<1> SUFFICES ASSUME Types, Inside, [Next]_vars PROVE Types' /\ Inside'
  OBVIOUS
<1>1. ASSUME NEW n \in Numbers, DecodeCount("entries", "entry", Item, n)
      PROVE  Types' /\ Inside'
  BY <1>1, CountInside DEF Decoding
<1>2. ASSUME NEW n \in Numbers, DecodeCount("auths", "auth", AuthInMemory, n)
      PROVE  Types' /\ Inside'
  BY <1>2, CountInside DEF Decoding
<1>3. ASSUME UNCHANGED vars PROVE Types' /\ Inside'
  BY <1>3 DEF vars, Types, Inside, Small
<1> QED
  BY <1>1, <1>2, <1>3, DecodeHeadInside, DataLengthInside, ExtrasLengthInside, ExtrasInside,
     TruncatedInside, EntryInside, BlobsInside, AuthInside, RandaoInside, NoMoreInside,
     DataInside DEF Next, Ended

\* Whatever a request says, and however narrow a usize is, it takes a number whose bytes
\* do not fit a vector to trap the instance: every other request that is cut short or
\* says too much of itself is refused (decode_request, TxExtras::decode).
THEOREM TrapsOnlyOnHuge == Spec => []TrapsOnlyOnHugeNumbers
<1>1. Types /\ Inside => TrapsOnlyOnHugeNumbers
  BY DEF Inside, Small, TrapsOnlyOnHugeNumbers
<1> QED
  BY <1>1, InitInside, NextInside, PTL DEF Spec

-----------------------------------------------------------------------------
(* The numbers of a request the package makes, and where the decoder is in *)
(* them.                                                                   *)

Said(d, size, list, blobs, auths) == <<d, size, Len(list)>> \o list \o <<blobs, auths>>

LEMMA Concat ==
    ASSUME NEW u \in Seq(Nat), NEW v \in Seq(Nat), NEW m \in Nat, Len(u) = m
    PROVE  /\ u \o v \in Seq(Nat) /\ Len(u \o v) = m + Len(v)
           /\ \A i \in 1..m : (u \o v)[i] = u[i]
           /\ \A i \in 1..Len(v) : (u \o v)[m + i] = v[i]
<1>1. u \o v \in Seq(Nat) /\ Len(u \o v) = m + Len(v) /\ Len(v) \in Nat
  OBVIOUS
<1>2. ASSUME NEW i \in 1..m PROVE (u \o v)[i] = u[i]
  OBVIOUS
<1>3. ASSUME NEW i \in 1..Len(v) PROVE (u \o v)[m + i] = v[i]
  OBVIOUS
<1> QED
  BY <1>1, <1>2, <1>3

\* Where each number is.
Says(all, d, size, list, blobs, auths) ==
    /\ all \in Seq(Nat) /\ Len(all) = Len(list) + 5
    /\ all[1] = d /\ all[2] = size /\ all[3] = Len(list)
    /\ \A i \in 1..Len(list) : all[3 + i] = list[i]
    /\ all[Len(list) + 4] = blobs /\ all[Len(list) + 5] = auths

LEMMA SaidAt ==
    ASSUME NEW d \in Nat, NEW size \in Nat, NEW list \in Seq(Nat), NEW blobs \in Nat,
           NEW auths \in Nat
    PROVE  Says(Said(d, size, list, blobs, auths), d, size, list, blobs, auths)
<1> DEFINE front == <<d, size, Len(list)>>
           back == <<blobs, auths>>
           most == front \o list
           all == Said(d, size, list, blobs, auths)
<1>1. /\ front \in Seq(Nat) /\ Len(front) = 3 /\ front[1] = d /\ front[2] = size
      /\ front[3] = Len(list) /\ Len(list) \in Nat
  OBVIOUS
<1>2. back \in Seq(Nat) /\ Len(back) = 2 /\ back[1] = blobs /\ back[2] = auths
  OBVIOUS
<1> HIDE DEF front, back
<1>3. /\ most \in Seq(Nat) /\ Len(most) = 3 + Len(list)
      /\ \A i \in 1..3 : most[i] = front[i]
      /\ \A i \in 1..Len(list) : most[3 + i] = list[i]
  BY ONLY <1>1, list \in Seq(Nat), 3 \in Nat, Concat DEF most
<1> HIDE DEF most
<1> DEFINE m == 3 + Len(list)
<1>5. all = most \o back
  BY DEF front, back, most, Said
<1> HIDE DEF all
<1>4. /\ all \in Seq(Nat) /\ Len(all) = m + 2
      /\ \A i \in 1..m : all[i] = most[i]
      /\ \A i \in 1..2 : all[m + i] = back[i]
  <2>1. m \in Nat /\ Len(most) = m
    BY <1>1, <1>3
  <2> HIDE DEF m
  <2> QED
    <3>1. /\ most \o back \in Seq(Nat) /\ Len(most \o back) = m + Len(back)
          /\ \A i \in 1..m : (most \o back)[i] = most[i]
          /\ \A i \in 1..Len(back) : (most \o back)[m + i] = back[i]
      BY ONLY <1>2, <1>3, <2>1, Concat, ZenonT(60)
    <3> QED
      BY ONLY <1>2, <1>5, <3>1
<1>6. all[1] = d /\ all[2] = size /\ all[3] = Len(list)
  <2>1. m \in Nat /\ 1 \in 1..m /\ 2 \in 1..m /\ 3 \in 1..m /\ 1 \in 1..3 /\ 2 \in 1..3 /\ 3 \in 1..3
    BY <1>1
  <2> HIDE DEF m
  <2> QED
    BY ONLY <1>1, <1>3, <1>4, <2>1
<1>7. ASSUME NEW i \in 1..Len(list) PROVE all[3 + i] = list[i]
  <2>1. 3 + i \in 1..m
    BY <1>1
  <2> QED
    BY <1>3, <1>4, <2>1
<1>8. all[Len(list) + 4] = blobs /\ all[Len(list) + 5] = auths
  <2>1. Len(list) + 4 = m + 1 /\ Len(list) + 5 = m + 2 /\ 1 \in 1..2 /\ 2 \in 1..2
    BY <1>1
  <2> HIDE DEF m
  <2> QED
    BY <1>2, <1>4, <2>1
<1>9. m + 2 = Len(list) + 5
  BY <1>1
<1>10. Says(all, d, size, list, blobs, auths)
  BY <1>4, <1>6, <1>7, <1>8, <1>9 DEF Says
<1> QED
  BY <1>10 DEF all

\* What is still to be read is what was said from place p on.
Reading(all, p) ==
    /\ numbers \in Seq(Nat)
    /\ Len(numbers) + p = Len(all) + 1
    /\ \A k \in 1..Len(numbers) : numbers[k] = all[p + k - 1]

LEMMA ReadsNext ==
    ASSUME NEW all \in Seq(Nat), NEW p \in Nat \ {0}, p <= Len(all), NEW q, q = p + 1, honest,
           Reading(all, p), NEW n, Reads(n)
    PROVE  n = all[p] /\ n \in Nat /\ Reading(all, q)'
<1>1. n = numbers[1] /\ numbers' = Tail(numbers)
  BY DEF Reads
<1>2. numbers \in Seq(Nat) /\ Len(numbers) \in Nat /\ Len(all) \in Nat /\ Len(numbers) >= 1
  BY DEF Reading
<1>3. n = all[p] /\ n \in Nat
  <2>1. 1 \in 1..Len(numbers) /\ p + 1 - 1 = p
    BY <1>2
  <2> QED
    BY <1>1, <1>2, <2>1 DEF Reading
<1>4. numbers' \in Seq(Nat) /\ Len(numbers') = Len(numbers) - 1
  BY <1>1, <1>2
<1>5. ASSUME NEW k \in 1..Len(numbers') PROVE numbers'[k] = all[q + k - 1]
  <2>1. k + 1 \in 1..Len(numbers) /\ p + (k + 1) - 1 = q + k - 1
    BY <1>2, <1>4
  <2>2. numbers'[k] = numbers[k + 1]
    BY <1>1, <1>2, <1>4
  <2> QED
    BY <2>1, <2>2 DEF Reading
<1>6. Len(numbers') + q = Len(all) + 1
  <2>1. Len(numbers) + p = Len(all) + 1
    BY DEF Reading
  <2>2. \A a, b, c \in Nat : a + p = b + 1 /\ c = a - 1 => c + (p + 1) = b + 1
    OBVIOUS
  <2>3. Len(numbers') \in Nat
    BY <1>4
  <2> QED
    BY <1>2, <1>4, <2>1, <2>2, <2>3, ZenonT(60)
<1> QED
  BY <1>3, <1>4, <1>5, <1>6 DEF Reading

\* Nothing is read at all at the end.
LEMMA ReadsNothing ==
    ASSUME NEW all \in Seq(Nat), Reading(all, Len(all) + 1)
    PROVE  numbers = <<>>
<1>1. numbers \in Seq(Nat) /\ Len(numbers) = 0
  BY DEF Reading
<1> QED
  BY <1>1

-----------------------------------------------------------------------------
(* What is sent has room.                                                  *)

LEMMA Within ==
    ASSUME NEW size \in Nat, size < Usize \div 2, NEW x \in Nat, NEW y \in Nat, x + y <= size
    PROVE  plus(x, y) = x + y
<1>1. Usize \div 2 \in Nat /\ 2 * (Usize \div 2) <= Usize /\ Usize \in Nat
  BY HalfUsize, BoundsAssumption
<1>2. x + y < Usize
  BY <1>1
<1> QED
  BY <1>2, NoWrap

LEMMA PartThere ==
    ASSUME o \in Nat, extras_len \in Nat, extras_len < Usize \div 2,
           NEW k \in Nat, o + k <= extras_len
    PROVE  /\ plus(o, k) = o + k /\ need(k)
           /\ \A then : Take(k, then) => at' = then /\ o' = o + k
<1>1. plus(o, k) = o + k
  BY Within
<1>2. o <= o + k
  OBVIOUS
<1> QED
  BY <1>1, <1>2 DEF need, Take, Sliced

LEMMA WordsThere ==
    ASSUME o \in Nat, extras_len \in Nat, extras_len < Usize \div 2,
           NEW k \in Nat, NEW n \in Nat, o + (k + n * 32) <= extras_len
    PROVE  \A then : DecodeWords(k, n, then) => at' = then /\ o' = o + (k + n * 32)
<1>1. PICK w \in Nat : w = n * 32
  OBVIOUS
<1>2. Usize \div 2 \in Nat /\ 2 * (Usize \div 2) <= Usize /\ Usize \in Nat
  BY HalfUsize, BoundsAssumption
<1>3. w < Usize \div 2 /\ w < Usize
  BY <1>1, <1>2
<1>4. times(n, Word) = w /\ Allocates(n, Word)
  <2>1. w % Usize = w
    BY <1>2, <1>3, BoundsAssumption
  <2> QED
    BY <1>1, <1>3, <2>1 DEF times, Word, Allocates
<1>5. k + w \in Nat /\ o + (k + w) <= extras_len
  BY <1>1
<1>6. need(k + w) /\ \A then : Take(k + w, then) => at' = then /\ o' = o + (k + w)
  BY <1>5, PartThere
<1> QED
  BY <1>1, <1>4, <1>6 DEF DecodeWords

-----------------------------------------------------------------------------
(* Where the decoder is in a request the package makes.                    *)

\* What holds of such a request all along: d bytes of calldata, size of extras.
Standing(d, size, last) ==
    /\ len = 148 + d + size
    /\ honest = TRUE
    /\ randao \in BOOLEAN /\ last = IF randao THEN 32 ELSE 0
    /\ data_at = 144
    /\ data_len \in Nat /\ extras_len \in Nat /\ o \in Nat /\ todo \in Nat

\* The head and the two lengths, with extras or without.
LEMMA HeadRead ==
    ASSUME NEW d \in Nat, NEW size \in Nat, NEW last, Standing(d, size, last), DecodeHead
    PROVE  at' = "data_len" /\ Standing(d, size, last)'
<1>1. len \in Nat /\ ~ (len < 140 + 4) /\ honest
  BY DEF Standing
<1>2. /\ at' = "data_len"
      /\ UNCHANGED <<len, honest, numbers, randao, data_at, data_len, extras_len, o, todo, biggest>>
  BY <1>1 DEF DecodeHead, Ends, REQ_HEAD
<1> QED
  BY <1>2 DEF Standing

LEMMA DataLengthRead ==
    ASSUME NEW d \in Nat, NEW size \in Nat, NEW last, 148 + d + size < Usize \div 2,
           Standing(d, size, last), DecodeDataLength(d)
    PROVE  at' = "extras_len" /\ data_len' = d /\ Standing(d, size, last)'
<1>1. plus(144, d) = 144 + d /\ plus(144 + d, 4) = 148 + d
  <2>1. /\ 148 + d + size \in Nat /\ 144 + d <= 148 + d + size
        /\ 144 + d + 4 <= 148 + d + size /\ 144 + d + 4 = 148 + d
        /\ 144 \in Nat /\ 4 \in Nat /\ 144 + d \in Nat
    OBVIOUS
  <2> QED
    BY ONLY <2>1, d \in Nat, 148 + d + size < Usize \div 2, Within
<1>2. Sliced(144 + d, 148 + d, 148 + d + size) /\ ~ (148 + d + size < 148 + d)
  BY DEF Sliced
<1>3. /\ data_len' = d /\ at' = "extras_len"
      /\ UNCHANGED <<len, honest, randao, data_at, extras_len, o, todo>>
  BY <1>1, <1>2 DEF DecodeDataLength, Standing
<1> QED
  BY <1>3 DEF Standing

LEMMA ExtrasLengthRead ==
    ASSUME NEW d \in Nat, NEW size \in Nat, NEW last, 148 + d + size < Usize \div 2,
           Standing(d, size, last), data_len = d, DecodeExtrasLength(size)
    PROVE  /\ at' = IF size = 0 THEN "data" ELSE "extras"
           /\ extras_len' = size /\ UNCHANGED <<o, data_len>> /\ Standing(d, size, last)'
<1>1. plus(144, d) = 144 + d /\ plus(144 + d, 4) = 148 + d /\ plus(148 + d, size) = 148 + d + size
  <2>1. /\ 148 + d + size \in Nat /\ 144 + d <= 148 + d + size
        /\ 144 + d + 4 <= 148 + d + size /\ 144 + d + 4 = 148 + d
        /\ 144 \in Nat /\ 4 \in Nat /\ 144 + d \in Nat /\ 148 + d \in Nat
        /\ 148 + d + size <= 148 + d + size
    OBVIOUS
  <2> QED
    BY ONLY <2>1, d \in Nat, size \in Nat, 148 + d + size < Usize \div 2, Within
<1>2. Sliced(148 + d, 148 + d + size, 148 + d + size)
  BY DEF Sliced
<1>3. /\ extras_len' = size /\ at' = IF size = 0 THEN "data" ELSE "extras"
      /\ UNCHANGED <<len, honest, randao, data_at, data_len, o, todo>>
  BY <1>1, <1>2 DEF DecodeExtrasLength, Standing
<1> QED
  BY <1>3 DEF Standing

LEMMA DataTaken ==
    ASSUME NEW d \in Nat, NEW size \in Nat, NEW last, 148 + d + size < Usize \div 2,
           Standing(d, size, last), data_len = d, DecodeData
    PROVE  /\ at' = "accepted" /\ Standing(d, size, last)'
           /\ UNCHANGED <<numbers, data_len, extras_len, o>>
<1>1. plus(144, d) = 144 + d
  <2>1. 148 + d + size \in Nat /\ 144 + d <= 148 + d + size /\ 144 \in Nat
    OBVIOUS
  <2> QED
    BY ONLY <2>1, d \in Nat, 148 + d + size < Usize \div 2, Within
<1>2. Sliced(144, 144 + d, 148 + d + size)
  BY DEF Sliced
<1>3. /\ at' = "accepted"
      /\ UNCHANGED <<len, honest, numbers, randao, data_at, data_len, extras_len, o, todo, biggest>>
  BY <1>1, <1>2 DEF DecodeData, Ends, Standing
<1> QED
  BY <1>3 DEF Standing

-----------------------------------------------------------------------------
(* A request without extras.                                               *)

Plain(d) ==
    /\ d \in Nat /\ 148 + d + 0 < Usize \div 2
    /\ Standing(d, 0, 0) /\ o = 0
    /\ \/ at \in {"head", "data_len"} /\ Reading(<<d, 0>>, 1)
       \/ at = "extras_len" /\ data_len = d /\ Reading(<<d, 0>>, 2)
       \/ at \in {"data", "accepted"} /\ data_len = d /\ extras_len = 0 /\ Reading(<<d, 0>>, 3)

LEMMA PlainStep ==
    ASSUME NEW d, Plain(d), Next
    PROVE  Plain(d)'
<1> DEFINE all == <<d, 0>>
<1>1. d \in Nat /\ 0 \in Nat /\ 148 + d + 0 < Usize \div 2 /\ Standing(d, 0, 0) /\ o = 0
  BY DEF Plain
<1>2. all \in Seq(Nat) /\ Len(all) = 2 /\ all[1] = d /\ all[2] = 0 /\ honest
  BY <1>1 DEF Standing
<1>3. CASE DecodeHead
  <2>1. at = "head" /\ Reading(all, 1)
    BY <1>3 DEF DecodeHead, Plain
  <2>2. at' = "data_len" /\ Standing(d, 0, 0)'
    BY <1>1, <1>3, HeadRead
  <2>3. UNCHANGED <<numbers, o>>
    BY <1>3, <2>2 DEF DecodeHead, Ends
  <2> QED
    BY <1>1, <2>1, <2>2, <2>3 DEF Plain, Reading
<1>4. ASSUME NEW n \in Numbers, DecodeDataLength(n) PROVE Plain(d)'
  <2>1. at = "data_len" /\ Reading(all, 1) /\ Reads(n) /\ o' = o
    BY <1>4 DEF DecodeDataLength, Plain
  <2>2. n = d /\ Reading(all, 2)'
    <3>1. 1 \in Nat \ {0} /\ 1 <= Len(all) /\ 1 + 1 = 2
      BY <1>2
    <3> HIDE DEF all
    <3> QED
      BY <1>2, <2>1, <3>1, ReadsNext
  <2>3. at' = "extras_len" /\ data_len' = d /\ Standing(d, 0, 0)'
    BY <1>1, <1>4, <2>2, DataLengthRead
  <2> QED
    BY <1>1, <2>1, <2>2, <2>3 DEF Plain
<1>5. ASSUME NEW n \in Numbers, DecodeExtrasLength(n) PROVE Plain(d)'
  <2>1. at = "extras_len" /\ Reading(all, 2) /\ Reads(n) /\ data_len = d
    BY <1>5 DEF DecodeExtrasLength, Plain
  <2>2. n = 0 /\ Reading(all, 3)'
    <3>1. 2 \in Nat \ {0} /\ 2 <= Len(all) /\ 2 + 1 = 3
      BY <1>2
    <3> HIDE DEF all
    <3> QED
      BY <1>2, <2>1, <3>1, ReadsNext
  <2>3. /\ at' = "data" /\ extras_len' = 0 /\ o' = o /\ data_len' = data_len
        /\ Standing(d, 0, 0)'
    BY <1>1, <1>5, <2>1, <2>2, ExtrasLengthRead
  <2> QED
    BY <1>1, <2>1, <2>2, <2>3 DEF Plain
<1>6. CASE DecodeData
  <2>1. at = "data" /\ data_len = d /\ extras_len = 0 /\ Reading(all, 3)
    BY <1>6 DEF DecodeData, Plain
  <2>2. /\ at' = "accepted" /\ Standing(d, 0, 0)'
        /\ UNCHANGED <<numbers, data_len, extras_len, o>>
    BY <1>1, <1>6, <2>1, DataTaken
  <2> QED
    BY <1>1, <2>1, <2>2 DEF Plain, Reading
<1>7. CASE Ended
  BY <1>7 DEF Ended, vars, Plain, Reading, Standing
<1>8. ASSUME at \in Decoding \cup {"extras"} PROVE FALSE
  BY <1>8 DEF Plain, Decoding
<1> QED
  BY <1>3, <1>4, <1>5, <1>6, <1>7, <1>8 DEF Next, DecodeExtras, Truncated, DecodeAuth, NoMore,
     DecodeRandao, DecodeCount, DecodeEntry, DecodeBlobs, Decoding

-----------------------------------------------------------------------------
(* A request with extras.                                                  *)

\* What follows the blob hashes, and the entries.
AfterBlobs(auths, last) == 4 + (125 * auths + last)
AfterList(blobs, auths, last) == 4 + (32 * blobs + AfterBlobs(auths, last))

\* The call that was sent.
Sent(d, size, list, blobs, auths, last) ==
    /\ d \in Nat /\ size \in Nat /\ list \in Seq(Nat) /\ Len(list) \in Nat
    /\ blobs \in Nat /\ auths \in Nat /\ last \in Nat
    /\ 148 + d + size < Usize \div 2
    /\ Allocates(Len(list), Item) /\ Allocates(auths, AuthInMemory)
    /\ Rest(list, 1) \in Nat
    /\ size = 80 + (24 * Len(list) + (32 * Rest(list, 1) + AfterList(blobs, auths, last)))

\* How far the decoder is, and what is left to be decoded of the extras.
Among(d, size, list, blobs, auths, last) ==
    LET all == Said(d, size, list, blobs, auths)
    IN \/ at \in {"head", "data_len"} /\ o = 0 /\ Reading(all, 1)
       \/ at = "extras_len" /\ o = 0 /\ data_len = d /\ Reading(all, 2)
       \/ /\ data_len = d /\ extras_len = size
          /\ \/ at = "extras" /\ Reading(all, 3)
             \/ at = "entries" /\ o = 76 /\ Reading(all, 3)
             \/ /\ at = "entry"
                /\ \E i \in 1..Len(list) + 1 :
                      /\ Reading(all, 3 + i)
                      /\ todo + i = Len(list) + 1
                      /\ o + (24 * todo + (32 * Rest(list, i) + AfterList(blobs, auths, last)))
                           = size
             \/ at = "blobs" /\ Reading(all, Len(list) + 4)
                             /\ o + AfterList(blobs, auths, last) = size
             \/ at = "auths" /\ Reading(all, Len(list) + 5) /\ o + AfterBlobs(auths, last) = size
             \/ at = "auth" /\ Reading(all, Len(list) + 6) /\ o + (125 * todo + last) = size
             \/ at = "randao" /\ Reading(all, Len(list) + 6) /\ o + last = size
             \/ at \in {"data", "accepted"} /\ Reading(all, Len(list) + 6) /\ o = size

With(d, size, list, blobs, auths, last) ==
    /\ Sent(d, size, list, blobs, auths, last)
    /\ Standing(d, size, last)
    /\ Among(d, size, list, blobs, auths, last)

LEMMA AfterTypes ==
    ASSUME NEW blobs \in Nat, NEW auths \in Nat, NEW last \in Nat
    PROVE  /\ AfterBlobs(auths, last) \in Nat /\ AfterList(blobs, auths, last) \in Nat
           /\ AfterBlobs(auths, last) >= 4 /\ AfterList(blobs, auths, last) >= 4
           /\ AfterBlobs(auths, last) = 4 + (125 * auths + last)
           /\ AfterList(blobs, auths, last) = (4 + blobs * 32) + AfterBlobs(auths, last)
  BY DEF AfterBlobs, AfterList

\* Decoding a part leaves what was left without it.
LEMMA CountedList ==
    ASSUME NEW n \in Nat, NEW words \in Nat, NEW rear \in Nat, NEW size \in Nat,
           size = 80 + (24 * n + (32 * words + rear))
    PROVE  76 + 4 <= size /\ 76 <= size /\ (76 + 4) + (24 * n + (32 * words + rear)) = size
  OBVIOUS

LEMMA CountedEntry ==
    ASSUME NEW x \in Nat, NEW t \in Nat, t > 0, NEW n \in Nat, NEW words \in Nat,
           NEW rear \in Nat, NEW size \in Nat,
           x + (24 * t + (32 * (n + words) + rear)) = size
    PROVE  /\ x + 24 <= size /\ x + (24 + n * 32) <= size
           /\ (x + (24 + n * 32)) + (24 * (t - 1) + (32 * words + rear)) = size
  OBVIOUS

LEMMA CountedBlobs ==
    ASSUME NEW x \in Nat, NEW n \in Nat, NEW rear \in Nat, NEW size \in Nat,
           x + ((4 + n * 32) + rear) = size
    PROVE  x + 4 <= size /\ x + (4 + n * 32) <= size /\ (x + (4 + n * 32)) + rear = size
  OBVIOUS

LEMMA CountedAuths ==
    ASSUME NEW x \in Nat, NEW n \in Nat, NEW last \in Nat, NEW size \in Nat,
           x + (4 + (125 * n + last)) = size
    PROVE  x + 4 <= size /\ (x + 4) + (125 * n + last) = size
  OBVIOUS

LEMMA CountedAuth ==
    ASSUME NEW x \in Nat, NEW t \in Nat, t > 0, NEW last \in Nat, NEW size \in Nat,
           x + (125 * t + last) = size
    PROVE  x + 125 <= size /\ (x + 125) + (125 * (t - 1) + last) = size
  OBVIOUS

\* The fields that do not change among the extras.
LEMMA StandingStill ==
    ASSUME NEW d, NEW size, NEW last, Standing(d, size, last),
           UNCHANGED <<len, honest, randao, data_at, data_len, extras_len>>,
           o' \in Nat, todo' \in Nat
    PROVE  Standing(d, size, last)'
  BY DEF Standing

LEMMA WithStep ==
    ASSUME NEW d, NEW size, NEW list, NEW blobs, NEW auths, NEW last,
           With(d, size, list, blobs, auths, last), Next
    PROVE  With(d, size, list, blobs, auths, last)'
<1> DEFINE all == Said(d, size, list, blobs, auths)
           rear == AfterList(blobs, auths, last)
           end == AfterBlobs(auths, last)
           Kept == With(d, size, list, blobs, auths, last)'
<1>1. /\ d \in Nat /\ size \in Nat /\ list \in Seq(Nat) /\ Len(list) \in Nat
      /\ blobs \in Nat /\ auths \in Nat /\ last \in Nat /\ Rest(list, 1) \in Nat
      /\ 148 + d + size < Usize \div 2
      /\ Allocates(Len(list), Item) /\ Allocates(auths, AuthInMemory)
      /\ size = 80 + (24 * Len(list) + (32 * Rest(list, 1) + rear))
  BY DEF With, Sent
<1>2. /\ all \in Seq(Nat) /\ Len(all) = Len(list) + 5
      /\ all[1] = d /\ all[2] = size /\ all[3] = Len(list)
      /\ \A i \in 1..Len(list) : all[3 + i] = list[i]
      /\ all[Len(list) + 4] = blobs /\ all[Len(list) + 5] = auths
  <2>1. Says(all, d, size, list, blobs, auths)
    BY <1>1, SaidAt
  <2> HIDE DEF all
  <2> QED
    BY <2>1 DEF Says
<1>3. /\ end \in Nat /\ rear \in Nat /\ end >= 4 /\ rear >= 4
      /\ end = 4 + (125 * auths + last) /\ rear = (4 + blobs * 32) + end
  BY <1>1, AfterTypes
<1>4. /\ Standing(d, size, last) /\ honest /\ o \in Nat /\ todo \in Nat /\ extras_len \in Nat
  BY DEF With, Standing
<1>5. size < Usize \div 2
  <2>1. \A half \in Nat : 148 + d + size < half => size < half
    BY <1>1
  <2> QED
    BY <1>1, <2>1, HalfUsize
<1>6. ASSUME Standing(d, size, last)', Among(d, size, list, blobs, auths, last)'
      PROVE  Kept
  BY <1>6 DEF With, Sent
<1>7. CASE DecodeHead
  <2>1. at = "head" /\ Reading(all, 1) /\ o = 0
    BY <1>7 DEF DecodeHead, With, Among
  <2>2. at' = "data_len" /\ Standing(d, size, last)'
    BY <1>1, <1>4, <1>7, HeadRead
  <2>3. UNCHANGED <<numbers, o>>
    BY <1>7, <2>2 DEF DecodeHead, Ends
  <2>4. Reading(all, 1)'
    BY <2>1, <2>3 DEF Reading
  <2> QED
    BY <1>6, <2>1, <2>2, <2>3, <2>4 DEF Among
<1>8. ASSUME NEW n \in Numbers, DecodeDataLength(n) PROVE Kept
  <2>1. at = "data_len" /\ Reading(all, 1) /\ o = 0 /\ Reads(n) /\ o' = o
    BY <1>8 DEF DecodeDataLength, With, Among
  <2>2. n = d /\ Reading(all, 2)'
    <3>1. 1 \in Nat \ {0} /\ 1 <= Len(all) /\ 2 = 1 + 1
      BY <1>1, <1>2
    <3> HIDE DEF all
    <3> QED
      BY <1>2, <1>4, <2>1, <3>1, ReadsNext
  <2>3. at' = "extras_len" /\ data_len' = d /\ Standing(d, size, last)'
    BY <1>1, <1>4, <1>8, <2>2, DataLengthRead
  <2> QED
    BY <1>6, <2>1, <2>2, <2>3 DEF Among
<1>9. ASSUME NEW n \in Numbers, DecodeExtrasLength(n) PROVE Kept
  <2>1. at = "extras_len" /\ Reading(all, 2) /\ Reads(n) /\ data_len = d
    BY <1>9 DEF DecodeExtrasLength, With, Among
  <2>2. n = size /\ Reading(all, 3)'
    <3>1. 2 \in Nat \ {0} /\ 2 <= Len(all) /\ 3 = 2 + 1
      BY <1>1, <1>2
    <3> HIDE DEF all
    <3> QED
      BY <1>2, <1>4, <2>1, <3>1, ReadsNext
  <2>3. size # 0
    BY <1>1, <1>3, CountedList, SMTT(20)
  <2>4. at' = "extras" /\ extras_len' = size /\ data_len' = data_len /\ Standing(d, size, last)'
    BY <1>1, <1>4, <1>9, <2>1, <2>2, <2>3, ExtrasLengthRead
  <2> QED
    BY <1>6, <2>1, <2>2, <2>4 DEF Among
\* Among the extras.
<1>10. ASSUME at \in Decoding \cup {"extras", "data"}
       PROVE  data_len = d /\ extras_len = size /\ extras_len < Usize \div 2
  BY <1>5, <1>10 DEF Decoding, With, Among
<1>11. CASE DecodeExtras
  <2>1. /\ at = "extras"
        /\ UNCHANGED <<len, honest, numbers, randao, data_at, data_len, extras_len, todo, biggest>>
    BY <1>11 DEF DecodeExtras
  <2>2. data_len = d /\ extras_len = size /\ 76 <= size /\ Reading(all, 3)
    <3>1. 76 <= size
      BY ONLY <1>1, <1>3, CountedList, SMTT(20)
    <3> QED
      BY <1>10, <2>1, <3>1 DEF With, Among
  <2>3. at' = "entries" /\ o' = 76
    BY <1>1, <1>4, <1>11, <2>2 DEF DecodeExtras, TX_EXTRAS_HEAD
  <2>4. Standing(d, size, last)' /\ Reading(all, 3)'
    BY <1>4, <2>1, <2>2, <2>3, StandingStill DEF Reading
  <2> QED
    BY <1>6, <2>1, <2>2, <2>3, <2>4 DEF Among
<1>12. ASSUME NEW n \in Numbers, DecodeCount("entries", "entry", Item, n) PROVE Kept
  <2>1. /\ at = "entries" /\ Reads(n) /\ todo' = n
        /\ Take(4, IF Allocates(n, Item) THEN "entry" ELSE "trapped")
        /\ UNCHANGED <<len, honest, randao, data_at, data_len, extras_len>>
    BY <1>12 DEF DecodeCount
  <2>2. data_len = d /\ extras_len = size /\ extras_len < Usize \div 2
    BY <1>10, <2>1 DEF Decoding
  <2>3. o = 76 /\ Reading(all, 3)
    BY <2>1 DEF With, Among
  <2>4. n = Len(list) /\ Reading(all, 3 + 1)'
    <3>1. 3 \in Nat \ {0} /\ 3 <= Len(all)
      BY <1>1, <1>2
    <3> HIDE DEF all
    <3> QED
      BY <1>2, <1>4, <2>1, <2>3, <3>1, ReadsNext
  <2>5. 76 + 4 <= size /\ (76 + 4) + (24 * Len(list) + (32 * Rest(list, 1) + rear)) = size
    BY ONLY <1>1, <1>3, CountedList, SMTT(20)
  <2>6. at' = "entry" /\ o' = 76 + 4
    BY <1>1, <1>4, <2>1, <2>2, <2>3, <2>4, <2>5, PartThere
  <2>7. Standing(d, size, last)'
    BY <1>1, <1>4, <2>1, <2>4, <2>6, StandingStill
  <2>8. todo' + 1 = Len(list) + 1 /\ 1 \in 1..Len(list) + 1
    BY <1>1, <2>1, <2>4
  <2>9. o' + (24 * todo' + (32 * Rest(list, 1) + rear)) = size
    BY <2>1, <2>4, <2>5, <2>6
  <2> QED
    BY <1>6, <2>1, <2>2, <2>4, <2>6, <2>7, <2>8, <2>9 DEF Among
<1>13. ASSUME NEW n \in Numbers, DecodeEntry(n) PROVE Kept
  <2>1. /\ at = "entry" /\ todo > 0 /\ Reads(n) /\ DecodeWords(24, n, "entry") /\ todo' = todo - 1
        /\ UNCHANGED <<len, honest, randao, data_at, data_len, extras_len>>
    BY <1>13 DEF DecodeEntry, Entry
  <2>2. data_len = d /\ extras_len = size /\ extras_len < Usize \div 2
    BY <1>10, <2>1 DEF Decoding
  <2>3. PICK i \in 1..Len(list) + 1 :
           /\ Reading(all, 3 + i) /\ todo + i = Len(list) + 1
           /\ o + (24 * todo + (32 * Rest(list, i) + rear)) = size
    BY <2>1 DEF With, Among
  <2>4. /\ i \in 1..Len(list) /\ i # Len(list) + 1 /\ i + 1 \in 1..Len(list) + 1
        /\ 3 + i \in Nat \ {0} /\ 3 + i <= Len(list) + 5 /\ 3 + (i + 1) = 3 + i + 1
        /\ todo - 1 + (i + 1) = Len(list) + 1 /\ todo - 1 \in Nat
    <3>1. \A m, t, x \in Nat : x >= 1 /\ x <= m + 1 /\ t > 0 /\ t + x = m + 1 =>
             /\ x \in 1..m /\ x # m + 1 /\ x + 1 \in 1..m + 1
             /\ 3 + x \in Nat \ {0} /\ 3 + x <= m + 5 /\ 3 + (x + 1) = 3 + x + 1
             /\ t - 1 + (x + 1) = m + 1 /\ t - 1 \in Nat
      OBVIOUS
    <3>2. i \in Nat /\ i >= 1 /\ i <= Len(list) + 1
      BY ONLY <1>1, <2>3
    <3> QED
      BY ONLY <1>1, <1>4, <2>1, <2>3, <3>1, <3>2
  <2>5. n = list[i] /\ n \in Nat /\ Reading(all, 3 + (i + 1))'
    <3> HIDE DEF all
    <3>1. 3 + i <= Len(all)
      BY <1>2, <2>4
    <3>2. n = all[3 + i] /\ n \in Nat /\ Reading(all, 3 + (i + 1))'
      BY <1>2, <1>4, <2>1, <2>3, <2>4, <3>1, ReadsNext
    <3> QED
      BY <1>2, <2>4, <3>2
  <2>6. Rest(list, i) = n + Rest(list, i + 1) /\ Rest(list, i + 1) \in Nat
    BY <1>1, <2>4, <2>5, RestTakes
  <2>7. /\ o + (24 + n * 32) <= size
        /\ (o + (24 + n * 32)) + (24 * (todo - 1) + (32 * Rest(list, i + 1) + rear)) = size
    <3>1. o + (24 * todo + (32 * (n + Rest(list, i + 1)) + rear)) = size
      BY <2>3, <2>6
    <3>2. PICK words \in Nat : words = Rest(list, i + 1)
      BY <2>6
    <3>3. o + (24 * todo + (32 * (n + words) + rear)) = size
      BY <3>1, <3>2
    <3>4. /\ o + (24 + n * 32) <= size
          /\ (o + (24 + n * 32)) + (24 * (todo - 1) + (32 * words + rear)) = size
      <4>1. /\ n \in Nat /\ todo \in Nat /\ todo > 0 /\ o \in Nat /\ rear \in Nat /\ size \in Nat
        BY ONLY <1>1, <1>3, <1>4, <2>1, <2>5
      <4> HIDE DEF rear
      <4> QED
        BY ONLY <3>3, <4>1, words \in Nat, CountedEntry
    <3> QED
      BY <3>2, <3>4
  <2>8. at' = "entry" /\ o' = o + (24 + n * 32) /\ o' \in Nat
    <3>1. 24 \in Nat /\ o + (24 + n * 32) <= extras_len /\ o + (24 + n * 32) \in Nat
      BY <1>4, <2>2, <2>5, <2>7, SMTT(20)
    <3> QED
      BY <1>4, <2>1, <2>2, <2>5, <3>1, WordsThere
  <2>9. Standing(d, size, last)'
    BY <1>1, <1>4, <2>1, <2>4, <2>8, StandingStill
  <2>10. o' + (24 * todo' + (32 * Rest(list, i + 1) + rear)) = size /\ todo' + (i + 1) = Len(list) + 1
    BY <2>1, <2>4, <2>7, <2>8
  <2> QED
    BY <1>6, <2>1, <2>2, <2>4, <2>5, <2>8, <2>9, <2>10 DEF Among
<1>14. ASSUME NEW n \in Numbers, DecodeBlobs(n) PROVE Kept
  <2>1. /\ at = "blobs" /\ Reads(n) /\ DecodeWords(4, n, "auths") /\ todo' = todo
        /\ UNCHANGED <<len, honest, randao, data_at, data_len, extras_len>>
    BY <1>14 DEF DecodeBlobs
  <2>2. data_len = d /\ extras_len = size /\ extras_len < Usize \div 2
    BY <1>10, <2>1 DEF Decoding
  <2>3. Reading(all, Len(list) + 4) /\ o + rear = size
    BY <2>1 DEF With, Among
  <2>4. n = blobs /\ Reading(all, Len(list) + 5)'
    <3>1. Len(list) + 4 \in Nat \ {0} /\ Len(list) + 4 <= Len(list) + 5 /\ Len(list) + 5 = Len(list) + 4 + 1
      BY <1>1
    <3> HIDE DEF all
    <3> QED
      BY <1>2, <1>4, <2>1, <2>3, <3>1, ReadsNext, SMTT(20)
  <2>5. o + (4 + blobs * 32) <= size /\ (o + (4 + blobs * 32)) + end = size
    <3>1. o + ((4 + blobs * 32) + end) = size
      BY <1>3, <2>3
    <3> QED
      BY ONLY <1>1, <1>3, <1>4, <3>1, CountedBlobs
  <2>6. at' = "auths" /\ o' = o + (4 + blobs * 32) /\ o' \in Nat
    <3>1. 4 \in Nat /\ o + (4 + blobs * 32) <= extras_len /\ o + (4 + blobs * 32) \in Nat
      BY <1>1, <1>4, <2>2, <2>5
    <3> QED
      BY <1>1, <1>4, <2>1, <2>2, <2>4, <3>1, WordsThere
  <2>7. Standing(d, size, last)'
    BY <1>4, <2>1, <2>6, StandingStill
  <2> QED
    BY <1>6, <2>1, <2>2, <2>4, <2>5, <2>6, <2>7 DEF Among
<1>15. ASSUME NEW n \in Numbers, DecodeCount("auths", "auth", AuthInMemory, n) PROVE Kept
  <2>1. /\ at = "auths" /\ Reads(n) /\ todo' = n
        /\ Take(4, IF Allocates(n, AuthInMemory) THEN "auth" ELSE "trapped")
        /\ UNCHANGED <<len, honest, randao, data_at, data_len, extras_len>>
    BY <1>15 DEF DecodeCount
  <2>2. data_len = d /\ extras_len = size /\ extras_len < Usize \div 2
    BY <1>10, <2>1 DEF Decoding
  <2>3. Reading(all, Len(list) + 5) /\ o + end = size
    BY <2>1 DEF With, Among
  <2>4. n = auths /\ Reading(all, Len(list) + 6)'
    <3>1. Len(list) + 5 \in Nat \ {0} /\ Len(list) + 5 <= Len(list) + 5 /\ Len(list) + 6 = Len(list) + 5 + 1
      BY <1>1
    <3> HIDE DEF all
    <3> QED
      BY <1>2, <1>4, <2>1, <2>3, <3>1, ReadsNext, SMTT(20)
  <2>5. o + 4 <= size /\ (o + 4) + (125 * auths + last) = size
    <3>1. o + (4 + (125 * auths + last)) = size
      BY <1>3, <2>3
    <3> QED
      BY ONLY <1>1, <1>4, <3>1, CountedAuths
  <2>6. at' = "auth" /\ o' = o + 4 /\ o' \in Nat
    <3>1. 4 \in Nat /\ o + 4 <= extras_len /\ o + 4 \in Nat
      BY <1>4, <2>2, <2>5
    <3> QED
      BY <1>1, <1>4, <2>1, <2>2, <2>4, <3>1, PartThere
  <2>7. Standing(d, size, last)'
    BY <1>1, <1>4, <2>1, <2>4, <2>6, StandingStill
  <2>8. o' + (125 * todo' + last) = size
    BY <2>1, <2>4, <2>5, <2>6
  <2> QED
    BY <1>6, <2>1, <2>2, <2>4, <2>6, <2>7, <2>8 DEF Among
<1>16. CASE DecodeAuth
  <2>1. /\ at = "auth" /\ todo > 0 /\ Take(125, "auth") /\ todo' = todo - 1
        /\ UNCHANGED <<len, honest, numbers, randao, data_at, data_len, extras_len, biggest>>
    BY <1>16 DEF DecodeAuth, Auth
  <2>2. data_len = d /\ extras_len = size /\ extras_len < Usize \div 2
    BY <1>10, <2>1 DEF Decoding
  <2>3. Reading(all, Len(list) + 6) /\ o + (125 * todo + last) = size
    BY <2>1 DEF With, Among
  <2>4. o + 125 <= size /\ (o + 125) + (125 * (todo - 1) + last) = size
    BY ONLY <1>1, <1>4, <2>1, <2>3, CountedAuth
  <2>5. at' = "auth" /\ o' = o + 125 /\ o' \in Nat
    <3>1. 125 \in Nat /\ o + 125 <= extras_len /\ o + 125 \in Nat
      BY <1>4, <2>2, <2>4
    <3> QED
      BY <1>4, <2>1, <2>2, <3>1, PartThere
  <2>6. Standing(d, size, last)'
    <3>1. todo' \in Nat
      BY <1>4, <2>1
    <3> QED
      BY <1>4, <2>1, <2>5, <3>1, StandingStill
  <2>7. Reading(all, Len(list) + 6)'
    BY <2>1, <2>3 DEF Reading
  <2>8. o' + (125 * todo' + last) = size
    BY <2>1, <2>4, <2>5
  <2> QED
    BY <1>6, <2>1, <2>2, <2>5, <2>6, <2>7, <2>8 DEF Among
<1>17. CASE DecodeRandao
  <2>1. /\ at = "randao" /\ Take(last, "data")
        /\ UNCHANGED <<len, honest, numbers, randao, data_at, data_len, extras_len, todo, biggest>>
    BY <1>4, <1>17 DEF DecodeRandao, Word, Standing
  <2>2. data_len = d /\ extras_len = size /\ extras_len < Usize \div 2
    BY <1>10, <2>1 DEF Decoding
  <2>3. Reading(all, Len(list) + 6) /\ o + last = size
    BY <2>1 DEF With, Among
  <2>4. at' = "data" /\ o' = size
    <3>1. o + last <= extras_len
      BY <1>1, <2>2, <2>3
    <3> QED
      BY <1>1, <1>4, <2>1, <2>2, <2>3, <3>1, PartThere
  <2>5. Standing(d, size, last)' /\ Reading(all, Len(list) + 6)'
    BY <1>1, <1>4, <2>1, <2>3, <2>4, StandingStill DEF Reading
  <2> QED
    BY <1>6, <2>1, <2>2, <2>4, <2>5 DEF Among
<1>18. CASE DecodeData
  <2>1. at = "data" /\ data_len = d /\ extras_len = size
    BY <1>10, <1>18 DEF DecodeData
  <2>2. Reading(all, Len(list) + 6) /\ o = size
    BY <2>1 DEF With, Among
  <2>3. /\ at' = "accepted" /\ Standing(d, size, last)'
        /\ UNCHANGED <<numbers, data_len, extras_len, o>>
    BY <1>1, <1>4, <1>18, <2>1, DataTaken
  <2>4. Reading(all, Len(list) + 6)'
    BY <2>2, <2>3 DEF Reading
  <2> QED
    BY <1>6, <2>1, <2>2, <2>3, <2>4 DEF Among
<1>19. CASE NoMore
  <2>1. /\ todo = 0
        /\ UNCHANGED <<len, honest, numbers, randao, data_at, data_len, extras_len, o, todo, biggest>>
    BY <1>19 DEF NoMore, Ends
  <2>2. Standing(d, size, last)'
    BY <1>4, <2>1, StandingStill
  <2>3. ASSUME at = "entry", at' = "blobs" PROVE Kept
    <3>1. PICK i \in 1..Len(list) + 1 :
             /\ Reading(all, 3 + i) /\ todo + i = Len(list) + 1
             /\ o + (24 * todo + (32 * Rest(list, i) + rear)) = size
      BY <2>3 DEF With, Among
    <3>2. i = Len(list) + 1 /\ 3 + i = Len(list) + 4
      BY <1>1, <2>1, <3>1
    <3>3. Rest(list, i) = 0
      BY <1>1, <3>2, RestTakes
    <3>4. o + rear = size
      BY <1>3, <1>4, <2>1, <3>1, <3>3
    <3>5. Reading(all, Len(list) + 4)'
      BY <2>1, <3>1, <3>2 DEF Reading
    <3>6. data_len = d /\ extras_len = size
      BY <1>10, <2>3 DEF Decoding
    <3> QED
      BY <1>6, <2>1, <2>2, <2>3, <3>4, <3>5, <3>6 DEF Among
  <2>4. ASSUME at = "auth", at' = "randao" PROVE Kept
    <3>1. Reading(all, Len(list) + 6) /\ o + (125 * todo + last) = size
      BY <2>4 DEF With, Among
    <3>2. o + last = size
      BY <1>1, <1>4, <2>1, <3>1
    <3>3. Reading(all, Len(list) + 6)'
      BY <2>1, <3>1 DEF Reading
    <3>4. data_len = d /\ extras_len = size
      BY <1>10, <2>4 DEF Decoding
    <3> QED
      BY <1>6, <2>1, <2>2, <2>4, <3>2, <3>3, <3>4 DEF Among
  <2> QED
    BY <1>19, <2>3, <2>4 DEF NoMore, Ends
\* No part is missing.
<1>20. CASE Truncated
  <2>1. at \in Decoding
    BY <1>20 DEF Truncated, Decoding
  <2>2. extras_len = size /\ extras_len < Usize \div 2
    BY <1>10, <2>1
  <2>3. ASSUME NEW k \in Nat, o + k <= size PROVE need(k)
    BY <1>4, <2>2, <2>3, PartThere
  <2>4. CASE at = "entries"
    <3>1. 76 + 4 <= size
      BY ONLY <1>1, <1>3, CountedList, SMTT(20)
    <3>2. need(4)
      BY <2>3, <2>4, <3>1 DEF With, Among
    <3> QED
      BY <1>20, <2>4, <3>2 DEF Truncated
  <2>5. CASE at = "entry"
    <3>1. todo > 0 /\ ~ need(24)
      BY <1>20, <2>5 DEF Truncated, Entry
    <3>2. PICK i \in 1..Len(list) + 1 :
             todo + i = Len(list) + 1 /\ o + (24 * todo + (32 * Rest(list, i) + rear)) = size
      BY <2>5 DEF With, Among
    <3>3. PICK words \in Nat : words = Rest(list, i)
      BY <1>1, RestTakes
    <3>4. o + (24 * todo + (32 * (0 + words) + rear)) = size
      BY <3>2, <3>3
    <3>5. o + 24 <= size
      BY ONLY <1>1, <1>3, <1>4, <3>1, <3>4, words \in Nat, 0 \in Nat, CountedEntry, SMTT(20)
    <3> QED
      BY <2>3, <3>1, <3>5
  <2>6. CASE at = "blobs"
    <3>1. o + rear = size
      BY <2>6 DEF With, Among
    <3>2. o + 4 <= size
      BY <1>1, <1>3, <1>4, <3>1
    <3> QED
      BY <1>20, <2>3, <2>6, <3>2 DEF Truncated
  <2>7. CASE at = "auths"
    <3>1. o + end = size
      BY <2>7 DEF With, Among
    <3>2. o + 4 <= size
      BY <1>1, <1>3, <1>4, <3>1
    <3> QED
      BY <1>20, <2>3, <2>7, <3>2 DEF Truncated
  <2>8. CASE at = "auth"
    <3>1. todo > 0 /\ ~ need(125)
      BY <1>20, <2>8 DEF Truncated, Auth
    <3>2. o + (125 * todo + last) = size
      BY <2>8 DEF With, Among
    <3>3. o + 125 <= size
      BY ONLY <1>1, <1>4, <3>1, <3>2, CountedAuth
    <3> QED
      BY <2>3, <3>1, <3>3
  <2>9. CASE at = "randao"
    <3>1. randao /\ ~ need(32)
      BY <1>20, <2>9 DEF Truncated, Word
    <3>2. o + last = size /\ last = 32
      BY <1>4, <2>9, <3>1 DEF With, Among, Standing
    <3>3. o + 32 <= size
      BY <1>1, <3>2
    <3> QED
      BY <2>3, <3>1, <3>3
  <2> QED
    BY <2>1, <2>4, <2>5, <2>6, <2>7, <2>8, <2>9 DEF Decoding
<1>21. CASE Ended
  BY <1>21, ZenonT(60) DEF Ended, vars, With, Sent, Standing, Among, Reading
<1> QED
  BY <1>7, <1>8, <1>9, <1>11, <1>12, <1>13, <1>14, <1>15, <1>16, <1>17, <1>18, <1>19, <1>20, <1>21
  DEF Next

-----------------------------------------------------------------------------
(* Every request the package makes is one of these.                        *)

Honest ==
    honest => \/ \E d : Plain(d)
              \/ \E d, size, list, blobs, auths, last : With(d, size, list, blobs, auths, last)

LEMMA HonestStart == Init => Honest
<1> SUFFICES ASSUME Init, honest PROVE Honest
  BY DEF Honest
<1>1. /\ at = "head" /\ data_at = 144 /\ data_len = 0 /\ extras_len = 0 /\ o = 0 /\ todo = 0
  BY DEF Init, REQ_HEAD
<1>2. Encoded
  BY DEF Init, Start
<1>3. ASSUME NEW d \in Data, Start(REQ_HEAD + 8 + d, TRUE, <<d, 0>>, FALSE) PROVE Honest
  <2>1. /\ len = 140 + 8 + d /\ honest = TRUE /\ numbers = <<d, 0>> /\ randao = FALSE
    BY <1>3 DEF Start, REQ_HEAD
  <2>2. d \in Nat /\ 140 + 8 + d = 148 + d + 0
    BY BoundsAssumption
  <2>3. 148 + d + 0 < Usize \div 2
    <3>1. (140 + 8 + d) * 1 < Usize \div 2
      BY HonestAssumption DEF Allocates, REQ_HEAD
    <3>2. (140 + 8 + d) * 1 = 148 + d + 0
      BY <2>2
    <3> QED
      BY <3>1, <3>2
  <2>4. Standing(d, 0, 0)
    BY <1>1, <2>1, <2>2 DEF Standing
  <2>5. Reading(<<d, 0>>, 1)
    BY <2>1, <2>2 DEF Reading
  <2>6. Plain(d)
    BY <1>1, <2>2, <2>3, <2>4, <2>5 DEF Plain
  <2> QED
    BY <2>6 DEF Honest
<1>4. ASSUME NEW d \in Data, NEW list \in Lists, NEW blobs \in Few, NEW auths \in Few,
             NEW r \in BOOLEAN,
             Start(REQ_HEAD + 8 + d + ExtrasSize(list, blobs, auths, r), TRUE,
                   <<d, ExtrasSize(list, blobs, auths, r), Len(list)>> \o list
                     \o <<blobs, auths>>, r)
      PROVE  Honest
  <2> DEFINE size == ExtrasSize(list, blobs, auths, r)
             most == ExtrasSize(list, blobs, auths, TRUE)
             last == IF r THEN 32 ELSE 0
             all == Said(d, size, list, blobs, auths)
  <2>1. /\ list \in Seq(Nat) /\ Len(list) \in Nat /\ blobs \in Nat /\ auths \in Nat
        /\ Rest(list, 1) \in Nat /\ size \in Nat /\ most \in Nat /\ size <= most
        /\ size = SizeOf(Len(list), Rest(list, 1), blobs, auths, r)
    <3>1. TRUE \in BOOLEAN
      OBVIOUS
    <3> QED
      BY <3>1, SizeType
  <2>2. d \in Nat /\ last \in Nat
    BY BoundsAssumption
  <2>3. size = 80 + (24 * Len(list) + (32 * Rest(list, 1) + AfterList(blobs, auths, last)))
    <3>1. \A entries, keys, b, a \in Nat : \A x \in BOOLEAN :
             SizeOf(entries, keys, b, a, x)
               = 80 + (24 * entries + (32 * keys + AfterList(b, a, IF x THEN 32 ELSE 0)))
      BY DEF SizeOf, AfterList, AfterBlobs
    <3> QED
      BY ONLY <2>1, <3>1, r \in BOOLEAN DEF last
  <2>4. /\ len = REQ_HEAD + 8 + d + size /\ honest = TRUE /\ numbers = all /\ randao = r
    BY <1>4 DEF Start, Said
  <2>5. /\ (REQ_HEAD + 8 + d + most) * 1 < Usize \div 2
        /\ Allocates(Len(list), Item) /\ Allocates(auths, AuthInMemory)
    BY HonestAssumption DEF Allocates
  <2> HIDE DEF size, most, last
  <2>6. 148 + d + size < Usize \div 2 /\ REQ_HEAD + 8 + d + size = 148 + d + size
    <3>1. \A half, s, m \in Nat : s <= m /\ (140 + 8 + d + m) * 1 < half
                                    => 148 + d + s < half /\ 140 + 8 + d + s = 148 + d + s
      BY <2>2
    <3> QED
      BY <2>1, <2>5, <3>1, HalfUsize DEF REQ_HEAD
  <2>7. Sent(d, size, list, blobs, auths, last)
    BY <2>1, <2>2, <2>3, <2>5, <2>6 DEF Sent
  <2>8. Standing(d, size, last)
    BY <1>1, <2>4, <2>6 DEF Standing, last
  <2>9. Reading(all, 1)
    <3>1. all \in Seq(Nat)
      <4>1. Says(all, d, size, list, blobs, auths)
        BY <2>1, <2>2, SaidAt
      <4> HIDE DEF all
      <4> QED
        BY <4>1 DEF Says
    <3> HIDE DEF all
    <3> QED
      BY <2>4, <3>1 DEF Reading
  <2>10. With(d, size, list, blobs, auths, last)
    BY <1>1, <2>7, <2>8, <2>9 DEF With, Among
  <2> QED
    BY <2>10 DEF Honest
<1> QED
  BY <1>2, <1>3, <1>4 DEF Encoded

LEMMA HonestStep == Honest /\ [Next]_vars => Honest'
<1> SUFFICES ASSUME Honest, [Next]_vars, honest' PROVE Honest'
  BY DEF Honest
<1>1. honest
  BY DEF Next, vars, Ended, DecodeHead, DecodeExtras, Truncated, DecodeAuth, NoMore, DecodeRandao,
     DecodeData, DecodeDataLength, DecodeExtrasLength, DecodeCount, DecodeEntry, DecodeBlobs, Ends
<1>2. ASSUME NEW d, Plain(d) PROVE Honest'
  <2>1. Plain(d)'
    <3>1. CASE Next
      BY <1>2, <3>1, PlainStep
    <3>2. CASE UNCHANGED vars
      BY <1>2, <3>2 DEF vars, Plain, Standing, Reading
    <3> QED
      BY <3>1, <3>2
  <2> QED
    BY <2>1 DEF Honest
<1>3. ASSUME NEW d, NEW size, NEW list, NEW blobs, NEW auths, NEW last,
             With(d, size, list, blobs, auths, last)
      PROVE  Honest'
  <2>1. With(d, size, list, blobs, auths, last)'
    <3>1. CASE Next
      BY <1>3, <3>1, WithStep
    <3>2. CASE UNCHANGED vars
      BY <1>3, <3>2 DEF vars, With, Sent, Standing, Among, Reading
    <3> QED
      BY <3>1, <3>2
  <2> QED
    BY <2>1 DEF Honest
<1> QED
  BY <1>1, <1>2, <1>3 DEF Honest

\* A request that encodeRequest makes of any call that fits a vector is accepted by
\* decode_request, for any number of entries, keys, blob hashes and authorizations, and
\* every byte of it belongs to a part.
THEOREM SizesAgree == Spec => []EncoderAgrees
<1>1. ASSUME NEW d, Plain(d) PROVE EncoderAgrees
  <2>1. at \notin {"rejected", "trapped"} /\ len = 148 + d + 0 /\ d \in Nat /\ o = 0
    BY <1>1 DEF Plain, Standing
  <2>2. ASSUME at = "accepted"
        PROVE  numbers = <<>> /\ data_len = d /\ extras_len = 0
    <3>1. Reading(<<d, 0>>, 3) /\ data_len = d /\ extras_len = 0
      BY <1>1, <2>2 DEF Plain
    <3>2. <<d, 0>> \in Seq(Nat) /\ Len(<<d, 0>>) + 1 = 3
      BY <2>1
    <3> QED
      BY <3>1, <3>2, ReadsNothing
  <2>3. 140 + 8 + d + 0 = 148 + d + 0
    BY <2>1
  <2> QED
    BY <2>1, <2>2, <2>3 DEF EncoderAgrees, REQ_HEAD
<1>2. ASSUME NEW d, NEW size, NEW list, NEW blobs, NEW auths, NEW last,
             With(d, size, list, blobs, auths, last)
      PROVE  EncoderAgrees
  <2> DEFINE all == Said(d, size, list, blobs, auths)
  <2>1. /\ d \in Nat /\ size \in Nat /\ list \in Seq(Nat) /\ blobs \in Nat /\ auths \in Nat
        /\ Len(list) \in Nat /\ len = 148 + d + size /\ at \notin {"rejected", "trapped"}
    BY <1>2 DEF With, Sent, Standing, Among
  <2>2. ASSUME at = "accepted"
        PROVE  numbers = <<>> /\ data_len = d /\ extras_len = size /\ o = size
    <3>1. Reading(all, Len(list) + 6) /\ data_len = d /\ extras_len = size /\ o = size
      BY <1>2, <2>2 DEF With, Among
    <3>2. all \in Seq(Nat) /\ Len(all) = Len(list) + 5
      <4>1. Says(all, d, size, list, blobs, auths)
        BY <2>1, SaidAt
      <4> HIDE DEF all
      <4> QED
        BY <4>1 DEF Says
    <3>3. Len(list) + 5 + 1 = Len(list) + 6
      BY <2>1
    <3> HIDE DEF all
    <3> QED
      BY <3>1, <3>2, <3>3, ReadsNothing
  <2>3. 140 + 8 + d + size = 148 + d + size
    BY <2>1
  <2> QED
    BY <2>1, <2>2, <2>3 DEF EncoderAgrees, REQ_HEAD
<1>3. Honest => EncoderAgrees
  BY <1>1, <1>2 DEF Honest, EncoderAgrees
<1> QED
  BY <1>3, HonestStart, HonestStep, PTL DEF Spec
=============================================================================
