------------------------- MODULE OutcomeCodecProofs -------------------------
(***************************************************************************)
(* What holds of the outcome blob and its decoder for any results, any     *)
(* changes and any orders in which the maps may be iterated.               *)
(*                                                                         *)
(* What the encoder puts together is first described place by place        *)
(* (Outcome), and the decoder is then followed along that description.     *)
(***************************************************************************)
EXTENDS OutcomeCodec, FiniteSetTheorems, SequenceTheorems, WellFoundedInduction, TLAPS

-----------------------------------------------------------------------------
(* Induction, by the least number for which something fails.               *)

LessThan == {ss \in Nat \X Nat : ss[1] < ss[2]}

\* A set of numbers with 0 in it and the successor of each of its members is all.
LEMMA AllNat ==
    ASSUME NEW T, 0 \in T, \A n \in Nat : n \in T => n + 1 \in T
    PROVE  Nat \subseteq T
<1> SUFFICES ASSUME Nat \ T # {} PROVE FALSE
  OBVIOUS
<1>0. IsWellFoundedOn(LessThan, Nat)
  BY ONLY NatLessThanWellFounded DEF OpToRel, LessThan
<1>1. PICK m \in Nat \ T : \A n \in Nat \ T : ~ (<<n, m>> \in LessThan)
  BY <1>0, WFMin
<1>2. m # 0 /\ m - 1 \in Nat /\ m - 1 < m
  BY <1>1
<1>3. m - 1 \in T
  BY <1>1, <1>2 DEF LessThan
<1> QED
  BY <1>2, <1>3

-----------------------------------------------------------------------------
(* Sequences that stand in others.                                         *)

IsSeq(s) == \E S : s \in Seq(S)

\* What a concatenation is, field by field.
LEMMA Concat ==
    ASSUME NEW s, NEW t, IsSeq(s), IsSeq(t)
    PROVE  /\ IsSeq(s \o t)
           /\ Len(s) \in Nat /\ Len(t) \in Nat
           /\ Len(s \o t) = Len(s) + Len(t)
           /\ \A i \in 1..Len(s) : (s \o t)[i] = s[i]
           /\ \A i \in 1..Len(t) : (s \o t)[Len(s) + i] = t[i]
<1>1. PICK S : s \in Seq(S)
  BY DEF IsSeq
<1>2. PICK T : t \in Seq(T)
  BY DEF IsSeq
<1> DEFINE U == S \cup T
<1>3. s \in Seq(U) /\ t \in Seq(U)
  BY <1>1, <1>2
<1> HIDE DEF U
<1>4. Len(s) \in Nat /\ Len(t) \in Nat
  BY <1>3, LenProperties
<1>5. /\ s \o t \in Seq(U)
      /\ Len(s \o t) = Len(s) + Len(t)
      /\ \A i \in 1 .. Len(s) + Len(t) : (s \o t)[i] =
             IF i <= Len(s) THEN s[i] ELSE t[i - Len(s)]
  BY <1>3, ConcatProperties
<1>6. \A i \in 1..Len(s) : (s \o t)[i] = s[i]
  BY <1>4, <1>5
<1>7. ASSUME NEW i \in 1..Len(t) PROVE (s \o t)[Len(s) + i] = t[i]
  <2>1. Len(s) + i \in 1 .. Len(s) + Len(t) /\ ~ (Len(s) + i <= Len(s))
        /\ (Len(s) + i) - Len(s) = i
    BY <1>4
  <2> QED
    BY <1>5, <2>1
<1> QED
  BY <1>4, <1>5, <1>6, <1>7 DEF IsSeq

\* What the length of a sequence is.
LEMMA LenNat == ASSUME NEW s, IsSeq(s) PROVE Len(s) \in Nat /\ DOMAIN s = 1..Len(s)
  BY LenProperties DEF IsSeq

LEMMA EmptyIsSeq == IsSeq(<<>>) /\ Len(<<>>) = 0
<1>1. <<>> \in Seq({})
  OBVIOUS
<1> QED
  BY <1>1 DEF IsSeq

\* s stands in b from place p on, and q is the place after it.
Spans(b, p, s, q) ==
    /\ p \in Nat \ {0} /\ q = p + Len(s) /\ q <= Len(b) + 1
    /\ \A i \in 1..Len(s) : b[p + i - 1] = s[i]

\* A blob spans itself.
LEMMA SpansAll ==
    ASSUME NEW b, IsSeq(b)
    PROVE  Spans(b, 1, b, Len(b) + 1)
  BY LenNat DEF Spans

\* Where a concatenation stands, its two halves stand one after the other.
LEMMA SpansConcat ==
    ASSUME NEW b, NEW p, NEW s, NEW t, NEW q, IsSeq(b), IsSeq(s), IsSeq(t),
           Spans(b, p, s \o t, q)
    PROVE  \E m \in Nat \ {0} : Spans(b, p, s, m) /\ Spans(b, m, t, q)
<1> DEFINE m == p + Len(s)
<1>1. Len(s) \in Nat /\ Len(t) \in Nat /\ Len(b) \in Nat
  BY LenNat
<1>2. p \in Nat \ {0} /\ q = p + Len(s \o t) /\ q <= Len(b) + 1
      /\ \A i \in 1..Len(s \o t) : b[p + i - 1] = (s \o t)[i]
  BY DEF Spans
<1>3. /\ Len(s \o t) = Len(s) + Len(t)
      /\ \A i \in 1..Len(s) : (s \o t)[i] = s[i]
      /\ \A i \in 1..Len(t) : (s \o t)[Len(s) + i] = t[i]
  BY Concat
<1>4. m \in Nat \ {0} /\ q = m + Len(t) /\ m <= Len(b) + 1
  BY <1>1, <1>2, <1>3
<1>5. ASSUME NEW i \in 1..Len(s) PROVE b[p + i - 1] = s[i]
  <2>1. i \in 1..Len(s \o t)
    BY <1>1, <1>3
  <2> QED
    BY <1>2, <1>3, <2>1
<1>6. ASSUME NEW i \in 1..Len(t) PROVE b[m + i - 1] = t[i]
  <2>1. Len(s) + i \in 1..Len(s \o t) /\ p + (Len(s) + i) - 1 = m + i - 1
    BY <1>1, <1>2, <1>3
  <2> QED
    BY <1>2, <1>3, <2>1
<1> QED
  BY <1>2, <1>4, <1>5, <1>6 DEF Spans

-----------------------------------------------------------------------------
(* A list of parts, one after the other.                                   *)

FlatStep(P, g, i) == IF i = 1 THEN P[i] ELSE g[i - 1] \o P[i]
Flats(P) == CHOOSE g : g = [i \in 1..Len(P) |-> FlatStep(P, g, i)]

\* FlattenSeq takes the parts together one after the other.
LEMMA FlattenIs ==
    ASSUME NEW P, Len(P) # 0 PROVE FlattenSeq(P) = Flats(P)[Len(P)]
  BY DEF FlattenSeq, Flats, FlatStep

\* The partial concatenations exist, one step after another.
LEMMA FlatsDefined ==
    ASSUME NEW P, Len(P) \in Nat
    PROVE  Flats(P) = [i \in 1..Len(P) |-> FlatStep(P, Flats(P), i)]
<1> DEFINE Ok(g, n) == g = [i \in 1..n |-> FlatStep(P, g, i)]
           Good == {n \in Nat : \E g : Ok(g, n)}
<1>1. 0 \in Good
  <2> DEFINE g == [i \in 1..0 |-> 0]
  <2>1. g = [i \in 1..0 |-> FlatStep(P, g, i)]
    OBVIOUS
  <2> QED
    BY <2>1
<1>2. ASSUME NEW n \in Nat, n \in Good PROVE n + 1 \in Good
  <2>1. PICK g : Ok(g, n)
    BY <1>2
  <2> DEFINE h == [i \in 1..(n + 1) |-> FlatStep(P, g, i)]
  <2>2. ASSUME NEW i \in 1..n PROVE h[i] = g[i]
    BY <2>1
  <2>3. ASSUME NEW i \in 1..(n + 1) PROVE FlatStep(P, g, i) = FlatStep(P, h, i)
    <3>1. CASE i = 1
      BY <3>1 DEF FlatStep
    <3>2. CASE i # 1
      <4>1. i - 1 \in 1..n
        BY <3>2
      <4>2. h[i - 1] = g[i - 1]
        BY <2>2, <4>1
      <4> HIDE DEF h
      <4> QED
        BY <4>2 DEF FlatStep
    <3> QED
      BY <3>1, <3>2
  <2>4. h = [i \in 1..(n + 1) |-> FlatStep(P, h, i)]
    <3> DEFINE k == [i \in 1..(n + 1) |-> FlatStep(P, h, i)]
    <3>1. \A i \in 1..(n + 1) : h[i] = k[i]
      BY <2>3
    <3> QED
      BY <3>1
  <2> HIDE DEF h
  <2> QED
    BY <2>4
<1> HIDE DEF Good
<1>3. Nat \subseteq Good
  BY <1>1, <1>2, AllNat
<1>4. PICK g : Ok(g, Len(P))
  BY <1>3 DEF Good
<1> QED
  BY <1>4 DEF Flats

\* The first k parts.
First(P, k) == IF k = 0 THEN <<>> ELSE Flats(P)[k]

\* One more part, and its length.
LEMMA FirstNext ==
    ASSUME NEW P, Len(P) \in Nat, NEW k \in 1..Len(P), IsSeq(P[k])
    PROVE  First(P, k) = First(P, k - 1) \o P[k]
<1>1. Flats(P)[k] = FlatStep(P, Flats(P), k)
  BY FlatsDefined
<1>2. CASE k = 1
  <2>1. PICK S : P[k] \in Seq(S)
    BY DEF IsSeq
  <2>2. <<>> \o P[k] = P[k]
    BY <2>1, ConcatEmptySeq
  <2> QED
    BY <1>1, <1>2, <2>2 DEF First, FlatStep
<1>3. CASE k # 1
  <2>1. k # 0 /\ k - 1 # 0
    BY <1>3
  <2>2. First(P, k) = Flats(P)[k] /\ First(P, k - 1) = Flats(P)[k - 1]
    BY <2>1 DEF First
  <2> QED
    BY <1>1, <1>3, <2>2 DEF FlatStep
<1> QED
  BY <1>2, <1>3

\* Every partial concatenation is a sequence.
LEMMA FirstIsSeq ==
    ASSUME NEW P, Len(P) \in Nat, \A i \in 1..Len(P) : IsSeq(P[i]), NEW k \in 0..Len(P)
    PROVE  IsSeq(First(P, k))
<1> DEFINE Good == {n \in Nat : n <= Len(P) => IsSeq(First(P, n))}
<1>1. 0 \in Good
  BY EmptyIsSeq DEF First
<1>2. ASSUME NEW n \in Nat, n \in Good PROVE n + 1 \in Good
  <2> SUFFICES ASSUME n + 1 <= Len(P) PROVE IsSeq(First(P, n + 1))
    OBVIOUS
  <2>1. n + 1 \in 1..Len(P) /\ (n + 1) - 1 = n /\ n <= Len(P)
    OBVIOUS
  <2>2. First(P, n + 1) = First(P, n) \o P[n + 1]
    BY <2>1, FirstNext
  <2>3. IsSeq(First(P, n)) /\ IsSeq(P[n + 1])
    BY <1>2, <2>1
  <2>4. IsSeq(First(P, n) \o P[n + 1])
    BY <2>3, Concat
  <2> QED
    BY <2>2, <2>4
<1> HIDE DEF Good
<1>3. Nat \subseteq Good
  BY <1>1, <1>2, AllNat
<1> QED
  BY <1>3 DEF Good

\* FlattenSeq is the last of them.
LEMMA FlattenFirst ==
    ASSUME NEW P, IsSeq(P), \A i \in 1..Len(P) : IsSeq(P[i])
    PROVE  FlattenSeq(P) = First(P, Len(P)) /\ IsSeq(FlattenSeq(P))
<1>1. Len(P) \in Nat
  BY LenNat
<1>2. CASE Len(P) = 0
  <2>1. P = <<>>
    BY <1>2, EmptySeq DEF IsSeq
  <2> QED
    BY <1>2, <2>1, EmptyIsSeq DEF FlattenSeq, First
<1>3. CASE Len(P) # 0
  BY <1>1, <1>3, FlattenIs, FirstIsSeq DEF First
<1> QED
  BY <1>2, <1>3

\* Where parts stand one after the other, each stands after the one before it.
Parts(b, p, P, q, off) ==
    /\ off[0] = p /\ off[Len(P)] = q
    /\ \A k \in 0..Len(P) : off[k] \in Nat \ {0} /\ off[k] <= Len(b) + 1
    /\ \A k \in 1..Len(P) : Spans(b, off[k - 1], P[k], off[k])

\* Where a flattened list stands, each of its parts stands at a place of its own.
LEMMA FlattenSpans ==
    ASSUME NEW b, NEW p, NEW P, NEW q, IsSeq(b), IsSeq(P),
           \A i \in 1..Len(P) : IsSeq(P[i]), Spans(b, p, FlattenSeq(P), q)
    PROVE  \E off : Parts(b, p, P, q, off)
<1> DEFINE N == Len(P)
           off == [k \in 0..N |-> p + Len(First(P, k))]
           Good == {j \in Nat : j <= N => Spans(b, p, First(P, N - j), off[N - j])}
<1>0. N \in Nat /\ p \in Nat \ {0} /\ Len(b) \in Nat
  BY LenNat DEF Spans
<1>1. \A k \in 0..N : IsSeq(First(P, k))
  BY <1>0, FirstIsSeq
<1>2. \A k \in 0..N : Len(First(P, k)) \in Nat /\ off[k] = p + Len(First(P, k))
  BY <1>1, LenNat
<1>3. 0 \in Good
  <2>1. N - 0 = N /\ N \in 0..N
    BY <1>0
  <2>2. FlattenSeq(P) = First(P, N)
    BY FlattenFirst
  <2>3. Spans(b, p, First(P, N), q) /\ q = p + Len(First(P, N))
    BY <2>2 DEF Spans
  <2> QED
    BY <1>2, <2>1, <2>3
<1> HIDE DEF N
<1>4. ASSUME NEW k \in 1..N, Spans(b, p, First(P, k), off[k])
      PROVE  Spans(b, p, First(P, k - 1), off[k - 1]) /\ Spans(b, off[k - 1], P[k], off[k])
  <2>1. k - 1 \in 0..N /\ k \in 0..N
    BY <1>0
  <2>2. IsSeq(P[k])
    BY DEF N
  <2>3. First(P, k) = First(P, k - 1) \o P[k]
    BY <1>0, <2>2, FirstNext DEF N
  <2>4. PICK m \in Nat \ {0} : Spans(b, p, First(P, k - 1), m) /\ Spans(b, m, P[k], off[k])
    BY <1>1, <1>4, <2>1, <2>2, <2>3, SpansConcat
  <2>5. m = off[k - 1]
    BY <1>2, <2>1, <2>4 DEF Spans
  <2> QED
    BY <2>4, <2>5
<1> HIDE DEF off
<1>5. ASSUME NEW j \in Nat, j \in Good PROVE j + 1 \in Good
  <2> SUFFICES ASSUME j + 1 <= N PROVE Spans(b, p, First(P, N - (j + 1)), off[N - (j + 1)])
    OBVIOUS
  <2>1. N - j \in 1..N /\ (N - j) - 1 = N - (j + 1) /\ j <= N
    BY <1>0
  <2>2. Spans(b, p, First(P, N - j), off[N - j])
    BY <1>5, <2>1
  <2> QED
    BY <1>4, <2>1, <2>2
<1> HIDE DEF Good
<1>6. Nat \subseteq Good
  BY <1>3, <1>5, AllNat
<1>7. ASSUME NEW k \in 0..N PROVE Spans(b, p, First(P, k), off[k])
  <2>1. N - k \in Nat /\ N - k <= N /\ N - (N - k) = k
    BY <1>0
  <2> QED
    BY <1>6, <2>1 DEF Good
<1>8. \A k \in 1..N : Spans(b, off[k - 1], P[k], off[k])
  BY <1>0, <1>4, <1>7
<1>9. \A k \in 0..N : off[k] \in Nat \ {0} /\ off[k] <= Len(b) + 1
  <2> TAKE k \in 0..N
  <2>1. off[k] <= Len(b) + 1
    BY <1>7 DEF Spans
  <2>2. off[k] \in Nat \ {0}
    BY <1>0, <1>2
  <2> QED
    BY <2>1, <2>2
<1>10. off[0] = p
  BY <1>0, <1>2, EmptyIsSeq DEF First
<1>11. off[N] = q
  <2>1. q = p + Len(First(P, N))
    BY FlattenFirst DEF N, Spans
  <2> QED
    BY <1>0, <1>2, <2>1
<1> QED
  BY <1>8, <1>9, <1>10, <1>11 DEF Parts, N

\* A list of so many members is a sequence.
LEMMA ListIsSeq ==
    ASSUME NEW n \in Nat, NEW P, P = [i \in 1..n |-> P[i]]
    PROVE  IsSeq(P) /\ Len(P) = n
<1> DEFINE S == {P[i] : i \in 1..n}
<1>1. P \in [1..n -> S]
  BY Zenon
<1>2. P \in Seq(S)
  BY <1>1, SeqDef
<1>3. Len(P) \in Nat /\ DOMAIN P = 1..Len(P) /\ DOMAIN P = 1..n
  BY <1>1, <1>2, LenProperties
<1>4. Len(P) = n
  BY <1>3
<1> QED
  BY <1>2, <1>4 DEF IsSeq

\* Parts of the same length stand at regular distances.
LEMMA StrideOne ==
    ASSUME NEW b, NEW p, NEW P, NEW q, NEW off, IsSeq(P), p \in Nat,
           Parts(b, p, P, q, off), \A i \in 1..Len(P) : Len(P[i]) = 1
    PROVE  /\ q = p + Len(P)
           /\ \A k \in 1..Len(P) : Spans(b, p + k - 1, P[k], p + k)
<1> DEFINE Good == {n \in Nat : n <= Len(P) => off[n] = p + n}
<1>0. Len(P) \in Nat
  BY LenNat
<1>1. 0 \in Good
  BY DEF Parts
<1>2. ASSUME NEW n \in Nat, n \in Good PROVE n + 1 \in Good
  <2> SUFFICES ASSUME n + 1 <= Len(P) PROVE off[n + 1] = p + (n + 1)
    OBVIOUS
  <2>1. n + 1 \in 1..Len(P) /\ (n + 1) - 1 = n /\ n <= Len(P)
    BY <1>0
  <2>2. off[n + 1] = off[n] + Len(P[n + 1])
    BY <2>1 DEF Parts, Spans
  <2>3. off[n + 1] = (p + n) + 1
    BY <1>2, <2>1, <2>2
  <2> QED
    BY <2>3
<1> HIDE DEF Good
<1>3. Nat \subseteq Good
  BY <1>1, <1>2, AllNat
<1>4. \A k \in 0..Len(P) : off[k] = p + k
  BY <1>0, <1>3 DEF Good
<1>5. q = p + Len(P)
  BY <1>0, <1>4 DEF Parts
<1>6. ASSUME NEW k \in 1..Len(P) PROVE Spans(b, p + k - 1, P[k], p + k)
  <2>1. off[k] = p + k /\ off[k - 1] = p + k - 1
    BY <1>0, <1>4
  <2> QED
    BY <2>1 DEF Parts
<1> QED
  BY <1>5, <1>6

\* Parts of two fields each lie two apart.
LEMMA StrideTwo ==
    ASSUME NEW b, NEW p, NEW P, NEW q, NEW off, IsSeq(P), p \in Nat,
           Parts(b, p, P, q, off), \A i \in 1..Len(P) : Len(P[i]) = 2
    PROVE  /\ q = p + 2 * Len(P)
           /\ \A k \in 1..Len(P) : Spans(b, p + 2 * k - 2, P[k], p + 2 * k)
<1> DEFINE Good == {n \in Nat : n <= Len(P) => off[n] = p + 2 * n}
<1>0. Len(P) \in Nat
  BY LenNat
<1>1. 0 \in Good
  BY DEF Parts
<1>2. ASSUME NEW n \in Nat, n \in Good PROVE n + 1 \in Good
  <2> SUFFICES ASSUME n + 1 <= Len(P) PROVE off[n + 1] = p + 2 * (n + 1)
    OBVIOUS
  <2>1. n + 1 \in 1..Len(P) /\ (n + 1) - 1 = n /\ n <= Len(P)
    BY <1>0
  <2>2. off[n + 1] = off[n] + Len(P[n + 1])
    BY <2>1 DEF Parts, Spans
  <2>3. off[n + 1] = (p + 2 * n) + 2
    BY <1>2, <2>1, <2>2
  <2> QED
    BY <2>3
<1> HIDE DEF Good
<1>3. Nat \subseteq Good
  BY <1>1, <1>2, AllNat
<1>4. \A k \in 0..Len(P) : off[k] = p + 2 * k
  BY <1>0, <1>3 DEF Good
<1>5. q = p + 2 * Len(P)
  BY <1>0, <1>4 DEF Parts
<1>6. ASSUME NEW k \in 1..Len(P) PROVE Spans(b, p + 2 * k - 2, P[k], p + 2 * k)
  <2>1. off[k] = p + 2 * k /\ off[k - 1] = p + 2 * k - 2
    BY <1>0, <1>4
  <2> QED
    BY <2>1 DEF Parts
<1> QED
  BY <1>5, <1>6

-----------------------------------------------------------------------------
(* Fields.                                                                 *)

FieldAt(b, p, kind, value) ==
    p \in 1..Len(b) /\ b[p].kind = kind /\ b[p].value = value

LEMMA FieldIsSeq ==
    ASSUME NEW kind, NEW value
    PROVE  IsSeq(Field(kind, value)) /\ Len(Field(kind, value)) = 1
<1>1. Field(kind, value) \in Seq({[kind |-> kind, value |-> value]})
  BY DEF Field
<1>2. Len(Field(kind, value)) = 1
  BY DEF Field
<1> QED
  BY <1>1, <1>2 DEF IsSeq

\* A field alone stands where it is put.
LEMMA SpansField ==
    ASSUME NEW b, NEW p, NEW q, NEW kind, NEW value, IsSeq(b),
           Spans(b, p, Field(kind, value), q)
    PROVE  FieldAt(b, p, kind, value) /\ q = p + 1
<1> DEFINE f == [kind |-> kind, value |-> value]
<1>1. Len(Field(kind, value)) = 1 /\ Field(kind, value)[1] = f
  BY FieldIsSeq DEF Field
<1>2. f.kind = kind /\ f.value = value
  OBVIOUS
<1> HIDE DEF f
<1>3. Len(b) \in Nat
  BY LenNat
<1>4. p \in Nat \ {0} /\ q = p + 1 /\ q <= Len(b) + 1 /\ b[p + 1 - 1] = f
  BY <1>1 DEF Spans
<1>5. p \in 1..Len(b) /\ b[p] = f
  BY <1>3, <1>4
<1> QED
  BY <1>2, <1>4, <1>5 DEF FieldAt

\* A field put behind something.
LEMMA SpansThen ==
    ASSUME NEW b, NEW p, NEW q, NEW s, NEW kind, NEW value, IsSeq(b), IsSeq(s),
           Spans(b, p, s \o Field(kind, value), q)
    PROVE  \E m \in Nat \ {0} : Spans(b, p, s, m) /\ FieldAt(b, m, kind, value) /\ q = m + 1
<1>1. IsSeq(Field(kind, value))
  BY FieldIsSeq
<1>2. PICK m \in Nat \ {0} : Spans(b, p, s, m) /\ Spans(b, m, Field(kind, value), q)
  BY <1>1, SpansConcat
<1> QED
  BY <1>2, SpansField

LEMMA ThenIsSeq ==
    ASSUME NEW s, NEW kind, NEW value, IsSeq(s)
    PROVE  IsSeq(s \o Field(kind, value))
  BY FieldIsSeq, Concat

LEMMA SpansSized ==
    ASSUME NEW b, NEW p, NEW q, NEW data, IsSeq(b), Spans(b, p, Sized(data), q)
    PROVE  /\ FieldAt(b, p, "u32", Len(data)) /\ FieldAt(b, p + 1, "bytes", data)
           /\ q = p + 2 /\ p \in Nat \ {0}
<1>1. PICK m \in Nat \ {0} : /\ Spans(b, p, Field("u32", Len(data)), m)
                             /\ FieldAt(b, m, "bytes", data) /\ q = m + 1
  BY SpansThen, FieldIsSeq DEF Sized
<1>2. FieldAt(b, p, "u32", Len(data)) /\ m = p + 1
  BY <1>1, SpansField
<1>3. p \in Nat \ {0}
  BY DEF Spans
<1> QED
  BY <1>1, <1>2, <1>3

LEMMA SizedIsSeq == ASSUME NEW data PROVE IsSeq(Sized(data))
  BY FieldIsSeq, ThenIsSeq DEF Sized

LEMMA SpansThenSized ==
    ASSUME NEW b, NEW p, NEW q, NEW s, NEW data, IsSeq(b), IsSeq(s),
           Spans(b, p, s \o Sized(data), q)
    PROVE  \E m \in Nat \ {0} : /\ Spans(b, p, s, m) /\ FieldAt(b, m, "u32", Len(data))
                                /\ FieldAt(b, m + 1, "bytes", data) /\ q = m + 2
<1>1. PICK m \in Nat \ {0} : Spans(b, p, s, m) /\ Spans(b, m, Sized(data), q)
  BY SizedIsSeq, SpansConcat
<1> QED
  BY <1>1, SpansSized

-----------------------------------------------------------------------------
(* The head: a status, three amounts of gas and some bytes.                *)

HeadFields(status, gas1, gas2, gas3, data) ==
    Field("status", status) \o Field("u64", gas1) \o Field("u64", gas2) \o Field("u64", gas3)
      \o Sized(data)

HeadAt(b, status, gas1, gas2, gas3, data) ==
    /\ FieldAt(b, 1, "status", status) /\ FieldAt(b, 2, "u64", gas1)
    /\ FieldAt(b, 3, "u64", gas2) /\ FieldAt(b, 4, "u64", gas3)
    /\ FieldAt(b, 5, "u32", Len(data)) /\ FieldAt(b, 6, "bytes", data)

LEMMA HeadIsSeq ==
    ASSUME NEW status, NEW gas1, NEW gas2, NEW gas3, NEW data
    PROVE  IsSeq(HeadFields(status, gas1, gas2, gas3, data))
<1>1. IsSeq(Field("status", status) \o Field("u64", gas1))
  BY FieldIsSeq, ThenIsSeq
<1>2. IsSeq(Field("status", status) \o Field("u64", gas1) \o Field("u64", gas2))
  BY <1>1, ThenIsSeq
<1>3. IsSeq(Field("status", status) \o Field("u64", gas1) \o Field("u64", gas2)
              \o Field("u64", gas3))
  BY <1>2, ThenIsSeq
<1> QED
  BY <1>3, SizedIsSeq, Concat DEF HeadFields

\* The six fields of a head, one by one.
LEMMA SpansHead ==
    ASSUME NEW b, NEW q, NEW status, NEW gas1, NEW gas2, NEW gas3, NEW data, IsSeq(b),
           Spans(b, 1, HeadFields(status, gas1, gas2, gas3, data), q)
    PROVE  HeadAt(b, status, gas1, gas2, gas3, data) /\ q = 7
<1> DEFINE s1 == Field("status", status)
           s2 == s1 \o Field("u64", gas1)
           s3 == s2 \o Field("u64", gas2)
           s4 == s3 \o Field("u64", gas3)
<1>0. IsSeq(s1) /\ IsSeq(s2) /\ IsSeq(s3) /\ IsSeq(s4)
  <2>1. IsSeq(s1)
    BY FieldIsSeq
  <2>2. IsSeq(s2)
    BY <2>1, ThenIsSeq
  <2>3. IsSeq(s3)
    BY <2>2, ThenIsSeq
  <2> QED
    BY <2>1, <2>2, <2>3, ThenIsSeq
<1>1. PICK m5 \in Nat \ {0} : /\ Spans(b, 1, s4, m5) /\ FieldAt(b, m5, "u32", Len(data))
                              /\ FieldAt(b, m5 + 1, "bytes", data) /\ q = m5 + 2
  BY <1>0, SpansThenSized DEF HeadFields
<1>2. PICK m4 \in Nat \ {0} : Spans(b, 1, s3, m4) /\ FieldAt(b, m4, "u64", gas3) /\ m5 = m4 + 1
  BY <1>0, <1>1, SpansThen
<1>3. PICK m3 \in Nat \ {0} : Spans(b, 1, s2, m3) /\ FieldAt(b, m3, "u64", gas2) /\ m4 = m3 + 1
  BY <1>0, <1>2, SpansThen
<1>4. PICK m2 \in Nat \ {0} : Spans(b, 1, s1, m2) /\ FieldAt(b, m2, "u64", gas1) /\ m3 = m2 + 1
  BY <1>0, <1>3, SpansThen
<1>5. FieldAt(b, 1, "status", status) /\ m2 = 2
  BY <1>4, SpansField
<1>6. m3 = 3 /\ m4 = 4 /\ m5 = 5 /\ m5 + 1 = 6 /\ q = 7
  BY <1>1, <1>2, <1>3, <1>4, <1>5
<1> QED
  BY <1>1, <1>2, <1>3, <1>4, <1>5, <1>6 DEF HeadAt

-----------------------------------------------------------------------------
(* A log: an address, so many topics and some bytes.                       *)

LogAt(b, p, log, q) ==
    /\ FieldAt(b, p, "address", log.address)
    /\ FieldAt(b, p + 1, "u8", Len(log.topics))
    /\ \A i \in 1..Len(log.topics) : FieldAt(b, p + 1 + i, "topic", log.topics[i])
    /\ FieldAt(b, p + 2 + Len(log.topics), "u32", Len(log.data))
    /\ FieldAt(b, p + 3 + Len(log.topics), "bytes", log.data)
    /\ q = p + 4 + Len(log.topics)

TopicParts(topics) == [i \in 1..Len(topics) |-> Field("topic", topics[i])]

LEMMA TopicsAre ==
    ASSUME NEW topics, IsSeq(topics)
    PROVE  /\ Each(topics, LAMBDA t : Field("topic", t)) = FlattenSeq(TopicParts(topics))
           /\ IsSeq(TopicParts(topics)) /\ Len(TopicParts(topics)) = Len(topics)
           /\ \A i \in 1..Len(TopicParts(topics)) :
                 /\ TopicParts(topics)[i] = Field("topic", topics[i])
                 /\ IsSeq(TopicParts(topics)[i]) /\ Len(TopicParts(topics)[i]) = 1
           /\ IsSeq(FlattenSeq(TopicParts(topics)))
<1>1. Each(topics, LAMBDA t : Field("topic", t)) = FlattenSeq(TopicParts(topics))
  BY DEF Each, TopicParts
<1>2. Len(topics) \in Nat
  BY LenNat
<1>3. TopicParts(topics) = [i \in 1..Len(topics) |-> TopicParts(topics)[i]]
  BY DEF TopicParts
<1>4. IsSeq(TopicParts(topics)) /\ Len(TopicParts(topics)) = Len(topics)
  BY <1>2, <1>3, ListIsSeq
<1>5. ASSUME NEW i \in 1..Len(TopicParts(topics))
      PROVE  /\ TopicParts(topics)[i] = Field("topic", topics[i])
             /\ IsSeq(TopicParts(topics)[i]) /\ Len(TopicParts(topics)[i]) = 1
  <2>1. TopicParts(topics)[i] = Field("topic", topics[i])
    BY <1>4 DEF TopicParts
  <2> QED
    BY <2>1, FieldIsSeq
<1> QED
  BY <1>1, <1>4, <1>5, FlattenFirst

LEMMA LogIsSeq ==
    ASSUME NEW log, IsSeq(log.topics)
    PROVE  IsSeq(log_fields(log))
<1> DEFINE s1 == Field("address", log.address)
           s2 == s1 \o Field("u8", Len(log.topics))
           ts == Each(log.topics, LAMBDA t : Field("topic", t))
<1>1. IsSeq(s1)
  BY FieldIsSeq
<1>2. IsSeq(s2)
  BY <1>1, ThenIsSeq
<1>3. IsSeq(ts)
  BY TopicsAre
<1>4. log_fields(log) = s2 \o ts \o Sized(log.data)
  BY DEF log_fields
<1> HIDE DEF s1, s2, ts
<1>5. IsSeq(s2 \o ts)
  BY <1>2, <1>3, Concat
<1>6. IsSeq(s2 \o ts \o Sized(log.data))
  BY <1>5, SizedIsSeq, Concat
<1> QED
  BY <1>4, <1>6

\* The fields of a log, one by one.
LEMMA SpansLog ==
    ASSUME NEW b, NEW p, NEW q, NEW log, IsSeq(b), IsSeq(log.topics),
           Spans(b, p, log_fields(log), q)
    PROVE  LogAt(b, p, log, q)
<1> DEFINE s1 == Field("address", log.address)
           s2 == s1 \o Field("u8", Len(log.topics))
           ts == Each(log.topics, LAMBDA t : Field("topic", t))
           n == Len(log.topics)
           P == TopicParts(log.topics)
<1>0. IsSeq(s1) /\ IsSeq(s2) /\ IsSeq(ts) /\ IsSeq(s2 \o ts)
  <2>1. IsSeq(s1)
    BY FieldIsSeq
  <2>2. IsSeq(s2)
    BY <2>1, ThenIsSeq
  <2>3. IsSeq(ts)
    BY TopicsAre
  <2> HIDE DEF s1, s2, ts
  <2> QED
    BY <2>1, <2>2, <2>3, Concat
<1>1. n \in Nat /\ p \in Nat \ {0}
  BY LenNat DEF Spans
<1>2. PICK d \in Nat \ {0} : /\ Spans(b, p, s2 \o ts, d) /\ FieldAt(b, d, "u32", Len(log.data))
                             /\ FieldAt(b, d + 1, "bytes", log.data) /\ q = d + 2
  <2>1. log_fields(log) = s2 \o ts \o Sized(log.data)
    BY DEF log_fields
  <2> HIDE DEF s1, s2, ts
  <2>2. Spans(b, p, s2 \o ts \o Sized(log.data), q)
    BY <2>1
  <2> QED
    BY <1>0, <2>2, SpansThenSized
<1>3. PICK c \in Nat \ {0} : Spans(b, p, s2, c) /\ Spans(b, c, ts, d)
  BY <1>0, <1>2, SpansConcat
<1>4. PICK u \in Nat \ {0} : /\ Spans(b, p, s1, u) /\ FieldAt(b, u, "u8", Len(log.topics))
                             /\ c = u + 1
  BY <1>0, <1>3, SpansThen
<1>5. FieldAt(b, p, "address", log.address) /\ u = p + 1
  BY <1>4, SpansField
<1>6. c = p + 2
  BY <1>1, <1>4, <1>5
<1>7. /\ ts = FlattenSeq(P) /\ IsSeq(P) /\ Len(P) = n
      /\ \A i \in 1..Len(P) : P[i] = Field("topic", log.topics[i]) /\ IsSeq(P[i]) /\ Len(P[i]) = 1
  BY TopicsAre
<1> HIDE DEF P, ts, n
<1>8. PICK off : Parts(b, c, P, d, off)
  BY <1>3, <1>7, FlattenSpans
<1>9. d = c + Len(P) /\ \A k \in 1..Len(P) : Spans(b, c + k - 1, P[k], c + k)
  BY <1>7, <1>8, StrideOne
<1>10. ASSUME NEW k \in 1..n PROVE FieldAt(b, p + 1 + k, "topic", log.topics[k])
  <2>1. Spans(b, c + k - 1, Field("topic", log.topics[k]), c + k)
    BY <1>7, <1>9
  <2>2. FieldAt(b, c + k - 1, "topic", log.topics[k])
    BY <2>1, SpansField
  <2>3. c + k - 1 = p + 1 + k
    BY <1>1, <1>6
  <2> QED
    BY <2>2, <2>3
<1>11. d = p + 2 + n /\ d + 1 = p + 3 + n /\ q = p + 4 + n
  BY <1>1, <1>2, <1>6, <1>7, <1>9
<1>12. FieldAt(b, p + 2 + n, "u32", Len(log.data)) /\ FieldAt(b, p + 3 + n, "bytes", log.data)
  BY <1>2, <1>11
<1> QED
  BY <1>4, <1>5, <1>10, <1>11, <1>12 DEF LogAt, n

-----------------------------------------------------------------------------
(* An account: what it is, its new code if it has any, and its slots.      *)

CountAt(p, e) == IF code_changed(e) THEN p + 6 ELSE p + 4

AccountAt(b, p, a, e, keys, q) ==
    /\ FieldAt(b, p, "address", a) /\ FieldAt(b, p + 1, "flags", flags(e))
    /\ FieldAt(b, p + 2, "purse", e.info.purse) /\ FieldAt(b, p + 3, "hash", e.info.hash)
    /\ code_changed(e) => /\ FieldAt(b, p + 4, "u32", Len(code_bytes(e.code)))
                          /\ FieldAt(b, p + 5, "bytes", code_bytes(e.code))
    /\ FieldAt(b, CountAt(p, e), "u32", Len(keys))
    /\ \A i \in 1..Len(keys) : /\ FieldAt(b, CountAt(p, e) + 2 * i - 1, "key", keys[i])
                               /\ FieldAt(b, CountAt(p, e) + 2 * i, "word", e.slot[keys[i]])
    /\ q = CountAt(p, e) + 1 + 2 * Len(keys)

SlotParts(keys, slot) ==
    [i \in 1..Len(keys) |-> Field("key", keys[i]) \o Field("word", slot[keys[i]])]

LEMMA SlotsAre ==
    ASSUME NEW keys, NEW slot, IsSeq(keys)
    PROVE  /\ IsSeq(SlotParts(keys, slot)) /\ Len(SlotParts(keys, slot)) = Len(keys)
           /\ \A i \in 1..Len(SlotParts(keys, slot)) :
                 /\ SlotParts(keys, slot)[i] = Field("key", keys[i]) \o Field("word", slot[keys[i]])
                 /\ IsSeq(SlotParts(keys, slot)[i]) /\ Len(SlotParts(keys, slot)[i]) = 2
           /\ IsSeq(FlattenSeq(SlotParts(keys, slot)))
<1>2. Len(keys) \in Nat
  BY LenNat
<1>3. SlotParts(keys, slot) = [i \in 1..Len(keys) |-> SlotParts(keys, slot)[i]]
  BY DEF SlotParts
<1>4. IsSeq(SlotParts(keys, slot)) /\ Len(SlotParts(keys, slot)) = Len(keys)
  BY <1>2, <1>3, ListIsSeq
<1>5. ASSUME NEW i \in 1..Len(SlotParts(keys, slot))
      PROVE  /\ SlotParts(keys, slot)[i] = Field("key", keys[i]) \o Field("word", slot[keys[i]])
             /\ IsSeq(SlotParts(keys, slot)[i]) /\ Len(SlotParts(keys, slot)[i]) = 2
  <2>1. SlotParts(keys, slot)[i] = Field("key", keys[i]) \o Field("word", slot[keys[i]])
    BY <1>4 DEF SlotParts
  <2> DEFINE s == Field("key", keys[i])
             t == Field("word", slot[keys[i]])
  <2>2. IsSeq(s) /\ Len(s) = 1 /\ IsSeq(t) /\ Len(t) = 1
    BY FieldIsSeq
  <2> HIDE DEF s, t
  <2>3. IsSeq(s \o t) /\ Len(s \o t) = Len(s) + Len(t)
    BY <2>2, Concat
  <2>4. IsSeq(s \o t) /\ Len(s \o t) = 2
    BY <2>2, <2>3
  <2> QED
    BY <2>1, <2>4 DEF s, t
<1> QED
  BY <1>4, <1>5, FlattenFirst

\* The slots of an account, from the place after their count.
LEMMA SpansSlots ==
    ASSUME NEW b, NEW p, NEW q, NEW keys, NEW slot, IsSeq(b), IsSeq(keys), p \in Nat \ {0},
           Spans(b, p + 1, FlattenSeq(SlotParts(keys, slot)), q)
    PROVE  /\ q = p + 1 + 2 * Len(keys)
           /\ \A i \in 1..Len(keys) : /\ FieldAt(b, p + 2 * i - 1, "key", keys[i])
                                      /\ FieldAt(b, p + 2 * i, "word", slot[keys[i]])
<1> DEFINE P == SlotParts(keys, slot)
           n == Len(keys)
<1>1. n \in Nat
  BY LenNat
<1>2. /\ Spans(b, p + 1, FlattenSeq(P), q) /\ IsSeq(P) /\ Len(P) = n
      /\ \A i \in 1..Len(P) : /\ P[i] = Field("key", keys[i]) \o Field("word", slot[keys[i]])
                              /\ IsSeq(P[i]) /\ Len(P[i]) = 2
  BY SlotsAre
<1> HIDE DEF P, n
<1>3. PICK off : Parts(b, p + 1, P, q, off)
  BY <1>2, FlattenSpans
<1>4. /\ q = (p + 1) + 2 * Len(P)
      /\ \A k \in 1..Len(P) : Spans(b, (p + 1) + 2 * k - 2, P[k], (p + 1) + 2 * k)
  <2> DEFINE pp == p + 1
  <2>1. pp \in Nat
    OBVIOUS
  <2> HIDE DEF pp
  <2>2. /\ q = pp + 2 * Len(P)
        /\ \A k \in 1..Len(P) : Spans(b, pp + 2 * k - 2, P[k], pp + 2 * k)
    BY <1>2, <1>3, <2>1, StrideTwo DEF pp
  <2> QED
    BY <2>2 DEF pp
<1>5. ASSUME NEW i \in 1..n
      PROVE  FieldAt(b, p + 2 * i - 1, "key", keys[i]) /\ FieldAt(b, p + 2 * i, "word", slot[keys[i]])
  <2> DEFINE u == p + 2 * i - 1
  <2>1. i \in Nat \ {0}
    BY <1>1
  <2> HIDE DEF n
  <2>2. u \in Nat /\ (p + 1) + 2 * i - 2 = u /\ (p + 1) + 2 * i = u + 2 /\ p + 2 * i = u + 1
    BY <2>1
  <2>3. Spans(b, (p + 1) + 2 * i - 2, P[i], (p + 1) + 2 * i)
    BY <1>2, <1>4
  <2> HIDE DEF u
  <2>4. Spans(b, u, Field("key", keys[i]) \o Field("word", slot[keys[i]]), u + 2)
    BY <1>2, <2>2, <2>3
  <2>5. PICK m \in Nat \ {0} : /\ Spans(b, u, Field("key", keys[i]), m)
                               /\ FieldAt(b, m, "word", slot[keys[i]]) /\ u + 2 = m + 1
    <3> DEFINE s == Field("key", keys[i])
    <3>1. IsSeq(s)
      BY FieldIsSeq
    <3> HIDE DEF s
    <3>2. Spans(b, u, s \o Field("word", slot[keys[i]]), u + 2)
      BY <2>4 DEF s
    <3> DEFINE v == u + 2
    <3> HIDE DEF v
    <3>3. \E m \in Nat \ {0} : /\ Spans(b, u, s, m)
                               /\ FieldAt(b, m, "word", slot[keys[i]]) /\ v = m + 1
      BY <3>1, <3>2, SpansThen DEF v
    <3> QED
      BY <3>3 DEF s, v
  <2>6. FieldAt(b, u, "key", keys[i]) /\ m = u + 1
    BY <2>5, SpansField
  <2>7. FieldAt(b, u, "key", keys[i]) /\ FieldAt(b, u + 1, "word", slot[keys[i]])
    BY <2>5, <2>6
  <2> QED
    BY <2>2, <2>7 DEF u
<1> QED
  BY <1>2, <1>4, <1>5 DEF n

\* What an account begins with, and what it has of code.
Purses(a, e) ==
    Field("address", a) \o Field("flags", flags(e))
      \o Field("purse", e.info.purse) \o Field("hash", e.info.hash)
CodeFields(e) == IF code_changed(e) THEN Sized(code_bytes(e.code)) ELSE <<>>

LEMMA PursesIsSeq == ASSUME NEW a, NEW e PROVE IsSeq(Purses(a, e)) /\ IsSeq(CodeFields(e))
<1>1. IsSeq(Field("address", a) \o Field("flags", flags(e)))
  BY FieldIsSeq, ThenIsSeq
<1>2. IsSeq(Field("address", a) \o Field("flags", flags(e)) \o Field("purse", e.info.purse))
  BY <1>1, ThenIsSeq
<1>3. IsSeq(Purses(a, e))
  BY <1>2, ThenIsSeq DEF Purses
<1> QED
  BY <1>3, SizedIsSeq, EmptyIsSeq DEF CodeFields

LEMMA SpansPurses ==
    ASSUME NEW b, NEW p, NEW q, NEW a, NEW e, IsSeq(b), Spans(b, p, Purses(a, e), q)
    PROVE  /\ FieldAt(b, p, "address", a) /\ FieldAt(b, p + 1, "flags", flags(e))
           /\ FieldAt(b, p + 2, "purse", e.info.purse) /\ FieldAt(b, p + 3, "hash", e.info.hash)
           /\ q = p + 4 /\ p \in Nat \ {0}
<1> DEFINE s1 == Field("address", a)
           s2 == s1 \o Field("flags", flags(e))
           s3 == s2 \o Field("purse", e.info.purse)
<1>0. IsSeq(s1) /\ IsSeq(s2) /\ IsSeq(s3)
  <2>1. IsSeq(s1)
    BY FieldIsSeq
  <2>2. IsSeq(s2)
    BY <2>1, ThenIsSeq
  <2> QED
    BY <2>1, <2>2, ThenIsSeq
<1>1. Purses(a, e) = s3 \o Field("hash", e.info.hash)
  BY DEF Purses
<1>2. p \in Nat \ {0}
  BY DEF Spans
<1>3. PICK m3 \in Nat \ {0} : Spans(b, p, s3, m3) /\ FieldAt(b, m3, "hash", e.info.hash) /\ q = m3 + 1
  BY <1>0, <1>1, SpansThen
<1>4. PICK m2 \in Nat \ {0} : Spans(b, p, s2, m2) /\ FieldAt(b, m2, "purse", e.info.purse) /\ m3 = m2 + 1
  BY <1>0, <1>3, SpansThen
<1>5. PICK m1 \in Nat \ {0} : Spans(b, p, s1, m1) /\ FieldAt(b, m1, "flags", flags(e)) /\ m2 = m1 + 1
  BY <1>0, <1>4, SpansThen
<1>6. FieldAt(b, p, "address", a) /\ m1 = p + 1
  BY <1>5, SpansField
<1>7. m2 = p + 2 /\ m3 = p + 3 /\ q = p + 4
  BY <1>2, <1>3, <1>4, <1>5, <1>6
<1> QED
  BY <1>2, <1>3, <1>4, <1>5, <1>6, <1>7

LEMMA AccountIsSeq ==
    ASSUME NEW a, NEW e, NEW iteration, IsSeq(sort_by_key(iteration))
    PROVE  IsSeq(account_fields(a, e, iteration))
<1> DEFINE keys == sort_by_key(iteration)
           s1 == Purses(a, e) \o CodeFields(e)
           s2 == s1 \o Field("u32", Len(keys))
           ts == FlattenSeq(SlotParts(keys, e.slot))
<1>1. IsSeq(s1)
  BY PursesIsSeq, Concat
<1>2. IsSeq(s2)
  BY <1>1, ThenIsSeq
<1>3. IsSeq(ts)
  BY SlotsAre
<1>4. account_fields(a, e, iteration) = s2 \o ts
  BY DEF account_fields, Purses, CodeFields, Each, SlotParts
<1> HIDE DEF s1, s2, ts
<1> QED
  BY <1>2, <1>3, <1>4, Concat

\* The fields of an account, one by one, with and without code.
LEMMA SpansAccount ==
    ASSUME NEW b, NEW p, NEW q, NEW a, NEW e, NEW iteration, IsSeq(b),
           IsSeq(sort_by_key(iteration)), Spans(b, p, account_fields(a, e, iteration), q)
    PROVE  AccountAt(b, p, a, e, sort_by_key(iteration), q)
<1> DEFINE keys == sort_by_key(iteration)
           s1 == Purses(a, e) \o CodeFields(e)
           s2 == s1 \o Field("u32", Len(keys))
           ts == FlattenSeq(SlotParts(keys, e.slot))
<1>0. IsSeq(s1) /\ IsSeq(s2) /\ IsSeq(ts)
  <2>1. IsSeq(s1)
    BY PursesIsSeq, Concat
  <2> QED
    BY <2>1, ThenIsSeq, SlotsAre
<1>1. account_fields(a, e, iteration) = s2 \o ts
  BY DEF account_fields, Purses, CodeFields, Each, SlotParts
<1> HIDE DEF keys, ts
<1>2. PICK m \in Nat \ {0} : Spans(b, p, s2, m) /\ Spans(b, m, ts, q)
  <2> HIDE DEF s2
  <2> QED
    BY <1>0, <1>1, SpansConcat
<1>3. PICK n \in Nat \ {0} : Spans(b, p, s1, n) /\ FieldAt(b, n, "u32", Len(keys)) /\ m = n + 1
  <2> HIDE DEF s1
  <2> QED
    BY <1>0, <1>2, SpansThen
<1>4. PICK c \in Nat \ {0} : Spans(b, p, Purses(a, e), c) /\ Spans(b, c, CodeFields(e), n)
  BY <1>3, PursesIsSeq, SpansConcat
<1>5. /\ FieldAt(b, p, "address", a) /\ FieldAt(b, p + 1, "flags", flags(e))
      /\ FieldAt(b, p + 2, "purse", e.info.purse) /\ FieldAt(b, p + 3, "hash", e.info.hash)
      /\ c = p + 4 /\ p \in Nat \ {0}
  BY <1>4, SpansPurses
<1>6. /\ n = CountAt(p, e)
      /\ code_changed(e) => /\ FieldAt(b, p + 4, "u32", Len(code_bytes(e.code)))
                            /\ FieldAt(b, p + 5, "bytes", code_bytes(e.code))
  <2>1. CASE code_changed(e)
    <3>1. Spans(b, c, Sized(code_bytes(e.code)), n)
      BY <1>4, <2>1 DEF CodeFields
    <3>2. /\ FieldAt(b, c, "u32", Len(code_bytes(e.code)))
          /\ FieldAt(b, c + 1, "bytes", code_bytes(e.code)) /\ n = c + 2
      BY <3>1, SpansSized
    <3>3. c + 1 = p + 5 /\ c + 2 = p + 6
      BY <1>5
    <3> QED
      BY <1>5, <2>1, <3>2, <3>3 DEF CountAt
  <2>2. CASE ~ code_changed(e)
    <3>1. Spans(b, c, <<>>, n)
      BY <1>4, <2>2 DEF CodeFields
    <3>2. n = c + Len(<<>>)
      BY <3>1 DEF Spans
    <3>3. n = c
      BY <3>2, EmptyIsSeq
    <3> QED
      BY <1>5, <2>2, <3>3 DEF CountAt
  <2> QED
    BY <2>1, <2>2
<1>7. Spans(b, n + 1, ts, q)
  BY <1>2, <1>3
<1>8. /\ q = n + 1 + 2 * Len(keys)
      /\ \A i \in 1..Len(keys) : /\ FieldAt(b, n + 2 * i - 1, "key", keys[i])
                                 /\ FieldAt(b, n + 2 * i, "word", e.slot[keys[i]])
  BY <1>7, SpansSlots DEF keys, ts
<1> QED
  BY <1>3, <1>5, <1>6, <1>8 DEF AccountAt, keys

-----------------------------------------------------------------------------
(* Sorting: of finitely many numbers there is one ascending enumeration.   *)

\* An ascending enumeration of S.
Ascends(s, S) ==
    /\ IsSeq(s)
    /\ \A i \in 1..Len(s) : s[i] \in S
    /\ \A x \in S : \E i \in 1..Len(s) : s[i] = x
    /\ \A i, j \in 1..Len(s) : i < j => s[i] < s[j]

\* A one-to-one function between sets of the same size reaches everything.
LEMMA Onto ==
    ASSUME NEW S, NEW T, IsFiniteSet(S), IsFiniteSet(T), Cardinality(S) = Cardinality(T),
           NEW f \in [S -> T], \A x, y \in S : f[x] = f[y] => x = y
    PROVE  \A y \in T : \E x \in S : f[x] = y
<1>1. f \in Injection(S, T)
  BY DEF Injection, IsInjective
<1>2. f \in Surjection(S, T)
  BY <1>1, FS_Injection
<1> QED
  BY <1>2 DEF Surjection

\* There are n numbers from 1 to n.
LEMMA UpTo ==
    ASSUME NEW n \in Nat
    PROVE  IsFiniteSet(1..n) /\ Cardinality(1..n) = n
<1>1. IsFiniteSet(1..n) /\ Cardinality(1..n) = IF 1 > n THEN 0 ELSE n - 1 + 1
  BY FS_Interval
<1> QED
  BY <1>1

\* The orders in which S can be iterated enumerate it.
LEMMA IterationOf ==
    ASSUME NEW S, IsFiniteSet(S), NEW s \in Iterations(S)
    PROVE  /\ IsSeq(s) /\ Len(s) = Cardinality(S) /\ ToSet(s) = S
           /\ \A i \in 1..Len(s) : s[i] \in S
           /\ \A x \in S : \E i \in 1..Len(s) : s[i] = x
<1> DEFINE n == Cardinality(S)
<1>0. n \in Nat
  BY FS_CardinalityType
<1>1. s \in [1..n -> S] /\ \A i, j \in 1..n : i # j => s[i] # s[j]
  BY DEF Iterations, SetToSeqs
<1> HIDE DEF n
<1>2. s = [i \in 1..n |-> s[i]] /\ \A i, j \in 1..n : s[i] = s[j] => i = j
  BY <1>1
<1>3. IsSeq(s) /\ Len(s) = n
  BY <1>0, <1>2, ListIsSeq
<1>4. \A x \in S : \E i \in 1..n : s[i] = x
  BY <1>0, <1>1, <1>2, UpTo, Onto, SMTT(20) DEF n
<1>5. ToSet(s) = S
  <2>1. DOMAIN s = 1..n
    BY <1>1
  <2> QED
    BY <1>1, <1>4, <2>1 DEF ToSet
<1> QED
  BY <1>1, <1>3, <1>4, <1>5 DEF n

\* A number stands at the place its rank says: so many are not above it.
LEMMA AscendingExists ==
    ASSUME NEW S, S \subseteq Nat, IsFiniteSet(S)
    PROVE  \E s \in Iterations(S) : \A i, j \in DOMAIN s : i < j => s[i] < s[j]
<1> DEFINE n == Cardinality(S)
           Below(x) == {y \in S : y <= x}
           rank == [x \in S |-> Cardinality(Below(x))]
<1>0. n \in Nat
  BY FS_CardinalityType
<1>1. ASSUME NEW x \in S
      PROVE  IsFiniteSet(Below(x)) /\ Cardinality(Below(x)) \in 1..n
  <2>1. IsFiniteSet(Below(x)) /\ Cardinality(Below(x)) <= n
    BY FS_Subset
  <2>2. x \in Below(x)
    OBVIOUS
  <2>3. Cardinality(Below(x)) \in Nat /\ Cardinality(Below(x)) # 0
    BY <2>1, <2>2, FS_CardinalityType, FS_EmptySet
  <2> QED
    BY <1>0, <2>1, <2>3
<1>2. ASSUME NEW x \in S, NEW y \in S, x < y
      PROVE  rank[x] < rank[y]
  <2>0. x \in Nat /\ y \in Nat
    OBVIOUS
  <2>1. Below(x) \subseteq Below(y) /\ y \in Below(y) /\ y \notin Below(x)
    <3>1. ASSUME NEW z \in S, z <= x PROVE z <= y
      <4>1. z \in Nat
        OBVIOUS
      <4> QED
        BY <1>2, <2>0, <3>1, <4>1
    <3>2. y <= y /\ ~ (y <= x)
      BY <1>2, <2>0
    <3> QED
      BY <3>1, <3>2
  <2>2. IsFiniteSet(Below(x)) /\ IsFiniteSet(Below(y))
        /\ Cardinality(Below(x)) \in Nat /\ Cardinality(Below(y)) \in Nat
    BY <1>1
  <2>3. /\ Cardinality(Below(x)) <= Cardinality(Below(y))
        /\ Cardinality(Below(x)) # Cardinality(Below(y))
    <3> HIDE DEF Below
    <3>1. Below(x) \in SUBSET Below(y) /\ Below(x) # Below(y)
      BY <2>1
    <3> QED
      BY <2>2, <3>1, FS_Subset
  <2>4. Cardinality(Below(x)) < Cardinality(Below(y))
    BY <2>2, <2>3
  <2> QED
    BY <2>4
<1>3. rank \in [S -> 1..n]
  BY <1>1
<1> HIDE DEF rank, n
<1>4. \A x, y \in S : rank[x] = rank[y] => x = y
  <2> SUFFICES ASSUME NEW x \in S, NEW y \in S, rank[x] = rank[y], x # y PROVE FALSE
    OBVIOUS
  <2>1. rank[x] \in 1..n /\ rank[y] \in 1..n
    BY <1>3
  <2>2. x < y \/ y < x
    OBVIOUS
  <2> QED
    BY <1>2, <2>1, <2>2
<1>5. \A i \in 1..n : \E x \in S : rank[x] = i
  <2> DEFINE T == 1..n
  <2>1. IsFiniteSet(S) /\ IsFiniteSet(T) /\ Cardinality(S) = Cardinality(T)
    BY <1>0, UpTo DEF n
  <2>2. rank \in [S -> T]
    BY <1>3
  <2> HIDE DEF T
  <2>3. \A y \in T : \E x \in S : rank[x] = y
    BY ONLY <1>4, <2>1, <2>2, Onto
  <2> QED
    BY <2>3 DEF T
<1> DEFINE s == [i \in 1..n |-> CHOOSE x \in S : rank[x] = i]
<1>6. ASSUME NEW i \in 1..n PROVE s[i] \in S /\ rank[s[i]] = i
  BY <1>5
<1>7. DOMAIN s = 1..n /\ s \in [1..n -> S]
  BY <1>6
<1> HIDE DEF s
<1>8. ASSUME NEW i \in 1..n, NEW j \in 1..n, i < j PROVE s[i] < s[j]
  <2>1. s[i] \in S /\ s[j] \in S /\ rank[s[i]] = i /\ rank[s[j]] = j
    BY <1>6
  <2>2. CASE s[j] < s[i]
    <3>1. rank[s[j]] < rank[s[i]]
      BY <1>2, <2>1, <2>2
    <3>2. j < i
      BY <2>1, <3>1
    <3> QED
      BY <1>8, <3>2
  <2>3. CASE s[j] = s[i]
    BY <1>8, <2>1, <2>3
  <2>4. s[i] \in Nat /\ s[j] \in Nat
    BY <2>1
  <2>5. s[i] < s[j] \/ s[j] < s[i] \/ s[j] = s[i]
    BY <2>4
  <2> QED
    BY <2>2, <2>3, <2>5
<1>9. s \in Iterations(S)
  <2>1. \A i, j \in 1..n : i # j => s[i] # s[j]
    BY <1>6
  <2> QED
    BY <1>7, <2>1 DEF Iterations, SetToSeqs, n
<1> QED
  BY <1>7, <1>8, <1>9

\* What sort_by_key makes of any iteration of S.
LEMMA Sorts ==
    ASSUME NEW S, S \subseteq Nat, IsFiniteSet(S), NEW iteration \in Iterations(S)
    PROVE  /\ Ascends(sort_by_key(iteration), S)
           /\ Len(sort_by_key(iteration)) = Len(iteration)
<1> DEFINE s == sort_by_key(iteration)
<1>1. ToSet(iteration) = S
  BY IterationOf
<1>2. s \in Iterations(S) /\ \A i, j \in DOMAIN s : i < j => s[i] < s[j]
  BY <1>1, AscendingExists DEF sort_by_key
<1> HIDE DEF s
<1>3. /\ IsSeq(s) /\ Len(s) = Cardinality(S)
      /\ \A i \in 1..Len(s) : s[i] \in S
      /\ \A x \in S : \E i \in 1..Len(s) : s[i] = x
  BY <1>2, IterationOf
<1>4. DOMAIN s = 1..Len(s)
  BY <1>3, LenNat
<1>5. Ascends(s, S)
  BY <1>2, <1>3, <1>4 DEF Ascends
<1>6. Len(iteration) = Cardinality(S)
  BY IterationOf
<1> QED
  BY <1>3, <1>5, <1>6 DEF s

-----------------------------------------------------------------------------
(* The whole outcome, place by place.  x says what it tells: the byte of a *)
(* status, gas, data, logs, the addresses in ascending order (accounts),   *)
(* the changes and the orders in which their slots were iterated, and a    *)
(* price.  Log k ends before place lo[k], account k before ao[k], and the  *)
(* accounts are counted at c.                                              *)

Keys(x, a) == sort_by_key(x.slots[a])

LogsAt(b, logs, lo) ==
    /\ lo[0] = 8
    /\ \A k \in 0..Len(logs) : lo[k] \in Nat
    /\ \A k \in 1..Len(logs) : LogAt(b, lo[k - 1], logs[k], lo[k])

BloomAt(b, logs, p, c) ==
    IF logs = <<>> THEN c = p ELSE FieldAt(b, p, "bloom", logs) /\ c = p + 1

AccountsAt(b, x, p, ao) ==
    /\ ao[0] = p
    /\ \A k \in 0..Len(x.accounts) : ao[k] \in Nat
    /\ \A k \in 1..Len(x.accounts) :
          AccountAt(b, ao[k - 1], x.accounts[k], x.changes[x.accounts[k]],
                    Keys(x, x.accounts[k]), ao[k])

Layout(b, x, lo, c, ao) ==
    /\ HeadAt(b, x.byte, x.gas[1], x.gas[2], x.gas[3], x.data)
    /\ FieldAt(b, 7, "u32", Len(x.logs))
    /\ LogsAt(b, x.logs, lo)
    /\ BloomAt(b, x.logs, lo[Len(x.logs)], c)
    /\ c \in Nat
    /\ FieldAt(b, c, "u32", Len(x.accounts))
    /\ AccountsAt(b, x, c + 1, ao)
    /\ FieldAt(b, ao[Len(x.accounts)], "price", x.price)
    /\ Len(b) = ao[Len(x.accounts)]

LogParts(logs) == [i \in 1..Len(logs) |-> log_fields(logs[i])]
AccountPart(x, a) == account_fields(a, x.changes[a], x.slots[a])
AccountParts(x) == [i \in 1..Len(x.accounts) |-> AccountPart(x, x.accounts[i])]

OutcomeFields(x) ==
    HeadFields(x.byte, x.gas[1], x.gas[2], x.gas[3], x.data)
      \o Field("u32", Len(x.logs)) \o FlattenSeq(LogParts(x.logs)) \o bloom_fields(x.logs)
      \o Field("u32", Len(x.accounts)) \o FlattenSeq(AccountParts(x)) \o Field("price", x.price)

\* What x tells can be told.
Tellable(x) ==
    /\ x.logs \in Seq(Log)
    /\ IsSeq(x.accounts)
    /\ \A i \in 1..Len(x.accounts) : IsSeq(Keys(x, x.accounts[i]))

\* The logs, as encode_full has them.
LEMMA LogPartsAre ==
    ASSUME NEW logs, logs \in Seq(Log)
    PROVE  /\ IsSeq(logs) /\ IsSeq(LogParts(logs)) /\ Len(LogParts(logs)) = Len(logs)
           /\ \A i \in 1..Len(LogParts(logs)) :
                 /\ LogParts(logs)[i] = log_fields(logs[i])
                 /\ IsSeq(logs[i].topics) /\ IsSeq(LogParts(logs)[i])
           /\ IsSeq(FlattenSeq(LogParts(logs)))
<1>1. IsSeq(logs) /\ Len(logs) \in Nat
  BY LenProperties DEF IsSeq
<1>2. LogParts(logs) = [i \in 1..Len(logs) |-> LogParts(logs)[i]]
  BY DEF LogParts
<1>3. IsSeq(LogParts(logs)) /\ Len(LogParts(logs)) = Len(logs)
  BY <1>1, <1>2, ListIsSeq
<1>4. ASSUME NEW i \in 1..Len(LogParts(logs))
      PROVE  /\ LogParts(logs)[i] = log_fields(logs[i])
             /\ IsSeq(logs[i].topics) /\ IsSeq(LogParts(logs)[i])
  <2>1. LogParts(logs)[i] = log_fields(logs[i])
    BY <1>3 DEF LogParts
  <2>2. logs[i] \in Log
    BY <1>3, ElementOfSeq
  <2>3. logs[i].topics \in Seq(Topic)
    BY <2>2 DEF Log
  <2>4. IsSeq(logs[i].topics)
    BY <2>3 DEF IsSeq
  <2> QED
    BY <2>1, <2>4, LogIsSeq
<1> QED
  BY <1>1, <1>3, <1>4, FlattenFirst

\* The accounts, as encode_full has them.
LEMMA AccountPartsAre ==
    ASSUME NEW x, Tellable(x)
    PROVE  /\ IsSeq(AccountParts(x)) /\ Len(AccountParts(x)) = Len(x.accounts)
           /\ \A i \in 1..Len(AccountParts(x)) :
                 /\ AccountParts(x)[i] = AccountPart(x, x.accounts[i])
                 /\ IsSeq(Keys(x, x.accounts[i])) /\ IsSeq(AccountParts(x)[i])
           /\ IsSeq(FlattenSeq(AccountParts(x)))
<1>1. Len(x.accounts) \in Nat
  BY LenNat DEF Tellable
<1>2. AccountParts(x) = [i \in 1..Len(x.accounts) |-> AccountParts(x)[i]]
  BY DEF AccountParts
<1>3. IsSeq(AccountParts(x)) /\ Len(AccountParts(x)) = Len(x.accounts)
  BY <1>1, <1>2, ListIsSeq
<1>4. ASSUME NEW i \in 1..Len(AccountParts(x))
      PROVE  /\ AccountParts(x)[i] = AccountPart(x, x.accounts[i])
             /\ IsSeq(Keys(x, x.accounts[i])) /\ IsSeq(AccountParts(x)[i])
  <2>1. AccountParts(x)[i] = AccountPart(x, x.accounts[i])
    BY <1>3 DEF AccountParts
  <2>2. IsSeq(Keys(x, x.accounts[i]))
    BY <1>3 DEF Tellable
  <2>3. IsSeq(AccountPart(x, x.accounts[i]))
    BY <2>2, AccountIsSeq DEF Keys, AccountPart
  <2> QED
    BY <2>1, <2>2, <2>3
<1> QED
  BY <1>3, <1>4, FlattenFirst

LEMMA SpansLogs ==
    ASSUME NEW b, NEW q, NEW logs, IsSeq(b), logs \in Seq(Log),
           Spans(b, 8, FlattenSeq(LogParts(logs)), q)
    PROVE  \E lo : LogsAt(b, logs, lo) /\ lo[Len(logs)] = q
<1> DEFINE P == LogParts(logs)
<1>1. /\ IsSeq(logs) /\ IsSeq(P) /\ Len(P) = Len(logs)
      /\ \A i \in 1..Len(P) : P[i] = log_fields(logs[i]) /\ IsSeq(logs[i].topics) /\ IsSeq(P[i])
  BY LogPartsAre
<1> HIDE DEF P
<1>2. PICK off : Parts(b, 8, P, q, off)
  BY <1>1, FlattenSpans DEF P
<1>3. ASSUME NEW k \in 1..Len(logs) PROVE LogAt(b, off[k - 1], logs[k], off[k])
  <2>1. Spans(b, off[k - 1], log_fields(logs[k]), off[k])
    BY <1>1, <1>2 DEF Parts
  <2> QED
    BY <1>1, <2>1, SpansLog
<1>4. LogsAt(b, logs, off) /\ off[Len(logs)] = q
  BY <1>1, <1>2, <1>3 DEF LogsAt, Parts
<1> QED
  BY <1>4

LEMMA SpansAccounts ==
    ASSUME NEW b, NEW p, NEW q, NEW x, IsSeq(b), Tellable(x),
           Spans(b, p, FlattenSeq(AccountParts(x)), q)
    PROVE  \E ao : AccountsAt(b, x, p, ao) /\ ao[Len(x.accounts)] = q
<1> DEFINE P == AccountParts(x)
<1>1. /\ IsSeq(P) /\ Len(P) = Len(x.accounts)
      /\ \A i \in 1..Len(P) : /\ P[i] = AccountPart(x, x.accounts[i])
                              /\ IsSeq(Keys(x, x.accounts[i])) /\ IsSeq(P[i])
  BY AccountPartsAre
<1> HIDE DEF P
<1>2. PICK off : Parts(b, p, P, q, off)
  BY <1>1, FlattenSpans DEF P
<1>3. ASSUME NEW k \in 1..Len(x.accounts)
      PROVE  AccountAt(b, off[k - 1], x.accounts[k], x.changes[x.accounts[k]],
                       Keys(x, x.accounts[k]), off[k])
  <2>1. Spans(b, off[k - 1], AccountPart(x, x.accounts[k]), off[k])
    BY <1>1, <1>2 DEF Parts
  <2>2. IsSeq(Keys(x, x.accounts[k]))
    BY <1>1
  <2> QED
    BY <2>1, <2>2, SpansAccount DEF AccountPart, Keys
<1>4. AccountsAt(b, x, p, off) /\ off[Len(x.accounts)] = q
  BY <1>1, <1>2, <1>3 DEF AccountsAt, Parts
<1> QED
  BY <1>4

\* The bloom filter of the logs, if there are any.
LEMMA SpansBloom ==
    ASSUME NEW b, NEW p, NEW q, NEW logs, IsSeq(b), Spans(b, p, bloom_fields(logs), q)
    PROVE  BloomAt(b, logs, p, q)
<1>1. CASE logs = <<>>
  <2>1. p \in Nat /\ q = p + Len(<<>>)
    BY <1>1 DEF Spans, bloom_fields
  <2> QED
    BY <1>1, <2>1, EmptyIsSeq DEF BloomAt
<1>2. CASE logs # <<>>
  BY <1>2, SpansField DEF BloomAt, bloom_fields
<1> QED
  BY <1>1, <1>2

\* Where everything stands in the blob of an outcome.
LEMMA OutcomeLayout ==
    ASSUME NEW x, Tellable(x)
    PROVE  IsSeq(OutcomeFields(x)) /\ \E lo, c, ao : Layout(OutcomeFields(x), x, lo, c, ao)
<1> DEFINE s1 == HeadFields(x.byte, x.gas[1], x.gas[2], x.gas[3], x.data)
           s2 == s1 \o Field("u32", Len(x.logs))
           ls == FlattenSeq(LogParts(x.logs))
           s3 == s2 \o ls
           bl == bloom_fields(x.logs)
           s4 == s3 \o bl
           s5 == s4 \o Field("u32", Len(x.accounts))
           as == FlattenSeq(AccountParts(x))
           s6 == s5 \o as
           b  == s6 \o Field("price", x.price)
<1>1. IsSeq(s1)
  BY HeadIsSeq
<1>2. IsSeq(ls) /\ IsSeq(as) /\ IsSeq(bl)
  BY LogPartsAre, AccountPartsAre, FieldIsSeq, EmptyIsSeq DEF Tellable, bloom_fields
<1>3. b = OutcomeFields(x)
  BY DEF OutcomeFields
<1> HIDE DEF s1, ls, bl, as
<1>4. IsSeq(s2)
  BY <1>1, ThenIsSeq
<1> HIDE DEF s2
<1>5. IsSeq(s3)
  BY <1>2, <1>4, Concat
<1> HIDE DEF s3
<1>6. IsSeq(s4)
  BY <1>2, <1>5, Concat
<1> HIDE DEF s4
<1>7. IsSeq(s5)
  BY <1>6, ThenIsSeq
<1> HIDE DEF s5
<1>8. IsSeq(s6)
  BY <1>2, <1>7, Concat
<1> HIDE DEF s6
<1>9. IsSeq(b)
  BY <1>8, ThenIsSeq
<1>10. Len(b) \in Nat /\ Spans(b, 1, b, Len(b) + 1)
  BY <1>9, LenNat, SpansAll
<1>11. PICK m6 \in Nat \ {0} : /\ Spans(b, 1, s6, m6) /\ FieldAt(b, m6, "price", x.price)
                               /\ Len(b) + 1 = m6 + 1
  <2>1. PICK e : e = Len(b) + 1
    OBVIOUS
  <2>2. Spans(b, 1, s6 \o Field("price", x.price), e)
    BY <1>10, <2>1
  <2> HIDE DEF b
  <2>3. \E m \in Nat \ {0} : /\ Spans(b, 1, s6, m) /\ FieldAt(b, m, "price", x.price)
                             /\ e = m + 1
    BY <1>8, <1>9, <2>2, SpansThen
  <2> QED
    BY <2>1, <2>3
<1> HIDE DEF b
<1>12. PICK m5 \in Nat \ {0} : Spans(b, 1, s5, m5) /\ Spans(b, m5, as, m6)
  BY <1>2, <1>7, <1>9, <1>11, SpansConcat DEF s6
<1>13. PICK c \in Nat \ {0} : /\ Spans(b, 1, s4, c) /\ FieldAt(b, c, "u32", Len(x.accounts))
                              /\ m5 = c + 1
  BY <1>6, <1>9, <1>12, SpansThen DEF s5
<1>14. PICK m3 \in Nat \ {0} : Spans(b, 1, s3, m3) /\ Spans(b, m3, bl, c)
  BY <1>2, <1>5, <1>9, <1>13, SpansConcat DEF s4
<1>15. PICK m2 \in Nat \ {0} : Spans(b, 1, s2, m2) /\ Spans(b, m2, ls, m3)
  BY <1>2, <1>4, <1>9, <1>14, SpansConcat DEF s3
<1>16. PICK m1 \in Nat \ {0} : /\ Spans(b, 1, s1, m1) /\ FieldAt(b, m1, "u32", Len(x.logs))
                               /\ m2 = m1 + 1
  BY <1>1, <1>9, <1>15, SpansThen DEF s2
<1>17. HeadAt(b, x.byte, x.gas[1], x.gas[2], x.gas[3], x.data) /\ m1 = 7
  BY <1>9, <1>16, SpansHead DEF s1
<1>18. m2 = 8 /\ Len(b) = m6
  BY <1>10, <1>11, <1>16, <1>17
<1>19. PICK lo : LogsAt(b, x.logs, lo) /\ lo[Len(x.logs)] = m3
  BY <1>9, <1>15, <1>18, SpansLogs DEF ls, Tellable
<1>20. BloomAt(b, x.logs, m3, c)
  BY <1>9, <1>14, SpansBloom DEF bl
<1>21. PICK ao : AccountsAt(b, x, m5, ao) /\ ao[Len(x.accounts)] = m6
  BY <1>9, <1>12, SpansAccounts DEF as
<1>22. Layout(b, x, lo, c, ao)
  BY <1>11, <1>13, <1>16, <1>17, <1>18, <1>19, <1>20, <1>21 DEF Layout
<1> QED
  BY <1>3, <1>9, <1>22

-----------------------------------------------------------------------------
(* Reading: a decoder that is at the place of a part finds that part there.*)

LEMMA FitsOne ==
    ASSUME NEW p \in Nat, NEW kind, NEW value, FieldAt(blob, p, kind, value)
    PROVE  Fits(p, <<kind>>) /\ Value(p) = value
<1>1. Len(<<kind>>) = 1 /\ <<kind>>[1] = kind
  OBVIOUS
<1>2. Value(p) = value
  BY DEF FieldAt, Value
<1>3. p + 1 - 1 = p /\ p <= Len(blob)
  BY DEF FieldAt
<1>4. \A i \in 1..Len(<<kind>>) : blob[p + i - 1].kind = <<kind>>[i]
  BY <1>1, <1>3 DEF FieldAt
<1> QED
  BY <1>1, <1>2, <1>3, <1>4 DEF Fits

LEMMA FitsTwo ==
    ASSUME NEW p \in Nat, NEW kind1, NEW kind2, NEW value1, NEW value2,
           FieldAt(blob, p, kind1, value1), FieldAt(blob, p + 1, kind2, value2)
    PROVE  Fits(p, <<kind1, kind2>>) /\ Value(p) = value1 /\ Value(p + 1) = value2
<1> DEFINE ks == <<kind1, kind2>>
<1>1. Len(ks) = 2 /\ ks[1] = kind1 /\ ks[2] = kind2
  OBVIOUS
<1>2. Value(p) = value1 /\ Value(p + 1) = value2
  BY DEF FieldAt, Value
<1>3. p + 1 - 1 = p /\ p + 2 - 1 = p + 1 /\ p + 1 <= Len(blob)
  BY DEF FieldAt
<1>4. blob[p + 1 - 1].kind = ks[1] /\ blob[p + 2 - 1].kind = ks[2]
  BY <1>1, <1>3 DEF FieldAt
<1> HIDE DEF ks
<1>5. \A i \in 1..Len(ks) : blob[p + i - 1].kind = ks[i]
  <2> TAKE i \in 1..Len(ks)
  <2>1. i = 1 \/ i = 2
    BY <1>1
  <2> QED
    BY <1>4, <2>1
<1> QED
  BY <1>1, <1>2, <1>3, <1>5 DEF Fits, ks

LEMMA FitsFour ==
    ASSUME NEW p \in Nat, NEW kind1, NEW kind2, NEW kind3, NEW kind4,
           NEW value1, NEW value2, NEW value3, NEW value4,
           FieldAt(blob, p, kind1, value1), FieldAt(blob, p + 1, kind2, value2),
           FieldAt(blob, p + 2, kind3, value3), FieldAt(blob, p + 3, kind4, value4)
    PROVE  /\ Fits(p, <<kind1, kind2, kind3, kind4>>)
           /\ Value(p) = value1 /\ Value(p + 1) = value2
           /\ Value(p + 2) = value3 /\ Value(p + 3) = value4
<1> DEFINE ks == <<kind1, kind2, kind3, kind4>>
<1>1. Len(ks) = 4 /\ ks[1] = kind1 /\ ks[2] = kind2 /\ ks[3] = kind3 /\ ks[4] = kind4
  OBVIOUS
<1>2. /\ Value(p) = value1 /\ Value(p + 1) = value2
      /\ Value(p + 2) = value3 /\ Value(p + 3) = value4
  BY DEF FieldAt, Value
<1>3. /\ p + 1 - 1 = p /\ p + 2 - 1 = p + 1 /\ p + 3 - 1 = p + 2 /\ p + 4 - 1 = p + 3
      /\ p + 3 <= Len(blob)
  BY DEF FieldAt
<1>4. /\ blob[p + 1 - 1].kind = ks[1] /\ blob[p + 2 - 1].kind = ks[2]
      /\ blob[p + 3 - 1].kind = ks[3] /\ blob[p + 4 - 1].kind = ks[4]
  BY <1>1, <1>3 DEF FieldAt
<1> HIDE DEF ks
<1>5. \A i \in 1..Len(ks) : blob[p + i - 1].kind = ks[i]
  <2> TAKE i \in 1..Len(ks)
  <2>1. i = 1 \/ i = 2 \/ i = 3 \/ i = 4
    BY <1>1
  <2> QED
    BY <1>4, <2>1
<1> QED
  BY <1>1, <1>2, <1>3, <1>5 DEF Fits, ks

\* Fields of the kinds of a list, from place p on, of which the last is at q - 1.
LEMMA FitsMany ==
    ASSUME NEW p \in Nat, NEW n \in Nat, NEW ks, ks = [i \in 1..n |-> ks[i]],
           p + n <= Len(blob) + 1, Len(blob) \in Nat,
           \A i \in 1..n : blob[p + i - 1].kind = ks[i]
    PROVE  Fits(p, ks)
<1>1. Len(ks) = n
  BY ListIsSeq
<1>2. p + n - 1 <= Len(blob)
  OBVIOUS
<1> QED
  BY <1>1, <1>2 DEF Fits

LEMMA FitsBytes ==
    ASSUME NEW p \in Nat, NEW bytes, FieldAt(blob, p, "u32", Len(bytes)),
           FieldAt(blob, p + 1, "bytes", bytes)
    PROVE  FitsSized(p) /\ Value(p + 1) = bytes
<1>1. Fits(p, <<"u32", "bytes">>) /\ Value(p) = Len(bytes) /\ Value(p + 1) = bytes
  BY FitsTwo
<1> QED
  BY <1>1 DEF FitsSized

LogRead(p) == [address |-> Value(p), topics |-> [i \in 1..Value(p + 1) |-> Value(p + 1 + i)],
               data |-> Value(p + 3 + Value(p + 1))]

\* Where a log stands it fits, and is read as it was.
LEMMA LogIsRead ==
    ASSUME NEW log \in Log, NEW q, o \in Nat, IsSeq(blob), LogAt(blob, o, log, q)
    PROVE  LogFits /\ LogRead(o) = log /\ o + 4 + Value(o + 1) = q
<1> DEFINE n == Len(log.topics)
<1>1. /\ log = [address |-> log.address, topics |-> log.topics, data |-> log.data]
      /\ log.topics \in Seq(Topic)
  BY DEF Log
<1>2. n \in Nat /\ log.topics = [i \in 1..n |-> log.topics[i]] /\ Len(blob) \in Nat
  BY <1>1, LenProperties, LenNat
<1>3. /\ FieldAt(blob, o, "address", log.address) /\ FieldAt(blob, o + 1, "u8", n)
      /\ \A i \in 1..n : FieldAt(blob, o + 1 + i, "topic", log.topics[i])
      /\ FieldAt(blob, o + 2 + n, "u32", Len(log.data))
      /\ FieldAt(blob, o + 3 + n, "bytes", log.data)
      /\ q = o + 4 + n
  BY DEF LogAt
<1> HIDE DEF n
<1>4. Fits(o, <<"address", "u8">>) /\ Value(o) = log.address /\ Value(o + 1) = n
  BY <1>3, FitsTwo
<1>5. ASSUME NEW i \in 1..n
      PROVE  Value(o + 1 + i) = log.topics[i] /\ blob[(o + 2) + i - 1].kind = "topic"
  <2>1. (o + 2) + i - 1 = o + 1 + i
    BY <1>2
  <2> QED
    BY <1>3, <2>1 DEF FieldAt, Value
<1>6. Fits(o + 2, Topics(o + 1))
  <2> DEFINE ks == Topics(o + 1)
             p == o + 2
  <2>1. ks = [i \in 1..n |-> "topic"]
    BY <1>4 DEF Topics
  <2>2. ks = [i \in 1..n |-> ks[i]] /\ \A i \in 1..n : ks[i] = "topic"
    BY <2>1
  <2>3. p \in Nat /\ p + n <= Len(blob) + 1
    BY <1>2, <1>3, SMTT(20) DEF FieldAt
  <2>4. \A i \in 1..n : blob[p + i - 1].kind = ks[i]
    BY <1>5, <2>2
  <2> HIDE DEF ks, p
  <2>5. Fits(p, ks)
    BY <1>2, <2>2, <2>3, <2>4, FitsMany, ZenonT(60)
  <2> QED
    BY <2>5 DEF ks, p
<1>7. FitsSized(o + 2 + n) /\ Value(o + 3 + n) = log.data
  <2> DEFINE p == o + 2 + n
  <2>1. p \in Nat /\ p + 1 = o + 3 + n
    BY <1>2
  <2>2. FieldAt(blob, p, "u32", Len(log.data)) /\ FieldAt(blob, p + 1, "bytes", log.data)
    BY <1>3, <2>1
  <2> HIDE DEF p
  <2>3. FitsSized(p) /\ Value(p + 1) = log.data
    BY <2>1, <2>2, FitsBytes
  <2> QED
    BY <2>1, <2>3 DEF p
<1>8. [i \in 1..n |-> Value(o + 1 + i)] = log.topics
  BY <1>2, <1>5
<1>9. LogRead(o) = log
  BY <1>1, <1>4, <1>7, <1>8 DEF LogRead
<1> QED
  BY <1>3, <1>4, <1>6, <1>7, <1>9 DEF LogFits

\* What is read of an account.
StorageOf(keys, slot) == [i \in 1..Len(keys) |-> <<keys[i], slot[keys[i]]>>]
EntryOf(a, e, keys) ==
    [address |-> a,
     selfdestructed |-> 0 \in flags(e), touched |-> 1 \in flags(e), created |-> 2 \in flags(e),
     deleted |-> 4 \in flags(e), info |-> [purse |-> e.info.purse, hash |-> e.info.hash],
     code |-> IF code_changed(e) THEN code_bytes(e.code) ELSE Undefined,
     storage |-> StorageOf(keys, e.slot)]

\* Each of the first 2n places is the first or the second of a pair.
LEMMA OddEven ==
    ASSUME NEW n \in Nat, NEW i \in 1..(2 * n)
    PROVE  /\ i % 2 = 1 => \E j \in 1..n : i = 2 * j - 1
           /\ i % 2 # 1 => \E j \in 1..n : i = 2 * j
<1> DEFINE Good == {m \in Nat : \E j \in Nat : m = 2 * j \/ m = 2 * j + 1}
<1>1. 0 \in Good
  OBVIOUS
<1>2. ASSUME NEW m \in Nat, m \in Good PROVE m + 1 \in Good
  <2>1. PICK j \in Nat : m = 2 * j \/ m = 2 * j + 1
    BY <1>2
  <2>2. CASE m = 2 * j
    BY <2>2
  <2>3. CASE m = 2 * j + 1
    <3>1. PICK k \in Nat : k = j + 1
      OBVIOUS
    <3>2. m + 1 = 2 * k
      BY <2>3, <3>1
    <3> QED
      BY <3>2
  <2> QED
    BY <2>1, <2>2, <2>3
<1> HIDE DEF Good
<1>3. Nat \subseteq Good
  BY <1>1, <1>2, AllNat
<1>4. PICK j \in Nat : i = 2 * j \/ i = 2 * j + 1
  <2>1. i \in Good
    BY <1>3
  <2> QED
    BY <2>1 DEF Good
<1>5. (2 * j) % 2 = 0 /\ (2 * j + 1) % 2 = 1
  OBVIOUS
<1>6. CASE i = 2 * j
  BY <1>5, <1>6
<1>7. CASE i = 2 * j + 1
  <2>1. j + 1 \in 1..n /\ i = 2 * (j + 1) - 1
    BY <1>7
  <2> QED
    BY <1>5, <1>7, <2>1
<1> QED
  BY <1>4, <1>6, <1>7

\* Where an account stands it fits, and is read as it was.
LEMMA AccountIsRead ==
    ASSUME NEW a, NEW e, NEW keys, NEW q, o \in Nat, IsSeq(blob), IsSeq(keys),
           AccountAt(blob, o, a, e, keys, q)
    PROVE  /\ AccountFits /\ EntryAt(o) = EntryOf(a, e, keys)
           /\ SlotCount(o) + 1 + 2 * Value(SlotCount(o)) = q
<1> DEFINE n == Len(keys)
<1>0. n \in Nat /\ Len(blob) \in Nat
  BY LenNat
<1>1. PICK s : s = CountAt(o, e)
  OBVIOUS
<1>2. /\ FieldAt(blob, o, "address", a) /\ FieldAt(blob, o + 1, "flags", flags(e))
      /\ FieldAt(blob, o + 2, "purse", e.info.purse) /\ FieldAt(blob, o + 3, "hash", e.info.hash)
      /\ code_changed(e) => /\ FieldAt(blob, o + 4, "u32", Len(code_bytes(e.code)))
                            /\ FieldAt(blob, o + 5, "bytes", code_bytes(e.code))
      /\ FieldAt(blob, s, "u32", n)
      /\ \A i \in 1..n : /\ FieldAt(blob, s + 2 * i - 1, "key", keys[i])
                         /\ FieldAt(blob, s + 2 * i, "word", e.slot[keys[i]])
      /\ q = s + 1 + 2 * n
  BY <1>1 DEF AccountAt
<1> HIDE DEF n
<1>3. /\ Fits(o, <<"address", "flags", "purse", "hash">>)
      /\ Value(o) = a /\ Value(o + 1) = flags(e)
      /\ Value(o + 2) = e.info.purse /\ Value(o + 3) = e.info.hash
  BY <1>2, FitsFour
<1>4. HasCode(o) <=> code_changed(e)
  BY <1>3 DEF HasCode, flags
<1>5. SlotCount(o) = s /\ s \in Nat
  BY <1>1, <1>4 DEF SlotCount, CountAt
<1>6. code_changed(e) => FitsSized(o + 4) /\ Value(o + 5) = code_bytes(e.code)
  <2> SUFFICES ASSUME code_changed(e) PROVE FitsSized(o + 4) /\ Value(o + 5) = code_bytes(e.code)
    OBVIOUS
  <2> DEFINE p == o + 4
  <2>1. p \in Nat /\ p + 1 = o + 5
    OBVIOUS
  <2>2. FieldAt(blob, p, "u32", Len(code_bytes(e.code)))
        /\ FieldAt(blob, p + 1, "bytes", code_bytes(e.code))
    BY <1>2, <2>1
  <2> HIDE DEF p
  <2>3. FitsSized(p) /\ Value(p + 1) = code_bytes(e.code)
    BY <2>1, <2>2, FitsBytes
  <2> QED
    BY <2>1, <2>3 DEF p
<1>7. Fits(s, <<"u32">>) /\ Value(s) = n
  BY <1>2, <1>5, FitsOne
<1>8. ASSUME NEW i \in 1..n
      PROVE  /\ Value(s + 2 * i - 1) = keys[i] /\ Value(s + 2 * i) = e.slot[keys[i]]
             /\ blob[s + 2 * i - 1].kind = "key" /\ blob[s + 2 * i].kind = "word"
             /\ s + 2 * i <= Len(blob)
  BY <1>2 DEF FieldAt, Value
<1>9. Fits(s + 1, Slots(s))
  <2>1. PICK m \in Nat : m = 2 * n
    BY <1>0
  <2>2. PICK p \in Nat : p = s + 1
    BY <1>5
  <2>3. PICK ks : ks = Slots(s)
    OBVIOUS
  <2>4. ks = [i \in 1..m |-> IF i % 2 = 1 THEN "key" ELSE "word"]
    BY <1>7, <2>1, <2>3 DEF Slots
  <2>5. \A i \in 1..m : ks[i] = IF i % 2 = 1 THEN "key" ELSE "word"
    BY <2>4
  <2>6. ks = [i \in 1..m |-> ks[i]]
    BY <2>4
  <2>7. p \in Nat /\ m \in Nat /\ p + m <= Len(blob) + 1
    <3>1. CASE n = 0
      BY <1>0, <1>2, <1>5, <2>1, <2>2, <3>1 DEF FieldAt
    <3>2. CASE n # 0
      <4>1. n \in 1..n
        BY <1>0, <3>2
      <4>2. s + 2 * n <= Len(blob)
        BY <1>8, <4>1
      <4> QED
        BY <1>0, <1>5, <2>1, <2>2, <4>2
    <3> QED
      BY <3>1, <3>2
  <2>8. ASSUME NEW i \in 1..m PROVE blob[p + i - 1].kind = ks[i]
    <3>1. p + i - 1 = s + i /\ i \in Nat
      BY <1>0, <1>5, <2>2
    <3>2. CASE i % 2 = 1
      <4>1. PICK j \in 1..n : i = 2 * j - 1
        BY <1>0, <2>1, <3>1, <3>2, OddEven
      <4>2. s + i = s + 2 * j - 1
        BY <1>0, <1>5, <4>1
      <4> QED
        BY <1>8, <2>5, <3>1, <3>2, <4>2
    <3>3. CASE i % 2 # 1
      <4>1. PICK j \in 1..n : i = 2 * j
        BY <1>0, <2>1, <3>1, <3>3, OddEven
      <4> QED
        BY <1>8, <2>5, <3>1, <3>3, <4>1
    <3> QED
      BY <3>2, <3>3
  <2>9. Fits(p, ks)
    <3>1. \A i \in 1..m : blob[p + i - 1].kind = ks[i]
      BY <2>8
    <3>2. p \in Nat /\ m \in Nat /\ p + m <= Len(blob) + 1 /\ Len(blob) \in Nat
      BY <1>0, <2>7
    <3>3. Len(ks) = m
      BY ONLY <2>6, ListIsSeq, m \in Nat
    <3>4. p + m - 1 <= Len(blob)
      BY <3>2
    <3> QED
      BY ONLY <3>1, <3>3, <3>4 DEF Fits
  <2> QED
    BY <2>9, <2>2, <2>3
<1>10. AccountFits
  BY <1>3, <1>4, <1>5, <1>6, <1>7, <1>9 DEF AccountFits
<1>11. [i \in 1..Value(s) |-> <<Value(s + 2 * i - 1), Value(s + 2 * i)>>]
         = StorageOf(keys, e.slot)
  BY <1>7, <1>8 DEF StorageOf, n
<1>12. EntryAt(o) = EntryOf(a, e, keys)
  BY <1>3, <1>4, <1>5, <1>6, <1>11 DEF EntryAt, EntryOf, n
<1> QED
  BY <1>2, <1>5, <1>7, <1>10, <1>12

-----------------------------------------------------------------------------
(* What a blob tells of an execution, and how.                             *)

IsRejection(what) == "message" \in DOMAIN what

\* The light path tells nothing behind the head of an execution that ran.
Short(what, is_light) == is_light /\ ~ IsRejection(what)

\* x is what the execution had to tell.
Tells(what, is_light, x) ==
    /\ x.byte \in 0..3
    /\ IsRejection(what) => x.byte = 3 /\ x.data = what.message
    /\ ~ IsRejection(what) =>
          /\ x.byte # 3 /\ STATUS[x.byte + 1] = what.result.status
          /\ <<x.gas[1], x.gas[2], x.gas[3]>> = what.result.gas
          /\ x.data = IF what.result.status = "halt" THEN <<>> ELSE what.result.output
          /\ ~ is_light => /\ x.logs = what.result.logs /\ x.changes = what.changes
                           /\ x.price = what.price

\* Accounts and slots are told in ascending order.
Sorted(x) ==
    /\ x.logs \in Seq(Log)
    /\ x.changes \in UNION {[D -> Reported] : D \in SUBSET Addr}
    /\ Ascends(x.accounts, DOMAIN x.changes)
    /\ \A a \in DOMAIN x.changes : Ascends(Keys(x, a), DOMAIN x.changes[a].slot)

\* The blob of it.
Blobbed(b, short, x, lo, c, ao) ==
    /\ IsSeq(b)
    /\ short => HeadAt(b, x.byte, x.gas[1], x.gas[2], x.gas[3], x.data) /\ Len(b) = 6
    /\ ~ short => Layout(b, x, lo, c, ao)

LEMMA SortedTellable == ASSUME NEW x, Sorted(x) PROVE Tellable(x)
<1>1. x.logs \in Seq(Log) /\ IsSeq(x.accounts)
  BY DEF Sorted, Ascends
<1>2. ASSUME NEW i \in 1..Len(x.accounts) PROVE IsSeq(Keys(x, x.accounts[i]))
  <2>1. x.accounts[i] \in DOMAIN x.changes
    BY DEF Sorted, Ascends
  <2> QED
    BY <2>1 DEF Sorted, Ascends
<1> QED
  BY <1>1, <1>2 DEF Tellable

\* STATUS undoes StatusByte.
LEMMA StatusBytes ==
    ASSUME NEW status \in {"success", "revert", "halt"}
    PROVE  /\ StatusByte(status) \in 0..3 /\ StatusByte(status) # 3
           /\ STATUS[StatusByte(status) + 1] = status
<1> DEFINE i == CHOOSE i \in 1..Len(STATUS) : STATUS[i] = status
<1>1. /\ Len(STATUS) = 4 /\ STATUS[1] = "success" /\ STATUS[2] = "revert"
      /\ STATUS[3] = "halt" /\ STATUS[4] = "validation-error"
  BY DEF STATUS
<1>2. \E j \in 1..Len(STATUS) : STATUS[j] = status
  <2>1. 1 \in 1..Len(STATUS) /\ 2 \in 1..Len(STATUS) /\ 3 \in 1..Len(STATUS)
    BY <1>1
  <2> QED
    BY <1>1, <2>1
<1>3. i \in 1..Len(STATUS) /\ STATUS[i] = status
  BY <1>2
<1>4. StatusByte(status) = i - 1
  BY DEF StatusByte
<1> HIDE DEF i
<1>5. i \in 1..4 /\ i # 4
  BY <1>1, <1>3
<1>6. i - 1 \in 0..3 /\ i - 1 # 3 /\ (i - 1) + 1 = i
  BY <1>5
<1> QED
  BY <1>3, <1>4, <1>6

\* The head of an execution that ran.
LEMMA ResultHead ==
    ASSUME NEW r \in Result
    PROVE  /\ r.status \in {"success", "revert", "halt"} /\ r.logs \in Seq(Log)
           /\ <<r.gas[1], r.gas[2], r.gas[3]>> = r.gas
           /\ encode_head(r) = HeadFields(StatusByte(r.status), r.gas[1], r.gas[2], r.gas[3],
                                          IF r.status = "halt" THEN <<>> ELSE r.output)
<1>1. r \in [status : {"success", "revert", "halt"}, gas : Nat \X Nat \X Nat,
             output : Seq(Byte), logs : Seq(Log)]
  BY ResultAssumption
<1>2. r.gas \in Nat \X Nat \X Nat /\ r.status \in {"success", "revert", "halt"}
      /\ r.logs \in Seq(Log)
  BY <1>1
<1>3. <<r.gas[1], r.gas[2], r.gas[3]>> = r.gas
  BY <1>2
<1> QED
  BY <1>2, <1>3 DEF encode_head, HeadFields

\* A light outcome is a head.
LEMMA LightTells ==
    ASSUME NEW r \in Result
    PROVE  \E x : /\ Tells([result |-> r], TRUE, x) /\ Sorted(x)
                  /\ ~ IsRejection([result |-> r])
                  /\ Blobbed(encode_outcome_light(r), TRUE, x, 0, 0, 0)
<1> DEFINE d == IF r.status = "halt" THEN <<>> ELSE r.output
           x == [byte |-> StatusByte(r.status), gas |-> r.gas, data |-> d, logs |-> <<>>,
                 accounts |-> <<>>, changes |-> [a \in {} |-> 0], slots |-> <<>>, price |-> 0]
           w == [result |-> r]
           b == encode_outcome_light(r)
<1>1. /\ x.byte = StatusByte(r.status) /\ x.gas = r.gas /\ x.data = d /\ x.logs = <<>>
      /\ x.accounts = <<>> /\ x.changes = [a \in {} |-> 0]
  OBVIOUS
<1>2. ~ IsRejection(w) /\ w.result = r
  BY DEF IsRejection
<1> HIDE DEF x, w
<1>3. Tells(w, TRUE, x)
  BY <1>1, <1>2, ResultHead, StatusBytes DEF Tells
<1>4. Sorted(x)
  <2>1. x.logs \in Seq(Log)
    BY <1>1
  <2>2. DOMAIN x.changes = {} /\ x.changes \in [{} -> Reported]
    BY <1>1
  <2>3. Ascends(x.accounts, {})
    BY <1>1, EmptyIsSeq DEF Ascends
  <2>4. {} \in SUBSET Addr
    OBVIOUS
  <2>5. x.changes \in UNION {[D -> Reported] : D \in SUBSET Addr}
    BY <2>2, <2>4
  <2> QED
    BY <2>1, <2>2, <2>3, <2>5 DEF Sorted
<1>5. b = HeadFields(x.byte, x.gas[1], x.gas[2], x.gas[3], x.data)
  BY <1>1, ResultHead DEF encode_outcome_light
<1>6. IsSeq(b)
  BY <1>5, HeadIsSeq
<1>7. PICK q : q = Len(b) + 1 /\ Spans(b, 1, b, q)
  BY <1>6, SpansAll
<1>8. HeadAt(b, x.byte, x.gas[1], x.gas[2], x.gas[3], x.data) /\ q = 7
  BY <1>5, <1>6, <1>7, SpansHead
<1>9. Len(b) = 6
  <2> HIDE DEF b
  <2>1. PICK k \in Nat : k = Len(b)
    BY <1>6, LenNat
  <2>2. k + 1 = 7
    BY <1>7, <1>8, <2>1
  <2>3. k = 6
    BY ONLY <2>2, k \in Nat
  <2> QED
    BY <2>1, <2>3
<1>10. Blobbed(b, TRUE, x, 0, 0, 0)
  BY <1>6, <1>8, <1>9 DEF Blobbed
<1> HIDE DEF b
<1> QED
  BY <1>2, <1>3, <1>4, <1>10 DEF w, b

\* A full outcome is laid out as Layout says, whatever the iterations.
LEMMA FullTells ==
    ASSUME NEW r \in Result, NEW changes \in Changes, NEW price,
           NEW accounts \in Iterations(DOMAIN changes), NEW slots,
           \A a \in DOMAIN changes : slots[a] \in Iterations(DOMAIN changes[a].slot)
    PROVE  \E x, lo, c, ao :
              /\ Tells([result |-> r, changes |-> changes, price |-> price], FALSE, x)
              /\ Sorted(x)
              /\ Blobbed(encode_full(r, changes, price, accounts, slots), FALSE, x, lo, c, ao)
<1> DEFINE d == IF r.status = "halt" THEN <<>> ELSE r.output
           as == sort_by_key(accounts)
           x == [byte |-> StatusByte(r.status), gas |-> r.gas, data |-> d, logs |-> r.logs,
                 accounts |-> as, changes |-> changes, slots |-> slots, price |-> price]
           w == [result |-> r, changes |-> changes, price |-> price]
           b == encode_full(r, changes, price, accounts, slots)
<1>1. /\ x.byte = StatusByte(r.status) /\ x.gas = r.gas /\ x.data = d /\ x.logs = r.logs
      /\ x.accounts = as /\ x.changes = changes /\ x.slots = slots /\ x.price = price
  OBVIOUS
<1>2. ~ IsRejection(w) /\ w.result = r /\ w.changes = changes /\ w.price = price
  BY DEF IsRejection
<1> HIDE DEF x, w
<1>3. Tells(w, FALSE, x)
  BY <1>1, <1>2, ResultHead, StatusBytes DEF Tells
<1>4. PICK D \in SUBSET Addr : changes \in [D -> Reported]
  BY ChangesAssumption
<1>5. D \subseteq Nat /\ IsFiniteSet(D) /\ DOMAIN changes = D
  BY <1>4, ChangesAssumption, StoreAssumption, FS_Subset
<1>6. Ascends(as, D) /\ Len(as) = Len(accounts)
  BY <1>5, Sorts
<1>7. ASSUME NEW a \in D PROVE Ascends(Keys(x, a), DOMAIN changes[a].slot)
  <2>1. changes[a] \in Reported
    BY <1>4
  <2>2. PICK L \in SUBSET Key : changes[a].slot \in [L -> Val]
    BY <2>1 DEF Reported
  <2>3. L \subseteq Nat /\ IsFiniteSet(L) /\ DOMAIN changes[a].slot = L
    BY <2>2, ChangesAssumption, FS_Subset
  <2>4. slots[a] \in Iterations(L)
    BY <1>5, <2>3
  <2> QED
    BY <1>1, <2>3, <2>4, Sorts DEF Keys
<1>8. Sorted(x)
  BY <1>1, <1>4, <1>5, <1>6, <1>7, ResultHead DEF Sorted
<1>9. b = OutcomeFields(x)
  <2>1. encode_head(r) = HeadFields(x.byte, x.gas[1], x.gas[2], x.gas[3], x.data)
    BY <1>1, ResultHead
  <2>2. Each(r.logs, log_fields) = FlattenSeq(LogParts(x.logs))
    BY <1>1 DEF Each, LogParts
  <2>3. Each(as, LAMBDA a : account_fields(a, changes[a], slots[a])) = FlattenSeq(AccountParts(x))
    BY <1>1 DEF Each, AccountParts, AccountPart
  <2>4. b = encode_head(r)
              \o Field("u32", Len(r.logs)) \o Each(r.logs, log_fields) \o bloom_fields(r.logs)
              \o Field("u32", Len(accounts))
              \o Each(as, LAMBDA a : account_fields(a, changes[a], slots[a]))
              \o Field("price", price)
    BY DEF encode_full
  <2> QED
    BY <1>1, <1>6, <2>1, <2>2, <2>3, <2>4 DEF OutcomeFields
<1>10. PICK lo, c, ao : IsSeq(b) /\ Layout(b, x, lo, c, ao)
  BY <1>8, <1>9, SortedTellable, OutcomeLayout
<1>11. Blobbed(b, FALSE, x, lo, c, ao)
  BY <1>10 DEF Blobbed
<1> HIDE DEF b
<1> QED
  BY <1>3, <1>8, <1>11 DEF w, b

\* A rejection is a full outcome without logs and accounts.
LEMMA RejectionTells ==
    ASSUME NEW message, NEW is_light
    PROVE  \E x, lo, c, ao :
              /\ Tells([message |-> message], is_light, x) /\ Sorted(x)
              /\ IsRejection([message |-> message])
              /\ Blobbed(encode_validation_error(message), FALSE, x, lo, c, ao)
<1> DEFINE x == [byte |-> 3, gas |-> <<0, 0, 0>>, data |-> message, logs |-> <<>>,
                 accounts |-> <<>>, changes |-> [a \in {} |-> 0], slots |-> <<>>, price |-> 0]
           w == [message |-> message]
           b == encode_validation_error(message)
<1>1. /\ x.byte = 3 /\ x.gas[1] = 0 /\ x.gas[2] = 0 /\ x.gas[3] = 0 /\ x.data = message
      /\ x.logs = <<>> /\ x.accounts = <<>> /\ x.changes = [a \in {} |-> 0] /\ x.price = 0
  OBVIOUS
<1>2. IsRejection(w) /\ w.message = message
  BY DEF IsRejection
<1> HIDE DEF x, w
<1>3. Tells(w, is_light, x)
  BY <1>1, <1>2 DEF Tells
<1>4. Sorted(x)
  <2>1. x.logs \in Seq(Log)
    BY <1>1
  <2>2. DOMAIN x.changes = {} /\ x.changes \in [{} -> Reported]
    BY <1>1
  <2>3. Ascends(x.accounts, {})
    BY <1>1, EmptyIsSeq DEF Ascends
  <2>4. {} \in SUBSET Addr
    OBVIOUS
  <2>5. x.changes \in UNION {[D -> Reported] : D \in SUBSET Addr}
    BY <2>2, <2>4
  <2> QED
    BY <2>1, <2>2, <2>3, <2>5 DEF Sorted
<1>5. b = OutcomeFields(x)
  <2> DEFINE h == HeadFields(x.byte, x.gas[1], x.gas[2], x.gas[3], x.data)
             s2 == h \o Field("u32", 0)
             s3 == s2 \o Field("u32", 0)
  <2>1. b = s3 \o Field("price", 0)
    BY <1>1 DEF encode_validation_error, HeadFields
  <2>2. IsSeq(h)
    BY HeadIsSeq
  <2> HIDE DEF h
  <2>3. IsSeq(s2) /\ IsSeq(s3)
    <3>1. IsSeq(s2)
      BY <2>2, ThenIsSeq
    <3> HIDE DEF s2
    <3> QED
      BY <3>1, ThenIsSeq
  <2>4. ASSUME NEW s, IsSeq(s) PROVE s \o <<>> = s
    <3>1. PICK S : s \in Seq(S)
      BY <2>4 DEF IsSeq
    <3> QED
      BY <3>1, ConcatEmptySeq
  <2>5. bloom_fields(x.logs) = <<>> /\ Len(x.logs) = 0 /\ Len(x.accounts) = 0
    BY <1>1, EmptyIsSeq DEF bloom_fields
  <2>6. LogParts(x.logs) = <<>> /\ AccountParts(x) = <<>>
    BY <2>5 DEF LogParts, AccountParts
  <2>7. FlattenSeq(LogParts(x.logs)) = <<>> /\ FlattenSeq(AccountParts(x)) = <<>>
    BY <2>6, EmptyIsSeq DEF FlattenSeq
  <2>8. OutcomeFields(x) = s2 \o <<>> \o <<>> \o Field("u32", 0) \o <<>> \o Field("price", 0)
    BY <1>1, <2>5, <2>7 DEF OutcomeFields, h
  <2>9. s2 \o <<>> = s2 /\ s3 \o <<>> = s3
    BY <2>3, <2>4
  <2> HIDE DEF s2
  <2> QED
    BY <2>1, <2>8, <2>9
<1>6. PICK lo, c, ao : IsSeq(b) /\ Layout(b, x, lo, c, ao)
  BY <1>4, <1>5, SortedTellable, OutcomeLayout
<1>7. Blobbed(b, FALSE, x, lo, c, ao)
  BY <1>6 DEF Blobbed
<1> HIDE DEF b
<1> QED
  BY <1>2, <1>3, <1>4, <1>7 DEF w, b

-----------------------------------------------------------------------------
(* Where the decoder is, and what it has by then.                          *)

\* The first k members of a list.
Prefix(s, k) == [i \in 1..k |-> s[i]]

LEMMA PrefixNext ==
    ASSUME NEW s, NEW k \in Nat
    PROVE  Append(Prefix(s, k), s[k + 1]) = Prefix(s, k + 1)
<1> DEFINE S == {s[i] : i \in 1..(k + 1)}
           p == Prefix(s, k)
           e == s[k + 1]
<1>1. p = [i \in 1..k |-> p[i]] /\ \A i \in 1..k : p[i] = s[i]
  BY DEF Prefix
<1>2. Len(p) = k
  BY <1>1, ListIsSeq
<1>3. p \in Seq(S) /\ e \in S
  <2>1. \A i \in 1..k : p[i] \in S
    BY <1>1
  <2>2. p \in [1..k -> S]
    BY <1>1, <2>1
  <2>3. p \in Seq(S)
    BY <2>2, SeqDef
  <2>4. k + 1 \in 1..(k + 1)
    OBVIOUS
  <2> QED
    BY <2>3, <2>4
<1> HIDE DEF S, p, e
<1>4. /\ Append(p, e) \in [1..(Len(p) + 1) -> S]
      /\ \A i \in 1..Len(p) : Append(p, e)[i] = p[i]
      /\ Append(p, e)[Len(p) + 1] = e
  <2>1. /\ Append(p, e) \in Seq(S) /\ Len(Append(p, e)) = Len(p) + 1
        /\ \A i \in 1..Len(p) : Append(p, e)[i] = p[i]
        /\ Append(p, e)[Len(p) + 1] = e
    BY <1>3, AppendProperties
  <2>2. Append(p, e) \in [1..Len(Append(p, e)) -> S]
    BY <2>1, LenProperties
  <2> QED
    BY <2>1, <2>2
<1>5. Append(p, e) = [i \in 1..(k + 1) |-> Append(p, e)[i]]
  BY <1>2, <1>4
<1>6. ASSUME NEW i \in 1..(k + 1) PROVE Append(p, e)[i] = s[i]
  <2>1. CASE i = k + 1
    BY <1>2, <1>4, <2>1 DEF e
  <2>2. CASE i # k + 1
    <3>1. i \in 1..k
      BY <2>2
    <3> QED
      BY <1>1, <1>2, <1>4, <3>1
  <2> QED
    BY <2>1, <2>2
<1>7. Append(p, e) = [i \in 1..(k + 1) |-> s[i]]
  BY <1>5, <1>6
<1> QED
  BY <1>7 DEF Prefix, p, e

LEMMA PrefixEnds ==
    ASSUME NEW s, IsSeq(s)
    PROVE  Prefix(s, 0) = <<>> /\ Prefix(s, Len(s)) = s
<1>1. PICK S : s \in Seq(S)
  BY DEF IsSeq
<1>2. s \in [1..Len(s) -> S]
  BY <1>1, LenProperties
<1>3. s = [i \in 1..Len(s) |-> s[i]]
  BY <1>2
<1>4. [i \in 1..0 |-> s[i]] = <<>>
  OBVIOUS
<1> QED
  BY <1>3, <1>4 DEF Prefix

\* The entries of all accounts, in the order they are told in.
EntryList(x) ==
    [i \in 1..Len(x.accounts) |->
        EntryOf(x.accounts[i], x.changes[x.accounts[i]], Keys(x, x.accounts[i]))]

\* An outcome of which the logs, changes and price have come so far.
Decoded(x, logs, changes, price) ==
    [status |-> STATUS[x.byte + 1], gas |-> <<x.gas[1], x.gas[2], x.gas[3]>>,
     returnData |-> x.data,
     error |-> IF STATUS[x.byte + 1] = "validation-error" THEN x.data ELSE Undefined,
     logs |-> logs, stateChanges |-> changes, price |-> price]

AtHead == at = "head" /\ o = 1 /\ out = Undefined
AtLogCount(x) == at = "logs" /\ o = 7 /\ out = Decoded(x, Undefined, Undefined, 0)
AtLog(x, lo, k) ==
    /\ at = "log" /\ k \in 0..Len(x.logs) /\ todo = Len(x.logs) - k /\ o = lo[k]
    /\ out = Decoded(x, Prefix(x.logs, k), Undefined, 0)
AtAccountCount(x, c) ==
    at = "accounts" /\ o = c /\ out = Decoded(x, x.logs, Undefined, 0)
AtAccount(x, ao, k) ==
    /\ at = "account" /\ k \in 0..Len(x.accounts) /\ todo = Len(x.accounts) - k /\ o = ao[k]
    /\ out = Decoded(x, x.logs, Prefix(EntryList(x), k), 0)
AtEnd(x, short) ==
    /\ at = "done" /\ o = Len(blob) + 1
    /\ out = IF short THEN Decoded(x, Undefined, Undefined, 0)
             ELSE Decoded(x, x.logs, EntryList(x), x.price)

Reading(short, x, lo, c, ao) ==
    \/ AtHead
    \/ ~ short /\ AtLogCount(x)
    \/ ~ short /\ \E k \in Nat : AtLog(x, lo, k)
    \/ ~ short /\ AtAccountCount(x, c)
    \/ ~ short /\ \E k \in Nat : AtAccount(x, ao, k)
    \/ AtEnd(x, short)

Idle == at = "idle" /\ o = 1 /\ out = Undefined

Telling(x, lo, c, ao) ==
    /\ Tells(told, light, x) /\ Sorted(x)
    /\ Blobbed(blob, Short(told, light), x, lo, c, ao)
    /\ Reading(Short(told, light), x, lo, c, ao)

\* What the execution had to tell stands in the blob, and the decoder has so much
\* of it as it has come by.
Followed == Idle \/ \E x, lo, c, ao : Telling(x, lo, c, ao)

LEMMA InitFollowed == Init => Followed
  BY DEF Init, Followed, Idle

\* Whatever is encoded, the decoder starts at its head.
LEMMA EncodeFollowed == ASSUME Followed, Encode PROVE Followed'
<1>1. o = 1 /\ out = Undefined
  BY DEF Encode, Followed, Idle, Telling, Reading, AtHead, AtLogCount, AtLog,
         AtAccountCount, AtAccount, AtEnd
<1>2. ASSUME NEW what, NEW is_light, NEW fields, Encoded(what, is_light, fields),
             NEW x, NEW lo, NEW c, NEW ao, Tells(what, is_light, x), Sorted(x),
             Blobbed(fields, Short(what, is_light), x, lo, c, ao)
      PROVE  Followed'
  <2>1. told' = what /\ light' = is_light /\ blob' = fields /\ at' = "head"
        /\ o' = o /\ out' = out
    BY <1>2 DEF Encoded
  <2>2. AtHead'
    BY <1>1, <2>1 DEF AtHead
  <2>3. Telling(x, lo, c, ao)'
    BY <1>2, <2>1, <2>2 DEF Telling, Reading
  <2> QED
    BY <2>3 DEF Followed
<1>3. CASE \E r \in Result, changes \in Changes, price \in Price : Execute(r, changes, price)
  <2>1. PICK r \in Result, changes \in Changes, price \in Price : Execute(r, changes, price)
    BY <1>3
  <2>2. PICK accounts \in Iterations(DOMAIN changes),
                 slots \in [DOMAIN changes -> UNION {Iterations(DOMAIN changes[a].slot) : a \in DOMAIN changes}] :
            /\ \A a \in DOMAIN changes : slots[a] \in Iterations(DOMAIN changes[a].slot)
            /\ Encoded([result |-> r, changes |-> changes, price |-> price], FALSE,
                       encode_full(r, changes, price, accounts, slots))
    BY <2>1 DEF Execute
  <2>3. PICK x, lo, c, ao :
            /\ Tells([result |-> r, changes |-> changes, price |-> price], FALSE, x) /\ Sorted(x)
            /\ Blobbed(encode_full(r, changes, price, accounts, slots), FALSE, x, lo, c, ao)
    BY <2>2, FullTells
  <2>4. Short([result |-> r, changes |-> changes, price |-> price], FALSE) = FALSE
    BY DEF Short
  <2> QED
    BY <1>2, <2>2, <2>3, <2>4
<1>4. CASE \E r \in Result : ExecuteLight(r)
  <2>1. PICK r \in Result : Encoded([result |-> r], TRUE, encode_outcome_light(r))
    BY <1>4 DEF ExecuteLight
  <2>2. PICK x : /\ Tells([result |-> r], TRUE, x) /\ Sorted(x)
                 /\ ~ IsRejection([result |-> r])
                 /\ Blobbed(encode_outcome_light(r), TRUE, x, 0, 0, 0)
    BY LightTells
  <2>3. Short([result |-> r], TRUE) = TRUE
    BY <2>2 DEF Short
  <2> QED
    BY <1>2, <2>1, <2>2, <2>3
<1>5. CASE \E message \in Message, is_light \in BOOLEAN : Reject(message, is_light)
  <2>1. PICK message \in Message, is_light \in BOOLEAN :
            Encoded([message |-> message], is_light, encode_validation_error(message))
    BY <1>5 DEF Reject
  <2>2. PICK x, lo, c, ao :
            /\ Tells([message |-> message], is_light, x) /\ Sorted(x)
            /\ IsRejection([message |-> message])
            /\ Blobbed(encode_validation_error(message), FALSE, x, lo, c, ao)
    BY RejectionTells
  <2>3. Short([message |-> message], is_light) = FALSE
    BY <2>2 DEF Short
  <2> QED
    BY <1>2, <2>1, <2>2, <2>3
<1> QED
  BY <1>3, <1>4, <1>5 DEF Encode

\* The blob and what it tells of are as they were.
LEMMA Follows ==
    ASSUME NEW x, NEW lo, NEW c, NEW ao, Telling(x, lo, c, ao), UNCHANGED <<told, light, blob>>,
           Reading(Short(told, light), x, lo, c, ao)'
    PROVE  Followed'
<1>1. Telling(x, lo, c, ao)'
  BY DEF Telling
<1> QED
  BY <1>1 DEF Followed

LEMMA HeadFollowed == ASSUME Followed, DecodeHead PROVE Followed'
<1>1. at = "head" /\ UNCHANGED <<told, light, blob>>
  BY DEF DecodeHead
<1>2. PICK x, lo, c, ao : Telling(x, lo, c, ao)
  BY <1>1 DEF Followed, Idle
<1>3. o = 1
  BY <1>1, <1>2 DEF Telling, Reading, AtHead, AtLogCount, AtLog, AtAccountCount, AtAccount, AtEnd
<1>4. /\ HeadAt(blob, x.byte, x.gas[1], x.gas[2], x.gas[3], x.data) /\ IsSeq(blob)
      /\ Short(told, light) => Len(blob) = 6
      /\ ~ Short(told, light) => FieldAt(blob, 7, "u32", Len(x.logs))
  BY <1>2 DEF Telling, Blobbed, Layout
<1>5. /\ Value(o) = x.byte /\ Value(o + 1) = x.gas[1] /\ Value(o + 2) = x.gas[2]
      /\ Value(o + 3) = x.gas[3] /\ Value(o + 5) = x.data
  BY <1>3, <1>4 DEF HeadAt, FieldAt, Value
<1>6. out' = Decoded(x, Undefined, Undefined, 0) /\ o' = 7
  BY <1>3, <1>5 DEF DecodeHead, Decoded
<1>7. Len(blob) \in Nat
  BY <1>4, LenNat
<1>8. CASE Short(told, light)
  <2>1. at' = "done" /\ o' = Len(blob) + 1
    <3>1. Len(blob) = 6
      BY <1>4, <1>8
    <3>2. at' = IF 7 > 6 THEN "done" ELSE "logs"
      BY <1>6, <3>1 DEF DecodeHead
    <3> QED
      BY <1>6, <3>1, <3>2
  <2>2. AtEnd(x, TRUE)'
    BY <1>1, <1>6, <2>1 DEF AtEnd
  <2>3. Reading(Short(told, light), x, lo, c, ao)'
    BY <1>1, <1>8, <2>2 DEF Reading, Short
  <2> QED
    BY <1>1, <1>2, <2>3, Follows
<1>9. CASE ~ Short(told, light)
  <2>1. at' = "logs"
    <3>1. ~ (7 > Len(blob))
      BY <1>4, <1>7, <1>9 DEF FieldAt
    <3> QED
      BY <1>6, <3>1 DEF DecodeHead
  <2>2. AtLogCount(x)'
    BY <1>6, <2>1 DEF AtLogCount
  <2>3. Reading(Short(told, light), x, lo, c, ao)'
    BY <1>1, <1>9, <2>2 DEF Reading, Short
  <2> QED
    BY <1>1, <1>2, <2>3, Follows
<1> QED
  BY <1>8, <1>9

LEMMA LogCountFollowed == ASSUME Followed, DecodeLogCount PROVE Followed'
<1>1. /\ at = "logs" /\ todo' = Value(o) /\ out' = [out EXCEPT !["logs"] = <<>>] /\ o' = o + 1
      /\ at' = "log" /\ UNCHANGED <<told, light, blob>>
  BY DEF DecodeLogCount, DecodeCount
<1>2. PICK x, lo, c, ao : Telling(x, lo, c, ao)
  BY <1>1 DEF Followed, Idle
<1>3. ~ Short(told, light) /\ AtLogCount(x)
  BY <1>1, <1>2 DEF Telling, Reading, AtHead, AtLog, AtAccountCount, AtAccount, AtEnd
<1>4. /\ FieldAt(blob, 7, "u32", Len(x.logs)) /\ LogsAt(blob, x.logs, lo)
      /\ x.logs \in Seq(Log)
  BY <1>2, <1>3 DEF Telling, Blobbed, Layout, Sorted
<1>5. todo' = Len(x.logs) /\ o' = lo[0] /\ Len(x.logs) \in Nat
  <2>1. o = 7
    BY <1>3 DEF AtLogCount
  <2>2. Len(x.logs) \in Nat
    BY <1>4, LenProperties
  <2> QED
    BY <1>1, <1>4, <2>1, <2>2 DEF FieldAt, Value, LogsAt
<1>6. out' = Decoded(x, <<>>, Undefined, 0)
  BY <1>1, <1>3 DEF AtLogCount, Decoded
<1>7. Prefix(x.logs, 0) = <<>>
  BY <1>4, PrefixEnds DEF IsSeq
<1>8. AtLog(x, lo, 0)'
  <2>1. 0 \in 0..Len(x.logs) /\ todo' = Len(x.logs) - 0
    BY <1>5
  <2> QED
    BY <1>1, <1>5, <1>6, <1>7, <2>1 DEF AtLog
<1>9. Reading(Short(told, light), x, lo, c, ao)'
  BY <1>1, <1>3, <1>8 DEF Reading, Short
<1> QED
  BY <1>1, <1>2, <1>9, Follows

LEMMA LogFollowed == ASSUME Followed, DecodeLog PROVE Followed'
<1>1. /\ at = "log" /\ todo > 0 /\ out' = [out EXCEPT !.logs = Append(@, LogRead(o))]
      /\ o' = o + 4 + Value(o + 1)
      /\ todo' = todo - 1 /\ UNCHANGED <<told, light, blob, at>>
  BY DEF DecodeLog, LogRead
<1>2. PICK x, lo, c, ao : Telling(x, lo, c, ao)
  BY <1>1 DEF Followed, Idle
<1>3. ~ Short(told, light) /\ \E k \in Nat : AtLog(x, lo, k)
  BY <1>1, <1>2 DEF Telling, Reading, AtHead, AtLogCount, AtAccountCount, AtAccount, AtEnd
<1>4. PICK k \in Nat : AtLog(x, lo, k)
  BY <1>3
<1>5. LogsAt(blob, x.logs, lo) /\ x.logs \in Seq(Log) /\ IsSeq(blob)
  BY <1>2, <1>3 DEF Telling, Blobbed, Layout, Sorted
<1>6. PICK n \in Nat : n = Len(x.logs)
  BY <1>5, LenProperties
<1>7. k \in 0..n /\ todo = n - k /\ o = lo[k] /\ out = Decoded(x, Prefix(x.logs, k), Undefined, 0)
  BY <1>4, <1>6 DEF AtLog
<1>8. k + 1 \in 1..n /\ k + 1 \in 0..n /\ todo' = n - (k + 1) /\ (k + 1) - 1 = k
  BY <1>1, <1>7
<1>9. LogAt(blob, o, x.logs[k + 1], lo[k + 1]) /\ o \in Nat
  BY <1>5, <1>6, <1>7, <1>8 DEF LogsAt
<1>10. x.logs[k + 1] \in Log
  BY <1>5, <1>6, <1>8, ElementOfSeq
<1>11. LogRead(o) = x.logs[k + 1] /\ o' = lo[k + 1]
  BY <1>1, <1>5, <1>9, <1>10, LogIsRead
<1>12. out' = Decoded(x, Prefix(x.logs, k + 1), Undefined, 0)
  <2>1. out' = Decoded(x, Append(Prefix(x.logs, k), x.logs[k + 1]), Undefined, 0)
    BY <1>1, <1>7, <1>11 DEF Decoded
  <2> QED
    BY <2>1, PrefixNext
<1>13. AtLog(x, lo, k + 1)'
  BY <1>1, <1>6, <1>8, <1>11, <1>12 DEF AtLog
<1>14. Reading(Short(told, light), x, lo, c, ao)'
  BY <1>1, <1>3, <1>13 DEF Reading, Short
<1> QED
  BY <1>1, <1>2, <1>14, Follows

LEMMA BloomFollowed == ASSUME Followed, DecodeBloom PROVE Followed'
<1>1. /\ at = "log" /\ todo = 0 /\ o' = IF out.logs # <<>> THEN o + 1 ELSE o
      /\ at' = "accounts" /\ UNCHANGED <<told, light, blob, todo, out>>
  BY DEF DecodeBloom
<1>2. PICK x, lo, c, ao : Telling(x, lo, c, ao)
  BY <1>1 DEF Followed, Idle
<1>3. ~ Short(told, light) /\ \E k \in Nat : AtLog(x, lo, k)
  BY <1>1, <1>2 DEF Telling, Reading, AtHead, AtLogCount, AtAccountCount, AtAccount, AtEnd
<1>4. PICK k \in Nat : AtLog(x, lo, k)
  BY <1>3
<1>5. BloomAt(blob, x.logs, lo[Len(x.logs)], c) /\ x.logs \in Seq(Log) /\ IsSeq(x.logs)
  BY <1>2, <1>3 DEF Telling, Blobbed, Layout, Sorted, IsSeq
<1>6. PICK n \in Nat : n = Len(x.logs)
  BY <1>5, LenNat
<1>7. k = n
  BY <1>1, <1>4, <1>6 DEF AtLog
<1>8. o = lo[n] /\ out = Decoded(x, x.logs, Undefined, 0)
  BY <1>4, <1>5, <1>6, <1>7, PrefixEnds DEF AtLog
<1>9. out.logs = x.logs
  BY <1>8 DEF Decoded
<1>10. o' = c
  BY <1>1, <1>5, <1>6, <1>8, <1>9 DEF BloomAt
<1>11. AtAccountCount(x, c)'
  BY <1>1, <1>8, <1>10 DEF AtAccountCount
<1>12. Reading(Short(told, light), x, lo, c, ao)'
  BY <1>1, <1>3, <1>11 DEF Reading, Short
<1> QED
  BY <1>1, <1>2, <1>12, Follows

LEMMA ListLength ==
    ASSUME NEW x, Sorted(x)
    PROVE  /\ Len(x.accounts) \in Nat /\ IsSeq(EntryList(x))
           /\ Len(EntryList(x)) = Len(x.accounts)
<1>1. Len(x.accounts) \in Nat
  BY LenNat DEF Sorted, Ascends
<1>2. EntryList(x) = [i \in 1..Len(x.accounts) |-> EntryList(x)[i]]
  BY DEF EntryList
<1> QED
  BY <1>1, <1>2, ListIsSeq

LEMMA AccountCountFollowed == ASSUME Followed, DecodeAccountCount PROVE Followed'
<1>1. /\ at = "accounts" /\ todo' = Value(o) /\ out' = [out EXCEPT !["stateChanges"] = <<>>]
      /\ o' = o + 1 /\ at' = "account" /\ UNCHANGED <<told, light, blob>>
  BY DEF DecodeAccountCount, DecodeCount
<1>2. PICK x, lo, c, ao : Telling(x, lo, c, ao)
  BY <1>1 DEF Followed, Idle
<1>3. ~ Short(told, light) /\ AtAccountCount(x, c)
  BY <1>1, <1>2 DEF Telling, Reading, AtHead, AtLogCount, AtLog, AtAccount, AtEnd
<1>4. /\ FieldAt(blob, c, "u32", Len(x.accounts)) /\ AccountsAt(blob, x, c + 1, ao) /\ Sorted(x)
  BY <1>2, <1>3 DEF Telling, Blobbed, Layout
<1>5. todo' = Len(x.accounts) /\ o' = ao[0] /\ Len(x.accounts) \in Nat
  <2>1. o = c
    BY <1>3 DEF AtAccountCount
  <2>2. Len(x.accounts) \in Nat
    BY <1>4, ListLength
  <2> QED
    BY <1>1, <1>4, <2>1, <2>2 DEF FieldAt, Value, AccountsAt
<1>6. out' = Decoded(x, x.logs, <<>>, 0)
  BY <1>1, <1>3 DEF AtAccountCount, Decoded
<1>7. Prefix(EntryList(x), 0) = <<>>
  BY <1>4, PrefixEnds, ListLength
<1>8. AtAccount(x, ao, 0)'
  <2>1. 0 \in 0..Len(x.accounts) /\ todo' = Len(x.accounts) - 0
    BY <1>5
  <2> QED
    BY <1>1, <1>5, <1>6, <1>7, <2>1 DEF AtAccount
<1>9. Reading(Short(told, light), x, lo, c, ao)'
  BY <1>1, <1>3, <1>8 DEF Reading, Short
<1> QED
  BY <1>1, <1>2, <1>9, Follows

LEMMA AccountFollowed == ASSUME Followed, DecodeAccount PROVE Followed'
<1>1. /\ at = "account" /\ todo > 0 /\ out' = [out EXCEPT !.stateChanges = Append(@, EntryAt(o))]
      /\ o' = SlotCount(o) + 1 + 2 * Value(SlotCount(o))
      /\ todo' = todo - 1 /\ UNCHANGED <<told, light, blob, at>>
  BY DEF DecodeAccount
<1>2. PICK x, lo, c, ao : Telling(x, lo, c, ao)
  BY <1>1 DEF Followed, Idle
<1>3. ~ Short(told, light) /\ \E k \in Nat : AtAccount(x, ao, k)
  BY <1>1, <1>2 DEF Telling, Reading, AtHead, AtLogCount, AtLog, AtAccountCount, AtEnd
<1>4. PICK k \in Nat : AtAccount(x, ao, k)
  BY <1>3
<1>5. AccountsAt(blob, x, c + 1, ao) /\ Sorted(x) /\ IsSeq(blob)
  BY <1>2, <1>3 DEF Telling, Blobbed, Layout
<1>6. PICK n \in Nat : n = Len(x.accounts)
  BY <1>5, ListLength
<1>7. /\ k \in 0..n /\ todo = n - k /\ o = ao[k]
      /\ out = Decoded(x, x.logs, Prefix(EntryList(x), k), 0)
  BY <1>4, <1>6 DEF AtAccount
<1>8. k + 1 \in 1..n /\ k + 1 \in 0..n /\ todo' = n - (k + 1) /\ (k + 1) - 1 = k
  BY <1>1, <1>7
<1>9. PICK a : a = x.accounts[k + 1]
  OBVIOUS
<1>10. AccountAt(blob, o, a, x.changes[a], Keys(x, a), ao[k + 1]) /\ o \in Nat
  BY <1>5, <1>6, <1>7, <1>8, <1>9 DEF AccountsAt
<1>11. IsSeq(Keys(x, a))
  BY <1>5, <1>6, <1>8, <1>9, SortedTellable DEF Tellable
<1>12. EntryAt(o) = EntryOf(a, x.changes[a], Keys(x, a)) /\ o' = ao[k + 1]
  BY <1>1, <1>5, <1>10, <1>11, AccountIsRead
<1>13. EntryAt(o) = EntryList(x)[k + 1]
  BY <1>6, <1>8, <1>9, <1>12 DEF EntryList
<1>14. out' = Decoded(x, x.logs, Prefix(EntryList(x), k + 1), 0)
  <2>1. out' = Decoded(x, x.logs, Append(Prefix(EntryList(x), k), EntryList(x)[k + 1]), 0)
    BY <1>1, <1>7, <1>13 DEF Decoded
  <2> QED
    BY <2>1, PrefixNext
<1>15. AtAccount(x, ao, k + 1)'
  BY <1>1, <1>6, <1>8, <1>12, <1>14 DEF AtAccount
<1>16. Reading(Short(told, light), x, lo, c, ao)'
  BY <1>1, <1>3, <1>15 DEF Reading, Short
<1> QED
  BY <1>1, <1>2, <1>16, Follows

LEMMA PriceFollowed == ASSUME Followed, DecodePrice PROVE Followed'
<1>1. at = "account" /\ todo = 0 /\ at' = "done" /\ UNCHANGED <<told, light, blob, todo>>
  BY DEF DecodePrice
<1>2. PICK x, lo, c, ao : Telling(x, lo, c, ao)
  BY <1>1 DEF Followed, Idle
<1>3. ~ Short(told, light) /\ \E k \in Nat : AtAccount(x, ao, k)
  BY <1>1, <1>2 DEF Telling, Reading, AtHead, AtLogCount, AtLog, AtAccountCount, AtEnd
<1>4. PICK k \in Nat : AtAccount(x, ao, k)
  BY <1>3
<1>5. /\ FieldAt(blob, ao[Len(x.accounts)], "price", x.price)
      /\ Len(blob) = ao[Len(x.accounts)] /\ Sorted(x) /\ IsSeq(blob)
  BY <1>2, <1>3 DEF Telling, Blobbed, Layout
<1>6. PICK n \in Nat : n = Len(x.accounts)
  BY <1>5, ListLength
<1>7. k = n
  BY <1>1, <1>4, <1>6 DEF AtAccount
<1>8. o = Len(blob) /\ out = Decoded(x, x.logs, EntryList(x), 0)
  BY <1>4, <1>5, <1>6, <1>7, ListLength, PrefixEnds DEF AtAccount
<1>9. PICK l \in Nat : l = Len(blob)
  BY <1>5, LenNat
<1>10. ~ (o > Len(blob))
  BY <1>8, <1>9
<1>11. Value(o) = x.price
  BY <1>5, <1>8 DEF FieldAt, Value
<1>12. out' = Decoded(x, x.logs, EntryList(x), x.price) /\ o' = Len(blob) + 1
  BY <1>8, <1>10, <1>11 DEF DecodePrice, Decoded
<1>13. AtEnd(x, FALSE)'
  BY <1>1, <1>12 DEF AtEnd
<1>14. Reading(Short(told, light), x, lo, c, ao)'
  BY <1>1, <1>3, <1>13 DEF Reading, Short
<1> QED
  BY <1>1, <1>2, <1>14, Follows

LEMMA NextFollowed == ASSUME Followed, [Next]_vars PROVE Followed'
<1>1. CASE Encode
  BY <1>1, EncodeFollowed
<1>2. CASE DecodeHead
  BY <1>2, HeadFollowed
<1>3. CASE DecodeLogCount
  BY <1>3, LogCountFollowed
<1>4. CASE DecodeLog
  BY <1>4, LogFollowed
<1>5. CASE DecodeBloom
  BY <1>5, BloomFollowed
<1>6. CASE DecodeAccountCount
  BY <1>6, AccountCountFollowed
<1>7. CASE DecodeAccount
  BY <1>7, AccountFollowed
<1>8. CASE DecodePrice
  BY <1>8, PriceFollowed
<1>9. CASE Collect
  BY <1>9 DEF Collect, Followed, Idle
<1>10. CASE UNCHANGED vars
  <2>1. CASE Idle
    BY <1>10, <2>1 DEF vars, Followed, Idle
  <2>2. CASE ~ Idle
    <3>1. PICK x, lo, c, ao : Telling(x, lo, c, ao)
      BY <2>2 DEF Followed
    <3>2. UNCHANGED <<told, light, blob>>
      BY <1>10 DEF vars
    <3>3. Reading(Short(told, light), x, lo, c, ao)'
      BY <1>10, <3>1 DEF vars, Telling, Reading, Short, AtHead, AtLogCount, AtLog,
                         AtAccountCount, AtAccount, AtEnd
    <3> QED
      BY <3>1, <3>2, <3>3, Follows
  <2> QED
    BY <2>1, <2>2
<1> QED
  BY <1>1, <1>2, <1>3, <1>4, <1>5, <1>6, <1>7, <1>8, <1>9, <1>10 DEF Next

\* The decoder is always where the encoder put what it is about to read.
THEOREM AlwaysFollowed == Spec => []Followed
  BY InitFollowed, NextFollowed, PTL DEF Spec

-----------------------------------------------------------------------------
(* In step.                                                                *)

LEMMA HeadIsThere ==
    ASSUME o = 1, NEW byte, NEW gas1, NEW gas2, NEW gas3, NEW data,
           HeadAt(blob, byte, gas1, gas2, gas3, data)
    PROVE  HeadFits
<1>1. /\ FieldAt(blob, 1, "status", byte) /\ FieldAt(blob, 1 + 1, "u64", gas1)
      /\ FieldAt(blob, 1 + 2, "u64", gas2) /\ FieldAt(blob, 1 + 3, "u64", gas3)
      /\ FieldAt(blob, 5, "u32", Len(data)) /\ FieldAt(blob, 5 + 1, "bytes", data)
  BY DEF HeadAt
<1>2. Fits(1, <<"status", "u64", "u64", "u64">>)
  BY <1>1, FitsFour
<1>3. FitsSized(5)
  BY <1>1, FitsBytes
<1>4. o + 4 = 5
  OBVIOUS
<1> QED
  BY <1>2, <1>3, <1>4 DEF HeadFits

\* Where the decoder is by Followed, everything fits.
LEMMA FollowedInStep == Followed => InStep
<1> SUFFICES ASSUME Followed PROVE InStep
  OBVIOUS
<1>1. CASE Idle
  BY <1>1 DEF Idle, InStep
<1>2. CASE ~ Idle
  <2>1. PICK x, lo, c, ao : Telling(x, lo, c, ao)
    BY <1>2 DEF Followed
  <2>2. /\ Sorted(x) /\ IsSeq(blob) /\ HeadAt(blob, x.byte, x.gas[1], x.gas[2], x.gas[3], x.data)
        /\ ~ Short(told, light) => Layout(blob, x, lo, c, ao)
    BY <2>1 DEF Telling, Blobbed, Layout
  <2>3. CASE AtHead
    <3>1. HeadFits
      BY <2>2, <2>3, HeadIsThere DEF AtHead
    <3> QED
      BY <2>3, <3>1 DEF AtHead, InStep
  <2>4. CASE ~ Short(told, light) /\ AtLogCount(x)
    <3>1. FieldAt(blob, 7, "u32", Len(x.logs))
      BY <2>2, <2>4 DEF Layout
    <3>2. Fits(7, <<"u32">>)
      BY <3>1, FitsOne
    <3> QED
      BY <2>4, <3>2 DEF AtLogCount, InStep
  <2>5. CASE ~ Short(told, light) /\ \E k \in Nat : AtLog(x, lo, k)
    <3>1. PICK k \in Nat : AtLog(x, lo, k)
      BY <2>5
    <3>2. /\ LogsAt(blob, x.logs, lo) /\ x.logs \in Seq(Log) /\ IsSeq(x.logs)
          /\ BloomAt(blob, x.logs, lo[Len(x.logs)], c)
      BY <2>2, <2>5 DEF Layout, Sorted, IsSeq
    <3>3. PICK n \in Nat : n = Len(x.logs)
      BY <3>2, LenNat
    <3>4. /\ at = "log" /\ k \in 0..n /\ todo = n - k /\ o = lo[k]
          /\ out = Decoded(x, Prefix(x.logs, k), Undefined, 0)
      BY <3>1, <3>3 DEF AtLog
    <3>5. o \in Nat
      BY <3>2, <3>3, <3>4 DEF LogsAt
    <3>6. CASE todo > 0
      <4>1. k + 1 \in 1..n /\ (k + 1) - 1 = k
        BY <3>4, <3>6
      <4>2. LogAt(blob, o, x.logs[k + 1], lo[k + 1])
        BY <3>2, <3>3, <3>4, <4>1 DEF LogsAt
      <4>3. x.logs[k + 1] \in Log
        BY <3>2, <3>3, <4>1, ElementOfSeq
      <4>4. LogFits
        BY <2>2, <3>5, <4>2, <4>3, LogIsRead
      <4> QED
        BY <3>4, <3>6, <4>4 DEF InStep
    <3>7. CASE ~ (todo > 0)
      <4>1. k = n
        BY <3>4, <3>7
      <4>2. out.logs = x.logs
        BY <3>2, <3>3, <3>4, <4>1, PrefixEnds DEF Decoded
      <4>3. out.logs # <<>> => Fits(o, <<"bloom">>)
        BY <3>2, <3>3, <3>4, <3>5, <4>1, <4>2, FitsOne DEF BloomAt
      <4> QED
        BY <3>4, <3>7, <4>3 DEF InStep
    <3> QED
      BY <3>6, <3>7
  <2>6. CASE ~ Short(told, light) /\ AtAccountCount(x, c)
    <3>1. FieldAt(blob, c, "u32", Len(x.accounts)) /\ c \in Nat
      BY <2>2, <2>6 DEF Layout
    <3>2. Fits(c, <<"u32">>)
      BY <3>1, FitsOne
    <3> QED
      BY <2>6, <3>2 DEF AtAccountCount, InStep
  <2>7. CASE ~ Short(told, light) /\ \E k \in Nat : AtAccount(x, ao, k)
    <3>1. PICK k \in Nat : AtAccount(x, ao, k)
      BY <2>7
    <3>2. /\ AccountsAt(blob, x, c + 1, ao)
          /\ FieldAt(blob, ao[Len(x.accounts)], "price", x.price)
      BY <2>2, <2>7 DEF Layout
    <3>3. PICK n \in Nat : n = Len(x.accounts)
      BY <2>2, ListLength
    <3>4. at = "account" /\ k \in 0..n /\ todo = n - k /\ o = ao[k]
      BY <3>1, <3>3 DEF AtAccount
    <3>5. o \in Nat
      BY <3>2, <3>3, <3>4 DEF AccountsAt
    <3>6. CASE todo > 0
      <4>1. k + 1 \in 1..n /\ (k + 1) - 1 = k
        BY <3>4, <3>6
      <4>2. PICK a : a = x.accounts[k + 1]
        OBVIOUS
      <4>3. AccountAt(blob, o, a, x.changes[a], Keys(x, a), ao[k + 1])
        BY <3>2, <3>3, <3>4, <4>1, <4>2 DEF AccountsAt
      <4>4. IsSeq(Keys(x, a))
        BY <2>2, <3>3, <4>1, <4>2, SortedTellable DEF Tellable
      <4>5. AccountFits
        BY <2>2, <3>5, <4>3, <4>4, AccountIsRead
      <4> QED
        BY <3>4, <3>6, <4>5 DEF InStep
    <3>7. CASE ~ (todo > 0)
      <4>1. k = n
        BY <3>4, <3>7
      <4>2. Fits(o, <<"price">>)
        BY <3>2, <3>3, <3>4, <3>5, <4>1, FitsOne
      <4> QED
        BY <3>4, <3>7, <4>2 DEF InStep
    <3> QED
      BY <3>6, <3>7
  <2>8. CASE AtEnd(x, Short(told, light))
    BY <2>8 DEF AtEnd, InStep
  <2> QED
    BY <2>1, <2>3, <2>4, <2>5, <2>6, <2>7, <2>8 DEF Telling, Reading
<1> QED
  BY <1>1, <1>2

\* The decoder is never out of step with the encoder (InStep), so that none of the
\* fits it is guarded by can stop it.
THEOREM AlwaysInStep == Spec => []InStep
  BY AlwaysFollowed, FollowedInStep, PTL

-----------------------------------------------------------------------------
(* Told as it was, and in order.                                           *)

\* What the decoder ends with.
LEMMA WhenDone ==
    ASSUME Followed, at = "done"
    PROVE  \E x : /\ Tells(told, light, x) /\ Sorted(x)
                  /\ out = IF Short(told, light) THEN Decoded(x, Undefined, Undefined, 0)
                           ELSE Decoded(x, x.logs, EntryList(x), x.price)
<1>1. PICK x, lo, c, ao : Telling(x, lo, c, ao)
  BY DEF Followed, Idle
<1>2. AtEnd(x, Short(told, light))
  BY <1>1 DEF Telling, Reading, AtHead, AtLogCount, AtLog, AtAccountCount, AtAccount
<1> QED
  BY <1>1, <1>2 DEF Telling, AtEnd

\* No number stands twice in an ascending enumeration.
LEMMA AscendsOnce ==
    ASSUME NEW S, S \subseteq Nat, NEW s, Ascends(s, S),
           NEW i \in 1..Len(s), NEW j \in 1..Len(s), s[i] = s[j]
    PROVE  i = j
<1>1. Len(s) \in Nat /\ s[i] \in Nat /\ s[j] \in Nat
  BY LenNat DEF Ascends
<1>2. ~ (i < j)
  <2>1. ~ (s[i] < s[j])
    BY <1>1
  <2> QED
    BY <2>1 DEF Ascends
<1>3. ~ (j < i)
  <2>1. ~ (s[j] < s[i])
    BY <1>1
  <2> QED
    BY <2>1 DEF Ascends
<1> QED
  BY <1>1, <1>2, <1>3

\* The slots a list of pairs gives.
SlotsOf(pairs) ==
    [k \in {s[1] : s \in ToSet(pairs)} |-> (CHOOSE s \in ToSet(pairs) : s[1] = k)[2]]

\* The slots of a decoded entry are the slots that were told.
LEMMA SlotsReturn ==
    ASSUME NEW keys, NEW slot, NEW L, L \subseteq Nat, slot \in [L -> Val], Ascends(keys, L)
    PROVE  SlotsOf(StorageOf(keys, slot)) = slot
<1> DEFINE pairs == StorageOf(keys, slot)
           T == ToSet(pairs)
<1>1. Len(keys) \in Nat
  BY LenNat DEF Ascends
<1>2. /\ DOMAIN pairs = 1..Len(keys)
      /\ \A i \in 1..Len(keys) : pairs[i] = <<keys[i], slot[keys[i]]>>
  BY DEF StorageOf
<1> HIDE DEF pairs
<1>3. T = {pairs[i] : i \in 1..Len(keys)}
  BY <1>2 DEF ToSet
<1> HIDE DEF T
<1>4. \A s \in T : s[1] \in L /\ s[2] = slot[s[1]]
  BY <1>2, <1>3 DEF Ascends
<1>5. ASSUME NEW k \in L PROVE \E s \in T : s[1] = k
  <2>1. PICK i \in 1..Len(keys) : keys[i] = k
    BY DEF Ascends
  <2>2. pairs[i] \in T /\ pairs[i][1] = k
    BY <1>2, <1>3, <2>1
  <2> QED
    BY <2>2
<1>6. {s[1] : s \in T} = L
  BY <1>4, <1>5
<1>7. ASSUME NEW k \in L PROVE (CHOOSE s \in T : s[1] = k)[2] = slot[k]
  <2> DEFINE s == CHOOSE s \in T : s[1] = k
  <2>1. s \in T /\ s[1] = k
    BY <1>5
  <2> HIDE DEF s
  <2>2. s[2] = slot[k]
    BY <1>4, <2>1
  <2> QED
    BY <2>2 DEF s
<1>8. [k \in {s[1] : s \in T} |-> (CHOOSE s \in T : s[1] = k)[2]] = slot
  BY <1>6, <1>7
<1> QED
  BY <1>8 DEF T, SlotsOf, pairs

\* What a consumer makes of an entry (Entries), and what it was told.
Back(d) == [touched |-> d.touched, selfdestructed |-> d.selfdestructed,
            created |-> d.created, deleted |-> d.deleted, info |-> d.info, code |-> d.code,
            slot |-> SlotsOf(d.storage)]
Bytes(e) == [e EXCEPT !.code = IF @ = NotLoaded THEN Undefined ELSE code_bytes(@)]

\* The flags of a decoded entry are those that were told.
LEMMA EntryFlags ==
    ASSUME NEW a, NEW e \in Reported, NEW keys
    PROVE  /\ EntryOf(a, e, keys).selfdestructed = e.selfdestructed
           /\ EntryOf(a, e, keys).touched = e.touched
           /\ EntryOf(a, e, keys).created = e.created
           /\ EntryOf(a, e, keys).deleted = e.deleted
<1>1. /\ e.selfdestructed \in BOOLEAN /\ e.touched \in BOOLEAN
      /\ e.created \in BOOLEAN /\ e.deleted \in BOOLEAN
  BY DEF Reported
<1>2. (0 \in flags(e)) <=> e.selfdestructed
  BY DEF flags
<1>3. (1 \in flags(e)) <=> e.touched
  BY DEF flags
<1>4. (2 \in flags(e)) <=> e.created
  BY DEF flags
<1>5. (4 \in flags(e)) <=> e.deleted
  BY DEF flags
<1>6. /\ (0 \in flags(e)) = e.selfdestructed /\ (1 \in flags(e)) = e.touched
      /\ (2 \in flags(e)) = e.created /\ (4 \in flags(e)) = e.deleted
  BY <1>1, <1>2, <1>3, <1>4, <1>5
<1>7. EntryOf(a, e, keys).selfdestructed = (0 \in flags(e))
  BY DEF EntryOf
<1>8. EntryOf(a, e, keys).touched = (1 \in flags(e))
  BY DEF EntryOf
<1>9. EntryOf(a, e, keys).created = (2 \in flags(e))
  BY DEF EntryOf
<1>10. EntryOf(a, e, keys).deleted = (4 \in flags(e))
  BY DEF EntryOf
<1> QED
  BY <1>6, <1>7, <1>8, <1>9, <1>10

\* A decoded entry is the one that was told.
LEMMA EntryReturns ==
    ASSUME NEW a, NEW e \in Reported, NEW keys, Ascends(keys, DOMAIN e.slot)
    PROVE  Back(EntryOf(a, e, keys)) = Bytes(e)
<1> DEFINE d == EntryOf(a, e, keys)
<1>1. /\ d.selfdestructed = e.selfdestructed /\ d.touched = e.touched
      /\ d.created = e.created /\ d.deleted = e.deleted
  BY EntryFlags
<1>2. d.info = e.info
  <2>1. e.info \in Info
    BY DEF Reported
  <2>2. e.info = [purse |-> e.info.purse, hash |-> e.info.hash]
    BY <2>1 DEF Info
  <2> QED
    BY <2>2 DEF EntryOf
<1>3. d.code = IF e.code = NotLoaded THEN Undefined ELSE code_bytes(e.code)
  BY DEF EntryOf, code_changed
<1>4. SlotsOf(d.storage) = e.slot
  <2>1. PICK L : L \subseteq Key /\ e.slot \in [L -> Val]
    BY DEF Reported
  <2>2. L \subseteq Nat /\ DOMAIN e.slot = L
    BY <2>1, ChangesAssumption
  <2>3. d.storage = StorageOf(keys, e.slot)
    BY DEF EntryOf
  <2> HIDE DEF d
  <2> QED
    BY <2>1, <2>2, <2>3, SlotsReturn
<1> HIDE DEF d
<1>5. Back(d) = [touched |-> e.touched, selfdestructed |-> e.selfdestructed,
                 created |-> e.created, deleted |-> e.deleted, info |-> e.info,
                 code |-> IF e.code = NotLoaded THEN Undefined ELSE code_bytes(e.code),
                 slot |-> e.slot]
  BY <1>1, <1>2, <1>3, <1>4 DEF Back
<1>6. e = [touched |-> e.touched, selfdestructed |-> e.selfdestructed,
           created |-> e.created, deleted |-> e.deleted, info |-> e.info,
           code |-> e.code, slot |-> e.slot]
  BY DEF Reported
<1>7. Bytes(e) = [touched |-> e.touched, selfdestructed |-> e.selfdestructed,
                  created |-> e.created, deleted |-> e.deleted, info |-> e.info,
                  code |-> IF e.code = NotLoaded THEN Undefined ELSE code_bytes(e.code),
                  slot |-> e.slot]
  BY <1>6 DEF Bytes
<1> QED
  BY <1>5, <1>7 DEF d

\* So are all of them.
LEMMA EntriesReturn ==
    ASSUME NEW x, Sorted(x)
    PROVE  Entries(EntryList(x)) = AsBytes(x.changes)
<1> DEFINE l == EntryList(x)
           At(a) == CHOOSE i \in 1..Len(l) : l[i].address = a
<1>1. PICK D \in SUBSET Addr : x.changes \in [D -> Reported]
  BY DEF Sorted
<1>2. /\ D \subseteq Nat /\ DOMAIN x.changes = D /\ Ascends(x.accounts, D)
      /\ \A a \in D : Ascends(Keys(x, a), DOMAIN x.changes[a].slot)
  BY <1>1, StoreAssumption DEF Sorted
<1>3. Len(l) = Len(x.accounts)
  BY ListLength
<1>4. ASSUME NEW i \in 1..Len(l)
      PROVE  /\ l[i] = EntryOf(x.accounts[i], x.changes[x.accounts[i]], Keys(x, x.accounts[i]))
             /\ l[i].address = x.accounts[i] /\ x.accounts[i] \in D
  <2>1. l[i] = EntryOf(x.accounts[i], x.changes[x.accounts[i]], Keys(x, x.accounts[i]))
    BY <1>3 DEF EntryList
  <2> QED
    BY <1>2, <1>3, <2>1 DEF Ascends, EntryOf
<1> HIDE DEF l
<1>5. ASSUME NEW a \in D PROVE \E i \in 1..Len(l) : l[i].address = a
  BY <1>2, <1>3, <1>4 DEF Ascends
<1>6. {l[i].address : i \in 1..Len(l)} = D
  BY <1>4, <1>5
<1>7. ASSUME NEW a \in D PROVE Back(l[At(a)]) = Bytes(x.changes[a])
  <2>1. At(a) \in 1..Len(l) /\ l[At(a)].address = a
    BY <1>5
  <2> HIDE DEF At
  <2>2. l[At(a)] = EntryOf(a, x.changes[a], Keys(x, a))
    BY <1>4, <2>1
  <2>3. x.changes[a] \in Reported
    BY <1>1
  <2> QED
    BY <1>2, <2>2, <2>3, EntryReturns
<1>8. Entries(l) = [a \in {l[i].address : i \in 1..Len(l)} |-> Back(l[At(a)])]
  BY DEF Entries, Back, SlotsOf
<1>9. AsBytes(x.changes) = [a \in D |-> Bytes(x.changes[a])]
  BY <1>2 DEF AsBytes, Bytes
<1> HIDE DEF At
<1>10. Entries(l) = [a \in D |-> Bytes(x.changes[a])]
  BY <1>6, <1>7, <1>8
<1> QED
  BY <1>9, <1>10 DEF l

LEMMA FollowedRoundTrip == Followed => RoundTrip
<1> SUFFICES ASSUME Followed, at = "done" PROVE RoundTrip
  BY DEF RoundTrip
<1>1. PICK x : /\ Tells(told, light, x) /\ Sorted(x)
               /\ out = IF Short(told, light) THEN Decoded(x, Undefined, Undefined, 0)
                        ELSE Decoded(x, x.logs, EntryList(x), x.price)
  BY WhenDone
<1>2. /\ out.status = STATUS[x.byte + 1]
      /\ out.gas = <<x.gas[1], x.gas[2], x.gas[3]>>
      /\ out.returnData = x.data
      /\ out.error = IF STATUS[x.byte + 1] = "validation-error" THEN x.data ELSE Undefined
  BY <1>1 DEF Decoded
<1>3. CASE "message" \in DOMAIN told
  <2>1. x.byte = 3 /\ x.data = told.message
    BY <1>1, <1>3 DEF Tells, IsRejection
  <2>2. STATUS[3 + 1] = "validation-error"
    BY DEF STATUS
  <2>3. out.status = "validation-error" /\ out.error = told.message
    BY <1>2, <2>1, <2>2
  <2> QED
    BY <1>3, <2>3 DEF RoundTrip
<1>4. CASE "message" \notin DOMAIN told
  <2>1. /\ x.byte \in 0..3 /\ x.byte # 3 /\ STATUS[x.byte + 1] = told.result.status
        /\ <<x.gas[1], x.gas[2], x.gas[3]>> = told.result.gas
        /\ x.data = IF told.result.status = "halt" THEN <<>> ELSE told.result.output
        /\ ~ light => /\ x.logs = told.result.logs /\ x.changes = told.changes
                      /\ x.price = told.price
    BY <1>1, <1>4 DEF Tells, IsRejection
  <2>2. STATUS[x.byte + 1] # "validation-error"
    <3>1. x.byte = 0 \/ x.byte = 1 \/ x.byte = 2
      BY <2>1
    <3>2. STATUS[0 + 1] = "success" /\ STATUS[1 + 1] = "revert" /\ STATUS[2 + 1] = "halt"
      BY DEF STATUS
    <3> QED
      BY <3>1, <3>2
  <2>3. /\ out.status = told.result.status /\ out.gas = told.result.gas
        /\ out.returnData = IF out.status = "halt" THEN <<>> ELSE told.result.output
        /\ out.error = Undefined
    BY <1>2, <2>1, <2>2
  <2>4. CASE light
    <3>1. out.logs = Undefined /\ out.stateChanges = Undefined
      BY <1>1, <1>4, <2>4 DEF Short, IsRejection, Decoded
    <3> QED
      BY <1>4, <2>3, <2>4, <3>1 DEF RoundTrip
  <2>5. CASE ~ light
    <3>1. out = Decoded(x, x.logs, EntryList(x), x.price)
      BY <1>1, <2>5 DEF Short
    <3>2. out.logs = x.logs /\ out.stateChanges = EntryList(x) /\ out.price = x.price
      BY <3>1 DEF Decoded
    <3>3. Entries(out.stateChanges) = AsBytes(told.changes)
      BY <1>1, <2>1, <2>5, <3>2, EntriesReturn
    <3> QED
      BY <1>4, <2>1, <2>3, <2>5, <3>2, <3>3 DEF RoundTrip
  <2> QED
    BY <2>4, <2>5
<1> QED
  BY <1>3, <1>4

\* A consumer is told what happened, whatever it was: every status, log, account,
\* slot and code, and nothing else (RoundTrip).
THEOREM AlwaysRoundTrip == Spec => []RoundTrip
  BY AlwaysFollowed, FollowedRoundTrip, PTL

LEMMA FollowedCanonical == Followed => Canonical
<1> SUFFICES ASSUME Followed, at = "done", out.stateChanges # Undefined PROVE Canonical
  BY DEF Canonical
<1>1. PICK x : /\ Tells(told, light, x) /\ Sorted(x)
               /\ out = IF Short(told, light) THEN Decoded(x, Undefined, Undefined, 0)
                        ELSE Decoded(x, x.logs, EntryList(x), x.price)
  BY WhenDone
<1>2. out.stateChanges = EntryList(x)
  BY <1>1 DEF Decoded
<1>3. PICK l : l = EntryList(x)
  OBVIOUS
<1>4. Len(l) = Len(x.accounts)
  BY <1>1, <1>3, ListLength
<1>5. ASSUME NEW i \in 1..Len(l)
      PROVE  /\ l[i].address = x.accounts[i]
             /\ l[i].storage = StorageOf(Keys(x, x.accounts[i]), x.changes[x.accounts[i]].slot)
  <2>1. l[i] = EntryOf(x.accounts[i], x.changes[x.accounts[i]], Keys(x, x.accounts[i]))
    BY <1>3, <1>4 DEF EntryList
  <2> QED
    BY <2>1 DEF EntryOf
<1>6. \A i, j \in 1..Len(l) : i < j => l[i].address < l[j].address
  <2> SUFFICES ASSUME NEW i \in 1..Len(l), NEW j \in 1..Len(l), i < j
               PROVE  l[i].address < l[j].address
    OBVIOUS
  <2>1. l[i].address = x.accounts[i] /\ l[j].address = x.accounts[j]
    BY <1>5
  <2>2. x.accounts[i] < x.accounts[j]
    BY <1>1, <1>4 DEF Sorted, Ascends
  <2> QED
    BY <2>1, <2>2
<1>7. ASSUME NEW i \in 1..Len(l)
      PROVE  \A m, n \in 1..Len(l[i].storage) : m < n => l[i].storage[m][1] < l[i].storage[n][1]
  <2>1. PICK a : a = x.accounts[i] /\ a \in DOMAIN x.changes
    BY <1>1, <1>4 DEF Sorted, Ascends
  <2>2. PICK keys : keys = Keys(x, a) /\ Ascends(keys, DOMAIN x.changes[a].slot)
    BY <1>1, <2>1 DEF Sorted
  <2>3. PICK st : st = l[i].storage /\ st = StorageOf(keys, x.changes[a].slot)
    BY <1>5, <2>1, <2>2
  <2>4. Len(keys) \in Nat
    BY <2>2, LenNat DEF Ascends
  <2>5. Len(st) = Len(keys) /\ \A j \in 1..Len(keys) : st[j][1] = keys[j]
    <3>1. st = [j \in 1..Len(keys) |-> st[j]] /\ \A j \in 1..Len(keys) : st[j][1] = keys[j]
      BY <2>3 DEF StorageOf
    <3> QED
      BY <2>4, <3>1, ListIsSeq
  <2>6. \A m, n \in 1..Len(keys) : m < n => keys[m] < keys[n]
    BY <2>2 DEF Ascends
  <2>7. \A m, n \in 1..Len(st) : m < n => st[m][1] < st[n][1]
    BY <2>5, <2>6
  <2> QED
    BY <2>3, <2>7
<1> QED
  BY <1>2, <1>3, <1>6, <1>7 DEF Canonical, Ascending

\* Accounts and slots are told in ascending order and once each, in whatever order
\* the maps were iterated (Canonical).
THEOREM AlwaysCanonical == Spec => []Canonical
  BY AlwaysFollowed, FollowedCanonical, PTL
=============================================================================
