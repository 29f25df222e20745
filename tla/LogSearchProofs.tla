---------------------------- MODULE LogSearchProofs ----------------------------
(***************************************************************************)
(* Proofs about LogText and LogSearch, for every template, server, setting *)
(* and call that their assumptions allow:                                  *)
(*   - ArrayHolds: a call stops at the first message that is not logged;   *)
(*   - KilledHolds: only a value with a brace keeps a replacement going;   *)
(*   - TypeCorrect: every row in a file is of a line of a call;            *)
(*   - LinesExpanded: two passes over the template and one over the        *)
(*     message for each key give what a single pass gives;                 *)
(*   - PagesHold: who reads page after page misses no line.                *)
(*                                                                         *)
(* The first half is about the functions of LogLine: what each returns is  *)
(* a sequence, how long, and what is in it.                                *)
(***************************************************************************)
EXTENDS LogSearch, FiniteSetTheorems, SequenceTheorems, WellFoundedInduction, TLAPS

-----------------------------------------------------------------------------
(* Sequences *)

IsSeq(s) == \E S : s \in Seq(S)

LEMMA SeqIs ==
  ASSUME NEW s, IsSeq(s)
  PROVE  Len(s) \in Nat /\ DOMAIN s = 1..Len(s)
BY DEF IsSeq

LEMMA EmptyIsSeq == IsSeq(<< >>) /\ DOMAIN << >> = {} /\ Len(<< >>) = 0
<1>1. << >> \in Seq({})
  OBVIOUS
<1> QED BY <1>1 DEF IsSeq

LEMMA TextIsSeq ==
  ASSUME NEW s
  PROVE  IsText(s) <=> IsSeq(s)
<1>1. IsText(s) => IsSeq(s)
  BY DEF IsText, IsSeq
<1>2. ASSUME IsSeq(s) PROVE IsText(s)
  <2>1. PICK S : s \in Seq(S)
    BY <1>2 DEF IsSeq
  <2> QED BY <2>1, SeqOfRange DEF IsText
<1> QED BY <1>1, <1>2

\* A function over 1..n is a sequence.
LEMMA FunctionIs ==
  ASSUME NEW n \in Nat, NEW f, f = [i \in 1..n |-> f[i]]
  PROVE  IsSeq(f) /\ Len(f) = n /\ DOMAIN f = 1..n
<1> DEFINE S == {f[i] : i \in 1..n}
<1>1. f \in [1..n -> S]
  OBVIOUS
<1>2. f \in Seq(S)
  BY <1>1
<1>3. DOMAIN f = 1..n
  BY <1>1
<1>4. Len(f) \in Nat /\ DOMAIN f = 1..Len(f)
  BY <1>2, LenProperties
<1>5. Len(f) = n
  <2>1. n \in 1..n \/ n = 0
    OBVIOUS
  <2>2. Len(f) \in 1..Len(f) \/ Len(f) = 0
    BY <1>4
  <2>3. 1..n = 1..Len(f)
    BY <1>3, <1>4
  <2> QED BY <1>4, <2>1, <2>2, <2>3
<1> QED BY <1>2, <1>3, <1>5 DEF IsSeq

LEMMA OneIs ==
  ASSUME NEW x
  PROVE  IsSeq(<<x>>) /\ Len(<<x>>) = 1 /\ <<x>>[1] = x
<1>1. <<x>> \in Seq({x})
  OBVIOUS
<1> QED BY <1>1 DEF IsSeq

LEMMA BothAreSeq ==
  ASSUME NEW s, NEW t, IsSeq(s), IsSeq(t)
  PROVE  \E S : s \in Seq(S) /\ t \in Seq(S)
<1>1. PICK S : s \in Seq(S)
  BY DEF IsSeq
<1>2. PICK T : t \in Seq(T)
  BY DEF IsSeq
<1> DEFINE U == S \cup T
<1>3. S \subseteq U /\ T \subseteq U
  OBVIOUS
<1>4. s \in Seq(U) /\ t \in Seq(U)
  BY <1>1, <1>2, <1>3, SeqMonotonic
<1> QED BY <1>4

LEMMA AppendIs ==
  ASSUME NEW s, IsSeq(s), NEW e
  PROVE  /\ IsSeq(Append(s, e))
         /\ Len(Append(s, e)) = Len(s) + 1
         /\ DOMAIN Append(s, e) = 1..(Len(s) + 1)
         /\ \A i \in 1..Len(s) : Append(s, e)[i] = s[i]
         /\ Append(s, e)[Len(s) + 1] = e
<1>1. PICK S : s \in Seq(S)
  BY DEF IsSeq
<1> DEFINE T == S \cup {e}
<1>2. s \in Seq(T) /\ e \in T
  BY <1>1
<1> HIDE DEF T
<1>3. Append(s, e) \in Seq(T) /\ Len(Append(s, e)) = Len(s) + 1
  BY <1>2, AppendProperties
<1>4. /\ \A i \in 1..Len(s) : Append(s, e)[i] = s[i]
      /\ Append(s, e)[Len(s) + 1] = e
  BY <1>2, AppendProperties
<1>5. DOMAIN Append(s, e) = 1..(Len(s) + 1)
  BY <1>3
<1> QED BY <1>3, <1>4, <1>5 DEF IsSeq

LEMMA ConcatIs ==
  ASSUME NEW s, NEW t, IsSeq(s), IsSeq(t)
  PROVE  /\ IsSeq(s \o t) /\ Len(s \o t) = Len(s) + Len(t)
         /\ \A i \in 1..Len(s) : (s \o t)[i] = s[i]
         /\ \A i \in 1..Len(t) : (s \o t)[Len(s) + i] = t[i]
<1>1. PICK S : s \in Seq(S) /\ t \in Seq(S)
  BY BothAreSeq
<1>2. Len(s) \in Nat /\ Len(t) \in Nat
  BY SeqIs
<1>3. /\ s \o t \in Seq(S) /\ Len(s \o t) = Len(s) + Len(t)
      /\ \A i \in 1..(Len(s) + Len(t)) :
           (s \o t)[i] = IF i <= Len(s) THEN s[i] ELSE t[i - Len(s)]
  BY <1>1, ConcatProperties
<1>4. ASSUME NEW i \in 1..Len(s) PROVE (s \o t)[i] = s[i]
  <2>1. i \in 1..(Len(s) + Len(t)) /\ i <= Len(s)
    BY <1>2
  <2> QED BY <1>3, <2>1
<1>5. ASSUME NEW i \in 1..Len(t) PROVE (s \o t)[Len(s) + i] = t[i]
  <2>1. /\ Len(s) + i \in 1..(Len(s) + Len(t)) /\ ~(Len(s) + i <= Len(s))
        /\ (Len(s) + i) - Len(s) = i
    BY <1>2
  <2> QED BY <1>3, <2>1
<1>6. IsSeq(s \o t)
  BY <1>3 DEF IsSeq
<1> QED BY <1>3, <1>4, <1>5, <1>6

LEMMA SeqsEqual ==
  ASSUME NEW s, NEW t, IsSeq(s), IsSeq(t), Len(s) = Len(t), \A i \in 1..Len(s) : s[i] = t[i]
  PROVE  s = t
<1>1. PICK S : s \in Seq(S) /\ t \in Seq(S)
  BY BothAreSeq
<1> QED BY <1>1, SeqEqual

LEMMA ConcatEmpty ==
  ASSUME NEW s, IsSeq(s)
  PROVE  s \o << >> = s /\ << >> \o s = s
BY ConcatEmptySeq DEF IsSeq

LEMMA RangeIs ==
  ASSUME NEW s, IsSeq(s)
  PROVE  Range(s) = {s[i] : i \in 1..Len(s)}
BY SeqIs DEF Range

-----------------------------------------------------------------------------
(* The smallest number of a set, for inductions *)

LEMMA Minimum ==
  ASSUME NEW T \in SUBSET Nat, T # {}
  PROVE  Min(T) \in T /\ \A y \in T : Min(T) <= y
<1> DEFINE R == OpToRel(<, Nat)
<1>1. IsWellFoundedOn(R, Nat)
  BY NatLessThanWellFounded
<1>2. R = {p \in Nat \X Nat : p[1] < p[2]}
  BY DEF OpToRel
<1> HIDE DEF R
<1>3. PICK x \in T : \A y \in T : <<y, x>> \notin R
  BY <1>1, WFMin
<1>4. ASSUME NEW y \in T PROVE x <= y
  <2>1. <<y, x>> \in Nat \X Nat /\ x \in Nat /\ y \in Nat
    OBVIOUS
  <2>2. ~(y < x)
    BY <1>2, <1>3, <2>1
  <2> QED BY <2>1, <2>2
<1> QED BY <1>4 DEF Min

\* A set of numbers that has n if it has all smaller ones has all.
LEMMA AllNumbers ==
  ASSUME NEW G, \A n \in Nat : (\A m \in Nat : m < n => m \in G) => n \in G
  PROVE  Nat \subseteq G
<1> DEFINE T == Nat \ G
<1>1. ASSUME T # {} PROVE FALSE
  <2>1. PICK n \in T : \A m \in T : n <= m
    <3>1. T \in SUBSET Nat
      OBVIOUS
    <3> QED BY <1>1, <3>1, Minimum
  <2>2. n \in Nat /\ n \notin G
    OBVIOUS
  <2>3. \A m \in Nat : m < n => m \in G
    <3>1. \A m \in Nat : m < n => ~(n <= m)
      BY <2>2
    <3> QED BY <2>1, <3>1
  <2> QED BY <2>2, <2>3
<1> QED BY <1>1

\* The same for the numbers up to N.
LEMMA NumbersUpTo ==
  ASSUME NEW N \in Nat, NEW G, 0 \in G, \A n \in 1..N : n - 1 \in G => n \in G
  PROVE  0..N \subseteq G
<1> DEFINE H == {n \in Nat : n <= N => n \in G}
<1>1. ASSUME NEW n \in Nat, \A m \in Nat : m < n => m \in H PROVE n \in H
  <2>1. CASE n = 0
    BY <2>1
  <2>2. CASE n # 0 /\ n <= N
    <3>1. n - 1 \in Nat /\ n - 1 < n /\ n - 1 <= N /\ n \in 1..N
      BY <2>2
    <3>2. n - 1 \in G
      BY <1>1, <3>1
    <3> QED BY <3>1, <3>2
  <2> QED BY <2>1, <2>2
<1> HIDE DEF H
<1>2. Nat \subseteq H
  BY <1>1, AllNumbers
<1> USE DEF H
<1>3. \A n \in 0..N : n \in Nat /\ n <= N
  OBVIOUS
<1> QED BY <1>2, <1>3

\* A recursion over the numbers up to N has a result.
IsStep(step, D, N) == step \in [D \X (1..N) -> D]
Iterated(f, N, a, step, D) ==
  /\ f \in [0..N -> D] /\ f[0] = a
  /\ \A n \in 1..N : f[n] = step[<<f[n - 1], n>>]

LEMMA Iterates ==
  ASSUME NEW D, NEW N \in Nat, NEW a \in D, NEW step, IsStep(step, D, N)
  PROVE  \E f : Iterated(f, N, a, step, D)
<1> DEFINE Good(f, n) == /\ f \in [0..n -> D] /\ f[0] = a
                         /\ \A m \in 1..n : f[m] = step[<<f[m - 1], m>>]
           G == {n \in 0..N : \E f : Good(f, n)}
<1>1. 0 \in G
  <2> DEFINE f == [m \in 0..0 |-> a]
  <2>1. f \in [0..0 -> D] /\ f[0] = a /\ 1..0 = {}
    OBVIOUS
  <2>2. Good(f, 0)
    BY <2>1
  <2> HIDE DEF f
  <2> QED BY <2>2
<1>2. ASSUME NEW n \in 1..N, n - 1 \in G PROVE n \in G
  <2>1. PICK f : Good(f, n - 1)
    BY <1>2
  <2> DEFINE h == [m \in 0..n |-> IF m = n THEN step[<<f[n - 1], n>>] ELSE f[m]]
  <2>2. f[n - 1] \in D
    BY <2>1
  <2>3. <<f[n - 1], n>> \in D \X (1..N)
    BY <2>2
  <2>4. step[<<f[n - 1], n>>] \in D
    BY <2>3 DEF IsStep
  <2>5. h \in [0..n -> D] /\ h[0] = a
    BY <2>1, <2>4
  <2>6. ASSUME NEW m \in 1..n PROVE h[m] = step[<<h[m - 1], m>>]
    <3>1. CASE m = n
      <4>1. n \in 0..n /\ n - 1 \in 0..n /\ n - 1 # n
        OBVIOUS
      <4>2. h[n] = step[<<f[n - 1], n>>] /\ h[n - 1] = f[n - 1]
        BY <4>1
      <4> QED BY <3>1, <4>2
    <3>2. CASE m # n
      <4>1. m \in 1..(n - 1) /\ m - 1 # n /\ m \in 0..n /\ m - 1 \in 0..n
        BY <3>2
      <4>2. h[m] = f[m] /\ h[m - 1] = f[m - 1]
        BY <3>2, <4>1
      <4>3. f[m] = step[<<f[m - 1], m>>]
        BY <2>1, <4>1
      <4> QED BY <4>2, <4>3
    <3> QED BY <3>1, <3>2
  <2> HIDE DEF h
  <2>7. Good(h, n)
    BY <2>5, <2>6
  <2> QED BY <2>7
<1> HIDE DEF G
<1>3. N \in G
  BY <1>1, <1>2, NumbersUpTo
<1> QED BY <1>3 DEF G, Iterated

-----------------------------------------------------------------------------
(* The elements that are kept of a sequence *)

Rank(S, i) == Cardinality({j \in S : j <= i})

LEMMA RankIs ==
  ASSUME NEW S \in SUBSET Nat, IsFiniteSet(S)
  PROVE  /\ \A i \in S : Rank(S, i) \in 1..Cardinality(S)
         /\ \A i, j \in S : i < j => Rank(S, i) < Rank(S, j)
<1>1. ASSUME NEW i \in Nat
      PROVE  /\ IsFiniteSet({j \in S : j <= i}) /\ Rank(S, i) \in Nat
             /\ Rank(S, i) <= Cardinality(S)
  <2>1. {j \in S : j <= i} \in SUBSET S
    OBVIOUS
  <2> QED BY <2>1, FS_Subset, FS_CardinalityType DEF Rank
<1>2. Cardinality(S) \in Nat
  BY FS_CardinalityType
<1>3. ASSUME NEW i \in S PROVE Rank(S, i) \in 1..Cardinality(S)
  <2>1. i \in {j \in S : j <= i}
    OBVIOUS
  <2>2. Rank(S, i) # 0
    BY <1>1, <2>1, FS_EmptySet DEF Rank
  <2>3. Rank(S, i) \in Nat /\ Rank(S, i) <= Cardinality(S)
    <3>1. i \in Nat
      OBVIOUS
    <3> QED BY <1>1, <3>1
  <2> QED BY <1>2, <2>2, <2>3
<1>4. ASSUME NEW i \in S, NEW j \in S, i < j PROVE Rank(S, i) < Rank(S, j)
  <2>0. i \in Nat /\ j \in Nat /\ \A m \in S : m <= i => m <= j
    BY <1>4
  <2> DEFINE A == {m \in S : m <= i}
             B == {m \in S : m <= j}
  <2>1. /\ IsFiniteSet(A) /\ IsFiniteSet(B)
        /\ Rank(S, i) = Cardinality(A) /\ Rank(S, j) = Cardinality(B)
        /\ Rank(S, i) \in Nat /\ Rank(S, j) \in Nat
    BY <1>1, <2>0 DEF Rank
  <2>2. A \in SUBSET B
    BY <2>0
  <2>3. A # B
    <3>1. j \in B /\ j \notin A
      BY <1>4, <2>0
    <3> QED BY <3>1
  <2> HIDE DEF A, B
  <2>4. Cardinality(A) <= Cardinality(B) /\ Cardinality(A) # Cardinality(B)
    BY <2>1, <2>2, <2>3, FS_Subset
  <2> QED BY <2>1, <2>4
<1> QED BY <1>3, <1>4

\* The k-th of a set is there, and no other element is the k-th.
LEMMA NthIs ==
  ASSUME NEW S \in SUBSET Nat, IsFiniteSet(S)
  PROVE  /\ \A k \in 1..Cardinality(S) : Nth(S, k) \in S /\ Rank(S, Nth(S, k)) = k
         /\ \A i \in S : Nth(S, Rank(S, i)) = i
         /\ \A k, l \in 1..Cardinality(S) : k < l => Nth(S, k) < Nth(S, l)
<1> DEFINE N == Cardinality(S)
           r == [i \in S |-> Rank(S, i)]
<1>1. N \in Nat
  BY FS_CardinalityType
<1>2. r \in [S -> 1..N]
  BY RankIs
<1>3. \A i, j \in S : Rank(S, i) = Rank(S, j) => i = j
  <2> SUFFICES ASSUME NEW i \in S, NEW j \in S, Rank(S, i) = Rank(S, j), i # j PROVE FALSE
    OBVIOUS
  <2>1. i \in Nat /\ j \in Nat /\ Rank(S, i) \in Nat
    BY RankIs
  <2>2. i < j \/ j < i
    BY <2>1
  <2> QED BY <2>1, <2>2, RankIs
<1>4. r \in Injection(S, 1..N)
  BY <1>2, <1>3 DEF Injection, IsInjective
<1>5. IsFiniteSet(1..N) /\ Cardinality(1..N) = N
  BY <1>1, FS_Interval
<1>6. r \in Surjection(S, 1..N)
  BY <1>4, <1>5, FS_Injection
<1>7. \A k \in 1..N : \E i \in S : Rank(S, i) = k
  BY <1>6 DEF Surjection
<1>8. ASSUME NEW k \in 1..N PROVE Nth(S, k) \in S /\ Rank(S, Nth(S, k)) = k
  BY <1>7 DEF Nth, Rank
<1>9. ASSUME NEW i \in S PROVE Nth(S, Rank(S, i)) = i
  <2>1. Rank(S, i) \in 1..N
    BY RankIs
  <2> QED BY <1>3, <1>8, <2>1
<1>10. ASSUME NEW k \in 1..N, NEW l \in 1..N, k < l PROVE Nth(S, k) < Nth(S, l)
  <2>1. /\ Nth(S, k) \in S /\ Rank(S, Nth(S, k)) = k
        /\ Nth(S, l) \in S /\ Rank(S, Nth(S, l)) = l
    BY <1>8
  <2>2. Nth(S, k) \in Nat /\ Nth(S, l) \in Nat /\ Nth(S, k) # Nth(S, l)
    <3>1. k # l
      BY <1>1, <1>10
    <3> QED BY <2>1, <3>1
  <2>3. ~(Nth(S, l) < Nth(S, k))
    <3>1. Nth(S, l) < Nth(S, k) => l < k
      BY <2>1, RankIs
    <3> QED BY <1>1, <1>10, <3>1
  <2> QED BY <2>2, <2>3
<1> QED BY <1>8, <1>9, <1>10

LEMMA PlacesFinite ==
  ASSUME NEW n \in Nat, NEW S \in SUBSET (1..n)
  PROVE  /\ S \in SUBSET Nat /\ IsFiniteSet(S)
         /\ Cardinality(S) \in Nat /\ Cardinality(S) <= n
<1>1. IsFiniteSet(1..n) /\ Cardinality(1..n) = n
  BY FS_Interval
<1>2. IsFiniteSet(S) /\ Cardinality(S) <= n
  BY <1>1, FS_Subset
<1> QED BY <1>2, FS_CardinalityType

LEMMA KeptIs ==
  ASSUME NEW s, IsSeq(s), NEW S \in SUBSET (1..Len(s))
  PROVE  /\ IsSeq(Kept(s, S)) /\ Len(Kept(s, S)) = Cardinality(S)
         /\ \A k \in 1..Cardinality(S) : Kept(s, S)[k] = s[Nth(S, k)] /\ Nth(S, k) \in S
         /\ Range(Kept(s, S)) = {s[i] : i \in S}
<1>1. /\ S \in SUBSET Nat /\ IsFiniteSet(S) /\ Cardinality(S) \in Nat
  BY SeqIs, PlacesFinite
<1>2. IsSeq(Kept(s, S)) /\ Len(Kept(s, S)) = Cardinality(S)
  <2> DEFINE f == Kept(s, S)
  <2>1. f = [k \in 1..Cardinality(S) |-> f[k]]
    BY DEF Kept
  <2> HIDE DEF f
  <2>2. IsSeq(f) /\ Len(f) = Cardinality(S)
    BY <1>1, <2>1, FunctionIs
  <2> QED BY <2>2 DEF f
<1>3. \A k \in 1..Cardinality(S) : Kept(s, S)[k] = s[Nth(S, k)] /\ Nth(S, k) \in S
  BY <1>1, NthIs DEF Kept
<1>4. Range(Kept(s, S)) = {Kept(s, S)[k] : k \in 1..Cardinality(S)}
  BY <1>2, RangeIs
<1>5. \A i \in S : Rank(S, i) \in 1..Cardinality(S) /\ Kept(s, S)[Rank(S, i)] = s[i]
  <2>1. \A i \in S : Rank(S, i) \in 1..Cardinality(S) /\ Nth(S, Rank(S, i)) = i
    BY <1>1, RankIs, NthIs
  <2> QED BY <1>3, <2>1
<1>6. Range(Kept(s, S)) = {s[i] : i \in S}
  <2>1. ASSUME NEW k \in 1..Cardinality(S) PROVE Kept(s, S)[k] \in {s[i] : i \in S}
    BY <1>3
  <2>2. ASSUME NEW i \in S PROVE \E k \in 1..Cardinality(S) : Kept(s, S)[k] = s[i]
    BY <1>5
  <2> QED BY <1>4, <2>1, <2>2
<1> QED BY <1>2, <1>3, <1>6

\* All elements kept
LEMMA KeptAll ==
  ASSUME NEW s, IsSeq(s)
  PROVE  Kept(s, 1..Len(s)) = s
<1> DEFINE S == 1..Len(s)
<1>1. Len(s) \in Nat
  BY SeqIs
<1>2. S \in SUBSET Nat /\ IsFiniteSet(S) /\ Cardinality(S) = Len(s)
  <2>1. IsFiniteSet(S) /\ Cardinality(S) = IF 1 > Len(s) THEN 0 ELSE Len(s) - 1 + 1
    <3> DEFINE n == Len(s)
    <3>1. 1 \in Int /\ n \in Int
      BY <1>1
    <3> HIDE DEF n
    <3> QED BY <3>1, FS_Interval
  <2> QED BY <1>1, <2>1
<1>3. ASSUME NEW k \in 1..Len(s) PROVE Rank(S, k) = k
  <2>1. {j \in S : j <= k} = 1..k
    BY <1>1
  <2>2. Cardinality(1..k) = k
    BY FS_Interval
  <2> QED BY <2>1, <2>2 DEF Rank
<1>4. ASSUME NEW k \in 1..Len(s) PROVE Nth(S, k) = k
  BY <1>2, <1>3, NthIs
<1> HIDE DEF S
<1>5. IsSeq(Kept(s, S)) /\ Len(Kept(s, S)) = Len(s)
  BY <1>2, KeptIs DEF S
<1>6. \A k \in 1..Len(s) : Kept(s, S)[k] = s[k]
  BY <1>2, <1>4, KeptIs DEF S
<1>7. Kept(s, S) = s
  BY <1>5, <1>6, SeqsEqual
<1> QED BY <1>7 DEF S

-----------------------------------------------------------------------------
(* Sequences that are in others, with other elements between theirs *)

Embeds(h, s, t) ==
  /\ h \in [1..Len(s) -> 1..Len(t)]
  /\ \A i, j \in 1..Len(s) : i < j => h[i] < h[j]
  /\ \A i \in 1..Len(s) : t[h[i]] = s[i]
IsIn(s, t) == \E h : Embeds(h, s, t)

LEMMA IsInItself ==
  ASSUME NEW s, IsSeq(s)
  PROVE  IsIn(s, s)
<1> DEFINE h == [i \in 1..Len(s) |-> i]
<1>1. Embeds(h, s, s)
  BY DEF Embeds
<1> QED BY <1>1 DEF IsIn

LEMMA EmptyIsIn ==
  ASSUME NEW t
  PROVE  IsIn(<< >>, t)
<1> DEFINE h == [i \in 1..0 |-> i]
<1>1. Len(<< >>) = 0 /\ 1..0 = {}
  OBVIOUS
<1>2. Embeds(h, << >>, t)
  BY <1>1 DEF Embeds
<1> QED BY <1>2 DEF IsIn

\* An element never comes before its place.
LEMMA EmbedsGrows ==
  ASSUME NEW s, NEW t, IsSeq(s), IsSeq(t), NEW h, Embeds(h, s, t)
  PROVE  \A i \in 1..Len(s) : h[i] \in 1..Len(t) /\ i <= h[i]
<1> DEFINE G == {i \in 0..Len(s) : i # 0 => i <= h[i]}
<1>1. Len(s) \in Nat /\ Len(t) \in Nat
  BY SeqIs
<1>2. \A i \in 1..Len(s) : h[i] \in 1..Len(t) /\ h[i] \in Nat
  BY DEF Embeds
<1>3. 0 \in G
  BY <1>1
<1>4. ASSUME NEW n \in 1..Len(s), n - 1 \in G PROVE n \in G
  <2>1. h[n] \in Nat /\ 1 <= h[n]
    BY <1>2
  <2>2. CASE n = 1
    BY <2>1, <2>2
  <2>3. CASE n # 1
    <3>1. n - 1 \in 1..Len(s) /\ n - 1 < n
      BY <2>3
    <3>2. n - 1 <= h[n - 1]
      BY <1>4, <3>1
    <3>3. h[n - 1] < h[n] /\ h[n - 1] \in Nat
      BY <1>2, <3>1 DEF Embeds
    <3>4. n <= h[n]
      BY <2>1, <3>2, <3>3
    <3> QED BY <3>4
  <2> QED BY <2>2, <2>3
<1> HIDE DEF G
<1>5. 0..Len(s) \subseteq G
  BY <1>1, <1>3, <1>4, NumbersUpTo
<1> QED BY <1>2, <1>5 DEF G

LEMMA IsInTwice ==
  ASSUME NEW s, NEW t, NEW u, IsIn(s, t), IsIn(t, u)
  PROVE  IsIn(s, u)
<1>1. PICK g : Embeds(g, s, t)
  BY DEF IsIn
<1>2. PICK h : Embeds(h, t, u)
  BY DEF IsIn
<1> DEFINE f == [i \in 1..Len(s) |-> h[g[i]]]
<1>3. Embeds(f, s, u)
  BY <1>1, <1>2 DEF Embeds
<1> QED BY <1>3 DEF IsIn

LEMMA ConcatIsIn ==
  ASSUME NEW s, NEW t, NEW u, NEW v, IsSeq(s), IsSeq(t), IsSeq(u), IsSeq(v),
         IsIn(s, t), IsIn(u, v)
  PROVE  IsIn(s \o u, t \o v)
<1>1. PICK g : Embeds(g, s, t)
  BY DEF IsIn
<1>2. PICK h : Embeds(h, u, v)
  BY DEF IsIn
<1>3. Len(s) \in Nat /\ Len(t) \in Nat /\ Len(u) \in Nat /\ Len(v) \in Nat
  BY SeqIs
<1>4. Len(s \o u) = Len(s) + Len(u) /\ Len(t \o v) = Len(t) + Len(v)
  BY ConcatIs
<1> DEFINE f == [i \in 1..(Len(s) + Len(u)) |->
                   IF i <= Len(s) THEN g[i] ELSE Len(t) + h[i - Len(s)]]
<1>5. ASSUME NEW i \in 1..Len(s)
      PROVE  f[i] = g[i] /\ g[i] \in 1..Len(t) /\ (s \o u)[i] = s[i] /\ (t \o v)[g[i]] = s[i]
  <2>1. i \in 1..(Len(s) + Len(u)) /\ i <= Len(s)
    BY <1>3
  <2>2. g[i] \in 1..Len(t) /\ t[g[i]] = s[i]
    BY <1>1 DEF Embeds
  <2> QED BY <2>1, <2>2, ConcatIs
<1>6. ASSUME NEW i \in 1..Len(u)
      PROVE  /\ f[Len(s) + i] = Len(t) + h[i] /\ h[i] \in 1..Len(v)
             /\ (s \o u)[Len(s) + i] = u[i] /\ (t \o v)[Len(t) + h[i]] = u[i]
  <2>1. /\ Len(s) + i \in 1..(Len(s) + Len(u)) /\ ~(Len(s) + i <= Len(s))
        /\ (Len(s) + i) - Len(s) = i
    BY <1>3
  <2>2. h[i] \in 1..Len(v) /\ v[h[i]] = u[i]
    BY <1>2 DEF Embeds
  <2> QED BY <2>1, <2>2, ConcatIs
<1>7. ASSUME NEW i \in 1..(Len(s) + Len(u))
      PROVE  i \in 1..Len(s) \/ \E j \in 1..Len(u) : i = Len(s) + j
  <2>1. CASE i <= Len(s)
    BY <1>3, <2>1
  <2>2. CASE ~(i <= Len(s))
    <3>1. i - Len(s) \in 1..Len(u) /\ i = Len(s) + (i - Len(s))
      BY <1>3, <2>2
    <3> QED BY <3>1
  <2> QED BY <2>1, <2>2
<1>8. f = [i \in 1..(Len(s) + Len(u)) |-> f[i]]
  OBVIOUS
<1> HIDE DEF f
<1>9. ASSUME NEW i \in 1..(Len(s) + Len(u))
      PROVE  f[i] \in 1..(Len(t) + Len(v)) /\ (t \o v)[f[i]] = (s \o u)[i]
  <2>1. CASE i \in 1..Len(s)
    <3>1. g[i] \in 1..(Len(t) + Len(v))
      BY <1>3, <1>5, <2>1
    <3> QED BY <1>5, <2>1, <3>1
  <2>2. ASSUME NEW j \in 1..Len(u), i = Len(s) + j
        PROVE  f[i] \in 1..(Len(t) + Len(v)) /\ (t \o v)[f[i]] = (s \o u)[i]
    <3>1. Len(t) + h[j] \in 1..(Len(t) + Len(v))
      BY <1>3, <1>6
    <3> QED BY <1>6, <2>2, <3>1
  <2> QED BY <1>7, <2>1, <2>2
<1>10. ASSUME NEW i \in 1..(Len(s) + Len(u)), NEW j \in 1..(Len(s) + Len(u)), i < j
       PROVE  f[i] < f[j]
  <2>1. CASE j \in 1..Len(s)
    <3>1. i \in 1..Len(s)
      BY <1>10, <2>1
    <3> QED BY <1>1, <1>5, <1>10, <2>1, <3>1 DEF Embeds
  <2>2. ASSUME NEW m \in 1..Len(u), j = Len(s) + m PROVE f[i] < f[j]
    <3>1. f[j] = Len(t) + h[m] /\ h[m] \in 1..Len(v)
      BY <1>6, <2>2
    <3>2. CASE i \in 1..Len(s)
      <4>1. f[i] \in 1..Len(t)
        BY <1>5, <3>2
      <4> QED BY <1>3, <3>1, <4>1
    <3>3. ASSUME NEW l \in 1..Len(u), i = Len(s) + l PROVE f[i] < f[j]
      <4>1. f[i] = Len(t) + h[l] /\ h[l] \in 1..Len(v)
        BY <1>6, <3>3
      <4>2. l < m
        BY <1>3, <1>10, <2>2, <3>3
      <4>3. h[l] < h[m]
        BY <1>2, <4>2 DEF Embeds
      <4> QED BY <1>3, <3>1, <4>1, <4>3
    <3> QED BY <1>7, <3>2, <3>3
  <2> QED BY <1>7, <2>1, <2>2
<1>11. f \in [1..(Len(s) + Len(u)) -> 1..(Len(t) + Len(v))]
  BY <1>8, <1>9
<1>12. Embeds(f, s \o u, t \o v)
  BY <1>4, <1>9, <1>10, <1>11 DEF Embeds
<1> QED BY <1>12 DEF IsIn

\* What is kept of a sequence is in what is kept of a longer one.
LEMMA KeptIsIn ==
  ASSUME NEW s, NEW t, IsSeq(s), IsSeq(t), NEW S \in SUBSET (1..Len(s)),
         NEW T \in SUBSET (1..Len(t)), NEW h, Embeds(h, s, t), \A i \in S : h[i] \in T
  PROVE  IsIn(Kept(s, S), Kept(t, T))
<1>1. /\ S \in SUBSET Nat /\ IsFiniteSet(S) /\ Cardinality(S) \in Nat
      /\ T \in SUBSET Nat /\ IsFiniteSet(T) /\ Cardinality(T) \in Nat
  BY SeqIs, PlacesFinite
<1>2. /\ Len(Kept(s, S)) = Cardinality(S) /\ Len(Kept(t, T)) = Cardinality(T)
  BY KeptIs
<1> DEFINE f == [k \in 1..Cardinality(S) |-> Rank(T, h[Nth(S, k)])]
<1>3. ASSUME NEW k \in 1..Cardinality(S)
      PROVE  /\ Nth(S, k) \in S /\ h[Nth(S, k)] \in T /\ f[k] = Rank(T, h[Nth(S, k)])
             /\ f[k] \in 1..Cardinality(T)
  BY <1>1, NthIs, RankIs
<1>4. ASSUME NEW k \in 1..Cardinality(S) PROVE Kept(t, T)[f[k]] = Kept(s, S)[k]
  <2>1. Kept(t, T)[f[k]] = t[Nth(T, f[k])]
    BY <1>3, KeptIs
  <2>2. Nth(T, f[k]) = h[Nth(S, k)]
    BY <1>1, <1>3, NthIs
  <2>3. t[h[Nth(S, k)]] = s[Nth(S, k)]
    BY <1>3 DEF Embeds
  <2>4. Kept(s, S)[k] = s[Nth(S, k)]
    BY KeptIs
  <2> QED BY <2>1, <2>2, <2>3, <2>4
<1>5. ASSUME NEW k \in 1..Cardinality(S), NEW l \in 1..Cardinality(S), k < l
      PROVE  f[k] < f[l]
  <2>1. Nth(S, k) < Nth(S, l)
    BY <1>1, <1>5, NthIs
  <2>2. h[Nth(S, k)] < h[Nth(S, l)]
    BY <1>3, <2>1 DEF Embeds
  <2> QED BY <1>1, <1>3, <2>2, RankIs
<1>6. f \in [1..Cardinality(S) -> 1..Cardinality(T)]
  BY <1>3
<1> HIDE DEF f
<1>7. Embeds(f, Kept(s, S), Kept(t, T))
  BY <1>2, <1>4, <1>5, <1>6 DEF Embeds
<1> QED BY <1>7 DEF IsIn

-----------------------------------------------------------------------------
(* Sequences of sequences *)

AreSeqs(s) == IsSeq(s) /\ \A i \in 1..Len(s) : IsSeq(s[i])

\* The first parts of a sequence of sequences, put together
Joined(g, s) ==
  /\ g[0] = << >>
  /\ \A i \in 0..Len(s) : IsSeq(g[i])
  /\ \A i \in 1..Len(s) : g[i] = g[i - 1] \o s[i]

\* There are such parts.
JoinedIn(g, n, U, s) ==
  /\ g \in [0..n -> Seq(U)] /\ g[0] = << >>
  /\ \A i \in 1..n : g[i] = g[i - 1] \o s[i]

LEMMA JoinedThere ==
  ASSUME NEW n \in Nat, NEW U, NEW s, \A i \in 1..n : s[i] \in Seq(U)
  PROVE  \E g : JoinedIn(g, n, U, s)
<1> DEFINE D == Seq(U)
           e == << >>
           step == [p \in D \X (1..n) |-> p[1] \o s[p[2]]]
<1>0. n \in Nat
  OBVIOUS
<1>1. e \in D
  OBVIOUS
<1>2. step \in [D \X (1..n) -> D]
  <2>1. ASSUME NEW p \in D \X (1..n) PROVE p[1] \o s[p[2]] \in D
    <3>1. p[1] \in Seq(U) /\ s[p[2]] \in Seq(U)
      OBVIOUS
    <3> QED BY <3>1, ConcatProperties
  <2> QED BY <2>1
<1>3. \A x \in D, i \in 1..n : step[<<x, i>>] = x \o s[i]
  OBVIOUS
<1> HIDE DEF D, step, e
<1>4. IsStep(step, D, n)
  BY <1>2 DEF IsStep
<1>5. PICK g : Iterated(g, n, e, step, D)
  BY <1>0, <1>1, <1>4, Iterates
<1>6. ASSUME NEW i \in 1..n PROVE g[i] = g[i - 1] \o s[i]
  <2>1. i - 1 \in 0..n
    OBVIOUS
  <2>2. g[i - 1] \in D /\ g[i] = step[<<g[i - 1], i>>]
    BY <1>5, <2>1 DEF Iterated
  <2> QED BY <1>3, <2>2
<1>7. g \in [0..n -> D] /\ g[0] = e
  BY <1>5 DEF Iterated
<1> QED BY <1>6, <1>7 DEF D, e, JoinedIn

LEMMA FlattenIs ==
  ASSUME NEW s, AreSeqs(s)
  PROVE  \E g : Joined(g, s) /\ FlattenSeq(s) = g[Len(s)]
<1> DEFINE n == Len(s)
           U == UNION {Range(s[i]) : i \in 1..n}
<1>1. n \in Nat /\ DOMAIN s = 1..n
  BY SeqIs DEF AreSeqs
<1>2. ASSUME NEW i \in 1..n PROVE s[i] \in Seq(U)
  <2>1. s[i] \in Seq(Range(s[i]))
    BY TextIsSeq DEF AreSeqs, IsText
  <2>2. Range(s[i]) \subseteq U
    OBVIOUS
  <2> HIDE DEF U
  <2> QED BY <2>1, <2>2, SeqMonotonic
<1> HIDE DEF U
<1> HIDE DEF n
<1>4. n \in Nat /\ \A i \in 1..n : s[i] \in Seq(U)
  BY <1>1, <1>2
<1>3. PICK g : JoinedIn(g, n, U, s)
  BY <1>4, JoinedThere
<1>5. g \in [0..n -> Seq(U)] /\ g[0] = << >>
  BY <1>3 DEF JoinedIn
<1>6. \A i \in 1..n : g[i] = g[i - 1] \o s[i]
  BY <1>3 DEF JoinedIn
<1>7. Joined(g, s)
  <2>1. \A i \in 0..n : IsSeq(g[i])
    BY <1>5 DEF IsSeq
  <2> QED BY <1>5, <1>6, <2>1 DEF Joined, n
<1>8. FlattenSeq(s) = g[n]
  <2>1. CASE n = 0
    <3>1. s = << >>
      BY <1>1, <2>1, EmptyIsSeq, SeqsEqual DEF AreSeqs, n
    <3> QED BY <1>5, <2>1, <3>1 DEF FlattenSeq, n
  <2>2. CASE n # 0
    <3> DEFINE Body(f, i) == IF i = 1 THEN s[i] ELSE f[i - 1] \o s[i]
               F == CHOOSE f : f = [i \in 1..n |-> Body(f, i)]
               h == [i \in 1..n |-> g[i]]
    <3>1. FlattenSeq(s) = F[n]
      BY <2>2 DEF FlattenSeq, n
    <3>2. ASSUME NEW i \in 1..n PROVE h[i] = Body(h, i)
      <4>1. CASE i = 1
        <5>0. 1 \in 1..n /\ 1 - 1 = 0
          BY <4>1
        <5>1. g[1] = << >> \o s[1]
          BY <1>5, <1>6, <5>0
        <5>2. IsSeq(s[1])
          BY <4>1 DEF AreSeqs, n
        <5> QED BY <4>1, <5>1, <5>2, ConcatEmpty
      <4>2. CASE i # 1
        <5>1. i - 1 \in 1..n
          BY <1>1, <4>2
        <5> QED BY <1>6, <4>2, <5>1
      <4> QED BY <4>1, <4>2
    <3>3. h = [i \in 1..n |-> Body(h, i)]
      <4>1. h = [i \in 1..n |-> h[i]]
        OBVIOUS
      <4> HIDE DEF h, Body
      <4> QED BY <3>2, <4>1
    <3>4. F = [i \in 1..n |-> Body(F, i)]
      <4> HIDE DEF h, Body
      <4> QED BY <3>3
    <3> DEFINE G == {i \in 0..n : i # 0 => F[i] = g[i]}
    <3> HIDE DEF F, h
    <3>5. 0 \in G
      BY <1>1
    <3>6. ASSUME NEW i \in 1..n, i - 1 \in G PROVE i \in G
      <4>1. F[i] = Body(F, i)
        <5> HIDE DEF Body, G
        <5> QED BY <3>4
      <4>2. CASE i = 1
        <5>0. 1 \in 1..n /\ 1 - 1 = 0
          BY <4>2
        <5>1. g[1] = << >> \o s[1]
          BY <1>5, <1>6, <5>0
        <5>2. IsSeq(s[1])
          BY <4>2 DEF AreSeqs, n
        <5>3. F[1] = g[1]
          BY <4>1, <4>2, <5>1, <5>2, ConcatEmpty
        <5> QED BY <4>2, <5>3, <1>1
      <4>3. CASE i # 1
        <5>1. i - 1 # 0
          BY <4>3
        <5>2. F[i - 1] = g[i - 1]
          BY <3>6, <5>1
        <5>3. F[i] = g[i]
          BY <1>6, <4>1, <4>3, <5>2
        <5> QED BY <5>3, <1>1
      <4> QED BY <4>2, <4>3
    <3> HIDE DEF G
    <3>7. 0..n \subseteq G
      BY <1>1, <3>5, <3>6, NumbersUpTo
    <3>8. n \in G
      BY <1>1, <3>7
    <3> QED BY <2>2, <3>1, <3>8 DEF G
  <2> QED BY <2>1, <2>2
<1> QED BY <1>7, <1>8 DEF n

LEMMA FlattenIsSeq ==
  ASSUME NEW s, AreSeqs(s)
  PROVE  IsSeq(FlattenSeq(s))
<1>1. PICK g : Joined(g, s) /\ FlattenSeq(s) = g[Len(s)]
  BY FlattenIs
<1>2. Len(s) \in 0..Len(s)
  BY SeqIs DEF AreSeqs
<1> QED BY <1>1, <1>2 DEF Joined

LEMMA FlattenIsIn ==
  ASSUME NEW s, NEW t, AreSeqs(s), AreSeqs(t), Len(s) = Len(t),
         \A i \in 1..Len(s) : IsIn(s[i], t[i])
  PROVE  IsIn(FlattenSeq(s), FlattenSeq(t))
<1>1. PICK g : Joined(g, s) /\ FlattenSeq(s) = g[Len(s)]
  BY FlattenIs
<1>2. PICK h : Joined(h, t) /\ FlattenSeq(t) = h[Len(t)]
  BY FlattenIs
<1> DEFINE G == {i \in 0..Len(s) : IsIn(g[i], h[i])}
<1>3. Len(s) \in Nat
  BY SeqIs DEF AreSeqs
<1>4. 0 \in G
  BY <1>1, <1>2, <1>3, EmptyIsIn DEF Joined
<1>5. ASSUME NEW i \in 1..Len(s), i - 1 \in G PROVE i \in G
  <2>1. i - 1 \in 0..Len(s)
    BY <1>3
  <2>2. g[i] = g[i - 1] \o s[i] /\ IsSeq(g[i - 1]) /\ IsSeq(s[i])
    BY <1>1, <2>1 DEF Joined, AreSeqs
  <2>3. h[i] = h[i - 1] \o t[i] /\ IsSeq(h[i - 1]) /\ IsSeq(t[i])
    BY <1>2, <2>1 DEF Joined, AreSeqs
  <2>4. IsIn(g[i - 1], h[i - 1]) /\ IsIn(s[i], t[i])
    BY <1>5
  <2>5. IsIn(g[i], h[i])
    BY <2>2, <2>3, <2>4, ConcatIsIn
  <2> QED BY <2>5, <1>3
<1> HIDE DEF G
<1>6. 0..Len(s) \subseteq G
  BY <1>3, <1>4, <1>5, NumbersUpTo
<1>7. Len(s) \in G
  BY <1>3, <1>6
<1> QED BY <1>1, <1>2, <1>7 DEF G

\* If all but one are empty, it is the one.
LEMMA FlattenOne ==
  ASSUME NEW s, AreSeqs(s), NEW j \in 1..Len(s),
         \A i \in 1..Len(s) : i # j => s[i] = << >>
  PROVE  FlattenSeq(s) = s[j]
<1>1. PICK g : Joined(g, s) /\ FlattenSeq(s) = g[Len(s)]
  BY FlattenIs
<1> DEFINE G == {i \in 0..Len(s) : g[i] = IF i < j THEN << >> ELSE s[j]}
<1>2. Len(s) \in Nat
  BY SeqIs DEF AreSeqs
<1>3. 0 \in G
  BY <1>1, <1>2 DEF Joined
<1>4. ASSUME NEW i \in 1..Len(s), i - 1 \in G PROVE i \in G
  <2>1. g[i] = g[i - 1] \o s[i] /\ IsSeq(s[i])
    BY <1>1 DEF Joined, AreSeqs
  <2>2. IsSeq(s[j])
    BY DEF AreSeqs
  <2>3. CASE i < j
    <3>1. i - 1 < j /\ i # j
      BY <2>3
    <3>2. g[i - 1] = << >> /\ s[i] = << >>
      BY <1>4, <3>1
    <3>3. g[i] = << >>
      BY <2>1, <3>2, EmptyIsSeq, ConcatEmpty
    <3> QED BY <2>3, <3>3, <1>2
  <2>4. CASE i = j
    <3>1. i - 1 < j /\ ~(i < j)
      BY <2>4
    <3>2. g[i - 1] = << >>
      BY <1>4, <3>1
    <3>3. g[i] = s[j]
      BY <2>1, <2>4, <3>2, ConcatEmpty
    <3> QED BY <3>1, <3>3, <1>2
  <2>5. CASE i > j
    <3>1. ~(i - 1 < j) /\ ~(i < j) /\ i # j
      BY <2>5
    <3>2. g[i - 1] = s[j] /\ s[i] = << >>
      BY <1>4, <3>1
    <3>3. g[i] = s[j]
      BY <2>1, <2>2, <3>2, ConcatEmpty
    <3> QED BY <3>1, <3>3, <1>2
  <2> QED BY <2>3, <2>4, <2>5
<1> HIDE DEF G
<1>5. 0..Len(s) \subseteq G
  BY <1>2, <1>3, <1>4, NumbersUpTo
<1>6. Len(s) \in G /\ ~(Len(s) < j)
  BY <1>2, <1>5
<1> QED BY <1>1, <1>6 DEF G

LEMMA FlattenNone ==
  ASSUME NEW s, AreSeqs(s), \A i \in 1..Len(s) : s[i] = << >>
  PROVE  FlattenSeq(s) = << >>
<1>1. CASE Len(s) = 0
  <2>1. PICK g : Joined(g, s) /\ FlattenSeq(s) = g[Len(s)]
    BY FlattenIs
  <2> QED BY <1>1, <2>1 DEF Joined
<1>2. CASE Len(s) # 0
  <2>1. 1 \in 1..Len(s)
    BY <1>2, SeqIs DEF AreSeqs
  <2> QED BY <2>1, FlattenOne
<1> QED BY <1>1, <1>2

-----------------------------------------------------------------------------
(* The items of a template *)

FormatChar(fmt, f, i) ==
  IF i > Len(fmt) THEN << >>
  ELSE IF fmt[i] # "%" THEN <<Literal(fmt[i])>> \o f[i + 1]
  ELSE IF i = Len(fmt) THEN << >>
  ELSE <<Specifier(fmt[i + 1])>> \o f[i + 2]

LEMMA FormatCharIs ==
  ASSUME NEW fmt, Len(fmt) \in Nat, NEW f, NEW i \in 1..(Len(fmt) + 1)
  PROVE  /\ i = Len(fmt) + 1 => FormatChar(fmt, f, i) = << >>
         /\ i <= Len(fmt) /\ fmt[i] # "%"
              => FormatChar(fmt, f, i) = <<Literal(fmt[i])>> \o f[i + 1]
         /\ i = Len(fmt) /\ fmt[i] = "%" => FormatChar(fmt, f, i) = << >>
         /\ i < Len(fmt) /\ fmt[i] = "%"
              => FormatChar(fmt, f, i) = <<Specifier(fmt[i + 1])>> \o f[i + 2]
<1>1. i \in Nat
  OBVIOUS
<1>2. i = Len(fmt) + 1 => FormatChar(fmt, f, i) = << >>
  BY <1>1 DEF FormatChar
<1>3. i <= Len(fmt) /\ fmt[i] # "%" => FormatChar(fmt, f, i) = <<Literal(fmt[i])>> \o f[i + 1]
  BY <1>1 DEF FormatChar
<1>4. i = Len(fmt) /\ fmt[i] = "%" => FormatChar(fmt, f, i) = << >>
  BY <1>1 DEF FormatChar
<1>5. i < Len(fmt) /\ fmt[i] = "%"
        => FormatChar(fmt, f, i) = <<Specifier(fmt[i + 1])>> \o f[i + 2]
  BY <1>1 DEF FormatChar
<1> QED BY <1>2, <1>3, <1>4, <1>5

\* The recursion over a template has a result.
LEMMA ItemsThere ==
  ASSUME NEW fmt, IsSeq(fmt)
  PROVE  \E h : h = [i \in 1..(Len(fmt) + 1) |-> FormatChar(fmt, h, i)]
<1> DEFINE n == Len(fmt)
           U == {Literal(fmt[i]) : i \in 1..n} \cup {Specifier(fmt[i]) : i \in 1..n}
           E == Seq(U)
           D == E \X E
           a == << << >>, << >> >>
           One(p, i) == IF fmt[i] # "%" THEN <<Literal(fmt[i])>> \o p[1]
                        ELSE IF i = n THEN << >>
                        ELSE <<Specifier(fmt[i + 1])>> \o p[2]
           step == [q \in D \X (1..n) |-> <<One(q[1], n + 1 - q[2]), q[1][1]>>]
<1>1. n \in Nat
  BY SeqIs
<1>2. ASSUME NEW p \in D, NEW i \in 1..n PROVE One(p, i) \in E
  <2>1. p[1] \in E /\ p[2] \in E
    OBVIOUS
  <2>2. <<Literal(fmt[i])>> \in E /\ (i # n => <<Specifier(fmt[i + 1])>> \in E) /\ << >> \in E
    <3>1. Literal(fmt[i]) \in U /\ (i # n => Specifier(fmt[i + 1]) \in U)
      <4>1. i # n => i + 1 \in 1..n
        BY <1>1
      <4> QED BY <4>1
    <3> HIDE DEF U
    <3> QED BY <3>1
  <2> HIDE DEF U
  <2>3. \A s, t \in E : s \o t \in E
    BY ConcatProperties
  <2> HIDE DEF E
  <2> QED BY <2>1, <2>2, <2>3
<1>3. a \in D
  <2>1. << >> \in E
    OBVIOUS
  <2> HIDE DEF E
  <2> QED BY <2>1
<1> HIDE DEF E, U, n
<1>4. IsStep(step, D, n)
  <2>1. ASSUME NEW q \in D \X (1..n) PROVE <<One(q[1], n + 1 - q[2]), q[1][1]>> \in D
    <3>1. q[1] \in D /\ q[2] \in 1..n /\ q[1][1] \in E
      OBVIOUS
    <3>2. n + 1 - q[2] \in 1..n
      BY <1>1, <3>1
    <3>3. One(q[1], n + 1 - q[2]) \in E
      BY <1>2, <3>1, <3>2
    <3> HIDE DEF One
    <3> QED BY <3>1, <3>3
  <2> HIDE DEF One, D
  <2> QED BY <2>1 DEF IsStep
<1>5. ASSUME NEW p \in D, NEW k \in 1..n
      PROVE  step[<<p, k>>] = <<One(p, n + 1 - k), p[1]>>
  <2> HIDE DEF One, D
  <2> QED OBVIOUS
<1> HIDE DEF step, a
<1>6. PICK g : Iterated(g, n, a, step, D)
  <2> HIDE DEF D
  <2> QED BY <1>1, <1>3, <1>4, Iterates
<1> DEFINE h == [i \in 1..(n + 1) |-> g[n + 1 - i][1]]
<1>7. g[0] = a /\ \A k \in 0..n : g[k] \in D
  <2> HIDE DEF D
  <2> QED BY <1>6 DEF Iterated
<1>8. ASSUME NEW k \in 1..n
      PROVE  g[k][1] = One(g[k - 1], n + 1 - k) /\ g[k][2] = g[k - 1][1]
  <2> HIDE DEF D, One
  <2>1. k - 1 \in 0..n
    BY <1>1
  <2>2. g[k - 1] \in D /\ g[k] = step[<<g[k - 1], k>>]
    BY <1>6, <1>7, <2>1 DEF Iterated
  <2>3. g[k] = <<One(g[k - 1], n + 1 - k), g[k - 1][1]>>
    BY <1>5, <2>2
  <2> QED BY <2>3
<1>9. h = [i \in 1..(n + 1) |-> h[i]]
  OBVIOUS
<1>10. ASSUME NEW i \in 1..(n + 1) PROVE h[i] = g[n + 1 - i][1]
  OBVIOUS
<1> HIDE DEF h, D
<1>11. ASSUME NEW i \in 1..(n + 1) PROVE h[i] = FormatChar(fmt, h, i)
  <2>0. Len(fmt) \in Nat /\ i \in 1..(Len(fmt) + 1) /\ Len(fmt) = n
    BY <1>1 DEF n
  <2>1. CASE i = n + 1
    <3>1. n + 1 - i = 0 /\ h[i] = g[0][1]
      BY <1>1, <1>10, <2>1
    <3>2. h[i] = << >>
      BY <1>7, <3>1 DEF a
    <3> QED BY <2>0, <2>1, <3>2, FormatCharIs
  <2>2. CASE i \in 1..n
    <3> DEFINE k == n + 1 - i
    <3>1. k \in 1..n /\ n + 1 - k = i /\ i + 1 \in 1..(n + 1) /\ n + 1 - (i + 1) = k - 1
      BY <1>1, <2>2
    <3>2. h[i] = g[k][1] /\ h[i + 1] = g[k - 1][1]
      BY <1>10, <3>1
    <3> HIDE DEF k, One
    <3>3. h[i] = One(g[k - 1], i)
      BY <1>8, <3>1, <3>2
    <3>4. CASE fmt[i] # "%"
      <4>1. h[i] = <<Literal(fmt[i])>> \o h[i + 1]
        BY <3>2, <3>3, <3>4 DEF One
      <4>2. i <= Len(fmt)
        BY <2>0, <2>2
      <4> QED BY <2>0, <4>1, <4>2, <3>4, FormatCharIs
    <3>5. CASE fmt[i] = "%" /\ i = n
      <4>1. h[i] = << >>
        BY <3>3, <3>5 DEF One
      <4> QED BY <2>0, <3>5, <4>1, FormatCharIs
    <3>6. CASE fmt[i] = "%" /\ i # n
      <4>1. /\ i < Len(fmt) /\ k - 1 \in 1..n /\ (k - 1) - 1 = n + 1 - (i + 2)
            /\ i + 2 \in 1..(n + 1)
        BY <1>1, <2>0, <2>2, <3>6 DEF k
      <4>2. g[k - 1][2] = g[(k - 1) - 1][1]
        BY <1>8, <4>1
      <4>3. h[i + 2] = g[n + 1 - (i + 2)][1]
        BY <1>10, <4>1
      <4>4. g[k - 1][2] = h[i + 2]
        BY <4>1, <4>2, <4>3
      <4>5. h[i] = <<Specifier(fmt[i + 1])>> \o h[i + 2]
        BY <3>3, <3>6, <4>4 DEF One
      <4> QED BY <2>0, <3>6, <4>1, <4>5, FormatCharIs
    <3> QED BY <3>4, <3>5, <3>6
  <2>3. i = n + 1 \/ i \in 1..n
    BY <1>1
  <2> QED BY <2>1, <2>2, <2>3
<1>12. h = [i \in 1..(n + 1) |-> FormatChar(fmt, h, i)]
  BY <1>9, <1>11
<1> QED BY <1>12 DEF n

LEMMA ItemsIsSeq ==
  ASSUME NEW fmt, IsSeq(fmt)
  PROVE  IsSeq(Items(fmt))
<1> DEFINE n == Len(fmt)
           F == CHOOSE f : f = [i \in 1..(Len(fmt) + 1) |-> FormatChar(fmt, f, i)]
           G == {m \in Nat : m <= n => IsSeq(F[n + 1 - m])}
<1>1. n \in Nat /\ Len(fmt) = n
  BY SeqIs
<1>2. Items(fmt) = F[1]
  BY DEF Items, FormatChar
<1>3. F = [i \in 1..(Len(fmt) + 1) |-> FormatChar(fmt, F, i)]
  BY ItemsThere
<1> HIDE DEF F, n
<1>4. ASSUME NEW i \in 1..(n + 1) PROVE F[i] = FormatChar(fmt, F, i)
  BY <1>1, <1>3
<1>5. ASSUME NEW m \in Nat, \A l \in Nat : l < m => l \in G PROVE m \in G
  <2> SUFFICES ASSUME m <= n PROVE IsSeq(F[n + 1 - m])
    OBVIOUS
  <2> DEFINE i == n + 1 - m
  <2>1. i \in 1..(n + 1) /\ F[i] = FormatChar(fmt, F, i)
    BY <1>1, <1>4
  <2>2. CASE i = n + 1
    <3>1. F[i] = << >>
      <4> HIDE DEF i
      <4> QED BY <1>1, <2>1, <2>2, FormatCharIs
    <3> QED BY <3>1, EmptyIsSeq
  <2>3. CASE i <= n /\ fmt[i] # "%"
    <3>1. m - 1 \in Nat /\ m - 1 < m /\ m - 1 <= n /\ n + 1 - (m - 1) = i + 1
      BY <1>1, <2>3
    <3>2. IsSeq(F[i + 1])
      BY <1>5, <3>1
    <3>3. F[i] = <<Literal(fmt[i])>> \o F[i + 1]
      <4> HIDE DEF i
      <4> QED BY <1>1, <2>1, <2>3, FormatCharIs
    <3> QED BY <3>2, <3>3, OneIs, ConcatIs
  <2>4. CASE i = n /\ fmt[i] = "%"
    <3>1. F[i] = << >>
      <4> HIDE DEF i
      <4> QED BY <1>1, <2>1, <2>4, FormatCharIs
    <3> QED BY <3>1, EmptyIsSeq
  <2>5. CASE i < n /\ fmt[i] = "%"
    <3>1. m - 2 \in Nat /\ m - 2 < m /\ m - 2 <= n /\ n + 1 - (m - 2) = i + 2
      BY <1>1, <2>5
    <3>2. IsSeq(F[i + 2])
      BY <1>5, <3>1
    <3>3. F[i] = <<Specifier(fmt[i + 1])>> \o F[i + 2]
      <4> HIDE DEF i
      <4> QED BY <1>1, <2>1, <2>5, FormatCharIs
    <3> QED BY <3>2, <3>3, OneIs, ConcatIs
  <2>6. i = n + 1 \/ (i <= n /\ fmt[i] # "%") \/ (i = n /\ fmt[i] = "%") \/ (i < n /\ fmt[i] = "%")
    BY <1>1, <2>1
  <2> QED BY <2>2, <2>3, <2>4, <2>5, <2>6
<1> HIDE DEF G
<1>6. Nat \subseteq G
  BY <1>5, AllNumbers
<1>7. n \in G /\ n + 1 - n = 1
  BY <1>1, <1>6
<1> QED BY <1>1, <1>2, <1>7 DEF G

-----------------------------------------------------------------------------
(* A pass of the formatter *)

LEMMA PairIs ==
  ASSUME NEW x, NEW y
  PROVE  IsSeq(<<x, y>>) /\ Len(<<x, y>>) = 2
<1>1. <<x, y>> \in Seq({x, y})
  OBVIOUS
<1> QED BY <1>1 DEF IsSeq

\* A template with texts put in is a text.
LEMMA FormatIsSeq ==
  ASSUME NEW fmt, IsSeq(fmt), NEW value, \A c \in DOMAIN value : IsSeq(value[c])
  PROVE  IsSeq(Format(fmt, value))
<1> DEFINE it == Items(fmt)
           Part(i) == IF ~it[i].spec THEN <<it[i].char>>
                      ELSE IF it[i].char \in DOMAIN value THEN value[it[i].char]
                      ELSE <<"%", it[i].char>>
           parts == [i \in DOMAIN it |-> Part(i)]
<1>1. IsSeq(it)
  BY ItemsIsSeq
<1>2. Len(it) \in Nat /\ DOMAIN it = 1..Len(it)
  BY <1>1, SeqIs
<1>3. ASSUME NEW i \in 1..Len(it) PROVE IsSeq(Part(i))
  BY OneIs, PairIs
<1>4. Format(fmt, value) = FlattenSeq(parts)
  BY DEF Format
<1> HIDE DEF it, Part
<1>5. parts = [i \in 1..Len(it) |-> parts[i]] /\ \A i \in 1..Len(it) : parts[i] = Part(i)
  BY <1>2
<1> HIDE DEF parts
<1>6. AreSeqs(parts)
  <2>1. IsSeq(parts) /\ Len(parts) = Len(it)
    BY <1>2, <1>5, FunctionIs
  <2> QED BY <1>3, <1>5, <2>1 DEF AreSeqs
<1> QED BY <1>4, <1>6, FlattenIsSeq

-----------------------------------------------------------------------------
(* Placeholders *)

LEMMA PartIs ==
  ASSUME NEW U, NEW s \in Seq(U), NEW m \in Nat \ {0}, NEW n \in Nat, n <= Len(s)
  PROVE  /\ SubSeq(s, m, n) \in Seq(U)
         /\ Len(SubSeq(s, m, n)) = IF m <= n THEN n - m + 1 ELSE 0
         /\ \A i \in 1..(n - m + 1) : SubSeq(s, m, n)[i] = s[m + i - 1]
<1>1. Len(s) \in Nat /\ \A i \in 1..Len(s) : s[i] \in U
  OBVIOUS
<1>2. \A i \in m..n : i \in 1..Len(s)
  BY <1>1
<1>3. m \in Int /\ n \in Int /\ \A i \in m..n : s[i] \in U
  BY <1>1, <1>2
<1> QED BY <1>3, SubSeqProperties

LEMMA StartsAre ==
  ASSUME NEW part, NEW text, IsSeq(part), IsSeq(text)
  PROVE  /\ Starts(part, text) \in SUBSET Nat
         /\ \A i \in Starts(part, text) :
              i \in Nat \ {0} /\ i + Len(part) \in Nat /\ i + Len(part) <= Len(text) + 1
<1>1. Len(part) \in Nat /\ Len(text) \in Nat
  BY SeqIs
<1>2. ASSUME NEW i \in 1..(Len(text) - Len(part) + 1)
      PROVE  i \in Nat \ {0} /\ i + Len(part) \in Nat /\ i + Len(part) <= Len(text) + 1
  BY <1>1
<1> QED BY <1>2 DEF Starts

\* Where a character of the result of a replacement at i is from
Origin(k, r, i, text, from, to) ==
  \/ k < i /\ r[k] = text[k]
  \/ \E j \in 1..Len(to) : r[k] = to[j]
  \/ /\ k > (i - 1) + Len(to)
     /\ k - ((i - 1) + Len(to)) + ((i + Len(from)) - 1) \in (i + Len(from))..Len(text)
     /\ r[k] = text[k - ((i - 1) + Len(to)) + ((i + Len(from)) - 1)]

\* A replacement of one occurrence: what is before it stays, then comes the new
\* text, then what was behind.
LEMMA ReplaceIs ==
  ASSUME NEW U, NEW text \in Seq(U), NEW to \in Seq(U), NEW from, IsSeq(from)
  PROVE  /\ ReplaceFirstText(text, from, to) \in Seq(U)
         /\ ~Occurs(from, text) => ReplaceFirstText(text, from, to) = text
         /\ Occurs(from, text) =>
              \E i \in Starts(from, text) :
                \A k \in 1..Len(ReplaceFirstText(text, from, to)) :
                  Origin(k, ReplaceFirstText(text, from, to), i, text, from, to)
<1>1. Len(text) \in Nat /\ Len(to) \in Nat /\ Len(from) \in Nat
  BY SeqIs
<1>2. CASE ~Occurs(from, text)
  BY <1>2 DEF ReplaceFirstText
<1>3. CASE Occurs(from, text)
  <2> DEFINE i == Min(Starts(from, text))
             b == i + Len(from)
             p == SubSeq(text, 1, i - 1)
             q == SubSeq(text, b, Len(text))
             r == (p \o to) \o q
  <2>1. i \in Starts(from, text)
    <3>1. IsSeq(text) /\ Starts(from, text) # {}
      BY <1>3 DEF Occurs, IsSeq
    <3> QED BY <3>1, StartsAre, Minimum
  <2>2. i \in Nat \ {0} /\ b \in Nat /\ b <= Len(text) + 1
    <3>1. IsSeq(text)
      BY DEF IsSeq
    <3> QED BY <2>1, <3>1, StartsAre
  <2>3. ReplaceFirstText(text, from, to) = r
    BY <1>3 DEF ReplaceFirstText, ReplaceSubSeqAt
  <2> HIDE DEF i
  <2>4. /\ p \in Seq(U) /\ Len(p) = i - 1
        /\ \A k \in 1..(i - 1) : p[k] = text[k]
    <3>1. i - 1 \in Nat /\ i - 1 <= Len(text) /\ 1 \in Nat \ {0}
      BY <1>1, <2>2
    <3>2. /\ p \in Seq(U) /\ Len(p) = IF 1 <= i - 1 THEN i - 1 - 1 + 1 ELSE 0
          /\ \A k \in 1..((i - 1) - 1 + 1) : p[k] = text[1 + k - 1]
      BY <3>1, PartIs
    <3>3. \A k \in 1..(i - 1) : k \in 1..((i - 1) - 1 + 1) /\ 1 + k - 1 = k
      BY <2>2
    <3>4. Len(p) = i - 1
      BY <2>2, <3>2
    <3> HIDE DEF p
    <3> QED BY <3>2, <3>3, <3>4
  <2>5. /\ q \in Seq(U) /\ Len(q) = Len(text) + 1 - b
        /\ \A k \in 1..(Len(text) + 1 - b) : q[k] = text[b + k - 1]
    <3>1. b \in Nat \ {0} /\ Len(text) <= Len(text)
      BY <1>1, <2>2
    <3> HIDE DEF b
    <3>2. /\ q \in Seq(U) /\ Len(q) = IF b <= Len(text) THEN Len(text) - b + 1 ELSE 0
          /\ \A k \in 1..(Len(text) - b + 1) : q[k] = text[b + k - 1]
      BY <1>1, <3>1, PartIs
    <3>3. Len(q) = Len(text) + 1 - b /\ Len(text) - b + 1 = Len(text) + 1 - b
      BY <1>1, <2>2, <3>2
    <3> HIDE DEF q
    <3> QED BY <3>2, <3>3
  <2> HIDE DEF p, q
  <2>6. r \in Seq(U)
    BY <2>4, <2>5, ConcatProperties
  <2>7. /\ IsSeq(p) /\ IsSeq(to) /\ IsSeq(q) /\ IsSeq(p \o to)
        /\ Len(p \o to) = (i - 1) + Len(to) /\ Len(r) = (i - 1) + Len(to) + (Len(text) + 1 - b)
    <3>1. IsSeq(p) /\ IsSeq(to) /\ IsSeq(q)
      BY <2>4, <2>5 DEF IsSeq
    <3>2. IsSeq(p \o to) /\ Len(p \o to) = (i - 1) + Len(to)
      BY <2>4, <3>1, ConcatIs
    <3> QED BY <2>5, <3>1, <3>2, ConcatIs
  <2>8. ASSUME NEW k \in 1..Len(r)
        PROVE  \/ k < i /\ r[k] = text[k]
               \/ \E j \in 1..Len(to) : r[k] = to[j]
               \/ /\ k > (i - 1) + Len(to)
                  /\ k - ((i - 1) + Len(to)) + (b - 1) \in b..Len(text)
                  /\ r[k] = text[k - ((i - 1) + Len(to)) + (b - 1)]
    <3> HIDE DEF r
    <3>0. k \in Nat /\ k >= 1 /\ k <= (i - 1) + Len(to) + (Len(text) + 1 - b)
      BY <1>1, <2>2, <2>7
    <3> HIDE DEF b
    <3>1. CASE k < i
      <4>1. k \in 1..Len(p) /\ k \in 1..Len(p \o to) /\ k \in 1..(i - 1)
        BY <1>1, <2>2, <2>4, <2>7, <3>0, <3>1
      <4>2. r[k] = (p \o to)[k] /\ (p \o to)[k] = p[k] /\ p[k] = text[k]
        BY <2>4, <2>7, <4>1, ConcatIs DEF r
      <4> QED BY <3>1, <4>2
    <3>2. CASE ~(k < i) /\ k <= (i - 1) + Len(to)
      <4> DEFINE j == k - (i - 1)
      <4>1. k \in 1..Len(p \o to) /\ j \in 1..Len(to) /\ Len(p) + j = k
        BY <1>1, <2>2, <2>4, <2>7, <3>0, <3>2
      <4> HIDE DEF j
      <4>2. r[k] = (p \o to)[k]
        BY <2>7, <4>1, ConcatIs DEF r
      <4>3. (p \o to)[Len(p) + j] = to[j]
        BY <2>7, <4>1, ConcatIs
      <4> QED BY <4>1, <4>2, <4>3
    <3>3. CASE k > (i - 1) + Len(to)
      <4> DEFINE j == k - ((i - 1) + Len(to))
      <4>1. /\ j \in 1..(Len(text) + 1 - b) /\ Len(p \o to) + j = k
            /\ j + (b - 1) = b + j - 1 /\ j + (b - 1) \in b..Len(text)
        BY <1>1, <2>2, <2>7, <3>0, <3>3
      <4> HIDE DEF j
      <4>2. r[Len(p \o to) + j] = q[j]
        BY <2>5, <2>7, <4>1, ConcatIs DEF r
      <4>3. r[k] = text[j + (b - 1)]
        BY <2>5, <4>1, <4>2
      <4> QED BY <3>3, <4>1, <4>3 DEF j
    <3>4. k < i \/ (~(k < i) /\ k <= (i - 1) + Len(to)) \/ k > (i - 1) + Len(to)
      BY <1>1, <2>2, <3>0
    <3> QED BY <3>1, <3>2, <3>3, <3>4
  <2>9. \A k \in 1..Len(r) : Origin(k, r, i, text, from, to)
    <3> HIDE DEF r
    <3> QED BY <2>8 DEF Origin
  <2> HIDE DEF r
  <2> QED BY <1>3, <2>1, <2>3, <2>6, <2>9
<1> QED BY <1>2, <1>3

\* The opening braces of a text
Opening(text) == {j \in 1..Len(text) : text[j] = OpenBrace}
Braces(text) == Cardinality(Opening(text))

LEMMA BracesAre ==
  ASSUME NEW text, IsSeq(text)
  PROVE  IsFiniteSet(Opening(text)) /\ Braces(text) \in Nat
<1>1. Len(text) \in Nat
  BY SeqIs
<1>2. IsFiniteSet(1..Len(text)) /\ Opening(text) \in SUBSET (1..Len(text))
  BY <1>1, FS_Interval DEF Opening
<1> QED BY <1>2, FS_Subset, FS_CardinalityType DEF Braces

\* Whoever replaces a placeholder by a text without braces takes one away.
LEMMA BraceLess ==
  ASSUME NEW text, NEW to, NEW from, IsSeq(text), IsSeq(to), IsSeq(from),
         Len(from) > 0, from[1] = OpenBrace, OpenBrace \notin Range(to), Occurs(from, text)
  PROVE  Braces(ReplaceFirstText(text, from, to)) <= Braces(text) - 1
<1> DEFINE r == ReplaceFirstText(text, from, to)
<1>1. Len(text) \in Nat /\ Len(to) \in Nat /\ Len(from) \in Nat
  BY SeqIs
<1>2. PICK U : text \in Seq(U) /\ to \in Seq(U)
  BY BothAreSeq
<1>3. IsSeq(r)
  BY <1>2, ReplaceIs DEF IsSeq
<1>4. PICK i \in Starts(from, text) :
        \A k \in 1..Len(r) : Origin(k, r, i, text, from, to)
  BY <1>2, ReplaceIs
<1>5. i \in Nat \ {0} /\ i + Len(from) <= Len(text) + 1 /\ i \in 1..Len(text)
  <2>1. i \in Nat \ {0} /\ i + Len(from) <= Len(text) + 1
    BY StartsAre
  <2> QED BY <1>1, <2>1
<1>6. text[i] = OpenBrace
  <2>1. SubSeq(text, i, i + Len(from) - 1) = from
    BY DEF Starts
  <2>2. i + Len(from) - 1 \in Nat /\ i + Len(from) - 1 <= Len(text)
    BY <1>1, <1>5
  <2>3. 1 \in 1..((i + Len(from) - 1) - i + 1) /\ i + 1 - 1 = i
    BY <1>1, <1>5
  <2> DEFINE last == i + Len(from) - 1
  <2>4. SubSeq(text, i, last)[1] = text[i + 1 - 1]
    <3> HIDE DEF last
    <3> QED BY <1>2, <1>5, <2>2, <2>3, PartIs DEF last
  <2> QED BY <2>1, <2>3, <2>4
<1> HIDE DEF r
<1> DEFINE Old(k) == IF k < i THEN k ELSE k - ((i - 1) + Len(to)) + ((i + Len(from)) - 1)
           T == Opening(text) \ {i}
           f == [k \in Opening(r) |-> Old(k)]
<1>7. ASSUME NEW k \in Opening(r)
      PROVE  /\ k \in Nat /\ (k < i \/ k > (i - 1) + Len(to))
             /\ Old(k) \in T
  <2>1. k \in 1..Len(r) /\ r[k] = OpenBrace /\ k \in Nat
    BY <1>3, SeqIs DEF Opening
  <2>2. Origin(k, r, i, text, from, to)
    BY <1>4, <2>1
  <2>3. ~\E j \in 1..Len(to) : r[k] = to[j]
    BY <2>1, RangeIs
  <2>4. CASE k < i /\ r[k] = text[k]
    <3>1. k \in 1..Len(text) /\ k # i /\ Old(k) = k
      BY <1>1, <1>5, <2>1, <2>4
    <3> QED BY <2>1, <2>4, <3>1 DEF Opening
  <2>5. CASE /\ k > (i - 1) + Len(to)
             /\ k - ((i - 1) + Len(to)) + ((i + Len(from)) - 1) \in (i + Len(from))..Len(text)
             /\ r[k] = text[k - ((i - 1) + Len(to)) + ((i + Len(from)) - 1)]
    <3>1. ~(k < i)
      BY <1>1, <1>5, <2>1, <2>5
    <3>2. Old(k) \in (i + Len(from))..Len(text) /\ text[Old(k)] = OpenBrace
      BY <2>1, <2>5, <3>1
    <3> HIDE DEF Old
    <3>3. Old(k) \in 1..Len(text) /\ Old(k) # i
      BY <1>1, <1>5, <3>2
    <3> QED BY <2>1, <2>5, <3>2, <3>3 DEF Opening
  <2> QED BY <2>2, <2>3, <2>4, <2>5 DEF Origin
<1>8. ASSUME NEW k \in Opening(r), NEW l \in Opening(r), Old(k) = Old(l)
      PROVE  k = l
  <2>1. /\ k \in Nat /\ (k < i \/ k > (i - 1) + Len(to))
        /\ l \in Nat /\ (l < i \/ l > (i - 1) + Len(to))
    BY <1>7
  <2>2. CASE k < i /\ l < i
    BY <1>8, <2>2
  <2>3. CASE ~(k < i) /\ ~(l < i)
    BY <1>1, <1>5, <1>8, <2>1, <2>3
  <2>4. CASE k < i /\ ~(l < i)
    <3>1. l > (i - 1) + Len(to)
      BY <2>1, <2>4
    <3>2. Old(l) >= i /\ Old(k) = k
      BY <1>1, <1>5, <2>1, <2>4, <3>1
    <3> QED BY <1>5, <1>8, <2>1, <2>4, <3>2
  <2>5. CASE ~(k < i) /\ l < i
    <3>1. k > (i - 1) + Len(to)
      BY <2>1, <2>5
    <3>2. Old(k) >= i /\ Old(l) = l
      BY <1>1, <1>5, <2>1, <2>5, <3>1
    <3> QED BY <1>5, <1>8, <2>1, <2>5, <3>2
  <2> QED BY <2>2, <2>3, <2>4, <2>5
<1> HIDE DEF Old
<1>9. f \in Injection(Opening(r), T)
  <2>1. f \in [Opening(r) -> T]
    <3> HIDE DEF T
    <3> QED BY <1>7
  <2> QED BY <1>8, <2>1 DEF Injection, IsInjective
<1>10. i \in Opening(text) /\ IsFiniteSet(Opening(text)) /\ Braces(text) \in Nat
  BY <1>5, <1>6, BracesAre DEF Opening
<1>11. IsFiniteSet(T) /\ Cardinality(T) = Braces(text) - 1
  BY <1>10, FS_RemoveElement DEF Braces
<1>12. Cardinality(Opening(r)) <= Cardinality(T)
  <2> HIDE DEF T, f
  <2> QED BY <1>9, <1>11, FS_Injection
<1> QED BY <1>11, <1>12 DEF Braces, r

\* A text with a placeholder in it has a brace.
LEMMA OccursBrace ==
  ASSUME NEW text, NEW from, IsSeq(text), IsSeq(from),
         Len(from) > 0, from[1] = OpenBrace, Occurs(from, text)
  PROVE  Braces(text) > 0
<1> DEFINE to == << >>
<1>1. IsSeq(to) /\ OpenBrace \notin Range(to)
  BY EmptyIsSeq, RangeIs
<1>2. Braces(ReplaceFirstText(text, from, to)) <= Braces(text) - 1
  <2> HIDE DEF to
  <2> QED BY <1>1, BraceLess
<1>3. PICK U : text \in Seq(U) /\ to \in Seq(U)
  BY <1>1, BothAreSeq
<1>4. IsSeq(ReplaceFirstText(text, from, to))
  <2> HIDE DEF to
  <2> QED BY <1>3, ReplaceIs DEF IsSeq
<1> HIDE DEF to
<1> QED BY <1>2, <1>4, BracesAre

-----------------------------------------------------------------------------
(* The placeholders of a message *)

\* The texts that str_replace makes, one replacement after the other
Rounds(g, U, text, from, to) ==
  /\ g \in [0..MaxRounds -> Seq(U)] /\ g[0] = text
  /\ \A n \in 1..MaxRounds : g[n] = ReplaceFirstText(g[n - 1], from, to)

LEMMA RoundsThere ==
  ASSUME NEW U, NEW text \in Seq(U), NEW to \in Seq(U), NEW from, IsSeq(from)
  PROVE  \E g : Rounds(g, U, text, from, to)
<1> DEFINE D == Seq(U)
           step == [p \in D \X (1..MaxRounds) |-> ReplaceFirstText(p[1], from, to)]
<1>1. step \in [D \X (1..MaxRounds) -> D]
  <2>1. ASSUME NEW p \in D \X (1..MaxRounds) PROVE ReplaceFirstText(p[1], from, to) \in D
    <3>1. p[1] \in Seq(U)
      OBVIOUS
    <3> QED BY <3>1, ReplaceIs
  <2> QED BY <2>1
<1>2. \A x \in D, n \in 1..MaxRounds : step[<<x, n>>] = ReplaceFirstText(x, from, to)
  OBVIOUS
<1>3. text \in D /\ MaxRounds \in Nat
  BY RoundsAssumption
<1> HIDE DEF step, D
<1>4. IsStep(step, D, MaxRounds)
  BY <1>1 DEF IsStep
<1>5. PICK g : Iterated(g, MaxRounds, text, step, D)
  BY <1>3, <1>4, Iterates
<1>6. ASSUME NEW n \in 1..MaxRounds PROVE g[n] = ReplaceFirstText(g[n - 1], from, to)
  <2>1. n - 1 \in 0..MaxRounds
    BY <1>3
  <2>2. g[n - 1] \in D /\ g[n] = step[<<g[n - 1], n>>]
    BY <1>5, <2>1 DEF Iterated
  <2> QED BY <1>2, <2>2
<1>7. g \in [0..MaxRounds -> D] /\ g[0] = text
  BY <1>5 DEF Iterated
<1> QED BY <1>6, <1>7 DEF D, Rounds

LEMMA StrReplaceIs ==
  ASSUME NEW U, NEW text \in Seq(U), NEW to \in Seq(U), NEW from, IsSeq(from)
  PROVE  \E g : /\ Rounds(g, U, text, from, to)
                /\ StrReplace(text, from, to) = IF from = to THEN text ELSE g[MaxRounds]
<1> DEFINE Body(f, n) == IF n = 0 THEN text ELSE ReplaceFirstText(f[n - 1], from, to)
           F == CHOOSE f : f = [n \in 0..MaxRounds |-> Body(f, n)]
<1>1. PICK g : Rounds(g, U, text, from, to)
  BY RoundsThere
<1>2. MaxRounds \in Nat
  BY RoundsAssumption
<1>3. StrReplace(text, from, to) = IF from = to THEN text ELSE F[MaxRounds]
  BY DEF StrReplace
<1>4. ASSUME NEW n \in 0..MaxRounds PROVE g[n] = Body(g, n)
  <2>1. n # 0 => n \in 1..MaxRounds
    BY <1>2
  <2> QED BY <1>1, <2>1 DEF Rounds
<1>5. g = [n \in 0..MaxRounds |-> g[n]]
  BY <1>1 DEF Rounds
<1> HIDE DEF Body
<1>6. g = [n \in 0..MaxRounds |-> Body(g, n)]
  BY <1>4, <1>5
<1>7. F = [n \in 0..MaxRounds |-> Body(F, n)]
  BY <1>6
<1> HIDE DEF F
<1> DEFINE G == {n \in 0..MaxRounds : F[n] = g[n]}
<1>8. F[0] = text /\ \A n \in 1..MaxRounds : F[n] = ReplaceFirstText(F[n - 1], from, to)
  <2>1. 0 \in 0..MaxRounds /\ \A n \in 1..MaxRounds : n \in 0..MaxRounds /\ n # 0
    BY <1>2
  <2>2. \A n \in 0..MaxRounds : F[n] = Body(F, n)
    BY <1>7
  <2> QED BY <2>1, <2>2 DEF Body
<1>9. 0 \in G
  BY <1>1, <1>2, <1>8 DEF Rounds
<1>10. ASSUME NEW n \in 1..MaxRounds, n - 1 \in G PROVE n \in G
  <2>1. F[n - 1] = g[n - 1]
    BY <1>10
  <2>2. F[n] = g[n]
    BY <1>1, <1>8, <2>1 DEF Rounds
  <2> QED BY <1>2, <2>2
<1> HIDE DEF G
<1>11. 0..MaxRounds \subseteq G
  BY <1>2, <1>9, <1>10, NumbersUpTo
<1>12. F[MaxRounds] = g[MaxRounds]
  BY <1>2, <1>11 DEF G
<1> QED BY <1>1, <1>3, <1>12

LEMMA StrReplaceIsSeq ==
  ASSUME NEW U, NEW text \in Seq(U), NEW to \in Seq(U), NEW from, IsSeq(from)
  PROVE  StrReplace(text, from, to) \in Seq(U)
<1>1. PICK g : /\ Rounds(g, U, text, from, to)
               /\ StrReplace(text, from, to) = IF from = to THEN text ELSE g[MaxRounds]
  BY StrReplaceIs
<1>2. MaxRounds \in 0..MaxRounds
  BY RoundsAssumption
<1> QED BY <1>1, <1>2 DEF Rounds

\* Values without braces put in: no more braces than before, and after as many
\* replacements as the text has braces no placeholder is left.
LEMMA StrReplaceEnds ==
  ASSUME NEW U, NEW text \in Seq(U), NEW to \in Seq(U), NEW from, IsSeq(from),
         Len(from) > 0, from[1] = OpenBrace, OpenBrace \notin Range(to),
         Braces(text) <= MaxRounds
  PROVE  /\ Braces(StrReplace(text, from, to)) <= MaxRounds
         /\ ~NeverEnds(text, from, to)
<1>1. PICK g : /\ Rounds(g, U, text, from, to)
               /\ StrReplace(text, from, to) = IF from = to THEN text ELSE g[MaxRounds]
  BY StrReplaceIs
<1>2. MaxRounds \in Nat
  BY RoundsAssumption
<1> DEFINE Less(n) == /\ Braces(g[n]) <= MaxRounds
                      /\ Occurs(from, g[n]) => Braces(g[n]) <= MaxRounds - n
           G == {n \in 0..MaxRounds : Less(n)}
<1>3. ASSUME NEW n \in 0..MaxRounds PROVE IsSeq(g[n]) /\ Braces(g[n]) \in Nat
  BY <1>1, BracesAre DEF Rounds, IsSeq
<1>4. 0 \in G
  <2>1. g[0] = text
    BY <1>1 DEF Rounds
  <2> QED BY <1>2, <2>1
<1>5. ASSUME NEW n \in 1..MaxRounds, n - 1 \in G PROVE n \in G
  <2>0. n - 1 \in 0..MaxRounds /\ n \in 0..MaxRounds /\ n \in Nat
    BY <1>2
  <2>1. /\ IsSeq(g[n - 1]) /\ Braces(g[n - 1]) \in Nat /\ Less(n - 1)
        /\ g[n] = ReplaceFirstText(g[n - 1], from, to) /\ g[n - 1] \in Seq(U)
        /\ Braces(g[n]) \in Nat
    BY <1>1, <1>3, <1>5, <2>0 DEF Rounds
  <2>2. CASE Occurs(from, g[n - 1])
    <3>1. IsSeq(to)
      BY DEF IsSeq
    <3>2. Braces(g[n]) <= Braces(g[n - 1]) - 1
      BY <2>1, <2>2, <3>1, BraceLess
    <3>3. Braces(g[n - 1]) <= MaxRounds - (n - 1)
      BY <2>1, <2>2
    <3>4. Braces(g[n]) <= MaxRounds - n /\ Braces(g[n]) <= MaxRounds
      BY <1>2, <2>0, <2>1, <3>2, <3>3
    <3> QED BY <2>0, <3>4
  <2>3. CASE ~Occurs(from, g[n - 1])
    <3>1. g[n] = g[n - 1]
      BY <2>1, <2>3, ReplaceIs
    <3> QED BY <2>0, <2>1, <2>3, <3>1
  <2> QED BY <2>2, <2>3
<1> HIDE DEF G
<1>6. MaxRounds \in G
  <2>1. 0..MaxRounds \subseteq G
    BY <1>2, <1>4, <1>5, NumbersUpTo
  <2> QED BY <1>2, <2>1
<1>7. IsSeq(g[MaxRounds]) /\ Braces(g[MaxRounds]) \in Nat /\ Less(MaxRounds)
  <2>1. MaxRounds \in 0..MaxRounds
    BY <1>2
  <2> QED BY <1>3, <1>6, <2>1 DEF G
<1>8. ~Occurs(from, g[MaxRounds])
  <2> SUFFICES ASSUME Occurs(from, g[MaxRounds]) PROVE FALSE
    OBVIOUS
  <2>1. Braces(g[MaxRounds]) > 0
    BY <1>7, OccursBrace
  <2> QED BY <1>2, <1>7, <2>1
<1>9. Braces(StrReplace(text, from, to)) <= MaxRounds
  BY <1>1, <1>7
<1>10. ~NeverEnds(text, from, to)
  BY <1>1, <1>8 DEF NeverEnds
<1> QED BY <1>9, <1>10

LEMMA PlaceholderIs ==
  ASSUME NEW key, IsSeq(key)
  PROVE  LET from == Placeholder(key) IN
         IsSeq(from) /\ Len(from) > 0 /\ from[1] = OpenBrace
<1> DEFINE from == Placeholder(key)
<1>1. CASE key # << >> /\ Head(key) = OpenBrace
  <2>1. PICK S : key \in Seq(S)
    BY DEF IsSeq
  <2>2. Len(key) > 0 /\ Head(key) = key[1]
    BY <1>1, <2>1
  <2> QED BY <1>1, <2>2 DEF Placeholder
<1>2. CASE ~(key # << >> /\ Head(key) = OpenBrace)
  <2> DEFINE first == <<OpenBrace>>
             last == <<CloseBrace>>
  <2>1. from = (first \o key) \o last
    BY <1>2 DEF Placeholder
  <2>2. IsSeq(first) /\ Len(first) = 1 /\ first[1] = OpenBrace /\ IsSeq(last) /\ Len(last) = 1
    BY OneIs
  <2> HIDE DEF first, last
  <2>3. Len(key) \in Nat
    BY SeqIs
  <2>4. /\ IsSeq(first \o key) /\ Len(first \o key) = 1 + Len(key)
        /\ (first \o key)[1] = OpenBrace
    <3>1. 1 \in 1..Len(first)
      BY <2>2
    <3>2. IsSeq(first) /\ IsSeq(key)
      BY <2>2
    <3>3. /\ IsSeq(first \o key) /\ Len(first \o key) = Len(first) + Len(key)
          /\ \A i \in 1..Len(first) : (first \o key)[i] = first[i]
      BY <3>2, ConcatIs
    <3> QED BY <2>2, <3>1, <3>3
  <2>5. IsSeq((first \o key) \o last) /\ Len((first \o key) \o last) = (1 + Len(key)) + 1
    BY <2>2, <2>4, ConcatIs
  <2>6. ((first \o key) \o last)[1] = OpenBrace
    <3>1. 1 \in 1..Len(first \o key)
      BY <2>3, <2>4
    <3> QED BY <2>2, <2>4, <3>1, ConcatIs
  <2> QED BY <2>1, <2>3, <2>5, <2>6
<1> QED BY <1>1, <1>2

-----------------------------------------------------------------------------
(* A message with its context *)

IsContext(context) ==
  /\ IsSeq(context)
  /\ \A k \in 1..Len(context) : IsSeq(context[k].key) /\ IsSeq(context[k].value)

PairDone(sofar, pair) ==
  LET from == Placeholder(pair.key) IN
  IF ~sofar.ends \/ NeverEnds(sofar.text, from, pair.value)
    THEN [sofar EXCEPT !.ends = FALSE]
    ELSE [sofar EXCEPT !.text = StrReplace(@, from, pair.value)]

LEMMA PairDoneIs ==
  ASSUME NEW U, NEW sofar \in [text : Seq(U), ends : BOOLEAN], NEW pair,
         IsSeq(pair.key), pair.value \in Seq(U)
  PROVE  /\ PairDone(sofar, pair) \in [text : Seq(U), ends : BOOLEAN]
         /\ sofar.ends /\ Braces(sofar.text) <= MaxRounds /\ OpenBrace \notin Range(pair.value)
              => PairDone(sofar, pair).ends /\ Braces(PairDone(sofar, pair).text) <= MaxRounds
<1> DEFINE from == Placeholder(pair.key)
<1>1. IsSeq(from) /\ Len(from) > 0 /\ from[1] = OpenBrace
  BY PlaceholderIs
<1>2. sofar.text \in Seq(U) /\ sofar.ends \in BOOLEAN
  OBVIOUS
<1>3. StrReplace(sofar.text, from, pair.value) \in Seq(U)
  <2> HIDE DEF from
  <2> QED BY <1>1, <1>2, StrReplaceIsSeq
<1>4. PairDone(sofar, pair) =
        IF ~sofar.ends \/ NeverEnds(sofar.text, from, pair.value)
          THEN [sofar EXCEPT !.ends = FALSE]
          ELSE [sofar EXCEPT !.text = StrReplace(sofar.text, from, pair.value)]
  BY DEF PairDone
<1> HIDE DEF from
<1>5. PairDone(sofar, pair) \in [text : Seq(U), ends : BOOLEAN]
  BY <1>2, <1>3, <1>4
<1>6. ASSUME sofar.ends, Braces(sofar.text) <= MaxRounds, OpenBrace \notin Range(pair.value)
      PROVE  PairDone(sofar, pair).ends /\ Braces(PairDone(sofar, pair).text) <= MaxRounds
  <2>1. /\ Braces(StrReplace(sofar.text, from, pair.value)) <= MaxRounds
        /\ ~NeverEnds(sofar.text, from, pair.value)
    BY <1>1, <1>2, <1>6, StrReplaceEnds
  <2>2. PairDone(sofar, pair) = [sofar EXCEPT !.text = StrReplace(sofar.text, from, pair.value)]
    BY <1>4, <1>6, <2>1
  <2>3. /\ PairDone(sofar, pair).ends = sofar.ends
        /\ PairDone(sofar, pair).text = StrReplace(sofar.text, from, pair.value)
    BY <1>2, <2>2
  <2> QED BY <1>6, <2>1, <2>3
<1> QED BY <1>5, <1>6

\* The message after each pair of the context
Pairs(g, U, message, context) ==
  /\ g \in [0..Len(context) -> [text : Seq(U), ends : BOOLEAN]]
  /\ g[0] = [text |-> message, ends |-> TRUE]
  /\ \A k \in 1..Len(context) : g[k] = PairDone(g[k - 1], context[k])

LEMMA PairsThere ==
  ASSUME NEW U, NEW message \in Seq(U), NEW context, IsContext(context),
         \A k \in 1..Len(context) : context[k].value \in Seq(U)
  PROVE  \E g : Pairs(g, U, message, context)
<1> DEFINE D == [text : Seq(U), ends : BOOLEAN]
           N == Len(context)
           a == [text |-> message, ends |-> TRUE]
           step == [p \in D \X (1..N) |-> PairDone(p[1], context[p[2]])]
<1>1. N \in Nat
  BY SeqIs DEF IsContext
<1>2. a \in D
  OBVIOUS
<1>3. \A x \in D, k \in 1..N : PairDone(x, context[k]) \in D
  BY PairDoneIs DEF IsContext
<1> HIDE DEF D, a, N
<1>4. IsStep(step, D, N)
  BY <1>3 DEF IsStep
<1>5. \A x \in D, k \in 1..N : step[<<x, k>>] = PairDone(x, context[k])
  OBVIOUS
<1> HIDE DEF step
<1>6. PICK g : Iterated(g, N, a, step, D)
  BY <1>1, <1>2, <1>4, Iterates
<1>7. ASSUME NEW k \in 1..N PROVE g[k] = PairDone(g[k - 1], context[k])
  <2>1. k - 1 \in 0..N
    BY <1>1
  <2>2. g[k - 1] \in D /\ g[k] = step[<<g[k - 1], k>>]
    BY <1>6, <2>1 DEF Iterated
  <2> QED BY <1>5, <2>2
<1>8. g \in [0..N -> D] /\ g[0] = a
  BY <1>6 DEF Iterated
<1> QED BY <1>7, <1>8 DEF D, a, N, Pairs
\* A message with texts put in for its placeholders is a text, of the tokens of
\* both. If no value has a brace, and the message no more than the bound, the
\* replacements end.
LEMMA StrtrArrayIs ==
  ASSUME NEW message, IsSeq(message), NEW context, IsContext(context)
  PROVE  /\ IsSeq(StrtrArray(message, context).text)
         /\ StrtrArray(message, context).ends \in BOOLEAN
         /\ \A e \in Range(StrtrArray(message, context).text) :
              e \in Range(message) \/ \E k \in 1..Len(context) : e \in Range(context[k].value)
         /\ /\ Braces(message) <= MaxRounds
            /\ \A k \in 1..Len(context) : OpenBrace \notin Range(context[k].value)
            => StrtrArray(message, context).ends
<1> DEFINE N == Len(context)
           U == Range(message) \cup UNION {Range(context[k].value) : k \in 1..N}
           a == [text |-> message, ends |-> TRUE]
           Body(f, k) == IF k = 0 THEN a ELSE PairDone(f[k - 1], context[k])
           F == CHOOSE f : f = [k \in 0..N |-> Body(f, k)]
<1>1. N \in Nat
  BY SeqIs DEF IsContext
<1>2. message \in Seq(U) /\ \A k \in 1..N : context[k].value \in Seq(U)
  <2>1. message \in Seq(Range(message)) /\ Range(message) \subseteq U
    BY TextIsSeq DEF IsText
  <2>2. ASSUME NEW k \in 1..N
        PROVE  context[k].value \in Seq(Range(context[k].value)) /\ Range(context[k].value) \subseteq U
    BY TextIsSeq DEF IsText, IsContext
  <2> HIDE DEF U
  <2> QED BY <2>1, <2>2, SeqMonotonic
<1>3. StrtrArray(message, context) = F[N]
  BY DEF StrtrArray, PairDone
<1> HIDE DEF U
<1>16. PICK g : Pairs(g, U, message, context)
  BY <1>2, PairsThere
<1>4. /\ g \in [0..N -> [text : Seq(U), ends : BOOLEAN]] /\ g[0] = a
      /\ \A k \in 1..N : g[k] = PairDone(g[k - 1], context[k])
  BY <1>16 DEF Pairs
<1> HIDE DEF a, N
<1>5. ASSUME NEW k \in 0..N PROVE g[k] = Body(g, k)
  <2>1. k # 0 => k \in 1..N
    BY <1>1
  <2> QED BY <1>4, <2>1
<1>6. g = [k \in 0..N |-> g[k]]
  BY <1>4
<1> HIDE DEF Body
<1>7. g = [k \in 0..N |-> Body(g, k)]
  BY <1>5, <1>6
<1>8. F = [k \in 0..N |-> Body(F, k)]
  BY <1>7
<1> HIDE DEF F
<1>9. F[0] = a /\ \A k \in 1..N : F[k] = PairDone(F[k - 1], context[k])
  <2>1. 0 \in 0..N /\ \A k \in 1..N : k \in 0..N /\ k # 0
    BY <1>1
  <2>2. \A k \in 0..N : F[k] = Body(F, k)
    BY <1>8
  <2> QED BY <2>1, <2>2 DEF Body
<1> DEFINE D == [text : Seq(U), ends : BOOLEAN]
           Plainly == /\ Braces(message) <= MaxRounds
                      /\ \A k \in 1..N : OpenBrace \notin Range(context[k].value)
           Good(x) == x \in D /\ (Plainly => x.ends /\ Braces(x.text) <= MaxRounds)
           G == {k \in 0..N : Good(F[k])}
<1>10. 0 \in G
  <2>1. a \in D /\ a.text = message /\ a.ends = TRUE
    BY <1>2 DEF a
  <2>2. 0 \in 0..N /\ F[0] = a
    BY <1>1, <1>9
  <2>3. Good(a)
    <3> HIDE DEF D
    <3> QED BY <2>1
  <2> HIDE DEF Good
  <2> QED BY <2>2, <2>3
<1>11. ASSUME NEW k \in 1..N, k - 1 \in G PROVE k \in G
  <2>1. Good(F[k - 1]) /\ F[k] = PairDone(F[k - 1], context[k]) /\ k \in 0..N
    BY <1>1, <1>9, <1>11
  <2>2. IsSeq(context[k].key) /\ context[k].value \in Seq(U)
    BY <1>2 DEF IsContext, N
  <2> DEFINE x == F[k - 1]
             pair == context[k]
  <2>4. x \in [text : Seq(U), ends : BOOLEAN] /\ (Plainly => x.ends /\ Braces(x.text) <= MaxRounds)
    BY <2>1
  <2>5. Plainly => OpenBrace \notin Range(pair.value)
    OBVIOUS
  <2>6. IsSeq(pair.key) /\ pair.value \in Seq(U)
    BY <2>2
  <2> HIDE DEF x, pair, Plainly, D
  <2>7. /\ PairDone(x, pair) \in [text : Seq(U), ends : BOOLEAN]
        /\ x.ends /\ Braces(x.text) <= MaxRounds /\ OpenBrace \notin Range(pair.value)
             => PairDone(x, pair).ends /\ Braces(PairDone(x, pair).text) <= MaxRounds
    BY <2>4, <2>6, PairDoneIs
  <2>8. F[k] = PairDone(x, pair)
    BY <2>1 DEF x, pair
  <2>3. Good(F[k])
    BY <2>4, <2>5, <2>7, <2>8 DEF D
  <2> HIDE DEF Good
  <2> QED BY <2>1, <2>3
<1> HIDE DEF G
<1>12. N \in G
  <2>1. 0..N \subseteq G
    BY <1>1, <1>10, <1>11, NumbersUpTo
  <2> QED BY <1>1, <2>1
<1>13. Good(F[N])
  <2> HIDE DEF Good
  <2> QED BY <1>12 DEF G
<1>14. IsSeq(F[N].text) /\ F[N].ends \in BOOLEAN
  BY <1>13 DEF IsSeq
<1>15. Plainly => F[N].ends
  BY <1>13
<1>17. \A e \in Range(F[N].text) :
         e \in Range(message) \/ \E k \in 1..N : e \in Range(context[k].value)
  <2> DEFINE t == F[N].text
  <2>1. t \in Seq(U) /\ IsSeq(t)
    BY <1>13, <1>14
  <2> HIDE DEF t
  <2>2. Range(t) \subseteq U
    BY <2>1, RangeIs
  <2> QED BY <2>2 DEF t, U
<1> QED BY <1>3, <1>14, <1>15, <1>17 DEF N

LEMMA TrimWrapIsSeq ==
  ASSUME NEW text, IsSeq(text)
  PROVE  IsSeq(TrimWrap(text))
<1> DEFINE t == ReplaceAll(text, Feed, Space)
<1>1. t = [i \in 1..Len(text) |-> t[i]]
  BY DEF ReplaceAll
<1>2. Len(text) \in Nat
  BY SeqIs
<1> HIDE DEF t
<1>3. IsSeq(t)
  BY <1>1, <1>2, FunctionIs
<1> QED BY <1>3 DEF TrimWrap, t

LEMMA TrimmedIsSeq ==
  ASSUME NEW text, IsSeq(text)
  PROVE  IsSeq(Trimmed(text))
BY TrimWrapIsSeq DEF Trimmed

-----------------------------------------------------------------------------
(* The lines of a text *)

\* A text that ends a line has one.
LEMMA LinesOfIs ==
  ASSUME NEW text, IsSeq(text)
  PROVE  /\ IsSeq(LinesOf(text))
         /\ Len(text) > 0 /\ text[Len(text)] = Feed => Len(LinesOf(text)) > 0
<1> DEFINE feeds == {i \in 1..Len(text) : text[i] = Feed}
           ends == feeds \cup (IF Len(text) \in feeds \cup {0} THEN {} ELSE {Len(text) + 1})
           L == LinesOf(text)
<1>1. Len(text) \in Nat
  BY SeqIs
<1>2. ends \in SUBSET (1..(Len(text) + 1))
  BY <1>1
<1>3. IsFiniteSet(ends) /\ Cardinality(ends) \in Nat
  <2> HIDE DEF ends
  <2>1. Len(text) + 1 \in Nat
    BY <1>1
  <2> QED BY <1>2, <2>1, PlacesFinite
<1>4. L = [k \in 1..Cardinality(ends) |-> L[k]]
  BY DEF LinesOf
<1> HIDE DEF L
<1>5. IsSeq(L) /\ Len(L) = Cardinality(ends)
  <2> HIDE DEF ends
  <2> QED BY <1>3, <1>4, FunctionIs
<1>6. ASSUME Len(text) > 0, text[Len(text)] = Feed PROVE Len(L) > 0
  <2>1. Len(text) \in ends
    <3>1. Len(text) \in 1..Len(text)
      BY <1>1, <1>6
    <3> QED BY <1>6, <3>1
  <2> HIDE DEF ends
  <2>2. Cardinality(ends) # 0
    BY <1>3, <2>1, FS_EmptySet
  <2> QED BY <1>3, <1>5, <2>2
<1> QED BY <1>5, <1>6 DEF L

-----------------------------------------------------------------------------
(* The calls of a script *)

LEMMA CallIs ==
  ASSUME NEW c \in Calls
  PROVE  /\ IsSeq(c.messages) /\ Len(c.messages) \in Nat
         /\ DOMAIN c.messages = 1..Len(c.messages)
         /\ \A i \in 1..Len(c.messages) :
              IsSeq(c.messages[i]) /\ Braces(c.messages[i]) <= MaxRounds
         /\ IsContext(c.context)
<1>1. IsSeq(c.messages)
  BY CallsAssumption, TextIsSeq
<1>2. Len(c.messages) \in Nat /\ DOMAIN c.messages = 1..Len(c.messages)
  BY <1>1, SeqIs
<1>3. ASSUME NEW i \in 1..Len(c.messages) PROVE IsSeq(c.messages[i])
  BY <1>2, CallsAssumption, TextIsSeq
<1>4. ASSUME NEW i \in 1..Len(c.messages) PROVE Braces(c.messages[i]) <= MaxRounds
  <2>1. DOMAIN c.messages[i] = 1..Len(c.messages[i])
    BY <1>3, SeqIs
  <2>2. Cardinality({j \in DOMAIN c.messages[i] : c.messages[i][j] = OpenBrace}) <= MaxRounds
    BY <1>2, BracesAssumption
  <2> QED BY <2>1, <2>2 DEF Braces, Opening
<1>5. IsContext(c.context)
  <2>1. IsSeq(c.context)
    BY CallsAssumption, TextIsSeq
  <2>2. ASSUME NEW k \in 1..Len(c.context)
        PROVE  IsSeq(c.context[k].key) /\ IsSeq(c.context[k].value)
    <3>1. c.context[k] \in Range(c.context)
      BY <2>1, RangeIs
    <3> QED BY <3>1, CallsAssumption, TextIsSeq
  <2> QED BY <2>1, <2>2 DEF IsContext
<1> QED BY <1>1, <1>2, <1>3, <1>4, <1>5

-----------------------------------------------------------------------------
(* The lines of a call *)

LinesFrom(s, k) == {n \in DOMAIN s : s[n].call = k}

LEMMA LinesFinite ==
  ASSUME NEW s, IsSeq(s), NEW k
  PROVE  /\ IsFiniteSet(LinesFrom(s, k)) /\ Cardinality(LinesFrom(s, k)) \in Nat
         /\ LinesFrom(s, k) \subseteq 1..Len(s)
<1>1. Len(s) \in Nat /\ DOMAIN s = 1..Len(s)
  BY SeqIs
<1>2. LinesFrom(s, k) \subseteq 1..Len(s)
  BY <1>1 DEF LinesFrom
<1>3. IsFiniteSet(1..Len(s))
  BY <1>1, FS_Interval
<1>4. IsFiniteSet(LinesFrom(s, k))
  BY <1>2, <1>3, FS_Subset
<1> QED BY <1>2, <1>4, FS_CardinalityType

\* A line more is a line of its own call and of no other; it is the last one of
\* its call, and the lines before it keep their places.
LEMMA LineMore ==
  ASSUME NEW s, IsSeq(s), NEW e
  PROVE  LET t == Append(s, e) IN
         /\ \A k : k # e.call => LinesFrom(t, k) = LinesFrom(s, k)
         /\ LinesFrom(t, e.call) = LinesFrom(s, e.call) \cup {Len(s) + 1}
         /\ Cardinality(LinesFrom(t, e.call)) = Cardinality(LinesFrom(s, e.call)) + 1
         /\ \A k : \A n \in 1..Len(s) :
              {m \in LinesFrom(t, k) : m <= n} = {m \in LinesFrom(s, k) : m <= n}
         /\ {m \in LinesFrom(t, e.call) : m <= Len(s) + 1} = LinesFrom(t, e.call)
<1> DEFINE t == Append(s, e)
           new == Len(s) + 1
<1>1. Len(s) \in Nat /\ DOMAIN s = 1..Len(s)
  BY SeqIs
<1>2. /\ DOMAIN t = 1..new
      /\ \A i \in 1..Len(s) : t[i] = s[i]
      /\ t[new] = e
  BY AppendIs
<1>3. 1..new = 1..Len(s) \cup {new} /\ new \notin 1..Len(s)
  BY <1>1
<1> HIDE DEF t
<1>4. \A k : k # e.call => LinesFrom(t, k) = LinesFrom(s, k)
  BY <1>1, <1>2, <1>3 DEF LinesFrom
<1>5. LinesFrom(t, e.call) = LinesFrom(s, e.call) \cup {new}
  BY <1>1, <1>2, <1>3 DEF LinesFrom
<1>6. new \notin LinesFrom(s, e.call) /\ IsFiniteSet(LinesFrom(s, e.call))
  BY <1>3, LinesFinite
<1>7. Cardinality(LinesFrom(t, e.call)) = Cardinality(LinesFrom(s, e.call)) + 1
  BY <1>5, <1>6, FS_AddElement
<1>8. \A k : LinesFrom(t, k) = LinesFrom(s, k) \/ LinesFrom(t, k) = LinesFrom(s, k) \cup {new}
  BY <1>4, <1>5
<1>9. ASSUME NEW k, NEW n \in 1..Len(s)
      PROVE  {m \in LinesFrom(t, k) : m <= n} = {m \in LinesFrom(s, k) : m <= n}
  <2>1. ~(new <= n)
    BY <1>1
  <2> QED BY <2>1, <1>8
<1>10. \A m \in LinesFrom(t, e.call) : m <= new
  <2>1. LinesFrom(s, e.call) \subseteq 1..Len(s)
    BY LinesFinite
  <2> QED BY <2>1, <1>1, <1>5
<1> QED BY <1>4, <1>5, <1>7, <1>9, <1>10 DEF t

-----------------------------------------------------------------------------
(* The invariant *)

OpenCall == Len(results) + 1
UpTo(k, n) == {m \in Logged(k) : m <= n}

\* The call in progress has its next message in the array or just behind it.
CallTyped ==
  /\ IsSeq(said) /\ IsSeq(results)
  /\ call \in [c : Calls \cup {Null}, next : Nat \ {0}]
  /\ ~IsIdle => call.c \in Calls /\ call.next <= Len(call.c.messages) + 1

\* Every line is of a call that returned or of the one in progress.
LinesOwned == \A n \in DOMAIN said : said[n].call \in 1..OpenCall

\* The call in progress has logged the messages before the next one.
OpenLogged ==
  /\ \A n \in Logged(OpenCall) : said[n].c = call.c
  /\ Cardinality(Logged(OpenCall)) = call.next - 1

\* A line says the message that has its place among the lines of the call.
LinesNumbered == \A n \in DOMAIN said : said[n].i = Cardinality(UpTo(said[n].call, n))

\* What a call that returned has logged, and what it returned.
ClosedLogged ==
  \A k \in DOMAIN results :
    /\ \A n \in Logged(k) : said[n].c = results[k].c
    /\ results[k].end = "true" <=> Cardinality(Logged(k)) = Len(results[k].c.messages)

ArrayInv == CallTyped /\ LinesOwned /\ OpenLogged /\ LinesNumbered /\ ClosedLogged

LEMMA ArrayInvImplies == ArrayInv => ArrayStops
BY DEF ArrayInv, ClosedLogged, LinesNumbered, ArrayStops, Logged, UpTo

LEMMA ArrayInit == Init => ArrayInv
<1> SUFFICES ASSUME Init PROVE ArrayInv
  OBVIOUS
<1>1. said = << >> /\ results = << >> /\ call = Idle
  BY DEF Init
<1>2. IsSeq(said) /\ IsSeq(results) /\ DOMAIN said = {} /\ DOMAIN results = {} /\ OpenCall = 1
  BY <1>1, EmptyIsSeq DEF OpenCall
<1>3. Logged(OpenCall) = {} /\ Cardinality(Logged(OpenCall)) = 0
  BY <1>2, FS_EmptySet DEF Logged
<1>4. CallTyped
  BY <1>1, <1>2 DEF CallTyped, Idle, IsIdle
<1>5. OpenLogged
  BY <1>1, <1>3 DEF OpenLogged, Idle
<1> QED BY <1>2, <1>4, <1>5 DEF ArrayInv, LinesOwned, LinesNumbered, ClosedLogged

-----------------------------------------------------------------------------
(* The steps *)

\* A step that begins a call: the lines and the results stay.
LEMMA LogArray ==
  ASSUME NEW c \in Calls, ArrayInv, Log(c)
  PROVE  ArrayInv'
<1>1. /\ IsIdle /\ call' = [c |-> c, next |-> 1]
      /\ UNCHANGED <<said, results>>
  BY DEF Log, written
<1>2. CallTyped'
  BY <1>1, CallIs DEF ArrayInv, CallTyped, IsIdle
<1>3. Logged(OpenCall) = {} /\ Cardinality(Logged(OpenCall)) = 0
  <2>1. Logged(OpenCall) = LinesFrom(said, OpenCall)
    BY DEF Logged, LinesFrom
  <2>2. IsFiniteSet(Logged(OpenCall))
    BY <2>1, LinesFinite DEF ArrayInv, CallTyped
  <2>3. Cardinality(Logged(OpenCall)) = 0
    BY <1>1 DEF ArrayInv, OpenLogged, IsIdle, Idle
  <2> QED BY <2>2, <2>3, FS_EmptySet
<1>4. Logged(OpenCall)' = Logged(OpenCall)
  BY <1>1 DEF Logged, OpenCall
<1>5. OpenLogged'
  <2>1. OpenCall' = OpenCall
    BY <1>1 DEF OpenCall
  <2>2. (\A n \in Logged(OpenCall) : said[n].c = call.c)'
    BY <1>3, <1>4
  <2>3. (Cardinality(Logged(OpenCall)) = call.next - 1)'
    BY <1>1, <1>3, <1>4
  <2> QED BY <2>2, <2>3 DEF OpenLogged
<1> QED BY <1>1, <1>2, <1>5
       DEF ArrayInv, LinesOwned, LinesNumbered, ClosedLogged, Logged, UpTo, OpenCall

\* A step that writes a line of the call in progress.
LEMMA WriteArray ==
  ASSUME ArrayInv, WriteOk
  PROVE  ArrayInv'
<1> DEFINE line == [call |-> Len(results) + 1, c |-> call.c, i |-> call.next,
                    server |-> server, chosen |-> chosen, id |-> requestId]
           new == Len(said) + 1
<1>1. /\ said' = Append(said, line) /\ results' = results
      /\ call' = [call EXCEPT !.next = @ + 1]
      /\ ~IsIdle /\ call.next <= Len(call.c.messages)
  BY DEF WriteOk, AtMessage
<1>2. IsSeq(said) /\ IsSeq(results) /\ Len(said) \in Nat /\ DOMAIN said = 1..Len(said)
  BY SeqIs DEF ArrayInv, CallTyped
<1>3. /\ IsSeq(said') /\ DOMAIN said' = 1..new
      /\ \A i \in 1..Len(said) : said'[i] = said[i]
      /\ said'[new] = line
  BY <1>1, <1>2, AppendIs
<1>4. line.call = OpenCall /\ line.c = call.c /\ line.i = call.next /\ OpenCall' = OpenCall
  BY <1>1 DEF OpenCall
<1> HIDE DEF line
<1>5. /\ \A k : Logged(k) = LinesFrom(said, k)
      /\ \A k : Logged(k)' = LinesFrom(said', k)
  BY DEF Logged, LinesFrom
<1>6. /\ \A k : k # OpenCall => Logged(k)' = Logged(k)
      /\ Cardinality(LinesFrom(said', OpenCall)) = Cardinality(Logged(OpenCall)) + 1
      /\ LinesFrom(said', OpenCall) = Logged(OpenCall) \cup {new}
      /\ \A k : \A n \in 1..Len(said) : UpTo(k, n)' = UpTo(k, n)
      /\ {m \in LinesFrom(said', OpenCall) : m <= new} = LinesFrom(said', OpenCall)
  BY <1>1, <1>2, <1>4, <1>5, LineMore DEF UpTo
<1>7. /\ call \in [c : Calls \cup {Null}, next : Nat \ {0}]
      /\ call'.c = call.c /\ call'.next = call.next + 1
      /\ call.c \in Calls /\ Len(call.c.messages) \in Nat
      /\ call' \in [c : Calls \cup {Null}, next : Nat \ {0}]
  BY <1>1, CallIs DEF ArrayInv, CallTyped
<1>8. CallTyped'
  <2>1. (call.next <= Len(call.c.messages) + 1)'
    BY <1>1, <1>7
  <2> QED BY <1>1, <1>2, <1>3, <1>7, <2>1 DEF CallTyped
<1>9. LinesOwned'
  <2>1. OpenCall \in 1..OpenCall
    BY <1>2, SeqIs DEF OpenCall
  <2> SUFFICES ASSUME NEW n \in 1..new PROVE said'[n].call \in 1..OpenCall
    BY <1>3, <1>4 DEF LinesOwned
  <2>2. CASE n = new
    BY <1>3, <1>4, <2>1, <2>2
  <2>3. CASE n \in 1..Len(said)
    BY <1>2, <1>3, <2>3 DEF ArrayInv, LinesOwned
  <2> QED BY <1>2, <2>2, <2>3
<1>10. OpenLogged'
  <2>1. (Cardinality(Logged(OpenCall)) = call.next - 1)'
    <3>1. Cardinality(Logged(OpenCall)) = call.next - 1
      BY DEF ArrayInv, OpenLogged
    <3>2. Logged(OpenCall)' = LinesFrom(said', OpenCall)
      BY <1>4 DEF Logged, LinesFrom
    <3> QED BY <1>6, <1>7, <3>1, <3>2
  <2>2. (\A n \in Logged(OpenCall) : said[n].c = call.c)'
    <3>1. Logged(OpenCall)' = Logged(OpenCall) \cup {new}
      BY <1>4, <1>6 DEF Logged, LinesFrom
    <3>2. ASSUME NEW n \in Logged(OpenCall) PROVE said'[n].c = call'.c
      <4>1. n \in 1..Len(said)
        BY <1>2 DEF Logged
      <4> QED BY <1>3, <1>7, <4>1 DEF ArrayInv, OpenLogged
    <3>3. said'[new].c = call'.c
      BY <1>3, <1>4, <1>7
    <3> QED BY <3>1, <3>2, <3>3
  <2> QED BY <2>1, <2>2 DEF OpenLogged
<1>11. LinesNumbered'
  <2> SUFFICES ASSUME NEW n \in 1..new
               PROVE  said'[n].i = Cardinality(UpTo(said[n].call, n)')
    BY <1>3 DEF LinesNumbered
  <2>1. CASE n = new
    <3>1. said'[n].call = OpenCall /\ said'[n].i = call.next
      BY <1>3, <1>4, <2>1
    <3>2. UpTo(said[n].call, n)' = LinesFrom(said', OpenCall)
      BY <1>6, <2>1, <3>1 DEF UpTo, Logged, LinesFrom
    <3>3. Cardinality(LinesFrom(said', OpenCall)) = call.next
      BY <1>6, <1>7 DEF ArrayInv, OpenLogged
    <3> QED BY <3>1, <3>2, <3>3
  <2>2. CASE n \in 1..Len(said)
    <3>1. said'[n] = said[n] /\ n \in DOMAIN said
      BY <1>2, <1>3, <2>2
    <3>2. UpTo(said[n].call, n)' = UpTo(said[n].call, n)
      BY <1>6, <2>2, <3>1 DEF UpTo, Logged
    <3> QED BY <3>1, <3>2 DEF ArrayInv, LinesNumbered
  <2> QED BY <1>2, <2>1, <2>2
<1>12. ClosedLogged'
  <2> SUFFICES ASSUME NEW k \in DOMAIN results
               PROVE  /\ \A n \in Logged(k)' : said'[n].c = results[k].c
                      /\ results[k].end = "true"
                           <=> Cardinality(Logged(k)') = Len(results[k].c.messages)
    BY <1>1 DEF ClosedLogged, Logged
  <2>1. k # OpenCall
    BY <1>2, SeqIs DEF OpenCall
  <2>2. Logged(k)' = Logged(k)
    BY <1>6, <2>1
  <2>3. ASSUME NEW n \in Logged(k) PROVE said'[n].c = results[k].c
    <3>1. n \in 1..Len(said)
      BY <1>2 DEF Logged
    <3> QED BY <1>3, <3>1 DEF ArrayInv, ClosedLogged
  <2> QED BY <2>2, <2>3 DEF ArrayInv, ClosedLogged
<1> QED BY <1>8, <1>9, <1>10, <1>11, <1>12 DEF ArrayInv

\* A step that ends the call in progress: at the end of the array, and only
\* there, it returns TRUE.
LEMMA ReturnArray ==
  ASSUME NEW end, ArrayInv, ~IsIdle, Return(end), said' = said,
         end = "true" <=> ~AtMessage
  PROVE  ArrayInv'
<1> DEFINE result == [end |-> end, c |-> call.c]
<1>1. call' = Idle /\ results' = Append(results, result) /\ said' = said
  BY DEF Return
<1>2. /\ IsSeq(said) /\ IsSeq(results) /\ Len(results) \in Nat
      /\ DOMAIN results = 1..Len(results) /\ DOMAIN said = 1..Len(said)
  BY SeqIs DEF ArrayInv, CallTyped
<1>3. /\ IsSeq(results') /\ Len(results') = OpenCall /\ DOMAIN results' = 1..OpenCall
      /\ \A k \in 1..Len(results) : results'[k] = results[k]
      /\ results'[OpenCall] = result
  BY <1>1, <1>2, AppendIs DEF OpenCall
<1>4. result.end = end /\ result.c = call.c
  OBVIOUS
<1> HIDE DEF result
<1>5. OpenCall' = OpenCall + 1 /\ OpenCall \in Nat
  BY <1>2, <1>3 DEF OpenCall
<1>6. \A k : Logged(k)' = Logged(k)
  BY <1>1 DEF Logged
<1>7. CallTyped'
  BY <1>1, <1>2, <1>3 DEF CallTyped, Idle, IsIdle
<1>8. LinesOwned'
  BY <1>1, <1>5 DEF ArrayInv, LinesOwned
<1>9. OpenLogged'
  <2>1. Logged(OpenCall)' = {}
    BY <1>1, <1>5 DEF ArrayInv, LinesOwned, Logged
  <2> QED BY <1>1, <2>1, FS_EmptySet DEF OpenLogged, Idle
<1>10. LinesNumbered'
  BY <1>1 DEF ArrayInv, LinesNumbered, UpTo, Logged
<1>11. ClosedLogged'
  <2> DEFINE Closed(k) == /\ \A n \in Logged(k) : said[n].c = results[k].c
                          /\ results[k].end = "true"
                               <=> Cardinality(Logged(k)) = Len(results[k].c.messages)
  <2> SUFFICES ASSUME NEW k \in 1..OpenCall PROVE Closed(k)'
    BY <1>3 DEF ClosedLogged
  <2> SUFFICES /\ \A n \in Logged(k) : said[n].c = results'[k].c
               /\ results'[k].end = "true"
                    <=> Cardinality(Logged(k)) = Len(results'[k].c.messages)
    BY <1>1 DEF Logged
  <2>1. CASE k \in 1..Len(results)
    BY <1>2, <1>3, <2>1 DEF ArrayInv, ClosedLogged
  <2>2. CASE k = OpenCall
    <3>1. results'[k].end = end /\ results'[k].c = call.c
      BY <1>3, <1>4, <2>2
    <3>2. \A n \in Logged(k) : said[n].c = results'[k].c
      BY <2>2, <3>1 DEF ArrayInv, OpenLogged
    <3>3. /\ call.next \in Nat /\ Len(call.c.messages) \in Nat
          /\ call.next <= Len(call.c.messages) + 1
      BY CallIs DEF ArrayInv, CallTyped
    <3>4. Cardinality(Logged(k)) = call.next - 1
      BY <2>2 DEF ArrayInv, OpenLogged
    <3>5. AtMessage <=> call.next <= Len(call.c.messages)
      BY DEF AtMessage
    <3>6. end = "true" <=> Cardinality(Logged(k)) = Len(call.c.messages)
      BY <3>3, <3>4, <3>5
    <3> QED BY <3>1, <3>2, <3>6
  <2> QED BY <1>2, <2>1, <2>2 DEF OpenCall
<1> QED BY <1>7, <1>8, <1>9, <1>10, <1>11 DEF ArrayInv

\* All other steps leave the calls and their lines alone.
LEMMA SameArray ==
  ASSUME ArrayInv, UNCHANGED <<call, said, results>>
  PROVE  ArrayInv'
<1>1. /\ call' = call /\ said' = said /\ results' = results
      /\ OpenCall' = OpenCall /\ \A k : Logged(k)' = Logged(k)
  BY DEF OpenCall, Logged
<1>2. CallTyped'
  BY <1>1 DEF ArrayInv, CallTyped, IsIdle
<1>3. LinesOwned'
  BY <1>1 DEF ArrayInv, LinesOwned
<1>4. OpenLogged'
  BY <1>1 DEF ArrayInv, OpenLogged, OpenCall, Logged
<1>5. LinesNumbered'
  BY <1>1 DEF ArrayInv, LinesNumbered, UpTo, Logged
<1>6. ClosedLogged'
  BY <1>1 DEF ArrayInv, ClosedLogged, Logged
<1> QED BY <1>2, <1>3, <1>4, <1>5, <1>6 DEF ArrayInv

LEMMA ArrayNext == ArrayInv /\ [Next]_vars => ArrayInv'
<1> SUFFICES ASSUME ArrayInv, [Next]_vars PROVE ArrayInv'
  OBVIOUS
<1>1. ASSUME NEW s \in Servers, NextRequest(s) PROVE ArrayInv'
  BY <1>1, SameArray DEF NextRequest, written
<1>2. ASSUME NEW s \in Servers, OutOfMemory(s) \/ StrayArgument(s) PROVE ArrayInv'
  <2>1. AtMessage /\ ~IsIdle /\ (Return("killed") \/ Return("stray")) /\ said' = said
    BY <1>2 DEF OutOfMemory, StrayArgument, AtMessage, written
  <2> QED BY <2>1, ReturnArray
<1>3. ASSUME NEW new \in NewValues, SetRequestVariable(new[1], new[2]) PROVE ArrayInv'
  BY <1>3, SameArray DEF SetRequestVariable, written
<1>4. ASSUME NEW id \in NewIds, SetRequestID(id) PROVE ArrayInv'
  BY <1>4, SameArray DEF SetRequestID, written
<1>5. ASSUME NEW t \in Thresholds, SetThreshold(t) PROVE ArrayInv'
  BY <1>5, SameArray DEF SetThreshold, written
<1>6. ASSUME NEW c \in Calls, Log(c) PROVE ArrayInv'
  BY <1>6, LogArray
<1>7. ASSUME WriteOk PROVE ArrayInv'
  BY <1>7, WriteArray
<1>8. ASSUME WriteFail \/ Filtered PROVE ArrayInv'
  <2>1. AtMessage /\ ~IsIdle /\ Return("false") /\ said' = said
    BY <1>8 DEF WriteFail, Filtered, AtMessage, written
  <2> QED BY <2>1, ReturnArray
<1>9. ASSUME Done PROVE ArrayInv'
  <2>1. ~AtMessage /\ ~IsIdle /\ Return("true") /\ said' = said
    BY <1>9 DEF Done, written
  <2> QED BY <2>1, ReturnArray
<1>10. ASSUME UNCHANGED vars PROVE ArrayInv'
  BY <1>10, SameArray DEF vars, written
<1> QED BY <1>1, <1>2, <1>3, <1>4, <1>5, <1>6, <1>7, <1>8, <1>9, <1>10 DEF Next

\* For every set of calls, every template and every outcome of the writes: the
\* lines of a call that returned are the first messages of its array, each once
\* and in order, and it returned TRUE exactly when they are all of them
\* (seaslog_log_by_level_common_ex, seaslog_log_ex).
THEOREM ArrayHolds == Spec => []ArrayStops
<1>1. Spec => []ArrayInv
  BY ArrayInit, ArrayNext, PTL DEF Spec
<1> QED BY <1>1, ArrayInvImplies, PTL

\* A search that runs at the same time changes nothing of what is written: the
\* files and calls of LogSearch are those of LogText (get_detail).
THEOREM SearchWritesNothing == SearchSpec => Spec
<1>1. SearchInit => Init
  BY DEF SearchInit
<1>2. [SearchNext]_searchVars => [Next]_vars
  BY DEF SearchNext, searchVars, FirstPage, NextPage, LeaveSearch
<1> QED BY <1>1, <1>2, PTL DEF SearchSpec, Spec

-----------------------------------------------------------------------------
(* Replacements that do not end *)

KilledInv == CallTyped /\ KilledOnlyByBraces

\* The replacements in a message end unless a value has a brace.
LEMMA MessageEnds ==
  ASSUME CallTyped, AtMessage
  PROVE  /\ IsSeq(Message.text) /\ Message.ends \in BOOLEAN
         /\ ~Message.ends => \E pair \in Range(call.c.context) : HasBrace(pair.value)
<1> DEFINE m == call.c.messages[call.next]
           context == call.c.context
<1>1. call.c \in Calls /\ call.next \in 1..Len(call.c.messages)
  BY CallIs DEF CallTyped, AtMessage
<1>2. IsSeq(m) /\ Braces(m) <= MaxRounds /\ IsContext(context)
  BY <1>1, CallIs
<1>3. Message = StrtrArray(m, context)
  BY DEF Message
<1> HIDE DEF m, context
<1>4. /\ IsSeq(Message.text) /\ Message.ends \in BOOLEAN
      /\ (\A k \in 1..Len(context) : OpenBrace \notin Range(context[k].value)) => Message.ends
  BY <1>2, <1>3, StrtrArrayIs
<1>5. ASSUME NEW k \in 1..Len(context), OpenBrace \in Range(context[k].value)
      PROVE  \E pair \in Range(context) : HasBrace(pair.value)
  <2>1. context[k] \in Range(context)
    BY <1>2, RangeIs DEF IsContext
  <2> QED BY <1>5, <2>1 DEF HasBrace
<1> QED BY <1>4, <1>5 DEF context

\* A result more keeps the property if it has it.
LEMMA ResultMore ==
  ASSUME KilledInv, NEW end, Return(end),
         end = "killed" => \E pair \in Range(call.c.context) : HasBrace(pair.value)
  PROVE  KilledOnlyByBraces'
<1> DEFINE e == [end |-> end, c |-> call.c]
<1>1. IsSeq(results) /\ results' = Append(results, e)
  BY DEF KilledInv, CallTyped, Return
<1>2. e.end = end /\ e.c = call.c
  OBVIOUS
<1> HIDE DEF e
<1>3. /\ IsSeq(results') /\ Len(results') = Len(results) + 1 /\ Len(results) \in Nat
      /\ \A i \in 1..Len(results) : results'[i] = results[i]
      /\ results'[Len(results) + 1] = e
  BY <1>1, AppendIs, SeqIs
<1>4. ASSUME NEW i \in 1..(Len(results) + 1), results'[i].end = "killed"
      PROVE  \E pair \in Range(results'[i].c.context) : HasBrace(pair.value)
  <2>1. CASE i = Len(results) + 1
    BY <1>2, <1>3, <1>4, <2>1
  <2>2. CASE i # Len(results) + 1
    <3>1. i \in 1..Len(results) /\ results'[i] = results[i]
      BY <1>3, <2>2
    <3>2. results[i] \in Range(results)
      BY <1>1, <3>1, RangeIs
    <3> QED BY <1>4, <3>1, <3>2 DEF KilledInv, KilledOnlyByBraces
  <2> QED BY <2>1, <2>2
<1>5. Range(results') = {results'[i] : i \in 1..(Len(results) + 1)}
  BY <1>3, RangeIs
<1> QED BY <1>4, <1>5 DEF KilledOnlyByBraces

LEMMA KilledInit == Init => KilledOnlyByBraces
<1>1. Range(<< >>) = {}
  BY EmptyIsSeq, RangeIs
<1> QED BY <1>1 DEF Init, KilledOnlyByBraces

LEMMA KilledNext == KilledInv /\ [Next]_vars => KilledOnlyByBraces'
<1> SUFFICES ASSUME KilledInv, [Next]_vars PROVE KilledOnlyByBraces'
  OBVIOUS
<1>1. ASSUME results' = results PROVE KilledOnlyByBraces'
  BY <1>1 DEF KilledInv, KilledOnlyByBraces
<1>2. ASSUME NEW s \in Servers, OutOfMemory(s) PROVE KilledOnlyByBraces'
  <2>1. Return("killed") /\ \E pair \in Range(call.c.context) : HasBrace(pair.value)
    BY <1>2, MessageEnds DEF OutOfMemory, KilledInv
  <2> QED BY <2>1, ResultMore
<1>3. ASSUME WriteFail \/ Filtered \/ Done \/ \E s \in Servers : StrayArgument(s)
      PROVE  KilledOnlyByBraces'
  <2>1. Return("false") \/ Return("true") \/ Return("stray")
    BY <1>3 DEF WriteFail, Filtered, Done, StrayArgument
  <2> QED BY <2>1, ResultMore
<1>4. ASSUME \/ \E s \in Servers : NextRequest(s)
             \/ \E new \in NewValues : SetRequestVariable(new[1], new[2])
             \/ \E id \in NewIds : SetRequestID(id)
             \/ \E t \in Thresholds : SetThreshold(t)
             \/ \E c \in Calls : Log(c)
             \/ WriteOk \/ UNCHANGED vars
      PROVE  results' = results
  BY <1>4 DEF NextRequest, SetRequestVariable, SetRequestID, SetThreshold, Log, WriteOk, vars
<1> QED BY <1>1, <1>2, <1>3, <1>4 DEF Next

\* For all messages and contexts, as long as MaxRounds is no less than the
\* braces of a message: the replacements of str_replace end, and the request is
\* not killed in them, if no value of the context has a brace in it
\* (php_strtr_array, str_replace).
THEOREM KilledHolds == Spec => []KilledOnlyByBraces
<1>1. KilledOnlyByBraces /\ ArrayInv => KilledInv
  BY DEF ArrayInv, KilledInv
<1>2. Spec => []ArrayInv
  BY ArrayInit, ArrayNext, PTL DEF Spec
<1>3. ArrayInv /\ KilledOnlyByBraces /\ [Next]_vars => KilledOnlyByBraces'
  BY <1>1, KilledNext
<1> QED BY <1>2, <1>3, KilledInit, PTL DEF Spec

-----------------------------------------------------------------------------
(* The texts of a request *)

VariablesTyped(v) ==
  DOMAIN v = VariableKeys /\ \A k \in VariableKeys : v[k] = Null \/ IsSeq(v[k])

TextsInv ==
  /\ setting \in Settings /\ threshold \in Thresholds /\ server \in Servers
  /\ DOMAIN chosen \subseteq VariableKeys
  /\ VariablesTyped(variable)
  /\ IsSeq(requestId) /\ IsSeq(current)
  /\ levelTemplate = LevelTemplate(setting.template)

LEMMA RequestVariableTyped ==
  ASSUME NEW s \in Servers
  PROVE  VariablesTyped(RequestVariable(s))
<1> DEFINE Var(name) == IF name \in DOMAIN s.var THEN s.var[name] ELSE Null
           addresses == <<"HTTP_X_REAL_IP", "HTTP_X_FORWARDED_FOR", "REMOTE_ADDR">>
           there == {i \in 1..3 : addresses[i] \in DOMAIN s.var}
           address == IF there = {} THEN Null ELSE s.var[addresses[Min(there)]]
           v == RequestVariable(s)
<1>1. \A name \in DOMAIN s.var : IsSeq(s.var[name])
  BY ServersAssumption, TextIsSeq
<1>2. \A name : Var(name) = Null \/ IsSeq(Var(name))
  BY <1>1
<1>3. address = Null \/ IsSeq(address)
  <2>1. CASE there = {}
    BY <2>1
  <2>2. CASE there # {}
    <3>1. there \in SUBSET Nat
      OBVIOUS
    <3>2. Min(there) \in there
      <4> HIDE DEF there
      <4> QED BY <2>2, <3>1, Minimum
    <3>3. addresses[Min(there)] \in DOMAIN s.var
      BY <3>2
    <3> HIDE DEF addresses, there
    <3> QED BY <1>1, <2>2, <3>3
  <2> QED BY <2>1, <2>2
<1>4. v = IF s.cli
          THEN [D |-> <<"cli">>, R |-> Var("SCRIPT_NAME"), m |-> Var("SHELL"), I |-> <<"local">>]
          ELSE [D |-> Var("HTTP_HOST"), R |-> Var("REQUEST_URI"), m |-> Var("REQUEST_METHOD"),
                I |-> address]
  BY DEF RequestVariable
<1>5. IsSeq(<<"cli">>) /\ IsSeq(<<"local">>)
  BY OneIs
<1> HIDE DEF Var, address, v
<1>6. DOMAIN v = VariableKeys
  BY <1>4 DEF VariableKeys
<1>7. \A k \in VariableKeys : v[k] = Null \/ IsSeq(v[k])
  BY <1>2, <1>3, <1>4, <1>5 DEF VariableKeys
<1> QED BY <1>6, <1>7 DEF VariablesTyped, v

LEMMA SettingIs ==
  ASSUME setting \in Settings
  PROVE  IsSeq(setting.template) /\ setting.tcp \in BOOLEAN /\ setting.distingType \in BOOLEAN
BY SettingsAssumption, TextIsSeq

LEMMA RequestValuesAre ==
  ASSUME NEW v, VariablesTyped(v)
  PROVE  \A c \in DOMAIN RequestValues(v) : IsSeq(RequestValues(v)[c])
<1>1. IsSeq(Host) /\ IsSeq(Pid)
  BY TextsAssumption, TextIsSeq
<1>2. \A k \in VariableKeys : IsSeq(TextOf(v[k]))
  BY EmptyIsSeq DEF VariablesTyped, TextOf
<1>3. IsSeq(TextOf(v["D"])) /\ IsSeq(TextOf(v["R"])) /\ IsSeq(TextOf(v["m"])) /\ IsSeq(TextOf(v["I"]))
  BY <1>2 DEF VariableKeys
<1> QED BY <1>1, <1>3 DEF RequestValues

\* The template after its first pass is a text.
LEMMA FirstPassIs ==
  ASSUME setting \in Settings, NEW v, VariablesTyped(v)
  PROVE  IsSeq(Format(setting.template, RequestValues(v)))
BY SettingIs, RequestValuesAre, FormatIsSeq

LEMMA RequestInitTexts ==
  ASSUME setting \in Settings, threshold \in Thresholds, NEW s \in Servers, RequestInit(s),
         UNCHANGED <<setting, threshold>>
  PROVE  TextsInv'
<1>1. /\ server' = s /\ chosen' = << >> /\ variable' = RequestVariable(s) /\ requestId' = Uniqid
      /\ current' = Format(setting.template, RequestValues(variable'))
      /\ levelTemplate' = LevelTemplate(setting.template)
  BY DEF RequestInit
<1>2. VariablesTyped(variable')
  BY <1>1, RequestVariableTyped
<1>3. IsSeq(current')
  BY <1>1, <1>2, FirstPassIs
<1>4. IsSeq(requestId')
  BY <1>1, TextsAssumption, TextIsSeq
<1>5. DOMAIN chosen' \subseteq VariableKeys
  BY <1>1, EmptyIsSeq
<1> QED BY <1>1, <1>2, <1>3, <1>4, <1>5 DEF TextsInv, VariablesTyped

LEMMA TextsInit == Init => TextsInv
<1> SUFFICES ASSUME Init PROVE TextsInv
  OBVIOUS
<1>1. VariablesTyped(variable)
  BY RequestVariableTyped DEF Init
<1>2. IsSeq(current)
  BY <1>1, FirstPassIs DEF Init
<1>3. IsSeq(requestId)
  BY TextsAssumption, TextIsSeq DEF Init
<1>4. DOMAIN chosen \subseteq VariableKeys
  BY EmptyIsSeq DEF Init
<1> QED BY <1>1, <1>2, <1>3, <1>4 DEF Init, TextsInv

LEMMA TextsNext == TextsInv /\ [Next]_vars => TextsInv'
<1> SUFFICES ASSUME TextsInv, [Next]_vars PROVE TextsInv'
  OBVIOUS
<1>1. ASSUME UNCHANGED <<setting, threshold, request>> PROVE TextsInv'
  BY <1>1 DEF TextsInv, request, VariablesTyped
<1>2. ASSUME NEW s \in Servers, NextRequest(s) \/ OutOfMemory(s) \/ StrayArgument(s)
      PROVE  TextsInv'
  BY <1>2, RequestInitTexts DEF TextsInv, NextRequest, OutOfMemory, StrayArgument
<1>3. ASSUME NEW new \in NewValues, SetRequestVariable(new[1], new[2]) PROVE TextsInv'
  <2> DEFINE k == new[1]
             text == new[2]
  <2>1. k \in VariableKeys /\ IsSeq(text)
    BY NewValuesAssumption, TextIsSeq
  <2>2. /\ variable' = [variable EXCEPT ![k] = text]
        /\ chosen' = [j \in DOMAIN chosen \cup {k} |-> IF j = k THEN text ELSE chosen[j]]
        /\ current' = Format(setting.template, RequestValues(variable'))
        /\ UNCHANGED <<setting, threshold, server, requestId, levelTemplate>>
    BY <1>3 DEF SetRequestVariable
  <2> HIDE DEF k, text
  <2>3. VariablesTyped(variable')
    BY <2>1, <2>2 DEF TextsInv, VariablesTyped
  <2>4. IsSeq(current')
    BY <2>2, <2>3, FirstPassIs DEF TextsInv
  <2>5. DOMAIN chosen' \subseteq VariableKeys
    BY <2>1, <2>2 DEF TextsInv
  <2> QED BY <2>2, <2>3, <2>4, <2>5 DEF TextsInv, VariablesTyped
<1>4. ASSUME NEW id \in NewIds, SetRequestID(id) PROVE TextsInv'
  <2>1. IsSeq(id)
    BY TextsAssumption, TextIsSeq
  <2> QED BY <1>4, <2>1 DEF SetRequestID, TextsInv, VariablesTyped
<1>5. ASSUME NEW t \in Thresholds, SetThreshold(t) PROVE TextsInv'
  BY <1>5 DEF SetThreshold, TextsInv, request, VariablesTyped
<1>6. ASSUME \/ \E c \in Calls : Log(c)
             \/ WriteOk \/ WriteFail \/ Filtered \/ Done \/ UNCHANGED vars
      PROVE  UNCHANGED <<setting, threshold, request>>
  BY <1>6 DEF Log, WriteOk, WriteFail, Filtered, Done, vars, request
<1> QED BY <1>1, <1>2, <1>3, <1>4, <1>5, <1>6 DEF Next

-----------------------------------------------------------------------------
(* A line *)

LEMMA TripleIs ==
  ASSUME NEW x, NEW y, NEW z
  PROVE  IsSeq(<<x, y, z>>)
<1>1. <<x, y, z>> \in Seq({x, y, z})
  OBVIOUS
<1> QED BY <1>1 DEF IsSeq

LEMMA AmbientIs ==
  \A x \in DOMAIN Ambient : IsSeq(Ambient[x])
<1>1. ASSUME NEW x \in DOMAIN Ambient PROVE Ambient[x] \in Range(Ambient)
  BY DEF Range
<1> QED BY <1>1, TextsAssumption, TextIsSeq

LEMMA HeaderIs ==
  ASSUME NEW level, NEW v, VariablesTyped(v)
  PROVE  IsSeq(Header(level, v))
<1> DEFINE domain == IF v["D"] = Null THEN <<"(null)">> ELSE v["D"]
           t == Ambient["T"]
           sp == <<Space>>
<1>1. IsSeq(Priority(level))
  BY TripleIs, Zenon DEF Priority
<1>2. IsSeq(t)
  BY AmbientIs, AmbientAssumption
<1>3. IsSeq(Host) /\ IsSeq(Pid) /\ IsSeq(Logger)
  BY TextsAssumption, TextIsSeq
<1>4. IsSeq(sp)
  BY OneIs
<1>5. IsSeq(domain)
  <2>1. "D" \in VariableKeys
    BY DEF VariableKeys
  <2> QED BY <2>1, OneIs DEF VariablesTyped
<1>6. Header(level, v) = Priority(level) \o t \o sp \o Host \o sp \o domain \o sp \o Pid \o sp
                           \o Logger \o sp
  BY DEF Header
<1> HIDE DEF domain, t, sp
<1>7. IsSeq(Priority(level) \o t \o sp)
  BY <1>1, <1>2, <1>4, ConcatIs
<1>8. IsSeq(Priority(level) \o t \o sp \o Host \o sp)
  BY <1>3, <1>4, <1>7, ConcatIs
<1>9. IsSeq(Priority(level) \o t \o sp \o Host \o sp \o domain \o sp)
  BY <1>4, <1>5, <1>8, ConcatIs
<1>10. IsSeq(Priority(level) \o t \o sp \o Host \o sp \o domain \o sp \o Pid \o sp)
  BY <1>3, <1>4, <1>9, ConcatIs
<1>11. IsSeq(Priority(level) \o t \o sp \o Host \o sp \o domain \o sp \o Pid \o sp
               \o Logger \o sp)
  BY <1>3, <1>4, <1>10, ConcatIs
<1> QED BY <1>6, <1>11

LEMMA LineValuesAre ==
  ASSUME NEW level, NEW id, NEW text, IsSeq(id), IsSeq(text)
  PROVE  \A c \in DOMAIN LineValues(level, id, text) : IsSeq(LineValues(level, id, text)[c])
<1> DEFINE own == [M |-> text, L |-> <<level>>, Q |-> id, B |-> Base]
<1>1. IsSeq(<<level>>) /\ IsSeq(Base)
  BY OneIs, TextsAssumption, TextIsSeq
<1>2. \A c \in DOMAIN own : IsSeq(own[c])
  BY <1>1
<1>3. LineValues(level, id, text) = Extended(own, Ambient)
  BY DEF LineValues
<1> HIDE DEF own
<1> QED BY <1>2, <1>3, AmbientIs DEF Extended

\* What is written of a message is a text that ends a line.
LEMMA EntryIs ==
  ASSUME TextsInv, NEW text, IsSeq(text)
  PROVE  IsSeq(Entry(text)) /\ Len(Entry(text)) > 0 /\ Entry(text)[Len(Entry(text))] = Feed
<1> DEFINE head == IF setting.tcp THEN Header(call.c.level, variable) ELSE << >>
           body == Format(current, LineValues(call.c.level, requestId, text))
           end == <<Feed>>
<1>1. IsSeq(head)
  BY HeaderIs, EmptyIsSeq DEF TextsInv
<1>2. IsSeq(body)
  BY LineValuesAre, FormatIsSeq DEF TextsInv
<1>3. IsSeq(end) /\ Len(end) = 1 /\ end[1] = Feed
  BY OneIs
<1>4. Entry(text) = (head \o body) \o end
  BY DEF Entry
<1> DEFINE line == head \o body
<1> HIDE DEF head, body, end
<1>5. IsSeq(line) /\ Len(line) \in Nat
  BY <1>1, <1>2, ConcatIs, SeqIs
<1> HIDE DEF line
<1>9. IsSeq(line) /\ IsSeq(end)
  BY <1>3, <1>5
<1>6. /\ IsSeq(line \o end) /\ Len(line \o end) = Len(line) + Len(end)
      /\ \A i \in 1..Len(end) : (line \o end)[Len(line) + i] = end[i]
  BY <1>9, ConcatIs
<1>7. 1 \in 1..Len(end)
  BY <1>3
<1>8. (line \o end)[Len(line) + 1] = Feed
  BY <1>3, <1>6, <1>7
<1> QED BY <1>3, <1>4, <1>5, <1>6, <1>8 DEF line

-----------------------------------------------------------------------------
(* The files *)

\* The files are there that the settings name; the list of the newest has each
\* once, and every row is of a line.
Holds(p) ==
  \/ setting.tcp /\ p = Remote
  \/ ~setting.tcp /\ setting.distingType /\ p \in Levels
  \/ ~setting.tcp /\ ~setting.distingType /\ p = Shared

Distinct(s) == \A i, j \in 1..Len(s) : s[i] = s[j] => i = j

FilesInv ==
  /\ DOMAIN out = Places
  /\ \A p \in Places : IsSeq(out[p]) /\ (out[p] # << >> => Holds(p))
  /\ \A p \in Places : \A i \in 1..Len(out[p]) : out[p][i].line \in 1..Len(said)
  /\ IsSeq(recent) /\ Range(recent) = {p \in Places : out[p] # << >>}
  /\ Distinct(recent)

\* What is said is of a call of the script, and so is a result.
SayingsInv ==
  /\ \A n \in 1..Len(said) : said[n].c \in Calls /\ said[n].i \in DOMAIN said[n].c.messages
  /\ \A k \in 1..Len(results) :
       results[k].c \in Calls /\ results[k].end \in {"true", "false", "killed", "stray"}

LineInv == ArrayInv /\ TextsInv /\ FilesInv /\ SayingsInv

Rows == LinesOf(Entry(Trimmed(Message.text)))
NewRows == [r \in DOMAIN Rows |-> [line |-> Len(said) + 1, text |-> Rows[r]]]

LEMMA NewRowsAre ==
  ASSUME CallTyped, TextsInv, AtMessage
  PROVE  /\ IsSeq(NewRows) /\ Len(NewRows) > 0
         /\ \A i \in 1..Len(NewRows) : NewRows[i].line = Len(said) + 1
         /\ call.c \in Calls /\ call.next \in DOMAIN call.c.messages
         /\ Place \in Places /\ Holds(Place)
<1>1. IsSeq(Message.text)
  BY MessageEnds
<1>2. IsSeq(Trimmed(Message.text))
  BY <1>1, TrimmedIsSeq
<1>3. IsSeq(Rows) /\ Len(Rows) > 0
  BY <1>2, EntryIs, LinesOfIs DEF Rows
<1>4. Len(Rows) \in Nat /\ DOMAIN Rows = 1..Len(Rows)
  BY <1>3, SeqIs
<1> DEFINE new == NewRows
<1>5. new = [r \in 1..Len(Rows) |-> new[r]] /\ \A i \in 1..Len(Rows) : new[i].line = Len(said) + 1
  BY <1>4 DEF NewRows
<1> HIDE DEF new
<1>6. IsSeq(new) /\ Len(new) = Len(Rows)
  BY <1>4, <1>5, FunctionIs
<1>7. call.c \in Calls /\ call.next \in DOMAIN call.c.messages
  BY CallIs DEF CallTyped, AtMessage
<1>8. call.c.level \in Levels /\ setting.tcp \in BOOLEAN /\ setting.distingType \in BOOLEAN
  BY <1>7, CallsAssumption, SettingIs DEF TextsInv
<1>9. Place \in Places /\ Holds(Place)
  <2>1. CASE setting.tcp
    BY <2>1 DEF Place, Places, Holds
  <2>2. CASE ~setting.tcp /\ setting.distingType
    BY <1>8, <2>2 DEF Place, Places, Holds
  <2>3. CASE ~setting.tcp /\ ~setting.distingType
    BY <2>3 DEF Place, Places, Holds
  <2> QED BY <1>8, <2>1, <2>2, <2>3
<1> QED BY <1>3, <1>4, <1>5, <1>6, <1>7, <1>9 DEF new

\* A write adds rows to one file, and brings it to the front.
LEMMA WriteIs ==
  ASSUME CallTyped, TextsInv, FilesInv, WriteOk
  PROVE  /\ DOMAIN out' = Places
         /\ \A p \in Places \ {Place} : out'[p] = out[p]
         /\ out'[Place] = out[Place] \o NewRows
         /\ recent' = <<Place>> \o Kept(recent, {i \in 1..Len(recent) : recent[i] # Place})
         /\ said' = Append(said, [call |-> Len(results) + 1, c |-> call.c, i |-> call.next,
                                  server |-> server, chosen |-> chosen, id |-> requestId])
         /\ AtMessage /\ setting' = setting
<1>1. /\ out' = [out EXCEPT ![Place] = @ \o NewRows]
      /\ recent' = <<Place>> \o Kept(recent, {i \in 1..Len(recent) : recent[i] # Place})
      /\ said' = Append(said, [call |-> Len(results) + 1, c |-> call.c, i |-> call.next,
                               server |-> server, chosen |-> chosen, id |-> requestId])
      /\ AtMessage /\ setting' = setting
  BY DEF WriteOk, NewRows, Rows
<1>2. Place \in Places
  BY <1>1, NewRowsAre
<1>3. DOMAIN out = Places
  BY DEF FilesInv
<1> QED BY <1>1, <1>2, <1>3

\* The file that was written, in front of the others
InFront(x, s) == <<x>> \o Kept(s, {i \in 1..Len(s) : s[i] # x})

LEMMA FrontIs ==
  ASSUME NEW s, IsSeq(s), Distinct(s), NEW x
  PROVE  IsSeq(InFront(x, s)) /\ Range(InFront(x, s)) = Range(s) \cup {x} /\ Distinct(InFront(x, s))
<1> DEFINE S == {i \in 1..Len(s) : s[i] # x}
           k == Kept(s, S)
           one == <<x>>
           t == one \o k
<1>1. S \in SUBSET (1..Len(s)) /\ Len(s) \in Nat
  BY SeqIs
<1>2. IsSeq(one) /\ Len(one) = 1 /\ one[1] = x
  BY OneIs
<1>3. S \in SUBSET Nat /\ IsFiniteSet(S) /\ Cardinality(S) \in Nat
  <2> HIDE DEF S
  <2> QED BY <1>1, PlacesFinite
<1>4. /\ IsSeq(k) /\ Len(k) = Cardinality(S)
      /\ \A i \in 1..Cardinality(S) : k[i] = s[Nth(S, i)] /\ Nth(S, i) \in S
      /\ Range(k) = {s[i] : i \in S}
  <2> HIDE DEF S
  <2> QED BY <1>1, KeptIs
<1>5. \A i, j \in 1..Cardinality(S) : k[i] = k[j] => i = j
  <2> SUFFICES ASSUME NEW i \in 1..Cardinality(S), NEW j \in 1..Cardinality(S), k[i] = k[j]
               PROVE  i = j
    OBVIOUS
  <2>1. Nth(S, i) = Nth(S, j)
    BY <1>1, <1>4 DEF Distinct
  <2> HIDE DEF S
  <2>2. Rank(S, Nth(S, i)) = i /\ Rank(S, Nth(S, j)) = j
    BY <1>3, NthIs
  <2> QED BY <2>1, <2>2
<1>6. \A i \in 1..Cardinality(S) : k[i] # x
  BY <1>4
<1>7. Range(k) = Range(s) \ {x}
  <2>1. Range(s) = {s[i] : i \in 1..Len(s)}
    BY RangeIs
  <2>2. {s[i] : i \in S} = {s[i] : i \in 1..Len(s)} \ {x}
    OBVIOUS
  <2> QED BY <1>4, <2>1, <2>2
<1> HIDE DEF k, one, S
<1>8. /\ IsSeq(t) /\ Len(t) = 1 + Cardinality(S) /\ t[1] = x
      /\ \A i \in 1..Cardinality(S) : t[1 + i] = k[i]
  <2>3. IsSeq(one) /\ IsSeq(k)
    BY <1>2, <1>4
  <2>1. /\ IsSeq(t) /\ Len(t) = Len(one) + Len(k)
        /\ \A i \in 1..Len(one) : t[i] = one[i]
        /\ \A i \in 1..Len(k) : t[Len(one) + i] = k[i]
    BY <2>3, ConcatIs
  <2>2. 1 \in 1..Len(one)
    BY <1>2
  <2> HIDE DEF t
  <2> QED BY <1>2, <1>4, <2>1, <2>2
<1> HIDE DEF t
<1>9. \A i \in 1..Len(t) : i = 1 \/ \E j \in 1..Cardinality(S) : i = 1 + j
  <2> SUFFICES ASSUME NEW i \in 1..Len(t), i # 1 PROVE \E j \in 1..Cardinality(S) : i = 1 + j
    OBVIOUS
  <2>1. i - 1 \in 1..Cardinality(S) /\ i = 1 + (i - 1)
    BY <1>3, <1>8
  <2> QED BY <2>1
<1>10. Range(t) = Range(s) \cup {x}
  <2>1. Range(t) = {t[i] : i \in 1..Len(t)} /\ Range(k) = {k[i] : i \in 1..Cardinality(S)}
    BY <1>4, <1>8, RangeIs
  <2>2. \A i \in 1..Cardinality(S) : 1 + i \in 1..Len(t)
    BY <1>3, <1>8
  <2>3. 1 \in 1..Len(t)
    BY <1>3, <1>8
  <2>4. {t[i] : i \in 1..Len(t)} = {k[i] : i \in 1..Cardinality(S)} \cup {x}
    BY <1>8, <1>9, <2>2, <2>3
  <2> QED BY <1>7, <2>1, <2>4
<1>11. ASSUME NEW i \in 1..Len(t), NEW j \in 1..Len(t), t[i] = t[j] PROVE i = j
  BY <1>5, <1>6, <1>8, <1>9, <1>11
<1> QED BY <1>8, <1>10, <1>11 DEF t, k, one, S, InFront, Distinct
LEMMA WriteFiles ==
  ASSUME CallTyped, TextsInv, FilesInv, WriteOk
  PROVE  FilesInv'
<1>1. /\ DOMAIN out' = Places
      /\ \A p \in Places \ {Place} : out'[p] = out[p]
      /\ out'[Place] = out[Place] \o NewRows
      /\ recent' = <<Place>> \o Kept(recent, {i \in 1..Len(recent) : recent[i] # Place})
      /\ AtMessage /\ setting' = setting
  BY WriteIs
<1>2. /\ IsSeq(NewRows) /\ Len(NewRows) > 0
      /\ \A i \in 1..Len(NewRows) : NewRows[i].line = Len(said) + 1
      /\ Place \in Places /\ Holds(Place)
  BY <1>1, NewRowsAre
<1>3. IsSeq(said) /\ Len(said) \in Nat /\ Len(said') = Len(said) + 1
  BY AppendIs, SeqIs, WriteIs DEF CallTyped
<1>4. IsSeq(out[Place]) /\ Len(out[Place]) \in Nat /\ Len(NewRows) \in Nat
  BY <1>2, SeqIs DEF FilesInv
<1>5. /\ IsSeq(out'[Place]) /\ Len(out'[Place]) = Len(out[Place]) + Len(NewRows)
      /\ \A i \in 1..Len(out[Place]) : out'[Place][i] = out[Place][i]
      /\ \A i \in 1..Len(NewRows) : out'[Place][Len(out[Place]) + i] = NewRows[i]
  BY <1>1, <1>2, <1>4, ConcatIs
<1>6. out'[Place] # << >>
  BY <1>2, <1>4, <1>5, EmptyIsSeq
<1>7. ASSUME NEW p \in Places PROVE IsSeq(out'[p]) /\ (out'[p] # << >> => Holds(p)')
  <2>1. Holds(p)' <=> Holds(p)
    BY <1>1 DEF Holds
  <2> QED BY <1>1, <1>2, <1>5, <2>1 DEF FilesInv
<1>8. ASSUME NEW p \in Places, NEW i \in 1..Len(out'[p])
      PROVE  out'[p][i].line \in 1..Len(said')
  <2>1. CASE p # Place
    <3>1. out'[p] = out[p] /\ out[p][i].line \in 1..Len(said)
      BY <1>1, <2>1 DEF FilesInv
    <3> QED BY <1>3, <3>1
  <2>2. CASE p = Place /\ i \in 1..Len(out[Place])
    <3>1. out'[p][i] = out[p][i] /\ out[p][i].line \in 1..Len(said)
      BY <1>2, <1>5, <2>2 DEF FilesInv
    <3> QED BY <1>3, <3>1
  <2>3. CASE p = Place /\ i \notin 1..Len(out[Place])
    <3> DEFINE j == i - Len(out[Place])
    <3>1. j \in 1..Len(NewRows) /\ i = Len(out[Place]) + j
      BY <1>4, <1>5, <2>3
    <3> HIDE DEF j
    <3>2. out'[p][i].line = Len(said) + 1
      BY <1>2, <1>5, <2>3, <3>1
    <3> QED BY <1>3, <3>2
  <2> QED BY <2>1, <2>2, <2>3
<1>9. /\ IsSeq(recent') /\ Range(recent') = Range(recent) \cup {Place} /\ Distinct(recent')
  <2>1. IsSeq(recent) /\ Distinct(recent)
    BY DEF FilesInv
  <2>2. recent' = InFront(Place, recent)
    BY <1>1 DEF InFront
  <2> QED BY <2>1, <2>2, FrontIs
<1>10. Range(recent') = {p \in Places : out'[p] # << >>}
  <2>1. Range(recent) = {p \in Places : out[p] # << >>}
    BY DEF FilesInv
  <2>2. \A p \in Places : out'[p] # << >> <=> (out[p] # << >> \/ p = Place)
    BY <1>1, <1>6
  <2> QED BY <1>2, <1>9, <2>1, <2>2
<1> QED BY <1>1, <1>7, <1>8, <1>9, <1>10 DEF FilesInv

LEMMA FilesInit == Init => FilesInv
<1> SUFFICES ASSUME Init PROVE FilesInv
  OBVIOUS
<1>1. out = [p \in Places |-> << >>] /\ recent = << >>
  BY DEF Init
<1>2. IsSeq(<< >>) /\ Len(<< >>) = 0 /\ 1..0 = {} /\ Range(<< >>) = {}
  BY EmptyIsSeq, RangeIs
<1> QED BY <1>1, <1>2 DEF FilesInv, Distinct
LEMMA FilesNext == CallTyped /\ TextsInv /\ FilesInv /\ [Next]_vars => FilesInv'
<1> SUFFICES ASSUME CallTyped, TextsInv, FilesInv, [Next]_vars PROVE FilesInv'
  OBVIOUS
<1>1. CASE WriteOk
  BY <1>1, WriteFiles
<1>2. CASE UNCHANGED <<setting, written>>
  BY <1>2 DEF FilesInv, written, Holds
<1>3. WriteOk \/ UNCHANGED <<setting, written>>
  BY DEF Next, NextRequest, OutOfMemory, StrayArgument, SetRequestVariable, SetRequestID,
         SetThreshold, Log, WriteFail, Filtered, Done, vars
<1> QED BY <1>1, <1>2, <1>3

LEMMA SayingsInit == Init => SayingsInv
<1>1. Len(<< >>) = 0 /\ 1..0 = {}
  BY EmptyIsSeq
<1> QED BY <1>1 DEF Init, SayingsInv

LEMMA SayingsNext == CallTyped /\ TextsInv /\ FilesInv /\ SayingsInv /\ [Next]_vars => SayingsInv'
<1> SUFFICES ASSUME CallTyped, TextsInv, FilesInv, SayingsInv, [Next]_vars PROVE SayingsInv'
  OBVIOUS
<1>1. ASSUME NEW end \in {"true", "false", "killed", "stray"}, Return(end), ~IsIdle, said' = said
      PROVE  SayingsInv'
  <2> DEFINE e == [end |-> end, c |-> call.c]
  <2>1. IsSeq(results) /\ Len(results) \in Nat /\ results' = Append(results, e)
    BY <1>1, SeqIs DEF CallTyped, Return
  <2>2. e.end = end /\ e.c \in Calls
    BY <1>1 DEF CallTyped
  <2> HIDE DEF e
  <2>3. /\ Len(results') = Len(results) + 1
        /\ \A i \in 1..Len(results) : results'[i] = results[i]
        /\ results'[Len(results) + 1] = e
    BY <2>1, AppendIs
  <2>4. ASSUME NEW k \in 1..Len(results')
        PROVE  results'[k].c \in Calls /\ results'[k].end \in {"true", "false", "killed", "stray"}
    <3>1. CASE k = Len(results) + 1
      BY <1>1, <2>2, <2>3, <3>1
    <3>2. CASE k # Len(results) + 1
      <4>1. k \in 1..Len(results)
        BY <2>1, <2>3, <3>2
      <4> QED BY <2>3, <4>1 DEF SayingsInv
    <3> QED BY <3>1, <3>2
  <2> QED BY <1>1, <2>4 DEF SayingsInv
<1>2. CASE WriteOk
  <2> DEFINE e == [call |-> Len(results) + 1, c |-> call.c, i |-> call.next,
                   server |-> server, chosen |-> chosen, id |-> requestId]
  <2>1. IsSeq(said) /\ Len(said) \in Nat /\ said' = Append(said, e) /\ AtMessage
    BY <1>2, SeqIs, WriteIs DEF CallTyped
  <2>2. e.c \in Calls /\ e.i \in DOMAIN e.c.messages
    BY <2>1, NewRowsAre
  <2> HIDE DEF e
  <2>3. /\ Len(said') = Len(said) + 1
        /\ \A i \in 1..Len(said) : said'[i] = said[i]
        /\ said'[Len(said) + 1] = e
    BY <2>1, AppendIs
  <2>4. ASSUME NEW n \in 1..Len(said')
        PROVE  said'[n].c \in Calls /\ said'[n].i \in DOMAIN said'[n].c.messages
    <3>1. CASE n = Len(said) + 1
      BY <2>2, <2>3, <3>1
    <3>2. CASE n # Len(said) + 1
      <4>1. n \in 1..Len(said)
        BY <2>1, <2>3, <3>2
      <4> QED BY <2>3, <4>1 DEF SayingsInv
    <3> QED BY <3>1, <3>2
  <2>5. results' = results
    BY <1>2 DEF WriteOk
  <2> QED BY <2>4, <2>5 DEF SayingsInv
<1>3. CASE UNCHANGED <<said, results>>
  BY <1>3 DEF SayingsInv
<1>4. ASSUME NEW s \in Servers, OutOfMemory(s) \/ StrayArgument(s) PROVE SayingsInv'
  <2>1. (Return("killed") \/ Return("stray")) /\ ~IsIdle /\ said' = said
    BY <1>4 DEF OutOfMemory, StrayArgument, AtMessage, written
  <2> QED BY <1>1, <2>1
<1>5. ASSUME WriteFail \/ Filtered \/ Done PROVE SayingsInv'
  <2>1. (Return("false") \/ Return("true")) /\ ~IsIdle /\ said' = said
    BY <1>5 DEF WriteFail, Filtered, Done, AtMessage, written
  <2> QED BY <1>1, <2>1
<1>6. \/ \E s \in Servers : OutOfMemory(s) \/ StrayArgument(s)
      \/ WriteOk \/ WriteFail \/ Filtered \/ Done
      \/ UNCHANGED <<said, results>>
  BY DEF Next, NextRequest, SetRequestVariable, SetRequestID, SetThreshold, Log, vars, written
<1> QED BY <1>2, <1>3, <1>4, <1>5, <1>6

LEMMA LineInvImplies == LineInv => TypeOK
<1> SUFFICES ASSUME LineInv PROVE TypeOK
  OBVIOUS
<1>1. /\ setting \in Settings /\ threshold \in Thresholds /\ server \in Servers
      /\ DOMAIN chosen \subseteq VariableKeys /\ DOMAIN variable = VariableKeys
  BY DEF LineInv, TextsInv, VariablesTyped
<1>2. IsIdle \/ (call.c \in Calls /\ call.next \in 1..(Len(call.c.messages) + 1))
  <2> SUFFICES ASSUME ~IsIdle
               PROVE  call.c \in Calls /\ call.next \in 1..(Len(call.c.messages) + 1)
    OBVIOUS
  <2>1. /\ call.c \in Calls /\ call.next \in Nat \ {0}
        /\ call.next <= Len(call.c.messages) + 1
    BY DEF LineInv, ArrayInv, CallTyped
  <2>2. Len(call.c.messages) \in Nat
    BY <2>1, CallIs
  <2> QED BY <2>1, <2>2
<1>3. IsSeq(said) /\ IsSeq(results) /\ DOMAIN said = 1..Len(said)
  BY SeqIs DEF LineInv, ArrayInv, CallTyped
<1>4. \A p \in Places : \A r \in Range(out[p]) : r.line \in DOMAIN said
  <2>1. \A p \in Places : Range(out[p]) = {out[p][i] : i \in 1..Len(out[p])}
    BY RangeIs DEF LineInv, FilesInv
  <2> QED BY <1>3, <2>1 DEF LineInv, FilesInv
<1>5. \A s \in Range(said) : s.c \in Calls /\ s.i \in DOMAIN s.c.messages
  BY <1>3, RangeIs DEF LineInv, SayingsInv
<1>6. \A r \in Range(results) : r.c \in Calls /\ r.end \in {"true", "false", "killed", "stray"}
  BY <1>3, RangeIs DEF LineInv, SayingsInv
<1>7. \A p \in Places : p \in Range(recent) <=> out[p] # << >>
  BY DEF LineInv, FilesInv
<1> QED BY <1>1, <1>2, <1>4, <1>5, <1>6, <1>7 DEF TypeOK

LEMMA LineHolds == Spec => []LineInv
<1>1. Init => LineInv
  BY ArrayInit, TextsInit, FilesInit, SayingsInit DEF LineInv
<1>2. LineInv /\ [Next]_vars => LineInv'
  <2>1. LineInv => CallTyped
    BY DEF LineInv, ArrayInv
  <2> QED BY <2>1, ArrayNext, TextsNext, FilesNext, SayingsNext DEF LineInv
<1> QED BY <1>1, <1>2, PTL DEF Spec

\* For all templates, servers, settings and calls: every row in a file is of a
\* line that was logged, every line of a message of its call, and the files
\* that ls finds are those that have been written (seaslog_log_ex).
THEOREM TypeCorrect == Spec => []TypeOK
BY LineHolds, LineInvImplies, PTL

-----------------------------------------------------------------------------
(* The rest of a text *)

Rest(t, k) == [i \in 1..(Len(t) - k) |-> t[k + i]]

\* How long a rest is, and what is in it
LEMMA RestIs ==
  ASSUME NEW t, IsSeq(t), NEW k \in 0..Len(t)
  PROVE  /\ IsSeq(Rest(t, k)) /\ Len(Rest(t, k)) = Len(t) - k
         /\ \A i \in 1..(Len(t) - k) : Rest(t, k)[i] = t[k + i]
<1> DEFINE n == Len(t) - k
           r == Rest(t, k)
<1>1. n \in Nat
  BY SeqIs
<1>2. r = [i \in 1..n |-> r[i]] /\ \A i \in 1..n : r[i] = t[k + i]
  BY DEF Rest
<1> HIDE DEF r
<1>3. IsSeq(r) /\ Len(r) = n
  <2> HIDE DEF n
  <2> QED BY <1>1, <1>2, FunctionIs
<1> QED BY <1>2, <1>3 DEF r

\* Concatenation is associative, for texts of any tokens.
LEMMA ConcatThree ==
  ASSUME NEW s, NEW t, NEW u, IsSeq(s), IsSeq(t), IsSeq(u)
  PROVE  (s \o t) \o u = s \o (t \o u)
<1>1. PICK S : s \in Seq(S) /\ t \in Seq(S)
  BY BothAreSeq
<1>2. PICK T : u \in Seq(T)
  BY DEF IsSeq
<1> DEFINE U == S \cup T
<1>3. s \in Seq(U) /\ t \in Seq(U) /\ u \in Seq(U)
  BY <1>1, <1>2, SeqMonotonic
<1> HIDE DEF U
<1> QED BY <1>3, ConcatAssociative

\* A sequence is its first part and the rest.
LEMMA SplitIs ==
  ASSUME NEW p, NEW t, IsSeq(p), IsSeq(t), Len(p) <= Len(t), \A i \in 1..Len(p) : p[i] = t[i]
  PROVE  t = p \o Rest(t, Len(p)) /\ IsSeq(Rest(t, Len(p))) /\ Len(Rest(t, Len(p))) = Len(t) - Len(p)
<1> DEFINE r == Rest(t, Len(p))
           s == p \o r
<1>1. Len(p) \in Nat /\ Len(t) \in Nat /\ Len(p) \in 0..Len(t)
  BY SeqIs
<1>2. /\ IsSeq(r) /\ Len(r) = Len(t) - Len(p)
      /\ \A i \in 1..(Len(t) - Len(p)) : r[i] = t[Len(p) + i]
  BY <1>1, RestIs
<1> HIDE DEF r
<1>3. /\ IsSeq(s) /\ Len(s) = Len(p) + Len(r)
      /\ \A i \in 1..Len(p) : s[i] = p[i]
      /\ \A i \in 1..Len(r) : s[Len(p) + i] = r[i]
  BY <1>2, ConcatIs
<1> HIDE DEF s
<1>4. ASSUME NEW i \in 1..Len(t) PROVE t[i] = s[i]
  <2>1. CASE i <= Len(p)
    <3>1. i \in 1..Len(p)
      BY <1>1, <2>1
    <3> QED BY <1>3, <3>1
  <2>2. CASE ~(i <= Len(p))
    <3> DEFINE j == i - Len(p)
    <3>1. j \in 1..Len(r) /\ Len(p) + j = i
      BY <1>1, <1>2, <2>2
    <3> HIDE DEF j
    <3> QED BY <1>2, <1>3, <3>1
  <2> QED BY <2>1, <2>2
<1>5. Len(t) = Len(s)
  BY <1>1, <1>2, <1>3
<1>6. t = s
  BY <1>3, <1>4, <1>5, SeqsEqual
<1> QED BY <1>2, <1>6 DEF s, r

\* A text that is not empty is its first character and the rest.
LEMMA FirstIs ==
  ASSUME NEW t, IsSeq(t), t # << >>
  PROVE  t = <<t[1]>> \o Rest(t, 1) /\ IsSeq(Rest(t, 1)) /\ Len(Rest(t, 1)) = Len(t) - 1
         /\ Len(t) \in Nat \ {0}
<1>1. Len(t) \in Nat
  BY SeqIs
<1>2. Len(t) # 0
  <2> SUFFICES ASSUME Len(t) = 0 PROVE FALSE
    OBVIOUS
  <2>1. \A i \in 1..Len(t) : t[i] = << >>[i]
    BY <1>1
  <2> QED BY <2>1, EmptyIsSeq, SeqsEqual
<1>3. IsSeq(<<t[1]>>) /\ Len(<<t[1]>>) = 1 /\ <<t[1]>>[1] = t[1]
  BY OneIs
<1>4. Len(<<t[1]>>) <= Len(t) /\ \A i \in 1..Len(<<t[1]>>) : <<t[1]>>[i] = t[i]
  BY <1>1, <1>2, <1>3
<1> QED BY <1>1, <1>2, <1>3, <1>4, SplitIs

\* What is behind a first part is the rest.
LEMMA RestOfConcat ==
  ASSUME NEW p, NEW r, IsSeq(p), IsSeq(r)
  PROVE  Rest(p \o r, Len(p)) = r
<1> DEFINE t == p \o r
           s == Rest(t, Len(p))
<1>1. /\ IsSeq(t) /\ Len(t) = Len(p) + Len(r)
      /\ \A i \in 1..Len(r) : t[Len(p) + i] = r[i]
  BY ConcatIs
<1>2. Len(p) \in Nat /\ Len(r) \in Nat
  BY SeqIs
<1> HIDE DEF t
<1>3. Len(p) \in 0..Len(t) /\ Len(t) - Len(p) = Len(r)
  BY <1>1, <1>2
<1>4. /\ IsSeq(s) /\ Len(s) = Len(r)
      /\ \A i \in 1..Len(r) : s[i] = t[Len(p) + i]
  BY <1>1, <1>3, RestIs
<1>5. s = r
  <2> HIDE DEF s
  <2> QED BY <1>1, <1>4, SeqsEqual
<1> QED BY <1>5 DEF t

\* Equal beginnings can be taken away.
LEMMA ConcatCancel ==
  ASSUME NEW p, NEW q, NEW r, NEW s, IsSeq(p), IsSeq(q), IsSeq(r), IsSeq(s),
         Len(p) = Len(q), p \o r = q \o s
  PROVE  p = q /\ r = s
<1>1. r = s
  BY RestOfConcat
<1>2. \A i \in 1..Len(p) : p[i] = q[i]
  BY ConcatIs
<1> QED BY <1>1, <1>2, SeqsEqual

\* One character in front of a text
LEMMA OneThenIs ==
  ASSUME NEW c, NEW t, IsSeq(t)
  PROVE  /\ IsSeq(<<c>> \o t) /\ Len(<<c>> \o t) = Len(t) + 1 /\ <<c>> \o t # << >>
         /\ (<<c>> \o t)[1] = c /\ Rest(<<c>> \o t, 1) = t
         /\ \A i \in 1..Len(t) : (<<c>> \o t)[i + 1] = t[i]
<1> DEFINE s == <<c>> \o t
<1>1. IsSeq(<<c>>) /\ Len(<<c>>) = 1 /\ <<c>>[1] = c
  BY OneIs
<1>2. Len(t) \in Nat
  BY SeqIs
<1>3. /\ IsSeq(s) /\ Len(s) = 1 + Len(t)
      /\ \A i \in 1..1 : s[i] = <<c>>[i]
      /\ \A i \in 1..Len(t) : s[1 + i] = t[i]
  BY <1>1, ConcatIs
<1>4. Rest(s, 1) = t
  BY <1>1, RestOfConcat
<1> HIDE DEF s
<1>5. 1 \in 1..1 /\ Len(s) = Len(t) + 1 /\ s # << >>
  BY <1>2, <1>3, EmptyIsSeq
<1>6. \A i \in 1..Len(t) : s[i + 1] = t[i]
  BY <1>2, <1>3
<1> QED BY <1>1, <1>3, <1>4, <1>5, <1>6 DEF s

\* The rest of a rest is a rest.
LEMMA RestOfRest ==
  ASSUME NEW t, IsSeq(t), NEW j \in Nat, NEW k \in Nat, j + k <= Len(t)
  PROVE  Rest(Rest(t, j), k) = Rest(t, j + k)
<1> DEFINE r == Rest(t, j)
           a == Rest(r, k)
           b == Rest(t, j + k)
<1>1. Len(t) \in Nat /\ j \in 0..Len(t) /\ j + k \in 0..Len(t)
  BY SeqIs
<1>2. /\ IsSeq(r) /\ Len(r) = Len(t) - j
      /\ \A i \in 1..(Len(t) - j) : r[i] = t[j + i]
  BY <1>1, RestIs
<1> HIDE DEF r
<1>3. k \in 0..Len(r) /\ Len(r) - k = Len(t) - (j + k)
  BY <1>1, <1>2
<1>4. /\ IsSeq(a) /\ Len(a) = Len(t) - (j + k)
      /\ \A i \in 1..(Len(t) - (j + k)) : a[i] = r[k + i]
  BY <1>2, <1>3, RestIs
<1>5. /\ IsSeq(b) /\ Len(b) = Len(t) - (j + k)
      /\ \A i \in 1..(Len(t) - (j + k)) : b[i] = t[(j + k) + i]
  BY <1>1, RestIs
<1> HIDE DEF a, b
<1>6. ASSUME NEW i \in 1..Len(a) PROVE a[i] = b[i]
  <2>1. i \in 1..(Len(t) - (j + k)) /\ k + i \in 1..(Len(t) - j) /\ j + (k + i) = (j + k) + i
    BY <1>1, <1>4
  <2> QED BY <1>2, <1>4, <1>5, <2>1
<1>7. a = b
  BY <1>4, <1>5, <1>6, SeqsEqual
<1> QED BY <1>7 DEF a, b, r

-----------------------------------------------------------------------------
(* A pass of the formatter, from the start of a template *)

Table(F, fmt) == \A i \in 1..(Len(fmt) + 1) : F[i] = FormatChar(fmt, F, i)

\* The recursion over a template has a result.
LEMMA TableThere ==
  ASSUME NEW fmt, IsSeq(fmt)
  PROVE  \E F : Items(fmt) = F[1] /\ Table(F, fmt)
<1> DEFINE F == CHOOSE f : f = [i \in 1..(Len(fmt) + 1) |-> FormatChar(fmt, f, i)]
<1>1. Items(fmt) = F[1]
  BY DEF Items, FormatChar
<1>2. F = [i \in 1..(Len(fmt) + 1) |-> FormatChar(fmt, F, i)]
  BY ItemsThere
<1> HIDE DEF F
<1>3. Table(F, fmt)
  BY <1>2 DEF Table
<1> QED BY <1>1, <1>3

\* What the items are from a place on does not depend on what is before it.
LEMMA TableShift ==
  ASSUME NEW fmt, IsSeq(fmt), NEW k \in 0..Len(fmt), NEW F, NEW H,
         Table(F, fmt), Table(H, Rest(fmt, k))
  PROVE  F[k + 1] = H[1]
<1> DEFINE r == Rest(fmt, k)
           n == Len(fmt)
           l == Len(fmt) - k
           G == {m \in Nat : m <= l => F[n + 1 - m] = H[l + 1 - m]}
<1>1. /\ n \in Nat /\ k \in Nat /\ l \in Nat /\ IsSeq(r) /\ Len(r) = l /\ n = k + l
      /\ \A i \in 1..l : r[i] = fmt[k + i]
  BY SeqIs, RestIs
<1>2. /\ \A i \in 1..(n + 1) : F[i] = FormatChar(fmt, F, i)
      /\ \A i \in 1..(l + 1) : H[i] = FormatChar(r, H, i)
  BY <1>1 DEF Table
<1>0. Len(fmt) = n
  OBVIOUS
<1> HIDE DEF n, l, r
<1>3. ASSUME NEW m \in Nat, \A j \in Nat : j < m => j \in G PROVE m \in G
  <2> SUFFICES ASSUME m <= l PROVE F[n + 1 - m] = H[l + 1 - m]
    OBVIOUS
  <2> DEFINE i == n + 1 - m
             j == l + 1 - m
  <2>1. /\ i \in 1..(n + 1) /\ j \in 1..(l + 1) /\ i = k + j
        /\ (i = n + 1 <=> j = l + 1) /\ (i <= n <=> j <= l) /\ (i = n <=> j = l) /\ (i < n <=> j < l)
    BY <1>1
  <2>2. F[i] = FormatChar(fmt, F, i) /\ H[j] = FormatChar(r, H, j)
    BY <1>2, <2>1
  <2>3. i <= n => r[j] = fmt[i]
    BY <1>1, <2>1
  <2>4. i < n => r[j + 1] = fmt[i + 1]
    <3>1. i < n => j + 1 \in 1..l /\ k + (j + 1) = i + 1
      BY <1>1, <2>1
    <3> HIDE DEF i, j
    <3> QED BY <1>1, <3>1
  <2>5. i <= n => F[i + 1] = H[j + 1]
    <3>1. i <= n => m - 1 \in Nat /\ m - 1 < m /\ m - 1 <= l /\ n + 1 - (m - 1) = i + 1
                    /\ l + 1 - (m - 1) = j + 1
      BY <1>1
    <3> QED BY <1>3, <3>1
  <2>6. i < n => F[i + 2] = H[j + 2]
    <3>1. i < n => m - 2 \in Nat /\ m - 2 < m /\ m - 2 <= l /\ n + 1 - (m - 2) = i + 2
                    /\ l + 1 - (m - 2) = j + 2
      BY <1>1
    <3> QED BY <1>3, <3>1
  <2>7. /\ Len(fmt) \in Nat /\ i \in 1..(Len(fmt) + 1) /\ Len(fmt) = n
        /\ Len(r) \in Nat /\ j \in 1..(Len(r) + 1) /\ Len(r) = l
    BY <1>0, <1>1, <2>1
  <2> HIDE DEF i, j
  <2>8. CASE i = n + 1
    <3>1. F[i] = << >> /\ H[j] = << >>
      BY <2>1, <2>2, <2>7, <2>8, FormatCharIs
    <3> QED BY <3>1 DEF i, j
  <2>9. CASE i <= n /\ fmt[i] # "%"
    <3>1. F[i] = <<Literal(fmt[i])>> \o F[i + 1]
      BY <2>2, <2>7, <2>9, FormatCharIs
    <3>2. H[j] = <<Literal(r[j])>> \o H[j + 1]
      BY <2>1, <2>2, <2>3, <2>7, <2>9, FormatCharIs
    <3> QED BY <2>3, <2>5, <2>9, <3>1, <3>2 DEF i, j
  <2>10. CASE i = n /\ fmt[i] = "%"
    <3>1. F[i] = << >>
      BY <2>2, <2>7, <2>10, FormatCharIs
    <3>2. i <= n
      BY <1>1, <2>10
    <3>3. H[j] = << >>
      BY <2>1, <2>2, <2>3, <2>7, <2>10, <3>2, FormatCharIs
    <3> QED BY <3>1, <3>3 DEF i, j
  <2>11. CASE i < n /\ fmt[i] = "%"
    <3>1. F[i] = <<Specifier(fmt[i + 1])>> \o F[i + 2]
      BY <2>2, <2>7, <2>11, FormatCharIs
    <3>2. i <= n
      BY <1>1, <2>7, <2>11
    <3>4. j < Len(r) /\ r[j] = "%"
      BY <2>1, <2>3, <2>7, <2>11, <3>2
    <3>3. H[j] = <<Specifier(r[j + 1])>> \o H[j + 2]
      BY <2>2, <2>7, <3>4, FormatCharIs
    <3> QED BY <2>4, <2>6, <2>11, <3>1, <3>3 DEF i, j
  <2>12. i = n + 1 \/ (i <= n /\ fmt[i] # "%") \/ (i = n /\ fmt[i] = "%") \/ (i < n /\ fmt[i] = "%")
    BY <1>1, <2>1
  <2> QED BY <2>8, <2>9, <2>10, <2>11, <2>12
<1> HIDE DEF G
<1>4. Nat \subseteq G
  BY <1>3, AllNumbers
<1>5. l \in G /\ n + 1 - l = k + 1 /\ l + 1 - l = 1
  BY <1>1, <1>4
<1> QED BY <1>1, <1>5 DEF G

\* A template is read one specifier or character after the other.
LEMMA ItemsAre ==
  ASSUME NEW fmt, IsSeq(fmt)
  PROVE  /\ fmt = << >> => Items(fmt) = << >>
         /\ fmt # << >> /\ fmt[1] # "%"
              => Items(fmt) = <<Literal(fmt[1])>> \o Items(Rest(fmt, 1))
         /\ Len(fmt) = 1 /\ fmt[1] = "%" => Items(fmt) = << >>
         /\ Len(fmt) > 1 /\ fmt[1] = "%"
              => Items(fmt) = <<Specifier(fmt[2])>> \o Items(Rest(fmt, 2))
<1>1. PICK F : Items(fmt) = F[1] /\ Table(F, fmt)
  BY TableThere
<1>2. Len(fmt) \in Nat /\ (fmt = << >> <=> Len(fmt) = 0)
  BY SeqIs, FirstIs, EmptyIsSeq
<1>3. 1 \in 1..(Len(fmt) + 1) /\ F[1] = FormatChar(fmt, F, 1)
  BY <1>1, <1>2 DEF Table
<1>4. ASSUME NEW k \in 0..Len(fmt) PROVE F[k + 1] = Items(Rest(fmt, k))
  <2>1. IsSeq(Rest(fmt, k))
    BY RestIs
  <2>2. PICK H : Items(Rest(fmt, k)) = H[1] /\ Table(H, Rest(fmt, k))
    BY <2>1, TableThere
  <2> QED BY <1>1, <2>2, TableShift
<1>5. ASSUME fmt = << >> PROVE Items(fmt) = << >>
  <2>1. 1 = Len(fmt) + 1
    BY <1>2, <1>5
  <2>2. FormatChar(fmt, F, 1) = << >>
    BY <1>2, <1>3, <2>1, FormatCharIs
  <2> QED BY <1>1, <1>3, <2>2
<1>6. ASSUME fmt # << >>, fmt[1] # "%" PROVE Items(fmt) = <<Literal(fmt[1])>> \o Items(Rest(fmt, 1))
  <2>1. 1 <= Len(fmt) /\ 1 \in 0..Len(fmt)
    BY <1>2, <1>6
  <2>2. F[1] = <<Literal(fmt[1])>> \o F[1 + 1]
    BY <1>2, <1>3, <1>6, <2>1, FormatCharIs
  <2> QED BY <1>1, <1>4, <2>1, <2>2
<1>7. Len(fmt) = 1 /\ fmt[1] = "%" => Items(fmt) = << >>
  BY <1>1, <1>2, <1>3, FormatCharIs
<1>8. ASSUME Len(fmt) > 1, fmt[1] = "%" PROVE Items(fmt) = <<Specifier(fmt[2])>> \o Items(Rest(fmt, 2))
  <2>1. 1 < Len(fmt) /\ 2 \in 0..Len(fmt) /\ 1 + 1 = 2 /\ 1 + 2 = 2 + 1
    BY <1>2, <1>8
  <2>2. F[1] = <<Specifier(fmt[1 + 1])>> \o F[1 + 2]
    <3> DEFINE i == 1
    <3>1. i \in 1..(Len(fmt) + 1) /\ i < Len(fmt) /\ fmt[i] = "%" /\ F[i] = FormatChar(fmt, F, i)
      BY <1>3, <1>8, <2>1
    <3> HIDE DEF i
    <3>2. F[i] = <<Specifier(fmt[i + 1])>> \o F[i + 2]
      BY <1>2, <3>1, FormatCharIs
    <3> QED BY <3>2 DEF i
  <2>3. F[2 + 1] = Items(Rest(fmt, 2))
    BY <1>4, <2>1
  <2> QED BY <1>1, <2>1, <2>2, <2>3
<1> QED BY <1>5, <1>6, <1>7, <1>8

\* The first of several sequences comes first.
LEMMA FlattenFirst ==
  ASSUME NEW s, AreSeqs(s), s # << >>
  PROVE  /\ FlattenSeq(s) = s[1] \o FlattenSeq(Rest(s, 1))
         /\ AreSeqs(Rest(s, 1)) /\ IsSeq(s[1]) /\ IsSeq(FlattenSeq(Rest(s, 1)))
<1> DEFINE r == Rest(s, 1)
           n == Len(r)
<1>1. IsSeq(s) /\ \A i \in 1..Len(s) : IsSeq(s[i])
  BY DEF AreSeqs
<1>2. IsSeq(r) /\ Len(r) = Len(s) - 1 /\ Len(s) \in Nat \ {0}
  BY <1>1, FirstIs
<1>3. \A i \in 1..(Len(s) - 1) : r[i] = s[1 + i]
  <2>1. 1 \in 0..Len(s)
    BY <1>2
  <2> QED BY <1>1, <2>1, RestIs
<1> HIDE DEF r
<1>4. n \in Nat /\ Len(s) = n + 1 /\ Len(r) = n
  BY <1>2
<1> HIDE DEF n
<1>5. \A i \in 1..n : r[i] = s[i + 1] /\ i + 1 \in 1..Len(s)
  BY <1>3, <1>4
<1>6. AreSeqs(r)
  BY <1>1, <1>2, <1>4, <1>5 DEF AreSeqs
<1>7. 1 \in 1..Len(s) /\ IsSeq(s[1])
  BY <1>1, <1>4
<1>8. PICK g : Joined(g, s) /\ FlattenSeq(s) = g[Len(s)]
  BY FlattenIs
<1>9. PICK h : Joined(h, r) /\ FlattenSeq(r) = h[Len(r)]
  BY <1>6, FlattenIs
<1> DEFINE G == {i \in 0..n : g[i + 1] = s[1] \o h[i]}
<1>10. 0 \in G
  <2>1. g[0] = << >> /\ h[0] = << >>
    BY <1>8, <1>9 DEF Joined
  <2>2. 1 - 1 = 0 /\ 0 + 1 = 1 /\ 0 \in 0..n
    BY <1>4
  <2>3. g[1] = g[0] \o s[1]
    BY <1>7, <1>8, <2>2 DEF Joined
  <2>4. g[0 + 1] = s[1] \o h[0]
    BY <1>7, <2>1, <2>2, <2>3, ConcatEmpty
  <2> QED BY <2>2, <2>4
<1>11. ASSUME NEW i \in 1..n, i - 1 \in G PROVE i \in G
  <2>1. i + 1 \in 1..Len(s) /\ (i + 1) - 1 = i /\ (i - 1) + 1 = i /\ i \in 1..Len(r) /\ i - 1 \in 0..Len(r)
    BY <1>4
  <2>2. g[i + 1] = g[i] \o s[i + 1] /\ h[i] = h[i - 1] \o r[i] /\ IsSeq(h[i - 1])
    BY <1>8, <1>9, <2>1 DEF Joined
  <2>3. g[i] = s[1] \o h[i - 1]
    BY <1>11, <2>1
  <2>4. IsSeq(r[i]) /\ r[i] = s[i + 1]
    BY <1>5, <1>6, <2>1 DEF AreSeqs
  <2> DEFINE a == s[1]
             b == h[i - 1]
             c == r[i]
  <2>5. IsSeq(a) /\ IsSeq(b) /\ IsSeq(c) /\ h[i] = b \o c /\ g[i + 1] = (a \o b) \o c
    BY <1>7, <2>2, <2>3, <2>4
  <2>6. g[i + 1] = s[1] \o h[i]
    <3> HIDE DEF a, b, c, G
    <3>1. g[i + 1] = a \o h[i]
      BY <2>5, ConcatThree
    <3> QED BY <3>1 DEF a
  <2>7. i \in 0..n
    BY <1>4
  <2> HIDE DEF a, b, c
  <2> QED BY <2>6, <2>7
<1> HIDE DEF G
<1>12. 0..n \subseteq G
  BY <1>4, <1>10, <1>11, NumbersUpTo
<1>13. n \in G /\ n \in 0..n
  BY <1>4, <1>12
<1>14. FlattenSeq(s) = s[1] \o FlattenSeq(r)
  BY <1>4, <1>8, <1>9, <1>13 DEF G
<1>15. IsSeq(FlattenSeq(r))
  BY <1>6, FlattenIsSeq
<1> QED BY <1>6, <1>7, <1>14, <1>15 DEF r

-----------------------------------------------------------------------------
(* Two passes *)

AreTexts(value) == \A c \in DOMAIN value : IsSeq(value[c])

SpecText(c, value) == IF c \in DOMAIN value THEN value[c] ELSE <<"%", c>>
ItemText(x, value) == IF ~x.spec THEN <<x.char>> ELSE SpecText(x.char, value)
ItemTexts(it, value) == [i \in 1..Len(it) |-> ItemText(it[i], value)]

\* A specifier with or without a value gives a text.
LEMMA SpecTextIs ==
  ASSUME NEW value, AreTexts(value), NEW c
  PROVE  IsSeq(SpecText(c, value))
BY PairIs DEF SpecText, AreTexts

\* Every item gives a text.
LEMMA ItemTextsAre ==
  ASSUME NEW it, IsSeq(it), NEW value, AreTexts(value)
  PROVE  /\ AreSeqs(ItemTexts(it, value)) /\ Len(ItemTexts(it, value)) = Len(it)
         /\ \A i \in 1..Len(it) : ItemTexts(it, value)[i] = ItemText(it[i], value)
<1> DEFINE t == ItemTexts(it, value)
           n == Len(it)
<1>1. n \in Nat
  BY SeqIs
<1>2. t = [i \in 1..n |-> t[i]] /\ \A i \in 1..n : t[i] = ItemText(it[i], value)
  BY DEF ItemTexts
<1>3. ASSUME NEW i \in 1..n PROVE IsSeq(ItemText(it[i], value))
  BY SpecTextIs, OneIs DEF ItemText
<1> HIDE DEF t, n
<1>4. IsSeq(t) /\ Len(t) = n
  BY <1>1, <1>2, FunctionIs
<1>5. AreSeqs(t)
  BY <1>2, <1>3, <1>4 DEF AreSeqs
<1> QED BY <1>2, <1>4, <1>5 DEF t, n

LEMMA FormatIs ==
  ASSUME NEW fmt, IsSeq(fmt), NEW value
  PROVE  Format(fmt, value) = FlattenSeq(ItemTexts(Items(fmt), value))
<1>1. DOMAIN Items(fmt) = 1..Len(Items(fmt))
  BY ItemsIsSeq, SeqIs
<1> QED BY <1>1 DEF Format, ItemTexts, ItemText, SpecText

Led(x, s) == <<x>> \o s

\* The text of the first item comes first.
LEMMA FormatItem ==
  ASSUME NEW fmt, IsSeq(fmt), NEW rest, IsSeq(rest), NEW value, AreTexts(value), NEW x,
         Items(fmt) = Led(x, Items(rest))
  PROVE  Format(fmt, value) = ItemText(x, value) \o Format(rest, value)
<1> DEFINE it == Items(fmt)
           ir == Items(rest)
           t == ItemTexts(it, value)
           r == ItemTexts(ir, value)
<1>1. IsSeq(it) /\ IsSeq(ir)
  BY ItemsIsSeq
<1>2. /\ Len(it) = Len(ir) + 1 /\ it[1] = x /\ Len(ir) \in Nat
      /\ \A i \in 1..Len(ir) : it[i + 1] = ir[i]
  <2>1. it = <<x>> \o ir
    BY DEF Led
  <2> HIDE DEF it, ir
  <2> QED BY <1>1, <2>1, OneThenIs, SeqIs
<1>3. /\ AreSeqs(t) /\ Len(t) = Len(it) /\ \A i \in 1..Len(it) : t[i] = ItemText(it[i], value)
      /\ AreSeqs(r) /\ Len(r) = Len(ir) /\ \A i \in 1..Len(ir) : r[i] = ItemText(ir[i], value)
  BY <1>1, ItemTextsAre
<1>4. Format(fmt, value) = FlattenSeq(t) /\ Format(rest, value) = FlattenSeq(r)
  BY FormatIs
<1> HIDE DEF t, r, it, ir
<1>5. t # << >>
  BY <1>2, <1>3, EmptyIsSeq
<1>6. FlattenSeq(t) = t[1] \o FlattenSeq(Rest(t, 1))
  BY <1>3, <1>5, FlattenFirst
<1>7. IsSeq(t) /\ IsSeq(r) /\ 1 \in 0..Len(t) /\ Len(t) - 1 = Len(r)
  BY <1>2, <1>3 DEF AreSeqs
<1>8. /\ IsSeq(Rest(t, 1)) /\ Len(Rest(t, 1)) = Len(r)
      /\ \A i \in 1..Len(r) : Rest(t, 1)[i] = t[1 + i]
  BY <1>7, RestIs
<1>9. ASSUME NEW i \in 1..Len(r) PROVE Rest(t, 1)[i] = r[i]
  <2>1. i \in 1..Len(ir) /\ 1 + i = i + 1 /\ i + 1 \in 1..Len(it)
    BY <1>2, <1>3
  <2> QED BY <1>2, <1>3, <1>8, <2>1
<1>10. Rest(t, 1) = r
  BY <1>7, <1>8, <1>9, SeqsEqual
<1>11. t[1] = ItemText(x, value)
  <2>1. 1 \in 1..Len(it)
    BY <1>2
  <2> QED BY <1>2, <1>3, <2>1
<1> QED BY <1>4, <1>6, <1>10, <1>11

\* An empty template gives nothing.
LEMMA FormatNothing ==
  ASSUME NEW fmt, IsSeq(fmt), NEW value, Items(fmt) = << >>
  PROVE  Format(fmt, value) = << >>
<1>1. Len(Items(fmt)) = 0
  BY EmptyIsSeq
<1>2. ItemTexts(Items(fmt), value) = << >>
  <2>1. 1..0 = {}
    OBVIOUS
  <2> QED BY <1>1, <2>1 DEF ItemTexts
<1>3. AreSeqs(<< >>) /\ \A i \in 1..Len(<< >>) : << >>[i] = << >>
  BY EmptyIsSeq DEF AreSeqs
<1> QED BY <1>2, <1>3, FormatIs, FlattenNone

\* A pass takes a character, or a specifier, and goes on behind it.
LEMMA FormatAre ==
  ASSUME NEW fmt, IsSeq(fmt), NEW value, AreTexts(value)
  PROVE  /\ fmt = << >> => Format(fmt, value) = << >>
         /\ fmt # << >> /\ fmt[1] # "%"
              => Format(fmt, value) = <<fmt[1]>> \o Format(Rest(fmt, 1), value)
         /\ Len(fmt) = 1 /\ fmt[1] = "%" => Format(fmt, value) = << >>
         /\ Len(fmt) > 1 /\ fmt[1] = "%"
              => Format(fmt, value) = SpecText(fmt[2], value) \o Format(Rest(fmt, 2), value)
<1>1. /\ fmt = << >> => Items(fmt) = << >>
      /\ fmt # << >> /\ fmt[1] # "%" => Items(fmt) = <<Literal(fmt[1])>> \o Items(Rest(fmt, 1))
      /\ Len(fmt) = 1 /\ fmt[1] = "%" => Items(fmt) = << >>
      /\ Len(fmt) > 1 /\ fmt[1] = "%"
           => Items(fmt) = <<Specifier(fmt[2])>> \o Items(Rest(fmt, 2))
  BY ItemsAre
<1>2. /\ fmt = << >> => Format(fmt, value) = << >>
      /\ Len(fmt) = 1 /\ fmt[1] = "%" => Format(fmt, value) = << >>
  BY <1>1, FormatNothing
<1>3. ASSUME fmt # << >>, fmt[1] # "%"
      PROVE  Format(fmt, value) = <<fmt[1]>> \o Format(Rest(fmt, 1), value)
  <2>1. IsSeq(Rest(fmt, 1))
    BY <1>3, FirstIs
  <2>2. Items(fmt) = Led(Literal(fmt[1]), Items(Rest(fmt, 1)))
    BY <1>1, <1>3 DEF Led
  <2>3. Format(fmt, value) = ItemText(Literal(fmt[1]), value) \o Format(Rest(fmt, 1), value)
    BY <2>1, <2>2, FormatItem
  <2>4. ItemText(Literal(fmt[1]), value) = <<fmt[1]>>
    BY DEF ItemText, Literal
  <2> QED BY <2>3, <2>4
<1>4. ASSUME Len(fmt) > 1, fmt[1] = "%"
      PROVE  Format(fmt, value) = SpecText(fmt[2], value) \o Format(Rest(fmt, 2), value)
  <2>1. IsSeq(Rest(fmt, 2))
    <3>1. 2 \in 0..Len(fmt)
      BY <1>4, SeqIs
    <3> QED BY <3>1, RestIs
  <2>2. Items(fmt) = Led(Specifier(fmt[2]), Items(Rest(fmt, 2)))
    BY <1>1, <1>4 DEF Led
  <2>3. Format(fmt, value) = ItemText(Specifier(fmt[2]), value) \o Format(Rest(fmt, 2), value)
    BY <2>1, <2>2, FormatItem
  <2>4. ItemText(Specifier(fmt[2]), value) = SpecText(fmt[2], value)
    BY DEF ItemText, Specifier
  <2> QED BY <2>3, <2>4
<1> QED BY <1>2, <1>3, <1>4

\* A character of a template stays as it is.
LEMMA FormatLed ==
  ASSUME NEW c, c # "%", NEW t, IsSeq(t), NEW value, AreTexts(value)
  PROVE  Format(Led(c, t), value) = Led(c, Format(t, value))
<1> DEFINE s == Led(c, t)
<1>1. IsSeq(s) /\ s # << >> /\ s[1] = c /\ Rest(s, 1) = t
  BY OneThenIs DEF Led
<1> HIDE DEF s
<1>2. Format(s, value) = <<s[1]>> \o Format(Rest(s, 1), value)
  BY <1>1, FormatAre
<1> QED BY <1>1, <1>2 DEF Led, s

\* A text that is not empty has a first character, and the rest has no others.
LEMMA LedIs ==
  ASSUME NEW w, IsSeq(w), w # << >>
  PROVE  /\ w = Led(w[1], Rest(w, 1)) /\ IsSeq(Rest(w, 1)) /\ Len(Rest(w, 1)) = Len(w) - 1
         /\ Range(Rest(w, 1)) \subseteq Range(w) /\ w[1] \in Range(w) /\ Len(w) \in Nat \ {0}
<1>1. /\ w = Led(w[1], Rest(w, 1)) /\ IsSeq(Rest(w, 1)) /\ Len(Rest(w, 1)) = Len(w) - 1
      /\ Len(w) \in Nat \ {0}
  BY FirstIs DEF Led
<1>2. 1 \in 0..Len(w) /\ 1 \in 1..Len(w)
  BY <1>1
<1>3. ASSUME NEW x \in Range(Rest(w, 1)) PROVE x \in Range(w)
  <2>1. PICK i \in 1..(Len(w) - 1) : x = Rest(w, 1)[i]
    BY <1>1, RangeIs
  <2> DEFINE r == Rest(w, 1)
             c == w[1]
  <2>3. IsSeq(r) /\ w = Led(c, r) /\ i \in 1..Len(r) /\ i + 1 \in 1..Len(w)
    BY <1>1
  <2> HIDE DEF r, c
  <2>4. Led(c, r)[i + 1] = r[i]
    BY <2>3, OneThenIs DEF Led
  <2>2. Rest(w, 1)[i] = w[i + 1] /\ i + 1 \in 1..Len(w)
    BY <2>3, <2>4 DEF r
  <2> QED BY <2>1, <2>2, RangeIs
<1>4. w[1] \in Range(w)
  BY <1>2, RangeIs
<1> QED BY <1>1, <1>3, <1>4

LEMMA LedConcat ==
  ASSUME NEW c, NEW s, NEW t, IsSeq(s), IsSeq(t)
  PROVE  Led(c, s) \o t = Led(c, s \o t) /\ IsSeq(Led(c, s))
BY OneIs, ConcatThree, ConcatIs DEF Led

\* A text without specifiers stays as it is.
LEMMA FormatText ==
  ASSUME NEW w, IsSeq(w), "%" \notin Range(w), NEW t, IsSeq(t), NEW value, AreTexts(value)
  PROVE  Format(w \o t, value) = w \o Format(t, value)
<1> DEFINE Good(u) == IsSeq(u) /\ "%" \notin Range(u) => Format(u \o t, value) = u \o Format(t, value)
           G == {m \in Nat : \A u : Len(u) = m => Good(u)}
<1>0. IsSeq(Format(t, value))
  BY FormatIsSeq DEF AreTexts
<1>1. ASSUME NEW m \in Nat, \A l \in Nat : l < m => l \in G PROVE m \in G
  <2> SUFFICES ASSUME NEW u, Len(u) = m, IsSeq(u), "%" \notin Range(u)
               PROVE  Format(u \o t, value) = u \o Format(t, value)
    OBVIOUS
  <2>1. CASE u = << >>
    BY <1>0, <2>1, ConcatEmpty
  <2>2. CASE u # << >>
    <3> DEFINE r == Rest(u, 1)
               c == u[1]
    <3>1. /\ u = Led(c, r) /\ IsSeq(r) /\ Len(r) = m - 1 /\ m \in Nat \ {0}
          /\ "%" \notin Range(r) /\ c # "%"
      BY <2>2, LedIs
    <3> HIDE DEF r, c
    <3>2. Format(r \o t, value) = r \o Format(t, value)
      <4>1. m - 1 \in Nat /\ m - 1 < m
        BY <3>1
      <4>2. m - 1 \in G
        BY <1>1, <4>1
      <4> QED BY <3>1, <4>2
    <3>3. IsSeq(r \o t)
      BY <3>1, ConcatIs
    <3> DEFINE f == Format(t, value)
    <3>6. IsSeq(f)
      BY <1>0
    <3> HIDE DEF f
    <3>7. Led(c, r) \o t = Led(c, r \o t)
      BY <3>1, LedConcat
    <3>8. Led(c, r) \o f = Led(c, r \o f)
      BY <3>1, <3>6, LedConcat
    <3>4. u \o t = Led(c, r \o t) /\ u \o Format(t, value) = Led(c, r \o Format(t, value))
      BY <3>1, <3>7, <3>8 DEF f
    <3>5. Format(u \o t, value) = Led(c, Format(r \o t, value))
      BY <3>1, <3>3, <3>4, FormatLed
    <3> QED BY <3>2, <3>4, <3>5
  <2> QED BY <2>1, <2>2
<1> HIDE DEF G
<1>2. Nat \subseteq G
  BY <1>1, AllNumbers
<1>3. Len(w) \in G
  BY <1>2, SeqIs
<1> QED BY <1>3 DEF G

\* A specifier that is still there
Unchanged(c, t) == <<"%", c>> \o t

LEMMA FormatKept ==
  ASSUME NEW c, NEW t, IsSeq(t), NEW value, AreTexts(value)
  PROVE  Format(Unchanged(c, t), value) = SpecText(c, value) \o Format(t, value)
<1> DEFINE p == <<"%", c>>
           s == p \o t
<1>1. IsSeq(p) /\ Len(p) = 2 /\ p[1] = "%" /\ p[2] = c
  BY PairIs
<1>0. Unchanged(c, t) = s
  BY DEF Unchanged
<1> HIDE DEF p
<1>5. Rest(s, Len(p)) = t
  BY <1>1, RestOfConcat
<1>6. IsSeq(s) /\ Len(s) = Len(p) + Len(t) /\ \A i \in 1..Len(p) : s[i] = p[i]
  BY <1>1, ConcatIs
<1>2. IsSeq(s) /\ Len(s) = 2 + Len(t) /\ Rest(s, 2) = t /\ \A i \in 1..2 : s[i] = p[i]
  BY <1>1, <1>5, <1>6
<1>3. Len(s) > 1 /\ s[1] = "%" /\ s[2] = c
  <2>1. Len(t) \in Nat /\ 1 \in 1..2 /\ 2 \in 1..2
    BY SeqIs
  <2> QED BY <1>1, <1>2, <2>1
<1> HIDE DEF s
<1>4. Format(s, value) = SpecText(s[2], value) \o Format(Rest(s, 2), value)
  BY <1>2, <1>3, FormatAre
<1> QED BY <1>0, <1>2, <1>3, <1>4

\* Two passes do what one does with the values of both, if no value of the first
\* has a specifier in it.
LEMMA TwoPasses ==
  ASSUME NEW fmt, IsSeq(fmt), NEW a, NEW b, AreTexts(a), AreTexts(b),
         \A c \in DOMAIN a : "%" \notin Range(a[c])
  PROVE  Format(Format(fmt, a), b) = Format(fmt, Extended(a, b))
<1> DEFINE both == Extended(a, b)
           G == {m \in Nat : \A t : Len(t) = m =>
                   (IsSeq(t) => Format(Format(t, a), b) = Format(t, both))}
<1>1. AreTexts(both)
  BY DEF AreTexts, Extended
<1>2. \A c : SpecText(c, both) = IF c \in DOMAIN a THEN a[c] ELSE SpecText(c, b)
  BY DEF SpecText, Extended
<1> HIDE DEF both
<1>3. ASSUME NEW m \in Nat, \A l \in Nat : l < m => l \in G PROVE m \in G
  <2> SUFFICES ASSUME NEW t, Len(t) = m, IsSeq(t)
               PROVE  Format(Format(t, a), b) = Format(t, both)
    OBVIOUS
  <2>0. \A l \in Nat : \A r : l < m /\ IsSeq(r) /\ Len(r) = l
                         => Format(Format(r, a), b) = Format(r, both)
    BY <1>3
  <2>1. CASE t = << >>
    <3>1. IsSeq(<< >>)
      BY EmptyIsSeq
    <3> QED BY <1>1, <2>1, <3>1, FormatAre
  <2>2. CASE t # << >> /\ t[1] # "%"
    <3> DEFINE r == Rest(t, 1)
               c == t[1]
    <3>1. t = Led(c, r) /\ IsSeq(r) /\ Len(r) = m - 1 /\ m - 1 \in Nat /\ m - 1 < m /\ c # "%"
      BY <2>2, LedIs
    <3> HIDE DEF r, c
    <3>2. IsSeq(Format(r, a))
      BY <3>1, FormatIsSeq DEF AreTexts
    <3>3. /\ Format(t, a) = Led(c, Format(r, a))
          /\ Format(t, both) = Led(c, Format(r, both))
          /\ Format(Led(c, Format(r, a)), b) = Led(c, Format(Format(r, a), b))
      BY <1>1, <3>1, <3>2, FormatLed
    <3> QED BY <2>0, <3>1, <3>3
  <2>3. CASE Len(t) = 1 /\ t[1] = "%"
    <3>1. Format(t, a) = << >> /\ Format(t, both) = << >>
      BY <1>1, <2>3, FormatAre
    <3>2. Format(<< >>, b) = << >>
      BY EmptyIsSeq, FormatAre
    <3> QED BY <3>1, <3>2
  <2>4. CASE Len(t) > 1 /\ t[1] = "%"
    <3> DEFINE r == Rest(t, 2)
               c == t[2]
    <3>1. IsSeq(r) /\ Len(r) = m - 2 /\ m - 2 \in Nat /\ m - 2 < m
      <4>1. 2 \in 0..Len(t)
        BY <2>4
      <4> QED BY <2>4, <4>1, RestIs
    <3>2. /\ Format(t, a) = SpecText(c, a) \o Format(r, a)
          /\ Format(t, both) = SpecText(c, both) \o Format(r, both)
      BY <1>1, <2>4, FormatAre
    <3> HIDE DEF r, c
    <3>3. IsSeq(Format(r, a))
      BY <3>1, FormatIsSeq DEF AreTexts
    <3>4. Format(Format(r, a), b) = Format(r, both)
      BY <2>0, <3>1
    <3>5. CASE c \in DOMAIN a
      <4>1. SpecText(c, a) = a[c] /\ SpecText(c, both) = a[c] /\ IsSeq(a[c]) /\ "%" \notin Range(a[c])
        BY <1>2, <3>5 DEF SpecText, AreTexts
      <4> DEFINE w == a[c]
                 f == Format(r, a)
      <4>2. IsSeq(w) /\ "%" \notin Range(w) /\ IsSeq(f)
        BY <3>3, <4>1
      <4> HIDE DEF w, f
      <4>3. Format(w \o f, b) = w \o Format(f, b)
        BY <4>2, FormatText
      <4> QED BY <3>2, <3>4, <4>1, <4>3 DEF w, f
    <3>6. CASE c \notin DOMAIN a
      <4>1. SpecText(c, a) = <<"%", c>> /\ SpecText(c, both) = SpecText(c, b)
        BY <1>2, <3>6 DEF SpecText
      <4> DEFINE f == Format(r, a)
      <4>2. IsSeq(f)
        BY <3>3
      <4> HIDE DEF f
      <4>3. Format(Unchanged(c, f), b) = SpecText(c, b) \o Format(f, b)
        BY <4>2, FormatKept
      <4>4. Format(t, a) = Unchanged(c, f)
        BY <3>2, <4>1 DEF f, Unchanged
      <4> QED BY <3>2, <3>4, <4>1, <4>3, <4>4 DEF f
    <3> QED BY <3>5, <3>6
  <2>5. t = << >> \/ (t # << >> /\ t[1] # "%") \/ (Len(t) = 1 /\ t[1] = "%") \/ (Len(t) > 1 /\ t[1] = "%")
    <3>1. t # << >> => Len(t) \in Nat \ {0}
      BY FirstIs
    <3> QED BY <3>1
  <2> QED BY <2>1, <2>2, <2>3, <2>4, <2>5
<1> HIDE DEF G
<1>4. Nat \subseteq G
  BY <1>3, AllNumbers
<1>5. Len(fmt) \in G
  BY <1>4, SeqIs
<1> QED BY <1>5 DEF G, both

-----------------------------------------------------------------------------
(* What the files have of a line *)

\* The rows of line n in a file
LinePlaces(s, n) == {i \in 1..Len(s) : s[i].line = n}
RowsAt(s, n) ==
  LET rows == Kept(s, LinePlaces(s, n)) IN [i \in DOMAIN rows |-> rows[i].text]

\* Rows of other lines change nothing.
LEMMA RowsMore ==
  ASSUME NEW s, NEW t, IsSeq(s), IsSeq(t), NEW n, \A i \in 1..Len(t) : t[i].line # n
  PROVE  RowsAt(s \o t, n) = RowsAt(s, n)
<1> DEFINE u == s \o t
           S == LinePlaces(s, n)
<1>1. /\ IsSeq(u) /\ Len(u) = Len(s) + Len(t) /\ Len(s) \in Nat /\ Len(t) \in Nat
      /\ \A i \in 1..Len(s) : u[i] = s[i]
      /\ \A i \in 1..Len(t) : u[Len(s) + i] = t[i]
  BY ConcatIs, SeqIs
<1> HIDE DEF u
<1>2. LinePlaces(u, n) = S
  <2>1. ASSUME NEW i \in 1..Len(u), u[i].line = n PROVE i \in 1..Len(s)
    <3> SUFFICES ASSUME i \notin 1..Len(s) PROVE FALSE
      OBVIOUS
    <3> DEFINE j == i - Len(s)
    <3>1. j \in 1..Len(t) /\ i = Len(s) + j
      BY <1>1
    <3> HIDE DEF j
    <3> QED BY <1>1, <2>1, <3>1
  <2> QED BY <1>1, <2>1 DEF LinePlaces
<1>3. S \in SUBSET (1..Len(s)) /\ S \in SUBSET (1..Len(u))
  BY <1>1 DEF LinePlaces
<1> HIDE DEF S
<1>4. /\ IsSeq(Kept(s, S)) /\ Len(Kept(s, S)) = Cardinality(S)
      /\ \A k \in 1..Cardinality(S) : Kept(s, S)[k] = s[Nth(S, k)] /\ Nth(S, k) \in S
  BY <1>3, KeptIs
<1>5. /\ IsSeq(Kept(u, S)) /\ Len(Kept(u, S)) = Cardinality(S)
      /\ \A k \in 1..Cardinality(S) : Kept(u, S)[k] = u[Nth(S, k)]
  BY <1>1, <1>3, KeptIs
<1>6. \A k \in 1..Len(Kept(u, S)) : Kept(u, S)[k] = Kept(s, S)[k]
  BY <1>1, <1>3, <1>4, <1>5
<1>7. Kept(u, S) = Kept(s, S)
  BY <1>4, <1>5, <1>6, SeqsEqual
<1> QED BY <1>2, <1>7 DEF RowsAt, S, u

\* The first rows of a line are all its rows.
LEMMA RowsNew ==
  ASSUME NEW s, NEW t, IsSeq(s), IsSeq(t), NEW n,
         \A i \in 1..Len(s) : s[i].line # n, \A i \in 1..Len(t) : t[i].line = n
  PROVE  RowsAt(s \o t, n) = [i \in 1..Len(t) |-> t[i].text]
<1> DEFINE u == s \o t
           a == Len(s)
           b == Len(t)
           S == (a + 1)..(a + b)
<1>1. /\ IsSeq(u) /\ Len(u) = a + b /\ a \in Nat /\ b \in Nat
      /\ \A i \in 1..a : u[i] = s[i]
      /\ \A i \in 1..b : u[a + i] = t[i]
  BY ConcatIs, SeqIs
<1> HIDE DEF u
<1>2. LinePlaces(u, n) = S
  <2>1. ASSUME NEW i \in 1..Len(u) PROVE u[i].line = n <=> i \in S
    <3>1. CASE i \in 1..a
      BY <1>1, <3>1
    <3>2. CASE i \notin 1..a
      <4> DEFINE j == i - a
      <4>1. j \in 1..b /\ i = a + j
        BY <1>1, <3>2
      <4> HIDE DEF j
      <4> QED BY <1>1, <4>1
    <3> QED BY <3>1, <3>2
  <2> QED BY <1>1, <2>1 DEF LinePlaces
<1>3. S \in SUBSET Nat /\ IsFiniteSet(S) /\ Cardinality(S) = b /\ S \in SUBSET (1..Len(u))
  <2>1. IsFiniteSet(S) /\ Cardinality(S) = IF a + 1 > a + b THEN 0 ELSE (a + b) - (a + 1) + 1
    <3>1. a + 1 \in Int /\ a + b \in Int
      BY <1>1
    <3> HIDE DEF a, b
    <3> QED BY <3>1, FS_Interval
  <2> QED BY <1>1, <2>1
<1>4. ASSUME NEW k \in 1..b PROVE Rank(S, a + k) = k /\ a + k \in S
  <2>1. {j \in S : j <= a + k} = (a + 1)..(a + k)
    BY <1>1
  <2>2. Cardinality((a + 1)..(a + k)) = IF a + 1 > a + k THEN 0 ELSE (a + k) - (a + 1) + 1
    <3>1. a + 1 \in Int /\ a + k \in Int
      BY <1>1
    <3> QED BY <3>1, FS_Interval
  <2>3. Cardinality((a + 1)..(a + k)) = k
    BY <1>1, <2>2
  <2>4. a + k \in S
    BY <1>1
  <2> QED BY <2>1, <2>3, <2>4 DEF Rank
<1> HIDE DEF S
<1>5. ASSUME NEW k \in 1..b PROVE Nth(S, k) = a + k
  <2>1. \A i \in S : Nth(S, Rank(S, i)) = i
    BY <1>3, NthIs
  <2>2. Rank(S, a + k) = k /\ a + k \in S
    BY <1>4
  <2> QED BY <2>1, <2>2
<1>6. /\ IsSeq(Kept(u, S)) /\ Len(Kept(u, S)) = b
      /\ \A k \in 1..b : Kept(u, S)[k] = u[Nth(S, k)]
  BY <1>1, <1>3, KeptIs
<1>7. DOMAIN Kept(u, S) = 1..b
  BY <1>6, SeqIs
<1>8. \A k \in 1..b : Kept(u, S)[k] = t[k]
  BY <1>1, <1>5, <1>6
<1> HIDE DEF a, b
<1>9. RowsAt(u, n) = [i \in 1..b |-> t[i].text]
  BY <1>2, <1>7, <1>8 DEF RowsAt
<1> QED BY <1>9 DEF u, b

\* A line as it was to be written: the file, and the text in two passes
Home(z, s) == CASE z.tcp -> Remote
                [] ~z.tcp /\ z.distingType -> s.c.level
                [] OTHER -> Shared
MessageText(z, s) ==
  LET text == StrtrArray(s.c.messages[s.i], s.c.context).text
  IN IF z.trimWrap THEN TrimWrap(text) ELSE text
LineText(z, s) ==
  (IF z.tcp THEN Header(s.c.level, VariablesOf(s)) ELSE << >>)
    \o Format(Format(z.template, RequestValues(VariablesOf(s))),
              LineValues(s.c.level, s.id, MessageText(z, s))) \o <<Feed>>

\* The variables are those of the request and the script, and the template has
\* them, whatever was set and however often.
RequestNow ==
  /\ variable = Extended(chosen, RequestVariable(server))
  /\ current = Format(setting.template, RequestValues(variable))

\* All rows of a line are in its file, and are those of its text.
RowsInv ==
  \A n \in 1..Len(said) : \A p \in Places :
    RowsAt(out[p], n) =
      IF p = Home(setting, said[n]) THEN LinesOf(LineText(setting, said[n])) ELSE << >>

LEMMA EmptyExtends ==
  ASSUME NEW v, v = [k \in DOMAIN v |-> v[k]]
  PROVE  v = Extended(<< >>, v)
<1> DEFINE e == << >>
<1>1. DOMAIN e = {}
  BY EmptyIsSeq
<1> HIDE DEF e
<1>2. Extended(e, v) = [k \in DOMAIN v |-> v[k]]
  BY <1>1 DEF Extended
<1> QED BY <1>2 DEF e

\* The request itself has a value for each variable.
LEMMA RequestVariableIs ==
  ASSUME NEW s \in Servers
  PROVE  RequestVariable(s) = Extended(<< >>, RequestVariable(s))
<1> DEFINE v == RequestVariable(s)
<1>1. v = [k \in DOMAIN v |-> v[k]]
  BY DEF RequestVariable
<1> HIDE DEF v
<1>2. v = Extended(<< >>, v)
  BY <1>1, EmptyExtends
<1> QED BY <1>2 DEF v

\* Setting a variable sets it in what the script has chosen.
LEMMA SetExtends ==
  ASSUME NEW a, NEW b, VariablesTyped(b), NEW k \in VariableKeys, NEW text,
         DOMAIN a \subseteq VariableKeys
  PROVE  [Extended(a, b) EXCEPT ![k] = text]
           = Extended([j \in DOMAIN a \cup {k} |-> IF j = k THEN text ELSE a[j]], b)
BY DEF VariablesTyped, Extended

LEMMA RequestInitNow ==
  ASSUME NEW s \in Servers, RequestInit(s), UNCHANGED setting
  PROVE  RequestNow'
<1>1. /\ server' = s /\ chosen' = << >> /\ variable' = RequestVariable(s)
      /\ current' = Format(setting'.template, RequestValues(variable'))
  BY DEF RequestInit
<1>2. variable' = Extended(chosen', RequestVariable(server'))
  BY <1>1, RequestVariableIs
<1> QED BY <1>1, <1>2 DEF RequestNow

LEMMA RequestNowInit == Init => RequestNow
<1> SUFFICES ASSUME Init PROVE RequestNow
  OBVIOUS
<1>1. /\ server \in Servers /\ chosen = << >> /\ variable = RequestVariable(server)
      /\ current = Format(setting.template, RequestValues(variable))
  BY DEF Init
<1>2. variable = Extended(chosen, RequestVariable(server))
  BY <1>1, RequestVariableIs
<1> QED BY <1>1, <1>2 DEF RequestNow

LEMMA RequestNowNext == TextsInv /\ RequestNow /\ [Next]_vars => RequestNow'
<1> SUFFICES ASSUME TextsInv, RequestNow, [Next]_vars PROVE RequestNow'
  OBVIOUS
<1>1. ASSUME UNCHANGED <<setting, server, chosen, variable, current>> PROVE RequestNow'
  BY <1>1 DEF RequestNow
<1>2. ASSUME NEW s \in Servers, NextRequest(s) \/ OutOfMemory(s) \/ StrayArgument(s)
      PROVE  RequestNow'
  BY <1>2, RequestInitNow DEF NextRequest, OutOfMemory, StrayArgument
<1>3. ASSUME NEW new \in NewValues, SetRequestVariable(new[1], new[2]) PROVE RequestNow'
  <2> DEFINE k == new[1]
             text == new[2]
  <2>1. k \in VariableKeys
    BY NewValuesAssumption
  <2>2. /\ variable' = [variable EXCEPT ![k] = text]
        /\ chosen' = [j \in DOMAIN chosen \cup {k} |-> IF j = k THEN text ELSE chosen[j]]
        /\ current' = Format(setting'.template, RequestValues(variable'))
        /\ UNCHANGED <<setting, server>>
    BY <1>3 DEF SetRequestVariable
  <2> HIDE DEF k, text
  <2>3. variable = Extended(chosen, RequestVariable(server))
    BY DEF RequestNow
  <2>4. VariablesTyped(RequestVariable(server)) /\ DOMAIN chosen \subseteq VariableKeys
    BY RequestVariableTyped DEF TextsInv
  <2> DEFINE b == RequestVariable(server)
  <2>5. VariablesTyped(b)
    BY <2>4
  <2> HIDE DEF b
  <2>7. [Extended(chosen, b) EXCEPT ![k] = text]
          = Extended([j \in DOMAIN chosen \cup {k} |-> IF j = k THEN text ELSE chosen[j]], b)
    BY <2>1, <2>4, <2>5, SetExtends
  <2>8. variable = Extended(chosen, b)
    BY <2>3 DEF b
  <2>6. variable' = Extended(chosen', b)
    BY <2>2, <2>7, <2>8
  <2> QED BY <2>2, <2>6 DEF RequestNow, b
<1>4. ASSUME \/ \E id \in NewIds : SetRequestID(id)
             \/ \E t \in Thresholds : SetThreshold(t)
             \/ \E c \in Calls : Log(c)
             \/ WriteOk \/ WriteFail \/ Filtered \/ Done \/ UNCHANGED vars
      PROVE  UNCHANGED <<setting, server, chosen, variable, current>>
  BY <1>4 DEF SetRequestID, SetThreshold, Log, WriteOk, WriteFail, Filtered, Done, vars, request
<1> QED BY <1>1, <1>2, <1>3, <1>4 DEF Next

\* What the write of a message says of it
NewSaid == [call |-> Len(results) + 1, c |-> call.c, i |-> call.next,
            server |-> server, chosen |-> chosen, id |-> requestId]

LEMMA NewLine ==
  ASSUME RequestNow
  PROVE  Rows = LinesOf(LineText(setting, NewSaid)) /\ Place = Home(setting, NewSaid)
<1> DEFINE e == NewSaid
<1>1. /\ e.c = call.c /\ e.i = call.next /\ e.server = server /\ e.chosen = chosen
      /\ e.id = requestId
  BY DEF NewSaid
<1> HIDE DEF e
<1>2. VariablesOf(e) = variable
  BY <1>1 DEF VariablesOf, RequestNow
<1>3. current = Format(setting.template, RequestValues(VariablesOf(e)))
  BY <1>2 DEF RequestNow
<1>4. Trimmed(Message.text) = MessageText(setting, e)
  BY <1>1 DEF Trimmed, Message, MessageText
<1>5. Entry(Trimmed(Message.text)) = LineText(setting, e)
  BY <1>1, <1>2, <1>3, <1>4 DEF Entry, LineText
<1>6. Place = Home(setting, e)
  BY <1>1 DEF Place, Home
<1> QED BY <1>5, <1>6 DEF Rows, e

\* A message that is written puts its rows at the end of its own file.
LEMMA RowsWrite ==
  ASSUME CallTyped, TextsInv, RequestNow, FilesInv, RowsInv, WriteOk
  PROVE  RowsInv'
<1>1. /\ \A p \in Places \ {Place} : out'[p] = out[p]
      /\ out'[Place] = out[Place] \o NewRows
      /\ said' = Append(said, NewSaid)
      /\ AtMessage /\ setting' = setting
  BY WriteIs DEF NewSaid
<1>2. /\ IsSeq(NewRows) /\ \A i \in 1..Len(NewRows) : NewRows[i].line = Len(said) + 1
      /\ Place \in Places
  BY <1>1, NewRowsAre
<1> DEFINE N == Len(said)
<1>3. /\ IsSeq(said) /\ N \in Nat /\ Len(said') = N + 1
      /\ \A n \in 1..N : said'[n] = said[n]
      /\ said'[N + 1] = NewSaid
  BY <1>1, AppendIs, SeqIs DEF CallTyped
<1>4. \A p \in Places : IsSeq(out[p]) /\ \A i \in 1..Len(out[p]) : out[p][i].line \in 1..N
  BY DEF FilesInv
<1>5. \A i \in 1..Len(NewRows) : NewRows[i].line = N + 1
  BY <1>2
<1> HIDE DEF N
<1>6. ASSUME NEW n \in 1..N, NEW p \in Places
      PROVE  RowsAt(out'[p], n) = RowsAt(out[p], n)
  <2>1. CASE p # Place
    BY <1>1, <2>1
  <2>2. CASE p = Place
    <3>1. IsSeq(out[p]) /\ IsSeq(NewRows) /\ \A i \in 1..Len(NewRows) : NewRows[i].line # n
      BY <1>2, <1>3, <1>4, <1>5
    <3>2. RowsAt(out[p] \o NewRows, n) = RowsAt(out[p], n)
      BY <3>1, RowsMore
    <3> QED BY <1>1, <2>2, <3>2
  <2> QED BY <2>1, <2>2
<1>7. \A p \in Places : \A i \in 1..Len(out[p]) : out[p][i].line # N + 1
  BY <1>3, <1>4
<1>8. ASSUME NEW p \in Places \ {Place} PROVE RowsAt(out'[p], N + 1) = << >>
  <2> DEFINE s == out[p]
  <2>1. IsSeq(s) /\ (\A i \in 1..Len(s) : s[i].line # N + 1) /\ out'[p] = s
    BY <1>1, <1>4, <1>7
  <2> HIDE DEF s
  <2>2. LinePlaces(s, N + 1) = {}
    BY <2>1 DEF LinePlaces
  <2>4. Cardinality({}) = 0 /\ {} \in SUBSET (1..Len(s))
    BY FS_EmptySet
  <2>3. IsSeq(Kept(s, {})) /\ Len(Kept(s, {})) = 0
    BY <2>1, <2>4, KeptIs
  <2>5. DOMAIN Kept(s, {}) = {} /\ 1..0 = {}
    BY <2>3, SeqIs
  <2> DEFINE r == RowsAt(s, N + 1)
  <2>6. r = [i \in 1..0 |-> r[i]]
    BY <2>2, <2>5 DEF RowsAt
  <2> HIDE DEF r
  <2>7. IsSeq(r) /\ Len(r) = 0
    BY <2>6, FunctionIs
  <2>8. r = << >>
    BY <2>7, EmptyIsSeq, SeqsEqual
  <2> QED BY <2>1, <2>8 DEF r
<1>9. RowsAt(out'[Place], N + 1) = Rows
  <2> DEFINE s == out[Place]
             t == NewRows
  <2>1. IsSeq(s) /\ (\A i \in 1..Len(s) : s[i].line # N + 1) /\ out'[Place] = s \o t
    BY <1>1, <1>2, <1>4, <1>7
  <2>2. IsSeq(t) /\ \A i \in 1..Len(t) : t[i].line = N + 1
    BY <1>2, <1>5
  <2> HIDE DEF s
  <2>3. RowsAt(s \o t, N + 1) = [i \in 1..Len(t) |-> t[i].text]
    <3> HIDE DEF t
    <3> QED BY <2>1, <2>2, RowsNew
  <2>4. IsSeq(Rows)
    <3>1. IsSeq(Trimmed(Message.text))
      BY <1>1, MessageEnds, TrimmedIsSeq
    <3> QED BY <3>1, EntryIs, LinesOfIs DEF Rows
  <2>5. DOMAIN Rows = 1..Len(Rows) /\ Len(Rows) \in Nat
    BY <2>4, SeqIs
  <2>6. t = [r \in 1..Len(Rows) |-> t[r]] /\ \A r \in 1..Len(Rows) : t[r].text = Rows[r]
    BY <2>5 DEF NewRows
  <2> HIDE DEF t
  <2>7. Len(t) = Len(Rows)
    BY <2>5, <2>6, FunctionIs
  <2> DEFINE f == [i \in 1..Len(t) |-> t[i].text]
  <2>8. f = [i \in 1..Len(Rows) |-> f[i]] /\ \A i \in 1..Len(Rows) : f[i] = Rows[i]
    BY <2>6, <2>7
  <2> HIDE DEF f
  <2>9. IsSeq(f) /\ Len(f) = Len(Rows)
    BY <2>5, <2>8, FunctionIs
  <2>10. f = Rows
    BY <2>4, <2>8, <2>9, SeqsEqual
  <2> QED BY <2>1, <2>3, <2>10 DEF f
<1>10. Rows = LinesOf(LineText(setting, NewSaid)) /\ Place = Home(setting, NewSaid)
  BY NewLine
<1>11. ASSUME NEW n \in 1..(N + 1), NEW p \in Places
       PROVE  RowsAt(out'[p], n) =
                IF p = Home(setting, said'[n]) THEN LinesOf(LineText(setting, said'[n])) ELSE << >>
  <2>1. CASE n \in 1..N
    <3>1. RowsAt(out[p], n) =
            IF p = Home(setting, said[n]) THEN LinesOf(LineText(setting, said[n])) ELSE << >>
      BY <2>1 DEF RowsInv, N
    <3> QED BY <1>3, <1>6, <2>1, <3>1
  <2>2. CASE n = N + 1
    BY <1>3, <1>8, <1>9, <1>10, <2>2
  <2>3. n \in 1..N \/ n = N + 1
    BY <1>3
  <2> QED BY <2>1, <2>2, <2>3
<1> QED BY <1>1, <1>3, <1>11 DEF RowsInv

LEMMA RowsInit == Init => RowsInv
<1>1. Len(<< >>) = 0 /\ 1..0 = {}
  BY EmptyIsSeq
<1> QED BY <1>1 DEF Init, RowsInv

LEMMA RowsNext ==
  CallTyped /\ TextsInv /\ RequestNow /\ FilesInv /\ RowsInv /\ [Next]_vars => RowsInv'
<1> SUFFICES ASSUME CallTyped, TextsInv, RequestNow, FilesInv, RowsInv, [Next]_vars
             PROVE  RowsInv'
  OBVIOUS
<1>1. CASE WriteOk
  BY <1>1, RowsWrite
<1>2. CASE UNCHANGED <<setting, written>>
  BY <1>2 DEF RowsInv, written
<1>3. WriteOk \/ UNCHANGED <<setting, written>>
  BY DEF Next, NextRequest, OutOfMemory, StrayArgument, SetRequestVariable, SetRequestID,
         SetThreshold, Log, WriteFail, Filtered, Done, vars
<1> QED BY <1>1, <1>2, <1>3

\* What is kept of the request of a line are texts.
SaidInv == \A n \in 1..Len(said) : VariablesTyped(VariablesOf(said[n])) /\ IsSeq(said[n].id)

LEMMA SaidInit == Init => SaidInv
<1>1. Len(<< >>) = 0 /\ 1..0 = {}
  BY EmptyIsSeq
<1> QED BY <1>1 DEF Init, SaidInv

LEMMA SaidNext ==
  CallTyped /\ TextsInv /\ RequestNow /\ FilesInv /\ SaidInv /\ [Next]_vars => SaidInv'
<1> SUFFICES ASSUME CallTyped, TextsInv, RequestNow, FilesInv, SaidInv, [Next]_vars
             PROVE  SaidInv'
  OBVIOUS
<1>1. CASE WriteOk
  <2>1. said' = Append(said, NewSaid)
    BY <1>1, WriteIs DEF NewSaid
  <2>2. VariablesTyped(VariablesOf(NewSaid)) /\ IsSeq(NewSaid.id)
    <3>1. VariablesOf(NewSaid) = variable /\ NewSaid.id = requestId
      BY DEF NewSaid, VariablesOf, RequestNow
    <3> QED BY <3>1 DEF TextsInv
  <2> DEFINE N == Len(said)
  <2>3. /\ N \in Nat /\ Len(said') = N + 1
        /\ \A n \in 1..N : said'[n] = said[n]
        /\ said'[N + 1] = NewSaid
    BY <2>1, AppendIs, SeqIs DEF CallTyped
  <2>4. \A n \in 1..N : VariablesTyped(VariablesOf(said[n])) /\ IsSeq(said[n].id)
    BY DEF SaidInv
  <2> HIDE DEF N
  <2>5. ASSUME NEW n \in 1..(N + 1)
        PROVE  VariablesTyped(VariablesOf(said'[n])) /\ IsSeq(said'[n].id)
    <3>1. n \in 1..N \/ n = N + 1
      BY <2>3
    <3> QED BY <2>2, <2>3, <2>4, <3>1
  <2> QED BY <2>3, <2>5 DEF SaidInv
<1>2. CASE UNCHANGED <<setting, written>>
  BY <1>2 DEF SaidInv, written
<1>3. WriteOk \/ UNCHANGED <<setting, written>>
  BY DEF Next, NextRequest, OutOfMemory, StrayArgument, SetRequestVariable, SetRequestID,
         SetThreshold, Log, WriteFail, Filtered, Done, vars
<1> QED BY <1>1, <1>2, <1>3

LineWritten == LineInv /\ RequestNow /\ SaidInv /\ RowsInv

LEMMA WrittenHolds == Spec => []LineWritten
<1>1. Init => LineWritten
  BY ArrayInit, TextsInit, FilesInit, SayingsInit, RequestNowInit, SaidInit, RowsInit
     DEF LineInv, LineWritten
<1>2. LineWritten /\ [Next]_vars => LineWritten'
  <2>1. LineInv => CallTyped
    BY DEF LineInv, ArrayInv
  <2> QED BY <2>1, ArrayNext, TextsNext, FilesNext, SayingsNext, RequestNowNext, SaidNext, RowsNext
          DEF LineInv, LineWritten
<1> QED BY <1>1, <1>2, PTL DEF Spec

-----------------------------------------------------------------------------
(* The rows of a line *)

\* A message with its context is a text.
LEMMA MessageTextIs ==
  ASSUME NEW z, NEW s, s.c \in Calls, s.i \in DOMAIN s.c.messages
  PROVE  IsSeq(MessageText(z, s))
<1> DEFINE text == StrtrArray(s.c.messages[s.i], s.c.context).text
<1>1. IsSeq(s.c.messages[s.i]) /\ IsContext(s.c.context)
  BY CallIs
<1>2. IsSeq(text)
  BY <1>1, StrtrArrayIs
<1> HIDE DEF text
<1>3. IsSeq(TrimWrap(text))
  BY <1>2, TrimWrapIsSeq
<1> QED BY <1>2, <1>3 DEF MessageText, text

\* A line ends with a line feed.
LEMMA LineTextIs ==
  ASSUME TextsInv, NEW s, s.c \in Calls, s.i \in DOMAIN s.c.messages,
         VariablesTyped(VariablesOf(s)), IsSeq(s.id)
  PROVE  LET line == LineText(setting, s) IN
         IsSeq(line) /\ Len(line) > 0 /\ line[Len(line)] = Feed
<1> DEFINE v == VariablesOf(s)
           text == MessageText(setting, s)
           level == s.c.level
           id == s.id
           first == Format(setting.template, RequestValues(v))
           head == IF setting.tcp THEN Header(level, v) ELSE << >>
           body == Format(first, LineValues(level, id, text))
           end == <<Feed>>
           line == head \o body
<1>1. VariablesTyped(v) /\ IsSeq(id) /\ IsSeq(text)
  BY MessageTextIs
<1>4. LineText(setting, s) = (head \o body) \o end
  BY DEF LineText
<1> HIDE DEF v, text, level, id
<1>5. IsSeq(head)
  BY <1>1, HeaderIs, EmptyIsSeq
<1>6. IsSeq(first)
  BY <1>1, FirstPassIs DEF TextsInv
<1> HIDE DEF first, head
<1>7. IsSeq(body)
  BY <1>1, <1>6, LineValuesAre, FormatIsSeq
<1>3. IsSeq(end) /\ Len(end) = 1 /\ end[1] = Feed
  BY OneIs
<1> HIDE DEF body, end
<1>8. IsSeq(line) /\ Len(line) \in Nat
  BY <1>5, <1>7, ConcatIs, SeqIs
<1> HIDE DEF line
<1>9. IsSeq(line) /\ IsSeq(end)
  BY <1>3, <1>8
<1>10. /\ IsSeq(line \o end) /\ Len(line \o end) = Len(line) + Len(end)
       /\ \A i \in 1..Len(end) : (line \o end)[Len(line) + i] = end[i]
  BY <1>9, ConcatIs
<1>11. 1 \in 1..Len(end)
  BY <1>3
<1>12. (line \o end)[Len(line) + 1] = Feed
  BY <1>3, <1>10, <1>11
<1>13. LineText(setting, s) = line \o end
  BY <1>4 DEF line
<1> QED BY <1>3, <1>8, <1>10, <1>12, <1>13

\* A file without a row of a line has none to give.
LEMMA RowsAtIs ==
  ASSUME NEW s, IsSeq(s), NEW n
  PROVE  RowsAt(s, n) = << >> <=> \A r \in Range(s) : r.line # n
<1> DEFINE S == LinePlaces(s, n)
           f == RowsAt(s, n)
           c == Cardinality(S)
<1>1. S \in SUBSET (1..Len(s)) /\ Len(s) \in Nat
  BY SeqIs DEF LinePlaces
<1>2. IsFiniteSet(S) /\ c \in Nat
  <2> HIDE DEF S
  <2> QED BY <1>1, PlacesFinite
<1>3. c = 0 <=> S = {}
  <2> HIDE DEF S
  <2> QED BY <1>2, FS_EmptySet
<1>4. Len(Kept(s, S)) = c /\ IsSeq(Kept(s, S))
  <2> HIDE DEF S
  <2> QED BY <1>1, KeptIs
<1>5. DOMAIN Kept(s, S) = 1..c
  BY <1>4, SeqIs
<1>6. f = [i \in 1..c |-> f[i]]
  BY <1>5 DEF RowsAt
<1> HIDE DEF f
<1>7. IsSeq(f) /\ Len(f) = c
  BY <1>2, <1>6, FunctionIs
<1>8. f = << >> <=> c = 0
  BY <1>7, EmptyIsSeq, SeqsEqual
<1>9. S = {} <=> \A r \in Range(s) : r.line # n
  BY RangeIs DEF LinePlaces
<1> QED BY <1>3, <1>8, <1>9 DEF f

\* A line is in its file, and in that only.
LEMMA RowsOfAre ==
  ASSUME LineWritten, NEW n \in DOMAIN said
  PROVE  RowsOf(n) = LinesOf(LineText(setting, said[n]))
<1> DEFINE s == said[n]
           home == Home(setting, s)
           Has(p) == \E r \in Range(out[p]) : r.line = n
<1>1. n \in 1..Len(said) /\ s.c \in Calls /\ s.i \in DOMAIN s.c.messages
  BY SeqIs DEF LineWritten, LineInv, ArrayInv, CallTyped, SayingsInv
<1>2. \A p \in Places :
        RowsAt(out[p], n) = IF p = home THEN LinesOf(LineText(setting, s)) ELSE << >>
  BY <1>1 DEF LineWritten, RowsInv
<1>3. home \in Places
  <2>1. s.c.level \in Levels /\ setting.tcp \in BOOLEAN /\ setting.distingType \in BOOLEAN
    BY <1>1, CallsAssumption, SettingIs DEF LineWritten, LineInv, TextsInv
  <2>2. CASE setting.tcp
    BY <2>2 DEF Home, Places
  <2>3. CASE ~setting.tcp /\ setting.distingType
    BY <2>1, <2>3 DEF Home, Places
  <2>4. CASE ~setting.tcp /\ ~setting.distingType
    BY <2>4 DEF Home, Places
  <2> QED BY <2>1, <2>2, <2>3, <2>4
<1>4. VariablesTyped(VariablesOf(s)) /\ IsSeq(s.id) /\ TextsInv
  BY <1>1 DEF LineWritten, LineInv, SaidInv
<1> HIDE DEF s
<1>5. Len(LinesOf(LineText(setting, s))) > 0
  <2> DEFINE line == LineText(setting, s)
  <2>1. IsSeq(line) /\ Len(line) > 0 /\ line[Len(line)] = Feed
    BY <1>1, <1>4, LineTextIs
  <2> HIDE DEF line
  <2>2. Len(LinesOf(line)) > 0
    BY <2>1, LinesOfIs
  <2> QED BY <2>2 DEF line
<1>6. LinesOf(LineText(setting, s)) # << >>
  BY <1>5, EmptyIsSeq
<1> HIDE DEF home
<1>7. \A p \in Places : Has(p) <=> p = home
  <2>1. \A p \in Places : IsSeq(out[p])
    BY DEF LineWritten, LineInv, FilesInv
  <2>2. ASSUME NEW p \in Places PROVE RowsAt(out[p], n) = << >> <=> ~Has(p)
    BY <2>1, RowsAtIs
  <2> QED BY <1>2, <1>6, <2>2
<1>8. (CHOOSE p \in Places : Has(p)) = home
  <2> HIDE DEF Has
  <2> QED BY <1>3, <1>7
<1> DEFINE place == CHOOSE p \in Places : Has(p)
<1>10. RowsOf(n) = RowsAt(out[place], n)
  BY DEF RowsOf, RowsAt, LinePlaces
<1>9. RowsOf(n) = RowsAt(out[home], n)
  BY <1>8, <1>10
<1> QED BY <1>2, <1>3, <1>9 DEF s

-----------------------------------------------------------------------------
(* A message with each placeholder replaced once *)

LEMMA BracesDiffer == OpenBrace # CloseBrace
BY DEF OpenBrace, CloseBrace

\* The pairs of a context whose placeholder a text begins with
Begins(t, C) == {k \in DOMAIN C : IsPrefix(Placeholder(C[k].key), t)}

\* A prefix, character by character
LEMMA PrefixIs ==
  ASSUME NEW p, NEW t, IsSeq(p), IsSeq(t)
  PROVE  IsPrefix(p, t) <=> Len(p) <= Len(t) /\ \A i \in 1..Len(p) : t[i] = p[i]
<1>1. PICK S : p \in Seq(S) /\ t \in Seq(S)
  BY BothAreSeq
<1>2. Len(p) \in Nat /\ Len(t) \in Nat
  BY SeqIs
<1> DEFINE n == Len(p)
           a == SubSeq(p, 1, n)
           b == SubSeq(t, 1, n)
<1>3. ASSUME n <= Len(t)
      PROVE  /\ IsSeq(a) /\ Len(a) = n /\ \A i \in 1..n : a[i] = p[i]
             /\ IsSeq(b) /\ Len(b) = n /\ \A i \in 1..n : b[i] = t[i]
  <2>1. /\ a \in Seq(S) /\ Len(a) = (IF 1 <= n THEN n - 1 + 1 ELSE 0)
        /\ \A i \in 1..(n - 1 + 1) : a[i] = p[1 + i - 1]
    BY <1>1, <1>2, PartIs
  <2>2. /\ b \in Seq(S) /\ Len(b) = (IF 1 <= n THEN n - 1 + 1 ELSE 0)
        /\ \A i \in 1..(n - 1 + 1) : b[i] = t[1 + i - 1]
    BY <1>1, <1>2, <1>3, PartIs
  <2>3. n - 1 + 1 = n /\ (IF 1 <= n THEN n - 1 + 1 ELSE 0) = n
        /\ \A i \in 1..n : 1 + i - 1 = i
    BY <1>2
  <2>4. IsSeq(a) /\ IsSeq(b)
    BY <2>1, <2>2 DEF IsSeq
  <2> HIDE DEF a, b, n
  <2> QED BY <2>1, <2>2, <2>3, <2>4
<1>4. IsPrefix(p, t) <=> n <= Len(t) /\ a = b
  BY DEF IsPrefix
<1>5. ASSUME n <= Len(t) PROVE a = b <=> \A i \in 1..n : t[i] = p[i]
  <2>1. a = b => \A i \in 1..n : t[i] = p[i]
    BY <1>3, <1>5
  <2>2. (\A i \in 1..n : t[i] = p[i]) => a = b
    <3> HIDE DEF a, b
    <3> QED BY <1>3, <1>5, SeqsEqual
  <2> QED BY <2>1, <2>2
<1> QED BY <1>4, <1>5

\* A rest as a SubSeq
LEMMA RestIsPart ==
  ASSUME NEW t, IsSeq(t), NEW k \in 1..(Len(t) + 1)
  PROVE  SubSeq(t, k, Len(t)) = Rest(t, k - 1)
<1> DEFINE a == SubSeq(t, k, Len(t))
           b == Rest(t, k - 1)
<1>1. Len(t) \in Nat /\ k \in Nat \ {0} /\ k - 1 \in 0..Len(t) /\ Len(t) <= Len(t)
  BY SeqIs
<1>2. PICK S : t \in Seq(S)
  BY DEF IsSeq
<1>3. /\ a \in Seq(S) /\ Len(a) = (IF k <= Len(t) THEN Len(t) - k + 1 ELSE 0)
      /\ \A i \in 1..(Len(t) - k + 1) : a[i] = t[k + i - 1]
  BY <1>1, <1>2, PartIs
<1>4. /\ IsSeq(b) /\ Len(b) = Len(t) - (k - 1)
      /\ \A i \in 1..(Len(t) - (k - 1)) : b[i] = t[(k - 1) + i]
  BY <1>1, RestIs
<1>5. IsSeq(a)
  BY <1>3 DEF IsSeq
<1> HIDE DEF a, b
<1>6. Len(a) = Len(t) - (k - 1)
  BY <1>1, <1>3
<1>7. ASSUME NEW i \in 1..Len(a) PROVE a[i] = b[i]
  <2>1. i \in 1..(Len(t) - k + 1) /\ i \in 1..(Len(t) - (k - 1)) /\ k + i - 1 = (k - 1) + i
    BY <1>1, <1>6
  <2> QED BY <1>3, <1>4, <2>1
<1>8. a = b
  BY <1>4, <1>5, <1>6, <1>7, SeqsEqual
<1> QED BY <1>8 DEF a, b

\* The step of Interpolation at a place of the message
PutIn(m, C, f, i) ==
  LET B == Begins(Rest(m, i - 1), C) IN
  IF i > Len(m) THEN << >>
  ELSE IF B = {} THEN <<m[i]>> \o f[i + 1]
  ELSE C[Min(B)].value \o f[i + Len(Placeholder(C[Min(B)].key))]

LEMMA InterpolationIs ==
  ASSUME NEW m, IsSeq(m), NEW C
  PROVE  LET F == CHOOSE f : f = [i \in 1..(Len(m) + 1) |-> PutIn(m, C, f, i)]
         IN Interpolation(m, C) = F[1]
<1> DEFINE At(i) == {k \in DOMAIN C :
                      IsPrefix(Placeholder(C[k].key), SubSeq(m, i, Len(m)))}
           Step(f, i) == IF i > Len(m) THEN << >>
                         ELSE IF At(i) = {} THEN <<m[i]>> \o f[i + 1]
                         ELSE LET pair == C[Min(At(i))]
                              IN pair.value \o f[i + Len(Placeholder(pair.key))]
           E == CHOOSE f : f = [i \in 1..(Len(m) + 1) |-> Step(f, i)]
           F == CHOOSE f : f = [i \in 1..(Len(m) + 1) |-> PutIn(m, C, f, i)]
<1>1. Interpolation(m, C) = E[1]
  BY DEF Interpolation
<1>2. ASSUME NEW f, NEW i \in 1..(Len(m) + 1) PROVE Step(f, i) = PutIn(m, C, f, i)
  <2>1. At(i) = Begins(Rest(m, i - 1), C)
    BY RestIsPart DEF Begins
  <2> QED BY <2>1 DEF PutIn
<1> HIDE DEF Step
<1>3. \A f : [i \in 1..(Len(m) + 1) |-> Step(f, i)] = [i \in 1..(Len(m) + 1) |-> PutIn(m, C, f, i)]
  BY <1>2
<1>4. E = F
  BY <1>3
<1> QED BY <1>1, <1>4

\* What begins a text has a length, and a rest behind it.
LEMMA BeginsAre ==
  ASSUME NEW C, IsContext(C), NEW t, IsSeq(t)
  PROVE  /\ Begins(t, C) \in SUBSET (1..Len(C)) /\ Begins(t, C) \in SUBSET Nat
         /\ \A k \in Begins(t, C) : LET p == Placeholder(C[k].key) IN
              /\ IsSeq(p) /\ Len(p) \in Nat \ {0} /\ Len(p) <= Len(t)
              /\ t = p \o Rest(t, Len(p)) /\ IsSeq(C[k].value)
         /\ Begins(t, C) # {} => Min(Begins(t, C)) \in Begins(t, C)
<1>1. DOMAIN C = 1..Len(C) /\ Len(C) \in Nat
  BY SeqIs DEF IsContext
<1>2. Begins(t, C) \in SUBSET (1..Len(C)) /\ Begins(t, C) \in SUBSET Nat
  BY <1>1 DEF Begins
<1>3. ASSUME NEW k \in Begins(t, C)
      PROVE  LET p == Placeholder(C[k].key) IN
             /\ IsSeq(p) /\ Len(p) \in Nat \ {0} /\ Len(p) <= Len(t)
             /\ t = p \o Rest(t, Len(p)) /\ IsSeq(C[k].value)
  <2> DEFINE p == Placeholder(C[k].key)
  <2>1. IsSeq(C[k].key) /\ IsSeq(C[k].value)
    BY <1>2 DEF IsContext
  <2>2. IsSeq(p) /\ Len(p) > 0
    BY <2>1, PlaceholderIs
  <2>3. IsPrefix(p, t)
    BY DEF Begins
  <2> HIDE DEF p
  <2>4. Len(p) <= Len(t) /\ \A i \in 1..Len(p) : t[i] = p[i]
    BY <2>2, <2>3, PrefixIs
  <2>5. t = p \o Rest(t, Len(p))
    BY <2>2, <2>4, SplitIs
  <2>6. Len(p) \in Nat \ {0}
    BY <2>2, SeqIs
  <2> QED BY <2>1, <2>2, <2>4, <2>5, <2>6 DEF p
<1>4. Begins(t, C) # {} => Min(Begins(t, C)) \in Begins(t, C)
  BY <1>2, Minimum
<1> QED BY <1>2, <1>3, <1>4

\* The recursion over a message has a result.
LEMMA PutInThere ==
  ASSUME NEW C, IsContext(C), NEW m, IsSeq(m)
  PROVE  \E f : f = [i \in 1..(Len(m) + 1) |-> PutIn(m, C, f, i)]
<1> DEFINE n == Len(m)
           IsFun(f) == f = [i \in 1..(n + 1) |-> f[i]]
           G == {l \in Nat : l <= n =>
                   \E f : IsFun(f) /\ \A i \in (n + 1 - l)..(n + 1) : f[i] = PutIn(m, C, f, i)}
<1>1. n \in Nat
  BY SeqIs
<1>2. ASSUME NEW f, NEW g, NEW i \in 1..(n + 1), \A j \in (i + 1)..(n + 1) : f[j] = g[j]
      PROVE  PutIn(m, C, f, i) = PutIn(m, C, g, i)
  <2> DEFINE t == Rest(m, i - 1)
             B == Begins(t, C)
             k == Min(B)
  <2>1. IsSeq(t) /\ Len(t) = n - (i - 1)
    <3>1. i - 1 \in 0..n
      BY <1>1
    <3> QED BY <3>1, RestIs
  <2>2. i <= n => f[i + 1] = g[i + 1]
    <3>1. i <= n => i + 1 \in (i + 1)..(n + 1)
      BY <1>1
    <3> QED BY <1>2, <3>1
  <2>3. B # {} => f[i + Len(Placeholder(C[k].key))] = g[i + Len(Placeholder(C[k].key))]
    <3> DEFINE l == Len(Placeholder(C[k].key))
    <3> SUFFICES ASSUME B # {} PROVE f[i + l] = g[i + l]
      OBVIOUS
    <3>1. l \in Nat \ {0} /\ l <= Len(t)
      <4> HIDE DEF t
      <4> QED BY <2>1, BeginsAre
    <3> HIDE DEF l, t
    <3>2. i + l \in (i + 1)..(n + 1)
      BY <1>1, <2>1, <3>1
    <3> QED BY <1>2, <3>2
  <2>4. PutIn(m, C, f, i) = IF i > n THEN << >> ELSE IF B = {} THEN <<m[i]>> \o f[i + 1]
                            ELSE C[k].value \o f[i + Len(Placeholder(C[k].key))]
    BY DEF PutIn
  <2>5. PutIn(m, C, g, i) = IF i > n THEN << >> ELSE IF B = {} THEN <<m[i]>> \o g[i + 1]
                            ELSE C[k].value \o g[i + Len(Placeholder(C[k].key))]
    BY DEF PutIn
  <2>6. i <= n \/ i > n
    BY <1>1
  <2> HIDE DEF B, k, t, n
  <2> QED BY <2>2, <2>3, <2>4, <2>5, <2>6
<1>3. ASSUME NEW l \in Nat, \A j \in Nat : j < l => j \in G PROVE l \in G
  <2> SUFFICES ASSUME l <= n
               PROVE  \E f : IsFun(f) /\ \A i \in (n + 1 - l)..(n + 1) : f[i] = PutIn(m, C, f, i)
    OBVIOUS
  <2> DEFINE at == n + 1 - l
  <2>0. at \in 1..(n + 1)
    BY <1>1
  <2>1. PICK f : IsFun(f) /\ \A i \in (at + 1)..(n + 1) : f[i] = PutIn(m, C, f, i)
    <3>1. CASE l = 0
      <4> DEFINE f == [i \in 1..(n + 1) |-> 0]
      <4>1. IsFun(f) /\ (at + 1)..(n + 1) = {}
        BY <1>1, <3>1
      <4> HIDE DEF f, at
      <4> QED BY <4>1
    <3>2. CASE l # 0
      <4>1. l - 1 \in Nat /\ l - 1 < l /\ l - 1 <= n /\ n + 1 - (l - 1) = at + 1
        BY <1>1, <3>2
      <4>2. l - 1 \in G
        BY <1>3, <4>1
      <4> HIDE DEF at, IsFun
      <4> QED BY <4>1, <4>2
    <3> QED BY <3>1, <3>2
  <2> DEFINE g == [i \in 1..(n + 1) |-> IF i = at THEN PutIn(m, C, f, i) ELSE f[i]]
  <2>2. IsFun(g)
    OBVIOUS
  <2>3. \A j \in 1..(n + 1) : g[j] = IF j = at THEN PutIn(m, C, f, j) ELSE f[j]
    OBVIOUS
  <2> HIDE DEF g, IsFun, at
  <2>4. ASSUME NEW i \in at..(n + 1) PROVE g[i] = PutIn(m, C, g, i)
    <3>1. i \in 1..(n + 1) /\ at \in Nat
      BY <1>1, <2>0
    <3>2. \A j \in (i + 1)..(n + 1) : f[j] = g[j]
      <4>1. \A j \in (i + 1)..(n + 1) : j \in 1..(n + 1) /\ j # at
        BY <1>1, <3>1
      <4> QED BY <2>3, <4>1
    <3>3. PutIn(m, C, f, i) = PutIn(m, C, g, i)
      BY <1>2, <3>1, <3>2
    <3>4. g[i] = PutIn(m, C, f, i)
      <4>1. CASE i = at
        BY <2>3, <3>1, <4>1
      <4>2. CASE i # at
        <5>1. i \in (at + 1)..(n + 1)
          BY <1>1, <3>1, <4>2
        <5> QED BY <2>1, <2>3, <3>1, <4>2, <5>1
      <4> QED BY <4>1, <4>2
    <3> QED BY <3>3, <3>4
  <2> QED BY <2>2, <2>4 DEF at
<1> HIDE DEF G
<1>4. Nat \subseteq G
  BY <1>3, AllNumbers
<1>5. n \in G
  BY <1>1, <1>4
<1>6. PICK f : IsFun(f) /\ \A i \in (n + 1 - n)..(n + 1) : f[i] = PutIn(m, C, f, i)
  <2> HIDE DEF IsFun
  <2> QED BY <1>1, <1>5 DEF G
<1>7. n + 1 - n = 1
  BY <1>1
<1>8. f = [i \in 1..(n + 1) |-> PutIn(m, C, f, i)]
  BY <1>6, <1>7
<1> QED BY <1>8

PutTable(F, m, C) == \A i \in 1..(Len(m) + 1) : F[i] = PutIn(m, C, F, i)

LEMMA PutTableThere ==
  ASSUME NEW C, IsContext(C), NEW m, IsSeq(m)
  PROVE  \E F : Interpolation(m, C) = F[1] /\ PutTable(F, m, C)
<1> DEFINE F == CHOOSE f : f = [i \in 1..(Len(m) + 1) |-> PutIn(m, C, f, i)]
<1>1. Interpolation(m, C) = F[1]
  BY InterpolationIs
<1>2. F = [i \in 1..(Len(m) + 1) |-> PutIn(m, C, F, i)]
  BY PutInThere
<1> HIDE DEF F
<1>3. PutTable(F, m, C)
  BY <1>2 DEF PutTable
<1> QED BY <1>1, <1>3

LEMMA PutTableShift ==
  ASSUME NEW C, IsContext(C), NEW m, IsSeq(m), NEW k \in 0..Len(m), NEW F, NEW H,
         PutTable(F, m, C), PutTable(H, Rest(m, k), C)
  PROVE  F[k + 1] = H[1]
<1> DEFINE r == Rest(m, k)
           n == Len(m)
           l == Len(m) - k
           G == {d \in Nat : d <= l => F[n + 1 - d] = H[l + 1 - d]}
<1>1. /\ n \in Nat /\ k \in Nat /\ l \in Nat /\ IsSeq(r) /\ Len(r) = l /\ n = k + l
      /\ \A i \in 1..l : r[i] = m[k + i]
  BY SeqIs, RestIs
<1>2. /\ \A i \in 1..(n + 1) : F[i] = PutIn(m, C, F, i)
      /\ \A i \in 1..(l + 1) : H[i] = PutIn(r, C, H, i)
  BY <1>1 DEF PutTable
<1>0. Len(m) = n
  OBVIOUS
<1>9. \A j \in Nat : k + j <= n => Rest(r, j) = Rest(m, k + j)
  BY <1>1, RestOfRest
<1> HIDE DEF n, l, r
<1>3. ASSUME NEW d \in Nat, \A j \in Nat : j < d => j \in G PROVE d \in G
  <2> SUFFICES ASSUME d <= l PROVE F[n + 1 - d] = H[l + 1 - d]
    OBVIOUS
  <2> DEFINE i == n + 1 - d
             j == l + 1 - d
             t == Rest(m, i - 1)
             B == Begins(t, C)
             b == Min(B)
  <2>1. /\ i \in 1..(n + 1) /\ j \in 1..(l + 1) /\ i = k + j /\ j - 1 \in Nat
        /\ (i > n <=> j > l) /\ k + (j - 1) = i - 1 /\ i - 1 <= n /\ i - 1 \in 0..n
    BY <1>1
  <2>2. F[i] = PutIn(m, C, F, i) /\ H[j] = PutIn(r, C, H, j)
    BY <1>2, <2>1
  <2>3. i <= n => r[j] = m[i]
    <3>1. i <= n => j \in 1..l
      BY <1>1
    <3> QED BY <1>1, <2>1, <3>1
  <2>4. Rest(r, j - 1) = t /\ IsSeq(t) /\ Len(t) = n - (i - 1)
    BY <1>0, <1>9, <2>1, RestIs
  <2>5. \A q \in Nat \ {0} : q <= d => F[i + q] = H[j + q]
    <3>1. ASSUME NEW q \in Nat \ {0}, q <= d PROVE F[i + q] = H[j + q]
      <4>1. d - q \in Nat /\ d - q < d /\ d - q <= l /\ n + 1 - (d - q) = i + q /\ l + 1 - (d - q) = j + q
        BY <1>1, <3>1
      <4> QED BY <1>3, <4>1
    <3> QED BY <3>1
  <2> HIDE DEF t
  <2>6. B # {} => F[i + Len(Placeholder(C[b].key))] = H[j + Len(Placeholder(C[b].key))]
    <3> DEFINE q == Len(Placeholder(C[b].key))
    <3> SUFFICES ASSUME B # {} PROVE F[i + q] = H[j + q]
      OBVIOUS
    <3>1. q \in Nat \ {0} /\ q <= Len(t)
      BY <2>4, BeginsAre
    <3> HIDE DEF q, B, b
    <3>2. q <= d
      BY <1>1, <2>4, <3>1
    <3> QED BY <2>5, <3>1, <3>2
  <2>7. i <= n => F[i + 1] = H[j + 1]
    <3>1. i <= n => 1 <= d
      BY <1>1
    <3> QED BY <2>5, <3>1
  <2>8. F[i] = IF i > n THEN << >> ELSE IF B = {} THEN <<m[i]>> \o F[i + 1]
               ELSE C[b].value \o F[i + Len(Placeholder(C[b].key))]
    BY <1>0, <2>2 DEF PutIn, t
  <2>9. H[j] = IF j > l THEN << >> ELSE IF B = {} THEN <<r[j]>> \o H[j + 1]
               ELSE C[b].value \o H[j + Len(Placeholder(C[b].key))]
    BY <1>1, <2>2, <2>4 DEF PutIn
  <2>10. i > n \/ i <= n
    BY <1>1
  <2> HIDE DEF i, j, B, b
  <2>11. F[i] = H[j]
    BY <2>1, <2>3, <2>6, <2>7, <2>8, <2>9, <2>10
  <2> QED BY <2>11 DEF i, j
<1> HIDE DEF G
<1>4. Nat \subseteq G
  BY <1>3, AllNumbers
<1>5. l \in G /\ n + 1 - l = k + 1 /\ l + 1 - l = 1
  BY <1>1, <1>4
<1> QED BY <1>1, <1>5 DEF G

\* A message is read from its start: a placeholder gives its value, any other
\* character itself.
LEMMA InterpolationGoes ==
  ASSUME NEW C, IsContext(C), NEW m, IsSeq(m)
  PROVE  LET B == Begins(m, C)
             k == Min(B)
         IN /\ m = << >> => Interpolation(m, C) = << >>
            /\ m # << >> /\ B = {}
                 => Interpolation(m, C) = Led(m[1], Interpolation(Rest(m, 1), C))
            /\ B # {} => Interpolation(m, C) =
                 C[k].value \o Interpolation(Rest(m, Len(Placeholder(C[k].key))), C)
<1> DEFINE B == Begins(m, C)
           k == Min(B)
           l == Len(Placeholder(C[k].key))
<1>1. PICK F : Interpolation(m, C) = F[1] /\ PutTable(F, m, C)
  BY PutTableThere
<1>2. Len(m) \in Nat /\ (m = << >> <=> Len(m) = 0)
  BY SeqIs, FirstIs, EmptyIsSeq
<1>3. ASSUME NEW j \in 0..Len(m) PROVE F[j + 1] = Interpolation(Rest(m, j), C)
  <2>1. IsSeq(Rest(m, j))
    BY RestIs
  <2>2. PICK H : Interpolation(Rest(m, j), C) = H[1] /\ PutTable(H, Rest(m, j), C)
    BY <2>1, PutTableThere
  <2> QED BY <1>1, <2>2, PutTableShift
<1>4. Rest(m, 1 - 1) = m
  <2> DEFINE r == Rest(m, 1 - 1)
  <2>1. /\ IsSeq(r) /\ Len(r) = Len(m) - (1 - 1)
        /\ \A i \in 1..(Len(m) - (1 - 1)) : r[i] = m[(1 - 1) + i]
    <3>1. 1 - 1 \in 0..Len(m)
      BY <1>2
    <3> QED BY <3>1, RestIs
  <2> HIDE DEF r
  <2>2. Len(r) = Len(m) /\ \A i \in 1..Len(r) : r[i] = m[i]
    BY <1>2, <2>1
  <2>3. r = m
    BY <2>1, <2>2, SeqsEqual
  <2> QED BY <2>3 DEF r
<1>5. F[1] = IF 1 > Len(m) THEN << >> ELSE IF B = {} THEN <<m[1]>> \o F[1 + 1]
             ELSE C[k].value \o F[1 + l]
  <2>1. F[1] = PutIn(m, C, F, 1)
    <3>1. 1 \in 1..(Len(m) + 1)
      BY <1>2
    <3> QED BY <1>1, <3>1 DEF PutTable
  <2> QED BY <1>4, <2>1 DEF PutIn
<1>6. B # {} => l \in Nat \ {0} /\ l <= Len(m)
  BY BeginsAre
<1> HIDE DEF B, k, l
<1>7. m = << >> => Interpolation(m, C) = << >>
  BY <1>1, <1>2, <1>5
<1>8. ASSUME m # << >>, B = {}
      PROVE  Interpolation(m, C) = Led(m[1], Interpolation(Rest(m, 1), C))
  <2>1. ~(1 > Len(m)) /\ 1 \in 0..Len(m)
    BY <1>2, <1>8
  <2>2. F[1 + 1] = Interpolation(Rest(m, 1), C)
    BY <1>3, <2>1
  <2> QED BY <1>1, <1>5, <1>8, <2>1, <2>2 DEF Led
<1>9. ASSUME B # {} PROVE Interpolation(m, C) = C[k].value \o Interpolation(Rest(m, l), C)
  <2>1. ~(1 > Len(m)) /\ l \in 0..Len(m) /\ l + 1 = 1 + l
    BY <1>2, <1>6, <1>9
  <2>2. F[l + 1] = Interpolation(Rest(m, l), C)
    BY <1>3, <2>1
  <2> QED BY <1>1, <1>5, <1>9, <2>1, <2>2
<1> QED BY <1>7, <1>8, <1>9 DEF B, k, l

-----------------------------------------------------------------------------
(* A replacement, from the start of the text *)

\* SubSeq from the start, whatever its elements are
LEMMA BeginningIs ==
  ASSUME NEW t, IsSeq(t), NEW k \in 0..Len(t)
  PROVE  /\ IsSeq(SubSeq(t, 1, k)) /\ Len(SubSeq(t, 1, k)) = k
         /\ \A i \in 1..k : SubSeq(t, 1, k)[i] = t[i]
<1> DEFINE a == SubSeq(t, 1, k)
<1>1. Len(t) \in Nat /\ k \in Nat /\ k <= Len(t) /\ 1 \in Nat \ {0}
  BY SeqIs
<1>2. PICK S : t \in Seq(S)
  BY DEF IsSeq
<1>3. /\ a \in Seq(S) /\ Len(a) = (IF 1 <= k THEN k - 1 + 1 ELSE 0)
      /\ \A i \in 1..(k - 1 + 1) : a[i] = t[1 + i - 1]
  BY <1>1, <1>2, PartIs
<1>4. (IF 1 <= k THEN k - 1 + 1 ELSE 0) = k /\ k - 1 + 1 = k /\ \A i \in 1..k : 1 + i - 1 = i
  BY <1>1
<1>5. IsSeq(a)
  BY <1>3 DEF IsSeq
<1> HIDE DEF a
<1>6. \A i \in 1..k : a[i] = t[i]
  BY <1>3, <1>4
<1> QED BY <1>3, <1>4, <1>5, <1>6 DEF a

\* A start, character by character
LEMMA StartsIs ==
  ASSUME NEW p, IsSeq(p), NEW t, IsSeq(t), NEW i
  PROVE  i \in Starts(p, t) <=>
           /\ i \in Nat \ {0} /\ i + Len(p) <= Len(t) + 1
           /\ \A j \in 1..Len(p) : t[i + j - 1] = p[j]
<1>1. Len(p) \in Nat /\ Len(t) \in Nat
  BY SeqIs
<1> DEFINE l == Len(p)
           n == Len(t)
           a == SubSeq(t, i, i + l - 1)
<1>2. i \in Starts(p, t) <=> i \in 1..(n - l + 1) /\ a = p
  BY DEF Starts
<1>3. i \in 1..(n - l + 1) <=> i \in Nat \ {0} /\ i + l <= n + 1
  BY <1>1
<1>4. ASSUME i \in Nat \ {0}, i + l <= n + 1
      PROVE  a = p <=> \A j \in 1..l : t[i + j - 1] = p[j]
  <2>1. PICK S : t \in Seq(S)
    BY DEF IsSeq
  <2> DEFINE m == i + l - 1
  <2>2. m \in Nat /\ m <= n /\ m - i + 1 = l /\ (IF i <= m THEN m - i + 1 ELSE 0) = l
    BY <1>1, <1>4
  <2> HIDE DEF m
  <2>3. /\ SubSeq(t, i, m) \in Seq(S) /\ Len(SubSeq(t, i, m)) = (IF i <= m THEN m - i + 1 ELSE 0)
        /\ \A j \in 1..(m - i + 1) : SubSeq(t, i, m)[j] = t[i + j - 1]
    BY <1>4, <2>1, <2>2, PartIs
  <2>4. IsSeq(a) /\ Len(a) = l /\ \A j \in 1..l : a[j] = t[i + j - 1]
    BY <2>2, <2>3 DEF IsSeq, m
  <2> HIDE DEF a
  <2>5. a = p => \A j \in 1..l : t[i + j - 1] = p[j]
    BY <2>4
  <2>6. (\A j \in 1..l : t[i + j - 1] = p[j]) => a = p
    BY <2>4, SeqsEqual
  <2> QED BY <2>5, <2>6
<1> QED BY <1>2, <1>3, <1>4

\* The starts in a text: its own, if it begins so, and those in what follows
LEMMA StartsGo ==
  ASSUME NEW p, IsSeq(p), Len(p) > 0, NEW t, IsSeq(t), t # << >>
  PROVE  /\ 1 \in Starts(p, t) <=> IsPrefix(p, t)
         /\ \A i \in Nat \ {0} : i + 1 \in Starts(p, t) <=> i \in Starts(p, Rest(t, 1))
<1> DEFINE u == Rest(t, 1)
<1>1. Len(p) \in Nat /\ Len(t) \in Nat \ {0} /\ IsSeq(u) /\ Len(u) = Len(t) - 1
  BY SeqIs, FirstIs
<1>2. \A i \in 1..(Len(t) - 1) : u[i] = t[1 + i]
  <2>1. 1 \in 0..Len(t)
    BY <1>1
  <2> QED BY <2>1, RestIs
<1> HIDE DEF u
<1>3. 1 \in Starts(p, t) <=> IsPrefix(p, t)
  <2>1. \A j \in 1..Len(p) : 1 + j - 1 = j
    OBVIOUS
  <2>2. 1 + Len(p) <= Len(t) + 1 <=> Len(p) <= Len(t)
    BY <1>1
  <2> QED BY <2>1, <2>2, StartsIs, PrefixIs
<1>4. ASSUME NEW i \in Nat \ {0} PROVE i + 1 \in Starts(p, t) <=> i \in Starts(p, u)
  <2> DEFINE k == i + 1
  <2>0. k \in Nat \ {0}
    OBVIOUS
  <2>1. k \in Starts(p, t) <=> /\ k + Len(p) <= Len(t) + 1
                               /\ \A j \in 1..Len(p) : t[k + j - 1] = p[j]
    <3> HIDE DEF k
    <3>1. k \in Starts(p, t) <=> /\ k \in Nat \ {0} /\ k + Len(p) <= Len(t) + 1
                                 /\ \A j \in 1..Len(p) : t[k + j - 1] = p[j]
      BY StartsIs
    <3> QED BY <2>0, <3>1
  <2>2. i \in Starts(p, u) <=> /\ i + Len(p) <= Len(u) + 1
                               /\ \A j \in 1..Len(p) : u[i + j - 1] = p[j]
    <3>1. i \in Starts(p, u) <=> /\ i \in Nat \ {0} /\ i + Len(p) <= Len(u) + 1
                                 /\ \A j \in 1..Len(p) : u[i + j - 1] = p[j]
      <4>1. IsSeq(u)
        BY <1>1
      <4> DEFINE m == i
      <4> HIDE DEF k, m
      <4>2. m \in Starts(p, u) <=> /\ m \in Nat \ {0} /\ m + Len(p) <= Len(u) + 1
                                   /\ \A j \in 1..Len(p) : u[m + j - 1] = p[j]
        BY <4>1, StartsIs
      <4> QED BY <4>2 DEF m
    <3> HIDE DEF k
    <3> QED BY <3>1
  <2>3. (i + 1) + Len(p) <= Len(t) + 1 <=> i + Len(p) <= Len(u) + 1
    BY <1>1
  <2>4. ASSUME i + Len(p) <= Len(u) + 1, NEW j \in 1..Len(p)
        PROVE  u[i + j - 1] = t[(i + 1) + j - 1]
    <3>1. i + j - 1 \in 1..(Len(t) - 1) /\ 1 + (i + j - 1) = (i + 1) + j - 1
      BY <1>1, <2>4
    <3> QED BY <1>2, <3>1
  <2> QED BY <2>1, <2>2, <2>3, <2>4
<1> QED BY <1>3, <1>4 DEF u

\* The smallest is the smallest.
LEMMA MinimumIs ==
  ASSUME NEW T \in SUBSET Nat, NEW x \in T, \A y \in T : x <= y
  PROVE  Min(T) = x
<1> DEFINE z == Min(T)
<1>1. z \in T /\ \A y \in T : z <= y
  <2>1. T # {}
    OBVIOUS
  <2> HIDE DEF z
  <2> QED BY <2>1, Minimum DEF z
<1> HIDE DEF z
<1>2. z \in Nat /\ x \in Nat /\ z <= x /\ x <= z
  BY <1>1
<1>3. z = x
  BY <1>2
<1> QED BY <1>3 DEF z

\* What str_replace does with one occurrence, from the start of the text
LEMMA ReplaceGoes ==
  ASSUME NEW p, IsSeq(p), Len(p) > 0, NEW v, IsSeq(v), NEW t, IsSeq(t)
  PROVE  /\ t = << >> => ~Occurs(p, t)
         /\ IsPrefix(p, t) => /\ Occurs(p, t)
                              /\ ReplaceFirstText(t, p, v) = v \o Rest(t, Len(p))
         /\ t # << >> /\ ~IsPrefix(p, t) =>
              /\ Occurs(p, t) <=> Occurs(p, Rest(t, 1))
              /\ ReplaceFirstText(t, p, v) = Led(t[1], ReplaceFirstText(Rest(t, 1), p, v))
<1>1. Len(p) \in Nat /\ Len(t) \in Nat /\ (t = << >> <=> Len(t) = 0) /\ 1 <= Len(p)
  BY SeqIs, FirstIs, EmptyIsSeq
<1>2. t = << >> => ~Occurs(p, t)
  <2> SUFFICES ASSUME Len(t) = 0, NEW i \in Starts(p, t) PROVE FALSE
    BY <1>1 DEF Occurs
  <2>1. i \in Nat \ {0} /\ i + Len(p) <= Len(t) + 1
    BY StartsIs
  <2> QED BY <1>1, <2>1
<1>3. ASSUME NEW s, IsSeq(s), Occurs(p, s)
      PROVE  LET i == Min(Starts(p, s)) IN
             /\ i \in Starts(p, s) /\ i \in Nat \ {0} /\ i + Len(p) <= Len(s) + 1
             /\ i - 1 \in 0..Len(s) /\ (i - 1) + Len(p) \in 0..Len(s)
             /\ ReplaceFirstText(s, p, v) = (SubSeq(s, 1, i - 1) \o v) \o Rest(s, (i - 1) + Len(p))
             /\ \A j \in Starts(p, s) : i <= j
  <2> DEFINE i == Min(Starts(p, s))
  <2>0. Len(s) \in Nat
    BY <1>3, SeqIs
  <2>1. Starts(p, s) \in SUBSET Nat /\ Starts(p, s) # {}
    BY <1>3, StartsAre DEF Occurs
  <2>2. i \in Starts(p, s) /\ \A j \in Starts(p, s) : i <= j
    BY <2>1, Minimum
  <2>3. i \in Nat \ {0} /\ i + Len(p) <= Len(s) + 1
    BY <1>3, <2>2, StartsIs
  <2>4. ReplaceFirstText(s, p, v) = (SubSeq(s, 1, i - 1) \o v) \o SubSeq(s, i + Len(p), Len(s))
    BY <1>3 DEF ReplaceFirstText, ReplaceSubSeqAt
  <2> HIDE DEF i
  <2>5. i + Len(p) \in 1..(Len(s) + 1) /\ (i + Len(p)) - 1 = (i - 1) + Len(p)
    BY <1>1, <2>0, <2>3
  <2>6. SubSeq(s, i + Len(p), Len(s)) = Rest(s, (i + Len(p)) - 1)
    BY <1>3, <2>5, RestIsPart
  <2>7. i - 1 \in 0..Len(s) /\ (i - 1) + Len(p) \in 0..Len(s)
    BY <1>1, <2>0, <2>3
  <2> QED BY <2>2, <2>3, <2>4, <2>5, <2>6, <2>7 DEF i
<1>4. ASSUME IsPrefix(p, t)
      PROVE  Occurs(p, t) /\ ReplaceFirstText(t, p, v) = v \o Rest(t, Len(p))
  <2>1. t # << >>
    BY <1>1, <1>4, PrefixIs
  <2>2. 1 \in Starts(p, t)
    BY <1>4, <2>1, StartsGo
  <2>3. Occurs(p, t)
    BY <2>2 DEF Occurs
  <2>4. Min(Starts(p, t)) = 1
    <3>1. Starts(p, t) \in SUBSET Nat
      BY StartsAre
    <3>2. \A j \in Starts(p, t) : 1 <= j
      BY StartsIs
    <3> QED BY <2>2, <3>1, <3>2, MinimumIs
  <2>5. ReplaceFirstText(t, p, v) = (SubSeq(t, 1, 0) \o v) \o Rest(t, Len(p))
    <3>1. 1 - 1 = 0 /\ 0 + Len(p) = Len(p)
      BY <1>1
    <3> QED BY <1>3, <2>3, <2>4, <3>1
  <2>6. SubSeq(t, 1, 0) = << >>
    <3>1. 0 \in 0..Len(t)
      BY <1>1
    <3>2. IsSeq(SubSeq(t, 1, 0)) /\ Len(SubSeq(t, 1, 0)) = 0
      BY <3>1, BeginningIs
    <3> QED BY <3>2, EmptyIsSeq, SeqsEqual
  <2> QED BY <2>3, <2>5, <2>6, ConcatEmpty
<1>5. ASSUME t # << >>, ~IsPrefix(p, t)
      PROVE  /\ Occurs(p, t) <=> Occurs(p, Rest(t, 1))
             /\ ReplaceFirstText(t, p, v) = Led(t[1], ReplaceFirstText(Rest(t, 1), p, v))
  <2> DEFINE u == Rest(t, 1)
             c == t[1]
  <2>1. IsSeq(u) /\ Len(u) = Len(t) - 1 /\ t = Led(c, u) /\ Len(u) \in Nat
    BY <1>1, <1>5, FirstIs DEF Led
  <2>2. 1 \notin Starts(p, t) /\ \A i \in Nat \ {0} : i + 1 \in Starts(p, t) <=> i \in Starts(p, u)
    BY <1>5, StartsGo
  <2>3. \A i \in Starts(p, t) : i \in Nat \ {0}
    BY StartsIs
  <2>4. \A i \in Starts(p, u) : i \in Nat \ {0}
    BY <2>1, StartsIs
  <2>10. \A k \in Nat : 1 + k <= Len(t) => Rest(u, k) = Rest(t, 1 + k)
    BY RestOfRest
  <2>11. \A i \in 1..Len(u) : u[i] = t[1 + i]
    <3>1. 1 \in 0..Len(t)
      BY <1>1, <1>5
    <3> QED BY <2>1, <3>1, RestIs
  <2>12. \A k \in 0..Len(u) : SubSeq(t, 1, k + 1) = Led(c, SubSeq(u, 1, k))
    <3> SUFFICES ASSUME NEW k \in 0..Len(u) PROVE SubSeq(t, 1, k + 1) = Led(c, SubSeq(u, 1, k))
      OBVIOUS
    <3> DEFINE a == SubSeq(t, 1, k + 1)
               b == SubSeq(u, 1, k)
               d == Led(c, b)
    <3>1. k + 1 \in 0..Len(t) /\ k \in Nat
      BY <1>1, <2>1
    <3>2. IsSeq(a) /\ Len(a) = k + 1 /\ \A i \in 1..(k + 1) : a[i] = t[i]
      BY <3>1, BeginningIs
    <3>3. IsSeq(b) /\ Len(b) = k /\ \A i \in 1..k : b[i] = u[i]
      <4> HIDE DEF u
      <4> QED BY <2>1, BeginningIs
    <3> HIDE DEF a, b
    <3>4. /\ IsSeq(d) /\ Len(d) = Len(b) + 1 /\ d[1] = c
          /\ \A i \in 1..Len(b) : d[i + 1] = b[i]
      BY <3>3, OneThenIs DEF Led
    <3> HIDE DEF d
    <3>5. ASSUME NEW i \in 1..(k + 1) PROVE a[i] = d[i]
      <4>1. CASE i = 1
        BY <3>2, <3>4, <4>1
      <4>2. CASE i # 1
        <5> DEFINE j == i - 1
        <5>1. j \in 1..k /\ i = j + 1 /\ i = 1 + j /\ j \in 1..Len(u)
          BY <3>1, <4>2
        <5> HIDE DEF j
        <5>2. d[i] = u[j]
          BY <3>3, <3>4, <5>1
        <5>3. a[i] = u[j]
          BY <2>11, <3>2, <5>1
        <5> QED BY <5>2, <5>3
      <4> QED BY <4>1, <4>2
    <3>6. a = d
      BY <3>2, <3>3, <3>4, <3>5, SeqsEqual
    <3> QED BY <3>6 DEF a, d, b
  <2>5. Occurs(p, t) <=> Occurs(p, u)
    <3>1. ASSUME NEW i \in Starts(p, t) PROVE i - 1 \in Starts(p, u)
      <4>0. i \in Nat \ {0} /\ i # 1
        BY <2>2, <2>3
      <4>1. i - 1 \in Nat \ {0} /\ (i - 1) + 1 = i
        BY <4>0
      <4> QED BY <2>2, <4>1
    <3>2. ASSUME NEW i \in Starts(p, u) PROVE i + 1 \in Starts(p, t)
      BY <2>2, <2>4
    <3> QED BY <3>1, <3>2 DEF Occurs
  <2> HIDE DEF u
  <2>6. CASE ~Occurs(p, t)
    <3>1. ReplaceFirstText(t, p, v) = t /\ ReplaceFirstText(u, p, v) = u
      BY <2>5, <2>6 DEF ReplaceFirstText
    <3> QED BY <2>1, <2>5, <3>1 DEF u
  <2>7. CASE Occurs(p, t)
    <3> DEFINE i == Min(Starts(p, t))
               j == Min(Starts(p, u))
    <3>1. /\ i \in Starts(p, t) /\ i \in Nat \ {0} /\ i + Len(p) <= Len(t) + 1
          /\ ReplaceFirstText(t, p, v) = (SubSeq(t, 1, i - 1) \o v) \o Rest(t, (i - 1) + Len(p))
          /\ \A y \in Starts(p, t) : i <= y
      BY <1>3, <2>7
    <3>2. /\ j \in Starts(p, u) /\ j \in Nat \ {0} /\ j + Len(p) <= Len(u) + 1
          /\ j - 1 \in 0..Len(u) /\ (j - 1) + Len(p) \in 0..Len(u)
          /\ ReplaceFirstText(u, p, v) = (SubSeq(u, 1, j - 1) \o v) \o Rest(u, (j - 1) + Len(p))
          /\ \A y \in Starts(p, u) : j <= y
      BY <1>3, <2>1, <2>5, <2>7
    <3> HIDE DEF i, j
    <3>3. i = j + 1
      <4>1. i - 1 \in Starts(p, u) /\ j + 1 \in Starts(p, t)
        <5>1. i - 1 \in Nat \ {0} /\ (i - 1) + 1 = i
          BY <2>2, <3>1
        <5> QED BY <2>2, <3>1, <3>2, <5>1
      <4>2. i <= j + 1 /\ j <= i - 1
        BY <3>1, <3>2, <4>1
      <4> QED BY <3>1, <3>2, <4>2
    <3> DEFINE k == j - 1
               b == SubSeq(u, 1, k)
               e == Rest(u, k + Len(p))
    <3>4. /\ k \in 0..Len(u) /\ i - 1 = k + 1 /\ k + Len(p) \in 0..Len(u)
          /\ (i - 1) + Len(p) = 1 + (k + Len(p)) /\ k + Len(p) \in Nat
          /\ 1 + (k + Len(p)) <= Len(t)
      BY <1>1, <2>1, <3>2, <3>3
    <3>5. ReplaceFirstText(u, p, v) = (b \o v) \o e
      BY <3>2
    <3> HIDE DEF k
    <3>6. SubSeq(t, 1, i - 1) = Led(c, b) /\ Rest(t, (i - 1) + Len(p)) = e
      BY <2>10, <2>12, <3>4
    <3>7. IsSeq(b) /\ IsSeq(e)
      BY <2>1, <3>4, BeginningIs, RestIs
    <3> HIDE DEF b, e, c
    <3>8. Led(c, b) \o v = Led(c, b \o v) /\ IsSeq(b \o v)
      BY <3>7, LedConcat, ConcatIs
    <3>9. Led(c, b \o v) \o e = Led(c, (b \o v) \o e)
      BY <3>7, <3>8, LedConcat
    <3>10. ReplaceFirstText(t, p, v) = Led(c, ReplaceFirstText(u, p, v))
      BY <3>1, <3>5, <3>6, <3>8, <3>9
    <3> QED BY <2>5, <3>10 DEF c, u
  <2> QED BY <2>6, <2>7
<1> QED BY <1>2, <1>4, <1>5

-----------------------------------------------------------------------------
(* Texts in which no placeholder is in another *)

\* Between two opening braces there is a closing one; before the first opening
\* brace there is a closing one.
Flat(t) ==
  \A i, j \in 1..Len(t) : i < j /\ t[i] = OpenBrace /\ t[j] = OpenBrace
                            => \E k \in i..j : t[k] = CloseBrace
Shut(t) == \A j \in 1..Len(t) : t[j] = OpenBrace => \E k \in 1..j : t[k] = CloseBrace

\* What closes a placeholder
Closing(q) ==
  /\ IsSeq(q) /\ Len(q) > 0 /\ q[Len(q)] = CloseBrace
  /\ \A i \in 1..(Len(q) - 1) : q[i] # OpenBrace /\ q[i] # CloseBrace
IsBare(p) == \E q : Closing(q) /\ p = Led(OpenBrace, q)

\* A text with a character in front
LEMMA LedGives ==
  ASSUME NEW c, NEW t, IsSeq(t)
  PROVE  /\ IsSeq(Led(c, t)) /\ Len(Led(c, t)) = Len(t) + 1 /\ Led(c, t) # << >>
         /\ Led(c, t)[1] = c /\ Rest(Led(c, t), 1) = t /\ Len(t) \in Nat
         /\ \A i \in 1..Len(t) : Led(c, t)[i + 1] = t[i]
<1> DEFINE s == <<c>> \o t
<1>1. /\ IsSeq(s) /\ Len(s) = Len(t) + 1 /\ s # << >>
      /\ s[1] = c /\ Rest(s, 1) = t /\ \A i \in 1..Len(t) : s[i + 1] = t[i]
  BY OneThenIs
<1>2. Led(c, t) = s
  BY DEF Led
<1> HIDE DEF s
<1> QED BY <1>1, <1>2, SeqIs

\* The rest of a flat text is flat.
LEMMA FlatRest ==
  ASSUME NEW t, IsSeq(t), Flat(t), NEW k \in 0..Len(t)
  PROVE  Flat(Rest(t, k))
<1> DEFINE r == Rest(t, k)
           n == Len(t)
<1>1. n \in Nat /\ IsSeq(r) /\ Len(r) = n - k /\ \A i \in 1..(n - k) : r[i] = t[k + i]
  BY SeqIs, RestIs
<1> HIDE DEF r
<1>2. ASSUME NEW i \in 1..Len(r), NEW j \in 1..Len(r), i < j, r[i] = OpenBrace, r[j] = OpenBrace
      PROVE  \E l \in i..j : r[l] = CloseBrace
  <2>1. k + i \in 1..n /\ k + j \in 1..n /\ k + i < k + j
    BY <1>1, <1>2
  <2>2. t[k + i] = OpenBrace /\ t[k + j] = OpenBrace
    BY <1>1, <1>2
  <2>3. PICK l \in (k + i)..(k + j) : t[l] = CloseBrace
    BY <2>1, <2>2 DEF Flat
  <2> DEFINE m == l - k
  <2>4. m \in i..j /\ k + m = l /\ m \in 1..(n - k)
    BY <1>1, <2>1
  <2> HIDE DEF m
  <2> QED BY <1>1, <2>3, <2>4
<1> QED BY <1>2 DEF Flat, r

\* When a text with a character in front is flat
LEMMA FlatLed ==
  ASSUME NEW c, NEW t, IsSeq(t)
  PROVE  Flat(Led(c, t)) <=> Flat(t) /\ (c = OpenBrace => Shut(t))
<1> DEFINE s == Led(c, t)
           n == Len(t)
<1>1. /\ IsSeq(s) /\ Len(s) = n + 1 /\ s[1] = c /\ Rest(s, 1) = t /\ n \in Nat
      /\ \A i \in 1..n : s[i + 1] = t[i]
  BY LedGives
<1> HIDE DEF s
<1>2. ASSUME Flat(s) PROVE Flat(t)
  <2>1. 1 \in 0..Len(s)
    BY <1>1
  <2> QED BY <1>1, <1>2, <2>1, FlatRest
<1>3. ASSUME Flat(s), c = OpenBrace PROVE Shut(t)
  <2> SUFFICES ASSUME NEW j \in 1..n, t[j] = OpenBrace PROVE \E k \in 1..j : t[k] = CloseBrace
    BY DEF Shut
  <2>1. 1 \in 1..Len(s) /\ j + 1 \in 1..Len(s) /\ 1 < j + 1
    BY <1>1
  <2>2. PICK k \in 1..(j + 1) : s[k] = CloseBrace
    BY <1>1, <1>3, <2>1 DEF Flat
  <2>3. k # 1
    BY <1>1, <1>3, <2>2, BracesDiffer
  <2> DEFINE l == k - 1
  <2>4. l \in 1..j /\ l + 1 = k /\ l \in 1..n
    BY <1>1, <2>3
  <2> HIDE DEF l
  <2> QED BY <1>1, <2>2, <2>4
<1>4. ASSUME Flat(t), c = OpenBrace => Shut(t) PROVE Flat(s)
  <2> SUFFICES ASSUME NEW i \in 1..Len(s), NEW j \in 1..Len(s), i < j, s[i] = OpenBrace, s[j] = OpenBrace
               PROVE  \E k \in i..j : s[k] = CloseBrace
    BY DEF Flat
  <2> DEFINE a == i - 1
             b == j - 1
  <2>1. b \in 1..n /\ j = b + 1 /\ a \in Nat /\ i = a + 1 /\ a < b
    BY <1>1
  <2> HIDE DEF a, b
  <2>2. t[b] = OpenBrace
    BY <1>1, <2>1
  <2>3. \E k \in a..b : k \in 1..n /\ t[k] = CloseBrace
    <3>1. CASE a = 0
      <4>1. c = OpenBrace
        BY <1>1, <2>1, <3>1
      <4>2. PICK k \in 1..b : t[k] = CloseBrace
        BY <1>4, <2>1, <2>2, <4>1 DEF Shut
      <4>3. k \in a..b /\ k \in 1..n
        BY <1>1, <2>1, <3>1
      <4> QED BY <4>2, <4>3
    <3>2. CASE a # 0
      <4>1. a \in 1..n
        BY <1>1, <2>1, <3>2
      <4>2. t[a] = OpenBrace
        BY <1>1, <2>1, <4>1
      <4>3. PICK k \in a..b : t[k] = CloseBrace
        BY <1>4, <2>1, <2>2, <4>1, <4>2 DEF Flat
      <4>4. k \in 1..n
        BY <1>1, <2>1, <4>1
      <4> QED BY <4>3, <4>4
    <3> QED BY <3>1, <3>2
  <2>4. PICK k \in a..b : k \in 1..n /\ t[k] = CloseBrace
    BY <2>3
  <2>5. k + 1 \in i..j /\ s[k + 1] = CloseBrace
    BY <1>1, <2>1, <2>4
  <2> QED BY <2>5
<1> QED BY <1>2, <1>3, <1>4 DEF s

\* When a text with a character in front is shut
LEMMA ShutLed ==
  ASSUME NEW c, NEW t, IsSeq(t)
  PROVE  Shut(Led(c, t)) <=> c # OpenBrace /\ (c = CloseBrace \/ Shut(t))
<1> DEFINE s == Led(c, t)
           n == Len(t)
<1>1. /\ IsSeq(s) /\ Len(s) = n + 1 /\ s[1] = c /\ n \in Nat
      /\ \A i \in 1..n : s[i + 1] = t[i]
  BY LedGives
<1> HIDE DEF s
<1>2. ASSUME Shut(s), c = OpenBrace PROVE FALSE
  <2>1. 1 \in 1..Len(s)
    BY <1>1
  <2>2. PICK k \in 1..1 : s[k] = CloseBrace
    BY <1>1, <1>2, <2>1 DEF Shut
  <2> QED BY <1>1, <1>2, <2>2, BracesDiffer
<1>3. ASSUME Shut(s), c # CloseBrace PROVE Shut(t)
  <2> SUFFICES ASSUME NEW j \in 1..n, t[j] = OpenBrace PROVE \E k \in 1..j : t[k] = CloseBrace
    BY DEF Shut
  <2>1. j + 1 \in 1..Len(s) /\ s[j + 1] = OpenBrace
    BY <1>1
  <2>2. PICK k \in 1..(j + 1) : s[k] = CloseBrace
    BY <1>3, <2>1 DEF Shut
  <2>3. k # 1
    BY <1>1, <1>3, <2>2
  <2> DEFINE l == k - 1
  <2>4. l \in 1..j /\ l + 1 = k /\ l \in 1..n
    BY <1>1, <2>3
  <2> HIDE DEF l
  <2> QED BY <1>1, <2>2, <2>4
<1>4. ASSUME c # OpenBrace, c = CloseBrace \/ Shut(t) PROVE Shut(s)
  <2> SUFFICES ASSUME NEW j \in 1..Len(s), s[j] = OpenBrace PROVE \E k \in 1..j : s[k] = CloseBrace
    BY DEF Shut
  <2>1. CASE c = CloseBrace
    <3>1. 1 \in 1..j
      OBVIOUS
    <3> QED BY <1>1, <2>1, <3>1
  <2>2. CASE Shut(t)
    <3> DEFINE b == j - 1
    <3>1. b \in 1..n /\ j = b + 1
      BY <1>1, <1>4
    <3> HIDE DEF b
    <3>2. t[b] = OpenBrace
      BY <1>1, <3>1
    <3>3. PICK k \in 1..b : t[k] = CloseBrace
      BY <2>2, <3>1, <3>2 DEF Shut
    <3>4. k \in 1..n /\ k + 1 \in 1..j
      BY <1>1, <3>1
    <3> QED BY <1>1, <3>3, <3>4
  <2> QED BY <1>4, <2>1, <2>2
<1> QED BY <1>2, <1>3, <1>4 DEF s

\* A text without opening braces in front changes nothing.
LEMMA FlatFront ==
  ASSUME NEW v, IsSeq(v), OpenBrace \notin Range(v), NEW t, IsSeq(t), Flat(t)
  PROVE  Flat(v \o t)
<1> DEFINE G == {m \in Nat : \A u : Len(u) = m =>
                   (IsSeq(u) /\ OpenBrace \notin Range(u) => Flat(u \o t))}
<1>1. ASSUME NEW m \in Nat, \A l \in Nat : l < m => l \in G PROVE m \in G
  <2> SUFFICES ASSUME NEW u, Len(u) = m, IsSeq(u), OpenBrace \notin Range(u) PROVE Flat(u \o t)
    OBVIOUS
  <2>1. CASE u = << >>
    BY <2>1, ConcatEmpty
  <2>2. CASE u # << >>
    <3> DEFINE r == Rest(u, 1)
               c == u[1]
    <3>1. /\ u = Led(c, r) /\ IsSeq(r) /\ Len(r) = m - 1 /\ m \in Nat \ {0}
          /\ OpenBrace \notin Range(r) /\ c # OpenBrace
      BY <2>2, LedIs
    <3> HIDE DEF r, c
    <3>2. m - 1 \in Nat /\ m - 1 < m
      BY <3>1
    <3>3. Flat(r \o t)
      BY <1>1, <3>1, <3>2
    <3>4. IsSeq(r \o t) /\ Led(c, r) \o t = Led(c, r \o t)
      BY <3>1, ConcatIs, LedConcat
    <3>5. Flat(Led(c, r \o t))
      BY <3>1, <3>3, <3>4, FlatLed
    <3> QED BY <3>1, <3>4, <3>5
  <2> QED BY <2>1, <2>2
<1> HIDE DEF G
<1>2. Nat \subseteq G
  BY <1>1, AllNumbers
<1>3. Len(v) \in G
  BY <1>2, SeqIs
<1> QED BY <1>3 DEF G

\* Prefixes, one character after the other
LEMMA PrefixLed ==
  ASSUME NEW a, NEW c, NEW q, NEW t, IsSeq(q), IsSeq(t)
  PROVE  IsPrefix(Led(a, q), Led(c, t)) <=> a = c /\ IsPrefix(q, t)
<1> DEFINE p == Led(a, q)
           s == Led(c, t)
<1>1. /\ IsSeq(p) /\ Len(p) = Len(q) + 1 /\ p[1] = a /\ Len(q) \in Nat
      /\ \A i \in 1..Len(q) : p[i + 1] = q[i]
  BY LedGives
<1>2. /\ IsSeq(s) /\ Len(s) = Len(t) + 1 /\ s[1] = c /\ Len(t) \in Nat
      /\ \A i \in 1..Len(t) : s[i + 1] = t[i]
  BY LedGives
<1> HIDE DEF p, s
<1>3. IsPrefix(p, s) <=> Len(p) <= Len(s) /\ \A i \in 1..Len(p) : s[i] = p[i]
  BY <1>1, <1>2, PrefixIs
<1>4. IsPrefix(q, t) <=> Len(q) <= Len(t) /\ \A i \in 1..Len(q) : t[i] = q[i]
  BY PrefixIs
<1>5. Len(p) <= Len(s) <=> Len(q) <= Len(t)
  BY <1>1, <1>2
<1>6. ASSUME Len(q) <= Len(t)
      PROVE  (\A i \in 1..Len(p) : s[i] = p[i]) <=> (a = c /\ \A i \in 1..Len(q) : t[i] = q[i])
  <2>1. ASSUME \A i \in 1..Len(p) : s[i] = p[i]
        PROVE  a = c /\ \A i \in 1..Len(q) : t[i] = q[i]
    <3>1. 1 \in 1..Len(p) /\ \A i \in 1..Len(q) : i + 1 \in 1..Len(p) /\ i \in 1..Len(t)
      BY <1>1, <1>2, <1>6
    <3> QED BY <1>1, <1>2, <2>1, <3>1
  <2>2. ASSUME a = c, \A i \in 1..Len(q) : t[i] = q[i], NEW i \in 1..Len(p)
        PROVE  s[i] = p[i]
    <3>1. CASE i = 1
      BY <1>1, <1>2, <2>2, <3>1
    <3>2. CASE i # 1
      <4> DEFINE j == i - 1
      <4>1. j \in 1..Len(q) /\ i = j + 1 /\ j \in 1..Len(t)
        BY <1>1, <1>2, <1>6, <3>2
      <4> HIDE DEF j
      <4> QED BY <1>1, <1>2, <2>2, <4>1
    <3> QED BY <3>1, <3>2
  <2> QED BY <2>1, <2>2
<1> QED BY <1>3, <1>4, <1>5, <1>6 DEF p, s

\* A closing is one brace, or a character and a closing.
LEMMA ClosingIs ==
  ASSUME NEW q, Closing(q)
  PROVE  \E a, r : /\ q = Led(a, r) /\ IsSeq(r) /\ a # OpenBrace
                   /\ \/ r = << >> /\ a = CloseBrace
                      \/ Closing(r) /\ a # CloseBrace
<1> DEFINE r == Rest(q, 1)
           a == q[1]
           n == Len(q)
<1>1. IsSeq(q) /\ n > 0 /\ q # << >>
  BY EmptyIsSeq DEF Closing
<1>2. q = Led(a, r) /\ IsSeq(r) /\ Len(r) = n - 1 /\ n \in Nat \ {0}
  BY <1>1, LedIs
<1>3. \A i \in 1..(n - 1) : r[i] = q[1 + i]
  <2>1. 1 \in 0..n
    BY <1>2
  <2> QED BY <1>1, <2>1, RestIs
<1>4. q[n] = CloseBrace /\ \A i \in 1..(n - 1) : q[i] # OpenBrace /\ q[i] # CloseBrace
  BY DEF Closing
<1> HIDE DEF r
<1>5. CASE n = 1
  <2>1. r = << >>
    BY <1>2, <1>5, EmptyIsSeq, SeqsEqual
  <2> QED BY <1>2, <1>4, <1>5, <2>1, BracesDiffer
<1>6. CASE n # 1
  <2>1. 1 \in 1..(n - 1) /\ n - 1 \in 1..(n - 1) /\ 1 + (n - 1) = n
        /\ \A i \in 1..((n - 1) - 1) : i \in 1..(n - 1) /\ 1 + i \in 1..(n - 1)
    BY <1>2, <1>6
  <2>2. a # OpenBrace /\ a # CloseBrace
    BY <1>4, <2>1
  <2>3. Closing(r)
    <3>1. r[n - 1] = CloseBrace
      BY <1>3, <1>4, <2>1
    <3>2. \A i \in 1..((n - 1) - 1) : r[i] # OpenBrace /\ r[i] # CloseBrace
      BY <1>3, <1>4, <2>1
    <3>3. Len(r) > 0
      BY <1>2, <1>6
    <3> QED BY <1>2, <3>1, <3>2, <3>3 DEF Closing
  <2> QED BY <1>2, <2>2, <2>3
<1> QED BY <1>5, <1>6

IsPlainPair(pair) == IsBare(Placeholder(pair.key)) /\ OpenBrace \notin Range(pair.value)
IsPlainContext(C) == IsContext(C) /\ \A k \in 1..Len(C) : IsPlainPair(C[k])

LEMMA BareIs ==
  ASSUME NEW p, IsBare(p)
  PROVE  IsSeq(p) /\ Len(p) \in Nat \ {0, 1} /\ p[1] = OpenBrace
<1>1. PICK q : Closing(q) /\ p = Led(OpenBrace, q)
  BY DEF IsBare
<1>2. IsSeq(q) /\ Len(q) > 0 /\ Len(q) \in Nat
  BY <1>1, SeqIs DEF Closing
<1>3. IsSeq(p) /\ Len(p) = Len(q) + 1 /\ p[1] = OpenBrace
  BY <1>1, <1>2, LedGives
<1> QED BY <1>2, <1>3

\* A message with its placeholders replaced is a text.
LEMMA InterpolationIsSeq ==
  ASSUME NEW C, IsContext(C), NEW m, IsSeq(m)
  PROVE  IsSeq(Interpolation(m, C))
<1> DEFINE G == {n \in Nat : \A t : Len(t) = n => (IsSeq(t) => IsSeq(Interpolation(t, C)))}
<1>1. ASSUME NEW n \in Nat, \A l \in Nat : l < n => l \in G PROVE n \in G
  <2> SUFFICES ASSUME NEW t, Len(t) = n, IsSeq(t) PROVE IsSeq(Interpolation(t, C))
    OBVIOUS
  <2>0. \A l \in Nat : \A r : l < n /\ IsSeq(r) /\ Len(r) = l => IsSeq(Interpolation(r, C))
    BY <1>1
  <2> DEFINE B == Begins(t, C)
             k == Min(B)
             p == Placeholder(C[k].key)
  <2>1. CASE t = << >>
    BY <2>1, InterpolationGoes, EmptyIsSeq
  <2>2. CASE t # << >> /\ B = {}
    <3>1. IsSeq(Rest(t, 1)) /\ Len(Rest(t, 1)) = n - 1 /\ n \in Nat \ {0}
      BY <2>2, FirstIs
    <3>2. n - 1 \in Nat /\ n - 1 < n
      BY <3>1
    <3>3. IsSeq(Interpolation(Rest(t, 1), C))
      BY <2>0, <3>1, <3>2
    <3>4. Interpolation(t, C) = Led(t[1], Interpolation(Rest(t, 1), C))
      BY <2>2, InterpolationGoes
    <3> QED BY <3>3, <3>4, LedGives
  <2>3. CASE B # {}
    <3>1. Len(p) \in Nat \ {0} /\ Len(p) <= Len(t) /\ IsSeq(C[k].value)
      BY <2>3, BeginsAre
    <3>2. Interpolation(t, C) = C[k].value \o Interpolation(Rest(t, Len(p)), C)
      BY <2>3, InterpolationGoes
    <3> HIDE DEF p, k
    <3>3. Len(p) \in 0..Len(t) /\ n - Len(p) \in Nat /\ n - Len(p) < n
      BY <3>1
    <3>4. IsSeq(Rest(t, Len(p))) /\ Len(Rest(t, Len(p))) = n - Len(p)
      BY <3>3, RestIs
    <3>5. IsSeq(Interpolation(Rest(t, Len(p)), C))
      BY <2>0, <3>3, <3>4
    <3> QED BY <3>1, <3>2, <3>5, ConcatIs
  <2> QED BY <2>1, <2>2, <2>3
<1> HIDE DEF G
<1>2. Nat \subseteq G
  BY <1>1, AllNumbers
<1>3. Len(m) \in G
  BY <1>2, SeqIs
<1> QED BY <1>3 DEF G

\* Without a placeholder at its start a text keeps its first character.
LEMMA InterpolationLed ==
  ASSUME NEW C, IsContext(C), NEW c, NEW t, IsSeq(t), Begins(Led(c, t), C) = {}
  PROVE  Interpolation(Led(c, t), C) = Led(c, Interpolation(t, C))
<1> DEFINE s == Led(c, t)
<1>1. IsSeq(s) /\ s # << >> /\ s[1] = c /\ Rest(s, 1) = t
  BY LedGives
<1> HIDE DEF s
<1>2. Begins(s, C) = {}
  BY DEF s
<1>3. Interpolation(s, C) = Led(s[1], Interpolation(Rest(s, 1), C))
  BY <1>1, <1>2, InterpolationGoes
<1> QED BY <1>1, <1>3 DEF s

\* Only a brace begins a placeholder.
LEMMA BeginsNot ==
  ASSUME NEW C, IsPlainContext(C), NEW c, NEW t, IsSeq(t), c # OpenBrace
  PROVE  Begins(Led(c, t), C) = {}
<1> SUFFICES ASSUME NEW k \in Begins(Led(c, t), C) PROVE FALSE
  OBVIOUS
<1>1. k \in 1..Len(C) /\ IsPrefix(Placeholder(C[k].key), Led(c, t))
  <2>1. IsContext(C) /\ IsSeq(Led(c, t))
    BY LedGives DEF IsPlainContext
  <2>2. Begins(Led(c, t), C) \in SUBSET (1..Len(C))
    BY <2>1, BeginsAre
  <2> QED BY <2>2 DEF Begins
<1>2. PICK q : Closing(q) /\ Placeholder(C[k].key) = Led(OpenBrace, q)
  BY <1>1 DEF IsPlainContext, IsPlainPair, IsBare
<1>3. IsSeq(q)
  BY <1>2 DEF Closing
<1>4. IsPrefix(Led(OpenBrace, q), Led(c, t))
  BY <1>1, <1>2
<1> QED BY <1>3, <1>4, PrefixLed

\* A text without opening braces stays as it is.
LEMMA InterpolationText ==
  ASSUME NEW C, IsPlainContext(C), NEW v, IsSeq(v), OpenBrace \notin Range(v), NEW t, IsSeq(t)
  PROVE  Interpolation(v \o t, C) = v \o Interpolation(t, C)
<1> DEFINE G == {m \in Nat : \A u : Len(u) = m =>
                   (IsSeq(u) /\ OpenBrace \notin Range(u)
                      => Interpolation(u \o t, C) = u \o Interpolation(t, C))}
<1>0. IsContext(C) /\ IsSeq(Interpolation(t, C))
  BY InterpolationIsSeq DEF IsPlainContext
<1>1. ASSUME NEW m \in Nat, \A l \in Nat : l < m => l \in G PROVE m \in G
  <2> SUFFICES ASSUME NEW u, Len(u) = m, IsSeq(u), OpenBrace \notin Range(u)
               PROVE  Interpolation(u \o t, C) = u \o Interpolation(t, C)
    OBVIOUS
  <2>1. CASE u = << >>
    BY <1>0, <2>1, ConcatEmpty
  <2>2. CASE u # << >>
    <3> DEFINE r == Rest(u, 1)
               c == u[1]
    <3>1. /\ u = Led(c, r) /\ IsSeq(r) /\ Len(r) = m - 1 /\ m \in Nat \ {0}
          /\ OpenBrace \notin Range(r) /\ c # OpenBrace
      BY <2>2, LedIs
    <3> HIDE DEF r, c
    <3>2. m - 1 \in Nat /\ m - 1 < m
      BY <3>1
    <3>3. Interpolation(r \o t, C) = r \o Interpolation(t, C)
      BY <1>1, <3>1, <3>2
    <3>8. IsSeq(r)
      BY <3>1
    <3>9. Led(c, r) \o t = Led(c, r \o t)
      BY <3>8, LedConcat
    <3>4. IsSeq(r \o t) /\ Led(c, r) \o t = Led(c, r \o t)
      BY <3>8, <3>9, ConcatIs
    <3>5. Interpolation(Led(c, r \o t), C) = Led(c, Interpolation(r \o t, C))
      BY <1>0, <3>1, <3>4, BeginsNot, InterpolationLed
    <3> DEFINE g == Interpolation(t, C)
    <3>6. IsSeq(g)
      BY <1>0
    <3> HIDE DEF g
    <3>7. Led(c, r) \o g = Led(c, r \o g)
      BY <3>6, <3>8, LedConcat
    <3> QED BY <3>1, <3>3, <3>4, <3>5, <3>7 DEF g
  <2> QED BY <2>1, <2>2
<1> HIDE DEF G
<1>2. Nat \subseteq G
  BY <1>1, AllNumbers
<1>3. Len(v) \in G
  BY <1>2, SeqIs
<1> QED BY <1>3 DEF G

\* The end of a placeholder that is there behind an opening brace was there before.
LEMMA ClosingStays ==
  ASSUME NEW C, IsPlainContext(C), NEW q, Closing(q), NEW t, IsSeq(t), Shut(t),
         IsPrefix(q, Interpolation(t, C))
  PROVE  IsPrefix(q, t)
<1> DEFINE G == {m \in Nat : \A r, u : Len(u) = m =>
                   (/\ Closing(r) /\ IsSeq(u) /\ Shut(u) /\ IsPrefix(r, Interpolation(u, C))
                    => IsPrefix(r, u))}
<1>0. IsContext(C)
  BY DEF IsPlainContext
<1>1. ASSUME NEW m \in Nat, \A l \in Nat : l < m => l \in G PROVE m \in G
  <2> SUFFICES ASSUME NEW r, NEW u, Len(u) = m, Closing(r), IsSeq(u), Shut(u),
                      IsPrefix(r, Interpolation(u, C))
               PROVE  IsPrefix(r, u)
    OBVIOUS
  <2>1. CASE u = << >>
    BY <1>0, <2>1, InterpolationGoes
  <2>2. CASE u # << >>
    <3> DEFINE w == Rest(u, 1)
               c == u[1]
               y == Interpolation(w, C)
    <3>1. u = Led(c, w) /\ IsSeq(w) /\ Len(w) = m - 1 /\ m \in Nat \ {0}
      BY <2>2, LedIs
    <3> HIDE DEF w, c
    <3>2. m - 1 \in Nat /\ m - 1 < m /\ IsSeq(y)
      BY <1>0, <3>1, InterpolationIsSeq
    <3>3. c # OpenBrace /\ (c = CloseBrace \/ Shut(w))
      BY <3>1, ShutLed
    <3>4. Interpolation(u, C) = Led(c, y)
      BY <1>0, <3>1, <3>3, BeginsNot, InterpolationLed
    <3>5. PICK a, s : /\ r = Led(a, s) /\ IsSeq(s) /\ a # OpenBrace
                      /\ \/ s = << >> /\ a = CloseBrace
                         \/ Closing(s) /\ a # CloseBrace
      BY ClosingIs
    <3>10. IsPrefix(Led(a, s), Led(c, y))
      BY <3>4, <3>5
    <3> HIDE DEF y
    <3>6. a = c /\ IsPrefix(s, y)
      BY <3>2, <3>5, <3>10, PrefixLed
    <3>7. IsPrefix(s, w)
      <4>1. CASE s = << >>
        <5>1. Len(s) = 0 /\ Len(s) <= Len(w)
          BY <3>1, <4>1, EmptyIsSeq, SeqIs
        <5> QED BY <3>1, <3>5, <5>1, PrefixIs
      <4>2. CASE Closing(s) /\ a # CloseBrace
        <5>1. Shut(w)
          BY <3>3, <3>6, <4>2
        <5> QED BY <1>1, <3>1, <3>2, <3>6, <4>2, <5>1 DEF y
      <4> QED BY <3>5, <4>1, <4>2
    <3> QED BY <3>1, <3>5, <3>6, <3>7, PrefixLed
  <2> QED BY <2>1, <2>2
<1> HIDE DEF G
<1>2. Nat \subseteq G
  BY <1>1, AllNumbers
<1>3. Len(t) \in G
  BY <1>2, SeqIs
<1> QED BY <1>3 DEF G

-----------------------------------------------------------------------------
(* One pair: str_replace, and one pass from left to right *)

\* A text with each placeholder of one pair replaced once
Once(t, pair) == Interpolation(t, <<pair>>)
IsPair(pair) == IsSeq(pair.key) /\ IsSeq(pair.value) /\ IsPlainPair(pair)

\* A pair is a context of its own.
LEMMA OneIsContext ==
  ASSUME NEW pair, IsPair(pair)
  PROVE  IsPlainContext(<<pair>>) /\ IsContext(<<pair>>)
<1> DEFINE C == <<pair>>
<1>1. IsSeq(C) /\ Len(C) = 1 /\ C[1] = pair
  BY OneIs
<1> HIDE DEF C
<1>2. \A k \in 1..Len(C) : C[k] = pair
  BY <1>1
<1>3. IsPlainContext(C) /\ IsContext(C)
  BY <1>1, <1>2 DEF IsPlainContext, IsContext, IsPair
<1> QED BY <1>3 DEF C

\* InterpolationGoes for one pair
LEMMA OnceGoes ==
  ASSUME NEW pair, IsPair(pair), NEW t, IsSeq(t)
  PROVE  LET p == Placeholder(pair.key) IN
         /\ IsSeq(Once(t, pair))
         /\ t = << >> => Once(t, pair) = << >>
         /\ IsPrefix(p, t) => Once(t, pair) = pair.value \o Once(Rest(t, Len(p)), pair)
         /\ t # << >> /\ ~IsPrefix(p, t) => Once(t, pair) = Led(t[1], Once(Rest(t, 1), pair))
<1> DEFINE C == <<pair>>
           p == Placeholder(pair.key)
           B == Begins(t, C)
<1>1. IsContext(C) /\ DOMAIN C = {1} /\ C[1] = pair
  <2>1. IsContext(C)
    BY OneIsContext
  <2>2. IsSeq(C) /\ Len(C) = 1 /\ C[1] = pair
    BY OneIs
  <2> HIDE DEF C
  <2> QED BY <2>1, <2>2, SeqIs
<1>2. \A u : Once(u, pair) = Interpolation(u, C)
  BY DEF Once
<1> HIDE DEF C
<1>3. B = IF IsPrefix(p, t) THEN {1} ELSE {}
  BY <1>1 DEF Begins
<1>4. Min({1}) = 1
  <2> DEFINE T == {1}
  <2>1. T \in SUBSET Nat /\ 1 \in T /\ \A y \in T : 1 <= y
    OBVIOUS
  <2> HIDE DEF T
  <2>2. Min(T) = 1
    BY <2>1, MinimumIs
  <2> QED BY <2>2 DEF T
<1>5. IsSeq(Interpolation(t, C))
  BY <1>1, InterpolationIsSeq
<1>6. /\ t = << >> => Interpolation(t, C) = << >>
      /\ t # << >> /\ B = {}
           => Interpolation(t, C) = Led(t[1], Interpolation(Rest(t, 1), C))
      /\ B # {} => Interpolation(t, C) =
           C[Min(B)].value \o Interpolation(Rest(t, Len(Placeholder(C[Min(B)].key))), C)
  BY <1>1, InterpolationGoes
<1>7. ASSUME IsPrefix(p, t)
      PROVE  Interpolation(t, C) = pair.value \o Interpolation(Rest(t, Len(p)), C)
  <2>1. B # {} /\ Min(B) = 1
    BY <1>3, <1>4, <1>7
  <2>2. C[Min(B)] = pair
    BY <1>1, <2>1
  <2> HIDE DEF B
  <2> QED BY <1>6, <2>1, <2>2
<1> QED BY <1>2, <1>3, <1>5, <1>6, <1>7

\* In front of a text that a replacement has gone over, no end of a placeholder
\* is new.
LEMMA ClosingStaysOnce ==
  ASSUME NEW pair, IsPair(pair), NEW q, Closing(q), NEW t, IsSeq(t), Shut(t),
         IsPrefix(q, ReplaceFirstText(t, Placeholder(pair.key), pair.value))
  PROVE  IsPrefix(q, t)
<1> DEFINE p == Placeholder(pair.key)
           v == pair.value
           G == {m \in Nat : \A r, u : Len(u) = m =>
                   (/\ Closing(r) /\ IsSeq(u) /\ Shut(u) /\ IsPrefix(r, ReplaceFirstText(u, p, v))
                    => IsPrefix(r, u))}
<1>0. IsBare(p) /\ IsSeq(v) /\ IsSeq(p) /\ Len(p) > 0
  BY BareIs DEF IsPair, IsPlainPair
<1> HIDE DEF p, v
<1>4. ASSUME NEW c, NEW w, IsSeq(w), c # OpenBrace
      PROVE  /\ ReplaceFirstText(Led(c, w), p, v) = Led(c, ReplaceFirstText(w, p, v))
             /\ IsSeq(ReplaceFirstText(w, p, v))
  <2>1. PICK x : Closing(x) /\ p = Led(OpenBrace, x)
    BY <1>0 DEF IsBare
  <2>2. ~IsPrefix(p, Led(c, w))
    BY <1>4, <2>1, PrefixLed DEF Closing
  <2> DEFINE s == Led(c, w)
  <2>3. IsSeq(s) /\ s # << >> /\ s[1] = c /\ Rest(s, 1) = w /\ ~IsPrefix(p, s)
    BY <1>4, <2>2, LedGives
  <2> HIDE DEF s
  <2>4. ReplaceFirstText(s, p, v) = Led(s[1], ReplaceFirstText(Rest(s, 1), p, v))
    BY <1>0, <2>3, ReplaceGoes
  <2>5. IsSeq(ReplaceFirstText(w, p, v))
    <3>1. PICK U : w \in Seq(U) /\ v \in Seq(U)
      BY <1>0, <1>4, BothAreSeq
    <3> QED BY <1>0, <3>1, ReplaceIs DEF IsSeq
  <2> QED BY <2>3, <2>4, <2>5 DEF s
<1>1. ASSUME NEW m \in Nat, \A l \in Nat : l < m => l \in G PROVE m \in G
  <2> SUFFICES ASSUME NEW r, NEW u, Len(u) = m, Closing(r), IsSeq(u), Shut(u),
                      IsPrefix(r, ReplaceFirstText(u, p, v))
               PROVE  IsPrefix(r, u)
    OBVIOUS
  <2>1. CASE u = << >>
    <3>1. ~Occurs(p, u)
      BY <1>0, <2>1, ReplaceGoes
    <3> QED BY <3>1 DEF ReplaceFirstText
  <2>2. CASE u # << >>
    <3> DEFINE w == Rest(u, 1)
               c == u[1]
               y == ReplaceFirstText(w, p, v)
    <3>1. u = Led(c, w) /\ IsSeq(w) /\ Len(w) = m - 1 /\ m \in Nat \ {0}
      BY <2>2, LedIs
    <3> HIDE DEF w, c
    <3>2. m - 1 \in Nat /\ m - 1 < m
      BY <3>1
    <3>3. c # OpenBrace /\ (c = CloseBrace \/ Shut(w))
      BY <3>1, ShutLed
    <3>4. ReplaceFirstText(u, p, v) = Led(c, y) /\ IsSeq(y)
      BY <1>4, <3>1, <3>3
    <3>5. PICK a, s : /\ r = Led(a, s) /\ IsSeq(s) /\ a # OpenBrace
                      /\ \/ s = << >> /\ a = CloseBrace
                         \/ Closing(s) /\ a # CloseBrace
      BY ClosingIs
    <3>10. IsPrefix(Led(a, s), Led(c, y))
      BY <3>4, <3>5
    <3> HIDE DEF y
    <3>6. a = c /\ IsPrefix(s, y)
      BY <3>4, <3>5, <3>10, PrefixLed
    <3>7. IsPrefix(s, w)
      <4>1. CASE s = << >>
        <5>1. Len(s) = 0 /\ Len(s) <= Len(w)
          BY <3>1, <4>1, EmptyIsSeq, SeqIs
        <5> QED BY <3>1, <3>5, <5>1, PrefixIs
      <4>2. CASE Closing(s) /\ a # CloseBrace
        <5>1. Shut(w)
          BY <3>3, <3>6, <4>2
        <5> QED BY <1>1, <3>1, <3>2, <3>6, <4>2, <5>1 DEF y
      <4> QED BY <3>5, <4>1, <4>2
    <3> QED BY <3>1, <3>5, <3>6, <3>7, PrefixLed
  <2> QED BY <2>1, <2>2
<1> HIDE DEF G
<1>2. Nat \subseteq G
  BY <1>1, AllNumbers
<1>3. Len(t) \in G
  BY <1>2, SeqIs
<1> QED BY <1>3 DEF G, p, v

\* One replacement leaves a text flat, and what is still to be replaced.
LEMMA ReplaceFlat ==
  ASSUME NEW pair, IsPair(pair), NEW t, IsSeq(t), Flat(t)
  PROVE  LET s == ReplaceFirstText(t, Placeholder(pair.key), pair.value) IN
         IsSeq(s) /\ Flat(s) /\ Once(s, pair) = Once(t, pair)
<1> DEFINE p == Placeholder(pair.key)
           v == pair.value
           R(u) == ReplaceFirstText(u, p, v)
           Good(u) == /\ IsSeq(R(u)) /\ Flat(R(u)) /\ (Shut(u) => Shut(R(u)))
                      /\ Once(R(u), pair) = Once(u, pair)
           G == {m \in Nat : \A u : Len(u) = m => (IsSeq(u) /\ Flat(u) => Good(u))}
<1>0. /\ IsBare(p) /\ IsSeq(v) /\ IsSeq(p) /\ Len(p) \in Nat \ {0} /\ p[1] = OpenBrace
      /\ OpenBrace \notin Range(v)
  BY BareIs DEF IsPair, IsPlainPair
<1>4. IsPlainContext(<<pair>>)
  BY OneIsContext
<1>5. \A u : IsSeq(u) =>
        /\ IsSeq(Once(u, pair))
        /\ (u = << >> => Once(u, pair) = << >>)
        /\ (IsPrefix(p, u) => Once(u, pair) = v \o Once(Rest(u, Len(p)), pair))
        /\ (u # << >> /\ ~IsPrefix(p, u) => Once(u, pair) = Led(u[1], Once(Rest(u, 1), pair)))
  BY OnceGoes
<1>6. \A u : IsSeq(u) => Once(v \o u, pair) = v \o Once(u, pair)
  BY <1>0, <1>4, InterpolationText DEF Once
<1>7. \A q, u : /\ Closing(q) /\ IsSeq(u) /\ Shut(u) /\ IsPrefix(q, R(u)) => IsPrefix(q, u)
  BY ClosingStaysOnce
<1> HIDE DEF p, v
<1>1. ASSUME NEW m \in Nat, \A l \in Nat : l < m => l \in G PROVE m \in G
  <2> SUFFICES ASSUME NEW u, Len(u) = m, IsSeq(u), Flat(u) PROVE Good(u)
    OBVIOUS
  <2>1. CASE u = << >>
    <3>1. ~Occurs(p, u)
      BY <1>0, <2>1, ReplaceGoes
    <3>2. R(u) = u
      BY <3>1 DEF ReplaceFirstText
    <3> HIDE DEF R
    <3> QED BY <3>2
  <2>2. CASE IsPrefix(p, u)
    <3> DEFINE r == Rest(u, Len(p))
    <3>1. /\ Len(p) <= Len(u) /\ \A i \in 1..Len(p) : u[i] = p[i]
      BY <1>0, <2>2, PrefixIs
    <3>2. Len(p) \in 0..Len(u)
      BY <1>0, <3>1
    <3>3. IsSeq(r) /\ Flat(r)
      BY <3>2, FlatRest, RestIs
    <3>4. R(u) = v \o r
      BY <1>0, <2>2, ReplaceGoes
    <3>5. Once(u, pair) = v \o Once(r, pair)
      BY <1>5, <2>2
    <3> HIDE DEF r, R
    <3>6. IsSeq(v \o r) /\ Flat(v \o r)
      BY <1>0, <3>3, ConcatIs, FlatFront
    <3>7. Once(v \o r, pair) = v \o Once(r, pair)
      BY <1>6, <3>3
    <3>8. ~Shut(u)
      <4>1. 1 \in 1..Len(p) /\ 1 \in 1..Len(u)
        BY <1>0, <3>1
      <4>2. u[1] = OpenBrace
        BY <1>0, <3>1, <4>1
      <4>3. Shut(u) => \E k \in 1..1 : u[k] = CloseBrace
        BY <4>1, <4>2 DEF Shut
      <4> QED BY <4>2, <4>3, BracesDiffer
    <3> QED BY <3>4, <3>5, <3>6, <3>7, <3>8
  <2>3. CASE u # << >> /\ ~IsPrefix(p, u)
    <3> DEFINE w == Rest(u, 1)
               c == u[1]
               y == R(w)
    <3>1. u = Led(c, w) /\ IsSeq(w) /\ Len(w) = m - 1 /\ m \in Nat \ {0}
      BY <2>3, LedIs
    <3>2. R(u) = Led(c, y)
      BY <1>0, <2>3, ReplaceGoes
    <3>3. Once(u, pair) = Led(c, Once(w, pair))
      BY <1>5, <2>3
    <3> HIDE DEF w, c
    <3>4. m - 1 \in Nat /\ m - 1 < m
      BY <3>1
    <3>5. Flat(w) /\ (c = OpenBrace => Shut(w)) /\ (Shut(u) <=> c # OpenBrace /\ (c = CloseBrace \/ Shut(w)))
      BY <3>1, FlatLed, ShutLed
    <3>6. IsSeq(y) /\ Flat(y) /\ (Shut(w) => Shut(y)) /\ Once(y, pair) = Once(w, pair)
      <4>1. m - 1 \in G
        BY <1>1, <3>4
      <4> HIDE DEF R
      <4> QED BY <3>1, <3>5, <4>1
    <3>11. \A q : Closing(q) /\ Shut(w) /\ IsPrefix(q, y) => IsPrefix(q, w)
      BY <1>7, <3>1
    <3> HIDE DEF y, R
    <3>7. Flat(Led(c, y)) /\ IsSeq(Led(c, y))
      BY <3>5, <3>6, FlatLed, LedGives
    <3>8. Shut(u) => Shut(Led(c, y))
      BY <3>5, <3>6, ShutLed
    <3>9. ~IsPrefix(p, Led(c, y))
      <4> SUFFICES ASSUME IsPrefix(p, Led(c, y)) PROVE FALSE
        OBVIOUS
      <4>1. PICK q : Closing(q) /\ p = Led(OpenBrace, q)
        BY <1>0 DEF IsBare
      <4>5. IsSeq(q)
        BY <4>1 DEF Closing
      <4>6. IsPrefix(Led(OpenBrace, q), Led(c, y))
        BY <4>1
      <4>2. c = OpenBrace /\ IsPrefix(q, y)
        BY <3>6, <4>5, <4>6, PrefixLed
      <4>3. IsPrefix(q, w)
        BY <3>5, <3>11, <4>1, <4>2
      <4>4. IsPrefix(Led(OpenBrace, q), Led(c, w))
        BY <3>1, <4>2, <4>3, <4>5, PrefixLed
      <4> QED BY <2>3, <3>1, <4>1, <4>4
    <3>10. Once(Led(c, y), pair) = Led(c, Once(y, pair))
      <4> DEFINE s == Led(c, y)
      <4>1. IsSeq(s) /\ s # << >> /\ s[1] = c /\ Rest(s, 1) = y /\ ~IsPrefix(p, s)
        BY <3>6, <3>9, LedGives
      <4> HIDE DEF s
      <4>2. Once(s, pair) = Led(s[1], Once(Rest(s, 1), pair))
        BY <1>5, <4>1
      <4> QED BY <4>1, <4>2 DEF s
    <3> QED BY <3>2, <3>3, <3>6, <3>7, <3>8, <3>10
  <2>4. u = << >> \/ IsPrefix(p, u) \/ (u # << >> /\ ~IsPrefix(p, u))
    OBVIOUS
  <2> HIDE DEF Good
  <2> QED BY <2>1, <2>2, <2>3, <2>4
<1> HIDE DEF G
<1>2. Nat \subseteq G
  BY <1>1, AllNumbers
<1>3. Len(t) \in G
  BY <1>2, SeqIs
<1> QED BY <1>3 DEF G, p, v

\* A text without the placeholder stays as it is.
LEMMA OnceNone ==
  ASSUME NEW pair, IsPair(pair), NEW t, IsSeq(t), ~Occurs(Placeholder(pair.key), t)
  PROVE  Once(t, pair) = t
<1> DEFINE p == Placeholder(pair.key)
           G == {m \in Nat : \A u : Len(u) = m => (IsSeq(u) /\ ~Occurs(p, u) => Once(u, pair) = u)}
<1>0. IsSeq(p) /\ Len(p) > 0 /\ IsSeq(pair.value)
  BY BareIs DEF IsPair, IsPlainPair
<1>4. \A u : IsSeq(u) =>
        /\ (u = << >> => Once(u, pair) = << >>)
        /\ (u # << >> /\ ~IsPrefix(p, u) => Once(u, pair) = Led(u[1], Once(Rest(u, 1), pair)))
  BY OnceGoes
<1> HIDE DEF p
<1>1. ASSUME NEW m \in Nat, \A l \in Nat : l < m => l \in G PROVE m \in G
  <2> SUFFICES ASSUME NEW u, Len(u) = m, IsSeq(u), ~Occurs(p, u) PROVE Once(u, pair) = u
    OBVIOUS
  <2>1. CASE u = << >>
    BY <1>4, <2>1
  <2>2. CASE u # << >>
    <3> DEFINE w == Rest(u, 1)
    <3>1. u = Led(u[1], w) /\ IsSeq(w) /\ Len(w) = m - 1 /\ m \in Nat \ {0}
      BY <2>2, LedIs
    <3>2. ~IsPrefix(p, u) /\ ~Occurs(p, w)
      BY <1>0, <2>2, ReplaceGoes
    <3> HIDE DEF w
    <3>3. m - 1 \in Nat /\ m - 1 < m
      BY <3>1
    <3>4. Once(w, pair) = w
      BY <1>1, <3>1, <3>2, <3>3
    <3>5. Once(u, pair) = Led(u[1], Once(w, pair))
      BY <1>4, <2>2, <3>2 DEF w
    <3> QED BY <3>1, <3>4, <3>5
  <2> QED BY <2>1, <2>2
<1> HIDE DEF G
<1>2. Nat \subseteq G
  BY <1>1, AllNumbers
<1>3. Len(t) \in G
  BY <1>2, SeqIs
<1> QED BY <1>3 DEF G, p

\* str_replace puts the value in for each placeholder once.
LEMMA StrReplaceOnce ==
  ASSUME NEW pair, IsPair(pair), NEW t, IsSeq(t), Flat(t), Braces(t) <= MaxRounds
  PROVE  LET s == StrReplace(t, Placeholder(pair.key), pair.value) IN
         /\ s = Once(t, pair) /\ IsSeq(s) /\ Flat(s) /\ Braces(s) <= MaxRounds
         /\ ~NeverEnds(t, Placeholder(pair.key), pair.value)
<1> DEFINE p == Placeholder(pair.key)
           v == pair.value
           s == StrReplace(t, p, v)
<1>0. /\ IsSeq(v) /\ IsSeq(p) /\ Len(p) \in Nat \ {0} /\ OpenBrace \notin Range(v)
      /\ p[1] = OpenBrace
  BY BareIs DEF IsPair, IsPlainPair
<1>1. \A u : IsSeq(u) /\ Flat(u) =>
        LET r == ReplaceFirstText(u, p, v) IN
        IsSeq(r) /\ Flat(r) /\ Once(r, pair) = Once(u, pair)
  BY ReplaceFlat
<1>2. \A u : IsSeq(u) /\ ~Occurs(p, u) => Once(u, pair) = u
  BY OnceNone
<1> HIDE DEF p, v
<1>3. PICK U : t \in Seq(U) /\ v \in Seq(U)
  BY <1>0, BothAreSeq
<1>4. PICK g : /\ Rounds(g, U, t, p, v)
               /\ s = IF p = v THEN t ELSE g[MaxRounds]
  BY <1>0, <1>3, StrReplaceIs
<1>5. p # v
  <2>1. 1 \in 1..Len(p)
    BY <1>0
  <2> QED BY <1>0, <2>1, RangeIs
<1>6. Braces(s) <= MaxRounds /\ ~NeverEnds(t, p, v)
  BY <1>0, <1>3, StrReplaceEnds
<1> HIDE DEF s
<1>7. s = g[MaxRounds]
  BY <1>4, <1>5
<1> DEFINE Good(u) == IsSeq(u) /\ Flat(u) /\ Once(u, pair) = Once(t, pair)
           G == {n \in 0..MaxRounds : Good(g[n])}
<1>8. /\ g \in [0..MaxRounds -> Seq(U)] /\ g[0] = t
      /\ \A n \in 1..MaxRounds : g[n] = ReplaceFirstText(g[n - 1], p, v)
  BY <1>4 DEF Rounds
<1>9. MaxRounds \in Nat
  BY RoundsAssumption
<1>10. Good(t)
  OBVIOUS
<1>11. ASSUME NEW n \in 1..MaxRounds, n - 1 \in G PROVE n \in G
  <2>1. n \in 0..MaxRounds
    BY <1>9
  <2> DEFINE u == g[n - 1]
  <2>2. Good(u)
    BY <1>11
  <2>3. g[n] = ReplaceFirstText(u, p, v)
    BY <1>8
  <2> HIDE DEF u
  <2>4. Good(ReplaceFirstText(u, p, v))
    BY <1>1, <2>2
  <2> QED BY <2>1, <2>3, <2>4
<1>12. 0 \in G
  BY <1>8, <1>9, <1>10
<1> HIDE DEF G
<1>13. 0..MaxRounds \subseteq G
  BY <1>9, <1>11, <1>12, NumbersUpTo
<1>14. Good(s)
  <2>1. MaxRounds \in 0..MaxRounds
    BY <1>9
  <2> QED BY <1>7, <1>13, <2>1 DEF G
<1>15. ~Occurs(p, s)
  BY <1>5, <1>6 DEF NeverEnds, s
<1> QED BY <1>2, <1>6, <1>14, <1>15 DEF p, v, s

-----------------------------------------------------------------------------
(* All pairs: one key after the other, or one pass for all *)

\* A text in front: what it begins with, and what comes behind it.
LEMMA FrontOf ==
  ASSUME NEW p, NEW t, IsSeq(p), IsSeq(t)
  PROVE  IsPrefix(p, p \o t) /\ Rest(p \o t, Len(p)) = t
<1> DEFINE w == p \o t
           r == Rest(w, Len(p))
<1>1. /\ IsSeq(w) /\ Len(w) = Len(p) + Len(t)
      /\ \A i \in 1..Len(p) : w[i] = p[i]
      /\ \A i \in 1..Len(t) : w[Len(p) + i] = t[i]
  BY ConcatIs
<1>2. Len(p) \in Nat /\ Len(t) \in Nat
  BY SeqIs
<1> HIDE DEF w
<1>3. Len(p) \in 0..Len(w) /\ Len(w) - Len(p) = Len(t) /\ Len(p) <= Len(w)
  BY <1>1, <1>2
<1>4. /\ IsSeq(r) /\ Len(r) = Len(w) - Len(p)
      /\ \A i \in 1..(Len(w) - Len(p)) : r[i] = w[Len(p) + i]
  BY <1>1, <1>3, RestIs
<1> HIDE DEF r
<1>5. r = t
  BY <1>1, <1>3, <1>4, SeqsEqual
<1>6. IsPrefix(p, w)
  BY <1>1, <1>3, PrefixIs
<1> QED BY <1>5, <1>6 DEF r, w

\* A context E is D with one more pair at its end.
Longer(E, D, k, pair) ==
  /\ IsPlainContext(D) /\ IsPlainContext(E) /\ IsContext(D) /\ IsContext(E) /\ IsPair(pair)
  /\ k \in Nat /\ E[k] = pair /\ \A i \in DOMAIN D : i < k /\ E[i] = D[i]
  /\ DOMAIN E = DOMAIN D \cup {k}

\* A text begins with the new placeholder, or with those of the earlier pairs.
LEMMA BeginsMore ==
  ASSUME NEW E, NEW D, NEW k, NEW pair, Longer(E, D, k, pair), NEW t, IsSeq(t)
  PROVE  LET B == Begins(t, D)
             there == IsPrefix(Placeholder(pair.key), t)
         IN /\ B # {} => Min(Begins(t, E)) = Min(B) /\ E[Min(B)] = D[Min(B)] /\ Begins(t, E) # {}
            /\ B = {} /\ there => Min(Begins(t, E)) = k /\ E[k] = pair /\ Begins(t, E) # {}
            /\ B = {} /\ ~there => Begins(t, E) = {}
<1> DEFINE B == Begins(t, D)
           A == Begins(t, E)
           there == IsPrefix(Placeholder(pair.key), t)
<1>1. A = B \cup (IF there THEN {k} ELSE {})
  BY DEF Longer, Begins
<1>2. A \in SUBSET Nat /\ B \in SUBSET Nat /\ k \in Nat
  BY BeginsAre DEF Longer
<1>3. \A i \in B : i < k /\ E[i] = D[i]
  BY DEF Begins, Longer
<1>4. E[k] = pair
  BY DEF Longer
<1> HIDE DEF A, B, there
<1>5. ASSUME B # {} PROVE Min(A) = Min(B) /\ E[Min(B)] = D[Min(B)] /\ A # {}
  <2> DEFINE j == Min(B)
  <2>1. j \in B /\ \A y \in B : j <= y
    BY <1>2, <1>5, Minimum
  <2> HIDE DEF j
  <2>2. j \in A /\ \A y \in A : j <= y
    BY <1>1, <1>2, <1>3, <2>1
  <2>3. Min(A) = j
    BY <1>2, <2>2, MinimumIs
  <2> QED BY <1>3, <2>1, <2>2, <2>3 DEF j
<1>6. ASSUME B = {}, there PROVE Min(A) = k /\ A # {}
  <2>1. k \in A /\ \A y \in A : k <= y
    BY <1>1, <1>2, <1>6
  <2> QED BY <1>2, <2>1, MinimumIs
<1>7. B = {} /\ ~there => A = {}
  BY <1>1
<1> QED BY <1>4, <1>5, <1>6, <1>7 DEF A, B, there

\* A text that begins with a placeholder of no earlier pair: the earlier pairs
\* leave that placeholder.
LEMMA PlaceholderStays ==
  ASSUME NEW D, IsPlainContext(D), IsContext(D), NEW p, IsBare(p), NEW m, IsSeq(m),
         IsPrefix(p, m), Begins(m, D) = {}
  PROVE  Interpolation(m, D) = p \o Interpolation(Rest(m, Len(p)), D)
<1> DEFINE t == Rest(m, Len(p))
<1>1. PICK q : Closing(q) /\ p = Led(OpenBrace, q)
  BY DEF IsBare
<1>2. IsSeq(q) /\ IsSeq(p) /\ Len(p) \in Nat
  BY <1>1, BareIs DEF Closing
<1>3. IsSeq(t) /\ m = p \o t
  <2>1. Len(p) <= Len(m) /\ \A i \in 1..Len(p) : m[i] = p[i]
    BY <1>2, PrefixIs
  <2>2. Len(m) \in Nat
    BY SeqIs
  <2>3. Len(p) \in 0..Len(m)
    BY <1>2, <2>1, <2>2
  <2>4. /\ IsSeq(t) /\ Len(t) = Len(m) - Len(p)
        /\ \A i \in 1..(Len(m) - Len(p)) : t[i] = m[Len(p) + i]
    BY <2>3, RestIs
  <2> HIDE DEF t
  <2> DEFINE w == p \o t
  <2>5. /\ IsSeq(w) /\ Len(w) = Len(p) + Len(t)
        /\ \A i \in 1..Len(p) : w[i] = p[i]
        /\ \A i \in 1..Len(t) : w[Len(p) + i] = t[i]
    BY <1>2, <2>4, ConcatIs
  <2> HIDE DEF w
  <2>6. Len(w) = Len(m)
    BY <1>2, <2>2, <2>4, <2>5
  <2>7. ASSUME NEW i \in 1..Len(m) PROVE m[i] = w[i]
    <3>1. CASE i <= Len(p)
      BY <1>2, <2>1, <2>5, <3>1
    <3>2. CASE ~(i <= Len(p))
      <4> DEFINE j == i - Len(p)
      <4>1. j \in 1..Len(t) /\ j \in 1..(Len(m) - Len(p)) /\ Len(p) + j = i
        BY <1>2, <2>2, <2>4, <3>2
      <4> HIDE DEF j
      <4>2. t[j] = m[Len(p) + j] /\ w[Len(p) + j] = t[j]
        BY <2>4, <2>5, <4>1
      <4> QED BY <4>1, <4>2
    <3> QED BY <3>1, <3>2
  <2>8. m = w
    BY <2>5, <2>6, <2>7, SeqsEqual
  <2> QED BY <2>4, <2>8 DEF w
<1> HIDE DEF t
<1>4. OpenBrace \notin Range(q)
  <2> SUFFICES ASSUME OpenBrace \in Range(q) PROVE FALSE
    OBVIOUS
  <2>1. PICK i \in 1..Len(q) : q[i] = OpenBrace
    BY <1>2, RangeIs
  <2>2. Len(q) \in Nat /\ (i = Len(q) \/ i \in 1..(Len(q) - 1))
    BY <1>2, SeqIs
  <2> QED BY <1>1, <2>1, <2>2, BracesDiffer DEF Closing
<1> DEFINE u == q \o t
           y == Interpolation(t, D)
<1>5. m = Led(OpenBrace, u) /\ IsSeq(u)
  <2>1. IsSeq(u)
    BY <1>2, <1>3, ConcatIs
  <2>2. IsSeq(q) /\ IsSeq(t)
    BY <1>2, <1>3
  <2> HIDE DEF u
  <2>3. Led(OpenBrace, q) \o t = Led(OpenBrace, q \o t)
    BY <2>2, LedConcat
  <2>4. m = Led(OpenBrace, q) \o t
    BY <1>1, <1>3
  <2> QED BY <2>1, <2>3, <2>4 DEF u
<1>6. Interpolation(u, D) = q \o y
  BY <1>2, <1>3, <1>4, InterpolationText
<1>7. IsSeq(y)
  BY <1>3, InterpolationIsSeq
<1> HIDE DEF u, y
<1>8. Begins(Led(OpenBrace, u), D) = {}
  BY <1>5
<1>9. Interpolation(Led(OpenBrace, u), D) = Led(OpenBrace, Interpolation(u, D))
  BY <1>5, <1>8, InterpolationLed
<1>10. Led(OpenBrace, q) \o y = Led(OpenBrace, q \o y)
  BY <1>2, <1>7, LedConcat
<1> QED BY <1>1, <1>5, <1>6, <1>9, <1>10 DEF t, y

\* All placeholders of one more pair replaced after those of the earlier pairs,
\* or all of them together.
LEMMA OnePairMore ==
  ASSUME NEW E, NEW D, NEW k, NEW pair, Longer(E, D, k, pair), NEW m, IsSeq(m), Flat(m)
  PROVE  Once(Interpolation(m, D), pair) = Interpolation(m, E)
<1> DEFINE p == Placeholder(pair.key)
           v == pair.value
           Said(u) == Once(Interpolation(u, D), pair) = Interpolation(u, E)
           G == {n \in Nat : \A u : Len(u) = n /\ IsSeq(u) /\ Flat(u) => Said(u)}
<1>0. /\ IsPlainContext(D) /\ IsPlainContext(E) /\ IsContext(D) /\ IsContext(E)
      /\ IsPair(pair) /\ IsPlainContext(<<pair>>)
  BY OneIsContext DEF Longer
<1>10. IsSeq(p) /\ Len(p) \in Nat \ {0} /\ IsBare(p) /\ IsSeq(v)
  BY <1>0, BareIs DEF IsPair, IsPlainPair
<1>2. ASSUME NEW u, IsSeq(u)
      PROVE  /\ Begins(u, D) # {} => /\ Min(Begins(u, E)) = Min(Begins(u, D))
                                     /\ E[Min(Begins(u, D))] = D[Min(Begins(u, D))]
                                     /\ Begins(u, E) # {}
             /\ Begins(u, D) = {} /\ IsPrefix(p, u)
                  => Min(Begins(u, E)) = k /\ E[k] = pair /\ Begins(u, E) # {}
             /\ Begins(u, D) = {} /\ ~IsPrefix(p, u) => Begins(u, E) = {}
  BY <1>2, BeginsMore
<1>3. ASSUME NEW u, IsSeq(u)
      PROVE  /\ u = << >> => Once(u, pair) = << >>
             /\ IsPrefix(p, u) => Once(u, pair) = v \o Once(Rest(u, Len(p)), pair)
             /\ u # << >> /\ ~IsPrefix(p, u) => Once(u, pair) = Led(u[1], Once(Rest(u, 1), pair))
  BY <1>0, <1>3, OnceGoes
<1>4. \A w, u : IsSeq(w) /\ OpenBrace \notin Range(w) /\ IsSeq(u)
                  => Once(w \o u, pair) = w \o Once(u, pair)
  BY <1>0, InterpolationText DEF Once
<1>5. \A u : IsSeq(u) => IsSeq(Interpolation(u, D))
  BY <1>0, InterpolationIsSeq
<1> HIDE DEF p, v
<1>1. ASSUME NEW n \in Nat, \A l \in Nat : l < n => l \in G PROVE n \in G
  <2> SUFFICES ASSUME NEW u, Len(u) = n, IsSeq(u), Flat(u) PROVE Said(u)
    OBVIOUS
  <2> DEFINE B == Begins(u, D)
             j == Min(B)
  <2>6. /\ u = << >> => Interpolation(u, D) = << >>
        /\ u # << >> /\ B = {}
             => Interpolation(u, D) = Led(u[1], Interpolation(Rest(u, 1), D))
        /\ B # {} => Interpolation(u, D) =
             D[j].value \o Interpolation(Rest(u, Len(Placeholder(D[j].key))), D)
    BY <1>0, InterpolationGoes
  <2> DEFINE A == Begins(u, E)
             i == Min(A)
  <2>7. /\ u = << >> => Interpolation(u, E) = << >>
        /\ u # << >> /\ A = {}
             => Interpolation(u, E) = Led(u[1], Interpolation(Rest(u, 1), E))
        /\ A # {} => Interpolation(u, E) =
             E[i].value \o Interpolation(Rest(u, Len(Placeholder(E[i].key))), E)
    BY <1>0, InterpolationGoes
  <2>8. /\ B # {} => i = j /\ E[j] = D[j] /\ A # {}
        /\ B = {} /\ IsPrefix(p, u) => i = k /\ E[k] = pair /\ A # {}
        /\ B = {} /\ ~IsPrefix(p, u) => A = {}
    BY <1>2
  <2>9. ASSUME NEW l \in 1..Len(u) PROVE Said(Rest(u, l)) /\ IsSeq(Rest(u, l))
    <3> DEFINE r == Rest(u, l)
    <3>1. l \in 0..Len(u) /\ Len(u) - l \in Nat /\ Len(u) - l < n
      BY SeqIs
    <3>2. IsSeq(r) /\ Len(r) = Len(u) - l /\ Flat(r)
      BY <3>1, RestIs, FlatRest
    <3> HIDE DEF r, Said
    <3>3. Len(u) - l \in G
      BY <1>1, <3>1
    <3> QED BY <3>2, <3>3 DEF r
  <2>1. CASE B # {}
    <3> DEFINE q == Placeholder(D[j].key)
               x == D[j].value
               r == Rest(u, Len(q))
    <3>1. j \in B /\ IsSeq(q) /\ Len(q) \in Nat \ {0} /\ Len(q) <= Len(u) /\ IsSeq(x)
      BY <1>0, <2>1, BeginsAre
    <3>2. Len(q) \in 1..Len(u)
      BY <3>1, SeqIs
    <3>3. Said(r) /\ IsSeq(r)
      <4> HIDE DEF q, Said
      <4> QED BY <2>9, <3>2
    <3>4. OpenBrace \notin Range(x)
      <4>1. j \in 1..Len(D)
        BY <1>0, <3>1, BeginsAre
      <4> HIDE DEF j
      <4> QED BY <1>0, <4>1 DEF IsPlainContext, IsPlainPair
    <3>5. Interpolation(u, D) = x \o Interpolation(r, D)
      BY <2>1, <2>6
    <3>6. Interpolation(u, E) = x \o Interpolation(r, E)
      <4> HIDE DEF i, A, B, j
      <4>1. i = j /\ E[j] = D[j] /\ A # {}
        BY <2>1, <2>8
      <4> QED BY <2>7, <4>1
    <3> HIDE DEF x, r, q, j, B, A, i
    <3>7. Once(x \o Interpolation(r, D), pair) = x \o Once(Interpolation(r, D), pair)
      BY <1>4, <1>5, <3>1, <3>3, <3>4
    <3> QED BY <3>3, <3>5, <3>6, <3>7
  <2>2. CASE B = {} /\ IsPrefix(p, u)
    <3> DEFINE r == Rest(u, Len(p))
               y == Interpolation(r, D)
               w == p \o y
    <3>1. Len(p) \in 1..Len(u)
      <4>1. Len(p) <= Len(u)
        BY <1>10, <2>2, PrefixIs
      <4> QED BY <1>10, <4>1, SeqIs
    <3>2. Said(r) /\ IsSeq(r)
      <4> HIDE DEF Said
      <4> QED BY <2>9, <3>1
    <3>3. Interpolation(u, D) = w
      BY <1>0, <1>10, <2>2, PlaceholderStays
    <3>4. Interpolation(u, E) = v \o Interpolation(r, E)
      <4> HIDE DEF i, A, B, j
      <4>1. i = k /\ E[k] = pair /\ A # {}
        BY <2>2, <2>8
      <4> QED BY <2>7, <4>1 DEF p, v
    <3>5. IsSeq(y)
      <4> HIDE DEF r
      <4> QED BY <1>5, <3>2
    <3>8. Once(y, pair) = Interpolation(r, E)
      BY <3>2
    <3> HIDE DEF y, r
    <3>6. IsSeq(w) /\ IsPrefix(p, w) /\ Rest(w, Len(p)) = y
      BY <1>10, <3>5, FrontOf, ConcatIs
    <3> HIDE DEF w
    <3>7. Once(w, pair) = v \o Once(y, pair)
      BY <1>3, <3>6
    <3> QED BY <3>3, <3>4, <3>7, <3>8
  <2>3. CASE B = {} /\ ~IsPrefix(p, u) /\ u = << >>
    <3>1. Interpolation(u, D) = << >> /\ Interpolation(u, E) = << >> /\ Once(u, pair) = << >>
      BY <1>3, <2>3, <2>6, <2>7
    <3> QED BY <2>3, <3>1
  <2>4. CASE B = {} /\ ~IsPrefix(p, u) /\ u # << >>
    <3> DEFINE c == u[1]
               r == Rest(u, 1)
               y == Interpolation(r, D)
               w == Led(c, y)
    <3>1. u = Led(c, r) /\ IsSeq(r) /\ 1 \in 1..Len(u)
      BY <2>4, LedIs
    <3>2. Said(r)
      <4> HIDE DEF Said
      <4> QED BY <2>9, <3>1
    <3>3. Interpolation(u, D) = w
      BY <2>4, <2>6
    <3>4. Interpolation(u, E) = Led(c, Interpolation(r, E))
      <4> HIDE DEF A
      <4> QED BY <2>4, <2>7, <2>8
    <3>5. IsSeq(y)
      <4> HIDE DEF r
      <4> QED BY <1>5, <3>1
    <3>6. Once(y, pair) = Interpolation(r, E)
      BY <3>2
    <3>11. \A q : Closing(q) /\ Shut(r) /\ IsPrefix(q, y) => IsPrefix(q, r)
      BY <1>0, <3>1, ClosingStays
    <3> HIDE DEF y, r, c
    <3>12. c = OpenBrace => Shut(r)
      BY <3>1, FlatLed
    <3>7. ~IsPrefix(p, w)
      <4> SUFFICES ASSUME IsPrefix(p, w) PROVE FALSE
        OBVIOUS
      <4>1. PICK q : Closing(q) /\ p = Led(OpenBrace, q)
        BY <1>10 DEF IsBare
      <4>5. IsSeq(q)
        BY <4>1 DEF Closing
      <4>6. IsPrefix(Led(OpenBrace, q), Led(c, y))
        BY <4>1
      <4>2. c = OpenBrace /\ IsPrefix(q, y)
        BY <3>5, <4>5, <4>6, PrefixLed
      <4>3. IsPrefix(q, r)
        BY <3>11, <3>12, <4>1, <4>2
      <4>4. IsPrefix(Led(OpenBrace, q), Led(c, r))
        BY <3>1, <4>2, <4>3, <4>5, PrefixLed
      <4> QED BY <2>4, <3>1, <4>1, <4>4
    <3>8. IsSeq(w) /\ w # << >> /\ w[1] = c /\ Rest(w, 1) = y
      BY <3>5, LedGives
    <3> HIDE DEF w
    <3>9. Once(w, pair) = Led(w[1], Once(Rest(w, 1), pair))
      BY <1>3, <3>7, <3>8
    <3> QED BY <3>3, <3>4, <3>6, <3>8, <3>9
  <2> QED BY <2>1, <2>2, <2>3, <2>4
<1> HIDE DEF G
<1>6. Nat \subseteq G
  BY <1>1, AllNumbers
<1>7. Len(m) \in G
  BY <1>6, SeqIs
<1> QED BY <1>7 DEF G

\* The first pairs of a context
FirstPairs(C, k) == [i \in 1..k |-> C[i]]

\* The first pairs of a context are a context.
LEMMA FirstPairsAre ==
  ASSUME NEW C, IsPlainContext(C), NEW k \in 0..Len(C)
  PROVE  /\ IsContext(FirstPairs(C, k)) /\ IsPlainContext(FirstPairs(C, k))
         /\ DOMAIN FirstPairs(C, k) = 1..k /\ \A i \in 1..k : FirstPairs(C, k)[i] = C[i]
<1> DEFINE D == FirstPairs(C, k)
           S == {C[i] : i \in 1..k}
<1>1. IsSeq(C) /\ Len(C) \in Nat
  BY SeqIs DEF IsPlainContext, IsContext
<1>2. k \in Nat /\ \A i \in 1..k : i \in 1..Len(C)
  BY <1>1
<1>3. D \in [1..k -> S] /\ DOMAIN D = 1..k /\ \A i \in 1..k : D[i] = C[i]
  BY DEF FirstPairs
<1> HIDE DEF D, S
<1>4. D \in Seq(S) /\ Len(D) = k
  BY <1>2, <1>3
<1>5. IsSeq(D)
  BY <1>4 DEF IsSeq
<1>6. \A i \in 1..k : /\ IsSeq(C[i].key) /\ IsSeq(C[i].value) /\ IsPlainPair(C[i])
  BY <1>2 DEF IsPlainContext, IsContext
<1>7. IsContext(D)
  BY <1>3, <1>4, <1>5, <1>6 DEF IsContext
<1>8. IsPlainContext(D)
  BY <1>3, <1>4, <1>6, <1>7 DEF IsPlainContext
<1> QED BY <1>3, <1>7, <1>8 DEF D

\* Each pair makes the context one longer.
LEMMA OnePairLonger ==
  ASSUME NEW C, IsPlainContext(C), NEW k \in 1..Len(C)
  PROVE  Longer(FirstPairs(C, k), FirstPairs(C, k - 1), k, C[k]) /\ IsPair(C[k])
<1> DEFINE D == FirstPairs(C, k - 1)
           E == FirstPairs(C, k)
<1>1. Len(C) \in Nat /\ k \in 0..Len(C) /\ k - 1 \in 0..Len(C) /\ k \in Nat
  BY SeqIs DEF IsPlainContext, IsContext
<1>2. /\ IsContext(D) /\ IsPlainContext(D) /\ DOMAIN D = 1..(k - 1)
      /\ \A i \in 1..(k - 1) : D[i] = C[i]
  <2> DEFINE l == k - 1
  <2>1. l \in 0..Len(C)
    BY <1>1
  <2> HIDE DEF l
  <2>2. /\ IsContext(FirstPairs(C, l)) /\ IsPlainContext(FirstPairs(C, l))
        /\ DOMAIN FirstPairs(C, l) = 1..l /\ \A i \in 1..l : FirstPairs(C, l)[i] = C[i]
    BY <2>1, FirstPairsAre
  <2> QED BY <2>2 DEF l
<1>3. /\ IsContext(E) /\ IsPlainContext(E) /\ DOMAIN E = 1..k
      /\ \A i \in 1..k : E[i] = C[i]
  BY <1>1, FirstPairsAre
<1>4. IsPair(C[k])
  BY DEF IsPair, IsPlainContext, IsContext
<1> HIDE DEF D, E
<1>5. E[k] = C[k] /\ DOMAIN E = DOMAIN D \cup {k} /\ \A i \in DOMAIN D : i < k /\ E[i] = D[i]
  BY <1>1, <1>2, <1>3
<1> QED BY <1>1, <1>2, <1>3, <1>4, <1>5 DEF D, E, Longer

\* Without a pair a message stays as it is.
LEMMA InterpolationNone ==
  ASSUME NEW D, IsContext(D), DOMAIN D = {}, NEW m, IsSeq(m)
  PROVE  Interpolation(m, D) = m
<1> DEFINE G == {n \in Nat : \A u : Len(u) = n /\ IsSeq(u) => Interpolation(u, D) = u}
<1>1. ASSUME NEW n \in Nat, \A l \in Nat : l < n => l \in G PROVE n \in G
  <2> SUFFICES ASSUME NEW u, Len(u) = n, IsSeq(u) PROVE Interpolation(u, D) = u
    OBVIOUS
  <2>1. Begins(u, D) = {}
    BY DEF Begins
  <2>2. /\ u = << >> => Interpolation(u, D) = << >>
        /\ u # << >> => Interpolation(u, D) = Led(u[1], Interpolation(Rest(u, 1), D))
    BY <2>1, InterpolationGoes
  <2>3. CASE u # << >>
    <3> DEFINE r == Rest(u, 1)
    <3>1. u = Led(u[1], r) /\ IsSeq(r) /\ Len(r) = n - 1 /\ n - 1 \in Nat /\ n - 1 < n
      BY <2>3, LedIs
    <3> HIDE DEF r
    <3>2. Interpolation(r, D) = r
      BY <1>1, <3>1
    <3> QED BY <2>2, <2>3, <3>1, <3>2 DEF r
  <2> QED BY <2>2, <2>3
<1> HIDE DEF G
<1>2. Nat \subseteq G
  BY <1>1, AllNumbers
<1>3. Len(m) \in G
  BY <1>2, SeqIs
<1> QED BY <1>3 DEF G

\* A pair of php_strtr_array replaces its placeholders once.
LEMMA PairDoneOnce ==
  ASSUME NEW sofar, NEW S, sofar \in [text : S, ends : BOOLEAN], sofar.ends,
         IsSeq(sofar.text), Flat(sofar.text), Braces(sofar.text) <= MaxRounds,
         NEW pair, IsPair(pair)
  PROVE  LET x == PairDone(sofar, pair)
         IN /\ x.text = Once(sofar.text, pair)
            /\ x.ends /\ IsSeq(x.text) /\ Flat(x.text) /\ Braces(x.text) <= MaxRounds
<1> DEFINE t == sofar.text
           from == Placeholder(pair.key)
           s == StrReplace(t, from, pair.value)
<1>1. /\ s = Once(t, pair) /\ IsSeq(s) /\ Flat(s) /\ Braces(s) <= MaxRounds
      /\ ~NeverEnds(t, from, pair.value)
  <2>1. IsSeq(t) /\ Flat(t) /\ Braces(t) <= MaxRounds
    OBVIOUS
  <2> HIDE DEF t
  <2> QED BY <2>1, StrReplaceOnce
<1>2. PairDone(sofar, pair) = [sofar EXCEPT !.text = s]
  BY <1>1 DEF PairDone
<1> HIDE DEF s
<1>3. [sofar EXCEPT !.text = s].text = s /\ [sofar EXCEPT !.text = s].ends = sofar.ends
  OBVIOUS
<1> QED BY <1>1, <1>2, <1>3

\* php_strtr_array replaces the placeholders one key after the other, and gives
\* what one pass from left to right gives.
LEMMA StrtrArrayOnce ==
  ASSUME NEW m, IsSeq(m), Flat(m), Braces(m) <= MaxRounds, NEW C, IsPlainContext(C)
  PROVE  StrtrArray(m, C).text = Interpolation(m, C)
<1> DEFINE N == Len(C)
           U == Range(m) \cup UNION {Range(C[k].value) : k \in 1..N}
           a == [text |-> m, ends |-> TRUE]
           Body(f, k) == IF k = 0 THEN a ELSE PairDone(f[k - 1], C[k])
           F == CHOOSE f : f = [k \in 0..N |-> Body(f, k)]
<1>0. IsContext(C)
  BY DEF IsPlainContext
<1>1. N \in Nat /\ IsSeq(C)
  BY <1>0, SeqIs DEF IsContext
<1>2. m \in Seq(U) /\ \A k \in 1..N : C[k].value \in Seq(U)
  <2>1. m \in Seq(Range(m)) /\ Range(m) \subseteq U
    BY TextIsSeq DEF IsText
  <2>2. ASSUME NEW k \in 1..N
        PROVE  C[k].value \in Seq(Range(C[k].value)) /\ Range(C[k].value) \subseteq U
    BY <1>0, TextIsSeq DEF IsText, IsContext
  <2> HIDE DEF U
  <2> QED BY <2>1, <2>2, SeqMonotonic
<1>3. StrtrArray(m, C) = F[N]
  BY DEF StrtrArray, PairDone
<1> HIDE DEF U
<1>16. PICK g : Pairs(g, U, m, C)
  BY <1>0, <1>2, PairsThere
<1>4. /\ g \in [0..N -> [text : Seq(U), ends : BOOLEAN]] /\ g[0] = a
      /\ \A k \in 1..N : g[k] = PairDone(g[k - 1], C[k])
  BY <1>16 DEF Pairs
<1>17. a.text = m /\ a.ends = TRUE
  OBVIOUS
<1> HIDE DEF a, N
<1>5. ASSUME NEW k \in 0..N PROVE g[k] = Body(g, k)
  <2>1. k # 0 => k \in 1..N
    BY <1>1
  <2> QED BY <1>4, <2>1
<1>6. g = [k \in 0..N |-> g[k]]
  BY <1>4
<1> HIDE DEF Body
<1>7. g = [k \in 0..N |-> Body(g, k)]
  BY <1>5, <1>6
<1>8. F = [k \in 0..N |-> Body(F, k)]
  BY <1>7
<1> HIDE DEF F
<1>9. F[0] = a /\ \A k \in 1..N : F[k] = PairDone(F[k - 1], C[k])
  <2>1. 0 \in 0..N /\ \A k \in 1..N : k \in 0..N /\ k # 0
    BY <1>1
  <2>2. \A k \in 0..N : F[k] = Body(F, k)
    BY <1>8
  <2> QED BY <2>1, <2>2 DEF Body
<1> DEFINE D == [text : Seq(U), ends : BOOLEAN]
           Good(x, k) == /\ x \in D /\ x.ends /\ IsSeq(x.text) /\ Flat(x.text)
                         /\ Braces(x.text) <= MaxRounds
                         /\ x.text = Interpolation(m, FirstPairs(C, k))
           G == {k \in 0..N : Good(F[k], k)}
<1>10. 0 \in G
  <2>1. 0 \in 0..N /\ 0 \in 0..Len(C) /\ F[0] = a /\ a \in D
    BY <1>1, <1>2, <1>9 DEF a, N
  <2>2. IsContext(FirstPairs(C, 0)) /\ DOMAIN FirstPairs(C, 0) = 1..0
    BY <2>1, FirstPairsAre
  <2>3. DOMAIN FirstPairs(C, 0) = {}
    BY <2>2
  <2>4. Interpolation(m, FirstPairs(C, 0)) = m
    BY <2>2, <2>3, InterpolationNone
  <2> HIDE DEF D
  <2> QED BY <1>17, <2>1, <2>4
<1>11. ASSUME NEW k \in 1..N, k - 1 \in G PROVE k \in G
  <2> DEFINE x == F[k - 1]
             pair == C[k]
             y == PairDone(x, pair)
             A == FirstPairs(C, k - 1)
             E == FirstPairs(C, k)
  <2>1. Good(x, k - 1) /\ F[k] = y /\ k \in 0..N /\ k \in 1..Len(C)
    BY <1>1, <1>9, <1>11 DEF N
  <2>2. Longer(E, A, k, pair) /\ IsPair(pair)
    BY <2>1, OnePairLonger
  <2>3. IsSeq(pair.key) /\ pair.value \in Seq(U)
    BY <1>2, <2>2 DEF IsPair
  <2>4. /\ x \in [text : Seq(U), ends : BOOLEAN] /\ x.ends /\ IsSeq(x.text) /\ Flat(x.text)
        /\ Braces(x.text) <= MaxRounds /\ x.text = Interpolation(m, A)
    BY <2>1
  <2> HIDE DEF x, pair, A, E, D
  <2>5. y \in [text : Seq(U), ends : BOOLEAN]
    BY <2>3, <2>4, PairDoneIs
  <2> DEFINE S == Seq(U)
  <2>9. x \in [text : S, ends : BOOLEAN]
    BY <2>4
  <2> HIDE DEF S
  <2>6. /\ y.text = Once(x.text, pair)
        /\ y.ends /\ IsSeq(y.text) /\ Flat(y.text) /\ Braces(y.text) <= MaxRounds
    BY <2>2, <2>4, <2>9, PairDoneOnce
  <2> HIDE DEF y
  <2>7. Once(Interpolation(m, A), pair) = Interpolation(m, E)
    BY <2>2, OnePairMore
  <2>8. y.text = Interpolation(m, E)
    BY <2>4, <2>6, <2>7
  <2> QED BY <2>1, <2>5, <2>6, <2>8 DEF D, E
<1> HIDE DEF G
<1>12. 0..N \subseteq G
  BY <1>1, <1>10, <1>11, NumbersUpTo
<1>13. F[N].text = Interpolation(m, FirstPairs(C, N))
  BY <1>1, <1>12 DEF G
<1>14. FirstPairs(C, N) = C
  <2>1. PICK S : C \in Seq(S)
    BY <1>1 DEF IsSeq
  <2>2. C = [i \in 1..Len(C) |-> C[i]]
    BY <2>1
  <2> QED BY <2>2 DEF FirstPairs, N
<1> QED BY <1>3, <1>13, <1>14 DEF F, Body, a, N

-----------------------------------------------------------------------------
(* A line is the template expanded once *)

\* A message without nested braces is flat.
LEMMA NotNested ==
  ASSUME NEW t, IsSeq(t), ~Nested(t)
  PROVE  Flat(t)
<1>1. PICK S : t \in Seq(S)
  BY DEF IsSeq
<1>2. Len(t) \in Nat /\ DOMAIN t = 1..Len(t)
  BY SeqIs
<1>3. ASSUME NEW i \in 1..Len(t), NEW j \in 1..Len(t), i < j,
             t[i] = OpenBrace, t[j] = OpenBrace
      PROVE  \E k \in i..j : t[k] = CloseBrace
  <2> DEFINE a == SubSeq(t, i, j)
  <2>1. i \in Nat \ {0} /\ j \in Nat /\ j <= Len(t) /\ i <= j
    BY <1>2, <1>3
  <2>2. /\ a \in Seq(S) /\ Len(a) = j - i + 1
        /\ \A k \in 1..(j - i + 1) : a[k] = t[i + k - 1]
    BY <1>1, <2>1, PartIs
  <2>3. CloseBrace \in Range(a)
    BY <1>2, <1>3 DEF Nested
  <2> HIDE DEF a
  <2>7. IsSeq(a)
    BY <2>2 DEF IsSeq
  <2>4. PICK k \in 1..Len(a) : a[k] = CloseBrace
    BY <2>3, <2>7, RangeIs
  <2> DEFINE l == i + k - 1
  <2>5. l \in i..j
    BY <2>1, <2>2, <2>4
  <2>6. t[l] = CloseBrace
    BY <2>2, <2>4
  <2> QED BY <2>5, <2>6
<1> QED BY <1>3 DEF Flat

\* A placeholder that is enclosed is an opening brace and a closing.
LEMMA EnclosedIsBare ==
  ASSUME NEW p, IsSeq(p), Len(p) > 0, p[1] = OpenBrace, Enclosed(p)
  PROVE  IsBare(p)
<1> DEFINE q == Rest(p, 1)
           n == Len(q)
           a == SubSeq(p, 2, Len(p) - 1)
<1>1. PICK S : p \in Seq(S)
  BY DEF IsSeq
<1>2. p # << >>
  BY EmptyIsSeq
<1>3. p = Led(OpenBrace, q) /\ IsSeq(q) /\ n = Len(p) - 1 /\ Len(p) \in Nat \ {0}
  BY <1>2, LedIs
<1>4. p[Len(p)] = CloseBrace /\ ~HasBrace(a)
  BY DEF Enclosed, Last
<1>5. Len(p) # 1
  BY <1>4, BracesDiffer
<1>6. n \in Nat \ {0}
  BY <1>3, <1>5
<1> HIDE DEF q
<1>7. \A i \in 1..n : q[i] = p[i + 1]
  BY <1>3, LedGives
<1>8. q[n] = CloseBrace
  BY <1>3, <1>4, <1>6, <1>7
<1>9. /\ a \in Seq(S) /\ Len(a) = (IF 2 <= Len(p) - 1 THEN (Len(p) - 1) - 2 + 1 ELSE 0)
      /\ \A i \in 1..((Len(p) - 1) - 2 + 1) : a[i] = p[2 + i - 1]
  <2> DEFINE m == Len(p) - 1
  <2>1. m \in Nat /\ m <= Len(p)
    BY <1>3
  <2> HIDE DEF m
  <2>2. /\ SubSeq(p, 2, m) \in Seq(S)
        /\ Len(SubSeq(p, 2, m)) = (IF 2 <= m THEN m - 2 + 1 ELSE 0)
        /\ \A i \in 1..(m - 2 + 1) : SubSeq(p, 2, m)[i] = p[2 + i - 1]
    BY <1>1, <2>1, PartIs
  <2> QED BY <2>2 DEF m
<1> HIDE DEF a
<1>10. ASSUME NEW i \in 1..(n - 1) PROVE q[i] # OpenBrace /\ q[i] # CloseBrace
  <2>1. i \in 1..Len(a) /\ a[i] = q[i]
    BY <1>3, <1>6, <1>7, <1>9
  <2>2. a[i] \in Range(a)
    BY <1>9, <2>1, RangeIs DEF IsSeq
  <2> QED BY <1>4, <2>1, <2>2 DEF HasBrace
<1>11. Closing(q)
  BY <1>3, <1>6, <1>8, <1>10 DEF Closing
<1> QED BY <1>3, <1>11 DEF IsBare

\* The message of a plain line has its placeholders replaced once.
LEMMA MessageOnce ==
  ASSUME NEW s, s.c \in Calls, s.i \in DOMAIN s.c.messages, Plain(s)
  PROVE  MessageText(setting, s) = Trimmed(Interpolation(s.c.messages[s.i], s.c.context))
<1> DEFINE m == s.c.messages[s.i]
           C == s.c.context
<1>1. IsSeq(m) /\ Braces(m) <= MaxRounds /\ IsContext(C)
  BY CallIs
<1>2. ~Nested(m) /\ \A pair \in Range(C) : ~HasBrace(pair.value) /\ Enclosed(Placeholder(pair.key))
  BY DEF Plain
<1>3. MessageText(setting, s) =
        IF setting.trimWrap THEN TrimWrap(StrtrArray(m, C).text) ELSE StrtrArray(m, C).text
  BY DEF MessageText
<1> HIDE DEF m, C
<1>4. ASSUME NEW k \in 1..Len(C) PROVE IsPlainPair(C[k])
  <2> DEFINE p == Placeholder(C[k].key)
  <2>1. C[k] \in Range(C) /\ IsSeq(C[k].key)
    BY <1>1, RangeIs DEF IsContext
  <2>2. IsSeq(p) /\ Len(p) > 0 /\ p[1] = OpenBrace
    BY <2>1, PlaceholderIs
  <2>3. Enclosed(p) /\ ~HasBrace(C[k].value)
    BY <1>2, <2>1
  <2> HIDE DEF p
  <2>4. IsBare(p)
    BY <2>2, <2>3, EnclosedIsBare
  <2> QED BY <2>3, <2>4 DEF p, HasBrace, IsPlainPair
<1>5. IsPlainContext(C)
  BY <1>1, <1>4 DEF IsPlainContext
<1>6. Flat(m)
  BY <1>1, <1>2, NotNested
<1>7. StrtrArray(m, C).text = Interpolation(m, C)
  BY <1>1, <1>5, <1>6, StrtrArrayOnce
<1> QED BY <1>3, <1>7 DEF m, C, Trimmed

\* The text of a plain line, in one pass
LEMMA LineOnce ==
  ASSUME LineWritten, NEW n \in DOMAIN said, Plain(said[n])
  PROVE  LET s == said[n]
             v == VariablesOf(s)
             text == Trimmed(Interpolation(s.c.messages[s.i], s.c.context))
         IN LineText(setting, s) =
              (IF setting.tcp THEN Header(s.c.level, v) ELSE << >>)
                \o Format(setting.template,
                          Extended(RequestValues(v), LineValues(s.c.level, s.id, text)))
                \o <<Feed>>
<1> DEFINE s == said[n]
           v == VariablesOf(s)
           text == Trimmed(Interpolation(s.c.messages[s.i], s.c.context))
           fmt == setting.template
           a == RequestValues(v)
           b == LineValues(s.c.level, s.id, text)
<1>1. n \in 1..Len(said) /\ s.c \in Calls /\ s.i \in DOMAIN s.c.messages
  BY SeqIs DEF LineWritten, LineInv, ArrayInv, CallTyped, SayingsInv
<1>2. VariablesTyped(v) /\ IsSeq(s.id) /\ setting \in Settings
  BY <1>1 DEF LineWritten, LineInv, SaidInv, TextsInv
<1>3. Plain(s)
  OBVIOUS
<1>4. \A x \in Range(RequestValues(VariablesOf(s))) : "%" \notin Range(x)
  BY <1>3 DEF Plain
<1> HIDE DEF s
<1>5. MessageText(setting, s) = text
  BY <1>1, <1>3, MessageOnce
<1>6. IsSeq(text)
  BY <1>1, <1>5, MessageTextIs
<1>7. LineText(setting, s) =
        (IF setting.tcp THEN Header(s.c.level, v) ELSE << >>)
          \o Format(Format(fmt, a), b) \o <<Feed>>
  BY <1>5 DEF LineText
<1> HIDE DEF text, v
<1>8. AreTexts(a) /\ AreTexts(b)
  BY <1>2, <1>6, RequestValuesAre, LineValuesAre DEF AreTexts
<1>9. \A c \in DOMAIN a : "%" \notin Range(a[c])
  BY <1>4 DEF Range, v
<1>10. IsSeq(fmt)
  BY <1>2, SettingsAssumption, TextIsSeq
<1> HIDE DEF a, b, fmt
<1>11. Format(Format(fmt, a), b) = Format(fmt, Extended(a, b))
  BY <1>8, <1>9, <1>10, TwoPasses
<1> QED BY <1>7, <1>11 DEF s, v, text, fmt, a, b

\* For all templates, servers, settings and calls: a line that is plain is the
\* template with each specifier replaced once, by the variables as they are at
\* the call and by the message with each placeholder replaced once, although
\* the template is expanded in two passes, the first when the request begins
\* and whenever the script sets a variable, and the placeholders one key after
\* the other (seaslog_template_formatter, php_strtr_array, str_replace).
THEOREM LinesExpanded == Spec => []LineIsExpanded
<1>1. LineWritten => LineIsExpanded
  <2> SUFFICES ASSUME LineWritten, NEW n \in DOMAIN said, Plain(said[n])
               PROVE  LET s == said[n]
                          v == VariablesOf(s)
                          text == Trimmed(Interpolation(s.c.messages[s.i], s.c.context))
                      IN RowsOf(n) = LinesOf(
                           (IF setting.tcp THEN Header(s.c.level, v) ELSE << >>)
                             \o Format(setting.template,
                                       Extended(RequestValues(v), LineValues(s.c.level, s.id, text)))
                             \o <<Feed>>)
    BY DEF LineIsExpanded
  <2>1. RowsOf(n) = LinesOf(LineText(setting, said[n]))
    BY RowsOfAre
  <2> QED BY <2>1, LineOnce
<1> QED BY <1>1, WrittenHolds, PTL

\* Beside a reader, too, a call stops at its first message that is not logged
\* and says so, only a value with a brace keeps a replacement going, every row
\* is of a line of a call, and a plain line is the template expanded once
\* (seaslog_log_by_level_common_ex, str_replace, seaslog_log_ex,
\* seaslog_spprintf).
THEOREM SearchLinesHold ==
  SearchSpec => [](ArrayStops /\ KilledOnlyByBraces /\ TypeOK /\ LineIsExpanded)
BY ArrayHolds, KilledHolds, TypeCorrect, LinesExpanded, SearchWritesNothing, PTL

-----------------------------------------------------------------------------
(* What a search finds *)

\* Every element of the parts is of one of them.
LEMMA FlattenRange ==
  ASSUME NEW s, AreSeqs(s)
  PROVE  \A x \in Range(FlattenSeq(s)) : \E i \in 1..Len(s) : x \in Range(s[i])
<1> DEFINE U == UNION {Range(s[i]) : i \in 1..Len(s)}
<1>1. PICK g : Joined(g, s) /\ FlattenSeq(s) = g[Len(s)]
  BY FlattenIs
<1>2. Len(s) \in Nat
  BY SeqIs DEF AreSeqs
<1>8. ASSUME NEW i \in 1..Len(s) PROVE s[i] \in Seq(U)
  <2>1. s[i] \in Seq(Range(s[i])) /\ Range(s[i]) \subseteq U
    BY TextIsSeq DEF AreSeqs, IsText
  <2> HIDE DEF U
  <2> QED BY <2>1, SeqMonotonic
<1> HIDE DEF U
<1> DEFINE G == {i \in 0..Len(s) : g[i] \in Seq(U)}
<1>3. 0 \in G
  <2>1. g[0] = << >> /\ 0 \in 0..Len(s)
    BY <1>1, <1>2 DEF Joined
  <2>2. << >> \in Seq(U)
    OBVIOUS
  <2>3. g[0] \in Seq(U)
    BY <2>1, <2>2
  <2> QED BY <2>1, <2>3
<1>4. ASSUME NEW i \in 1..Len(s), i - 1 \in G PROVE i \in G
  <2>1. g[i] = g[i - 1] \o s[i]
    BY <1>1 DEF Joined
  <2>2. i \in 0..Len(s)
    BY <1>2
  <2>3. g[i - 1] \in Seq(U)
    BY <1>4
  <2>4. g[i - 1] \o s[i] \in Seq(U)
    BY <1>8, <2>3, ConcatProperties
  <2> QED BY <2>1, <2>2, <2>4
<1> HIDE DEF G
<1>5. Len(s) \in G
  <2>1. 0..Len(s) \subseteq G
    BY <1>2, <1>3, <1>4, NumbersUpTo
  <2> QED BY <1>2, <2>1
<1>6. FlattenSeq(s) \in Seq(U)
  BY <1>1, <1>5 DEF G
<1>7. Range(FlattenSeq(s)) \subseteq U
  <2>1. IsSeq(FlattenSeq(s))
    BY <1>6 DEF IsSeq
  <2> QED BY <1>6, <2>1, RangeIs
<1> QED BY <1>7 DEF U

LEMMA ReverseIs ==
  ASSUME NEW s, IsSeq(s)
  PROVE  /\ IsSeq(Reverse(s)) /\ Len(Reverse(s)) = Len(s)
         /\ \A i \in 1..Len(s) : Reverse(s)[i] = s[Len(s) - i + 1]
         /\ Range(Reverse(s)) \subseteq Range(s)
<1> DEFINE r == Reverse(s)
<1>1. Len(s) \in Nat
  BY SeqIs
<1>2. r = [i \in 1..Len(s) |-> r[i]] /\ \A i \in 1..Len(s) : r[i] = s[Len(s) - i + 1]
  BY DEF Reverse
<1> HIDE DEF r
<1>3. IsSeq(r) /\ Len(r) = Len(s)
  BY <1>1, <1>2, FunctionIs
<1>4. \A i \in 1..Len(s) : Len(s) - i + 1 \in 1..Len(s)
  BY <1>1
<1>5. Range(r) \subseteq Range(s)
  BY <1>2, <1>3, <1>4, RangeIs
<1> QED BY <1>2, <1>3, <1>5 DEF r

\* What a file had is in what it has with rows more, read from the end, too.
LEMMA MoreIsIn ==
  ASSUME NEW s, NEW t, IsSeq(s), IsSeq(t)
  PROVE  IsIn(s, s \o t) /\ IsIn(Reverse(s), Reverse(s \o t))
<1>1. Len(s) \in Nat /\ Len(t) \in Nat
  BY SeqIs
<1>2. /\ IsSeq(s \o t) /\ Len(s \o t) = Len(s) + Len(t)
      /\ \A i \in 1..Len(s) : (s \o t)[i] = s[i]
  BY ConcatIs
<1>3. IsIn(s, s \o t)
  <2>1. IsIn(s, s) /\ IsIn(<< >>, t) /\ IsSeq(<< >>)
    BY IsInItself, EmptyIsIn, EmptyIsSeq
  <2>2. IsIn(s \o << >>, s \o t)
    BY <2>1, ConcatIsIn
  <2> QED BY <2>2, ConcatEmpty
<1>4. IsIn(Reverse(s), Reverse(s \o t))
  <2> DEFINE u == s \o t
             h == [i \in 1..Len(s) |-> Len(t) + i]
  <2>1. /\ Len(Reverse(s)) = Len(s) /\ Len(Reverse(u)) = Len(s) + Len(t)
        /\ \A i \in 1..Len(s) : Reverse(s)[i] = s[Len(s) - i + 1]
        /\ \A i \in 1..Len(u) : Reverse(u)[i] = u[Len(u) - i + 1]
    BY <1>2, ReverseIs
  <2> HIDE DEF u
  <2>2. ASSUME NEW i \in 1..Len(s)
        PROVE  h[i] \in 1..(Len(s) + Len(t)) /\ Reverse(u)[h[i]] = Reverse(s)[i]
    <3>1. /\ h[i] = Len(t) + i /\ h[i] \in 1..(Len(s) + Len(t))
          /\ (Len(s) + Len(t)) - h[i] + 1 = Len(s) - i + 1 /\ Len(s) - i + 1 \in 1..Len(s)
      BY <1>1
    <3>2. Len(u) = Len(s) + Len(t) /\ u[Len(s) - i + 1] = s[Len(s) - i + 1]
      BY <1>2, <3>1 DEF u
    <3> HIDE DEF h
    <3> QED BY <2>1, <3>1, <3>2
  <2>3. \A i, j \in 1..Len(s) : i < j => h[i] < h[j]
    BY <1>1
  <2>4. h \in [1..Len(s) -> 1..(Len(s) + Len(t))]
    BY <1>1
  <2> HIDE DEF h
  <2>5. Embeds(h, Reverse(s), Reverse(u))
    BY <2>1, <2>2, <2>3, <2>4 DEF Embeds
  <2> QED BY <2>5 DEF IsIn, u
<1> QED BY <1>3, <1>4

\* grep keeps the order, and finds in more lines what it found before.
LEMMA GrepIs ==
  ASSUME NEW pattern, NEW lines, IsSeq(lines)
  PROVE  /\ IsSeq(Grep(pattern, lines))
         /\ Range(Grep(pattern, lines)) \subseteq Range(lines)
<1> DEFINE S == {i \in 1..Len(lines) : Occurs(pattern, lines[i].text)}
<1>1. S \in SUBSET (1..Len(lines))
  OBVIOUS
<1>2. Grep(pattern, lines) = Kept(lines, S)
  BY DEF Grep
<1> HIDE DEF S
<1>3. IsSeq(Kept(lines, S)) /\ Range(Kept(lines, S)) = {lines[i] : i \in S}
  BY <1>1, KeptIs
<1> QED BY <1>1, <1>2, <1>3, RangeIs

LEMMA GrepIsIn ==
  ASSUME NEW pattern, NEW s, NEW t, IsSeq(s), IsSeq(t), IsIn(s, t)
  PROVE  IsIn(Grep(pattern, s), Grep(pattern, t))
<1>1. PICK h : Embeds(h, s, t)
  BY DEF IsIn
<1> DEFINE S == {i \in 1..Len(s) : Occurs(pattern, s[i].text)}
           T == {i \in 1..Len(t) : Occurs(pattern, t[i].text)}
<1>2. S \in SUBSET (1..Len(s)) /\ T \in SUBSET (1..Len(t))
  OBVIOUS
<1>3. \A i \in S : h[i] \in T
  BY <1>1 DEF Embeds
<1>4. Grep(pattern, s) = Kept(s, S) /\ Grep(pattern, t) = Kept(t, T)
  BY DEF Grep
<1> HIDE DEF S, T
<1> QED BY <1>1, <1>2, <1>3, <1>4, KeptIsIn

\* The lines of one file in a search
Part(p, level, order) ==
  IF p \notin Named(level) THEN << >>
  ELSE IF order = "ASC" THEN out[p] ELSE Reverse(out[p])

NamesOf(order) == IF order = "ASC" THEN Alphabet ELSE recent
Parts(level, order) == [i \in DOMAIN NamesOf(order) |-> Part(NamesOf(order)[i], level, order)]

LEMMA NamesAre ==
  ASSUME FilesInv, NEW order
  PROVE  /\ IsSeq(NamesOf(order)) /\ Len(NamesOf(order)) \in Nat
         /\ Range(NamesOf(order)) \subseteq Places
         /\ \A i \in 1..Len(NamesOf(order)) : NamesOf(order)[i] \in Places
<1>1. IsSeq(NamesOf(order)) /\ Range(NamesOf(order)) \subseteq Places
  BY AlphabetAssumption, TextIsSeq DEF NamesOf, FilesInv
<1> QED BY <1>1, SeqIs, RangeIs

LEMMA PartsAre ==
  ASSUME FilesInv, NEW level, NEW order
  PROVE  /\ Content(level, order) = FlattenSeq(Parts(level, order))
         /\ AreSeqs(Parts(level, order)) /\ Len(Parts(level, order)) = Len(NamesOf(order))
         /\ \A i \in 1..Len(NamesOf(order)) :
              Parts(level, order)[i] = Part(NamesOf(order)[i], level, order)
<1> DEFINE names == NamesOf(order)
           parts == Parts(level, order)
<1>1. IsSeq(names) /\ Len(names) \in Nat /\ DOMAIN names = 1..Len(names)
  BY NamesAre, SeqIs
<1>2. Content(level, order) = FlattenSeq(parts)
  BY DEF Content, NamesOf, Part, Parts
<1> HIDE DEF names
<1>3. parts = [i \in 1..Len(names) |-> Part(names[i], level, order)]
  BY <1>1 DEF Parts, names
<1>4. ASSUME NEW i \in 1..Len(names) PROVE IsSeq(Part(names[i], level, order))
  <2>1. names[i] \in Places
    BY NamesAre DEF names
  <2>2. IsSeq(out[names[i]])
    BY <2>1 DEF FilesInv
  <2> QED BY <2>2, EmptyIsSeq, ReverseIs DEF Part
<1> HIDE DEF parts
<1>5. parts = [i \in 1..Len(names) |-> parts[i]]
      /\ \A i \in 1..Len(names) : parts[i] = Part(names[i], level, order)
  BY <1>3
<1>6. IsSeq(parts) /\ Len(parts) = Len(names)
  BY <1>1, <1>5, FunctionIs
<1>7. AreSeqs(parts)
  BY <1>4, <1>5, <1>6 DEF AreSeqs
<1> QED BY <1>2, <1>5, <1>6, <1>7 DEF parts, names

\* A search finds rows of the files.
LEMMA FoundAre ==
  ASSUME FilesInv, NEW q
  PROVE  /\ IsSeq(Found(q))
         /\ \A x \in Range(Found(q)) : \E p \in Places : x \in Range(out[p])
<1> DEFINE all == Content(q.level, q.order)
           ofLevel == IF q.level = AnyLevel THEN all
                      ELSE Grep(LevelPattern(levelTemplate, q.level), all)
           names == NamesOf(q.order)
           parts == Parts(q.level, q.order)
<1>1. /\ all = FlattenSeq(parts) /\ AreSeqs(parts) /\ Len(parts) = Len(names)
      /\ \A i \in 1..Len(names) : parts[i] = Part(names[i], q.level, q.order)
  BY PartsAre
<1>2. \A i \in 1..Len(names) : names[i] \in Places
  BY NamesAre
<1> HIDE DEF parts, names, all
<1>3. IsSeq(all)
  BY <1>1, FlattenIsSeq
<1>4. ASSUME NEW x \in Range(all) PROVE \E p \in Places : x \in Range(out[p])
  <2>1. PICK i \in 1..Len(names) : x \in Range(parts[i])
    BY <1>1, FlattenRange
  <2>2. x \in Range(Part(names[i], q.level, q.order)) /\ names[i] \in Places
    BY <1>1, <1>2, <2>1
  <2>3. IsSeq(out[names[i]])
    BY <2>2 DEF FilesInv
  <2>4. Range(<< >>) = {} /\ Range(Reverse(out[names[i]])) \subseteq Range(out[names[i]])
    BY <2>3, EmptyIsSeq, RangeIs, ReverseIs
  <2>5. x \in Range(out[names[i]])
    BY <2>2, <2>4 DEF Part
  <2> QED BY <2>2, <2>5
<1>5. IsSeq(ofLevel) /\ Range(ofLevel) \subseteq Range(all)
  BY <1>3, GrepIs
<1>6. Found(q) = IF q.word = AnyWord THEN ofLevel ELSE Grep(q.word, ofLevel)
  BY DEF Found, all
<1> HIDE DEF ofLevel
<1>7. IsSeq(Found(q)) /\ Range(Found(q)) \subseteq Range(ofLevel)
  BY <1>5, <1>6, GrepIs
<1> QED BY <1>4, <1>5, <1>7

-----------------------------------------------------------------------------
(* What a search finds grows *)

\* The oldest line first, or in one file
Steady(q) == q.order = "ASC" \/ q.level # AnyLevel \/ ~setting.distingType

\* Without an order of the files, there is only one with lines to be found.
LEMMA OneNamed ==
  ASSUME FilesInv, setting \in Settings, NEW q, Steady(q), q.order # "ASC",
         NEW p \in Named(q.level), NEW r \in Named(q.level)
  PROVE  p = r
<1>1. /\ p \in Places \ {Remote} /\ r \in Places \ {Remote}
      /\ out[p] # << >> /\ out[r] # << >>
      /\ (setting.distingType /\ q.level # AnyLevel => p = q.level /\ r = q.level)
  BY AlphabetAssumption DEF Named
<1>2. CASE setting.distingType
  BY <1>1, <1>2 DEF Steady
<1>3. CASE ~setting.distingType
  <2>1. Holds(p) /\ Holds(r)
    BY <1>1 DEF FilesInv
  <2> QED BY <1>1, <1>3, <2>1 DEF Holds
<1> QED BY <1>2, <1>3

\* Read from the newest line on, a search then reads one file, or nothing.
LEMMA ContentIs ==
  ASSUME FilesInv, setting \in Settings, NEW q, Steady(q), q.order # "ASC"
  PROVE  /\ \A p \in Named(q.level) : Content(q.level, q.order) = Reverse(out[p])
         /\ Named(q.level) = {} => Content(q.level, q.order) = << >>
<1> DEFINE names == NamesOf(q.order)
           parts == Parts(q.level, q.order)
<1>1. /\ Content(q.level, q.order) = FlattenSeq(parts)
      /\ AreSeqs(parts) /\ Len(parts) = Len(names)
      /\ \A i \in 1..Len(names) : parts[i] = Part(names[i], q.level, q.order)
  BY PartsAre
<1>2. names = recent /\ IsSeq(recent) /\ Distinct(recent)
      /\ Range(recent) = {p \in Places : out[p] # << >>}
  BY DEF NamesOf, FilesInv
<1> HIDE DEF names, parts
<1>3. \A i \in 1..Len(names) : names[i] \notin Named(q.level) => parts[i] = << >>
  BY <1>1 DEF Part
<1>4. ASSUME NEW p \in Named(q.level) PROVE Content(q.level, q.order) = Reverse(out[p])
  <2>1. p \in Range(recent)
    BY <1>2, AlphabetAssumption DEF Named
  <2>2. PICK j \in 1..Len(names) : names[j] = p
    BY <1>2, <2>1, RangeIs
  <2>3. ASSUME NEW i \in 1..Len(names), i # j PROVE parts[i] = << >>
    <3>1. names[i] # p
      BY <1>2, <2>2, <2>3 DEF Distinct
    <3>2. names[i] \notin Named(q.level)
      BY <3>1, OneNamed
    <3> QED BY <1>3, <3>2
  <2>4. parts[j] = Reverse(out[p])
    BY <1>1, <2>2 DEF Part
  <2>5. j \in 1..Len(parts) /\ \A i \in 1..Len(parts) : i # j => parts[i] = << >>
    BY <1>1, <2>3
  <2>6. FlattenSeq(parts) = parts[j]
    BY <1>1, <2>5, FlattenOne
  <2> QED BY <1>1, <2>4, <2>6
<1>5. ASSUME Named(q.level) = {} PROVE Content(q.level, q.order) = << >>
  <2>1. \A i \in 1..Len(parts) : parts[i] = << >>
    BY <1>1, <1>3, <1>5
  <2> QED BY <1>1, <2>1, FlattenNone
<1> QED BY <1>4, <1>5

\* The files grow at their ends.
FilesGrow ==
  /\ setting' = setting /\ levelTemplate' = levelTemplate
  /\ \A p \in Places : \E more : IsSeq(more) /\ out'[p] = out[p] \o more

LEMMA NamedGrows ==
  ASSUME FilesInv, FilesGrow, NEW level
  PROVE  Named(level) \subseteq Named(level)'
<1> SUFFICES ASSUME NEW p \in Named(level) PROVE p \in Named(level)'
  OBVIOUS
<1>1. p \in Places /\ out[p] # << >>
  BY AlphabetAssumption DEF Named
<1>2. PICK more : IsSeq(more) /\ out'[p] = out[p] \o more
  BY <1>1 DEF FilesGrow
<1>3. IsSeq(out[p])
  BY <1>1 DEF FilesInv
<1>4. Len(out[p]) \in Nat /\ Len(more) \in Nat /\ Len(out[p]) # 0
  <2>1. Len(out[p]) = 0 => out[p] = << >>
    <3>1. ASSUME Len(out[p]) = 0 PROVE out[p] = << >>
      <4>1. \A i \in 1..Len(out[p]) : out[p][i] = << >>[i]
        BY <3>1
      <4> QED BY <1>3, <3>1, <4>1, EmptyIsSeq, SeqsEqual
    <3> QED BY <3>1
  <2> QED BY <1>1, <1>2, <1>3, <2>1, SeqIs
<1>5. Len(out'[p]) # 0
  BY <1>2, <1>3, <1>4, ConcatIs
<1>6. out'[p] # << >>
  BY <1>5, EmptyIsSeq
<1> QED BY <1>6 DEF Named, FilesGrow

\* The lemmas about a state hold in the next one, too.
PartsGood ==
  \A level, order :
    /\ Content(level, order) = FlattenSeq(Parts(level, order))
    /\ AreSeqs(Parts(level, order)) /\ Len(Parts(level, order)) = Len(NamesOf(order))
    /\ \A i \in 1..Len(NamesOf(order)) :
         Parts(level, order)[i] = Part(NamesOf(order)[i], level, order)

FoundGood ==
  \A q : /\ IsSeq(Found(q))
         /\ \A x \in Range(Found(q)) : \E p \in Places : x \in Range(out[p])

BackwardsGood ==
  \A q : Steady(q) /\ q.order # "ASC" =>
    /\ \A p \in Named(q.level) : Content(q.level, q.order) = Reverse(out[p])
    /\ Named(q.level) = {} => Content(q.level, q.order) = << >>

LEMMA PartsNext == FilesInv' => PartsGood'
<1>1. FilesInv => PartsGood
  BY PartsAre DEF PartsGood
<1> QED BY <1>1, PTL

LEMMA FoundNext == FilesInv' => FoundGood'
<1>1. FilesInv => FoundGood
  BY FoundAre DEF FoundGood
<1> QED BY <1>1, PTL

LEMMA BackwardsNext == FilesInv' /\ (setting \in Settings)' => BackwardsGood'
<1>1. FilesInv /\ setting \in Settings => BackwardsGood
  BY ContentIs DEF BackwardsGood
<1> QED BY <1>1, PTL

\* A search finds what it found before, in the same order.
LEMMA ContentGrows ==
  ASSUME FilesInv, FilesInv', setting \in Settings, FilesGrow, NEW q, Steady(q)
  PROVE  /\ IsIn(Content(q.level, q.order), Content(q.level, q.order)')
         /\ IsSeq(Content(q.level, q.order)) /\ IsSeq(Content(q.level, q.order)')
<1>0. Named(q.level) \subseteq Named(q.level)'
  BY NamedGrows
<1>1. ASSUME NEW p \in Places
      PROVE  /\ IsIn(out[p], out'[p]) /\ IsIn(Reverse(out[p]), Reverse(out'[p]))
  <2>1. PICK more : IsSeq(more) /\ out'[p] = out[p] \o more
    BY DEF FilesGrow
  <2>2. IsSeq(out[p])
    BY DEF FilesInv
  <2> QED BY <2>1, <2>2, MoreIsIn
<1> DEFINE names == NamesOf(q.order)
           s == Parts(q.level, q.order)
           t == Parts(q.level, q.order)'
<1>2. /\ Content(q.level, q.order) = FlattenSeq(s)
      /\ AreSeqs(s) /\ Len(s) = Len(names)
      /\ \A i \in 1..Len(names) : s[i] = Part(names[i], q.level, q.order)
  BY PartsAre
<1>3. /\ Content(q.level, q.order)' = FlattenSeq(t)
      /\ AreSeqs(t) /\ Len(t) = Len(names')
      /\ \A i \in 1..Len(names') : t[i] = Part(names[i], q.level, q.order)'
  BY PartsNext DEF PartsGood
<1>4. IsSeq(Content(q.level, q.order)) /\ IsSeq(Content(q.level, q.order)')
  <2> HIDE DEF s, t, names
  <2> QED BY <1>2, <1>3, FlattenIsSeq
<1>5. CASE q.order = "ASC"
  <2>1. names' = names /\ \A i \in 1..Len(names) : names[i] \in Places
    BY <1>5, NamesAre DEF NamesOf
  <2>2. ASSUME NEW i \in 1..Len(names) PROVE IsIn(s[i], t[i])
    <3>1. s[i] = Part(names[i], q.level, q.order) /\ t[i] = Part(names[i], q.level, q.order)'
      <4> HIDE DEF s, t, names
      <4> QED BY <1>2, <1>3, <2>1
    <3>2. names[i] \in Places
      BY <2>1
    <3> HIDE DEF s, t, names
    <3>3. CASE names[i] \notin Named(q.level)
      <4>1. s[i] = << >>
        BY <3>1, <3>3 DEF Part
      <4> QED BY <4>1, EmptyIsIn
    <3>4. CASE names[i] \in Named(q.level)
      <4>1. s[i] = out[names[i]]
        BY <1>5, <3>1, <3>4 DEF Part
      <4>2. names'[i] = names[i] /\ names[i] \in Named(q.level)'
        BY <1>0, <2>1, <3>4
      <4>3. t[i] = out'[names[i]]
        BY <1>5, <3>1, <4>2 DEF Part
      <4> QED BY <1>1, <3>2, <4>1, <4>3
    <3> QED BY <3>3, <3>4
  <2> HIDE DEF s, t, names
  <2>3. \A i \in 1..Len(s) : IsIn(s[i], t[i])
    BY <1>2, <2>2
  <2>4. AreSeqs(s) /\ AreSeqs(t) /\ Len(s) = Len(t)
    BY <1>2, <1>3, <2>1
  <2>5. IsIn(FlattenSeq(s), FlattenSeq(t))
    BY <2>3, <2>4, FlattenIsIn
  <2> QED BY <1>2, <1>3, <1>4, <2>5
<1>6. CASE q.order # "ASC" /\ Named(q.level) = {}
  <2>1. Content(q.level, q.order) = << >>
    BY <1>6, ContentIs
  <2> QED BY <1>4, <2>1, EmptyIsIn
<1>7. CASE q.order # "ASC" /\ Named(q.level) # {}
  <2>1. PICK p \in Named(q.level) : TRUE
    BY <1>7
  <2>2. Content(q.level, q.order) = Reverse(out[p])
    BY <1>7, ContentIs
  <2>3. Steady(q)' /\ (setting \in Settings)'
    BY DEF Steady, FilesGrow
  <2>4. Content(q.level, q.order)' = Reverse(out'[p])
    BY <1>0, <1>7, <2>3, BackwardsNext DEF BackwardsGood
  <2>5. p \in Places
    BY AlphabetAssumption DEF Named
  <2> QED BY <1>1, <1>4, <2>2, <2>4, <2>5
<1> QED BY <1>5, <1>6, <1>7

\* So do the greps.
LEMMA FoundGrows ==
  ASSUME FilesInv, FilesInv', setting \in Settings, FilesGrow, NEW q, Steady(q)
  PROVE  IsIn(Found(q), Found(q)')
<1> DEFINE s == Content(q.level, q.order)
           t == Content(q.level, q.order)'
           pattern == LevelPattern(levelTemplate, q.level)
           sl == IF q.level = AnyLevel THEN s ELSE Grep(pattern, s)
           tl == IF q.level = AnyLevel THEN t ELSE Grep(pattern, t)
<1>1. IsIn(s, t) /\ IsSeq(s) /\ IsSeq(t)
  BY ContentGrows
<1>2. Found(q) = IF q.word = AnyWord THEN sl ELSE Grep(q.word, sl)
  BY DEF Found
<1>3. Found(q)' = IF q.word = AnyWord THEN tl ELSE Grep(q.word, tl)
  BY DEF Found, FilesGrow
<1> HIDE DEF s, t, pattern
<1>4. IsIn(sl, tl) /\ IsSeq(sl) /\ IsSeq(tl)
  BY <1>1, GrepIs, GrepIsIn
<1> HIDE DEF sl, tl
<1>5. IsIn(Grep(q.word, sl), Grep(q.word, tl))
  BY <1>4, GrepIsIn
<1> QED BY <1>2, <1>3, <1>4, <1>5

LEMMA NextGrows == LineInv /\ LineInv' /\ [Next]_vars => FilesGrow
<1> SUFFICES ASSUME LineInv, LineInv', [Next]_vars PROVE FilesGrow
  OBVIOUS
<1>1. setting' = setting
  BY DEF Next, NextRequest, OutOfMemory, StrayArgument, SetRequestVariable, SetRequestID,
         SetThreshold, Log, WriteOk, WriteFail, Filtered, Done, vars
<1>2. levelTemplate' = levelTemplate
  BY <1>1 DEF LineInv, TextsInv
<1>3. ASSUME NEW p \in Places PROVE \E more : IsSeq(more) /\ out'[p] = out[p] \o more
  <2>1. IsSeq(out[p]) /\ IsSeq(<< >>)
    BY EmptyIsSeq DEF LineInv, FilesInv
  <2>2. CASE out'[p] = out[p]
    <3>1. out'[p] = out[p] \o << >>
      BY <2>1, <2>2, ConcatEmpty
    <3> QED BY <2>1, <3>1
  <2>3. CASE WriteOk
    <3>1. CallTyped /\ TextsInv /\ FilesInv
      BY DEF LineInv, ArrayInv
    <3>2. p # Place => out'[p] = out[p]
      BY <2>3, <3>1, WriteIs
    <3>3. out'[Place] = out[Place] \o NewRows /\ IsSeq(NewRows)
      BY <2>3, <3>1, WriteIs, NewRowsAre
    <3> QED BY <2>2, <3>2, <3>3
  <2>4. WriteOk \/ out' = out
    BY DEF Next, NextRequest, OutOfMemory, StrayArgument, SetRequestVariable, SetRequestID,
           SetThreshold, Log, WriteFail, Filtered, Done, vars, written
  <2> QED BY <2>2, <2>3, <2>4
<1> QED BY <1>1, <1>2, <1>3 DEF FilesGrow

-----------------------------------------------------------------------------
(* The pages of a search *)

NoBase == \A p \in Places : \A r \in Range(out[p]) : ~Occurs(Base, r.text)

LEMMA NoBaseBefore ==
  ASSUME FilesInv, FilesGrow, NoBase'
  PROVE  NoBase
<1> SUFFICES ASSUME NEW p \in Places, NEW r \in Range(out[p]) PROVE ~Occurs(Base, r.text)
  BY DEF NoBase
<1>1. PICK more : IsSeq(more) /\ out'[p] = out[p] \o more
  BY DEF FilesGrow
<1>2. IsSeq(out[p])
  BY DEF FilesInv
<1>3. PICK i \in 1..Len(out[p]) : r = out[p][i]
  BY <1>2, RangeIs
<1>4. /\ IsSeq(out'[p]) /\ Len(out'[p]) = Len(out[p]) + Len(more)
      /\ out'[p][i] = out[p][i]
  BY <1>1, <1>2, ConcatIs
<1>5. i \in 1..Len(out'[p])
  BY <1>1, <1>2, <1>4, SeqIs
<1>6. r \in Range(out'[p])
  BY <1>3, <1>4, <1>5, RangeIs
<1> QED BY <1>6 DEF NoBase

LEMMA MaxOfTwo ==
  ASSUME NEW a \in Nat, NEW b \in Nat, a <= b
  PROVE  Max({a, b}) = b
<1>1. \A x \in {a, b} : (\A y \in {a, b} : x >= y) => x = b
  OBVIOUS
<1>2. b \in {a, b} /\ \A y \in {a, b} : b >= y
  OBVIOUS
<1> QED BY <1>1, <1>2 DEF Max

LEMMA MinOfTwo ==
  ASSUME NEW a \in Nat, NEW b \in Nat
  PROVE  Min({a, b}) \in {a, b} /\ Min({a, b}) <= a /\ Min({a, b}) <= b
<1>1. {a, b} \in SUBSET Nat /\ {a, b} # {}
  OBVIOUS
<1>2. Min({a, b}) \in {a, b} /\ \A y \in {a, b} : Min({a, b}) <= y
  BY <1>1, Minimum
<1> QED BY <1>2

\* The rows of a page: those of the search from the start on, as many as the
\* limit allows.
LEMMA PageIs ==
  ASSUME FilesInv, NoBase, NEW q \in Queries, NEW start \in Nat \ {0}
  PROVE  \E last \in Nat :
           /\ \A j \in 1..Len(Found(q)) : j < start + q.limit => j <= last
           /\ last <= Len(Found(q))
           /\ IsSeq(Page(q, start))
           /\ Len(Page(q, start)) = IF start <= last THEN last - start + 1 ELSE 0
           /\ \A i \in 1..(last - start + 1) : Page(q, start)[i] = Found(q)[start + i - 1]
<1> DEFINE F == Found(q)
           end == start + q.limit - 1
           last == Min({end, Len(F)})
           rows == SubSeq(F, start, last)
<1>1. /\ IsSeq(F) /\ \A x \in Range(F) : \E p \in Places : x \in Range(out[p])
  BY FoundAre
<1>2. q.limit \in Nat \ {0} /\ Len(F) \in Nat
  BY <1>1, QueriesAssumption, SeqIs
<1>3. PICK U : F \in Seq(U)
  BY <1>1 DEF IsSeq
<1>4. end \in Nat /\ start <= end
  BY <1>2
<1>5. last \in {end, Len(F)} /\ last <= end /\ last <= Len(F)
  <2> HIDE DEF end, F
  <2> QED BY <1>2, <1>4, MinOfTwo
<1>6. last \in Nat /\ \A j \in 1..Len(F) : j < start + q.limit => j <= last
  <2>1. \A j \in 1..Len(F) : j < start + q.limit => j <= end
    BY <1>2
  <2> HIDE DEF last, end, F
  <2> QED BY <1>2, <1>4, <1>5, <2>1
<1>7. Sed(F, start, end) = rows
  <2>1. Max({start, end}) = end
    <3> HIDE DEF end
    <3> QED BY <1>4, MaxOfTwo
  <2> HIDE DEF F, end
  <2> QED BY <2>1 DEF Sed
<1> HIDE DEF last
<1>8. /\ rows \in Seq(U) /\ Len(rows) = IF start <= last THEN last - start + 1 ELSE 0
      /\ \A i \in 1..(last - start + 1) : rows[i] = F[start + i - 1]
  <2> HIDE DEF F
  <2> QED BY <1>3, <1>5, <1>6, PartIs
<1> HIDE DEF rows
<1>9. IsSeq(rows)
  BY <1>8 DEF IsSeq
<1>10. ASSUME NEW i \in 1..Len(rows) PROVE ~Occurs(Base, rows[i].text)
  <2>1. i \in 1..(last - start + 1) /\ start + i - 1 \in 1..Len(F)
    <3> HIDE DEF F
    <3> QED BY <1>2, <1>5, <1>6, <1>8
  <2>2. rows[i] \in Range(F)
    <3> HIDE DEF F
    <3> QED BY <1>1, <1>8, <2>1, RangeIs
  <2> QED BY <1>1, <2>2 DEF NoBase
<1>11. Page(q, start) = Kept(rows, {i \in 1..Len(rows) : ~Occurs(Base, rows[i].text)})
  BY <1>7 DEF Page, Detail
<1>12. {i \in 1..Len(rows) : ~Occurs(Base, rows[i].text)} = 1..Len(rows)
  BY <1>10
<1>13. Page(q, start) = rows
  BY <1>9, <1>11, <1>12, KeptAll
<1> QED BY <1>5, <1>6, <1>8, <1>9, <1>13

\* What a reader who goes on from a start will come to
Ahead(q, start, x) == \E j \in 1..Len(Found(q)) : start <= j /\ Found(q)[j] = x

\* A page has what is ahead, or the next one begins before it.
LEMMA PageGoesOn ==
  ASSUME FilesInv, NoBase, NEW q \in Queries, NEW start \in Nat \ {0}, NEW x, Ahead(q, start, x)
  PROVE  /\ x \in Range(Page(q, start)) \/ Ahead(q, start + q.limit, x)
         /\ Page(q, start) # << >>
<1> DEFINE F == Found(q)
           page == Page(q, start)
<1>1. PICK last \in Nat :
        /\ \A j \in 1..Len(F) : j < start + q.limit => j <= last
        /\ last <= Len(F)
        /\ IsSeq(page)
        /\ Len(page) = IF start <= last THEN last - start + 1 ELSE 0
        /\ \A i \in 1..(last - start + 1) : page[i] = F[start + i - 1]
  BY PageIs
<1>2. PICK j \in 1..Len(F) : start <= j /\ F[j] = x
  BY DEF Ahead
<1>3. q.limit \in Nat \ {0} /\ Len(F) \in Nat
  BY FoundAre, QueriesAssumption, SeqIs
<1> HIDE DEF page, F
<1>4. page # << >>
  <2>1. start \in 1..Len(F) /\ start < start + q.limit
    BY <1>2, <1>3
  <2>2. start <= last
    BY <1>1, <2>1
  <2>3. Len(page) > 0
    BY <1>1, <2>2
  <2> QED BY <2>3, EmptyIsSeq
<1>5. CASE j < start + q.limit
  <2> DEFINE i == j - start + 1
  <2>1. i \in 1..(last - start + 1) /\ start + i - 1 = j /\ start <= last
    BY <1>1, <1>2, <1>3, <1>5
  <2> HIDE DEF i
  <2>2. page[i] = x /\ i \in 1..Len(page)
    BY <1>1, <1>2, <2>1
  <2>3. x \in Range(page)
    BY <1>1, <2>2, RangeIs
  <2> QED BY <1>4, <2>3 DEF page
<1>6. CASE ~(j < start + q.limit)
  <2>1. start + q.limit <= j
    BY <1>2, <1>3, <1>6
  <2>2. Ahead(q, start + q.limit, x)
    BY <1>2, <2>1 DEF Ahead, F
  <2> QED BY <1>4, <2>2 DEF page
<1> QED BY <1>5, <1>6

\* A reader still comes to the lines that were there when he began and that he
\* has not got yet; after an empty page there are none.
ReaderInv ==
  reader # NoReader =>
    /\ reader.query \in Queries /\ reader.start \in Nat \ {0}
    /\ DOMAIN reader = {"query", "start", "due", "got", "over"}
    /\ Steady(reader.query) /\ NoBase =>
         \A x \in reader.due \ reader.got :
           ~reader.over /\ Ahead(reader.query, reader.start, x)

LEMMA ReaderInvImplies == ReaderInv => PagesWhole
<1> SUFFICES ASSUME ReaderInv, reader.over, Steady(reader.query), NoBase
             PROVE  reader.due \subseteq reader.got
  BY DEF PagesWhole, Steady, NoBase
<1>1. reader # NoReader
  BY DEF NoReader
<1> QED BY <1>1 DEF ReaderInv

LEMMA FirstPageReader ==
  ASSUME FilesInv, NEW q \in Queries, FirstPage(q)
  PROVE  ReaderInv'
<1>1. /\ reader' = [query |-> q, start |-> 1 + q.limit, due |-> Range(Found(q)),
                    got |-> Range(Page(q, 1)), over |-> Page(q, 1) = << >>]
      /\ UNCHANGED vars
  BY DEF FirstPage
<1>2. q.limit \in Nat \ {0}
  BY QueriesAssumption
<1>3. ASSUME NoBase, NEW x \in Range(Found(q)), x \notin Range(Page(q, 1))
      PROVE  Page(q, 1) # << >> /\ Ahead(q, 1 + q.limit, x)
  <2>1. PICK j \in 1..Len(Found(q)) : Found(q)[j] = x
    BY FoundAre, RangeIs
  <2>2. Ahead(q, 1, x)
    BY <2>1 DEF Ahead
  <2>3. 1 \in Nat \ {0}
    OBVIOUS
  <2> QED BY <1>3, <2>2, <2>3, PageGoesOn
<1>4. /\ NoBase' <=> NoBase
      /\ \A x : Ahead(q, 1 + q.limit, x)' <=> Ahead(q, 1 + q.limit, x)
  BY <1>1 DEF NoBase, Ahead, Found, Content, Named, LevelPattern, vars, request, written
<1>5. /\ reader'.query = q /\ reader'.start = 1 + q.limit
      /\ reader'.due = Range(Found(q)) /\ reader'.got = Range(Page(q, 1))
      /\ reader'.over = (Page(q, 1) = << >>)
      /\ DOMAIN reader' = {"query", "start", "due", "got", "over"}
  BY <1>1
<1>6. 1 + q.limit \in Nat \ {0}
  BY <1>2
<1>7. ASSUME NoBase', NEW x \in reader'.due \ reader'.got
      PROVE  ~reader'.over /\ Ahead(reader.query, reader.start, x)'
  <2>1. NoBase /\ x \in Range(Found(q)) /\ x \notin Range(Page(q, 1))
    BY <1>4, <1>5, <1>7
  <2>2. Page(q, 1) # << >> /\ Ahead(q, 1 + q.limit, x)
    BY <1>3, <2>1
  <2>3. Ahead(q, 1 + q.limit, x)'
    BY <1>4, <2>2
  <2>4. Ahead(reader.query, reader.start, x)' <=> Ahead(q, 1 + q.limit, x)'
    BY <1>1, <1>5 DEF Ahead, vars, request, written
  <2> QED BY <1>5, <2>2, <2>3, <2>4
<1> QED BY <1>5, <1>6, <1>7 DEF ReaderInv

LEMMA NextPageReader ==
  ASSUME FilesInv, ReaderInv, NextPage
  PROVE  ReaderInv'
<1> DEFINE q == reader.query
           start == reader.start
           page == Page(q, start)
<1>1. /\ reader' = [reader EXCEPT !.start = @ + q.limit, !.got = @ \cup Range(page),
                                  !.over = (page = << >>)]
      /\ reader # NoReader /\ UNCHANGED vars
  BY DEF NextPage
<1>2. /\ q \in Queries /\ start \in Nat \ {0}
      /\ DOMAIN reader = {"query", "start", "due", "got", "over"}
      /\ (Steady(q) /\ NoBase => \A x \in reader.due \ reader.got : ~reader.over /\ Ahead(q, start, x))
  BY <1>1 DEF ReaderInv
<1>3. q.limit \in Nat \ {0}
  BY <1>2, QueriesAssumption
<1>4. /\ reader'.query = q /\ reader'.start = start + q.limit
      /\ reader'.due = reader.due /\ reader'.got = reader.got \cup Range(page)
      /\ reader'.over = (page = << >>)
      /\ DOMAIN reader' = {"query", "start", "due", "got", "over"}
  <2> HIDE DEF page, start
  <2> QED BY <1>1, <1>2 DEF start
<1>5. /\ NoBase' <=> NoBase
      /\ Steady(reader.query)' <=> Steady(q)
      /\ \A x : Ahead(reader.query, reader.start, x)' <=> Ahead(q, start + q.limit, x)
  BY <1>1, <1>4 DEF NoBase, Steady, Ahead, Found, Content, Named, LevelPattern, vars, request, written
<1> HIDE DEF page, start, q
<1>6. start + q.limit \in Nat \ {0}
  BY <1>2, <1>3
<1>7. ASSUME Steady(reader.query)', NoBase', NEW x \in reader'.due \ reader'.got
      PROVE  ~reader'.over /\ Ahead(reader.query, reader.start, x)'
  <2>1. Steady(q) /\ NoBase /\ x \in reader.due \ reader.got /\ x \notin Range(page)
    BY <1>4, <1>5, <1>7
  <2>2. Ahead(q, start, x)
    BY <1>2, <2>1
  <2>3. Ahead(q, start + q.limit, x) /\ page # << >>
    BY <1>2, <2>1, <2>2, PageGoesOn DEF page
  <2> QED BY <1>4, <1>5, <2>3
<1> QED BY <1>2, <1>4, <1>6, <1>7 DEF ReaderInv

LEMMA LeaveReader == LeaveSearch => ReaderInv'
BY DEF LeaveSearch, ReaderInv

\* Lines that are written meanwhile only push the others on.
LEMMA WrittenReader ==
  ASSUME FilesInv, FilesInv', setting \in Settings, FilesGrow, ReaderInv, UNCHANGED reader
  PROVE  ReaderInv'
<1> SUFFICES ASSUME reader # NoReader PROVE ReaderInv'
  BY DEF ReaderInv
<1> DEFINE q == reader.query
           F == Found(q)
           G == Found(q)'
<1>1. /\ q \in Queries /\ reader.start \in Nat \ {0}
      /\ DOMAIN reader = {"query", "start", "due", "got", "over"}
      /\ (Steady(q) /\ NoBase =>
            \A x \in reader.due \ reader.got : ~reader.over /\ Ahead(q, reader.start, x))
  BY DEF ReaderInv
<1>2. IsSeq(F) /\ IsSeq(G)
  BY FoundAre, FoundNext DEF FoundGood
<1>3. Steady(q)' <=> Steady(q)
  BY DEF Steady, FilesGrow
<1>4. ASSUME Steady(q)', NoBase', NEW x \in reader.due \ reader.got
      PROVE  ~reader.over /\ Ahead(q, reader.start, x)'
  <2>1. Steady(q) /\ NoBase
    BY <1>3, <1>4, NoBaseBefore
  <2>2. ~reader.over /\ Ahead(q, reader.start, x)
    BY <1>1, <1>4, <2>1
  <2>3. PICK j \in 1..Len(F) : reader.start <= j /\ F[j] = x
    BY <2>2 DEF Ahead
  <2>4. IsIn(F, G)
    BY <2>1, FoundGrows
  <2>5. PICK h : Embeds(h, F, G)
    BY <2>4 DEF IsIn
  <2> HIDE DEF F, G
  <2>6. h[j] \in 1..Len(G) /\ j <= h[j]
    BY <1>2, <2>5, EmbedsGrows
  <2>7. G[h[j]] = x
    BY <2>3, <2>5 DEF Embeds
  <2>8. reader.start <= h[j]
    BY <1>1, <1>2, <2>3, <2>6, SeqIs
  <2>9. \E k \in 1..Len(G) : reader.start <= k /\ G[k] = x
    BY <2>6, <2>7, <2>8
  <2>10. Ahead(q, reader.start, x)'
    BY <2>9 DEF Ahead, G
  <2> QED BY <2>2, <2>10
<1> HIDE DEF F, G
<1> QED BY <1>1, <1>4 DEF ReaderInv

LEMMA ReaderNext ==
  LineInv /\ LineInv' /\ ReaderInv /\ [SearchNext]_searchVars => ReaderInv'
<1> SUFFICES ASSUME LineInv, LineInv', ReaderInv, [SearchNext]_searchVars PROVE ReaderInv'
  OBVIOUS
<1>1. FilesInv /\ FilesInv' /\ setting \in Settings
  BY DEF LineInv, ArrayInv, TextsInv
<1>2. CASE [Next]_vars /\ UNCHANGED reader
  <2>1. FilesGrow
    BY <1>2, NextGrows
  <2> QED BY <1>1, <1>2, <2>1, WrittenReader
<1>3. CASE \E q \in Queries : FirstPage(q)
  BY <1>1, <1>3, FirstPageReader
<1>4. CASE NextPage
  BY <1>1, <1>4, NextPageReader
<1>5. CASE LeaveSearch
  BY <1>5, LeaveReader
<1> QED BY <1>2, <1>3, <1>4, <1>5 DEF SearchNext, searchVars

\* For every template, server, setting, call and search: who reads page after
\* page gets every line that was there when he began, however many are written
\* between two pages (get_detail, analyzerDetail).
THEOREM PagesHold == SearchSpec => []PagesWhole
<1>1. SearchSpec => []LineInv
  BY LineHolds, SearchWritesNothing, PTL
<1>2. SearchInit => ReaderInv
  BY DEF SearchInit, ReaderInv
<1>3. SearchSpec => []ReaderInv
  BY <1>1, <1>2, ReaderNext, PTL DEF SearchSpec
<1> QED BY <1>3, ReaderInvImplies, PTL

-----------------------------------------------------------------------------
(* The lines of a text and their places *)

\* r is what t has between its places a and b.
Between(r, t, a, b) ==
  /\ IsSeq(r) /\ a \in Nat /\ b \in 1..Len(t) /\ a < b /\ Len(r) = b - a - 1
  /\ \A i \in 1..Len(r) : r[i] = t[a + i]

\* The ends of the lines of a text
Ends(E, t) ==
  LET N == Len(LinesOf(t)) IN
  /\ N \in Nat /\ E[0] = 0
  /\ \A k \in 1..N : Between(LinesOf(t)[k], t, E[k - 1], E[k]) /\ t[E[k]] = Feed
  /\ \A j, k \in 0..N : j < k => E[j] < E[k]
  /\ \A q \in 1..Len(t) : t[q] = Feed => \E k \in 1..N : E[k] = q

\* A text that ends with a line feed has its lines between its feeds.
LEMMA EndsThere ==
  ASSUME NEW t, IsSeq(t), Len(t) > 0, t[Len(t)] = Feed
  PROVE  \E E : Ends(E, t)
<1> DEFINE n == Len(t)
           S == {i \in 1..n : t[i] = Feed}
           N == Cardinality(S)
           E == [k \in 0..N |-> IF k = 0 THEN 0 ELSE Nth(S, k)]
           L == LinesOf(t)
<1>1. n \in Nat /\ n \in S
  BY SeqIs
<1>2. S \in SUBSET (1..n) /\ S \in SUBSET Nat /\ IsFiniteSet(S) /\ N \in Nat
  <2>1. S \in SUBSET (1..n)
    OBVIOUS
  <2> HIDE DEF S
  <2> QED BY <1>1, <2>1, PlacesFinite
<1>3. L = [k \in 1..N |-> SubSeq(t, (IF k - 1 = 0 THEN 0 ELSE Nth(S, k - 1)) + 1,
                                    (IF k = 0 THEN 0 ELSE Nth(S, k)) - 1)]
  <2>1. S \cup (IF n \in S \cup {0} THEN {} ELSE {n + 1}) = S
    BY <1>1
  <2> QED BY <2>1 DEF LinesOf
<1> HIDE DEF S, L
<1>4. /\ \A k \in 1..N : Nth(S, k) \in S /\ Rank(S, Nth(S, k)) = k
      /\ \A i \in S : Nth(S, Rank(S, i)) = i /\ Rank(S, i) \in 1..N
      /\ \A k, l \in 1..N : k < l => Nth(S, k) < Nth(S, l)
  BY <1>2, NthIs, RankIs
<1> HIDE DEF N
<1>5. E[0] = 0 /\ \A k \in 1..N : E[k] = Nth(S, k) /\ E[k] \in S
  BY <1>2, <1>4
<1>6. \A k \in 1..N : L[k] = SubSeq(t, E[k - 1] + 1, E[k] - 1)
  <2> SUFFICES ASSUME NEW k \in 1..N PROVE L[k] = SubSeq(t, E[k - 1] + 1, E[k] - 1)
    OBVIOUS
  <2>1. k - 1 \in 0..N /\ k \in 0..N
    BY <1>2
  <2>2. /\ E[k - 1] = (IF k - 1 = 0 THEN 0 ELSE Nth(S, k - 1))
        /\ E[k] = (IF k = 0 THEN 0 ELSE Nth(S, k))
    BY <2>1
  <2> HIDE DEF E
  <2> QED BY <1>3, <2>2
<1>7. IsSeq(L) /\ Len(L) = N
  <2>1. L = [k \in 1..N |-> L[k]]
    BY <1>3
  <2> QED BY <1>2, <2>1, FunctionIs
<1> HIDE DEF E
<1>8. \A j, k \in 0..N : j < k => E[j] < E[k]
  <2> SUFFICES ASSUME NEW j \in 0..N, NEW k \in 0..N, j < k PROVE E[j] < E[k]
    OBVIOUS
  <2>1. k \in 1..N /\ E[k] = Nth(S, k) /\ E[k] \in Nat \ {0}
    <3>1. k \in 1..N
      BY <1>2
    <3>2. E[k] = Nth(S, k) /\ E[k] \in S
      BY <1>5, <3>1
    <3>3. E[k] \in 1..n
      BY <1>2, <3>2
    <3> QED BY <3>1, <3>2, <3>3
  <2>2. CASE j = 0
    BY <1>5, <2>1, <2>2
  <2>3. CASE j # 0
    <3>1. j \in 1..N
      BY <1>2, <2>3
    <3> QED BY <1>4, <1>5, <2>1, <3>1
  <2> QED BY <2>2, <2>3
<1>9. \A q \in 1..n : t[q] = Feed => \E k \in 1..N : E[k] = q
  <2> SUFFICES ASSUME NEW q \in 1..n, t[q] = Feed PROVE \E k \in 1..N : E[k] = q
    OBVIOUS
  <2>1. q \in S
    BY DEF S
  <2> QED BY <1>4, <1>5, <2>1
<1>10. ASSUME NEW k \in 1..N PROVE Between(L[k], t, E[k - 1], E[k]) /\ t[E[k]] = Feed
  <2> DEFINE a == E[k - 1]
             b == E[k]
  <2>1. b \in 1..n /\ t[b] = Feed
    BY <1>5 DEF S
  <2>2. a \in Nat /\ a < b
    <3>1. k - 1 \in 0..N /\ k \in 0..N /\ k - 1 < k /\ (k - 1 = 0 \/ k - 1 \in 1..N)
      BY <1>2
    <3>2. a < b
      BY <1>8, <3>1
    <3>3. a \in Nat
      <4>1. CASE k - 1 = 0
        BY <1>5, <4>1
      <4>2. CASE k - 1 \in 1..N
        BY <1>2, <1>5, <4>2
      <4> QED BY <3>1, <4>1, <4>2
    <3> QED BY <3>2, <3>3
  <2>3. L[k] = SubSeq(t, a + 1, b - 1)
    BY <1>6
  <2> HIDE DEF a, b
  <2>4. PICK U : t \in Seq(U)
    BY DEF IsSeq
  <2> DEFINE m == a + 1
             e == b - 1
             r == SubSeq(t, m, e)
  <2>5. /\ m \in Nat \ {0} /\ e \in Nat /\ e <= n /\ e - m + 1 = b - a - 1
        /\ (IF m <= e THEN e - m + 1 ELSE 0) = b - a - 1
    BY <1>1, <2>1, <2>2
  <2> HIDE DEF m, e, n
  <2>6. /\ r \in Seq(U) /\ Len(r) = (IF m <= e THEN e - m + 1 ELSE 0)
        /\ \A i \in 1..(e - m + 1) : r[i] = t[m + i - 1]
    BY <2>4, <2>5, PartIs DEF n
  <2> HIDE DEF r
  <2>7. \A i \in 1..(b - a - 1) : m + i - 1 = a + i
    BY <2>1, <2>2 DEF m
  <2>8. IsSeq(r) /\ Len(r) = b - a - 1 /\ \A i \in 1..Len(r) : r[i] = t[a + i]
    BY <2>5, <2>6, <2>7 DEF IsSeq
  <2>9. L[k] = r
    BY <2>3 DEF r, m, e
  <2>10. Between(r, t, a, b)
    BY <2>1, <2>2, <2>8 DEF Between, n
  <2> QED BY <2>1, <2>9, <2>10 DEF a, b
<1> HIDE DEF n
<1>11. /\ Len(L) \in Nat /\ E[0] = 0
       /\ \A k \in 1..Len(L) : Between(L[k], t, E[k - 1], E[k]) /\ t[E[k]] = Feed
       /\ \A j, k \in 0..Len(L) : j < k => E[j] < E[k]
       /\ \A q \in 1..n : t[q] = Feed => \E k \in 1..Len(L) : E[k] = q
  BY <1>2, <1>5, <1>7, <1>8, <1>9, <1>10
<1>12. Ends(E, t)
  BY <1>11 DEF Ends, L, n
<1> QED BY <1>12

\* A place that ends no line is in one line.
LEMMA LineAround ==
  ASSUME NEW t, IsSeq(t), Len(t) > 0, t[Len(t)] = Feed, NEW E, Ends(E, t),
         NEW q \in 1..Len(t), t[q] # Feed
  PROVE  \E k \in 1..Len(LinesOf(t)) :
           /\ E[k - 1] < q /\ q < E[k]
           /\ \A j \in 1..Len(LinesOf(t)) : j # k => ~(E[j - 1] < q /\ q < E[j])
<1> DEFINE N == Len(LinesOf(t))
           K == {k \in 1..N : q < E[k]}
<1>1. /\ N \in Nat /\ E[0] = 0 /\ Len(t) \in Nat /\ q \in Nat \ {0} /\ q # Len(t) /\ q < Len(t)
      /\ \A k \in 1..N : E[k - 1] \in Nat /\ E[k] \in 1..Len(t) /\ t[E[k]] = Feed
      /\ \A j, k \in 0..N : j < k => E[j] < E[k]
  BY SeqIs DEF Ends, Between
<1>2. PICK last \in 1..N : E[last] = Len(t)
  <2>1. Len(t) \in 1..Len(t)
    BY <1>1
  <2> QED BY <2>1 DEF Ends
<1> HIDE DEF N
<1>3. K \in SUBSET Nat /\ K # {}
  BY <1>1, <1>2
<1> DEFINE k == Min(K)
<1>4. k \in K /\ \A j \in K : k <= j
  <2> HIDE DEF K
  <2> QED BY <1>3, Minimum
<1>5. k \in 1..N /\ q < E[k] /\ k \in Nat /\ k - 1 \in 0..N /\ k \in 0..N
  BY <1>1, <1>4
<1>6. E[k - 1] < q
  <2>1. CASE k - 1 = 0
    BY <1>1, <2>1
  <2>2. CASE k - 1 # 0
    <3>1. k - 1 \in 1..N /\ ~(k <= k - 1)
      BY <1>5, <2>2
    <3>2. ~(q < E[k - 1]) /\ E[k - 1] # q /\ E[k - 1] \in Nat
      BY <1>1, <1>4, <3>1
    <3> QED BY <1>1, <3>2
  <2> QED BY <2>1, <2>2
<1> HIDE DEF k, K
<1>7. ASSUME NEW j \in 1..N, j # k, E[j - 1] < q, q < E[j] PROVE FALSE
  <2>1. j \in 0..N /\ j - 1 \in 0..N /\ (j < k \/ k < j)
    BY <1>1, <1>5, <1>7
  <2>2. E[j] \in Nat /\ E[k] \in Nat /\ E[j - 1] \in Nat /\ E[k - 1] \in Nat
    BY <1>1, <1>5
  <2>3. CASE j < k
    <3>1. j = k - 1 \/ j < k - 1
      BY <1>5, <2>1, <2>3
    <3>2. E[j] <= E[k - 1]
      BY <1>1, <1>5, <2>1, <2>2, <3>1
    <3> QED BY <1>1, <1>6, <1>7, <2>2, <3>2
  <2>4. CASE k < j
    <3>1. k = j - 1 \/ k < j - 1
      BY <1>5, <2>1, <2>4
    <3>2. E[k] <= E[j - 1]
      BY <1>1, <1>5, <2>1, <2>2, <3>1
    <3> QED BY <1>1, <1>5, <1>7, <2>2, <3>2
  <2> QED BY <2>1, <2>3, <2>4
<1> QED BY <1>5, <1>6, <1>7 DEF N

\* A pattern of one line is behind place m of a text of lines, and the text has
\* its g-th token nowhere else.
OnceIn(p, t, m, g) ==
  /\ IsSeq(t) /\ Len(t) > 0 /\ t[Len(t)] = Feed
  /\ IsSeq(p) /\ Feed \notin Range(p) /\ m \in Nat /\ m + Len(p) <= Len(t)
  /\ \A j \in 1..Len(p) : t[m + j] = p[j]
  /\ g \in 1..Len(p) /\ \A i \in 1..Len(t) : t[i] = p[g] => i = m + g

\* Such a pattern is in one line.
LEMMA OneRow ==
  ASSUME NEW t, NEW p, NEW m, NEW g, OnceIn(p, t, m, g)
  PROVE  \E k \in 1..Len(LinesOf(t)) :
           \A j \in 1..Len(LinesOf(t)) : Occurs(p, LinesOf(t)[j]) <=> j = k
<1> USE DEF OnceIn
<1> DEFINE q == m + g
           N == Len(LinesOf(t))
           n == Len(t)
           l == Len(p)
           Row(k) == LinesOf(t)[k]
<1>1. n \in Nat /\ l \in Nat /\ g \in 1..l /\ q \in 1..n /\ t[q] = p[g]
  BY SeqIs
<1>2. \A j \in 1..l : t[m + j] # Feed /\ m + j \in 1..n
  BY <1>1, RangeIs
<1>3. PICK E : Ends(E, t)
  BY EndsThere
<1>4. t[q] # Feed
  BY <1>1, <1>2
<1>5. PICK k \in 1..N : /\ E[k - 1] < q /\ q < E[k]
                        /\ \A j \in 1..N : j # k => ~(E[j - 1] < q /\ q < E[j])
  <2>1. \A x \in 1..Len(t) : t[x] # Feed =>
          \E k \in 1..Len(LinesOf(t)) :
            /\ E[k - 1] < x /\ x < E[k]
            /\ \A j \in 1..Len(LinesOf(t)) : j # k => ~(E[j - 1] < x /\ x < E[j])
    BY <1>3, LineAround
  <2> HIDE DEF q
  <2> QED BY <1>1, <1>4, <2>1
<1>6. \A j \in 1..N : Between(Row(j), t, E[j - 1], E[j]) /\ t[E[j]] = Feed
  BY <1>3 DEF Ends
<1>7. E[k - 1] = 0 \/ t[E[k - 1]] = Feed
  <2>1. N \in Nat /\ E[0] = 0
    BY <1>3 DEF Ends
  <2>2. k - 1 = 0 \/ k - 1 \in 1..N
    BY <2>1
  <2> QED BY <1>6, <2>1, <2>2
<1> HIDE DEF N, Row
<1>8. ASSUME NEW j \in 1..N, Occurs(p, Row(j)) PROVE E[j - 1] < q /\ q < E[j]
  <2> DEFINE r == Row(j)
             a == E[j - 1]
             b == E[j]
  <2>1. IsSeq(r) /\ a \in Nat /\ b \in 1..n /\ Len(r) = b - a - 1 /\ \A i \in 1..Len(r) : r[i] = t[a + i]
    BY <1>6 DEF Between
  <2>2. PICK i : i \in Starts(p, r)
    BY <1>8 DEF Occurs
  <2> HIDE DEF r, a, b
  <2>3. i \in Nat \ {0} /\ i + l <= Len(r) + 1 /\ \A x \in 1..l : r[i + x - 1] = p[x]
    BY <2>1, <2>2, StartsIs
  <2>4. r[i + g - 1] = p[g] /\ i + g - 1 \in 1..Len(r)
    BY <1>1, <2>1, <2>3
  <2>5. t[a + (i + g - 1)] = p[g] /\ a + (i + g - 1) \in 1..n
    <3>1. t[a + (i + g - 1)] = p[g]
      BY <2>1, <2>4
    <3>2. a + (i + g - 1) \in 1..n
      <4> DEFINE d == i + g - 1
      <4>1. a \in Nat /\ b \in 1..n /\ n \in Nat /\ d \in 1..(b - a - 1)
        BY <1>1, <2>1, <2>4
      <4> HIDE DEF d
      <4>2. a + d \in 1..n
        BY <4>1
      <4> QED BY <4>2 DEF d
    <3> QED BY <3>1, <3>2
  <2>6. a + (i + g - 1) = q
    BY <2>5
  <2>7. a < q /\ q < b
    BY <2>1, <2>4, <2>6
  <2> QED BY <2>7 DEF a, b
<1>9. Occurs(p, Row(k))
  <2> DEFINE r == Row(k)
             a == E[k - 1]
             b == E[k]
             i == m + 1 - a
  <2>1. /\ IsSeq(r) /\ a \in Nat /\ b \in 1..n /\ Len(r) = b - a - 1
        /\ \A x \in 1..Len(r) : r[x] = t[a + x]
        /\ a < q /\ q < b /\ (a = 0 \/ t[a] = Feed) /\ t[b] = Feed
    BY <1>5, <1>6, <1>7 DEF Between
  <2> HIDE DEF r, a, b
  <2>2. a <= m
    <3> SUFFICES ASSUME m < a PROVE FALSE
      BY <2>1
    <3>1. a - m \in 1..l /\ m + (a - m) = a /\ a # 0
      BY <1>1, <2>1
    <3> QED BY <1>2, <2>1, <3>1
  <2>3. m + l < b
    <3> SUFFICES ASSUME b <= m + l PROVE FALSE
      BY <1>1, <2>1
    <3>1. b - m \in 1..l /\ m + (b - m) = b
      BY <1>1, <2>1
    <3> QED BY <1>2, <2>1, <3>1
  <2>4. i \in Nat \ {0} /\ i + l <= Len(r) + 1
    BY <1>1, <2>1, <2>2, <2>3
  <2>5. ASSUME NEW x \in 1..l PROVE r[i + x - 1] = p[x]
    <3>1. i + x - 1 \in 1..Len(r) /\ a + (i + x - 1) = m + x
      BY <1>1, <2>1, <2>4
    <3>2. r[i + x - 1] = t[m + x]
      BY <2>1, <3>1
    <3> QED BY <3>2
  <2> HIDE DEF i
  <2>6. i \in Starts(p, r)
    BY <2>1, <2>4, <2>5, StartsIs
  <2> QED BY <2>6 DEF Occurs, r
<1> HIDE DEF q
<1>10. \A j \in 1..N : Occurs(p, Row(j)) <=> j = k
  BY <1>5, <1>8, <1>9
<1> QED BY <1>10 DEF N, Row

\* A pattern with a token that the text has not is in none of its lines.
LEMMA NoRow ==
  ASSUME NEW t, IsSeq(t), Len(t) > 0, t[Len(t)] = Feed,
         NEW p, IsSeq(p), NEW g \in 1..Len(p), \A i \in 1..Len(t) : t[i] # p[g]
  PROVE  \A j \in 1..Len(LinesOf(t)) : ~Occurs(p, LinesOf(t)[j])
<1> SUFFICES ASSUME NEW j \in 1..Len(LinesOf(t)), Occurs(p, LinesOf(t)[j]) PROVE FALSE
  OBVIOUS
<1> DEFINE r == LinesOf(t)[j]
<1>1. PICK E : Ends(E, t)
  BY EndsThere
<1> DEFINE a == E[j - 1]
           b == E[j]
           l == Len(p)
           n == Len(t)
<1>2. IsSeq(r) /\ a \in Nat /\ b \in 1..n /\ Len(r) = b - a - 1 /\ \A i \in 1..Len(r) : r[i] = t[a + i]
  BY <1>1 DEF Ends, Between
<1>3. PICK i : i \in Starts(p, r)
  BY DEF Occurs
<1>4. n \in Nat /\ l \in Nat /\ g \in 1..l
  BY SeqIs
<1> HIDE DEF r, a, b
<1>5. i \in Nat \ {0} /\ i + l <= Len(r) + 1 /\ \A x \in 1..l : r[i + x - 1] = p[x]
  BY <1>2, <1>3, StartsIs
<1>6. r[i + g - 1] = p[g] /\ i + g - 1 \in 1..Len(r)
  BY <1>2, <1>4, <1>5
<1>7. t[a + (i + g - 1)] = p[g]
  BY <1>2, <1>6
<1>8. a + (i + g - 1) \in 1..n
  BY <1>2, <1>4, <1>6
<1> QED BY <1>7, <1>8

-----------------------------------------------------------------------------
(* The literals around the %L *)

\* The items of a template are of its characters, and no literal is a %.
IsItem(x, fmt) ==
  \E c \in Range(fmt) : x = Specifier(c) \/ (c # "%" /\ x = Literal(c))
AreItems(it, fmt) == IsSeq(it) /\ \A i \in 1..Len(it) : IsItem(it[i], fmt)

\* An item of a template before items of its rest
LEMMA ItemFirst ==
  ASSUME NEW fmt, NEW rest, Range(rest) \subseteq Range(fmt), NEW it, AreItems(it, rest),
         NEW x, IsItem(x, fmt)
  PROVE  AreItems(Led(x, it), fmt)
<1> DEFINE s == Led(x, it)
<1>1. IsSeq(it) /\ \A i \in 1..Len(it) : IsItem(it[i], fmt)
  BY DEF AreItems, IsItem
<1>2. IsSeq(s) /\ Len(s) = Len(it) + 1 /\ s[1] = x /\ \A i \in 1..Len(it) : s[i + 1] = it[i]
  BY <1>1, OneThenIs DEF Led
<1>3. Len(it) \in Nat
  BY <1>1, SeqIs
<1> HIDE DEF s
<1>4. ASSUME NEW i \in 1..Len(s) PROVE IsItem(s[i], fmt)
  <2>1. CASE i = 1
    BY <1>2, <2>1
  <2>2. CASE i # 1
    <3>1. i - 1 \in 1..Len(it) /\ (i - 1) + 1 = i
      BY <1>2, <1>3, <2>2
    <3> QED BY <1>1, <1>2, <3>1
  <2> QED BY <2>1, <2>2
<1> QED BY <1>2, <1>4 DEF AreItems, s

\* All items of a template are of it.
LEMMA ItemsOf ==
  ASSUME NEW fmt, IsSeq(fmt)
  PROVE  AreItems(Items(fmt), fmt)
<1> DEFINE G == {m \in Nat : \A t : Len(t) = m => (IsSeq(t) => AreItems(Items(t), t))}
<1>1. ASSUME NEW m \in Nat, \A l \in Nat : l < m => l \in G PROVE m \in G
  <2> SUFFICES ASSUME NEW t, Len(t) = m, IsSeq(t) PROVE AreItems(Items(t), t)
    OBVIOUS
  <2>0. \A l \in Nat : \A r : l < m /\ IsSeq(r) /\ Len(r) = l => AreItems(Items(r), r)
    BY <1>1
  <2>6. /\ t = << >> => Items(t) = << >>
        /\ t # << >> /\ t[1] # "%" => Items(t) = Led(Literal(t[1]), Items(Rest(t, 1)))
        /\ Len(t) = 1 /\ t[1] = "%" => Items(t) = << >>
        /\ Len(t) > 1 /\ t[1] = "%" => Items(t) = Led(Specifier(t[2]), Items(Rest(t, 2)))
    BY ItemsAre DEF Led
  <2>7. ASSUME NEW k \in 0..Len(t), k > 0 PROVE AreItems(Items(Rest(t, k)), Rest(t, k)) /\ Range(Rest(t, k)) \subseteq Range(t)
    <3> DEFINE r == Rest(t, k)
    <3>1. IsSeq(r) /\ Len(r) = Len(t) - k /\ \A i \in 1..(Len(t) - k) : r[i] = t[k + i]
      BY RestIs
    <3>2. Len(t) - k \in Nat /\ Len(t) - k < m /\ \A i \in 1..(Len(t) - k) : k + i \in 1..Len(t)
      BY <2>7
    <3> HIDE DEF r
    <3>3. AreItems(Items(r), r)
      BY <2>0, <3>1, <3>2
    <3>4. Range(r) \subseteq Range(t)
      <4> SUFFICES ASSUME NEW y \in Range(r) PROVE y \in Range(t)
        OBVIOUS
      <4>1. PICK i \in 1..(Len(t) - k) : y = r[i]
        BY <3>1, RangeIs
      <4>2. y = t[k + i] /\ k + i \in 1..Len(t)
        BY <3>1, <3>2, <4>1
      <4> QED BY <4>2, RangeIs
    <3> QED BY <3>3, <3>4 DEF r
  <2>8. AreItems(<< >>, t)
    BY EmptyIsSeq DEF AreItems
  <2>9. \A i \in 1..Len(t) : t[i] \in Range(t)
    BY RangeIs
  <2>1. CASE t = << >> \/ (Len(t) = 1 /\ t[1] = "%")
    BY <2>1, <2>6, <2>8
  <2>2. CASE t # << >> /\ t[1] # "%"
    <3>1. 1 \in 0..Len(t) /\ 1 > 0 /\ 1 \in 1..Len(t)
      BY <2>2, FirstIs
    <3> DEFINE r == Rest(t, 1)
               it == Items(r)
               x == Literal(t[1])
    <3>2. AreItems(it, r) /\ Range(r) \subseteq Range(t) /\ Items(t) = Led(x, it)
      BY <2>2, <2>6, <2>7, <3>1
    <3>3. IsItem(x, t)
      BY <2>2, <2>9, <3>1 DEF IsItem
    <3> HIDE DEF r, it, x
    <3> QED BY <3>2, <3>3, ItemFirst
  <2>3. CASE Len(t) > 1 /\ t[1] = "%"
    <3>1. 2 \in 0..Len(t) /\ 2 > 0 /\ 2 \in 1..Len(t)
      BY <2>3
    <3> DEFINE r == Rest(t, 2)
               it == Items(r)
               x == Specifier(t[2])
    <3>2. AreItems(it, r) /\ Range(r) \subseteq Range(t) /\ Items(t) = Led(x, it)
      BY <2>3, <2>6, <2>7, <3>1
    <3>3. IsItem(x, t)
      BY <2>9, <3>1 DEF IsItem
    <3> HIDE DEF r, it, x
    <3> QED BY <3>2, <3>3, ItemFirst
  <2>5. t = << >> \/ (t # << >> /\ t[1] # "%") \/ (Len(t) = 1 /\ t[1] = "%") \/ (Len(t) > 1 /\ t[1] = "%")
    <3>1. t # << >> => Len(t) \in Nat \ {0}
      BY FirstIs
    <3> QED BY <3>1
  <2> QED BY <2>1, <2>2, <2>3, <2>5
<1> HIDE DEF G
<1>4. Nat \subseteq G
  BY <1>1, AllNumbers
<1>5. Len(fmt) \in G
  BY <1>4, SeqIs
<1> QED BY <1>5 DEF G

\* From one place of the parts to a later one they make up a text; of parts of
\* one token each, it has these.
Middle(p, s, a, b) ==
  /\ IsSeq(p)
  /\ FlattenSeq(Rest(s, a)) = p \o FlattenSeq(Rest(s, b))
  /\ \A x \in Range(p) : \E i \in (a + 1)..b : x \in Range(s[i])
  /\ (\A i \in (a + 1)..b : Len(s[i]) = 1) =>
       Len(p) = b - a /\ \A j \in 1..(b - a) : p[j] = s[a + j][1]

LEMMA MiddleThere ==
  ASSUME NEW s, AreSeqs(s), NEW a \in 0..Len(s), NEW b \in a..Len(s)
  PROVE  \E p : Middle(p, s, a, b)
<1> DEFINE n == Len(s)
           G == {k \in 0..(n - a) : \E p : Middle(p, s, a, a + k)}
<1>1. IsSeq(s) /\ n \in Nat /\ n - a \in Nat /\ \A i \in 1..n : IsSeq(s[i])
  BY SeqIs DEF AreSeqs
<1>7. ASSUME NEW k \in 0..n
      PROVE  /\ AreSeqs(Rest(s, k)) /\ Len(Rest(s, k)) = n - k
             /\ IsSeq(FlattenSeq(Rest(s, k)))
             /\ \A i \in 1..(n - k) : Rest(s, k)[i] = s[k + i]
  <2>1. /\ IsSeq(Rest(s, k)) /\ Len(Rest(s, k)) = n - k
        /\ \A i \in 1..(n - k) : Rest(s, k)[i] = s[k + i] /\ k + i \in 1..n
    BY <1>1, RestIs
  <2>2. AreSeqs(Rest(s, k))
    BY <1>1, <2>1 DEF AreSeqs
  <2>3. IsSeq(FlattenSeq(Rest(s, k)))
    BY <2>2, FlattenIsSeq
  <2> QED BY <2>1, <2>2, <2>3
<1>2. 0 \in G
  <2> DEFINE e == << >>
             f == FlattenSeq(Rest(s, a))
  <2>1. IsSeq(e) /\ Len(e) = 0 /\ Range(e) = {}
    <3>1. IsSeq(e) /\ Len(e) = 0
      BY EmptyIsSeq
    <3>2. Range(e) = {e[i] : i \in 1..0} /\ 1..0 = {}
      BY <3>1, RangeIs
    <3> QED BY <3>1, <3>2
  <2>2. IsSeq(f)
    BY <1>7
  <2>3. e \o f = f
    <3> HIDE DEF f
    <3> QED BY <2>2, ConcatEmpty
  <2> HIDE DEF e
  <2>4. a + 0 = a /\ a - a = 0 /\ 1..0 = {} /\ 0 \in 0..(n - a)
    BY <1>1
  <2>5. Middle(e, s, a, a)
    BY <2>1, <2>3, <2>4 DEF Middle
  <2> QED BY <2>4, <2>5
<1>3. ASSUME NEW k \in 1..(n - a), k - 1 \in G PROVE k \in G
  <2> DEFINE c == a + (k - 1)
             d == a + k
  <2>1. c \in 0..n /\ d \in 1..n /\ d = c + 1 /\ d \in 0..n /\ c >= a /\ n - c > 0 /\ k \in 0..(n - a)
    BY <1>1
  <2>2. PICK p : Middle(p, s, a, c)
    BY <1>3
  <2> HIDE DEF c, d
  <2> DEFINE r == Rest(s, c)
             f == FlattenSeq(r)
             x == s[d]
             h == FlattenSeq(Rest(s, d))
  <2>3. AreSeqs(r) /\ Len(r) = n - c /\ \A i \in 1..(n - c) : r[i] = s[c + i]
    BY <1>7, <2>1
  <2>4. r # << >> /\ r[1] = x
    <3>1. 1 \in 1..(n - c) /\ c + 1 = d
      BY <2>1
    <3> QED BY <2>1, <2>3, <3>1, EmptyIsSeq
  <2>5. Rest(r, 1) = Rest(s, d)
    BY <1>1, <2>1, RestOfRest
  <2>6. f = x \o h /\ IsSeq(x) /\ IsSeq(h) /\ IsSeq(p)
    <3>1. f = r[1] \o FlattenSeq(Rest(r, 1))
      BY <2>3, <2>4, FlattenFirst
    <3> QED BY <1>1, <1>7, <2>1, <2>2, <2>4, <2>5, <3>1 DEF Middle
  <2> DEFINE q == p \o x
  <2>7. FlattenSeq(Rest(s, a)) = p \o f
    BY <2>2 DEF Middle
  <2> HIDE DEF f, h, x, r
  <2>8. /\ IsSeq(q) /\ Len(q) = Len(p) + Len(x) /\ Len(p) \in Nat /\ Len(x) \in Nat
        /\ \A i \in 1..Len(p) : q[i] = p[i]
        /\ \A i \in 1..Len(x) : q[Len(p) + i] = x[i]
    BY <2>6, ConcatIs, SeqIs
  <2>9. (p \o x) \o h = p \o (x \o h)
    BY <2>6, ConcatThree
  <2>10. FlattenSeq(Rest(s, a)) = q \o h
    BY <2>6, <2>7, <2>9
  <2> HIDE DEF q
  <2>11. ASSUME NEW y \in Range(q) PROVE \E i \in (a + 1)..d : y \in Range(s[i])
    <3>1. PICK i \in 1..Len(q) : y = q[i]
      BY <2>8, RangeIs
    <3>2. CASE i <= Len(p)
      <4>1. i \in 1..Len(p) /\ y = p[i]
        BY <2>8, <3>1, <3>2
      <4>2. y \in Range(p)
        BY <2>6, <4>1, RangeIs
      <4>3. PICK z \in (a + 1)..c : y \in Range(s[z])
        BY <2>2, <4>2 DEF Middle
      <4>4. z \in (a + 1)..d
        BY <2>1
      <4> QED BY <4>3, <4>4
    <3>3. CASE i > Len(p)
      <4>1. i - Len(p) \in 1..Len(x) /\ Len(p) + (i - Len(p)) = i
        BY <2>8, <3>3
      <4>2. y = x[i - Len(p)]
        BY <2>8, <3>1, <4>1
      <4>3. y \in Range(x)
        BY <2>6, <4>1, <4>2, RangeIs
      <4>4. d \in (a + 1)..d
        BY <2>1
      <4> QED BY <4>3, <4>4 DEF x
    <3> QED BY <2>8, <3>2, <3>3
  <2>12. ASSUME \A i \in (a + 1)..d : Len(s[i]) = 1
         PROVE  Len(q) = d - a /\ \A j \in 1..(d - a) : q[j] = s[a + j][1]
    <3>1. (a + 1)..c \subseteq (a + 1)..d /\ d \in (a + 1)..d
      BY <2>1
    <3>2. Len(p) = c - a /\ \A j \in 1..(c - a) : p[j] = s[a + j][1]
      BY <2>2, <2>12, <3>1 DEF Middle
    <3>3. Len(x) = 1
      BY <2>12, <3>1 DEF x
    <3>4. Len(q) = d - a
      BY <2>1, <2>8, <3>2, <3>3
    <3>5. ASSUME NEW j \in 1..(d - a) PROVE q[j] = s[a + j][1]
      <4>1. CASE j = d - a
        <5>1. j = Len(p) + 1 /\ 1 \in 1..Len(x) /\ a + j = d
          BY <2>1, <3>2, <3>3, <4>1
        <5>2. q[j] = x[1]
          BY <2>8, <5>1
        <5> QED BY <5>1, <5>2 DEF x
      <4>2. CASE j # d - a
        <5>1. j \in 1..(c - a) /\ j \in 1..Len(p)
          BY <2>1, <3>2, <4>2
        <5> QED BY <2>8, <3>2, <5>1
      <4> QED BY <4>1, <4>2
    <3> QED BY <3>4, <3>5
  <2>13. Middle(q, s, a, d)
    BY <2>8, <2>10, <2>11, <2>12 DEF Middle, h
  <2> QED BY <2>1, <2>13 DEF d
<1>4. b - a \in G
  <2> HIDE DEF G
  <2>1. 0..(n - a) \subseteq G
    BY <1>1, <1>2, <1>3, NumbersUpTo
  <2>2. b - a \in 0..(n - a)
    BY <1>1
  <2> QED BY <2>1, <2>2
<1>5. a + (b - a) = b
  BY <1>1
<1>6. \E p : Middle(p, s, a, a + (b - a))
  BY <1>4
<1> QED BY <1>5, <1>6

\* A set of numbers with a bound has a greatest.
LEMMA Maximum ==
  ASSUME NEW n \in Nat, NEW T \in SUBSET (1..n), T # {}
  PROVE  Max(T) \in T /\ \A y \in T : y <= Max(T)
<1> DEFINE D == {n - i : i \in T}
<1>1. D \in SUBSET Nat /\ D # {}
  <2>1. \A i \in T : n - i \in Nat
    OBVIOUS
  <2>2. PICK z \in T : TRUE
    OBVIOUS
  <2>3. n - z \in D
    OBVIOUS
  <2> QED BY <2>1, <2>3
<1>2. PICK d \in D : \A e \in D : d <= e
  <2> HIDE DEF D
  <2> QED BY <1>1, Minimum
<1>3. PICK x \in T : d = n - x
  OBVIOUS
<1>4. \A y \in T : y <= x
  <2> SUFFICES ASSUME NEW y \in T PROVE y <= x
    OBVIOUS
  <2>1. n - y \in D /\ x \in 1..n /\ y \in 1..n
    OBVIOUS
  <2>2. n - x <= n - y
    BY <1>2, <1>3, <2>1
  <2> QED BY <2>1, <2>2
<1>5. \E m \in T : \A y \in T : m >= y
  BY <1>4
<1>6. Max(T) \in T /\ \A y \in T : Max(T) >= y
  BY <1>5 DEF Max
<1> QED BY <1>6

\* The one %L of a template, and the literals around it behind place a and up to b
LevelAt(fmt, at, a, b) ==
  LET it == Items(fmt) IN
  /\ at \in 1..Len(it) /\ it[at] = Specifier("L") /\ \A i \in 1..Len(it) : it[i] = Specifier("L") => i = at
  /\ a \in 0..(at - 1) /\ b \in at..Len(it)
  /\ \A i \in (a + 1)..b : i # at => ~it[i].spec

\* The characters of n literals behind place a, and the template cut around the %L
CharsOf(it, a, n) == [i \in 1..n |-> it[a + i].char]
Template(it, at, a, b) ==
  CharsOf(it, a, at - 1 - a) \o <<"%", "L">> \o CharsOf(it, at, b - at)

\* LevelTemplate cuts a template with one %L.
LEMMA LevelAtThere ==
  ASSUME NEW fmt, IsSeq(fmt), NEW at \in DOMAIN Items(fmt),
         {i \in DOMAIN Items(fmt) : Items(fmt)[i] = Specifier("L")} = {at}
  PROVE  \E a, b : /\ LevelAt(fmt, at, a, b)
                   /\ LevelTemplate(fmt) = Template(Items(fmt), at, a, b)
<1> DEFINE it == Items(fmt)
           n == Len(it)
           levels == {i \in DOMAIN it : it[i] = Specifier("L")}
           before == {i \in 1..(at - 1) : it[i].spec}
           after == {i \in (at + 1)..n : it[i].spec}
           a == IF before = {} THEN 0 ELSE Max(before)
           b == IF after = {} THEN n ELSE Min(after) - 1
           first == IF before = {} THEN 1 ELSE Max(before) + 1
           Chars(x, y) == [i \in 1..((y + 1) - x) |-> it[x + i - 1].char]
<1>1. IsSeq(it) /\ n \in Nat /\ DOMAIN it = 1..n /\ at \in 1..n
  BY ItemsIsSeq, SeqIs
<1>2. levels = {at} /\ levels # {}
  OBVIOUS
<1>3. Min(levels) = at
  BY <1>2 DEF Min
<1>4. LevelTemplate(fmt) = Chars(first, at - 1) \o <<"%", "L">> \o Chars(at + 1, b)
  <2>1. LevelTemplate(fmt) =
          LET bef == {i \in 1..(Min(levels) - 1) : it[i].spec}
              aft == {i \in (Min(levels) + 1)..Len(it) : it[i].spec}
              fst == IF bef = {} THEN 1 ELSE Max(bef) + 1
              lst == IF aft = {} THEN Len(it) ELSE Min(aft) - 1
          IN IF levels = {} THEN << >>
             ELSE Chars(fst, Min(levels) - 1) \o <<"%", "L">> \o Chars(Min(levels) + 1, lst)
    BY DEF LevelTemplate
  <2> QED BY <1>2, <1>3, <2>1
<1> HIDE DEF it, levels
<1>5. a \in 0..(at - 1) /\ first = a + 1 /\ \A i \in (a + 1)..(at - 1) : ~it[i].spec
  <2>1. CASE before = {}
    <3>1. at - 1 \in Nat /\ a = 0
      BY <1>1, <2>1
    <3> QED BY <2>1, <3>1
  <2>2. CASE before # {}
    <3> DEFINE N == at - 1
    <3>1. N \in Nat /\ before \in SUBSET (1..N)
      BY <1>1
    <3>2. Max(before) \in before /\ \A y \in before : y <= Max(before)
      <4> HIDE DEF before, N
      <4> QED BY <2>2, <3>1, Maximum
    <3>3. a = Max(before) /\ a \in 1..N
      BY <2>2, <3>2
    <3>4. ASSUME NEW i \in (a + 1)..N, it[i].spec PROVE FALSE
      <4>1. i \in before /\ ~(i <= a) /\ i \in Nat
        BY <3>1, <3>3, <3>4
      <4> QED BY <3>2, <3>3, <4>1
    <3> QED BY <2>2, <3>1, <3>3, <3>4
  <2> QED BY <2>1, <2>2
<1>6. b \in at..n /\ \A i \in (at + 1)..b : ~it[i].spec
  <2>1. CASE after = {}
    BY <1>1, <2>1
  <2>2. CASE after # {}
    <3>1. after \in SUBSET Nat
      BY <1>1
    <3>2. Min(after) \in after /\ \A y \in after : Min(after) <= y
      <4> HIDE DEF after
      <4> QED BY <2>2, <3>1, Minimum
    <3>3. b = Min(after) - 1 /\ Min(after) \in (at + 1)..n
      BY <2>2, <3>2
    <3>4. ASSUME NEW i \in (at + 1)..b, it[i].spec PROVE FALSE
      <4>1. i \in after /\ ~(Min(after) <= i)
        BY <1>1, <3>3, <3>4
      <4> QED BY <3>2, <4>1
    <3> QED BY <1>1, <3>3, <3>4
  <2> QED BY <2>1, <2>2
<1> HIDE DEF a, b, first, before, after
<1>7. Chars(first, at - 1) = CharsOf(it, a, at - 1 - a)
  <2>1. ((at - 1) + 1) - first = at - 1 - a /\ \A i \in 1..(at - 1 - a) : first + i - 1 = a + i
    BY <1>1, <1>5
  <2> QED BY <2>1 DEF CharsOf
<1>8. Chars(at + 1, b) = CharsOf(it, at, b - at)
  <2>1. (b + 1) - (at + 1) = b - at /\ \A i \in 1..(b - at) : (at + 1) + i - 1 = at + i
    BY <1>1, <1>6
  <2> QED BY <2>1 DEF CharsOf
<1>9. LevelTemplate(fmt) = Template(it, at, a, b)
  BY <1>4, <1>7, <1>8 DEF Template
<1>10. LevelAt(fmt, at, a, b)
  <2>1. it[at] = Specifier("L") /\ \A i \in 1..n : it[i] = Specifier("L") => i = at
    BY <1>1, <1>2 DEF levels
  <2>2. \A i \in (a + 1)..b : i # at => ~it[i].spec
    <3> SUFFICES ASSUME NEW i \in (a + 1)..b, i # at PROVE ~it[i].spec
      OBVIOUS
    <3>1. i \in (a + 1)..(at - 1) \/ i \in (at + 1)..b
      BY <1>1, <1>5, <1>6
    <3> QED BY <1>5, <1>6, <3>1
  <2> QED BY <1>1, <1>5, <1>6, <2>1, <2>2 DEF LevelAt, it
<1> QED BY <1>9, <1>10 DEF it

\* The literals around the %L, with a level in its place
IsPattern(p, fmt, at, a, b, level) ==
  /\ IsSeq(p) /\ Len(p) = b - a /\ at - a \in 1..(b - a) /\ p[at - a] = level
  /\ \A j \in 1..(b - a) : j # at - a =>
       p[j] = Items(fmt)[a + j].char /\ p[j] \in Range(fmt) /\ p[j] # "%"

\* The characters of literals are a text.
LEMMA CharsAre ==
  ASSUME NEW it, NEW a \in Nat, NEW n \in Nat
  PROVE  /\ IsSeq(CharsOf(it, a, n)) /\ Len(CharsOf(it, a, n)) = n
         /\ \A i \in 1..n : CharsOf(it, a, n)[i] = it[a + i].char
<1> DEFINE c == CharsOf(it, a, n)
<1>1. c = [i \in 1..n |-> c[i]] /\ \A i \in 1..n : c[i] = it[a + i].char
  BY DEF CharsOf
<1> HIDE DEF c
<1>2. IsSeq(c) /\ Len(c) = n
  BY <1>1, FunctionIs
<1> QED BY <1>1, <1>2 DEF c

\* The literals around the %L are characters of the template.
LEMMA LiteralsAre ==
  ASSUME NEW fmt, IsSeq(fmt), NEW at, NEW a, NEW b, LevelAt(fmt, at, a, b)
  PROVE  /\ at \in 1..Len(Items(fmt)) /\ a \in 0..(at - 1) /\ b \in at..Len(Items(fmt))
         /\ Items(fmt)[at] = Specifier("L") /\ Len(Items(fmt)) \in Nat
         /\ \A i \in (a + 1)..b : i # at =>
              /\ ~Items(fmt)[i].spec /\ Items(fmt)[i].char \in Range(fmt)
              /\ Items(fmt)[i].char # "%"
<1> DEFINE it == Items(fmt)
<1>1. /\ at \in 1..Len(it) /\ a \in 0..(at - 1) /\ b \in at..Len(it) /\ it[at] = Specifier("L")
      /\ \A i \in (a + 1)..b : i # at => ~it[i].spec
  BY DEF LevelAt
<1>2. Len(it) \in Nat /\ \A i \in 1..Len(it) : IsItem(it[i], fmt)
  BY ItemsOf, SeqIs DEF AreItems
<1> HIDE DEF it
<1>3. ASSUME NEW i \in (a + 1)..b, i # at
      PROVE  ~it[i].spec /\ it[i].char \in Range(fmt) /\ it[i].char # "%"
  <2>1. ~it[i].spec /\ i \in 1..Len(it)
    BY <1>1, <1>2, <1>3
  <2>2. PICK c \in Range(fmt) : it[i] = Specifier(c) \/ (c # "%" /\ it[i] = Literal(c))
    BY <1>2, <2>1 DEF IsItem
  <2>3. Specifier(c).spec = TRUE /\ Literal(c).char = c
    BY DEF Specifier, Literal
  <2> QED BY <2>1, <2>2, <2>3
<1> QED BY <1>1, <1>2, <1>3 DEF it

\* A text, a token and another text
Around(c, x, s) == c \o Led(x, s)

LEMMA LedText ==
  ASSUME NEW c, NEW s, NEW x, IsSeq(c), IsSeq(s)
  PROVE  LET p == Around(c, x, s) IN
         /\ IsSeq(p) /\ Len(p) = Len(c) + 1 + Len(s)
         /\ \A i \in 1..Len(c) : p[i] = c[i]
         /\ p[Len(c) + 1] = x
         /\ \A i \in 1..Len(s) : p[Len(c) + 1 + i] = s[i]
<1> DEFINE w == Led(x, s)
           p == c \o w
<1>1. /\ IsSeq(w) /\ Len(w) = Len(s) + 1 /\ w[1] = x /\ Len(s) \in Nat /\ Len(c) \in Nat
      /\ \A i \in 1..Len(s) : w[i + 1] = s[i]
  BY LedGives, SeqIs
<1> HIDE DEF w
<1>2. /\ IsSeq(p) /\ Len(p) = Len(c) + Len(w)
      /\ \A i \in 1..Len(c) : p[i] = c[i]
      /\ \A i \in 1..Len(w) : p[Len(c) + i] = w[i]
  <2>2. IsSeq(c) /\ IsSeq(w)
    BY <1>1
  <2> QED BY <2>2, ConcatIs
<1>3. ASSUME NEW i \in 1..Len(s) PROVE p[Len(c) + 1 + i] = s[i]
  <2>1. i + 1 \in 1..Len(w) /\ Len(c) + (i + 1) = Len(c) + 1 + i
    BY <1>1
  <2>2. p[Len(c) + (i + 1)] = w[i + 1]
    BY <1>2, <2>1
  <2> QED BY <1>1, <2>1, <2>2
<1>4. 1 \in 1..Len(w)
  BY <1>1
<1>5. p[Len(c) + 1] = x
  BY <1>1, <1>2, <1>4
<1>6. Len(p) = Len(c) + 1 + Len(s)
  BY <1>1, <1>2
<1>7. Around(c, x, s) = p
  BY DEF Around, w
<1> HIDE DEF p
<1> QED BY <1>2, <1>3, <1>5, <1>6, <1>7

\* The pattern of a level is the literal text around the %L.
LEMMA PatternIs ==
  ASSUME NEW fmt, IsSeq(fmt), NEW at, NEW a, NEW b, LevelAt(fmt, at, a, b), NEW level
  PROVE  IsPattern(LevelPattern(Template(Items(fmt), at, a, b), level), fmt, at, a, b, level)
<1> DEFINE it == Items(fmt)
           c == CharsOf(it, a, at - 1 - a)
           d == CharsOf(it, at, b - at)
           value == [L |-> <<level>>]
           T == Template(it, at, a, b)
           n == Len(it)
<1>1. /\ at \in 1..n /\ a \in 0..(at - 1) /\ b \in at..n /\ n \in Nat
      /\ \A i \in (a + 1)..b : i # at => it[i].char \in Range(fmt) /\ it[i].char # "%"
  BY LiteralsAre
<1> HIDE DEF it
<1>2. /\ at \in Nat /\ a \in Nat /\ b \in Nat /\ at - 1 - a \in Nat /\ b - at \in Nat
  BY <1>1
<1>3. /\ IsSeq(c) /\ Len(c) = at - 1 - a /\ \A i \in 1..(at - 1 - a) : c[i] = it[a + i].char
      /\ IsSeq(d) /\ Len(d) = b - at /\ \A i \in 1..(b - at) : d[i] = it[at + i].char
  BY <1>2, CharsAre
<1> HIDE DEF c, d
<1>4. "%" \notin Range(c) /\ "%" \notin Range(d)
  <2>1. \A i \in 1..(at - 1 - a) : c[i] # "%"
    <3> SUFFICES ASSUME NEW i \in 1..(at - 1 - a) PROVE c[i] # "%"
      OBVIOUS
    <3>1. a + i \in (a + 1)..b /\ a + i # at
      BY <1>1
    <3> QED BY <1>1, <1>3, <3>1
  <2>2. \A i \in 1..(b - at) : d[i] # "%"
    <3> SUFFICES ASSUME NEW i \in 1..(b - at) PROVE d[i] # "%"
      OBVIOUS
    <3>1. at + i \in (a + 1)..b /\ at + i # at
      BY <1>1
    <3> QED BY <1>1, <1>3, <3>1
  <2> QED BY <1>3, <2>1, <2>2, RangeIs
<1>5. AreTexts(value) /\ SpecText("L", value) = <<level>>
  BY OneIs DEF AreTexts, SpecText
<1> HIDE DEF value
<1>6. T = c \o Unchanged("L", d) /\ IsSeq(Unchanged("L", d))
  <2> DEFINE w == <<"%", "L">>
  <2>1. IsSeq(w)
    BY PairIs
  <2>2. T = (c \o w) \o d
    BY DEF Template, c, d
  <2> HIDE DEF w, T
  <2>3. (c \o w) \o d = c \o (w \o d) /\ IsSeq(w \o d)
    BY <1>3, <2>1, ConcatThree, ConcatIs
  <2> QED BY <2>2, <2>3 DEF w, Unchanged
<1>7. T # << >>
  <2> DEFINE u == Unchanged("L", d)
             w == <<"%", "L">>
  <2>1. IsSeq(w) /\ Len(w) = 2 /\ u = w \o d
    BY PairIs DEF Unchanged
  <2> HIDE DEF u, w, T
  <2>4. IsSeq(w) /\ IsSeq(d) /\ IsSeq(c)
    BY <1>3, <2>1
  <2>5. Len(w \o d) = Len(w) + Len(d) /\ Len(d) \in Nat /\ Len(c) \in Nat
    BY <2>4, ConcatIs, SeqIs
  <2>2. Len(u) = 2 + Len(d) /\ Len(d) \in Nat /\ Len(c) \in Nat
    BY <2>1, <2>5
  <2>3. Len(T) = Len(c) + Len(u)
    BY <1>3, <1>6, ConcatIs DEF u
  <2> QED BY <2>2, <2>3, EmptyIsSeq
<1> HIDE DEF T
<1>8. Format(T, value) = c \o Led(level, d)
  <2> DEFINE u == Unchanged("L", d)
             e == << >>
  <2>1. Format(c \o u, value) = c \o Format(u, value)
    <3>1. IsSeq(u)
      BY <1>6
    <3> HIDE DEF u
    <3> QED BY <1>3, <1>4, <1>5, <3>1, FormatText
  <2>2. Format(u, value) = Led(level, Format(d, value))
    BY <1>3, <1>5, FormatKept DEF Led
  <2>3. Format(d, value) = d
    <3>1. IsSeq(e) /\ Format(e, value) = e
      BY <1>5, EmptyIsSeq, FormatAre
    <3> HIDE DEF e
    <3>2. Format(d \o e, value) = d \o Format(e, value)
      <4>1. IsSeq(d) /\ "%" \notin Range(d) /\ IsSeq(e) /\ AreTexts(value)
        BY <1>3, <1>4, <1>5, <3>1
      <4> QED BY <4>1, FormatText
    <3>3. d \o e = d
      BY <1>3, ConcatEmpty DEF e
    <3> QED BY <3>1, <3>2, <3>3
  <2> QED BY <1>6, <2>1, <2>2, <2>3
<1> DEFINE p == LevelPattern(T, level)
<1>9. p = c \o Led(level, d)
  BY <1>7, <1>8 DEF LevelPattern, value
<1> HIDE DEF p
<1>10. /\ IsSeq(p) /\ Len(p) = Len(c) + 1 + Len(d)
       /\ \A i \in 1..Len(c) : p[i] = c[i]
       /\ p[Len(c) + 1] = level
       /\ \A i \in 1..Len(d) : p[Len(c) + 1 + i] = d[i]
  <2>1. IsSeq(c) /\ IsSeq(d)
    BY <1>3
  <2> DEFINE z == Around(c, level, d)
  <2>2. /\ IsSeq(z) /\ Len(z) = Len(c) + 1 + Len(d)
        /\ \A i \in 1..Len(c) : z[i] = c[i]
        /\ z[Len(c) + 1] = level
        /\ \A i \in 1..Len(d) : z[Len(c) + 1 + i] = d[i]
    BY <2>1, LedText
  <2> HIDE DEF z
  <2>3. p = z
    BY <1>9 DEF z, Around
  <2> QED BY <2>2, <2>3
<1>11. Len(p) = b - a /\ at - a \in 1..(b - a) /\ p[at - a] = level
  <2>1. Len(c) + 1 + Len(d) = b - a /\ Len(c) + 1 = at - a
    BY <1>1, <1>3
  <2> QED BY <1>1, <1>10, <2>1
<1>12. ASSUME NEW j \in 1..(b - a), j # at - a PROVE p[j] = it[a + j].char
  <2>1. CASE j < at - a
    <3>1. j \in 1..(at - 1 - a)
      BY <1>1, <2>1
    <3> QED BY <1>3, <1>10, <3>1
  <2>2. CASE j > at - a
    <3> DEFINE i == j - (at - a)
    <3>1. i \in 1..(b - at) /\ at + i = a + j /\ (at - 1 - a) + 1 + i = j
      BY <1>1, <2>2
    <3> HIDE DEF i
    <3>2. p[(at - 1 - a) + 1 + i] = d[i] /\ d[i] = it[at + i].char
      BY <1>3, <1>10, <3>1
    <3> QED BY <3>1, <3>2
  <2> QED BY <1>1, <1>12, <2>1, <2>2
<1>13. ASSUME NEW j \in 1..(b - a), j # at - a
       PROVE  it[a + j].char \in Range(fmt) /\ it[a + j].char # "%"
  <2>1. a + j \in (a + 1)..b /\ a + j # at
    BY <1>1, <1>13
  <2> QED BY <1>1, <2>1
<1> QED BY <1>10, <1>11, <1>12, <1>13 DEF IsPattern, p, T, it

\* A line that is made of a template has the literal text around its level, and
\* before and behind this only what the other items put in.
IsCut(fmt, value, at, a, b, level) ==
  \E x, p, y :
    /\ IsSeq(x) /\ IsSeq(y) /\ IsPattern(p, fmt, at, a, b, level)
    /\ Format(fmt, value) = x \o (p \o y)
    /\ \A e \in Range(x) \cup Range(y) :
         \E i \in 1..Len(Items(fmt)) : i # at /\ e \in Range(ItemText(Items(fmt)[i], value))

LEMMA FormatCut ==
  ASSUME NEW fmt, IsSeq(fmt), NEW at, NEW a, NEW b, LevelAt(fmt, at, a, b),
         NEW value, AreTexts(value), NEW level, SpecText("L", value) = <<level>>
  PROVE  IsCut(fmt, value, at, a, b, level)
<1> DEFINE it == Items(fmt)
           n == Len(it)
           s == ItemTexts(it, value)
<1>1. /\ at \in 1..n /\ a \in 0..(at - 1) /\ b \in at..n /\ n \in Nat /\ it[at] = Specifier("L")
      /\ \A i \in (a + 1)..b : i # at =>
           ~it[i].spec /\ it[i].char \in Range(fmt) /\ it[i].char # "%"
  BY LiteralsAre
<1>2. /\ AreSeqs(s) /\ Len(s) = n /\ \A i \in 1..n : s[i] = ItemText(it[i], value)
  BY ItemsIsSeq, ItemTextsAre
<1>3. Format(fmt, value) = FlattenSeq(s)
  BY FormatIs
<1> HIDE DEF it, s, n
<1>4. 0 \in 0..Len(s) /\ a \in 0..Len(s) /\ b \in a..Len(s) /\ b \in 0..Len(s)
  BY <1>1, <1>2
<1>5. PICK x : Middle(x, s, 0, a)
  BY <1>2, <1>4, MiddleThere
<1>6. PICK p : Middle(p, s, a, b)
  BY <1>2, <1>4, MiddleThere
<1> DEFINE r == Rest(s, b)
           y == FlattenSeq(r)
<1> HIDE DEF r
<1>7. /\ IsSeq(r) /\ Len(r) = n - b /\ \A i \in 1..(n - b) : r[i] = s[b + i]
      /\ \A i \in 1..(n - b) : b + i \in 1..n
  <2>1. IsSeq(s)
    BY <1>2 DEF AreSeqs
  <2>2. IsSeq(r) /\ Len(r) = Len(s) - b /\ \A i \in 1..(Len(s) - b) : r[i] = s[b + i]
    BY <1>4, <2>1, RestIs DEF r
  <2>3. \A i \in 1..(n - b) : b + i \in 1..n
    BY <1>1
  <2> QED BY <1>2, <2>2, <2>3
<1>8. AreSeqs(r) /\ IsSeq(y)
  <2>1. AreSeqs(r)
    BY <1>2, <1>7 DEF AreSeqs
  <2> QED BY <2>1, FlattenIsSeq
<1>9. FlattenSeq(s) = x \o (p \o y)
  <2>1. Rest(s, 0) = s
    <3>1. IsSeq(s) /\ 0 \in 0..Len(s) /\ Len(s) \in Nat
      BY <1>2, <1>4, SeqIs DEF AreSeqs
    <3> DEFINE z == Rest(s, 0)
    <3>2. IsSeq(z) /\ Len(z) = Len(s) - 0 /\ \A i \in 1..(Len(s) - 0) : z[i] = s[0 + i]
      BY <3>1, RestIs
    <3> HIDE DEF z
    <3>3. Len(z) = Len(s) /\ \A i \in 1..Len(z) : z[i] = s[i]
      BY <3>1, <3>2
    <3>4. z = s
      BY <3>1, <3>2, <3>3, SeqsEqual
    <3> QED BY <3>4 DEF z
  <2>2. FlattenSeq(Rest(s, 0)) = x \o FlattenSeq(Rest(s, a))
    BY <1>5 DEF Middle
  <2>3. FlattenSeq(Rest(s, a)) = p \o y
    BY <1>6 DEF Middle, r
  <2> QED BY <2>1, <2>2, <2>3
<1>10. \A e \in Range(x) : \E i \in 1..n : i # at /\ e \in Range(ItemText(it[i], value))
  <2> SUFFICES ASSUME NEW e \in Range(x)
               PROVE  \E i \in 1..n : i # at /\ e \in Range(ItemText(it[i], value))
    OBVIOUS
  <2>1. PICK i \in (0 + 1)..a : e \in Range(s[i])
    BY <1>5 DEF Middle
  <2>2. i \in 1..n /\ i # at
    BY <1>1
  <2> QED BY <1>2, <2>1, <2>2
<1>11. \A e \in Range(y) : \E i \in 1..n : i # at /\ e \in Range(ItemText(it[i], value))
  <2> SUFFICES ASSUME NEW e \in Range(y)
               PROVE  \E i \in 1..n : i # at /\ e \in Range(ItemText(it[i], value))
    OBVIOUS
  <2>1. PICK i \in 1..Len(r) : e \in Range(r[i])
    BY <1>8, FlattenRange
  <2>2. i \in 1..(n - b) /\ b + i \in 1..n /\ b + i # at
    BY <1>1, <1>7
  <2> QED BY <1>2, <1>7, <2>1, <2>2
<1>12. ASSUME NEW i \in (a + 1)..b
       PROVE  /\ Len(s[i]) = 1 /\ s[i][1] = (IF i = at THEN level ELSE it[i].char)
  <2>1. i \in 1..n /\ s[i] = ItemText(it[i], value)
    BY <1>1, <1>2
  <2>2. CASE i = at
    <3>1. ItemText(Specifier("L"), value) = <<level>>
      BY DEF ItemText, Specifier
    <3> QED BY <1>1, <2>1, <2>2, <3>1, OneIs
  <2>3. CASE i # at
    <3>1. ItemText(it[i], value) = <<it[i].char>>
      BY <1>1, <2>3 DEF ItemText
    <3> QED BY <2>1, <2>3, <3>1, OneIs
  <2> QED BY <2>2, <2>3
<1>13. IsSeq(x) /\ IsSeq(p) /\ Len(p) = b - a /\ \A j \in 1..(b - a) : p[j] = s[a + j][1]
  BY <1>5, <1>6, <1>12 DEF Middle
<1>14. IsPattern(p, fmt, at, a, b, level)
  <2>1. at - a \in 1..(b - a) /\ a + (at - a) = at /\ at \in (a + 1)..b
    BY <1>1
  <2>2. p[at - a] = level
    <3>1. p[at - a] = s[at][1]
      BY <1>13, <2>1
    <3> QED BY <1>12, <2>1, <3>1
  <2>3. ASSUME NEW j \in 1..(b - a), j # at - a
        PROVE  p[j] = it[a + j].char /\ p[j] \in Range(fmt) /\ p[j] # "%"
    <3>1. a + j \in (a + 1)..b /\ a + j # at
      BY <1>1, <2>3
    <3>2. p[j] = it[a + j].char
      BY <1>12, <1>13, <3>1
    <3> QED BY <1>1, <3>1, <3>2
  <2> QED BY <1>13, <2>1, <2>2, <2>3 DEF IsPattern, it
<1> HIDE DEF y
<1>15. /\ IsSeq(x) /\ IsSeq(y) /\ IsPattern(p, fmt, at, a, b, level)
       /\ Format(fmt, value) = x \o (p \o y)
       /\ \A e \in Range(x) \cup Range(y) :
            \E i \in 1..n : i # at /\ e \in Range(ItemText(it[i], value))
  BY <1>3, <1>8, <1>9, <1>10, <1>11, <1>13, <1>14
<1> QED BY <1>15 DEF it, n, IsCut

-----------------------------------------------------------------------------
(* Where a line has the name of its level *)

\* What a line has of its message is of the message, of its context, or a space.
LEMMA MessageRange ==
  ASSUME NEW z, NEW s, s.c \in Calls, s.i \in DOMAIN s.c.messages
  PROVE  \A e \in Range(MessageText(z, s)) :
           \/ e = Space \/ e \in Range(s.c.messages[s.i])
           \/ \E k \in 1..Len(s.c.context) : e \in Range(s.c.context[k].value)
<1> DEFINE m == s.c.messages[s.i]
           C == s.c.context
           text == StrtrArray(m, C).text
           trim == TrimWrap(text)
<1>1. IsSeq(m) /\ IsContext(C)
  BY CallIs
<1> HIDE DEF m, C
<1>2. IsSeq(text) /\ \A e \in Range(text) : e \in Range(m) \/ \E k \in 1..Len(C) : e \in Range(C[k].value)
  BY <1>1, StrtrArrayIs
<1>3. MessageText(z, s) = text \/ MessageText(z, s) = trim
  BY DEF MessageText, m, C
<1> HIDE DEF text
<1>4. \A e \in Range(trim) : e = Space \/ e \in Range(text)
  <2>1. /\ trim = [i \in 1..Len(text) |-> trim[i]]
        /\ \A i \in 1..Len(text) : trim[i] = text[i] \/ trim[i] = Space
    BY DEF TrimWrap, ReplaceAll
  <2> HIDE DEF trim
  <2>2. IsSeq(trim) /\ Len(trim) = Len(text)
    BY <1>2, <2>1, SeqIs, FunctionIs
  <2> SUFFICES ASSUME NEW e \in Range(trim) PROVE e = Space \/ e \in Range(text)
    OBVIOUS
  <2>3. PICK i \in 1..Len(text) : e = trim[i]
    BY <2>2, RangeIs
  <2>4. text[i] \in Range(text)
    BY <1>2, RangeIs
  <2> QED BY <2>1, <2>3, <2>4
<1> HIDE DEF trim
<1>5. \A e \in Range(MessageText(z, s)) :
        e = Space \/ e \in Range(m) \/ \E k \in 1..Len(C) : e \in Range(C[k].value)
  BY <1>2, <1>3, <1>4
<1> QED BY <1>5 DEF m, C

\* A text with no name of a level in it
Levelless(t) == \A e \in Range(t) : e \notin Levels

\* The values of a line, as if of one pass
BothPasses(s) ==
  Extended(RequestValues(VariablesOf(s)), LineValues(s.c.level, s.id, MessageText(setting, s)))

\* What an entry of said is
IsSaying(s) ==
  s.c \in Calls /\ s.i \in DOMAIN s.c.messages /\ VariablesTyped(VariablesOf(s)) /\ IsSeq(s.id)

\* The first pass has no %L.
LEMMA FirstNoLevel ==
  ASSUME NEW v
  PROVE  "L" \notin DOMAIN RequestValues(v)
BY DEF RequestValues

\* The second pass has the level for %L.
LEMMA SecondLevel ==
  ASSUME NEW level, NEW id, NEW text
  PROVE  "L" \in DOMAIN LineValues(level, id, text) /\ LineValues(level, id, text)["L"] = <<level>>
BY DEF LineValues, Extended

\* The other values of the second pass
LEMMA SecondOthers ==
  ASSUME NEW level, NEW id, NEW text, NEW c \in DOMAIN LineValues(level, id, text), c # "L"
  PROVE  LET w == LineValues(level, id, text)[c] IN w = text \/ w = id \/ w = Base \/ w \in Range(Ambient)
<1> DEFINE own == [M |-> text, L |-> <<level>>, Q |-> id, B |-> Base]
           w == LineValues(level, id, text)[c]
<1>1. DOMAIN own = {"M", "L", "Q", "B"}
  OBVIOUS
<1>2. LineValues(level, id, text) = Extended(own, Ambient)
  BY DEF LineValues
<1>3. c \in DOMAIN own => own[c] = text \/ own[c] = id \/ own[c] = Base
  BY <1>1
<1> HIDE DEF own
<1>4. CASE c \in DOMAIN own
  BY <1>2, <1>3, <1>4 DEF Extended
<1>5. CASE c \notin DOMAIN own
  <2>1. c \in DOMAIN Ambient /\ w = Ambient[c]
    BY <1>2, <1>5 DEF Extended
  <2>2. Ambient[c] \in Range(Ambient)
    BY <2>1 DEF Range
  <2> QED BY <2>1, <2>2
<1> QED BY <1>4, <1>5

\* Of both passes only %L has the name of a level.
LEMMA BothPassesAre ==
  ASSUME NEW s, IsSaying(s), OneLevelIn(s)
  PROVE  LET both == BothPasses(s) IN
         /\ AreTexts(both) /\ SpecText("L", both) = <<s.c.level>>
         /\ \A c \in DOMAIN both : c # "L" => Levelless(both[c])
<1> DEFINE a == RequestValues(VariablesOf(s))
           text == MessageText(setting, s)
           b == LineValues(s.c.level, s.id, text)
           both == BothPasses(s)
           m == s.c.messages[s.i]
           C == s.c.context
<1>1. IsSeq(text) /\ IsSeq(s.id)
  BY MessageTextIs DEF IsSaying
<1>2. AreTexts(a)
  BY RequestValuesAre DEF AreTexts, IsSaying
<1>3. AreTexts(b)
  BY <1>1, LineValuesAre DEF AreTexts
<1>4. \A t \in Range(a) \cup Range(Ambient) \cup {Base, s.id, m} : Levelless(t)
  BY DEF OneLevelIn, Levelless
<1>5. \A k \in 1..Len(C) : Levelless(C[k].value)
  <2>1. IsSeq(C)
    BY CallIs DEF IsSaying, IsContext
  <2>2. \A pair \in Range(C) : Levelless(pair.value)
    BY DEF OneLevelIn, Levelless
  <2>3. \A k \in 1..Len(C) : C[k] \in Range(C)
    BY <2>1, RangeIs
  <2> QED BY <2>2, <2>3
<1>6. Levelless(text)
  <2>1. Space \notin Levels
    BY LevelsAssumption
  <2>2. \A e \in Range(text) : e = Space \/ e \in Range(m) \/ \E k \in 1..Len(C) : e \in Range(C[k].value)
    BY MessageRange DEF IsSaying
  <2> HIDE DEF text, m, C
  <2> QED BY <1>4, <1>5, <2>1, <2>2 DEF Levelless
<1>7. "L" \notin DOMAIN a /\ "L" \in DOMAIN b /\ b["L"] = <<s.c.level>>
  BY FirstNoLevel, SecondLevel
<1>8. both = Extended(a, b)
  BY DEF BothPasses
<1>9. ASSUME NEW c \in DOMAIN b, c # "L" PROVE Levelless(b[c])
  <2>1. b[c] = text \/ b[c] = s.id \/ b[c] = Base \/ b[c] \in Range(Ambient)
    BY <1>9, SecondOthers
  <2> HIDE DEF b, text
  <2> QED BY <1>4, <1>6, <2>1
<1>10. \A c \in DOMAIN a : Levelless(a[c])
  <2>1. \A c \in DOMAIN a : a[c] \in Range(a)
    BY DEF Range
  <2> QED BY <1>4, <2>1
<1> HIDE DEF a, b, both
<1>11. AreTexts(both)
  BY <1>2, <1>3, <1>8 DEF AreTexts, Extended
<1>12. SpecText("L", both) = <<s.c.level>>
  BY <1>7, <1>8 DEF SpecText, Extended
<1>13. \A c \in DOMAIN both : c # "L" => Levelless(both[c])
  BY <1>8, <1>9, <1>10 DEF Extended
<1> QED BY <1>11, <1>12, <1>13 DEF both

\* A line is a text before the level's pattern, this pattern, and a text behind.
LineCut(t, x, p, y) ==
  /\ IsSeq(x) /\ IsSeq(p) /\ IsSeq(y) /\ IsSeq(t) /\ Len(t) = Len(x) + Len(p) + Len(y) + 1
  /\ t[Len(t)] = Feed
  /\ \A j \in 1..Len(p) : t[Len(x) + j] = p[j]
  /\ \A i \in 1..Len(t) :
       \/ \E j \in 1..Len(p) : i = Len(x) + j
       \/ t[i] \in Range(x) \cup Range(y) \cup {Feed}

\* A text before, the pattern and a text behind, with a line feed, are such a line.
LEMMA CutIs ==
  ASSUME NEW x, NEW p, NEW y, IsSeq(x), IsSeq(p), IsSeq(y)
  PROVE  LineCut((x \o (p \o y)) \o <<Feed>>, x, p, y)
<1> DEFINE w == p \o y
           v == x \o w
           e == <<Feed>>
           t == v \o e
<1>1. Len(x) \in Nat /\ Len(p) \in Nat /\ Len(y) \in Nat /\ IsSeq(e) /\ Len(e) = 1 /\ e[1] = Feed
  BY SeqIs, OneIs
<1>2. /\ IsSeq(w) /\ Len(w) = Len(p) + Len(y)
      /\ \A i \in 1..Len(p) : w[i] = p[i]
      /\ \A i \in 1..Len(y) : w[Len(p) + i] = y[i]
  BY ConcatIs
<1> HIDE DEF w, e
<1>3. /\ IsSeq(v) /\ Len(v) = Len(x) + Len(w)
      /\ \A i \in 1..Len(x) : v[i] = x[i]
      /\ \A i \in 1..Len(w) : v[Len(x) + i] = w[i]
  BY <1>2, ConcatIs
<1> HIDE DEF v
<1>4. /\ IsSeq(t) /\ Len(t) = Len(v) + Len(e)
      /\ \A i \in 1..Len(v) : t[i] = v[i]
      /\ \A i \in 1..Len(e) : t[Len(v) + i] = e[i]
  <2>1. IsSeq(v) /\ IsSeq(e)
    BY <1>1, <1>3
  <2> QED BY <2>1, ConcatIs
<1> HIDE DEF t
<1>5. Len(t) = Len(x) + Len(p) + Len(y) + 1 /\ Len(t) = Len(v) + 1
  BY <1>1, <1>2, <1>3, <1>4
<1>6. t[Len(t)] = Feed
  <2>1. 1 \in 1..Len(e)
    BY <1>1
  <2> QED BY <1>1, <1>4, <1>5, <2>1
<1>7. ASSUME NEW j \in 1..Len(p) PROVE t[Len(x) + j] = p[j]
  <2>1. j \in 1..Len(w) /\ Len(x) + j \in 1..Len(v)
    BY <1>1, <1>2, <1>3
  <2> QED BY <1>2, <1>3, <1>4, <2>1
<1>8. ASSUME NEW i \in 1..Len(t), \A j \in 1..Len(p) : i # Len(x) + j
      PROVE  t[i] \in Range(x) \cup Range(y) \cup {Feed}
  <2>1. CASE i <= Len(x)
    <3>1. i \in 1..Len(x) /\ i \in 1..Len(v)
      BY <1>1, <1>2, <1>3, <2>1
    <3>2. t[i] = x[i] /\ x[i] \in Range(x)
      BY <1>3, <1>4, <3>1, RangeIs
    <3> QED BY <3>2
  <2>2. CASE i > Len(x) + Len(p) /\ i < Len(t)
    <3> DEFINE k == i - Len(x) - Len(p)
    <3>1. k \in 1..Len(y) /\ Len(p) + k \in 1..Len(w) /\ i \in 1..Len(v) /\ Len(x) + (Len(p) + k) = i
      BY <1>1, <1>2, <1>3, <1>5, <2>2
    <3> HIDE DEF k
    <3>2. t[i] = v[i] /\ v[i] = w[Len(p) + k] /\ w[Len(p) + k] = y[k]
      BY <1>2, <1>3, <1>4, <3>1
    <3>3. y[k] \in Range(y)
      BY <3>1, RangeIs
    <3> QED BY <3>2, <3>3
  <2>3. CASE i = Len(t)
    BY <1>6, <2>3
  <2>4. i <= Len(x) \/ (i > Len(x) + Len(p) /\ i < Len(t)) \/ i = Len(t)
    <3> SUFFICES ASSUME i > Len(x), i <= Len(x) + Len(p) PROVE FALSE
      BY <1>1, <1>5
    <3>1. i - Len(x) \in 1..Len(p) /\ i = Len(x) + (i - Len(x))
      BY <1>1, <1>5
    <3> QED BY <1>8, <3>1
  <2> QED BY <2>1, <2>2, <2>3, <2>4
<1>9. LineCut(t, x, p, y)
  BY <1>4, <1>5, <1>6, <1>7, <1>8 DEF LineCut
<1> QED BY <1>9 DEF t, v, w, e

\* Nothing of a line but its level, at the place of the %L, is the name of a level.
LEMMA LineIs ==
  ASSUME TextsInv, ~setting.tcp, NEW s, IsSaying(s), OneLevelIn(s),
         NEW at, NEW a, NEW b, LevelAt(setting.template, at, a, b)
  PROVE  \E x, p, y :
           /\ IsPattern(p, setting.template, at, a, b, s.c.level)
           /\ LineCut(LineText(setting, s), x, p, y) /\ Levelless(x) /\ Levelless(y)
<1> DEFINE T == setting.template
           both == BothPasses(s)
           level == s.c.level
           it == Items(T)
           first == RequestValues(VariablesOf(s))
           second == LineValues(level, s.id, MessageText(setting, s))
           F == Format(T, both)
           e == << >>
           f == <<Feed>>
<1>1. IsSeq(T)
  BY SettingIs DEF TextsInv
<1>2. /\ AreTexts(both) /\ SpecText("L", both) = <<level>>
      /\ \A c \in DOMAIN both : c # "L" => Levelless(both[c])
  BY BothPassesAre
<1>3. AreTexts(first) /\ AreTexts(second) /\ \A c \in DOMAIN first : "%" \notin Range(first[c])
  <2>1. AreTexts(first)
    BY RequestValuesAre DEF AreTexts, IsSaying
  <2>2. AreTexts(second)
    BY MessageTextIs, LineValuesAre DEF AreTexts, IsSaying
  <2>3. \A c \in DOMAIN first : first[c] \in Range(first)
    BY DEF Range
  <2>4. \A t \in Range(first) : "%" \notin Range(t)
    BY DEF OneLevelIn
  <2> HIDE DEF first
  <2> QED BY <2>1, <2>2, <2>3, <2>4
<1>4. Format(Format(T, first), second) = F
  <2>1. both = Extended(first, second)
    BY DEF BothPasses
  <2> HIDE DEF first, second, T, both
  <2> QED BY <1>1, <1>3, <2>1, TwoPasses
<1>5. LineText(setting, s) = (e \o F) \o f
  BY <1>4 DEF LineText
<1>6. IsSeq(F) /\ e \o F = F
  <2>1. IsSeq(F)
    BY <1>1, <1>2, FormatIsSeq DEF AreTexts
  <2> HIDE DEF F
  <2> QED BY <2>1, ConcatEmpty
<1> HIDE DEF e, f
<1>7. PICK x, p, y :
        /\ IsSeq(x) /\ IsSeq(y) /\ IsPattern(p, T, at, a, b, level) /\ F = x \o (p \o y)
        /\ \A d \in Range(x) \cup Range(y) :
             \E i \in 1..Len(it) : i # at /\ d \in Range(ItemText(it[i], both))
  <2>1. IsSeq(T) /\ LevelAt(T, at, a, b) /\ AreTexts(both) /\ SpecText("L", both) = <<level>>
    BY <1>1, <1>2
  <2> HIDE DEF both, level, T
  <2>2. IsCut(T, both, at, a, b, level)
    BY <2>1, FormatCut
  <2> QED BY <2>2 DEF IsCut
<1>8. LineCut(LineText(setting, s), x, p, y)
  <2>1. LineCut((x \o (p \o y)) \o f, x, p, y)
    BY <1>7, CutIs DEF IsPattern, f
  <2> HIDE DEF F
  <2> QED BY <1>5, <1>6, <1>7, <2>1
<1>9. ASSUME NEW i \in 1..Len(it), i # at, NEW d \in Range(ItemText(it[i], both)) PROVE d \notin Levels
  <2>1. PICK c \in Range(T) : it[i] = Specifier(c) \/ it[i] = Literal(c)
    BY <1>1, ItemsOf DEF AreItems, IsItem
  <2>2. c \notin Levels /\ "%" \notin Levels
    BY LevelsAssumption DEF OneLevelIn
  <2>3. \A j \in 1..Len(it) : it[j] = Specifier("L") => j = at
    BY DEF LevelAt
  <2> HIDE DEF both, it
  <2>4. CASE it[i] = Literal(c)
    <3>1. ItemText(it[i], both) = <<c>>
      BY <2>4 DEF ItemText, Literal
    <3>2. Range(<<c>>) = {c}
      <4> DEFINE o == <<c>>
      <4>1. IsSeq(o) /\ Len(o) = 1 /\ o[1] = c
        BY OneIs
      <4> HIDE DEF o
      <4>2. Range(o) = {o[k] : k \in 1..1}
        BY <4>1, RangeIs
      <4> QED BY <4>1, <4>2 DEF o
    <3> QED BY <1>9, <2>2, <3>1, <3>2
  <2>5. CASE it[i] = Specifier(c)
    <3>4. ItemText(Specifier(c), both) = SpecText(c, both)
      BY DEF ItemText, Specifier
    <3>5. c # "L"
      BY <1>9, <2>3, <2>5
    <3>1. ItemText(it[i], both) = SpecText(c, both) /\ c # "L"
      BY <2>5, <3>4, <3>5
    <3>2. CASE c \in DOMAIN both
      BY <1>2, <1>9, <3>1, <3>2 DEF SpecText, Levelless
    <3>3. CASE c \notin DOMAIN both
      <4> DEFINE o == <<"%", c>>
      <4>1. ItemText(it[i], both) = o
        BY <3>1, <3>3 DEF SpecText
      <4>2. IsSeq(o) /\ Len(o) = 2 /\ o[1] = "%" /\ o[2] = c
        BY PairIs
      <4> HIDE DEF o
      <4>3. PICK k \in 1..2 : d = o[k]
        BY <1>9, <4>1, <4>2, RangeIs
      <4>4. k = 1 \/ k = 2
        OBVIOUS
      <4> QED BY <2>2, <4>2, <4>3, <4>4
    <3> QED BY <3>2, <3>3
  <2> QED BY <2>1, <2>4, <2>5
<1>10. Levelless(x) /\ Levelless(y)
  <2> HIDE DEF it, both
  <2> QED BY <1>7, <1>9 DEF Levelless
<1> QED BY <1>7, <1>8, <1>10

\* A search for a level finds one row of each line of the level, and none of others.
LEMMA RowsFound ==
  ASSUME TextsInv, ~setting.tcp, NEW s, IsSaying(s), OneLevelIn(s),
         Feed \notin Range(setting.template),
         NEW at, NEW a, NEW b, LevelAt(setting.template, at, a, b),
         NEW l \in Levels, NEW p, IsPattern(p, setting.template, at, a, b, l)
  PROVE  LET rows == LinesOf(LineText(setting, s)) IN
         /\ l = s.c.level =>
              (\E k \in 1..Len(rows) : \A j \in 1..Len(rows) : Occurs(p, rows[j]) <=> j = k)
         /\ l # s.c.level => \A j \in 1..Len(rows) : ~Occurs(p, rows[j])
<1> DEFINE T == setting.template
           t == LineText(setting, s)
           level == s.c.level
           g == at - a
           N == Len(t)
<1>1. PICK x, q, y : /\ IsPattern(q, T, at, a, b, level)
                     /\ LineCut(t, x, q, y) /\ Levelless(x) /\ Levelless(y)
  BY LineIs
<1> DEFINE m == Len(x)
<1>2. /\ IsSeq(t) /\ N = m + Len(q) + Len(y) + 1 /\ t[N] = Feed
      /\ m \in Nat /\ Len(q) \in Nat /\ Len(y) \in Nat
      /\ \A j \in 1..Len(q) : t[m + j] = q[j]
      /\ \A i \in 1..N : (\E j \in 1..Len(q) : i = m + j) \/ t[i] \in Range(x) \cup Range(y) \cup {Feed}
  BY <1>1, SeqIs DEF LineCut
<1>3. /\ IsSeq(p) /\ IsSeq(q) /\ Len(p) = b - a /\ Len(q) = b - a /\ g \in 1..(b - a)
      /\ p[g] = l /\ q[g] = level
      /\ \A j \in 1..(b - a) : j # g =>
           p[j] = Items(T)[a + j].char /\ q[j] = Items(T)[a + j].char /\ p[j] \in Range(T)
  BY <1>1 DEF IsPattern
<1>4. Feed \notin Levels /\ \A e \in Range(T) : e \notin Levels /\ e # Feed
  BY LevelsAssumption DEF OneLevelIn
<1> HIDE DEF t, N, m, T, g, level
<1>5. N > 0
  BY <1>2
<1>6. ASSUME NEW i \in 1..N, t[i] \in Levels PROVE i = m + g /\ t[i] = level
  <2>1. PICK j \in 1..Len(q) : i = m + j
    BY <1>1, <1>2, <1>4, <1>6 DEF Levelless
  <2>2. t[i] = q[j] /\ j \in 1..(b - a)
    BY <1>2, <1>3, <2>1
  <2>3. j = g
    BY <1>3, <1>4, <1>6, <2>2
  <2> QED BY <1>3, <2>1, <2>2, <2>3
<1>7. CASE l = level
  <2>1. p = q
    <3>1. ASSUME NEW j \in 1..Len(p) PROVE p[j] = q[j]
      <4>1. j \in 1..(b - a)
        BY <1>3
      <4> QED BY <1>3, <1>7, <4>1
    <3> QED BY <1>3, <3>1, SeqsEqual
  <2>2. Feed \notin Range(p)
    <3>1. ASSUME NEW j \in 1..Len(p) PROVE p[j] # Feed
      <4>1. j \in 1..(b - a)
        BY <1>3
      <4> QED BY <1>3, <1>4, <4>1
    <3> QED BY <1>3, <3>1, RangeIs
  <2>3. m + Len(p) <= N /\ \A j \in 1..Len(p) : t[m + j] = p[j]
    BY <1>2, <2>1
  <2>4. g \in 1..Len(p) /\ \A i \in 1..N : t[i] = p[g] => i = m + g
    BY <1>3, <1>6
  <2>5. /\ IsSeq(t) /\ Len(t) > 0 /\ t[Len(t)] = Feed /\ IsSeq(p) /\ m \in Nat /\ m + Len(p) <= Len(t)
        /\ \A i \in 1..Len(t) : t[i] = p[g] => i = m + g
        /\ Feed \notin Range(p) /\ \A j \in 1..Len(p) : t[m + j] = p[j]
        /\ g \in 1..Len(p)
    BY <1>2, <1>3, <1>5, <2>2, <2>3, <2>4 DEF N
  <2>6. \E k \in 1..Len(LinesOf(t)) : \A j \in 1..Len(LinesOf(t)) : Occurs(p, LinesOf(t)[j]) <=> j = k
    <3>1. OnceIn(p, t, m, g)
      BY <2>5 DEF OnceIn
    <3> QED BY <3>1, OneRow
  <2> QED BY <1>7, <2>6 DEF t, level
<1>8. CASE l # level
  <2>1. \A i \in 1..Len(t) : t[i] # p[g]
    BY <1>3, <1>6, <1>8 DEF N
  <2>2. IsSeq(t) /\ Len(t) > 0 /\ t[Len(t)] = Feed /\ IsSeq(p) /\ g \in 1..Len(p)
    BY <1>2, <1>3, <1>5 DEF N
  <2>3. \A j \in 1..Len(LinesOf(t)) : ~Occurs(p, LinesOf(t)[j])
    BY <2>1, <2>2, NoRow
  <2> QED BY <1>8, <2>3 DEF t, level
<1> QED BY <1>7, <1>8

-----------------------------------------------------------------------------
(* The file of a level and what a search finds there *)

\* The rows of a line in a file, and their places there
LEMMA RowsThere ==
  ASSUME NEW s, IsSeq(s), NEW n
  PROVE  LET rows == RowsAt(s, n)
             S == LinePlaces(s, n)
         IN /\ Len(rows) \in Nat
            /\ \A k \in 1..Len(rows) : Nth(S, k) \in S /\ Rank(S, Nth(S, k)) = k
            /\ \A i \in S : /\ Rank(S, i) \in 1..Len(rows) /\ rows[Rank(S, i)] = s[i].text
                            /\ Nth(S, Rank(S, i)) = i
<1> DEFINE S == LinePlaces(s, n)
           rows == RowsAt(s, n)
           kept == Kept(s, S)
           c == Cardinality(S)
<1>1. S \in SUBSET (1..Len(s)) /\ Len(s) \in Nat
  BY SeqIs DEF LinePlaces
<1>2. rows = [i \in DOMAIN kept |-> kept[i].text]
  BY DEF RowsAt
<1> HIDE DEF S, rows
<1>3. S \in SUBSET Nat /\ IsFiniteSet(S) /\ c \in Nat
  BY <1>1, PlacesFinite
<1>4. /\ \A k \in 1..c : Nth(S, k) \in S /\ Rank(S, Nth(S, k)) = k
      /\ \A i \in S : Rank(S, i) \in 1..c /\ Nth(S, Rank(S, i)) = i
  BY <1>3, NthIs, RankIs
<1>5. IsSeq(kept) /\ Len(kept) = c /\ \A k \in 1..c : kept[k] = s[Nth(S, k)]
  BY <1>1, KeptIs
<1> HIDE DEF kept, c
<1>6. rows = [i \in 1..c |-> kept[i].text]
  BY <1>2, <1>5, SeqIs
<1>7. IsSeq(rows) /\ Len(rows) = c
  <2>1. rows = [i \in 1..c |-> rows[i]]
    BY <1>6
  <2> QED BY <1>3, <2>1, FunctionIs
<1>8. ASSUME NEW i \in S PROVE rows[Rank(S, i)] = s[i].text
  <2> DEFINE k == Rank(S, i)
  <2>1. k \in 1..c /\ Nth(S, k) = i
    BY <1>4
  <2> HIDE DEF k
  <2>2. rows[k] = kept[k].text /\ kept[k] = s[i]
    BY <1>5, <1>6, <2>1
  <2> QED BY <2>2 DEF k
<1> QED BY <1>3, <1>4, <1>7, <1>8 DEF S, rows, c

\* Of the rows one has the pattern.
RowFound(p, rows) == \E k \in 1..Len(rows) : \A j \in 1..Len(rows) : Occurs(p, rows[j]) <=> j = k

\* Of the places of a line in a file one has the pattern.
PlaceFound(p, s, n) ==
  \E i \in LinePlaces(s, n) : \A h \in LinePlaces(s, n) : Occurs(p, s[h].text) <=> h = i

\* If one row of a line has the pattern, one place of the line has.
LEMMA PlaceOf ==
  ASSUME NEW s, IsSeq(s), NEW n, NEW p, RowFound(p, RowsAt(s, n))
  PROVE  PlaceFound(p, s, n)
<1>0. PICK k \in 1..Len(RowsAt(s, n)) :
        \A j \in 1..Len(RowsAt(s, n)) : Occurs(p, RowsAt(s, n)[j]) <=> j = k
  BY DEF RowFound
<1> DEFINE S == LinePlaces(s, n)
           rows == RowsAt(s, n)
           i == Nth(S, k)
<1>1. /\ i \in S /\ Rank(S, i) = k
      /\ \A h \in S : /\ Rank(S, h) \in 1..Len(rows) /\ rows[Rank(S, h)] = s[h].text
                      /\ Nth(S, Rank(S, h)) = h
  BY RowsThere
<1> HIDE DEF i, S, rows
<1>2. ASSUME NEW h \in S PROVE Occurs(p, s[h].text) <=> h = i
  <2>1. Occurs(p, rows[Rank(S, h)]) <=> Rank(S, h) = k
    BY <1>0, <1>1 DEF rows
  <2>2. Rank(S, h) = k <=> h = i
    BY <1>1
  <2> QED BY <1>1, <2>1, <2>2
<1> QED BY <1>1, <1>2 DEF S, PlaceFound

\* The file with the lines of a level
FileOf(l) == IF setting.distingType THEN l ELSE Shared

\* A search for a level in the files of all reads that file.
LEMMA ContentOfLevel ==
  ASSUME FilesInv, setting \in Settings, ~setting.tcp, NEW l \in Levels
  PROVE  Content(l, "ASC") = out[FileOf(l)] /\ FileOf(l) \in Places /\ IsSeq(out[FileOf(l)])
<1> DEFINE f == FileOf(l)
           names == NamesOf("ASC")
           parts == Parts(l, "ASC")
<1>1. names = Alphabet
  BY DEF NamesOf
<1>2. f \in Places \ {Remote} /\ l # AnyLevel
  <2>1. l # Remote /\ l # AnyLevel
    BY LevelNamesAssumption
  <2>2. Shared # Remote
    BY DEF Shared, Remote
  <2> QED BY <2>1, <2>2 DEF FileOf, Places
<1>3. /\ IsSeq(names) /\ Len(names) \in Nat /\ Range(names) = Places \ {Remote}
      /\ \A i, j \in 1..Len(names) : names[i] = names[j] => i = j
  <2>1. IsSeq(Alphabet) /\ Range(Alphabet) = Places \ {Remote} /\ IsInjective(Alphabet)
    BY AlphabetAssumption, TextIsSeq
  <2>2. DOMAIN Alphabet = 1..Len(Alphabet) /\ Len(Alphabet) \in Nat
    BY <2>1, SeqIs
  <2> QED BY <1>1, <2>1, <2>2 DEF IsInjective
<1>4. PICK j \in 1..Len(names) : names[j] = f
  BY <1>2, <1>3, RangeIs
<1>5. /\ Content(l, "ASC") = FlattenSeq(parts) /\ AreSeqs(parts) /\ Len(parts) = Len(names)
      /\ \A i \in 1..Len(names) : parts[i] = Part(names[i], l, "ASC")
  BY PartsAre
<1>6. \A p \in Named(l) : p \in Places /\ out[p] # << >> /\ (setting.distingType => p = l)
  BY <1>1, <1>2, <1>3 DEF Named
<1>7. \A p \in Named(l) : p = f
  <2> SUFFICES ASSUME NEW p \in Named(l) PROVE p = f
    OBVIOUS
  <2>1. Holds(p)
    BY <1>6 DEF FilesInv
  <2>2. setting.distingType \in BOOLEAN
    BY SettingIs
  <2> QED BY <1>6, <2>1, <2>2 DEF Holds, FileOf
<1>8. f \notin Named(l) => out[f] = << >>
  <2>1. f \in Range(Alphabet)
    BY <1>1, <1>2, <1>3
  <2>2. setting.distingType => f = l
    BY DEF FileOf
  <2> HIDE DEF f
  <2> QED BY <2>1, <2>2 DEF Named
<1> HIDE DEF f, names, parts
<1>9. ASSUME NEW i \in 1..Len(parts), i # j PROVE parts[i] = << >>
  <2>1. names[i] # f
    BY <1>3, <1>4, <1>5, <1>9
  <2> QED BY <1>5, <1>7, <2>1 DEF Part
<1>10. parts[j] = out[f]
  BY <1>4, <1>5, <1>8 DEF Part
<1>11. Content(l, "ASC") = parts[j]
  BY <1>4, <1>5, <1>9, FlattenOne
<1>12. IsSeq(out[f])
  BY <1>2 DEF FilesInv
<1> QED BY <1>2, <1>10, <1>11, <1>12 DEF f

\* The places of a file with a pattern
Matches(pattern, s) == {i \in 1..Len(s) : Occurs(pattern, s[i].text)}

\* A search for a level finds the places of its file that have its pattern.
LEMMA FoundOfLevel ==
  ASSUME FilesInv, setting \in Settings, ~setting.tcp, NEW l \in Levels
  PROVE  LET s == out[FileOf(l)]
             M == Matches(LevelPattern(levelTemplate, l), s)
             q == [level |-> l, word |-> AnyWord, order |-> "ASC"]
         IN /\ LinesFound(Found(q)) = {s[i].line : i \in M}
            /\ TypeCount(l, AnyWord) = Cardinality(M)
            /\ IsFiniteSet(M)
<1> DEFINE s == out[FileOf(l)]
           p == LevelPattern(levelTemplate, l)
           M == Matches(p, s)
           q == [level |-> l, word |-> AnyWord, order |-> "ASC"]
           found == Found(q)
<1>1. Content(l, "ASC") = s /\ IsSeq(s)
  BY ContentOfLevel
<1>2. l # AnyLevel
  BY LevelNamesAssumption
<1>3. found = Grep(p, s)
  <2>1. q.level = l /\ q.word = AnyWord /\ q.order = "ASC"
    OBVIOUS
  <2> HIDE DEF q, p, s
  <2> QED BY <1>1, <1>2, <2>1 DEF Found, p
<1>4. found = Kept(s, M)
  BY <1>3 DEF Grep, Matches
<1> HIDE DEF s, p, found
<1>5. M \in SUBSET (1..Len(s)) /\ Len(s) \in Nat
  BY <1>1, SeqIs DEF Matches
<1> HIDE DEF M
<1>6. IsSeq(found) /\ Len(found) = Cardinality(M) /\ Range(found) = {s[i] : i \in M}
  BY <1>1, <1>4, <1>5, KeptIs
<1>7. IsFiniteSet(M)
  BY <1>5, PlacesFinite
<1>8. LinesFound(found) = {s[i].line : i \in M}
  <2>1. DOMAIN found = 1..Len(found) /\ Range(found) = {found[i] : i \in 1..Len(found)}
    BY <1>6, SeqIs, RangeIs
  <2>2. LinesFound(found) = {x.line : x \in Range(found)}
    BY <2>1 DEF LinesFound
  <2>3. {x.line : x \in Range(found)} = {s[i].line : i \in M}
    BY <1>6
  <2> QED BY <2>2, <2>3
<1>9. TypeCount(l, AnyWord) = Len(found)
  BY DEF TypeCount, found
<1> QED BY <1>6, <1>7, <1>8, <1>9 DEF s, p, M, found

\* The rows of a file that a search for a level finds: one of each line of the
\* level, and none of another.
LEMMA LineFound ==
  ASSUME LineWritten, ~setting.tcp, NEW n \in 1..Len(said), OneLevelIn(said[n]),
         Feed \notin Range(setting.template),
         NEW at, NEW a, NEW b, LevelAt(setting.template, at, a, b),
         NEW l \in Levels, NEW p, IsPattern(p, setting.template, at, a, b, l)
  PROVE  LET s == out[FileOf(l)] IN
         /\ said[n].c.level = l => PlaceFound(p, s, n)
         /\ said[n].c.level # l => \A h \in LinePlaces(s, n) : ~Occurs(p, s[h].text)
<1> DEFINE f == FileOf(l)
           s == out[f]
           S == LinePlaces(s, n)
           x == said[n]
           t == LineText(setting, x)
           rows == RowsAt(s, n)
<1>1. TextsInv /\ FilesInv /\ setting \in Settings
  BY DEF LineWritten, LineInv, TextsInv
<1>2. IsSaying(x)
  BY DEF LineWritten, LineInv, SayingsInv, SaidInv, IsSaying
<1>3. IsSeq(s) /\ f \in Places
  BY <1>1, ContentOfLevel
<1>4. rows = IF f = Home(setting, x) THEN LinesOf(t) ELSE << >>
  BY <1>3 DEF LineWritten, RowsInv
<1>5. /\ l = x.c.level =>
           (\E k \in 1..Len(LinesOf(t)) : \A j \in 1..Len(LinesOf(t)) : Occurs(p, LinesOf(t)[j]) <=> j = k)
      /\ l # x.c.level => \A j \in 1..Len(LinesOf(t)) : ~Occurs(p, LinesOf(t)[j])
  <2>1. OneLevelIn(x)
    OBVIOUS
  <2> HIDE DEF x
  <2> QED BY <1>1, <1>2, <2>1, RowsFound
<1>6. l = x.c.level => f = Home(setting, x)
  BY <1>1, SettingIs DEF Home, FileOf
<1>7. \A i \in S : Rank(S, i) \in 1..Len(rows) /\ rows[Rank(S, i)] = s[i].text
  BY <1>3, RowsThere
<1>8. Len(<< >>) = 0 /\ 1..0 = {}
  BY EmptyIsSeq
<1> HIDE DEF f, x, t, s, rows
<1>9. CASE l = x.c.level
  <2>1. rows = LinesOf(t)
    BY <1>4, <1>6, <1>9
  <2>2. PICK k \in 1..Len(rows) : \A j \in 1..Len(rows) : Occurs(p, rows[j]) <=> j = k
    BY <1>5, <1>9, <2>1
  <2>3. PlaceFound(p, s, n)
    <3>1. IsSeq(s) /\ RowFound(p, RowsAt(s, n))
      BY <1>3, <2>2 DEF rows, RowFound
    <3> QED BY <3>1, PlaceOf
  <2> QED BY <1>9, <2>3 DEF s, f, x
<1>10. CASE l # x.c.level
  <2>1. \A j \in 1..Len(rows) : ~Occurs(p, rows[j])
    <3>1. CASE rows = LinesOf(t)
      BY <1>5, <1>10, <3>1
    <3>2. CASE rows = << >>
      BY <1>8, <3>2
    <3> QED BY <1>4, <3>1, <3>2
  <2>2. \A h \in S : ~Occurs(p, s[h].text)
    <3> SUFFICES ASSUME NEW h \in S PROVE ~Occurs(p, s[h].text)
      OBVIOUS
    <3>1. Rank(S, h) \in 1..Len(rows) /\ rows[Rank(S, h)] = s[h].text
      BY <1>7
    <3> HIDE DEF S
    <3>2. ~Occurs(p, rows[Rank(S, h)])
      BY <2>1, <3>1
    <3> QED BY <3>1, <3>2
  <2> QED BY <1>10, <2>2 DEF s, f, x
<1> QED BY <1>9, <1>10

\* A set of places with one for each of a set of lines is as large as this.
LEMMA OnePlaceEach ==
  ASSUME NEW s, NEW M, IsFiniteSet(M), NEW N,
         \A i \in M : s[i].line \in N, \A n \in N : \E i \in M : s[i].line = n,
         \A i, j \in M : s[i].line = s[j].line => i = j
  PROVE  Cardinality(M) = Cardinality(N)
<1> DEFINE f == [i \in M |-> s[i].line]
<1>1. f \in Injection(M, N) /\ f \in Surjection(M, N)
  BY DEF Injection, Surjection, IsInjective
<1>2. ExistsBijection(M, N)
  BY <1>1 DEF ExistsBijection, Bijection
<1> QED BY <1>2, FS_Bijection

\* If of each line of a set one place of a file has the pattern, and of the
\* other lines none, the places that have it are as many as these lines.
LEMMA LinesMatched ==
  ASSUME NEW s, IsSeq(s), NEW p, IsFiniteSet(Matches(p, s)), NEW N,
         \A n \in N : PlaceFound(p, s, n),
         \A i \in Matches(p, s) : s[i].line \in N
  PROVE  /\ {s[i].line : i \in Matches(p, s)} = N
         /\ Cardinality(Matches(p, s)) = Cardinality(N)
<1> DEFINE M == Matches(p, s)
<1>1. ASSUME NEW n \in N
      PROVE  \E i \in M : /\ s[i].line = n
                          /\ \A h \in M : s[h].line = n => h = i
  <2>1. PICK i \in LinePlaces(s, n) : \A h \in LinePlaces(s, n) : Occurs(p, s[h].text) <=> h = i
    BY DEF PlaceFound
  <2>2. i \in M /\ s[i].line = n
    BY <2>1 DEF Matches, LinePlaces
  <2>3. \A h \in M : s[h].line = n => h \in LinePlaces(s, n) /\ Occurs(p, s[h].text)
    BY DEF Matches, LinePlaces
  <2>4. \A h \in M : s[h].line = n => h = i
    BY <2>1, <2>3
  <2> QED BY <2>2, <2>4
<1>2. \A i \in M : s[i].line \in N
  OBVIOUS
<1>3. IsFiniteSet(M)
  OBVIOUS
<1> HIDE DEF M
<1>4. /\ \A n \in N : \E i \in M : s[i].line = n
      /\ \A i, j \in M : s[i].line = s[j].line => i = j
  BY <1>1, <1>2
<1>5. Cardinality(M) = Cardinality(N)
  BY <1>2, <1>3, <1>4, OnePlaceEach
<1>6. {s[i].line : i \in M} = N
  BY <1>2, <1>4
<1> QED BY <1>5, <1>6 DEF M

\* A search for a level finds its lines, each once.
LEMMA LevelFoundNow ==
  ASSUME LineWritten
  PROVE  LevelFound
<1> SUFFICES ASSUME ~setting.tcp, OneLevel, NEW l \in Levels
             PROVE  LET ofLevel == {n \in DOMAIN said : said[n].c.level = l}
                    IN /\ LinesFound(Found([level |-> l, word |-> AnyWord, order |-> "ASC"])) = ofLevel
                       /\ TypeCount(l, AnyWord) = Cardinality(ofLevel)
  BY DEF LevelFound
<1> DEFINE fmt == setting.template
           s == out[FileOf(l)]
           p == LevelPattern(levelTemplate, l)
           M == Matches(p, s)
           N == {n \in DOMAIN said : said[n].c.level = l}
<1>1. TextsInv /\ FilesInv /\ SayingsInv /\ setting \in Settings
  BY DEF LineWritten, LineInv, TextsInv
<1>2. IsSeq(fmt) /\ IsSeq(said) /\ IsSeq(s) /\ FileOf(l) \in Places
  <2>1. IsSeq(fmt) /\ IsSeq(s) /\ FileOf(l) \in Places
    BY <1>1, SettingIs, ContentOfLevel
  <2>2. IsSeq(said)
    BY DEF LineWritten, LineInv, ArrayInv, CallTyped
  <2> QED BY <2>1, <2>2
<1>3. PICK at \in DOMAIN Items(fmt) :
        {i \in DOMAIN Items(fmt) : Items(fmt)[i] = Specifier("L")} = {at}
  BY DEF OneLevel
<1>4. PICK a, b : LevelAt(fmt, at, a, b) /\ LevelTemplate(fmt) = Template(Items(fmt), at, a, b)
  BY <1>2, <1>3, LevelAtThere
<1>5. IsPattern(p, fmt, at, a, b, l)
  <2>1. IsPattern(LevelPattern(Template(Items(fmt), at, a, b), l), fmt, at, a, b, l)
    <3> HIDE DEF fmt
    <3> QED BY <1>2, <1>4, PatternIs
  <2>2. levelTemplate = Template(Items(fmt), at, a, b)
    BY <1>1, <1>4 DEF TextsInv
  <2> QED BY <2>1, <2>2
<1>6. DOMAIN said = 1..Len(said) /\ Feed \notin Range(fmt)
  BY <1>2, SeqIs DEF OneLevel
<1>7. \A n \in 1..Len(said) : OneLevelIn(said[n])
  <2>1. \A x \in Range(said) : OneLevelIn(x)
    BY DEF OneLevel
  <2> QED BY <1>2, <2>1, RangeIs
<1>8. /\ LinesFound(Found([level |-> l, word |-> AnyWord, order |-> "ASC"])) = {s[i].line : i \in M}
      /\ TypeCount(l, AnyWord) = Cardinality(M)
      /\ IsFiniteSet(M)
  BY <1>1, FoundOfLevel
<1> HIDE DEF p
<1>9. ASSUME NEW n \in 1..Len(said)
      PROVE  /\ said[n].c.level = l => PlaceFound(p, s, n)
             /\ said[n].c.level # l => \A h \in LinePlaces(s, n) : ~Occurs(p, s[h].text)
  BY <1>4, <1>5, <1>6, <1>7, LineFound
<1>10. \A i \in 1..Len(s) : s[i].line \in 1..Len(said)
  BY <1>1, <1>2 DEF FilesInv
<1> HIDE DEF s
<1>11. \A n \in N : PlaceFound(p, s, n)
  BY <1>6, <1>9
<1>12. \A i \in M : s[i].line \in N
  <2> SUFFICES ASSUME NEW i \in M PROVE s[i].line \in N
    OBVIOUS
  <2>1. i \in 1..Len(s) /\ Occurs(p, s[i].text)
    BY DEF Matches
  <2>2. s[i].line \in 1..Len(said) /\ i \in LinePlaces(s, s[i].line)
    BY <1>10, <2>1 DEF LinePlaces
  <2>3. said[s[i].line].c.level = l
    BY <1>9, <2>1, <2>2
  <2> QED BY <1>6, <2>2, <2>3
<1>13. {s[i].line : i \in M} = N /\ Cardinality(M) = Cardinality(N)
  <2>1. /\ IsSeq(s) /\ IsFiniteSet(Matches(p, s)) /\ \A n \in N : PlaceFound(p, s, n)
        /\ \A i \in Matches(p, s) : s[i].line \in N
    BY <1>2, <1>8, <1>11, <1>12 DEF s
  <2> HIDE DEF N
  <2> QED BY <2>1, LinesMatched
<1> QED BY <1>8, <1>13 DEF s

\* For all templates with one %L, servers, settings, calls and orders of them:
\* a search for a level, which greps for the literal text around %L with the
\* level in it, finds the lines of that level and no others, and counts each of
\* them once, however many rows it has, if nothing else in a line has the name
\* of a level (get_type_count and get_detail, seaslog_template_formatter).
THEOREM LevelsFound == SearchSpec => []LevelFound
<1>1. LineWritten => LevelFound
  BY LevelFoundNow
<1> QED BY <1>1, WrittenHolds, SearchWritesNothing, PTL
================================================================================
