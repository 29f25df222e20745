--------------------------- MODULE AnalyzerForkProofs ---------------------------
(***************************************************************************)
(* Proofs about AnalyzerFork, for every number of analyses and processes:  *)
(* how getBatchArray divides, and what becomes of each analysis.           *)
(***************************************************************************)
EXTENDS AnalyzerFork, Integers, SequenceTheorems, TLAPS

-----------------------------------------------------------------------------
(* Division *)

LEMMA Quotient ==
  ASSUME NEW a \in Nat, NEW b \in Nat \ {0}
  PROVE  /\ a \div b \in Nat /\ a % b \in 0..(b - 1)
         /\ a = (a \div b) * b + (a % b)
OBVIOUS

\* What is known of q, when it is between two multiples.
LEMMA QuotientIs ==
  ASSUME NEW a \in Nat, NEW b \in Nat \ {0}, NEW q \in Nat,
         q * b <= a, a < (q + 1) * b
  PROVE  a \div b = q
OBVIOUS

LEMMA Multiples ==
  ASSUME NEW b \in Nat, NEW p \in Nat, NEW q \in Nat, p <= q
  PROVE  p * b <= q * b /\ (p + 1) * b = p * b + b /\ p * b \in Nat
OBVIOUS

-----------------------------------------------------------------------------
(* Batches *)

\* b deals out the numbers 1..m: each is in one place of one batch.
Deals(b, m) ==
  /\ b \in Seq(Seq(1..m))
  /\ \A i, j \in 1..Len(b) : \A p \in 1..Len(b[i]), q \in 1..Len(b[j]) :
       b[i][p] = b[j][q] => i = j /\ p = q
  /\ \A a \in 1..m : \E i \in 1..Len(b) : \E p \in 1..Len(b[i]) : b[i][p] = a

Upto(m) == [a \in 1..m |-> a]

\* The i-th chunk begins behind the i - 1 whole chunks before it.
Chunked(C, m, size) ==
  /\ Len(C) = (m + size - 1) \div size /\ Len(C) \in Nat
  /\ C \in Seq(Seq(1..m))
  /\ \A i \in 1..Len(C) :
       /\ (i - 1) * size \in Nat /\ (i - 1) * size < m /\ i * size = (i - 1) * size + size
       /\ Len(C[i]) = IF i * size < m THEN size ELSE m - (i - 1) * size
       /\ \A p \in 1..Len(C[i]) : C[i][p] = (i - 1) * size + p

LEMMA ChunkIs ==
  ASSUME NEW m \in Nat, NEW size \in Nat \ {0}
  PROVE  Chunked(Chunks(Upto(m), size), m, size)
<1> DEFINE C == Chunks(Upto(m), size)
           L == (m + size - 1) \div size
           From(i) == (i - 1) * size
           To(i) == IF i * size < m THEN i * size ELSE m
<1>1. Upto(m) \in Seq(1..m) /\ Len(Upto(m)) = m /\ \A a \in 1..m : Upto(m)[a] = a
  BY DEF Upto
<1>2. C = [i \in 1..L |-> SubSeq(Upto(m), From(i) + 1, To(i))]
  BY <1>1 DEF Chunks
<1>3. L \in Nat /\ L * size <= m + size - 1
  <2>1. m + size - 1 \in Nat
    OBVIOUS
  <2>2. L \in Nat /\ (m + size - 1) = L * size + ((m + size - 1) % size)
        /\ (m + size - 1) % size \in 0..(size - 1)
    BY <2>1, Quotient
  <2>3. L * size \in Nat
    BY <2>2
  <2> QED BY <2>2, <2>3
<1>4. ASSUME NEW i \in 1..L
      PROVE  /\ From(i) \in Nat /\ From(i) < m /\ i * size = From(i) + size
             /\ From(i) + 1 \in 1..m /\ To(i) \in (From(i) + 1)..m
  <2>1. i - 1 \in Nat /\ i \in Nat /\ i <= L /\ L \in Nat /\ (i - 1) + 1 = i
    BY <1>3
  <2>2. i * size <= L * size /\ i * size \in Nat /\ L * size \in Nat
    BY <2>1, Multiples
  <2>3. i * size = From(i) + size /\ From(i) \in Nat
    BY <2>1, Multiples
  <2>4. i * size <= m + size - 1
    BY <1>3, <2>2
  <2> QED BY <2>2, <2>3, <2>4
<1>5. ASSUME NEW i \in 1..L
      PROVE  /\ C[i] \in Seq(1..m) /\ Len(C[i]) = To(i) - From(i)
             /\ \A p \in 1..Len(C[i]) : C[i][p] = From(i) + p
  <2>1. C[i] = SubSeq(Upto(m), From(i) + 1, To(i))
    BY <1>2
  <2>2. /\ From(i) \in Nat /\ From(i) + 1 \in 1..m /\ To(i) \in (From(i) + 1)..m
    BY <1>4
  <2> HIDE DEF From, To
  <2>3. \A a \in (From(i) + 1)..To(i) : Upto(m)[a] \in 1..m /\ Upto(m)[a] = a
    BY <1>1, <2>2
  <2>4. /\ C[i] \in Seq(1..m)
        /\ Len(C[i]) = To(i) - (From(i) + 1) + 1
        /\ \A p \in 1..(To(i) - (From(i) + 1) + 1) : C[i][p] = Upto(m)[From(i) + 1 + p - 1]
    BY <2>1, <2>2, <2>3, SubSeqProperties
  <2>5. ASSUME NEW p \in 1..Len(C[i]) PROVE C[i][p] = From(i) + p
    <3>1. /\ p \in 1..(To(i) - (From(i) + 1) + 1) /\ From(i) + 1 + p - 1 = From(i) + p
          /\ From(i) + p \in (From(i) + 1)..To(i)
      BY <2>2, <2>4, SMTT(30)
    <3> QED BY <2>3, <2>4, <3>1
  <2> QED BY <2>2, <2>4, <2>5
<1>6. C \in Seq(Seq(1..m)) /\ Len(C) = L
  <2>1. C \in [1..L -> Seq(1..m)]
    BY <1>2, <1>5
  <2> QED BY <1>3, <2>1
<1> HIDE DEF L, C
<1>7. ASSUME NEW i \in 1..L
      PROVE  Len(C[i]) = IF i * size < m THEN size ELSE m - From(i)
  <2>1. /\ Len(C[i]) = To(i) - From(i) /\ From(i) \in Nat /\ i * size = From(i) + size
    BY <1>4, <1>5
  <2> HIDE DEF From
  <2> QED BY <2>1
<1>8. Chunked(C, m, size)
  BY <1>3, <1>4, <1>5, <1>6, <1>7 DEF L, Chunked
<1> QED BY <1>8 DEF C

LEMMA ChunksDeal ==
  ASSUME NEW m \in Nat, NEW size \in Nat \ {0}
  PROVE  Deals(Chunks(Upto(m), size), m)
<1> SUFFICES ASSUME NEW C, C = Chunks(Upto(m), size) PROVE Deals(C, m)
  OBVIOUS
<1>0. Chunked(C, m, size)
  BY ChunkIs
<1>1. /\ Len(C) = (m + size - 1) \div size /\ Len(C) \in Nat
      /\ C \in Seq(Seq(1..m))
      /\ \A i \in 1..Len(C) :
           /\ (i - 1) * size \in Nat /\ (i - 1) * size < m /\ i * size = (i - 1) * size + size
           /\ Len(C[i]) = IF i * size < m THEN size ELSE m - (i - 1) * size
           /\ \A p \in 1..Len(C[i]) : C[i][p] = (i - 1) * size + p
  BY <1>0 DEF Chunked
<1>2. ASSUME NEW i \in 1..Len(C), NEW p \in 1..Len(C[i])
      PROVE  /\ C[i][p] \in Nat /\ (i - 1) * size <= C[i][p] - 1
             /\ C[i][p] - 1 < ((i - 1) + 1) * size
             /\ C[i][p] - 1 \in Nat /\ i - 1 \in Nat /\ p = C[i][p] - (i - 1) * size
  <2> DEFINE x == (i - 1) * size
             y == i * size
  <2>1. Len(C[i]) <= size /\ Len(C[i]) \in Int
    <3>1. x \in Nat /\ x < m /\ y = x + size /\ Len(C[i]) = IF y < m THEN size ELSE m - x
      BY <1>1
    <3> HIDE DEF x, y
    <3> QED BY <3>1
  <2>2. i - 1 \in Nat /\ (i - 1) + 1 = i
    BY <1>1
  <2>3. p <= size /\ p >= 1 /\ p \in Int
    BY <2>1
  <2> QED BY <1>1, <2>2, <2>3, SMTT(30)
<1>3. ASSUME NEW i \in 1..Len(C), NEW j \in 1..Len(C),
             NEW p \in 1..Len(C[i]), NEW q \in 1..Len(C[j]), C[i][p] = C[j][q]
      PROVE  i = j /\ p = q
  <2> DEFINE x == C[i][p] - 1
             y == i - 1
             z == j - 1
  <2>1. y = x \div size
    <3>1. y \in Nat /\ x \in Nat /\ y * size <= x /\ x < (y + 1) * size
      BY <1>2
    <3> HIDE DEF x, y
    <3> QED BY <3>1, QuotientIs
  <2>2. z = x \div size
    <3>1. z \in Nat /\ x \in Nat /\ z * size <= x /\ x < (z + 1) * size
      BY <1>2, <1>3
    <3> HIDE DEF x, z
    <3> QED BY <3>1, QuotientIs
  <2>3. i = j
    BY <1>3, <2>1, <2>2
  <2> QED BY <1>2, <1>3, <2>3
<1>4. ASSUME NEW a \in 1..m
      PROVE  \E i \in 1..Len(C) : \E p \in 1..Len(C[i]) : C[i][p] = a
  <2> DEFINE i == (a - 1) \div size + 1
             p == ((a - 1) % size) + 1
  <2>1. /\ a - 1 \in Nat /\ i - 1 \in Nat /\ p \in 1..size /\ i \in Nat
        /\ a = (i - 1) * size + p
    <3>1. a - 1 \in Nat
      OBVIOUS
    <3>2. /\ (a - 1) \div size \in Nat /\ (a - 1) % size \in 0..(size - 1)
          /\ a - 1 = ((a - 1) \div size) * size + ((a - 1) % size)
      BY <3>1, Quotient
    <3>3. ((a - 1) \div size) * size \in Nat
      BY <3>2
    <3> QED BY <3>1, <3>2, <3>3
  <2> HIDE DEF i, p
  <2>2. i \in Nat /\ i >= 1 /\ (i - 1) * size \in Nat /\ i * size = (i - 1) * size + size
    <3>1. i \in Nat /\ i >= 1 /\ (i - 1) + 1 = i
      BY <2>1
    <3> QED BY <2>1, <3>1, Multiples
  <2>3. i \in 1..Len(C)
    <3>1. Len(C) * size > m - 1
      <4> DEFINE x == m + size - 1
      <4>1. x \in Nat /\ Len(C) = x \div size
        BY <1>1
      <4> HIDE DEF x
      <4>2. x = Len(C) * size + (x % size) /\ x % size \in 0..(size - 1)
        BY <4>1, Quotient
      <4> USE DEF x
      <4>3. Len(C) * size \in Nat
        BY <1>1
      <4> QED BY <4>2, <4>3
    <3>2. CASE i > Len(C)
      <4>1. Len(C) * size <= (i - 1) * size /\ Len(C) * size \in Nat
        <5>1. Len(C) \in Nat /\ i - 1 \in Nat /\ Len(C) <= i - 1
          BY <1>1, <2>1, <3>2
        <5> QED BY <5>1, Multiples
      <4> QED BY <2>1, <2>2, <3>1, <4>1
    <3> QED BY <1>1, <2>2, <3>2
  <2>4. p \in 1..Len(C[i])
    <3> DEFINE x == (i - 1) * size
               y == i * size
    <3>1. x \in Nat /\ x < m /\ y = x + size /\ Len(C[i]) = IF y < m THEN size ELSE m - x
      BY <1>1, <2>3
    <3>2. a = x + p /\ p \in 1..size /\ a \in 1..m
      BY <2>1
    <3> HIDE DEF x, y
    <3> QED BY <3>1, <3>2
  <2> QED BY <1>1, <2>1, <2>3, <2>4
<1>5. \A i, j \in 1..Len(C) : \A p \in 1..Len(C[i]), q \in 1..Len(C[j]) :
        C[i][p] = C[j][q] => i = j /\ p = q
  BY <1>3
<1>6. \A a \in 1..m : \E i \in 1..Len(C) : \E p \in 1..Len(C[i]) : C[i][p] = a
  BY <1>4
<1> QED BY <1>1, <1>5, <1>6 DEF Deals

LEMMA Stretch ==
  ASSUME NEW m \in Nat, NEW n \in Nat, m <= n
  PROVE  /\ SubSeq(Upto(n), 1, m) = Upto(m)
         /\ SubSeq(Upto(n), m + 1, n) \in Seq(1..n)
         /\ Len(SubSeq(Upto(n), m + 1, n)) = n - m
         /\ \A p \in 1..(n - m) : SubSeq(Upto(n), m + 1, n)[p] = m + p
<1>1. Upto(n) \in Seq(1..n) /\ \A a \in 1..n : Upto(n)[a] = a
  BY DEF Upto
<1>2. SubSeq(Upto(n), 1, m) = Upto(m)
  <2>1. \A a \in 1..m : Upto(n)[a] \in 1..m
    BY <1>1
  <2>2. /\ SubSeq(Upto(n), 1, m) \in Seq(1..m)
        /\ Len(SubSeq(Upto(n), 1, m)) = IF 1 <= m THEN m - 1 + 1 ELSE 0
        /\ \A a \in 1..(m - 1 + 1) : SubSeq(Upto(n), 1, m)[a] = Upto(n)[1 + a - 1]
    BY <2>1, SubSeqProperties
  <2> DEFINE s == SubSeq(Upto(n), 1, m)
  <2>3. s \in Seq(1..m) /\ Len(s) = m /\ \A a \in 1..m : s[a] = a
    BY <1>1, <2>2
  <2> HIDE DEF s
  <2>4. Upto(m) \in Seq(1..m) /\ Len(Upto(m)) = m /\ \A a \in 1..m : Upto(m)[a] = a
    BY DEF Upto
  <2>5. s = Upto(m)
    BY <2>3, <2>4, SeqEqual
  <2> QED BY <2>5 DEF s
<1>3. \A a \in (m + 1)..n : Upto(n)[a] \in 1..n
  BY <1>1
<1>4. /\ SubSeq(Upto(n), m + 1, n) \in Seq(1..n)
      /\ Len(SubSeq(Upto(n), m + 1, n)) = IF m + 1 <= n THEN n - (m + 1) + 1 ELSE 0
      /\ \A p \in 1..(n - (m + 1) + 1) :
           SubSeq(Upto(n), m + 1, n)[p] = Upto(n)[m + 1 + p - 1]
  BY <1>3, SubSeqProperties
<1>5. Len(SubSeq(Upto(n), m + 1, n)) = n - m
  BY <1>4
<1>6. ASSUME NEW p \in 1..(n - m) PROVE SubSeq(Upto(n), m + 1, n)[p] = m + p
  BY <1>1, <1>4
<1> QED BY <1>2, <1>4, <1>5, <1>6

\* The rest of the division goes to the last batch.
WithRest(b, k, m, n) == [b EXCEPT ![k] = @ \o SubSeq(Upto(n), m + 1, n)]

LEMMA RestDealt ==
  ASSUME NEW m \in Nat, NEW n \in Nat, m <= n, NEW b, Deals(b, m), NEW k \in Nat \ {0},
         Len(b) = k, NEW B, B = WithRest(b, k, m, n)
  PROVE  Deals(B, n) /\ Len(B) = k
<1> DEFINE t == SubSeq(Upto(n), m + 1, n)
<1>1. /\ t \in Seq(1..n) /\ Len(t) = n - m /\ \A p \in 1..(n - m) : t[p] = m + p
  BY Stretch
<1>2. B = [b EXCEPT ![k] = b[k] \o t]
  BY DEF WithRest
<1> HIDE DEF t
<1>Dealt. /\ b \in Seq(Seq(1..m))
          /\ \A i, j \in 1..k : \A p \in 1..Len(b[i]), q \in 1..Len(b[j]) :
               b[i][p] = b[j][q] => i = j /\ p = q
          /\ \A a \in 1..m : \E i \in 1..k : \E p \in 1..Len(b[i]) : b[i][p] = a
  BY Zenon DEF Deals
<1>Typed. b \in [1..k -> Seq(1..m)] /\ k \in 1..k
  BY <1>Dealt
<1>3. ASSUME NEW i \in 1..k
      PROVE  /\ b[i] \in Seq(1..m) /\ Len(b[i]) \in Nat
             /\ \A p \in 1..Len(b[i]) : b[i][p] \in 1..m
  BY <1>Typed
<1>4. /\ B[k] = b[k] \o t /\ B[k] \in Seq(1..n)
      /\ Len(B[k]) = Len(b[k]) + (n - m) /\ Len(B[k]) \in Nat
      /\ \A p \in 1..Len(b[k]) : B[k][p] = b[k][p]
      /\ \A p \in (Len(b[k]) + 1)..Len(B[k]) : B[k][p] = m + (p - Len(b[k]))
  <2>1. b[k] \in Seq(1..n) /\ Len(b[k]) \in Nat
    <3>1. b[k] \in Seq(1..m) /\ 1..m \subseteq 1..n
      BY <1>3
    <3> QED BY <3>1
  <2>2. B[k] = b[k] \o t
    BY <1>2, <1>Typed, Zenon
  <2> DEFINE c == b[k]
             d == b[k] \o t
  <2>3. /\ d \in Seq(1..n) /\ Len(d) = Len(c) + Len(t)
        /\ \A p \in 1..(Len(c) + Len(t)) :
             d[p] = IF p <= Len(c) THEN c[p] ELSE t[p - Len(c)]
    BY <1>1, <2>1, ConcatProperties, ZenonT(40)
  <2>4. /\ B[k] = d /\ Len(c) \in Nat /\ b[k] = c
    BY <2>1, <2>2
  <2> HIDE DEF c, d
  <2>5. /\ d \in Seq(1..n) /\ Len(d) = Len(c) + (n - m) /\ Len(d) \in Nat
    BY <1>1, <2>3, <2>4
  <2>7. ASSUME NEW p \in 1..Len(c) PROVE d[p] = c[p]
    <3>1. p \in 1..(Len(c) + Len(t)) /\ p <= Len(c)
      BY <1>1, <2>4
    <3> QED BY <2>3, <3>1
  <2>6. ASSUME NEW p \in (Len(c) + 1)..Len(d) PROVE d[p] = m + (p - Len(c))
    <3>1. /\ p \in 1..(Len(c) + Len(t)) /\ ~(p <= Len(c)) /\ p - Len(c) \in 1..(n - m)
      BY <1>1, <2>3, <2>4
    <3>2. d[p] = t[p - Len(c)]
      BY <2>3, <3>1
    <3> QED BY <1>1, <3>1, <3>2
  <2> QED BY <2>2, <2>4, <2>5, <2>6, <2>7
<1>5. /\ B \in Seq(Seq(1..n)) /\ Len(B) = k
      /\ \A i \in 1..k : i # k => B[i] = b[i]
  <2>1. \A i \in 1..k : b[i] \in Seq(1..n)
    <3>1. 1..m \subseteq 1..n
      OBVIOUS
    <3> QED BY <1>3, <3>1
  <2>2. /\ B \in [1..k -> Seq(1..n)]
        /\ \A i \in 1..k : i # k => B[i] = b[i]
    BY <1>2, <1>4, <1>Typed, <2>1
  <2>3. B \in Seq(Seq(1..n))
    BY <2>2, SeqDef
  <2>4. Len(B) = k
    BY <2>2, <2>3
  <2> QED BY <2>2, <2>3, <2>4
<1>6. ASSUME NEW i \in 1..k, NEW p \in 1..Len(B[i])
      PROVE  \/ p \in 1..Len(b[i]) /\ B[i][p] = b[i][p] /\ B[i][p] \in 1..m
             \/ i = k /\ B[i][p] = m + (p - Len(b[k])) /\ B[i][p] > m
  <2>1. CASE i # k
    BY <1>3, <1>5, <2>1
  <2>2. CASE i = k
    <3> DEFINE l == Len(b[k])
    <3>1. l \in Nat /\ Len(B[k]) \in Nat /\ p \in 1..Len(B[k]) /\ p \in Nat
      BY <1>3, <1>4, <2>2
    <3>2. CASE p <= l
      <4>1. p \in 1..Len(b[k])
        BY <3>1, <3>2
      <4>2. B[k][p] = b[k][p] /\ b[k][p] \in 1..m
        BY <1>3, <1>4, <1>Typed, <4>1, Zenon
      <4> QED BY <2>2, <4>1, <4>2
    <3>3. CASE p > l
      <4>1. p \in (Len(b[k]) + 1)..Len(B[k])
        BY <3>1, <3>3
      <4>2. B[k][p] = m + (p - Len(b[k]))
        BY <1>4, <4>1, Zenon
      <4> HIDE DEF l
      <4>3. m + (p - l) > m
        BY <3>1, <3>3
      <4> QED BY <2>2, <4>2, <4>3 DEF l
    <3> HIDE DEF l
    <3>4. p <= l \/ p > l
      BY <3>1
    <3> QED BY <3>2, <3>3, <3>4
  <2> QED BY <2>1, <2>2
<1>7. ASSUME NEW i \in 1..k, NEW j \in 1..k, NEW p \in 1..Len(B[i]),
             NEW q \in 1..Len(B[j]), B[i][p] = B[j][q]
      PROVE  i = j /\ p = q
  <2>1. Len(b[k]) \in Nat
    BY <1>3
  <2>2. CASE B[i][p] \in 1..m
    <3> DEFINE x == B[i][p]
               y == B[j][q]
    <3>1. x \in 1..m /\ x = y
      BY <1>7, <2>2
    <3> HIDE DEF x, y
    <3>2. ~(x > m) /\ ~(y > m)
      BY <3>1
    <3>3. /\ ~(B[i][p] > m) /\ ~(B[j][q] > m)
      BY <3>2, Zenon DEF x, y
    <3>4. p \in 1..Len(b[i]) /\ B[i][p] = b[i][p]
      BY <1>6, <3>3, Zenon
    <3>5. q \in 1..Len(b[j]) /\ B[j][q] = b[j][q]
      BY <1>6, <3>3, Zenon
    <3>6. b[i][p] = b[j][q]
      BY <1>7, <3>4, <3>5, Zenon
    <3>7. \A u \in 1..Len(b[i]), v \in 1..Len(b[j]) : b[i][u] = b[j][v] => i = j /\ u = v
      BY <1>Dealt, Zenon
    <3>8. b[i][p] = b[j][q] => i = j /\ p = q
      BY <3>4, <3>5, <3>7, Zenon
    <3> QED BY <3>6, <3>8
  <2>3. CASE B[i][p] \notin 1..m
    <3>1. i = k /\ B[i][p] = m + (p - Len(b[k])) /\ j = k /\ B[j][q] = m + (q - Len(b[k]))
      BY <1>6, <1>7, <2>3
    <3>2. p \in Int /\ q \in Int
      BY <1>4, <3>1
    <3>3. m + (p - Len(b[k])) = m + (q - Len(b[k]))
      BY <1>7, <3>1, Zenon
    <3> QED BY <2>1, <3>1, <3>2, <3>3
  <2> QED BY <2>2, <2>3
<1>8. ASSUME NEW a \in 1..n
      PROVE  \E i \in 1..k : \E p \in 1..Len(B[i]) : B[i][p] = a
  <2>1. CASE a <= m
    <3>1. PICK i \in 1..k : \E p \in 1..Len(b[i]) : b[i][p] = a
      <4>1. a \in 1..m
        BY <2>1
      <4> QED BY <1>Dealt, <4>1
    <3>2. PICK p \in 1..Len(b[i]) : b[i][p] = a
      BY <3>1
    <3>3. p \in 1..Len(B[i]) /\ B[i][p] = a
      <4>1. CASE i # k
        BY <1>5, <3>2, <4>1
      <4>2. CASE i = k
        <5>1. Len(b[k]) \in Nat /\ Len(b[k]) <= Len(B[k]) /\ Len(B[k]) \in Nat
          BY <1>3, <1>4
        <5>2. p \in 1..Len(b[k])
          BY <3>2, <4>2
        <5>3. p \in 1..Len(B[k]) /\ B[k][p] = b[k][p]
          BY <1>4, <5>1, <5>2
        <5> QED BY <3>2, <4>2, <5>3
      <4> QED BY <4>1, <4>2
    <3> QED BY <3>3
  <2>2. CASE a > m
    <3> DEFINE p == Len(b[k]) + (a - m)
    <3>1. /\ k \in 1..k /\ p \in (Len(b[k]) + 1)..Len(B[k]) /\ p \in 1..Len(B[k])
          /\ m + (p - Len(b[k])) = a
      BY <1>3, <1>4, <2>2
    <3>2. B[k][p] = a
      BY <1>4, <3>1
    <3> QED BY <3>1, <3>2
  <2>3. a <= m \/ a > m
    OBVIOUS
  <2> QED BY <2>1, <2>2, <2>3
<1>9. \A i, j \in 1..Len(B) : \A p \in 1..Len(B[i]), q \in 1..Len(B[j]) :
        B[i][p] = B[j][q] => i = j /\ p = q
  <2>1. ASSUME NEW i \in 1..Len(B), NEW j \in 1..Len(B), NEW p \in 1..Len(B[i]),
               NEW q \in 1..Len(B[j]), B[i][p] = B[j][q]
        PROVE  i = j /\ p = q
    <3>1. i \in 1..k /\ j \in 1..k
      BY <1>5
    <3>2. \A g \in 1..k, h \in 1..k : \A u \in 1..Len(B[g]), v \in 1..Len(B[h]) :
             B[g][u] = B[h][v] => g = h /\ u = v
      BY <1>7
    <3>3. \A u \in 1..Len(B[i]), v \in 1..Len(B[j]) : B[i][u] = B[j][v] => i = j /\ u = v
      BY <3>1, <3>2, Zenon
    <3> QED BY <2>1, <3>3
  <2> QED BY <2>1
<1>10. \A a \in 1..n : \E i \in 1..Len(B) : \E p \in 1..Len(B[i]) : B[i][p] = a
  <2>1. Len(B) = k
    BY <1>5
  <2>2. \A a \in 1..n : \E i \in 1..k : \E p \in 1..Len(B[i]) : B[i][p] = a
    BY <1>8
  <2> QED BY <2>1, <2>2, ZenonT(40)
<1> QED BY <1>5, <1>9, <1>10 DEF Deals

LEMMA Settings ==
  ASSUME config \in Configs
  PROVE  /\ config.analyses \in Nat /\ config.fork \in Nat \ {0}
         /\ InOrder = Upto(config.analyses) /\ ForkCount \in Nat
BY ConfigsAssumption DEF InOrder, Upto, Analyses, ForkCount

\* The division gives no more batches than there are processes. It gives
\* more when fork_count divides the number of analyses and is below its root.
Fits(c) ==
  \/ c.fork = 1 \/ c.analyses <= c.fork \/ c.analyses % c.fork # 0
  \/ c.analyses <= c.fork * c.fork

\* getBatchArray: every analysis is in one place of one batch.
LEMMA BatchDeals ==
  ASSUME config \in Configs
  PROVE  /\ Deals(BatchArray, config.analyses)
         /\ Fits(config) => Len(BatchArray) <= ForkCount
<1> DEFINE n == config.analyses
           k == config.fork
           rest == n % k
           d == n \div k
           m == n - rest
           even == Chunks(SubSeq(InOrder, 1, n - rest), n \div k)
<1>1. n \in Nat /\ k \in Nat \ {0} /\ InOrder = Upto(n)
  BY Settings
<1>2. BatchArray = IF k = 1 THEN <<InOrder>>
                   ELSE IF n <= k THEN Chunks(InOrder, 1)
                   ELSE IF rest = 0 THEN Chunks(InOrder, k)
                   ELSE [even EXCEPT ![k] = @ \o SubSeq(InOrder, n - rest + 1, n)]
  BY DEF BatchArray
<1>3. ForkCount = IF k > 1 /\ n <= k THEN n ELSE k
  BY DEF ForkCount
<1>4. Fits(config) <=> k = 1 \/ n <= k \/ rest # 0 \/ n <= k * k
  BY DEF Fits
<1>5. d \in Nat /\ rest \in 0..(k - 1) /\ n = d * k + rest
  <2> HIDE DEF n, k
  <2> QED BY <1>1, Quotient
<1> HIDE DEF n, k, rest, d
<1>6. CASE k = 1
  <2>1. BatchArray = <<Upto(n)>>
    BY <1>1, <1>2, <1>6
  <2>2. Upto(n) \in Seq(1..n) /\ Len(Upto(n)) = n /\ \A a \in 1..n : Upto(n)[a] = a
    BY <1>1 DEF Upto
  <2> DEFINE u == Upto(n)
             B == <<u>>
  <2> HIDE DEF u
  <2>3. u \in Seq(1..n) /\ Len(u) = n /\ \A a \in 1..n : u[a] = a
    BY <2>2 DEF u
  <2>4. B \in Seq(Seq(1..n)) /\ Len(B) = 1 /\ B[1] = u
    BY <2>3
  <2> HIDE DEF B
  <2>5. \A i \in 1..Len(B) : i = 1 /\ B[i] = u
    BY <2>4
  <2>6. Deals(B, n)
    BY <2>3, <2>4, <2>5 DEF Deals
  <2> QED BY <1>1, <1>3, <1>6, <2>1, <2>4, <2>6 DEF B, u, n
<1>7. CASE k # 1 /\ n <= k
  <2>1. BatchArray = Chunks(Upto(n), 1) /\ ForkCount = n
    BY <1>1, <1>2, <1>3, <1>7
  <2>2. Deals(BatchArray, n)
    BY <1>1, <2>1, ChunksDeal
  <2>3. Len(BatchArray) = (n + 1 - 1) \div 1
    <3>1. Chunked(BatchArray, n, 1)
      BY <1>1, <2>1, ChunkIs
    <3> QED BY <3>1 DEF Chunked
  <2>4. Len(BatchArray) = n
    BY <1>1, <2>3
  <2> QED BY <1>1, <2>1, <2>2, <2>4 DEF n
<1>8. CASE k # 1 /\ n > k /\ rest = 0
  <2>1. BatchArray = Chunks(Upto(n), k) /\ ForkCount = k
    BY <1>1, <1>2, <1>3, <1>8
  <2>2. Deals(BatchArray, n)
    BY <1>1, <2>1, ChunksDeal
  <2>3. Len(BatchArray) = (n + k - 1) \div k
    BY <1>1, <2>1, ChunkIs DEF Chunked
  <2> DEFINE x == n + k - 1
  <2>4. x \div k = d
    <3>1. x \in Nat /\ d * k <= x /\ d * k + k > x
      BY <1>1, <1>5, <1>8
    <3>2. (d + 1) * k = d * k + k
      BY <1>1, <1>5, Multiples
    <3> HIDE DEF x
    <3> QED BY <1>1, <1>5, <3>1, <3>2, QuotientIs
  <2>5. ASSUME n <= k * k PROVE d <= k
    <3>1. CASE d > k
      <4>1. (k + 1) * k <= d * k /\ (k + 1) * k = k * k + k /\ k * k \in Nat
        <5>1. k \in Nat /\ k + 1 \in Nat /\ d \in Nat /\ k + 1 <= d /\ k <= k
          BY <1>1, <1>5, <3>1
        <5> QED BY <5>1, Multiples
      <4> QED BY <1>1, <1>5, <1>8, <2>5, <4>1
    <3> QED BY <1>1, <1>5, <3>1
  <2> QED BY <1>1, <1>4, <1>8, <2>1, <2>2, <2>3, <2>4, <2>5 DEF n, x
<1>9. CASE k # 1 /\ n > k /\ rest # 0
  <2>1. ForkCount = k /\ m \in Nat /\ m <= n /\ m = d * k
    BY <1>1, <1>3, <1>5, <1>9
  <2>2. d \in Nat \ {0}
    <3>1. CASE d = 0
      <4>1. d * k = 0
        BY <1>1, <3>1
      <4> QED BY <1>1, <1>5, <1>9, <4>1
    <3> QED BY <1>5, <3>1
  <2>3. SubSeq(InOrder, 1, n - rest) = Upto(m)
    BY <1>1, <2>1, Stretch
  <2>4. even = Chunks(Upto(m), d)
    BY <2>3 DEF d
  <2>5. BatchArray = WithRest(even, k, m, n)
    BY <1>1, <1>2, <1>9 DEF WithRest
  <2> HIDE DEF even, m
  <2>6. Deals(even, m)
    BY <2>1, <2>2, <2>4, ChunksDeal
  <2>7. Len(even) = k
    <3>1. Len(even) = (m + d - 1) \div d
      BY <2>1, <2>2, <2>4, ChunkIs DEF Chunked
    <3> DEFINE x == m + d - 1
    <3>2. k * d = d * k /\ (k + 1) * d = k * d + d /\ k * d \in Nat
      BY <1>1, <1>5, Multiples
    <3>3. x \in Nat /\ k * d <= x /\ (k + 1) * d > x
      BY <1>1, <2>1, <2>2, <3>2
    <3>4. Len(even) = x \div d
      BY <3>1
    <3> HIDE DEF x
    <3> QED BY <1>1, <2>2, <3>3, <3>4, QuotientIs
  <2>8. Deals(BatchArray, n) /\ Len(BatchArray) = k
    <3>1. k \in Nat \ {0} /\ n \in Nat /\ m \in Nat /\ m <= n
      BY <1>1, <2>1
    <3> QED BY <2>5, <2>6, <2>7, <3>1, RestDealt
  <2> QED BY <1>1, <2>1, <2>8 DEF n
<1> QED BY <1>1, <1>6, <1>7, <1>8, <1>9

-----------------------------------------------------------------------------
(* Where each analysis is *)

\* How many analyses of its batch the i-th child has taken.
Gone(i) == Len(Batch(i)) - Len(children[i].left)

\* A child has the end of its batch before it.
Lefts ==
  \A i \in 1..Len(children) :
    /\ Gone(i) \in Nat
    /\ \A p \in 1..Len(children[i].left) : children[i].left[p] = Batch(i)[Gone(i) + p]

\* An analysis of a batch: not forked yet; or run; or broken, when its child
\* ended before it; or before its child.
Homes ==
  \A i \in 1..Len(BatchArray) : \A p \in 1..Len(BatchArray[i]) :
    /\ i > Len(children) => ran[BatchArray[i][p]] = 0 /\ BatchArray[i][p] \notin broken
    /\ i <= Len(children) =>
         /\ ran[BatchArray[i][p]] = IF p <= Gone(i) THEN 1 ELSE 0
         /\ BatchArray[i][p] \in broken <=> p > Gone(i) /\ ~children[i].runs

Types ==
  /\ config \in Configs /\ waitFlag \in Waits
  /\ master \in {"forking", "waiting", "done", "failed"}
  /\ children \in Seq([runs : BOOLEAN, left : Seq(Analyses)])
  /\ Len(children) <= ForkCount
  /\ master = "done" => Len(children) = ForkCount
  /\ ran \in [Analyses -> Nat] /\ broken \subseteq Analyses

Inv == Types /\ Lefts /\ Homes

\* What the steps need of getBatchArray.
LEMMA Batches ==
  ASSUME config \in Configs, NEW B, B = BatchArray
  PROVE  /\ B \in Seq(Seq(Analyses)) /\ Len(B) \in Nat
         /\ \A i \in 1..Len(B) :
              /\ B[i] \in Seq(Analyses) /\ Len(B[i]) \in Nat
              /\ \A p \in 1..Len(B[i]) : B[i][p] \in Analyses
         /\ \A i \in 1..Len(B), j \in 1..Len(B) :
              \A p \in 1..Len(B[i]), q \in 1..Len(B[j]) :
                B[i][p] = B[j][q] => i = j /\ p = q
         /\ \A a \in Analyses : \E i \in 1..Len(B) : \E p \in 1..Len(B[i]) : B[i][p] = a
<1>1. Deals(B, config.analyses)
  BY BatchDeals
<1>2. /\ B \in Seq(Seq(Analyses))
      /\ \A i \in 1..Len(B), j \in 1..Len(B) :
           \A p \in 1..Len(B[i]), q \in 1..Len(B[j]) :
             B[i][p] = B[j][q] => i = j /\ p = q
      /\ \A a \in Analyses : \E i \in 1..Len(B) : \E p \in 1..Len(B[i]) : B[i][p] = a
  BY <1>1, Zenon DEF Deals, Analyses
<1>3. /\ Len(B) \in Nat
      /\ \A i \in 1..Len(B) : B[i] \in Seq(Analyses) /\ Len(B[i]) \in Nat
  BY <1>2
<1>4. ASSUME NEW i \in 1..Len(B), NEW p \in 1..Len(B[i]) PROVE B[i][p] \in Analyses
  BY <1>3
<1> QED BY <1>2, <1>3, <1>4

LEMMA BatchIs ==
  ASSUME config \in Configs, NEW i \in Nat \ {0}
  PROVE  /\ Batch(i) \in Seq(Analyses) /\ Len(Batch(i)) \in Nat
         /\ i \in 1..Len(BatchArray) => Batch(i) = BatchArray[i]
         /\ Len(Batch(i)) # 0 => i \in 1..Len(BatchArray)
<1> DEFINE B == BatchArray
<1>1. /\ Len(B) \in Nat
      /\ \A j \in 1..Len(B) : B[j] \in Seq(Analyses)
  BY Batches
<1>2. Batch(i) = IF i <= Len(B) THEN B[i] ELSE << >>
  BY DEF Batch
<1> HIDE DEF B
<1>3. /\ Batch(i) \in Seq(Analyses) /\ Len(Batch(i)) \in Nat
      /\ i \in 1..Len(B) => Batch(i) = B[i]
      /\ Len(Batch(i)) # 0 => i \in 1..Len(B)
  <2>1. CASE i <= Len(B)
    BY <1>1, <1>2, <2>1
  <2>2. CASE ~(i <= Len(B))
    BY <1>1, <1>2, <2>2
  <2> QED BY <2>1, <2>2
<1> QED BY <1>3 DEF B

LEMMA Starts == Init => Inv
<1> SUFFICES ASSUME Init PROVE Inv
  OBVIOUS
<1>1. /\ config \in Configs /\ waitFlag \in Waits /\ master = "forking"
      /\ children = << >> /\ ran = [a \in Analyses |-> 0] /\ broken = {}
  BY DEF Init
<1>2. Types
  BY <1>1, Settings DEF Types
<1>3. Lefts
  BY <1>1 DEF Lefts
<1>4. Homes
  <2>1. \A i \in 1..Len(BatchArray) : \A p \in 1..Len(BatchArray[i]) :
          BatchArray[i][p] \in Analyses /\ ~(i <= Len(children))
    BY <1>1, Batches
  <2> QED BY <1>1, <2>1 DEF Homes
<1> QED BY <1>2, <1>3, <1>4 DEF Inv

LEMMA Same ==
  ASSUME config' = config
  PROVE  /\ BatchArray' = BatchArray /\ ForkCount' = ForkCount /\ Analyses' = Analyses
         /\ \A i : Batch(i)' = Batch(i)
<1>1. Analyses' = Analyses
  BY DEF Analyses
<1>2. InOrder' = InOrder
  BY <1>1 DEF InOrder
<1>3. BatchArray' = BatchArray
  BY <1>2 DEF BatchArray
<1>4. ForkCount' = ForkCount
  BY DEF ForkCount
<1>5. \A i : Batch(i)' = Batch(i)
  BY <1>3 DEF Batch
<1> QED BY <1>1, <1>3, <1>4, <1>5

LEMMA HomesKept ==
  ASSUME Lefts, Homes, UNCHANGED <<config, children, ran, broken>>
  PROVE  Lefts' /\ Homes'
<1>1. /\ BatchArray' = BatchArray /\ \A i : Gone(i)' = Gone(i) /\ Batch(i)' = Batch(i)
  BY Same DEF Gone
<1>2. Lefts'
  BY <1>1 DEF Lefts
<1>3. Homes'
  BY <1>1 DEF Homes
<1> QED BY <1>2, <1>3

LEMMA ForkKeeps == Inv /\ Fork => Inv'
<1> SUFFICES ASSUME Inv, Fork, NEW n, n = Len(children) PROVE Inv'
  OBVIOUS
<1> DEFINE new == [runs |-> TRUE, left |-> Batch(n + 1)]
           B == BatchArray
<1>1. Types /\ Lefts /\ Homes
  BY DEF Inv
<1>2. /\ config' = config /\ waitFlag' = waitFlag /\ ran' = ran /\ broken' = broken
      /\ n < ForkCount /\ children' = Append(children, new)
      /\ master' \in {"forking", "waiting"}
  BY DEF Fork
<1>3. /\ n \in Nat /\ config \in Configs
      /\ children \in Seq([runs : BOOLEAN, left : Seq(Analyses)])
  BY <1>1 DEF Types
<1>4. /\ n + 1 \in Nat \ {0} /\ Batch(n + 1) \in Seq(Analyses) /\ Len(Batch(n + 1)) \in Nat
  BY <1>3, BatchIs
<1>5. BatchArray' = BatchArray /\ ForkCount' = ForkCount /\ Analyses' = Analyses
      /\ \A i : Batch(i)' = Batch(i)
  BY <1>2, Same
<1>6. /\ children' \in Seq([runs : BOOLEAN, left : Seq(Analyses)])
      /\ Len(children') = n + 1 /\ children'[n + 1] = new
      /\ \A i \in 1..n : children'[i] = children[i]
  <2>1. new \in [runs : BOOLEAN, left : Seq(Analyses)]
    BY <1>4
  <2> HIDE DEF new
  <2> QED BY <1>2, <1>3, <2>1, AppendProperties
<1>7. Types'
  <2>1. ForkCount \in Nat
    BY <1>3, Settings
  <2> HIDE DEF new
  <2> QED BY <1>1, <1>2, <1>3, <1>5, <1>6, <2>1 DEF Types
<1>8. /\ \A i \in 1..n : Gone(i)' = Gone(i)
      /\ Gone(n + 1)' = 0
  <2>1. \A i \in 1..n : Gone(i)' = Gone(i)
    BY <1>5, <1>6 DEF Gone
  <2>2. children'[n + 1].left = Batch(n + 1)
    BY <1>6
  <2> HIDE DEF new
  <2>3. Gone(n + 1)' = Len(Batch(n + 1)) - Len(Batch(n + 1))
    BY <1>5, <2>2 DEF Gone
  <2> QED BY <1>4, <2>1, <2>3
<1>9. Lefts'
  <2>1. ASSUME NEW i \in 1..n
        PROVE  /\ Gone(i)' \in Nat
               /\ \A p \in 1..Len(children'[i].left) :
                    children'[i].left[p] = Batch(i)'[Gone(i)' + p]
    BY <1>1, <1>5, <1>6, <1>8 DEF Lefts
  <2>2. /\ Gone(n + 1)' \in Nat
        /\ \A p \in 1..Len(children'[n + 1].left) :
             children'[n + 1].left[p] = Batch(n + 1)'[Gone(n + 1)' + p]
    BY <1>4, <1>5, <1>6, <1>8
  <2> HIDE DEF new
  <2> QED BY <1>3, <1>6, <2>1, <2>2 DEF Lefts
<1>10. Homes'
  <2> SUFFICES ASSUME NEW i \in 1..Len(B), NEW p \in 1..Len(B[i])
               PROVE  /\ i > n + 1 => ran[B[i][p]] = 0 /\ B[i][p] \notin broken
                      /\ i <= n + 1 =>
                           /\ ran[B[i][p]] = IF p <= Gone(i)' THEN 1 ELSE 0
                           /\ B[i][p] \in broken <=> p > Gone(i)' /\ ~children'[i].runs
    BY <1>2, <1>5, <1>6 DEF Homes
  <2>1. /\ i > n => ran[B[i][p]] = 0 /\ B[i][p] \notin broken
        /\ i <= n =>
             /\ ran[B[i][p]] = IF p <= Gone(i) THEN 1 ELSE 0
             /\ B[i][p] \in broken <=> p > Gone(i) /\ ~children[i].runs
    BY <1>1 DEF Homes
  <2>2. i \in Nat /\ i >= 1 /\ Len(B) \in Nat /\ p >= 1 /\ p \in Int
    BY <1>3, Batches
  <2>3. CASE i <= n
    BY <1>3, <1>6, <1>8, <2>1, <2>2, <2>3
  <2>4. CASE i = n + 1
    BY <1>3, <1>6, <1>8, <2>1, <2>2, <2>4
  <2>5. CASE i > n + 1
    BY <1>3, <2>1, <2>2, <2>5
  <2> QED BY <1>3, <2>2, <2>3, <2>4, <2>5
<1> QED BY <1>7, <1>9, <1>10 DEF Inv

\* What is known of a child that has an analysis before it.
LEMMA ChildAt ==
  ASSUME Inv, NEW c \in 1..Len(children)
  PROVE  /\ config \in Configs /\ c \in Nat \ {0}
         /\ Gone(c) \in Nat /\ children[c].left \in Seq(Analyses)
         /\ children[c].runs \in BOOLEAN
         /\ Len(children[c].left) \in Nat /\ Len(Batch(c)) = Gone(c) + Len(children[c].left)
         /\ Len(children[c].left) # 0 =>
              c \in 1..Len(BatchArray) /\ Batch(c) = BatchArray[c]
         /\ \A p \in 1..Len(children[c].left) :
              children[c].left[p] = Batch(c)[Gone(c) + p]
<1>1. Types /\ Lefts
  BY DEF Inv
<1>2. /\ config \in Configs /\ c \in Nat \ {0}
      /\ children[c].left \in Seq(Analyses) /\ children[c].runs \in BOOLEAN
      /\ Len(children[c].left) \in Nat
  <2>1. config \in Configs /\ children \in Seq([runs : BOOLEAN, left : Seq(Analyses)])
    BY <1>1 DEF Types
  <2>2. children[c] \in [runs : BOOLEAN, left : Seq(Analyses)]
    BY <2>1, ElementOfSeq
  <2>3. Len(children) \in Nat
    BY <2>1
  <2> QED BY <2>1, <2>2, <2>3
<1>3. /\ Gone(c) \in Nat
      /\ \A p \in 1..Len(children[c].left) : children[c].left[p] = Batch(c)[Gone(c) + p]
  BY <1>1 DEF Lefts
<1>4. /\ Len(Batch(c)) \in Nat
      /\ c \in 1..Len(BatchArray) => Batch(c) = BatchArray[c]
      /\ Len(Batch(c)) # 0 => c \in 1..Len(BatchArray)
  BY <1>2, BatchIs
<1>5. Gone(c) = Len(Batch(c)) - Len(children[c].left)
  BY DEF Gone
<1>6. Len(Batch(c)) = Gone(c) + Len(children[c].left)
  BY <1>2, <1>4, <1>5
<1>7. Len(children[c].left) # 0 => Len(Batch(c)) # 0
  BY <1>2, <1>3, <1>6
<1> QED BY <1>2, <1>3, <1>4, <1>6, <1>7

LEMMA Records ==
  ASSUME NEW S, NEW x \in [runs : BOOLEAN, left : S], NEW y
  PROVE  /\ [x EXCEPT !.runs = y] = [runs |-> y, left |-> x.left]
         /\ [x EXCEPT !.left = y] = [runs |-> x.runs, left |-> y]
OBVIOUS

\* A step of the c-th child changes no other, and no batch.
LEMMA OthersSame ==
  ASSUME Inv, NEW c \in 1..Len(children), NEW new \in [runs : BOOLEAN, left : Seq(Analyses)],
         config' = config, waitFlag' = waitFlag, master' = master,
         children' = [children EXCEPT ![c] = new],
         ran' \in [Analyses -> Nat], broken' \subseteq Analyses
  PROVE  /\ Types' /\ Len(children') = Len(children) /\ BatchArray' = BatchArray
         /\ children'[c] = new /\ Gone(c)' = Len(Batch(c)) - Len(new.left)
         /\ \A i : Batch(i)' = Batch(i)
         /\ \A i \in 1..Len(children) :
              i # c => children'[i] = children[i] /\ Gone(i)' = Gone(i)
<1>1. Types
  BY DEF Inv
<1>2. /\ BatchArray' = BatchArray /\ ForkCount' = ForkCount /\ Analyses' = Analyses
      /\ \A i : Batch(i)' = Batch(i)
  BY Same
<1>3. /\ children' \in Seq([runs : BOOLEAN, left : Seq(Analyses)])
      /\ Len(children') = Len(children) /\ children'[c] = new
      /\ \A i \in 1..Len(children) : i # c => children'[i] = children[i]
  BY <1>1, ExceptSeq DEF Types
<1>4. Types'
  BY <1>1, <1>2, <1>3 DEF Types
<1>5. Gone(c)' = Len(Batch(c)) - Len(new.left)
  BY <1>2, <1>3 DEF Gone
<1>6. \A i \in 1..Len(children) : i # c => Gone(i)' = Gone(i)
  BY <1>2, <1>3 DEF Gone
<1> QED BY <1>2, <1>3, <1>4, <1>5, <1>6

LEMMA ExitKeeps == ASSUME Inv, NEW c \in DOMAIN children, ChildExit(c) PROVE Inv'
<1> DEFINE new == [runs |-> FALSE, left |-> children[c].left]
<1>1. Types /\ Lefts /\ Homes
  BY DEF Inv
<1>2. c \in 1..Len(children) /\ Len(children) \in Nat
  BY <1>1 DEF Types
<1>3. /\ children[c].runs /\ children[c].left = << >>
      /\ config' = config /\ waitFlag' = waitFlag /\ master' = master
      /\ ran' = ran /\ broken' = broken
      /\ children' = [children EXCEPT ![c].runs = FALSE]
  BY DEF ChildExit
<1>4. /\ children[c].left \in Seq(Analyses) /\ Len(children[c].left) = 0
      /\ Gone(c) \in Nat /\ Len(Batch(c)) = Gone(c) /\ config \in Configs
      /\ Gone(c) = Len(Batch(c)) - Len(children[c].left)
      /\ c \in 1..Len(BatchArray) => Batch(c) = BatchArray[c]
  BY <1>2, <1>3, ChildAt, BatchIs DEF Gone
<1>5. children' = [children EXCEPT ![c] = new] /\ new \in [runs : BOOLEAN, left : Seq(Analyses)]
      /\ new.left = children[c].left
  <2>1. children \in Seq([runs : BOOLEAN, left : Seq(Analyses)])
    BY <1>1 DEF Types
  <2>2. children[c] \in [runs : BOOLEAN, left : Seq(Analyses)]
    BY <1>2, <2>1, ElementOfSeq
  <2>3. [children[c] EXCEPT !.runs = FALSE] = new
    BY <2>2, Records
  <2> QED BY <1>3, <1>4, <2>3
<1> HIDE DEF new
<1>6. /\ Types' /\ Len(children') = Len(children) /\ BatchArray' = BatchArray
      /\ children'[c] = new /\ Gone(c)' = Len(Batch(c)) - Len(new.left)
      /\ \A i : Batch(i)' = Batch(i)
      /\ \A i \in 1..Len(children) : i # c => children'[i] = children[i] /\ Gone(i)' = Gone(i)
  <2>1. ran' \in [Analyses -> Nat] /\ broken' \subseteq Analyses
    BY <1>1, <1>3 DEF Types
  <2> QED BY <1>2, <1>3, <1>5, <2>1, OthersSame
<1>7. /\ Gone(c)' = Gone(c)
      /\ \A i \in 1..Len(children) :
           /\ children'[i].left = children[i].left /\ Gone(i)' = Gone(i)
  BY <1>2, <1>4, <1>5, <1>6
<1>8. Lefts'
  BY <1>1, <1>6, <1>7 DEF Lefts
<1>9. Homes'
  <2> SUFFICES ASSUME NEW i \in 1..Len(BatchArray), NEW p \in 1..Len(BatchArray[i]),
                      i <= Len(children)
               PROVE  p > Gone(i)' /\ ~children'[i].runs <=> p > Gone(i) /\ ~children[i].runs
    BY <1>1, <1>2, <1>3, <1>6, <1>7 DEF Homes
  <2>1. i \in 1..Len(children)
    BY <1>2
  <2>2. CASE i # c
    BY <1>6, <2>1, <2>2
  <2>3. CASE i = c
    <3>1. p \in 1..Gone(c)
      BY <1>4, <2>3
    <3>2. ~(p > Gone(c))
      BY <1>4, <3>1
    <3> QED BY <1>7, <2>3, <3>2
  <2> QED BY <2>2, <2>3
<1> QED BY <1>6, <1>8, <1>9 DEF Inv

\* What is known of the first analysis before a child, and of its place.
LEMMA HeadAt ==
  ASSUME Inv, NEW c \in 1..Len(children), children[c].left # << >>
  PROVE  /\ Gone(c) \in Nat /\ Gone(c) + 1 \in 1..Len(BatchArray[c])
         /\ c \in 1..Len(BatchArray) /\ Batch(c) = BatchArray[c]
         /\ Head(children[c].left) = BatchArray[c][Gone(c) + 1]
         /\ Head(children[c].left) \in Analyses
         /\ Tail(children[c].left) \in Seq(Analyses)
         /\ Len(children[c].left) \in Nat \ {0}
         /\ Len(Tail(children[c].left)) = Len(children[c].left) - 1
         /\ \A p \in 1..(Len(children[c].left) - 1) :
              Tail(children[c].left)[p] = children[c].left[p + 1]
<1>1. /\ Gone(c) \in Nat /\ children[c].left \in Seq(Analyses)
      /\ Len(children[c].left) \in Nat /\ Len(Batch(c)) = Gone(c) + Len(children[c].left)
      /\ Len(children[c].left) # 0 => c \in 1..Len(BatchArray) /\ Batch(c) = BatchArray[c]
      /\ \A p \in 1..Len(children[c].left) : children[c].left[p] = Batch(c)[Gone(c) + p]
  BY ChildAt
<1>2. Len(children[c].left) \in Nat \ {0}
  BY <1>1, EmptySeq
<1> DEFINE l == children[c].left
<1>3. l \in Seq(Analyses) /\ l # << >> /\ Len(l) \in Nat \ {0}
  BY <1>1, <1>2
<1>4. Gone(c) + 1 \in 1..Len(BatchArray[c])
  BY <1>1, <1>2
<1>5. l[1] = BatchArray[c][Gone(c) + 1]
  BY <1>1, <1>2
<1> HIDE DEF l
<1>6. /\ Head(l) = l[1] /\ Head(l) \in Analyses /\ Tail(l) \in Seq(Analyses)
      /\ Len(Tail(l)) = Len(l) - 1 /\ \A p \in 1..(Len(l) - 1) : Tail(l)[p] = l[p + 1]
  BY <1>3, HeadTailProperties
<1> QED BY <1>1, <1>2, <1>4, <1>5, <1>6 DEF l

LEMMA AnalyzeKeeps == ASSUME Inv, NEW c \in DOMAIN children, Analyze(c) PROVE Inv'
<1> DEFINE l == children[c].left
           new == [runs |-> children[c].runs, left |-> Tail(l)]
           a == Head(l)
<1>1. Types /\ Lefts /\ Homes
  BY DEF Inv
<1>2. /\ c \in 1..Len(children) /\ Len(children) \in Nat
      /\ children \in Seq([runs : BOOLEAN, left : Seq(Analyses)]) /\ config \in Configs
      /\ ran \in [Analyses -> Nat] /\ broken \subseteq Analyses
  BY <1>1 DEF Types
<1>3. /\ children[c].runs /\ children[c].left # << >>
      /\ config' = config /\ waitFlag' = waitFlag /\ master' = master
      /\ ran' = [ran EXCEPT ![a] = @ + 1] /\ broken' = broken
      /\ children' = [children EXCEPT ![c].left = Tail(@)]
  BY DEF Analyze
<1>4. /\ Gone(c) \in Nat /\ Gone(c) + 1 \in 1..Len(BatchArray[c])
      /\ c \in 1..Len(BatchArray) /\ Batch(c) = BatchArray[c]
      /\ a = BatchArray[c][Gone(c) + 1] /\ a \in Analyses
      /\ Tail(l) \in Seq(Analyses) /\ Len(l) \in Nat \ {0} /\ Len(Tail(l)) = Len(l) - 1
      /\ \A p \in 1..(Len(l) - 1) : Tail(l)[p] = l[p + 1]
  BY <1>2, <1>3, HeadAt
<1>5. children' = [children EXCEPT ![c] = new] /\ new \in [runs : BOOLEAN, left : Seq(Analyses)]
      /\ new.left = Tail(l) /\ new.runs
  <2>1. children[c] \in [runs : BOOLEAN, left : Seq(Analyses)]
    BY <1>2, ElementOfSeq
  <2>2. [children[c] EXCEPT !.left = Tail(l)] = new
    BY <2>1, Records
  <2>3. children' = [children EXCEPT ![c] = [children[c] EXCEPT !.left = Tail(l)]]
    BY <1>3
  <2>4. children[c].runs \in BOOLEAN
    BY <2>1
  <2> QED BY <1>3, <1>4, <2>2, <2>3, <2>4
<1> HIDE DEF new, a
<1>6. /\ Types' /\ Len(children') = Len(children) /\ BatchArray' = BatchArray
      /\ children'[c] = new /\ Gone(c)' = Len(Batch(c)) - Len(new.left)
      /\ \A i : Batch(i)' = Batch(i)
      /\ \A i \in 1..Len(children) : i # c => children'[i] = children[i] /\ Gone(i)' = Gone(i)
  <2>1. ran' \in [Analyses -> Nat] /\ broken' \subseteq Analyses
    BY <1>2, <1>3, <1>4, SMTT(30)
  <2> QED BY <1>2, <1>3, <1>5, <2>1, OthersSame
<1>7. Gone(c)' = Gone(c) + 1
  <2>1. Len(Batch(c)) = Gone(c) + Len(l)
    BY <1>2, ChildAt
  <2> HIDE DEF l
  <2> QED BY <1>4, <1>5, <1>6, <2>1
<1>8. Lefts'
  <2>1. \A p \in 1..Len(l) : l[p] = Batch(c)[Gone(c) + p]
    BY <1>1, <1>2 DEF Lefts
  <2> HIDE DEF l
  <2>2. ASSUME NEW p \in 1..(Len(l) - 1)
        PROVE  new.left[p] = Batch(c)[Gone(c)' + p]
    <3>1. p + 1 \in 1..Len(l) /\ Gone(c) + (p + 1) = Gone(c)' + p
      BY <1>4, <1>7
    <3>2. new.left[p] = l[p + 1]
      BY <1>4, <1>5
    <3>3. l[p + 1] = Batch(c)[Gone(c) + (p + 1)]
      BY <2>1, <3>1
    <3> QED BY <3>1, <3>2, <3>3
  <2>3. /\ Gone(c)' \in Nat
        /\ \A p \in 1..Len(children'[c].left) :
             children'[c].left[p] = Batch(c)'[Gone(c)' + p]
    <3>1. /\ children'[c].left = new.left /\ Len(new.left) = Len(l) - 1
          /\ Batch(c)' = Batch(c) /\ Gone(c)' \in Nat
      BY <1>4, <1>5, <1>6, <1>7
    <3> QED BY <2>2, <3>1
  <2>4. \A i \in 1..Len(children) : i # c =>
          /\ Gone(i)' \in Nat
          /\ \A p \in 1..Len(children'[i].left) :
               children'[i].left[p] = Batch(i)'[Gone(i)' + p]
    BY <1>1, <1>6 DEF Lefts
  <2> QED BY <1>6, <2>3, <2>4 DEF Lefts
<1>9. Homes'
  <2> SUFFICES ASSUME NEW i \in 1..Len(BatchArray), NEW p \in 1..Len(BatchArray[i])
               PROVE  /\ i > Len(children) =>
                           ran'[BatchArray[i][p]] = 0 /\ BatchArray[i][p] \notin broken
                      /\ i <= Len(children) =>
                           /\ ran'[BatchArray[i][p]] = IF p <= Gone(i)' THEN 1 ELSE 0
                           /\ BatchArray[i][p] \in broken <=>
                                p > Gone(i)' /\ ~children'[i].runs
    BY <1>3, <1>6 DEF Homes
  <2> DEFINE x == BatchArray[i][p]
  <2>1. /\ i > Len(children) => ran[x] = 0 /\ x \notin broken
        /\ i <= Len(children) =>
             /\ ran[x] = IF p <= Gone(i) THEN 1 ELSE 0
             /\ x \in broken <=> p > Gone(i) /\ ~children[i].runs
    BY <1>1 DEF Homes
  <2>2. x \in Analyses /\ (x = a => i = c /\ p = Gone(c) + 1)
    <3>1. /\ \A j \in 1..Len(BatchArray) : \A q \in 1..Len(BatchArray[j]) :
               BatchArray[j][q] \in Analyses
          /\ \A j \in 1..Len(BatchArray), k \in 1..Len(BatchArray) :
               \A q \in 1..Len(BatchArray[j]), r \in 1..Len(BatchArray[k]) :
                 BatchArray[j][q] = BatchArray[k][r] => j = k /\ q = r
      BY <1>2, Batches
    <3>2. BatchArray[i][p] = BatchArray[c][Gone(c) + 1] => i = c /\ p = Gone(c) + 1
      <4>1. \A q \in 1..Len(BatchArray[i]), r \in 1..Len(BatchArray[c]) :
              BatchArray[i][q] = BatchArray[c][r] => i = c /\ q = r
        BY <1>4, <3>1, Zenon
      <4> QED BY <1>4, <4>1
    <3> QED BY <1>4, <3>1, <3>2
  <2>3. i \in Int /\ p \in Int /\ (i <= Len(children) => i \in 1..Len(children))
    BY <1>2, Batches
  <2> HIDE DEF x
  <2>4. x # a => ran'[x] = ran[x]
    BY <1>2, <1>3, <1>4, <2>2
  <2>5. CASE i # c
    <3>1. ran'[x] = ran[x]
      BY <2>2, <2>4, <2>5
    <3> QED BY <1>6, <2>1, <2>3, <2>5, <3>1 DEF x
  <2>6. CASE i = c /\ p # Gone(c) + 1
    <3>1. ran'[x] = ran[x]
      BY <2>2, <2>4, <2>6
    <3>2. c <= Len(children) /\ ~(c > Len(children)) /\ children'[c].runs
      BY <1>2, <1>5, <1>6
    <3>3. (p <= Gone(c) <=> p <= Gone(c)')
      BY <1>4, <1>7, <2>3, <2>6
    <3> QED BY <1>3, <2>1, <2>6, <3>1, <3>2, <3>3 DEF x
  <2>7. CASE i = c /\ p = Gone(c) + 1
    <3>1. x = a
      BY <1>4, <2>7 DEF x
    <3>2. c <= Len(children) /\ ~(c > Len(children)) /\ children'[c].runs
      BY <1>2, <1>5, <1>6
    <3>3. ran[x] = 0 /\ x \notin broken
      BY <1>3, <1>4, <2>1, <2>7, <3>2
    <3>4. ran'[x] = 1
      BY <1>2, <1>3, <1>4, <3>1, <3>3
    <3>5. p <= Gone(c)'
      BY <1>4, <1>7, <2>7
    <3> QED BY <2>7, <3>2, <3>3, <3>4, <3>5 DEF x
  <2> QED BY <2>5, <2>6, <2>7
<1> QED BY <1>6, <1>8, <1>9 DEF Inv

LEMMA ThrowKeeps == ASSUME Inv, NEW c \in DOMAIN children, AnalyzeThrow(c) PROVE Inv'
<1> DEFINE l == children[c].left
           new == [runs |-> FALSE, left |-> l]
<1>1. Types /\ Lefts /\ Homes
  BY DEF Inv
<1>2. /\ c \in 1..Len(children) /\ Len(children) \in Nat
      /\ children \in Seq([runs : BOOLEAN, left : Seq(Analyses)]) /\ config \in Configs
      /\ ran \in [Analyses -> Nat] /\ broken \subseteq Analyses
  BY <1>1 DEF Types
<1>3. /\ children[c].runs /\ children[c].left # << >>
      /\ config' = config /\ waitFlag' = waitFlag /\ master' = master
      /\ ran' = ran /\ broken' = broken \cup Range(l)
      /\ children' = [children EXCEPT ![c].runs = FALSE]
  BY DEF AnalyzeThrow
<1>4. /\ Gone(c) \in Nat /\ l \in Seq(Analyses) /\ Len(l) \in Nat
      /\ Len(Batch(c)) = Gone(c) + Len(l)
      /\ c \in 1..Len(BatchArray) /\ Batch(c) = BatchArray[c]
      /\ \A p \in 1..Len(l) : l[p] = BatchArray[c][Gone(c) + p]
  <2>1. Len(l) # 0
    BY <1>2, <1>3, HeadAt
  <2> QED BY <1>2, <2>1, ChildAt
<1>5. children' = [children EXCEPT ![c] = new] /\ new \in [runs : BOOLEAN, left : Seq(Analyses)]
      /\ new.left = l /\ ~new.runs
  <2>1. children[c] \in [runs : BOOLEAN, left : Seq(Analyses)]
    BY <1>2, ElementOfSeq
  <2>2. [children[c] EXCEPT !.runs = FALSE] = new
    BY <2>1, Records
  <2> QED BY <1>3, <1>4, <2>2
<1> HIDE DEF new
<1>6. Range(l) = {l[q] : q \in 1..Len(l)} /\ Range(l) \subseteq Analyses
  <2> HIDE DEF l
  <2> QED BY <1>4 DEF Range
<1>7. /\ Types' /\ Len(children') = Len(children) /\ BatchArray' = BatchArray
      /\ children'[c] = new /\ Gone(c)' = Len(Batch(c)) - Len(new.left)
      /\ \A i : Batch(i)' = Batch(i)
      /\ \A i \in 1..Len(children) : i # c => children'[i] = children[i] /\ Gone(i)' = Gone(i)
  <2>1. ran' \in [Analyses -> Nat] /\ broken' \subseteq Analyses
    BY <1>2, <1>3, <1>6
  <2> QED BY <1>2, <1>3, <1>5, <2>1, OthersSame
<1>8. \A i \in 1..Len(children) : children'[i].left = children[i].left /\ Gone(i)' = Gone(i)
  <2>1. Gone(c)' = Gone(c)
    <3> HIDE DEF l
    <3> QED BY <1>4, <1>5, <1>7
  <2> QED BY <1>5, <1>7, <2>1
<1>9. Lefts'
  BY <1>1, <1>7, <1>8 DEF Lefts
<1>10. Homes'
  <2> SUFFICES ASSUME NEW i \in 1..Len(BatchArray), NEW p \in 1..Len(BatchArray[i])
               PROVE  /\ i > Len(children) =>
                           ran[BatchArray[i][p]] = 0 /\ BatchArray[i][p] \notin broken'
                      /\ i <= Len(children) =>
                           /\ ran[BatchArray[i][p]] = IF p <= Gone(i)' THEN 1 ELSE 0
                           /\ BatchArray[i][p] \in broken' <=>
                                p > Gone(i)' /\ ~children'[i].runs
    BY <1>3, <1>7 DEF Homes
  <2> DEFINE x == BatchArray[i][p]
  <2>1. /\ i > Len(children) => ran[x] = 0 /\ x \notin broken
        /\ i <= Len(children) =>
             /\ ran[x] = IF p <= Gone(i) THEN 1 ELSE 0
             /\ x \in broken <=> p > Gone(i) /\ ~children[i].runs
    BY <1>1 DEF Homes
  <2>2. \A j \in 1..Len(BatchArray), k \in 1..Len(BatchArray) :
          \A q \in 1..Len(BatchArray[j]), r \in 1..Len(BatchArray[k]) :
            BatchArray[j][q] = BatchArray[k][r] => j = k /\ q = r
    BY <1>2, Batches
  <2>3. i \in Int /\ p \in Int /\ p >= 1 /\ (i <= Len(children) => i \in 1..Len(children))
    BY <1>2, Batches
  <2>4. ASSUME NEW q \in 1..Len(l), x = l[q] PROVE i = c /\ p = Gone(c) + q
    <3>1. x = BatchArray[c][Gone(c) + q] /\ Gone(c) + q \in 1..Len(BatchArray[c])
      BY <1>4, <2>4
    <3>2. \A q1 \in 1..Len(BatchArray[i]), r \in 1..Len(BatchArray[c]) :
            BatchArray[i][q1] = BatchArray[c][r] => i = c /\ q1 = r
      BY <1>4, <2>2, Zenon
    <3> QED BY <3>1, <3>2
  <2>5. x \in broken' <=> x \in broken \/ \E q \in 1..Len(l) : x = l[q]
    BY <1>3, <1>6
  <2>6. CASE i # c
    <3>1. x \in broken' <=> x \in broken
      BY <2>4, <2>5, <2>6
    <3> QED BY <1>7, <2>1, <2>3, <2>6, <3>1
  <2>7. CASE i = c
    <3>1. c <= Len(children) /\ ~(c > Len(children)) /\ ~children'[c].runs /\ Gone(c)' = Gone(c)
      BY <1>2, <1>5, <1>7, <1>8
    <3>2. p \in 1..(Gone(c) + Len(l))
      BY <1>4, <2>7
    <3>3. x \in broken' <=> p > Gone(c)
      <4>1. x \notin broken
        BY <1>3, <2>1, <2>7, <3>1
      <4>2. CASE p > Gone(c)
        <5> DEFINE q == p - Gone(c)
        <5>1. q \in 1..Len(l) /\ Gone(c) + q = p
          <6> HIDE DEF l
          <6> QED BY <1>4, <3>2, <4>2
        <5>2. x = l[q]
          BY <1>4, <2>7, <5>1
        <5> QED BY <2>5, <4>2, <5>1, <5>2
      <4>3. CASE ~(p > Gone(c))
        <5>1. ASSUME NEW q \in 1..Len(l), x = l[q] PROVE FALSE
          <6>1. p = Gone(c) + q
            BY <2>4, <5>1
          <6> HIDE DEF l
          <6> QED BY <1>4, <4>3, <6>1
        <5> QED BY <2>5, <4>1, <4>3, <5>1
      <4> QED BY <4>2, <4>3
    <3> QED BY <2>1, <2>7, <3>1, <3>3
  <2> QED BY <2>6, <2>7
<1> QED BY <1>7, <1>9, <1>10 DEF Inv

LEMMA StepKeeps == Inv /\ [Next]_vars => Inv'
<1> SUFFICES ASSUME Inv, [Next]_vars PROVE Inv'
  OBVIOUS
<1>1. Types /\ Lefts /\ Homes
  BY DEF Inv
<1>2. ASSUME UNCHANGED <<config, waitFlag, children, ran, broken>>,
             master' \in {"forking", "waiting", "done", "failed"},
             master' = "done" => Len(children) = ForkCount
      PROVE  Inv'
  <2>1. Lefts' /\ Homes'
    BY <1>1, <1>2, HomesKept
  <2>2. ForkCount' = ForkCount /\ Analyses' = Analyses
    BY <1>2, Same
  <2>3. Types'
    BY <1>1, <1>2, <2>2 DEF Types
  <2> QED BY <2>1, <2>3 DEF Inv
<1>3. CASE Fork
  BY <1>3, ForkKeeps
<1>4. CASE ForkFail
  BY <1>2, <1>4 DEF ForkFail
<1>5. CASE Waited
  BY <1>2, <1>5 DEF Waited
<1>6. CASE MasterDone
  BY <1>2, <1>6 DEF MasterDone
<1>7. ASSUME NEW c \in DOMAIN children, ChildStep(c) PROVE Inv'
  BY <1>7, AnalyzeKeeps, ThrowKeeps, ExitKeeps DEF ChildStep
<1>8. CASE UNCHANGED vars
  BY <1>1, <1>2, <1>8 DEF vars, Types
<1> QED BY <1>3, <1>4, <1>5, <1>6, <1>7, <1>8 DEF Next, MasterStep

LEMMA Invariance == Spec => []Inv
<1> QED BY Starts, StepKeeps, PTL DEF Spec

\* Every analysis has a place in a batch.
LEMMA PlaceOf ==
  ASSUME Inv, NEW a \in Analyses
  PROVE  \E i \in 1..Len(BatchArray) : \E p \in 1..Len(BatchArray[i]) :
           /\ BatchArray[i][p] = a /\ i \in Nat /\ p \in Nat
           /\ i > Len(children) => ran[a] = 0 /\ a \notin broken
           /\ i <= Len(children) =>
                /\ ran[a] = IF p <= Gone(i) THEN 1 ELSE 0
                /\ a \in broken <=> p > Gone(i) /\ ~children[i].runs
<1>1. config \in Configs /\ Homes
  BY DEF Inv, Types
<1>2. PICK i \in 1..Len(BatchArray) : \E p \in 1..Len(BatchArray[i]) : BatchArray[i][p] = a
  <2>1. \A b \in Analyses :
          \E i \in 1..Len(BatchArray) : \E p \in 1..Len(BatchArray[i]) : BatchArray[i][p] = b
    BY <1>1, Batches
  <2> QED BY <2>1
<1>3. PICK p \in 1..Len(BatchArray[i]) : BatchArray[i][p] = a
  BY <1>2
<1>4. i \in Nat /\ p \in Nat
  BY <1>1, Batches
<1> QED BY <1>1, <1>3, <1>4 DEF Homes

\* Of every analysis a count of 0 or 1, and none of one that is broken.
LEMMA Counts ==
  ASSUME Inv, NEW a \in Analyses
  PROVE  ran[a] \in 0..1 /\ ran[a] <= IF a \in broken THEN 0 ELSE 1
<1>1. PICK i \in 1..Len(BatchArray) : \E p \in 1..Len(BatchArray[i]) :
        /\ i \in Nat /\ p \in Nat
        /\ i > Len(children) => ran[a] = 0 /\ a \notin broken
        /\ i <= Len(children) =>
             /\ ran[a] = IF p <= Gone(i) THEN 1 ELSE 0
             /\ a \in broken <=> p > Gone(i) /\ ~children[i].runs
  BY PlaceOf
<1>2. PICK p \in 1..Len(BatchArray[i]) :
        /\ i \in Nat /\ p \in Nat
        /\ i > Len(children) => ran[a] = 0 /\ a \notin broken
        /\ i <= Len(children) =>
             /\ ran[a] = IF p <= Gone(i) THEN 1 ELSE 0
             /\ a \in broken <=> p > Gone(i) /\ ~children[i].runs
  BY <1>1
<1>3. Len(children) \in Nat
  BY DEF Inv, Types
<1>4. CASE i > Len(children)
  BY <1>2, <1>4
<1>5. CASE i <= Len(children)
  <2>1. i \in 1..Len(children)
    BY <1>3, <1>5
  <2>2. Gone(i) \in Nat
    BY <2>1 DEF Inv, Lefts
  <2>3. p <= Gone(i) => ~(p > Gone(i))
    BY <1>2, <2>2
  <2> QED BY <1>2, <1>5, <2>3
<1> QED BY <1>2, <1>3, <1>4, <1>5

\* The type invariant: at most fork_count processes, each with analyses of
\* config.ini before it, and no analysis run more than once.
THEOREM TypeCorrect == Spec => []TypeOK
<1>1. Inv => TypeOK
  <2> SUFFICES ASSUME Inv PROVE TypeOK
    OBVIOUS
  <2>1. Types
    BY DEF Inv
  <2>2. ASSUME NEW c \in DOMAIN children
        PROVE  children[c].runs \in BOOLEAN /\ children[c].left \in Seq(Analyses)
    <3>1. c \in 1..Len(children)
      BY <2>1 DEF Types
    <3> QED BY <3>1, ChildAt
  <2>3. ran \in [Analyses -> 0..1]
    BY <2>1, Counts DEF Types
  <2> QED BY <2>1, <2>2, <2>3 DEF TypeOK, Types
<1> QED BY <1>1, Invariance, PTL

\* No analysis is run twice, and none that is said to be broken was run: for
\* all settings, those of the finding included.
THEOREM NoneTwice ==
  Spec => [](\A a \in Analyses : ran[a] <= IF a \in broken THEN 0 ELSE 1)
<1>1. Inv => \A a \in Analyses : ran[a] <= IF a \in broken THEN 0 ELSE 1
  BY Counts
<1> QED BY <1>1, Invariance, PTL

\* When master and children are through, every analysis was run once, unless
\* an exception came before it: for settings whose batches have a process
\* each. In the others getBatchArray makes more batches than processes, which
\* is the finding of the run analyzer_rest.
THEOREM AllRunHolds ==
  ASSUME \A c \in Configs : Fits(c)
  PROVE  Spec => []AllRunOnce
<1>1. Inv => AllRunOnce
  <2> SUFFICES ASSUME Inv PROVE AllRunOnce
    OBVIOUS
  <2>1. \A a \in Analyses : ran[a] <= IF a \in broken THEN 0 ELSE 1
    BY Counts
  <2>2. ASSUME master = "done", \A c \in DOMAIN children : ~children[c].runs,
               NEW a \in Analyses
        PROVE  ran[a] = 1 \/ a \in broken
    <3>1. Types
      BY DEF Inv
    <3>2. Len(children) = ForkCount /\ config \in Configs /\ Len(children) \in Nat
      BY <2>2, <3>1 DEF Types
    <3>3. Len(BatchArray) <= Len(children) /\ Len(BatchArray) \in Nat
      BY <3>2, BatchDeals, Batches
    <3>4. PICK i \in 1..Len(BatchArray) : \E p \in 1..Len(BatchArray[i]) :
            /\ i \in Nat /\ p \in Nat
            /\ i <= Len(children) =>
                 /\ ran[a] = IF p <= Gone(i) THEN 1 ELSE 0
                 /\ a \in broken <=> p > Gone(i) /\ ~children[i].runs
      BY PlaceOf
    <3>5. PICK p \in 1..Len(BatchArray[i]) :
            /\ i \in Nat /\ p \in Nat
            /\ i <= Len(children) =>
                 /\ ran[a] = IF p <= Gone(i) THEN 1 ELSE 0
                 /\ a \in broken <=> p > Gone(i) /\ ~children[i].runs
      BY <3>4
    <3>6. i \in 1..Len(children) /\ i \in DOMAIN children /\ i <= Len(children)
      BY <3>1, <3>2, <3>3 DEF Types
    <3>7. Gone(i) \in Nat
      BY <3>6 DEF Inv, Lefts
    <3>8. p <= Gone(i) \/ p > Gone(i)
      BY <3>5, <3>7
    <3> QED BY <2>2, <3>5, <3>6, <3>8
  <2> QED BY <2>1, <2>2 DEF AllRunOnce
<1> QED BY <1>1, Invariance, PTL
=============================================================================
