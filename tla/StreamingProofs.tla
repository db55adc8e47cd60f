---------------------------- MODULE StreamingProofs ----------------------------
(***************************************************************************)
(* The budget of a streamed answer is exact, for every byte limit and      *)
(* every sequence of chunks, and the task leaves nothing open and loses no *)
(* cancellation, however often it is cancelled.                            *)
(*                                                                         *)
(* The exact check adds up whole strings and the loop adds up fragments,   *)
(* both with a fold.  What a fold computes is shown by induction: a set of *)
(* naturals has a least element, so a set that holds 0 and with i also     *)
(* i + 1 holds every i; a fold exists because it can be extended by one    *)
(* element, and is followed prefix by prefix.                              *)
(***************************************************************************)
EXTENDS Streaming, FiniteSetTheorems, SequenceTheorems, WellFoundedInduction, TLAPS

\* A set of naturals that is not empty has a least element.
LEMMA LeastNatural ==
  ASSUME NEW T \in SUBSET Nat, T # {}
  PROVE  \E n \in T : \A m \in T : n <= m
<1> DEFINE R == OpToRel(<, Nat)
<1>1. IsWellFoundedOn(R, Nat)
  BY NatLessThanWellFounded
<1>2. \E n \in T : \A m \in T : ~ (<<m, n>> \in R)
  <2> HIDE DEF R
  <2> QED BY <1>1, WFMin
<1>3. ASSUME NEW m \in Nat, NEW n \in Nat, m < n
      PROVE  <<m, n>> \in R
  BY <1>3, Zenon DEF OpToRel
<1>4. PICK n \in T : \A m \in T : ~ (<<m, n>> \in R)
  BY <1>2
<1>5. ASSUME NEW m \in T PROVE n <= m
  <2> HIDE DEF R
  <2>1. ~(m < n)
    BY <1>4, <1>3
  <2>2. QED
    BY <2>1
<1>6. QED
  BY <1>5

\* Induction: what holds of 0, and of i + 1 whenever it holds of i, holds up to n.
LEMMA CountUp ==
  ASSUME NEW n \in Nat, NEW T, 0 \in T, \A i \in 0 .. n - 1 : i \in T => i + 1 \in T
  PROVE  0 .. n \subseteq T
<1> DEFINE U == {i \in 0 .. n : i \notin T}
<1> SUFFICES ASSUME U # {} PROVE FALSE
  OBVIOUS
<1>1. U \in SUBSET Nat
  OBVIOUS
<1>2. PICK i \in U : \A j \in U : i <= j
  <2> HIDE DEF U
  <2> QED BY <1>1, LeastNatural
<1>3. i # 0 /\ i - 1 \in 0 .. n - 1 /\ i - 1 \notin U
  BY <1>2
<1>4. QED
  BY <1>2, <1>3

\* The total of a sequence is what the recursive function inside the fold returns.
LEMMA TotalFold ==
  ASSUME NEW s \in Seq(Nat)
  PROVE Total(s) = 
   (CHOOSE g : g = [w \in SUBSET (DOMAIN s) |-> IF w = {} THEN 0 ELSE g[w \ {Max(w)}] + s[Max(w)]])[DOMAIN s]
BY Zenon DEF Total, FoldLeft, MapThenFoldSet

\* f is the function inside a fold over the first k places of q, from the last place
\* to the first.
Folds(f, base, step, q, k) ==
  \A w \in SUBSET (1 .. k) :
    f[w] = IF w = {} THEN base ELSE step[<<f[w \ {Max(w)}], q[Max(w)]>>]

\* The last place of a set that holds the last place there is.
LEMMA MaxOfUpTo ==
  ASSUME NEW k \in Nat, NEW w \in SUBSET (1 .. k + 1), k + 1 \in w
  PROVE  Max(w) = k + 1
<1>1. \A y \in w : k + 1 >= y
  OBVIOUS
<1>2. \A x \in w : (\A y \in w : x >= y) => x = k + 1
  OBVIOUS
<1>3. QED
  BY <1>1, <1>2, Zenon DEF Max

\* A set of places that is not empty has a last one.
LEMMA MaxIsIn ==
  ASSUME NEW n \in Nat, NEW w \in SUBSET (1 .. n), w # {}
  PROVE  Max(w) \in w
<1> DEFINE Above == {n - x : x \in w}
<1>0. \A x \in w : x \in Nat /\ x <= n
  OBVIOUS
<1>1. Above \in SUBSET Nat /\ Above # {}
  <2>1. \A x \in w : n - x \in Nat
    BY <1>0
  <2>2. QED
    BY <2>1
<1>2. PICK d \in Above : \A e \in Above : d <= e
  <2> HIDE DEF Above
  <2> QED BY <1>1, LeastNatural
<1>3. PICK x \in w : d = n - x
  BY <1>2
<1>4. \A y \in w : x >= y
  <2> TAKE y \in w
  <2>1. n - y \in Above
    OBVIOUS
  <2>2. n - x <= n - y
    BY <1>2, <1>3, <2>1
  <2>3. x \in Nat /\ y \in Nat
    BY <1>0
  <2>4. QED
    BY <2>2, <2>3
<1>5. QED
  BY <1>4, Zenon DEF Max

\* There is such a function: one for k places is extended to k + 1.
LEMMA FoldExists ==
  ASSUME NEW S, NEW T, NEW base \in S, NEW step \in [S \X T -> S],
         NEW n \in Nat, NEW q \in [1 .. n -> T]
  PROVE  \E f \in [SUBSET (1 .. n) -> S] : Folds(f, base, step, q, n)
<1> DEFINE Good == {k \in 0 .. n : \E f \in [SUBSET (1 .. k) -> S] : Folds(f, base, step, q, k)}
<1>1. 0 \in Good
  <2> DEFINE f == [w \in SUBSET (1 .. 0) |-> base]
  <2>1. 1 .. 0 = {}
    OBVIOUS
  <2>2. \A w \in SUBSET (1 .. 0) : w = {}
    BY <2>1
  <2>3. f \in [SUBSET (1 .. 0) -> S] /\ Folds(f, base, step, q, 0)
    BY <2>2 DEF Folds
  <2>4. QED
    BY <2>3
<1>2. ASSUME NEW k \in 0 .. n - 1, k \in Good
      PROVE  k + 1 \in Good
  <2>1. PICK g \in [SUBSET (1 .. k) -> S] : Folds(g, base, step, q, k)
    BY <1>2
  <2> DEFINE f == [w \in SUBSET (1 .. k + 1) |->
                     IF k + 1 \in w THEN step[<<g[w \ {k + 1}], q[k + 1]>>] ELSE g[w]]
  <2>2. k + 1 \in 1 .. n /\ q[k + 1] \in T /\ k \in Nat
    OBVIOUS
  <2>3. ASSUME NEW w \in SUBSET (1 .. k + 1)
        PROVE  /\ w \ {k + 1} \in SUBSET (1 .. k)
               /\ k + 1 \notin w => w \in SUBSET (1 .. k)
    OBVIOUS
  <2>4. f \in [SUBSET (1 .. k + 1) -> S]
    <3>1. ASSUME NEW w \in SUBSET (1 .. k + 1)
          PROVE  (IF k + 1 \in w THEN step[<<g[w \ {k + 1}], q[k + 1]>>] ELSE g[w]) \in S
      <4>1. CASE k + 1 \in w
        <5>1. g[w \ {k + 1}] \in S
          BY <2>3
        <5>2. <<g[w \ {k + 1}], q[k + 1]>> \in S \X T
          BY <5>1, <2>2
        <5>3. QED
          BY <5>2, <4>1
      <4>2. CASE k + 1 \notin w
        BY <4>2, <2>3
      <4>3. QED
        BY <4>1, <4>2
    <3>2. QED
      BY <3>1
  <2>5. ASSUME NEW w \in SUBSET (1 .. k + 1)
        PROVE  f[w] = IF w = {} THEN base ELSE step[<<f[w \ {Max(w)}], q[Max(w)]>>]
    <3>1. \A u \in SUBSET (1 .. k) : u \in SUBSET (1 .. k + 1) /\ f[u] = g[u]
      <4> TAKE u \in SUBSET (1 .. k)
      <4>1. k + 1 \notin u /\ u \in SUBSET (1 .. k + 1)
        BY <2>2
      <4>2. QED
        BY <4>1
    <3>2. CASE k + 1 \in w
      <4>1. Max(w) = k + 1 /\ w # {}
        BY <3>2, <2>2, MaxOfUpTo
      <4>2. f[w] = step[<<g[w \ {k + 1}], q[k + 1]>>]
        BY <3>2
      <4>3. f[w \ {k + 1}] = g[w \ {k + 1}]
        BY <3>1, <2>3
      <4> HIDE DEF f
      <4>4. QED
        BY <4>1, <4>2, <4>3
    <3>3. CASE k + 1 \notin w
      <4>1. w \in SUBSET (1 .. k)
        BY <2>3, <3>3
      <4>2. w \ {Max(w)} \in SUBSET (1 .. k)
        BY <4>1
      <4>3. f[w] = g[w] /\ f[w \ {Max(w)}] = g[w \ {Max(w)}]
        BY <3>1, <4>1, <4>2
      <4> HIDE DEF f
      <4>4. QED
        BY <4>1, <4>3, <2>1 DEF Folds
    <3>4. QED
      BY <3>2, <3>3
  <2>6. Folds(f, base, step, q, k + 1)
    <3> HIDE DEF f
    <3> QED BY <2>5 DEF Folds
  <2>7. QED
    <3> HIDE DEF f
    <3> QED BY <2>4, <2>6, <2>2
<1>3. n \in Good
  <2>1. 0 .. n \subseteq Good
    <3> HIDE DEF Good
    <3> QED BY <1>1, <1>2, CountUp
  <2> HIDE DEF Good
  <2>2. QED
    BY <2>1
<1>4. QED
  BY <1>3

\* The last place of the first j is j, and without it they are the first j - 1.
LEMMA Prefix ==
  ASSUME NEW n \in Nat, NEW j \in 1 .. n
  PROVE  /\ 1 .. j \in SUBSET (1 .. n)
         /\ 1 .. j # {}
         /\ Max(1 .. j) = j
         /\ (1 .. j) \ {Max(1 .. j)} = 1 .. j - 1
<1>1. j - 1 \in Nat /\ (j - 1) + 1 = j /\ 1 .. j \in SUBSET (1 .. (j - 1) + 1)
      /\ j \in 1 .. j /\ 1 .. j \in SUBSET (1 .. n)
  OBVIOUS
<1>2. Max(1 .. j) = j
  BY <1>1, MaxOfUpTo
<1>3. \A i : i \in (1 .. j) \ {j} <=> i \in 1 .. j - 1
  OBVIOUS
<1>4. QED
  BY <1>1, <1>2, <1>3

\* A total is reached by partial sums.
LEMMA TotalSums ==
  ASSUME NEW s \in Seq(Nat)
  PROVE  \E h \in [0 .. Len(s) -> Nat] :
           /\ h[0] = 0
           /\ \A j \in 1 .. Len(s) : h[j] = h[j - 1] + s[j]
           /\ Total(s) = h[Len(s)]
<1> DEFINE n == Len(s)
           step == [x \in Nat \X Nat |-> x[1] + x[2]]
           Iterates(g) == g = [w \in SUBSET (1 .. n) |->
                                 IF w = {} THEN 0 ELSE g[w \ {Max(w)}] + s[Max(w)]]
           iter == CHOOSE g : Iterates(g)
<1>1. n \in Nat /\ DOMAIN s = 1 .. n /\ s \in [1 .. n -> Nat]
  BY LenProperties
<1>2. Total(s) = iter[1 .. n]
  BY <1>1, TotalFold
<1>3. step \in [Nat \X Nat -> Nat]
  OBVIOUS
<1>4. \A a, b \in Nat : step[<<a, b>>] = a + b
  OBVIOUS
<1> HIDE DEF n, step
<1>5. PICK f \in [SUBSET (1 .. n) -> Nat] : Folds(f, 0, step, s, n)
  BY <1>1, <1>3, FoldExists
<1>6. Iterates(f)
  <2>1. ASSUME NEW w \in SUBSET (1 .. n)
        PROVE  f[w] = IF w = {} THEN 0 ELSE f[w \ {Max(w)}] + s[Max(w)]
    <3>1. CASE w = {}
      BY <3>1, <1>5 DEF Folds
    <3>2. CASE w # {}
      <4>1. Max(w) \in 1 .. n /\ w \ {Max(w)} \in SUBSET (1 .. n)
        BY <3>2, <1>1, MaxIsIn
      <4>2. f[w \ {Max(w)}] \in Nat /\ s[Max(w)] \in Nat
        BY <4>1, <1>1
      <4>3. f[w] = step[<<f[w \ {Max(w)}], s[Max(w)]>>]
        BY <3>2, <1>5 DEF Folds
      <4>4. QED
        BY <4>2, <4>3, <1>4, <3>2
    <3>3. QED
      BY <3>1, <3>2
  <2>2. QED
    BY <2>1
<1>7. Iterates(iter)
  <2> HIDE DEF Iterates
  <2> QED BY <1>6
<1> HIDE DEF iter
<1>8. ASSUME NEW j \in 1 .. n PROVE iter[1 .. j] = iter[1 .. j - 1] + s[j]
  <2>1. /\ 1 .. j \in SUBSET (1 .. n) /\ 1 .. j # {} /\ Max(1 .. j) = j
        /\ (1 .. j) \ {Max(1 .. j)} = 1 .. j - 1
    BY <1>1, Prefix
  <2>2. iter[1 .. j] = iter[(1 .. j) \ {Max(1 .. j)}] + s[Max(1 .. j)]
    BY <2>1, <1>7
  <2>3. QED
    BY <2>1, <2>2
<1> DEFINE Good == {j \in 0 .. n : iter[1 .. j] \in Nat}
<1>9. iter[1 .. 0] = 0
  <2>1. 1 .. 0 = {} /\ {} \in SUBSET (1 .. n)
    OBVIOUS
  <2>2. iter[{}] = 0
    BY <2>1, <1>7
  <2>3. QED
    BY <2>1, <2>2
<1>10. 0 \in Good
  BY <1>1, <1>9
<1>11. ASSUME NEW j \in 0 .. n - 1, j \in Good PROVE j + 1 \in Good
  <2>1. j + 1 \in 1 .. n /\ j + 1 \in 0 .. n /\ (j + 1) - 1 = j /\ s[j + 1] \in Nat
    BY <1>1
  <2>2. iter[1 .. j + 1] = iter[1 .. j] + s[j + 1]
    BY <2>1, <1>8
  <2>3. QED
    BY <2>1, <2>2, <1>11
<1>12. 0 .. n \subseteq Good
  <2> HIDE DEF Good
  <2> QED BY <1>1, <1>10, <1>11, CountUp
<1> DEFINE h == [j \in 0 .. n |-> iter[1 .. j]]
<1>13. h \in [0 .. n -> Nat]
  BY <1>12
<1>14. h[0] = 0 /\ h[n] = Total(s)
  BY <1>1, <1>2, <1>9
<1>15. ASSUME NEW j \in 1 .. n PROVE h[j] = h[j - 1] + s[j]
  <2>1. j \in 0 .. n /\ j - 1 \in 0 .. n
    BY <1>1
  <2>2. QED
    BY <2>1, <1>8
<1>16. QED
  <2> HIDE DEF h
  <2> QED BY <1>13, <1>14, <1>15 DEF n

\* r is s with b more at the place k.
Grown(s, k, b, r) ==
  Len(r) = Len(s) /\ \A i \in 1 .. Len(s) : r[i] = IF i = k THEN s[i] + b ELSE s[i]

\* A summand that grows by b adds b to the total.
LEMMA TotalChanged ==
  ASSUME NEW s \in Seq(Nat), NEW k \in 1 .. Len(s), NEW b \in Nat,
         NEW r \in Seq(Nat), Grown(s, k, b, r)
  PROVE  Total(r) = Total(s) + b
<1> DEFINE n == Len(s)
<1>1. /\ n \in Nat /\ r \in Seq(Nat) /\ Len(r) = n
      /\ \A i \in 1 .. n : s[i] \in Nat /\ r[i] = IF i = k THEN s[i] + b ELSE s[i]
      /\ k \in 1 .. n
  BY DEF Grown
<1> HIDE DEF n
<1>2. PICK h \in [0 .. n -> Nat] :
        h[0] = 0 /\ (\A j \in 1 .. n : h[j] = h[j - 1] + s[j]) /\ Total(s) = h[n]
  BY TotalSums DEF n
<1>3. PICK g \in [0 .. n -> Nat] :
        g[0] = 0 /\ (\A j \in 1 .. n : g[j] = g[j - 1] + r[j]) /\ Total(r) = g[n]
  BY <1>1, TotalSums
<1> DEFINE Above == {j \in 0 .. n : g[j] = h[j] + (IF j >= k THEN b ELSE 0)}
<1>4. 0 \in Above
  BY <1>1, <1>2, <1>3 DEF n
<1>5. ASSUME NEW j \in 0 .. n - 1, j \in Above PROVE j + 1 \in Above
  <2>1. j + 1 \in 1 .. n /\ (j + 1) - 1 = j /\ j \in 0 .. n /\ j + 1 \in 0 .. n
    BY <1>1
  <2>2. h[j + 1] = h[j] + s[j + 1] /\ g[j + 1] = g[j] + r[j + 1]
    BY <2>1, <1>2, <1>3
  <2>3. s[j + 1] \in Nat /\ r[j + 1] = IF j + 1 = k THEN s[j + 1] + b ELSE s[j + 1]
    BY <2>1, <1>1
  <2>4. h[j] \in Nat /\ k \in Nat
    BY <1>1, <2>1
  <2>7. g[j] = h[j] + (IF j >= k THEN b ELSE 0)
    BY <1>5
  <2>5. g[j + 1] = h[j + 1] + (IF j + 1 >= k THEN b ELSE 0)
    <3>1. CASE j + 1 = k
      BY <3>1, <2>1, <2>2, <2>3, <2>4, <2>7
    <3>2. CASE j + 1 # k
      <4>1. g[j + 1] = h[j] + (IF j >= k THEN b ELSE 0) + s[j + 1]
        BY <3>2, <2>2, <2>3, <2>7
      <4>2. j >= k <=> j + 1 >= k
        BY <3>2, <2>1, <2>4
      <4>3. QED
        BY <4>1, <4>2, <2>2, <2>3, <2>4
    <3>3. QED
      BY <3>1, <3>2
  <2>6. QED
    BY <2>1, <2>5
<1>6. 0 .. n \subseteq Above
  <2> HIDE DEF Above
  <2> QED BY <1>1, <1>4, <1>5, CountUp
<1>7. n \in 0 .. n /\ n >= k
  BY <1>1
<1>8. QED
  BY <1>2, <1>3, <1>6, <1>7

\* A new summand is added to the total.
LEMMA TotalAppend ==
  ASSUME NEW s \in Seq(Nat), NEW b \in Nat
  PROVE  Total(Append(s, b)) = Total(s) + b
<1> DEFINE r == Append(s, b)
           n == Len(s)
<1>1. /\ n \in Nat /\ r \in Seq(Nat) /\ Len(r) = n + 1
      /\ \A i \in 1 .. n : r[i] = s[i]
      /\ r[n + 1] = b
  OBVIOUS
<1> HIDE DEF r, n
<1>2. PICK h \in [0 .. n -> Nat] :
        h[0] = 0 /\ (\A j \in 1 .. n : h[j] = h[j - 1] + s[j]) /\ Total(s) = h[n]
  BY TotalSums DEF n
<1>3. PICK g \in [0 .. n + 1 -> Nat] :
        g[0] = 0 /\ (\A j \in 1 .. n + 1 : g[j] = g[j - 1] + r[j]) /\ Total(r) = g[n + 1]
  BY <1>1, TotalSums
<1> DEFINE Same == {j \in 0 .. n : g[j] = h[j]}
<1>4. 0 \in Same
  BY <1>1, <1>2, <1>3
<1>5. ASSUME NEW j \in 0 .. n - 1, j \in Same PROVE j + 1 \in Same
  <2>1. j + 1 \in 1 .. n /\ j + 1 \in 1 .. n + 1 /\ (j + 1) - 1 = j /\ j + 1 \in 0 .. n
    BY <1>1
  <2>2. h[j + 1] = h[j] + s[j + 1] /\ g[j + 1] = g[j] + r[j + 1] /\ r[j + 1] = s[j + 1]
    BY <2>1, <1>1, <1>2, <1>3
  <2>3. QED
    BY <2>1, <2>2, <1>5
<1>6. 0 .. n \subseteq Same
  <2> HIDE DEF Same
  <2> QED BY <1>1, <1>4, <1>5, CountUp
<1>7. n \in 0 .. n /\ n + 1 \in 1 .. n + 1 /\ (n + 1) - 1 = n
  BY <1>1
<1>8. g[n + 1] = g[n] + b /\ g[n] = h[n]
  BY <1>1, <1>3, <1>6, <1>7
<1>9. QED
  BY <1>2, <1>3, <1>8 DEF r

\* A total is a natural number, and 0 if there is nothing to add up.
LEMMA TotalNatural ==
  ASSUME NEW s \in Seq(Nat)
  PROVE  Total(s) \in Nat /\ (s = <<>> => Total(s) = 0)
<1>1. PICK h \in [0 .. Len(s) -> Nat] : h[0] = 0 /\ Total(s) = h[Len(s)]
  BY TotalSums
<1>2. QED
  BY <1>1

-----------------------------------------------------------------------------
\* The size of an empty call is a natural number.
LEMMA DigitsNatural ==
  ASSUME NEW index \in Int
  PROVE  EmptyCall(index) \in Nat
<1> DEFINE powers == {power \in {10, 100, 1000, 10000, 100000} : power <= index}
<1>1. powers \in SUBSET Nat /\ \A power \in powers : power <= 100000
  OBVIOUS
<1>2. Digits(index) = 1 + Cardinality(powers)
  BY DEF Digits
<1> HIDE DEF powers
<1>3. Cardinality(powers) \in Nat
  <2>1. IsFiniteSet(powers)
    BY <1>1, 100000 \in Nat, FS_BoundedSetOfNaturals
  <2>2. QED
    BY <2>1, FS_CardinalityType
<1>4. Digits(index) \in Nat
  BY <1>2, <1>3
<1>5. QED
  BY <1>4 DEF EmptyCall

\* The sizes of the entries: one for each call, and a new call adds that of an empty one.
LEMMA EntrySizesOf ==
  ASSUME NEW calls \in Seq(Nat)
  PROVE  /\ EntrySizes(calls) \in Seq(Nat)
         /\ calls = <<>> => EntrySizes(calls) = <<>>
         /\ EntrySizes(Append(calls, 0)) = Append(EntrySizes(calls), EmptyCall(Len(calls)))
         /\ Len(EntrySizes(calls)) = Len(calls)
<1> DEFINE n == Len(calls)
<1>1. n \in Nat /\ DOMAIN calls = 1 .. n /\ \A i \in 1 .. n : calls[i] \in Nat
  BY LenProperties
<1>2. ASSUME NEW i \in 1 .. n PROVE EmptyCall(i - 1) + calls[i] \in Nat
  <2>1. EmptyCall(i - 1) \in Nat
    BY i - 1 \in Int, DigitsNatural
  <2>2. QED
    BY <2>1, <1>1
<1>3. EntrySizes(calls) = [i \in 1 .. n |-> EmptyCall(i - 1) + calls[i]]
  BY <1>1 DEF EntrySizes
<1>4. EntrySizes(calls) \in Seq(Nat) /\ Len(EntrySizes(calls)) = n
  BY <1>1, <1>2, <1>3
<1>5. ASSUME calls = <<>> PROVE EntrySizes(calls) = <<>>
  BY <1>4, <1>5
<1>6. EntrySizes(Append(calls, 0)) = Append(EntrySizes(calls), EmptyCall(Len(calls)))
  <2> DEFINE more == Append(calls, 0)
  <2>1. /\ DOMAIN more = 1 .. n + 1 /\ more[n + 1] = 0
        /\ \A i \in 1 .. n : more[i] = calls[i]
    OBVIOUS
  <2> HIDE DEF more
  <2>2. EntrySizes(more) = [i \in 1 .. n + 1 |-> EmptyCall(i - 1) + more[i]]
    BY <2>1 DEF EntrySizes
  <2> DEFINE longer == Append(EntrySizes(calls), EmptyCall(n))
  <2>3. /\ longer \in [1 .. n + 1 -> Nat] /\ longer[n + 1] = EmptyCall(n)
        /\ \A i \in 1 .. n : longer[i] = EntrySizes(calls)[i]
    <3>1. EmptyCall(n) \in Nat
      BY <1>1, DigitsNatural
    <3> DEFINE sizes == EntrySizes(calls)
    <3>2. sizes \in Seq(Nat) /\ Len(sizes) = n /\ n \in Nat
      BY <1>1, <1>4
    <3> HIDE DEF sizes, n
    <3>3. /\ Append(sizes, EmptyCall(n)) \in [1 .. n + 1 -> Nat]
          /\ Append(sizes, EmptyCall(n))[n + 1] = EmptyCall(n)
          /\ \A i \in 1 .. n : Append(sizes, EmptyCall(n))[i] = sizes[i]
      <4>1. /\ Append(sizes, EmptyCall(n)) \in Seq(Nat)
            /\ Len(Append(sizes, EmptyCall(n))) = n + 1
        BY <3>1, <3>2
      <4>2. Append(sizes, EmptyCall(n))[n + 1] = EmptyCall(n)
        BY <3>1, <3>2
      <4>3. \A i \in 1 .. n : Append(sizes, EmptyCall(n))[i] = sizes[i]
        BY <3>1, <3>2
      <4> HIDE DEF longer
      <4>4. QED
        BY <4>1, <4>2, <4>3, LenProperties
    <3>4. QED
      BY <3>3 DEF sizes
  <2> HIDE DEF longer
  <2>4. ASSUME NEW i \in 1 .. n + 1 PROVE longer[i] = EmptyCall(i - 1) + more[i]
    <3>1. CASE i = n + 1
      BY <3>1, <2>1, <2>3, <1>1, DigitsNatural
    <3>2. CASE i \in 1 .. n
      BY <3>2, <2>1, <2>3, <1>3
    <3>3. QED
      BY <3>1, <3>2, <1>1
  <2>5. longer = [i \in 1 .. n + 1 |-> EmptyCall(i - 1) + more[i]]
    BY <2>3, <2>4
  <2>6. QED
    BY <2>2, <2>5 DEF more, longer
<1>7. QED
  BY <1>4, <1>5, <1>6

\* A call that grows makes its entry grow by as much.
LEMMA EntrySizesChanged ==
  ASSUME NEW calls \in Seq(Nat), NEW k \in 1 .. Len(calls), NEW b \in Nat,
         NEW more \in Seq(Nat), Grown(calls, k, b, more)
  PROVE  Grown(EntrySizes(calls), k, b, EntrySizes(more))
<1> DEFINE n == Len(calls)
<1>1. /\ n \in Nat /\ DOMAIN calls = 1 .. n /\ DOMAIN more = 1 .. n
      /\ \A i \in 1 .. n : calls[i] \in Nat
  BY LenProperties DEF Grown
<1>2. /\ EntrySizes(calls) = [i \in 1 .. n |-> EmptyCall(i - 1) + calls[i]]
      /\ EntrySizes(more) = [i \in 1 .. n |-> EmptyCall(i - 1) + more[i]]
  BY <1>1 DEF EntrySizes
<1>3. Len(EntrySizes(calls)) = n /\ Len(EntrySizes(more)) = n
  BY EntrySizesOf DEF Grown
<1>4. ASSUME NEW i \in 1 .. n
      PROVE  EntrySizes(more)[i] =
               IF i = k THEN EntrySizes(calls)[i] + b ELSE EntrySizes(calls)[i]
  <2>1. EmptyCall(i - 1) \in Nat /\ calls[i] \in Nat
    BY i - 1 \in Int, <1>1, DigitsNatural
  <2>2. /\ EntrySizes(calls)[i] = EmptyCall(i - 1) + calls[i]
        /\ EntrySizes(more)[i] = EmptyCall(i - 1) + more[i]
    BY <1>2
  <2>3. more[i] = IF i = k THEN calls[i] + b ELSE calls[i]
    BY DEF Grown
  <2>4. QED
    BY <2>1, <2>2, <2>3
<1>5. QED
  BY <1>3, <1>4 DEF Grown

-----------------------------------------------------------------------------
\* What the loop assembles.
Messages ==
  [text : Nat, calls : Seq(Nat), size : Nat,
   finish : {"none", "stop", "tool_calls", "length"}, verdict : {"none", "limit", "invalid"}]

\* The messages whose budget is exact: the bytes counted are those of the whole, and
\* the limit is exceeded exactly when the verdict says so.
Exactly ==
  {m \in Messages :
     /\ m.verdict = "none" => m.size = Serialized(m) /\ m.size <= MaxBytes
     /\ m.verdict = "limit" => Serialized(m) > MaxBytes}

\* The length of the whole is a natural number.
LEMMA SerializedNatural ==
  ASSUME NEW m \in Messages
  PROVE  Serialized(m) \in Nat
<1>1. Total(EntrySizes(m.calls)) \in Nat
  BY EntrySizesOf, TotalNatural DEF Messages
<1>2. (IF m.calls = <<>> THEN 0 ELSE 2 * (Len(m.calls) - 1)) \in Nat
  <2>1. m.calls # <<>> => Len(m.calls) \in Nat \ {0}
    BY DEF Messages
  <2>2. QED
    BY <2>1
<1>3. QED
  BY <1>1, <1>2 DEF Messages, Serialized

\* More text adds its bytes to the whole.
LEMMA SerializedText ==
  ASSUME NEW m \in Messages, NEW b \in Nat, NEW r \in Messages,
         r.text = m.text + b, r.calls = m.calls
  PROVE  Serialized(r) = Serialized(m) + b
<1>1. Total(EntrySizes(m.calls)) \in Nat
  BY EntrySizesOf, TotalNatural DEF Messages
<1>2. (IF m.calls = <<>> THEN 0 ELSE 2 * (Len(m.calls) - 1)) \in Int
  BY DEF Messages
<1>3. QED
  BY <1>1, <1>2 DEF Messages, Serialized

\* More of a call adds its bytes to the whole.
LEMMA SerializedCall ==
  ASSUME NEW m \in Messages, NEW k \in 1 .. Len(m.calls), NEW b \in Nat, NEW r \in Messages,
         r.text = m.text, Grown(m.calls, k, b, r.calls)
  PROVE  Serialized(r) = Serialized(m) + b
<1> DEFINE sizes == EntrySizes(m.calls)
           larger == EntrySizes(r.calls)
<1>1. m.calls \in Seq(Nat) /\ r.calls \in Seq(Nat) /\ m.text \in Nat
  BY DEF Messages
<1>2. sizes \in Seq(Nat) /\ larger \in Seq(Nat) /\ Len(sizes) = Len(m.calls)
  BY <1>1, EntrySizesOf
<1>3. Grown(sizes, k, b, larger)
  BY <1>1, EntrySizesChanged
<1>4. m.calls # <<>> /\ r.calls # <<>> /\ Len(r.calls) = Len(m.calls) /\ Len(m.calls) \in Nat
  BY <1>1 DEF Grown
<1>5. Serialized(r) = 8 + m.text + Total(larger) + 2 * (Len(m.calls) - 1)
  BY <1>4 DEF Serialized
<1>6. Serialized(m) = 8 + m.text + Total(sizes) + 2 * (Len(m.calls) - 1)
  BY <1>4 DEF Serialized
<1> HIDE DEF sizes, larger
<1>7. Total(larger) = Total(sizes) + b /\ Total(sizes) \in Nat
  BY <1>2, <1>3, TotalChanged, TotalNatural
<1>8. QED
  BY <1>1, <1>4, <1>5, <1>6, <1>7

\* A new call adds its entry, and a comma unless it is the first.
LEMMA SerializedEntry ==
  ASSUME NEW m \in Messages, NEW r \in Messages,
         r.text = m.text, r.calls = Append(m.calls, 0)
  PROVE  Serialized(r) = Serialized(m) + Entry(m.calls) /\ Entry(m.calls) \in Nat
<1> DEFINE sizes == EntrySizes(m.calls)
           entry == EmptyCall(Len(m.calls))
<1>1. m.calls \in Seq(Nat) /\ m.text \in Nat /\ Len(m.calls) \in Nat
  BY DEF Messages
<1>2. entry \in Nat
  BY <1>1, Len(m.calls) \in Int, DigitsNatural
<1>3. sizes \in Seq(Nat) /\ EntrySizes(r.calls) = Append(sizes, entry)
  BY <1>1, EntrySizesOf
<1>4. Entry(m.calls) = entry + (IF m.calls = <<>> THEN 0 ELSE 2)
  BY DEF Entry
<1> HIDE DEF sizes, entry
<1>5. Total(EntrySizes(r.calls)) = Total(sizes) + entry /\ Total(sizes) \in Nat
  BY <1>2, <1>3, TotalAppend, TotalNatural
<1>6. r.calls # <<>> /\ Len(r.calls) = Len(m.calls) + 1 /\ (m.calls = <<>> <=> Len(m.calls) = 0)
  BY <1>1
<1>7. Serialized(r) = 8 + m.text + (Total(sizes) + entry) + 2 * Len(m.calls)
  BY <1>1, <1>5, <1>6 DEF Serialized
<1>8. Serialized(m) = 8 + m.text + Total(sizes)
                        + (IF m.calls = <<>> THEN 0 ELSE 2 * (Len(m.calls) - 1))
  BY DEF Serialized, sizes
<1>9. CASE m.calls = <<>>
  BY <1>1, <1>2, <1>4, <1>5, <1>6, <1>7, <1>8, <1>9
<1>10. CASE m.calls # <<>>
  <2>1. Entry(m.calls) = entry + 2
        /\ Serialized(m) = 8 + m.text + Total(sizes) + 2 * (Len(m.calls) - 1)
    BY <1>4, <1>8, <1>10
  <2>2. Serialized(r) = Serialized(m) + (entry + 2)
    <3>1. m.text \in Nat /\ Len(m.calls) \in Nat /\ Total(sizes) \in Nat
      BY <1>1, <1>5
    <3>2. Serialized(r) = 8 + m.text + (Total(sizes) + entry) + 2 * Len(m.calls)
      BY <1>7
    <3>3. Serialized(m) = 8 + m.text + Total(sizes) + 2 * (Len(m.calls) - 1)
      BY <2>1
    <3> HIDE DEF entry, sizes
    <3>6. PICK e \in Nat : e = entry
      BY <1>2
    <3>7. PICK t \in Nat : t = Total(sizes)
      BY <3>1
    <3>8. PICK l \in Nat : l = Len(m.calls)
      BY <3>1
    <3>9. PICK x \in Nat : x = m.text
      BY <3>1
    <3>10. Serialized(r) = 8 + x + (t + e) + 2 * l
      BY <3>2, <3>6, <3>7, <3>8, <3>9
    <3>11. Serialized(m) = 8 + x + t + 2 * (l - 1)
      BY <3>3, <3>6, <3>7, <3>8, <3>9
    <3>4. QED
      BY <3>10, <3>11, <3>6
  <2>3. QED
    BY <1>2, <2>1, <2>2
<1>11. QED
  BY <1>9, <1>10

\* _StreamBudget.add counts the bytes and refuses them if they are too many.
LEMMA AddStep ==
  ASSUME NEW m \in Exactly, m.verdict = "none", NEW b \in Nat
  PROVE  /\ Add(m, b) \in Messages
         /\ Add(m, b).text = m.text /\ Add(m, b).calls = m.calls /\ Add(m, b).finish = m.finish
         /\ \/ /\ Add(m, b).verdict = "none"
               /\ Add(m, b).size = Serialized(m) + b
               /\ Serialized(m) + b <= MaxBytes
            \/ Add(m, b).verdict = "limit" /\ Serialized(m) + b > MaxBytes
<1>1. m \in Messages /\ m.size = Serialized(m) /\ Serialized(m) \in Nat
  BY SerializedNatural DEF Exactly
<1>2. MaxBytes \in Nat
  BY StreamAssumption
<1>3. CASE m.size + b > MaxBytes
  <2>1. Add(m, b) = [m EXCEPT !.size = @ + b, !.verdict = "limit"]
    BY <1>3 DEF Add
  <2> DEFINE size == m.size + b
  <2>4. size \in Nat
    BY <1>1
  <2>2. /\ Add(m, b) \in Messages /\ Add(m, b).verdict = "limit"
        /\ Add(m, b).text = m.text /\ Add(m, b).calls = m.calls /\ Add(m, b).finish = m.finish
    <3> HIDE DEF size
    <3>1. Add(m, b) = [m EXCEPT !.size = size, !.verdict = "limit"]
      BY <2>1 DEF size
    <3> QED BY <1>1, <3>1, <2>4 DEF Messages
  <2>3. QED
    BY <1>1, <1>3, <2>2
<1>4. CASE ~(m.size + b > MaxBytes)
  <2>1. Add(m, b) = [m EXCEPT !.size = @ + b]
    BY <1>1, <1>4 DEF Add, Messages
  <2>2. QED
    BY <1>1, <1>2, <1>4, <2>1 DEF Messages
<1>5. QED
  BY <1>3, <1>4

\* _StreamBudget.write does the same for a fragment, also where it refuses the fragment
\* before encoding it, because a code point takes one byte or more.
LEMMA WriteStep ==
  ASSUME NEW m \in Exactly, m.verdict = "none", NEW fragment \in Fragments
  PROVE  LET r == Write(m, fragment) b == fragment.bytes IN
         /\ r \in Messages
         /\ r.text = m.text /\ r.calls = m.calls /\ r.finish = m.finish
         /\ \/ /\ r.verdict = "none"
               /\ r.size = Serialized(m) + b
               /\ Serialized(m) + b <= MaxBytes
            \/ r.verdict = "limit" /\ Serialized(m) + b > MaxBytes
<1>1. /\ m \in Messages /\ m.size = Serialized(m) /\ Serialized(m) \in Nat
      /\ Serialized(m) <= MaxBytes
  BY SerializedNatural DEF Exactly
<1>2. MaxBytes \in Nat
  BY StreamAssumption
<1>3. fragment.chars \in Nat /\ fragment.bytes \in Nat /\ fragment.chars <= fragment.bytes
  BY DEF Fragments
<1>4. CASE fragment.bytes = 0
  BY <1>1, <1>2, <1>4 DEF Write
<1>5. CASE fragment.bytes # 0 /\ fragment.chars > MaxBytes - m.size
  BY <1>1, <1>2, <1>3, <1>5 DEF Write, Messages
<1>6. CASE fragment.bytes # 0 /\ ~(fragment.chars > MaxBytes - m.size)
  <2>1. Write(m, fragment) = Add(m, fragment.bytes)
    BY <1>6 DEF Write
  <2>2. QED
    BY <2>1, <1>3, AddStep
<1>7. QED
  BY <1>4, <1>5, <1>6

\* A fragment of the content leaves the budget exact.
LEMMA WriteTextExact ==
  ASSUME NEW m \in Exactly, NEW fragment \in Fragments
  PROVE  WriteText(m, fragment) \in Exactly /\ WriteText(m, fragment).finish = m.finish
<1>1. CASE m.verdict # "none"
  BY <1>1 DEF WriteText
<1>2. CASE m.verdict = "none"
  <2> DEFINE w == Write(m, fragment)
             r == [w EXCEPT !.text = @ + fragment.bytes]
  <2>1. WriteText(m, fragment) = r /\ m \in Messages /\ fragment.bytes \in Nat
    BY <1>2 DEF WriteText, Exactly, Fragments
  <2>2. /\ w \in Messages
        /\ w.text = m.text /\ w.calls = m.calls /\ w.finish = m.finish
        /\ \/ /\ w.verdict = "none"
              /\ w.size = Serialized(m) + fragment.bytes
              /\ Serialized(m) + fragment.bytes <= MaxBytes
           \/ w.verdict = "limit" /\ Serialized(m) + fragment.bytes > MaxBytes
    BY <1>2, WriteStep
  <2> HIDE DEF w
  <2>3. /\ r \in Messages /\ r.text = m.text + fragment.bytes /\ r.calls = m.calls
        /\ r.finish = m.finish /\ r.verdict = w.verdict /\ r.size = w.size
    BY <2>1, <2>2 DEF Messages
  <2> HIDE DEF r
  <2>4. Serialized(r) = Serialized(m) + fragment.bytes
    BY <2>1, <2>3, SerializedText
  <2>5. QED
    BY <2>1, <2>2, <2>3, <2>4 DEF Exactly
<1>3. QED
  BY <1>1, <1>2

\* A new call leaves the budget exact.
LEMMA ExtendedStep ==
  ASSUME NEW m \in Exactly, m.verdict = "none", NEW call \in 1 .. Len(m.calls) + 1
  PROVE  /\ Extended(m, call) \in Exactly
         /\ Extended(m, call).finish = m.finish
         /\ Extended(m, call).verdict \in {"none", "limit"}
         /\ call \in 1 .. Len(Extended(m, call).calls)
<1>1. m \in Messages /\ m.calls \in Seq(Nat) /\ Len(m.calls) \in Nat
  BY DEF Exactly, Messages
<1>2. CASE call <= Len(m.calls)
  <2>1. Extended(m, call) = m
    BY <1>2 DEF Extended
  <2>2. QED
    BY <1>1, <1>2, <2>1
<1>3. CASE ~(call <= Len(m.calls))
  <2> DEFINE w == Add(m, Entry(m.calls))
             r == [w EXCEPT !.calls = Append(@, 0)]
             more == Append(m.calls, 0)
  <2>1. Extended(m, call) = r
    BY <1>3 DEF Extended
  <2>2. Entry(m.calls) \in Nat
    <3>1. EmptyCall(Len(m.calls)) \in Nat
      BY <1>1, Len(m.calls) \in Int, DigitsNatural
    <3>2. QED
      BY <3>1 DEF Entry
  <2>3. /\ w \in Messages
        /\ w.text = m.text /\ w.calls = m.calls /\ w.finish = m.finish
        /\ \/ /\ w.verdict = "none"
              /\ w.size = Serialized(m) + Entry(m.calls)
              /\ Serialized(m) + Entry(m.calls) <= MaxBytes
           \/ w.verdict = "limit" /\ Serialized(m) + Entry(m.calls) > MaxBytes
    BY <2>2, AddStep
  <2>4. more \in Seq(Nat) /\ Len(more) = Len(m.calls) + 1
    BY <1>1
  <2> HIDE DEF w, more
  <2>5. r = [w EXCEPT !.calls = more]
    BY <2>3 DEF more
  <2>6. /\ r \in Messages /\ r.text = m.text /\ r.calls = more
        /\ r.finish = m.finish /\ r.verdict = w.verdict /\ r.size = w.size
    BY <2>3, <2>4, <2>5 DEF Messages
  <2> HIDE DEF r
  <2>7. Serialized(r) = Serialized(m) + Entry(m.calls)
    BY <1>1, <2>6, SerializedEntry DEF more
  <2>8. r \in Exactly
    BY <2>3, <2>6, <2>7 DEF Exactly
  <2>9. call \in 1 .. Len(r.calls)
    BY <1>1, <2>4, <2>6
  <2>10. QED
    BY <2>1, <2>3, <2>6, <2>8, <2>9
<1>4. QED
  BY <1>2, <1>3

\* A tool-call delta leaves the budget exact, whatever its index and type.
LEMMA WritePartExact ==
  ASSUME NEW m \in Exactly, NEW part \in Parts
  PROVE  WritePart(m, part) \in Exactly
<1>1. CASE m.verdict # "none"
  BY <1>1 DEF WritePart
<1>2. CASE m.verdict = "none" /\ part.index \notin 0 .. Len(m.calls)
  <2>1. WritePart(m, part) = [m EXCEPT !.verdict = "invalid"]
    BY <1>2 DEF WritePart
  <2>2. QED
    BY <2>1 DEF Exactly, Messages
<1>3. CASE m.verdict = "none" /\ part.index \in 0 .. Len(m.calls)
  <2> DEFINE call == part.index + 1
             opened == Extended(m, call)
  <2>1. call \in 1 .. Len(m.calls) + 1
    <3>1. Len(m.calls) \in Nat
      BY DEF Exactly, Messages
    <3>2. QED
      BY <1>3, <3>1
  <2>2. /\ opened \in Exactly
        /\ opened.verdict \in {"none", "limit"}
        /\ call \in 1 .. Len(opened.calls)
    BY <1>3, <2>1, ExtendedStep
  <2>3. CASE opened.verdict = "limit"
    <3>1. WritePart(m, part) = opened
      BY <1>3, <2>3 DEF WritePart
    <3>2. QED
      BY <2>2, <3>1
  <2>4. CASE opened.verdict = "none" /\ part.type # "function"
    <3>1. WritePart(m, part) = [opened EXCEPT !.verdict = "invalid"]
      BY <1>3, <2>4 DEF WritePart
    <3> HIDE DEF opened
    <3>2. QED
      BY <2>2, <3>1 DEF Exactly, Messages
  <2>5. CASE opened.verdict = "none" /\ part.type = "function"
    <3> DEFINE w == Write(opened, part.fragment)
               bytes == part.fragment.bytes
               r == [w EXCEPT !.calls[call] = @ + bytes]
    <3>1. WritePart(m, part) = r
      BY <1>3, <2>5 DEF WritePart
    <3>2. part.fragment \in Fragments /\ bytes \in Nat
      BY DEF Parts, Fragments
    <3> HIDE DEF opened, call
    <3>3. /\ w \in Messages
          /\ w.text = opened.text /\ w.calls = opened.calls /\ w.finish = opened.finish
          /\ \/ /\ w.verdict = "none"
                /\ w.size = Serialized(opened) + bytes
                /\ Serialized(opened) + bytes <= MaxBytes
             \/ w.verdict = "limit" /\ Serialized(opened) + bytes > MaxBytes
      BY <2>2, <2>5, <3>2, WriteStep
    <3> HIDE DEF w, bytes
    <3> DEFINE longer == [opened.calls EXCEPT ![call] = opened.calls[call] + bytes]
    <3>4. opened \in Messages /\ opened.calls \in Seq(Nat)
      BY <2>2 DEF Exactly, Messages
    <3>5. longer \in Seq(Nat) /\ Grown(opened.calls, call, bytes, longer)
      BY <2>2, <3>2, <3>4 DEF Grown
    <3>6. r = [w EXCEPT !.calls = longer]
      BY <3>3
    <3> HIDE DEF longer
    <3>7. /\ r \in Messages /\ r.text = opened.text /\ r.calls = longer
          /\ r.verdict = w.verdict /\ r.size = w.size
      BY <3>3, <3>5, <3>6 DEF Messages
    <3> HIDE DEF r
    <3>8. Serialized(r) = Serialized(opened) + bytes
      BY <2>2, <3>2, <3>4, <3>5, <3>7, SerializedCall
    <3>9. QED
      BY <3>1, <3>3, <3>7, <3>8 DEF Exactly
  <2>6. QED
    BY <2>2, <2>3, <2>4, <2>5 DEF Parts
<1>4. QED
  BY <1>1, <1>2, <1>3

\* What the loop over the deltas returns is what the recursive function inside the fold
\* returns.
LEMMA PartsFold ==
  ASSUME NEW m, NEW parts \in Seq(Parts)
  PROVE  FoldLeft(WritePart, m, parts) =
           (CHOOSE g : g = [w \in SUBSET (DOMAIN parts) |->
              IF w = {} THEN m ELSE WritePart(g[w \ {Max(w)}], parts[Max(w)])])[DOMAIN parts]
BY Zenon DEF FoldLeft, MapThenFoldSet

\* The deltas of a chunk leave the budget exact, however many there are.
LEMMA PartsExact ==
  ASSUME NEW m \in Exactly, NEW parts \in Seq(Parts)
  PROVE  FoldLeft(WritePart, m, parts) \in Exactly
<1> DEFINE n == Len(parts)
           step == [x \in Exactly \X Parts |-> WritePart(x[1], x[2])]
           Iterates(g) == g = [w \in SUBSET (1 .. n) |->
                                 IF w = {} THEN m ELSE WritePart(g[w \ {Max(w)}], parts[Max(w)])]
           iter == CHOOSE g : Iterates(g)
<1>1. n \in Nat /\ DOMAIN parts = 1 .. n /\ parts \in [1 .. n -> Parts]
  BY LenProperties
<1>2. FoldLeft(WritePart, m, parts) = iter[1 .. n]
  BY <1>1, PartsFold
<1>3. step \in [Exactly \X Parts -> Exactly]
  BY WritePartExact
<1>4. \A a \in Exactly, b \in Parts : step[<<a, b>>] = WritePart(a, b)
  OBVIOUS
<1> HIDE DEF n, step
<1>5. PICK f \in [SUBSET (1 .. n) -> Exactly] : Folds(f, m, step, parts, n)
  BY <1>1, <1>3, FoldExists
<1>6. Iterates(f)
  <2>1. ASSUME NEW w \in SUBSET (1 .. n)
        PROVE  f[w] = IF w = {} THEN m ELSE WritePart(f[w \ {Max(w)}], parts[Max(w)])
    <3>1. CASE w = {}
      BY <3>1, <1>5 DEF Folds
    <3>2. CASE w # {}
      <4>1. Max(w) \in 1 .. n /\ w \ {Max(w)} \in SUBSET (1 .. n)
        BY <3>2, <1>1, MaxIsIn
      <4>2. f[w \ {Max(w)}] \in Exactly /\ parts[Max(w)] \in Parts
        BY <4>1, <1>1
      <4>3. f[w] = step[<<f[w \ {Max(w)}], parts[Max(w)]>>]
        BY <3>2, <1>5 DEF Folds
      <4>4. QED
        BY <4>2, <4>3, <1>4, <3>2
    <3>3. QED
      BY <3>1, <3>2
  <2>2. QED
    BY <2>1
<1>7. Iterates(iter)
  <2> HIDE DEF Iterates
  <2> QED BY <1>6
<1> HIDE DEF iter
<1>8. ASSUME NEW j \in 1 .. n PROVE iter[1 .. j] = WritePart(iter[1 .. j - 1], parts[j])
  <2>1. /\ 1 .. j \in SUBSET (1 .. n) /\ 1 .. j # {} /\ Max(1 .. j) = j
        /\ (1 .. j) \ {Max(1 .. j)} = 1 .. j - 1
    BY <1>1, Prefix
  <2>2. iter[1 .. j] = WritePart(iter[(1 .. j) \ {Max(1 .. j)}], parts[Max(1 .. j)])
    BY <2>1, <1>7
  <2>3. QED
    BY <2>1, <2>2
<1> DEFINE Good == {j \in 0 .. n : iter[1 .. j] \in Exactly}
<1>9. 0 \in Good
  <2>1. 1 .. 0 = {} /\ {} \in SUBSET (1 .. n)
    OBVIOUS
  <2>2. iter[{}] = m
    BY <2>1, <1>7
  <2>3. QED
    BY <2>1, <2>2, <1>1
<1>10. ASSUME NEW j \in 0 .. n - 1, j \in Good PROVE j + 1 \in Good
  <2>1. j + 1 \in 1 .. n /\ j + 1 \in 0 .. n /\ (j + 1) - 1 = j /\ parts[j + 1] \in Parts
    BY <1>1
  <2>2. iter[1 .. j + 1] = WritePart(iter[1 .. j], parts[j + 1])
    BY <2>1, <1>8
  <2>3. iter[1 .. j] \in Exactly
    BY <1>10
  <2>4. iter[1 .. j + 1] \in Exactly
    BY <2>1, <2>2, <2>3, WritePartExact
  <2>5. QED
    BY <2>1, <2>4
<1>11. 0 .. n \subseteq Good
  <2> HIDE DEF Good
  <2> QED BY <1>1, <1>9, <1>10, CountUp
<1>12. QED
  BY <1>1, <1>2, <1>11

\* A chunk leaves the budget exact.
LEMMA AssembledExact ==
  ASSUME NEW m \in Exactly, NEW chunk \in Chunk
  PROVE  Assembled(m, chunk) \in Exactly
<1>1. chunk \in Chunks
  BY StreamAssumption
<1>2. chunk.fragment \in Fragments /\ chunk.parts \in Seq(Parts)
      /\ chunk.finish \in {"none", "stop", "tool_calls", "length"}
  BY <1>1 DEF Chunks
<1>3. CASE chunk.choices = 0
  BY <1>3 DEF Assembled
<1>4. CASE chunk.choices # 0 /\ (m.finish # "none" \/ chunk.choices > 1 \/ chunk.role # "assistant")
  <2>1. Assembled(m, chunk) = [m EXCEPT !.verdict = "invalid"]
    BY <1>4 DEF Assembled
  <2>2. QED
    BY <2>1 DEF Exactly, Messages
<1>5. CASE chunk.choices # 0 /\ ~(m.finish # "none" \/ chunk.choices > 1 \/ chunk.role # "assistant")
  <2> DEFINE written == FoldLeft(WritePart, WriteText(m, chunk.fragment), chunk.parts)
             finish == IF written.verdict = "none" THEN chunk.finish ELSE written.finish
             r == [written EXCEPT !.finish = finish]
  <2>1. Assembled(m, chunk) = r
    BY <1>5 DEF Assembled
  <2>2. written \in Exactly
    BY <1>2, WriteTextExact, PartsExact
  <2> HIDE DEF written
  <2>3. finish \in {"none", "stop", "tool_calls", "length"}
    BY <1>2, <2>2 DEF Exactly, Messages
  <2> HIDE DEF finish
  <2>4. /\ r \in Messages /\ r.text = written.text /\ r.calls = written.calls
        /\ r.size = written.size /\ r.verdict = written.verdict
    BY <2>2, <2>3 DEF Exactly, Messages
  <2> HIDE DEF r
  <2>5. Serialized(r) = Serialized(written)
    BY <2>4 DEF Serialized
  <2>6. QED
    BY <2>1, <2>2, <2>4, <2>5 DEF Exactly
<1>6. QED
  BY <1>3, <1>4, <1>5

-----------------------------------------------------------------------------
\* What is open, and what a cancellation has left behind, at each await.
Cleanup ==
  /\ client \in {"absent", "open", "closing", "closed", "failed"}
  /\ pc \in {"calling", "reading", "closing_stream", "closing_client", "over"}
  /\ pc = "calling" => transport = "none" /\ ~delivered
  /\ pc = "reading" => transport = "open" /\ ~delivered
  /\ pc = "closing_stream" => transport = "open" /\ (delivered => raising = "cancelled")
  /\ pc \in {"calling", "reading", "closing_stream"} => client \in {"absent", "open"} /\ ~closing
  /\ pc = "closing_client" =>
       /\ transport # "open"
       /\ client \notin {"absent", "open"}
       /\ delivered => raising = "cancelled" \/ closing \/ transport = "failed"
  /\ Released
  /\ Honored

\* The inductive invariant of the task.
StreamInv == message \in Exactly /\ Cleanup

\* The empty message takes eight bytes, and nothing is open yet.
LEMMA StreamInvInit == Init => StreamInv
<1> SUFFICES ASSUME Init PROVE StreamInv
  OBVIOUS
<1>1. Empty \in Exactly
  <2>1. Empty \in Messages
    BY DEF Empty, Messages
  <2>2. <<>> \in Seq(Nat)
    OBVIOUS
  <2>3. EntrySizes(<<>>) = <<>>
    BY <2>2, EntrySizesOf
  <2>4. Total(EntrySizes(<<>>)) = 0
    BY <2>2, <2>3, TotalNatural
  <2>5. Serialized(Empty) = 8
    BY <2>4 DEF Serialized, Empty
  <2>6. QED
    BY <2>1, <2>5, StreamAssumption DEF Exactly, Empty
<1>2. QED
  BY <1>1 DEF Init, StreamInv, Cleanup, Released, Honored

\* The task may end when everything is released and a cancellation is on its way.
LEMMA EndsStep ==
  ASSUME NEW exception, Ends(exception),
         client' \in {"absent", "closed", "failed"}, transport' # "open",
         delivered' => exception = "cancelled" \/ "failed" \in {client', transport'}
  PROVE  Cleanup'
<1>1. pc' = "over" /\ (exception = "cancelled" => outcome' = "cancelled")
  BY DEF Ends
<1>2. QED
  BY <1>1 DEF Cleanup, Released, Honored

\* Out of the provider: the client is closed next, where there is one.
LEMMA LeavesProviderStep ==
  ASSUME NEW exception, LeavesProvider(exception), client \in {"absent", "open"},
         transport' # "open",
         delivered' => exception = "cancelled" \/ transport' = "failed"
  PROVE  Cleanup'
<1>1. CASE client = "absent"
  <2>1. Ends(exception) /\ client' = "absent"
    BY <1>1 DEF LeavesProvider
  <2>2. QED
    BY <2>1, EndsStep
<1>2. CASE client = "open"
  <2>1. pc' = "closing_client" /\ client' = "closing" /\ raising' = exception
    BY <1>2 DEF LeavesProvider
  <2>2. QED
    BY <2>1 DEF Cleanup, Released, Honored
<1>3. QED
  BY <1>1, <1>2

\* Out of the loop: the stream is closed next.
LEMMA LeavesStreamStep ==
  ASSUME NEW exception, LeavesStream(exception), client \in {"absent", "open"}, UNCHANGED closing,
         ~closing, transport' = "open", delivered' => exception = "cancelled"
  PROVE  Cleanup'
BY DEF LeavesStream, Cleanup, Released, Honored

\* Every step preserves the invariant.
LEMMA StreamInvStep == StreamInv /\ [Next]_vars => StreamInv'
<1> SUFFICES ASSUME StreamInv, [Next]_vars PROVE StreamInv'
  OBVIOUS
<1> USE DEF StreamInv
<1>1. CASE Called
  <2>1. CASE streamed
    BY <1>1, <2>1 DEF Called, Idle, Cleanup, Released, Honored
  <2>2. CASE ~streamed
    BY <1>1, <2>2, LeavesProviderStep DEF Called, Idle, Cleanup
  <2>3. QED
    BY <2>1, <2>2
<1>2. CASE CallFails
  BY <1>2, LeavesProviderStep DEF CallFails, Idle, Cleanup
<1>3. CASE Receive
  <2>1. PICK chunk \in Chunk :
          LET next == Assembled(message, chunk) IN
          /\ message' = next
          /\ IF next.verdict = "none"
               THEN UNCHANGED <<pc, raising, client, outcome>>
               ELSE LeavesStream(next.verdict)
    BY <1>3 DEF Receive
  <2>2. message' \in Exactly
    BY <2>1, AssembledExact
  <2>3. pc = "reading" /\ UNCHANGED <<transport, closing, delivered>>
    BY <1>3 DEF Receive, Idle
  <2>4. CASE UNCHANGED <<pc, raising, client, outcome>>
    BY <2>2, <2>3, <2>4 DEF Cleanup, Released, Honored
  <2>5. CASE LeavesStream(message'.verdict)
    BY <2>2, <2>3, <2>5, LeavesStreamStep DEF Cleanup
  <2>6. QED
    BY <2>1, <2>4, <2>5
<1>4. CASE StreamEnds
  BY <1>4, LeavesStreamStep DEF StreamEnds, Idle, Cleanup
<1>5. CASE CloseStream
  BY <1>5, LeavesProviderStep DEF CloseStream, Idle, Cleanup
<1>6. CASE ClientClosed
  <2>1. /\ pc = "closing_client" /\ client \in {"closed", "failed"} /\ transport # "open"
        /\ delivered => raising = "cancelled" \/ closing \/ transport = "failed"
        /\ UNCHANGED <<message, transport, client, closing, delivered>>
    BY <1>6 DEF ClientClosed, Idle, Cleanup
  <2>2. PICK exception :
          /\ Ends(exception)
          /\ exception = IF client = "failed" THEN "error" ELSE IF closing THEN "cancelled" ELSE raising
    BY <1>6 DEF ClientClosed
  <2>3. QED
    BY <2>1, <2>2, EndsStep
<1>7. CASE Interrupted
  <2>1. delivered' /\ UNCHANGED <<message, closing>>
    BY <1>7 DEF Interrupted, Raised
  <2>2. CASE pc = "calling" /\ LeavesProvider("cancelled") /\ UNCHANGED transport
    BY <2>1, <2>2, LeavesProviderStep DEF Cleanup
  <2>3. CASE pc = "reading" /\ LeavesStream("cancelled") /\ UNCHANGED transport
    BY <2>1, <2>3, LeavesStreamStep DEF Cleanup
  <2>4. CASE pc = "closing_stream" /\ LeavesProvider("cancelled") /\ transport' = "abandoned"
    BY <2>1, <2>4, LeavesProviderStep DEF Cleanup
  <2>5. QED
    BY <1>7, <2>2, <2>3, <2>4 DEF Interrupted
<1>8. CASE InterruptedClosing
  BY <1>8 DEF InterruptedClosing, Raised, Cleanup, Released, Honored
<1>9. CASE ClientCloses
  BY <1>9 DEF ClientCloses, Cleanup, Released, Honored
<1>10. CASE Cancel
  BY <1>10 DEF Cancel, Cleanup, Released, Honored
<1>11. CASE UNCHANGED vars
  BY <1>11 DEF vars, Cleanup, Released, Honored
<1>12. QED
  BY <1>1, <1>2, <1>3, <1>4, <1>5, <1>6, <1>7, <1>8, <1>9, <1>10, <1>11 DEF Next, Step

\* The invariant holds of every task.
THEOREM StreamSafe == Spec => []StreamInv
BY StreamInvInit, StreamInvStep, PTL DEF Spec

\* A stream is refused for its size exactly when what was received is too long, for every
\* limit and every sequence of chunks: the exact check at the end refuses nothing more.
THEOREM BudgetIsExact == Spec => []BudgetExact
<1>1. StreamInv => BudgetExact
  BY DEF StreamInv, Exactly, BudgetExact
<1>2. QED
  BY <1>1, StreamSafe, PTL

\* When the task is over the client is closed and the stream is not left open, and a
\* cancellation is not lost, unless closing itself failed.
THEOREM CleanupSafe == Spec => [](Released /\ Honored)
<1>1. StreamInv => Released /\ Honored
  BY DEF StreamInv, Cleanup
<1>2. QED
  BY <1>1, StreamSafe, PTL
=============================================================================
