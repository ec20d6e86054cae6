---------------------------- MODULE WalletProofs ----------------------------
(***************************************************************************)
(* What _BRWalletUpdateBalance computes, for every list of transactions,   *)
(* whatever they spend and pay and in whatever order they are listed:      *)
(* the unspent outputs and the balance are what their definition says, and *)
(* of two unconfirmed transactions that spend the same output one is       *)
(* invalid.  From the first it follows that every amount up to the         *)
(* reported maximum can be sent while a transaction has room for all the   *)
(* unspent outputs.                                                        *)
(*                                                                         *)
(* The balance, the unspent outputs and the sums are folds.  The first     *)
(* part gives each fold the function from 0 .. n to its intermediate       *)
(* results, along which the rest is an induction on the position in the    *)
(* list.                                                                   *)
(***************************************************************************)
EXTENDS Wallet, FiniteSetTheorems, WellFoundedInduction, TLAPS

(***************************************************************************)
(* Induction                                                               *)
(***************************************************************************)

\* A set of numbers that is not empty has a smallest one.
LEMMA SmallestNumber ==
  ASSUME NEW T \in SUBSET Nat, T # {}
  PROVE  \E m \in T : \A n \in T : m <= n
<1> DEFINE R == {ss \in Nat \X Nat : ss[1] < ss[2]}
<1>1. IsWellFoundedOn(R, Nat)
  BY NatLessThanWellFounded, Zenon DEF OpToRel
<1>2. PICK m \in T : \A n \in T : ~ (<<n, m>> \in R)
  <2> HIDE DEF R
  <2> QED
    BY <1>1, WFMin, Zenon
<1>3. \A n \in T : ~(n < m)
  BY <1>2
<1> QED
  BY <1>3

\* A set that holds 0 and, with each number below n, the next one holds every
\* number up to n.
LEMMA CountUp ==
  ASSUME NEW n \in Nat, NEW T, 0 \in T, \A k \in 0 .. n - 1 : k \in T => k + 1 \in T
  PROVE  \A k \in 0 .. n : k \in T
<1> SUFFICES ASSUME NEW k \in 0 .. n, k \notin T PROVE FALSE
  OBVIOUS
<1> DEFINE U == {i \in 0 .. n : i \notin T}
<1>1. U \in SUBSET Nat /\ U # {}
  OBVIOUS
<1>2. PICK m \in U : \A i \in U : m <= i
  <2> HIDE DEF U
  <2> QED
    BY <1>1, SmallestNumber
<1>3. m \in 0 .. n /\ m \notin T /\ m # 0
  BY <1>2
<1>4. m - 1 \in 0 .. n - 1 /\ ~(m <= m - 1) /\ m - 1 \in 0 .. n /\ (m - 1) + 1 = m
  BY <1>3
<1>5. m - 1 \notin U
  <2> HIDE DEF U
  <2> QED
    BY <1>2, <1>4
<1>6. m - 1 \in T
  BY <1>4, <1>5
<1> QED
  BY <1>3, <1>4, <1>6

\* The largest element of a set whose bound is in it.
LEMMA LargestOf ==
  ASSUME NEW m \in Nat, NEW s \in SUBSET (1 .. m), m \in s
  PROVE  Max(s) = m
<1>1. \A y \in s : m >= y
  OBVIOUS
<1> DEFINE x == Max(s)
<1>2. x \in s /\ \A y \in s : x >= y
  BY <1>1, Zenon DEF Max
<1> HIDE DEF x
<1>3. x \in 1 .. m /\ x >= m
  BY <1>2
<1>4. x = m
  BY <1>3
<1> QED
  BY <1>4 DEF x

\* The largest element of a bounded set is one of it.
LEMMA LargestBelow ==
  ASSUME NEW n \in Nat, NEW s \in SUBSET (0 .. n), s # {}
  PROVE  Max(s) \in s /\ \A y \in s : Max(s) >= y
<1> DEFINE U == {b \in Nat : \A y \in s : y <= b}
<1>1. U \in SUBSET Nat /\ n \in U
  OBVIOUS
<1>2. PICK m \in U : \A b \in U : m <= b
  <2> HIDE DEF U
  <2> QED
    BY <1>1, SmallestNumber
<1>3. m \in Nat /\ \A y \in s : y <= m
  BY <1>2
<1>4. m \in s
  <2> SUFFICES ASSUME m \notin s PROVE FALSE
    OBVIOUS
  <2>1. \A y \in s : y <= m - 1 /\ m - 1 \in Nat
    BY <1>3
  <2>2. m - 1 \in U
    BY <2>1
  <2> HIDE DEF U
  <2> QED
    BY <1>2, <1>3, <2>2
<1>5. \A y \in s : m >= y
  BY <1>3, <1>4
<1> QED
  BY <1>4, <1>5, Zenon DEF Max

\* The same for sets of positions.
LEMMA LargestIn ==
  ASSUME NEW n \in Nat, NEW s \in SUBSET (1 .. n), s # {}
  PROVE  Max(s) \in s /\ \A y \in s : Max(s) >= y
<1>1. s \in SUBSET (0 .. n)
  OBVIOUS
<1> QED
  BY <1>1, LargestBelow, Zenon

(***************************************************************************)
(* Folds                                                                   *)
(***************************************************************************)

\* F takes a result in A and a position to the next result; a is the first.
IsFold(n, A, a, F) == n \in Nat /\ a \in A /\ F \in [(1 .. n) \X A -> A]

\* One equation of the recursive function a fold is defined by.
FoldFor(F, a, g, s) == IF s = {} THEN a ELSE F[<<Max(s), g[s \ {Max(s)}]>>]

HasFold(n, A, a, F) ==
  \E g \in [SUBSET (1 .. n) -> A] : \A s \in SUBSET (1 .. n) : g[s] = FoldFor(F, a, g, s)

\* r is reached from a in n steps of F.
FoldsTo(n, A, a, F, r) ==
  \E f \in [0 .. n -> A] :
     /\ f[0] = a /\ r = f[n]
     /\ \A k \in 1 .. n : f[k] = F[<<k, f[k - 1]>>]

\* The recursive function a fold is defined by exists.
LEMMA FoldExists ==
  ASSUME NEW n, NEW A, NEW a, NEW F, IsFold(n, A, a, F)
  PROVE  HasFold(n, A, a, F)
<1> USE DEF IsFold
<1> DEFINE P(m) == \E g \in [SUBSET (1 .. m) -> A] : \A s \in SUBSET (1 .. m) : g[s] = FoldFor(F, a, g, s)
           T == {m \in 0 .. n : P(m)}
<1>1. P(0)
  <2> DEFINE g == [s \in SUBSET (1 .. 0) |-> a]
  <2>1. \A s \in SUBSET (1 .. 0) : s = {}
    OBVIOUS
  <2>2. g \in [SUBSET (1 .. 0) -> A] /\ \A s \in SUBSET (1 .. 0) : g[s] = a
    OBVIOUS
  <2> HIDE DEF g
  <2>3. \A s \in SUBSET (1 .. 0) : g[s] = FoldFor(F, a, g, s)
    BY <2>1, <2>2, Zenon DEF FoldFor
  <2> QED
    BY <2>2, <2>3, Zenon
<1>2. ASSUME NEW k \in 0 .. n - 1, P(k) PROVE P(k + 1)
  <2>1. PICK g \in [SUBSET (1 .. k) -> A] : \A s \in SUBSET (1 .. k) : g[s] = FoldFor(F, a, g, s)
    BY <1>2, Zenon
  <2> DEFINE m == k + 1
             h == [s \in SUBSET (1 .. m) |-> IF m \in s THEN F[<<m, g[s \ {m}]>>] ELSE g[s]]
  <2>2. m \in Nat /\ m \in 1 .. n /\ k \in Nat /\ k = m - 1
    OBVIOUS
  <2> HIDE DEF m
  <2>3. ASSUME NEW s \in SUBSET (1 .. m), m \in s PROVE h[s] = F[<<m, g[s \ {m}]>>]
    BY <2>3, Zenon
  <2>4. ASSUME NEW s \in SUBSET (1 .. m), m \notin s PROVE h[s] = g[s]
    BY <2>4, Zenon
  <2>5. ASSUME NEW s \in SUBSET (1 .. m) PROVE s \ {m} \in SUBSET (1 .. k)
    BY <2>2
  <2>6. ASSUME NEW s \in SUBSET (1 .. m) PROVE h[s] \in A
    <3>1. CASE m \in s
      <4>1. g[s \ {m}] \in A
        BY <2>1, <2>5
      <4> HIDE DEF h
      <4>2. <<m, g[s \ {m}]>> \in (1 .. n) \X A
        BY <2>2, <4>1
      <4> QED
        BY <2>3, <3>1, <4>2
    <3>2. CASE m \notin s
      <4> HIDE DEF h
      <4>1. s \ {m} = s
        BY <3>2
      <4> QED
        BY <2>1, <2>4, <2>5, <3>2, <4>1
    <3> QED
      BY <3>1, <3>2
  <2>7. h \in [SUBSET (1 .. m) -> A]
    <3>1. DOMAIN h = SUBSET (1 .. m)
      OBVIOUS
    <3>2. h = [s \in DOMAIN h |-> h[s]]
      BY Zenon
    <3> HIDE DEF h
    <3> QED
      BY <2>6, <3>1, <3>2
  <2> HIDE DEF h
  <2>8. ASSUME NEW s \in SUBSET (1 .. m) PROVE h[s] = FoldFor(F, a, h, s)
    <3>1. CASE m \in s
      <4>1. Max(s) = m /\ s # {}
        BY <2>2, <3>1, LargestOf
      <4>2. s \ {m} \in SUBSET (1 .. m) /\ m \notin s \ {m}
        OBVIOUS
      <4>3. h[s \ {m}] = g[s \ {m}]
        BY <2>4, <4>2
      <4> QED
        BY <2>3, <3>1, <4>1, <4>3, Zenon DEF FoldFor
    <3>2. CASE m \notin s
      <4>1. s \in SUBSET (1 .. k)
        BY <2>2, <3>2
      <4>2. h[s \ {Max(s)}] = g[s \ {Max(s)}]
        <5> DEFINE x == Max(s)
        <5> HIDE DEF x
        <5>1. s \ {x} \in SUBSET (1 .. m) /\ m \notin s \ {x}
          BY <3>2
        <5>2. h[s \ {x}] = g[s \ {x}]
          BY <2>4, <5>1
        <5> QED
          BY <5>2 DEF x
      <4> QED
        BY <2>1, <2>4, <3>2, <4>1, <4>2, Zenon DEF FoldFor
    <3> QED
      BY <3>1, <3>2
  <2> QED
    BY <2>7, <2>8, Zenon DEF m
<1> HIDE DEF P
<1>3. 0 \in T
  BY <1>1
<1>4. \A k \in 0 .. n - 1 : k \in T => k + 1 \in T
  BY <1>2
<1>5. n \in T
  <2> HIDE DEF T
  <2> QED
    BY <1>3, <1>4, CountUp
<1>6. P(n)
  BY <1>5
<1> QED
  BY <1>6, Zenon DEF P, HasFold

\* Along the sets 1 .. k such a function takes the steps of the fold.
LEMMA FoldAlong ==
  ASSUME NEW n, NEW A, NEW a, NEW F, NEW iter, IsFold(n, A, a, F),
         iter[{}] = a,
         \A s \in SUBSET (1 .. n) : (s # {} /\ iter[s \ {Max(s)}] \in A) => iter[s] = FoldFor(F, a, iter, s)
  PROVE  FoldsTo(n, A, a, F, iter[1 .. n])
<1> USE DEF IsFold
<1> DEFINE f == [k \in 0 .. n |-> iter[1 .. k]]
           T == {k \in 0 .. n : f[k] \in A /\ (k # 0 => f[k] = F[<<k, f[k - 1]>>])}
<1>1. 1 .. 0 = {} /\ 0 \in 0 .. n /\ n \in 0 .. n
  OBVIOUS
<1>2. f[0] = a /\ f[n] = iter[1 .. n]
  BY <1>1
<1>3. 0 \in T
  BY <1>1, <1>2
<1>4. ASSUME NEW i \in 0 .. n - 1, i \in T PROVE i + 1 \in T
  <2> DEFINE k == i + 1
  <2>1. k \in 1 .. n /\ k \in 0 .. n /\ k - 1 = i /\ i \in 0 .. n /\ k \in Nat /\ k # 0
    OBVIOUS
  <2> HIDE DEF k
  <2>2. (1 .. k) \in SUBSET (1 .. n) /\ k \in 1 .. k /\ (1 .. k) \ {k} = 1 .. i /\ 1 .. k # {}
    BY <2>1
  <2>3. Max(1 .. k) = k
    BY <2>1, <2>2, LargestOf
  <2>4. f[k] = iter[1 .. k] /\ f[i] = iter[1 .. i] /\ f[i] \in A
    BY <1>4, <2>1
  <2> HIDE DEF f
  <2>5. iter[1 .. k] = FoldFor(F, a, iter, 1 .. k)
    BY <2>2, <2>3, <2>4
  <2>6. FoldFor(F, a, iter, 1 .. k) = F[<<k, iter[1 .. i]>>]
    BY <2>2, <2>3, Zenon DEF FoldFor
  <2>7. f[k] = F[<<k, f[i]>>]
    BY <2>4, <2>5, <2>6
  <2>8. <<k, f[i]>> \in (1 .. n) \X A
    BY <2>1, <2>4
  <2>9. f[k] \in A
    BY <2>7, <2>8
  <2> QED
    BY <2>1, <2>7, <2>9 DEF k
<1>5. \A k \in 0 .. n : k \in T
  <2> HIDE DEF T
  <2> QED
    BY <1>3, <1>4, CountUp
<1>6. \A k \in 0 .. n : f[k] \in A /\ (k # 0 => f[k] = F[<<k, f[k - 1]>>])
  <2> HIDE DEF f
  <2> QED
    BY <1>5
<1>7. f \in [0 .. n -> A]
  <2>1. DOMAIN f = 0 .. n /\ f = [k \in DOMAIN f |-> f[k]]
    OBVIOUS
  <2> HIDE DEF f
  <2> QED
    BY <1>6, <2>1
<1> HIDE DEF f
<1>8. \A k \in 1 .. n : f[k] = F[<<k, f[k - 1]>>]
  BY <1>6
<1> QED
  BY <1>2, <1>7, <1>8, Zenon DEF FoldsTo

\* The running totals of a sequence of numbers.
Totals(q, f) ==
  /\ f \in [0 .. Len(q) -> Int]
  /\ f[0] = 0 /\ SumSeq(q) = f[Len(q)]
  /\ \A k \in 1 .. Len(q) : f[k] = f[k - 1] + q[k]

\* The sum of a sequence is reached by adding its numbers one by one.
LEMMA SumSteps ==
  ASSUME NEW q \in Seq(Int)
  PROVE  \E f : Totals(q, f)
<1> DEFINE n == Len(q)
           S == DOMAIN q
           F == [p \in (1 .. n) \X Int |-> p[2] + q[p[1]]]
           RHS(it) == [s \in SUBSET S |-> IF s = {} THEN 0 ELSE it[s \ {Max(s)}] + q[Max(s)]]
           iter == CHOOSE it : it = RHS(it)
<1>1. n \in Nat /\ S = 1 .. n /\ \A k \in 1 .. n : q[k] \in Int
  OBVIOUS
<1>2. SumSeq(q) = iter[S]
  BY Zenon DEF SumSeq, FoldLeft, MapThenFoldSet
<1> HIDE DEF n, S
<1>3. F \in [(1 .. n) \X Int -> Int] /\ \A k \in 1 .. n, i \in Int : F[<<k, i>>] = i + q[k]
  BY <1>1
<1> HIDE DEF F
<1>4. PICK g \in [SUBSET S -> Int] : \A s \in SUBSET S : g[s] = FoldFor(F, 0, g, s)
  <2>1. IsFold(n, Int, 0, F)
    BY <1>1, <1>3 DEF IsFold
  <2>2. HasFold(n, Int, 0, F)
    BY <2>1, FoldExists
  <2> QED
    BY <1>1, <2>2 DEF HasFold
<1>5. ASSUME NEW h, NEW s \in SUBSET S, s # {}, h[s \ {Max(s)}] \in Int
      PROVE  FoldFor(F, 0, h, s) = h[s \ {Max(s)}] + q[Max(s)]
  <2> DEFINE m == Max(s)
  <2>1. m \in S
    <3>1. Max(s) \in s
      BY <1>1, <1>5, LargestIn, Zenon
    <3> QED
      BY <3>1
  <2>2. FoldFor(F, 0, h, s) = F[<<m, h[s \ {m}]>>]
    BY <1>5, Zenon DEF FoldFor
  <2>3. h[s \ {m}] \in Int
    BY <1>5
  <2> HIDE DEF m
  <2>4. F[<<m, h[s \ {m}]>>] = h[s \ {m}] + q[m]
    BY <1>1, <1>3, <2>1, <2>3
  <2> QED
    BY <2>2, <2>4 DEF m
<1>6. g = RHS(g)
  <2>1. ASSUME NEW s \in SUBSET S
        PROVE  g[s] = IF s = {} THEN 0 ELSE g[s \ {Max(s)}] + q[Max(s)]
    <3>1. CASE s = {}
      BY <1>4, <3>1, Zenon DEF FoldFor
    <3>2. CASE s # {}
      <4>1. s \ {Max(s)} \in SUBSET S
        <5> DEFINE m == Max(s)
        <5> HIDE DEF m
        <5>1. s \ {m} \in SUBSET S
          OBVIOUS
        <5> QED
          BY <5>1 DEF m
      <4>2. g[s \ {Max(s)}] \in Int
        BY <1>4, <4>1, Zenon
      <4> QED
        BY <1>4, <1>5, <3>2, <4>2, Zenon
    <3> QED
      BY <3>1, <3>2
  <2>2. g = [s \in SUBSET S |-> g[s]]
    BY <1>4
  <2> QED
    BY <2>1, <2>2, Zenon
<1>7. iter = RHS(iter)
  <2> HIDE DEF RHS
  <2> QED
    BY <1>6, Zenon
<1> HIDE DEF iter
<1>8. \A s \in SUBSET S : iter[s] = IF s = {} THEN 0 ELSE iter[s \ {Max(s)}] + q[Max(s)]
  <2> DEFINE E(s) == IF s = {} THEN 0 ELSE iter[s \ {Max(s)}] + q[Max(s)]
  <2>1. iter = [s \in SUBSET S |-> E(s)]
    BY <1>7
  <2> HIDE DEF E
  <2>2. \A s \in SUBSET S : iter[s] = E(s)
    BY <2>1
  <2> QED
    BY <2>2 DEF E
<1>9. iter[{}] = 0
  <2>1. {} \in SUBSET S
    OBVIOUS
  <2> QED
    BY <1>8, <2>1, Zenon
<1>10. \A s \in SUBSET (1 .. n) : (s # {} /\ iter[s \ {Max(s)}] \in Int) => iter[s] = FoldFor(F, 0, iter, s)
  BY <1>1, <1>5, <1>8, Zenon
<1>11. FoldsTo(n, Int, 0, F, iter[1 .. n])
  <2>1. IsFold(n, Int, 0, F)
    BY <1>1, <1>3 DEF IsFold
  <2> QED
    BY <1>9, <1>10, <2>1, FoldAlong
<1>12. PICK f \in [0 .. n -> Int] : /\ f[0] = 0 /\ iter[1 .. n] = f[n]
                                   /\ \A k \in 1 .. n : f[k] = F[<<k, f[k - 1]>>]
  BY <1>11 DEF FoldsTo
<1>13. ASSUME NEW k \in 1 .. n PROVE f[k] = f[k - 1] + q[k]
  <2>1. f[k - 1] \in Int
    BY <1>1, <1>12
  <2>2. F[<<k, f[k - 1]>>] = f[k - 1] + q[k]
    BY <1>3, <2>1
  <2> QED
    BY <1>12, <2>2
<1>14. SumSeq(q) = f[n]
  BY <1>1, <1>2, <1>12
<1>15. Totals(q, f)
  BY <1>12, <1>13, <1>14 DEF n, Totals
<1> QED
  BY <1>15

\* The subsequences that Keep passes through.
Kept(q, d, h) ==
  /\ h[0] = <<>> /\ Keep(q, d) = h[Len(q)]
  /\ \A k \in 1 .. Len(q) : h[k] = IF q[k] \in d THEN Append(h[k - 1], q[k]) ELSE h[k - 1]

\* Keep goes through the sequence once, from its first element to its last.
LEMMA KeepSteps ==
  ASSUME NEW B, NEW q \in Seq(B), NEW d
  PROVE  \E h : Kept(q, d, h) /\ h \in [0 .. Len(q) -> Seq(B)]
<1> DEFINE n == Len(q)
           S == DOMAIN q
           A == Seq(B)
           Add(r, k) == IF q[k] \in d THEN Append(r, q[k]) ELSE r
           F == [p \in (1 .. n) \X A |-> Add(p[2], p[1])]
           RHS(it) == [s \in SUBSET S |-> IF s = {} THEN <<>> ELSE Add(it[s \ {Max(s)}], Max(s))]
           iter == CHOOSE it : it = RHS(it)
<1>1. n \in Nat /\ S = 1 .. n /\ \A k \in 1 .. n : q[k] \in B
  OBVIOUS
<1>2. Keep(q, d) = iter[S]
  BY Zenon DEF Keep, FoldLeft, MapThenFoldSet
<1>3. <<>> \in A /\ \A r \in A, k \in 1 .. n : Add(r, k) \in A
  BY <1>1
<1> HIDE DEF n, S, A, Add
<1>4. F \in [(1 .. n) \X A -> A] /\ \A k \in 1 .. n, r \in A : F[<<k, r>>] = Add(r, k)
  BY <1>3
<1> HIDE DEF F
<1>5. IsFold(n, A, <<>>, F)
  BY <1>1, <1>3, <1>4 DEF IsFold
<1>6. PICK g \in [SUBSET S -> A] : \A s \in SUBSET S : g[s] = FoldFor(F, <<>>, g, s)
  <2>1. HasFold(n, A, <<>>, F)
    BY <1>5, FoldExists
  <2> QED
    BY <1>1, <2>1 DEF HasFold
<1>7. ASSUME NEW h, NEW s \in SUBSET S, s # {}, h[s \ {Max(s)}] \in A
      PROVE  FoldFor(F, <<>>, h, s) = Add(h[s \ {Max(s)}], Max(s))
  <2> DEFINE m == Max(s)
  <2>1. m \in S
    <3>1. Max(s) \in s
      BY <1>1, <1>7, LargestIn, Zenon
    <3> QED
      BY <3>1
  <2>2. FoldFor(F, <<>>, h, s) = F[<<m, h[s \ {m}]>>]
    BY <1>7, Zenon DEF FoldFor
  <2>3. h[s \ {m}] \in A
    BY <1>7
  <2> HIDE DEF m
  <2>4. F[<<m, h[s \ {m}]>>] = Add(h[s \ {m}], m)
    BY <1>1, <1>4, <2>1, <2>3
  <2> QED
    BY <2>2, <2>4 DEF m
<1>8. g = RHS(g)
  <2>1. ASSUME NEW s \in SUBSET S
        PROVE  g[s] = IF s = {} THEN <<>> ELSE Add(g[s \ {Max(s)}], Max(s))
    <3>1. CASE s = {}
      BY <1>6, <3>1, Zenon DEF FoldFor
    <3>2. CASE s # {}
      <4>1. s \ {Max(s)} \in SUBSET S
        <5> DEFINE m == Max(s)
        <5> HIDE DEF m
        <5>1. s \ {m} \in SUBSET S
          OBVIOUS
        <5> QED
          BY <5>1 DEF m
      <4>2. g[s \ {Max(s)}] \in A
        BY <1>6, <4>1, Zenon
      <4> QED
        BY <1>6, <1>7, <3>2, <4>2, Zenon
    <3> QED
      BY <3>1, <3>2
  <2>2. g = [s \in SUBSET S |-> g[s]]
    BY <1>6
  <2> QED
    BY <2>1, <2>2, Zenon
<1>9. iter = RHS(iter)
  <2> HIDE DEF RHS
  <2> QED
    BY <1>8, Zenon
<1> HIDE DEF iter
<1>10. \A s \in SUBSET S : iter[s] = IF s = {} THEN <<>> ELSE Add(iter[s \ {Max(s)}], Max(s))
  <2> DEFINE E(s) == IF s = {} THEN <<>> ELSE Add(iter[s \ {Max(s)}], Max(s))
  <2>1. iter = [s \in SUBSET S |-> E(s)]
    BY <1>9
  <2> HIDE DEF E
  <2>2. \A s \in SUBSET S : iter[s] = E(s)
    BY <2>1
  <2> QED
    BY <2>2 DEF E
<1>11. iter[{}] = <<>>
  <2>1. {} \in SUBSET S
    OBVIOUS
  <2> QED
    BY <1>10, <2>1, Zenon
<1>12. \A s \in SUBSET (1 .. n) : (s # {} /\ iter[s \ {Max(s)}] \in A) => iter[s] = FoldFor(F, <<>>, iter, s)
  BY <1>1, <1>7, <1>10, Zenon
<1>13. FoldsTo(n, A, <<>>, F, iter[1 .. n])
  BY <1>5, <1>11, <1>12, FoldAlong
<1>14. PICK h \in [0 .. n -> A] : /\ h[0] = <<>> /\ iter[1 .. n] = h[n]
                                 /\ \A k \in 1 .. n : h[k] = F[<<k, h[k - 1]>>]
  BY <1>13 DEF FoldsTo
<1>15. ASSUME NEW k \in 1 .. n PROVE h[k] = Add(h[k - 1], k)
  <2>1. h[k - 1] \in A
    BY <1>1, <1>14
  <2>2. F[<<k, h[k - 1]>>] = Add(h[k - 1], k)
    BY <1>4, <2>1
  <2> QED
    BY <1>14, <2>2
<1>16. Keep(q, d) = h[n]
  BY <1>1, <1>2, <1>14
<1>17. Kept(q, d, h)
  BY <1>14, <1>15, <1>16, Zenon DEF Kept, n, Add
<1> QED
  BY <1>14, <1>17 DEF n, A

\* The elements of a sequence that was extended.
LEMMA SetOfAppend ==
  ASSUME NEW B, NEW r \in Seq(B), NEW x \in B
  PROVE  ToSet(Append(r, x)) = ToSet(r) \cup {x}
<1> DEFINE a == Append(r, x)
           n == Len(r)
<1>1. /\ DOMAIN r = 1 .. n /\ DOMAIN a = (1 .. n) \cup {n + 1}
      /\ a[n + 1] = x /\ \A i \in 1 .. n : a[i] = r[i]
  OBVIOUS
<1> HIDE DEF a, n
<1>2. {a[i] : i \in DOMAIN a} = {r[i] : i \in DOMAIN r} \cup {x}
  BY <1>1
<1> QED
  BY <1>2 DEF ToSet, a

\* The elements of two sequences, one after the other.
LEMMA SetOfConcat ==
  ASSUME NEW B, NEW r \in Seq(B), NEW s \in Seq(B)
  PROVE  ToSet(r \o s) = ToSet(r) \cup ToSet(s)
<1> DEFINE a == r \o s
           n == Len(r)
           m == Len(s)
<1>1. /\ n \in Nat /\ m \in Nat
      /\ DOMAIN r = 1 .. n /\ DOMAIN s = 1 .. m /\ DOMAIN a = 1 .. (n + m)
      /\ \A i \in 1 .. n : a[i] = r[i]
      /\ \A i \in (n + 1) .. (n + m) : a[i] = s[i - n]
  OBVIOUS
<1> HIDE DEF a, n, m
<1>2. \A i \in 1 .. m : i + n \in (n + 1) .. (n + m) /\ (i + n) - n = i
  BY <1>1
<1>3. ASSUME NEW i \in DOMAIN a PROVE a[i] \in {r[j] : j \in DOMAIN r} \cup {s[j] : j \in DOMAIN s}
  <2>1. CASE i \in 1 .. n
    BY <1>1, <2>1
  <2>2. CASE i \in (n + 1) .. (n + m)
    <3>1. i - n \in 1 .. m
      BY <1>1, <2>2
    <3> QED
      BY <1>1, <2>2, <3>1
  <2> QED
    BY <1>1, <2>1, <2>2
<1>4. ASSUME NEW j \in DOMAIN r PROVE r[j] \in {a[i] : i \in DOMAIN a}
  <2>1. j \in DOMAIN a /\ a[j] = r[j]
    BY <1>1
  <2> QED
    BY <2>1
<1>5. ASSUME NEW j \in DOMAIN s PROVE s[j] \in {a[i] : i \in DOMAIN a}
  <2>1. j + n \in DOMAIN a /\ a[j + n] = s[j]
    BY <1>1, <1>2
  <2> QED
    BY <2>1
<1>6. {a[i] : i \in DOMAIN a} = {r[i] : i \in DOMAIN r} \cup {s[i] : i \in DOMAIN s}
  BY <1>3, <1>4, <1>5
<1> QED
  BY <1>6 DEF ToSet, a

\* What Keep returns: the elements that are in d, each as often as before.
LEMMA KeepFacts ==
  ASSUME NEW B, NEW q \in Seq(B), NEW d
  PROVE  /\ Keep(q, d) \in Seq(B)
         /\ ToSet(Keep(q, d)) = ToSet(q) \cap d
         /\ (\A i, j \in DOMAIN q : q[i] = q[j] => i = j) =>
               \A i, j \in DOMAIN Keep(q, d) : Keep(q, d)[i] = Keep(q, d)[j] => i = j
<1>1. PICK h : Kept(q, d, h) /\ h \in [0 .. Len(q) -> Seq(B)]
  BY KeepSteps
<1> DEFINE n == Len(q)
           Once(r) == \A i, j \in DOMAIN r : r[i] = r[j] => i = j
           P(k) == /\ ToSet(h[k]) = {q[i] : i \in 1 .. k} \cap d
                   /\ Once(q) => Once(h[k])
           T == {k \in 0 .. n : P(k)}
<1>2. /\ n \in Nat /\ DOMAIN q = 1 .. n /\ h \in [0 .. n -> Seq(B)]
      /\ h[0] = <<>> /\ Keep(q, d) = h[n]
      /\ \A k \in 1 .. n : h[k] = IF q[k] \in d THEN Append(h[k - 1], q[k]) ELSE h[k - 1]
  BY <1>1 DEF Kept
<1> HIDE DEF n
<1>3. P(0)
  <2>1. ToSet(<<>>) = {} /\ Once(<<>>)
    BY DEF ToSet
  <2>2. {q[i] : i \in 1 .. 0} = {}
    OBVIOUS
  <2> HIDE DEF Once
  <2> QED
    BY <1>2, <2>1, <2>2
<1>4. ASSUME NEW i \in 0 .. n - 1, P(i) PROVE P(i + 1)
  <2> DEFINE k == i + 1
             r == h[i]
             x == q[k]
  <2>1. k \in 1 .. n /\ k - 1 = i /\ i \in 0 .. n /\ k \in 0 .. n
    BY <1>2
  <2>2. r \in Seq(B) /\ h[k] = (IF x \in d THEN Append(r, x) ELSE r) /\ x \in B
    BY <1>2, <2>1
  <2>3. ToSet(r) = {q[j] : j \in 1 .. i} \cap d /\ (Once(q) => Once(r))
    BY <1>4
  <2>4. {q[j] : j \in 1 .. k} = {q[j] : j \in 1 .. i} \cup {x}
    <3>1. 1 .. k = (1 .. i) \cup {k}
      BY <2>1
    <3> HIDE DEF k
    <3> QED
      BY <3>1
  <2> HIDE DEF k, r, x, Once
  <2>5. CASE x \notin d
    BY <2>2, <2>3, <2>4, <2>5 DEF k
  <2>6. CASE x \in d
    <3>1. h[k] = Append(r, x)
      BY <2>2, <2>6
    <3>2. ToSet(Append(r, x)) = ToSet(r) \cup {x}
      BY <2>2, SetOfAppend
    <3>3. ToSet(h[k]) = {q[j] : j \in 1 .. k} \cap d
      BY <2>3, <2>4, <2>6, <3>1, <3>2
    <3>4. Once(q) => Once(Append(r, x))
      <4> SUFFICES ASSUME Once(q) PROVE Once(Append(r, x))
        OBVIOUS
      <4>1. x \notin ToSet(r)
        <5>1. \A j, m \in 1 .. n : q[j] = q[m] => j = m
          BY <1>2 DEF Once
        <5>2. ASSUME NEW j \in 1 .. i PROVE q[j] # q[k]
          <6>1. j \in 1 .. n /\ j # k
            BY <1>2, <2>1
          <6> QED
            BY <2>1, <5>1, <6>1
        <5> QED
          BY <2>3, <5>2 DEF x
      <4>2. Once(r)
        BY <2>3
      <4>3. \A j \in DOMAIN r : r[j] # x
        BY <4>1 DEF ToSet
      <4> QED
        BY <2>2, <4>2, <4>3 DEF Once
    <3> QED
      BY <3>1, <3>3, <3>4 DEF k
  <2> QED
    BY <2>5, <2>6
<1> HIDE DEF P
<1>5. 0 \in T
  BY <1>2, <1>3
<1>6. \A i \in 0 .. n - 1 : i \in T => i + 1 \in T
  BY <1>2, <1>4
<1>7. n \in T
  <2> HIDE DEF T
  <2>1. n \in Nat /\ n \in 0 .. n
    BY <1>2
  <2>2. \A k \in 0 .. n : k \in T
    BY <1>5, <1>6, <2>1, CountUp
  <2> QED
    BY <2>1, <2>2
<1>8. P(n)
  BY <1>7
<1>9. {q[i] : i \in 1 .. n} = ToSet(q)
  BY <1>2 DEF ToSet
<1>10. Keep(q, d) \in Seq(B)
  BY <1>2
<1>11. ToSet(Keep(q, d)) = ToSet(q) \cap d /\ (Once(q) => Once(Keep(q, d)))
  BY <1>2, <1>8, <1>9 DEF P
<1> QED
  BY <1>10, <1>11

(***************************************************************************)
(* What outputs are worth                                                  *)
(***************************************************************************)

Priced(O) == \A o \in O : AmountOf(o) \in Int

\* The running worth of a sequence of outputs.
WorthRun(s, f) ==
  /\ f \in [0 .. Len(s) -> Int]
  /\ f[0] = 0 /\ Worth(s) = f[Len(s)]
  /\ \A k \in 1 .. Len(s) : f[k] = f[k - 1] + AmountOf(s[k])

\* The worth of a sequence of outputs is reached by adding their amounts one by one.
LEMMA WorthSteps ==
  ASSUME NEW O, Priced(O), NEW s \in Seq(O)
  PROVE  \E f : WorthRun(s, f)
<1> DEFINE n == Len(s)
           E(k) == AmountOf(s[k])
           q == [k \in DOMAIN s |-> E(k)]
<1>1. n \in Nat /\ DOMAIN s = 1 .. n /\ \A k \in 1 .. n : s[k] \in O
  OBVIOUS
<1>2. \A k \in 1 .. n : E(k) \in Int
  BY <1>1 DEF Priced
<1>3. Worth(s) = SumSeq(q)
  BY Zenon DEF Worth
<1> HIDE DEF n, E
<1>4. q \in Seq(Int) /\ Len(q) = n /\ \A k \in 1 .. n : q[k] = E(k)
  BY <1>1, <1>2
<1> HIDE DEF q
<1>5. PICK f : Totals(q, f)
  BY <1>4, SumSteps
<1>6. WorthRun(s, f)
  BY <1>3, <1>4, <1>5 DEF Totals, WorthRun, n, E
<1> QED
  BY <1>6

\* Two sequences of outputs are together worth the sum of what they are worth.
LEMMA WorthConcat ==
  ASSUME NEW O, Priced(O), NEW s \in Seq(O), NEW t \in Seq(O)
  PROVE  /\ Worth(s) \in Int /\ Worth(t) \in Int
         /\ Worth(s \o t) = Worth(s) + Worth(t)
<1> DEFINE a == s \o t
           n == Len(s)
           m == Len(t)
<1>1. /\ n \in Nat /\ m \in Nat /\ a \in Seq(O) /\ Len(a) = n + m
      /\ \A i \in 1 .. n : a[i] = s[i]
      /\ \A i \in 1 .. m : a[n + i] = t[i]
      /\ \A i \in 1 .. m : t[i] \in O
      /\ \A i \in 1 .. n : s[i] \in O
  OBVIOUS
<1>2. PICK f : WorthRun(a, f)
  <2> HIDE DEF a
  <2> QED
    BY <1>1, WorthSteps
<1>3. PICK fs : WorthRun(s, fs)
  BY WorthSteps
<1>4. PICK ft : WorthRun(t, ft)
  BY WorthSteps
<1>5. /\ f \in [0 .. n + m -> Int] /\ f[0] = 0 /\ Worth(a) = f[n + m]
      /\ \A k \in 1 .. n + m : f[k] = f[k - 1] + AmountOf(a[k])
  BY <1>1, <1>2 DEF WorthRun
<1>6. /\ fs \in [0 .. n -> Int] /\ fs[0] = 0 /\ Worth(s) = fs[n]
      /\ \A k \in 1 .. n : fs[k] = fs[k - 1] + AmountOf(s[k])
  BY <1>1, <1>3 DEF WorthRun
<1>7. /\ ft \in [0 .. m -> Int] /\ ft[0] = 0 /\ Worth(t) = ft[m]
      /\ \A k \in 1 .. m : ft[k] = ft[k - 1] + AmountOf(t[k])
  BY <1>1, <1>4 DEF WorthRun
<1> HIDE DEF a, n, m
<1>8. f[n] = fs[n]
  <2> DEFINE T == {k \in 0 .. n : f[k] = fs[k]}
  <2>1. 0 \in T
    BY <1>1, <1>5, <1>6
  <2>2. ASSUME NEW i \in 0 .. n - 1, i \in T PROVE i + 1 \in T
    <3>1. i + 1 \in 1 .. n /\ i + 1 \in 1 .. n + m /\ (i + 1) - 1 = i /\ i + 1 \in 0 .. n
      BY <1>1
    <3>2. f[i + 1] = f[i] + AmountOf(a[i + 1])
      BY <1>5, <3>1
    <3>3. fs[i + 1] = fs[i] + AmountOf(s[i + 1])
      BY <1>6, <3>1
    <3>4. a[i + 1] = s[i + 1]
      BY <1>1, <3>1
    <3>5. f[i] = fs[i]
      BY <2>2
    <3> QED
      BY <3>1, <3>2, <3>3, <3>4, <3>5
  <2>3. n \in T
    <3> HIDE DEF T
    <3>1. \A k \in 0 .. n : k \in T
      BY <1>1, <2>1, <2>2, CountUp
    <3> QED
      BY <1>1, <3>1
  <2> QED
    BY <2>3
<1>9. f[n + m] = fs[n] + ft[m]
  <2> DEFINE T == {k \in 0 .. m : f[n + k] = fs[n] + ft[k]}
  <2>1. 0 \in T
    BY <1>1, <1>6, <1>7, <1>8
  <2>2. ASSUME NEW i \in 0 .. m - 1, i \in T PROVE i + 1 \in T
    <3>1. /\ i + 1 \in 1 .. m /\ n + (i + 1) \in 1 .. n + m /\ (i + 1) - 1 = i
          /\ (n + (i + 1)) - 1 = n + i /\ i + 1 \in 0 .. m /\ i \in 0 .. m
      BY <1>1
    <3>2. f[n + (i + 1)] = f[n + i] + AmountOf(a[n + (i + 1)])
      BY <1>5, <3>1
    <3>3. ft[i + 1] = ft[i] + AmountOf(t[i + 1])
      BY <1>7, <3>1
    <3>4. a[n + (i + 1)] = t[i + 1]
      BY <1>1, <3>1
    <3>5. f[n + i] = fs[n] + ft[i]
      BY <2>2
    <3>6. AmountOf(t[i + 1]) \in Int
      BY <1>1, <3>1 DEF Priced
    <3>7. fs[n] \in Int /\ ft[i] \in Int
      BY <1>1, <1>6, <1>7, <3>1
    <3>8. f[n + (i + 1)] = fs[n] + ft[i + 1]
      BY <3>2, <3>3, <3>4, <3>5, <3>6, <3>7
    <3> QED
      BY <3>1, <3>8
  <2>3. m \in T
    <3> HIDE DEF T
    <3>1. \A k \in 0 .. m : k \in T
      BY <1>1, <2>1, <2>2, CountUp
    <3> QED
      BY <1>1, <3>1
  <2> QED
    BY <2>3
<1>10. fs[n] \in Int /\ ft[m] \in Int
  BY <1>1, <1>6, <1>7
<1> QED
  BY <1>5, <1>6, <1>7, <1>9, <1>10 DEF a

\* What a sequence is worth with one output more.
LEMMA WorthAppend ==
  ASSUME NEW O, Priced(O), NEW s \in Seq(O), NEW x \in O
  PROVE  /\ Worth(<<>>) = 0 /\ Worth(s) \in Int
         /\ Worth(Append(s, x)) = Worth(s) + AmountOf(x)
<1>1. <<x>> \in Seq(O) /\ <<>> \in Seq(O) /\ Append(s, x) = s \o <<x>>
  OBVIOUS
<1>2. PICK f : WorthRun(<<x>>, f)
  BY <1>1, WorthSteps
<1>3. PICK e : WorthRun(<<>>, e)
  BY <1>1, WorthSteps
<1>4. Worth(<<>>) = 0
  BY <1>3 DEF WorthRun
<1>5. Worth(<<x>>) = AmountOf(x)
  <2>1. Len(<<x>>) = 1 /\ <<x>>[1] = x /\ 1 \in 1 .. 1 /\ 1 - 1 = 0
    OBVIOUS
  <2>2. Worth(<<x>>) = f[1] /\ f[0] = 0 /\ f[1] = f[0] + AmountOf(x)
    BY <1>2, <2>1 DEF WorthRun
  <2>3. AmountOf(x) \in Int
    BY DEF Priced
  <2> QED
    BY <2>2, <2>3
<1>6. Worth(s) \in Int /\ Worth(s \o <<x>>) = Worth(s) + Worth(<<x>>)
  BY <1>1, WorthConcat
<1> QED
  BY <1>1, <1>4, <1>5, <1>6

\* A sequence is worth what is kept of it and what is not.
LEMMA WorthKept ==
  ASSUME NEW O, Priced(O), NEW q \in Seq(O), NEW d, NEW e,
         \A o \in ToSet(q) : o \in d <=> o \notin e
  PROVE  Worth(q) = Worth(Keep(q, d)) + Worth(Keep(q, e))
<1>1. PICK h : Kept(q, d, h) /\ h \in [0 .. Len(q) -> Seq(O)]
  BY KeepSteps
<1>2. PICK g : Kept(q, e, g) /\ g \in [0 .. Len(q) -> Seq(O)]
  BY KeepSteps
<1>3. PICK f : WorthRun(q, f)
  BY WorthSteps
<1> DEFINE n == Len(q)
           T == {k \in 0 .. n : f[k] = Worth(h[k]) + Worth(g[k])}
<1>4. /\ n \in Nat /\ \A k \in 1 .. n : q[k] \in O /\ q[k] \in ToSet(q)
  BY DEF ToSet
<1>5. /\ h \in [0 .. n -> Seq(O)] /\ h[0] = <<>> /\ Keep(q, d) = h[n]
      /\ \A k \in 1 .. n : h[k] = IF q[k] \in d THEN Append(h[k - 1], q[k]) ELSE h[k - 1]
  BY <1>1 DEF Kept
<1>6. /\ g \in [0 .. n -> Seq(O)] /\ g[0] = <<>> /\ Keep(q, e) = g[n]
      /\ \A k \in 1 .. n : g[k] = IF q[k] \in e THEN Append(g[k - 1], q[k]) ELSE g[k - 1]
  BY <1>2 DEF Kept
<1>7. /\ f \in [0 .. n -> Int] /\ f[0] = 0 /\ Worth(q) = f[n]
      /\ \A k \in 1 .. n : f[k] = f[k - 1] + AmountOf(q[k])
  BY <1>3 DEF WorthRun
<1> HIDE DEF n
<1>8. 0 \in T
  <2>1. Worth(<<>>) = 0
    <3>1. <<>> \in Seq(O)
      OBVIOUS
    <3>2. PICK z : WorthRun(<<>>, z)
      BY <3>1, WorthSteps
    <3> QED
      BY <3>2 DEF WorthRun
  <2> QED
    BY <1>4, <1>5, <1>6, <1>7, <2>1
<1>9. ASSUME NEW i \in 0 .. n - 1, i \in T PROVE i + 1 \in T
  <2> DEFINE k == i + 1
             x == q[k]
  <2>1. k \in 1 .. n /\ k - 1 = i /\ k \in 0 .. n /\ i \in 0 .. n
    BY <1>4
  <2>2. x \in O /\ h[i] \in Seq(O) /\ g[i] \in Seq(O) /\ (x \in d <=> x \notin e)
    BY <1>4, <1>5, <1>6, <2>1
  <2>3. f[k] = f[i] + AmountOf(x)
    BY <1>7, <2>1
  <2>4. f[i] = Worth(h[i]) + Worth(g[i])
    BY <1>9
  <2>5. h[k] = IF x \in d THEN Append(h[i], x) ELSE h[i]
    BY <1>5, <2>1
  <2>6. g[k] = IF x \in e THEN Append(g[i], x) ELSE g[i]
    BY <1>6, <2>1
  <2> HIDE DEF x, k
  <2>7. /\ Worth(h[i]) \in Int /\ Worth(Append(h[i], x)) = Worth(h[i]) + AmountOf(x)
        /\ Worth(g[i]) \in Int /\ Worth(Append(g[i], x)) = Worth(g[i]) + AmountOf(x)
    BY <2>2, WorthAppend
  <2>8. AmountOf(x) \in Int
    BY <2>2 DEF Priced
  <2>9. CASE x \in d
    <3>1. f[k] = Worth(h[k]) + Worth(g[k])
      BY <2>2, <2>3, <2>4, <2>5, <2>6, <2>7, <2>8, <2>9
    <3> QED
      BY <2>1, <3>1 DEF k
  <2>10. CASE x \notin d
    <3>1. f[k] = Worth(h[k]) + Worth(g[k])
      BY <2>2, <2>3, <2>4, <2>5, <2>6, <2>7, <2>8, <2>10
    <3> QED
      BY <2>1, <3>1 DEF k
  <2> QED
    BY <2>9, <2>10
<1>10. n \in T
  <2> HIDE DEF T
  <2>1. \A k \in 0 .. n : k \in T
    BY <1>4, <1>8, <1>9, CountUp
  <2> QED
    BY <1>4, <2>1
<1> QED
  BY <1>5, <1>6, <1>7, <1>10

(***************************************************************************)
(* One transaction of the list                                             *)
(***************************************************************************)

\* The contents of every transaction have a sequence of outputs with amounts.
BodiesOK ==
  \A t \in Tx : /\ Len(body[t].out) \in Nat
                /\ DOMAIN body[t].out = 1 .. Len(body[t].out)
                /\ \A n \in DOMAIN body[t].out : body[t].out[n].amount \in Nat /\ body[t].out[n].addr[2] \in Nat

Outpoints == {o \in Tx \X Nat : o[2] \in DOMAIN body[o[1]].out}

\* The outputs of the transactions in X that pay an address of w.
OutsOf(w, X) ==
  {o \in UNION {{<<t, n>> : n \in DOMAIN body[t].out} : t \in X} : OutputOf(o).addr \in AddrsUpTo(w.count)}

Once(r) == \A i, j \in DOMAIN r : r[i] = r[j] => i = j

Ledgers(w) ==
  [utxos : Seq(Outpoints), balance : Int, spent : SUBSET UNION {Inputs(t) : t \in Tx},
   invalid : SUBSET Tx, pending : SUBSET Tx, used : SUBSET UNION {OutputAddrs(t) : t \in Tx},
   hist : Seq(Int), sent : Int, received : Int, known : {w.count}]

\* Outputs that exist have an amount.
LEMMA OutpointsPriced ==
  ASSUME BodiesOK
  PROVE  Priced(Outpoints)
<1> SUFFICES ASSUME NEW o \in Outpoints PROVE AmountOf(o) \in Int
  BY DEF Priced
<1>1. o[1] \in Tx /\ o[2] \in DOMAIN body[o[1]].out
  BY DEF Outpoints
<1> QED
  BY <1>1 DEF BodiesOK, AmountOf, OutputOf

\* The wallet's outputs of one transaction, each once.
LEMMA OwnFacts ==
  ASSUME NEW w, NEW t \in Tx, BodiesOK
  PROVE  /\ OwnOutputs(w, t) \in Seq(Outpoints)
         /\ ToSet(OwnOutputs(w, t)) = OutsOf(w, {t})
         /\ Once(OwnOutputs(w, t))
<1> DEFINE m == Len(body[t].out)
           outs == [n \in 1 .. m |-> <<t, n>>]
           d == {o \in ToSet(outs) : OutputOf(o).addr \in AddrsUpTo(w.count)}
<1>1. m \in Nat /\ DOMAIN body[t].out = 1 .. m
  BY DEF BodiesOK
<1>2. OwnOutputs(w, t) = Keep(outs, d)
  BY DEF OwnOutputs
<1>3. \A n \in 1 .. m : <<t, n>> \in Outpoints
  BY <1>1 DEF Outpoints
<1> HIDE DEF m
<1>4. outs \in Seq(Outpoints) /\ DOMAIN outs = 1 .. m /\ \A n \in 1 .. m : outs[n] = <<t, n>>
  BY <1>1, <1>3
<1>5. Once(outs)
  BY <1>4 DEF Once
<1>6. ToSet(outs) = {<<t, n>> : n \in DOMAIN body[t].out}
  BY <1>1, <1>4 DEF ToSet
<1> HIDE DEF outs
<1>7. d = OutsOf(w, {t}) /\ d \subseteq ToSet(outs)
  BY <1>6 DEF OutsOf
<1> HIDE DEF d
<1>8. /\ Keep(outs, d) \in Seq(Outpoints) /\ ToSet(Keep(outs, d)) = ToSet(outs) \cap d
      /\ Once(Keep(outs, d))
  <2>1. \A i, j \in DOMAIN outs : outs[i] = outs[j] => i = j
    BY <1>5 DEF Once
  <2>2. \A i, j \in DOMAIN Keep(outs, d) : Keep(outs, d)[i] = Keep(outs, d)[j] => i = j
    BY <1>4, <2>1, KeepFacts, Zenon
  <2> QED
    BY <1>4, <2>2, KeepFacts, Zenon DEF Once
<1>9. ToSet(outs) \cap d = OutsOf(w, {t})
  BY <1>7
<1> QED
  BY <1>2, <1>8, <1>9, Zenon

\* What a counted transaction changes.
Counts(w, l, t, r) ==
  LET added == l.utxos \o OwnOutputs(w, t)
  IN /\ r.spent = l.spent \cup Inputs(t) /\ r.used = l.used \cup OutputAddrs(t)
     /\ r.invalid = l.invalid /\ r.pending = l.pending
     /\ r.utxos = Keep(added, ToSet(added) \ r.spent)
     /\ r.balance = l.balance + Worth(OwnOutputs(w, t)) - Worth(Keep(added, r.spent))
     /\ r.received - r.sent = (l.received - l.sent) + (r.balance - l.balance)
     /\ r.hist = Append(l.hist, r.balance)

\* Counting one transaction: what it spends leaves the outputs, what it pays the
\* wallet joins them, and the balance moves by the difference.
LEMMA CountFacts ==
  ASSUME NEW w, NEW l \in Ledgers(w), NEW t \in Tx, BodiesOK
  PROVE  CountTx(w, l, t) \in Ledgers(w) /\ Counts(w, l, t, CountTx(w, l, t))
<1> DEFINE own == OwnOutputs(w, t)
           spent == l.spent \cup Inputs(t)
           added == l.utxos \o own
           utxos == Keep(added, ToSet(added) \ spent)
           balance == l.balance + Worth(own) - Worth(Keep(added, spent))
           used == l.used \cup OutputAddrs(t)
           received == IF l.balance < balance THEN l.received + (balance - l.balance) ELSE l.received
           sent == IF balance < l.balance THEN l.sent + (l.balance - balance) ELSE l.sent
           hist == Append(l.hist, balance)
           r == [l EXCEPT !.spent = spent, !.used = used, !.utxos = utxos, !.balance = balance,
                          !.received = received, !.sent = sent, !.hist = hist]
<1>1. CountTx(w, l, t) = r
  BY Zenon DEF CountTx
<1>2. /\ l.utxos \in Seq(Outpoints) /\ l.balance \in Int /\ l.received \in Int /\ l.sent \in Int
      /\ l.hist \in Seq(Int) /\ l.spent \in SUBSET UNION {Inputs(x) : x \in Tx}
      /\ l.used \in SUBSET UNION {OutputAddrs(x) : x \in Tx}
  BY DEF Ledgers
<1>3. own \in Seq(Outpoints)
  BY OwnFacts
<1>4. Priced(Outpoints)
  BY OutpointsPriced
<1>5. added \in Seq(Outpoints)
  <2> HIDE DEF own
  <2> QED
    BY <1>2, <1>3
<1>6. Keep(added, spent) \in Seq(Outpoints) /\ utxos \in Seq(Outpoints)
  <2> HIDE DEF added, spent
  <2> QED
    BY <1>5, KeepFacts
<1>7. Worth(own) \in Int /\ Worth(Keep(added, spent)) \in Int
  <2> HIDE DEF own, added, spent
  <2> QED
    BY <1>3, <1>4, <1>6, WorthConcat
<1>8. balance \in Int
  <2> HIDE DEF own, added, spent
  <2> QED
    BY <1>2, <1>7
<1>9. spent \in SUBSET UNION {Inputs(x) : x \in Tx} /\ used \in SUBSET UNION {OutputAddrs(x) : x \in Tx}
  BY <1>2
<1> HIDE DEF balance, own, utxos, added
<1>10. received \in Int /\ sent \in Int /\ hist \in Seq(Int)
       /\ received - sent = (l.received - l.sent) + (balance - l.balance)
  <2>1. hist \in Seq(Int)
    BY <1>2, <1>8
  <2>2. l.balance \in Int /\ l.received \in Int /\ l.sent \in Int
    BY <1>2
  <2>3. CASE l.balance < balance
    BY <1>8, <2>1, <2>2, <2>3
  <2>4. CASE balance < l.balance
    BY <1>8, <2>1, <2>2, <2>4
  <2>5. CASE balance = l.balance
    BY <1>8, <2>1, <2>2, <2>5
  <2> QED
    BY <1>8, <2>2, <2>3, <2>4, <2>5
<1> HIDE DEF spent, used, received, sent, hist
<1>11. /\ r \in Ledgers(w)
       /\ r.spent = spent /\ r.used = used /\ r.utxos = utxos /\ r.balance = balance /\ r.invalid = l.invalid
       /\ r.pending = l.pending /\ r.received = received /\ r.sent = sent /\ r.hist = hist
  BY <1>6, <1>8, <1>9, <1>10 DEF Ledgers
<1> HIDE DEF r
<1>12. Counts(w, l, t, r)
  BY <1>10, <1>11 DEF Counts, spent, used, utxos, balance, own, added, hist
<1> QED
  BY <1>1, <1>11, <1>12

\* What a transaction that is not counted changes.
Skips(l, r) ==
  /\ r.utxos = l.utxos /\ r.balance = l.balance /\ r.received = l.received /\ r.sent = l.sent
  /\ r.hist = Append(l.hist, l.balance) /\ r.used = l.used

Rejects(l, t, r) ==
  Skips(l, r) /\ r.invalid = l.invalid \cup {t} /\ r.pending = l.pending /\ r.spent = l.spent

Delays(l, t, r) ==
  Skips(l, r) /\ r.invalid = l.invalid /\ r.pending = l.pending \cup {t} /\ r.spent = l.spent \cup Inputs(t)

\* Spends nothing that an earlier transaction spends, or is confirmed.
Allowed(w, l, t) == w.height[t] = Unconfirmed => Inputs(t) \cap l.spent = {}

\* One transaction of the list is rejected, delayed or counted.
LEMMA StepFacts ==
  ASSUME NEW w, NEW l \in Ledgers(w), NEW t \in Tx, BodiesOK
  PROVE  /\ LedgerStep(w, l, t) \in Ledgers(w)
         /\ \/ Rejects(l, t, LedgerStep(w, l, t))
            \/ Allowed(w, l, t) /\ Delays(l, t, LedgerStep(w, l, t))
            \/ Allowed(w, l, t) /\ Counts(w, l, t, LedgerStep(w, l, t))
<1> DEFINE open == w.height[t] = Unconfirmed
           isInvalid == open /\ (Inputs(t) \cap l.spent # {} \/ InputTxs(t) \cap l.invalid # {})
           isPending == open /\ (IsPostdated(t, w.tip) \/ InputTxs(t) \cap l.pending # {})
           hist == Append(l.hist, l.balance)
           no == [l EXCEPT !.invalid = @ \cup {t}, !.hist = hist]
           later == [l EXCEPT !.spent = @ \cup Inputs(t), !.pending = @ \cup {t}, !.hist = hist]
<1>1. LedgerStep(w, l, t) = IF isInvalid THEN no ELSE IF isPending THEN later ELSE CountTx(w, l, t)
  BY Zenon DEF LedgerStep
<1>2. ~isInvalid => Allowed(w, l, t)
  BY DEF Allowed
<1>3. hist \in Seq(Int)
  BY DEF Ledgers
<1>4. no \in Ledgers(w) /\ Rejects(l, t, no)
  BY <1>3 DEF Ledgers, Rejects, Skips
<1>5. later \in Ledgers(w) /\ Delays(l, t, later)
  BY <1>3 DEF Ledgers, Delays, Skips
<1>6. CountTx(w, l, t) \in Ledgers(w) /\ Counts(w, l, t, CountTx(w, l, t))
  BY CountFacts
<1> HIDE DEF isInvalid, isPending, no, later
<1>7. CASE isInvalid
  BY <1>1, <1>4, <1>7
<1>8. CASE ~isInvalid /\ isPending
  BY <1>1, <1>2, <1>5, <1>8
<1>9. CASE ~isInvalid /\ ~isPending
  BY <1>1, <1>2, <1>6, <1>9
<1> QED
  BY <1>7, <1>8, <1>9

(***************************************************************************)
(* The list from its first transaction to its last                         *)
(***************************************************************************)

\* What is asked of a wallet: every transaction is listed once.
IsWallet(w) ==
  /\ DOMAIN w = DOMAIN EmptyWallet
  /\ w.list \in Seq(Tx) /\ Once(w.list)

FirstLedger(w) == [EmptyLedger EXCEPT !.known = w.count]

\* The ledger before the first transaction.
LEMMA FirstFacts ==
  ASSUME NEW w
  PROVE  /\ FirstLedger(w) \in Ledgers(w)
         /\ FirstLedger(w).utxos = <<>> /\ FirstLedger(w).balance = 0 /\ FirstLedger(w).spent = {}
         /\ FirstLedger(w).invalid = {} /\ FirstLedger(w).pending = {} /\ FirstLedger(w).hist = <<>>
         /\ FirstLedger(w).sent = 0 /\ FirstLedger(w).received = 0
<1> DEFINE z == [c \in Chains |-> 0]
           c0 == w.count
           none == [utxos : Seq(Outpoints), balance : Int, spent : SUBSET UNION {Inputs(t) : t \in Tx},
                    invalid : SUBSET Tx, pending : SUBSET Tx, used : SUBSET UNION {OutputAddrs(t) : t \in Tx},
                    hist : Seq(Int), sent : Int, received : Int, known : {z}]
           e == EmptyLedger
<1>1. e = [utxos |-> <<>>, balance |-> 0, spent |-> {}, invalid |-> {}, pending |-> {},
           used |-> {}, hist |-> <<>>, sent |-> 0, received |-> 0, known |-> z]
  BY DEF EmptyLedger
<1>2. FirstLedger(w) = [e EXCEPT !.known = c0]
  BY DEF FirstLedger
<1> HIDE DEF z, c0, e
<1>3. e \in none /\ e.utxos = <<>> /\ e.balance = 0 /\ e.spent = {} /\ e.invalid = {} /\ e.pending = {}
      /\ e.hist = <<>> /\ e.sent = 0 /\ e.received = 0
  BY <1>1
<1>4. [e EXCEPT !.known = c0] \in Ledgers(w)
  BY <1>3 DEF Ledgers, c0
<1> QED
  BY <1>2, <1>3, <1>4

\* The ledgers that UpdateBalance passes through.
LedgerRun(w, g) ==
  /\ g \in [0 .. Len(w.list) -> Ledgers(w)]
  /\ g[0] = FirstLedger(w) /\ UpdateBalance(w).ledger = g[Len(w.list)]
  /\ \A k \in 1 .. Len(w.list) : g[k] = LedgerStep(w, g[k - 1], w.list[k])

\* The ledger is computed in one pass over the list.
LEMMA LedgerSteps ==
  ASSUME NEW w, IsWallet(w), BodiesOK
  PROVE  \E g : LedgerRun(w, g)
<1> DEFINE q == w.list
           n == Len(q)
           S == DOMAIN q
           A == Ledgers(w)
           a == FirstLedger(w)
           F == [p \in (1 .. n) \X A |-> LedgerStep(w, p[2], q[p[1]])]
           RHS(it) == [s \in SUBSET S |-> IF s = {} THEN a ELSE LedgerStep(w, it[s \ {Max(s)}], q[Max(s)])]
           iter == CHOOSE it : it = RHS(it)
<1>1. q \in Seq(Tx) /\ "ledger" \in DOMAIN w
  BY DEF IsWallet, EmptyWallet
<1>2. UpdateBalance(w).ledger = iter[S]
  <2> DEFINE e == FoldLeft(LAMBDA l, t : LedgerStep(w, l, t), a, q)
  <2>1. e = iter[S]
    BY Zenon DEF FoldLeft, MapThenFoldSet
  <2>2. UpdateBalance(w) = [w EXCEPT !.ledger = e]
    BY Zenon DEF UpdateBalance, FirstLedger
  <2> HIDE DEF e, iter
  <2>3. [w EXCEPT !.ledger = e].ledger = e
    BY <1>1
  <2> QED
    BY <2>1, <2>2, <2>3
<1>3. a \in A
  BY FirstFacts
<1> HIDE DEF q, a, A
<1>4. n \in Nat /\ S = 1 .. n /\ \A k \in 1 .. n : q[k] \in Tx
  BY <1>1
<1>5. \A r \in A, k \in 1 .. n : LedgerStep(w, r, q[k]) \in A
  <2> SUFFICES ASSUME NEW r \in A, NEW t \in Tx PROVE LedgerStep(w, r, t) \in A
    BY <1>4
  <2> QED
    BY StepFacts DEF A
<1> HIDE DEF n, S
<1>6. F \in [(1 .. n) \X A -> A] /\ \A k \in 1 .. n, r \in A : F[<<k, r>>] = LedgerStep(w, r, q[k])
  BY <1>5
<1> HIDE DEF F
<1>7. IsFold(n, A, a, F)
  BY <1>3, <1>4, <1>6 DEF IsFold
<1>8. PICK g \in [SUBSET S -> A] : \A s \in SUBSET S : g[s] = FoldFor(F, a, g, s)
  <2>1. HasFold(n, A, a, F)
    BY <1>7, FoldExists
  <2> QED
    BY <1>4, <2>1 DEF HasFold
<1>9. ASSUME NEW h, NEW s \in SUBSET S, s # {}, h[s \ {Max(s)}] \in A
      PROVE  FoldFor(F, a, h, s) = LedgerStep(w, h[s \ {Max(s)}], q[Max(s)])
  <2> DEFINE m == Max(s)
  <2>1. m \in S
    <3>1. Max(s) \in s
      BY <1>4, <1>9, LargestIn, Zenon
    <3> QED
      BY <3>1
  <2>2. FoldFor(F, a, h, s) = F[<<m, h[s \ {m}]>>]
    BY <1>9, Zenon DEF FoldFor
  <2>3. h[s \ {m}] \in A
    BY <1>9
  <2> HIDE DEF m
  <2>4. F[<<m, h[s \ {m}]>>] = LedgerStep(w, h[s \ {m}], q[m])
    BY <1>4, <1>6, <2>1, <2>3
  <2> QED
    BY <2>2, <2>4 DEF m
<1>10. g = RHS(g)
  <2>1. ASSUME NEW s \in SUBSET S
        PROVE  g[s] = IF s = {} THEN a ELSE LedgerStep(w, g[s \ {Max(s)}], q[Max(s)])
    <3>1. CASE s = {}
      BY <1>8, <3>1, Zenon DEF FoldFor
    <3>2. CASE s # {}
      <4>1. s \ {Max(s)} \in SUBSET S
        <5> DEFINE m == Max(s)
        <5> HIDE DEF m
        <5>1. s \ {m} \in SUBSET S
          OBVIOUS
        <5> QED
          BY <5>1 DEF m
      <4>2. g[s \ {Max(s)}] \in A
        BY <1>8, <4>1, Zenon
      <4> QED
        BY <1>8, <1>9, <3>2, <4>2, Zenon
    <3> QED
      BY <3>1, <3>2
  <2>2. g = [s \in SUBSET S |-> g[s]]
    BY <1>8
  <2> QED
    BY <2>1, <2>2, Zenon
<1>11. iter = RHS(iter)
  <2> HIDE DEF RHS
  <2> QED
    BY <1>10, Zenon
<1> HIDE DEF iter
<1>12. \A s \in SUBSET S : iter[s] = IF s = {} THEN a ELSE LedgerStep(w, iter[s \ {Max(s)}], q[Max(s)])
  <2> DEFINE E(s) == IF s = {} THEN a ELSE LedgerStep(w, iter[s \ {Max(s)}], q[Max(s)])
  <2>1. iter = [s \in SUBSET S |-> E(s)]
    BY <1>11
  <2> HIDE DEF E
  <2>2. \A s \in SUBSET S : iter[s] = E(s)
    BY <2>1
  <2> QED
    BY <2>2 DEF E
<1>13. iter[{}] = a
  <2>1. {} \in SUBSET S
    OBVIOUS
  <2> QED
    BY <1>12, <2>1, Zenon
<1>14. \A s \in SUBSET (1 .. n) : (s # {} /\ iter[s \ {Max(s)}] \in A) => iter[s] = FoldFor(F, a, iter, s)
  BY <1>4, <1>9, <1>12, Zenon
<1>15. FoldsTo(n, A, a, F, iter[1 .. n])
  BY <1>7, <1>13, <1>14, FoldAlong
<1>16. PICK h \in [0 .. n -> A] : /\ h[0] = a /\ iter[1 .. n] = h[n]
                                 /\ \A k \in 1 .. n : h[k] = F[<<k, h[k - 1]>>]
  BY <1>15 DEF FoldsTo
<1>17. ASSUME NEW k \in 1 .. n PROVE h[k] = LedgerStep(w, h[k - 1], q[k])
  <2>1. h[k - 1] \in A
    BY <1>4, <1>16
  <2>2. F[<<k, h[k - 1]>>] = LedgerStep(w, h[k - 1], q[k])
    BY <1>6, <2>1
  <2> QED
    BY <1>16, <2>2
<1>18. UpdateBalance(w).ledger = h[n]
  BY <1>2, <1>4, <1>16
<1>19. LedgerRun(w, h)
  BY <1>16, <1>17, <1>18, Zenon DEF LedgerRun, n, A, a, q
<1> QED
  BY <1>19

\* The first k transactions of the list.
Done(w, k) == {w.list[i] : i \in 1 .. k}

\* The last of the first k transactions that was counted, or 0.
LastCounted(w, l, k, last) ==
  /\ last \in 0 .. k
  /\ last # 0 => w.list[last] \notin l.invalid \cup l.pending
  /\ \A i \in last + 1 .. k : w.list[i] \in l.invalid \cup l.pending

\* The outputs that nothing up to the last counted transaction spends.
Unspent(w, l, k, last) ==
  {o \in OutsOf(w, Done(w, k) \ (l.invalid \cup l.pending)) :
      \A t \in Done(w, last) \ l.invalid : o \notin Inputs(t)}

Sorted(w, l, k) ==
  /\ l.invalid \subseteq Done(w, k) /\ l.pending \subseteq Done(w, k)
  /\ l.spent = UNION {Inputs(t) : t \in Done(w, k) \ l.invalid}

Priority(w, l, k) ==
  \A s, t \in Done(w, k) \ l.invalid :
     (s # t /\ Inputs(s) \cap Inputs(t) # {}) =>
        w.height[s] # Unconfirmed \/ w.height[t] # Unconfirmed

Amounted(l, k) ==
  /\ l.balance = Worth(l.utxos) /\ l.balance = l.received - l.sent
  /\ Len(l.hist) = k /\ (k # 0 => l.hist[k] = l.balance)

Coins(w, l, k) ==
  Once(l.utxos) /\ \E last : LastCounted(w, l, k, last) /\ ToSet(l.utxos) = Unspent(w, l, k, last)

\* The invariant of the pass over the list.
Books(w, l, k) == Sorted(w, l, k) /\ Priority(w, l, k) /\ Amounted(l, k) /\ Coins(w, l, k)

\* The books before the first transaction.
LEMMA BooksFirst ==
  ASSUME NEW w, BodiesOK
  PROVE  Books(w, FirstLedger(w), 0)
<1> DEFINE l == FirstLedger(w)
<1>1. /\ l.utxos = <<>> /\ l.balance = 0 /\ l.spent = {} /\ l.invalid = {} /\ l.pending = {}
      /\ l.hist = <<>> /\ l.sent = 0 /\ l.received = 0
  BY FirstFacts
<1> HIDE DEF l
<1>2. Done(w, 0) = {}
  BY DEF Done
<1>3. Sorted(w, l, 0)
  BY <1>1, <1>2 DEF Sorted
<1>4. Priority(w, l, 0)
  BY <1>2 DEF Priority
<1>5. Amounted(l, 0)
  <2>1. <<>> \in Seq(Outpoints) /\ Priced(Outpoints)
    BY OutpointsPriced
  <2>2. PICK f : WorthRun(<<>>, f)
    BY <2>1, WorthSteps
  <2>3. Worth(<<>>) = 0
    BY <2>2 DEF WorthRun
  <2> QED
    BY <1>1, <2>3 DEF Amounted
<1>6. Coins(w, l, 0)
  <2>1. LastCounted(w, l, 0, 0)
    BY DEF LastCounted
  <2>2. Unspent(w, l, 0, 0) = {}
    BY <1>2 DEF Unspent, OutsOf
  <2>3. ToSet(<<>>) = {} /\ Once(<<>>)
    BY DEF ToSet, Once
  <2> QED
    BY <1>1, <2>1, <2>2, <2>3 DEF Coins
<1> QED
  BY <1>3, <1>4, <1>5, <1>6 DEF Books, l

\* The next transaction of the list is not among the ones before it.
LEMMA DoneNext ==
  ASSUME NEW w, IsWallet(w), NEW k \in 1 .. Len(w.list)
  PROVE  /\ w.list[k] \in Tx /\ w.list[k] \notin Done(w, k - 1)
         /\ Done(w, k) = Done(w, k - 1) \cup {w.list[k]}
         /\ \A j \in 0 .. k - 1 : Done(w, j) \subseteq Done(w, k - 1)
         /\ \A j \in 0 .. k - 1 : w.list[k] \notin Done(w, j)
<1>1. w.list \in Seq(Tx) /\ \A i, j \in DOMAIN w.list : w.list[i] = w.list[j] => i = j
  BY DEF IsWallet, Once
<1> DEFINE q == w.list
           n == Len(q)
<1>2. n \in Nat /\ DOMAIN q = 1 .. n /\ k \in 1 .. n
  BY <1>1
<1>3. \A i, j \in 1 .. n : q[i] = q[j] => i = j
  BY <1>1, <1>2
<1>4. w.list[k] \in Tx
  BY <1>1
<1> HIDE DEF q, n
<1>5. ASSUME NEW i \in 1 .. k - 1 PROVE q[i] # q[k]
  <2>1. i \in 1 .. n /\ i # k
    BY <1>2
  <2> QED
    BY <1>2, <1>3, <2>1
<1>6. 1 .. k = (1 .. k - 1) \cup {k}
  BY <1>2
<1>7. \A j \in 0 .. k - 1 : 1 .. j \subseteq 1 .. k - 1
  BY <1>2
<1>8. q[k] \notin {q[i] : i \in 1 .. k - 1}
  BY <1>5
<1>9. {q[i] : i \in 1 .. k} = {q[i] : i \in 1 .. k - 1} \cup {q[k]}
  BY <1>6
<1>10. \A j \in 0 .. k - 1 : {q[i] : i \in 1 .. j} \subseteq {q[i] : i \in 1 .. k - 1}
  BY <1>7
<1> QED
  BY <1>4, <1>8, <1>9, <1>10 DEF Done, q

\* Amounts and history do not change when a transaction is not counted.
LEMMA AmountedSkips ==
  ASSUME NEW w, NEW l \in Ledgers(w), NEW r, NEW k \in Nat \ {0}, Amounted(l, k - 1), Skips(l, r)
  PROVE  Amounted(r, k)
<1>1. l.hist \in Seq(Int) /\ l.balance \in Int
  BY DEF Ledgers
<1>2. r.hist = Append(l.hist, l.balance) /\ Len(l.hist) = k - 1 /\ r.balance = l.balance
  BY DEF Skips, Amounted
<1>3. Len(r.hist) = k /\ r.hist[k] = r.balance
  BY <1>1, <1>2
<1> QED
  BY <1>3 DEF Skips, Amounted

\* A rejected transaction leaves the books as they are, with one more invalid.
LEMMA BooksReject ==
  ASSUME NEW w, IsWallet(w), NEW k \in 1 .. Len(w.list), NEW l \in Ledgers(w), NEW r,
         Books(w, l, k - 1), Rejects(l, w.list[k], r)
  PROVE  Books(w, r, k)
<1> DEFINE t == w.list[k]
           D == Done(w, k - 1)
<1>1. /\ t \in Tx /\ t \notin D /\ Done(w, k) = D \cup {t}
      /\ \A j \in 0 .. k - 1 : Done(w, j) \subseteq D /\ t \notin Done(w, j)
  BY DoneNext
<1>2. /\ Skips(l, r) /\ r.invalid = l.invalid \cup {t} /\ r.pending = l.pending /\ r.spent = l.spent
  BY DEF Rejects
<1>3. /\ l.invalid \subseteq D /\ l.pending \subseteq D
      /\ l.spent = UNION {Inputs(x) : x \in D \ l.invalid}
  BY DEF Books, Sorted
<1>4. k \in Nat \ {0} /\ k - 1 \in Nat /\ k \in Nat
  BY DEF IsWallet
<1> HIDE DEF t, D
<1>5. Done(w, k) \ r.invalid = D \ l.invalid
  BY <1>1, <1>2
<1>6. Done(w, k) \ (r.invalid \cup r.pending) = D \ (l.invalid \cup l.pending)
  BY <1>1, <1>2
<1>7. Sorted(w, r, k)
  BY <1>1, <1>2, <1>3, <1>5 DEF Sorted
<1>8. Priority(w, r, k)
  <2>1. Priority(w, l, k - 1)
    BY DEF Books
  <2> QED
    BY <1>5, <2>1 DEF Priority, D
<1>9. Amounted(r, k)
  BY <1>2, <1>4, AmountedSkips DEF Books
<1>10. Coins(w, r, k)
  <2>1. PICK last : LastCounted(w, l, k - 1, last) /\ ToSet(l.utxos) = Unspent(w, l, k - 1, last)
    BY DEF Books, Coins
  <2>2. last \in 0 .. k - 1 /\ Done(w, last) \subseteq D /\ t \notin Done(w, last)
    BY <1>1, <2>1 DEF LastCounted
  <2>3. Done(w, last) \ r.invalid = Done(w, last) \ l.invalid
    BY <1>2, <2>2
  <2>4. Unspent(w, r, k, last) = Unspent(w, l, k - 1, last)
    BY <1>6, <2>3 DEF Unspent, D
  <2>5. LastCounted(w, r, k, last)
    <3>1. last \in 0 .. k
      BY <1>4, <2>2
    <3>2. last # 0 => w.list[last] \notin r.invalid \cup r.pending
      <4> SUFFICES ASSUME last # 0 PROVE w.list[last] \notin r.invalid \cup r.pending
        OBVIOUS
      <4>1. w.list[last] \notin l.invalid \cup l.pending
        BY <2>1 DEF LastCounted
      <4>2. w.list[last] \in Done(w, last)
        BY <2>2 DEF Done
      <4> QED
        BY <1>2, <2>2, <4>1, <4>2
    <3>3. ASSUME NEW i \in last + 1 .. k PROVE w.list[i] \in r.invalid \cup r.pending
      <4>1. CASE i = k
        BY <1>2, <4>1 DEF t
      <4>2. CASE i # k
        <5>1. i \in last + 1 .. k - 1
          BY <1>4, <2>2, <4>2
        <5>2. w.list[i] \in l.invalid \cup l.pending
          BY <2>1, <5>1 DEF LastCounted
        <5> QED
          BY <1>2, <5>2
      <4> QED
        BY <4>1, <4>2
    <3> QED
      BY <3>1, <3>2, <3>3 DEF LastCounted
  <2>6. r.utxos = l.utxos /\ Once(l.utxos)
    BY <1>2 DEF Skips, Books, Coins
  <2> QED
    BY <2>1, <2>4, <2>5, <2>6 DEF Coins
<1> QED
  BY <1>7, <1>8, <1>9, <1>10 DEF Books

\* What an allowed transaction spends no unconfirmed one before it does.
LEMMA PriorityKept ==
  ASSUME NEW w, IsWallet(w), NEW k \in 1 .. Len(w.list), NEW l \in Ledgers(w), NEW r,
         Books(w, l, k - 1), Allowed(w, l, w.list[k]), r.invalid = l.invalid
  PROVE  Priority(w, r, k)
<1> DEFINE t == w.list[k]
           D == Done(w, k - 1)
<1>1. Done(w, k) = D \cup {t}
  BY DoneNext
<1>2. \A s \in D \ l.invalid : Inputs(s) \subseteq l.spent
  BY DEF Books, Sorted
<1>3. w.height[t] = Unconfirmed => Inputs(t) \cap l.spent = {}
  BY DEF Allowed
<1>4. \A s, u \in D \ l.invalid :
        (s # u /\ Inputs(s) \cap Inputs(u) # {}) => w.height[s] # Unconfirmed \/ w.height[u] # Unconfirmed
  BY DEF Books, Priority
<1> HIDE DEF t, D
<1>5. \A s \in D \ l.invalid : Inputs(s) \cap Inputs(t) # {} => w.height[t] # Unconfirmed
  BY <1>2, <1>3
<1>6. ASSUME NEW s \in (D \cup {t}) \ l.invalid, NEW u \in (D \cup {t}) \ l.invalid,
             s # u, Inputs(s) \cap Inputs(u) # {}
      PROVE  w.height[s] # Unconfirmed \/ w.height[u] # Unconfirmed
  <2>1. CASE s = t
    <3>1. u \in D \ l.invalid /\ Inputs(u) \cap Inputs(t) # {}
      BY <1>6, <2>1
    <3> QED
      BY <1>5, <2>1, <3>1
  <2>2. CASE u = t
    <3>1. s \in D \ l.invalid /\ Inputs(s) \cap Inputs(t) # {}
      BY <1>6, <2>2
    <3> QED
      BY <1>5, <2>2, <3>1
  <2>3. CASE s # t /\ u # t
    BY <1>4, <1>6, <2>3
  <2> QED
    BY <2>1, <2>2, <2>3
<1> QED
  BY <1>1, <1>6 DEF Priority

\* A delayed transaction spends, but its outputs are not counted.
LEMMA BooksDelay ==
  ASSUME NEW w, IsWallet(w), NEW k \in 1 .. Len(w.list), NEW l \in Ledgers(w), NEW r,
         Books(w, l, k - 1), Allowed(w, l, w.list[k]), Delays(l, w.list[k], r)
  PROVE  Books(w, r, k)
<1> DEFINE t == w.list[k]
           D == Done(w, k - 1)
<1>1. /\ t \in Tx /\ t \notin D /\ Done(w, k) = D \cup {t}
      /\ \A j \in 0 .. k - 1 : Done(w, j) \subseteq D /\ t \notin Done(w, j)
  BY DoneNext
<1>2. /\ Skips(l, r) /\ r.invalid = l.invalid /\ r.pending = l.pending \cup {t}
      /\ r.spent = l.spent \cup Inputs(t)
  BY DEF Delays
<1>3. /\ l.invalid \subseteq D /\ l.pending \subseteq D
      /\ l.spent = UNION {Inputs(x) : x \in D \ l.invalid}
  BY DEF Books, Sorted
<1>4. k \in Nat \ {0} /\ k - 1 \in Nat /\ k \in Nat
  BY DEF IsWallet
<1>5. Priority(w, r, k)
  BY <1>2, PriorityKept
<1> HIDE DEF t, D
<1>6. Done(w, k) \ r.invalid = (D \ l.invalid) \cup {t}
  BY <1>1, <1>2, <1>3
<1>7. Done(w, k) \ (r.invalid \cup r.pending) = D \ (l.invalid \cup l.pending)
  BY <1>1, <1>2
<1>8. Sorted(w, r, k)
  <2>1. UNION {Inputs(x) : x \in (D \ l.invalid) \cup {t}} = l.spent \cup Inputs(t)
    BY <1>3
  <2> QED
    BY <1>1, <1>2, <1>3, <1>6, <2>1 DEF Sorted
<1>9. Amounted(r, k)
  BY <1>2, <1>4, AmountedSkips DEF Books
<1>10. Coins(w, r, k)
  <2>1. PICK last : LastCounted(w, l, k - 1, last) /\ ToSet(l.utxos) = Unspent(w, l, k - 1, last)
    BY DEF Books, Coins
  <2>2. last \in 0 .. k - 1 /\ t \notin Done(w, last)
    BY <1>1, <2>1 DEF LastCounted
  <2>3. Done(w, last) \ r.invalid = Done(w, last) \ l.invalid
    BY <1>2
  <2>4. Unspent(w, r, k, last) = Unspent(w, l, k - 1, last)
    BY <1>7, <2>3 DEF Unspent, D
  <2>5. LastCounted(w, r, k, last)
    <3>1. last \in 0 .. k
      BY <1>4, <2>2
    <3>2. last # 0 => w.list[last] \notin r.invalid \cup r.pending
      <4> SUFFICES ASSUME last # 0 PROVE w.list[last] \notin r.invalid \cup r.pending
        OBVIOUS
      <4>1. w.list[last] \notin l.invalid \cup l.pending
        BY <2>1 DEF LastCounted
      <4>2. w.list[last] \in Done(w, last)
        BY <2>2 DEF Done
      <4> QED
        BY <1>2, <2>2, <4>1, <4>2
    <3>3. ASSUME NEW i \in last + 1 .. k PROVE w.list[i] \in r.invalid \cup r.pending
      <4>1. CASE i = k
        BY <1>2, <4>1 DEF t
      <4>2. CASE i # k
        <5>1. i \in last + 1 .. k - 1
          BY <1>4, <2>2, <4>2
        <5>2. w.list[i] \in l.invalid \cup l.pending
          BY <2>1, <5>1 DEF LastCounted
        <5> QED
          BY <1>2, <5>2
      <4> QED
        BY <4>1, <4>2
    <3> QED
      BY <3>1, <3>2, <3>3 DEF LastCounted
  <2>6. r.utxos = l.utxos /\ Once(l.utxos)
    BY <1>2 DEF Skips, Books, Coins
  <2> QED
    BY <2>1, <2>4, <2>5, <2>6 DEF Coins
<1> QED
  BY <1>5, <1>8, <1>9, <1>10 DEF Books

\* Two sequences without repetition and without a common element.
LEMMA OnceConcat ==
  ASSUME NEW B, NEW r \in Seq(B), NEW s \in Seq(B), Once(r), Once(s), ToSet(r) \cap ToSet(s) = {}
  PROVE  Once(r \o s)
<1> DEFINE a == r \o s
           n == Len(r)
           m == Len(s)
<1>1. /\ n \in Nat /\ m \in Nat
      /\ DOMAIN r = 1 .. n /\ DOMAIN s = 1 .. m /\ DOMAIN a = 1 .. (n + m)
      /\ \A i \in 1 .. n : a[i] = r[i]
      /\ \A i \in (n + 1) .. (n + m) : a[i] = s[i - n]
  OBVIOUS
<1>2. \A i \in 1 .. n, j \in 1 .. m : r[i] # s[j]
  <2> SUFFICES ASSUME NEW i \in 1 .. n, NEW j \in 1 .. m PROVE r[i] # s[j]
    OBVIOUS
  <2>1. r[i] \in ToSet(r) /\ s[j] \in ToSet(s)
    BY <1>1 DEF ToSet
  <2> QED
    BY <2>1
<1>3. /\ \A i, j \in 1 .. n : r[i] = r[j] => i = j
      /\ \A i, j \in 1 .. m : s[i] = s[j] => i = j
  BY <1>1 DEF Once
<1> HIDE DEF a, n, m
<1>4. ASSUME NEW i \in 1 .. (n + m), NEW j \in 1 .. (n + m), a[i] = a[j] PROVE i = j
  <2>1. \A x \in 1 .. (n + m) : x \in 1 .. n \/ (x \in (n + 1) .. (n + m) /\ x - n \in 1 .. m)
    BY <1>1
  <2>2. CASE i \in 1 .. n /\ j \in 1 .. n
    BY <1>1, <1>3, <1>4, <2>2
  <2>3. CASE i \in 1 .. n /\ j \in (n + 1) .. (n + m) /\ j - n \in 1 .. m
    BY <1>1, <1>2, <1>4, <2>3
  <2>4. CASE j \in 1 .. n /\ i \in (n + 1) .. (n + m) /\ i - n \in 1 .. m
    BY <1>1, <1>2, <1>4, <2>4
  <2>5. CASE /\ i \in (n + 1) .. (n + m) /\ i - n \in 1 .. m
             /\ j \in (n + 1) .. (n + m) /\ j - n \in 1 .. m
    <3>1. i - n = j - n
      BY <1>1, <1>3, <1>4, <2>5
    <3> QED
      BY <1>1, <3>1
  <2> QED
    BY <2>1, <2>2, <2>3, <2>4, <2>5
<1> QED
  BY <1>1, <1>4 DEF Once, a

\* A counted transaction adds its outputs to the wallet and takes away, from
\* them and from the ones that were there, what it or an earlier one spends.
LEMMA BooksCount ==
  ASSUME NEW w, IsWallet(w), BodiesOK, NEW k \in 1 .. Len(w.list), NEW l \in Ledgers(w),
         NEW r \in Ledgers(w),
         Books(w, l, k - 1), Allowed(w, l, w.list[k]), Counts(w, l, w.list[k], r)
  PROVE  Books(w, r, k)
<1> DEFINE t == w.list[k]
           D == Done(w, k - 1)
           own == OwnOutputs(w, t)
           added == l.utxos \o own
<1>1. /\ t \in Tx /\ t \notin D /\ Done(w, k) = D \cup {t}
      /\ \A j \in 0 .. k - 1 : Done(w, j) \subseteq D /\ t \notin Done(w, j)
  BY DoneNext
<1>2. /\ r.spent = l.spent \cup Inputs(t) /\ r.invalid = l.invalid /\ r.pending = l.pending
      /\ r.utxos = Keep(added, ToSet(added) \ r.spent)
      /\ r.balance = l.balance + Worth(own) - Worth(Keep(added, r.spent))
      /\ r.received - r.sent = (l.received - l.sent) + (r.balance - l.balance)
      /\ r.hist = Append(l.hist, r.balance)
  BY DEF Counts
<1>3. /\ l.invalid \subseteq D /\ l.pending \subseteq D
      /\ l.spent = UNION {Inputs(x) : x \in D \ l.invalid}
  BY DEF Books, Sorted
<1>4. k \in Nat \ {0} /\ k - 1 \in Nat /\ k \in Nat
  BY DEF IsWallet
<1>5. Priority(w, r, k)
  BY <1>2, PriorityKept
<1>6. own \in Seq(Outpoints) /\ ToSet(own) = OutsOf(w, {t}) /\ Once(own)
  BY <1>1, OwnFacts
<1>7. /\ l.utxos \in Seq(Outpoints) /\ l.balance \in Int /\ l.hist \in Seq(Int)
      /\ l.received \in Int /\ l.sent \in Int /\ r.balance \in Int
  BY DEF Ledgers
<1>8. Priced(Outpoints)
  BY OutpointsPriced
<1> HIDE DEF t, D, own
<1>9. added \in Seq(Outpoints)
  BY <1>6, <1>7
<1>10. Done(w, k) \ r.invalid = (D \ l.invalid) \cup {t}
  BY <1>1, <1>2, <1>3
<1>11. Sorted(w, r, k)
  <2>1. UNION {Inputs(x) : x \in (D \ l.invalid) \cup {t}} = l.spent \cup Inputs(t)
    BY <1>3
  <2> QED
    BY <1>1, <1>2, <1>3, <1>10, <2>1 DEF Sorted
<1>12. Amounted(r, k)
  <2>1. l.balance = Worth(l.utxos) /\ l.balance = l.received - l.sent /\ Len(l.hist) = k - 1
    BY DEF Books, Amounted
  <2>2. Worth(added) = Worth(l.utxos) + Worth(own) /\ Worth(own) \in Int
    BY <1>6, <1>7, <1>8, WorthConcat
  <2>3. Worth(added) = Worth(Keep(added, ToSet(added) \ r.spent)) + Worth(Keep(added, r.spent))
    <3> DEFINE d == ToSet(added) \ r.spent
    <3>1. \A o \in ToSet(added) : o \in d <=> o \notin r.spent
      OBVIOUS
    <3> HIDE DEF d, added
    <3>2. Worth(added) = Worth(Keep(added, d)) + Worth(Keep(added, r.spent))
      BY <1>8, <1>9, <3>1, WorthKept
    <3> QED
      BY <3>2 DEF d
  <2>4. Keep(added, r.spent) \in Seq(Outpoints) /\ r.utxos \in Seq(Outpoints)
    <3> HIDE DEF added
    <3> QED
      BY <1>2, <1>9, KeepFacts
  <2>5. Worth(Keep(added, r.spent)) \in Int /\ Worth(r.utxos) \in Int
    BY <1>8, <2>4, WorthConcat
  <2> HIDE DEF added
  <2>6. r.balance = Worth(r.utxos)
    <3> DEFINE A == Worth(added)
               G == Worth(Keep(added, r.spent))
               U == Worth(r.utxos)
               V == Worth(own)
    <3>1. A = U + G /\ A = l.balance + V /\ r.balance = l.balance + V - G
      BY <1>2, <2>1, <2>2, <2>3
    <3>2. U \in Int /\ G \in Int /\ V \in Int
      BY <2>2, <2>5
    <3> HIDE DEF A, G, U, V
    <3>3. r.balance = U
      BY <1>7, <3>1, <3>2
    <3> QED
      BY <3>3 DEF U
  <2>7. r.balance = r.received - r.sent
    BY <1>2, <1>7, <2>1
  <2>8. Len(r.hist) = k /\ r.hist[k] = r.balance
    BY <1>2, <1>4, <1>7, <2>1
  <2> QED
    BY <2>6, <2>7, <2>8 DEF Amounted
<1>13. Coins(w, r, k)
  <2>1. PICK last : LastCounted(w, l, k - 1, last) /\ ToSet(l.utxos) = Unspent(w, l, k - 1, last)
    BY DEF Books, Coins
  <2>2. last \in 0 .. k - 1 /\ Done(w, last) \subseteq D
    BY <1>1, <2>1 DEF LastCounted
  <2> DEFINE X == D \ (l.invalid \cup l.pending)
             old == OutsOf(w, X)
             new == OutsOf(w, {t})
  <2>3. ToSet(l.utxos) = {o \in old : \A x \in Done(w, last) \ l.invalid : o \notin Inputs(x)}
    BY <2>1 DEF Unspent, D
  <2>4. OutsOf(w, X \cup {t}) = old \cup new
    BY DEF OutsOf
  <2>5. Done(w, k) \ (r.invalid \cup r.pending) = X \cup {t}
    BY <1>1, <1>2, <1>3
  <2>6. old \cap new = {}
    <3>1. (\A o \in old : o[1] \in X) /\ (\A o \in new : o[1] = t) /\ t \notin X
      BY <1>1 DEF OutsOf
    <3> HIDE DEF old, new, X
    <3> QED
      BY <3>1
  <2>7. Unspent(w, r, k, k) = {o \in old \cup new : o \notin r.spent}
    <3>1. Unspent(w, r, k, k) = {o \in old \cup new : \A x \in (D \ l.invalid) \cup {t} : o \notin Inputs(x)}
      BY <1>10, <2>4, <2>5 DEF Unspent
    <3>2. \A o : (\A x \in (D \ l.invalid) \cup {t} : o \notin Inputs(x)) <=> o \notin r.spent
      <4>1. r.spent = UNION {Inputs(x) : x \in (D \ l.invalid) \cup {t}}
        BY <1>2, <1>3
      <4> QED
        BY <4>1
    <3> HIDE DEF old, new
    <3> QED
      BY <3>1, <3>2
  <2> HIDE DEF old, new
  <2>8. ToSet(added) = ToSet(l.utxos) \cup new
    BY <1>6, <1>7, SetOfConcat DEF new
  <2>9. Once(added)
    <3>1. ToSet(l.utxos) \cap ToSet(own) = {}
      BY <1>6, <2>3, <2>6 DEF new
    <3>2. Once(l.utxos)
      BY DEF Books, Coins
    <3> QED
      BY <1>6, <1>7, <3>1, <3>2, OnceConcat
  <2> HIDE DEF added
  <2>10. ToSet(r.utxos) = ToSet(added) \ r.spent /\ Once(r.utxos)
    <3> DEFINE d == ToSet(added) \ r.spent
    <3>1. ToSet(added) \cap d = d
      OBVIOUS
    <3>2. r.utxos = Keep(added, d)
      BY <1>2
    <3>3. \A i, j \in DOMAIN added : added[i] = added[j] => i = j
      BY <2>9 DEF Once
    <3> HIDE DEF d
    <3>4. ToSet(Keep(added, d)) = ToSet(added) \cap d
      BY <1>9, KeepFacts, Zenon
    <3>5. \A i, j \in DOMAIN Keep(added, d) : Keep(added, d)[i] = Keep(added, d)[j] => i = j
      BY <1>9, <3>3, KeepFacts, Zenon
    <3> QED
      BY <3>1, <3>2, <3>4, <3>5, Zenon DEF Once, d
  <2>11. ToSet(r.utxos) = Unspent(w, r, k, k)
    <3>1. \A o \in old : o \notin r.spent => o \in ToSet(l.utxos)
      <4>1. \A x \in Done(w, last) \ l.invalid : Inputs(x) \subseteq r.spent
        BY <1>2, <1>3, <2>2
      <4> QED
        BY <2>3, <4>1
    <3>2. ToSet(l.utxos) \subseteq old
      BY <2>3
    <3> QED
      BY <2>7, <2>8, <2>10, <3>1, <3>2
  <2>12. LastCounted(w, r, k, k)
    <3>1. t \notin r.invalid \cup r.pending
      BY <1>1, <1>2, <1>3
    <3>2. \A i \in k + 1 .. k : FALSE
      BY <1>4
    <3> QED
      BY <1>4, <3>1, <3>2 DEF LastCounted, t
  <2> QED
    BY <2>10, <2>11, <2>12 DEF Coins
<1> QED
  BY <1>5, <1>11, <1>12, <1>13 DEF Books

\* The books are right after every transaction of the list.
LEMMA BooksKept ==
  ASSUME NEW w, IsWallet(w), BodiesOK
  PROVE  /\ UpdateBalance(w).ledger \in Ledgers(w)
         /\ Books(w, UpdateBalance(w).ledger, Len(w.list))
<1>1. PICK g : LedgerRun(w, g)
  BY LedgerSteps
<1> DEFINE n == Len(w.list)
           T == {k \in 0 .. n : Books(w, g[k], k)}
<1>2. /\ g \in [0 .. n -> Ledgers(w)] /\ g[0] = FirstLedger(w) /\ UpdateBalance(w).ledger = g[n]
      /\ \A k \in 1 .. n : g[k] = LedgerStep(w, g[k - 1], w.list[k])
  BY <1>1 DEF LedgerRun
<1>3. n \in Nat
  BY DEF IsWallet
<1>4. 0 \in T
  BY <1>2, <1>3, BooksFirst
<1>5. ASSUME NEW i \in 0 .. n - 1, i \in T PROVE i + 1 \in T
  <2> DEFINE k == i + 1
             l == g[i]
             r == g[k]
             t == w.list[k]
  <2>1. k \in 1 .. n /\ k - 1 = i /\ k \in 0 .. n /\ i \in 0 .. n
    BY <1>3
  <2>2. l \in Ledgers(w) /\ r \in Ledgers(w) /\ r = LedgerStep(w, l, t) /\ Books(w, l, k - 1)
    BY <1>2, <1>5, <2>1
  <2>3. t \in Tx
    BY <2>1, DoneNext
  <2> HIDE DEF l, r
  <2>4. \/ Rejects(l, t, r)
        \/ Allowed(w, l, t) /\ Delays(l, t, r)
        \/ Allowed(w, l, t) /\ Counts(w, l, t, r)
    BY <2>2, <2>3, StepFacts
  <2> HIDE DEF k
  <2>5. Books(w, r, k)
    <3>1. CASE Rejects(l, t, r)
      BY <2>1, <2>2, <3>1, BooksReject
    <3>2. CASE Allowed(w, l, t) /\ Delays(l, t, r)
      BY <2>1, <2>2, <3>2, BooksDelay
    <3>3. CASE Allowed(w, l, t) /\ Counts(w, l, t, r)
      BY <2>1, <2>2, <3>3, BooksCount
    <3> QED
      BY <2>4, <3>1, <3>2, <3>3
  <2> QED
    BY <2>1, <2>5 DEF k, r
<1>6. \A k \in 0 .. n : k \in T
  <2> HIDE DEF T
  <2> QED
    BY <1>3, <1>4, <1>5, CountUp
<1>7. n \in 0 .. n
  BY <1>3
<1> QED
  BY <1>2, <1>6, <1>7

(***************************************************************************)
(* The theorems                                                            *)
(***************************************************************************)

\* The fields of the wallet that are not the ledger.
LEMMA UpdateKeeps ==
  ASSUME NEW w, IsWallet(w)
  PROVE  /\ UpdateBalance(w).list = w.list /\ UpdateBalance(w).height = w.height
         /\ UpdateBalance(w).rate = w.rate
<1> DEFINE e == FoldLeft(LAMBDA l, t : LedgerStep(w, l, t), FirstLedger(w), w.list)
<1>1. UpdateBalance(w) = [w EXCEPT !.ledger = e]
  BY Zenon DEF UpdateBalance, FirstLedger
<1> HIDE DEF e
<1>2. {"list", "height", "rate"} \subseteq DOMAIN w
  BY DEF IsWallet, EmptyWallet
<1> QED
  BY <1>1, <1>2

\* The unspent outputs and the balance that _BRWalletUpdateBalance computes
\* are right for every list of transactions, in whatever order it has them:
\* an output is unspent exactly when no valid transaction up to the last
\* counted one spends it, the balance kept by additions and subtractions is
\* their sum and what was received minus what was sent.
THEOREM BalanceComputed ==
  ASSUME NEW w, IsWallet(w), BodiesOK
  PROVE  BalanceRight(UpdateBalance(w))
<1> DEFINE u == UpdateBalance(w)
           l == u.ledger
           q == w.list
           n == Len(q)
           C == {k \in DOMAIN q : q[k] \in Counted(u)}
<1>1. u.list = q /\ l \in Ledgers(w) /\ Books(w, l, n)
  BY UpdateKeeps, BooksKept
<1>2. q \in Seq(Tx) /\ n \in Nat /\ DOMAIN q = 1 .. n
  BY DEF IsWallet
<1>3. l.known = w.count /\ l.hist \in Seq(Int)
  BY <1>1 DEF Ledgers
<1> HIDE DEF u
<1>4. Counted(u) = ToSet(q) \ (l.invalid \cup l.pending) /\ ToSet(q) = Done(w, n)
  BY <1>1, <1>2 DEF Counted, ToSet, Done
<1>5. PICK last : LastCounted(w, l, n, last) /\ ToSet(l.utxos) = Unspent(w, l, n, last)
  BY <1>1 DEF Books, Coins
<1>6. Max({0} \cup C) = last
  <2>1. last \in 0 .. n /\ (last # 0 => last \in C)
    BY <1>2, <1>4, <1>5 DEF LastCounted, ToSet
  <2>2. ASSUME NEW k \in C PROVE k <= last
    <3> SUFFICES ASSUME ~(k <= last) PROVE FALSE
      OBVIOUS
    <3>1. k \in last + 1 .. n
      BY <1>2, <2>1
    <3> QED
      BY <1>4, <1>5, <3>1 DEF LastCounted
  <2>3. C \in SUBSET (1 .. n)
    BY <1>2
  <2> HIDE DEF C
  <2> DEFINE S == {0} \cup C
             x == Max(S)
  <2>4. last \in S /\ \A y \in S : last >= y
    BY <1>2, <2>1, <2>2, <2>3
  <2>5. S \in SUBSET Nat
    BY <2>3
  <2> HIDE DEF S
  <2>6. x \in S /\ \A y \in S : x >= y
    BY <2>4, Zenon DEF Max
  <2> HIDE DEF x
  <2>7. x = last
    BY <2>4, <2>5, <2>6
  <2> QED
    BY <2>7 DEF x, S
<1> DEFINE spenders == {q[k] : k \in 1 .. last} \ l.invalid
           outs == {o \in UNION {{<<t, m>> : m \in DOMAIN body[t].out} : t \in Counted(u)} :
                       OutputOf(o).addr \in AddrsUpTo(l.known)}
<1>7. ToSet(l.utxos) = {o \in outs : \A t \in spenders : o \notin Inputs(t)}
  <2>1. outs = OutsOf(w, Done(w, n) \ (l.invalid \cup l.pending))
    BY <1>3, <1>4 DEF OutsOf
  <2>2. spenders = Done(w, last) \ l.invalid
    BY DEF Done
  <2> HIDE DEF outs, spenders
  <2> QED
    BY <1>5, <2>1, <2>2 DEF Unspent
<1>8. \A i, j \in DOMAIN l.utxos : l.utxos[i] = l.utxos[j] => i = j
  BY <1>1 DEF Books, Coins, Once
<1>9. l.balance = Worth(l.utxos) /\ l.balance = l.received - l.sent /\ Len(l.hist) = n
  BY <1>1 DEF Books, Amounted
<1>10. l.hist # <<>> => Last(l.hist) = l.balance
  <2>1. n # 0 => l.hist[n] = l.balance
    BY <1>1 DEF Books, Amounted
  <2>2. l.hist # <<>> => n # 0
    BY <1>3, <1>9
  <2> QED
    BY <1>9, <2>1, <2>2 DEF Last
<1>11. Max({0} \cup {k \in DOMAIN u.list : u.list[k] \in Counted(u)}) = last
  <2>1. C = {k \in DOMAIN u.list : u.list[k] \in Counted(u)}
    BY <1>1
  <2> QED
    BY <1>6, <2>1
<1>12. ToSet(l.utxos) = {o \in outs : \A t \in {u.list[k] : k \in 1 .. last} \ l.invalid : o \notin Inputs(t)}
  <2> HIDE DEF outs
  <2> QED
    BY <1>1, <1>7
<1>13. Len(l.hist) = Len(u.list)
  BY <1>1, <1>9
<1>14. BalanceRight(u)
  BY <1>8, <1>9, <1>10, <1>11, <1>12, <1>13, Zenon DEF BalanceRight
<1> QED
  BY <1>14 DEF u

\* Of two unconfirmed transactions that spend the same output,
\* _BRWalletUpdateBalance puts one among the invalid ones, for every list of
\* transactions and every assignment of heights.
THEOREM DoubleSpendRejected ==
  ASSUME NEW w, IsWallet(w), BodiesOK
  PROVE  SpendOnce(UpdateBalance(w))
<1> DEFINE u == UpdateBalance(w)
           n == Len(w.list)
<1>1. u.list = w.list /\ u.height = w.height /\ Priority(w, u.ledger, n)
  BY UpdateKeeps, BooksKept DEF Books
<1>2. ToSet(w.list) = Done(w, n)
  BY DEF IsWallet, ToSet, Done
<1> HIDE DEF u
<1> QED
  BY <1>1, <1>2 DEF SpendOnce, Priority, u

\* The larger of two numbers.
LEMMA LargerOf ==
  ASSUME NEW a \in Int, NEW b \in Int
  PROVE  Max({a, b}) \in {a, b} /\ Max({a, b}) >= a /\ Max({a, b}) >= b
<1> DEFINE S == {a, b}
<1>1. \E x \in S : \A y \in S : x >= y
  <2>1. CASE a >= b
    BY <2>1
  <2>2. CASE b >= a
    BY <2>2
  <2> QED
    BY <2>1, <2>2
<1>2. a \in S /\ b \in S
  OBVIOUS
<1> HIDE DEF S
<1>3. Max(S) \in S /\ \A y \in S : Max(S) >= y
  BY <1>1, Zenon DEF Max
<1> QED
  BY <1>2, <1>3 DEF S

\* The least element of a set of numbers is one of it.
LEMMA LeastIn ==
  ASSUME NEW S \in SUBSET Nat, S # {}
  PROVE  Min(S) \in S /\ \A y \in S : Min(S) <= y
<1>1. PICK m \in S : \A y \in S : m <= y
  BY SmallestNumber
<1> QED
  BY <1>1, Zenon DEF Min

\* Fees and limits are numbers.
LEMMA FeeFacts ==
  ASSUME NEW rate \in Nat, NEW size \in Nat
  PROVE  TxFee(rate, size) \in Nat
<1> DEFINE x == size * rate
           a == ((size + 999) \div 1000) * 1000
           b == (((x \div 1000) + 99) \div 100) * 100
<1>1. x \in Nat
  OBVIOUS
<1> HIDE DEF x
<1>2. a \in Nat /\ b \in Nat
  BY <1>1
<1>3. TxFee(rate, size) = Max({a, b})
  BY DEF TxFee, x
<1> HIDE DEF a, b
<1>4. Max({a, b}) \in {a, b}
  BY <1>2, LargerOf
<1> QED
  BY <1>2, <1>3, <1>4

\* No output that is created is below the smallest one allowed, at any rate.
LEMMA LimitFacts ==
  ASSUME NEW w, w.rate \in Nat
  PROVE  MinOutputAmount(w) \in Nat /\ MinOutputAmount(w) >= TxMinOutputAmount
<1>1. TxMinOutputAmount \in Nat /\ MinFeePerKb \in Nat /\ MinFeePerKb > 0
  BY DEF TxMinOutputAmount, MinFeePerKb
<1> DEFINE p == TxMinOutputAmount * w.rate
           m == MinFeePerKb
           a == (p + m - 1) \div m
           b == TxMinOutputAmount
<1>2. p \in Nat /\ m \in Nat /\ m > 0
  BY <1>1
<1>3. MinOutputAmount(w) = Max({a, b})
  BY DEF MinOutputAmount
<1> HIDE DEF p, m
<1>4. a \in Nat
  <2> DEFINE c == p + m - 1
  <2>1. c \in Nat
    BY <1>2
  <2> HIDE DEF c
  <2>2. c \div m \in Nat
    BY <1>2, <2>1
  <2> QED
    BY <2>2 DEF c
<1>5. b \in Nat
  BY <1>1
<1> HIDE DEF a, b
<1>6. Max({a, b}) \in {a, b} /\ Max({a, b}) >= b
  BY <1>4, <1>5, LargerOf
<1> QED
  BY <1>3, <1>4, <1>5, <1>6 DEF b

\* What a wallet needs to send: unspent outputs that exist, and a balance that
\* is their sum.
IsFunded(w) ==
  /\ w.rate \in Nat
  /\ w.ledger.utxos \in Seq(Outpoints)
  /\ w.ledger.balance = Worth(w.ledger.utxos)

\* What the first outputs are worth, and all of them.
LEMMA FundsFacts ==
  ASSUME NEW w, BodiesOK, IsFunded(w)
  PROVE  /\ \A k \in 0 .. Len(w.ledger.utxos) : Funds(w, k) \in Int
         /\ Funds(w, Len(w.ledger.utxos)) = w.ledger.balance
<1> DEFINE s == w.ledger.utxos
           n == Len(s)
           E(i) == AmountOf(s[i])
<1>1. s \in Seq(Outpoints) /\ n \in Nat /\ DOMAIN s = 1 .. n /\ \A i \in 1 .. n : s[i] \in Outpoints
  BY DEF IsFunded
<1>2. \A i \in 1 .. n : E(i) \in Int
  BY <1>1, OutpointsPriced DEF Priced
<1>3. ASSUME NEW k \in 0 .. n PROVE Funds(w, k) \in Int
  <2> DEFINE q == [i \in 1 .. k |-> E(i)]
  <2>1. Funds(w, k) = SumSeq(q)
    BY Zenon DEF Funds
  <2> HIDE DEF E, s, n
  <2>2. q \in Seq(Int) /\ Len(q) = k /\ k \in Nat
    BY <1>1, <1>2
  <2> HIDE DEF q
  <2>3. PICK f : Totals(q, f)
    BY <2>2, SumSteps
  <2>4. SumSeq(q) \in Int
    BY <2>2, <2>3 DEF Totals
  <2> QED
    BY <2>1, <2>4
<1>4. Funds(w, n) = Worth(s)
  <2>1. Worth(s) = SumSeq([i \in 1 .. n |-> E(i)])
    <3>1. DOMAIN s = 1 .. n
      BY <1>1
    <3> QED
      BY <3>1, Zenon DEF Worth
  <2> QED
    BY <2>1, Zenon DEF Funds
<1> QED
  BY <1>3, <1>4 DEF IsFunded

\* A transaction has a size.
LEMMA SizeFacts ==
  ASSUME NEW i \in Nat, NEW j \in Nat
  PROVE  TxSize(i, j) \in Nat
<1>1. VarIntSize(i) \in Nat /\ VarIntSize(j) \in Nat
  BY DEF VarIntSize
<1> QED
  BY <1>1 DEF TxSize

\* The fee for i inputs: what the rate asks for and at most 99 to round the
\* balance.
LEMMA FeeForFacts ==
  ASSUME NEW w, BodiesOK, IsFunded(w), NEW amount \in Int, NEW i \in 0 .. Len(w.ledger.utxos)
  PROVE  /\ TxFee(w.rate, TxSize(i, 2)) \in Nat /\ FeeFor(w, amount, i) \in Nat
         /\ TxFee(w.rate, TxSize(i, 2)) <= FeeFor(w, amount, i)
         /\ FeeFor(w, amount, i) < TxFee(w.rate, TxSize(i, 2)) + 100
<1> DEFINE total == w.ledger.balance
           g == TxFee(w.rate, TxSize(i, 2))
           left == total - (amount + g)
<1>1. total \in Int /\ w.rate \in Nat /\ i \in Nat
  <2>1. Len(w.ledger.utxos) \in Nat /\ w.rate \in Nat
    BY DEF IsFunded
  <2>2. \A k \in 0 .. Len(w.ledger.utxos) : Funds(w, k) \in Int
    BY FundsFacts
  <2>3. Funds(w, Len(w.ledger.utxos)) = w.ledger.balance
    BY FundsFacts
  <2>4. Len(w.ledger.utxos) \in 0 .. Len(w.ledger.utxos)
    BY <2>1
  <2> QED
    BY <2>1, <2>2, <2>3, <2>4
<1>2. TxSize(i, 2) \in Nat
  BY <1>1, SizeFacts
<1>3. g \in Nat
  BY <1>1, <1>2, FeeFacts
<1>4. FeeFor(w, amount, i) = IF i > 0 /\ total > amount + g THEN g + (left % 100) ELSE g
  BY DEF FeeFor
<1> HIDE DEF g, total
<1>5. left \in Int
  BY <1>1, <1>3
<1> HIDE DEF left
<1>6. left % 100 \in Nat /\ left % 100 < 100
  BY <1>5
<1>7. FeeFor(w, amount, i) \in Nat /\ g <= FeeFor(w, amount, i) /\ FeeFor(w, amount, i) < g + 100
  BY <1>3, <1>4, <1>6
<1> QED
  BY <1>3, <1>7 DEF g

\* How many unspent outputs a transaction has room for.
LEMMA RoomFacts ==
  ASSUME NEW w, IsFunded(w)
  PROVE  /\ Room(w) \in 0 .. Len(w.ledger.utxos)
         /\ TxSize(Len(w.ledger.utxos), 2) <= TxMaxSize => Room(w) = Len(w.ledger.utxos)
<1> DEFINE n == Len(w.ledger.utxos)
           fits == {k \in 1 .. n : TxSize(k, 2) <= TxMaxSize}
           S == {0} \cup fits
<1>1. n \in Nat
  BY DEF IsFunded
<1>2. S \in SUBSET (0 .. n) /\ S # {}
  BY <1>1
<1>3. Room(w) = Max(S)
  BY DEF Room
<1>4. Max(S) \in S /\ \A y \in S : Max(S) >= y
  <2> HIDE DEF S
  <2> QED
    BY <1>1, <1>2, LargestBelow
<1>5. Room(w) \in 0 .. n
  <2> HIDE DEF S
  <2> QED
    BY <1>2, <1>3, <1>4
<1>6. ASSUME TxSize(n, 2) <= TxMaxSize PROVE Room(w) = n
  <2>1. n \in S
    BY <1>1, <1>6
  <2> HIDE DEF S
  <2> QED
    BY <1>1, <1>3, <1>4, <1>5, <2>1
<1> QED
  BY <1>5, <1>6

\* How many outputs are taken: few enough to leave nothing or proper change,
\* or all there is room for.
LEMMA CoinFacts ==
  ASSUME NEW w, IsFunded(w), NEW amount
  PROVE  /\ CoinCount(w, amount) \in 0 .. Len(w.ledger.utxos)
         /\ CoinCount(w, amount) = Room(w) \/ CoinCount(w, amount) \in Enough(w, amount)
<1> DEFINE n == Len(w.ledger.utxos)
           S == Enough(w, amount) \cup {Room(w)}
<1>1. n \in Nat /\ Room(w) \in 0 .. n
  BY RoomFacts DEF IsFunded
<1>2. S \in SUBSET (0 .. n) /\ S \in SUBSET Nat /\ S # {}
  BY <1>1 DEF Enough
<1>3. CoinCount(w, amount) = Min(S)
  BY DEF CoinCount
<1>4. Min(S) \in S
  <2> HIDE DEF S
  <2> QED
    BY <1>2, LeastIn
<1> QED
  BY <1>2, <1>3, <1>4

\* A transaction that gets too large is made with an amount that can be sent.
LEMMA RetryFacts ==
  ASSUME NEW w, BodiesOK, IsFunded(w), NEW amount \in Nat, amount >= MinOutputAmount(w)
  PROVE  Retry(w, amount) \in Nat /\ Retry(w, amount) >= MinOutputAmount(w)
<1> DEFINE r == Reduced(w, amount)
<1>1. Room(w) \in 0 .. Len(w.ledger.utxos)
  BY RoomFacts
<1>2. Funds(w, Room(w)) \in Int /\ FeeFor(w, amount, Room(w)) \in Nat /\ MinOutputAmount(w) \in Nat
  <2>1. Funds(w, Room(w)) \in Int
    BY <1>1, FundsFacts
  <2>2. FeeFor(w, amount, Room(w)) \in Nat
    BY <1>1, FeeForFacts
  <2>3. MinOutputAmount(w) \in Nat
    BY LimitFacts DEF IsFunded
  <2> QED
    BY <2>1, <2>2, <2>3
<1>3. r \in Int
  BY <1>2 DEF Reduced
<1> HIDE DEF r
<1>4. CASE Reduces(w, amount)
  <2>1. r > MinOutputAmount(w)
    BY <1>4 DEF Reduces, r
  <2>2. Retry(w, amount) = r
    BY <1>4 DEF Retry, r
  <2> QED
    BY <1>2, <1>3, <2>1, <2>2
<1>5. CASE ~Reduces(w, amount)
  BY <1>5 DEF Retry
<1> QED
  BY <1>4, <1>5

LEMMA SettledFacts ==
  ASSUME NEW w, BodiesOK, IsFunded(w), NEW amount \in Nat, amount >= MinOutputAmount(w)
  PROVE  Settled(w, amount) \in Nat /\ Settled(w, amount) >= MinOutputAmount(w)
<1>1. Retry(w, amount) \in Nat /\ Retry(w, amount) >= MinOutputAmount(w)
  BY RetryFacts
<1> QED
  BY <1>1, RetryFacts DEF Settled

\* Every amount up to the maximum the wallet reports can be sent, for every
\* set of unspent outputs that a transaction has room for and every fee rate:
\* BRWalletCreateTxForOutputs does not drop the transaction as too large, and
\* the fee that it raises to leave a round balance never asks for more than
\* BRWalletMaxOutputAmount left for it.
THEOREM MaximumCanBeSent ==
  ASSUME NEW w, BodiesOK, IsFunded(w)
  PROVE  MaxSendable(w)
<1> SUFFICES ASSUME TxSize(Len(w.ledger.utxos), 2) <= TxMaxSize,
                    NEW amount \in Amounts \cup {MaxOutputAmount(w)},
                    amount > 0, amount <= MaxOutputAmount(w)
             PROVE  CanCreate(w, amount)
  BY DEF MaxSendable
<1> DEFINE n == Len(w.ledger.utxos)
           total == w.ledger.balance
           fee == TxFee(w.rate, TxSize(n, 2))
           k == CoinCount(w, amount)
<1>1. n \in Nat /\ w.rate \in Nat /\ n \in 0 .. n
  BY DEF IsFunded
<1>2. /\ total \in Int /\ Funds(w, n) = total /\ Worth(w.ledger.utxos) = total
      /\ \A i \in 0 .. n : Funds(w, i) \in Int
  BY <1>1, FundsFacts DEF IsFunded
<1>3. fee \in Nat
  BY <1>1, 0 \in Int, FeeForFacts
<1>4. MaxOutputAmount(w) = IF total > fee THEN total - fee ELSE 0
  BY <1>2 DEF MaxOutputAmount
<1>5. amount \in Int
  BY <1>2, <1>3, <1>4, WalletAssumption
<1>6. total > fee /\ amount + fee <= total
  <2> HIDE DEF total, fee
  <2> QED
    BY <1>2, <1>3, <1>4, <1>5
<1>7. MinOutputAmount(w) \in Nat
  BY <1>1, LimitFacts
<1>8. k \in 0 .. n /\ (k = n \/ k \in Enough(w, amount)) /\ ~TooLarge(w, amount)
  <2>1. Room(w) = n
    BY RoomFacts
  <2> QED
    BY <1>1, <2>1, CoinFacts DEF TooLarge
<1> HIDE DEF k
<1>9. Funds(w, k) \in Int /\ FeeFor(w, amount, k) \in Nat
  BY <1>2, <1>5, <1>8, FeeForFacts
<1>10. CASE k # n
  <2> DEFINE rest == Funds(w, k) - (amount + FeeFor(w, amount, k))
  <2>1. rest = 0 \/ rest >= MinOutputAmount(w)
    BY <1>8, <1>10 DEF Enough
  <2>2. Funds(w, k) >= amount + FeeFor(w, amount, k)
    BY <1>5, <1>7, <1>9, <2>1
  <2> QED
    BY <1>8, <2>2 DEF CanCreate, k
<1>11. CASE k = n
  <2> DEFINE left == total - (amount + fee)
  <2>1. FeeFor(w, amount, n) = IF n > 0 /\ total > amount + fee THEN fee + (left % 100) ELSE fee
    BY DEF FeeFor
  <2> HIDE DEF fee, total
  <2>2. left \in Nat
    BY <1>2, <1>3, <1>5, <1>6
  <2>3. left % 100 \in Nat /\ left % 100 <= left /\ left = total - (amount + fee)
    <3>1. left = total - (amount + fee)
      OBVIOUS
    <3> HIDE DEF left
    <3>2. left % 100 \in Nat /\ left % 100 <= left
      BY <2>2
    <3> QED
      BY <3>1, <3>2
  <2> HIDE DEF left
  <2>4. amount + FeeFor(w, amount, n) <= total
    BY <1>2, <1>3, <1>5, <1>6, <2>1, <2>2, <2>3
  <2>5. Funds(w, n) >= amount + FeeFor(w, amount, n)
    BY <1>2, <1>5, <1>9, <1>11, <2>4
  <2> QED
    BY <1>8, <1>11, <2>5 DEF CanCreate, k
<1> QED
  BY <1>10, <1>11

\* The ledger that _BRWalletUpdateBalance computes is one from which every
\* amount up to the reported maximum can be sent, while there is room.
THEOREM MaximumAfterUpdate ==
  ASSUME NEW w, IsWallet(w), BodiesOK, w.rate \in Nat
  PROVE  MaxSendable(UpdateBalance(w))
<1> DEFINE u == UpdateBalance(w)
<1>1. u.rate \in Nat
  BY UpdateKeeps
<1>2. u.ledger \in Ledgers(w) /\ Amounted(u.ledger, Len(w.list))
  BY BooksKept DEF Books
<1> HIDE DEF u
<1>3. IsFunded(u)
  BY <1>1, <1>2 DEF IsFunded, Ledgers, Amounted
<1>4. MaxSendable(u)
  BY <1>3, MaximumCanBeSent
<1> QED
  BY <1>4 DEF u

\* A larger transaction never costs less.
LEMMA FeeGrows ==
  ASSUME NEW rate \in Nat, NEW size \in Nat, NEW more \in Nat
  PROVE  TxFee(rate, size) <= TxFee(rate, size + more)
<1> DEFINE x == size * rate
           y == (size + more) * rate
           a == ((size + 999) \div 1000) * 1000
           b == (((x \div 1000) + 99) \div 100) * 100
           c == (((size + more) + 999) \div 1000) * 1000
           d == (((y \div 1000) + 99) \div 100) * 100
<1>1. x \in Nat /\ y \in Nat /\ x <= y
  <2> DEFINE z == more * rate
  <2>1. x \in Nat /\ z \in Nat /\ y = x + z
    OBVIOUS
  <2> HIDE DEF x, y, z
  <2> QED
    BY <2>1
<1>2. TxFee(rate, size) = Max({a, b}) /\ TxFee(rate, size + more) = Max({c, d})
  BY DEF TxFee
<1> HIDE DEF x, y
<1>3. a \in Nat /\ c \in Nat /\ a <= c
  OBVIOUS
<1>4. b \in Nat /\ d \in Nat /\ b <= d
  <2>1. x \div 1000 \in Nat /\ y \div 1000 \in Nat /\ x \div 1000 <= y \div 1000
    BY <1>1
  <2> QED
    BY <2>1
<1> HIDE DEF a, b, c, d
<1>5. Max({a, b}) \in {a, b}
  BY <1>3, <1>4, LargerOf
<1>6. Max({c, d}) >= c /\ Max({c, d}) >= d /\ Max({c, d}) \in {c, d}
  BY <1>3, <1>4, LargerOf
<1> QED
  BY <1>2, <1>3, <1>4, <1>5, <1>6

\* The sums of one and of two amounts.
LEMMA SmallSums ==
  ASSUME NEW a \in Int, NEW b \in Int
  PROVE  SumSeq(<<a>>) = a /\ SumSeq(<<a, b>>) = a + b
<1>1. PICK f : Totals(<<a>>, f)
  <2>1. <<a>> \in Seq(Int)
    OBVIOUS
  <2> QED
    BY <2>1, SumSteps
<1>2. PICK g : Totals(<<a, b>>, g)
  <2>1. <<a, b>> \in Seq(Int)
    OBVIOUS
  <2> QED
    BY <2>1, SumSteps
<1>3. SumSeq(<<a>>) = f[1] /\ f[0] = 0 /\ f[1] = f[0] + a
  <2>1. Len(<<a>>) = 1 /\ <<a>>[1] = a /\ 1 \in 1 .. 1 /\ 1 - 1 = 0
    OBVIOUS
  <2> QED
    BY <1>1, <2>1 DEF Totals
<1>4. SumSeq(<<a, b>>) = g[2] /\ g[0] = 0 /\ g[1] = g[0] + a /\ g[2] = g[1] + b
  <2>1. /\ Len(<<a, b>>) = 2 /\ <<a, b>>[1] = a /\ <<a, b>>[2] = b
        /\ 1 \in 1 .. 2 /\ 2 \in 1 .. 2 /\ 1 - 1 = 0 /\ 2 - 1 = 1
    OBVIOUS
  <2> QED
    BY <1>2, <2>1 DEF Totals
<1> QED
  BY <1>3, <1>4

\* The inputs of a created transaction: the first unspent outputs, each once.
LEMMA InputsFacts ==
  ASSUME NEW w, BodiesOK, IsFunded(w), Once(w.ledger.utxos), NEW k \in 0 .. Len(w.ledger.utxos)
  PROVE  LET in == SubSeq(w.ledger.utxos, 1, k)
         IN /\ Len(in) = k /\ Worth(in) = Funds(w, k)
            /\ ToSet(in) \subseteq ToSet(w.ledger.utxos)
            /\ Cardinality(ToSet(in)) = Len(in)
<1> DEFINE s == w.ledger.utxos
           n == Len(s)
           in == SubSeq(s, 1, k)
           E(i) == AmountOf(s[i])
<1>1. s \in Seq(Outpoints) /\ n \in Nat /\ k \in Nat /\ k <= n /\ DOMAIN s = 1 .. n
  BY DEF IsFunded
<1>2. in \in Seq(Outpoints) /\ Len(in) = k /\ DOMAIN in = 1 .. k /\ \A i \in 1 .. k : in[i] = s[i]
  <2> HIDE DEF s
  <2> QED
    BY <1>1
<1>3. \A i, j \in 1 .. n : s[i] = s[j] => i = j
  BY <1>1 DEF Once
<1>4. Funds(w, k) = SumSeq([i \in 1 .. k |-> E(i)])
  BY Zenon DEF Funds
<1> HIDE DEF s, n, in
<1>5. Worth(in) = SumSeq([i \in 1 .. k |-> E(i)])
  <2>1. Worth(in) = SumSeq([i \in DOMAIN in |-> AmountOf(in[i])])
    BY Zenon DEF Worth
  <2>2. [i \in DOMAIN in |-> AmountOf(in[i])] = [i \in 1 .. k |-> E(i)]
    BY <1>2
  <2> QED
    BY <2>1, <2>2
<1>6. ToSet(in) \subseteq ToSet(s)
  BY <1>1, <1>2 DEF ToSet
<1>7. Cardinality(ToSet(in)) = k
  <2>1. ToSet(in) = {in[i] : i \in 1 .. k}
    BY <1>2 DEF ToSet
  <2>2. in \in [1 .. k -> ToSet(in)]
    BY <1>2, <2>1
  <2>3. \A i, j \in 1 .. k : in[i] = in[j] => i = j
    BY <1>1, <1>2, <1>3
  <2>4. in \in Bijection(1 .. k, ToSet(in))
    BY <1>2, <2>1, <2>2, <2>3 DEF Bijection, Injection, Surjection, IsInjective
  <2>5. ExistsBijection(1 .. k, ToSet(in))
    BY <2>4 DEF ExistsBijection
  <2> QED
    BY <1>1, <2>5, FS_CountingElements
<1>8. Len(in) = k /\ Worth(in) = Funds(w, k)
  BY <1>2, <1>4, <1>5
<1> QED
  BY <1>2, <1>6, <1>7, <1>8 DEF in, s

\* Addresses have numbers, and there is a largest one among them.
Bounded(A) == \E m \in Nat : \A a \in A : a[2] \in Nat /\ a[2] <= m

\* What is asked of the addresses of a wallet.
AddrsOK(w) == w.count \in [Chains -> Nat] /\ Bounded(w.ledger.used)

\* Bounded sets together are bounded.
LEMMA BoundedUnion ==
  ASSUME NEW A, NEW B, Bounded(A), Bounded(B)
  PROVE  Bounded(A \cup B)
<1>1. PICK m \in Nat : \A a \in A : a[2] \in Nat /\ a[2] <= m
  BY DEF Bounded
<1>2. PICK n \in Nat : \A a \in B : a[2] \in Nat /\ a[2] <= n
  BY DEF Bounded
<1>3. \A a \in A \cup B : a[2] \in Nat /\ a[2] <= m + n
  BY <1>1, <1>2
<1>4. m + n \in Nat
  OBVIOUS
<1> QED
  BY <1>3, <1>4 DEF Bounded

\* The outputs of a transaction pay boundedly many addresses.
LEMMA OutputsBounded ==
  ASSUME NEW t \in Tx, BodiesOK
  PROVE  Bounded(OutputAddrs(t))
<1> DEFINE q == body[t].out
           n == Len(q)
           Upto(k) == {q[i].addr : i \in 1 .. k}
           T == {k \in 0 .. n : Bounded(Upto(k))}
<1>1. n \in Nat /\ DOMAIN q = 1 .. n /\ \A i \in 1 .. n : q[i].addr[2] \in Nat
  BY DEF BodiesOK
<1> HIDE DEF q, n
<1>2. 0 \in T
  <2>1. Upto(0) = {}
    OBVIOUS
  <2>2. Bounded({})
    BY DEF Bounded
  <2>3. 0 \in 0 .. n
    BY <1>1
  <2> HIDE DEF Upto
  <2> QED
    BY <2>1, <2>2, <2>3
<1>3. ASSUME NEW k \in 0 .. n - 1, k \in T PROVE k + 1 \in T
  <2>1. k + 1 \in 1 .. n /\ k + 1 \in 0 .. n
    BY <1>1
  <2>2. Upto(k + 1) = Upto(k) \cup {q[k + 1].addr}
    OBVIOUS
  <2>3. Bounded({q[k + 1].addr})
    BY <1>1, <2>1 DEF Bounded
  <2>4. Bounded(Upto(k))
    BY <1>3
  <2> HIDE DEF Upto
  <2>5. Bounded(Upto(k + 1))
    BY <2>2, <2>3, <2>4, BoundedUnion
  <2> QED
    BY <2>1, <2>5
<1>4. n \in T
  <2>1. \A k \in 0 .. n - 1 : k \in T => k + 1 \in T
    BY <1>3
  <2>2. n \in 0 .. n
    BY <1>1
  <2> HIDE DEF T
  <2>3. \A k \in 0 .. n : k \in T
    BY <1>1, <1>2, <2>1, CountUp, Zenon
  <2> QED
    BY <2>2, <2>3
<1>5. OutputAddrs(t) = Upto(n)
  BY <1>1 DEF OutputAddrs, ToSet, q
<1> HIDE DEF Upto
<1> QED
  BY <1>4, <1>5

\* So do the outputs of the transactions of a list.
LEMMA ListBounded ==
  ASSUME NEW q \in Seq(Tx), BodiesOK
  PROVE  Bounded(UNION {OutputAddrs(t) : t \in ToSet(q)})
<1> DEFINE n == Len(q)
           Upto(k) == UNION {OutputAddrs(q[i]) : i \in 1 .. k}
           T == {k \in 0 .. n : Bounded(Upto(k))}
<1>1. n \in Nat /\ DOMAIN q = 1 .. n /\ \A i \in 1 .. n : q[i] \in Tx
  OBVIOUS
<1> HIDE DEF n
<1>2. 0 \in T
  <2>1. Upto(0) = {}
    OBVIOUS
  <2>2. Bounded({})
    BY DEF Bounded
  <2>3. 0 \in 0 .. n
    BY <1>1
  <2> HIDE DEF Upto
  <2> QED
    BY <2>1, <2>2, <2>3
<1>3. ASSUME NEW k \in 0 .. n - 1, k \in T PROVE k + 1 \in T
  <2>1. k + 1 \in 1 .. n /\ k + 1 \in 0 .. n
    BY <1>1
  <2>2. Upto(k + 1) = Upto(k) \cup OutputAddrs(q[k + 1])
    OBVIOUS
  <2>3. Bounded(OutputAddrs(q[k + 1]))
    BY <1>1, <2>1, OutputsBounded
  <2>4. Bounded(Upto(k))
    BY <1>3
  <2> HIDE DEF Upto
  <2>5. Bounded(Upto(k + 1))
    BY <2>2, <2>3, <2>4, BoundedUnion
  <2> QED
    BY <2>1, <2>5
<1>4. n \in T
  <2>1. \A k \in 0 .. n - 1 : k \in T => k + 1 \in T
    BY <1>3
  <2>2. n \in 0 .. n
    BY <1>1
  <2> HIDE DEF T
  <2>3. \A k \in 0 .. n : k \in T
    BY <1>1, <1>2, <2>1, CountUp, Zenon
  <2> QED
    BY <2>2, <2>3
<1>5. UNION {OutputAddrs(t) : t \in ToSet(q)} = Upto(n)
  BY <1>1 DEF ToSet
<1> HIDE DEF Upto
<1> QED
  BY <1>4, <1>5

\* The addresses the ledger has seen used are bounded.
LEMMA UsedBounded ==
  ASSUME NEW w, IsWallet(w), BodiesOK
  PROVE  Bounded(UpdateBalance(w).ledger.used)
<1>1. PICK g : LedgerRun(w, g)
  BY LedgerSteps
<1> DEFINE n == Len(w.list)
           T == {k \in 0 .. n : Bounded(g[k].used)}
<1>2. /\ n \in Nat /\ g[0] = FirstLedger(w) /\ UpdateBalance(w).ledger = g[n]
      /\ \A k \in 1 .. n : w.list[k] \in Tx
      /\ \A k \in 0 .. n : g[k] \in Ledgers(w)
      /\ \A k \in 1 .. n : g[k] = LedgerStep(w, g[k - 1], w.list[k])
  <2>1. w.list \in Seq(Tx)
    BY DEF IsWallet
  <2>2. n \in Nat /\ \A k \in 1 .. n : w.list[k] \in Tx
    BY <2>1
  <2>3. /\ g[0] = FirstLedger(w) /\ UpdateBalance(w).ledger = g[n]
        /\ \A k \in 1 .. n : g[k] = LedgerStep(w, g[k - 1], w.list[k])
        /\ g \in [0 .. n -> Ledgers(w)]
    BY <1>1, Zenon DEF LedgerRun
  <2> HIDE DEF n
  <2>4. \A k \in 0 .. n : g[k] \in Ledgers(w)
    BY <2>3, Zenon
  <2> QED
    BY <2>2, <2>3, <2>4
<1> HIDE DEF n
<1>3. 0 \in T
  <2>1. FirstLedger(w).used = {}
    BY DEF FirstLedger, EmptyLedger
  <2>2. Bounded({})
    BY DEF Bounded
  <2> QED
    BY <1>2, <2>1, <2>2
<1>4. ASSUME NEW k \in 0 .. n - 1, k \in T PROVE k + 1 \in T
  <2> DEFINE t == w.list[k + 1]
             l == g[k]
             m == g[k + 1]
  <2>1. k + 1 \in 1 .. n /\ k + 1 \in 0 .. n /\ (k + 1) - 1 = k /\ k \in 0 .. n
    BY <1>2
  <2>2. l \in Ledgers(w) /\ t \in Tx /\ m = LedgerStep(w, l, t)
    BY <1>2, <2>1
  <2>3. Bounded(l.used) /\ Bounded(OutputAddrs(t))
    BY <1>4, <2>2, OutputsBounded
  <2> HIDE DEF l, t, m
  <2>4. m.used = l.used \/ m.used = l.used \cup OutputAddrs(t)
    <3>1. Rejects(l, t, m) \/ Delays(l, t, m) \/ Counts(w, l, t, m)
      BY <2>2, StepFacts
    <3> QED
      BY <3>1 DEF Rejects, Delays, Skips, Counts
  <2>5. Bounded(m.used)
    BY <2>3, <2>4, BoundedUnion
  <2> QED
    BY <2>1, <2>5 DEF m
<1>5. n \in T
  <2>1. \A k \in 0 .. n - 1 : k \in T => k + 1 \in T
    BY <1>4
  <2>2. n \in 0 .. n
    BY <1>2
  <2> HIDE DEF T
  <2>3. \A k \in 0 .. n : k \in T
    BY <1>2, <1>3, <2>1, CountUp, Zenon
  <2> QED
    BY <2>2, <2>3
<1> QED
  BY <1>2, <1>5

\* The addresses that BRWalletUnusedAddrs generates: none is taken back, and
\* `gap` unused ones follow the last used one.
LEMMA UnusedFacts ==
  ASSUME NEW w, "count" \in DOMAIN w, "ledger" \in DOMAIN w, AddrsOK(w), NEW c \in Chains, NEW gap \in Nat
  PROVE  LET v == UnusedAddrs(w, c, gap)
         IN /\ v.count \in [Chains -> Nat] /\ v.ledger = w.ledger
            /\ \A d \in Chains : w.count[d] <= v.count[d]
            /\ FirstUnused(v, c) \in Nat /\ FirstUnused(v, c) + gap <= v.count[c]
<1> DEFINE used == {a[2] : a \in {b \in w.ledger.used : b[1] = c}}
           enough(n) == \A i \in used : i < n => i + gap < n
           old == w.count[c]
           cand == {old, gap} \cup {i + 1 + gap : i \in used}
           counts == {n \in cand : n >= old /\ n >= gap /\ enough(n)}
           v == UnusedAddrs(w, c, gap)
           new == Min(counts)
<1>1. v = [w EXCEPT !.count[c] = new]
  BY Zenon DEF UnusedAddrs
<1>2. PICK m \in Nat : \A i \in used : i \in Nat /\ i <= m
  BY DEF AddrsOK, Bounded
<1>3. old \in Nat
  BY DEF AddrsOK
<1>4. \A j : <<c, j>> \in w.ledger.used => j \in used
  OBVIOUS
<1> HIDE DEF used
<1>5. cand \in SUBSET (0 .. m + 1 + gap + old) /\ cand # {} /\ m + 1 + gap + old \in Nat
  BY <1>2, <1>3
<1>6. PICK x \in cand : \A y \in cand : x >= y
  <2> DEFINE top == m + 1 + gap + old
  <2> HIDE DEF top, cand
  <2>1. Max(cand) \in cand /\ \A y \in cand : Max(cand) >= y
    BY <1>5, LargestBelow DEF top
  <2> QED
    BY <2>1
<1>7. x \in counts
  <2>1. x \in Nat /\ x >= old /\ x >= gap /\ \A i \in used : x >= i + 1 + gap
    BY <1>5, <1>6
  <2>2. enough(x)
    BY <1>2, <2>1
  <2> HIDE DEF cand, enough
  <2> QED
    BY <1>6, <2>1, <2>2
<1>8. new \in counts
  <2>1. counts \in SUBSET Nat
    BY <1>5
  <2> HIDE DEF counts
  <2> QED
    BY <1>7, <2>1, LeastIn
<1>9. new \in Nat /\ new >= gap /\ new >= old /\ enough(new)
  <2> HIDE DEF new, cand, enough
  <2> QED
    BY <1>5, <1>8
<1> HIDE DEF new, v
<1>10. v.count = [w.count EXCEPT ![c] = new] /\ v.ledger = w.ledger
  BY <1>1
<1>11. v.count \in [Chains -> Nat] /\ v.count[c] = new
  BY <1>9, <1>10 DEF AddrsOK
<1>12. \A d \in Chains : w.count[d] <= v.count[d]
  <2>1. w.count \in [Chains -> Nat] /\ new >= w.count[c]
    BY <1>9 DEF AddrsOK
  <2> QED
    BY <1>9, <1>10, <2>1
<1> DEFINE U == {j \in 0 .. new - 1 : <<c, j>> \in w.ledger.used}
           S == {0} \cup {i + 1 : i \in U}
<1>13. FirstUnused(v, c) = Max(S)
  BY <1>10, <1>11 DEF FirstUnused
<1>14. \A y \in S : y \in Nat /\ y + gap <= new
  <2>1. ASSUME NEW i \in U PROVE i + 1 \in Nat /\ (i + 1) + gap <= new
    <3>1. i \in Nat /\ i < new /\ i \in used
      BY <1>4, <1>9
    <3>2. i + gap < new
      BY <1>9, <3>1
    <3> QED
      BY <1>9, <3>1, <3>2
  <2> HIDE DEF U
  <2> QED
    BY <1>9, <2>1
<1>15. S \in SUBSET (0 .. new) /\ S # {}
  BY <1>9, <1>14
<1>16. Max(S) \in S
  <2> HIDE DEF S
  <2> QED
    BY <1>9, <1>15, LargestBelow
<1> HIDE DEF S
<1>17. FirstUnused(v, c) \in Nat /\ FirstUnused(v, c) + gap <= v.count[c]
  BY <1>11, <1>13, <1>14, <1>16
<1> QED
  BY <1>10, <1>11, <1>17, <1>12 DEF v

\* The change goes to an address that nobody paid, when one is generated.
LEMMA ChangeAddrUnused ==
  ASSUME NEW w, NEW c, w.count[c] \in Nat, FirstUnused(w, c) < w.count[c]
  PROVE  <<c, FirstUnused(w, c)>> \notin w.ledger.used
<1> SUFFICES ASSUME <<c, FirstUnused(w, c)>> \in w.ledger.used PROVE FALSE
  OBVIOUS
<1> DEFINE n == w.count[c]
           U == {j \in 0 .. n - 1 : <<c, j>> \in w.ledger.used}
           S == {0} \cup {i + 1 : i \in U}
           x == FirstUnused(w, c)
<1>1. x = Max(S)
  BY DEF FirstUnused
<1>2. n \in Nat /\ x < n
  OBVIOUS
<1> HIDE DEF n, x
<1>3. S \in SUBSET (0 .. n) /\ S # {}
  <2>1. U \in SUBSET (0 .. n - 1)
    OBVIOUS
  <2> HIDE DEF U
  <2>2. \A i \in U : i + 1 \in 0 .. n
    BY <1>2, <2>1
  <2>3. 0 \in 0 .. n
    BY <1>2
  <2> QED
    BY <2>2, <2>3
<1>4. x \in S /\ \A y \in S : x >= y
  <2> HIDE DEF S
  <2> QED
    BY <1>1, <1>2, <1>3, LargestBelow
<1>5. x \in 0 .. n - 1
  BY <1>2, <1>3, <1>4
<1>6. x \in U
  BY <1>5 DEF x
<1>7. x + 1 \in S
  BY <1>6
<1> QED
  BY <1>4, <1>5, <1>7

\* A transaction that BRWalletCreateTxForOutputs creates spends outputs that
\* are unspent, each once; it pays at least the fee its size asks for and less
\* than that, the rounding and an amount too small to be change together; no
\* output is too small to be relayed, and change goes to an unused address.
THEOREM CreatedSpendsRight ==
  ASSUME NEW w, "count" \in DOMAIN w, "ledger" \in DOMAIN w,
         BodiesOK, IsFunded(w), Once(w.ledger.utxos), AddrsOK(w),
         NEW amount \in Int, amount >= MinOutputAmount(w), CanCreate(w, amount),
         NEW swap
  PROVE  IsSound(w, CreatedBody(w, amount, swap))
<1> DEFINE k == CoinCount(w, amount)
           s == w.ledger.utxos
           in == SubSeq(s, 1, k)
           pay == [addr |-> Foreign, amount |-> amount]
           chg == ChangeOf(w, amount)
           mine == <<"internal", FirstUnused(UnusedAddrs(w, "internal", 1), "internal")>>
           change == [addr |-> mine, amount |-> chg]
           outs == IF chg = 0 THEN <<pay>> ELSE IF swap THEN <<change, pay>> ELSE <<pay, change>>
           b == CreatedBody(w, amount, swap)
           funds == Funds(w, k)
           fee == FeeFor(w, amount, k)
           low == MinOutputAmount(w)
           base == TxFee(w.rate, TxSize(k, 2))
<1>1. b.in = in /\ b.out = outs
  BY DEF CreatedBody
<1>2. k \in 0 .. Len(s) /\ k \in Nat /\ w.rate \in Nat
  BY CoinFacts DEF IsFunded
<1>3. /\ Len(in) = k /\ Worth(in) = funds /\ ToSet(in) \subseteq ToSet(s)
      /\ Cardinality(ToSet(in)) = Len(in)
  BY <1>2, InputsFacts
<1>4. /\ base \in Nat /\ fee \in Nat /\ base <= fee /\ fee < base + 100
  BY <1>2, FeeForFacts
<1>5. low \in Nat /\ low >= TxMinOutputAmount /\ TxMinOutputAmount \in Nat /\ TxMinOutputAmount > 0
  <2>1. TxMinOutputAmount \in Nat /\ TxMinOutputAmount > 0
    BY DEF TxMinOutputAmount
  <2> QED
    BY <1>2, <2>1, LimitFacts
<1>6. funds \in Int
  BY <1>2, FundsFacts
<1>7. funds >= amount + fee
  BY DEF CanCreate
<1>8. chg = IF funds - (amount + fee) >= low THEN funds - (amount + fee) ELSE 0
  BY DEF ChangeOf
<1>9. mine \notin w.ledger.used
  <2> DEFINE v == UnusedAddrs(w, "internal", 1)
  <2>1. "internal" \in Chains /\ 1 \in Nat
    BY DEF Chains
  <2>2. /\ v.count \in [Chains -> Nat] /\ v.ledger = w.ledger
        /\ FirstUnused(v, "internal") \in Nat /\ FirstUnused(v, "internal") + 1 <= v.count["internal"]
    BY <2>1, UnusedFacts
  <2> HIDE DEF v
  <2>3. v.count["internal"] \in Nat /\ FirstUnused(v, "internal") < v.count["internal"]
    BY <2>1, <2>2
  <2>4. <<"internal", FirstUnused(v, "internal")>> \notin v.ledger.used
    BY <2>3, ChangeAddrUnused
  <2> QED
    BY <2>2, <2>4 DEF v
<1>10. TxFee(w.rate, TxSize(k, 1)) \in Nat /\ TxFee(w.rate, TxSize(k, 1)) <= base
  <2>1. TxSize(k, 1) \in Nat /\ TxSize(k, 2) = TxSize(k, 1) + 34 /\ 34 \in Nat
    BY SMTT(30), <1>2, SizeFacts DEF TxSize, VarIntSize
  <2> QED
    BY <1>2, <2>1, FeeFacts, FeeGrows
<1> DEFINE total == SumSeq([i \in DOMAIN outs |-> outs[i].amount])
           asked == TxFee(w.rate, TxSize(k, Len(outs)))
<1> HIDE DEF k, s, in, mine, b, funds, fee, low, base, chg
<1>11. chg \in Int /\ amount \in Int
  BY <1>4, <1>6, <1>8
<1>12. /\ total = amount + chg
       /\ asked <= base /\ asked \in Nat
       /\ \A o \in ToSet(outs) : o = pay \/ (o = change /\ chg # 0)
  <2>1. CASE chg = 0
    <3>1. outs = <<pay>>
      BY <2>1
    <3> HIDE DEF outs
    <3>2. [i \in DOMAIN outs |-> outs[i].amount] = <<amount>>
      BY <3>1
    <3>3. SumSeq(<<amount>>) = amount
      BY SmallSums
    <3>4. Len(outs) = 1 /\ ToSet(outs) = {pay}
      BY <3>1 DEF ToSet
    <3> QED
      BY <1>10, <2>1, <3>2, <3>3, <3>4
  <2>2. CASE chg # 0
    <3>1. outs = <<change, pay>> \/ outs = <<pay, change>>
      BY <2>2
    <3> HIDE DEF outs
    <3>2. \/ [i \in DOMAIN outs |-> outs[i].amount] = <<chg, amount>>
          \/ [i \in DOMAIN outs |-> outs[i].amount] = <<amount, chg>>
      BY <3>1
    <3>3. SumSeq(<<amount, chg>>) = amount + chg /\ SumSeq(<<chg, amount>>) = chg + amount
      BY <1>11, SmallSums
    <3>4. Len(outs) = 2 /\ ToSet(outs) = {pay, change}
      <4>1. CASE outs = <<change, pay>>
        BY <4>1 DEF ToSet
      <4>2. CASE outs = <<pay, change>>
        BY <4>2 DEF ToSet
      <4> QED
        BY <3>1, <4>1, <4>2
    <3>5. total = amount + chg
      BY <1>11, <3>2, <3>3
    <3>6. asked = base
      BY <3>4 DEF base
    <3> HIDE DEF total, asked
    <3> QED
      BY <1>4, <2>2, <3>4, <3>5, <3>6
  <2> QED
    BY <2>1, <2>2
<1>13. \A o \in ToSet(outs) : o.amount >= TxMinOutputAmount /\ (o.addr # Foreign => o.addr \notin w.ledger.used)
  <2> SUFFICES ASSUME NEW o \in ToSet(outs)
               PROVE  o.amount >= TxMinOutputAmount /\ (o.addr # Foreign => o.addr \notin w.ledger.used)
    OBVIOUS
  <2>1. CASE o = pay
    <3>1. o.amount = amount /\ o.addr = Foreign
      BY <2>1
    <3> QED
      BY <1>5, <3>1 DEF low
  <2>2. CASE o = change /\ chg # 0
    <3>1. o.amount = chg /\ o.addr = mine
      BY <2>2
    <3>2. chg >= low
      BY <1>4, <1>6, <1>8, <2>2
    <3> QED
      BY <1>5, <1>9, <1>11, <3>1, <3>2
  <2> QED
    BY <1>12, <2>1, <2>2
<1> HIDE DEF total, asked, outs
<1>14. asked <= funds - total /\ funds - total < base + 100 + low
  BY <1>4, <1>5, <1>6, <1>7, <1>8, <1>11, <1>12
<1>15. IsSound(w, b)
  <2>1. /\ Worth(b.in) = funds /\ SumSeq([i \in DOMAIN b.out |-> b.out[i].amount]) = total
        /\ TxFee(w.rate, TxSize(Len(b.in), Len(b.out))) = asked
        /\ TxFee(w.rate, TxSize(Len(b.in), 2)) = base
    BY <1>1, <1>3 DEF total, asked, base
  <2>2. ToSet(b.in) \subseteq ToSet(w.ledger.utxos) /\ Cardinality(ToSet(b.in)) = Len(b.in)
    BY <1>1, <1>3 DEF s
  <2>3. \A o \in ToSet(b.out) : o.amount >= TxMinOutputAmount
    BY <1>1, <1>13
  <2>4. \A o \in ToSet(b.out) : o.addr # Foreign => o.addr \notin w.ledger.used
    BY <1>1, <1>13
  <2>5. asked <= funds - total /\ funds - total < base + 100 + MinOutputAmount(w)
    BY <1>14 DEF low
  <2> QED
    BY <2>1, <2>2, <2>3, <2>4, <2>5, Zenon DEF IsSound
<1> QED
  BY <1>15 DEF b

\* It spends something.
LEMMA CreatedSpends ==
  ASSUME NEW w, BodiesOK, IsFunded(w), Once(w.ledger.utxos),
         NEW amount \in Int, amount >= MinOutputAmount(w), CanCreate(w, amount), NEW swap
  PROVE  \E o \in ToSet(CreatedBody(w, amount, swap).in) : o \in ToSet(w.ledger.utxos)
<1> DEFINE k == CoinCount(w, amount)
           in == SubSeq(w.ledger.utxos, 1, k)
<1>1. k \in 0 .. Len(w.ledger.utxos) /\ k \in Nat /\ w.rate \in Nat
  BY CoinFacts DEF IsFunded
<1>2. Len(in) = k /\ ToSet(in) \subseteq ToSet(w.ledger.utxos)
  BY <1>1, InputsFacts
<1>3. MinOutputAmount(w) \in Nat /\ MinOutputAmount(w) > 0
  <2>1. TxMinOutputAmount \in Nat /\ TxMinOutputAmount > 0
    BY DEF TxMinOutputAmount
  <2> QED
    BY <1>1, <2>1, LimitFacts
<1>4. Funds(w, k) >= amount + FeeFor(w, amount, k) /\ FeeFor(w, amount, k) \in Nat
  BY <1>1, FeeForFacts DEF CanCreate
<1>5. Funds(w, 0) = 0
  <2> DEFINE none == <<>>
  <2>4. none \in Seq(Int) /\ Len(none) = 0
    OBVIOUS
  <2> HIDE DEF none
  <2>1. PICK f : Totals(none, f)
    BY <2>4, SumSteps
  <2>2. SumSeq(none) = 0
    BY <2>1, <2>4 DEF Totals
  <2>3. [i \in 1 .. 0 |-> AmountOf(w.ledger.utxos[i])] = <<>>
    OBVIOUS
  <2> QED
    BY <2>2, <2>3, Zenon DEF Funds, none
<1>6. k # 0
  BY <1>3, <1>4, <1>5
<1>7. CreatedBody(w, amount, swap).in = in
  BY DEF CreatedBody
<1> HIDE DEF k, in
<1>8. in # <<>> /\ in \in Seq(Outpoints)
  <2>1. w.ledger.utxos \in Seq(Outpoints)
    BY DEF IsFunded
  <2> QED
    BY <1>1, <1>2, <1>6, <2>1 DEF in
<1>9. in[1] \in ToSet(in)
  BY <1>8 DEF ToSet
<1> QED
  BY <1>2, <1>7, <1>9
=============================================================================
