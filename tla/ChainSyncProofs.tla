-------------------------- MODULE ChainSyncProofs --------------------------
(***************************************************************************)
(* The filter of ChainSync, for any chains, transactions, addresses and    *)
(* limits.  A filter that was outgrown is replaced in three round trips;   *)
(* the pongs say how far this has come.  The first is there to let what    *)
(* the peer has already sent arrive: from its pong until the new filter is *)
(* loaded no block is under way in either direction, because none was      *)
(* asked for behind the ping.  So the new filter can be outgrown before it *)
(* counts only by a transaction that is announced ahead of its block; when *)
(* that does not happen, a dropped filter always comes back, and the peer  *)
(* watches the next addresses whenever it is asked for blocks.             *)
(***************************************************************************)
EXTENDS ChainSync, FiniteSets, NaturalsInduction, WellFoundedInduction, TLAPS

Heights == 1 .. Len(chain)
Filter == [addrs : Nat \cup {-1}, outs : SUBSET Tx]
Wallets == [tx : SUBSET Tx, height : [Tx -> Nat], addrs : Nat]

\* What is sent in each direction.
ToPeerMsg ==
    [type : {"filterload"}, arg : Filter] \cup [type : {"getblocks"}, arg : 0 .. Len(chain)]
    \cup [type : {"getdata"}, arg : Seq(Heights)] \cup [type : {"ping"}, arg : {0}]
FromPeerMsg ==
    [type : {"inv"}, arg : Seq(Heights)] \cup [type : {"merkleblock"}, arg : Heights \X (SUBSET Tx)]
    \cup [type : {"tx"}, arg : Tx] \cup [type : {"mempool"}, arg : Announced] \cup [type : {"pong"}, arg : {0}]

Peers ==
    [on : BOOLEAN, last : 0 .. Len(chain), needsUpdate : BOOLEAN, knownBlocks : Seq(Heights),
     knownTx : SUBSET Tx, lastHash : 0 .. Len(chain),
     current : {<<>>} \cup Heights \X (SUBSET Tx) \X (SUBSET Tx),
     pongs : Seq({"update", "load", "rerequest"})]

\* The types of the variables.  The wallet has a last address that is used.
HasUsed(w) == \E n \in {0} \cup {Pay[t] : t \in w.tx} : \A t \in w.tx : n >= Pay[t]
TypeOK ==
    /\ chain \in Chains /\ tip \in Heights
    /\ wallet \in Wallets /\ HasUsed(wallet)
    /\ lastBlock \in 0 .. Len(chain) /\ estimated \in 0 .. Len(chain)
    /\ orphans \subseteq Heights \X (SUBSET Tx) /\ lastOrphan \in 0 .. Len(chain)
    /\ bloomFilter \in Filter /\ peer \in Peers
    /\ toPeer \in Seq(ToPeerMsg) /\ fromPeer \in Seq(FromPeerMsg) /\ peerFilter \in Filter
    /\ late \subseteq Heights
    /\ budget \in [fault : Nat, degrade : Nat]

-----------------------------------------------------------------------------
(* Sequences *)

\* A set of numbers has a smallest member.
LEMMA SmallestNumber ==
  ASSUME NEW T \in SUBSET Nat, T # {}
  PROVE  \E m \in T : \A n \in T : m <= n
<1> DEFINE R == {ss \in Nat \X Nat : ss[1] < ss[2]}
<1>1. IsWellFoundedOn(R, Nat)
  BY NatLessThanWellFounded, Zenon DEF OpToRel
<1>2. PICK m \in T : \A n \in T : ~ (<<n, m>> \in R)
  <2> HIDE DEF R
  <2> QED
    BY <1>1, WFMin, Zenon
<1>3. \A n \in T : ~(n < m)
  BY <1>2
<1> QED
  BY <1>3

\* Induction up to n over membership in a set.
LEMMA CountUp ==
  ASSUME NEW n \in Nat, NEW T, 0 \in T, \A k \in 0 .. n - 1 : k \in T => k + 1 \in T
  PROVE  \A k \in 0 .. n : k \in T
<1> SUFFICES ASSUME NEW k \in 0 .. n, k \notin T PROVE FALSE
  OBVIOUS
<1> DEFINE U == {i \in 0 .. n : i \notin T}
<1>1. U \in SUBSET Nat /\ U # {}
  OBVIOUS
<1>2. PICK m \in U : \A i \in U : m <= i
  <2> HIDE DEF U
  <2> QED
    BY <1>1, SmallestNumber
<1>3. m \in 0 .. n /\ m \notin T /\ m # 0
  BY <1>2
<1>4. m - 1 \in 0 .. n - 1 /\ m - 1 \notin U
  BY <1>2, <1>3
<1>5. m - 1 \in T
  BY <1>4
<1> QED
  BY <1>3, <1>4, <1>5

\* A set of numbers up to n has a largest member.
LEMMA LargestNumber ==
  ASSUME NEW n \in Nat, NEW T \in SUBSET (0 .. n), T # {}
  PROVE  \E m \in T : \A k \in T : m >= k
<1> DEFINE U == {n - k : k \in T}
<1>1. U \in SUBSET Nat /\ U # {}
  OBVIOUS
<1>2. PICK u \in U : \A v \in U : u <= v
  <2> HIDE DEF U
  <2> QED
    BY <1>1, SmallestNumber
<1>3. PICK m \in T : u = n - m
  BY <1>2
<1>4. \A k \in T : n - m <= n - k
  BY <1>2, <1>3
<1> QED
  BY <1>4

\* Sequences put together are a sequence.
LEMMA FlattenType ==
  ASSUME NEW S, NEW s \in Seq(Seq(S))
  PROVE  FlattenSeq(s) \in Seq(S)
<1> DEFINE n == Len(s)
           Step(g, i) == IF i = 1 THEN s[i] ELSE g[i - 1] \o s[i]
           Eq(g) == g = [i \in 1 .. n |-> Step(g, i)]
           Upto(g, k) == \A i \in 1 .. k : g[i] \in Seq(S) /\ g[i] = Step(g, i)
           Has(k) == \E g : g = [i \in 1 .. k |-> g[i]] /\ Upto(g, k)
           T == {k \in 0 .. n : Has(k)}
<1>0. n \in Nat /\ \A i \in 1 .. n : s[i] \in Seq(S)
  OBVIOUS
<1>1. CASE n = 0
  BY <1>1 DEF FlattenSeq
<1>2. CASE n > 0
  <2>1. Has(0)
    <3> DEFINE g == [i \in 1 .. 0 |-> 0]
    <3>1. g = [i \in 1 .. 0 |-> g[i]] /\ Upto(g, 0)
      <4>1. 1 .. 0 = {}
        OBVIOUS
      <4> QED
        BY <4>1
    <3> HIDE DEF g, Upto
    <3> QED
      BY <3>1
  <2>2. ASSUME NEW k \in 0 .. n - 1, Has(k) PROVE Has(k + 1)
    <3>1. PICK g : g = [i \in 1 .. k |-> g[i]] /\ Upto(g, k)
      BY <2>2
    <3>0. k \in Nat /\ k + 1 \in 1 .. n /\ s[k + 1] \in Seq(S) /\ k <= n
      BY <1>0
    <3> DEFINE e == IF k = 0 THEN s[k + 1] ELSE g[k] \o s[k + 1]
               f == [i \in 1 .. k + 1 |-> IF i = k + 1 THEN e ELSE g[i]]
    <3> HIDE DEF n
    <3>2. e \in Seq(S)
      <4>1. k # 0 => g[k] \in Seq(S)
        <5>1. k # 0 => k \in 1 .. k
          BY <3>0
        <5> HIDE DEF Step
        <5> QED
          BY <3>1, <5>1
      <4> QED
        BY <4>1, <3>0
    <3>3. f[k + 1] = e /\ \A i \in 1 .. k : f[i] = g[i]
      <4> HIDE DEF e
      <4>1. k + 1 \in 1 .. k + 1 /\ \A i \in 1 .. k : i \in 1 .. k + 1 /\ i # k + 1
        BY <3>0
      <4> QED
        BY <4>1
    <3>4. f = [i \in 1 .. k + 1 |-> f[i]]
      OBVIOUS
    <3> HIDE DEF f
    <3>5. ASSUME NEW i \in 1 .. k + 1 PROVE f[i] \in Seq(S) /\ f[i] = Step(f, i)
      <4>1. CASE i = k + 1
        <5>1. f[i] = e
          BY <3>3, <4>1
        <5>2. CASE k = 0
          BY <3>2, <4>1, <5>1, <5>2
        <5>3. CASE k # 0
          <6>1. i # 1 /\ i - 1 = k /\ k \in 1 .. k
            BY <3>0, <4>1, <5>3
          <6>2. f[i - 1] = g[k]
            BY <3>3, <6>1
          <6> QED
            BY <3>2, <4>1, <5>1, <5>3, <6>1, <6>2
        <5> QED
          BY <5>2, <5>3
      <4>2. CASE i \in 1 .. k
        <5>1. f[i] = g[i] /\ (i # 1 => f[i - 1] = g[i - 1])
          BY <3>0, <3>3, <4>2
        <5> QED
          BY <3>1, <4>2, <5>1
      <4> QED
        BY <3>0, <4>1, <4>2
    <3> HIDE DEF Step
    <3>6. Upto(f, k + 1)
      BY <3>5
    <3> HIDE DEF Upto
    <3> QED
      BY <3>4, <3>6
  <2>3. Has(n)
    <3> HIDE DEF Has, n
    <3>1. 0 \in T /\ \A k \in 0 .. n - 1 : k \in T => k + 1 \in T
      BY <1>0, <2>1, <2>2
    <3> HIDE DEF T
    <3>2. \A k \in 0 .. n : k \in T
      BY <1>0, <3>1, CountUp
    <3>3. n \in T
      BY <1>0, <3>2
    <3> QED
      BY <3>3 DEF T
  <2>4. PICK g : g = [i \in 1 .. n |-> g[i]] /\ Upto(g, n)
    BY <2>3
  <2>5. Eq(g)
    <3> HIDE DEF Step
    <3> QED
      BY <2>4
  <2> DEFINE flatten == CHOOSE h : Eq(h)
  <2>6. Eq(flatten)
    <3> HIDE DEF Eq
    <3> QED
      BY <2>5
  <2>7. FlattenSeq(s) = flatten[n]
    BY <1>2 DEF FlattenSeq
  <2> HIDE DEF flatten, n
  <2>8. \A i \in 1 .. n : flatten[i] = Step(flatten, i)
    <3> HIDE DEF Step
    <3> QED
      BY <2>6
  <2> DEFINE V == {k \in 0 .. n : k = 0 \/ flatten[k] \in Seq(S)}
  <2>9. ASSUME NEW k \in 0 .. n - 1, k \in V PROVE k + 1 \in V
    <3>1. k \in Nat /\ k + 1 \in 1 .. n /\ s[k + 1] \in Seq(S) /\ k + 1 \in 0 .. n
      BY <1>0
    <3>2. flatten[k + 1] = Step(flatten, k + 1)
      BY <2>8, <3>1
    <3>3. k # 0 => flatten[k] \in Seq(S) /\ (k + 1) - 1 = k
      BY <2>9, <3>1
    <3>4. flatten[k + 1] \in Seq(S)
      BY <3>1, <3>2, <3>3
    <3> QED
      BY <3>1, <3>4
  <2>10. n \in V
    <3>1. 0 \in V /\ \A k \in 0 .. n - 1 : k \in V => k + 1 \in V
      BY <1>0, <2>9
    <3> HIDE DEF V
    <3>2. \A k \in 0 .. n : k \in V
      BY <1>0, <3>1, CountUp
    <3> QED
      BY <1>0, <3>2
  <2> QED
    BY <1>2, <2>7, <2>10
<1> QED
  BY <1>0, <1>1, <1>2

-----------------------------------------------------------------------------
(* What is under way *)

\* Pings and pongs, and what brings blocks.
IsPing(m) == m.type \in {"ping", "pong"}
IsWork(m) == m.type \in {"getdata", "merkleblock", "tx"}

NoPing(s) == \A i \in DOMAIN s : ~IsPing(s[i])
OnePing(s) == \A i, j \in DOMAIN s : i < j => ~IsPing(s[i]) \/ ~IsPing(s[j])
TwoPings(s) == \A i, j, k \in DOMAIN s :
                  i < j /\ j < k => ~IsPing(s[i]) \/ ~IsPing(s[j]) \/ ~IsPing(s[k])
NoWork(s) == \A i \in DOMAIN s : ~IsWork(s[i])
Calm(s) == \A i \in DOMAIN s : IsWork(s[i]) => \E j \in DOMAIN s : i < j /\ IsPing(s[j])

\* Two sequences one after the other.
LEMMA Together ==
  ASSUME NEW S, NEW T, NEW a \in Seq(S), NEW b \in Seq(T)
  PROVE  /\ NoPing(a) /\ NoPing(b) => NoPing(a \o b)
         /\ ~NoPing(a) \/ ~NoPing(b) => ~NoPing(a \o b)
         /\ NoWork(a) /\ NoWork(b) => NoWork(a \o b)
         /\ OnePing(a) /\ NoPing(b) => OnePing(a \o b)
         /\ NoPing(a) /\ OnePing(b) => OnePing(a \o b)
         /\ OnePing(a) /\ OnePing(b) => TwoPings(a \o b)
         /\ TwoPings(a) /\ NoPing(b) => TwoPings(a \o b)
         /\ NoPing(a) /\ TwoPings(b) => TwoPings(a \o b)
         /\ Calm(a) /\ Calm(b) => Calm(a \o b)
         /\ Calm(b) /\ ~NoPing(b) => Calm(a \o b)
<1> DEFINE n == Len(a)
           m == Len(b)
           c == a \o b
<1>1. n \in Nat /\ m \in Nat /\ DOMAIN a = 1 .. n /\ DOMAIN b = 1 .. m
  OBVIOUS
<1>2. /\ DOMAIN c = 1 .. n + m
      /\ \A i \in 1 .. n : i \in DOMAIN c /\ c[i] = a[i]
      /\ \A i \in 1 .. m : i + n \in DOMAIN c /\ c[i + n] = b[i]
      /\ \A i \in DOMAIN c : i \notin 1 .. n => i - n \in 1 .. m /\ c[i] = b[i - n]
  OBVIOUS
<1> HIDE DEF n, m, c
<1>3. NoPing(a) /\ NoPing(b) => NoPing(c)
  BY <1>1, <1>2 DEF NoPing
<1>4. ~NoPing(a) \/ ~NoPing(b) => ~NoPing(c)
  BY <1>1, <1>2 DEF NoPing
<1>5. NoWork(a) /\ NoWork(b) => NoWork(c)
  BY <1>1, <1>2 DEF NoWork
<1> DEFINE A == {i \in 1 .. n : IsPing(a[i])}
           B == {i \in 1 .. m : IsPing(b[i])}
           C == {i \in DOMAIN c : IsPing(c[i])}
<1>6. \A i \in C : i \in Int /\ (i \in A \/ (i > n /\ i - n \in B))
  BY <1>1, <1>2
<1>7. /\ OnePing(a) <=> \A i, j \in A : ~(i < j)
      /\ OnePing(b) <=> \A i, j \in B : ~(i < j)
      /\ OnePing(c) <=> \A i, j \in C : ~(i < j)
      /\ TwoPings(a) <=> \A i, j, k \in A : ~(i < j /\ j < k)
      /\ TwoPings(b) <=> \A i, j, k \in B : ~(i < j /\ j < k)
      /\ TwoPings(c) <=> \A i, j, k \in C : ~(i < j /\ j < k)
      /\ NoPing(a) <=> A = {}
      /\ NoPing(b) <=> B = {}
  BY <1>1 DEF NoPing, OnePing, TwoPings
<1>8. A \subseteq 1 .. n /\ B \subseteq 1 .. m
  OBVIOUS
<1> HIDE DEF A, B, C
<1>9. OnePing(a) /\ NoPing(b) => OnePing(c)
  BY <1>1, <1>6, <1>7, <1>8
<1>10. NoPing(a) /\ OnePing(b) => OnePing(c)
  BY <1>1, <1>6, <1>7, <1>8
<1>11. TwoPings(a) /\ NoPing(b) => TwoPings(c)
  BY <1>1, <1>6, <1>7, <1>8
<1>12. NoPing(a) /\ TwoPings(b) => TwoPings(c)
  BY <1>1, <1>6, <1>7, <1>8
<1>13. OnePing(a) /\ OnePing(b) => TwoPings(c)
  BY <1>1, <1>6, <1>7, <1>8
<1>14. ASSUME Calm(b), Calm(a) \/ ~NoPing(b) PROVE Calm(c)
  <2> SUFFICES ASSUME NEW i \in DOMAIN c, IsWork(c[i])
               PROVE  \E j \in DOMAIN c : i < j /\ IsPing(c[j])
    BY DEF Calm
  <2>1. CASE i \in 1 .. n /\ Calm(a)
    BY <1>1, <1>2, <2>1 DEF Calm
  <2>2. CASE i \in 1 .. n /\ ~NoPing(b)
    <3>1. PICK j \in 1 .. m : IsPing(b[j])
      BY <1>1, <2>2 DEF NoPing
    <3>2. j + n \in DOMAIN c /\ c[j + n] = b[j] /\ i < j + n
      BY <1>1, <1>2, <2>2
    <3> QED
      BY <3>1, <3>2
  <2>3. CASE i \notin 1 .. n
    <3>1. i - n \in 1 .. m /\ c[i] = b[i - n]
      BY <1>2, <2>3
    <3>2. PICK j \in 1 .. m : i - n < j /\ IsPing(b[j])
      BY <1>1, <3>1, <1>14 DEF Calm
    <3>3. j + n \in DOMAIN c /\ c[j + n] = b[j] /\ i < j + n
      BY <1>1, <1>2, <3>1, <3>2
    <3> QED
      BY <3>2, <3>3
  <2> QED
    BY <1>14, <2>1, <2>2, <2>3
<1> QED
  BY <1>3, <1>4, <1>5, <1>9, <1>10, <1>11, <1>12, <1>13, <1>14 DEF c

\* A sequence and what is left of it without its first member.
LEMMA Rest ==
  ASSUME NEW S, NEW a \in Seq(S), a # <<>>, NEW t, t = Tail(a)
  PROVE  /\ t \in Seq(S) /\ Head(a) \in S
         /\ NoPing(a) => NoPing(t) /\ ~IsPing(Head(a))
         /\ NoPing(t) /\ ~IsPing(Head(a)) => NoPing(a)
         /\ NoWork(a) => NoWork(t) /\ ~IsWork(Head(a))
         /\ OnePing(a) => OnePing(t) /\ (IsPing(Head(a)) => NoPing(t))
         /\ TwoPings(a) => TwoPings(t) /\ (IsPing(Head(a)) => OnePing(t))
         /\ Calm(a) => Calm(t) /\ (IsWork(Head(a)) => ~NoPing(t))
         /\ Calm(a) /\ NoPing(a) => NoWork(a)
<1>1. /\ t \in Seq(S) /\ Head(a) \in S /\ Head(a) = a[1] /\ 1 \in DOMAIN a
      /\ \A i \in DOMAIN t : i \in Nat /\ i >= 1 /\ i + 1 \in DOMAIN a /\ t[i] = a[i + 1]
      /\ \A i \in DOMAIN a : i \in Nat /\ i >= 1 /\ (i # 1 => i - 1 \in DOMAIN t /\ a[i] = t[i - 1])
  OBVIOUS
<1>2. /\ NoPing(a) => NoPing(t) /\ ~IsPing(Head(a))
      /\ NoPing(t) /\ ~IsPing(Head(a)) => NoPing(a)
      /\ NoWork(a) => NoWork(t) /\ ~IsWork(Head(a))
  BY <1>1 DEF NoPing, NoWork
<1> DEFINE A == {i \in DOMAIN a : IsPing(a[i])}
           B == {i \in DOMAIN t : IsPing(t[i])}
<1>3. /\ \A i \in A : i \in Nat
      /\ \A i \in B : i \in Nat /\ i >= 1 /\ i + 1 \in A
      /\ IsPing(Head(a)) => 1 \in A
  BY <1>1
<1>4. /\ OnePing(a) <=> \A i, j \in A : ~(i < j)
      /\ OnePing(t) <=> \A i, j \in B : ~(i < j)
      /\ TwoPings(a) <=> \A i, j, k \in A : ~(i < j /\ j < k)
      /\ TwoPings(t) <=> \A i, j, k \in B : ~(i < j /\ j < k)
      /\ NoPing(t) <=> B = {}
  BY DEF NoPing, OnePing, TwoPings
<1> HIDE DEF A, B
<1>5. OnePing(a) => OnePing(t) /\ (IsPing(Head(a)) => NoPing(t))
  <2> SUFFICES ASSUME OnePing(a) PROVE OnePing(t) /\ (IsPing(Head(a)) => NoPing(t))
    OBVIOUS
  <2>1. ASSUME NEW i \in B, NEW j \in B, i < j PROVE FALSE
    <3>1. i + 1 \in A /\ j + 1 \in A /\ i + 1 < j + 1
      BY <1>3, <2>1
    <3> QED
      BY <1>4, <3>1
  <2>2. ASSUME NEW i \in B, 1 \in A PROVE FALSE
    <3>1. i + 1 \in A /\ 1 < i + 1
      BY <1>3
    <3> QED
      BY <1>4, <2>2, <3>1
  <2>3. OnePing(t)
    BY <1>4, <2>1
  <2>4. IsPing(Head(a)) => NoPing(t)
    BY <1>3, <1>4, <2>2
  <2> QED
    BY <2>3, <2>4
<1>6. TwoPings(a) => TwoPings(t) /\ (IsPing(Head(a)) => OnePing(t))
  <2> SUFFICES ASSUME TwoPings(a) PROVE TwoPings(t) /\ (IsPing(Head(a)) => OnePing(t))
    OBVIOUS
  <2>1. ASSUME NEW i \in B, NEW j \in B, NEW k \in B, i < j, j < k PROVE FALSE
    <3>1. i + 1 \in A /\ j + 1 \in A /\ k + 1 \in A /\ i + 1 < j + 1 /\ j + 1 < k + 1
      BY <1>3, <2>1
    <3> QED
      BY <1>4, <3>1
  <2>2. ASSUME NEW i \in B, NEW j \in B, i < j, 1 \in A PROVE FALSE
    <3>1. i + 1 \in A /\ j + 1 \in A /\ 1 < i + 1 /\ i + 1 < j + 1
      BY <1>3, <2>2
    <3> QED
      BY <1>4, <2>2, <3>1
  <2>3. TwoPings(t)
    BY <1>4, <2>1
  <2>4. IsPing(Head(a)) => OnePing(t)
    BY <1>3, <1>4, <2>2
  <2> QED
    BY <2>3, <2>4
<1>7. Calm(a) => Calm(t) /\ (IsWork(Head(a)) => ~NoPing(t))
  <2> SUFFICES ASSUME Calm(a) PROVE Calm(t) /\ (IsWork(Head(a)) => ~NoPing(t))
    OBVIOUS
  <2>1. ASSUME NEW i \in DOMAIN a, IsWork(a[i])
        PROVE  \E j \in DOMAIN t : i - 1 < j /\ IsPing(t[j])
    <3>1. PICK j \in DOMAIN a : i < j /\ IsPing(a[j])
      BY <2>1 DEF Calm
    <3>2. j - 1 \in DOMAIN t /\ a[j] = t[j - 1] /\ i - 1 < j - 1
      BY <1>1, <3>1
    <3> QED
      BY <3>1, <3>2
  <2>2. ASSUME NEW i \in DOMAIN t, IsWork(t[i]) PROVE \E j \in DOMAIN t : i < j /\ IsPing(t[j])
    <3>1. i + 1 \in DOMAIN a /\ IsWork(a[i + 1]) /\ (i + 1) - 1 = i
      BY <1>1, <2>2
    <3> QED
      BY <2>1, <3>1
  <2>3. IsWork(Head(a)) => ~NoPing(t)
    BY <1>1, <2>1 DEF NoPing
  <2> QED
    BY <2>2, <2>3 DEF Calm
<1>8. Calm(a) /\ NoPing(a) => NoWork(a)
  BY DEF Calm, NoPing, NoWork
<1> QED
  BY <1>1, <1>2, <1>5, <1>6, <1>7, <1>8

\* Sequences of one message, and of nothing.
LEMMA Single ==
  ASSUME NEW m
  PROVE  /\ OnePing(<<m>>) /\ TwoPings(<<m>>)
         /\ NoPing(<<m>>) <=> ~IsPing(m)
         /\ NoWork(<<m>>) <=> ~IsWork(m)
         /\ ~IsWork(m) => Calm(<<m>>)
         /\ NoPing(<<>>) /\ NoWork(<<>>) /\ Calm(<<>>)
  BY DEF OnePing, TwoPings, NoPing, NoWork, Calm

\* Fewer pings are within every bound, and without work all is calm.
LEMMA Weaker ==
  ASSUME NEW s
  PROVE  /\ NoPing(s) => OnePing(s) /\ TwoPings(s)
         /\ NoWork(s) => Calm(s)
  BY DEF OnePing, TwoPings, NoPing, NoWork, Calm

-----------------------------------------------------------------------------
(* Pings and blocks in transit *)

\* Pings and pongs are as many as the callbacks that wait for them.
Zero(f, t) == NoPing(f) /\ NoPing(t)
One(f, t) == (OnePing(f) /\ NoPing(t)) \/ (NoPing(f) /\ OnePing(t))
Two(f, t) ==
    \/ TwoPings(f) /\ NoPing(t)
    \/ OnePing(f) /\ OnePing(t)
    \/ NoPing(f) /\ TwoPings(t)

\* No block is asked for behind the last ping.
CalmPair(f, t) == Calm(t) /\ (Calm(f) \/ ~NoPing(t))

\* The steps of an update, with what is under way from the peer and to it.
Flow(pongs, f, t) ==
    \/ pongs = <<>> /\ Zero(f, t)
    \/ pongs = <<"rerequest">> /\ One(f, t)
    \/ pongs = <<"update">> /\ One(f, t) /\ CalmPair(f, t)
    \/ pongs = <<"rerequest", "update">> /\ Two(f, t) /\ CalmPair(f, t)
    \/ pongs = <<"load">> /\ One(f, t) /\ NoWork(f) /\ NoWork(t)

Idle == {<<>>, <<"rerequest">>}
Asking == {<<"update">>, <<"rerequest", "update">>}

\* A message that is neither a ping nor about blocks makes no difference.
LEMMA FlowPlain ==
  ASSUME NEW S, NEW T, NEW p, NEW f \in Seq(S), NEW t \in Seq(T), Flow(p, f, t),
         NEW x \in Seq(T), NoPing(x), NoWork(x)
  PROVE  Flow(p, f, t \o x) /\ Flow(p, f \o x, t)
<1>1. Calm(x) /\ OnePing(x) /\ TwoPings(x)
  BY Weaker
<1>2. /\ NoPing(t) => NoPing(t \o x)
      /\ ~NoPing(t) => ~NoPing(t \o x)
      /\ OnePing(t) => OnePing(t \o x)
      /\ TwoPings(t) => TwoPings(t \o x)
      /\ Calm(t) => Calm(t \o x)
      /\ NoWork(t) => NoWork(t \o x)
  BY <1>1, Together
<1>3. /\ NoPing(f) => NoPing(f \o x)
      /\ OnePing(f) => OnePing(f \o x)
      /\ TwoPings(f) => TwoPings(f \o x)
      /\ Calm(f) => Calm(f \o x)
      /\ NoWork(f) => NoWork(f \o x)
  BY <1>1, Together
<1> QED
  BY <1>2, <1>3, Zenon DEF Flow, Zero, One, Two, CalmPair

LEMMA AppendTwo ==
  ASSUME NEW S, NEW a \in S, NEW b \in S
  PROVE  Append(<<a>>, b) = <<a, b>>
<1> DEFINE q == Append(<<a>>, b)
<1>1. <<a>> \in Seq(S) /\ Len(<<a>>) = 1 /\ <<a>>[1] = a
  OBVIOUS
<1>2. q \in Seq(S) /\ Len(q) = Len(<<a>>) + 1
  BY <1>1
<1>3. q[1] = a
  BY <1>1
<1>4. q[2] = b
  BY <1>1
<1>5. Len(q) = 2
  BY <1>1, <1>2
<1> HIDE DEF q
<1>6. q = <<a, b>>
  BY <1>2, <1>3, <1>4, <1>5
<1> QED
  BY <1>6 DEF q

\* Blocks are asked for, or a ping sent, while no update is under way.
LEMMA FlowAsks ==
  ASSUME NEW S, NEW T, NEW p \in Idle, NEW f \in Seq(S), NEW t \in Seq(T), Flow(p, f, t),
         NEW x \in Seq(T), NoPing(x)
  PROVE  Flow(p, f, t \o x)
<1>1. /\ NoPing(t) => NoPing(t \o x)
      /\ OnePing(t) => OnePing(t \o x)
  BY Together
<1>2. p = <<>> \/ p = <<"rerequest">>
  BY DEF Idle
<1>3. CASE p = <<>>
  <2>1. Zero(f, t)
    BY <1>3 DEF Flow
  <2> QED
    BY <1>1, <1>3, <2>1 DEF Flow, Zero
<1>4. CASE p = <<"rerequest">>
  <2>1. One(f, t)
    BY <1>4 DEF Flow
  <2> QED
    BY <1>1, <1>4, <2>1 DEF Flow, One
<1> QED
  BY <1>2, <1>3, <1>4

LEMMA FlowPing ==
  ASSUME NEW S, NEW T, NEW p \in Idle, NEW f \in Seq(S), NEW t \in Seq(T), Flow(p, f, t),
         NEW m \in T, IsPing(m)
  PROVE  /\ Flow(Append(p, "update"), f, t \o <<m>>)
         /\ p = <<>> => Flow(<<"rerequest">>, f, t \o <<m>>)
<1>1. ~NoPing(<<m>>) /\ ~IsWork(m) /\ Calm(<<m>>) /\ OnePing(<<m>>) /\ TwoPings(<<m>>)
  BY Single DEF IsPing, IsWork
<1>2. <<m>> \in Seq(T)
  OBVIOUS
<1>3. /\ NoPing(t) => OnePing(t \o <<m>>)
      /\ OnePing(t) => TwoPings(t \o <<m>>)
      /\ Calm(t \o <<m>>) /\ ~NoPing(t \o <<m>>)
  BY <1>1, <1>2, Together
<1>4. p = <<>> \/ p = <<"rerequest">>
  BY DEF Idle
<1>5. CASE p = <<>>
  <2>1. Zero(f, t) /\ Append(p, "update") = <<"update">>
    BY <1>5 DEF Flow
  <2> QED
    BY <1>3, <1>5, <2>1 DEF Flow, Zero, One, CalmPair
<1>6. CASE p = <<"rerequest">>
  <2>0. Append(<<"rerequest">>, "update") = <<"rerequest", "update">>
    <3> DEFINE S2 == {"rerequest", "update"}
    <3>1. "rerequest" \in S2 /\ "update" \in S2
      OBVIOUS
    <3> HIDE DEF S2
    <3> QED
      BY <3>1, AppendTwo
  <2>1. One(f, t) /\ Append(p, "update") = <<"rerequest", "update">>
    BY <1>6, <2>0 DEF Flow
  <2>2. Two(f, t \o <<m>>)
    BY <1>3, <2>1, Weaker DEF One, Two
  <2>3. p # <<>>
    BY <1>6
  <2> QED
    BY <1>3, <2>1, <2>2, <2>3 DEF Flow, CalmPair
<1> QED
  BY <1>4, <1>5, <1>6

\* The peer answers its next message with x: a ping with a pong, a request for
\* blocks with blocks, and others with neither.
LEMMA FlowServe ==
  ASSUME NEW S, NEW T, NEW p, NEW f \in Seq(S), NEW t \in Seq(T), Flow(p, f, t), t # <<>>,
         NEW x \in Seq(S),
         \/ IsPing(Head(t)) /\ \E m : x = <<m>> /\ IsPing(m)
         \/ ~IsPing(Head(t)) /\ NoPing(x) /\ (IsWork(Head(t)) \/ NoWork(x))
  PROVE  Flow(p, f \o x, Tail(t))
<1> DEFINE r == Tail(t)
<1>0. /\ r \in Seq(T)
      /\ NoPing(t) => NoPing(r) /\ ~IsPing(Head(t))
      /\ NoPing(r) /\ ~IsPing(Head(t)) => NoPing(t)
      /\ NoWork(t) => NoWork(r) /\ ~IsWork(Head(t))
      /\ OnePing(t) => OnePing(r) /\ (IsPing(Head(t)) => NoPing(r))
      /\ TwoPings(t) => TwoPings(r) /\ (IsPing(Head(t)) => OnePing(r))
      /\ Calm(t) => Calm(r) /\ (IsWork(Head(t)) => ~NoPing(r))
  BY Rest
<1> HIDE DEF r
<1>1. CASE IsPing(Head(t)) /\ \E m : x = <<m>> /\ IsPing(m)
  <2>1. ~NoPing(x) /\ NoWork(x) /\ Calm(x) /\ OnePing(x) /\ TwoPings(x)
    BY <1>1, Single DEF IsPing, IsWork
  <2>2. /\ NoPing(f) => OnePing(f \o x)
        /\ OnePing(f) => TwoPings(f \o x)
        /\ NoWork(f) => NoWork(f \o x)
        /\ Calm(f \o x)
    BY <2>1, Together
  <2>3. ~NoPing(t)
    BY <1>0, <1>1
  <2>4. One(f, t) => One(f \o x, r)
    BY <1>0, <1>1, <2>2, <2>3 DEF One
  <2>5. Two(f, t) => Two(f \o x, r)
    BY <1>0, <1>1, <2>2, <2>3 DEF Two
  <2>6. CalmPair(f, t) => CalmPair(f \o x, r)
    BY <1>0, <2>2 DEF CalmPair
  <2>7. NoWork(f) /\ NoWork(t) => NoWork(f \o x) /\ NoWork(r)
    BY <1>0, <2>2
  <2> QED
    BY <2>3, <2>4, <2>5, <2>6, <2>7, Zenon DEF Flow, Zero, r
<1>2. CASE ~IsPing(Head(t)) /\ NoPing(x) /\ (IsWork(Head(t)) \/ NoWork(x))
  <2>1. /\ NoPing(f) => NoPing(f \o x)
        /\ OnePing(f) => OnePing(f \o x)
        /\ TwoPings(f) => TwoPings(f \o x)
        /\ NoWork(f) /\ NoWork(x) => NoWork(f \o x)
        /\ Calm(f) /\ NoWork(x) => Calm(f \o x)
    BY <1>2, Together, Weaker
  <2>2. (NoPing(t) <=> NoPing(r))
    BY <1>0, <1>2
  <2>3. Zero(f, t) => Zero(f \o x, r)
    BY <2>1, <2>2 DEF Zero
  <2>4. One(f, t) => One(f \o x, r)
    BY <1>0, <2>1, <2>2 DEF One
  <2>5. Two(f, t) => Two(f \o x, r)
    BY <1>0, <2>1, <2>2 DEF Two
  <2>6. CalmPair(f, t) => CalmPair(f \o x, r)
    BY <1>0, <1>2, <2>1, <2>2 DEF CalmPair
  <2>7. NoWork(f) /\ NoWork(t) => NoWork(f \o x) /\ NoWork(r)
    BY <1>0, <1>2, <2>1
  <2> QED
    BY <2>3, <2>4, <2>5, <2>6, <2>7, Zenon DEF Flow, r
<1> QED
  BY <1>1, <1>2

\* The app takes the next message.
LEMMA FlowReceive ==
  ASSUME NEW S, NEW T, NEW p, NEW f \in Seq(S), NEW t \in Seq(T), Flow(p, f, t), f # <<>>,
         ~IsPing(Head(f))
  PROVE  Flow(p, Tail(f), t)
<1> DEFINE r == Tail(f)
<1>0. /\ NoPing(f) => NoPing(r)
      /\ NoWork(f) => NoWork(r)
      /\ OnePing(f) => OnePing(r)
      /\ TwoPings(f) => TwoPings(r)
      /\ Calm(f) => Calm(r)
  BY Rest
<1> HIDE DEF r
<1> QED
  BY <1>0, Zenon DEF Flow, Zero, One, Two, CalmPair, r

\* With a pong, the next callback is called: nothing is under way behind the pong
\* of an update, and no block while a filter was loaded.
LEMMA FlowPong ==
  ASSUME NEW S, NEW T, NEW p, NEW f \in Seq(S), NEW t \in Seq(T), Flow(p, f, t), f # <<>>,
         IsPing(Head(f))
  PROVE  /\ p # <<>>
         /\ p = <<"rerequest">> => Flow(<<>>, Tail(f), t)
         /\ p = <<"rerequest", "update">> => Flow(<<"update">>, Tail(f), t)
         /\ p \in {<<"update">>, <<"load">>} =>
               NoPing(Tail(f)) /\ NoPing(t) /\ NoWork(Tail(f)) /\ NoWork(t)
<1> DEFINE r == Tail(f)
<1>0. /\ NoPing(f) => ~IsPing(Head(f))
      /\ NoWork(f) => NoWork(r)
      /\ OnePing(f) => NoPing(r)
      /\ TwoPings(f) => OnePing(r)
      /\ Calm(f) => Calm(r)
      /\ r \in Seq(S)
  BY Rest
<1> HIDE DEF r
<1>1. ~NoPing(f)
  BY <1>0
<1>2. One(f, t) => Zero(r, t)
  BY <1>0, <1>1 DEF One, Zero
<1>3. Two(f, t) => One(r, t)
  BY <1>0, <1>1 DEF Two, One
<1>4. CalmPair(f, t) => CalmPair(r, t)
  BY <1>0 DEF CalmPair
<1>5. ~Zero(f, t)
  BY <1>1 DEF Zero
<1>6. CalmPair(f, t) /\ Zero(r, t) => NoWork(r) /\ NoWork(t)
  <2> SUFFICES ASSUME CalmPair(f, t), Zero(r, t) PROVE NoWork(r) /\ NoWork(t)
    OBVIOUS
  <2>1. Calm(r) /\ Calm(t) /\ NoPing(r) /\ NoPing(t)
    BY <1>0 DEF CalmPair, Zero
  <2> QED
    BY <2>1 DEF Calm, NoPing, NoWork
<1>7. p = <<"rerequest">> => One(f, t)
  BY DEF Flow
<1>8. p = <<"rerequest", "update">> => Two(f, t) /\ CalmPair(f, t)
  BY DEF Flow
<1>9. p = <<"update">> => One(f, t) /\ CalmPair(f, t)
  BY DEF Flow
<1>10. p = <<"load">> => One(f, t) /\ NoWork(f) /\ NoWork(t)
  BY DEF Flow
<1>11. p # <<>>
  <2>1. /\ <<>> # <<"rerequest">> /\ <<>> # <<"update">> /\ <<>> # <<"load">>
        /\ <<>> # <<"rerequest", "update">>
    OBVIOUS
  <2> QED
    BY <1>5, <2>1, Zenon DEF Flow
<1>12. p = <<"rerequest">> => Flow(<<>>, r, t)
  BY <1>2, <1>7, Zenon DEF Flow
<1>13. p = <<"rerequest", "update">> => Flow(<<"update">>, r, t)
  BY <1>3, <1>4, <1>8, Zenon DEF Flow
<1>14. p \in {<<"update">>, <<"load">>} => NoPing(r) /\ NoPing(t) /\ NoWork(r) /\ NoWork(t)
  BY <1>0, <1>2, <1>6, <1>9, <1>10, Zenon DEF Zero
<1> QED
  BY <1>11, <1>12, <1>13, <1>14 DEF r

-----------------------------------------------------------------------------
(* The filter that was sent last *)

NoLoad(s) == \A i \in DOMAIN s : s[i].type # "filterload"

\* The last filter in msgs, or else f, has n addresses.
SentIs(n, msgs, f) ==
    \/ f.addrs = n /\ NoLoad(msgs)
    \/ \E i \in DOMAIN msgs :
          /\ msgs[i].type = "filterload" /\ msgs[i].arg.addrs = n
          /\ \A j \in DOMAIN msgs : i < j => msgs[j].type # "filterload"

LEMMA SentLatest ==
  ASSUME NEW T, NEW n, NEW msgs \in Seq(T), NEW f, SentIs(n, msgs, f)
  PROVE  Latest(msgs, f).addrs = n
<1> DEFINE loads == {i \in DOMAIN msgs : msgs[i].type = "filterload"}
<1>1. CASE f.addrs = n /\ NoLoad(msgs)
  <2>1. loads = {}
    BY <1>1 DEF NoLoad
  <2> QED
    BY <1>1, <2>1 DEF Latest
<1>2. CASE \E i \in DOMAIN msgs :
             /\ msgs[i].type = "filterload" /\ msgs[i].arg.addrs = n
             /\ \A j \in DOMAIN msgs : i < j => msgs[j].type # "filterload"
  <2>1. PICK i \in DOMAIN msgs :
             /\ msgs[i].type = "filterload" /\ msgs[i].arg.addrs = n
             /\ \A j \in DOMAIN msgs : i < j => msgs[j].type # "filterload"
    BY <1>2
  <2>2. i \in loads /\ \A j \in loads : j \in Nat /\ i >= j
    <3>1. \A j \in DOMAIN msgs : j \in Nat
      OBVIOUS
    <3> QED
      BY <2>1, <3>1
  <2>3. \A k \in loads : (\A j \in loads : k >= j) => k = i
    <3> HIDE DEF loads
    <3> QED
      BY <2>2
  <2>4. (CHOOSE k \in loads : \A j \in loads : k >= j) = i
    <3> HIDE DEF loads
    <3> QED
      BY <2>2, <2>3
  <2>5. loads # {}
    BY <2>2
  <2> QED
    BY <2>1, <2>4, <2>5 DEF Latest
<1> QED
  BY <1>1, <1>2 DEF SentIs

\* What is sent after it makes no difference, unless it is a filter.
LEMMA SentBefore ==
  ASSUME NEW T, NEW n, NEW msgs \in Seq(T), NEW f, SentIs(n, msgs, f), NEW x \in Seq(T), NoLoad(x)
  PROVE  SentIs(n, msgs \o x, f)
<1> DEFINE k == Len(msgs)
           c == msgs \o x
<1>1. /\ k \in Nat /\ DOMAIN msgs = 1 .. k
      /\ \A i \in 1 .. k : i \in DOMAIN c /\ c[i] = msgs[i]
      /\ \A i \in DOMAIN c : i \notin 1 .. k => i - k \in DOMAIN x /\ c[i] = x[i - k]
  OBVIOUS
<1> HIDE DEF k, c
<1>2. \A i \in DOMAIN c : i \notin 1 .. k => c[i].type # "filterload"
  BY <1>1 DEF NoLoad
<1>3. CASE f.addrs = n /\ NoLoad(msgs)
  BY <1>1, <1>2, <1>3 DEF SentIs, NoLoad, c
<1>4. CASE \E i \in DOMAIN msgs :
             /\ msgs[i].type = "filterload" /\ msgs[i].arg.addrs = n
             /\ \A j \in DOMAIN msgs : i < j => msgs[j].type # "filterload"
  <2>1. PICK i \in 1 .. k :
             /\ msgs[i].type = "filterload" /\ msgs[i].arg.addrs = n
             /\ \A j \in 1 .. k : i < j => msgs[j].type # "filterload"
    BY <1>1, <1>4
  <2>2. i \in DOMAIN c /\ c[i].type = "filterload" /\ c[i].arg.addrs = n
    BY <1>1, <2>1
  <2>3. \A j \in DOMAIN c : i < j => c[j].type # "filterload"
    BY <1>1, <1>2, <2>1
  <2>4. SentIs(n, c, f)
    BY <2>2, <2>3 DEF SentIs
  <2> QED
    BY <2>4 DEF c
<1> QED
  BY <1>3, <1>4 DEF SentIs

LEMMA SentNow ==
  ASSUME NEW T, NEW msgs \in Seq(T), NEW f, NEW m \in T, m.type = "filterload"
  PROVE  SentIs(m.arg.addrs, msgs \o <<m>>, f)
<1> DEFINE k == Len(msgs)
           c == msgs \o <<m>>
<1>1. k \in Nat /\ DOMAIN c = 1 .. k + 1 /\ c[k + 1] = m
  OBVIOUS
<1> HIDE DEF k, c
<1>2. k + 1 \in DOMAIN c /\ \A j \in DOMAIN c : ~(k + 1 < j)
  BY <1>1
<1>3. SentIs(m.arg.addrs, c, f)
  BY <1>1, <1>2 DEF SentIs
<1> QED
  BY <1>3 DEF c

\* The peer reads the next message.
LEMMA SentServe ==
  ASSUME NEW T, NEW n, NEW msgs \in Seq(T), msgs # <<>>, NEW f, SentIs(n, msgs, f), NEW g,
         \/ Head(msgs).type = "filterload" /\ g = Head(msgs).arg
         \/ Head(msgs).type # "filterload" /\ g.addrs = f.addrs
  PROVE  SentIs(n, Tail(msgs), g)
<1> DEFINE t == Tail(msgs)
<1>1. /\ Head(msgs) = msgs[1] /\ 1 \in DOMAIN msgs
      /\ \A i \in DOMAIN t : i \in Nat /\ i >= 1 /\ i + 1 \in DOMAIN msgs /\ t[i] = msgs[i + 1]
      /\ \A i \in DOMAIN msgs : i \in Nat /\ i >= 1 /\ (i # 1 => i - 1 \in DOMAIN t /\ msgs[i] = t[i - 1])
  OBVIOUS
<1> HIDE DEF t
<1>2. CASE f.addrs = n /\ NoLoad(msgs)
  <2>1. NoLoad(t) /\ g.addrs = n
    BY <1>1, <1>2 DEF NoLoad
  <2> QED
    BY <2>1 DEF SentIs, t
<1>3. CASE \E i \in DOMAIN msgs :
             /\ msgs[i].type = "filterload" /\ msgs[i].arg.addrs = n
             /\ \A j \in DOMAIN msgs : i < j => msgs[j].type # "filterload"
  <2>1. PICK i \in DOMAIN msgs :
             /\ msgs[i].type = "filterload" /\ msgs[i].arg.addrs = n
             /\ \A j \in DOMAIN msgs : i < j => msgs[j].type # "filterload"
    BY <1>3
  <2>2. \A j \in DOMAIN t : i - 1 < j => t[j].type # "filterload"
    BY <1>1, <2>1
  <2>3. CASE i = 1
    <3>1. NoLoad(t) /\ g.addrs = n
      BY <1>1, <2>1, <2>2, <2>3 DEF NoLoad
    <3> QED
      BY <3>1 DEF SentIs, t
  <2>4. CASE i # 1
    <3>1. i - 1 \in DOMAIN t /\ t[i - 1].type = "filterload" /\ t[i - 1].arg.addrs = n
      BY <1>1, <2>1, <2>4
    <3>2. SentIs(n, t, g)
      BY <2>2, <3>1 DEF SentIs
    <3> QED
      BY <3>2 DEF t
  <2> QED
    BY <2>3, <2>4
<1> QED
  BY <1>2, <1>3 DEF SentIs

-----------------------------------------------------------------------------
(* The wallet and its filter *)

LEMMA UsedFacts ==
  ASSUME NEW w, w.tx \subseteq Tx, HasUsed(w)
  PROVE  Used(w) \in Nat /\ \A t \in w.tx : Used(w) >= Pay[t]
<1>1. {0} \cup {Pay[t] : t \in w.tx} \subseteq Nat
  BY ChainSyncAssumption
<1>2. Used(w) \in {0} \cup {Pay[t] : t \in w.tx} /\ \A t \in w.tx : Used(w) >= Pay[t]
  BY DEF HasUsed, Used
<1> QED
  BY <1>1, <1>2

\* A transaction that is added is the last to pay an address, or changes nothing.
LEMMA UsedAdd ==
  ASSUME NEW w, NEW v, w.tx \subseteq Tx, HasUsed(w), NEW t \in Tx, v.tx = w.tx \cup {t}
  PROVE  HasUsed(v) /\ Used(v) \in Nat /\ (Used(v) = Used(w) \/ Used(v) = Pay[t])
<1>1. Used(w) \in Nat /\ (\A u \in w.tx : Used(w) >= Pay[u] /\ Pay[u] \in Nat) /\ Pay[t] \in Nat
  BY UsedFacts, ChainSyncAssumption
<1>2. Used(w) \in {0} \cup {Pay[u] : u \in w.tx}
  BY DEF HasUsed, Used
<1> DEFINE V == {0} \cup {Pay[u] : u \in v.tx}
           top == IF Pay[t] > Used(w) THEN Pay[t] ELSE Used(w)
<1>3. top \in V /\ \A u \in v.tx : top >= Pay[u]
  BY <1>1, <1>2
<1>4. V \subseteq Nat
  BY ChainSyncAssumption
<1>5. \A n \in V : (\A u \in v.tx : n >= Pay[u]) => n >= top \/ n >= 0
  BY <1>4
<1>6. HasUsed(v)
  BY <1>3 DEF HasUsed
<1>7. Used(v) \in V /\ \A u \in v.tx : Used(v) >= Pay[u]
  BY <1>3 DEF Used
<1>8. Used(v) = top
  <2>1. Used(v) \in Nat /\ top \in Nat
    BY <1>3, <1>4, <1>7
  <2>2. Used(v) <= top
    BY <1>1, <1>3, <1>7, <2>1
  <2>3. Used(v) >= top
    <3>1. top = 0 \/ \E u \in v.tx : top = Pay[u]
      BY <1>3
    <3> QED
      BY <1>7, <2>1, <3>1
  <2> QED
    BY <2>1, <2>2, <2>3
<1> QED
  BY <1>1, <1>6, <1>8

LEMMA AddrsFacts ==
  ASSUME NEW w \in Wallets, HasUsed(w), NEW gap \in Nat, NEW u, u = UnusedAddrs(w, gap)
  PROVE  /\ u \in Wallets /\ HasUsed(u) /\ u.tx = w.tx /\ u.height = w.height
         /\ Used(u) = Used(w) /\ Used(w) \in Nat /\ Used(w) + gap <= u.addrs
<1>1. Used(w) \in Nat /\ w.addrs \in Nat
  BY UsedFacts DEF Wallets
<1>2. /\ u \in Wallets /\ u.tx = w.tx /\ u.height = w.height
      /\ u.addrs = Larger(w.addrs, Used(w) + gap)
  BY <1>1 DEF UnusedAddrs, Wallets, Larger
<1>3. HasUsed(u) /\ Used(u) = Used(w)
  BY <1>2 DEF HasUsed, Used
<1> QED
  BY <1>1, <1>2, <1>3 DEF Larger

LEMMA RegisterFacts ==
  ASSUME NEW w \in Wallets, HasUsed(w), NEW t \in Tx, NEW u, u = Register(w, t)
  PROVE  /\ u \in Wallets /\ HasUsed(u) /\ Used(u) \in Nat
         /\ Used(u) = Used(w) \/ Used(u) = Pay[t]
<1> DEFINE v == [w EXCEPT !.tx = @ \cup {t}]
<1>1. v \in Wallets /\ v.tx = w.tx \cup {t} /\ w.tx \subseteq Tx
  BY DEF Wallets
<1>2. HasUsed(v) /\ (Used(v) = Used(w) \/ Used(v) = Pay[t])
  BY <1>1, UsedAdd
<1>3. u = UnusedAddrs(v, Gap) /\ Gap \in Nat
  BY ChainSyncAssumption DEF Register
<1> HIDE DEF v
<1>4. u \in Wallets /\ HasUsed(u) /\ Used(u) = Used(v) /\ Used(v) \in Nat
  BY <1>1, <1>2, <1>3, AddrsFacts
<1> QED
  BY <1>2, <1>4

\* What a filter holds is bounded by the wallet it is made for.
Fits(w, f) == f # NoFilter => f.addrs \in Nat /\ Used(w) + Gap <= f.addrs /\ Spare + Gap <= f.addrs

LEMMA LoadFacts ==
  ASSUME wallet \in Wallets, HasUsed(wallet), LoadBloomFilter
  PROVE  /\ wallet' \in Wallets /\ HasUsed(wallet') /\ bloomFilter' \in Filter
         /\ bloomFilter' # NoFilter /\ Fits(wallet', bloomFilter')
         /\ orphans' = {} /\ lastOrphan' = 0
<1> DEFINE w == UnusedAddrs(wallet, Gap + Spare)
<1>1. Gap + Spare \in Nat /\ Gap \in Nat /\ Spare \in Nat
  BY ChainSyncAssumption
<1>2. /\ w \in Wallets /\ HasUsed(w)
      /\ Used(w) = Used(wallet) /\ Used(wallet) \in Nat /\ Used(wallet) + (Gap + Spare) <= w.addrs
  BY <1>1, AddrsFacts
<1>3. wallet' = w /\ bloomFilter' = Watch(w) /\ orphans' = {} /\ lastOrphan' = 0
  BY DEF LoadBloomFilter
<1> HIDE DEF w
<1>4. w.tx \subseteq Tx /\ w.addrs \in Nat /\ \A t \in w.tx : Spends[t] \subseteq Tx
  BY <1>2, ChainSyncAssumption DEF Wallets
<1>5. Watch(w).addrs = w.addrs /\ Watch(w).outs \subseteq Tx
  BY <1>4 DEF Watch, UTXOs
<1>6. Watch(w) \in Filter
  BY <1>4, <1>5 DEF Watch, Filter
<1>7. Watch(w) # NoFilter
  BY <1>4, <1>5 DEF NoFilter
<1> QED
  BY <1>1, <1>2, <1>3, <1>4, <1>5, <1>6, <1>7 DEF Fits

\* The callback of an update is registered with a ping, or there is one already.
Updates(p, q, out) ==
    \/ q.pongs = p.pongs /\ q.needsUpdate = p.needsUpdate /\ out = <<>>
    \/ /\ ~p.needsUpdate /\ q.needsUpdate
       /\ q.pongs = Append(p.pongs, "update") /\ out = <<Msg("ping", 0)>>

LEMMA UpdateFacts ==
  ASSUME NEW p \in Peers, NEW u, u = UpdateFilter(p)
  PROVE  /\ u.p \in Peers /\ u.p.on = p.on /\ u.p.needsUpdate /\ u.p.current = p.current
         /\ Updates(p, u.p, u.out) /\ u.out \in Seq(ToPeerMsg)
<1>0. <<Msg("ping", 0)>> \in Seq(ToPeerMsg)
  <2>1. Msg("ping", 0) \in ToPeerMsg
    BY DEF Msg, ToPeerMsg
  <2> QED
    BY <2>1
<1>1. CASE p.needsUpdate
  <2>1. u.p = p /\ u.out = <<>>
    BY <1>1 DEF UpdateFilter
  <2>2. Updates(p, u.p, u.out) /\ <<>> \in Seq(ToPeerMsg)
    BY <2>1 DEF Updates
  <2> QED
    BY <1>1, <2>1, <2>2
<1>2. CASE ~p.needsUpdate
  <2> DEFINE q == [p EXCEPT !.needsUpdate = TRUE, !.pongs = Append(@, "update")]
  <2>1. u.p = q /\ u.out = <<Msg("ping", 0)>>
    BY <1>2 DEF UpdateFilter
  <2>2. Append(p.pongs, "update") \in Seq({"update", "load", "rerequest"})
    BY DEF Peers
  <2>3. q \in Peers /\ q.on = p.on /\ q.needsUpdate /\ q.current = p.current
        /\ q.pongs = Append(p.pongs, "update")
    BY <2>2 DEF Peers
  <2> QED
    BY <1>0, <1>2, <2>1, <2>3 DEF Updates
<1> QED
  BY <1>1, <1>2

\* _peerRelayedTx leaves a filter that still fits, or drops it and begins an update.
LEMMA RelayedTxFacts ==
  ASSUME wallet \in Wallets, HasUsed(wallet), bloomFilter \in Filter, peer \in Peers,
         Fits(wallet, bloomFilter), NEW t \in Tx, NEW r, r = RelayedTx(t)
  PROVE  /\ r.w \in Wallets /\ HasUsed(r.w) /\ r.f \in Filter /\ r.p \in Peers
         /\ r.p.on = peer.on /\ r.p.current = peer.current
         /\ Updates(peer, r.p, r.out) /\ r.out \in Seq(ToPeerMsg) /\ Fits(r.w, r.f)
         /\ r.f = bloomFilter \/ (r.f = NoFilter /\ r.p.needsUpdate)
         /\ Pay[t] <= Spare => r.f = bloomFilter
<1> DEFINE w == IF ContainsTx(wallet, t) THEN Register(wallet, t) ELSE wallet
           outgrown == ContainsTx(wallet, t) /\ Outgrown(w)
           u == IF outgrown THEN UpdateFilter(peer) ELSE [p |-> peer, out |-> <<>>]
           f == IF outgrown THEN NoFilter ELSE bloomFilter
<1>1. r.w = w /\ r.f = f /\ r.p = u.p /\ r.out = u.out
  BY DEF RelayedTx
<1>2. /\ w \in Wallets /\ HasUsed(w) /\ Used(w) \in Nat
      /\ Used(w) = Used(wallet) \/ (ContainsTx(wallet, t) /\ Used(w) = Pay[t])
  <2>1. Used(wallet) \in Nat
    BY UsedFacts DEF Wallets
  <2> QED
    BY <2>1, RegisterFacts
<1>3. /\ u.p \in Peers /\ u.p.on = peer.on /\ u.p.current = peer.current
      /\ Updates(peer, u.p, u.out) /\ u.out \in Seq(ToPeerMsg) /\ (outgrown => u.p.needsUpdate)
  <2>1. CASE outgrown
    BY <2>1, UpdateFacts
  <2>2. CASE ~outgrown
    BY <2>2 DEF Updates
  <2> QED
    BY <2>1, <2>2
<1>4. f \in Filter
  BY DEF Filter, NoFilter
<1>5. Fits(w, f)
  <2>1. CASE outgrown
    BY <2>1 DEF Fits
  <2>2. CASE ~outgrown /\ bloomFilter # NoFilter
    <3>1. bloomFilter.addrs \in Nat /\ Used(wallet) + Gap <= bloomFilter.addrs /\ Gap \in Nat
      BY <2>2, ChainSyncAssumption DEF Fits
    <3>2. Used(w) + Gap <= bloomFilter.addrs
      <4>1. CASE Used(w) = Used(wallet)
        BY <3>1, <4>1
      <4>2. CASE ContainsTx(wallet, t)
        <5>1. ~(Used(w) + Gap > bloomFilter.addrs)
          BY <2>2, <4>2 DEF Outgrown
        <5> QED
          BY <1>2, <3>1, <5>1
      <4> QED
        BY <1>2, <4>1, <4>2
    <3> QED
      BY <2>2, <3>2 DEF Fits
  <2>3. CASE ~outgrown /\ bloomFilter = NoFilter
    BY <2>3 DEF Fits
  <2> QED
    BY <2>1, <2>2, <2>3
<1>6. Pay[t] <= Spare => ~outgrown
  <2> SUFFICES ASSUME Pay[t] <= Spare, outgrown PROVE FALSE
    OBVIOUS
  <2>1. bloomFilter # NoFilter /\ Used(w) + Gap > bloomFilter.addrs
    BY DEF Outgrown
  <2>2. /\ bloomFilter.addrs \in Nat /\ Used(wallet) + Gap <= bloomFilter.addrs
        /\ Spare + Gap <= bloomFilter.addrs /\ Gap \in Nat /\ Spare \in Nat /\ Pay[t] \in Nat
    BY <2>1, ChainSyncAssumption DEF Fits
  <2> HIDE DEF w, outgrown
  <2> QED
    BY <1>2, <2>1, <2>2
<1> HIDE DEF w, u, outgrown
<1> QED
  BY <1>1, <1>2, <1>3, <1>4, <1>5, <1>6

-----------------------------------------------------------------------------
(* A block that is relayed *)

GetBlocks(x) == x = <<>> \/ \E h \in 0 .. Len(chain) : x = <<Msg("getblocks", h)>>

LEMMA GetBlocksFacts ==
  ASSUME NEW x, GetBlocks(x)
  PROVE  x \in Seq(ToPeerMsg) /\ NoPing(x) /\ NoWork(x) /\ NoLoad(x)
<1>1. CASE x = <<>>
  BY <1>1 DEF NoPing, NoWork, NoLoad
<1>2. ASSUME NEW h \in 0 .. Len(chain), x = <<Msg("getblocks", h)>>
      PROVE  x \in Seq(ToPeerMsg) /\ NoPing(x) /\ NoWork(x) /\ NoLoad(x)
  <2> DEFINE m == Msg("getblocks", h)
  <2>1. m \in ToPeerMsg /\ m.type = "getblocks"
    BY DEF ToPeerMsg, Msg
  <2> HIDE DEF m
  <2>2. \A i \in DOMAIN x : x[i] = m
    BY <1>2 DEF m
  <2>3. x \in Seq(ToPeerMsg)
    BY <1>2, <2>1 DEF m
  <2> QED
    BY <2>1, <2>2, <2>3 DEF NoPing, NoWork, NoLoad, IsPing, IsWork
<1> QED
  BY <1>1, <1>2 DEF GetBlocks

\* What _peerRelayedBlock leaves alone, and that it asks for blocks at most.
RelayedWith(w, f, p, out) ==
    /\ wallet' \in Wallets /\ wallet'.tx = w.tx /\ wallet'.addrs = w.addrs
    /\ bloomFilter' = f /\ peer' = p
    /\ \E x : GetBlocks(x) /\ toPeer' = (toPeer \o out) \o x
    /\ lastBlock' \in 0 .. Len(chain) /\ estimated' \in 0 .. Len(chain)
    /\ orphans' \subseteq Heights \X (SUBSET Tx) /\ lastOrphan' \in 0 .. Len(chain)
    /\ late' \subseteq Heights

LEMMA RelayedBlockFacts ==
  ASSUME TypeOK, NEW w \in Wallets, NEW f, NEW p, NEW out \in Seq(ToPeerMsg),
         NEW h \in Heights, NEW ts \in SUBSET Tx, RelayedBlock(w, f, p, out, h, ts)
  PROVE  RelayedWith(w, f, p, out)
<1>0. /\ lastBlock \in 0 .. Len(chain) /\ estimated \in 0 .. Len(chain) /\ Len(chain) \in Nat
      /\ orphans \subseteq Heights \X (SUBSET Tx) /\ lastOrphan \in 0 .. Len(chain)
      /\ late \subseteq Heights /\ toPeer \in Seq(ToPeerMsg) /\ tip \in Heights
      /\ toPeer \o out \in Seq(ToPeerMsg) /\ (toPeer \o out) \o <<>> = toPeer \o out
      /\ Heights \subseteq Nat /\ \A k \in Heights : k >= 1 /\ k <= Len(chain)
  <2>1. Len(chain) \in Nat
    BY ChainSyncAssumption DEF TypeOK
  <2> QED
    BY <2>1 DEF TypeOK, Heights
<1>1. bloomFilter' = f
  BY DEF RelayedBlock
<1>2. CASE Incomplete(f)
  <2>1. /\ wallet' = w /\ peer' = p /\ toPeer' = toPeer \o out
        /\ UNCHANGED <<lastBlock, estimated, orphans, lastOrphan, late>>
    BY <1>2 DEF RelayedBlock
  <2>2. GetBlocks(<<>>) /\ toPeer' = (toPeer \o out) \o <<>>
    BY <1>0, <2>1 DEF GetBlocks
  <2> QED
    BY <1>0, <1>1, <2>1, <2>2 DEF RelayedWith
<1>3. CASE ~Incomplete(f) /\ h > lastBlock + 1
  <2> DEFINE x == IF AsksForParents(p, h) THEN <<Msg("getblocks", lastBlock)>> ELSE <<>>
  <2>1. /\ orphans' = {o \in orphans : o[1] # h} \cup {<<h, ts>>}
        /\ lastOrphan' = h /\ wallet' = w /\ peer' = p
        /\ toPeer' = (toPeer \o out) \o x
        /\ UNCHANGED <<lastBlock, estimated, late>>
    BY <1>3 DEF RelayedBlock
  <2>2. GetBlocks(x)
    BY <1>0 DEF GetBlocks
  <2> HIDE DEF x
  <2>3. orphans' \subseteq Heights \X (SUBSET Tx) /\ lastOrphan' \in 0 .. Len(chain)
    BY <1>0, <2>1
  <2> QED
    BY <1>0, <1>1, <2>1, <2>2, <2>3 DEF RelayedWith
<1>4. CASE ~Incomplete(f) /\ ~(h > lastBlock + 1)
  <2> DEFINE added == {o \in orphans : o[1] \in Joined(h)}
             top == CHOOSE k \in {h} \cup Joined(h) : \A j \in Joined(h) : k >= j
             u == UpdateTx(w, ts, h)
             v == [u EXCEPT !.height = [t \in Tx |->
                      IF t \in w.tx /\ \E o \in added : t \in o[2]
                      THEN (CHOOSE o \in added : t \in o[2])[1] ELSE @[t]]]
  <2>1. /\ wallet' = v /\ peer' = p /\ toPeer' = toPeer \o out
        /\ lastBlock' = Larger(lastBlock, top) /\ estimated' = Larger(estimated, top)
        /\ orphans' = orphans \ added /\ late' = late \cup Joined(h)
        /\ lastOrphan' = IF h <= lastBlock /\ lastOrphan = h THEN 0 ELSE lastOrphan
    BY <1>4, Zenon DEF RelayedBlock
  <2>2. Joined(h) \subseteq Heights
    BY <1>0 DEF Joined, Heights
  <2>3. top \in Heights
    <3> DEFINE K == {h} \cup Joined(h)
    <3>0. K \subseteq Heights /\ K # {}
      BY <2>2
    <3>1. K \in SUBSET (0 .. Len(chain)) /\ K # {}
      <4> HIDE DEF K
      <4>1. \A k \in Heights : k \in 0 .. Len(chain)
        <5> SUFFICES ASSUME NEW k \in Heights PROVE k \in 0 .. Len(chain)
          OBVIOUS
        <5>1. k \in Nat /\ k >= 1 /\ k <= Len(chain) /\ Len(chain) \in Nat
          BY <1>0
        <5> QED
          BY <5>1
      <4> QED
        BY <3>0, <4>1
    <3>2. \E k \in K : \A j \in K : k >= j
      <4> HIDE DEF K
      <4> QED
        BY <1>0, <3>1, LargestNumber
    <3>3. \E k \in {h} \cup Joined(h) : \A j \in Joined(h) : k >= j
      BY <3>2
    <3>4. top \in {h} \cup Joined(h)
      BY <3>3
    <3> QED
      BY <2>2, <3>4
  <2>4. u \in Wallets /\ u.tx = w.tx /\ u.addrs = w.addrs
    BY <1>0 DEF UpdateTx, Wallets
  <2>5. \A t \in Tx : (\E o \in added : t \in o[2]) => (CHOOSE o \in added : t \in o[2])[1] \in Nat
    <3>1. \A o \in added : o[1] \in Nat
      BY <1>0
    <3> HIDE DEF added
    <3> QED
      BY <3>1
  <2>6. v \in Wallets /\ v.tx = w.tx /\ v.addrs = w.addrs
    <3> HIDE DEF u, added
    <3> QED
      BY <2>4, <2>5 DEF Wallets
  <2>7. GetBlocks(<<>>) /\ toPeer' = (toPeer \o out) \o <<>>
    BY <1>0, <2>1 DEF GetBlocks
  <2> HIDE DEF top, v
  <2>8. lastBlock' \in 0 .. Len(chain) /\ estimated' \in 0 .. Len(chain)
    BY <1>0, <2>1, <2>3 DEF Larger
  <2>9. orphans' \subseteq Heights \X (SUBSET Tx) /\ lastOrphan' \in 0 .. Len(chain)
    BY <1>0, <2>1
  <2>10. late' \subseteq Heights
    BY <1>0, <2>1, <2>2
  <2> QED
    BY <1>1, <2>1, <2>6, <2>7, <2>8, <2>9, <2>10 DEF RelayedWith
<1> QED
  BY <1>2, <1>3, <1>4

\* With the rebuilding of a filter that has degraded.
DoneWith(w, f, p, out) ==
    \E q, more : /\ q \in Peers /\ q.on = p.on /\ Updates(p, q, more)
                 /\ RelayedWith(w, f, q, out \o more) /\ budget' \in [fault : Nat, degrade : Nat]
                 /\ p.needsUpdate => q.needsUpdate

LEMMA BlockDoneFacts ==
  ASSUME TypeOK, NEW w \in Wallets, NEW f, NEW p \in Peers, NEW out \in Seq(ToPeerMsg),
         NEW h \in Heights, NEW ts \in SUBSET Tx, NEW degraded \in BOOLEAN,
         BlockDone(w, f, p, out, h, ts, degraded)
  PROVE  DoneWith(w, f, p, out)
<1>0. budget \in [fault : Nat, degrade : Nat]
  BY DEF TypeOK
<1>1. CASE degraded
  <2> DEFINE u == UpdateFilter(p)
  <2>1. u.p \in Peers /\ u.p.on = p.on /\ u.p.needsUpdate /\ Updates(p, u.p, u.out)
        /\ u.out \in Seq(ToPeerMsg)
    BY UpdateFacts
  <2>2. Spend("degrade") /\ RelayedBlock(w, f, u.p, out \o u.out, h, ts)
    BY <1>1 DEF BlockDone
  <2> HIDE DEF u
  <2>3. budget' \in [fault : Nat, degrade : Nat]
    BY <1>0, <2>2 DEF Spend
  <2>4. out \o u.out \in Seq(ToPeerMsg)
    BY <2>1
  <2>5. RelayedWith(w, f, u.p, out \o u.out)
    BY <2>2, <2>4, RelayedBlockFacts
  <2> QED
    BY <2>1, <2>3, <2>5 DEF DoneWith
<1>2. CASE ~degraded
  <2>1. RelayedBlock(w, f, p, out, h, ts) /\ UNCHANGED budget
    BY <1>2 DEF BlockDone
  <2>2. RelayedWith(w, f, p, out) /\ out \o <<>> = out
    BY <2>1, RelayedBlockFacts
  <2>3. Updates(p, p, <<>>)
    BY DEF Updates
  <2> QED
    BY <1>0, <2>1, <2>2, <2>3 DEF DoneWith
<1> QED
  BY <1>1, <1>2

-----------------------------------------------------------------------------
(* The inductive invariant *)

\* The pongs tell how far the replacement of the filter has come; it is in use
\* again only when it has been sent, and then it fits the wallet.
FilterInv ==
    /\ Flow(peer.pongs, fromPeer, toPeer)
    /\ Fits(wallet, bloomFilter)
    /\ peer.needsUpdate <=> peer.pongs \notin Idle
    /\ peer.on /\ bloomFilter # NoFilter => SentIs(bloomFilter.addrs, toPeer, peerFilter)
    /\ peer.on /\ bloomFilter = NoFilter => peer.pongs \in Asking

\* The types do not change with the chain, which stays.
LEMMA SameTypes ==
  ASSUME chain' = chain
  PROVE  /\ Heights' = Heights /\ ToPeerMsg' = ToPeerMsg
         /\ FromPeerMsg' = FromPeerMsg /\ Peers' = Peers
  BY DEF Heights, ToPeerMsg, FromPeerMsg, Peers

\* The shapes of the queue of callbacks are different.
LEMMA Shapes ==
  /\ \A p, f, t : Flow(p, f, t) => p \in Idle \/ p \in Asking \/ p = <<"load">>
  /\ \A p \in Asking : p \notin Idle /\ p # <<"load">>
  /\ <<"load">> \notin Idle
<1>1. /\ <<>> # <<"update">> /\ <<>> # <<"load">> /\ <<>> # <<"rerequest", "update">>
      /\ <<"rerequest">> # <<"update">> /\ <<"rerequest">> # <<"load">>
      /\ <<"rerequest">> # <<"rerequest", "update">> /\ <<"load">> # <<"update">>
      /\ <<"load">> # <<"rerequest", "update">>
  OBVIOUS
<1>2. \A p, f, t : Flow(p, f, t) => p \in Idle \/ p \in Asking \/ p = <<"load">>
  BY Zenon DEF Flow, Idle, Asking
<1>3. \A p \in Asking : p \notin Idle /\ p # <<"load">>
  BY <1>1, Zenon DEF Idle, Asking
<1>4. <<"load">> \notin Idle
  BY <1>1, Zenon DEF Idle
<1> QED
  BY <1>2, <1>3, <1>4

\* What is relayed by the peer keeps the invariant: an update may begin, blocks be
\* asked for, and the filter be dropped, as long as it is not the one being loaded.
LEMMA TalkKeeps ==
  ASSUME TypeOK, FilterInv, peer.on, chain' = chain,
         fromPeer' \in Seq(FromPeerMsg), Flow(peer.pongs, fromPeer', toPeer),
         peer'.on, NEW out, Updates(peer, peer', out),
         NEW x, GetBlocks(x), toPeer' = (toPeer \o out) \o x,
         peerFilter' = peerFilter, Fits(wallet', bloomFilter'),
         \/ bloomFilter' = bloomFilter
         \/ bloomFilter' = NoFilter /\ peer.pongs # <<"load">> /\ peer'.needsUpdate
  PROVE  FilterInv' /\ toPeer' \in Seq(ToPeerMsg)
<1> DEFINE ping == <<Msg("ping", 0)>>
<1>0. /\ toPeer \in Seq(ToPeerMsg) /\ x \in Seq(ToPeerMsg)
      /\ NoPing(x) /\ NoWork(x) /\ NoLoad(x)
  BY GetBlocksFacts DEF TypeOK
<1>1. Msg("ping", 0) \in ToPeerMsg /\ IsPing(Msg("ping", 0)) /\ NoLoad(ping)
  <2>1. Msg("ping", 0) \in ToPeerMsg /\ Msg("ping", 0).type = "ping"
    BY DEF Msg, ToPeerMsg
  <2> QED
    BY <2>1 DEF IsPing, NoLoad
<1> DEFINE sent == toPeer \o out
<1>2. /\ out = <<>> \/ out = ping
      /\ sent \in Seq(ToPeerMsg) /\ NoLoad(out) /\ out \in Seq(ToPeerMsg)
  <2>1. out = <<>> \/ out = ping
    BY DEF Updates
  <2>2. ping \in Seq(ToPeerMsg) /\ NoLoad(<<>>) /\ <<>> \in Seq(ToPeerMsg)
    BY <1>1 DEF NoLoad
  <2> HIDE DEF ping
  <2>3. NoLoad(out) /\ out \in Seq(ToPeerMsg)
    BY <1>1, <2>1, <2>2
  <2>4. sent \in Seq(ToPeerMsg)
    BY <1>0, <2>3
  <2> QED
    BY <2>1, <2>3, <2>4
<1>3. peer.pongs \in Idle \/ peer.pongs \in Asking \/ peer.pongs = <<"load">>
  BY Shapes
<1>4. Flow(peer'.pongs, fromPeer', sent) /\ (peer'.needsUpdate <=> peer'.pongs \notin Idle)
      /\ (peer'.pongs = peer.pongs \/ peer'.pongs \in Asking)
  <2>1. CASE peer'.pongs = peer.pongs /\ peer'.needsUpdate = peer.needsUpdate /\ out = <<>>
    <3>1. sent = toPeer
      BY <1>0, <2>1
    <3> QED
      BY <2>1, <3>1 DEF FilterInv
  <2>2. CASE /\ ~peer.needsUpdate /\ peer'.needsUpdate
             /\ peer'.pongs = Append(peer.pongs, "update") /\ out = ping
    <3>1. peer.pongs \in Idle
      BY <2>2 DEF FilterInv
    <3>2. Flow(Append(peer.pongs, "update"), fromPeer', sent)
      BY <1>0, <1>1, <2>2, <3>1, FlowPing
    <3>3. Append(peer.pongs, "update") \in Asking
      <4>1. Append(<<>>, "update") = <<"update">>
        OBVIOUS
      <4>2. Append(<<"rerequest">>, "update") = <<"rerequest", "update">>
        <5> DEFINE S2 == {"rerequest", "update"}
        <5>1. "rerequest" \in S2 /\ "update" \in S2
          OBVIOUS
        <5> HIDE DEF S2
        <5> QED
          BY <5>1, AppendTwo
      <4> QED
        BY <3>1, <4>1, <4>2 DEF Idle, Asking
    <3> QED
      BY <2>2, <3>2, <3>3, Shapes
  <2> QED
    BY <2>1, <2>2 DEF Updates
<1> HIDE DEF sent
<1>5. Flow(peer'.pongs, fromPeer', toPeer')
  BY <1>0, <1>2, <1>4, FlowPlain DEF sent
<1>6. bloomFilter' # NoFilter => SentIs(bloomFilter'.addrs, toPeer', peerFilter')
  <2> SUFFICES ASSUME bloomFilter' # NoFilter PROVE SentIs(bloomFilter.addrs, toPeer', peerFilter)
    OBVIOUS
  <2>1. SentIs(bloomFilter.addrs, toPeer, peerFilter)
    BY DEF FilterInv
  <2>2. SentIs(bloomFilter.addrs, sent, peerFilter)
    BY <1>0, <1>2, <2>1, SentBefore DEF sent
  <2> QED
    BY <1>0, <1>2, <2>2, SentBefore DEF sent
<1>7. bloomFilter' = NoFilter => peer'.pongs \in Asking
  <2>1. CASE bloomFilter' = bloomFilter
    BY <1>4, <2>1 DEF FilterInv
  <2>2. CASE peer.pongs # <<"load">> /\ peer'.needsUpdate
    BY <1>3, <1>4, <2>2, Shapes
  <2> QED
    BY <2>1, <2>2
<1>8. toPeer' \in Seq(ToPeerMsg)
  BY <1>0, <1>2 DEF sent
<1> QED
  BY <1>4, <1>5, <1>6, <1>7, <1>8 DEF FilterInv

-----------------------------------------------------------------------------
(* Steps of the peer and of the network *)

LEMMA InitFilter == Init => TypeOK /\ FilterInv
<1> SUFFICES ASSUME Init PROVE TypeOK /\ FilterInv
  OBVIOUS
<1>1. chain \in Chains /\ chain \in Seq(Seq(Tx)) /\ Len(chain) \in Nat /\ tip \in Heights
  BY ChainSyncAssumption DEF Init, Heights
<1>2. /\ wallet = [tx |-> {}, height |-> [t \in Tx |-> 0], addrs |-> Gap]
      /\ lastBlock = 0 /\ estimated = 0 /\ orphans = {} /\ lastOrphan = 0
      /\ bloomFilter = NoFilter /\ peer = NoPeer /\ toPeer = <<>> /\ fromPeer = <<>>
      /\ peerFilter = NoFilter /\ late = {} /\ budget = [fault |-> MaxFaults, degrade |-> MaxDegraded]
  BY DEF Init
<1>3. wallet \in Wallets /\ HasUsed(wallet)
  BY <1>2, ChainSyncAssumption DEF Wallets, HasUsed
<1>4. NoFilter \in Filter
  BY DEF NoFilter, Filter
<1>5. peer \in Peers
  BY <1>1, <1>2 DEF NoPeer, Peers
<1>6. budget \in [fault : Nat, degrade : Nat]
  BY <1>2, ChainSyncAssumption
<1>7. TypeOK
  BY <1>1, <1>2, <1>3, <1>4, <1>5, <1>6 DEF TypeOK
<1>8. peer.pongs = <<>> /\ ~peer.on /\ ~peer.needsUpdate
  BY <1>2 DEF NoPeer
<1>9. Flow(peer.pongs, fromPeer, toPeer)
  BY <1>2, <1>8, Single DEF Flow, Zero
<1>10. FilterInv
  BY <1>2, <1>8, <1>9 DEF FilterInv, Fits, Idle
<1> QED
  BY <1>7, <1>10

\* Transactions that match are transactions of the block.
LEMMA SiftType ==
  ASSUME NEW f, NEW ts \in Seq(Tx)
  PROVE  Sift(f, ts) \in Seq(Tx)
<1> DEFINE s == [i \in DOMAIN ts |->
                  IF Matches(Learn(f, {ts[j] : j \in 1 .. i - 1}), ts[i]) THEN <<ts[i]>> ELSE <<>>]
<1>1. DOMAIN ts = 1 .. Len(ts) /\ Len(ts) \in Nat /\ \A i \in DOMAIN ts : ts[i] \in Tx
  OBVIOUS
<1>2. s \in Seq(Seq(Tx))
  <2>1. \A i \in 1 .. Len(ts) : s[i] \in Seq(Tx)
    BY <1>1
  <2>2. s = [i \in 1 .. Len(ts) |-> s[i]]
    BY <1>1
  <2> HIDE DEF s
  <2> QED
    BY <1>1, <2>1, <2>2
<1> HIDE DEF s
<1>3. FlattenSeq(s) \in Seq(Tx)
  BY <1>2, FlattenType
<1> QED
  BY <1>3 DEF Sift, s

\* The answer to getdata is blocks and transactions.
BlockMsg == {m \in FromPeerMsg : m.type \in {"merkleblock", "tx"}}

LEMMA BlocksType ==
  ASSUME TypeOK, NEW hs \in Seq(Heights)
  PROVE  /\ Blocks(hs) \in Seq(FromPeerMsg) /\ NoPing(Blocks(hs))
         /\ TxOf(hs) \subseteq Tx
<1>1. /\ chain \in Seq(Seq(Tx)) /\ DOMAIN hs = 1 .. Len(hs) /\ Len(hs) \in Nat
      /\ \A i \in DOMAIN hs : hs[i] \in Heights /\ chain[hs[i]] \in Seq(Tx)
  <2>1. chain \in Seq(Seq(Tx))
    BY ChainSyncAssumption DEF TypeOK
  <2>2. DOMAIN hs = 1 .. Len(hs) /\ Len(hs) \in Nat /\ \A i \in DOMAIN hs : hs[i] \in Heights
    OBVIOUS
  <2>3. \A h \in Heights : chain[h] \in Seq(Tx)
    BY <2>1 DEF Heights
  <2> QED
    BY <2>1, <2>2, <2>3
<1> DEFINE ts(i) == Sift(Learn(peerFilter, TxOf(SubSeq(hs, 1, i - 1))), chain[hs[i]])
           part(i) == <<Msg("merkleblock", <<hs[i], ToSet(ts(i))>>)>>
                      \o [j \in DOMAIN ts(i) |-> Msg("tx", ts(i)[j])]
           s == [i \in DOMAIN hs |-> part(i)]
<1>2. ASSUME NEW i \in DOMAIN hs PROVE part(i) \in Seq(BlockMsg)
  <2>1. ts(i) \in Seq(Tx)
    BY <1>1, SiftType
  <2> DEFINE q == ts(i)
  <2> HIDE DEF q
  <2>2. /\ q \in Seq(Tx) /\ DOMAIN q = 1 .. Len(q) /\ Len(q) \in Nat /\ ToSet(q) \subseteq Tx
        /\ \A j \in DOMAIN q : q[j] \in Tx
    BY <2>1 DEF q, ToSet
  <2>3. Msg("merkleblock", <<hs[i], ToSet(q)>>) \in BlockMsg
    <3>1. <<hs[i], ToSet(q)>> \in Heights \X (SUBSET Tx)
      BY <1>1, <2>2
    <3> DEFINE v == <<hs[i], ToSet(q)>>
    <3> HIDE DEF v
    <3>2. Msg("merkleblock", v) \in BlockMsg
      BY <3>1 DEF Msg, BlockMsg, FromPeerMsg, v
    <3> QED
      BY <3>2 DEF v
  <2>4. \A j \in DOMAIN q : Msg("tx", q[j]) \in BlockMsg
    BY <2>2 DEF Msg, BlockMsg, FromPeerMsg
  <2> DEFINE r == [j \in DOMAIN q |-> Msg("tx", q[j])]
             m == Msg("merkleblock", <<hs[i], ToSet(q)>>)
  <2>5. r \in Seq(BlockMsg)
    <3>1. \A j \in 1 .. Len(q) : r[j] \in BlockMsg
      BY <2>2, <2>4
    <3>2. r = [j \in 1 .. Len(q) |-> r[j]]
      BY <2>2
    <3> HIDE DEF r
    <3> QED
      BY <2>2, <3>1, <3>2
  <2> HIDE DEF r, m
  <2>6. <<m>> \o r \in Seq(BlockMsg)
    BY <2>3, <2>5 DEF m
  <2> QED
    BY <2>6 DEF r, m, q
<1> HIDE DEF part
<1>3. s \in Seq(Seq(BlockMsg))
  <2>1. \A i \in 1 .. Len(hs) : s[i] \in Seq(BlockMsg)
    BY <1>1, <1>2
  <2>2. s = [i \in 1 .. Len(hs) |-> s[i]]
    BY <1>1
  <2> HIDE DEF s
  <2> QED
    BY <1>1, <2>1, <2>2
<1> HIDE DEF s
<1>4. FlattenSeq(s) \in Seq(BlockMsg)
  BY <1>3, FlattenType
<1>5. Blocks(hs) \in Seq(BlockMsg)
  BY <1>4 DEF Blocks, s, part
<1>6. \A i \in DOMAIN Blocks(hs) : Blocks(hs)[i] \in BlockMsg
  BY <1>5
<1>7. NoPing(Blocks(hs))
  BY <1>6 DEF NoPing, IsPing, BlockMsg
<1>8. BlockMsg \subseteq FromPeerMsg
  BY DEF BlockMsg
<1>9. Blocks(hs) \in Seq(FromPeerMsg)
  BY <1>5, <1>8
<1>10. TxOf(hs) \subseteq Tx
  <2>1. \A i \in DOMAIN hs : ToSet(chain[hs[i]]) \subseteq Tx
    BY <1>1 DEF ToSet
  <2> QED
    BY <2>1 DEF TxOf
<1> QED
  BY <1>7, <1>9, <1>10

LEMMA ServeKeeps ==
  ASSUME TypeOK, FilterInv, Serve
  PROVE  TypeOK' /\ FilterInv'
<1> DEFINE m == Head(toPeer)
<1>0. /\ toPeer \in Seq(ToPeerMsg) /\ toPeer # <<>> /\ fromPeer \in Seq(FromPeerMsg)
      /\ peerFilter \in Filter /\ Len(chain) \in Nat /\ tip \in Heights /\ peer.on
      /\ toPeer' = Tail(toPeer)
      /\ UNCHANGED <<chain, tip, wallet, lastBlock, estimated, orphans, lastOrphan, bloomFilter,
                     peer, late, budget>>
  <2>1. Len(chain) \in Nat
    BY ChainSyncAssumption DEF TypeOK
  <2> QED
    BY <2>1 DEF TypeOK, Serve
<1>1. m \in ToPeerMsg /\ toPeer' \in Seq(ToPeerMsg)
  BY <1>0
<1>2. \E x \in Seq(FromPeerMsg) :
         /\ fromPeer' = fromPeer \o x
         /\ \/ IsPing(m) /\ \E p : x = <<p>> /\ IsPing(p)
            \/ ~IsPing(m) /\ NoPing(x) /\ (IsWork(m) \/ NoWork(x))
         /\ peerFilter' \in Filter
         /\ \/ m.type = "filterload" /\ peerFilter' = m.arg
            \/ m.type # "filterload" /\ peerFilter'.addrs = peerFilter.addrs
  <2> HIDE DEF m
  <2>0. fromPeer \o <<>> = fromPeer /\ NoPing(<<>>) /\ NoWork(<<>>) /\ <<>> \in Seq(FromPeerMsg)
    <3>1. NoPing(<<>>) /\ NoWork(<<>>)
      BY Single
    <3>2. fromPeer \o <<>> = fromPeer /\ <<>> \in Seq(FromPeerMsg)
      BY <1>0
    <3> QED
      BY <3>1, <3>2
  <2>1. CASE m.type = "filterload" /\ peerFilter' = m.arg /\ UNCHANGED fromPeer
    <3>1. m.arg \in Filter
      BY <1>1, <2>1 DEF ToPeerMsg
    <3>2. ~IsPing(m)
      BY <2>1 DEF IsPing
    <3> QED
      BY <2>0, <2>1, <3>1, <3>2
  <2>2. CASE /\ m.type = "getblocks"
             /\ LET upTo == IF m.arg + Batch < tip THEN m.arg + Batch ELSE tip
                IN fromPeer' = IF m.arg < tip
                               THEN Append(fromPeer, Inv(Range1(m.arg + 1, upTo))) ELSE fromPeer
             /\ UNCHANGED peerFilter
    <3> DEFINE upTo == IF m.arg + Batch < tip THEN m.arg + Batch ELSE tip
               hs == Range1(m.arg + 1, upTo)
    <3>1. m.arg \in 0 .. Len(chain) /\ Batch \in Nat \ {0} /\ ~IsPing(m) /\ m.type # "filterload"
      BY <1>1, <2>2, ChainSyncAssumption DEF ToPeerMsg, IsPing
    <3>2. CASE m.arg < tip
      <4>0. tip \in Nat /\ tip <= Len(chain) /\ m.arg \in Nat
        BY <1>0, <3>1 DEF Heights
      <4>1. upTo \in Nat /\ m.arg + 1 <= upTo /\ upTo <= Len(chain)
        BY <1>0, <3>1, <3>2, <4>0
      <4> HIDE DEF upTo
      <4>2. hs \in Seq(Heights)
        <5>1. upTo - (m.arg + 1) + 1 \in Nat
          BY <4>0, <4>1
        <5>2. \A i \in 1 .. upTo - (m.arg + 1) + 1 : (m.arg + 1) + i - 1 \in 1 .. Len(chain)
          <6> SUFFICES ASSUME NEW i \in 1 .. upTo - (m.arg + 1) + 1
                       PROVE  (m.arg + 1) + i - 1 \in 1 .. Len(chain)
            OBVIOUS
          <6>1. m.arg \in Nat /\ Len(chain) \in Nat /\ i \in Nat /\ i >= 1 /\ i <= upTo - m.arg
            BY <1>0, <4>0, <4>1, <5>1
          <6> HIDE DEF m
          <6> QED
            BY <4>1, <6>1
        <5> QED
          BY <5>1, <5>2 DEF Range1, Heights
      <4> HIDE DEF hs
      <4>3. Inv(hs) \in FromPeerMsg /\ ~IsPing(Inv(hs)) /\ ~IsWork(Inv(hs))
        BY <4>2 DEF Inv, Msg, FromPeerMsg, IsPing, IsWork
      <4>4. fromPeer' = fromPeer \o <<Inv(hs)>>
        BY <1>0, <2>2, <3>2, <4>3 DEF hs, upTo
      <4>5. <<Inv(hs)>> \in Seq(FromPeerMsg) /\ NoPing(<<Inv(hs)>>) /\ NoWork(<<Inv(hs)>>)
        BY <4>3, Single
      <4> QED
        BY <1>0, <2>2, <3>1, <4>4, <4>5
    <3>3. CASE ~(m.arg < tip)
      <4>1. fromPeer' = fromPeer
        BY <2>2, <3>3
      <4> QED
        BY <1>0, <2>0, <2>2, <3>1, <4>1
    <3> QED
      BY <3>2, <3>3
  <2>3. CASE /\ m.type = "getdata" /\ fromPeer' = fromPeer \o Blocks(m.arg)
             /\ peerFilter' = Learn(peerFilter, TxOf(m.arg))
    <3>1. m.arg \in Seq(Heights) /\ ~IsPing(m) /\ IsWork(m) /\ m.type # "filterload"
      BY <1>1, <2>3 DEF ToPeerMsg, IsPing, IsWork
    <3>2. Blocks(m.arg) \in Seq(FromPeerMsg) /\ NoPing(Blocks(m.arg)) /\ TxOf(m.arg) \subseteq Tx
      BY <3>1, BlocksType
    <3>3. peerFilter' \in Filter /\ peerFilter'.addrs = peerFilter.addrs
      BY <1>0, <2>3, <3>2 DEF Learn, Filter
    <3> QED
      BY <2>3, <3>1, <3>2, <3>3
  <2>4. CASE m.type = "ping" /\ fromPeer' = Append(fromPeer, Msg("pong", 0)) /\ UNCHANGED peerFilter
    <3>1. Msg("pong", 0) \in FromPeerMsg /\ IsPing(Msg("pong", 0))
      BY DEF Msg, FromPeerMsg, IsPing
    <3>2. fromPeer' = fromPeer \o <<Msg("pong", 0)>> /\ <<Msg("pong", 0)>> \in Seq(FromPeerMsg)
      <4> DEFINE p == Msg("pong", 0)
      <4> HIDE DEF p
      <4>1. p \in FromPeerMsg
        BY <3>1 DEF p
      <4>2. Append(fromPeer, p) = fromPeer \o <<p>> /\ <<p>> \in Seq(FromPeerMsg)
        BY <1>0, <4>1
      <4> QED
        BY <2>4, <4>2 DEF p
    <3>3. IsPing(m) /\ m.type # "filterload"
      BY <2>4 DEF IsPing
    <3> QED
      BY <1>0, <2>4, <3>1, <3>2, <3>3
  <2> QED
    BY <2>1, <2>2, <2>3, <2>4 DEF Serve, m
<1>3. PICK x \in Seq(FromPeerMsg) :
         /\ fromPeer' = fromPeer \o x
         /\ \/ IsPing(m) /\ \E p : x = <<p>> /\ IsPing(p)
            \/ ~IsPing(m) /\ NoPing(x) /\ (IsWork(m) \/ NoWork(x))
         /\ peerFilter' \in Filter
         /\ \/ m.type = "filterload" /\ peerFilter' = m.arg
            \/ m.type # "filterload" /\ peerFilter'.addrs = peerFilter.addrs
  BY <1>2
<1>4. Flow(peer.pongs, fromPeer', toPeer')
  <2>1. Flow(peer.pongs, fromPeer, toPeer)
    BY DEF FilterInv
  <2>2. Flow(peer.pongs, fromPeer \o x, Tail(toPeer))
    BY <1>0, <1>3, <2>1, FlowServe
  <2> QED
    BY <1>0, <1>3, <2>2
<1>5. bloomFilter # NoFilter => SentIs(bloomFilter.addrs, toPeer', peerFilter')
  <2> SUFFICES ASSUME bloomFilter # NoFilter PROVE SentIs(bloomFilter.addrs, Tail(toPeer), peerFilter')
    BY <1>0
  <2>1. SentIs(bloomFilter.addrs, toPeer, peerFilter)
    BY <1>0 DEF FilterInv
  <2> QED
    BY <1>0, <1>3, <2>1, SentServe
<1>6. fromPeer' \in Seq(FromPeerMsg)
  BY <1>0, <1>3
<1>7. TypeOK'
  BY <1>0, <1>1, <1>3, <1>6, SameTypes DEF TypeOK, HasUsed
<1> QED
  BY <1>0, <1>4, <1>5, <1>7 DEF FilterInv, Fits, Used

\* The peer tells of a block or a transaction.
LEMMA NewsKeeps ==
  ASSUME TypeOK, FilterInv, NEW m \in FromPeerMsg, m.type \in {"inv", "mempool"},
         fromPeer' = Append(fromPeer, m), tip' \in Heights, peerFilter' \in Filter,
         peerFilter'.addrs = peerFilter.addrs,
         UNCHANGED <<chain, wallet, lastBlock, estimated, orphans, lastOrphan, bloomFilter, peer,
                     toPeer, late, budget>>
  PROVE  TypeOK' /\ FilterInv'
<1>0. /\ toPeer \in Seq(ToPeerMsg) /\ fromPeer \in Seq(FromPeerMsg)
      /\ fromPeer' = fromPeer \o <<m>> /\ <<m>> \in Seq(FromPeerMsg)
      /\ NoPing(<<m>>) /\ NoWork(<<m>>)
  <2>1. fromPeer \in Seq(FromPeerMsg) /\ toPeer \in Seq(ToPeerMsg)
    BY DEF TypeOK
  <2>2. ~IsPing(m) /\ ~IsWork(m)
    BY DEF IsPing, IsWork
  <2> QED
    BY <2>1, <2>2, Single
<1>1. Flow(peer.pongs, fromPeer', toPeer)
  <2>1. Flow(peer.pongs, fromPeer, toPeer)
    BY DEF FilterInv
  <2> DEFINE S == FromPeerMsg \cup ToPeerMsg
  <2>2. toPeer \in Seq(S) /\ fromPeer \in Seq(S) /\ <<m>> \in Seq(S)
    BY <1>0
  <2> HIDE DEF S
  <2>3. Flow(peer.pongs, fromPeer \o <<m>>, toPeer)
    BY <1>0, <2>1, <2>2, FlowPlain
  <2> QED
    BY <1>0, <2>3
<1>2. peer.on /\ bloomFilter # NoFilter => SentIs(bloomFilter.addrs, toPeer, peerFilter')
  BY DEF FilterInv, SentIs
<1>3. TypeOK'
  <2>1. fromPeer' \in Seq(FromPeerMsg)
    BY <1>0
  <2> QED
    BY <2>1, SameTypes DEF TypeOK, HasUsed
<1> QED
  BY <1>1, <1>2, <1>3 DEF FilterInv, Fits, Used

LEMMA MineKeeps ==
  ASSUME TypeOK, FilterInv, Mine
  PROVE  TypeOK' /\ FilterInv'
<1>0. /\ tip \in Nat /\ Len(chain) \in Nat /\ tip < Len(chain) /\ tip' = tip + 1 /\ tip' \in Heights
  <2>1. Len(chain) \in Nat
    BY ChainSyncAssumption DEF TypeOK
  <2> QED
    BY <2>1 DEF TypeOK, Heights, Mine
<1>1. CASE peer.on
  <2> DEFINE m == Inv(<<tip'>>)
  <2>1. m \in FromPeerMsg /\ m.type \in {"inv", "mempool"}
    BY <1>0 DEF Inv, Msg, FromPeerMsg
  <2>2. /\ fromPeer' = Append(fromPeer, m) /\ peerFilter' = peerFilter
        /\ UNCHANGED <<chain, wallet, lastBlock, estimated, orphans, lastOrphan, bloomFilter, peer,
                       toPeer, late, budget>>
    BY <1>1 DEF Mine
  <2> HIDE DEF m
  <2>3. peerFilter' \in Filter
    BY <2>2 DEF TypeOK
  <2> QED
    BY <1>0, <2>1, <2>2, <2>3, NewsKeeps
<1>2. CASE ~peer.on
  <2>1. UNCHANGED <<chain, wallet, lastBlock, estimated, orphans, lastOrphan, bloomFilter, peer,
                    toPeer, fromPeer, peerFilter, late, budget>>
    BY <1>2 DEF Mine
  <2> QED
    BY <1>0, <2>1, SameTypes DEF TypeOK, HasUsed, FilterInv, Fits, Used
<1> QED
  BY <1>1, <1>2

LEMMA AnnounceKeeps ==
  ASSUME TypeOK, FilterInv, NEW t \in Announced, Announce(t)
  PROVE  TypeOK' /\ FilterInv'
<1> DEFINE m == Msg("mempool", t)
<1>1. m \in FromPeerMsg /\ m.type \in {"inv", "mempool"}
  BY DEF Msg, FromPeerMsg
<1>2. /\ fromPeer' = Append(fromPeer, m) /\ peerFilter' = Learn(peerFilter, {t})
      /\ UNCHANGED <<chain, tip, wallet, lastBlock, estimated, orphans, lastOrphan, bloomFilter, peer,
                     toPeer, late, budget>>
  BY DEF Announce
<1> HIDE DEF m
<1>3. peerFilter' \in Filter /\ peerFilter'.addrs = peerFilter.addrs
  BY <1>2, ChainSyncAssumption DEF TypeOK, Learn, Filter
<1>4. tip' \in Heights
  BY <1>2 DEF TypeOK
<1> QED
  BY <1>1, <1>2, <1>3, <1>4, NewsKeeps

-----------------------------------------------------------------------------
(* The connection *)

LEMMA LostKeeps ==
  ASSUME TypeOK, FilterInv, Lost, budget' \in [fault : Nat, degrade : Nat]
  PROVE  TypeOK' /\ FilterInv'
<1>0. /\ peer' = NoPeer /\ toPeer' = <<>> /\ fromPeer' = <<>> /\ peerFilter' = NoFilter
      /\ UNCHANGED <<chain, tip, wallet, lastBlock, estimated, orphans, lastOrphan, bloomFilter, late>>
  BY DEF Lost
<1>1. peer'.pongs = <<>> /\ ~peer'.on /\ ~peer'.needsUpdate
  BY <1>0 DEF NoPeer
<1>2. Len(chain) \in Nat
  BY ChainSyncAssumption DEF TypeOK
<1>3. peer' \in Peers /\ peerFilter' \in Filter
  BY <1>0, <1>2 DEF NoPeer, Peers, NoFilter, Filter
<1>4. fromPeer' \in Seq(FromPeerMsg) /\ toPeer' \in Seq(ToPeerMsg)
  BY <1>0
<1>5. TypeOK'
  BY <1>0, <1>3, <1>4, SameTypes DEF TypeOK, HasUsed
<1>6. Flow(peer'.pongs, fromPeer', toPeer')
  BY <1>0, <1>1, Single DEF Flow, Zero
<1>7. Fits(wallet', bloomFilter')
  BY <1>0 DEF FilterInv, Fits, Used
<1> QED
  BY <1>1, <1>5, <1>6, <1>7 DEF FilterInv, Idle

LEMMA FailedKeeps ==
  ASSUME TypeOK, FilterInv, Failed
  PROVE  TypeOK' /\ FilterInv'
<1>1. Lost /\ budget' \in [fault : Nat, degrade : Nat]
  BY DEF TypeOK, Failed, Spend
<1> QED
  BY <1>1, LostKeeps

LEMMA TimedOutKeeps ==
  ASSUME TypeOK, FilterInv, TimedOut
  PROVE  TypeOK' /\ FilterInv'
<1>1. Lost /\ budget' \in [fault : Nat, degrade : Nat]
  BY DEF TypeOK, TimedOut
<1> QED
  BY <1>1, LostKeeps

\* The filter is the first that the peer reads.
LEMMA ConnectKeeps ==
  ASSUME TypeOK, FilterInv, Connect
  PROVE  TypeOK' /\ FilterInv'
<1> DEFINE m == Msg("filterload", bloomFilter')
           x == IF lastBlock < tip THEN <<Msg("getblocks", lastBlock)>> ELSE <<>>
<1>0. /\ peer' = [NoPeer EXCEPT !.on = TRUE, !.last = tip]
      /\ estimated' = tip /\ toPeer' = <<m>> \o x
      /\ fromPeer' = <<>> /\ peerFilter' = NoFilter
      /\ UNCHANGED <<chain, tip, lastBlock, late, budget>> /\ LoadBloomFilter
  BY DEF Connect
<1>1. /\ wallet' \in Wallets /\ HasUsed(wallet') /\ bloomFilter' \in Filter
      /\ bloomFilter' # NoFilter /\ Fits(wallet', bloomFilter')
      /\ orphans' = {} /\ lastOrphan' = 0
  BY <1>0, LoadFacts DEF TypeOK
<1>2. /\ m \in ToPeerMsg /\ m.type = "filterload" /\ m.arg = bloomFilter'
      /\ ~IsPing(m) /\ ~IsWork(m)
  BY <1>1 DEF Msg, ToPeerMsg, IsPing, IsWork
<1>3. x \in Seq(ToPeerMsg) /\ NoPing(x) /\ NoWork(x) /\ NoLoad(x)
  <2>1. GetBlocks(x)
    BY DEF GetBlocks, TypeOK
  <2> QED
    BY <2>1, GetBlocksFacts
<1> HIDE DEF m, x
<1>4. /\ <<m>> \in Seq(ToPeerMsg) /\ <<>> \o <<m>> = <<m>> /\ <<>> \in Seq(ToPeerMsg)
  BY <1>2
<1>5. toPeer' \in Seq(ToPeerMsg)
  BY <1>0, <1>3, <1>4
<1>6. Len(chain) \in Nat /\ tip \in 0 .. Len(chain)
  <2>1. Len(chain) \in Nat
    BY ChainSyncAssumption DEF TypeOK
  <2> QED
    BY <2>1 DEF TypeOK, Heights
<1>7. peer' \in Peers /\ peer'.pongs = <<>> /\ ~peer'.needsUpdate
  <2>1. NoPeer \in Peers /\ NoPeer.pongs = <<>> /\ ~NoPeer.needsUpdate
    BY <1>6 DEF NoPeer, Peers
  <2> QED
    BY <1>0, <1>6, <2>1 DEF Peers
<1>8. peerFilter' \in Filter /\ fromPeer' \in Seq(FromPeerMsg)
  BY <1>0 DEF Filter, NoFilter
<1>9. TypeOK'
  BY <1>0, <1>1, <1>5, <1>6, <1>7, <1>8, SameTypes DEF TypeOK
<1>10. NoPing(toPeer')
  <2>1. NoPing(<<m>>)
    BY <1>2, Single
  <2> QED
    BY <1>0, <1>3, <1>4, <2>1, Together
<1>11. Flow(peer'.pongs, fromPeer', toPeer')
  BY <1>0, <1>7, <1>10, Single DEF Flow, Zero
<1>12. SentIs(bloomFilter'.addrs, toPeer', peerFilter')
  <2>1. SentIs(m.arg.addrs, <<>> \o <<m>>, peerFilter')
    BY <1>2, <1>4, SentNow
  <2>2. SentIs(m.arg.addrs, <<m>>, peerFilter')
    BY <1>4, <2>1
  <2>3. SentIs(m.arg.addrs, <<m>> \o x, peerFilter')
    BY <1>3, <1>4, <2>2, SentBefore
  <2> QED
    BY <1>0, <1>2, <2>3
<1> QED
  BY <1>1, <1>7, <1>9, <1>11, <1>12 DEF FilterInv, Idle

-----------------------------------------------------------------------------
(* Messages from the peer *)

\* An inv asks for blocks, but not while the filter is being replaced.
LEMMA AcceptInvKeeps ==
  ASSUME TypeOK, FilterInv, AcceptInv
  PROVE  TypeOK' /\ FilterInv'
<1> DEFINE hs == Head(fromPeer).arg
           new == IF Len(hs) = 1 /\ hs[1] = peer.lastHash THEN <<>> ELSE hs
           ask == IF peer.needsUpdate THEN <<>> ELSE new
           x == IF ask # <<>> THEN <<Msg("getdata", ask)>> ELSE <<>>
           y == IF Len(ask) >= Batch THEN <<Msg("getblocks", Last(ask))>> ELSE <<>>
<1>0. /\ peer.on /\ fromPeer # <<>> /\ Head(fromPeer).type = "inv" /\ fromPeer' = Tail(fromPeer)
      /\ peer' = [peer EXCEPT !.knownBlocks = @ \o new, !.lastHash = IF Len(new) = 1 THEN new[1] ELSE @]
      /\ toPeer' = (toPeer \o x) \o y
      /\ UNCHANGED <<chain, tip, wallet, lastBlock, estimated, orphans, lastOrphan, bloomFilter,
                     peerFilter, late, budget>>
  BY DEF AcceptInv, Receive
<1>1. /\ fromPeer \in Seq(FromPeerMsg) /\ toPeer \in Seq(ToPeerMsg) /\ peer \in Peers
      /\ Head(fromPeer) \in FromPeerMsg /\ fromPeer' \in Seq(FromPeerMsg)
  <2>1. fromPeer \in Seq(FromPeerMsg) /\ toPeer \in Seq(ToPeerMsg) /\ peer \in Peers
    BY DEF TypeOK
  <2>2. fromPeer # <<>> /\ fromPeer' = Tail(fromPeer)
    BY <1>0
  <2> QED
    BY <2>1, <2>2
<1>2. hs \in Seq(Heights) /\ ~IsPing(Head(fromPeer)) /\ Heights \subseteq 0 .. Len(chain)
  <2>1. Len(chain) \in Nat
    BY ChainSyncAssumption DEF TypeOK
  <2>2. Head(fromPeer).type = "inv" /\ Head(fromPeer) \in FromPeerMsg
    BY <1>0, <1>1
  <2>3. hs \in Seq(Heights) /\ ~IsPing(Head(fromPeer))
    BY <2>2 DEF FromPeerMsg, IsPing
  <2>4. Heights \subseteq 0 .. Len(chain)
    BY <2>1 DEF Heights
  <2> QED
    BY <2>3, <2>4
<1>3. new \in Seq(Heights) /\ ask \in Seq(Heights) /\ (peer.needsUpdate => ask = <<>>)
  <2> HIDE DEF hs
  <2>1. <<>> \in Seq(Heights)
    OBVIOUS
  <2>2. new \in Seq(Heights)
    BY <1>2, <2>1
  <2> HIDE DEF new
  <2> QED
    BY <2>1, <2>2
<1>4. peer' \in Peers /\ peer'.on /\ peer'.pongs = peer.pongs /\ peer'.needsUpdate = peer.needsUpdate
  <2> DEFINE known == peer.knownBlocks \o new
             hash == IF Len(new) = 1 THEN new[1] ELSE peer.lastHash
  <2>0. peer' = [peer EXCEPT !.knownBlocks = known, !.lastHash = hash]
    BY <1>0
  <2> HIDE DEF new
  <2>1. known \in Seq(Heights) /\ hash \in 0 .. Len(chain)
    <3>1. peer.knownBlocks \in Seq(Heights) /\ peer.lastHash \in 0 .. Len(chain)
      BY <1>1 DEF Peers
    <3>2. Len(new) = 1 => new[1] \in Heights
      BY <1>3
    <3>3. known \in Seq(Heights)
      BY <1>3, <3>1
    <3>4. hash \in 0 .. Len(chain)
      <4>1. CASE Len(new) = 1
        <5>1. hash = new[1] /\ new[1] \in Heights
          BY <3>2, <4>1
        <5> HIDE DEF hash
        <5> QED
          BY <1>2, <5>1
      <4>2. CASE Len(new) # 1
        <5>1. hash = peer.lastHash
          BY <4>2
        <5> HIDE DEF hash
        <5> QED
          BY <3>1, <5>1
      <4> QED
        BY <4>1, <4>2
    <3> QED
      BY <3>3, <3>4
  <2> HIDE DEF known, hash
  <2> QED
    BY <1>0, <1>1, <2>0, <2>1 DEF Peers
<1>5. Batch \in Nat /\ Batch > 0
  BY ChainSyncAssumption
<1>6. x \in Seq(ToPeerMsg) /\ NoPing(x) /\ NoLoad(x)
  <2> HIDE DEF ask
  <2> DEFINE m == Msg("getdata", ask)
  <2>1. m \in ToPeerMsg /\ m.type = "getdata"
    BY <1>3 DEF Msg, ToPeerMsg
  <2>2. ~IsPing(m)
    BY <2>1 DEF IsPing
  <2> HIDE DEF m
  <2>3. <<m>> \in Seq(ToPeerMsg) /\ NoPing(<<m>>) /\ NoLoad(<<m>>)
    <3>1. NoLoad(<<m>>)
      BY <2>1 DEF NoLoad
    <3>2. NoPing(<<m>>)
      BY <2>2, Single
    <3> QED
      BY <2>1, <3>1, <3>2
  <2>4. <<>> \in Seq(ToPeerMsg) /\ NoPing(<<>>) /\ NoLoad(<<>>)
    <3>1. <<>> \in Seq(ToPeerMsg) /\ NoLoad(<<>>)
      BY DEF NoLoad
    <3> QED
      BY <3>1, Single
  <2> QED
    BY <2>3, <2>4 DEF m
<1>7. GetBlocks(y) /\ (ask = <<>> => y = <<>>)
  <2> HIDE DEF ask
  <2>1. CASE Len(ask) >= Batch
    <3>1. Len(ask) \in Nat \ {0} /\ ask # <<>>
      BY <1>3, <1>5, <2>1
    <3>2. Last(ask) \in Heights
      BY <1>3, <3>1 DEF Last
    <3> QED
      BY <1>2, <2>1, <3>1, <3>2 DEF GetBlocks
  <2>2. CASE ~(Len(ask) >= Batch)
    BY <2>2 DEF GetBlocks
  <2> QED
    BY <2>1, <2>2
<1>8. y \in Seq(ToPeerMsg) /\ NoPing(y) /\ NoWork(y) /\ NoLoad(y)
  <2> HIDE DEF y
  <2> QED
    BY <1>7, GetBlocksFacts
<1>9. ask = <<>> => x = <<>> /\ y = <<>>
  BY <1>7
<1> HIDE DEF hs, new, ask, x, y
<1>10. toPeer \o x \in Seq(ToPeerMsg) /\ toPeer' \in Seq(ToPeerMsg)
  <2>1. toPeer \o x \in Seq(ToPeerMsg)
    BY <1>1, <1>6
  <2> QED
    BY <1>0, <1>8, <2>1
<1>11. Flow(peer'.pongs, fromPeer', toPeer')
  <2>0. Flow(peer.pongs, fromPeer, toPeer)
    BY DEF FilterInv
  <2>1. Flow(peer.pongs, fromPeer', toPeer)
    BY <1>0, <1>1, <1>2, <2>0, FlowReceive
  <2>2. Flow(peer.pongs, fromPeer', toPeer \o x)
    <3>1. CASE peer.needsUpdate
      <4>1. toPeer \o x = toPeer
        BY <1>1, <1>3, <1>9, <3>1
      <4> QED
        BY <2>1, <4>1
    <3>2. CASE ~peer.needsUpdate
      <4>1. peer.pongs \in Idle
        BY <3>2 DEF FilterInv
      <4> QED
        BY <1>1, <1>6, <2>1, <4>1, FlowAsks
    <3> QED
      BY <3>1, <3>2
  <2>3. Flow(peer.pongs, fromPeer', (toPeer \o x) \o y)
    BY <1>1, <1>8, <1>10, <2>2, FlowPlain
  <2> QED
    BY <1>0, <1>4, <2>3
<1>12. bloomFilter # NoFilter => SentIs(bloomFilter.addrs, toPeer', peerFilter)
  <2> SUFFICES ASSUME bloomFilter # NoFilter PROVE SentIs(bloomFilter.addrs, (toPeer \o x) \o y, peerFilter)
    BY <1>0
  <2>1. SentIs(bloomFilter.addrs, toPeer, peerFilter)
    BY <1>0 DEF FilterInv
  <2>2. SentIs(bloomFilter.addrs, toPeer \o x, peerFilter)
    BY <1>1, <1>6, <2>1, SentBefore
  <2> QED
    BY <1>8, <1>10, <2>2, SentBefore
<1>13. TypeOK'
  BY <1>0, <1>1, <1>4, <1>10, SameTypes DEF TypeOK, HasUsed
<1>14. Fits(wallet', bloomFilter')
  BY <1>0 DEF FilterInv, Fits, Used
<1> QED
  BY <1>0, <1>4, <1>11, <1>12, <1>13, <1>14 DEF FilterInv

\* The manager is told of the whole block.
LEMMA DoneKeeps ==
  ASSUME TypeOK, FilterInv, peer.on, fromPeer # <<>>, ~IsPing(Head(fromPeer)),
         fromPeer' = Tail(fromPeer), UNCHANGED <<chain, tip, peerFilter>>,
         NEW w \in Wallets, HasUsed(w), NEW f \in Filter, NEW p \in Peers, NEW out \in Seq(ToPeerMsg),
         p.on, Updates(peer, p, out), Fits(w, f), DoneWith(w, f, p, out),
         \/ f = bloomFilter
         \/ f = NoFilter /\ peer.pongs # <<"load">> /\ p.needsUpdate
  PROVE  TypeOK' /\ FilterInv'
<1>1. PICK q, more : /\ q \in Peers /\ q.on = p.on /\ Updates(p, q, more)
                     /\ RelayedWith(w, f, q, out \o more) /\ budget' \in [fault : Nat, degrade : Nat]
                     /\ p.needsUpdate => q.needsUpdate
  BY DEF DoneWith
<1>2. /\ fromPeer \in Seq(FromPeerMsg) /\ toPeer \in Seq(ToPeerMsg) /\ fromPeer' \in Seq(FromPeerMsg)
      /\ more \in Seq(ToPeerMsg)
  <2>1. fromPeer \in Seq(FromPeerMsg) /\ toPeer \in Seq(ToPeerMsg)
    BY DEF TypeOK
  <2>2. Msg("ping", 0) \in ToPeerMsg
    BY DEF Msg, ToPeerMsg
  <2>3. <<Msg("ping", 0)>> \in Seq(ToPeerMsg) /\ <<>> \in Seq(ToPeerMsg)
    BY <2>2
  <2>4. more \in Seq(ToPeerMsg)
    BY <1>1, <2>3, Zenon DEF Updates
  <2> QED
    BY <2>1, <2>4
<1>3. PICK x : GetBlocks(x) /\ toPeer' = (toPeer \o (out \o more)) \o x
  BY <1>1 DEF RelayedWith
<1>4. /\ wallet' \in Wallets /\ HasUsed(wallet') /\ Used(wallet') = Used(w)
      /\ bloomFilter' = f /\ peer' = q
      /\ lastBlock' \in 0 .. Len(chain) /\ estimated' \in 0 .. Len(chain)
      /\ orphans' \subseteq Heights \X (SUBSET Tx) /\ lastOrphan' \in 0 .. Len(chain)
      /\ late' \subseteq Heights
  BY <1>1 DEF RelayedWith, HasUsed, Used
<1>5. Updates(peer, q, out \o more)
  <2>1. CASE more = <<>> /\ q.pongs = p.pongs /\ q.needsUpdate = p.needsUpdate
    <3>1. out \o more = out
      BY <2>1
    <3> QED
      BY <2>1, <3>1 DEF Updates
  <2>2. CASE ~p.needsUpdate /\ q.needsUpdate /\ q.pongs = Append(p.pongs, "update") /\ more = <<Msg("ping", 0)>>
    <3>1. out = <<>> /\ p.pongs = peer.pongs /\ p.needsUpdate = peer.needsUpdate
      BY <2>2, Zenon DEF Updates
    <3>2. out \o more = more
      BY <1>2, <3>1
    <3> QED
      BY <2>2, <3>1, <3>2, Zenon DEF Updates
  <2> QED
    BY <1>1, <2>1, <2>2 DEF Updates
<1>6. Flow(peer.pongs, fromPeer', toPeer)
  <2>1. Flow(peer.pongs, fromPeer, toPeer)
    BY DEF FilterInv
  <2> QED
    BY <1>2, <2>1, FlowReceive
<1>7. \/ bloomFilter' = bloomFilter
      \/ bloomFilter' = NoFilter /\ peer.pongs # <<"load">> /\ peer'.needsUpdate
  BY <1>1, <1>4
<1>8. Fits(wallet', bloomFilter') /\ peer'.on
  BY <1>1, <1>4 DEF Fits
<1>9. FilterInv' /\ toPeer' \in Seq(ToPeerMsg)
  BY <1>2, <1>3, <1>4, <1>5, <1>6, <1>7, <1>8, TalkKeeps
<1>10. TypeOK'
  BY <1>1, <1>2, <1>4, <1>9, SameTypes DEF TypeOK
<1> QED
  BY <1>9, <1>10

\* Blocks do not arrive while a filter is being loaded.
LEMMA NotLoading ==
  ASSUME TypeOK, FilterInv, fromPeer # <<>>, IsWork(Head(fromPeer))
  PROVE  peer.pongs # <<"load">>
<1> SUFFICES ASSUME peer.pongs = <<"load">> PROVE FALSE
  OBVIOUS
<1>1. fromPeer \in Seq(FromPeerMsg)
  BY DEF TypeOK
<1>2. ~NoWork(fromPeer)
  BY <1>1, Rest
<1>3. /\ <<>> # <<"load">> /\ <<"rerequest">> # <<"load">> /\ <<"update">> # <<"load">>
      /\ <<"rerequest", "update">> # <<"load">>
  OBVIOUS
<1>4. NoWork(fromPeer)
  BY <1>3, Zenon DEF FilterInv, Flow
<1> QED
  BY <1>2, <1>4

LEMMA AcceptMerkleblockKeeps ==
  ASSUME TypeOK, FilterInv, AcceptMerkleblock
  PROVE  TypeOK' /\ FilterInv'
<1> DEFINE h == Head(fromPeer).arg[1]
           ts == Head(fromPeer).arg[2]
<1>0. /\ peer.on /\ fromPeer # <<>> /\ Head(fromPeer).type = "merkleblock" /\ fromPeer' = Tail(fromPeer)
      /\ UNCHANGED <<chain, tip, peerFilter>>
  BY DEF AcceptMerkleblock, Receive
<1>1. /\ fromPeer \in Seq(FromPeerMsg) /\ toPeer \in Seq(ToPeerMsg) /\ peer \in Peers
      /\ Head(fromPeer) \in FromPeerMsg /\ fromPeer' \in Seq(FromPeerMsg)
      /\ wallet \in Wallets /\ HasUsed(wallet) /\ bloomFilter \in Filter
  <2>1. /\ fromPeer \in Seq(FromPeerMsg) /\ toPeer \in Seq(ToPeerMsg) /\ peer \in Peers
        /\ wallet \in Wallets /\ HasUsed(wallet) /\ bloomFilter \in Filter
    BY DEF TypeOK
  <2> QED
    BY <1>0, <2>1
<1>2. h \in Heights /\ ts \in SUBSET Tx /\ ~IsPing(Head(fromPeer))
  BY <1>0, <1>1 DEF FromPeerMsg, IsPing
<1>3. Fits(wallet, bloomFilter)
  BY DEF FilterInv
<1>4. CASE ts \subseteq peer.knownTx
  <2>1. PICK degraded \in BOOLEAN : BlockDone(wallet, bloomFilter, peer, <<>>, h, ts, degraded)
    BY <1>4 DEF AcceptMerkleblock
  <2>2. <<>> \in Seq(ToPeerMsg) /\ Updates(peer, peer, <<>>)
    BY DEF Updates
  <2> HIDE DEF h, ts
  <2>3. DoneWith(wallet, bloomFilter, peer, <<>>)
    BY <1>1, <1>2, <2>1, <2>2, BlockDoneFacts
  <2> QED
    BY <1>0, <1>1, <1>2, <1>3, <2>2, <2>3, DoneKeeps
<1>5. CASE ~(ts \subseteq peer.knownTx)
  <2>1. /\ peer' = [peer EXCEPT !.current = <<h, ts, ts \ peer.knownTx>>]
        /\ UNCHANGED <<wallet, lastBlock, estimated, orphans, lastOrphan, bloomFilter, toPeer, late, budget>>
    BY <1>5 DEF AcceptMerkleblock
  <2> HIDE DEF h, ts
  <2>2. peer' \in Peers /\ peer'.on /\ peer'.pongs = peer.pongs /\ peer'.needsUpdate = peer.needsUpdate
    <3>1. <<h, ts, ts \ peer.knownTx>> \in Heights \X (SUBSET Tx) \X (SUBSET Tx)
      BY <1>2
    <3> QED
      BY <1>0, <1>1, <2>1, <3>1 DEF Peers
  <2>3. Flow(peer.pongs, fromPeer', toPeer)
    <3>1. Flow(peer.pongs, fromPeer, toPeer)
      BY DEF FilterInv
    <3> QED
      BY <1>0, <1>1, <1>2, <3>1, FlowReceive
  <2>4. TypeOK'
    BY <1>0, <1>1, <2>1, <2>2, SameTypes DEF TypeOK, HasUsed
  <2>5. Fits(wallet', bloomFilter')
    BY <1>3, <2>1 DEF Fits, Used
  <2> QED
    BY <1>0, <2>1, <2>2, <2>3, <2>4, <2>5 DEF FilterInv
<1> QED
  BY <1>4, <1>5

\* A transaction of a block: it may complete the block.
LEMMA AcceptTxKeeps ==
  ASSUME TypeOK, FilterInv, AcceptTx
  PROVE  TypeOK' /\ FilterInv'
<1> DEFINE t == Head(fromPeer).arg
           r == RelayedTx(t)
           left == peer.current[3] \ {t}
<1>0. /\ peer.on /\ fromPeer # <<>> /\ Head(fromPeer).type = "tx" /\ fromPeer' = Tail(fromPeer)
      /\ UNCHANGED <<chain, tip, peerFilter>>
  BY DEF AcceptTx, Receive
<1>1. /\ fromPeer \in Seq(FromPeerMsg) /\ toPeer \in Seq(ToPeerMsg) /\ peer \in Peers
      /\ Head(fromPeer) \in FromPeerMsg /\ fromPeer' \in Seq(FromPeerMsg)
      /\ wallet \in Wallets /\ HasUsed(wallet) /\ bloomFilter \in Filter
  <2>1. /\ fromPeer \in Seq(FromPeerMsg) /\ toPeer \in Seq(ToPeerMsg) /\ peer \in Peers
        /\ wallet \in Wallets /\ HasUsed(wallet) /\ bloomFilter \in Filter
    BY DEF TypeOK
  <2> QED
    BY <1>0, <2>1
<1>2. t \in Tx /\ ~IsPing(Head(fromPeer)) /\ IsWork(Head(fromPeer))
  BY <1>0, <1>1 DEF FromPeerMsg, IsPing, IsWork
<1>3. Fits(wallet, bloomFilter)
  BY DEF FilterInv
<1>4. peer.pongs # <<"load">>
  BY <1>0, <1>2, NotLoading
<1>5. /\ r.w \in Wallets /\ HasUsed(r.w) /\ r.f \in Filter /\ r.p \in Peers
      /\ r.p.on = peer.on /\ r.p.current = peer.current
      /\ Updates(peer, r.p, r.out) /\ r.out \in Seq(ToPeerMsg) /\ Fits(r.w, r.f)
      /\ r.f = bloomFilter \/ (r.f = NoFilter /\ r.p.needsUpdate)
  <2> HIDE DEF t
  <2> QED
    BY <1>1, <1>2, <1>3, RelayedTxFacts
<1>6. /\ peer.current # <<>> => peer.current \in Heights \X (SUBSET Tx) \X (SUBSET Tx)
      /\ peer.current = <<>> \/ peer.current \in Heights \X (SUBSET Tx) \X (SUBSET Tx)
  BY <1>1 DEF Peers
<1>7. CASE peer.current # <<>> /\ left = {}
  <2> DEFINE p == [r.p EXCEPT !.current = <<>>]
  <2>1. PICK degraded \in BOOLEAN :
           BlockDone(r.w, r.f, p, r.out, peer.current[1], peer.current[2], degraded)
    BY <1>7 DEF AcceptTx
  <2>2. peer.current[1] \in Heights /\ peer.current[2] \in SUBSET Tx
    BY <1>6, <1>7
  <2> HIDE DEF r
  <2>3. p \in Peers /\ p.on = r.p.on /\ p.pongs = r.p.pongs /\ p.needsUpdate = r.p.needsUpdate
    BY <1>5 DEF Peers
  <2>4. Updates(peer, p, r.out) /\ p.on
    BY <1>0, <1>5, <2>3 DEF Updates
  <2> HIDE DEF p
  <2>5. DoneWith(r.w, r.f, p, r.out)
    BY <1>5, <2>1, <2>2, <2>3, BlockDoneFacts
  <2> QED
    BY <1>0, <1>2, <1>4, <1>5, <2>3, <2>4, <2>5, DoneKeeps
<1>8. CASE ~(peer.current # <<>> /\ left = {})
  <2>1. /\ wallet' = r.w /\ bloomFilter' = r.f /\ toPeer' = toPeer \o r.out
        /\ peer' = IF peer.current = <<>> THEN r.p ELSE [r.p EXCEPT !.current[3] = left]
        /\ UNCHANGED <<lastBlock, estimated, orphans, lastOrphan, late, budget>>
    BY <1>8 DEF AcceptTx
  <2> HIDE DEF r
  <2>2. peer' \in Peers /\ peer'.on /\ peer'.pongs = r.p.pongs /\ peer'.needsUpdate = r.p.needsUpdate
    <3>1. CASE peer.current = <<>>
      BY <1>0, <1>5, <2>1, <3>1
    <3>2. CASE peer.current # <<>>
      <4>1. peer' = [r.p EXCEPT !.current = [peer.current EXCEPT ![3] = left]]
        BY <1>1, <1>5, <2>1, <3>2 DEF Peers
      <4>2. left \in SUBSET Tx
        BY <1>6, <3>2
      <4>3. [peer.current EXCEPT ![3] = left] \in Heights \X (SUBSET Tx) \X (SUBSET Tx)
        BY <1>6, <3>2, <4>2
      <4> QED
        BY <1>0, <1>5, <4>1, <4>3 DEF Peers
    <3> QED
      BY <3>1, <3>2
  <2>3. Flow(peer.pongs, fromPeer', toPeer)
    <3>1. Flow(peer.pongs, fromPeer, toPeer)
      BY DEF FilterInv
    <3> QED
      BY <1>0, <1>1, <1>2, <3>1, FlowReceive
  <2>4. GetBlocks(<<>>) /\ toPeer' = (toPeer \o r.out) \o <<>>
    BY <1>1, <1>5, <2>1 DEF GetBlocks
  <2>5. Updates(peer, peer', r.out)
    BY <1>5, <2>2 DEF Updates
  <2>6. Fits(wallet', bloomFilter')
    BY <1>5, <2>1 DEF Fits, Used
  <2>7. \/ bloomFilter' = bloomFilter
        \/ bloomFilter' = NoFilter /\ peer.pongs # <<"load">> /\ peer'.needsUpdate
    BY <1>4, <1>5, <2>1, <2>2
  <2>8. FilterInv' /\ toPeer' \in Seq(ToPeerMsg)
    BY <1>0, <1>1, <2>2, <2>3, <2>4, <2>5, <2>6, <2>7, TalkKeeps
  <2>9. TypeOK'
    BY <1>0, <1>1, <1>5, <2>1, <2>2, <2>8, SameTypes DEF TypeOK, HasUsed
  <2> QED
    BY <2>8, <2>9
<1> QED
  BY <1>7, <1>8

\* The new filter is outgrown before it counts, by a transaction that is announced.
OutgrownAgain == peer.pongs = <<"load">> /\ AcceptMempoolTx /\ bloomFilter' # bloomFilter

LEMMA AcceptMempoolTxKeeps ==
  ASSUME TypeOK, FilterInv, AcceptMempoolTx, ~OutgrownAgain
  PROVE  TypeOK' /\ FilterInv'
<1> DEFINE t == Head(fromPeer).arg
           r == RelayedTx(t)
<1>0. /\ peer.on /\ fromPeer # <<>> /\ Head(fromPeer).type = "mempool" /\ fromPeer' = Tail(fromPeer)
      /\ wallet' = r.w /\ bloomFilter' = r.f /\ toPeer' = toPeer \o r.out
      /\ peer' = [r.p EXCEPT !.knownTx = @ \cup {t}]
      /\ UNCHANGED <<chain, tip, lastBlock, estimated, orphans, lastOrphan, peerFilter, late, budget>>
  BY DEF AcceptMempoolTx, Receive
<1>1. /\ fromPeer \in Seq(FromPeerMsg) /\ toPeer \in Seq(ToPeerMsg) /\ peer \in Peers
      /\ Head(fromPeer) \in FromPeerMsg /\ fromPeer' \in Seq(FromPeerMsg)
      /\ wallet \in Wallets /\ HasUsed(wallet) /\ bloomFilter \in Filter
  <2>1. /\ fromPeer \in Seq(FromPeerMsg) /\ toPeer \in Seq(ToPeerMsg) /\ peer \in Peers
        /\ wallet \in Wallets /\ HasUsed(wallet) /\ bloomFilter \in Filter
    BY DEF TypeOK
  <2> QED
    BY <1>0, <2>1
<1>2. t \in Tx /\ ~IsPing(Head(fromPeer))
  BY <1>0, <1>1, ChainSyncAssumption DEF FromPeerMsg, IsPing
<1>3. Fits(wallet, bloomFilter)
  BY DEF FilterInv
<1>4. peer.pongs = <<"load">> => bloomFilter' = bloomFilter
  BY DEF OutgrownAgain
<1>5. /\ r.w \in Wallets /\ HasUsed(r.w) /\ r.f \in Filter /\ r.p \in Peers
      /\ r.p.on = peer.on
      /\ Updates(peer, r.p, r.out) /\ r.out \in Seq(ToPeerMsg) /\ Fits(r.w, r.f)
      /\ r.f = bloomFilter \/ (r.f = NoFilter /\ r.p.needsUpdate)
  <2> HIDE DEF t
  <2> QED
    BY <1>1, <1>2, <1>3, RelayedTxFacts
<1> HIDE DEF t, r
<1>6. peer' \in Peers /\ peer'.on /\ peer'.pongs = r.p.pongs /\ peer'.needsUpdate = r.p.needsUpdate
  BY <1>0, <1>2, <1>5 DEF Peers
<1>7. Flow(peer.pongs, fromPeer', toPeer)
  <2>1. Flow(peer.pongs, fromPeer, toPeer)
    BY DEF FilterInv
  <2> QED
    BY <1>0, <1>1, <1>2, <2>1, FlowReceive
<1>8. GetBlocks(<<>>) /\ toPeer' = (toPeer \o r.out) \o <<>>
  BY <1>0, <1>1, <1>5 DEF GetBlocks
<1>9. Updates(peer, peer', r.out)
  BY <1>5, <1>6 DEF Updates
<1>10. Fits(wallet', bloomFilter')
  BY <1>0, <1>5 DEF Fits, Used
<1>11. \/ bloomFilter' = bloomFilter
       \/ bloomFilter' = NoFilter /\ peer.pongs # <<"load">> /\ peer'.needsUpdate
  BY <1>0, <1>4, <1>5, <1>6
<1>12. FilterInv' /\ toPeer' \in Seq(ToPeerMsg)
  BY <1>0, <1>1, <1>6, <1>7, <1>8, <1>9, <1>10, <1>11, TalkKeeps
<1>13. TypeOK'
  BY <1>0, <1>1, <1>5, <1>6, <1>12, SameTypes DEF TypeOK, HasUsed
<1> QED
  BY <1>12, <1>13

-----------------------------------------------------------------------------
(* The pongs *)

\* The callback that a pong calls tells the whole queue, but for the last request.
LEMMA Callbacks ==
  ASSUME NEW p, NEW f, NEW t, Flow(p, f, t), p # <<>>
  PROVE  /\ Head(p) = "update" => p = <<"update">>
         /\ Head(p) = "load" => p = <<"load">>
         /\ Head(p) = "rerequest" => p = <<"rerequest">> \/ p = <<"rerequest", "update">>
         /\ p = <<"update">> => Append(Tail(p), "load") = <<"load">>
         /\ p = <<"load">> => Tail(p) = <<>> /\ Append(Tail(p), "rerequest") = <<"rerequest">>
         /\ p = <<"rerequest">> => Tail(p) = <<>>
         /\ p = <<"rerequest", "update">> => Tail(p) = <<"update">>
<1>1. p = <<"rerequest">> \/ p = <<"update">> \/ p = <<"rerequest", "update">> \/ p = <<"load">>
  BY Zenon DEF Flow
<1>2. CASE p = <<"rerequest">>
  <2>1. Head(p) = "rerequest" /\ Tail(p) = <<>>
    BY <1>2
  <2> QED
    BY <1>2, <2>1
<1>3. CASE p = <<"update">>
  <2>1. Head(p) = "update" /\ Tail(p) = <<>>
    BY <1>3
  <2> QED
    BY <1>3, <2>1
<1>4. CASE p = <<"rerequest", "update">>
  <2>1. Head(p) = "rerequest"
    BY <1>4
  <2>2. Tail(p) = <<"update">>
    <3> DEFINE S2 == {"rerequest", "update"}
               q == Tail(p)
    <3>1. p \in Seq(S2) /\ Len(p) = 2 /\ p[2] = "update"
      BY <1>4
    <3>2. q \in Seq(S2)
      BY <3>1
    <3>3. Len(q) = 1
      BY <3>1
    <3>4. q[1] = "update"
      <4> HIDE DEF S2
      <4>1. \A i \in DOMAIN q : q[i] = p[i + 1]
        BY <3>1
      <4>2. 1 \in DOMAIN q
        BY <3>2, <3>3
      <4> QED
        BY <3>1, <4>1, <4>2
    <3> HIDE DEF q
    <3>5. q = <<"update">>
      BY <3>2, <3>3, <3>4
    <3> QED
      BY <3>5 DEF q
  <2>3. p # <<"rerequest">> /\ p # <<"load">> /\ p # <<"update">>
    BY <1>4
  <2> QED
    BY <1>4, <2>1, <2>2, <2>3, Zenon
<1>5. CASE p = <<"load">>
  <2>1. Head(p) = "load" /\ Tail(p) = <<>>
    BY <1>5
  <2> QED
    BY <1>5, <2>1
<1> QED
  BY <1>1, <1>2, <1>3, <1>4, <1>5

\* What the callbacks have in common.
LEMMA PongFacts ==
  ASSUME TypeOK, FilterInv, NEW c, AcceptPong(c)
  PROVE  /\ peer.on /\ fromPeer # <<>> /\ IsPing(Head(fromPeer)) /\ fromPeer' = Tail(fromPeer)
         /\ UNCHANGED <<chain, tip, lastBlock, estimated, peerFilter, late, budget>>
         /\ fromPeer \in Seq(FromPeerMsg) /\ toPeer \in Seq(ToPeerMsg) /\ peer \in Peers
         /\ fromPeer' \in Seq(FromPeerMsg)
         /\ Flow(peer.pongs, fromPeer, toPeer) /\ peer.pongs # <<>> /\ Head(peer.pongs) = c
<1>1. /\ peer.on /\ fromPeer # <<>> /\ Head(fromPeer).type = "pong" /\ fromPeer' = Tail(fromPeer)
      /\ UNCHANGED <<chain, tip, lastBlock, estimated, peerFilter, late, budget>>
      /\ Head(peer.pongs) = c
  BY DEF AcceptPong, Receive
<1>2. fromPeer \in Seq(FromPeerMsg) /\ toPeer \in Seq(ToPeerMsg) /\ peer \in Peers
  BY DEF TypeOK
<1>3. IsPing(Head(fromPeer)) /\ Flow(peer.pongs, fromPeer, toPeer)
  BY <1>1 DEF IsPing, FilterInv
<1>4. peer.pongs # <<>>
  BY <1>1, <1>2, <1>3, FlowPong
<1>5. fromPeer' \in Seq(FromPeerMsg)
  BY <1>1, <1>2
<1> QED
  BY <1>1, <1>2, <1>3, <1>4, <1>5

\* A ping is a message of its own kind.
LEMMA PingFacts ==
  ASSUME NEW m, m = Msg("ping", 0)
  PROVE  m \in ToPeerMsg /\ <<m>> \in Seq(ToPeerMsg) /\ IsPing(m) /\ ~IsWork(m) /\ NoLoad(<<m>>)
<1>1. m \in ToPeerMsg /\ m.type = "ping"
  BY DEF Msg, ToPeerMsg
<1> QED
  BY <1>1 DEF IsPing, IsWork, NoLoad

LEMMA PingDoneKeeps ==
  ASSUME TypeOK, FilterInv, UpdateFilterPingDone
  PROVE  TypeOK' /\ FilterInv'
<1> DEFINE m == Msg("filterload", bloomFilter')
           p == Msg("ping", 0)
<1>0. /\ AcceptPong("update") /\ LoadBloomFilter
      /\ peer' = [peer EXCEPT !.pongs = Append(Pongs, "load")]
      /\ toPeer' = toPeer \o <<m, p>>
  BY DEF UpdateFilterPingDone
<1>1. /\ peer.on /\ fromPeer # <<>> /\ IsPing(Head(fromPeer)) /\ fromPeer' = Tail(fromPeer)
      /\ UNCHANGED <<chain, tip, lastBlock, estimated, peerFilter, late, budget>>
      /\ fromPeer \in Seq(FromPeerMsg) /\ toPeer \in Seq(ToPeerMsg) /\ peer \in Peers
      /\ fromPeer' \in Seq(FromPeerMsg)
      /\ Flow(peer.pongs, fromPeer, toPeer) /\ peer.pongs # <<>> /\ Head(peer.pongs) = "update"
  BY <1>0, PongFacts
<1>2. peer.pongs = <<"update">> /\ Append(Pongs, "load") = <<"load">>
  BY <1>1, Callbacks DEF Pongs
<1>3. NoPing(fromPeer') /\ NoPing(toPeer) /\ NoWork(fromPeer') /\ NoWork(toPeer)
  BY <1>1, <1>2, FlowPong
<1>4. /\ wallet' \in Wallets /\ HasUsed(wallet') /\ bloomFilter' \in Filter
      /\ bloomFilter' # NoFilter /\ Fits(wallet', bloomFilter')
      /\ orphans' = {} /\ lastOrphan' = 0
  BY <1>0, LoadFacts DEF TypeOK
<1>5. m \in ToPeerMsg /\ m.type = "filterload" /\ m.arg = bloomFilter'
  BY <1>4 DEF Msg, ToPeerMsg
<1>6. ~IsPing(m) /\ ~IsWork(m)
  BY <1>5 DEF IsPing, IsWork
<1>7. p \in ToPeerMsg /\ <<p>> \in Seq(ToPeerMsg) /\ IsPing(p) /\ ~IsWork(p) /\ NoLoad(<<p>>)
  BY PingFacts
<1> HIDE DEF m, p
<1> DEFINE s == toPeer \o <<m>>
<1>8. <<m>> \in Seq(ToPeerMsg) /\ s \in Seq(ToPeerMsg)
  BY <1>1, <1>5
<1>9. toPeer' = s \o <<p>> /\ toPeer' \in Seq(ToPeerMsg)
  <2>1. toPeer \o <<m, p>> = (toPeer \o <<m>>) \o <<p>>
    <3>1. Append(<<m>>, p) = <<m, p>>
      BY <1>5, <1>7, AppendTwo
    <3>2. toPeer \o Append(<<m>>, p) = Append(toPeer \o <<m>>, p)
      BY <1>1, <1>7, <1>8
    <3>3. Append(toPeer \o <<m>>, p) = (toPeer \o <<m>>) \o <<p>>
      BY <1>7, <1>8
    <3> QED
      BY <3>1, <3>2, <3>3
  <2>2. s \o <<p>> \in Seq(ToPeerMsg)
    BY <1>7, <1>8
  <2> QED
    BY <1>0, <2>1, <2>2
<1>10. NoPing(s) /\ NoWork(s)
  <2>1. NoPing(<<m>>) /\ NoWork(<<m>>)
    BY <1>6, Single
  <2> QED
    BY <1>1, <1>3, <1>8, <2>1, Together
<1>11. SentIs(bloomFilter'.addrs, s, peerFilter)
  <2>1. SentIs(m.arg.addrs, s, peerFilter)
    BY <1>1, <1>5, SentNow
  <2> QED
    BY <1>5, <2>1
<1> HIDE DEF s
<1>12. OnePing(toPeer') /\ NoWork(toPeer')
  <2>1. OnePing(<<p>>) /\ NoWork(<<p>>)
    BY <1>7, Single
  <2> QED
    BY <1>7, <1>8, <1>9, <1>10, <2>1, Together
<1>13. SentIs(bloomFilter'.addrs, toPeer', peerFilter')
  BY <1>1, <1>7, <1>8, <1>9, <1>11, SentBefore
<1>14. peer' \in Peers /\ peer'.pongs = <<"load">> /\ peer'.needsUpdate = peer.needsUpdate
  <2>1. <<"load">> \in Seq({"update", "load", "rerequest"})
    OBVIOUS
  <2> QED
    BY <1>0, <1>1, <1>2, <2>1 DEF Peers
<1>15. Flow(peer'.pongs, fromPeer', toPeer')
  <2>1. One(fromPeer', toPeer')
    BY <1>3, <1>12 DEF One
  <2> QED
    BY <1>3, <1>12, <1>14, <2>1, Zenon DEF Flow
<1>16. peer'.needsUpdate /\ peer'.pongs \notin Idle
  <2>1. peer.pongs \in Asking
    BY <1>2, Zenon DEF Asking
  <2> QED
    BY <1>14, <2>1, Shapes DEF FilterInv
<1>17. TypeOK'
  <2>1. lastOrphan' \in 0 .. Len(chain)
    BY <1>4, ChainSyncAssumption DEF TypeOK
  <2> QED
    BY <1>1, <1>4, <1>9, <1>14, <2>1, SameTypes DEF TypeOK
<1> QED
  BY <1>4, <1>13, <1>15, <1>16, <1>17 DEF FilterInv

\* The hashes that are asked for again are hashes that were announced.
LEMMA KnownFromType ==
  ASSUME TypeOK, NEW h
  PROVE  KnownFrom(h) \in Seq(Heights)
<1> DEFINE s == peer.knownBlocks
           at == {i \in DOMAIN s : s[i] = h}
           i == CHOOSE j \in at : \A k \in at : j >= k
<1>1. s \in Seq(Heights) /\ Len(s) \in Nat
  BY DEF TypeOK, Peers
<1>2. CASE at = {}
  BY <1>2 DEF KnownFrom
<1>3. CASE at # {}
  <2>1. KnownFrom(h) = SubSeq(s, i, Len(s))
    BY <1>3 DEF KnownFrom
  <2>2. at \in SUBSET (0 .. Len(s)) /\ \A k \in at : k >= 1
    BY <1>1
  <2>3. \E j \in at : \A k \in at : j >= k
    <3> HIDE DEF at, s
    <3> QED
      BY <1>1, <1>3, <2>2, LargestNumber
  <2>4. i \in at
    <3> HIDE DEF at, s
    <3> QED
      BY <2>3
  <2> HIDE DEF i
  <2>5. i \in 1 .. Len(s)
    BY <1>1, <2>2, <2>4
  <2> HIDE DEF s, at
  <2> QED
    BY <1>1, <2>1, <2>5
<1> QED
  BY <1>2, <1>3

LEMMA LoadDoneKeeps ==
  ASSUME TypeOK, FilterInv, UpdateFilterLoadDone
  PROVE  TypeOK' /\ FilterInv'
<1> DEFINE again == KnownFrom(lastBlock)
           x == IF again # <<>> THEN <<Msg("getdata", again)>> ELSE <<>>
           p == Msg("ping", 0)
<1>0. AcceptPong("load") /\ UNCHANGED <<wallet, orphans, lastOrphan, bloomFilter>>
  BY DEF UpdateFilterLoadDone
<1>1. /\ peer.on /\ fromPeer # <<>> /\ IsPing(Head(fromPeer)) /\ fromPeer' = Tail(fromPeer)
      /\ UNCHANGED <<chain, tip, lastBlock, estimated, peerFilter, late, budget>>
      /\ fromPeer \in Seq(FromPeerMsg) /\ toPeer \in Seq(ToPeerMsg) /\ peer \in Peers
      /\ fromPeer' \in Seq(FromPeerMsg)
      /\ Flow(peer.pongs, fromPeer, toPeer) /\ peer.pongs # <<>> /\ Head(peer.pongs) = "load"
  BY <1>0, PongFacts
<1>2. peer.pongs = <<"load">> /\ Pongs = <<>> /\ Append(Pongs, "rerequest") = <<"rerequest">>
  BY <1>1, Callbacks DEF Pongs
<1>3. NoPing(fromPeer') /\ NoPing(toPeer)
  BY <1>1, <1>2, FlowPong
<1>4. Fits(wallet, bloomFilter) /\ bloomFilter # NoFilter
      /\ SentIs(bloomFilter.addrs, toPeer, peerFilter)
  <2>1. peer.pongs \notin Asking
    BY <1>2, Shapes
  <2> QED
    BY <1>1, <2>1 DEF FilterInv
<1>5. Fits(wallet', bloomFilter')
  BY <1>0, <1>4 DEF Fits, Used
<1>6. CASE Syncing
  <2>1. /\ peer' = [peer EXCEPT !.needsUpdate = FALSE, !.pongs = Append(Pongs, "rerequest"),
                                !.knownBlocks = IF again # <<>> THEN again ELSE @]
        /\ toPeer' = (toPeer \o x) \o <<p>>
    BY <1>6 DEF UpdateFilterLoadDone
  <2>2. again \in Seq(Heights)
    BY KnownFromType
  <2>3. p \in ToPeerMsg /\ <<p>> \in Seq(ToPeerMsg) /\ IsPing(p) /\ ~IsWork(p) /\ NoLoad(<<p>>)
    BY PingFacts
  <2> HIDE DEF again, p
  <2>4. x \in Seq(ToPeerMsg) /\ NoPing(x) /\ NoLoad(x)
    <3> DEFINE m == Msg("getdata", again)
    <3>1. m \in ToPeerMsg /\ m.type = "getdata"
      BY <2>2 DEF Msg, ToPeerMsg
    <3>2. ~IsPing(m)
      BY <3>1 DEF IsPing
    <3> HIDE DEF m
    <3>3. <<m>> \in Seq(ToPeerMsg) /\ NoLoad(<<m>>)
      BY <3>1 DEF NoLoad
    <3>4. NoPing(<<m>>)
      BY <3>2, Single
    <3>5. <<>> \in Seq(ToPeerMsg) /\ NoLoad(<<>>)
      BY DEF NoLoad
    <3>6. NoPing(<<>>)
      BY Single
    <3> QED
      BY <3>3, <3>4, <3>5, <3>6 DEF m
  <2> HIDE DEF x
  <2> DEFINE s == toPeer \o x
  <2>5. s \in Seq(ToPeerMsg)
    BY <1>1, <2>4
  <2>6. NoPing(s)
    BY <1>1, <1>3, <2>4, Together
  <2>7. SentIs(bloomFilter.addrs, s, peerFilter)
    BY <1>1, <1>4, <2>4, SentBefore
  <2> HIDE DEF s
  <2>8. toPeer' = s \o <<p>> /\ toPeer' \in Seq(ToPeerMsg)
    BY <2>1, <2>3, <2>5 DEF s
  <2>9. OnePing(toPeer')
    <3>1. OnePing(<<p>>)
      BY Single
    <3> QED
      BY <2>3, <2>5, <2>6, <2>8, <3>1, Together
  <2>10. SentIs(bloomFilter'.addrs, toPeer', peerFilter')
    <3>1. SentIs(bloomFilter.addrs, s \o <<p>>, peerFilter)
      BY <2>3, <2>5, <2>7, SentBefore
    <3> QED
      BY <1>0, <1>1, <2>8, <3>1
  <2>11. peer' \in Peers /\ peer'.pongs = <<"rerequest">> /\ ~peer'.needsUpdate
    <3> DEFINE known == IF again # <<>> THEN again ELSE peer.knownBlocks
    <3>1. <<"rerequest">> \in Seq({"update", "load", "rerequest"})
      OBVIOUS
    <3>2. known \in Seq(Heights)
      BY <1>1, <2>2 DEF Peers
    <3>3. peer' = [peer EXCEPT !.needsUpdate = FALSE, !.pongs = <<"rerequest">>, !.knownBlocks = known]
      BY <1>2, <2>1
    <3> HIDE DEF known
    <3> QED
      BY <1>1, <3>1, <3>2, <3>3 DEF Peers
  <2>12. Flow(peer'.pongs, fromPeer', toPeer')
    <3>1. One(fromPeer', toPeer')
      BY <1>3, <2>9 DEF One
    <3> QED
      BY <2>11, <3>1, Zenon DEF Flow
  <2>13. TypeOK'
    BY <1>0, <1>1, <2>8, <2>11, SameTypes DEF TypeOK, HasUsed
  <2>14. peer'.pongs \in Idle /\ bloomFilter' # NoFilter
    BY <1>0, <1>4, <2>11 DEF Idle
  <2> QED
    BY <1>5, <2>10, <2>11, <2>12, <2>13, <2>14 DEF FilterInv
<1>7. CASE ~Syncing
  <2>1. peer' = [peer EXCEPT !.needsUpdate = FALSE, !.pongs = Pongs] /\ UNCHANGED toPeer
    BY <1>7 DEF UpdateFilterLoadDone
  <2>2. peer' \in Peers /\ peer'.pongs = <<>> /\ ~peer'.needsUpdate
    <3>1. <<>> \in Seq({"update", "load", "rerequest"})
      OBVIOUS
    <3> QED
      BY <1>1, <1>2, <2>1, <3>1 DEF Peers
  <2>3. Flow(peer'.pongs, fromPeer', toPeer')
    <3>1. Zero(fromPeer', toPeer')
      BY <1>3, <2>1 DEF Zero
    <3> QED
      BY <2>2, <3>1, Zenon DEF Flow
  <2>4. SentIs(bloomFilter'.addrs, toPeer', peerFilter') /\ bloomFilter' # NoFilter
    BY <1>0, <1>1, <1>4, <2>1
  <2>5. TypeOK'
    BY <1>0, <1>1, <2>1, <2>2, SameTypes DEF TypeOK, HasUsed
  <2>6. peer'.pongs \in Idle
    BY <2>2 DEF Idle
  <2> QED
    BY <1>5, <2>2, <2>3, <2>4, <2>5, <2>6 DEF FilterInv
<1> QED
  BY <1>6, <1>7

LEMMA RerequestDoneKeeps ==
  ASSUME TypeOK, FilterInv, UpdateFilterRerequestDone
  PROVE  TypeOK' /\ FilterInv'
<1> DEFINE x == IF peer.needsUpdate THEN <<>> ELSE <<Msg("getblocks", lastBlock)>>
<1>0. /\ AcceptPong("rerequest") /\ UNCHANGED <<wallet, orphans, lastOrphan, bloomFilter>>
      /\ peer' = [peer EXCEPT !.pongs = Pongs]
      /\ toPeer' = IF peer.needsUpdate THEN toPeer ELSE Append(toPeer, Msg("getblocks", lastBlock))
  BY DEF UpdateFilterRerequestDone
<1>1. /\ peer.on /\ fromPeer # <<>> /\ IsPing(Head(fromPeer)) /\ fromPeer' = Tail(fromPeer)
      /\ UNCHANGED <<chain, tip, lastBlock, estimated, peerFilter, late, budget>>
      /\ fromPeer \in Seq(FromPeerMsg) /\ toPeer \in Seq(ToPeerMsg) /\ peer \in Peers
      /\ fromPeer' \in Seq(FromPeerMsg)
      /\ Flow(peer.pongs, fromPeer, toPeer) /\ peer.pongs # <<>> /\ Head(peer.pongs) = "rerequest"
  BY <1>0, PongFacts
<1>2. GetBlocks(x)
  BY DEF GetBlocks, TypeOK
<1>3. x \in Seq(ToPeerMsg) /\ NoPing(x) /\ NoWork(x) /\ NoLoad(x)
  <2> HIDE DEF x
  <2> QED
    BY <1>2, GetBlocksFacts
<1>4. toPeer' = toPeer \o x
  <2>1. CASE peer.needsUpdate
    BY <1>0, <1>1, <2>1
  <2>2. CASE ~peer.needsUpdate
    <3> DEFINE m == Msg("getblocks", lastBlock)
    <3>1. x = <<m>> /\ toPeer' = Append(toPeer, m)
      BY <1>0, <2>2
    <3> HIDE DEF m, x
    <3>2. m \in ToPeerMsg
      <4>1. m.type = "getblocks" /\ m = [type |-> "getblocks", arg |-> lastBlock]
        BY DEF m, Msg
      <4> QED
        BY <4>1 DEF TypeOK, ToPeerMsg
    <3>3. Append(toPeer, m) = toPeer \o <<m>>
      BY <1>1, <3>2
    <3> QED
      BY <3>1, <3>3
  <2> QED
    BY <2>1, <2>2
<1> HIDE DEF x
<1>5. toPeer' \in Seq(ToPeerMsg)
  BY <1>1, <1>3, <1>4
<1>6. Flow(Pongs, fromPeer', toPeer) /\ (peer.pongs \in Idle <=> Pongs \in Idle)
      /\ (peer.pongs \in Asking => Pongs \in Asking)
  <2>1. CASE peer.pongs = <<"rerequest">>
    <3>1. Pongs = <<>>
      BY <1>1, <2>1, Callbacks DEF Pongs
    <3>2. Flow(<<>>, fromPeer', toPeer)
      BY <1>1, <2>1, FlowPong
    <3>3. peer.pongs \in Idle /\ Pongs \in Idle
      BY <2>1, <3>1, Zenon DEF Idle
    <3> QED
      BY <3>1, <3>2, <3>3, Shapes
  <2>2. CASE peer.pongs = <<"rerequest", "update">>
    <3>1. Pongs = <<"update">>
      BY <1>1, <2>2, Callbacks DEF Pongs
    <3>2. Flow(<<"update">>, fromPeer', toPeer)
      BY <1>1, <2>2, FlowPong
    <3>3. peer.pongs \in Asking /\ Pongs \in Asking
      BY <2>2, <3>1, Zenon DEF Asking
    <3> QED
      BY <3>1, <3>2, <3>3, Shapes
  <2> QED
    BY <1>1, <2>1, <2>2, Callbacks
<1>7. peer' \in Peers /\ peer'.on /\ peer'.pongs = Pongs /\ peer'.needsUpdate = peer.needsUpdate
  <2>1. Pongs \in Seq({"update", "load", "rerequest"})
    <3>1. peer.pongs \in Seq({"update", "load", "rerequest"})
      BY <1>1 DEF Peers
    <3> QED
      BY <1>1, <3>1 DEF Pongs
  <2> QED
    BY <1>0, <1>1, <2>1 DEF Peers
<1>8. Flow(peer'.pongs, fromPeer', toPeer')
  BY <1>1, <1>3, <1>4, <1>6, <1>7, FlowPlain
<1>9. bloomFilter' # NoFilter => SentIs(bloomFilter'.addrs, toPeer', peerFilter')
  <2> SUFFICES ASSUME bloomFilter # NoFilter PROVE SentIs(bloomFilter.addrs, toPeer \o x, peerFilter)
    BY <1>0, <1>1, <1>4
  <2>1. SentIs(bloomFilter.addrs, toPeer, peerFilter)
    BY <1>1 DEF FilterInv
  <2> QED
    BY <1>1, <1>3, <2>1, SentBefore
<1>10. TypeOK'
  BY <1>0, <1>1, <1>5, <1>7, SameTypes DEF TypeOK, HasUsed
<1>11. Fits(wallet', bloomFilter')
  BY <1>0 DEF FilterInv, Fits, Used
<1>12. bloomFilter' = NoFilter => peer'.pongs \in Asking
  BY <1>0, <1>1, <1>6, <1>7 DEF FilterInv
<1> QED
  BY <1>6, <1>7, <1>8, <1>9, <1>10, <1>11, <1>12 DEF FilterInv

-----------------------------------------------------------------------------
(* The theorems *)

LEMMA StepKeeps ==
  ASSUME TypeOK, FilterInv, [Next]_vars, ~OutgrownAgain
  PROVE  TypeOK' /\ FilterInv'
<1>1. CASE UNCHANGED vars
  <2>1. UNCHANGED <<chain, tip, wallet, lastBlock, estimated, orphans, lastOrphan, bloomFilter, peer,
                    toPeer, fromPeer, peerFilter, late, budget>>
    BY <1>1 DEF vars
  <2> QED
    BY <2>1, SameTypes DEF TypeOK, HasUsed, FilterInv, Fits, Used
<1>2. CASE Serve
  BY <1>2, ServeKeeps
<1>3. CASE Mine
  BY <1>3, MineKeeps
<1>4. ASSUME NEW t \in Announced, Announce(t) PROVE TypeOK' /\ FilterInv'
  BY <1>4, AnnounceKeeps
<1>5. CASE Connect
  BY <1>5, ConnectKeeps
<1>6. CASE Failed
  BY <1>6, FailedKeeps
<1>7. CASE TimedOut
  BY <1>7, TimedOutKeeps
<1>8. CASE AcceptInv
  BY <1>8, AcceptInvKeeps
<1>9. CASE AcceptMerkleblock
  BY <1>9, AcceptMerkleblockKeeps
<1>10. CASE AcceptTx
  BY <1>10, AcceptTxKeeps
<1>11. CASE AcceptMempoolTx
  BY <1>11, AcceptMempoolTxKeeps
<1>12. CASE UpdateFilterPingDone
  BY <1>12, PingDoneKeeps
<1>13. CASE UpdateFilterLoadDone
  BY <1>13, LoadDoneKeeps
<1>14. CASE UpdateFilterRerequestDone
  BY <1>14, RerequestDoneKeeps
<1> QED
  BY <1>1, <1>2, <1>3, <1>4, <1>5, <1>6, <1>7, <1>8, <1>9, <1>10, <1>11, <1>12, <1>13, <1>14
     DEF Next, Handle

\* While a filter is dropped, its replacement has been asked for.
LEMMA ComesBack == FilterInv => FilterComesBack
<1> SUFFICES ASSUME FilterInv, peer.on, bloomFilter = NoFilter PROVE "update" \in ToSet(peer.pongs)
  BY DEF FilterComesBack
<1>1. peer.pongs = <<"update">> \/ peer.pongs = <<"rerequest", "update">>
  BY DEF FilterInv, Asking
<1>2. \E i \in DOMAIN peer.pongs : peer.pongs[i] = "update"
  <2>1. CASE peer.pongs = <<"update">>
    <3>1. 1 \in DOMAIN peer.pongs /\ peer.pongs[1] = "update"
      BY <2>1
    <3> QED
      BY <3>1
  <2>2. CASE peer.pongs = <<"rerequest", "update">>
    <3>1. 2 \in DOMAIN peer.pongs /\ peer.pongs[2] = "update"
      BY <2>2
    <3> QED
      BY <3>1
  <2> QED
    BY <1>1, <2>1, <2>2
<1> QED
  BY <1>2 DEF ToSet

\* The filter that was sent last is the wallet's, and it fits.
LEMMA NextMatched == TypeOK /\ FilterInv => NextAddressesWatched
<1> SUFFICES ASSUME TypeOK, FilterInv, peer.on, ~peer.needsUpdate
             PROVE  Sent.addrs >= Used(wallet) + Gap
  BY DEF NextAddressesWatched
<1>1. bloomFilter # NoFilter
  BY Shapes DEF FilterInv
<1>2. SentIs(bloomFilter.addrs, toPeer, peerFilter) /\ toPeer \in Seq(ToPeerMsg)
  BY <1>1 DEF FilterInv, TypeOK
<1>3. Sent.addrs = bloomFilter.addrs
  BY <1>2, SentLatest DEF Sent
<1>4. bloomFilter.addrs \in Nat /\ Used(wallet) + Gap <= bloomFilter.addrs
  BY <1>1 DEF FilterInv, Fits
<1>5. Used(wallet) + Gap \in Nat
  <2>1. wallet.tx \subseteq Tx /\ HasUsed(wallet)
    BY DEF TypeOK, Wallets
  <2>2. Used(wallet) \in Nat
    BY <2>1, UsedFacts
  <2> QED
    BY <2>2, ChainSyncAssumption
<1> QED
  BY <1>3, <1>4, <1>5

\* A dropped filter always comes back, and the peer watches the next addresses
\* whenever no update has begun (BRPeerManager.c, _peerRelayedTx,
\* _BRPeerManagerUpdateFilter), unless a transaction that is announced outgrows the
\* new filter in the moment between its loading and its pong.
THEOREM FilterHolds ==
  Spec /\ [][~OutgrownAgain]_vars => [](TypeOK /\ FilterInv)
<1>1. Init => TypeOK /\ FilterInv
  BY InitFilter
<1>2. TypeOK /\ FilterInv /\ [Next]_vars /\ [~OutgrownAgain]_vars => TypeOK' /\ FilterInv'
  <2>1. [~OutgrownAgain]_vars => ~OutgrownAgain
    BY DEF OutgrownAgain, vars
  <2> QED
    BY <2>1, StepKeeps
<1> QED
  BY <1>1, <1>2, PTL DEF Spec

\* A filter that was dropped is being replaced, or every block would be ignored.
THEOREM FilterReturns ==
  Spec /\ [][~OutgrownAgain]_vars => []FilterComesBack
BY FilterHolds, ComesBack, PTL

\* When no update has begun, the last filter that the download peer was sent
\* matches the next addresses of the gap: blocks may be asked for on it.
THEOREM NextWatched ==
  Spec /\ [][~OutgrownAgain]_vars => []NextAddressesWatched
BY FilterHolds, NextMatched, PTL

\* Nothing that is announced outgrows a filter just loaded, when it pays one of the
\* addresses that every filter holds: both hold then without a condition on steps.
THEOREM FilterRight ==
  ASSUME \A t \in Announced : Pay[t] <= Spare
  PROVE  Spec => [](TypeOK /\ FilterComesBack /\ NextAddressesWatched)
<1>1. TypeOK /\ FilterInv /\ [Next]_vars => ~OutgrownAgain
  <2> SUFFICES ASSUME TypeOK, FilterInv, AcceptMempoolTx PROVE bloomFilter' = bloomFilter
    BY DEF OutgrownAgain
  <2> DEFINE t == Head(fromPeer).arg
             r == RelayedTx(t)
  <2>1. fromPeer # <<>> /\ Head(fromPeer).type = "mempool" /\ bloomFilter' = r.f
    BY DEF AcceptMempoolTx, Receive
  <2>2. /\ fromPeer \in Seq(FromPeerMsg) /\ peer \in Peers
        /\ wallet \in Wallets /\ HasUsed(wallet) /\ bloomFilter \in Filter
        /\ Fits(wallet, bloomFilter)
    BY DEF TypeOK, FilterInv
  <2>3. Head(fromPeer) \in FromPeerMsg
    BY <2>1, <2>2
  <2>4. t \in Announced /\ t \in Tx
    BY <2>1, <2>3, ChainSyncAssumption DEF FromPeerMsg
  <2> HIDE DEF t
  <2>5. r.f = bloomFilter
    BY <2>2, <2>4, RelayedTxFacts
  <2> QED
    BY <2>1, <2>5
<1>2. Init => TypeOK /\ FilterInv
  BY InitFilter
<1>3. TypeOK /\ FilterInv /\ [Next]_vars => TypeOK' /\ FilterInv'
  BY <1>1, StepKeeps
<1>4. TypeOK /\ FilterInv => FilterComesBack /\ NextAddressesWatched
  BY ComesBack, NextMatched
<1> QED
  BY <1>2, <1>3, <1>4, PTL DEF Spec
=============================================================================
