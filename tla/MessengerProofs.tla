--------------------------- MODULE MessengerProofs ---------------------------
(***************************************************************************)
(* For any number of users and messages: a conversation belongs to two     *)
(* people, and once it is set up its location never changes.               *)
(***************************************************************************)
EXTENDS Messenger, TLAPS

USE MessengerAssumption

\* The variables the two results are about.
TypeCore ==
  /\ up \in [Msgs -> Upload]
  /\ stored \in [Msgs -> Location]
  /\ ptr \in [Users -> [Users -> Location]]
  /\ cache \in [Users -> [Users -> Location \cup {Unknown}]]
  /\ net \in [Users -> Seq(Write)]

\* A send has a sender and a receiver from its first step on, and the location it
\* writes to belongs to the two.
SendInv(m) ==
  /\ up[m].pc = "unsent" => up[m].from = None /\ up[m].loc = None
  /\ up[m].pc # "unsent" => up[m].from \in Users /\ up[m].to \in Users
  /\ up[m].loc # None => Between(up[m].loc, up[m].from, up[m].to)

\* So does the location a write under way names.
WriteInv(w) ==
  /\ w.kind = "message" => /\ up[w.msg].pc # "unsent"
                           /\ Between(w.loc, up[w.msg].from, up[w.msg].to)
  /\ w.kind = "pointer" => Between(w.loc, w.user, w.peer)

\* The inductive invariant.
PairInv ==
  /\ TypeCore
  /\ \A m \in Msgs : SendInv(m)
  /\ \A u \in Users : \A i \in 1..Len(net[u]) : WriteInv(net[u][i])
  /\ \A m \in Msgs : stored[m] # None => up[m].pc # "unsent"
  /\ OnePairPerLocation

LEMMA PairInit == Init => PairInv
<1> SUFFICES ASSUME Init PROVE PairInv
  OBVIOUS
<1>1. TypeCore
  BY DEF Init, TypeCore, Upload, Location, Each
<1>2. \A m \in Msgs : SendInv(m)
  BY DEF Init, SendInv
<1>3. \A u \in Users : \A i \in 1..Len(net[u]) : WriteInv(net[u][i])
  BY DEF Init
<1>4. OnePairPerLocation /\ \A m \in Msgs : stored[m] = None
  BY DEF Init, OnePairPerLocation, Each
<1> QED
  BY <1>1, <1>2, <1>3, <1>4 DEF PairInv

----------------------------------------------------------------------------
(* What a step must do to keep the invariant. *)

\* A message that was sent stays sent, by the same person to the same person.
Keeps ==
  \A m \in Msgs : up[m].pc # "unsent" =>
    up'[m].pc # "unsent" /\ up'[m].from = up[m].from /\ up'[m].to = up[m].to

LEMMA BetweenKept ==
  ASSUME PairInv, Keeps, NEW l \in Msgs, NEW u \in Users, NEW v \in Users, Between(l, u, v)
  PROVE  Between(l, u, v)'
<1>1. up[l].pc # "unsent"
  BY DEF PairInv, SendInv, Between
<1> QED
  BY <1>1 DEF Keeps, Between

\* A step that leaves a send alone, or moves it on without a new location.
LEMMA SendKept ==
  ASSUME PairInv, TypeCore', Keeps, NEW m \in Msgs,
         up'[m].pc = "unsent" => up'[m] = up[m],
         up[m].pc # "unsent" => up'[m].loc = up[m].loc,
         up[m].pc = "unsent" /\ up'[m].pc # "unsent" =>
           up'[m].from \in Users /\ up'[m].to \in Users /\ up'[m].loc = None
  PROVE  SendInv(m)'
<1>1. SendInv(m) /\ up[m].loc \in Msgs \cup {None}
  BY DEF PairInv, TypeCore, Upload, Location
<1>2. CASE up[m].pc = "unsent"
  BY <1>1, <1>2 DEF SendInv
<1>3. CASE up[m].pc # "unsent"
  <2>1. up'[m].pc # "unsent" /\ up'[m].from = up[m].from /\ up'[m].to = up[m].to
    BY <1>3 DEF Keeps
  <2>2. up[m].from \in Users /\ up[m].to \in Users
    BY <1>1, <1>3 DEF SendInv
  <2>3. up[m].loc # None => Between(up[m].loc, up[m].from, up[m].to)'
    <3> SUFFICES ASSUME up[m].loc # None
                 PROVE  Between(up[m].loc, up[m].from, up[m].to)'
      OBVIOUS
    <3>1. Between(up[m].loc, up[m].from, up[m].to) /\ up[m].loc \in Msgs
      BY <1>1 DEF SendInv
    <3>2. up'[m].loc = up[m].loc
      BY <1>3
    <3>3. \A l \in Msgs, u, v \in Users : Between(l, u, v) => Between(l, u, v)'
      BY BetweenKept
    <3> QED
      BY <2>1, <2>2, <3>1, <3>2, <3>3 DEF Between
  <2> QED
    BY <1>3, <2>1, <2>2, <2>3 DEF SendInv
<1> QED
  BY <1>2, <1>3

\* A write that was under way is still about the same people.
LEMMA WriteKept ==
  ASSUME PairInv, Keeps, NEW w \in Write, WriteInv(w)
  PROVE  WriteInv(w)'
<1>1. CASE w.kind = "message"
  <2>1. /\ w.msg \in Msgs /\ w.loc \in Msgs /\ up[w.msg].pc # "unsent"
        /\ Between(w.loc, up[w.msg].from, up[w.msg].to)
    BY <1>1 DEF Write, WriteInv
  <2>2. up[w.msg].from \in Users /\ up[w.msg].to \in Users
    BY <2>1 DEF PairInv, SendInv
  <2>3. up[w.loc].pc # "unsent"
    BY <2>1, <2>2 DEF PairInv, SendInv, Between
  <2> QED
    BY <1>1, <2>1, <2>3 DEF Keeps, WriteInv, Between
<1>2. CASE w.kind = "pointer"
  <2>1. w.user \in Users /\ w.peer \in Users /\ w.loc \in Msgs /\ Between(w.loc, w.user, w.peer)
    BY <1>2 DEF Write, WriteInv
  <2>2. up[w.loc].pc # "unsent"
    BY <2>1 DEF PairInv, SendInv, Between
  <2> QED
    BY <1>2, <2>1, <2>2 DEF Keeps, WriteInv, Between
<1> QED
  BY <1>1, <1>2 DEF WriteInv

\* Pointers, caches and stored messages that change do so to locations of the pair.
LEMMA PlacesKept ==
  ASSUME PairInv, TypeCore', Keeps,
         \A u, v \in Users : \/ ptr'[u][v] = ptr[u][v]
                             \/ Between(ptr[u][v], u, v)',
         \A u, v \in Users : \/ cache'[u][v] \in {cache[u][v], None, Unknown}
                             \/ Between(cache[u][v], u, v)',
         \A m \in Msgs : \/ stored'[m] = stored[m]
                         \/ /\ up'[m].pc # "unsent"
                            /\ Between(stored[m], up[m].from, up[m].to)'
  PROVE  OnePairPerLocation' /\ \A m \in Msgs : stored'[m] # None => up'[m].pc # "unsent"
<1>0. \A l \in Msgs, u, v \in Users : Between(l, u, v) => Between(l, u, v)'
  BY BetweenKept
<1>1. ASSUME NEW u \in Users, NEW v \in Users
      PROVE  /\ ptr'[u][v] # None => Between(ptr[u][v], u, v)'
             /\ cache'[u][v] \in Msgs => Between(cache[u][v], u, v)'
  <2>1. ptr[u][v] # None => ptr[u][v] \in Msgs /\ Between(ptr[u][v], u, v)
    BY DEF PairInv, OnePairPerLocation, TypeCore, Location
  <2>2. cache[u][v] \in Msgs => Between(cache[u][v], u, v)
    BY DEF PairInv, OnePairPerLocation
  <2> QED
    BY <1>0, <2>1, <2>2 DEF Between
<1>2. ASSUME NEW m \in Msgs, stored'[m] # None
      PROVE  up'[m].pc # "unsent" /\ Between(stored[m], up[m].from, up[m].to)'
  <2>1. CASE stored'[m] = stored[m]
    <3>1. /\ stored[m] \in Msgs /\ up[m].pc # "unsent"
          /\ Between(stored[m], up[m].from, up[m].to)
      BY <1>2, <2>1 DEF PairInv, OnePairPerLocation, TypeCore, Location
    <3>2. up[m].from \in Users /\ up[m].to \in Users
      BY <3>1 DEF PairInv, SendInv
    <3>3. up'[m].pc # "unsent" /\ up'[m].from = up[m].from /\ up'[m].to = up[m].to
      BY <3>1 DEF Keeps
    <3>4. up[stored[m]].pc # "unsent"
      BY <3>1, <3>2 DEF PairInv, SendInv, Between
    <3> QED
      BY <2>1, <3>1, <3>3, <3>4 DEF Keeps, Between
  <2> QED
    BY <1>2, <2>1
<1> QED
  BY <1>1, <1>2 DEF OnePairPerLocation, Between

\* Writes under way are those of before, or new ones that are right.
LEMMA NetKept ==
  ASSUME PairInv, Keeps,
         \A u \in Users : \A i \in 1..Len(net'[u]) :
           \/ \E j \in 1..Len(net[u]) : net'[u][i] = net[u][j]
           \/ WriteInv(net[u][i])'
  PROVE  \A u \in Users : \A i \in 1..Len(net'[u]) : WriteInv(net[u][i])'
<1> SUFFICES ASSUME NEW u \in Users, NEW i \in 1..Len(net'[u]),
                    NEW j \in 1..Len(net[u]), net'[u][i] = net[u][j]
             PROVE  WriteInv(net[u][i])'
  OBVIOUS
<1>1. net[u][j] \in Write /\ WriteInv(net[u][j])
  BY DEF PairInv, TypeCore
<1>2. \A w \in Write : WriteInv(w) => WriteInv(w)'
  BY WriteKept
<1> QED
  BY SMTT(30), <1>1, <1>2 DEF WriteInv, Between

----------------------------------------------------------------------------
(* The steps. *)

LEMMA ScreenStep ==
  ASSUME PairInv, UNCHANGED <<up, stored, ptr, cache, net>>
  PROVE  PairInv'
BY DEF PairInv, TypeCore, SendInv, WriteInv, OnePairPerLocation, Between

\* Steps that only move a send on.
LEMMA MoveStep ==
  ASSUME PairInv, NEW m \in Msgs, PictureStored(m) \/ PictureFails(m) \/ AppendDone(m)
  PROVE  PairInv'
<1>1. PICK pc \in {"reading", "silent", "true", "false"} :
        up[m].pc # "unsent" /\ up' = [up EXCEPT ![m].pc = pc]
  BY DEF PictureStored, PictureFails, AppendDone
<1>2. UNCHANGED <<stored, ptr, cache, net>>
  BY DEF PictureStored, PictureFails, AppendDone
<1>3. TypeCore'
  <2>1. up \in [Msgs -> Upload]
    BY DEF PairInv, TypeCore
  <2>2. up' \in [Msgs -> Upload]
    BY <1>1, <2>1 DEF Upload, Busy, Ended
  <2> QED
    BY <1>2, <2>2 DEF PairInv, TypeCore
<1>4. Keeps
  BY <1>1 DEF PairInv, TypeCore, Upload, Keeps
<1>5. \A n \in Msgs : SendInv(n)'
  <2> TAKE n \in Msgs
  <2>1. /\ up'[n].pc = "unsent" => up'[n] = up[n]
        /\ up[n].pc # "unsent" => up'[n].loc = up[n].loc
        /\ up[n].pc = "unsent" => up'[n].pc = "unsent"
    BY <1>1 DEF PairInv, TypeCore, Upload
  <2> QED
    BY <1>3, <1>4, <2>1, SendKept
<1>6. \A u \in Users : \A i \in 1..Len(net'[u]) : WriteInv(net[u][i])'
  BY <1>2, <1>4, NetKept
<1>7. OnePairPerLocation' /\ \A n \in Msgs : stored'[n] # None => up'[n].pc # "unsent"
  BY <1>2, <1>3, <1>4, PlacesKept
<1> QED
  BY <1>3, <1>5, <1>6, <1>7 DEF PairInv

LEMMA ComposeStep ==
  ASSUME PairInv, NEW m \in Msgs, NEW u \in Users, NEW v \in Users, NEW kind \in Kinds,
         Compose(u, v, m, kind)
  PROVE  PairInv'
<1>1. PICK pc \in {"picture", "reading"} :
        /\ up[m].pc = "unsent"
        /\ up' = [up EXCEPT ![m] = [pc |-> pc, from |-> u, to |-> v, loc |-> None]]
  BY DEF Compose
<1>2. UNCHANGED <<stored, ptr, cache, net>>
  BY DEF Compose
<1>3. TypeCore'
  BY <1>1, <1>2 DEF PairInv, TypeCore, Upload, Busy, Ended, Location
<1>4. Keeps
  BY <1>1 DEF PairInv, TypeCore, Upload, Keeps
<1>5. \A n \in Msgs : SendInv(n)'
  <2> TAKE n \in Msgs
  <2>1. /\ up'[n].pc = "unsent" => up'[n] = up[n]
        /\ up[n].pc # "unsent" => up'[n].loc = up[n].loc
        /\ up[n].pc = "unsent" /\ up'[n].pc # "unsent" =>
             up'[n].from \in Users /\ up'[n].to \in Users /\ up'[n].loc = None
    BY <1>1 DEF PairInv, TypeCore, Upload
  <2> QED
    BY <1>3, <1>4, <2>1, SendKept
<1>6. \A x \in Users : \A i \in 1..Len(net'[x]) : WriteInv(net[x][i])'
  BY <1>2, <1>4, NetKept
<1>7. OnePairPerLocation' /\ \A n \in Msgs : stored'[n] # None => up'[n].pc # "unsent"
  BY <1>2, <1>3, <1>4, PlacesKept
<1> QED
  BY <1>3, <1>5, <1>6, <1>7 DEF PairInv

\* The location comes from the sender's pointer, or it is the message's own.
LEMMA ReadPointerStep ==
  ASSUME PairInv, NEW m \in Msgs, ReadPointer(m)
  PROVE  PairInv'
<1>1. up[m].pc = "reading" /\ UNCHANGED <<stored, ptr, cache>>
  BY DEF ReadPointer
<1>2. PICK u \in Users, v \in Users : up[m].from = u /\ up[m].to = v
  BY <1>1 DEF PairInv, SendInv
<1>3. PICK l \in Msgs, pc \in {"create", "append"} :
        /\ Between(l, u, v)
        /\ up' = [up EXCEPT ![m].pc = pc, ![m].loc = l]
        /\ net' = [net EXCEPT ![u] = Append(@, [kind |-> "message", msg |-> m, loc |-> l])]
  <2>1. cache[u][v] \in Location \cup {Unknown} /\ cache[u][v] # Unknown
    BY <1>2 DEF PairInv, TypeCore, ReadPointer
  <2>2. CASE cache[u][v] = None
    BY <1>2, <2>2 DEF ReadPointer, Between
  <2>3. CASE cache[u][v] \in Msgs
    <3>1. Between(cache[u][v], u, v)
      BY <2>3 DEF PairInv, OnePairPerLocation
    <3> QED
      BY <1>2, <2>3, <3>1 DEF ReadPointer
  <2> QED
    BY <2>1, <2>2, <2>3 DEF Location
<1> DEFINE w == [kind |-> "message", msg |-> m, loc |-> l]
<1>4. w \in Write
  BY DEF Write
<1>5. /\ \A n \in Msgs : n # m => up'[n] = up[n]
      /\ up'[m].pc = pc /\ up'[m].from = u /\ up'[m].to = v /\ up'[m].loc = l
  BY <1>2, <1>3 DEF PairInv, TypeCore, Upload
<1>6. TypeCore'
  <2>1. up' \in [Msgs -> Upload]
    <3>1. up[m] \in Upload /\ up \in [Msgs -> Upload]
      BY DEF PairInv, TypeCore
    <3>2. [up[m] EXCEPT !.pc = pc, !.loc = l] \in Upload
      BY <3>1 DEF Upload, Busy, Ended, Location
    <3>3. up' = [up EXCEPT ![m] = [up[m] EXCEPT !.pc = pc, !.loc = l]]
      BY <1>3, <3>1 DEF Upload
    <3> QED
      BY <3>1, <3>2, <3>3
  <2>2. net' \in [Users -> Seq(Write)]
    BY <1>3, <1>4 DEF PairInv, TypeCore
  <2> QED
    BY <1>1, <2>1, <2>2 DEF PairInv, TypeCore
<1>7. Keeps
  BY <1>1, <1>2, <1>5 DEF Keeps
<1>8. Between(l, u, v)'
  BY <1>3, <1>7, BetweenKept
<1>9. \A n \in Msgs : SendInv(n)'
  <2> TAKE n \in Msgs
  <2>1. CASE n = m
    BY <1>5, <1>8, <2>1 DEF SendInv, Between
  <2>2. CASE n # m
    BY <1>5, <1>6, <1>7, <2>2, SendKept
  <2> QED
    BY <2>1, <2>2
<1>10. \A x \in Users : \A i \in 1..Len(net'[x]) : WriteInv(net[x][i])'
  <2>1. \A x \in Users : \A i \in 1..Len(net'[x]) :
          (\E j \in 1..Len(net[x]) : net'[x][i] = net[x][j]) \/ net'[x][i] = w
    BY <1>3, <1>4 DEF PairInv, TypeCore
  <2>2. WriteInv(w)'
    BY <1>5, <1>8 DEF WriteInv, Between
  <2>3. \A x \in Users : \A i \in 1..Len(net'[x]) : net'[x][i] = w => WriteInv(net[x][i])'
    BY <2>2 DEF WriteInv, Between
  <2> QED
    BY <1>7, <2>1, <2>3, NetKept
<1>11. OnePairPerLocation' /\ \A n \in Msgs : stored'[n] # None => up'[n].pc # "unsent"
  BY <1>1, <1>6, <1>7, PlacesKept
<1> QED
  BY <1>6, <1>9, <1>10, <1>11 DEF PairInv

\* The two pointers of a first message lead to its own location.
LEMMA CreateDoneStep ==
  ASSUME PairInv, NEW m \in Msgs, CreateDone(m)
  PROVE  PairInv'
<1>1. up[m].pc # "unsent" /\ up' = [up EXCEPT ![m].pc = "true"] /\ UNCHANGED <<stored, ptr>>
  BY DEF CreateDone
<1>2. PICK u \in Users, v \in Users : up[m].from = u /\ up[m].to = v
  BY <1>1 DEF PairInv, SendInv
<1> DEFINE w == Pointer(u, v, m)
           x == Pointer(v, u, m)
<1>3. /\ net' = [net EXCEPT ![u] = @ \o <<w, x>>]
      /\ cache' = [cache EXCEPT ![u][v] = m]
  BY <1>2 DEF CreateDone, Hear, Pointers
<1>4. w \in Write /\ x \in Write
  BY DEF Pointer, Write
<1>5. /\ \A n \in Msgs : n # m => up'[n] = up[n]
      /\ up'[m].pc = "true" /\ up'[m].from = u /\ up'[m].to = v /\ up'[m].loc = up[m].loc
  BY <1>1, <1>2 DEF PairInv, TypeCore, Upload
<1>6. TypeCore'
  <2>1. up' \in [Msgs -> Upload]
    <3>1. up[m] \in Upload /\ up \in [Msgs -> Upload]
      BY DEF PairInv, TypeCore
    <3>2. [up[m] EXCEPT !.pc = "true"] \in Upload
      BY <3>1 DEF Upload, Busy, Ended
    <3> QED
      BY <1>1, <3>1, <3>2
  <2>2. net' \in [Users -> Seq(Write)]
    <3> HIDE DEF w, x
    <3> QED
      BY <1>3, <1>4 DEF PairInv, TypeCore
  <2>3. cache' \in [Users -> [Users -> Location \cup {Unknown}]]
    BY <1>3 DEF PairInv, TypeCore, Location
  <2> QED
    BY <1>1, <2>1, <2>2, <2>3 DEF PairInv, TypeCore
<1>7. Keeps
  BY <1>1, <1>2, <1>5 DEF Keeps
<1>8. Between(m, u, v)' /\ Between(m, v, u)'
  BY <1>5 DEF Between
<1>9. \A n \in Msgs : SendInv(n)'
  <2> TAKE n \in Msgs
  <2>1. /\ up'[n].pc = "unsent" => up'[n] = up[n]
        /\ up[n].pc # "unsent" => up'[n].loc = up[n].loc
        /\ up[n].pc = "unsent" => up'[n].pc = "unsent"
    BY <1>1, <1>5
  <2> QED
    BY <1>6, <1>7, <2>1, SendKept
<1>10. \A y \in Users : \A i \in 1..Len(net'[y]) : WriteInv(net[y][i])'
  <2>1. \A y \in Users : \A i \in 1..Len(net'[y]) :
          \/ \E j \in 1..Len(net[y]) : net'[y][i] = net[y][j]
          \/ net'[y][i] \in {w, x}
    <3> HIDE DEF w, x
    <3> QED
      BY <1>3, <1>4 DEF PairInv, TypeCore
  <2>2. ASSUME NEW y \in Users, NEW i \in 1..Len(net'[y]), net'[y][i] \in {w, x}
        PROVE  WriteInv(net[y][i])'
    BY <1>8, <2>2 DEF WriteInv, Between, Pointer
  <2> QED
    BY <1>7, <2>1, <2>2, NetKept
<1>11. OnePairPerLocation' /\ \A n \in Msgs : stored'[n] # None => up'[n].pc # "unsent"
  <2>1. \A y, z \in Users : cache'[y][z] = cache[y][z] \/ Between(cache[y][z], y, z)'
    <3>1. ASSUME NEW y \in Users, NEW z \in Users, cache'[y][z] # cache[y][z]
          PROVE  y = u /\ z = v /\ cache'[y][z] = m
      BY <1>3, <3>1 DEF PairInv, TypeCore
    <3> QED
      BY <1>8, <3>1 DEF Between
  <2> QED
    BY <1>1, <1>6, <1>7, <2>1, PlacesKept
<1> QED
  BY <1>6, <1>9, <1>10, <1>11 DEF PairInv

LEMMA MarkStep ==
  ASSUME PairInv, NEW u \in Users, NEW v \in Users, NEW k \in Marks, MarkReadMessages(u, v, k)
  PROVE  PairInv'
<1>1. UNCHANGED <<up, stored, ptr, cache>>
  BY DEF MarkReadMessages
<1>2. CASE net' = net
  BY <1>1, <1>2, ScreenStep
<1>3. CASE net' # net
  <2>1. PICK ms \in SUBSET Msgs :
          net' = [net EXCEPT ![u] = Append(@, [kind |-> "read", msgs |-> ms])]
    BY <1>3 DEF MarkReadMessages, Markable, Visible
  <2> DEFINE w == [kind |-> "read", msgs |-> ms]
  <2>2. w \in Write
    BY DEF Write
  <2>3. TypeCore'
    BY <1>1, <2>1, <2>2 DEF PairInv, TypeCore
  <2>4. \A y \in Users : \A i \in 1..Len(net'[y]) :
          (\E j \in 1..Len(net[y]) : net'[y][i] = net[y][j]) \/ net'[y][i] = w
    BY <2>1, <2>2 DEF PairInv, TypeCore
  <2>5. \A y \in Users : \A i \in 1..Len(net'[y]) : net'[y][i] = w => WriteInv(net[y][i])'
    BY DEF WriteInv
  <2>6. Keeps
    BY <1>1 DEF Keeps
  <2>7. \A y \in Users : \A i \in 1..Len(net'[y]) : WriteInv(net[y][i])'
    BY SMTT(30), <2>4, <2>5, <2>6, NetKept
  <2> QED
    BY <1>1, <2>3, <2>7 DEF PairInv, SendInv, OnePairPerLocation, Between
<1> QED
  BY <1>2, <1>3

----------------------------------------------------------------------------
(* The steps of the database. *)

\* The write at the head of a queue.
LEMMA HeadWrite ==
  ASSUME PairInv, NEW u \in Users, net[u] # << >>
  PROVE  Head(net[u]) \in Write /\ WriteInv(Head(net[u]))
<1>1. net[u] \in Seq(Write) /\ 1 \in 1..Len(net[u]) /\ Head(net[u]) = net[u][1]
  BY DEF PairInv, TypeCore
<1>2. WriteInv(net[u][1])
  BY <1>1 DEF PairInv
<1> QED
  BY <1>1, <1>2

\* Writes that leave the queue of one user, the others staying as they are.
LEMMA PopMembers ==
  ASSUME PairInv, NEW u \in Users, net[u] # << >>, Pop(u)
  PROVE  /\ net' \in [Users -> Seq(Write)]
         /\ \A y \in Users : \A i \in 1..Len(net'[y]) :
              \E j \in 1..Len(net[y]) : net'[y][i] = net[y][j]
<1>1. net' = [net EXCEPT ![u] = Tail(net[u])] /\ net \in [Users -> Seq(Write)]
  BY DEF Pop, PairInv, TypeCore
<1>2. Tail(net[u]) \in Seq(Write)
  BY <1>1
<1>3. net' \in [Users -> Seq(Write)]
  BY <1>1, <1>2
<1>4. \A y \in Users : \A i \in 1..Len(net'[y]) :
        \E j \in 1..Len(net[y]) : net'[y][i] = net[y][j]
  <2> TAKE y \in Users
  <2> TAKE i \in 1..Len(net'[y])
  <2>1. CASE y = u
    <3>1. net'[y] = Tail(net[y]) /\ net[y] \in Seq(Write) /\ net[y] # << >>
      BY <1>1, <2>1
    <3>2. i + 1 \in 1..Len(net[y]) /\ net'[y][i] = net[y][i + 1]
      BY <3>1
    <3> QED
      BY <3>2
  <2>2. CASE y # u
    BY <1>1, <2>2
  <2> QED
    BY <2>1, <2>2
<1> QED
  BY <1>3, <1>4

LEMMA PopKept ==
  ASSUME PairInv, Keeps, NEW u \in Users, net[u] # << >>, Pop(u)
  PROVE  /\ net' \in [Users -> Seq(Write)]
         /\ \A y \in Users : \A i \in 1..Len(net'[y]) : WriteInv(net[y][i])'
BY PopMembers, NetKept

\* The answer to a message moves its send on.
LEMMA ReportKept ==
  ASSUME PairInv, NEW m \in Msgs, up[m].pc # "unsent",
         \/ Report(m, [append |-> "appended", create |-> "created"])
         \/ Report(m, [append |-> "refused", create |-> "uncreated"])
  PROVE  /\ up' \in [Msgs -> Upload] /\ Keeps
         /\ \A n \in Msgs : /\ up'[n].loc = up[n].loc
                            /\ up'[n].pc = "unsent" => up'[n] = up[n]
                            /\ up[n].pc = "unsent" => up'[n].pc = "unsent"
<1>1. up \in [Msgs -> Upload] /\ up[m] \in Upload
  BY DEF PairInv, TypeCore
<1>2. CASE up' = up
  BY <1>1, <1>2 DEF Keeps
<1>3. CASE up' # up
  <2>1. PICK pc \in {"appended", "created", "refused", "uncreated"} :
          up' = [up EXCEPT ![m].pc = pc]
    BY <1>3 DEF Report
  <2>2. [up[m] EXCEPT !.pc = pc] \in Upload
    BY <1>1 DEF Upload, Busy
  <2>3. up' \in [Msgs -> Upload]
    BY <1>1, <2>1, <2>2
  <2>4. /\ \A n \in Msgs : n # m => up'[n] = up[n]
        /\ up'[m].pc = pc /\ up'[m].from = up[m].from /\ up'[m].to = up[m].to
        /\ up'[m].loc = up[m].loc
    BY <1>1, <2>1 DEF Upload
  <2> QED
    BY <2>3, <2>4 DEF Keeps
<1> QED
  BY <1>2, <1>3

LEMMA MessageStep ==
  ASSUME PairInv, NEW u \in Users, ApplyMessage(u) \/ RefuseMessage(u)
  PROVE  PairInv'
<1> DEFINE w == Head(net[u])
<1>1. /\ net[u] # << >> /\ w.kind = "message" /\ Pop(u)
      /\ UNCHANGED <<ptr, cache>>
      /\ stored' = stored \/ stored' = [stored EXCEPT ![w.msg] = w.loc]
  BY DEF ApplyMessage, RefuseMessage
<1>2. PICK m \in Msgs, l \in Msgs : w.msg = m /\ w.loc = l
  BY <1>1, HeadWrite DEF Write
<1>3. up[m].pc # "unsent" /\ Between(l, up[m].from, up[m].to)
  BY <1>1, <1>2, HeadWrite DEF WriteInv
<1>r. \/ Report(m, [append |-> "appended", create |-> "created"])
      \/ Report(m, [append |-> "refused", create |-> "uncreated"])
  BY <1>2 DEF ApplyMessage, RefuseMessage
<1>4. up' \in [Msgs -> Upload] /\ Keeps
  BY <1>3, <1>r, ReportKept
<1>5. stored' = stored \/ stored' = [stored EXCEPT ![m] = l]
  BY <1>1, <1>2
<1>6. TypeCore'
  <2>1. net' \in [Users -> Seq(Write)]
    BY <1>1, <1>4, PopKept
  <2>2. stored' \in [Msgs -> Location]
    BY <1>5 DEF PairInv, TypeCore, Location
  <2> QED
    BY <1>1, <1>4, <2>1, <2>2 DEF PairInv, TypeCore
<1>7. \A n \in Msgs : SendInv(n)'
  <2> TAKE n \in Msgs
  <2>1. up'[n].pc = "unsent" => up'[n] = up[n]
    BY <1>3, <1>r, ReportKept
  <2>2. up'[n].loc = up[n].loc
    BY <1>3, <1>r, ReportKept
  <2>3. up[n].pc = "unsent" => up'[n].pc = "unsent"
    BY <1>3, <1>r, ReportKept
  <2> QED
    BY <1>4, <1>6, <2>1, <2>2, <2>3, SendKept
<1>8. \A y \in Users : \A i \in 1..Len(net'[y]) : WriteInv(net[y][i])'
  BY <1>1, <1>4, PopKept
<1>9. OnePairPerLocation' /\ \A n \in Msgs : stored'[n] # None => up'[n].pc # "unsent"
  <2>1. PICK a \in Users, b \in Users : up[m].from = a /\ up[m].to = b
    BY <1>3 DEF PairInv, SendInv
  <2>2. Between(l, a, b)'
    BY <1>3, <1>4, <2>1, BetweenKept
  <2>3. up'[m].pc # "unsent" /\ up'[m].from = a /\ up'[m].to = b
    BY <1>3, <1>4, <2>1 DEF Keeps
  <2>4. \A n \in Msgs : \/ stored'[n] = stored[n]
                        \/ /\ up'[n].pc # "unsent"
                           /\ Between(stored[n], up[n].from, up[n].to)'
    <3>1. ASSUME NEW n \in Msgs, stored'[n] # stored[n]
          PROVE  n = m /\ stored'[n] = l
      BY <1>5, <3>1 DEF PairInv, TypeCore
    <3> QED
      BY <2>2, <2>3, <3>1 DEF Between
  <2> QED
    BY <1>1, <1>4, <1>6, <2>4, PlacesKept
<1> QED
  BY <1>6, <1>7, <1>8, <1>9 DEF PairInv

LEMMA PointerStep ==
  ASSUME PairInv, NEW u \in Users, ApplyPointer(u)
  PROVE  PairInv'
<1> DEFINE w == Head(net[u])
<1>1. /\ net[u] # << >> /\ w.kind = "pointer" /\ Pop(u)
      /\ UNCHANGED <<up, stored, cache>>
      /\ ptr' = [ptr EXCEPT ![w.user][w.peer] = w.loc]
  BY DEF ApplyPointer
<1>2. PICK a \in Users, b \in Users, l \in Msgs : w.user = a /\ w.peer = b /\ w.loc = l
  BY <1>1, HeadWrite DEF Write
<1>3. Between(l, a, b)
  BY <1>1, <1>2, HeadWrite DEF WriteInv
<1>4. Keeps
  BY <1>1 DEF Keeps
<1>5. /\ net' \in [Users -> Seq(Write)]
      /\ \A y \in Users : \A i \in 1..Len(net'[y]) : WriteInv(net[y][i])'
  BY <1>1, <1>4, PopKept
<1>6. ptr' = [ptr EXCEPT ![a][b] = l]
  BY <1>1, <1>2
<1>7. TypeCore'
  <2>1. ptr' \in [Users -> [Users -> Location]]
    BY <1>6 DEF PairInv, TypeCore, Location
  <2> QED
    BY <1>1, <1>5, <2>1 DEF PairInv, TypeCore
<1>8. \A n \in Msgs : SendInv(n)'
  BY <1>1 DEF PairInv, SendInv, Between
<1>9. OnePairPerLocation' /\ \A n \in Msgs : stored'[n] # None => up'[n].pc # "unsent"
  <2>1. \A y, z \in Users : ptr'[y][z] = ptr[y][z] \/ Between(ptr[y][z], y, z)'
    <3>1. ASSUME NEW y \in Users, NEW z \in Users, ptr'[y][z] # ptr[y][z]
          PROVE  y = a /\ z = b /\ ptr'[y][z] = l
      BY <1>6, <3>1 DEF PairInv, TypeCore
    <3>2. Between(l, a, b)'
      BY <1>3, <1>4, BetweenKept
    <3> QED
      BY <3>1, <3>2 DEF Between
  <2> QED
    BY <1>1, <1>4, <1>7, <2>1, PlacesKept
<1> QED
  BY <1>5, <1>7, <1>8, <1>9 DEF PairInv

LEMMA RefusedStep ==
  ASSUME PairInv, NEW u \in Users, RefusePointer(u)
  PROVE  PairInv'
<1>1. /\ net[u] # << >> /\ Pop(u)
      /\ UNCHANGED <<up, stored, ptr, cache>>
  BY DEF RefusePointer
<1>2. Keeps
  BY <1>1 DEF Keeps
<1>3. /\ net' \in [Users -> Seq(Write)]
      /\ \A y \in Users : \A i \in 1..Len(net'[y]) : WriteInv(net[y][i])'
  BY <1>1, <1>2, PopKept
<1>4. TypeCore' /\ \A n \in Msgs : SendInv(n)'
  BY <1>1, <1>3 DEF PairInv, TypeCore, SendInv, Between
<1>5. OnePairPerLocation' /\ \A n \in Msgs : stored'[n] # None => up'[n].pc # "unsent"
  BY <1>1 DEF PairInv, OnePairPerLocation, Between
<1> QED
  BY <1>3, <1>4, <1>5 DEF PairInv

\* One of the flags of a read write is set; the rest stays at the head.
LEMMA ReadMembers ==
  ASSUME PairInv, NEW u \in Users, ApplyRead(u)
  PROVE  /\ net' \in [Users -> Seq(Write)]
         /\ \A y \in Users : \A i \in 1..Len(net'[y]) :
              \/ \E j \in 1..Len(net[y]) : net'[y][i] = net[y][j]
              \/ net'[y][i].kind = "read"
<1> DEFINE w == Head(net[u])
<1>1. net[u] # << >> /\ w.kind = "read"
  BY DEF ApplyRead
<1>2. w.msgs \in SUBSET Msgs
  BY <1>1, HeadWrite DEF Write
<1>3. CASE Pop(u)
  BY <1>1, <1>3, PopMembers
<1>4. CASE ~Pop(u)
  <2>1. PICK rest \in SUBSET Msgs :
          net' = [net EXCEPT ![u] = <<[kind |-> "read", msgs |-> rest]>> \o Tail(net[u])]
    BY <1>2, <1>4 DEF ApplyRead, Pop
  <2> DEFINE x == [kind |-> "read", msgs |-> rest]
  <2>2. x \in Write /\ x.kind = "read"
    BY DEF Write
  <2>3. net \in [Users -> Seq(Write)] /\ Tail(net[u]) \in Seq(Write)
    BY <1>1 DEF PairInv, TypeCore
  <2> HIDE DEF x
  <2>4. <<x>> \o Tail(net[u]) \in Seq(Write)
    BY <2>2, <2>3
  <2>5. net' \in [Users -> Seq(Write)]
    BY <2>1, <2>3, <2>4 DEF x
  <2>6. \A y \in Users : \A i \in 1..Len(net'[y]) :
          (\E j \in 1..Len(net[y]) : net'[y][i] = net[y][j]) \/ net'[y][i] = x
    <3> TAKE y \in Users
    <3> TAKE i \in 1..Len(net'[y])
    <3>1. CASE y = u
      <4>1. net'[y] = <<x>> \o Tail(net[y]) /\ net[y] \in Seq(Write) /\ net[y] # << >>
        BY <1>1, <2>1, <2>3, <3>1 DEF x
      <4>2. i = 1 => net'[y][i] = x
        BY <4>1, <2>2
      <4>3. i # 1 => i \in 1..Len(net[y]) /\ net'[y][i] = net[y][i]
        BY <4>1, <2>2
      <4> QED
        BY <4>2, <4>3
    <3>2. CASE y # u
      BY <2>1, <2>3, <3>2
    <3> QED
      BY <3>1, <3>2
  <2> QED
    BY <2>2, <2>5, <2>6
<1> QED
  BY <1>3, <1>4

LEMMA ReadStep ==
  ASSUME PairInv, NEW u \in Users, ApplyRead(u)
  PROVE  PairInv'
<1>1. UNCHANGED <<up, stored, ptr, cache>>
  BY DEF ApplyRead
<1>2. Keeps
  BY <1>1 DEF Keeps
<1>3. \A y \in Users : \A i \in 1..Len(net'[y]) :
        net'[y][i].kind = "read" => WriteInv(net[y][i])'
  BY DEF WriteInv
<1>4. /\ net' \in [Users -> Seq(Write)]
      /\ \A y \in Users : \A i \in 1..Len(net'[y]) : WriteInv(net[y][i])'
  BY <1>2, <1>3, ReadMembers, NetKept
<1> QED
  BY <1>1, <1>4 DEF PairInv, TypeCore, SendInv, OnePairPerLocation, Between

LEMMA EventStep ==
  ASSUME PairInv, NEW u \in Users, NEW v \in Users, PointerEvent(u, v)
  PROVE  PairInv'
<1>1. UNCHANGED <<up, stored, ptr, net>> /\ cache' = [cache EXCEPT ![u][v] = ptr[u][v]]
  BY DEF PointerEvent, Hear
<1>2. TypeCore'
  <2>1. cache' \in [Users -> [Users -> Location \cup {Unknown}]]
    BY <1>1 DEF PairInv, TypeCore
  <2> QED
    BY <1>1, <2>1 DEF PairInv, TypeCore
<1>3. Keeps
  BY <1>1 DEF Keeps
<1>4. OnePairPerLocation' /\ \A n \in Msgs : stored'[n] # None => up'[n].pc # "unsent"
  <2>1. ASSUME NEW y \in Users, NEW z \in Users
        PROVE  cache'[y][z] \in {cache[y][z], None} \/ Between(cache[y][z], y, z)'
    <3>1. cache'[y][z] \in {cache[y][z], None, ptr[y][z]}
      BY <1>1 DEF PairInv, TypeCore
    <3>2. ptr[y][z] # None => Between(ptr[y][z], y, z)
      BY DEF PairInv, OnePairPerLocation
    <3> QED
      BY <1>1, <3>1, <3>2 DEF Between
  <2> QED
    BY <1>1, <1>2, <1>3, <2>1, PlacesKept
<1> QED
  BY SMTT(30), <1>1, <1>2, <1>4 DEF PairInv, SendInv, WriteInv, Between

LEMMA KilledStep ==
  ASSUME PairInv, NEW u \in Users, Killed(u)
  PROVE  PairInv'
<1>1. /\ UNCHANGED <<stored, ptr>>
      /\ cache' = [cache EXCEPT ![u] = [v \in Users |-> Unknown]]
      /\ up' = [m \in Msgs |-> IF up[m].from = u /\ up[m].pc \in Busy
                               THEN [up[m] EXCEPT !.pc = "silent"] ELSE up[m]]
  BY DEF Killed
<1>2. PICK n \in 0..Len(net[u]) : net' = [net EXCEPT ![u] = SubSeq(net[u], 1, n)]
  BY DEF Killed
<1>3. net \in [Users -> Seq(Write)] /\ up \in [Msgs -> Upload]
  BY DEF PairInv, TypeCore
<1>4. TypeCore'
  <2>1. SubSeq(net[u], 1, n) \in Seq(Write)
    BY <1>3
  <2>2. net' \in [Users -> Seq(Write)]
    BY <1>2, <1>3, <2>1
  <2>3. \A m \in Msgs : [up[m] EXCEPT !.pc = "silent"] \in Upload /\ up[m] \in Upload
    BY <1>3 DEF Upload, Ended
  <2>4. up' \in [Msgs -> Upload]
    BY <1>1, <2>3
  <2>5. cache' \in [Users -> [Users -> Location \cup {Unknown}]]
    BY <1>1 DEF PairInv, TypeCore
  <2> QED
    BY <1>1, <2>2, <2>4, <2>5 DEF PairInv, TypeCore
<1>5. \A m \in Msgs : /\ up'[m].loc = up[m].loc /\ up'[m].from = up[m].from
                      /\ up'[m].to = up[m].to
                      /\ up'[m].pc = "unsent" => up'[m] = up[m]
                      /\ up[m].pc = "unsent" => up'[m] = up[m]
  BY <1>1, <1>3 DEF Upload, Busy
<1>6. Keeps
  BY <1>5 DEF Keeps
<1>7. \A m \in Msgs : SendInv(m)'
  <2> TAKE m \in Msgs
  <2>1. /\ up'[m].loc = up[m].loc
        /\ up'[m].pc = "unsent" => up'[m] = up[m]
        /\ up[m].pc = "unsent" => up'[m] = up[m]
    BY <1>5
  <2> QED
    BY <1>4, <1>6, <2>1, SendKept
<1>8. \A y \in Users : \A i \in 1..Len(net'[y]) : WriteInv(net[y][i])'
  <2>1. \A y \in Users : \A i \in 1..Len(net'[y]) :
          \E j \in 1..Len(net[y]) : net'[y][i] = net[y][j]
    BY <1>2, <1>3
  <2> QED
    BY <1>6, <2>1, NetKept
<1>9. OnePairPerLocation' /\ \A m \in Msgs : stored'[m] # None => up'[m].pc # "unsent"
  <2>1. \A y, z \in Users : cache'[y][z] \in {cache[y][z], Unknown}
    BY <1>1 DEF PairInv, TypeCore
  <2> QED
    BY <1>1, <1>4, <1>6, <2>1, PlacesKept
<1> QED
  BY <1>4, <1>7, <1>8, <1>9 DEF PairInv

----------------------------------------------------------------------------

LEMMA PairNext == PairInv /\ [Next]_vars => PairInv'
<1> SUFFICES ASSUME PairInv, [Next]_vars PROVE PairInv'
  OBVIOUS
<1>1. CASE UNCHANGED vars
  BY <1>1, ScreenStep DEF vars
<1>2. ASSUME NEW m \in Msgs, Client(m) \/ PictureFails(m)
      PROVE  PairInv'
  BY <1>2, MoveStep, ReadPointerStep, CreateDoneStep DEF Client
<1>3. ASSUME NEW u \in Users,
             Apply(u) \/ RefuseMessage(u) \/ RefusePointer(u) \/ Killed(u)
      PROVE  PairInv'
  BY <1>3, MessageStep, PointerStep, RefusedStep, ReadStep, KilledStep DEF Apply
<1>4. ASSUME NEW u \in Users, NEW v \in Users, OpenChat(u, v) \/ CloseChat(u, v)
      PROVE  PairInv'
  BY <1>4, ScreenStep DEF OpenChat, CloseChat
<1>5. ASSUME NEW u \in Users, NEW v \in Users, NEW m \in Msgs, NEW kind \in Kinds,
             Compose(u, v, m, kind)
      PROVE  PairInv'
  BY <1>5, ComposeStep
<1>6. ASSUME NEW u \in Users, NEW v \in Users, Observe(u, v)
      PROVE  PairInv'
  <2>1. CASE PointerEvent(u, v)
    BY <2>1, EventStep
  <2>2. CASE ~PointerEvent(u, v)
    <3>1. UNCHANGED <<up, stored, ptr, cache, net>>
      BY <1>6, <2>2 DEF Observe, ShowMessage
    <3> QED
      BY <3>1, ScreenStep
  <2> QED
    BY <2>1, <2>2
<1>7. ASSUME NEW u \in Users, NEW v \in Users, MarkRead(u, v)
      PROVE  PairInv'
  <2>1. PICK k \in Marks : MarkReadPointer(u, v, k) \/ MarkReadMessages(u, v, k)
    BY <1>7 DEF MarkRead
  <2>2. CASE MarkReadPointer(u, v, k)
    <3>1. UNCHANGED <<up, stored, ptr, cache, net>>
      BY <2>2 DEF MarkReadPointer
    <3> QED
      BY <3>1, ScreenStep
  <2> QED
    BY <2>1, <2>2, MarkStep
<1> QED
  BY <1>1, <1>2, <1>3, <1>4, <1>5, <1>6, <1>7 DEF Next

\* Nobody reads along: for any number of users and messages, with refused writes and
\* killed apps, every pointer, cached pointer and stored message stays within the
\* conversation of its two people.
THEOREM ConversationsArePrivate == Spec => []OnePairPerLocation
<1>1. PairInv => OnePairPerLocation
  BY DEF PairInv
<1> QED
  BY <1>1, PairInit, PairNext, PTL DEF Spec

----------------------------------------------------------------------------
(* A conversation that is set up stays where it is. *)

FirstSteps == {"create", "created", "uncreated"}

\* What a step may do to the places, the sends and the writes of a settled pair.
LEMMA SettledKept ==
  ASSUME NEW u \in Users, NEW v \in Users, Settled(u, v),
         ptr'[u][v] = ptr[u][v], ptr'[v][u] = ptr[v][u],
         cache'[u][v] \in {cache[u][v], ptr[u][v], Unknown},
         cache'[v][u] \in {cache[v][u], ptr[v][u], Unknown},
         \A m \in Msgs : up'[m].pc \in FirstSteps =>
           \/ up'[m].from = up[m].from /\ up'[m].to = up[m].to /\ up[m].pc \in FirstSteps
           \/ ~Between(m, u, v)',
         \A x \in Users : \A i \in 1..Len(net'[x]) :
           \/ \E j \in 1..Len(net[x]) : net'[x][i] = net[x][j]
           \/ ~PendingPointer(net[x][i], u, v)' /\ ~PendingPointer(net[x][i], v, u)'
  PROVE  Settled(u, v)' /\ ptr'[u][v] = ptr[u][v]
<1>1. ~Creating(u, v)'
  BY DEF Settled, Creating, Between, FirstSteps
<1>2. \A x \in Users : ~Pending(x, u, v)' /\ ~Pending(x, v, u)'
  BY SMTT(30) DEF Settled, Pending, PendingPointer
<1>3. /\ ptr'[u][v] # None /\ ptr'[v][u] = ptr'[u][v]
      /\ {cache'[u][v], cache'[v][u]} \subseteq {ptr'[u][v], Unknown}
  BY DEF Settled
<1> QED
  BY <1>1, <1>2, <1>3 DEF Settled

\* A message of the pair finds the pointer, so that it creates nothing.
LEMMA SettledReadPointer ==
  ASSUME PairInv, NEW u \in Users, NEW v \in Users, Settled(u, v), NEW m \in Msgs,
         ReadPointer(m)
  PROVE  Settled(u, v)' /\ ptr'[u][v] = ptr[u][v]
<1>1. up[m].pc = "reading" /\ UNCHANGED <<ptr, cache>>
  BY DEF ReadPointer
<1>2. PICK a \in Users, b \in Users : up[m].from = a /\ up[m].to = b
  BY <1>1 DEF PairInv, SendInv
<1>3. PICK l \in Msgs, pc \in {"create", "append"} :
        /\ pc = "create" => cache[a][b] = None
        /\ up' = [up EXCEPT ![m].pc = pc, ![m].loc = l]
        /\ net' = [net EXCEPT ![a] = Append(@, [kind |-> "message", msg |-> m, loc |-> l])]
  <2>1. cache[a][b] \in Location \cup {Unknown} /\ cache[a][b] # Unknown
    BY <1>2 DEF PairInv, TypeCore, ReadPointer
  <2> QED
    BY <1>2, <2>1 DEF ReadPointer, Location
<1>4. /\ \A n \in Msgs : n # m => up'[n] = up[n]
      /\ up'[m].pc = pc /\ up'[m].from = a /\ up'[m].to = b
  BY <1>2, <1>3 DEF PairInv, TypeCore, Upload
<1>5. pc = "create" => ~Between(m, u, v)'
  BY <1>3, <1>4 DEF Settled, Between
<1>6. \A n \in Msgs : up'[n].pc \in FirstSteps =>
        \/ up'[n].from = up[n].from /\ up'[n].to = up[n].to /\ up[n].pc \in FirstSteps
        \/ ~Between(n, u, v)'
  BY <1>4, <1>5 DEF FirstSteps
<1> DEFINE w == [kind |-> "message", msg |-> m, loc |-> l]
<1>7. \A x \in Users : \A i \in 1..Len(net'[x]) :
        (\E j \in 1..Len(net[x]) : net'[x][i] = net[x][j]) \/ net'[x][i] = w
  <2> HIDE DEF w
  <2> QED
    BY <1>3 DEF PairInv, TypeCore, w
<1>8. \A x \in Users : \A i \in 1..Len(net'[x]) : net'[x][i] = w =>
        ~PendingPointer(net[x][i], u, v)' /\ ~PendingPointer(net[x][i], v, u)'
  BY DEF PendingPointer
<1> QED
  BY SMTT(30), <1>1, <1>6, <1>7, <1>8, SettledKept

\* The first message that is done is one of another pair.
LEMMA SettledCreateDone ==
  ASSUME PairInv, NEW u \in Users, NEW v \in Users, Settled(u, v), NEW m \in Msgs,
         CreateDone(m)
  PROVE  Settled(u, v)' /\ ptr'[u][v] = ptr[u][v]
<1>1. /\ up[m].pc \in {"created", "uncreated"} /\ up' = [up EXCEPT ![m].pc = "true"]
      /\ UNCHANGED ptr
  BY DEF CreateDone
<1>2. PICK a \in Users, b \in Users : up[m].from = a /\ up[m].to = b
  BY <1>1 DEF PairInv, SendInv
<1>3. <<a, b>> # <<u, v>> /\ <<a, b>> # <<v, u>>
  BY <1>1, <1>2 DEF Settled, Creating, Between
<1> DEFINE w == Pointer(a, b, m)
           x == Pointer(b, a, m)
<1>4. /\ net' = [net EXCEPT ![a] = @ \o <<w, x>>]
      /\ cache' = [cache EXCEPT ![a][b] = m]
  BY <1>2 DEF CreateDone, Hear, Pointers
<1>5. cache'[u][v] = cache[u][v] /\ cache'[v][u] = cache[v][u]
  BY <1>3, <1>4 DEF PairInv, TypeCore
<1>6. \A n \in Msgs : up'[n].pc \in FirstSteps =>
        up'[n].from = up[n].from /\ up'[n].to = up[n].to /\ up[n].pc \in FirstSteps
  BY <1>1 DEF PairInv, TypeCore, Upload, FirstSteps
<1>7. \A y \in Users : \A i \in 1..Len(net'[y]) :
        (\E j \in 1..Len(net[y]) : net'[y][i] = net[y][j]) \/ net'[y][i] \in {w, x}
  <2>1. w \in Write /\ x \in Write
    BY DEF Pointer, Write
  <2> HIDE DEF w, x
  <2> TAKE y \in Users
  <2>2. CASE y = a
    <3>1. net'[y] = net[y] \o <<w, x>> /\ net[y] \in Seq(Write)
      BY <1>4, <2>2 DEF PairInv, TypeCore
    <3> TAKE i \in 1..Len(net'[y])
    <3>2. i \in 1..(Len(net[y]) + 2) /\ Len(net[y]) \in Nat
      BY <2>1, <3>1
    <3>3. i <= Len(net[y]) => net'[y][i] = net[y][i]
      BY <2>1, <3>1, <3>2
    <3>4. i > Len(net[y]) => net'[y][i] \in {w, x}
      BY <2>1, <3>1, <3>2
    <3> QED
      BY <3>2, <3>3, <3>4
  <2>3. CASE y # a
    BY <1>4, <2>3 DEF PairInv, TypeCore
  <2> QED
    BY <2>2, <2>3
<1>8. \A y \in Users : \A i \in 1..Len(net'[y]) : net'[y][i] \in {w, x} =>
        ~PendingPointer(net[y][i], u, v)' /\ ~PendingPointer(net[y][i], v, u)'
  BY <1>3 DEF PendingPointer, Pointer
<1> QED
  BY <1>1, <1>5, <1>6, <1>7, <1>8, SettledKept

LEMMA SettledNext ==
  ASSUME PairInv, Next, NEW u \in Users, NEW v \in Users, Settled(u, v)
  PROVE  Settled(u, v)' /\ ptr'[u][v] = ptr[u][v]
<1> DEFINE Goal == Settled(u, v)' /\ ptr'[u][v] = ptr[u][v]
           SendsKept == \A m \in Msgs : up'[m].pc \in FirstSteps =>
             up'[m].from = up[m].from /\ up'[m].to = up[m].to /\ up[m].pc \in FirstSteps
<1>0. \A x, y \in Users : cache[x][y] \in Location \cup {Unknown}
  BY DEF PairInv, TypeCore
<1>1. ASSUME NEW m \in Msgs, PictureStored(m) \/ PictureFails(m) \/ AppendDone(m)
      PROVE  Goal
  <2>1. PICK pc \in {"reading", "silent", "true", "false"} : up' = [up EXCEPT ![m].pc = pc]
    BY <1>1 DEF PictureStored, PictureFails, AppendDone
  <2>2. UNCHANGED <<ptr, cache, net>>
    BY <1>1 DEF PictureStored, PictureFails, AppendDone
  <2>3. SendsKept
    BY <2>1 DEF PairInv, TypeCore, Upload, FirstSteps
  <2> QED
    BY <2>2, <2>3, SettledKept
<1>2. ASSUME NEW m \in Msgs, Client(m) \/ PictureFails(m)
      PROVE  Goal
  BY <1>1, <1>2, SettledReadPointer, SettledCreateDone DEF Client
<1>3. ASSUME NEW a \in Users, NEW b \in Users, NEW m \in Msgs, NEW kind \in Kinds,
             Compose(a, b, m, kind)
      PROVE  Goal
  <2>1. UNCHANGED <<ptr, cache, net>>
    BY <1>3 DEF Compose
  <2>2. SendsKept
    BY <1>3 DEF Compose, PairInv, TypeCore, Upload, FirstSteps
  <2> QED
    BY <2>1, <2>2, SettledKept
<1>4. ASSUME UNCHANGED <<up, ptr, cache, net>>
      PROVE  Goal
  BY <1>4 DEF Settled, Creating, Between, Pending, PendingPointer
<1>5. ASSUME NEW a \in Users, NEW b \in Users, OpenChat(a, b) \/ CloseChat(a, b)
      PROVE  Goal
  BY <1>4, <1>5 DEF OpenChat, CloseChat
<1>6. ASSUME NEW a \in Users, NEW b \in Users, Observe(a, b)
      PROVE  Goal
  <2>1. CASE PointerEvent(a, b)
    <3>1. UNCHANGED <<up, ptr, net>> /\ cache' = [cache EXCEPT ![a][b] = ptr[a][b]]
      BY <2>1 DEF PointerEvent, Hear
    <3>2. /\ cache'[u][v] \in {cache[u][v], ptr[u][v]}
          /\ cache'[v][u] \in {cache[v][u], ptr[v][u]}
      BY <3>1 DEF PairInv, TypeCore
    <3> QED
      BY <3>1, <3>2, SettledKept
  <2>2. CASE ~PointerEvent(a, b)
    BY <1>4, <1>6, <2>2 DEF Observe, ShowMessage
  <2> QED
    BY <2>1, <2>2
<1>7. ASSUME NEW a \in Users, NEW b \in Users, MarkRead(a, b)
      PROVE  Goal
  <2>1. PICK k \in Marks : MarkReadPointer(a, b, k) \/ MarkReadMessages(a, b, k)
    BY <1>7 DEF MarkRead
  <2>2. UNCHANGED <<up, ptr, cache>>
    BY <2>1 DEF MarkReadPointer, MarkReadMessages
  <2>3. CASE net' = net
    BY <1>4, <2>2, <2>3
  <2>4. CASE net' # net
    <3>1. PICK ms : net' = [net EXCEPT ![a] = Append(@, [kind |-> "read", msgs |-> ms])]
      BY <2>1, <2>4 DEF MarkReadPointer, MarkReadMessages
    <3>2. \A x \in Users : \A i \in 1..Len(net'[x]) :
            (\E j \in 1..Len(net[x]) : net'[x][i] = net[x][j]) \/ net'[x][i].kind = "read"
      <4>1. net \in [Users -> Seq(Write)]
        BY DEF PairInv, TypeCore
      <4> DEFINE r == [kind |-> "read", msgs |-> ms]
      <4>2. \A x \in Users : net'[x] = IF x = a THEN Append(net[a], r) ELSE net[x]
        BY <3>1, <4>1
      <4>5. r.kind = "read"
        OBVIOUS
      <4> HIDE DEF r
      <4>3. \A i \in 1..Len(net'[a]) :
              (\E j \in 1..Len(net[a]) : net'[a][i] = net[a][j]) \/ net'[a][i].kind = "read"
        <5>1. net[a] \in Seq(Write) /\ net'[a] = Append(net[a], r)
          BY <4>1, <4>2
        <5>2. Len(net'[a]) = Len(net[a]) + 1 /\ net'[a][Len(net[a]) + 1] = r
          BY <5>1
        <5>3. \A i \in 1..Len(net[a]) : net'[a][i] = net[a][i]
          BY <5>1
        <5> QED
          BY <4>5, <5>1, <5>2, <5>3
      <4> QED
        BY <4>2, <4>3
    <3>3. \A x \in Users : \A i \in 1..Len(net'[x]) : net'[x][i].kind = "read" =>
            ~PendingPointer(net[x][i], u, v)' /\ ~PendingPointer(net[x][i], v, u)'
      BY DEF PendingPointer
    <3> QED
      BY <2>2, <3>2, <3>3, SettledKept
  <2> QED
    BY <2>3, <2>4
<1>8. ASSUME NEW a \in Users, ApplyMessage(a) \/ RefuseMessage(a)
      PROVE  Goal
  <2> DEFINE w == Head(net[a])
  <2>1. net[a] # << >> /\ w.kind = "message" /\ Pop(a) /\ UNCHANGED <<ptr, cache>>
    BY <1>8 DEF ApplyMessage, RefuseMessage
  <2>2. PICK m \in Msgs : w.msg = m
    BY <2>1, HeadWrite DEF Write
  <2>3. SendsKept
    <3>1. CASE up' = up
      BY <3>1
    <3>2. CASE up' # up
      <4>1. PICK pc \in {"appended", "created", "refused", "uncreated"} :
              /\ up' = [up EXCEPT ![m].pc = pc]
              /\ pc \in FirstSteps => up[m].pc = "create"
        BY SMTT(60), <1>8, <2>2, <3>2 DEF ApplyMessage, RefuseMessage, Report, FirstSteps
      <4>2. /\ \A n \in Msgs : n # m => up'[n] = up[n]
            /\ up'[m].pc = pc /\ up'[m].from = up[m].from /\ up'[m].to = up[m].to
        BY <4>1 DEF PairInv, TypeCore, Upload
      <4> QED
        BY <4>1, <4>2 DEF FirstSteps
    <3> QED
      BY <3>1, <3>2
  <2> QED
    BY <2>1, <2>3, PopMembers, SettledKept
<1>9. ASSUME NEW a \in Users, ApplyPointer(a)
      PROVE  Goal
  <2> DEFINE w == Head(net[a])
  <2>1. /\ net[a] # << >> /\ w.kind = "pointer" /\ Pop(a) /\ UNCHANGED <<up, cache>>
        /\ ptr' = [ptr EXCEPT ![w.user][w.peer] = w.loc]
    BY <1>9 DEF ApplyPointer
  <2>2. PICK x \in Users, y \in Users, l \in Msgs : w.user = x /\ w.peer = y /\ w.loc = l
    BY <2>1, HeadWrite DEF Write
  <2>3. <<x, y>> # <<u, v>> /\ <<x, y>> # <<v, u>>
    <3>1. 1 \in 1..Len(net[a]) /\ w = net[a][1]
      BY <2>1 DEF PairInv, TypeCore
    <3> QED
      BY <2>1, <2>2, <3>1 DEF Settled, Pending, PendingPointer
  <2>4. ptr' = [ptr EXCEPT ![x][y] = l]
    BY <2>1, <2>2
  <2>5. ptr'[u][v] = ptr[u][v] /\ ptr'[v][u] = ptr[v][u]
    BY <2>3, <2>4 DEF PairInv, TypeCore
  <2>6. \A z \in Users : \A i \in 1..Len(net'[z]) :
          \E j \in 1..Len(net[z]) : net'[z][i] = net[z][j]
    BY <2>1, PopMembers
  <2>7. SendsKept /\ UNCHANGED cache
    BY <2>1
  <2> HIDE DEF w
  <2> QED
    BY <2>5, <2>6, <2>7, SettledKept
<1>10. ASSUME NEW a \in Users, ApplyRead(a)
       PROVE  Goal
  <2>1. UNCHANGED <<up, ptr, cache>>
    BY <1>10 DEF ApplyRead
  <2>2. \A x \in Users : \A i \in 1..Len(net'[x]) : net'[x][i].kind = "read" =>
          ~PendingPointer(net[x][i], u, v)' /\ ~PendingPointer(net[x][i], v, u)'
    BY DEF PendingPointer
  <2> QED
    <3>1. \A x \in Users : \A i \in 1..Len(net'[x]) :
            (\E j \in 1..Len(net[x]) : net'[x][i] = net[x][j]) \/ net'[x][i].kind = "read"
      BY <1>10, ReadMembers
    <3> QED
      BY <2>1, <2>2, <3>1, SettledKept
<1>11. ASSUME NEW a \in Users, Killed(a)
       PROVE  Goal
  <2>1. /\ UNCHANGED ptr
        /\ cache' = [cache EXCEPT ![a] = [y \in Users |-> Unknown]]
        /\ up' = [m \in Msgs |-> IF up[m].from = a /\ up[m].pc \in Busy
                                 THEN [up[m] EXCEPT !.pc = "silent"] ELSE up[m]]
    BY <1>11 DEF Killed
  <2>2. PICK n \in 0..Len(net[a]) : net' = [net EXCEPT ![a] = SubSeq(net[a], 1, n)]
    BY <1>11 DEF Killed
  <2>3. net \in [Users -> Seq(Write)] /\ up \in [Msgs -> Upload]
    BY DEF PairInv, TypeCore
  <2>4. \A x \in Users : \A i \in 1..Len(net'[x]) :
          \E j \in 1..Len(net[x]) : net'[x][i] = net[x][j]
    <3>1. \A x \in Users : net'[x] = IF x = a THEN SubSeq(net[a], 1, n) ELSE net[x]
      BY <2>2, <2>3
    <3>2. \A i \in 1..n : SubSeq(net[a], 1, n)[i] = net[a][i]
      BY <2>3
    <3>3. Len(SubSeq(net[a], 1, n)) = n
      BY <2>3
    <3>4. ASSUME NEW x \in Users, NEW i \in 1..Len(net'[x])
          PROVE  \E j \in 1..Len(net[x]) : net'[x][i] = net[x][j]
      <4>1. CASE x # a
        BY <3>1, <3>4, <4>1
      <4>2. CASE x = a
        <5>1. i \in 1..n /\ net'[x][i] = net[x][i]
          BY <3>1, <3>2, <3>3, <3>4, <4>2
        <5>2. n <= Len(net[x]) /\ Len(net[x]) \in Nat
          BY <2>3, <4>2
        <5> QED
          BY <5>1, <5>2
      <4> QED
        BY <4>1, <4>2
    <3> QED
      BY <3>4
  <2>5. SendsKept
    BY <2>1, <2>3 DEF Upload, FirstSteps
  <2>6. cache'[u][v] \in {cache[u][v], Unknown} /\ cache'[v][u] \in {cache[v][u], Unknown}
    BY <2>1 DEF PairInv, TypeCore
  <2> QED
    BY <2>1, <2>4, <2>5, <2>6, SettledKept
<1>12. ASSUME NEW a \in Users, RefusePointer(a)
       PROVE  Goal
  <2>1. net[a] # << >> /\ Pop(a) /\ UNCHANGED <<up, ptr, cache>>
    BY <1>12 DEF RefusePointer
  <2>2. \A z \in Users : \A i \in 1..Len(net'[z]) :
          \E j \in 1..Len(net[z]) : net'[z][i] = net[z][j]
    BY <2>1, PopMembers
  <2>3. SendsKept
    BY <2>1
  <2> QED
    BY <2>1, <2>2, <2>3, SettledKept
<1> HIDE DEF Goal
<1>13. Goal
  BY <1>2, <1>3, <1>5, <1>6, <1>7, <1>8, <1>9, <1>10, <1>11, <1>12 DEF Next, Apply
<1> QED
  BY <1>13 DEF Goal

\* Once both pointers of a pair lead to one location and nothing older is under way,
\* no send, kill or late event ever gives the pair another one: uploadMessage creates
\* a location only where it reads no pointer.
THEOREM ConversationsStay == Spec => SettledStays
<1>1. PairInv /\ [Next]_vars =>
        [\A u, v \in Users : Settled(u, v) => Settled(u, v)' /\ ptr'[u][v] = ptr[u][v]]_vars
  BY SettledNext
<1> QED
  BY <1>1, PairInit, PairNext, PTL DEF Spec, SettledStays
=============================================================================
