------------------------ MODULE MessengerScreenProofs ------------------------
(***************************************************************************)
(* For any number of users and messages: what a chat screen shows, and who *)
(* sets isRead.                                                            *)
(***************************************************************************)
EXTENDS MessengerProofs

USE MessengerAssumption

(***************************************************************************)
(* Where a message is.                                                     *)
(***************************************************************************)

\* A send is between two people and gets its location when the pointer was read.
SendHasLocation ==
  \A m \in Msgs : /\ up[m].pc # "unsent" => up[m].from # up[m].to
                  /\ up[m].pc \in {"picture", "reading"} => up[m].loc = None

\* A message is stored where its send says, and written by its sender only.
StoredAtLocation ==
  /\ \A m \in Msgs : stored[m] # None => stored[m] = up[m].loc
  /\ \A u \in Users : \A i \in 1..Len(net[u]) :
       net[u][i].kind = "message" =>
         up[net[u][i].msg].from = u /\ up[net[u][i].msg].loc = net[u][i].loc

\* A screen is between two people, and marks what the two of them wrote.
ScreensOfPairs ==
  \A u, v \in Users :
    /\ screen[u][v] => u # v
    /\ \A k \in Marks : mark[u][v][k] \in Msgs => Between(mark[u][v][k], u, v)

PlaceInv == SendHasLocation /\ StoredAtLocation /\ ScreensOfPairs

(***************************************************************************)
(* Why a pointer never comes back to a location that a screen observes.    *)
(***************************************************************************)

\* The completion block of the first message has run: only then is its location
\* named by pointers.
Made(l) == up[l].pc = "true"

NamesAreMade ==
  \A u, v \in Users :
    /\ ptr[u][v] # None => Made(ptr[u][v])
    /\ cache[u][v] \in Msgs => Made(cache[u][v])
    /\ \A k \in 1..Len(feeds[u][v]) : Made(feeds[u][v][k])

\* A pointer write under way comes from the sender of the first message and is the
\* only one of its kind; the pointer never had its value before, and the other
\* person's screen has not seen it.
WritesAreNew ==
  \A x, u, v \in Users : \A i \in 1..Len(net[x]) : PendingPointer(net[x][i], u, v) =>
    /\ u # v /\ Made(net[x][i].loc) /\ up[net[x][i].loc].from = x
    /\ ptr[u][v] # net[x][i].loc
    /\ \A j \in 1..Len(net[x]) : net[x][j] = net[x][i] => j = i
    /\ x # u => /\ cache[u][v] # net[x][i].loc
                /\ \A k \in 1..Len(feeds[u][v]) : feeds[u][v][k] # net[x][i].loc

\* The last of a client's writes to its own pointer is what its cache holds.
LastIsKnown ==
  \A u, v \in Users : \A i \in 1..Len(net[u]) :
    /\ PendingPointer(net[u][i], u, v) /\ cache[u][v] # Unknown
    /\ \A j \in 1..Len(net[u]) : j > i => ~PendingPointer(net[u][j], u, v)
    => cache[u][v] = net[u][i].loc

\* A pointer whose event could be raised leads to a location the screen does not
\* observe yet, unless nothing has changed, or a write was refused and taken back.
EventsAreNew ==
  \A u, v \in Users : ~Pending(u, u, v) /\ <<u, v>> \notin refused =>
    \A k \in 1..Len(feeds[u][v]) : feeds[u][v][k] = ptr[u][v] => cache[u][v] = ptr[u][v]

\* A screen observes a location once, as long as no write of its pointer was refused.
FeedsDiffer ==
  \A u, v \in Users :
    /\ cache[u][v] = Unknown => feeds[u][v] = << >>
    /\ <<u, v>> \notin refused =>
         \A i, j \in 1..Len(feeds[u][v]) : feeds[u][v][i] = feeds[u][v][j] => i = j

FeedInv == NamesAreMade /\ WritesAreNew /\ LastIsKnown /\ EventsAreNew /\ FeedsDiffer

\* An item comes from the observer of the location its message is at.
ItemInv ==
  \A u, v \in Users : \A s \in shown[u][v] :
    s[1] \in 1..Len(feeds[u][v]) /\ up[s[2]].loc = feeds[u][v][s[1]]

----------------------------------------------------------------------------
(* Types. *)

\* What a pointer write under way is known to be.
LEMMA WriteIsNew ==
  ASSUME WritesAreNew, NEW x \in Users, NEW u \in Users, NEW v \in Users,
         NEW i \in 1..Len(net[x]), PendingPointer(net[x][i], u, v)
  PROVE  /\ u # v /\ Made(net[x][i].loc) /\ up[net[x][i].loc].from = x
         /\ ptr[u][v] # net[x][i].loc
         /\ \A j \in 1..Len(net[x]) : net[x][j] = net[x][i] => j = i
         /\ x # u => /\ cache[u][v] # net[x][i].loc
                     /\ \A k \in 1..Len(feeds[u][v]) : feeds[u][v][k] # net[x][i].loc
BY DEF WritesAreNew

\* What is kept for each user and peer, changed for one of them.
LEMMA ChangeOne ==
  ASSUME NEW S, NEW f \in [Users -> [Users -> S]], NEW u \in Users, NEW v \in Users, NEW c \in S
  PROVE  /\ [f EXCEPT ![u][v] = c] \in [Users -> [Users -> S]]
         /\ [f EXCEPT ![u][v] = c][u][v] = c
         /\ \A x, y \in Users : x # u \/ y # v => [f EXCEPT ![u][v] = c][x][y] = f[x][y]
OBVIOUS

\* One of the two calls of markMessagesRead of one screen goes on.
LEMMA MarkOne ==
  ASSUME NEW S, NEW f \in [Users -> [Users -> [Marks -> S]]], NEW u \in Users, NEW v \in Users,
         NEW k \in Marks, NEW c \in S
  PROVE  [f EXCEPT ![u][v][k] = c] \in [Users -> [Users -> [Marks -> S]]]
<1> DEFINE row == [f[u][v] EXCEPT ![k] = c]
<1>1. row \in [Marks -> S]
  OBVIOUS
<1>2. [f EXCEPT ![u][v][k] = c] = [f EXCEPT ![u][v] = row]
  OBVIOUS
<1> HIDE DEF row
<1> QED
  BY <1>1, <1>2, ChangeOne

LEMMA TypeInit == Init => TypeOK
BY DEF Init, TypeOK, Each, NoMark, Marks, Upload, Location

LEMMA TypeNext == PairInv /\ PairInv' /\ TypeOK /\ [Next]_vars => TypeOK'
<1> SUFFICES ASSUME PairInv, PairInv', TypeOK, [Next]_vars PROVE TypeOK'
  OBVIOUS
<1> DEFINE Rest ==
      /\ isRead \in SUBSET Msgs
      /\ feeds \in [Users -> [Users -> Seq(Msgs)]]
      /\ shown \in [Users -> [Users -> SUBSET (Nat \X Msgs)]]
      /\ screen \in [Users -> [Users -> BOOLEAN]]
      /\ mark \in [Users -> [Users -> [Marks -> {"idle", "pointer"} \cup Msgs]]]
      /\ turns \in 0..MaxTurns
      /\ marks \in 0..MaxMarks
      /\ faults \in 0..MaxFaults
      /\ cut \in SUBSET Pairs
      /\ refused \in SUBSET (Users \X Users)
<1>0. Rest /\ TypeCore /\ TypeCore'
  BY DEF TypeOK, PairInv
<1>a. SUFFICES Rest'
  BY <1>0 DEF TypeOK, TypeCore
<1>1. CASE UNCHANGED vars
  BY <1>0, <1>1 DEF vars
<1>2. ASSUME NEW m \in Msgs, PictureStored(m) \/ ReadPointer(m) \/ AppendDone(m)
      PROVE  Rest'
  BY <1>0, <1>2 DEF PictureStored, ReadPointer, AppendDone
<1>3. ASSUME NEW m \in Msgs, CreateDone(m)
      PROVE  Rest'
  <2>1. PICK u \in Users, v \in Users : up[m].from = u /\ up[m].to = v
    BY <1>3 DEF CreateDone, PairInv, SendInv
  <2>2. feeds' = feeds \/ feeds' = [feeds EXCEPT ![u][v] = Append(@, m)]
    BY <1>3, <2>1 DEF CreateDone, Hear
  <2>3. feeds' \in [Users -> [Users -> Seq(Msgs)]]
    <3> DEFINE q == Append(feeds[u][v], m)
    <3>1. q \in Seq(Msgs)
      BY <1>0
    <3>2. feeds' = feeds \/ feeds' = [feeds EXCEPT ![u][v] = q]
      BY <2>2
    <3> HIDE DEF q
    <3>3. CASE feeds' = feeds
      BY <1>0, <3>3
    <3>4. CASE feeds' = [feeds EXCEPT ![u][v] = q]
      BY <1>0, <3>1, <3>2, <3>4, ChangeOne
    <3> QED
      BY <3>2, <3>3, <3>4
  <2> QED
    BY <1>0, <1>3, <2>3 DEF CreateDone
<1>4. ASSUME NEW m \in Msgs, PictureFails(m)
      PROVE  Rest'
  BY SMTT(60), <1>0, <1>4 DEF PictureFails, Fault
<1>5. ASSUME NEW u \in Users, NEW v \in Users, OpenChat(u, v)
      PROVE  Rest'
  <2>1. feeds' \in [Users -> [Users -> Seq(Msgs)]]
    <3> DEFINE q == IF cache[u][v] \in Msgs THEN <<cache[u][v]>> ELSE << >>
    <3>1. q \in Seq(Msgs) /\ feeds' = [feeds EXCEPT ![u][v] = q]
      BY <1>5 DEF OpenChat
    <3> HIDE DEF q
    <3> QED
      BY <1>0, <3>1, ChangeOne
  <2>2. shown' \in [Users -> [Users -> SUBSET (Nat \X Msgs)]]
    BY <1>0, <1>5 DEF OpenChat
  <2>3. mark' \in [Users -> [Users -> [Marks -> {"idle", "pointer"} \cup Msgs]]]
    <3>1. mark' = [mark EXCEPT ![u][v]["opening"] = "pointer"] /\ "opening" \in Marks
      BY <1>5 DEF OpenChat, Marks
    <3> QED
      BY <1>0, <3>1, MarkOne
  <2>4. screen' \in [Users -> [Users -> BOOLEAN]] /\ turns' \in 0..MaxTurns
    BY SMTT(30), <1>0, <1>5 DEF OpenChat, Turn
  <2> QED
    BY <1>0, <1>5, <2>1, <2>2, <2>3, <2>4 DEF OpenChat
<1>6. ASSUME NEW u \in Users, NEW v \in Users, CloseChat(u, v)
      PROVE  Rest'
  <2>1. mark' \in [Users -> [Users -> [Marks -> {"idle", "pointer"} \cup Msgs]]]
    <3>1. mark' = [mark EXCEPT ![u][v]["closing"] = "pointer"] /\ "closing" \in Marks
      BY <1>6 DEF CloseChat, Marks
    <3> QED
      BY <1>0, <3>1, MarkOne
  <2>2. screen' \in [Users -> [Users -> BOOLEAN]] /\ turns' \in 0..MaxTurns
    BY <1>0, <1>6 DEF CloseChat, Turn
  <2> QED
    BY <1>0, <1>6, <2>1, <2>2 DEF CloseChat
<1>7. ASSUME NEW u \in Users, NEW v \in Users, NEW m \in Msgs, NEW kind \in Kinds,
             Compose(u, v, m, kind)
      PROVE  Rest'
  BY <1>0, <1>7 DEF Compose
<1>8. ASSUME NEW u \in Users, NEW v \in Users, PointerEvent(u, v)
      PROVE  Rest'
  <2>1. feeds' = feeds \/ (ptr[u][v] \in Msgs /\ feeds' = [feeds EXCEPT ![u][v] = Append(@, ptr[u][v])])
    BY <1>8 DEF PointerEvent, Hear
  <2>2. feeds' \in [Users -> [Users -> Seq(Msgs)]]
    <3> DEFINE q == Append(feeds[u][v], ptr[u][v])
    <3>1. ptr[u][v] \in Msgs => q \in Seq(Msgs)
      BY <1>0
    <3>2. feeds' = feeds \/ (ptr[u][v] \in Msgs /\ feeds' = [feeds EXCEPT ![u][v] = q])
      BY <2>1
    <3> HIDE DEF q
    <3>3. CASE feeds' = feeds
      BY <1>0, <3>3
    <3>4. CASE feeds' = [feeds EXCEPT ![u][v] = q]
      BY <1>0, <3>1, <3>2, <3>4, ChangeOne
    <3> QED
      BY <3>2, <3>3, <3>4
  <2> QED
    BY <1>0, <1>8, <2>2 DEF PointerEvent
<1>9. ASSUME NEW u \in Users, NEW v \in Users, NEW i \in 1..Len(feeds[u][v]), NEW m \in Msgs,
             ShowMessage(u, v, i, m)
      PROVE  Rest'
  <2>1. <<i, m>> \in Nat \X Msgs
    BY <1>0
  <2>2. shown' \in [Users -> [Users -> SUBSET (Nat \X Msgs)]]
    BY <1>0, <1>9, <2>1 DEF ShowMessage
  <2> QED
    BY <1>0, <1>9, <2>2 DEF ShowMessage
<1>10. ASSUME NEW u \in Users, NEW v \in Users, NEW k \in Marks,
              MarkReadPointer(u, v, k) \/ MarkReadMessages(u, v, k)
       PROVE  Rest'
  <2>1. PICK c \in {"idle", "pointer"} \cup Msgs : mark' = [mark EXCEPT ![u][v][k] = c]
    <3>1. cache[u][v] \in Msgs \cup {None, Unknown}
      BY <1>0 DEF TypeCore, Location
    <3> QED
      BY <1>10, <3>1 DEF MarkReadPointer, MarkReadMessages
  <2>2. mark' \in [Users -> [Users -> [Marks -> {"idle", "pointer"} \cup Msgs]]]
    BY <1>0, <2>1
  <2>3. marks' \in 0..MaxMarks
    BY <1>0, <1>10 DEF MarkReadPointer, MarkReadMessages
  <2> QED
    BY <1>0, <1>10, <2>2, <2>3 DEF MarkReadPointer, MarkReadMessages
<1>11. ASSUME NEW u \in Users, ApplyMessage(u) \/ RefuseMessage(u) \/ ApplyPointer(u)
       PROVE  Rest'
  BY SMTT(30), <1>0, <1>11 DEF ApplyMessage, RefuseMessage, ApplyPointer, Fault
<1>12. ASSUME NEW u \in Users, ApplyRead(u)
       PROVE  Rest'
  <2>1. Head(net[u]).msgs \in SUBSET Msgs
    BY <1>12, HeadWrite DEF ApplyRead, Write
  <2>2. isRead' \in SUBSET Msgs /\ faults' \in 0..MaxFaults
    BY <1>0, <1>12, <2>1 DEF ApplyRead, Fault
  <2> QED
    BY <1>0, <1>12, <2>2 DEF ApplyRead
<1>13. ASSUME NEW u \in Users, Killed(u)
       PROVE  Rest'
  <2>1. feeds' \in [Users -> [Users -> Seq(Msgs)]]
    BY <1>0, <1>13 DEF Killed
  <2>2. shown' \in [Users -> [Users -> SUBSET (Nat \X Msgs)]]
    BY <1>0, <1>13 DEF Killed
  <2>3. mark' \in [Users -> [Users -> [Marks -> {"idle", "pointer"} \cup Msgs]]]
    BY <1>0, <1>13 DEF Killed, NoMark
  <2>4. screen' \in [Users -> [Users -> BOOLEAN]]
    BY <1>0, <1>13 DEF Killed
  <2>5. cut' \in SUBSET Pairs /\ faults' \in 0..MaxFaults
    BY <1>0, <1>13 DEF Killed, Fault
  <2> QED
    BY <1>0, <1>13, <2>1, <2>2, <2>3, <2>4, <2>5 DEF Killed
<1>14. ASSUME NEW u \in Users, RefusePointer(u)
       PROVE  Rest'
  <2>1. Head(net[u]).user \in Users /\ Head(net[u]).peer \in Users
    BY <1>14, HeadWrite DEF RefusePointer, Write
  <2>2. refused' \in SUBSET (Users \X Users) /\ faults' \in 0..MaxFaults
    BY <1>0, <1>14, <2>1 DEF RefusePointer, Fault
  <2> QED
    BY <1>0, <1>14, <2>2 DEF RefusePointer
<1> HIDE DEF Rest
<1> QED
  BY <1>1, <1>2, <1>3, <1>4, <1>5, <1>6, <1>7, <1>8, <1>9, <1>10, <1>11, <1>12, <1>13, <1>14
  DEF Next, Client, Observe, MarkRead, Apply

\* Every variable of the chats keeps its type, whatever is refused, lost or killed.
THEOREM MessengerTypeCorrect == Spec => []TypeOK
BY TypeInit, TypeNext, PairInit, PairNext, PTL DEF Spec

----------------------------------------------------------------------------
(* What a step does to the sends. *)

\* Sender, receiver and location of a message never change, and a location that is
\* named stays so.
SendsKept ==
  /\ Keeps
  /\ \A m \in Msgs : /\ up[m].loc # None => up'[m].loc = up[m].loc
                     /\ Made(m) => Made(m)'

LEMMA PlaceInit == Init => PlaceInv
<1> SUFFICES ASSUME Init PROVE PlaceInv
  OBVIOUS
<1>1. SendHasLocation
  BY DEF Init, SendHasLocation
<1>2. StoredAtLocation
  BY DEF Init, StoredAtLocation
<1>3. ScreensOfPairs
  BY DEF Init, ScreensOfPairs, Each, NoMark
<1> QED
  BY <1>1, <1>2, <1>3 DEF PlaceInv

\* A send that only moves on, beyond the reading of the pointer or up to it.
LEMMA MovedSend ==
  ASSUME TypeOK, SendHasLocation, NEW m \in Msgs, NEW pc, up' = [up EXCEPT ![m].pc = pc],
         up[m].pc \notin {"unsent", "true"}, pc # "unsent",
         pc \in {"picture", "reading"} => up[m].pc = "picture"
  PROVE  SendsKept /\ SendHasLocation'
<1>1. /\ \A n \in Msgs : n # m => up'[n] = up[n]
      /\ up'[m].pc = pc /\ up'[m].from = up[m].from /\ up'[m].to = up[m].to
      /\ up'[m].loc = up[m].loc
  BY DEF TypeOK, Upload
<1>2. SendHasLocation'
  BY <1>1 DEF SendHasLocation
<1> QED
  BY <1>1, <1>2 DEF SendsKept, Keeps, Made

LEMMA SendsUnchanged ==
  ASSUME SendHasLocation, up' = up
  PROVE  SendsKept /\ SendHasLocation'
BY DEF SendsKept, Keeps, Made, SendHasLocation

LEMMA SendsStep ==
  ASSUME PairInv, TypeOK, PlaceInv, Next
  PROVE  SendsKept /\ SendHasLocation'
<1> DEFINE Goal == SendsKept /\ SendHasLocation'
<1>0. SendHasLocation
  BY DEF PlaceInv
<1>1. ASSUME NEW m \in Msgs,
             PictureStored(m) \/ PictureFails(m) \/ AppendDone(m) \/ CreateDone(m)
      PROVE  Goal
  <2>1. PICK pc : /\ up' = [up EXCEPT ![m].pc = pc]
                  /\ pc \in {"true", "false", "silent"} \/ (pc = "reading" /\ up[m].pc = "picture")
                  /\ up[m].pc \notin {"unsent", "true"}
    BY <1>1 DEF PictureStored, PictureFails, AppendDone, CreateDone
  <2> QED
    BY <1>0, <2>1, MovedSend
<1>2. ASSUME NEW m \in Msgs, ReadPointer(m)
      PROVE  Goal
  <2> DEFINE c == cache[up[m].from][up[m].to]
             pc == IF c = None THEN "create" ELSE "append"
             l == IF c = None THEN m ELSE c
  <2>1. /\ pc \in {"create", "append"}
        /\ up[m].pc = "reading" /\ up' = [up EXCEPT ![m].pc = pc, ![m].loc = l]
    BY <1>2 DEF ReadPointer
  <2> HIDE DEF c, pc, l
  <2>2. /\ \A n \in Msgs : n # m => up'[n] = up[n]
        /\ up'[m].pc = pc /\ up'[m].from = up[m].from /\ up'[m].to = up[m].to
    BY <2>1 DEF TypeOK, Upload
  <2>3. up[m].loc = None /\ up[m].from # up[m].to
    BY <1>0, <2>1 DEF SendHasLocation
  <2>4. SendHasLocation'
    <3> SUFFICES ASSUME NEW n \in Msgs
                 PROVE  /\ up'[n].pc # "unsent" => up'[n].from # up'[n].to
                        /\ up'[n].pc \in {"picture", "reading"} => up'[n].loc = None
      BY DEF SendHasLocation
    <3>1. CASE n = m
      BY <2>1, <2>2, <2>3, <3>1
    <3>2. CASE n # m
      BY <1>0, <2>2, <3>2 DEF SendHasLocation
    <3> QED
      BY <3>1, <3>2
  <2> QED
    BY <2>1, <2>2, <2>3, <2>4 DEF SendsKept, Keeps, Made
<1>3. ASSUME NEW u \in Users, NEW v \in Users, NEW m \in Msgs, NEW kind \in Kinds,
             Compose(u, v, m, kind)
      PROVE  Goal
  <2>1. PICK pc \in {"picture", "reading"} :
          /\ up[m].pc = "unsent" /\ screen[u][v]
          /\ up' = [up EXCEPT ![m] = [pc |-> pc, from |-> u, to |-> v, loc |-> None]]
    BY <1>3 DEF Compose
  <2>2. u # v
    BY <2>1 DEF PlaceInv, ScreensOfPairs
  <2>3. up[m].loc = None
    BY <2>1 DEF PairInv, SendInv
  <2>4. /\ \A n \in Msgs : n # m => up'[n] = up[n]
        /\ up'[m] = [pc |-> pc, from |-> u, to |-> v, loc |-> None]
    BY <2>1 DEF TypeOK
  <2>5. SendHasLocation'
    BY <1>0, <2>2, <2>4 DEF SendHasLocation
  <2> QED
    BY <2>1, <2>3, <2>4, <2>5 DEF SendsKept, Keeps, Made
<1>4. ASSUME NEW u \in Users, ApplyMessage(u) \/ RefuseMessage(u)
      PROVE  Goal
  <2>1. net[u] # << >> /\ Head(net[u]).kind = "message"
    BY <1>4 DEF ApplyMessage, RefuseMessage
  <2>2. PICK m \in Msgs : Head(net[u]).msg = m
    BY <2>1, HeadWrite DEF Write
  <2>3. CASE up' = up
    BY <1>0, <2>3, SendsUnchanged
  <2>4. CASE up' # up
    <3>1. PICK pc \in {"appended", "created", "refused", "uncreated"} :
            up' = [up EXCEPT ![m].pc = pc] /\ up[m].pc \in {"append", "create"}
      <4>1. CASE ApplyMessage(u)
        <5>1. Report(m, [append |-> "appended", create |-> "created"])
          BY <2>2, <4>1 DEF ApplyMessage
        <5>2. /\ up[m].pc \in {"append", "create"}
              /\ up' = [up EXCEPT ![m].pc = [append |-> "appended", create |-> "created"][@]]
          BY <2>4, <5>1 DEF Report
        <5>3. CASE up[m].pc = "append"
          BY <5>2, <5>3
        <5>4. CASE up[m].pc = "create"
          BY <5>2, <5>4
        <5> QED
          BY <5>2, <5>3, <5>4
      <4>2. CASE RefuseMessage(u)
        <5>1. Report(m, [append |-> "refused", create |-> "uncreated"])
          BY <2>2, <4>2 DEF RefuseMessage
        <5>2. /\ up[m].pc \in {"append", "create"}
              /\ up' = [up EXCEPT ![m].pc = [append |-> "refused", create |-> "uncreated"][@]]
          BY <2>4, <5>1 DEF Report
        <5>3. CASE up[m].pc = "append"
          BY <5>2, <5>3
        <5>4. CASE up[m].pc = "create"
          BY <5>2, <5>4
        <5> QED
          BY <5>2, <5>3, <5>4
      <4> QED
        BY <1>4, <4>1, <4>2
    <3> QED
      BY <1>0, <3>1, MovedSend
  <2> QED
    BY <2>3, <2>4
<1>5. ASSUME NEW u \in Users, Killed(u)
      PROVE  Goal
  <2>1. up' = [m \in Msgs |-> IF up[m].from = u /\ up[m].pc \in Busy
                              THEN [up[m] EXCEPT !.pc = "silent"] ELSE up[m]]
    BY <1>5 DEF Killed
  <2>2. \A m \in Msgs : /\ up'[m].from = up[m].from /\ up'[m].to = up[m].to
                        /\ up'[m].loc = up[m].loc
                        /\ up'[m].pc = up[m].pc \/ (up[m].pc \in Busy /\ up'[m].pc = "silent")
    BY <2>1 DEF TypeOK, Upload
  <2>3. SendHasLocation'
    BY <1>0, <2>2 DEF SendHasLocation, Busy
  <2> QED
    BY <2>2, <2>3 DEF SendsKept, Keeps, Made, Busy
<1>6. ASSUME NEW u \in Users, NEW v \in Users,
             OpenChat(u, v) \/ CloseChat(u, v) \/ Observe(u, v) \/ MarkRead(u, v)
      PROVE  Goal
  <2>1. up' = up
    BY <1>6 DEF OpenChat, CloseChat, Observe, PointerEvent, ShowMessage, MarkRead,
                MarkReadPointer, MarkReadMessages
  <2> QED
    BY <1>0, <2>1, SendsUnchanged
<1>7. ASSUME NEW u \in Users, ApplyPointer(u) \/ RefusePointer(u) \/ ApplyRead(u)
      PROVE  Goal
  BY <1>0, <1>7, SendsUnchanged DEF ApplyPointer, RefusePointer, ApplyRead
<1> HIDE DEF Goal
<1>8. Goal
  BY <1>1, <1>2, <1>3, <1>4, <1>5, <1>6, <1>7 DEF Next, Client, Apply
<1> QED
  BY <1>8 DEF Goal

----------------------------------------------------------------------------
(* Who writes what. *)

\* A write of u is about a message u sent, or about stored messages sent to u.
WriteOf(u, w) ==
  /\ w.kind = "message" => up[w.msg].from = u /\ up[w.msg].loc = w.loc
  /\ w.kind = "read" => \A m \in w.msgs : up[m].to = u /\ stored[m] # None

StoredKept ==
  \A m \in Msgs : stored'[m] = stored[m] \/ (stored'[m] # None /\ stored'[m] = up'[m].loc)

LEMMA WriteOfKept ==
  ASSUME PairInv, SendsKept, StoredKept, NEW u \in Users, NEW w \in Write, WriteOf(u, w)
  PROVE  WriteOf(u, w)'
<1>1. CASE w.kind = "message"
  <2>1. w.msg \in Msgs /\ w.loc \in Msgs
    BY <1>1 DEF Write
  <2>2. up[w.msg].loc # None /\ up[w.msg].pc # "unsent"
    BY <1>1, <2>1 DEF WriteOf, PairInv, SendInv
  <2> QED
    BY <1>1, <2>1, <2>2 DEF WriteOf, SendsKept, Keeps
<1>2. CASE w.kind = "read"
  <2>1. w.msgs \in SUBSET Msgs
    BY <1>2 DEF Write
  <2>2. \A m \in w.msgs : up[m].pc # "unsent"
    BY <1>2, <2>1 DEF WriteOf, PairInv
  <2> QED
    BY <1>2, <2>1, <2>2 DEF WriteOf, SendsKept, Keeps, StoredKept
<1> QED
  BY <1>1, <1>2 DEF WriteOf

\* What a step must do to keep messages and flags where they belong.
LEMMA PlaceKept ==
  ASSUME PairInv, TypeOK, PlaceInv, ReadOnlyByRecipient, TypeOK', SendsKept,
         SendHasLocation', StoredKept,
         \A u \in Users : \A i \in 1..Len(net'[u]) :
           (\E j \in 1..Len(net[u]) : net'[u][i] = net[u][j]) \/ WriteOf(u, net[u][i])',
         \A m \in isRead' : m \in isRead \/ stored[m] # None,
         \A u, v \in Users : screen'[u][v] => screen[u][v] \/ u # v,
         \A u, v \in Users : \A k \in Marks :
           mark'[u][v][k] \in Msgs => mark'[u][v][k] \in {mark[u][v][k], cache[u][v]}
  PROVE  PlaceInv' /\ ReadOnlyByRecipient'
<1>1. \A u \in Users : \A i \in 1..Len(net[u]) : net[u][i] \in Write /\ WriteOf(u, net[u][i])
  BY SMTT(30) DEF TypeOK, PlaceInv, StoredAtLocation, ReadOnlyByRecipient, WriteOf
<1>2. \A u \in Users : \A i \in 1..Len(net'[u]) : WriteOf(u, net[u][i])'
  <2> SUFFICES ASSUME NEW u \in Users, NEW i \in 1..Len(net'[u]),
                      NEW j \in 1..Len(net[u]), net'[u][i] = net[u][j]
               PROVE  WriteOf(u, net[u][i])'
    OBVIOUS
  <2>1. \A w \in Write : WriteOf(u, w) => WriteOf(u, w)'
    BY WriteOfKept
  <2> QED
    BY SMTT(60), <1>1, <2>1 DEF WriteOf
<1>3. \A m \in Msgs : stored'[m] # None => stored'[m] = up'[m].loc
  BY DEF StoredKept, SendsKept, PlaceInv, StoredAtLocation
<1>4. \A m \in isRead' : stored'[m] # None
  BY DEF StoredKept, ReadOnlyByRecipient, TypeOK
<1>5. ScreensOfPairs'
  <2>1. \A l \in Msgs, u, v \in Users : Between(l, u, v) => Between(l, u, v)'
    BY BetweenKept DEF SendsKept
  <2>2. ASSUME NEW u \in Users, NEW v \in Users, NEW k \in Marks, mark'[u][v][k] \in Msgs
        PROVE  Between(mark[u][v][k], u, v)'
    <3>1. PICK l \in Msgs : l = mark'[u][v][k]
      BY <2>2
    <3>2. Between(l, u, v)
      BY <2>2, <3>1 DEF PlaceInv, ScreensOfPairs, PairInv, OnePairPerLocation
    <3>3. Between(l, u, v)'
      BY <2>1, <3>2
    <3> QED
      BY <3>1, <3>3 DEF Between
  <2>3. \A u, v \in Users : screen'[u][v] => u # v
    BY DEF PlaceInv, ScreensOfPairs
  <2> QED
    BY <2>2, <2>3 DEF ScreensOfPairs
<1>6. StoredAtLocation'
  BY <1>2, <1>3 DEF StoredAtLocation, WriteOf
<1>7. ReadOnlyByRecipient'
  BY <1>2, <1>4 DEF ReadOnlyByRecipient, WriteOf
<1> QED
  BY <1>5, <1>6, <1>7 DEF PlaceInv

\* What markMessagesRead finds that others wrote is stored, and was sent to u: only u
\* itself sees what u has sent before the database does.
LEMMA MarkableIsReceived ==
  ASSUME PairInv, TypeOK, PlaceInv, NEW u \in Users, NEW v \in Users, NEW l \in Msgs,
         Between(l, u, v), NEW m \in Markable(u, l)
  PROVE  m \in Msgs /\ up[m].to = u /\ stored[m] # None
<1>1. m \in Msgs /\ m \in Visible(u) /\ At(m) = l /\ up[m].from # u
  BY DEF Markable, Visible
<1>2. stored[m] # None
  <2>1. SUFFICES ASSUME stored[m] = None PROVE FALSE
    OBVIOUS
  <2>2. PICK i \in 1..Len(net[u]) : net[u][i].kind = "message" /\ net[u][i].msg = m
    BY <1>1, <2>1 DEF Visible
  <2> QED
    BY <1>1, <2>2 DEF PlaceInv, StoredAtLocation
<1>3. Between(l, up[m].from, up[m].to)
  BY <1>1, <1>2 DEF At, PairInv, OnePairPerLocation
<1>4. up[m].to = u
  BY <1>1, <1>3 DEF Between
<1> QED
  BY <1>1, <1>2, <1>4

LEMMA PlaceNext ==
  PairInv /\ TypeOK /\ TypeOK' /\ PlaceInv /\ ReadOnlyByRecipient /\ [Next]_vars
    => PlaceInv' /\ ReadOnlyByRecipient'
<1> SUFFICES ASSUME PairInv, TypeOK, TypeOK', PlaceInv, ReadOnlyByRecipient, [Next]_vars
             PROVE  PlaceInv' /\ ReadOnlyByRecipient'
  OBVIOUS
<1> DEFINE Goal == PlaceInv' /\ ReadOnlyByRecipient'
<1>1. CASE UNCHANGED vars
  BY <1>1 DEF vars, PlaceInv, SendHasLocation, StoredAtLocation, ScreensOfPairs, Between,
              ReadOnlyByRecipient
<1>2. CASE Next
  <2>0. SendsKept /\ SendHasLocation'
    BY <1>2, SendsStep
  <2>a. net \in [Users -> Seq(Write)] /\ mark \in [Users -> [Users -> [Marks -> {"idle", "pointer"} \cup Msgs]]]
    BY DEF TypeOK
  <2>1. ASSUME NEW m \in Msgs, PictureStored(m) \/ PictureFails(m) \/ AppendDone(m)
        PROVE  Goal
    <3>1. UNCHANGED <<stored, isRead, net, screen, mark>>
      BY <2>1 DEF PictureStored, PictureFails, AppendDone
    <3> QED
      BY <2>0, <3>1, PlaceKept DEF StoredKept
  <2>2. ASSUME NEW m \in Msgs, ReadPointer(m)
        PROVE  Goal
    <3>1. UNCHANGED <<stored, isRead, screen, mark>> /\ up[m].pc = "reading"
      BY <2>2 DEF ReadPointer
    <3>2. PICK u \in Users : up[m].from = u
      BY <3>1 DEF PairInv, SendInv
    <3>3. PICK l, pc : /\ up' = [up EXCEPT ![m].pc = pc, ![m].loc = l]
                       /\ net' = [net EXCEPT ![u] = Append(@, [kind |-> "message", msg |-> m, loc |-> l])]
      BY <2>2, <3>2 DEF ReadPointer
    <3>4. up'[m].from = u /\ up'[m].loc = l
      BY <3>2, <3>3 DEF TypeOK, Upload
    <3> DEFINE w == [kind |-> "message", msg |-> m, loc |-> l]
    <3>5. WriteOf(u, w)'
      BY <3>4 DEF WriteOf
    <3>6. net' = [net EXCEPT ![u] = Append(@, w)]
      BY <3>3
    <3> HIDE DEF w
    <3>7. \A x \in Users : \A i \in 1..Len(net'[x]) :
            (\E j \in 1..Len(net[x]) : net'[x][i] = net[x][j]) \/ (x = u /\ net'[x][i] = w)
      BY <2>a, <3>6
    <3>8. \A x \in Users : \A i \in 1..Len(net'[x]) :
            (\E j \in 1..Len(net[x]) : net'[x][i] = net[x][j]) \/ WriteOf(x, net[x][i])'
      BY <3>5, <3>7 DEF WriteOf
    <3> QED
      BY <2>0, <3>1, <3>8, PlaceKept DEF StoredKept
  <2>3. ASSUME NEW m \in Msgs, CreateDone(m)
        PROVE  Goal
    <3>1. UNCHANGED <<stored, isRead, screen, mark>>
      BY <2>3 DEF CreateDone
    <3>2. PICK u \in Users, v \in Users : up[m].from = u /\ up[m].to = v
      BY <2>3 DEF CreateDone, PairInv, SendInv
    <3> DEFINE w == Pointer(u, v, m)
               x == Pointer(v, u, m)
    <3>3. net' = [net EXCEPT ![u] = @ \o <<w, x>>]
      BY <2>3, <3>2 DEF CreateDone, Pointers
    <3>4. w \in Write /\ x \in Write /\ w.kind = "pointer" /\ x.kind = "pointer"
      BY DEF Pointer, Write
    <3> HIDE DEF w, x
    <3>5. \A y \in Users : \A i \in 1..Len(net'[y]) :
            (\E j \in 1..Len(net[y]) : net'[y][i] = net[y][j]) \/ net'[y][i] \in {w, x}
      BY <2>a, <3>3, <3>4
    <3>6. \A y \in Users : \A i \in 1..Len(net'[y]) :
            (\E j \in 1..Len(net[y]) : net'[y][i] = net[y][j]) \/ WriteOf(y, net[y][i])'
      BY <3>4, <3>5 DEF WriteOf
    <3> QED
      BY <2>0, <3>1, <3>6, PlaceKept DEF StoredKept
  <2>4. ASSUME NEW u \in Users, NEW v \in Users, OpenChat(u, v)
        PROVE  Goal
    <3>1. /\ UNCHANGED <<stored, isRead, net>> /\ u # v
          /\ screen' = [screen EXCEPT ![u][v] = TRUE]
          /\ mark' = [mark EXCEPT ![u][v].opening = "pointer"]
      BY <2>4 DEF OpenChat
    <3>2. \A x, y \in Users : screen'[x][y] => screen[x][y] \/ x # y
      BY <3>1 DEF TypeOK
    <3>3. \A x, y \in Users : \A k \in Marks : mark'[x][y][k] \in {mark[x][y][k], "pointer"}
      BY <2>a, <3>1 DEF Marks
    <3> QED
      BY <2>0, <3>1, <3>2, <3>3, PlaceKept DEF StoredKept
  <2>5. ASSUME NEW u \in Users, NEW v \in Users, CloseChat(u, v)
        PROVE  Goal
    <3>1. /\ UNCHANGED <<stored, isRead, net>>
          /\ \E on \in BOOLEAN : screen' = [screen EXCEPT ![u][v] = on]
          /\ mark' = [mark EXCEPT ![u][v].closing = "pointer"] /\ screen[u][v]
      BY <2>5 DEF CloseChat
    <3>2. \A x, y \in Users : screen'[x][y] => screen[x][y]
      BY <3>1 DEF TypeOK
    <3>3. \A x, y \in Users : \A k \in Marks : mark'[x][y][k] \in {mark[x][y][k], "pointer"}
      BY <2>a, <3>1 DEF Marks
    <3> QED
      BY <2>0, <3>1, <3>2, <3>3, PlaceKept DEF StoredKept
  <2>6. ASSUME NEW u \in Users, NEW v \in Users,
               Observe(u, v) \/ \E m \in Msgs, kind \in Kinds : Compose(u, v, m, kind)
        PROVE  Goal
    <3>1. UNCHANGED <<stored, isRead, net, screen, mark>>
      BY <2>6 DEF Observe, PointerEvent, ShowMessage, Compose
    <3> QED
      BY <2>0, <3>1, PlaceKept DEF StoredKept
  <2>7. ASSUME NEW u \in Users, NEW v \in Users, NEW k \in Marks, MarkReadPointer(u, v, k)
        PROVE  Goal
    <3>1. /\ UNCHANGED <<stored, isRead, net, screen>>
          /\ mark' = [mark EXCEPT ![u][v][k] = IF cache[u][v] = None THEN "idle" ELSE cache[u][v]]
      BY <2>7 DEF MarkReadPointer
    <3>2. \A x, y \in Users : \A j \in Marks : mark'[x][y][j] \in {mark[x][y][j], "idle", cache[x][y]}
      BY <2>a, <3>1
    <3> QED
      BY <2>0, <3>1, <3>2, PlaceKept DEF StoredKept
  <2>8. ASSUME NEW u \in Users, NEW v \in Users, NEW k \in Marks, MarkReadMessages(u, v, k)
        PROVE  Goal
    <3> DEFINE l == mark[u][v][k]
               w == [kind |-> "read", msgs |-> Markable(u, l)]
    <3>1. /\ UNCHANGED <<up, stored, isRead, screen>> /\ l \in Msgs
          /\ mark' = [mark EXCEPT ![u][v][k] = "idle"]
          /\ net' = net \/ net' = [net EXCEPT ![u] = Append(@, w)]
      BY <2>8 DEF MarkReadMessages
    <3>2. \A x, y \in Users : \A j \in Marks : mark'[x][y][j] \in {mark[x][y][j], "idle"}
      BY <2>a, <3>1
    <3>3. Between(l, u, v)
      BY <3>1 DEF PlaceInv, ScreensOfPairs
    <3>4. \A m \in Markable(u, l) : m \in Msgs /\ up[m].to = u /\ stored[m] # None
      BY <3>1, <3>3, MarkableIsReceived
    <3>5. w \in Write /\ w.kind = "read" /\ w.msgs = Markable(u, l)
      BY <3>4 DEF Write
    <3>6. \A y \in Users : \A i \in 1..Len(net'[y]) :
            (\E j \in 1..Len(net[y]) : net'[y][i] = net[y][j]) \/ (y = u /\ net'[y][i] = w)
      <4>1. net' = net \/ net' = [net EXCEPT ![u] = Append(@, w)]
        BY <3>1
      <4> HIDE DEF w
      <4>2. CASE net' = net
        BY <4>2
      <4>3. CASE net' = [net EXCEPT ![u] = Append(@, w)]
        BY <2>a, <3>5, <4>3
      <4> QED
        BY <4>1, <4>2, <4>3
    <3>7. \A y \in Users : \A i \in 1..Len(net'[y]) :
            (\E j \in 1..Len(net[y]) : net'[y][i] = net[y][j]) \/ WriteOf(y, net[y][i])'
      <4> HIDE DEF w
      <4> QED
        BY <3>1, <3>4, <3>5, <3>6 DEF WriteOf
    <3> QED
      BY <2>0, <3>1, <3>2, <3>7, PlaceKept DEF StoredKept
  <2>9. ASSUME NEW u \in Users, ApplyMessage(u) \/ RefuseMessage(u)
        PROVE  Goal
    <3> DEFINE w == Head(net[u])
    <3>1. /\ net[u] # << >> /\ w.kind = "message" /\ Pop(u)
          /\ UNCHANGED <<isRead, screen, mark>>
          /\ stored' = stored \/ stored' = [stored EXCEPT ![w.msg] = w.loc]
      BY <2>9 DEF ApplyMessage, RefuseMessage
    <3>2. w.msg \in Msgs /\ w.loc \in Msgs
      BY <3>1, HeadWrite DEF Write
    <3>3. up[w.msg].loc = w.loc
      <4>1. 1 \in 1..Len(net[u]) /\ w = net[u][1]
        BY <2>a, <3>1
      <4> QED
        BY <3>1, <4>1 DEF PlaceInv, StoredAtLocation
    <3>4. up'[w.msg].loc = w.loc
      BY <2>0, <3>2, <3>3 DEF SendsKept
    <3>5. StoredKept
      BY <3>1, <3>2, <3>4 DEF StoredKept, TypeOK
    <3> QED
      BY <2>0, <3>1, <3>5, PopMembers, PlaceKept
  <2>10. ASSUME NEW u \in Users, ApplyPointer(u) \/ RefusePointer(u)
         PROVE  Goal
    <3>1. net[u] # << >> /\ Pop(u) /\ UNCHANGED <<stored, isRead, screen, mark>>
      BY <2>10 DEF ApplyPointer, RefusePointer
    <3> QED
      BY <2>0, <3>1, PopMembers, PlaceKept DEF StoredKept
  <2>11. ASSUME NEW u \in Users, ApplyRead(u)
         PROVE  Goal
    <3>1. net[u] # << >> /\ Head(net[u]).kind = "read" /\ UNCHANGED <<up, stored, screen, mark>>
      BY <2>11 DEF ApplyRead
    <3> DEFINE ms == Head(net[u]).msgs
    <3>2. \A m \in ms : m \in Msgs /\ up[m].to = u /\ stored[m] # None
      <4>1. 1 \in 1..Len(net[u]) /\ Head(net[u]) = net[u][1]
        BY <2>a, <3>1
      <4>2. ms \in SUBSET Msgs
        BY <3>1, HeadWrite DEF Write
      <4> QED
        BY <3>1, <4>1, <4>2 DEF ReadOnlyByRecipient
    <3>3. PICK m \in ms :
            /\ isRead' \subseteq isRead \cup {m}
            /\ net' = [net EXCEPT ![u] = IF ms \ {m} = {} THEN Tail(@)
                                         ELSE <<[kind |-> "read", msgs |-> ms \ {m}]>> \o Tail(@)]
      BY <2>11 DEF ApplyRead
    <3>4. \A y \in Users : \A i \in 1..Len(net'[y]) :
            (\E j \in 1..Len(net[y]) : net'[y][i] = net[y][j]) \/ WriteOf(y, net[y][i])'
      <4>1. CASE ms \ {m} = {}
        <5>1. Pop(u)
          BY <3>3, <4>1 DEF Pop
        <5> QED
          BY <3>1, <5>1, PopMembers
      <4>2. CASE ms \ {m} # {}
        <5> DEFINE w == [kind |-> "read", msgs |-> ms \ {m}]
        <5>1. w \in Write /\ w.kind = "read" /\ w.msgs = ms \ {m}
          BY <3>2 DEF Write
        <5>2. net' = [net EXCEPT ![u] = <<w>> \o Tail(@)]
          BY <3>3, <4>2
        <5> HIDE DEF w
        <5> TAKE y \in Users
        <5> TAKE i \in 1..Len(net'[y])
        <5>3. CASE y # u
          BY <2>a, <5>2, <5>3
        <5>4. CASE y = u
          <6>1. net'[y] = <<w>> \o Tail(net[y]) /\ net[y] \in Seq(Write) /\ net[y] # << >>
            BY <2>a, <3>1, <5>2, <5>4
          <6>2. i = 1 => net'[y][i] = w
            BY <5>1, <6>1
          <6>3. i # 1 => i \in 1..Len(net[y]) /\ net'[y][i] = net[y][i]
            BY <5>1, <6>1
          <6>4. i = 1 => WriteOf(y, net[y][i])'
            BY <3>1, <3>2, <5>1, <5>4, <6>2 DEF WriteOf
          <6> QED
            BY <6>3, <6>4
        <5> QED
          BY <5>3, <5>4
      <4> QED
        BY <4>1, <4>2
    <3>5. \A n \in isRead' : n \in isRead \/ stored[n] # None
      BY <3>2, <3>3
    <3> QED
      BY <2>0, <3>1, <3>4, <3>5, PlaceKept DEF StoredKept
  <2>12. ASSUME NEW u \in Users, Killed(u)
         PROVE  Goal
    <3>1. /\ UNCHANGED <<stored, isRead>>
          /\ screen' = [screen EXCEPT ![u] = [v \in Users |-> FALSE]]
          /\ mark' = [mark EXCEPT ![u] = [v \in Users |-> NoMark]]
      BY <2>12 DEF Killed
    <3>2. PICK n \in 0..Len(net[u]) : net' = [net EXCEPT ![u] = SubSeq(net[u], 1, n)]
      BY <2>12 DEF Killed
    <3>3. \A y \in Users : \A i \in 1..Len(net'[y]) : \E j \in 1..Len(net[y]) : net'[y][i] = net[y][j]
      <4> TAKE y \in Users
      <4> TAKE i \in 1..Len(net'[y])
      <4>1. CASE y = u
        <5>1. net'[y] = SubSeq(net[y], 1, n) /\ net[y] \in Seq(Write) /\ n \in 0..Len(net[y])
          BY <2>a, <3>2, <4>1
        <5>2. i \in 1..Len(net[y]) /\ net'[y][i] = net[y][i]
          BY <5>1
        <5> QED
          BY <5>2
      <4>2. CASE y # u
        BY <2>a, <3>2, <4>2
      <4> QED
        BY <4>1, <4>2
    <3>4. \A x, y \in Users : screen'[x][y] => screen[x][y]
      BY <3>1 DEF TypeOK
    <3>5. \A x, y \in Users : \A k \in Marks : mark'[x][y][k] \in {mark[x][y][k], "idle"}
      BY <2>a, <3>1 DEF NoMark
    <3> QED
      BY <2>0, <3>1, <3>3, <3>4, <3>5, PlaceKept DEF StoredKept
  <2> HIDE DEF Goal
  <2>13. Goal
    BY <1>2, <2>1, <2>2, <2>3, <2>4, <2>5, <2>6, <2>7, <2>8, <2>9, <2>10, <2>11, <2>12
    DEF Next, Client, MarkRead, Apply
  <2> QED
    BY <2>13 DEF Goal
<1> QED
  BY <1>1, <1>2

\* isRead is a statement of the receiver: for any number of users and messages,
\* markMessagesRead only ever writes it from the receiver's app and on a message that
\* is stored, although the pointer and the conversation are read in two steps and
\* either may have changed in between.
THEOREM OnlyReceiversMarkRead == Spec => []ReadOnlyByRecipient
<1>1. Init => ReadOnlyByRecipient
  BY DEF Init, ReadOnlyByRecipient
<1> QED
  BY <1>1, PairInit, PairNext, TypeInit, TypeNext, PlaceInit, PlaceNext, PTL DEF Spec

----------------------------------------------------------------------------
(* Pointers and observers. *)

LEMMA FeedInit == Init => FeedInv /\ ItemInv
<1> SUFFICES ASSUME Init PROVE FeedInv /\ ItemInv
  OBVIOUS
<1>1. /\ \A u, v \in Users : /\ ptr[u][v] = None /\ cache[u][v] = Unknown
                             /\ feeds[u][v] = << >> /\ shown[u][v] = {}
      /\ \A u \in Users : net[u] = << >>
  BY DEF Init, Each
<1>2. NamesAreMade
  BY <1>1 DEF NamesAreMade
<1>3. WritesAreNew /\ LastIsKnown
  BY <1>1 DEF WritesAreNew, LastIsKnown
<1>4. EventsAreNew /\ FeedsDiffer
  BY <1>1 DEF EventsAreNew, FeedsDiffer
<1> QED
  BY <1>1, <1>2, <1>3, <1>4 DEF FeedInv, ItemInv

\* The pointer writes of x are those of before, moved up by d places.
Shifted(x, d) ==
  /\ \A i \in 1..Len(net'[x]) : net'[x][i].kind = "pointer" =>
       i + d \in 1..Len(net[x]) /\ net'[x][i] = net[x][i + d]
  /\ \A j \in 1..Len(net[x]) : net[x][j].kind = "pointer" /\ j > d =>
       j - d \in 1..Len(net'[x]) /\ net'[x][j - d] = net[x][j]

Moved(x) == Shifted(x, 0) \/ Shifted(x, 1)

\* No pointer write of x was made, applied or lost.
Quiet(x) == \E d \in {0, 1} : /\ Shifted(x, d)
                              /\ d = 1 => net[x] # << >> /\ net[x][1].kind # "pointer"

LEMMA SameIsQuiet ==
  ASSUME TypeOK, NEW x \in Users, net'[x] = net[x]
  PROVE  Shifted(x, 0)
<1>1. Len(net[x]) \in Nat
  BY DEF TypeOK
<1> QED
  BY <1>1 DEF Shifted

LEMMA PoppedIsShifted ==
  ASSUME TypeOK, NEW x \in Users, net[x] # << >>, net'[x] = Tail(net[x])
  PROVE  Shifted(x, 1)
<1>1. net[x] \in Seq(Write)
  BY DEF TypeOK
<1>2. /\ Len(net[x]) \in Nat \ {0} /\ Len(net'[x]) = Len(net[x]) - 1
      /\ \A i \in 1..Len(net'[x]) : net'[x][i] = net[x][i + 1]
  BY <1>1
<1> QED
  BY <1>2 DEF Shifted

LEMMA AppendedIsShifted ==
  ASSUME TypeOK, NEW x \in Users, NEW w, w.kind # "pointer", net'[x] = Append(net[x], w)
  PROVE  Shifted(x, 0)
<1>1. net[x] \in Seq(Write) /\ Len(net[x]) \in Nat
  BY DEF TypeOK
<1>2. /\ Len(net'[x]) = Len(net[x]) + 1
      /\ \A i \in 1..Len(net[x]) : net'[x][i] = net[x][i]
      /\ net'[x][Len(net[x]) + 1] = w
  BY <1>1
<1> QED
  BY <1>1, <1>2 DEF Shifted

\* Nothing changes for the screens while pointers and caches stay and no pointer write
\* is made, and none of their own goes unless it is refused.
LEMMA FeedKept ==
  ASSUME TypeOK, FeedInv, SendsKept, PairInv, UNCHANGED <<ptr, cache, feeds>>,
         \A x \in Users : Moved(x), refused \subseteq refused',
         \A u, v \in Users : Pending(u, u, v) => Pending(u, u, v)' \/ <<u, v>> \in refused'
  PROVE  FeedInv'
<1>0. \A l \in Msgs : Made(l) => Made(l)' /\ up'[l].from = up[l].from
  BY DEF SendsKept, Keeps, Made
<1>a. /\ \A u, v \in Users : /\ ptr[u][v] \in Msgs \cup {None}
                             /\ \A k \in 1..Len(feeds[u][v]) : feeds[u][v][k] \in Msgs
      /\ \A u \in Users : net[u] \in Seq(Write) /\ Len(net[u]) \in Nat
  BY DEF TypeOK, Location
<1>b. \A u \in Users : \A i \in 1..Len(net[u]) : net[u][i].kind = "pointer" => net[u][i].loc \in Msgs
  BY DEF TypeOK, Write
<1>1. NamesAreMade'
  BY SMTT(60), <1>0, <1>a DEF FeedInv, NamesAreMade, Made
<1>2. WritesAreNew'
  <2> SUFFICES ASSUME NEW x \in Users, NEW u \in Users, NEW v \in Users,
                      NEW i \in 1..Len(net'[x]), PendingPointer(net[x][i], u, v)'
               PROVE  /\ u # v /\ Made(net[x][i].loc)' /\ up'[net'[x][i].loc].from = x
                      /\ ptr'[u][v] # net'[x][i].loc
                      /\ \A j \in 1..Len(net'[x]) : net'[x][j] = net'[x][i] => j = i
                      /\ x # u => /\ cache'[u][v] # net'[x][i].loc
                                  /\ \A k \in 1..Len(feeds'[u][v]) : feeds'[u][v][k] # net'[x][i].loc
    BY DEF WritesAreNew
  <2>1. PICK d \in {0, 1} : Shifted(x, d)
    BY DEF Moved
  <2>2. i + d \in 1..Len(net[x]) /\ net'[x][i] = net[x][i + d] /\ PendingPointer(net[x][i + d], u, v)
    BY <2>1 DEF Shifted, PendingPointer
  <2>3. PICK l \in Msgs : l = net[x][i + d].loc
    BY <1>b, <2>2 DEF PendingPointer
  <2>4. /\ u # v /\ Made(l) /\ up[l].from = x /\ ptr[u][v] # l
        /\ \A j \in 1..Len(net[x]) : net[x][j] = net[x][i + d] => j = i + d
        /\ x # u => /\ cache[u][v] # l
                    /\ \A k \in 1..Len(feeds[u][v]) : feeds[u][v][k] # l
    BY <2>2, <2>3 DEF FeedInv, WritesAreNew
  <2>5. \A j \in 1..Len(net'[x]) : net'[x][j] = net'[x][i] => j = i
    <3> SUFFICES ASSUME NEW j \in 1..Len(net'[x]), net'[x][j] = net'[x][i] PROVE j = i
      OBVIOUS
    <3>1. j + d \in 1..Len(net[x]) /\ net'[x][j] = net[x][j + d]
      BY <2>1, <2>2 DEF Shifted, PendingPointer
    <3>2. j + d = i + d
      BY <2>2, <2>4, <3>1
    <3> QED
      BY <3>2
  <2>6. Made(l)' /\ up'[l].from = x
    BY <1>0, <2>4
  <2> QED
    BY <2>2, <2>3, <2>4, <2>5, <2>6 DEF Made
<1>3. LastIsKnown'
  <2> SUFFICES ASSUME NEW u \in Users, NEW v \in Users, NEW i \in 1..Len(net'[u]),
                      PendingPointer(net[u][i], u, v)', cache'[u][v] # Unknown,
                      \A j \in 1..Len(net'[u]) : j > i => ~PendingPointer(net[u][j], u, v)'
               PROVE  cache'[u][v] = net'[u][i].loc
    BY DEF LastIsKnown
  <2>1. PICK d \in {0, 1} : Shifted(u, d)
    BY DEF Moved
  <2>2. i + d \in 1..Len(net[u]) /\ net'[u][i] = net[u][i + d] /\ PendingPointer(net[u][i + d], u, v)
    BY <2>1 DEF Shifted, PendingPointer
  <2>3. \A j \in 1..Len(net[u]) : j > i + d => ~PendingPointer(net[u][j], u, v)
    <3> SUFFICES ASSUME NEW j \in 1..Len(net[u]), j > i + d, PendingPointer(net[u][j], u, v)
                 PROVE  FALSE
      OBVIOUS
    <3>1. j - d \in 1..Len(net'[u]) /\ net'[u][j - d] = net[u][j] /\ j - d > i
      BY <2>1, <2>2 DEF Shifted, PendingPointer
    <3> QED
      BY <3>1 DEF PendingPointer
  <2> QED
    BY SMTT(30), <2>2, <2>3 DEF FeedInv, LastIsKnown
<1>4. EventsAreNew'
  BY DEF FeedInv, EventsAreNew
<1>5. FeedsDiffer'
  BY DEF FeedInv, FeedsDiffer
<1> QED
  BY <1>1, <1>2, <1>3, <1>4, <1>5 DEF FeedInv

\* A screen's own pointer writes stay when its client makes and loses none.
LEMMA QuietIsPending ==
  ASSUME TypeOK, NEW u \in Users, NEW v \in Users, Quiet(u), Pending(u, u, v)
  PROVE  Pending(u, u, v)'
<1>1. PICK j \in 1..Len(net[u]) : PendingPointer(net[u][j], u, v)
  BY DEF Pending
<1>2. PICK d \in {0, 1} : Shifted(u, d) /\ (d = 1 => net[u][1].kind # "pointer")
  BY DEF Quiet
<1>3. j > d
  BY <1>1, <1>2 DEF PendingPointer
<1>4. j - d \in 1..Len(net'[u]) /\ net'[u][j - d] = net[u][j]
  BY <1>1, <1>2, <1>3 DEF Shifted, PendingPointer
<1> QED
  BY <1>1, <1>4 DEF Pending, PendingPointer

\* Items stay those of their observers as long as observers are only added.
LEMMA ItemKept ==
  ASSUME TypeOK, ItemInv, SendsKept,
         \A u, v \in Users :
           \/ shown'[u][v] = {}
           \/ /\ shown'[u][v] \subseteq shown[u][v]
              /\ \A k \in 1..Len(feeds[u][v]) :
                   k \in 1..Len(feeds'[u][v]) /\ feeds'[u][v][k] = feeds[u][v][k]
  PROVE  ItemInv'
<1> SUFFICES ASSUME NEW u \in Users, NEW v \in Users, NEW s \in shown'[u][v]
             PROVE  s[1] \in 1..Len(feeds'[u][v]) /\ up'[s[2]].loc = feeds'[u][v][s[1]]
  BY DEF ItemInv
<1>0. feeds[u][v] \in Seq(Msgs) /\ shown[u][v] \subseteq Nat \X Msgs
  BY DEF TypeOK
<1>1. /\ s \in shown[u][v]
      /\ \A k \in 1..Len(feeds[u][v]) :
           k \in 1..Len(feeds'[u][v]) /\ feeds'[u][v][k] = feeds[u][v][k]
  OBVIOUS
<1>2. PICK m \in Msgs : m = s[2]
  BY <1>0, <1>1
<1>3. s[1] \in 1..Len(feeds[u][v]) /\ up[m].loc = feeds[u][v][s[1]]
  BY <1>1, <1>2 DEF ItemInv
<1>4. up[m].loc # None
  BY <1>0, <1>3
<1>5. up'[m].loc = up[m].loc
  BY <1>4 DEF SendsKept
<1> QED
  BY <1>1, <1>2, <1>3, <1>5

\* A new screen observes at most the location its client knows.
LEMMA OpenChatFeeds ==
  ASSUME TypeOK, FeedInv, ItemInv, SendsKept, NEW u \in Users, NEW v \in Users, OpenChat(u, v)
  PROVE  FeedInv' /\ ItemInv'
<1>1. UNCHANGED <<up, ptr, cache, net, refused>> /\ shown' = [shown EXCEPT ![u][v] = {}]
  BY DEF OpenChat
<1>2. /\ \A a, b \in Users : a # u \/ b # v => feeds'[a][b] = feeds[a][b]
      /\ cache[u][v] \in Msgs => feeds'[u][v] = <<cache[u][v]>>
      /\ cache[u][v] \notin Msgs => feeds'[u][v] = << >>
  BY DEF OpenChat, TypeOK
<1>3. \A k \in 1..Len(feeds'[u][v]) : k = 1 /\ cache[u][v] \in Msgs /\ feeds'[u][v][k] = cache[u][v]
  <2>1. CASE cache[u][v] \in Msgs
    <3>1. PICK c \in Msgs : c = cache[u][v] /\ feeds'[u][v] = <<c>>
      BY <1>2, <2>1
    <3>2. Len(<<c>>) = 1 /\ <<c>>[1] = c
      OBVIOUS
    <3>3. Len(feeds'[u][v]) = 1 /\ feeds'[u][v][1] = c
      BY <3>1, <3>2
    <3> QED
      BY <3>1, <3>3
  <2>2. CASE cache[u][v] \notin Msgs
    BY <1>2, <2>2
  <2> QED
    BY <2>1, <2>2
<1>4. NamesAreMade'
  <2>1. ASSUME NEW a \in Users, NEW b \in Users, NEW k \in 1..Len(feeds'[a][b])
        PROVE  Made(feeds'[a][b][k])
    <3>1. CASE a = u /\ b = v
      BY <1>3, <3>1 DEF FeedInv, NamesAreMade
    <3>2. CASE a # u \/ b # v
      <4>1. feeds'[a][b] = feeds[a][b]
        BY <1>2, <3>2
      <4> QED
        BY <4>1 DEF FeedInv, NamesAreMade
    <3> QED
      BY <3>1, <3>2
  <2>2. \A l : Made(l)' <=> Made(l)
    BY <1>1 DEF Made
  <2> QED
    BY <1>1, <2>1, <2>2 DEF FeedInv, NamesAreMade
<1>5. WritesAreNew'
  <2>1. ASSUME NEW x \in Users, NEW a \in Users, NEW b \in Users, NEW i \in 1..Len(net[x]),
               PendingPointer(net[x][i], a, b), x # a, NEW k \in 1..Len(feeds'[a][b])
        PROVE  feeds'[a][b][k] # net[x][i].loc
    <3>1. /\ cache[a][b] # net[x][i].loc
          /\ \A j \in 1..Len(feeds[a][b]) : feeds[a][b][j] # net[x][i].loc
      <4>1. WritesAreNew
        BY DEF FeedInv
      <4> QED
        BY SMTT(30), <2>1, <4>1, WriteIsNew
    <3>2. CASE a = u /\ b = v
      BY <1>3, <3>1, <3>2
    <3>3. CASE a # u \/ b # v
      <4>1. feeds'[a][b] = feeds[a][b]
        BY <1>2, <3>3
      <4> QED
        BY <3>1, <4>1
    <3> QED
      BY <3>2, <3>3
  <2> QED
    BY <1>1, <2>1 DEF FeedInv, WritesAreNew, PendingPointer, Made
<1>6. LastIsKnown'
  BY <1>1 DEF FeedInv, LastIsKnown, PendingPointer
<1>7. EventsAreNew'
  <2> SUFFICES ASSUME NEW a \in Users, NEW b \in Users, ~Pending(a, a, b)',
                      <<a, b>> \notin refused', NEW k \in 1..Len(feeds'[a][b]), feeds'[a][b][k] = ptr'[a][b]
               PROVE  cache'[a][b] = ptr'[a][b]
    BY DEF EventsAreNew
  <2>1. ~Pending(a, a, b)
    BY <1>1 DEF Pending, PendingPointer
  <2>2. CASE a = u /\ b = v
    BY <1>1, <1>3, <2>2
  <2>3. CASE a # u \/ b # v
    <3>1. feeds'[a][b] = feeds[a][b]
      BY <1>2, <2>3
    <3> QED
      BY <1>1, <2>1, <3>1 DEF FeedInv, EventsAreNew
  <2> QED
    BY <2>2, <2>3
<1>8. FeedsDiffer'
  <2> SUFFICES ASSUME NEW a \in Users, NEW b \in Users
               PROVE  /\ cache'[a][b] = Unknown => feeds'[a][b] = << >>
                      /\ <<a, b>> \notin refused' =>
                           \A i, j \in 1..Len(feeds'[a][b]) : feeds'[a][b][i] = feeds'[a][b][j] => i = j
    BY DEF FeedsDiffer
  <2>1. CASE a = u /\ b = v
    <3>1. feeds'[u][v] = << >> \/ (cache[u][v] \in Msgs /\ feeds'[u][v] = <<cache[u][v]>>)
      BY <1>2
    <3>2. cache'[u][v] = Unknown => feeds'[u][v] = << >>
      BY <1>1, <3>1
    <3>3. \A i, j \in 1..Len(feeds'[u][v]) : i = j
      BY <1>3
    <3> QED
      BY <2>1, <3>2, <3>3
  <2>2. CASE a # u \/ b # v
    <3>1. feeds'[a][b] = feeds[a][b]
      BY <1>2, <2>2
    <3> QED
      BY <1>1, <3>1 DEF FeedInv, FeedsDiffer
  <2> QED
    BY <2>1, <2>2
<1>9. ItemInv'
  <2>1. \A a, b \in Users : shown'[a][b] = {} \/ (shown'[a][b] = shown[a][b] /\ feeds'[a][b] = feeds[a][b])
    BY <1>1, <1>2 DEF TypeOK
  <2> QED
    BY <2>1, ItemKept
<1> QED
  BY <1>4, <1>5, <1>6, <1>7, <1>8, <1>9 DEF FeedInv

\* What Hear does to the observers.
LEMMA FeedsHeard ==
  ASSUME TypeOK, NEW u \in Users, NEW v \in Users, NEW c, Hear(u, v, c)
  PROVE  /\ \A a, b \in Users : a # u \/ b # v =>
              feeds'[a][b] = feeds[a][b] /\ cache'[a][b] = cache[a][b]
         /\ cache'[u][v] = c
         /\ \/ feeds'[u][v] = feeds[u][v]
            \/ c \in Msgs /\ c # cache[u][v] /\ feeds'[u][v] = Append(feeds[u][v], c)
<1>1. \/ feeds' = feeds
      \/ c \in Msgs /\ c # cache[u][v] /\ feeds' = [feeds EXCEPT ![u][v] = Append(feeds[u][v], c)]
  BY DEF Hear
<1>2. cache'[u][v] = c /\ \A a, b \in Users : a # u \/ b # v => cache'[a][b] = cache[a][b]
  BY DEF Hear, TypeOK
<1>3. CASE feeds' = feeds
  BY <1>2, <1>3
<1>4. CASE feeds' # feeds
  <2> DEFINE q == Append(feeds[u][v], c)
  <2>1. feeds' = [feeds EXCEPT ![u][v] = q] /\ c \in Msgs /\ c # cache[u][v]
    BY <1>1, <1>4
  <2>2. feeds \in [Users -> [Users -> Seq(Msgs)]]
    BY DEF TypeOK
  <2>3. q \in Seq(Msgs)
    BY <2>1, <2>2
  <2> HIDE DEF q
  <2>4. feeds'[u][v] = q /\ \A a, b \in Users : a # u \/ b # v => feeds'[a][b] = feeds[a][b]
    BY <2>1, <2>2, <2>3, ChangeOne
  <2> QED
    BY <1>2, <2>1, <2>4 DEF q
<1> QED
  BY <1>3, <1>4

\* The value an event brings is observed for the first time.
LEMMA EventFeeds ==
  ASSUME TypeOK, FeedInv, ItemInv, SendsKept, NEW u \in Users, NEW v \in Users, PointerEvent(u, v)
  PROVE  FeedInv' /\ ItemInv'
<1> DEFINE c == ptr[u][v]
<1>1. /\ UNCHANGED <<up, ptr, net, shown, refused>> /\ cache[u][v] # c /\ ~Pending(u, u, v)
      /\ Hear(u, v, c)
  BY DEF PointerEvent
<1>2. /\ \A a, b \in Users : a # u \/ b # v =>
           feeds'[a][b] = feeds[a][b] /\ cache'[a][b] = cache[a][b]
      /\ cache'[u][v] = c
      /\ \/ feeds'[u][v] = feeds[u][v]
         \/ c \in Msgs /\ feeds'[u][v] = Append(feeds[u][v], c)
  BY <1>1, FeedsHeard
<1>3. feeds[u][v] \in Seq(Msgs) /\ c \in Msgs \cup {None}
  BY DEF TypeOK, Location
<1>4. \A k \in 1..Len(feeds'[u][v]) :
        \/ k \in 1..Len(feeds[u][v]) /\ feeds'[u][v][k] = feeds[u][v][k]
        \/ k = Len(feeds[u][v]) + 1 /\ c \in Msgs /\ feeds'[u][v][k] = c
  BY SMTT(30), <1>2, <1>3
<1>5. /\ <<u, v>> \notin refused => \A k \in 1..Len(feeds[u][v]) : feeds[u][v][k] # c
      /\ \A k \in 1..Len(feeds[u][v]) :
           k \in 1..Len(feeds'[u][v]) /\ feeds'[u][v][k] = feeds[u][v][k]
  <2>1. <<u, v>> \notin refused => \A k \in 1..Len(feeds[u][v]) : feeds[u][v][k] # c
    BY <1>1 DEF FeedInv, EventsAreNew
  <2> QED
    BY SMTT(60), <1>2, <1>3, <2>1
<1> HIDE DEF c
<1>6. NamesAreMade'
  <2>1. c # None => Made(c)
    BY DEF FeedInv, NamesAreMade, c
  <2>2. ASSUME NEW a \in Users, NEW b \in Users
        PROVE  /\ cache'[a][b] \in Msgs => Made(cache'[a][b])
               /\ \A k \in 1..Len(feeds'[a][b]) : Made(feeds'[a][b][k])
    <3>1. CASE a = u /\ b = v
      BY <1>2, <1>4, <2>1, <3>1 DEF FeedInv, NamesAreMade
    <3>2. CASE a # u \/ b # v
      <4>1. feeds'[a][b] = feeds[a][b] /\ cache'[a][b] = cache[a][b]
        BY <1>2, <3>2
      <4> QED
        BY <4>1 DEF FeedInv, NamesAreMade
    <3> QED
      BY <3>1, <3>2
  <2>3. \A l : Made(l)' <=> Made(l)
    BY <1>1 DEF Made
  <2> QED
    BY <1>1, <2>2, <2>3 DEF FeedInv, NamesAreMade
<1>7. WritesAreNew'
  <2>1. ASSUME NEW x \in Users, NEW a \in Users, NEW b \in Users, NEW i \in 1..Len(net[x]),
               PendingPointer(net[x][i], a, b), x # a
        PROVE  /\ cache'[a][b] # net[x][i].loc
               /\ \A k \in 1..Len(feeds'[a][b]) : feeds'[a][b][k] # net[x][i].loc
    <3>1. /\ cache[a][b] # net[x][i].loc /\ ptr[a][b] # net[x][i].loc
          /\ \A k \in 1..Len(feeds[a][b]) : feeds[a][b][k] # net[x][i].loc
      BY <2>1 DEF FeedInv, WritesAreNew
    <3> QED
      BY SMTT(60), <1>2, <1>4, <3>1 DEF c
  <2> QED
    BY <1>1, <2>1 DEF FeedInv, WritesAreNew, PendingPointer, Made
<1>8. LastIsKnown'
  <2>1. ASSUME NEW a \in Users, NEW b \in Users, NEW i \in 1..Len(net[a]),
               PendingPointer(net[a][i], a, b)
        PROVE  cache'[a][b] = cache[a][b]
    <3>1. a # u \/ b # v
      BY <1>1, <2>1 DEF Pending
    <3> QED
      BY <1>2, <3>1
  <2> QED
    BY <1>1, <2>1 DEF FeedInv, LastIsKnown, PendingPointer
<1>9. EventsAreNew'
  <2> SUFFICES ASSUME NEW a \in Users, NEW b \in Users, ~Pending(a, a, b)',
                      <<a, b>> \notin refused', NEW k \in 1..Len(feeds'[a][b]), feeds'[a][b][k] = ptr'[a][b]
               PROVE  cache'[a][b] = ptr'[a][b]
    BY DEF EventsAreNew
  <2>1. ~Pending(a, a, b)
    BY <1>1 DEF Pending, PendingPointer
  <2>2. CASE a = u /\ b = v
    BY <1>1, <1>2, <2>2 DEF c
  <2>3. CASE a # u \/ b # v
    <3>1. feeds'[a][b] = feeds[a][b] /\ cache'[a][b] = cache[a][b]
      BY <1>2, <2>3
    <3> QED
      BY <1>1, <2>1, <3>1 DEF FeedInv, EventsAreNew
  <2> QED
    BY <2>2, <2>3
<1>10. FeedsDiffer'
  <2>1. <<u, v>> \notin refused =>
          \A i, j \in 1..Len(feeds'[u][v]) : feeds'[u][v][i] = feeds'[u][v][j] => i = j
    BY SMTT(60), <1>4, <1>5 DEF FeedInv, FeedsDiffer
  <2>2. c # Unknown
    BY <1>3
  <2> SUFFICES ASSUME NEW a \in Users, NEW b \in Users
               PROVE  /\ cache'[a][b] = Unknown => feeds'[a][b] = << >>
                      /\ <<a, b>> \notin refused' =>
                           \A i, j \in 1..Len(feeds'[a][b]) : feeds'[a][b][i] = feeds'[a][b][j] => i = j
    BY DEF FeedsDiffer
  <2>3. CASE a = u /\ b = v
    BY <1>1, <1>2, <2>1, <2>2, <2>3
  <2>4. CASE a # u \/ b # v
    <3>1. feeds'[a][b] = feeds[a][b] /\ cache'[a][b] = cache[a][b]
      BY <1>2, <2>4
    <3> QED
      BY <1>1, <3>1 DEF FeedInv, FeedsDiffer
  <2> QED
    BY <2>3, <2>4
<1>11. ItemInv'
  <2>1. \A a, b \in Users : /\ shown'[a][b] = shown[a][b]
                            /\ \A k \in 1..Len(feeds[a][b]) :
                                 k \in 1..Len(feeds'[a][b]) /\ feeds'[a][b][k] = feeds[a][b][k]
    BY <1>1, <1>2, <1>5
  <2> QED
    BY <2>1, ItemKept
<1> QED
  BY <1>6, <1>7, <1>8, <1>9, <1>10, <1>11 DEF FeedInv

\* The location of a first message was named nowhere before its completion block.
LEMMA CreateDoneFeeds ==
  ASSUME PairInv, TypeOK, PlaceInv, FeedInv, ItemInv, SendsKept, NEW m \in Msgs, CreateDone(m)
  PROVE  FeedInv' /\ ItemInv'
<1>1. /\ up[m].pc \in {"created", "uncreated"} /\ up' = [up EXCEPT ![m].pc = "true"]
      /\ UNCHANGED <<ptr, shown, refused>>
  BY DEF CreateDone
<1>2. PICK u \in Users, v \in Users : up[m].from = u /\ up[m].to = v
  BY <1>1 DEF PairInv, SendInv
<1>3. u # v
  BY <1>1, <1>2 DEF PlaceInv, SendHasLocation
<1> DEFINE w == Pointer(u, v, m)
           x == Pointer(v, u, m)
<1>4. net' = [net EXCEPT ![u] = @ \o <<w, x>>] /\ Hear(u, v, m)
  BY <1>2 DEF CreateDone, Pointers
<1>5. /\ w \in Write /\ x \in Write /\ w # x /\ w.loc = m /\ x.loc = m
      /\ PendingPointer(w, u, v) /\ PendingPointer(x, v, u)
      /\ \A a, b : /\ PendingPointer(w, a, b) => a = u /\ b = v
                   /\ PendingPointer(x, a, b) => a = v /\ b = u
  BY <1>3 DEF Pointer, Write, PendingPointer
<1>6. Made(m)' /\ up'[m].from = u
  BY <1>1, <1>2 DEF Made, TypeOK, Upload
<1>7. \A l \in Msgs : Made(l) => Made(l)' /\ up'[l].from = up[l].from
  BY DEF SendsKept, Keeps, Made
<1>8. \A a, b \in Users : /\ ptr[a][b] # m /\ cache[a][b] # m
                          /\ \A k \in 1..Len(feeds[a][b]) : feeds[a][b][k] # m
  <2>1. ~Made(m) /\ m # None
    BY <1>1 DEF Made
  <2> QED
    BY <2>1 DEF FeedInv, NamesAreMade
<1>9. /\ \A a, b \in Users : a # u \/ b # v =>
           feeds'[a][b] = feeds[a][b] /\ cache'[a][b] = cache[a][b]
      /\ cache'[u][v] = m
      /\ feeds'[u][v] = feeds[u][v] \/ feeds'[u][v] = Append(feeds[u][v], m)
  BY <1>4, FeedsHeard
<1>10. ASSUME NEW a \in Users, NEW b \in Users
       PROVE  /\ \A k \in 1..Len(feeds'[a][b]) :
                   \/ k \in 1..Len(feeds[a][b]) /\ feeds'[a][b][k] = feeds[a][b][k]
                   \/ k = Len(feeds[a][b]) + 1 /\ feeds'[a][b][k] = m
              /\ \A k \in 1..Len(feeds[a][b]) :
                   k \in 1..Len(feeds'[a][b]) /\ feeds'[a][b][k] = feeds[a][b][k]
  <2>1. feeds[a][b] \in Seq(Msgs) /\ Len(feeds[a][b]) \in Nat
    BY DEF TypeOK
  <2>2. feeds'[a][b] = feeds[a][b] \/ feeds'[a][b] = Append(feeds[a][b], m)
    BY <1>9
  <2>3. CASE feeds'[a][b] = feeds[a][b]
    BY <2>3
  <2>4. CASE feeds'[a][b] = Append(feeds[a][b], m)
    <3>1. /\ Len(feeds'[a][b]) = Len(feeds[a][b]) + 1
          /\ feeds'[a][b][Len(feeds[a][b]) + 1] = m
          /\ \A k \in 1..Len(feeds[a][b]) : feeds'[a][b][k] = feeds[a][b][k]
      BY <2>1, <2>4
    <3> QED
      BY SMTT(30), <2>1, <3>1
  <2> QED
    BY <2>2, <2>3, <2>4
<1>11. /\ \A y \in Users : net[y] \in Seq(Write) /\ Len(net[y]) \in Nat
       /\ \A y \in Users : y # u => net'[y] = net[y]
       /\ Len(net'[u]) = Len(net[u]) + 2
       /\ \A i \in 1..Len(net[u]) : net'[u][i] = net[u][i]
       /\ net'[u][Len(net[u]) + 1] = w /\ net'[u][Len(net[u]) + 2] = x
  <2> HIDE DEF w, x
  <2>1. net \in [Users -> Seq(Write)]
    BY DEF TypeOK
  <2>2. net'[u] = net[u] \o <<w, x>> /\ \A y \in Users : y # u => net'[y] = net[y]
    BY <1>4, <2>1
  <2> QED
    BY <1>5, <2>1, <2>2
<1> HIDE DEF w, x
<1>12. \A y \in Users : \A i \in 1..Len(net'[y]) :
         \/ i \in 1..Len(net[y]) /\ net'[y][i] = net[y][i]
         \/ y = u /\ i = Len(net[u]) + 1 /\ net'[y][i] = w
         \/ y = u /\ i = Len(net[u]) + 2 /\ net'[y][i] = x
  <2> SUFFICES ASSUME NEW y \in Users, NEW i \in 1..Len(net'[y]),
                      ~(i \in 1..Len(net[y]) /\ net'[y][i] = net[y][i])
               PROVE  y = u /\ i \in {Len(net[u]) + 1, Len(net[u]) + 2}
    BY <1>11
  <2>1. y = u
    BY <1>11
  <2>2. i \in 1..(Len(net[u]) + 2) /\ i \notin 1..Len(net[u]) /\ Len(net[u]) \in Nat
    BY <1>11, <2>1
  <2> QED
    BY <2>1, <2>2
<1>13. \A y, a, b \in Users : \A i \in 1..Len(net[y]) :
         PendingPointer(net[y][i], a, b) => net[y][i].loc \in Msgs /\ net[y][i].loc # m /\ net[y][i] \notin {w, x}
  <2> SUFFICES ASSUME NEW y \in Users, NEW a \in Users, NEW b \in Users, NEW i \in 1..Len(net[y]),
                      PendingPointer(net[y][i], a, b)
               PROVE  net[y][i].loc \in Msgs /\ net[y][i].loc # m
    BY <1>5
  <2>1. Made(net[y][i].loc)
    BY DEF FeedInv, WritesAreNew
  <2>2. net[y][i] \in Write
    BY <1>11
  <2> QED
    BY <1>1, <2>1, <2>2 DEF Made, Write, PendingPointer
<1>14. NamesAreMade'
  <2> SUFFICES ASSUME NEW a \in Users, NEW b \in Users
               PROVE  /\ ptr'[a][b] # None => Made(ptr[a][b])'
                      /\ cache'[a][b] \in Msgs => Made(cache[a][b])'
                      /\ \A k \in 1..Len(feeds'[a][b]) : Made(feeds[a][b][k])'
    BY DEF NamesAreMade
  <2>1. /\ ptr[a][b] \in Msgs \cup {None}
        /\ \A k \in 1..Len(feeds[a][b]) : feeds[a][b][k] \in Msgs
    <3>1. feeds[a][b] \in Seq(Msgs) /\ ptr[a][b] \in Location
      BY DEF TypeOK
    <3> QED
      BY <3>1 DEF Location
  <2>2. /\ ptr[a][b] # None => Made(ptr[a][b])
        /\ cache[a][b] \in Msgs => Made(cache[a][b])
        /\ \A k \in 1..Len(feeds[a][b]) : Made(feeds[a][b][k])
    BY DEF FeedInv, NamesAreMade
  <2>3. ptr'[a][b] # None => Made(ptr[a][b])'
    BY <1>1, <1>7, <2>1, <2>2 DEF Made
  <2>4. cache'[a][b] \in Msgs => Made(cache[a][b])'
    <3>1. cache'[a][b] = cache[a][b] \/ cache'[a][b] = m
      BY <1>9
    <3> QED
      BY <1>6, <1>7, <2>2, <3>1 DEF Made
  <2>5. \A k \in 1..Len(feeds'[a][b]) : Made(feeds[a][b][k])'
    <3> TAKE k \in 1..Len(feeds'[a][b])
    <3>1. \/ k \in 1..Len(feeds[a][b]) /\ feeds'[a][b][k] = feeds[a][b][k]
          \/ feeds'[a][b][k] = m
      BY <1>10
    <3>2. PICK l \in Msgs : l = feeds'[a][b][k] /\ (l = m \/ Made(l))
      BY <2>1, <2>2, <3>1
    <3>3. Made(l)'
      BY <1>6, <1>7, <3>2
    <3> QED
      BY <3>2, <3>3 DEF Made
  <2> QED
    BY <2>3, <2>4, <2>5
<1>15. WritesAreNew'
  <2> SUFFICES ASSUME NEW y \in Users, NEW a \in Users, NEW b \in Users,
                      NEW i \in 1..Len(net'[y]), PendingPointer(net[y][i], a, b)'
               PROVE  /\ a # b /\ Made(net[y][i].loc)' /\ up'[net'[y][i].loc].from = y
                      /\ ptr'[a][b] # net'[y][i].loc
                      /\ \A j \in 1..Len(net'[y]) : net'[y][j] = net'[y][i] => j = i
                      /\ y # a => /\ cache'[a][b] # net'[y][i].loc
                                  /\ \A k \in 1..Len(feeds'[a][b]) : feeds'[a][b][k] # net'[y][i].loc
    BY DEF WritesAreNew
  <2>0. PendingPointer(net'[y][i], a, b)
    BY DEF PendingPointer
  <2>1. CASE i \in 1..Len(net[y]) /\ net'[y][i] = net[y][i]
    <3>1. PendingPointer(net[y][i], a, b)
      BY <2>0, <2>1
    <3>2. PICK l \in Msgs : l = net[y][i].loc /\ l # m
      BY <1>13, <2>1, <3>1
    <3>3. /\ a # b /\ Made(l) /\ up[l].from = y /\ ptr[a][b] # l
          /\ \A j \in 1..Len(net[y]) : net[y][j] = net[y][i] => j = i
          /\ y # a => /\ cache[a][b] # l
                      /\ \A k \in 1..Len(feeds[a][b]) : feeds[a][b][k] # l
      BY <2>1, <3>1, <3>2 DEF FeedInv, WritesAreNew
    <3>4. \A j \in 1..Len(net'[y]) : net'[y][j] = net'[y][i] => j = i
      BY <1>12, <1>13, <2>1, <3>1, <3>3
    <3>5. y # a => /\ cache'[a][b] # l
                   /\ \A k \in 1..Len(feeds'[a][b]) : feeds'[a][b][k] # l
      <4>1. cache'[a][b] = cache[a][b] \/ cache'[a][b] = m
        BY <1>9
      <4>2. y # a => cache'[a][b] # l
        BY <3>2, <3>3, <4>1
      <4>3. ASSUME y # a, NEW k \in 1..Len(feeds'[a][b]) PROVE feeds'[a][b][k] # l
        <5>1. \/ k \in 1..Len(feeds[a][b]) /\ feeds'[a][b][k] = feeds[a][b][k]
              \/ feeds'[a][b][k] = m
          BY <1>10
        <5> QED
          BY <3>2, <3>3, <4>3, <5>1
      <4> QED
        BY <4>2, <4>3
    <3>6. Made(l)' /\ up'[l].from = y
      BY <1>7, <3>3
    <3> QED
      BY <1>1, <2>1, <3>2, <3>3, <3>4, <3>5, <3>6 DEF Made
  <2>2. CASE y = u /\ i = Len(net[u]) + 1 /\ net'[y][i] = w
    <3>1. a = u /\ b = v
      BY <1>5, <2>0, <2>2
    <3>2. \A j \in 1..Len(net'[y]) : net'[y][j] = w => j = i
      BY <1>5, <1>12, <1>13, <2>2
    <3> QED
      BY <1>1, <1>3, <1>5, <1>6, <1>8, <2>2, <3>1, <3>2 DEF Made
  <2>3. CASE y = u /\ i = Len(net[u]) + 2 /\ net'[y][i] = x
    <3>1. a = v /\ b = u
      BY <1>5, <2>0, <2>3
    <3>2. \A j \in 1..Len(net'[y]) : net'[y][j] = x => j = i
      BY <1>5, <1>12, <1>13, <2>3
    <3>3. cache'[a][b] = cache[a][b] /\ feeds'[a][b] = feeds[a][b]
      BY <1>3, <1>9, <3>1
    <3> QED
      BY <1>1, <1>3, <1>5, <1>6, <1>8, <2>3, <3>1, <3>2, <3>3 DEF Made
  <2> QED
    BY <1>12, <2>1, <2>2, <2>3
<1>16. LastIsKnown'
  <2> SUFFICES ASSUME NEW a \in Users, NEW b \in Users, NEW i \in 1..Len(net'[a]),
                      PendingPointer(net[a][i], a, b)', cache'[a][b] # Unknown,
                      \A j \in 1..Len(net'[a]) : j > i => ~PendingPointer(net[a][j], a, b)'
               PROVE  cache'[a][b] = net'[a][i].loc
    BY DEF LastIsKnown
  <2>0. /\ PendingPointer(net'[a][i], a, b)
        /\ \A j \in 1..Len(net'[a]) : j > i => ~PendingPointer(net'[a][j], a, b)
    BY DEF PendingPointer
  <2>1. CASE a = u /\ b = v
    <3>1. Len(net[u]) + 1 \in 1..Len(net'[u]) /\ net'[u][Len(net[u]) + 1] = w
      BY <1>11
    <3>2. i >= Len(net[u]) + 1
      BY <1>5, <1>11, <2>0, <2>1, <3>1
    <3>3. net'[a][i] \in {w, x}
      BY <1>11, <1>12, <2>1, <3>2
    <3> QED
      BY <1>5, <1>9, <2>1, <3>3
  <2>2. CASE a # u \/ b # v
    <3>1. cache'[a][b] = cache[a][b]
      BY <1>9, <2>2
    <3>2. i \in 1..Len(net[a]) /\ net'[a][i] = net[a][i]
      BY <1>3, <1>5, <1>12, <2>0, <2>2
    <3>3. \A j \in 1..Len(net[a]) : j > i => ~PendingPointer(net[a][j], a, b)
      <4>1. \A j \in 1..Len(net[a]) : j \in 1..Len(net'[a]) /\ net'[a][j] = net[a][j]
        BY <1>11
      <4> QED
        BY <2>0, <4>1
    <3> QED
      BY SMTT(30), <2>0, <3>1, <3>2, <3>3 DEF FeedInv, LastIsKnown
  <2> QED
    BY <2>1, <2>2
<1>17. EventsAreNew'
  <2> SUFFICES ASSUME NEW a \in Users, NEW b \in Users, ~Pending(a, a, b)',
                      <<a, b>> \notin refused', NEW k \in 1..Len(feeds'[a][b]), feeds'[a][b][k] = ptr'[a][b]
               PROVE  cache'[a][b] = ptr'[a][b]
    BY DEF EventsAreNew
  <2>0. \A j \in 1..Len(net'[a]) : ~PendingPointer(net'[a][j], a, b)
    BY DEF Pending, PendingPointer
  <2>1. a # u \/ b # v
    <3>1. Len(net[u]) + 1 \in 1..Len(net'[u]) /\ PendingPointer(net'[u][Len(net[u]) + 1], u, v)
      BY <1>5, <1>11
    <3> QED
      BY <2>0, <3>1
  <2>2. \A j \in 1..Len(net[a]) : j \in 1..Len(net'[a]) /\ net'[a][j] = net[a][j]
    BY SMTT(30), <1>11
  <2>3. ~Pending(a, a, b)
    BY <2>0, <2>2 DEF Pending
  <2>4. feeds'[a][b] = feeds[a][b] /\ cache'[a][b] = cache[a][b]
    BY <1>9, <2>1
  <2> QED
    BY <1>1, <2>3, <2>4 DEF FeedInv, EventsAreNew
<1>18. FeedsDiffer'
  <2> SUFFICES ASSUME NEW a \in Users, NEW b \in Users
               PROVE  /\ cache'[a][b] = Unknown => feeds'[a][b] = << >>
                      /\ <<a, b>> \notin refused' =>
                           \A i, j \in 1..Len(feeds'[a][b]) : feeds'[a][b][i] = feeds'[a][b][j] => i = j
    BY DEF FeedsDiffer
  <2>1. cache'[a][b] = Unknown => feeds'[a][b] = << >>
    <3>1. CASE a = u /\ b = v
      BY <1>9, <3>1
    <3>2. CASE a # u \/ b # v
      <4>1. feeds'[a][b] = feeds[a][b] /\ cache'[a][b] = cache[a][b]
        BY <1>9, <3>2
      <4>2. cache[a][b] = Unknown => feeds[a][b] = << >>
        BY Zenon DEF FeedInv, FeedsDiffer
      <4> QED
        BY <4>1, <4>2
    <3> QED
      BY <3>1, <3>2
  <2>2. <<a, b>> \notin refused =>
          \A i, j \in 1..Len(feeds[a][b]) : feeds[a][b][i] = feeds[a][b][j] => i = j
    BY DEF FeedInv, FeedsDiffer
  <2>3. <<a, b>> \notin refused =>
          \A i, j \in 1..Len(feeds'[a][b]) : feeds'[a][b][i] = feeds'[a][b][j] => i = j
    <3> HAVE <<a, b>> \notin refused
    <3> TAKE i, j \in 1..Len(feeds'[a][b])
    <3> DEFINE Place(k) == \/ k \in 1..Len(feeds[a][b]) /\ feeds'[a][b][k] = feeds[a][b][k]
                           \/ k = Len(feeds[a][b]) + 1 /\ feeds'[a][b][k] = m
    <3>0. \A k \in 1..Len(feeds'[a][b]) : Place(k)
      BY SMTT(30), <1>10
    <3> HIDE DEF Place
    <3>p. Place(i) /\ Place(j)
      BY <3>0
    <3>1. /\ \/ i \in 1..Len(feeds[a][b]) /\ feeds'[a][b][i] = feeds[a][b][i]
             \/ i = Len(feeds[a][b]) + 1 /\ feeds'[a][b][i] = m
          /\ \/ j \in 1..Len(feeds[a][b]) /\ feeds'[a][b][j] = feeds[a][b][j]
             \/ j = Len(feeds[a][b]) + 1 /\ feeds'[a][b][j] = m
      BY <3>p DEF Place
    <3>2. \A k \in 1..Len(feeds[a][b]) : feeds[a][b][k] # m
      BY <1>8
    <3> QED
      BY <2>2, <3>1, <3>2
  <2> QED
    BY <1>1, <2>1, <2>3
<1>19. ItemInv'
  BY <1>1, <1>10, ItemKept
<1> QED
  BY <1>14, <1>15, <1>16, <1>17, <1>18, <1>19 DEF FeedInv

\* A pointer takes each value once, and the last of a client's own writes makes it
\* what the client knows already.
LEMMA PointerFeeds ==
  ASSUME PairInv, TypeOK, FeedInv, NEW z \in Users, ApplyPointer(z)
  PROVE  FeedInv'
<1> DEFINE w == Head(net[z])
<1>1. /\ net[z] # << >> /\ w.kind = "pointer" /\ Pop(z)
      /\ UNCHANGED <<up, cache, feeds, refused>>
      /\ ptr' = [ptr EXCEPT ![w.user][w.peer] = w.loc]
  BY DEF ApplyPointer
<1>2. PICK a \in Users, b \in Users, l \in Msgs : w.user = a /\ w.peer = b /\ w.loc = l
  BY <1>1, HeadWrite DEF Write
<1>3. /\ \A y \in Users : net[y] \in Seq(Write) /\ Len(net[y]) \in Nat
      /\ 1 \in 1..Len(net[z]) /\ net[z][1] = w /\ PendingPointer(w, a, b)
  <2>1. \A y \in Users : net[y] \in Seq(Write) /\ Len(net[y]) \in Nat
    BY DEF TypeOK
  <2>2. 1 \in 1..Len(net[z]) /\ net[z][1] = w
    BY <1>1, <2>1
  <2>3. PendingPointer(w, a, b)
    BY <1>1, <1>2 DEF PendingPointer
  <2> QED
    BY <2>1, <2>2, <2>3
<1>4. /\ \A c, d \in Users : c # a \/ d # b => ptr'[c][d] = ptr[c][d]
      /\ ptr'[a][b] = l
  BY <1>1, <1>2 DEF TypeOK
<1>5. \A y \in Users : y # z => net'[y] = net[y]
  BY <1>1 DEF Pop, TypeOK
<1>6. net'[z] = Tail(net[z])
  BY <1>1 DEF Pop, TypeOK
<1>7. Shifted(z, 1) /\ \A y \in Users : y # z => Shifted(y, 0)
  BY <1>1, <1>5, <1>6, SameIsQuiet, PoppedIsShifted
<1>8. /\ a # b /\ Made(l) /\ up[l].from = z
      /\ \A j \in 1..Len(net[z]) : net[z][j] = w => j = 1
      /\ z # a => /\ cache[a][b] # l
                  /\ \A k \in 1..Len(feeds[a][b]) : feeds[a][b][k] # l
  BY <1>2, <1>3 DEF FeedInv, WritesAreNew
<1> HIDE DEF w
<1>9. NamesAreMade'
  <2>1. \A c : Made(c)' <=> Made(c)
    BY <1>1 DEF Made
  <2>2. \A c, d \in Users : ptr'[c][d] = ptr[c][d] \/ ptr'[c][d] = l
    BY <1>4
  <2> QED
    BY <1>1, <1>8, <2>1, <2>2 DEF FeedInv, NamesAreMade
\* The writes that are left, at the place they had before.
<1> DEFINE old(y, i) == IF y = z THEN i + 1 ELSE i
<1>10. ASSUME NEW y \in Users, NEW c \in Users, NEW d \in Users, NEW i \in 1..Len(net'[y]),
              PendingPointer(net'[y][i], c, d)
       PROVE  old(y, i) \in 1..Len(net[y]) /\ net'[y][i] = net[y][old(y, i)]
  <2>1. CASE y = z
    BY <1>7, <1>10, <2>1 DEF Shifted, PendingPointer
  <2>2. CASE y # z
    BY <1>5, <2>2
  <2> QED
    BY <2>1, <2>2
<1>11. WritesAreNew'
  <2> SUFFICES ASSUME NEW y \in Users, NEW c \in Users, NEW d \in Users,
                      NEW i \in 1..Len(net'[y]), PendingPointer(net[y][i], c, d)'
               PROVE  /\ c # d /\ Made(net[y][i].loc)' /\ up'[net'[y][i].loc].from = y
                      /\ ptr'[c][d] # net'[y][i].loc
                      /\ \A j \in 1..Len(net'[y]) : net'[y][j] = net'[y][i] => j = i
                      /\ y # c => /\ cache'[c][d] # net'[y][i].loc
                                  /\ \A k \in 1..Len(feeds'[c][d]) : feeds'[c][d][k] # net'[y][i].loc
    BY DEF WritesAreNew
  <2>0. PendingPointer(net'[y][i], c, d)
    BY DEF PendingPointer
  <2>1. PICK j \in 1..Len(net[y]) :
          net'[y][i] = net[y][j] /\ (y = z => j = i + 1) /\ (y # z => j = i)
    <3>1. old(y, i) \in 1..Len(net[y]) /\ net'[y][i] = net[y][old(y, i)]
      <4> HIDE DEF old
      <4> QED
        BY <1>10, <2>0
    <3> QED
      BY <3>1
  <2>2. PendingPointer(net[y][j], c, d)
    BY <2>0, <2>1
  <2>3. PICK n : n = net[y][j].loc
    OBVIOUS
  <2>4. /\ c # d /\ Made(n) /\ up[n].from = y /\ ptr[c][d] # n
        /\ \A k \in 1..Len(net[y]) : net[y][k] = net[y][j] => k = j
        /\ y # c => /\ cache[c][d] # n
                    /\ \A k \in 1..Len(feeds[c][d]) : feeds[c][d][k] # n
    BY <2>2, <2>3 DEF FeedInv, WritesAreNew
  <2>5. \A k \in 1..Len(net'[y]) : net'[y][k] = net'[y][i] => k = i
    <3> SUFFICES ASSUME NEW k \in 1..Len(net'[y]), net'[y][k] = net'[y][i] PROVE k = i
      OBVIOUS
    <3>1. PICK h \in 1..Len(net[y]) :
            net'[y][k] = net[y][h] /\ (y = z => h = k + 1) /\ (y # z => h = k)
      <4>1. PendingPointer(net'[y][k], c, d)
        BY <2>0
      <4>2. old(y, k) \in 1..Len(net[y]) /\ net'[y][k] = net[y][old(y, k)]
        <5> HIDE DEF old
        <5> QED
          BY <1>10, <4>1
      <4> QED
        BY <4>2
    <3>2. h = j
      BY <2>1, <2>4, <3>1
    <3> QED
      BY <2>1, <3>1, <3>2
  <2>6. ptr'[c][d] # n
    <3>1. CASE c # a \/ d # b
      BY <1>4, <2>4, <3>1
    <3>2. CASE c = a /\ d = b
      <4>1. SUFFICES ASSUME n = l PROVE FALSE
        BY <1>4, <3>2
      <4>2. y = z
        BY <1>8, <2>4, <4>1
      <4>3. net[y][j] \in Write /\ w \in Write /\ w.kind = "pointer"
        BY <1>1, <1>3 DEF w
      <4>4. net[y][j] = w
        <5> DEFINE R == [kind : {"pointer"}, user : Users, peer : Users, loc : Msgs]
        <5>1. net[y][j] \in R /\ w \in R
          BY <2>2, <4>3 DEF PendingPointer, Write
        <5>2. \A r, t \in R : r.user = t.user /\ r.peer = t.peer /\ r.loc = t.loc => r = t
          OBVIOUS
        <5>3. /\ net[y][j].user = w.user /\ net[y][j].peer = w.peer
              /\ net[y][j].loc = w.loc
          BY <1>2, <2>2, <2>3, <3>2, <4>1 DEF PendingPointer
        <5> HIDE DEF R
        <5> QED
          BY <5>1, <5>2, <5>3
      <4>5. j = i + 1 /\ j = 1 /\ i \in Nat /\ i >= 1
        BY <1>8, <2>1, <4>2, <4>4
      <4> QED
        BY <4>5
    <3> QED
      BY <3>1, <3>2
  <2> QED
    BY <1>1, <2>1, <2>3, <2>4, <2>5, <2>6 DEF Made
<1>12. \A c, d \in Users : \A j \in 1..Len(net[c]) :
         PendingPointer(net[c][j], c, d) /\ (c = z => j > 1) =>
           \E i \in 1..Len(net'[c]) : /\ net'[c][i] = net[c][j]
                                      /\ c = z => j = i + 1
                                      /\ c # z => j = i
  <2> TAKE c, d \in Users
  <2> TAKE j \in 1..Len(net[c])
  <2> HAVE PendingPointer(net[c][j], c, d) /\ (c = z => j > 1)
  <2>1. CASE c = z
    <3>1. j - 1 \in 1..Len(net'[c]) /\ net'[c][j - 1] = net[c][j] /\ j = (j - 1) + 1
      BY <1>7, <2>1 DEF Shifted, PendingPointer
    <3> QED
      BY <2>1, <3>1
  <2>2. CASE c # z
    BY <1>5, <2>2
  <2> QED
    BY <2>1, <2>2
<1>13. LastIsKnown'
  <2> SUFFICES ASSUME NEW c \in Users, NEW d \in Users, NEW i \in 1..Len(net'[c]),
                      PendingPointer(net[c][i], c, d)', cache'[c][d] # Unknown,
                      \A j \in 1..Len(net'[c]) : j > i => ~PendingPointer(net[c][j], c, d)'
               PROVE  cache'[c][d] = net'[c][i].loc
    BY DEF LastIsKnown
  <2>0. /\ PendingPointer(net'[c][i], c, d)
        /\ \A j \in 1..Len(net'[c]) : j > i => ~PendingPointer(net'[c][j], c, d)
    BY DEF PendingPointer
  <2>1. PICK j \in 1..Len(net[c]) :
          net'[c][i] = net[c][j] /\ (c = z => j = i + 1) /\ (c # z => j = i)
    <3>1. old(c, i) \in 1..Len(net[c]) /\ net'[c][i] = net[c][old(c, i)]
      <4> HIDE DEF old
      <4> QED
        BY <1>10, <2>0
    <3> QED
      BY <3>1
  <2>2. \A k \in 1..Len(net[c]) : k > j => ~PendingPointer(net[c][k], c, d)
    <3> SUFFICES ASSUME NEW k \in 1..Len(net[c]), k > j, PendingPointer(net[c][k], c, d) PROVE FALSE
      OBVIOUS
    <3>1. PICK h \in 1..Len(net'[c]) : net'[c][h] = net[c][k] /\ (c = z => k = h + 1) /\ (c # z => k = h)
      BY <1>12, <2>1
    <3>2. h > i
      BY <2>1, <3>1
    <3> QED
      BY <2>0, <3>1, <3>2
  <2>3. PendingPointer(net[c][j], c, d) /\ cache[c][d] # Unknown
    BY <1>1, <2>0, <2>1
  <2>4. cache[c][d] = net[c][j].loc
    BY <2>2, <2>3 DEF FeedInv, LastIsKnown
  <2> QED
    BY <1>1, <2>1, <2>4
<1>14. EventsAreNew'
  <2> SUFFICES ASSUME NEW c \in Users, NEW d \in Users, ~Pending(c, c, d)',
                      <<c, d>> \notin refused', NEW k \in 1..Len(feeds'[c][d]), feeds'[c][d][k] = ptr'[c][d]
               PROVE  cache'[c][d] = ptr'[c][d]
    BY DEF EventsAreNew
  <2>0. \A j \in 1..Len(net'[c]) : ~PendingPointer(net'[c][j], c, d)
    BY DEF Pending, PendingPointer
  <2>1. \A j \in 1..Len(net[c]) : PendingPointer(net[c][j], c, d) => c = z /\ j = 1
    BY <1>12, <2>0
  <2>2. CASE c = a /\ d = b
    <3>1. z = a
      BY <1>1, <1>4, <1>8, <2>2
    <3>2. \A j \in 1..Len(net[a]) : j > 1 => ~PendingPointer(net[a][j], a, b)
      BY <2>1, <2>2
    <3>3. cache[a][b] # Unknown
      <4>1. feeds[a][b] # << >>
        BY <1>1, <2>2
      <4> QED
        BY <4>1 DEF FeedInv, FeedsDiffer
    <3>4. cache[a][b] = net[a][1].loc
      BY <1>3, <3>1, <3>2, <3>3 DEF FeedInv, LastIsKnown
    <3> QED
      BY <1>1, <1>2, <1>3, <1>4, <2>2, <3>1, <3>4
  <2>3. CASE c # a \/ d # b
    <3>1. ~Pending(c, c, d)
      <4>1. SUFFICES ASSUME NEW j \in 1..Len(net[c]), PendingPointer(net[c][j], c, d) PROVE FALSE
        BY DEF Pending
      <4>2. c = z /\ j = 1
        BY <2>1, <4>1
      <4> QED
        BY <1>3, <2>3, <4>1, <4>2 DEF PendingPointer
    <3>2. ptr'[c][d] = ptr[c][d]
      BY <1>4, <2>3
    <3> QED
      BY <1>1, <3>1, <3>2 DEF FeedInv, EventsAreNew
  <2> QED
    BY <2>2, <2>3
<1>15. FeedsDiffer'
  BY <1>1 DEF FeedInv, FeedsDiffer
<1> QED
  BY <1>9, <1>11, <1>13, <1>14, <1>15 DEF FeedInv

\* A killed app starts from nothing; what it left under way is new to the others.
LEMMA KilledFeeds ==
  ASSUME TypeOK, FeedInv, ItemInv, SendsKept, NEW z \in Users, Killed(z)
  PROVE  FeedInv' /\ ItemInv'
<1>1. UNCHANGED <<ptr, refused>>
  BY DEF Killed
<1>2. PICK n \in 0..Len(net[z]) : net' = [net EXCEPT ![z] = SubSeq(net[z], 1, n)]
  BY DEF Killed
<1>3. /\ \A b \in Users : cache'[z][b] = Unknown /\ feeds'[z][b] = << >> /\ shown'[z][b] = {}
      /\ \A a, b \in Users : a # z =>
           cache'[a][b] = cache[a][b] /\ feeds'[a][b] = feeds[a][b] /\ shown'[a][b] = shown[a][b]
  BY DEF Killed, TypeOK
<1>4. /\ \A y \in Users : net[y] \in Seq(Write)
      /\ net'[z] = SubSeq(net[z], 1, n) /\ \A y \in Users : y # z => net'[y] = net[y]
  BY <1>2 DEF TypeOK
<1>5. \A y \in Users : \A i \in 1..Len(net'[y]) : i \in 1..Len(net[y]) /\ net'[y][i] = net[y][i]
  <2> TAKE y \in Users
  <2>1. CASE y = z
    BY <1>4, <2>1
  <2>2. CASE y # z
    BY <1>4, <2>2
  <2> QED
    BY <2>1, <2>2
<1>6. \A l \in Msgs : Made(l) => Made(l)' /\ up'[l].from = up[l].from
  BY DEF SendsKept, Keeps, Made
<1>7. NamesAreMade'
  <2> SUFFICES ASSUME NEW a \in Users, NEW b \in Users
               PROVE  /\ ptr'[a][b] # None => Made(ptr[a][b])'
                      /\ cache'[a][b] \in Msgs => Made(cache[a][b])'
                      /\ \A k \in 1..Len(feeds'[a][b]) : Made(feeds[a][b][k])'
    BY DEF NamesAreMade
  <2>1. /\ ptr[a][b] \in Msgs \cup {None}
        /\ feeds[a][b] \in Seq(Msgs)
    BY DEF TypeOK, Location
  <2>2. /\ ptr[a][b] # None => Made(ptr[a][b])
        /\ cache[a][b] \in Msgs => Made(cache[a][b])
        /\ \A k \in 1..Len(feeds[a][b]) : Made(feeds[a][b][k])
    BY DEF FeedInv, NamesAreMade
  <2>3. ptr'[a][b] # None => Made(ptr[a][b])'
    BY <1>1, <1>6, <2>1, <2>2 DEF Made
  <2>4. cache'[a][b] \in Msgs => Made(cache[a][b])'
    BY <1>3, <1>6, <2>2 DEF Made
  <2>5. \A k \in 1..Len(feeds'[a][b]) : Made(feeds[a][b][k])'
    <3> TAKE k \in 1..Len(feeds'[a][b])
    <3>1. feeds'[a][b] = feeds[a][b]
      BY <1>3
    <3>2. PICK l \in Msgs : l = feeds[a][b][k] /\ Made(l)
      BY <2>1, <2>2, <3>1
    <3> QED
      BY <1>6, <3>1, <3>2 DEF Made
  <2> QED
    BY <2>3, <2>4, <2>5
<1>8. WritesAreNew'
  <2> SUFFICES ASSUME NEW y \in Users, NEW a \in Users, NEW b \in Users,
                      NEW i \in 1..Len(net'[y]), PendingPointer(net[y][i], a, b)'
               PROVE  /\ a # b /\ Made(net[y][i].loc)' /\ up'[net'[y][i].loc].from = y
                      /\ ptr'[a][b] # net'[y][i].loc
                      /\ \A j \in 1..Len(net'[y]) : net'[y][j] = net'[y][i] => j = i
                      /\ y # a => /\ cache'[a][b] # net'[y][i].loc
                                  /\ \A k \in 1..Len(feeds'[a][b]) : feeds'[a][b][k] # net'[y][i].loc
    BY DEF WritesAreNew
  <2>1. i \in 1..Len(net[y]) /\ net'[y][i] = net[y][i] /\ PendingPointer(net[y][i], a, b)
    BY <1>5 DEF PendingPointer
  <2>2. PICK l \in Msgs : l = net[y][i].loc
    BY <1>4, <2>1 DEF PendingPointer, Write
  <2>3. /\ a # b /\ Made(l) /\ up[l].from = y /\ ptr[a][b] # l
        /\ \A j \in 1..Len(net[y]) : net[y][j] = net[y][i] => j = i
        /\ y # a => /\ cache[a][b] # l
                    /\ \A k \in 1..Len(feeds[a][b]) : feeds[a][b][k] # l
    BY <2>1, <2>2 DEF FeedInv, WritesAreNew
  <2>4. \A j \in 1..Len(net'[y]) : net'[y][j] = net'[y][i] => j = i
    BY <1>5, <2>3
  <2>5. y # a => /\ cache'[a][b] # l
                 /\ \A k \in 1..Len(feeds'[a][b]) : feeds'[a][b][k] # l
    <3>1. CASE a = z
      BY <1>3, <3>1
    <3>2. CASE a # z
      BY <1>3, <2>3, <3>2
    <3> QED
      BY <3>1, <3>2
  <2>6. Made(l)' /\ up'[l].from = y
    BY <1>6, <2>3
  <2> QED
    BY <1>1, <2>1, <2>2, <2>3, <2>4, <2>5, <2>6 DEF Made
<1>9. LastIsKnown'
  <2>1. ASSUME NEW a \in Users, NEW b \in Users, cache'[a][b] # Unknown
        PROVE  net'[a] = net[a] /\ cache'[a][b] = cache[a][b]
    BY <1>3, <1>4, <2>1
  <2> QED
    BY <2>1 DEF FeedInv, LastIsKnown, PendingPointer
<1>10. EventsAreNew'
  <2> SUFFICES ASSUME NEW a \in Users, NEW b \in Users, ~Pending(a, a, b)',
                      <<a, b>> \notin refused', NEW k \in 1..Len(feeds'[a][b]), feeds'[a][b][k] = ptr'[a][b]
               PROVE  cache'[a][b] = ptr'[a][b]
    BY DEF EventsAreNew
  <2>1. a # z
    BY <1>3
  <2>2. net'[a] = net[a] /\ cache'[a][b] = cache[a][b] /\ feeds'[a][b] = feeds[a][b]
    BY <1>3, <1>4, <2>1
  <2>3. ~Pending(a, a, b)
    BY <2>2 DEF Pending, PendingPointer
  <2> QED
    BY <1>1, <2>2, <2>3 DEF FeedInv, EventsAreNew
<1>11. FeedsDiffer'
  <2> SUFFICES ASSUME NEW a \in Users, NEW b \in Users
               PROVE  /\ cache'[a][b] = Unknown => feeds'[a][b] = << >>
                      /\ <<a, b>> \notin refused' =>
                           \A i, j \in 1..Len(feeds'[a][b]) : feeds'[a][b][i] = feeds'[a][b][j] => i = j
    BY DEF FeedsDiffer
  <2>1. CASE a = z
    BY <1>3, <2>1
  <2>2. CASE a # z
    BY <1>1, <1>3, <2>2 DEF FeedInv, FeedsDiffer
  <2> QED
    BY <2>1, <2>2
<1>12. ItemInv'
  <2>1. \A a, b \in Users : shown'[a][b] = {} \/ (shown'[a][b] = shown[a][b] /\ feeds'[a][b] = feeds[a][b])
    BY <1>3
  <2> QED
    BY <2>1, ItemKept
<1> QED
  BY <1>7, <1>8, <1>9, <1>10, <1>11, <1>12 DEF FeedInv

\* A refused write leaves the pointer, and what the screen knows of it, as they were.
LEMMA RefusedFeeds ==
  ASSUME PairInv, TypeOK, FeedInv, ItemInv, SendsKept, NEW z \in Users, RefusePointer(z)
  PROVE  FeedInv' /\ ItemInv'
<1> DEFINE w == Head(net[z])
<1>1. /\ net[z] # << >> /\ w.kind = "pointer" /\ UNCHANGED <<up, ptr, cache, feeds, shown>>
      /\ refused' = refused \cup {<<w.user, w.peer>>}
  BY DEF RefusePointer
<1>2. /\ net[z] \in Seq(Write) /\ net'[z] = Tail(net[z])
      /\ \A y \in Users : y # z => net'[y] = net[y]
  BY DEF RefusePointer, Pop, TypeOK
<1>3. Shifted(z, 1) /\ \A y \in Users : y # z => Shifted(y, 0)
  BY <1>1, <1>2, SameIsQuiet, PoppedIsShifted
<1>4. ASSUME NEW u \in Users, NEW v \in Users, Pending(u, u, v)
      PROVE  Pending(u, u, v)' \/ <<u, v>> \in refused'
  <2>1. CASE u # z
    BY <1>2, <1>4, <2>1 DEF Pending, PendingPointer
  <2>2. CASE u = z
    <3>1. PICK j \in 1..Len(net[u]) : PendingPointer(net[u][j], u, v)
      BY <1>4 DEF Pending
    <3>2. CASE j = 1
      <4>1. w = net[u][j]
        BY <1>1, <1>2, <2>2, <3>2
      <4> QED
        BY <1>1, <3>1, <4>1 DEF PendingPointer
    <3>3. CASE j # 1
      <4>1. net[u][j].kind = "pointer" /\ j > 1
        BY <3>1, <3>3 DEF PendingPointer
      <4>2. j - 1 \in 1..Len(net'[u]) /\ net'[u][j - 1] = net[u][j]
        BY <1>3, <2>2, <4>1 DEF Shifted
      <4> QED
        BY <3>1, <4>2 DEF Pending, PendingPointer
    <3> QED
      BY <3>2, <3>3
  <2> QED
    BY <2>1, <2>2
<1>5. FeedInv'
  <2>1. \A x \in Users : Moved(x)
    BY <1>3 DEF Moved
  <2>2. refused \subseteq refused'
    BY <1>1
  <2> HIDE DEF w
  <2> QED
    BY <1>1, <1>4, <2>1, <2>2, FeedKept
<1>6. ItemInv'
  BY <1>1, ItemKept
<1> QED
  BY <1>5, <1>6

\* Steps that change neither pointers and observers nor the pointer writes under way.
LEMMA QuietStep ==
  ASSUME PairInv, TypeOK, FeedInv, ItemInv, SendsKept,
         UNCHANGED <<ptr, cache, feeds, shown, refused>>,
         \A x \in Users : net'[x] = net[x] \/ Quiet(x)
  PROVE  FeedInv' /\ ItemInv'
<1>1. \A x \in Users : Quiet(x)
  BY SameIsQuiet DEF Quiet
<1>2. \A x \in Users : Moved(x)
  BY <1>1 DEF Quiet, Moved
<1>3. \A u, v \in Users : Pending(u, u, v) => Pending(u, u, v)'
  BY <1>1, QuietIsPending
<1>4. FeedInv'
  BY <1>2, <1>3, FeedKept
<1>5. ItemInv'
  BY ItemKept
<1> QED
  BY <1>4, <1>5

LEMMA FeedNext ==
  PairInv /\ TypeOK /\ PlaceInv /\ FeedInv /\ ItemInv /\ [Next]_vars => FeedInv' /\ ItemInv'
<1> SUFFICES ASSUME PairInv, TypeOK, PlaceInv, FeedInv, ItemInv, [Next]_vars
             PROVE  FeedInv' /\ ItemInv'
  OBVIOUS
<1> DEFINE Goal == FeedInv' /\ ItemInv'
<1>a. net \in [Users -> Seq(Write)]
  BY DEF TypeOK
<1>1. CASE UNCHANGED vars
  <2>1. SendsKept
    BY <1>1 DEF vars, SendsKept, Keeps, Made
  <2> QED
    BY <1>1, <2>1, QuietStep DEF vars
<1>2. CASE Next
  <2>0. SendsKept
    BY <1>2, SendsStep
  <2>1. ASSUME NEW m \in Msgs, PictureStored(m) \/ PictureFails(m) \/ AppendDone(m)
        PROVE  Goal
    <3>1. UNCHANGED <<net, ptr, cache, feeds, shown, refused>>
      BY <2>1 DEF PictureStored, PictureFails, AppendDone
    <3> QED
      BY <2>0, <3>1, QuietStep
  <2>2. ASSUME NEW m \in Msgs, ReadPointer(m)
        PROVE  Goal
    <3>1. UNCHANGED <<ptr, cache, feeds, shown, refused>> /\ up[m].pc = "reading"
      BY <2>2 DEF ReadPointer
    <3>2. PICK u \in Users : up[m].from = u
      BY <3>1 DEF PairInv, SendInv
    <3>3. PICK l : net' = [net EXCEPT ![u] = Append(@, [kind |-> "message", msg |-> m, loc |-> l])]
      BY <2>2, <3>2 DEF ReadPointer
    <3> DEFINE w == [kind |-> "message", msg |-> m, loc |-> l]
    <3>4. w.kind # "pointer"
      OBVIOUS
    <3>5. net'[u] = Append(net[u], w) /\ \A x \in Users : x # u => net'[x] = net[x]
      BY <1>a, <3>3
    <3> HIDE DEF w
    <3>6. Quiet(u)
      BY <3>4, <3>5, AppendedIsShifted DEF Quiet
    <3> QED
      BY <2>0, <3>1, <3>5, <3>6, QuietStep
  <2>3. ASSUME NEW u \in Users, NEW v \in Users,
               CloseChat(u, v) \/ \E m \in Msgs, kind \in Kinds : Compose(u, v, m, kind)
        PROVE  Goal
    <3>1. UNCHANGED <<net, ptr, cache, feeds, shown, refused>>
      BY <2>3 DEF CloseChat, Compose
    <3> QED
      BY <2>0, <3>1, QuietStep
  <2>4. ASSUME NEW u \in Users, NEW v \in Users, NEW i \in 1..Len(feeds[u][v]), NEW m \in Msgs,
               ShowMessage(u, v, i, m)
        PROVE  Goal
    <3>1. /\ UNCHANGED <<up, net, ptr, cache, feeds, refused>> /\ m \in Visible(u) /\ At(m) = feeds[u][v][i]
          /\ shown' = [shown EXCEPT ![u][v] = @ \cup {<<i, m>>}]
      BY <2>4 DEF ShowMessage
    <3>2. FeedInv'
      <4>1. \A x \in Users : Moved(x)
        BY <3>1, SameIsQuiet DEF Moved
      <4>2. \A a, b \in Users : Pending(a, a, b) => Pending(a, a, b)'
        BY <3>1 DEF Pending, PendingPointer
      <4> QED
        BY <2>0, <3>1, <4>1, <4>2, FeedKept
    <3>3. up[m].loc = feeds[u][v][i]
      BY <3>1 DEF At, PlaceInv, StoredAtLocation
    <3>4. ItemInv'
      <4> SUFFICES ASSUME NEW a \in Users, NEW b \in Users, NEW s \in shown'[a][b]
                   PROVE  s[1] \in 1..Len(feeds[a][b]) /\ up[s[2]].loc = feeds[a][b][s[1]]
        BY <3>1 DEF ItemInv
      <4>1. CASE s \in shown[a][b]
        BY <4>1 DEF ItemInv
      <4>2. CASE s \notin shown[a][b]
        <5>1. a = u /\ b = v /\ s = <<i, m>>
          BY <3>1, <4>2 DEF TypeOK
        <5> QED
          BY <3>3, <5>1
      <4> QED
        BY <4>1, <4>2
    <3> QED
      BY <3>2, <3>4
  <2>5. ASSUME NEW u \in Users, NEW v \in Users, NEW k \in Marks,
               MarkReadPointer(u, v, k) \/ MarkReadMessages(u, v, k)
        PROVE  Goal
    <3>1. UNCHANGED <<ptr, cache, feeds, shown, refused>>
      BY <2>5 DEF MarkReadPointer, MarkReadMessages
    <3>2. CASE net' = net
      BY <2>0, <3>1, <3>2, QuietStep
    <3>3. CASE net' # net
      <4>1. PICK ms : net' = [net EXCEPT ![u] = Append(@, [kind |-> "read", msgs |-> ms])]
        BY <2>5, <3>3 DEF MarkReadPointer, MarkReadMessages
      <4> DEFINE w == [kind |-> "read", msgs |-> ms]
      <4>2. w.kind # "pointer"
        OBVIOUS
      <4>3. net'[u] = Append(net[u], w) /\ \A x \in Users : x # u => net'[x] = net[x]
        BY <1>a, <4>1
      <4> HIDE DEF w
      <4>4. Quiet(u)
        BY <4>2, <4>3, AppendedIsShifted DEF Quiet
      <4> QED
        BY <2>0, <3>1, <4>3, <4>4, QuietStep
    <3> QED
      BY <3>2, <3>3
  <2>6. ASSUME NEW u \in Users, net[u] # << >>, net[u][1].kind # "pointer", Pop(u),
               UNCHANGED <<ptr, cache, feeds, shown, refused>>
        PROVE  Goal
    <3>1. net'[u] = Tail(net[u]) /\ \A x \in Users : x # u => net'[x] = net[x]
      BY <1>a, <2>6 DEF Pop
    <3>2. Quiet(u)
      BY <2>6, <3>1, PoppedIsShifted DEF Quiet
    <3> QED
      BY <2>0, <2>6, <3>1, <3>2, QuietStep
  <2>7. ASSUME NEW u \in Users, ApplyMessage(u) \/ RefuseMessage(u)
        PROVE  Goal
    <3>1. /\ net[u] # << >> /\ Head(net[u]).kind = "message" /\ Pop(u)
          /\ UNCHANGED <<ptr, cache, feeds, shown, refused>>
      BY <2>7 DEF ApplyMessage, RefuseMessage
    <3>2. net[u][1].kind # "pointer"
      BY <1>a, <3>1
    <3> QED
      BY <2>6, <3>1, <3>2
  <2>8. ASSUME NEW u \in Users, ApplyRead(u)
        PROVE  Goal
    <3>1. /\ net[u] # << >> /\ Head(net[u]).kind = "read"
          /\ UNCHANGED <<ptr, cache, feeds, shown, refused>>
      BY <2>8 DEF ApplyRead
    <3>2. net[u][1].kind # "pointer"
      BY <1>a, <3>1
    <3>3. CASE Pop(u)
      BY <2>6, <3>1, <3>2, <3>3
    <3>4. CASE ~Pop(u)
      <4>1. PICK ms : net' = [net EXCEPT ![u] = <<[kind |-> "read", msgs |-> ms]>> \o Tail(@)]
        BY <2>8, <3>4 DEF ApplyRead, Pop
      <4> DEFINE w == [kind |-> "read", msgs |-> ms]
      <4>2. w.kind # "pointer"
        OBVIOUS
      <4>3. net'[u] = <<w>> \o Tail(net[u]) /\ \A x \in Users : x # u => net'[x] = net[x]
        BY <1>a, <4>1
      <4> HIDE DEF w
      <4>4. net[u] \in Seq(Write) /\ Len(net[u]) \in Nat \ {0} /\ Len(net'[u]) = Len(net[u])
        BY <1>a, <3>1, <4>3
      <4>5. /\ net'[u][1] = w
            /\ \A i \in 1..Len(net[u]) : i # 1 => net'[u][i] = net[u][i]
        BY <3>1, <4>3, <4>4
      <4>6. Shifted(u, 0)
        BY <3>2, <4>2, <4>4, <4>5 DEF Shifted
      <4>7. Quiet(u)
        BY <4>6 DEF Quiet
      <4> QED
        BY <2>0, <3>1, <4>3, <4>7, QuietStep
    <3> QED
      BY <3>3, <3>4
  <2>9. ASSUME NEW u \in Users, ApplyPointer(u)
        PROVE  Goal
    <3>1. FeedInv'
      BY <2>9, PointerFeeds
    <3>2. ItemInv'
      BY <2>0, <2>9, ItemKept DEF ApplyPointer
    <3> QED
      BY <3>1, <3>2
  <2>10. ASSUME NEW u \in Users, Killed(u)
         PROVE  Goal
    BY <2>0, <2>10, KilledFeeds
  <2>11. ASSUME NEW u \in Users, NEW v \in Users, OpenChat(u, v)
         PROVE  Goal
    BY <2>0, <2>11, OpenChatFeeds
  <2>12. ASSUME NEW u \in Users, NEW v \in Users, PointerEvent(u, v)
         PROVE  Goal
    BY <2>0, <2>12, EventFeeds
  <2>13. ASSUME NEW m \in Msgs, CreateDone(m)
         PROVE  Goal
    BY <2>0, <2>13, CreateDoneFeeds
  <2>14. ASSUME NEW u \in Users, RefusePointer(u)
         PROVE  Goal
    BY <2>0, <2>14, RefusedFeeds
  <2> HIDE DEF Goal
  <2>15. Goal
    BY <1>2, <2>1, <2>2, <2>3, <2>4, <2>5, <2>7, <2>8, <2>9, <2>10, <2>11, <2>12, <2>13, <2>14
    DEF Next, Client, Observe, MarkRead, Apply
  <2> QED
    BY <2>15 DEF Goal
<1> QED
  BY <1>1, <1>2

LEMMA ItemsDiffer == TypeOK /\ FeedInv /\ ItemInv => ShownOnce
<1> SUFFICES ASSUME TypeOK, FeedInv, ItemInv, NEW u \in Users, NEW v \in Users,
                    NEW s \in shown[u][v], NEW t \in shown[u][v], s[2] = t[2],
                    <<u, v>> \notin refused
             PROVE  s = t
  BY DEF ShownOnce
<1>1. s \in Nat \X Msgs /\ t \in Nat \X Msgs
  BY DEF TypeOK
<1>2. /\ s[1] \in 1..Len(feeds[u][v]) /\ t[1] \in 1..Len(feeds[u][v])
      /\ feeds[u][v][s[1]] = feeds[u][v][t[1]]
  BY DEF ItemInv
<1>3. s[1] = t[1]
  BY <1>2 DEF FeedInv, FeedsDiffer
<1> QED
  BY <1>1, <1>3

\* A screen never shows a message twice: for any number of users and messages, with
\* refused messages and killed apps, the pointer a screen observes never comes back to a
\* location it had before unless a write of it was refused, so that no two of the
\* observers downloadAllMessages adds, and never removes, hear the same message.
THEOREM MessagesShownOnce == Spec => []ShownOnce
BY PairInit, PairNext, TypeInit, TypeNext, PlaceInit, PlaceNext, OnlyReceiversMarkRead, FeedInit,
   FeedNext, ItemsDiffer, PTL DEF Spec
=============================================================================
