------------------------------ MODULE Messenger ------------------------------
(***************************************************************************)
(* One-to-one chats over the Firebase realtime database: MessageChat       *)
(* (MessageModel.swift) and the chat screen ChatVC.                        *)
(*                                                                         *)
(* The database holds, for each user and each peer, a pointer              *)
(* users/u/conversations/v/location, and under conversations/<location>    *)
(* the messages of a conversation.  There is no transaction over the       *)
(* three places: the first message of a conversation is written first, and *)
(* the two pointers follow, one by one, when it is acknowledged.           *)
(*                                                                         *)
(* A message stands for its push id.  childByAutoId makes a fresh location *)
(* for a first message, so the location is named after that message.       *)
(*                                                                         *)
(* Firebase is external, modelled from what the code asks of it: the       *)
(* writes of a client are applied in the order it made them (net); a       *)
(* client sees its own writes at once; an observed pointer is kept in the  *)
(* client's cache, an event is raised when its value changes, and a single *)
(* read of it is answered from there.                                      *)
(***************************************************************************)
EXTENDS Naturals, Sequences, FiniteSets

CONSTANTS
  Users,
  Msgs,       \* messages, and the locations first messages create
  None,       \* no pointer, no location, no user
  Kinds,      \* what is sent: "text" (and locations), "photo"
  Unknown,    \* a pointer the client has not heard of yet
  MaxTurns,   \* bound on how often chat screens are opened and closed
  MaxMarks,   \* bound on the markMessagesRead calls that are carried out
  MaxFaults   \* bound on refused writes, lost pictures and killed apps

ASSUME MessengerAssumption ==
  /\ None \notin Msgs \cup Users
  /\ Unknown \notin Msgs \cup {None}
  /\ {"idle", "pointer"} \cap Msgs = {}   \* the states of a mark are no locations
  /\ Kinds \subseteq {"text", "photo"}
  /\ MaxTurns \in Nat /\ MaxMarks \in Nat /\ MaxFaults \in Nat

VARIABLES
  up,       \* message -> state of its send
  stored,   \* conversations: message -> the location it is stored at
  isRead,   \* messages whose isRead is true in the database
  ptr,      \* users: u -> v -> location
  net,      \* user -> writes made and not yet applied, in order
  cache,    \* user -> peer -> the pointer as the client knows it
  feeds,    \* user -> peer -> the childAdded observers of the chat screen
  shown,    \* user -> peer -> the items of the screen: <<observer, message>>
  screen,   \* user -> peer -> the chat screen is on
  mark,     \* user -> peer -> the two markMessagesRead calls of a screen
  turns,    \* screens opened and closed so far
  marks,    \* markMessagesRead calls carried out so far
  faults,   \* faults so far
  cut,      \* history: pairs a killed app may have left half made
  refused   \* history: pointers (user, peer) a write of which was refused

vars == <<up, stored, isRead, ptr, net, cache, feeds, shown, screen, mark, turns, marks,
          faults, cut, refused>>

Pairs == {p \in Users \X Users : p[1] # p[2]}
Location == Msgs \cup {None}

\* A send: the picture is uploaded, the pointer is read, the message is on its way
\* to a known (append) or a fresh (create) location, has been accepted or refused
\* there, and completion was called with true or false, or never will be (silent).
Busy == {"picture", "reading", "append", "create", "appended", "created", "refused",
         "uncreated"}
Ended == {"true", "false", "silent"}
Upload == [pc : {"unsent"} \cup Busy \cup Ended, from : Users \cup {None},
           to : Users \cup {None}, loc : Location]

Write == [kind : {"message"}, msg : Msgs, loc : Msgs]
           \cup [kind : {"pointer"}, user : Users, peer : Users, loc : Msgs]
           \cup [kind : {"read"}, msgs : SUBSET Msgs]

Marks == {"opening", "closing"}

\* The type of every variable.
TypeOK ==
  /\ up \in [Msgs -> Upload]
  /\ stored \in [Msgs -> Location]
  /\ isRead \in SUBSET Msgs
  /\ ptr \in [Users -> [Users -> Location]]
  /\ net \in [Users -> Seq(Write)]
  /\ cache \in [Users -> [Users -> Location \cup {Unknown}]]
  /\ feeds \in [Users -> [Users -> Seq(Msgs)]]
  /\ shown \in [Users -> [Users -> SUBSET (Nat \X Msgs)]]
  /\ screen \in [Users -> [Users -> BOOLEAN]]
  /\ mark \in [Users -> [Users -> [Marks -> {"idle", "pointer"} \cup Msgs]]]
  /\ turns \in 0..MaxTurns
  /\ marks \in 0..MaxMarks
  /\ faults \in 0..MaxFaults
  /\ cut \in SUBSET Pairs
  /\ refused \in SUBSET (Users \X Users)

NoMark == [k \in Marks |-> "idle"]
Each(x) == [u \in Users |-> [v \in Users |-> x]]

Init ==
  /\ up = [m \in Msgs |-> [pc |-> "unsent", from |-> None, to |-> None, loc |-> None]]
  /\ stored = [m \in Msgs |-> None]
  /\ isRead = {}
  /\ ptr = Each(None)
  /\ net = [u \in Users |-> << >>]
  /\ cache = Each(Unknown)
  /\ feeds = Each(<< >>)
  /\ shown = Each({})
  /\ screen = Each(FALSE)
  /\ mark = Each(NoMark)
  /\ turns = 0
  /\ marks = 0
  /\ faults = 0
  /\ cut = {}
  /\ refused = {}

Turn == turns < MaxTurns /\ turns' = turns + 1
Fault == faults < MaxFaults /\ faults' = faults + 1

----------------------------------------------------------------------------
(* The chat screen. *)

\* viewDidLoad: fetchData observes the pointer, which answers at once when it is
\* known, and calls markMessagesRead.  A new screen starts without items.  (Bound:
\* the markMessagesRead calls of the screen before it have ended.)
OpenChat(u, v) ==
  /\ Turn
  /\ u # v /\ ~screen[u][v] /\ mark[u][v] = NoMark
  /\ screen' = [screen EXCEPT ![u][v] = TRUE]
  /\ feeds' = [feeds EXCEPT ![u][v] =
                 IF cache[u][v] \in Msgs THEN <<cache[u][v]>> ELSE << >>]
  /\ shown' = [shown EXCEPT ![u][v] = {}]
  /\ mark' = [mark EXCEPT ![u][v].opening = "pointer"]
  /\ UNCHANGED <<up, stored, isRead, ptr, net, cache, marks, faults, cut, refused>>

\* viewWillDisappear: markMessagesRead once more.  The screen is gone, or only covered
\* by another one and stays on.  Its observers are never removed and hold on to it, so
\* that they go on adding to the items of a screen nobody can come back to: the next
\* visit opens a new one.  The model follows the screen that is on.  (Bound: one such
\* markMessagesRead at a time.)
CloseChat(u, v) ==
  /\ Turn
  /\ screen[u][v] /\ mark[u][v].closing = "idle"
  /\ \E on \in BOOLEAN : screen' = [screen EXCEPT ![u][v] = on]
  /\ mark' = [mark EXCEPT ![u][v].closing = "pointer"]
  /\ UNCHANGED <<up, stored, isRead, ptr, net, cache, feeds, shown, marks, faults, cut,
                 refused>>

\* The new value c of the observed pointer: downloadAllMessages adds an observer of
\* that location, and keeps the ones it added before.
Hear(u, v, c) ==
  /\ cache' = [cache EXCEPT ![u][v] = c]
  /\ feeds' = IF screen[u][v] /\ c \in Msgs /\ c # cache[u][v]
              THEN [feeds EXCEPT ![u][v] = Append(@, c)] ELSE feeds

Visible(u) == {m \in Msgs : \/ stored[m] # None
                            \/ \E i \in 1..Len(net[u]) :
                                 net[u][i].kind = "message" /\ net[u][i].msg = m}

\* Where a message is, for those who can see it.
At(m) == IF stored[m] # None THEN stored[m] ELSE up[m].loc

\* All conversations are observed instead of the one at the location.
ShowMessageOfAll(u, v, i, m) ==
  /\ screen[u][v]
  /\ m \in Visible(u)
  /\ <<i, m>> \notin shown[u][v]
  /\ shown' = [shown EXCEPT ![u][v] = @ \cup {<<i, m>>}]
  /\ UNCHANGED <<up, stored, isRead, ptr, net, cache, feeds, screen, mark, turns, marks,
                 faults, cut, refused>>

\* An observer raises childAdded for a message of its location, once: the message
\* joins the items.  (The items are kept sorted by the senders' timestamps, so that
\* their order is a function of what they are.)
ShowMessage(u, v, i, m) ==
  /\ screen[u][v]
  /\ m \in Visible(u) /\ At(m) = feeds[u][v][i]
  /\ <<i, m>> \notin shown[u][v]
  /\ shown' = [shown EXCEPT ![u][v] = @ \cup {<<i, m>>}]
  /\ UNCHANGED <<up, stored, isRead, ptr, net, cache, feeds, screen, mark, turns, marks,
                 faults, cut, refused>>

----------------------------------------------------------------------------
(* Sending. *)

\* composeMessage and send: a picture is put into the storage first.
Compose(u, v, m, kind) ==
  /\ screen[u][v]
  /\ up[m].pc = "unsent"
  /\ up' = [up EXCEPT ![m] = [pc |-> IF kind = "photo" THEN "picture" ELSE "reading",
                               from |-> u, to |-> v, loc |-> None]]
  /\ UNCHANGED <<stored, isRead, ptr, net, cache, feeds, shown, screen, mark, turns,
                 marks, faults, cut, refused>>

PictureStored(m) ==
  /\ up[m].pc = "picture"
  /\ up' = [up EXCEPT ![m].pc = "reading"]
  /\ UNCHANGED <<stored, isRead, ptr, net, cache, feeds, shown, screen, mark, turns,
                 marks, faults, cut, refused>>

\* send ignores the error: completion is never called.
PictureFails(m) ==
  /\ Fault
  /\ up[m].pc = "picture"
  /\ up' = [up EXCEPT ![m].pc = "silent"]
  /\ UNCHANGED <<stored, isRead, ptr, net, cache, feeds, shown, screen, mark, turns,
                 marks, cut, refused>>

\* The pointer that was read is ignored.
ReadPointerAnew(m) ==
  LET u == up[m].from
      c == cache[u][up[m].to]
  IN  /\ up[m].pc = "reading"
      /\ c # Unknown
      /\ up' = [up EXCEPT ![m].pc = "create", ![m].loc = m]
      /\ net' = [net EXCEPT ![u] = Append(@, [kind |-> "message", msg |-> m, loc |-> m])]
      /\ UNCHANGED <<stored, isRead, ptr, cache, feeds, shown, screen, mark, turns,
                     marks, faults, cut, refused>>

\* The existence of the pointer is not checked.
ReadPointerUnchecked(m) ==
  LET u == up[m].from
      c == cache[u][up[m].to]
  IN  /\ up[m].pc = "reading"
      /\ c # Unknown
      /\ up' = [up EXCEPT ![m].pc = "append", ![m].loc = c]
      /\ net' = [net EXCEPT ![u] = Append(@, [kind |-> "message", msg |-> m, loc |-> c])]
      /\ UNCHANGED <<stored, isRead, ptr, cache, feeds, shown, screen, mark, turns,
                     marks, faults, cut, refused>>

\* uploadMessage: the callback of the single read of the own pointer writes the
\* message to the location it names, or to a fresh one.
ReadPointer(m) ==
  LET u == up[m].from
      c == cache[u][up[m].to]
      l == IF c = None THEN m ELSE c
  IN  /\ up[m].pc = "reading"
      /\ c # Unknown
      /\ up' = [up EXCEPT ![m].pc = IF c = None THEN "create" ELSE "append", ![m].loc = l]
      /\ net' = [net EXCEPT ![u] = Append(@, [kind |-> "message", msg |-> m, loc |-> l])]
      /\ UNCHANGED <<stored, isRead, ptr, cache, feeds, shown, screen, mark, turns,
                     marks, faults, cut, refused>>

Pointer(u, v, l) == [kind |-> "pointer", user |-> u, peer |-> v, loc |-> l]

\* The peer's pointer is forgotten.
PointersOfOne(u, v, l) == <<Pointer(u, v, l)>>

\* The pointer of the peer names the peer itself.
PointersCrossed(u, v, l) == <<Pointer(u, v, l), Pointer(v, v, l)>>

\* The two updates of users/, the sender's and then the peer's.
Pointers(u, v, l) == <<Pointer(u, v, l), Pointer(v, u, l)>>

\* The completion block of a write to a known location.
AppendDone(m) ==
  /\ up[m].pc \in {"appended", "refused"}
  /\ up' = [up EXCEPT ![m].pc = IF @ = "appended" THEN "true" ELSE "false"]
  /\ UNCHANGED <<stored, isRead, ptr, net, cache, feeds, shown, screen, mark, turns,
                 marks, faults, cut, refused>>

\* The completion block returns early when there is an error.
CreateDoneIfStored(m) ==
  LET u == up[m].from
      v == up[m].to
  IN  /\ up[m].pc = "created"
      /\ up' = [up EXCEPT ![m].pc = "true"]
      /\ net' = [net EXCEPT ![u] = @ \o Pointers(u, v, m)]
      /\ Hear(u, v, m)
      /\ UNCHANGED <<stored, isRead, ptr, shown, screen, mark, turns, marks, faults,
                     cut, refused>>

\* The completion block of a first message.  It does not look at the error.  The
\* sender's own pointer changes in its cache at once.
CreateDone(m) ==
  LET u == up[m].from
      v == up[m].to
  IN  /\ up[m].pc \in {"created", "uncreated"}
      /\ up' = [up EXCEPT ![m].pc = "true"]
      /\ net' = [net EXCEPT ![u] = @ \o Pointers(u, v, m)]
      /\ Hear(u, v, m)
      /\ UNCHANGED <<stored, isRead, ptr, shown, screen, mark, turns, marks, faults,
                     cut, refused>>

----------------------------------------------------------------------------
(* markMessagesRead. *)

\* First read: the own pointer.
MarkReadPointer(u, v, k) ==
  /\ marks < MaxMarks /\ marks' = marks + 1
  /\ mark[u][v][k] = "pointer"
  /\ cache[u][v] # Unknown
  /\ mark' = [mark EXCEPT ![u][v][k] = IF cache[u][v] = None THEN "idle" ELSE cache[u][v]]
  /\ UNCHANGED <<up, stored, isRead, ptr, net, cache, feeds, shown, screen, turns,
                 faults, cut, refused>>

\* The messages are marked whoever wrote them.
MarkableOfBoth(u, l) == {m \in Visible(u) : At(m) = l}

\* The messages of the snapshot that somebody else wrote.
Markable(u, l) == {m \in Visible(u) : At(m) = l /\ up[m].from # u}

\* Second read: the conversation; isRead is set on what others wrote.
MarkReadMessages(u, v, k) ==
  /\ mark[u][v][k] \in Msgs
  /\ mark' = [mark EXCEPT ![u][v][k] = "idle"]
  /\ LET ms == Markable(u, mark[u][v][k])
     IN  net' = IF ms = {} THEN net
                ELSE [net EXCEPT ![u] = Append(@, [kind |-> "read", msgs |-> ms])]
  /\ UNCHANGED <<up, stored, isRead, ptr, cache, feeds, shown, screen, turns, marks,
                 faults, cut, refused>>

----------------------------------------------------------------------------
(* The database and the clients' connections to it (external). *)

Pop(u) == net' = [net EXCEPT ![u] = Tail(@)]

\* Whoever sent the message still waits for its completion block.
Report(m, pcs) ==
  up' = IF up[m].pc \in DOMAIN pcs THEN [up EXCEPT ![m].pc = pcs[@]] ELSE up

ApplyMessage(u) ==
  /\ net[u] # << >> /\ Head(net[u]).kind = "message"
  /\ stored' = [stored EXCEPT ![Head(net[u]).msg] = Head(net[u]).loc]
  /\ Report(Head(net[u]).msg, [append |-> "appended", create |-> "created"])
  /\ Pop(u)
  /\ UNCHANGED <<isRead, ptr, cache, feeds, shown, screen, mark, turns, marks, faults,
                 cut, refused>>

RefuseMessage(u) ==
  /\ Fault
  /\ net[u] # << >> /\ Head(net[u]).kind = "message"
  /\ Report(Head(net[u]).msg, [append |-> "refused", create |-> "uncreated"])
  /\ Pop(u)
  /\ UNCHANGED <<stored, isRead, ptr, cache, feeds, shown, screen, mark, turns, marks,
                 cut, refused>>

ApplyPointer(u) ==
  /\ net[u] # << >> /\ Head(net[u]).kind = "pointer"
  /\ LET w == Head(net[u]) IN ptr' = [ptr EXCEPT ![w.user][w.peer] = w.loc]
  /\ Pop(u)
  /\ UNCHANGED <<up, stored, isRead, cache, feeds, shown, screen, mark, turns, marks,
                 faults, cut, refused>>

\* Nobody looks at the error: the client takes its own value back, which the observer
\* of the pointer hears of as of any other change (PointerEvent).
RefusePointer(u) ==
  /\ Fault
  /\ net[u] # << >> /\ Head(net[u]).kind = "pointer"
  /\ refused' = refused \cup {<<Head(net[u]).user, Head(net[u]).peer>>}
  /\ Pop(u)
  /\ UNCHANGED <<up, stored, isRead, ptr, cache, feeds, shown, screen, mark, turns, marks,
                 cut>>

\* The isRead flags are separate writes, and each is set or, silently, refused.
ApplyRead(u) ==
  /\ net[u] # << >> /\ Head(net[u]).kind = "read"
  /\ \E m \in Head(net[u]).msgs :
       /\ \/ isRead' = isRead \cup {m} /\ UNCHANGED faults
          \/ Fault /\ UNCHANGED isRead
       /\ LET rest == Head(net[u]).msgs \ {m}
          IN  net' = [net EXCEPT ![u] =
                        IF rest = {} THEN Tail(@)
                                     ELSE <<[kind |-> "read", msgs |-> rest]>> \o Tail(@)]
  /\ UNCHANGED <<up, stored, ptr, cache, feeds, shown, screen, mark, turns, marks,
                 cut, refused>>

PendingPointer(w, u, v) == w.kind = "pointer" /\ w.user = u /\ w.peer = v
Pending(x, u, v) == \E i \in 1..Len(net[x]) : PendingPointer(net[x][i], u, v)

\* The pointer's value reaches a client that observes it, unless the client has a
\* write of its own to it under way.
PointerEvent(u, v) ==
  /\ u # v /\ cache[u][v] # ptr[u][v] /\ ~Pending(u, u, v)
  /\ Hear(u, v, ptr[u][v])
  /\ UNCHANGED <<up, stored, isRead, ptr, net, shown, screen, mark, turns, marks,
                 faults, cut, refused>>

Between(m, u, v) == <<up[m].from, up[m].to>> \in {<<u, v>>, <<v, u>>}
Creating(u, v) == \E m \in Msgs : up[m].pc \in {"create", "created", "uncreated"}
                                     /\ Between(m, u, v)

\* The app of u is killed: some of its writes are still on their way, the others and
\* all that is in memory are lost.
Killed(u) ==
  /\ Fault
  /\ \E n \in 0..Len(net[u]) : net' = [net EXCEPT ![u] = SubSeq(@, 1, n)]
  /\ up' = [m \in Msgs |-> IF up[m].from = u /\ up[m].pc \in Busy
                           THEN [up[m] EXCEPT !.pc = "silent"] ELSE up[m]]
  /\ cut' = cut \cup {p \in Pairs : Creating(p[1], p[2]) \/ Pending(u, p[1], p[2])
                                      \/ Pending(u, p[2], p[1])}
  /\ cache' = [cache EXCEPT ![u] = [v \in Users |-> Unknown]]
  /\ feeds' = [feeds EXCEPT ![u] = [v \in Users |-> << >>]]
  /\ shown' = [shown EXCEPT ![u] = [v \in Users |-> {}]]
  /\ screen' = [screen EXCEPT ![u] = [v \in Users |-> FALSE]]
  /\ mark' = [mark EXCEPT ![u] = [v \in Users |-> NoMark]]
  /\ UNCHANGED <<stored, isRead, ptr, turns, marks, refused>>

----------------------------------------------------------------------------

Client(m) == PictureStored(m) \/ ReadPointer(m) \/ AppendDone(m) \/ CreateDone(m)
Observe(u, v) ==
  \/ PointerEvent(u, v)
  \/ \E i \in 1..Len(feeds[u][v]), m \in Msgs : ShowMessage(u, v, i, m)
MarkRead(u, v) == \E k \in Marks : MarkReadPointer(u, v, k) \/ MarkReadMessages(u, v, k)
Apply(u) == ApplyMessage(u) \/ ApplyPointer(u) \/ ApplyRead(u)

Next ==
  \/ \E m \in Msgs : Client(m) \/ PictureFails(m)
  \/ \E u, v \in Users :
       \/ OpenChat(u, v) \/ CloseChat(u, v)
       \/ \E m \in Msgs, kind \in Kinds : Compose(u, v, m, kind)
       \/ Observe(u, v)
       \/ MarkRead(u, v)
  \/ \E u \in Users : Apply(u) \/ RefuseMessage(u) \/ RefusePointer(u) \/ Killed(u)

Spec == Init /\ [][Next]_vars

\* Firebase retries until it is connected: writes are applied or refused in the end,
\* values reach their observers, and callbacks run.
Fairness ==
  /\ \A m \in Msgs : WF_vars(Client(m))
  /\ \A u, v \in Users : WF_vars(Observe(u, v))
  /\ \A u \in Users : WF_vars(Apply(u))

FairSpec == Spec /\ Fairness

----------------------------------------------------------------------------
(* Properties. *)

\* A conversation belongs to two people: whatever crosses on the way, a pointer, a
\* cached pointer or a stored message leads only to a location that a message between
\* the same two people created.  A message in the conversation of another pair would
\* be shown to a third person.  It is proved (MessengerProofs), for any number of
\* people; the runs have two, which is one pair.
OnePairPerLocation ==
  /\ \A u, v \in Users :
       /\ ptr[u][v] # None => Between(ptr[u][v], u, v)
       /\ cache[u][v] \in Msgs => Between(cache[u][v], u, v)
  /\ \A m \in Msgs : stored[m] # None => Between(stored[m], up[m].from, up[m].to)

\* isRead is a statement of the person a message was sent to: only that person's app
\* ever writes it, whatever became of the pointer between the two reads of
\* markMessagesRead, and only on a message that is in the database (the write would
\* otherwise create a message that is nothing but an isRead).
ReadOnlyByRecipient ==
  /\ \A u \in Users : \A i \in 1..Len(net[u]) :
       net[u][i].kind = "read" =>
         \A m \in net[u][i].msgs : up[m].to = u /\ stored[m] # None
  /\ \A m \in isRead : stored[m] # None

\* A screen shows a message at most once, although every change of the pointer adds
\* an observer to the screen and none is ever removed: the pointer never comes back to
\* a location it had before, unless a write of it was refused and taken back.
ShownOnce ==
  \A u, v \in Users : \A s, t \in shown[u][v] :
    s[2] = t[2] => s = t \/ <<u, v>> \in refused

\* A conversation is set up: the pointers agree, nobody has an older one, and no
\* other first message or pointer write of the two is under way.
Settled(u, v) ==
  /\ ptr[u][v] # None /\ ptr[v][u] = ptr[u][v]
  /\ {cache[u][v], cache[v][u]} \subseteq {ptr[u][v], Unknown}
  /\ ~Creating(u, v)
  /\ \A x \in Users : ~Pending(x, u, v) /\ ~Pending(x, v, u)

\* Once a conversation is set up its location never changes: whoever sends, kills the
\* app or comes back later, no second conversation between the two appears, which
\* would hide the messages of the first.
SettledStays ==
  [][\A u, v \in Users :
       Settled(u, v) => Settled(u, v)' /\ ptr'[u][v] = ptr[u][v]]_vars

\* Two first messages of a pair were under way at the same time (each read "no
\* pointer" before the other's pointer came): there are two locations for one pair.
Split(u, v) ==
  \E m, n \in Msgs : m # n /\ up[m].loc = m /\ up[n].loc = n /\ Between(m, u, v)
                       /\ Between(n, u, v)

\* One of the writes that set the conversation up may have been lost.
HalfMade(u, v) == <<u, v>> \in cut \/ {<<u, v>>, <<v, u>>} \cap refused # {}

\* When nothing of a first message is under way the two pointers of a pair are the
\* same, although they are written one by one, behind other writes, while the peer
\* may write them too: exactly a race of two first messages, an app killed on the way
\* or a refused write can leave two people in different conversations.
PointersAgree ==
  \A u, v \in Users :
    \/ ptr[u][v] = ptr[v][u]
    \/ Creating(u, v) \/ \E x \in Users : Pending(x, u, v) \/ Pending(x, v, u)
    \/ Split(u, v) \/ HalfMade(u, v)

Shows(u, v, m) == \E s \in shown[u][v] : s[2] = m

\* A message that was stored and reported as sent comes up on the screen of the
\* person it was sent to, if that screen stays on, unless first messages raced or one
\* of the writes that set the conversation up was lost with its app or refused.
SentIsShown ==
  \A m \in Msgs :
    (up[m].pc = "true" /\ stored[m] # None)
      ~> \E u, v \in Users :
           /\ up[m].from = u /\ up[m].to = v
           /\ Split(u, v) \/ HalfMade(u, v) \/ Shows(v, u, m) \/ ~screen[v][u]

\* Every send ends: the completion block is called, or the send was given up (its
\* picture was refused, its app was killed).
SendsEnd == \A m \in Msgs : up[m].pc \in Busy ~> up[m].pc \in Ended
=============================================================================
