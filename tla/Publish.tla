------------------------------ MODULE Publish ------------------------------
(***************************************************************************)
(* Sending a transaction to the network: BRPeerManagerPublishTx, the       *)
(* callbacks of the peer threads that answer it, and the connections it    *)
(* depends on (BRPeerManager.c, BRPeer.c).                                 *)
(*                                                                         *)
(* A callback runs under the manager's lock and is one step.  Calls of the *)
(* app come from one serial queue (`queue`).  What the code does without   *)
(* the lock is a step of its own: PublishTx and Rescan release it          *)
(* half-way, _peerDisconnected reconnects (`threads`), the caller's        *)
(* callback is called (`calls`), and only then the thread of the peer that *)
(* asked for a transaction sends it (`sending`), if the socket is still    *)
(* open.  Which peers relayed what, the address book and the heights of    *)
(* blocks are left out: a peer reports more blocks than we have, or not.   *)
(***************************************************************************)
EXTENDS Integers, FiniteSets, Sequences

CONSTANTS
    Tx, Peer, NoPeer,
    Parents,        \* [Tx -> SUBSET Tx]: unconfirmed ones it spends from, directly or not
    MaxConnect,     \* maxConnectCount
    MaxFailures,    \* MAX_CONNECT_FAILURES
    Troubles,       \* what may happen: see Kinds
    MaxTroubles     \* how often, in all

\* Failures of peers and connections, the loss of the network, the app's
\* disconnect and rescan, a peer that has a block more than the download peer,
\* and a transaction that spends the same outputs.
Kinds == {"fault", "offline", "stop", "rescan", "block", "conflict"}

ASSUME PublishAssumption ==
    /\ NoPeer \notin Peer /\ Parents \in [Tx -> SUBSET Tx]
    /\ MaxConnect \in Nat \ {0} /\ MaxFailures \in Nat \ {0}
    /\ Troubles \subseteq Kinds /\ MaxTroubles \in Nat

VARIABLES
    list,           \* [Tx -> ...]: not in publishedTx, there, there with a callback
    user,           \* [Tx -> ...]: how far BRPeerManagerPublishTx has come
    calls,          \* callbacks taken from the list and not called yet
    told,           \* [Tx -> Seq(BOOLEAN)]: what the callback was called with
    sending,        \* <<p, t, first>>: p's thread is about to send t, and first
                    \* has the callback to call
    net,            \* transactions that were sent to some node
    registered,     \* transactions in the wallet
    invalid,        \* transactions the wallet holds to be double spends
    confirmed,      \* transactions in a block
    status,         \* [Peer -> ...]: "none" is not in connectedPeers
    timer,          \* [Peer -> BOOLEAN]: a disconnect is scheduled
    known,          \* [Peer -> SUBSET Tx]: knownTxHashes
    offered,        \* [Peer -> SUBSET Tx]: announced to the peer, not asked for yet
    mempool,        \* peers whose filter or mempool is being loaded
    downloadPeer,   \* and isConnected, which is downloadPeer # NULL
    syncing,        \* syncStartHeight > 0
    behind,         \* lastBlock is below estimatedHeight
    failures,       \* connectFailureCount, up to one more than MaxFailures
    threads,        \* peer threads that are about to reconnect
    queue,          \* what walletQueue is doing
    reachable,      \* networkIsReachable()
    budget

txVars == <<list, user, calls, told, sending, net, registered, invalid, confirmed>>
peerVars == <<status, timer, known, offered, mempool>>
managerVars == <<downloadPeer, syncing, behind, failures>>
appVars == <<threads, queue, reachable, budget>>
vars == <<txVars, peerVars, managerVars, appVars>>

Statuses == {"none", "waiting", "connecting", "connected", "closing", "aborting"}

Init ==
    /\ list = [t \in Tx |-> "out"] /\ user = [t \in Tx |-> "idle"]
    /\ calls = {} /\ told = [t \in Tx |-> <<>>] /\ sending = {}
    /\ net = {} /\ registered = {} /\ invalid = {} /\ confirmed = {}
    /\ status = [p \in Peer |-> "none"] /\ timer = [p \in Peer |-> FALSE]
    /\ known = [p \in Peer |-> {}] /\ offered = [p \in Peer |-> {}] /\ mempool = {}
    /\ downloadPeer = NoPeer /\ syncing = FALSE /\ behind = FALSE /\ failures = 0
    /\ threads = {} /\ queue = "free" /\ reachable = TRUE
    /\ budget = MaxTroubles

Spend(what) == what \in Troubles /\ budget > 0 /\ budget' = budget - 1

-----------------------------------------------------------------------------
(* Peers and the publish list *)

ConnectedPeers == {p \in Peer : status[p] # "none"}

\* BRPeerConnectStatus stays at connected until the thread notices the close.
Up(st) == {p \in Peer : st[p] \in {"connected", "closing"}}

\* The thread of p is in the middle of a getdata message.
Busy(p) == \E t \in Tx, first \in BOOLEAN : <<p, t, first>> \in sending

Waiting(l) == {t \in Tx : l[t] = "waiting"}
Listed(l) == {t \in Tx : l[t] # "out"}

\* BRPeerDisconnect shuts the socket down; a peer that waits for the network
\* has none.
Closed(s) == CASE s = "connected" -> "closing" [] s = "connecting" -> "aborting" [] OTHER -> s

\* Mutant: no timeout is scheduled.
PublishPendingTxUntimed(ps, l, st, tm) ==
    /\ timer' = tm
    /\ known' = [p \in Peer |-> IF p \in ps THEN known[p] \cup Listed(l) ELSE known[p]]
    /\ offered' = [p \in Peer |-> IF p \in ps /\ st[p] = "connected"
                                  THEN offered[p] \cup (Listed(l) \ known[p]) ELSE offered[p]]

\* _BRPeerManagerPublishPendingTx to each peer of ps: the timeout is scheduled
\* if a callback waits, and what the peer has not seen is announced.
PublishPendingTx(ps, l, st, tm) ==
    /\ timer' = [p \in Peer |-> tm[p] \/ (p \in ps /\ Waiting(l) # {})]
    /\ known' = [p \in Peer |-> IF p \in ps THEN known[p] \cup Listed(l) ELSE known[p]]
    /\ offered' = [p \in Peer |-> IF p \in ps /\ st[p] = "connected"
                                  THEN offered[p] \cup (Listed(l) \ known[p]) ELSE offered[p]]

\* _BRPeerManagerSyncStopped keeps the timeout while a callback waits.
SyncStoppedTimer ==
    IF downloadPeer # NoPeer /\ Waiting(list) = {} THEN [timer EXCEPT ![downloadPeer] = FALSE] ELSE timer

\* _BRPeerManagerAddTxToPublishList
AddToPublishList(l, t, how) ==
    [u \in Tx |-> IF l[u] # "out" THEN l[u]
                  ELSE IF u = t THEN how
                  ELSE IF u \in (Parents[t] \cap registered) \ confirmed THEN "silent" ELSE "out"]

-----------------------------------------------------------------------------
(* BRPeerManagerPublishTx *)

\* Every connected peer but the download peer, unless it is the only one.
Targets == IF Cardinality(Up(status)) = 1 THEN Up(status) ELSE Up(status) \ {downloadPeer}

Add(t) ==
    /\ list' = AddToPublishList(list, t, "waiting")
    /\ user' = [user EXCEPT ![t] = "submitted"]
    /\ PublishPendingTx(Targets, list', status, timer)
    /\ UNCHANGED calls

Refuse(t) ==
    /\ user' = [user EXCEPT ![t] = "submitted"]
    /\ calls' = calls \cup {<<t, FALSE>>}
    /\ UNCHANGED <<list, timer, known, offered>>

PublishTx(t) ==
    /\ queue = "free" /\ user[t] = "idle" /\ Parents[t] \subseteq registered
    /\ \/ downloadPeer # NoPeer /\ Add(t) /\ UNCHANGED queue
       \/ downloadPeer = NoPeer /\ failures >= MaxFailures /\ Refuse(t) /\ UNCHANGED queue
       \/ /\ downloadPeer = NoPeer /\ failures < MaxFailures
          /\ queue' = "publishing"
          /\ user' = [user EXCEPT ![t] = "checking"]
          /\ UNCHANGED <<list, calls, timer, known, offered>>
    /\ UNCHANGED <<told, sending, net, registered, invalid, confirmed, status, mempool,
                   managerVars, threads, reachable, budget>>

\* The lock was released to ask whether the network is reachable.
PublishCheck(t) ==
    /\ user[t] = "checking"
    /\ IF reachable THEN Add(t) ELSE Refuse(t)
    /\ queue' = "free"
    /\ UNCHANGED <<told, sending, net, registered, invalid, confirmed, status, mempool,
                   managerVars, threads, reachable, budget>>

\* The caller's callback.
Answer(t, ok) ==
    /\ <<t, ok>> \in calls
    /\ calls' = calls \ {<<t, ok>>}
    /\ told' = [told EXCEPT ![t] = Append(@, ok)]
    /\ UNCHANGED <<list, user, sending, net, registered, invalid, confirmed, peerVars,
                   managerVars, appVars>>

-----------------------------------------------------------------------------
(* What peers do with a transaction *)

\* "cancel tx publish timeout if no publish callbacks are pending, and syncing
\* is done or this is not downloadPeer"
CancelTimer(p, t) ==
    IF Waiting(list) \subseteq {t} /\ (~syncing \/ p # downloadPeer)
    THEN [timer EXCEPT ![p] = FALSE] ELSE timer

\* "reschedule sync timeout"
SyncTimer(tm, p) == IF syncing /\ p = downloadPeer THEN [tm EXCEPT ![p] = TRUE] ELSE tm

\* Mutant: the callback stays in the list.
TakeCallbackAgain(t, ok) == IF list[t] # "out" THEN calls \cup {<<t, ok>>} ELSE calls

\* The callback is taken from the list, so that it is called once.
TakeCallback(t, ok) == IF list[t] = "waiting" THEN calls \cup {<<t, ok>>} ELSE calls

\* _peerRequestedTx: the callback is taken, the transaction stays in the list and
\* is registered.  The socket may be closed by now: the message had been received
\* before.
RequestedTx(p, t) ==
    LET valid == list[t] # "out" /\ t \notin invalid
        given == list[t] # "out" /\ (valid \/ t \in registered)
    IN /\ p \in Up(status) /\ ~Busy(p) /\ t \in offered[p]
       /\ offered' = [offered EXCEPT ![p] = @ \ {t}]
       /\ list' = [list EXCEPT ![t] = IF valid THEN "silent" ELSE "out"]
       /\ calls' = TakeCallback(t, valid)
       /\ timer' = CancelTimer(p, t)
       /\ sending' = IF given THEN sending \cup {<<p, t, list[t] = "waiting">>} ELSE sending
       /\ registered' = IF valid THEN registered \cup {t} ELSE registered
       /\ UNCHANGED <<user, told, net, invalid, confirmed, status, known, mempool, managerVars,
                      appVars>>

\* Back in the peer's thread, after the callback: a closed socket sends nothing,
\* and one that fails is closed.
SendTx(p, t, first) ==
    /\ <<p, t, first>> \in sending /\ (first => <<t, TRUE>> \notin calls)
    /\ sending' = sending \ {<<p, t, first>>}
    /\ \/ status[p] = "connected" /\ net' = net \cup {t} /\ UNCHANGED <<status, budget>>
       \/ status[p] = "connected" /\ Spend("fault") /\ net' = net
          /\ status' = [status EXCEPT ![p] = "closing"]
       \/ status[p] # "connected" /\ UNCHANGED <<net, status, budget>>
    /\ UNCHANGED <<list, user, calls, told, registered, invalid, confirmed, timer, known, offered,
                   mempool, managerVars, threads, queue, reachable>>

\* _peerHasTx: an inv with a hash the peer object knows, also one that nobody
\* was sent (a fault of the peer).
HasTx(p, t) ==
    LET found == t \in registered \/ list[t] # "out"
    IN /\ p \in Up(status) /\ ~Busy(p) /\ t \in known[p] \ confirmed
       /\ IF t \in net THEN UNCHANGED budget ELSE Spend("fault")
       /\ list' = [list EXCEPT ![t] = IF @ = "waiting" THEN "silent" ELSE @]
       /\ calls' = TakeCallback(t, TRUE)
       /\ timer' = IF found THEN SyncTimer(CancelTimer(p, t), p) ELSE CancelTimer(p, t)
       /\ registered' = IF found THEN registered \cup {t} ELSE registered
       /\ UNCHANGED <<user, told, sending, net, invalid, confirmed, status, known, offered, mempool,
                      managerVars, threads, queue, reachable>>

\* _peerRelayedTx: an inv with a new hash, then the transaction.
RelayedTx(p, t) ==
    /\ p \in Up(status) /\ ~Busy(p) /\ t \in net \ confirmed /\ t \notin known[p]
    /\ known' = [known EXCEPT ![p] = @ \cup {t}]
    /\ LET taken == [list EXCEPT ![t] = IF @ = "waiting" THEN "silent" ELSE @]
       IN list' = IF t \in invalid THEN taken ELSE AddToPublishList(taken, t, "silent")
    /\ calls' = TakeCallback(t, TRUE)
    /\ timer' = SyncTimer(CancelTimer(p, t), p)
    /\ registered' = registered \cup {t}
    /\ UNCHANGED <<user, told, sending, net, invalid, confirmed, status, offered, mempool,
                   managerVars, appVars>>

\* _peerRejectedTx for a reason other than a double spend: the peer is dropped.
RejectedTx(p, t) ==
    /\ status[p] = "connected" /\ ~Busy(p) /\ t \in net \cap registered
    /\ Parents[t] \subseteq confirmed
    /\ status' = [status EXCEPT ![p] = "closing"]
    /\ Spend("fault")
    /\ UNCHANGED <<txVars, timer, known, offered, mempool, managerVars, threads, queue,
                   reachable>>

\* A block holds the transaction: _BRPeerManagerUpdateTx drops it from the list.
Confirm(t) ==
    /\ t \in net \ confirmed
    /\ confirmed' = confirmed \cup {t}
    /\ invalid' = invalid \ {t}
    /\ list' = [list EXCEPT ![t] = "out"]
    /\ UNCHANGED <<user, calls, told, sending, net, registered, peerVars, managerVars, appVars>>

\* Another transaction that spends the same outputs reaches the wallet first.
Conflict(t) ==
    /\ list[t] # "out" /\ t \notin invalid /\ Spend("conflict")
    /\ invalid' = invalid \cup {t}
    /\ UNCHANGED <<list, user, calls, told, sending, net, registered, confirmed, peerVars,
                   managerVars, threads, queue, reachable>>

\* _requestUnrelayedTxGetdataDone: every peer is asked and none has the
\* transaction, so the wallet forgets it and what spends from it.
DropUnrelayed(t) ==
    /\ ConnectedPeers = Up(status) /\ Cardinality(Up(status)) = MaxConnect /\ mempool = {}
    /\ t \in registered \ confirmed /\ list[t] # "waiting" /\ Spend("fault")
    /\ registered' = registered \ ({t} \cup {u \in Tx : t \in Parents[u]})
    /\ UNCHANGED <<list, user, calls, told, sending, net, invalid, confirmed, peerVars,
                   managerVars, threads, queue, reachable>>

-----------------------------------------------------------------------------
(* Connections *)

\* BRPeerManagerConnect, with the peers ps it finds to connect to.  It releases
\* the lock to say that a sync starts and to look for addresses; it is one step.
Connect(ps) ==
    LET dial(p) == IF p \in ps \/ status[p] = "waiting"
                   THEN IF reachable THEN "connecting" ELSE "waiting"
                   ELSE status[p]
    IN /\ ps \subseteq Peer \ ConnectedPeers
       /\ Cardinality(ps) + Cardinality(ConnectedPeers) <= MaxConnect \/ ps = {}
       /\ failures' = IF failures >= MaxFailures THEN 0 ELSE failures
       /\ status' = [p \in Peer |-> dial(p)]
       /\ syncing' = (ps \cup ConnectedPeers # {} /\ (syncing \/ downloadPeer = NoPeer \/ behind))
       /\ UNCHANGED <<txVars, timer, known, offered, mempool, downloadPeer, behind, reachable, budget>>

AppConnect(ps) == queue = "free" /\ Connect(ps) /\ UNCHANGED <<threads, queue>>

ThreadConnect(p, ps) ==
    /\ p \in threads /\ threads' = threads \ {p}
    /\ Connect(ps) /\ UNCHANGED queue

\* BRPeerManagerRescan starts again from a checkpoint, with another peer.
Rescan ==
    /\ queue = "free" /\ downloadPeer # NoPeer /\ Spend("rescan")
    /\ behind' = TRUE /\ syncing' = FALSE
    /\ status' = [status EXCEPT ![downloadPeer] = Closed(@)]
    /\ queue' = "rescanning"
    /\ UNCHANGED <<txVars, timer, known, offered, mempool, downloadPeer, failures, threads, reachable>>

RescanConnect(ps) ==
    /\ queue = "rescanning" /\ queue' = "free"
    /\ Connect(ps) /\ UNCHANGED threads

\* BRPeerManagerDisconnect closes every peer, then waits for all to be gone.
Disconnect ==
    /\ queue = "free" /\ Spend("stop")
    /\ failures' = IF ConnectedPeers # {} THEN MaxFailures ELSE failures
    /\ status' = [p \in Peer |-> Closed(status[p])]
    /\ queue' = IF ConnectedPeers # {} THEN "stopping" ELSE "free"
    /\ UNCHANGED <<txVars, timer, known, offered, mempool, downloadPeer, syncing, behind, threads, reachable>>

DisconnectReturns ==
    /\ queue = "stopping" /\ ConnectedPeers = {}
    /\ queue' = "free"
    /\ UNCHANGED <<txVars, peerVars, managerVars, threads, reachable, budget>>

\* _peerConnected.  The peer does not serve us ...
ConnectedRefused(p) ==
    /\ status[p] = "connecting" /\ Spend("fault")
    /\ status' = [status EXCEPT ![p] = "closing"]
    /\ UNCHANGED <<txVars, timer, known, offered, mempool, managerVars, threads, queue,
                   reachable>>

\* ... or the download peer stays; a peer that has no more blocks than we
\* (`level`) gets the filter and the pending transactions ...
ConnectedKept(p, level) ==
    /\ status[p] = "connecting" /\ downloadPeer # NoPeer
    /\ level \/ behind
    /\ status' = [status EXCEPT ![p] = "connected"]
    /\ IF level
       THEN /\ failures' = 0
            /\ PublishPendingTx({p}, list, status', timer)
            /\ mempool' = mempool \cup {p}
       ELSE UNCHANGED <<failures, timer, known, offered, mempool>>
    /\ UNCHANGED <<txVars, downloadPeer, syncing, behind, appVars>>

\* ... or the fastest peer with the most blocks, d, becomes the download peer.
ConnectedChosen(p, d, catchUp) ==
    LET joined == [status EXCEPT ![p] = "connected"]
        others == IF catchUp THEN {} ELSE Up(joined)
    IN /\ status[p] = "connecting"
       /\ d \in Up(joined) /\ d # downloadPeer
       /\ IF downloadPeer # NoPeer THEN catchUp /\ Spend("block") ELSE UNCHANGED budget
       /\ status' = [q \in Peer |-> IF q = downloadPeer THEN Closed(joined[q]) ELSE joined[q]]
       /\ downloadPeer' = d
       /\ behind' = catchUp
       /\ failures' = IF catchUp THEN failures ELSE 0
       /\ PublishPendingTx({d} \cup others, list, joined,
                           IF catchUp THEN [timer EXCEPT ![d] = TRUE] ELSE timer)
       /\ mempool' = mempool \cup others
       /\ UNCHANGED <<txVars, syncing, threads, queue, reachable>>

\* A block from the download peer, and the last one.  _BRPeerManagerLoadMempools
\* announces to the other peers; the download peer is only told what we know,
\* unless its filter is loaded again.
RelayedBlock ==
    /\ behind /\ downloadPeer # NoPeer /\ status[downloadPeer] = "connected" /\ ~Busy(downloadPeer)
    /\ timer' = [timer EXCEPT ![downloadPeer] = TRUE]
    /\ failures' = 0
    /\ UNCHANGED <<txVars, status, known, offered, mempool, downloadPeer, syncing, behind, appVars>>

LastBlock(reload) ==
    LET loaded == Up(status) \ (IF reload THEN {} ELSE {downloadPeer})
    IN /\ behind /\ downloadPeer # NoPeer /\ status[downloadPeer] = "connected" /\ ~Busy(downloadPeer)
       /\ behind' = FALSE
       /\ timer' = [p \in Peer |-> timer[p] \/ (p \in loaded /\ Waiting(list) # {})]
       /\ known' = [p \in Peer |-> IF p \in Up(status) THEN known[p] \cup Listed(list) ELSE known[p]]
       /\ offered' = [p \in Peer |-> IF p \in loaded /\ status[p] = "connected"
                                     THEN offered[p] \cup (Listed(list) \ known[p]) ELSE offered[p]]
       /\ mempool' = mempool \cup Up(status)
       /\ UNCHANGED <<txVars, status, downloadPeer, syncing, failures, appVars>>

\* _mempoolDone
MempoolDone(p) ==
    /\ p \in mempool /\ status[p] = "connected" /\ ~Busy(p)
    /\ mempool' = mempool \ {p}
    /\ syncing' = FALSE
    /\ timer' = IF syncing THEN SyncStoppedTimer ELSE timer
    /\ UNCHANGED <<txVars, status, known, offered, downloadPeer, behind, failures, appVars>>

\* Mutant: they lose their callback and stay in the list.
CancelTxOnly(ts) == [t \in Tx |-> IF t \in ts THEN "silent" ELSE list[t]]

\* Cancelled transactions leave the list with their callback.
CancelTx(ts) == [t \in Tx |-> IF t \in ts THEN "out" ELSE list[t]]

\* Mutant: the peer that is gone stays the download peer.
DownloadPeerStays(p) == downloadPeer

DownloadPeerWithout(p) == IF p = downloadPeer THEN NoPeer ELSE downloadPeer

\* The end of _peerThreadRoutine: the callbacks of pings that were not answered
\* (`early`: the one that waits for a loaded filter reports the sync stopped),
\* then _peerDisconnected.
Disconnected(p, error, early) ==
    LET active == syncing /\ ~early
        counted == IF error \in {"reset", "timeout"} /\ failures <= MaxFailures
                   THEN failures + 1 ELSE failures
        timedOut == error = "timeout" /\ (p # downloadPeer \/ ~active \/ ConnectedPeers = {p})
        down == DownloadPeerWithout(p)
        limited == IF p = downloadPeer /\ counted > MaxFailures THEN MaxFailures ELSE counted
        giveUp == down = NoPeer /\ limited = MaxFailures
        cancelled == IF timedOut \/ giveUp THEN Waiting(list) ELSE {}
    IN /\ ~Busy(p) /\ (early => p = downloadPeer /\ p \in mempool)
       /\ failures' = limited /\ downloadPeer' = down
       /\ syncing' = (active /\ ~giveUp)
       /\ list' = CancelTx(cancelled)
       /\ calls' = calls \cup {<<t, FALSE>> : t \in cancelled}
       /\ status' = [status EXCEPT ![p] = "none"] /\ timer' = [timer EXCEPT ![p] = FALSE]
       /\ known' = [known EXCEPT ![p] = {}] /\ offered' = [offered EXCEPT ![p] = {}]
       /\ mempool' = mempool \ {p}
       /\ threads' = IF ~giveUp /\ limited < MaxFailures THEN threads \cup {p} ELSE threads
       /\ UNCHANGED <<user, told, sending, net, registered, invalid, confirmed, behind, queue,
                      reachable>>

\* The thread of a closed socket ends.
Ended(p) ==
    /\ status[p] \in {"closing", "aborting"}
    /\ \E error \in {"none", "reset"}, early \in BOOLEAN : Disconnected(p, error, early)
    /\ UNCHANGED budget

\* The scheduled disconnect; in a sync with other peers connected it counts as
\* a fault of the download peer.
SyncTimeout(p) == syncing /\ p = downloadPeer /\ ConnectedPeers # {p}
TimedOut(p) ==
    /\ timer[p] /\ status[p] = "connected"
    /\ \E early \in BOOLEAN : Disconnected(p, "timeout", early)
    /\ IF SyncTimeout(p) THEN Spend("fault") ELSE UNCHANGED budget

\* The connection fails, the peer breaks the protocol, or a message stalls.
Failed(p) ==
    /\ status[p] \in {"connecting", "connected"} /\ Spend("fault")
    /\ \E error \in {"reset", "proto", "timeout"}, early \in BOOLEAN : Disconnected(p, error, early)

SetReachable ==
    /\ reachable' = ~reachable
    /\ IF reachable THEN Spend("offline") ELSE UNCHANGED budget
    /\ UNCHANGED <<txVars, peerVars, managerVars, threads, queue>>

-----------------------------------------------------------------------------
TxStep ==
    \/ \E t \in Tx : PublishTx(t) \/ PublishCheck(t) \/ Confirm(t) \/ Conflict(t)
                   \/ DropUnrelayed(t)
    \/ \E t \in Tx, ok \in BOOLEAN : Answer(t, ok)
    \/ \E p \in Peer, t \in Tx, first \in BOOLEAN : SendTx(p, t, first)
    \/ \E p \in Peer, t \in Tx :
           RequestedTx(p, t) \/ HasTx(p, t) \/ RelayedTx(p, t) \/ RejectedTx(p, t)

PeerStep(p) ==
    \/ ConnectedRefused(p) \/ MempoolDone(p)
    \/ \E level \in BOOLEAN : ConnectedKept(p, level)
    \/ \E d \in Peer, catchUp \in BOOLEAN : ConnectedChosen(p, d, catchUp)
    \/ Ended(p) \/ TimedOut(p) \/ Failed(p)
    \/ \E ps \in SUBSET Peer : ThreadConnect(p, ps)

AppStep ==
    \/ \E ps \in SUBSET Peer : AppConnect(ps) \/ RescanConnect(ps)
    \/ Rescan \/ Disconnect \/ DisconnectReturns \/ SetReachable

Next ==
    \/ TxStep \/ AppStep
    \/ \E p \in Peer : PeerStep(p)
    \/ RelayedBlock \/ \E reload \in BOOLEAN : LastBlock(reload)

Spec == Init /\ [][Next]_vars

\* Every thread goes on: the app's queue connects again (on its return to the
\* foreground, and when the network is back) and finds addresses of peers, a
\* peer's thread connects, serves the download and its timer, or ends.  No
\* fairness of a peer that was offered a transaction: it may never ask.
FullConnect(C(_)) == \E ps \in SUBSET Peer :
    /\ C(ps)
    /\ ps = Peer \ ConnectedPeers \/ Cardinality(ps \cup ConnectedPeers) = MaxConnect

QueueRuns ==
    \/ \E t \in Tx : PublishCheck(t)
    \/ FullConnect(AppConnect) \/ FullConnect(RescanConnect) \/ DisconnectReturns

ThreadRuns(p) ==
    \/ \E level \in BOOLEAN : ConnectedKept(p, level)
    \/ \E d \in Peer, catchUp \in BOOLEAN : ConnectedChosen(p, d, catchUp)
    \/ MempoolDone(p) \/ Ended(p) \/ TimedOut(p)
    \/ p = downloadPeer /\ \E reload \in BOOLEAN : LastBlock(reload)
    \/ FullConnect(LAMBDA ps : ThreadConnect(p, ps))
    \/ \E t \in Tx, first \in BOOLEAN : SendTx(p, t, first)

Fairness ==
    /\ WF_vars(QueueRuns)
    /\ \A p \in Peer : WF_vars(ThreadRuns(p))
    /\ WF_vars(\E t \in Tx, ok \in BOOLEAN : Answer(t, ok))
    /\ WF_vars(~reachable /\ SetReachable)

FairSpec == Spec /\ Fairness

-----------------------------------------------------------------------------
(* Properties *)

TypeOK ==
    /\ list \in [Tx -> {"out", "silent", "waiting"}]
    /\ user \in [Tx -> {"idle", "checking", "submitted"}]
    /\ calls \subseteq Tx \X BOOLEAN
    /\ told \in [Tx -> Seq(BOOLEAN)] /\ sending \subseteq Peer \X Tx \X BOOLEAN
    /\ net \subseteq Tx /\ registered \subseteq Tx /\ invalid \subseteq Tx /\ confirmed \subseteq Tx
    /\ status \in [Peer -> Statuses] /\ timer \in [Peer -> BOOLEAN]
    /\ known \in [Peer -> SUBSET Tx] /\ offered \in [Peer -> SUBSET Tx] /\ mempool \subseteq Peer
    /\ downloadPeer \in Peer \cup {NoPeer} /\ syncing \in BOOLEAN /\ behind \in BOOLEAN
    /\ failures \in 0 .. MaxFailures + 1
    /\ threads \subseteq Peer /\ queue \in {"free", "publishing", "rescanning", "stopping"}
    /\ reachable \in BOOLEAN
    /\ budget \in 0 .. MaxTroubles

\* downloadPeer, and with it isConnected, never outlives the connection: the
\* download peer is in connectedPeers and was connected, whichever of the two
\* is replaced, closed, timed out or rescanned away first.
DownloadPeerIsHeld == downloadPeer # NoPeer => downloadPeer \in Up(status)

\* A node asked for the transaction, or said it has it, and the caller was told
\* or is about to be.
Accepted(t) == <<t, TRUE>> \in calls \/ told[t] = <<TRUE>>

UnderWay(t) == \E p \in Peer, first \in BOOLEAN : <<p, t, first>> \in sending

AnswerOf(t) ==
    /\ t \in registered \cup net \cup confirmed \/ list[t] = "silent" \/ UnderWay(t)
           => Accepted(t)
    /\ list[t] = "waiting" \/ Accepted(t) => user[t] = "submitted"
    /\ list[t] = "waiting" \/ user[t] # "submitted" =>
           told[t] = <<>> /\ <<t, TRUE>> \notin calls /\ <<t, FALSE>> \notin calls
    /\ <<t, TRUE>> \in calls => told[t] = <<>> /\ <<t, FALSE>> \notin calls
    /\ <<t, FALSE>> \in calls => told[t] = <<>>
    /\ told[t] \in {<<>>, <<TRUE>>, <<FALSE>>}
    /\ Accepted(t) => t \in net \cup invalid \/ list[t] = "silent"

\* A transaction that waits for an answer is unknown to the wallet and under way
\* to nobody, and has no other answer on its way; what is registered, under way,
\* sent, confirmed or listed without a callback was reported as a success; an
\* answer, called or about to be, is the only one.  After an error the
\* transaction is nowhere.  A success is called back before the transaction is
\* sent, so that it need not be on the network; if it is not, it stays in the
\* list that is announced to every peer that connects, unless another transaction
\* has spent its inputs meanwhile.
OneAnswer == \A t \in Tx : AnswerOf(t)

\* What has been decided about a transaction, for the specification Broadcast.
Fate == [t \in Tx |->
    IF user[t] = "idle" THEN "idle"
    ELSE IF user[t] = "checking" \/ list[t] = "waiting" THEN "asked"
    ELSE IF Accepted(t) THEN "accepted" ELSE "failed"]

B == INSTANCE Broadcast WITH fate <- Fate

\* Every call of BRPeerManagerPublishTx is answered once: with an error only if
\* no node was sent the transaction and none will be, and with success only when
\* a node asked for it or has it, whatever order peers ask, relay, time out,
\* disconnect and reconnect in; nothing is sent without that.
AnswersAreTrue == B!Safe

\* With peers that fail finitely often every call is answered: the user is not
\* left on the sending screen.
EveryCallAnswered == (queue = "stopping" ~> queue # "stopping") => B!Answered

\* BRPeerManagerDisconnect, "disconnect from bitcoin peer-to-peer network",
\* returns: it closes every peer and means to "prevent futher automatic
\* reconnect attempts" before it waits for the peers to be gone.
DisconnectEnds == queue = "stopping" ~> queue = "free"
=============================================================================
