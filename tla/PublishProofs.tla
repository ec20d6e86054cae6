--------------------------- MODULE PublishProofs ---------------------------
(***************************************************************************)
(* Publish implements Broadcast: whatever the number of transactions,      *)
(* peers and faults, a call of BRPeerManagerPublishTx is answered at most  *)
(* once, and with an error only if nothing is sent.                        *)
(***************************************************************************)
EXTENDS Publish, TLAPS

-----------------------------------------------------------------------------
(* Types *)

\* What the list becomes when a transaction is added is a list again.
LEMMA AddToPublishListType ==
    ASSUME NEW l \in [Tx -> {"out", "silent", "waiting"}], NEW t \in Tx,
           NEW how \in {"silent", "waiting"}
    PROVE  AddToPublishList(l, t, how) \in [Tx -> {"out", "silent", "waiting"}]
  BY DEF AddToPublishList

\* Callbacks added to the ones that wait to be called.
LEMMA CallsType ==
    ASSUME NEW C, C \subseteq Tx \X BOOLEAN, NEW S, S \subseteq Tx, NEW ok \in BOOLEAN
    PROVE  C \cup {<<t, ok>> : t \in S} \subseteq Tx \X BOOLEAN
  <1>1. \A t \in S : <<t, ok>> \in Tx \X BOOLEAN
    BY Zenon
  <1> QED BY <1>1, Zenon

LEMMA CallType ==
    ASSUME NEW C, C \subseteq Tx \X BOOLEAN, NEW t \in Tx, NEW ok \in BOOLEAN
    PROVE  C \cup {<<t, ok>>} \subseteq Tx \X BOOLEAN
  <1>1. <<t, ok>> \in Tx \X BOOLEAN
    BY Zenon
  <1> QED BY <1>1, Zenon

LEMMA SendingType ==
    ASSUME NEW S, S \subseteq Peer \X Tx \X BOOLEAN, NEW p \in Peer, NEW t \in Tx,
           NEW first \in BOOLEAN
    PROVE  S \cup {<<p, t, first>>} \subseteq Peer \X Tx \X BOOLEAN
  <1>1. <<p, t, first>> \in Peer \X Tx \X BOOLEAN
    OBVIOUS
  <1> QED BY <1>1, Zenon

LEMMA PublishPendingType ==
    ASSUME TypeOK, NEW ps \in SUBSET Peer, NEW l, NEW st, NEW tm \in [Peer -> BOOLEAN],
           PublishPendingTx(ps, l, st, tm)
    PROVE  /\ timer' \in [Peer -> BOOLEAN]
           /\ known' \in [Peer -> SUBSET Tx] /\ offered' \in [Peer -> SUBSET Tx]
  <1>1. Listed(l) \subseteq Tx BY DEF Listed
  <1>2. /\ known \in [Peer -> SUBSET Tx] /\ offered \in [Peer -> SUBSET Tx]
    BY DEF TypeOK
  <1>3. timer' \in [Peer -> BOOLEAN] BY DEF PublishPendingTx
  <1>4. known' \in [Peer -> SUBSET Tx] BY <1>1, <1>2 DEF PublishPendingTx
  <1>5. offered' \in [Peer -> SUBSET Tx] BY <1>1, <1>2 DEF PublishPendingTx
  <1> QED BY <1>3, <1>4, <1>5

LEMMA ConnectType ==
    ASSUME TypeOK, NEW ps \in SUBSET Peer, Connect(ps),
           threads' \subseteq Peer, queue' \in {"free", "publishing", "rescanning", "stopping"}
    PROVE  TypeOK'
  <1>1. status' \in [Peer -> Statuses]
    BY DEF TypeOK, Connect, Statuses
  <1>2. failures' \in 0 .. MaxFailures + 1 /\ syncing' \in BOOLEAN
    BY PublishAssumption DEF TypeOK, Connect
  <1> QED BY <1>1, <1>2 DEF TypeOK, Connect, txVars

LEMMA SubmitType ==
    ASSUME TypeOK, NEW t \in Tx, Add(t) \/ Refuse(t)
    PROVE  /\ list' \in [Tx -> {"out", "silent", "waiting"}]
           /\ user' \in [Tx -> {"idle", "checking", "submitted"}]
           /\ calls' \subseteq Tx \X BOOLEAN
           /\ timer' \in [Peer -> BOOLEAN]
           /\ known' \in [Peer -> SUBSET Tx] /\ offered' \in [Peer -> SUBSET Tx]
  <1>1. CASE Add(t)
    <2>1. list' \in [Tx -> {"out", "silent", "waiting"}]
      BY <1>1, AddToPublishListType DEF Add, TypeOK
    <2>2. Targets \in SUBSET Peer BY DEF Targets, Up
    <2>3. timer \in [Peer -> BOOLEAN] BY DEF TypeOK
    <2>4. /\ timer' \in [Peer -> BOOLEAN]
          /\ known' \in [Peer -> SUBSET Tx] /\ offered' \in [Peer -> SUBSET Tx]
      BY <1>1, <2>2, <2>3, PublishPendingType DEF Add
    <2> QED BY <1>1, <2>1, <2>4 DEF Add, TypeOK
  <1>2. CASE Refuse(t)
    <2>1. calls' \subseteq Tx \X BOOLEAN BY <1>2, CallType DEF Refuse, TypeOK
    <2>2. user' \in [Tx -> {"idle", "checking", "submitted"}] BY <1>2 DEF Refuse, TypeOK
    <2> QED BY <1>2, <2>1, <2>2 DEF Refuse, TypeOK
  <1> QED BY <1>1, <1>2

LEMMA TimerType ==
    ASSUME TypeOK, NEW p \in Peer, NEW t \in Tx
    PROVE  /\ CancelTimer(p, t) \in [Peer -> BOOLEAN]
           /\ SyncTimer(CancelTimer(p, t), p) \in [Peer -> BOOLEAN]
           /\ SyncStoppedTimer \in [Peer -> BOOLEAN]
  BY DEF TypeOK, CancelTimer, SyncTimer, SyncStoppedTimer

LEMMA DisconnectedType ==
    ASSUME TypeOK, NEW p \in Peer, NEW error, NEW early \in BOOLEAN,
           Disconnected(p, error, early), budget' \in 0 .. MaxTroubles
    PROVE  TypeOK'
  <1>1. failures' \in 0 .. MaxFailures + 1
    BY PublishAssumption DEF TypeOK, Disconnected
  <1>2. downloadPeer' \in Peer \cup {NoPeer}
    BY DEF TypeOK, Disconnected, DownloadPeerWithout, CancelTx
  <1>a. syncing' \in BOOLEAN
    BY Zenon DEF TypeOK, Disconnected
  <1>3. list' \in [Tx -> {"out", "silent", "waiting"}]
    BY DEF TypeOK, Disconnected, DownloadPeerWithout, CancelTx
  <1>4. calls' \subseteq Tx \X BOOLEAN
    <2>1. PICK S : S \subseteq Tx /\ calls' = calls \cup {<<t, FALSE>> : t \in S}
      BY DEF Disconnected, Waiting
    <2> QED BY <2>1, CallsType DEF TypeOK
  <1>5. status' \in [Peer -> Statuses] /\ timer' \in [Peer -> BOOLEAN]
    BY DEF TypeOK, Disconnected, Statuses
  <1>6. known' \in [Peer -> SUBSET Tx] /\ offered' \in [Peer -> SUBSET Tx]
    BY DEF TypeOK, Disconnected, DownloadPeerWithout, CancelTx
  <1>7. mempool' \subseteq Peer /\ threads' \subseteq Peer
    BY DEF TypeOK, Disconnected, DownloadPeerWithout, CancelTx
  <1>8. UNCHANGED <<user, told, sending, net, registered, invalid, confirmed, behind, queue, reachable>>
    BY DEF Disconnected
  <1> QED BY <1>1, <1>2, <1>a, <1>3, <1>4, <1>5, <1>6, <1>7, <1>8 DEF TypeOK

LEMMA TakeCallbackType ==
    ASSUME TypeOK, NEW t \in Tx, NEW ok \in BOOLEAN
    PROVE  TakeCallback(t, ok) \subseteq Tx \X BOOLEAN
  BY CallType DEF TypeOK, TakeCallback

LEMMA SpendType ==
    ASSUME TypeOK, NEW what, Spend(what)
    PROVE  budget' \in 0 .. MaxTroubles
  BY PublishAssumption DEF TypeOK, Spend

LEMMA ClosedType ==
    ASSUME NEW s \in Statuses
    PROVE  Closed(s) \in Statuses
  BY DEF Closed, Statuses

LEMMA InitType == Init => TypeOK
  <1> SUFFICES ASSUME Init PROVE TypeOK
    OBVIOUS
  <1>1. told \in [Tx -> Seq(BOOLEAN)] /\ sending \subseteq Peer \X Tx \X BOOLEAN BY DEF Init
  <1>2. status \in [Peer -> Statuses] BY DEF Init, Statuses
  <1>3. timer \in [Peer -> BOOLEAN] BY DEF Init
  <1>4. known \in [Peer -> SUBSET Tx] /\ offered \in [Peer -> SUBSET Tx] BY DEF Init
  <1>5. failures \in 0 .. MaxFailures + 1 /\ budget \in 0 .. MaxTroubles
    BY PublishAssumption DEF Init
  <1>6. calls \subseteq Tx \X BOOLEAN BY DEF Init
  <1>7. list \in [Tx -> {"out", "silent", "waiting"}] /\ user \in [Tx -> {"idle", "checking", "submitted"}]
    BY DEF Init
  <1> QED BY <1>1, <1>2, <1>3, <1>4, <1>5, <1>6, <1>7 DEF Init, TypeOK

LEMMA TxStepType ==
    ASSUME TypeOK, TxStep PROVE TypeOK'
  <1>1. ASSUME NEW t \in Tx, PublishTx(t) PROVE TypeOK'
    <2>1. CASE Add(t) \/ Refuse(t)
      <3>1. queue' \in {"free", "publishing", "rescanning", "stopping"} BY <1>1 DEF PublishTx, TypeOK
      <3>2. /\ list' \in [Tx -> {"out", "silent", "waiting"}]
            /\ user' \in [Tx -> {"idle", "checking", "submitted"}]
            /\ calls' \subseteq Tx \X BOOLEAN
            /\ timer' \in [Peer -> BOOLEAN]
            /\ known' \in [Peer -> SUBSET Tx] /\ offered' \in [Peer -> SUBSET Tx]
        BY <2>1, SubmitType
      <3>3. UNCHANGED <<told, sending, net, registered, invalid, confirmed, status, mempool, managerVars,
                        threads, reachable, budget>>
        BY <1>1 DEF PublishTx
      <3> QED BY <3>1, <3>2, <3>3 DEF TypeOK, managerVars
    <2>2. CASE ~ (Add(t) \/ Refuse(t))
      BY <1>1, <2>2 DEF PublishTx, TypeOK, managerVars
    <2> QED BY <2>1, <2>2
  <1>2. ASSUME NEW t \in Tx, PublishCheck(t) PROVE TypeOK'
    <2>1. Add(t) \/ Refuse(t) BY <1>2 DEF PublishCheck
    <2> QED BY <1>2, <2>1, SubmitType DEF PublishCheck, TypeOK, managerVars
  <1>3. ASSUME NEW t \in Tx, Confirm(t) PROVE TypeOK'
    BY <1>3 DEF Confirm, TypeOK, peerVars, managerVars, appVars
  <1>4. ASSUME NEW t \in Tx, Conflict(t) PROVE TypeOK'
    BY <1>4, SpendType DEF Conflict, TypeOK, peerVars, managerVars
  <1>5. ASSUME NEW t \in Tx, DropUnrelayed(t) PROVE TypeOK'
    BY <1>5, SpendType DEF DropUnrelayed, TypeOK, peerVars, managerVars
  <1>6. ASSUME NEW t \in Tx, NEW ok \in BOOLEAN, Answer(t, ok) PROVE TypeOK'
    <2>1. told' \in [Tx -> Seq(BOOLEAN)] BY <1>6 DEF Answer, TypeOK
    <2>2. calls' \subseteq Tx \X BOOLEAN BY <1>6 DEF Answer, TypeOK
    <2> QED BY <1>6, <2>1, <2>2 DEF Answer, TypeOK, peerVars, managerVars, appVars
  <1>7. ASSUME NEW p \in Peer, NEW t \in Tx, RequestedTx(p, t) PROVE TypeOK'
    <2>1. calls' \subseteq Tx \X BOOLEAN
      <3>1. PICK ok \in BOOLEAN : calls' = TakeCallback(t, ok) BY <1>7, Zenon DEF RequestedTx
      <3> QED BY <3>1, TakeCallbackType
    <2>2. timer' \in [Peer -> BOOLEAN] BY <1>7, TimerType DEF RequestedTx
    <2>3. /\ list' \in [Tx -> {"out", "silent", "waiting"}]
          /\ offered' \in [Peer -> SUBSET Tx] /\ registered' \subseteq Tx
      BY <1>7 DEF RequestedTx, TypeOK
    <2>4. sending' \subseteq Peer \X Tx \X BOOLEAN
      <3>1. PICK first \in BOOLEAN : sending' \subseteq sending \cup {<<p, t, first>>}
        BY <1>7, Zenon DEF RequestedTx
      <3> QED BY <3>1, SendingType DEF TypeOK
    <2> QED BY <1>7, <2>1, <2>2, <2>3, <2>4 DEF RequestedTx, TypeOK, managerVars, appVars
  <1>11. ASSUME NEW p \in Peer, NEW t \in Tx, NEW first \in BOOLEAN, SendTx(p, t, first) PROVE TypeOK'
    <2>1. status' \in [Peer -> Statuses] /\ net' \subseteq Tx
      BY <1>11 DEF SendTx, TypeOK, Statuses
    <2>2. budget' \in 0 .. MaxTroubles BY <1>11, SpendType DEF SendTx, TypeOK
    <2>3. sending' \subseteq Peer \X Tx \X BOOLEAN BY <1>11, Zenon DEF SendTx, TypeOK
    <2> QED BY <1>11, <2>1, <2>2, <2>3 DEF SendTx, TypeOK, managerVars
  <1>8. ASSUME NEW p \in Peer, NEW t \in Tx, HasTx(p, t) PROVE TypeOK'
    <2>1. calls' \subseteq Tx \X BOOLEAN BY <1>8, TakeCallbackType DEF HasTx
    <2>2. timer' \in [Peer -> BOOLEAN] BY <1>8, TimerType DEF HasTx
    <2>3. list' \in [Tx -> {"out", "silent", "waiting"}] /\ registered' \subseteq Tx
      BY <1>8 DEF HasTx, TypeOK
    <2>4. budget' \in 0 .. MaxTroubles BY <1>8, SpendType DEF HasTx, TypeOK
    <2> QED BY <1>8, <2>1, <2>2, <2>3, <2>4 DEF HasTx, TypeOK, managerVars
  <1>9. ASSUME NEW p \in Peer, NEW t \in Tx, RelayedTx(p, t) PROVE TypeOK'
    <2>1. calls' \subseteq Tx \X BOOLEAN BY <1>9, TakeCallbackType DEF RelayedTx
    <2>2. timer' \in [Peer -> BOOLEAN] BY <1>9, TimerType DEF RelayedTx
    <2>3. list' \in [Tx -> {"out", "silent", "waiting"}]
      <3>1. [list EXCEPT ![t] = IF @ = "waiting" THEN "silent" ELSE @]
                \in [Tx -> {"out", "silent", "waiting"}]
        BY DEF TypeOK
      <3> QED BY <1>9, <3>1, AddToPublishListType DEF RelayedTx
    <2>4. known' \in [Peer -> SUBSET Tx] /\ registered' \subseteq Tx
      BY <1>9 DEF RelayedTx, TypeOK
    <2> QED BY <1>9, <2>1, <2>2, <2>3, <2>4 DEF RelayedTx, TypeOK, managerVars, appVars
  <1>10. ASSUME NEW p \in Peer, NEW t \in Tx, RejectedTx(p, t) PROVE TypeOK'
    BY <1>10, SpendType DEF RejectedTx, TypeOK, Statuses, txVars, managerVars
  <1> QED BY <1>1, <1>2, <1>3, <1>4, <1>5, <1>6, <1>7, <1>8, <1>9, <1>10, <1>11 DEF TxStep

LEMMA PeerStepType ==
    ASSUME TypeOK, NEW p \in Peer, PeerStep(p) PROVE TypeOK'
  <1>1. CASE ConnectedRefused(p)
    BY <1>1, SpendType DEF ConnectedRefused, TypeOK, Statuses, txVars, managerVars
  <1>2. CASE MempoolDone(p)
    <2>1. timer' \in [Peer -> BOOLEAN]
      BY <1>2 DEF MempoolDone, SyncStoppedTimer, TypeOK
    <2> QED BY <1>2, <2>1 DEF MempoolDone, TypeOK, txVars, appVars
  <1>3. ASSUME NEW level \in BOOLEAN, ConnectedKept(p, level) PROVE TypeOK'
    <2>1. timer \in [Peer -> BOOLEAN] BY DEF TypeOK
    <2>2. /\ timer' \in [Peer -> BOOLEAN]
          /\ known' \in [Peer -> SUBSET Tx] /\ offered' \in [Peer -> SUBSET Tx]
      <3>1. CASE level BY <1>3, <3>1, <2>1, PublishPendingType DEF ConnectedKept
      <3>2. CASE ~level BY <1>3, <3>2 DEF ConnectedKept, TypeOK
      <3> QED BY <3>1, <3>2
    <2>3. status' \in [Peer -> Statuses] /\ mempool' \subseteq Peer
      BY <1>3 DEF ConnectedKept, TypeOK, Statuses
    <2>4. failures' \in 0 .. MaxFailures + 1
      BY <1>3, PublishAssumption DEF ConnectedKept, TypeOK
    <2> QED BY <1>3, <2>2, <2>3, <2>4 DEF ConnectedKept, TypeOK, txVars, appVars
  <1>4. ASSUME NEW d \in Peer, NEW catchUp \in BOOLEAN, ConnectedChosen(p, d, catchUp) PROVE TypeOK'
    <2> DEFINE joined == [status EXCEPT ![p] = "connected"]
               others == IF catchUp THEN {} ELSE Up(joined)
               tm == IF catchUp THEN [timer EXCEPT ![d] = TRUE] ELSE timer
    <2>1. others \subseteq Peer BY DEF Up
    <2>2. tm \in [Peer -> BOOLEAN] BY DEF TypeOK
    <2>3. /\ timer' \in [Peer -> BOOLEAN]
          /\ known' \in [Peer -> SUBSET Tx] /\ offered' \in [Peer -> SUBSET Tx]
      <3>1. PublishPendingTx({d} \cup others, list, joined, tm) BY <1>4 DEF ConnectedChosen
      <3>2. {d} \cup others \in SUBSET Peer BY <2>1
      <3> HIDE DEF joined, others, tm
      <3> QED BY <2>2, <3>1, <3>2, PublishPendingType
    <2>4. status' \in [Peer -> Statuses]
      <3>1. [status EXCEPT ![p] = "connected"] \in [Peer -> Statuses] BY DEF TypeOK, Statuses
      <3> QED BY <1>4, <3>1, ClosedType DEF ConnectedChosen
    <2>5. budget' \in 0 .. MaxTroubles BY <1>4, SpendType DEF ConnectedChosen, TypeOK
    <2>6. failures' \in 0 .. MaxFailures + 1
      BY <1>4, PublishAssumption DEF ConnectedChosen, TypeOK
    <2>8. mempool' \subseteq Peer
      <3>1. mempool' = mempool \cup others BY <1>4 DEF ConnectedChosen
      <3> HIDE DEF others
      <3> QED BY <2>1, <3>1 DEF TypeOK
    <2>7. behind' \in BOOLEAN /\ downloadPeer' \in Peer BY <1>4 DEF ConnectedChosen
    <2> QED BY <1>4, <2>3, <2>4, <2>5, <2>6, <2>7, <2>8 DEF ConnectedChosen, TypeOK, txVars
  <1>5. CASE Ended(p)
    <2>1. budget' \in 0 .. MaxTroubles BY <1>5 DEF Ended, TypeOK
    <2> QED BY <1>5, <2>1, DisconnectedType DEF Ended
  <1>6. CASE TimedOut(p)
    <2>1. budget' \in 0 .. MaxTroubles BY <1>6, SpendType DEF TimedOut, TypeOK
    <2> QED BY <1>6, <2>1, DisconnectedType DEF TimedOut
  <1>7. CASE Failed(p)
    <2>1. budget' \in 0 .. MaxTroubles BY <1>7, SpendType DEF Failed
    <2> QED BY <1>7, <2>1, DisconnectedType DEF Failed
  <1>8. ASSUME NEW ps \in SUBSET Peer, ThreadConnect(p, ps) PROVE TypeOK'
    BY <1>8, ConnectType DEF ThreadConnect, TypeOK
  <1> QED BY <1>1, <1>2, <1>3, <1>4, <1>5, <1>6, <1>7, <1>8 DEF PeerStep

LEMMA AppStepType ==
    ASSUME TypeOK, AppStep PROVE TypeOK'
  <1>1. ASSUME NEW ps \in SUBSET Peer, AppConnect(ps) \/ RescanConnect(ps) PROVE TypeOK'
    BY <1>1, ConnectType DEF AppConnect, RescanConnect, TypeOK
  <1>2. CASE Rescan
    <2>1. status' \in [Peer -> Statuses] BY <1>2, ClosedType DEF Rescan, TypeOK
    <2> QED BY <1>2, <2>1, SpendType DEF Rescan, TypeOK, txVars
  <1>3. CASE Disconnect
    <2>1. status' \in [Peer -> Statuses] BY <1>3, ClosedType DEF Disconnect, TypeOK
    <2>2. failures' \in 0 .. MaxFailures + 1
      BY <1>3, PublishAssumption DEF Disconnect, TypeOK
    <2> QED BY <1>3, <2>1, <2>2, SpendType DEF Disconnect, TypeOK, txVars
  <1>4. CASE DisconnectReturns
    BY <1>4 DEF DisconnectReturns, TypeOK, txVars, peerVars, managerVars
  <1>5. CASE SetReachable
    BY <1>5, SpendType DEF SetReachable, TypeOK, txVars, peerVars, managerVars
  <1> QED BY <1>1, <1>2, <1>3, <1>4, <1>5 DEF AppStep

LEMMA BlockStepType ==
    ASSUME TypeOK, RelayedBlock \/ \E reload \in BOOLEAN : LastBlock(reload) PROVE TypeOK'
  <1>1. CASE RelayedBlock
    BY <1>1, PublishAssumption DEF RelayedBlock, TypeOK, txVars, appVars
  <1>2. ASSUME NEW reload \in BOOLEAN, LastBlock(reload) PROVE TypeOK'
    <2>1. Listed(list) \subseteq Tx /\ Up(status) \subseteq Peer BY DEF Listed, Up
    <2>2. timer' \in [Peer -> BOOLEAN] BY <1>2 DEF LastBlock
    <2>3. known' \in [Peer -> SUBSET Tx] /\ mempool' \subseteq Peer
      BY <1>2, <2>1 DEF LastBlock, TypeOK
    <2>4. offered' \in [Peer -> SUBSET Tx] BY <1>2, <2>1 DEF LastBlock, TypeOK
    <2> QED BY <1>2, <2>2, <2>3, <2>4 DEF LastBlock, TypeOK, txVars, appVars
  <1> QED BY <1>1, <1>2

\* The variables keep their types, for any number of transactions, peers and
\* faults; in particular connectFailureCount stays within one of its limit.
THEOREM TypeCorrect == Spec => []TypeOK
  <1>1. TypeOK /\ [Next]_vars => TypeOK'
    <2> SUFFICES ASSUME TypeOK, [Next]_vars PROVE TypeOK'
      OBVIOUS
    <2>1. CASE Next
      BY <2>1, TxStepType, AppStepType, PeerStepType, BlockStepType DEF Next
    <2>2. CASE UNCHANGED vars
      BY <2>2 DEF vars, txVars, peerVars, managerVars, appVars, TypeOK
    <2> QED BY <2>1, <2>2
  <1> QED BY InitType, <1>1, PTL DEF Spec

-----------------------------------------------------------------------------
(* One answer, and the refinement *)

\* What a step that touches no transaction leaves alone.
Quiet == UNCHANGED <<list, user, calls, told, sending, net, registered, confirmed, invalid>>

LEMMA QuietKeeps ==
    ASSUME Quiet
    PROVE  /\ OneAnswer => OneAnswer'
           /\ UNCHANGED B!bvars
  <1>1. OneAnswer => OneAnswer' BY DEF Quiet, OneAnswer, AnswerOf, Accepted, UnderWay
  <1>2. UNCHANGED B!bvars BY DEF Quiet, B!bvars, Fate, Accepted
  <1> QED BY <1>1, <1>2

\* A transaction that is added waits; its unconfirmed parents were accepted before.
LEMMA AddKeeps ==
    ASSUME TypeOK, OneAnswer, NEW t \in Tx, user[t] # "submitted", Add(t),
           UNCHANGED <<told, sending, net, registered, confirmed, invalid>>
    PROVE  OneAnswer' /\ [B!Next]_B!bvars
  <1>1. \A u \in Tx : list'[u] = IF list[u] # "out" THEN list[u]
                                 ELSE IF u = t THEN "waiting"
                                 ELSE IF u \in (Parents[t] \cap registered) \ confirmed
                                      THEN "silent" ELSE "out"
    BY DEF Add, AddToPublishList
  <1>2. /\ list[t] = "out" /\ ~Accepted(t) /\ ~UnderWay(t)
        /\ t \notin registered \cup net \cup confirmed
    BY DEF TypeOK, OneAnswer, AnswerOf
  <1>3. user' = [user EXCEPT ![t] = "submitted"] /\ calls' = calls BY DEF Add
  <1>9. \A u \in Tx : (Accepted(u)' <=> Accepted(u)) /\ (UnderWay(u)' <=> UnderWay(u))
    BY <1>3 DEF Accepted, UnderWay
  <1>4. OneAnswer'
    BY <1>1, <1>2, <1>3, <1>9 DEF OneAnswer, AnswerOf, TypeOK
  <1>5. Fate' = [Fate EXCEPT ![t] = "asked"]
    BY <1>1, <1>2, <1>3, <1>9 DEF Fate, TypeOK
  <1>6. Fate[t] \in {"idle", "asked"} BY DEF Fate, TypeOK
  <1>7. CASE Fate[t] = "idle"
    <2>1. B!Submit(t) BY <1>5, <1>7 DEF B!Submit
    <2> QED BY <1>4, <2>1 DEF B!Next
  <1>8. CASE Fate[t] = "asked"
    <2>1. Fate' = Fate BY <1>5, <1>8 DEF Fate
    <2>2. UNCHANGED B!bvars BY <2>1 DEF B!bvars
    <2> QED BY <1>4, <2>2
  <1> QED BY <1>4, <1>6, <1>7, <1>8

\* Callbacks with an error are added for transactions that have none.
LEMMA ErrorsAdded ==
    ASSUME NEW S, S \subseteq Tx, calls' = calls \cup {<<t, FALSE>> : t \in S}
    PROVE  \A t \in Tx : /\ <<t, TRUE>> \in calls' <=> <<t, TRUE>> \in calls
                         /\ <<t, FALSE>> \in calls' <=> <<t, FALSE>> \in calls \/ t \in S
  OBVIOUS

\* A transaction that is refused was asked for by nobody.
LEMMA RefuseKeeps ==
    ASSUME TypeOK, OneAnswer, NEW t \in Tx, user[t] # "submitted", Refuse(t),
           UNCHANGED <<told, sending, net, registered, confirmed, invalid>>
    PROVE  OneAnswer' /\ [B!Next]_B!bvars
  <1>1. list[t] = "out" /\ ~Accepted(t) /\ told[t] = <<>> BY DEF TypeOK, OneAnswer, AnswerOf
  <1>2. user' = [user EXCEPT ![t] = "submitted"] /\ list' = list BY DEF Refuse
  <1>3. \A u \in Tx : /\ <<u, TRUE>> \in calls' <=> <<u, TRUE>> \in calls
                      /\ <<u, FALSE>> \in calls' <=> <<u, FALSE>> \in calls \/ u = t
    BY DEF Refuse
  <1>4. \A u \in Tx : (Accepted(u)' <=> Accepted(u)) /\ (UnderWay(u)' <=> UnderWay(u))
    BY <1>3 DEF Accepted, UnderWay
  <1>5. OneAnswer'
    BY <1>1, <1>2, <1>3, <1>4 DEF OneAnswer, AnswerOf, TypeOK
  <1>6. Fate' = [u \in Tx |-> IF u \in {t} THEN "failed" ELSE Fate[u]]
    BY <1>1, <1>2, <1>4 DEF Fate, TypeOK
  <1>7. Fate[t] \in {"idle", "asked"} BY DEF Fate, TypeOK
  <1>8. B!Fail({t}) BY <1>6, <1>7 DEF B!Fail
  <1> QED BY <1>5, <1>8 DEF B!Next

LEMMA AnswerKeeps ==
    ASSUME TypeOK, OneAnswer, NEW t \in Tx, NEW ok \in BOOLEAN, Answer(t, ok)
    PROVE  OneAnswer' /\ [B!Next]_B!bvars
  <1>1. told[t] = <<>> /\ user[t] = "submitted" /\ list[t] # "waiting"
    BY DEF Answer, OneAnswer, AnswerOf, TypeOK
  <1>2. UNCHANGED <<list, user, sending, net, registered, confirmed, invalid>> BY DEF Answer
  <1>3. told' = [told EXCEPT ![t] = Append(<<>>, ok)] BY <1>1, Zenon DEF Answer
  <1>4. Append(<<>>, TRUE) = <<TRUE>> /\ Append(<<>>, FALSE) = <<FALSE>> OBVIOUS
  <1>5. <<TRUE>> # <<FALSE>> /\ <<TRUE>> # <<>> /\ <<FALSE>> # <<>> OBVIOUS
  <1>6. ok = TRUE \/ ok = FALSE OBVIOUS
  <1>7. told'[t] = IF Accepted(t) THEN <<TRUE>> ELSE <<FALSE>>
    <2>1. CASE ok = TRUE
      <3>1. <<t, TRUE>> \in calls BY <2>1 DEF Answer
      <3>2. Accepted(t) BY <3>1 DEF Accepted
      <3>3. told'[t] = <<TRUE>> BY <1>3, <1>4, <2>1 DEF TypeOK
      <3> QED BY <3>2, <3>3
    <2>2. CASE ok = FALSE
      <3>1. <<t, FALSE>> \in calls BY <2>2 DEF Answer
      <3>2. ~Accepted(t) BY <1>1, <1>5, <3>1 DEF Accepted, OneAnswer, AnswerOf
      <3>3. told'[t] = <<FALSE>> BY <1>3, <1>4, <2>2 DEF TypeOK
      <3> QED BY <3>2, <3>3
    <2> QED BY <1>6, <2>1, <2>2
  <1>8. \A u \in Tx \ {t} : told'[u] = told[u] BY <1>3 DEF TypeOK
  <1>9. <<t, TRUE>> \notin calls' /\ <<t, FALSE>> \notin calls'
    <2>1. CASE ok = TRUE BY <2>1 DEF Answer, OneAnswer, AnswerOf
    <2>2. CASE ok = FALSE BY <2>2 DEF Answer, OneAnswer, AnswerOf
    <2> QED BY <1>6, <2>1, <2>2
  <1>10. \A u \in Tx \ {t}, b \in BOOLEAN : <<u, b>> \in calls' <=> <<u, b>> \in calls
    BY DEF Answer
  <1>11. \A u \in Tx : (Accepted(u)' <=> Accepted(u)) /\ (UnderWay(u)' <=> UnderWay(u))
    <2>1. ASSUME NEW u \in Tx PROVE UnderWay(u)' <=> UnderWay(u)
      BY <1>2 DEF UnderWay
    <2>2. Accepted(t)' <=> Accepted(t) BY <1>5, <1>7, <1>9 DEF Accepted
    <2>3. ASSUME NEW u \in Tx \ {t} PROVE Accepted(u)' <=> Accepted(u)
      BY <1>8, <1>10 DEF Accepted
    <2> QED BY <2>1, <2>2, <2>3
  <1>12. OneAnswer'
    BY <1>1, <1>2, <1>7, <1>8, <1>9, <1>10, <1>11 DEF OneAnswer, AnswerOf, TypeOK
  <1>13. Fate[t] = IF Accepted(t) THEN "accepted" ELSE "failed" BY <1>1 DEF Fate
  <1>14. Fate' = Fate BY <1>2, <1>11 DEF Fate
  <1>15. told' = [told EXCEPT ![t] = IF Fate[t] = "accepted" THEN <<TRUE>> ELSE <<FALSE>>]
    <2>1. told' = [told EXCEPT ![t] = told'[t]] BY <1>3 DEF TypeOK
    <2> QED BY <1>7, <1>13, <2>1
  <1>16. B!Answer(t) BY <1>1, <1>2, <1>13, <1>14, <1>15 DEF B!Answer
  <1> QED BY <1>12, <1>16 DEF B!Next

\* The callback of a waiting transaction is taken: it is accepted, or fails.
LEMMA CallbackTaken ==
    ASSUME OneAnswer, NEW t \in Tx, NEW ok \in BOOLEAN, calls' = TakeCallback(t, ok),
           UNCHANGED told, list[t] = "waiting"
    PROVE  /\ \A u \in Tx, b \in BOOLEAN :
                <<u, b>> \in calls' <=> <<u, b>> \in calls \/ (u = t /\ b = ok)
           /\ \A u \in Tx \ {t} : Accepted(u)' <=> Accepted(u)
           /\ Accepted(t)' <=> ok = TRUE
           /\ ~Accepted(t)
  <1>1. \A u \in Tx, b \in BOOLEAN :
            <<u, b>> \in calls' <=> <<u, b>> \in calls \/ (u = t /\ b = ok)
    BY DEF TakeCallback
  <1>2. told[t] = <<>> /\ <<t, TRUE>> \notin calls BY DEF OneAnswer, AnswerOf
  <1>3. <<>> # <<TRUE>> OBVIOUS
  <1>4. ~Accepted(t) BY <1>2, <1>3 DEF Accepted
  <1>5. \A u \in Tx \ {t} : Accepted(u)' <=> Accepted(u) BY <1>1 DEF Accepted
  <1>6. Accepted(t)' <=> ok = TRUE BY <1>1, <1>2, <1>3 DEF Accepted
  <1> QED BY <1>1, <1>4, <1>5, <1>6

\* Whatever takes the callback with success leaves the transaction in the list.
LEMMA AcceptKeeps ==
    ASSUME TypeOK, OneAnswer, NEW t \in Tx, list[t] = "waiting", calls' = TakeCallback(t, TRUE),
           list' = [list EXCEPT ![t] = "silent"], registered' \subseteq registered \cup {t},
           \A u \in Tx : UnderWay(u)' => UnderWay(u) \/ u = t,
           UNCHANGED <<user, told, net, confirmed, invalid>>
    PROVE  OneAnswer' /\ [B!Next]_B!bvars
  <1>1. /\ \A u \in Tx, b \in BOOLEAN :
             <<u, b>> \in calls' <=> <<u, b>> \in calls \/ (u = t /\ b = TRUE)
        /\ \A u \in Tx \ {t} : Accepted(u)' <=> Accepted(u)
        /\ Accepted(t)' /\ ~Accepted(t)
    BY CallbackTaken
  <1>2. user[t] = "submitted" /\ told[t] = <<>> /\ <<t, FALSE>> \notin calls
    BY DEF OneAnswer, AnswerOf
  <1>3. OneAnswer' BY <1>1, <1>2 DEF OneAnswer, AnswerOf, TypeOK
  <1>4. Fate[t] = "asked" BY <1>2 DEF Fate
  <1>5. Fate' = [Fate EXCEPT ![t] = "accepted"] BY <1>1, <1>2 DEF Fate, TypeOK
  <1>6. B!Accept(t) BY <1>4, <1>5 DEF B!Accept
  <1> QED BY <1>3, <1>6 DEF B!Next

\* What happens to a transaction whose callback is gone: it may be asked for,
\* relayed, registered or confirmed, and no answer changes.
LEMMA AcceptedKeeps ==
    ASSUME TypeOK, OneAnswer, UNCHANGED <<user, calls, told, net>>,
           list' \in [Tx -> {"out", "silent", "waiting"}],
           \A u \in Tx : list'[u] = "waiting" <=> list[u] = "waiting",
           \A u \in Tx : u \in registered' \cup confirmed' \/ list'[u] = "silent" \/ UnderWay(u)'
                             => Accepted(u),
           \A u \in Tx : u \in net \cup invalid \/ list[u] = "silent" =>
                             u \in net \cup invalid' \/ list'[u] = "silent"
    PROVE  OneAnswer' /\ UNCHANGED B!bvars
  <1>1. \A u \in Tx : Accepted(u)' <=> Accepted(u) BY DEF Accepted
  <1>2. OneAnswer' BY <1>1 DEF OneAnswer, AnswerOf
  <1>3. Fate' = Fate BY <1>1 DEF Fate
  <1> QED BY <1>2, <1>3 DEF B!bvars

\* A peer asks for a transaction: a waiting one is accepted, or it is invalid,
\* and then it leaves the list.
LEMMA RequestedTxKeeps ==
    ASSUME TypeOK, OneAnswer, NEW p \in Peer, NEW t \in Tx, RequestedTx(p, t)
    PROVE  OneAnswer' /\ [B!Next]_B!bvars
  <1>0. UNCHANGED <<user, told, net, confirmed, invalid>> BY DEF RequestedTx
  <1>1. CASE list[t] = "waiting" /\ t \notin invalid
    <2>1. list' = [list EXCEPT ![t] = "silent"] /\ registered' = registered \cup {t}
      BY <1>1 DEF RequestedTx
    <2>2. calls' = TakeCallback(t, TRUE) BY <1>1, Zenon DEF RequestedTx
    <2>3. \A u \in Tx : UnderWay(u)' => UnderWay(u) \/ u = t BY DEF RequestedTx, UnderWay
    <2> QED BY <1>0, <1>1, <2>1, <2>2, <2>3, AcceptKeeps
  <1>2. CASE list[t] = "waiting" /\ t \in invalid
    <2>1. /\ t \notin registered \cup net \cup confirmed /\ ~UnderWay(t)
          /\ user[t] = "submitted" /\ told[t] = <<>> /\ <<t, TRUE>> \notin calls
      <3>1. ~Accepted(t)
        <4>1. told[t] = <<>> /\ <<t, TRUE>> \notin calls BY <1>2 DEF OneAnswer, AnswerOf
        <4>2. <<>> # <<TRUE>> OBVIOUS
        <4> QED BY <4>1, <4>2 DEF Accepted
      <3> QED BY <1>2, <3>1 DEF OneAnswer, AnswerOf
    <2>2. list' = [list EXCEPT ![t] = "out"] /\ sending' = sending /\ registered' = registered
      BY <1>2, <2>1 DEF RequestedTx
    <2>3. calls' = TakeCallback(t, FALSE) BY <1>2, Zenon DEF RequestedTx
    <2>4. /\ \A u \in Tx, b \in BOOLEAN :
               <<u, b>> \in calls' <=> <<u, b>> \in calls \/ (u = t /\ b = FALSE)
          /\ \A u \in Tx \ {t} : Accepted(u)' <=> Accepted(u)
          /\ ~Accepted(t)' /\ ~Accepted(t)
      BY <1>0, <1>2, <2>3, CallbackTaken
    <2>5. \A u \in Tx : UnderWay(u)' <=> UnderWay(u) BY <2>2 DEF UnderWay
    <2>6. OneAnswer'
      <3>1. list'[t] = "out" /\ \A u \in Tx \ {t} : list'[u] = list[u]
        BY <2>2 DEF TypeOK
      <3>2. ASSUME NEW u \in Tx \ {t} PROVE AnswerOf(u)'
        BY <1>0, <2>2, <2>4, <2>5, <3>1 DEF OneAnswer, AnswerOf
      <3>3. AnswerOf(t)'
        BY <1>0, <2>1, <2>2, <2>4, <2>5, <3>1 DEF OneAnswer, AnswerOf
      <3> QED BY <3>2, <3>3 DEF OneAnswer
    <2>7. Fate[t] = "asked" BY <1>2, <2>1 DEF Fate
    <2>8. Fate' = [u \in Tx |-> IF u \in {t} THEN "failed" ELSE Fate[u]]
      BY <1>0, <2>1, <2>2, <2>4 DEF Fate, TypeOK
    <2>9. B!Fail({t}) BY <1>0, <2>7, <2>8 DEF B!Fail
    <2> QED BY <2>6, <2>9 DEF B!Next
  <1>3. CASE list[t] # "waiting"
    <2>1. calls' = calls BY <1>3 DEF RequestedTx, TakeCallback
    <2>2. list[t] = "silent" => Accepted(t) BY DEF OneAnswer, AnswerOf
    <2>3. \A u \in Tx : u \in registered' => Accepted(u)
      BY <1>3, <2>2 DEF RequestedTx, TypeOK, OneAnswer, AnswerOf
    <2>4. /\ \A u \in Tx \ {t} : list'[u] = list[u]
          /\ list'[t] = IF list[t] = "silent" /\ t \notin invalid THEN "silent" ELSE "out"
          /\ list' \in [Tx -> {"out", "silent", "waiting"}]
      BY <1>3 DEF RequestedTx, TypeOK
    <2>5. \A u \in Tx : UnderWay(u)' => Accepted(u)
      <3>1. \A u \in Tx : UnderWay(u) => Accepted(u) BY DEF OneAnswer, AnswerOf
      <3>2. sending' # sending => list[t] = "silent" BY <1>3 DEF RequestedTx, TypeOK
      <3>3. \A u \in Tx : UnderWay(u)' => UnderWay(u) \/ (u = t /\ sending' # sending)
        BY DEF RequestedTx, UnderWay
      <3> QED BY <2>2, <3>1, <3>2, <3>3
    <2>6. \A u \in Tx : u \in confirmed' \/ list'[u] = "silent" => Accepted(u)
      BY <1>0, <2>2, <2>4 DEF OneAnswer, AnswerOf
    <2>7. OneAnswer' /\ UNCHANGED B!bvars
      BY <1>0, <1>3, <2>1, <2>3, <2>4, <2>5, <2>6, AcceptedKeeps
    <2> QED BY <2>7
  <1> QED BY <1>1, <1>2, <1>3

\* A transaction that is sent was accepted.
LEMMA SendTxKeeps ==
    ASSUME TypeOK, OneAnswer, NEW p \in Peer, NEW t \in Tx, NEW first \in BOOLEAN,
           SendTx(p, t, first)
    PROVE  OneAnswer' /\ [B!Next]_B!bvars
  <1>1. Accepted(t)
    <2>1. UnderWay(t) BY DEF SendTx, UnderWay
    <2> QED BY <2>1 DEF OneAnswer, AnswerOf
  <1>2. UNCHANGED <<list, user, calls, told, registered, confirmed, invalid>> BY DEF SendTx
  <1>3. net' = net \/ net' = net \cup {t} BY DEF SendTx
  <1>4. \A u \in Tx : UnderWay(u)' => UnderWay(u) BY DEF SendTx, UnderWay
  <1>5. \A u \in Tx : Accepted(u)' <=> Accepted(u) BY <1>2 DEF Accepted
  <1>6. OneAnswer' BY <1>1, <1>2, <1>3, <1>4, <1>5 DEF OneAnswer, AnswerOf
  <1>7. Fate' = Fate BY <1>2, <1>5 DEF Fate
  <1>8. Fate[t] = "accepted"
    <2>1. list[t] # "waiting"
      <3>1. <<>> # <<TRUE>> OBVIOUS
      <3> QED BY <1>1, <3>1 DEF OneAnswer, AnswerOf, Accepted
    <2> QED BY <1>1, <2>1 DEF Fate, OneAnswer, AnswerOf
  <1>9. CASE net' = net
    BY <1>2, <1>6, <1>7, <1>9 DEF B!bvars
  <1>10. CASE net' = net \cup {t}
    <2>1. B!Send(t) BY <1>2, <1>7, <1>8, <1>10 DEF B!Send
    <2> QED BY <1>6, <2>1 DEF B!Next
  <1> QED BY <1>3, <1>9, <1>10

\* A peer says that it has a transaction: a waiting one is accepted.
LEMMA HasTxKeeps ==
    ASSUME TypeOK, OneAnswer, NEW p \in Peer, NEW t \in Tx, HasTx(p, t)
    PROVE  OneAnswer' /\ [B!Next]_B!bvars
  <1>1. UNCHANGED <<user, told, sending, net, confirmed, invalid>> BY DEF HasTx
  <1>2. \A u \in Tx : UnderWay(u)' <=> UnderWay(u) BY <1>1 DEF UnderWay
  <1>3. CASE list[t] = "waiting"
    <2>1. list' = [list EXCEPT ![t] = "silent"] /\ registered' \subseteq registered \cup {t}
      BY <1>3 DEF HasTx, TypeOK
    <2>2. calls' = TakeCallback(t, TRUE) BY Zenon DEF HasTx
    <2> QED BY <1>1, <1>2, <1>3, <2>1, <2>2, AcceptKeeps
  <1>4. CASE list[t] # "waiting"
    <2>1. calls' = calls BY <1>4 DEF HasTx, TakeCallback
    <2>2. list' = list BY <1>4 DEF HasTx, TypeOK
    <2>3. \A u \in Tx : u \in registered' => Accepted(u)
      BY <1>4 DEF HasTx, TypeOK, OneAnswer, AnswerOf
    <2>4. \A u \in Tx : u \in confirmed' \/ list'[u] = "silent" \/ UnderWay(u)' => Accepted(u)
      BY <1>1, <1>2, <2>2 DEF OneAnswer, AnswerOf
    <2>5. list' \in [Tx -> {"out", "silent", "waiting"}] BY <2>2 DEF TypeOK
    <2>6. OneAnswer' /\ UNCHANGED B!bvars
      BY <1>1, <2>1, <2>2, <2>3, <2>4, <2>5, AcceptedKeeps
    <2> QED BY <2>6
  <1> QED BY <1>3, <1>4

\* A transaction that a peer relays was sent: its callback is gone.
LEMMA RelayedTxKeeps ==
    ASSUME TypeOK, OneAnswer, NEW p \in Peer, NEW t \in Tx, RelayedTx(p, t)
    PROVE  OneAnswer' /\ [B!Next]_B!bvars
  <1>1. UNCHANGED <<user, told, sending, net, confirmed, invalid>> BY DEF RelayedTx
  <1>2. Accepted(t) BY DEF RelayedTx, OneAnswer, AnswerOf
  <1>3. list[t] # "waiting"
    <2>1. <<>> # <<TRUE>> OBVIOUS
    <2> QED BY <1>2, <2>1 DEF OneAnswer, AnswerOf, Accepted
  <1>4. calls' = calls BY <1>3 DEF RelayedTx, TakeCallback
  <1>5. [list EXCEPT ![t] = IF @ = "waiting" THEN "silent" ELSE @] = list BY <1>3 DEF TypeOK
  <1>6. list' = list \/ list' = AddToPublishList(list, t, "silent")
    BY <1>5, Zenon DEF RelayedTx
  <1>7. \A u \in Tx : list'[u] = list[u] \/ (list'[u] = "silent" /\ Accepted(u) /\ list[u] = "out")
    <2>1. \A u \in Tx : u \in registered => Accepted(u) BY DEF OneAnswer, AnswerOf
    <2>2. CASE list' = list BY <2>2
    <2>3. CASE list' = AddToPublishList(list, t, "silent")
      <3>1. \A u \in Tx : list'[u] = IF list[u] # "out" THEN list[u]
                                     ELSE IF u = t \/ u \in (Parents[t] \cap registered) \ confirmed
                                          THEN "silent" ELSE "out"
        BY <2>3 DEF AddToPublishList
      <3> QED BY <1>2, <2>1, <3>1
    <2> QED BY <1>6, <2>2, <2>3
  <1>8. list' \in [Tx -> {"out", "silent", "waiting"}]
    <2>1. list \in [Tx -> {"out", "silent", "waiting"}] BY DEF TypeOK
    <2>2. AddToPublishList(list, t, "silent") \in [Tx -> {"out", "silent", "waiting"}]
      BY <2>1, AddToPublishListType
    <2> QED BY <1>6, <2>1, <2>2
  <1>9. \A u \in Tx : u \in registered' => Accepted(u)
    BY <1>2 DEF RelayedTx, OneAnswer, AnswerOf
  <1>10. \A u \in Tx : u \in confirmed' \/ list'[u] = "silent" \/ UnderWay(u)' => Accepted(u)
    BY <1>1, <1>7 DEF OneAnswer, AnswerOf, UnderWay
  <1>11. OneAnswer' /\ UNCHANGED B!bvars
    BY <1>1, <1>4, <1>7, <1>8, <1>9, <1>10, AcceptedKeeps
  <1> QED BY <1>11

\* What blocks and other transactions do: one that was sent is confirmed, one
\* that nobody has is forgotten, one that is spent twice is invalid.
LEMMA LedgerKeeps ==
    ASSUME TypeOK, OneAnswer, NEW t \in Tx, Confirm(t) \/ DropUnrelayed(t) \/ Conflict(t)
    PROVE  OneAnswer' /\ [B!Next]_B!bvars
  <1>1. UNCHANGED <<user, told, sending, net, calls>> BY DEF Confirm, DropUnrelayed, Conflict
  <1>2. list' = list \/ (list' = [list EXCEPT ![t] = "out"] /\ t \in net)
    BY DEF Confirm, DropUnrelayed, Conflict
  <1>3. t \in net => list[t] # "waiting"
    <2>1. t \in net => Accepted(t) BY DEF OneAnswer, AnswerOf
    <2>2. <<>> # <<TRUE>> OBVIOUS
    <2> QED BY <2>1, <2>2 DEF OneAnswer, AnswerOf, Accepted
  <1>4. \A u \in Tx : list'[u] = list[u] \/ (list'[u] = "out" /\ u \in net /\ list[u] # "waiting")
    BY <1>2, <1>3 DEF TypeOK
  <1>5. list' \in [Tx -> {"out", "silent", "waiting"}] BY <1>2 DEF TypeOK
  <1>6. \A u \in Tx : u \in registered' \cup confirmed' => u \in registered \cup confirmed \cup net
    BY DEF Confirm, DropUnrelayed, Conflict
  <1>7. \A u \in Tx : u \in invalid => u \in invalid' \/ u \in net
    BY DEF Confirm, DropUnrelayed, Conflict
  <1>8. \A u \in Tx : u \in registered' \cup confirmed' \/ list'[u] = "silent" \/ UnderWay(u)'
                          => Accepted(u)
    BY <1>1, <1>4, <1>6 DEF OneAnswer, AnswerOf, UnderWay
  <1>9. OneAnswer' /\ UNCHANGED B!bvars
    BY <1>1, <1>4, <1>5, <1>7, <1>8, AcceptedKeeps
  <1> QED BY <1>9

\* A peer that is lost cancels every transaction that waits, or none.
LEMMA DisconnectedKeeps ==
    ASSUME TypeOK, OneAnswer, NEW p \in Peer, NEW error, NEW early \in BOOLEAN,
           Disconnected(p, error, early)
    PROVE  OneAnswer' /\ [B!Next]_B!bvars
  <1>1. PICK S : /\ S \subseteq Waiting(list)
                 /\ list' = [t \in Tx |-> IF t \in S THEN "out" ELSE list[t]]
                 /\ calls' = calls \cup {<<t, FALSE>> : t \in S}
    BY DEF Disconnected, CancelTx
  <1>2. UNCHANGED <<user, told, sending, net, registered, confirmed, invalid>> BY DEF Disconnected
  <1>3. S \subseteq Tx /\ \A t \in S : /\ list[t] = "waiting" /\ user[t] = "submitted"
                                       /\ told[t] = <<>> /\ <<t, TRUE>> \notin calls
    BY <1>1 DEF Waiting, OneAnswer, AnswerOf
  <1>4. \A t \in Tx : /\ <<t, TRUE>> \in calls' <=> <<t, TRUE>> \in calls
                      /\ <<t, FALSE>> \in calls' <=> <<t, FALSE>> \in calls \/ t \in S
    BY <1>1, <1>3, ErrorsAdded
  <1>5. \A t \in Tx : (Accepted(t)' <=> Accepted(t)) /\ (UnderWay(t)' <=> UnderWay(t))
    BY <1>2, <1>4 DEF Accepted, UnderWay
  <1>6. \A t \in S : ~Accepted(t)
    <2>1. <<>> # <<TRUE>> OBVIOUS
    <2> QED BY <1>3, <2>1 DEF Accepted
  <1>7. OneAnswer'
    BY <1>1, <1>2, <1>3, <1>4, <1>5, <1>6 DEF OneAnswer, AnswerOf, TypeOK
  <1>8. Fate' = [t \in Tx |-> IF t \in S THEN "failed" ELSE Fate[t]]
    BY <1>1, <1>2, <1>3, <1>5, <1>6 DEF Fate
  <1>9. \A t \in S : Fate[t] = "asked" BY <1>3 DEF Fate
  <1>10. B!Fail(S) BY <1>2, <1>3, <1>8, <1>9 DEF B!Fail
  <1> QED BY <1>3, <1>7, <1>10 DEF B!Next

LEMMA InitKeeps == Init => OneAnswer /\ B!Init
  <1> SUFFICES ASSUME Init PROVE OneAnswer /\ B!Init
    OBVIOUS
  <1>1. <<>> # <<TRUE>> OBVIOUS
  <1>2. OneAnswer BY <1>1 DEF Init, OneAnswer, AnswerOf, Accepted, UnderWay
  <1>3. B!Init BY DEF Init, B!Init, Fate
  <1> QED BY <1>2, <1>3

LEMMA NextKeeps ==
    ASSUME TypeOK, OneAnswer, [Next]_vars
    PROVE  OneAnswer' /\ [B!Next]_B!bvars
  <1>1. ASSUME NEW t \in Tx, PublishTx(t) PROVE OneAnswer' /\ [B!Next]_B!bvars
    <2>0. user[t] # "submitted" /\ UNCHANGED <<told, sending, net, registered, confirmed, invalid>>
      BY <1>1 DEF PublishTx
    <2>1. CASE Add(t) BY <2>0, <2>1, AddKeeps
    <2>2. CASE Refuse(t) BY <2>0, <2>2, RefuseKeeps
    <2>3. CASE ~Add(t) /\ ~Refuse(t)
      <3>1. user' = [user EXCEPT ![t] = "checking"] /\ UNCHANGED <<list, calls>>
        BY <1>1, <2>3 DEF PublishTx
      <3>2. user[t] = "idle" BY <1>1 DEF PublishTx
      <3>5. \A u \in Tx : (Accepted(u)' <=> Accepted(u)) /\ (UnderWay(u)' <=> UnderWay(u))
        BY <2>0, <3>1 DEF Accepted, UnderWay
      <3>3. OneAnswer' BY <2>0, <3>1, <3>2, <3>5 DEF OneAnswer, AnswerOf, TypeOK
      <3>4. Fate[t] = "idle" /\ Fate' = [Fate EXCEPT ![t] = "asked"]
        BY <2>0, <3>1, <3>2, <3>5 DEF Fate, TypeOK
      <3>6. B!Submit(t) BY <2>0, <3>4 DEF B!Submit
      <3> QED BY <3>3, <3>6 DEF B!Next
    <2> QED BY <2>1, <2>2, <2>3
  <1>2. ASSUME NEW t \in Tx, PublishCheck(t) PROVE OneAnswer' /\ [B!Next]_B!bvars
    <2>1. user[t] # "submitted" /\ UNCHANGED <<told, sending, net, registered, confirmed, invalid>>
      BY <1>2 DEF PublishCheck
    <2>2. Add(t) \/ Refuse(t) BY <1>2 DEF PublishCheck
    <2> QED BY <2>1, <2>2, AddKeeps, RefuseKeeps
  <1>3. CASE Quiet BY <1>3, QuietKeeps
  <1>5. ASSUME NEW p \in Peer, NEW t \in Tx, RejectedTx(p, t) PROVE Quiet
    BY <1>5 DEF RejectedTx, Quiet, txVars
  <1>6. CASE TxStep
    BY <1>1, <1>2, <1>3, <1>5, <1>6, AnswerKeeps, RequestedTxKeeps, SendTxKeeps, HasTxKeeps,
       RelayedTxKeeps, LedgerKeeps DEF TxStep
  <1>7. ASSUME AppStep PROVE Quiet
    BY <1>7 DEF AppStep, AppConnect, RescanConnect, Connect, Rescan, Disconnect, DisconnectReturns,
                SetReachable, Quiet, txVars
  <1>8. ASSUME NEW p \in Peer, PeerStep(p) PROVE OneAnswer' /\ [B!Next]_B!bvars
    <2>1. CASE Ended(p) \/ TimedOut(p) \/ Failed(p)
      BY <2>1, DisconnectedKeeps DEF Ended, TimedOut, Failed
    <2>2. CASE ~ (Ended(p) \/ TimedOut(p) \/ Failed(p))
      <3>1. Quiet
        BY <1>8, <2>2 DEF PeerStep, ConnectedRefused, MempoolDone, ConnectedKept, ConnectedChosen,
                          ThreadConnect, Connect, Quiet, txVars
      <3> QED BY <1>3, <3>1
    <2> QED BY <2>1, <2>2
  <1>9. ASSUME RelayedBlock \/ \E reload \in BOOLEAN : LastBlock(reload) PROVE Quiet
    BY <1>9 DEF RelayedBlock, LastBlock, Quiet, txVars
  <1>10. ASSUME UNCHANGED vars PROVE Quiet BY <1>10 DEF vars, txVars, Quiet
  <1> QED BY <1>3, <1>6, <1>7, <1>8, <1>9, <1>10 DEF Next

\* For any number of transactions, peers and faults: every call has at most one
\* answer; what the wallet registers, a thread is about to send, a node was sent
\* or a block holds was reported as a success, so that an error means none of
\* them, now or later; and a success that was not sent is still in the list, unless
\* its inputs were spent otherwise.
THEOREM AnswerOnce == Spec => []OneAnswer
  <1>1. TypeOK /\ OneAnswer /\ [Next]_vars => OneAnswer'
    BY NextKeeps
  <1> QED BY TypeCorrect, InitKeeps, <1>1, PTL DEF Spec

\* The code's publish list, timers and reconnections implement the abstract
\* broadcast: every call of BRPeerManagerPublishTx is answered at most once, and
\* a transaction is sent only if a node asked for it, or said that it has it,
\* and the call was, or is about to be, answered with success.
THEOREM Refinement == Spec => AnswersAreTrue
  <1>1. TypeOK /\ OneAnswer /\ [Next]_vars => [B!Next]_B!bvars
    BY NextKeeps
  <1> QED BY TypeCorrect, AnswerOnce, InitKeeps, <1>1, PTL DEF Spec, AnswersAreTrue, B!Safe

-----------------------------------------------------------------------------
(* The download peer *)

\* Whatever the order of disconnects, timeouts, rescans and reconnections, the
\* download peer is one of the peers that are connected.
THEOREM DownloadPeerHeld == Spec => []DownloadPeerIsHeld
  <1>1. Init => DownloadPeerIsHeld BY DEF Init, DownloadPeerIsHeld
  <1>2. TypeOK /\ DownloadPeerIsHeld /\ [Next]_vars => DownloadPeerIsHeld'
    <2> SUFFICES ASSUME TypeOK, DownloadPeerIsHeld, [Next]_vars PROVE DownloadPeerIsHeld'
      OBVIOUS
    <2> USE DEF DownloadPeerIsHeld, Up
    <2>1. CASE UNCHANGED <<downloadPeer, status>> BY <2>1
    <2>2. ASSUME NEW t \in Tx, PublishTx(t) \/ PublishCheck(t) \/ Confirm(t) \/ Conflict(t) \/ DropUnrelayed(t)
          PROVE  UNCHANGED <<downloadPeer, status>>
      BY <2>2 DEF PublishTx, PublishCheck, Confirm, Conflict, DropUnrelayed, peerVars, managerVars
    <2>3. ASSUME NEW t \in Tx, NEW ok \in BOOLEAN, Answer(t, ok)
          PROVE  UNCHANGED <<downloadPeer, status>>
      BY <2>3 DEF Answer, peerVars, managerVars
    <2>19. ASSUME NEW p \in Peer, NEW t \in Tx, NEW first \in BOOLEAN, SendTx(p, t, first)
           PROVE  DownloadPeerIsHeld'
      BY <2>19 DEF SendTx, TypeOK, managerVars
    <2>4. ASSUME NEW p \in Peer, NEW t \in Tx, RequestedTx(p, t) \/ HasTx(p, t) \/ RelayedTx(p, t)
          PROVE  UNCHANGED <<downloadPeer, status>>
      BY <2>4 DEF RequestedTx, HasTx, RelayedTx, managerVars
    <2>5. ASSUME NEW p \in Peer, NEW t \in Tx, RejectedTx(p, t) PROVE DownloadPeerIsHeld'
      BY <2>5 DEF RejectedTx, TypeOK, managerVars
    <2>6. ASSUME NEW ps \in SUBSET Peer, Connect(ps) PROVE DownloadPeerIsHeld'
      BY <2>6 DEF Connect, TypeOK, ConnectedPeers
    <2>7. CASE Rescan \/ Disconnect BY <2>7 DEF Rescan, Disconnect, Closed, TypeOK
    <2>8. CASE DisconnectReturns \/ SetReachable
      BY <2>1, <2>8 DEF DisconnectReturns, SetReachable, peerVars, managerVars
    <2>9. ASSUME NEW p \in Peer, ConnectedRefused(p) PROVE DownloadPeerIsHeld'
      BY <2>9 DEF ConnectedRefused, TypeOK, managerVars
    <2>10. ASSUME NEW p \in Peer, NEW level \in BOOLEAN, ConnectedKept(p, level)
           PROVE  DownloadPeerIsHeld'
      BY <2>10 DEF ConnectedKept, TypeOK
    <2>11. ASSUME NEW p \in Peer, NEW d \in Peer, NEW catchUp \in BOOLEAN, ConnectedChosen(p, d, catchUp)
           PROVE  DownloadPeerIsHeld'
      BY <2>11 DEF ConnectedChosen, TypeOK
    <2>12. ASSUME NEW p \in Peer, NEW error, NEW early \in BOOLEAN, Disconnected(p, error, early)
           PROVE  DownloadPeerIsHeld'
      BY <2>12 DEF Disconnected, DownloadPeerWithout, TypeOK
    <2>13. CASE RelayedBlock \/ \E reload \in BOOLEAN : LastBlock(reload)
      BY <2>1, <2>13 DEF RelayedBlock, LastBlock
    <2>14. ASSUME NEW p \in Peer, MempoolDone(p) PROVE UNCHANGED <<downloadPeer, status>>
      BY <2>14 DEF MempoolDone
    <2>15. CASE UNCHANGED vars BY <2>15 DEF vars, peerVars, managerVars
    <2>16. CASE TxStep BY <2>1, <2>2, <2>3, <2>4, <2>5, <2>16, <2>19 DEF TxStep
    <2>17. CASE AppStep BY <2>6, <2>7, <2>8, <2>17 DEF AppStep, AppConnect, RescanConnect
    <2>18. ASSUME NEW p \in Peer, PeerStep(p) PROVE DownloadPeerIsHeld'
      BY <2>1, <2>6, <2>9, <2>10, <2>11, <2>12, <2>14, <2>18
         DEF PeerStep, Ended, TimedOut, Failed, ThreadConnect
    <2> QED BY <2>13, <2>15, <2>16, <2>17, <2>18 DEF Next
  <1> QED BY TypeCorrect, <1>1, <1>2, PTL DEF Spec
=============================================================================
