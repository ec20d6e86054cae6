------------------------- MODULE ReplicatedKVStore -------------------------
(***************************************************************************)
(* BRReplicatedKVStore: the encrypted key-value store in which the app     *)
(* keeps transaction metadata and wallet info, and its replication to the  *)
(* remote store behind BRRemoteKVStoreAdaptor (BRAPIClient+KV.swift).      *)
(*                                                                         *)
(* Every row of the table kvstore is kept: rows[k] is the sequence of the  *)
(* versions 1, 2, ... of key k, so the local version of k is Len(rows[k]). *)
(* A row holds what it says of the key (a value or Deleted), its thetime   *)
(* and the remote_version recorded with it (0: none).  Each SQLite         *)
(* transaction is one step; between two transactions of a sync task every  *)
(* other actor may run: clients, the other tasks, the network, the server, *)
(* other devices of the same user, the end of the process.                 *)
(*                                                                         *)
(* The remote store is external and is modelled from how the adaptor and   *)
(* _syncKey use it: hist[k] is the sequence of the versions of k on the    *)
(* server, and the current remote version (the ETag) is Len(hist[k]).      *)
(***************************************************************************)
EXTENDS Naturals, Sequences, FiniteSets

CONSTANTS
  Keys,             \* keys of the store
  Values,           \* values clients and other devices write
  Deleted,          \* content of a row or of a remote version that is a tombstone
  Empty,            \* the empty byte string
  Corrupt,          \* remote bytes too short to decrypt (12 bytes or fewer)
  Foreign,          \* remote bytes that fail authentication when decrypted
  OtherWrites,      \* what other devices may write to the server
  Slots,            \* permits of the sync semaphore (10 in the code)
  Skew,             \* how far the server's clock is ahead of the device's
  Second,           \* clock ticks in a second
  SyncImmediately,  \* what clients set the flag syncImmediately to
  MaxTime,          \* bound on the clock
  MaxEvents         \* bound on edits, faults, restarts and wipes

ASSUME KVAssumption ==
  /\ Slots \in Nat \ {0} /\ Second \in Nat \ {0} /\ Skew \in Nat
  /\ MaxTime \in Nat /\ MaxEvents \in Nat
  /\ SyncImmediately \subseteq BOOLEAN /\ SyncImmediately # {}
  /\ Deleted \notin Values
  /\ {Corrupt, Foreign} \cap (Values \cup {Empty, Deleted}) = {}
  /\ Corrupt # Foreign
  /\ OtherWrites \subseteq Values \cup {Deleted, Corrupt, Foreign}

VARIABLES
  rows,         \* the table kvstore: key -> sequence of versions
  linked,       \* FALSE once rmdb has removed the database file
  syncRunning,  \* the flag syncRunning
  phase,        \* where the sync in progress is: see Phases
  listing,      \* the versions in the server's answer to keys()
  task,         \* key -> state of its _syncKey call
  failures,     \* the counter failures of syncAllKeys
  hist,         \* the server: key -> sequence of versions
  orphans,      \* requests still under way that nobody waits for
  now,          \* the device's clock
  events,       \* edits, faults, restarts and wipes so far
  touched       \* history: keys changed by others while this sync runs

vars == <<rows, linked, syncRunning, phase, listing, task, failures, hist,
          orphans, now, events, touched>>

Content == Values \cup {Deleted, Empty}
RemoteContent == Content \cup {Corrupt, Foreign}

\* "listing" and "listed": keys() asked and answered; "tasks": the fan-out of
\* syncAllKeys; "single": a syncKey.
Phases == {"idle", "listing", "listed", "tasks", "single"}

\* A task is queued, has read the recorded remote version, waits for the server
\* (head, put, del, get), has its answer (headed, acked, refused, gone, fetched),
\* is about to drop the key locally or to record a remote version, is over, or is
\* abandoned: it threw, and nobody called its completion handler.
Waiting == {"head", "put", "del", "get"}
Answered == {"acked", "refused", "gone", "fetched"}
Over == {"ok", "failed"}
Steps == {"idle", "queued", "headed", "read", "drop", "mark", "abandoned"}
            \cup Waiting \cup Answered \cup Over

RemoteErrors == {"nil", "tombstone", "notFound", "unknown"}

Row == [content : Content, time : Nat, remoteVer : Nat]
Version == [content : RemoteContent, time : Nat]
Task == [pc : Steps, remoteVer : Nat, remoteTime : Nat, remoteErr : RemoteErrors,
         recorded : Nat, localVer : Nat, content : RemoteContent, newVer : Nat]
Request == [op : {"put", "del"}, key : Keys, version : Nat, content : Content]

\* The type of every variable, as the table schema and the Swift declarations
\* give it.
TypeOK ==
  /\ rows \in [Keys -> Seq(Row)]
  /\ linked \in BOOLEAN
  /\ syncRunning \in BOOLEAN
  /\ phase \in Phases
  /\ listing \in [Keys -> Nat]
  /\ task \in [Keys -> Task]
  /\ failures \in Nat
  /\ hist \in [Keys -> Seq(Version)]
  /\ orphans \in SUBSET Request
  /\ now \in Nat
  /\ events \in 0..MaxEvents
  /\ touched \in SUBSET Keys

NoTask == [pc |-> "idle", remoteVer |-> 0, remoteTime |-> 0, remoteErr |-> "nil",
           recorded |-> 0, localVer |-> 0, content |-> Empty, newVer |-> 0]

Init ==
  /\ rows = [k \in Keys |-> << >>]
  /\ linked = TRUE
  /\ syncRunning = FALSE
  /\ phase = "idle"
  /\ listing = [k \in Keys |-> 0]
  /\ task = [k \in Keys |-> NoTask]
  /\ failures = 0
  /\ hist = [k \in Keys |-> << >>]
  /\ orphans = {}
  /\ now = 1
  /\ events = 0
  /\ touched = {}

----------------------------------------------------------------------------
(* The local store. *)

localVersion(k) == Len(rows[k])

\* The remote version recorded with the newest row of k, 0 if k is unknown.
remoteVersion(k) == IF rows[k] = << >> THEN 0 ELSE rows[k][Len(rows[k])].remoteVer

\* get: the newest row; a missing key reads as an empty value of time 0.
localContent(k) == IF rows[k] = << >> THEN Empty ELSE rows[k][Len(rows[k])].content
localTime(k) == IF rows[k] = << >> THEN 0 ELSE rows[k][Len(rows[k])].time

\* The version check is forgotten.
MayWriteAnyway(k, localVer) == linked

\* The check every writing transaction starts with.  SQLite refuses to write to
\* a database whose file is gone, and the transaction throws sqLiteError.
MayWrite(k, localVer) == linked /\ localVersion(k) = localVer

\* The transactions _set, _del and setRemoteVersion append one row.
_set(k, c) ==
  rows' = [rows EXCEPT ![k] = Append(@, [content |-> c, time |-> now, remoteVer |-> 0])]
_del(k) == _set(k, Deleted)
setRemoteVersion(k, remoteVer) ==
  rows' = [rows EXCEPT ![k] = Append(@, [content |-> localContent(k), time |-> now,
                                         remoteVer |-> remoteVer])]

Event == events < MaxEvents /\ events' = events + 1
Touch(k) == touched' = IF syncRunning THEN touched \cup {k} ELSE touched

\* What set and del do after their transaction: with syncImmediately they start
\* a syncKey, which throws alreadyReplicating while another sync runs.
AfterLocalWrite(k) ==
  \/ /\ TRUE \in SyncImmediately /\ ~syncRunning
     /\ syncRunning' = TRUE
     /\ phase' = "single"
     /\ task' = [task EXCEPT ![k] = [NoTask EXCEPT !.pc = "head"]]
     /\ UNCHANGED touched
  \/ /\ FALSE \in SyncImmediately \/ syncRunning
     /\ Touch(k)
     /\ UNCHANGED <<syncRunning, phase, task>>

\* set(key, value, localVer) by a client that holds the newest version; with any
\* other localVer it throws conflict and nothing changes.
set(k, v) ==
  /\ Event
  /\ MayWrite(k, localVersion(k))
  /\ _set(k, v)
  /\ AfterLocalWrite(k)
  /\ UNCHANGED <<linked, listing, failures, hist, orphans, now>>

\* del(key, localVer); it throws notFound for localVer = 0.
del(k) ==
  /\ Event
  /\ localVersion(k) > 0
  /\ MayWrite(k, localVersion(k))
  /\ _del(k)
  /\ AfterLocalWrite(k)
  /\ UNCHANGED <<linked, listing, failures, hist, orphans, now>>

\* rmdb, called by wipeWallet on an instance of its own: the file goes, while the
\* instance that may be syncing keeps its connection.
rmdb ==
  /\ Event
  /\ linked
  /\ linked' = FALSE
  /\ UNCHANGED <<rows, syncRunning, phase, listing, task, failures, hist, orphans,
                 now, touched>>

----------------------------------------------------------------------------
(* The server (external). *)

remoteVer(k) == Len(hist[k])
serverTime == now + Skew
serverErr(v) == IF v.content = Deleted THEN "tombstone" ELSE "nil"

\* put and del carry the version they replace; version 1 also creates the key.
PutAccepted(k, version) == version = remoteVer(k) \/ (remoteVer(k) = 0 /\ version = 1)
DelAccepted(k, version) == remoteVer(k) > 0 /\ version = remoteVer(k)

Store(k, c) == hist' = [hist EXCEPT ![k] = Append(@, [content |-> c, time |-> serverTime])]

Answer(k, pc, newVer) == task' = [task EXCEPT ![k] = [@ EXCEPT !.pc = pc, !.newVer = newVer]]

ServePut(k) ==
  /\ task[k].pc = "put"
  /\ IF PutAccepted(k, task[k].remoteVer)
     THEN Store(k, task[k].content) /\ Answer(k, "acked", remoteVer(k) + 1)
     ELSE Answer(k, "refused", 0) /\ UNCHANGED hist
  /\ UNCHANGED <<rows, linked, syncRunning, phase, listing, failures, orphans, now,
                 events, touched>>

ServeDel(k) ==
  /\ task[k].pc = "del"
  /\ IF DelAccepted(k, task[k].remoteVer)
     THEN Store(k, Deleted) /\ Answer(k, "acked", remoteVer(k) + 1)
     ELSE /\ Answer(k, IF remoteVer(k) = 0 THEN "gone" ELSE "refused", 0)
          /\ UNCHANGED hist
  /\ UNCHANGED <<rows, linked, syncRunning, phase, listing, failures, orphans, now,
                 events, touched>>

\* get(version): the answer is the version asked for or the newest one.
ServeGet(k) ==
  /\ task[k].pc = "get"
  /\ \E v \in {task[k].remoteVer, remoteVer(k)} \cap 1..remoteVer(k) :
       task' = [task EXCEPT ![k] = [@ EXCEPT
         !.pc = IF hist[k][v].content = Deleted THEN "refused" ELSE "fetched",
         !.newVer = v, !.content = hist[k][v].content]]
  /\ UNCHANGED <<rows, linked, syncRunning, phase, listing, failures, hist, orphans,
                 now, events, touched>>

\* ver: HEAD answers with the newest version; its Last-Modified is cut to a whole
\* second, so it may be earlier than the millisecond stamp that keys() reports.
ServeHead(k) ==
  /\ task[k].pc = "head"
  /\ IF remoteVer(k) = 0
     THEN task' = [task EXCEPT ![k] = [@ EXCEPT !.pc = "headed", !.remoteErr = "notFound"]]
     ELSE LET v == hist[k][remoteVer(k)] IN
          \E t \in {u \in 0..v.time : v.time - u < Second} :
            task' = [task EXCEPT ![k] = [@ EXCEPT !.pc = "headed",
              !.remoteErr = serverErr(v), !.remoteVer = remoteVer(k), !.remoteTime = t]]
  /\ UNCHANGED <<rows, linked, syncRunning, phase, listing, failures, hist, orphans,
                 now, events, touched>>

\* Another device of the user writes the key.
OtherDeviceWrites(k, c) ==
  /\ Event
  /\ (c = Deleted => remoteVer(k) > 0)
  /\ Store(k, c)
  /\ Touch(k)
  /\ UNCHANGED <<rows, linked, syncRunning, phase, listing, task, failures, orphans, now>>

\* A request nobody waits for any more arrives after all, or never does.
OrphanArrives(r) ==
  /\ orphans' = orphans \ {r}
  /\ LET ok == CASE r.op = "put" -> PutAccepted(r.key, r.version)
                 [] r.op = "del" -> DelAccepted(r.key, r.version)
     IN  IF ok THEN Store(r.key, r.content) /\ Touch(r.key)
               ELSE UNCHANGED <<hist, touched>>
  /\ UNCHANGED <<rows, linked, syncRunning, phase, listing, task, failures, now, events>>

OrphanIsLost(r) ==
  /\ orphans' = orphans \ {r}
  /\ UNCHANGED <<rows, linked, syncRunning, phase, listing, task, failures, hist, now,
                 events, touched>>

----------------------------------------------------------------------------
(* Replication. *)

\* What decrypt makes of bytes from the server.  Bytes of 12 or fewer throw
\* malformedData; bytes that fail authentication decrypt to the empty string.
Opened(c) == IF c = Foreign THEN Empty ELSE c

Finished(pc) == [NoTask EXCEPT !.pc = pc]
Complete(k) == task' = [task EXCEPT ![k] = Finished("ok")] /\ UNCHANGED failures

\* completionHandler with an error, or a throw.  The tasks increment failures
\* without synchronisation, so increments may be lost.
Fail(k) ==
  /\ task' = [task EXCEPT ![k] = Finished("failed")]
  /\ IF phase = "tasks" THEN failures' \in 1..(failures + 1) ELSE UNCHANGED failures

Advance(k, pc, localVer, newVer, c) ==
  task' = [task EXCEPT ![k] = [@ EXCEPT !.pc = pc, !.localVer = localVer,
                                        !.newVer = newVer, !.content = c]]

Occupied == {k \in Keys : task[k].pc \notin {"idle", "queued"} \cup Over}

\* syncAllKeys; while a sync runs it only reports alreadyReplicating.  The look at
\* syncRunning and its setting are one step, here and in AfterLocalWrite: nothing in
\* the code makes them one, but the app calls syncAllKeys on the main queue only and
\* leaves syncImmediately off, so that no second caller comes between.  A store whose
\* file is gone uploads again at every sync, so these syncs count as events.
syncAllKeys ==
  /\ ~syncRunning
  /\ (linked /\ UNCHANGED events) \/ (~linked /\ Event)
  /\ syncRunning' = TRUE
  /\ phase' = "listing"
  /\ touched' = {}
  /\ UNCHANGED <<rows, linked, listing, task, failures, hist, orphans, now>>

\* The server answers keys() with the newest version of every key it has.
ServeKeys ==
  /\ phase = "listing"
  /\ phase' = "listed"
  /\ listing' = [k \in Keys |-> remoteVer(k)]
  /\ UNCHANGED <<rows, linked, syncRunning, task, failures, hist, orphans, now, events,
                 touched>>

\* keys() fails, or its answer is lost: the sync ends with replicationError.
KeysFail ==
  /\ Event
  /\ phase \in {"listing", "listed"}
  /\ phase' = "idle"
  /\ syncRunning' = FALSE
  /\ listing' = [k \in Keys |-> 0]
  /\ UNCHANGED <<rows, linked, task, failures, hist, orphans, now, touched>>

\* Keys only we have are left out: step 4 of the comment is missing.
QueuedRemoteOnly(k) ==
  IF listing[k] > 0
  THEN LET v == hist[k][listing[k]] IN
       [NoTask EXCEPT !.pc = "queued", !.remoteVer = listing[k],
                      !.remoteTime = v.time, !.remoteErr = serverErr(v)]
  ELSE NoTask

\* The task a key of the answer gets; a key only we have gets version and time 0.
Queued(k) ==
  IF listing[k] > 0
  THEN LET v == hist[k][listing[k]] IN
       [NoTask EXCEPT !.pc = "queued", !.remoteVer = listing[k],
                      !.remoteTime = v.time, !.remoteErr = serverErr(v)]
  ELSE IF rows[k] # << >> THEN [NoTask EXCEPT !.pc = "queued"] ELSE NoTask

\* The callback of keys(): localKeys, then one task for every key of either side.
KeysArrive ==
  /\ phase = "listed"
  /\ phase' = "tasks"
  /\ task' = [k \in Keys |-> Queued(k)]
  /\ failures' = 0
  /\ listing' = [k \in Keys |-> 0]
  /\ UNCHANGED <<rows, linked, syncRunning, hist, orphans, now, events, touched>>

\* A recorded version counts as current when it is any version at all.
UpToDateIfRecorded(k) ==
  /\ task[k].remoteErr # "notFound"
  /\ task[k].remoteVer > 0
  /\ remoteVersion(k) > 0

UpToDate(k) ==
  /\ task[k].remoteErr # "notFound"
  /\ task[k].remoteVer > 0
  /\ remoteVersion(k) = task[k].remoteVer

\* First transaction of _syncKey, once a permit of the semaphore is free.
ReadRecorded(k) ==
  /\ \/ task[k].pc = "queued" /\ Cardinality(Occupied) < Slots
     \/ task[k].pc = "headed"
  /\ IF UpToDate(k)
     THEN Complete(k)
     ELSE /\ task' = [task EXCEPT ![k] = [@ EXCEPT !.pc = "read",
                                                       !.recorded = remoteVersion(k)]]
          /\ UNCHANGED failures
  /\ UNCHANGED <<rows, linked, syncRunning, phase, listing, hist, orphans, now, events,
                 touched>>

\* The error of a reading transaction leaves syncKey as it does syncAllKeys: nobody
\* counts it or signals the semaphore.
ThrowDropped(k) == task' = [task EXCEPT ![k] = Finished("abandoned")] /\ UNCHANGED failures

\* _syncKey throws.  syncAllKeys catches the error and counts a failure; syncKey drops
\* it with try?, so that its completion handler, which releases syncRunning, is never
\* called.
Throw(k) ==
  IF phase = "tasks" THEN Fail(k)
  ELSE task' = [task EXCEPT ![k] = Finished("abandoned")] /\ UNCHANGED failures

\* A transaction throws: the database is busy or gone, or the local row cannot be
\* decrypted.  Both reading transactions of _syncKey pass the error on; those that
\* write hand it to the completion handler.
TransactionThrows(k) ==
  /\ Event
  /\ \/ /\ \/ task[k].pc = "queued" /\ Cardinality(Occupied) < Slots
           \/ task[k].pc \in {"headed", "read"}
        /\ Throw(k)
     \/ task[k].pc \in {"drop", "fetched", "mark", "acked"} /\ Fail(k)
  /\ UNCHANGED <<rows, linked, syncRunning, phase, listing, hist, orphans, now, touched>>

\* Second transaction: get, and what follows from comparing the two times.
LocalIsNewer(k) == localTime(k) >= task[k].remoteTime
BothDeleted(k) == localContent(k) = Deleted /\ task[k].remoteErr = "tombstone"
useRemoteVer(k) ==
  IF task[k].remoteVer = 0 \/ task[k].remoteVer < task[k].recorded THEN 1
                                                                 ELSE task[k].remoteVer

NextStep(k) ==
  CASE BothDeleted(k)                                             -> "mark"
    [] ~BothDeleted(k) /\ LocalIsNewer(k) /\ localContent(k) = Deleted -> "del"
    [] LocalIsNewer(k) /\ localContent(k) # Deleted               -> "put"
    [] ~BothDeleted(k) /\ ~LocalIsNewer(k) /\ task[k].remoteErr = "tombstone" -> "drop"
    [] ~LocalIsNewer(k) /\ task[k].remoteErr # "tombstone"        -> "get"

Decide(k) ==
  /\ task[k].pc = "read"
  /\ IF task[k].remoteErr = "unknown"
     THEN Fail(k)
     ELSE /\ task' = [task EXCEPT ![k] = [@ EXCEPT
               !.pc = NextStep(k),
               !.remoteVer = IF NextStep(k) = "put" THEN useRemoteVer(k) ELSE task[k].remoteVer,
               !.localVer = localVersion(k),
               !.content = localContent(k),
               !.newVer = IF NextStep(k) = "mark" THEN task[k].remoteVer ELSE 0]]
          /\ UNCHANGED failures
  /\ UNCHANGED <<rows, linked, syncRunning, phase, listing, hist, orphans, now, events,
                 touched>>

\* The key was deleted remotely: _del.  A key unknown locally is already gone.
DropLocally(k) ==
  /\ task[k].pc = "drop"
  /\ IF task[k].localVer = 0
     THEN Complete(k) /\ UNCHANGED rows
     ELSE IF MayWrite(k, task[k].localVer)
     THEN /\ _del(k)
          /\ Advance(k, "mark", task[k].localVer + 1, task[k].remoteVer, Deleted)
          /\ UNCHANGED failures
     ELSE Fail(k) /\ UNCHANGED rows
  /\ UNCHANGED <<linked, syncRunning, phase, listing, hist, orphans, now, events, touched>>

\* The answer to get: decrypt and _set; malformed data deletes the key instead.
StoreFetched(k) ==
  /\ task[k].pc = "fetched"
  /\ IF task[k].content = Corrupt
     THEN /\ Fail(k)
          /\ IF task[k].localVer > 0 /\ MayWrite(k, task[k].localVer)
             THEN _del(k) ELSE UNCHANGED rows
     ELSE IF MayWrite(k, task[k].localVer)
     THEN /\ _set(k, Opened(task[k].content))
          /\ Advance(k, "mark", task[k].localVer + 1, task[k].newVer,
                     Opened(task[k].content))
          /\ UNCHANGED failures
     ELSE Fail(k) /\ UNCHANGED rows
  /\ UNCHANGED <<linked, syncRunning, phase, listing, hist, orphans, now, events, touched>>

\* The task's local version is not compared with the table's.
RecordRemoteUnchecked(k) ==
  /\ task[k].pc \in {"mark", "acked"}
  /\ IF task[k].localVer >= 1 /\ linked
     THEN setRemoteVersion(k, task[k].newVer) /\ Complete(k)
     ELSE Fail(k) /\ UNCHANGED rows
  /\ UNCHANGED <<linked, syncRunning, phase, listing, hist, orphans, now, events, touched>>

\* setRemoteVersion, the last transaction of a task.
RecordRemote(k) ==
  /\ task[k].pc \in {"mark", "acked"}
  /\ IF task[k].localVer >= 1 /\ MayWrite(k, task[k].localVer)
     THEN setRemoteVersion(k, task[k].newVer) /\ Complete(k)
     ELSE Fail(k) /\ UNCHANGED rows
  /\ UNCHANGED <<linked, syncRunning, phase, listing, hist, orphans, now, events, touched>>

\* An error answer ends the task; del of a key the server does not know succeeds.
Refused(k) ==
  /\ task[k].pc \in {"refused", "gone"}
  /\ IF task[k].pc = "gone" THEN Complete(k) ELSE Fail(k)
  /\ UNCHANGED <<rows, linked, syncRunning, phase, listing, hist, orphans, now, events,
                 touched>>

UnderWay == {k \in Keys : task[k].pc \in {"put", "del"}}
RequestOf(k) == [op |-> task[k].pc, key |-> k, version |-> task[k].remoteVer,
                 content |-> task[k].content]

\* The request fails on the client's side (no network, timeout, no answer).  The
\* server may have seen it, may still see it, or never will.
RequestFails(k) ==
  /\ Event
  /\ task[k].pc \in Waiting \cup Answered
  /\ orphans' = orphans \cup {RequestOf(j) : j \in UnderWay \cap {k}}
  /\ IF task[k].pc = "head"
     THEN /\ task' = [task EXCEPT ![k] = [@ EXCEPT !.pc = "headed", !.remoteErr = "unknown"]]
          /\ UNCHANGED failures
     ELSE Fail(k)
  /\ UNCHANGED <<rows, linked, syncRunning, phase, listing, hist, now, touched>>

\* The group is left once too often: the sync ends when one task is over.
FinishSyncEarly ==
  /\ \/ phase = "tasks" /\ \E k \in Keys : task[k].pc \in Over \cup {"idle"}
     \/ phase = "single" /\ \E k \in Keys : task[k].pc \in Over
  /\ syncRunning' = FALSE
  /\ phase' = "idle"
  /\ UNCHANGED task
  /\ failures' = 0
  /\ touched' = {}
  /\ UNCHANGED <<rows, linked, listing, hist, orphans, now, events>>

\* All tasks are over: syncRunning is cleared and the completion handler called.
FinishSync ==
  /\ \/ phase = "tasks" /\ \A k \in Keys : task[k].pc \in Over \cup {"idle"}
     \/ phase = "single" /\ \E k \in Keys : task[k].pc \in Over
  /\ syncRunning' = FALSE
  /\ phase' = "idle"
  /\ task' = [k \in Keys |-> NoTask]
  /\ failures' = 0
  /\ touched' = {}
  /\ UNCHANGED <<rows, linked, listing, hist, orphans, now, events>>

\* A syncKey threw where it reads the local row: it holds the store until a restart.
SyncKeyStuck == phase = "single" /\ \E k \in Keys : task[k].pc = "abandoned"

\* The process ends and starts again: what is in memory is gone, requests under
\* way stay under way, the table is what the last transaction left, and init
\* creates the database file if there is none.  The restart after a wipe, or after the
\* error that lost a syncKey, is counted with these.
Restart ==
  /\ IF ~linked \/ SyncKeyStuck THEN UNCHANGED events ELSE Event
  /\ rows' = IF linked THEN rows ELSE [k \in Keys |-> << >>]
  /\ linked' = TRUE
  /\ syncRunning' = FALSE
  /\ phase' = "idle"
  /\ listing' = [k \in Keys |-> 0]
  /\ orphans' = orphans \cup {RequestOf(k) : k \in UnderWay}
  /\ task' = [k \in Keys |-> NoTask]
  /\ failures' = 0
  /\ touched' = {}
  /\ UNCHANGED <<hist, now>>

Tick ==
  /\ now < MaxTime
  /\ now' = now + 1
  /\ UNCHANGED <<rows, linked, syncRunning, phase, listing, task, failures, hist,
                 orphans, events, touched>>

Local(k) == ReadRecorded(k) \/ Decide(k) \/ DropLocally(k) \/ StoreFetched(k)
              \/ RecordRemote(k) \/ Refused(k)
Serve(k) == ServePut(k) \/ ServeDel(k) \/ ServeGet(k) \/ ServeHead(k)

Next ==
  \/ \E k \in Keys :
       \/ \E v \in Values : set(k, v)
       \/ del(k)
       \/ \E c \in OtherWrites : OtherDeviceWrites(k, c)
       \/ Local(k)
       \/ Serve(k)
       \/ RequestFails(k)
       \/ TransactionThrows(k)
  \/ \E r \in orphans : OrphanArrives(r) \/ OrphanIsLost(r)
  \/ syncAllKeys \/ ServeKeys \/ KeysFail \/ KeysArrive \/ FinishSync
  \/ rmdb \/ Restart \/ Tick

Spec == Init /\ [][Next]_vars

\* GCD runs what is queued; URLSession ends every request with an answer or an
\* error, and the bound on faults makes the server answer in the end; the app
\* calls syncAllKeys whenever it comes to the foreground or goes online.
Fairness ==
  /\ WF_vars(syncAllKeys) /\ WF_vars(ServeKeys) /\ WF_vars(KeysArrive)
  /\ WF_vars(FinishSync)
  /\ \A k \in Keys : WF_vars(Local(k)) /\ WF_vars(Serve(k))

FairSpec == Spec /\ Fairness

----------------------------------------------------------------------------
(* Properties. *)

\* Every remote version recorded in the table names a version the server has, and
\* the row it is recorded with says what that version says.  _syncKey skips a key
\* whose recorded version is the server's, so a wrong record would hide a
\* difference between the two stores for ever.  The record is made a round trip
\* after the value was read, with clients, other devices and lost answers between.
RecordedVersionIsTrue ==
  \A k \in Keys : \A i \in 1..Len(rows[k]) :
    LET r == rows[k][i] IN
    r.remoteVer > 0 => /\ r.remoteVer <= Len(hist[k])
                       /\ r.content = Opened(hist[k][r.remoteVer].content)

\* What makes RecordedVersionIsTrue inductive.  Of the task of k: the version it
\* compares with is still a tombstone if it was one; the row it read still says what
\* the task sent; what the server acknowledged or sent is what the server holds.
TaskIsTrue(k) ==
  LET t == task[k] IN
  /\ (t.pc \in {"queued", "headed", "read", "drop"} /\ t.remoteErr = "tombstone")
       => /\ t.remoteVer \in 1..Len(hist[k])
          /\ hist[k][t.remoteVer].content = Deleted
  /\ t.pc = "drop" => t.remoteErr = "tombstone"
  /\ t.pc \in {"put", "del"} => t.content \in Content
  /\ t.pc = "del" => t.content = Deleted
  /\ (t.pc \in {"put", "del", "acked", "mark"} /\ t.localVer >= 1)
       => /\ t.localVer <= Len(rows[k])
          /\ rows[k][t.localVer].content = t.content
  /\ t.pc \in {"acked", "mark", "fetched"} => t.newVer \in 1..Len(hist[k])
  /\ t.pc \in {"acked", "mark"} => t.content = Opened(hist[k][t.newVer].content)
  /\ t.pc = "fetched" => t.content = hist[k][t.newVer].content

\* The inductive invariant: also, the listing names versions the server has.
RecordInv ==
  /\ TypeOK
  /\ RecordedVersionIsTrue
  /\ \A k \in Keys : TaskIsTrue(k)
  /\ \A k \in Keys : listing[k] <= Len(hist[k])

\* What each side says of a key: a value, or Deleted, which a missing key is too.
LocalView(k) == IF rows[k] = << >> THEN Deleted ELSE localContent(k)
ServerView(k) == IF hist[k] = << >> THEN Deleted ELSE Opened(hist[k][Len(hist[k])].content)
Agree(k) == LocalView(k) = ServerView(k)

\* When all tasks of syncAllKeys are over and failures is still 0, so that the
\* completion handler gets no error, the two stores agree on every key that
\* nobody else changed while the sync ran - also although failures is incremented
\* without synchronisation, and whatever earlier syncs left half done.
SuccessMeansInSync ==
  (phase = "tasks" /\ failures = 0 /\ \A k \in Keys : task[k].pc \in Over \cup {"idle"})
    => \A k \in Keys \ touched : Agree(k)

\* A row a sync task writes follows the row the task read (or the one it wrote
\* itself just before): an edit the user makes during the round trip to the server
\* is never buried by the value the task sent or fetched.
TasksKeepEdits ==
  [][\A k \in Keys :
       (rows'[k] # rows[k] /\ task'[k] # task[k] /\ task[k].pc # "idle" /\ task'[k].pc # "idle")
         => Len(rows[k]) = task[k].localVer]_vars

\* A key is worked on only while syncRunning holds the store for this sync; the
\* code throws "how did we get here" otherwise.
TasksOnlyWhileSyncing ==
  \A k \in Keys : task[k].pc # "idle" => syncRunning

\* What makes it inductive: the flag and the phase go together, and tasks exist only
\* after the fan-out of syncAllKeys or in a syncKey.
SyncInv ==
  /\ syncRunning <=> phase # "idle"
  /\ \A k \in Keys : task[k].pc # "idle" => phase \in {"tasks", "single"}

\* A sync never holds the store for ever: every syncAllKeys ends, whatever fails and
\* throws on the way, and so does every syncKey, but for one way that the code has of
\* losing it, an error while it reads the local row.
SyncEnds == syncRunning ~> (~syncRunning \/ SyncKeyStuck)

\* A key that cannot be read from the server and was never stored locally, a store
\* whose file is gone, or one that a lost syncKey holds, cannot come into agreement
\* (the latter two until a restart).
Hopeless(k) ==
  ~linked \/ SyncKeyStuck \/ (rows[k] = << >> /\ ServerView(k) = Corrupt)

\* Once edits and faults stop, the stores come to agree on every key and stay so,
\* whatever restarts, lost answers and late requests came before.
EventuallyInSync == <>[](\A k \in Keys : Agree(k) \/ Hopeless(k))

\* When version localVer of k was last modified: the time of the newest row up to it
\* that is not a mere record of a remote version.
ModifiedAt(k, localVer) ==
  LET edits == {i \in 1..localVer : rows[k][i].remoteVer = 0}
      last == CHOOSE i \in edits : \A j \in edits : j <= i
  IN  rows[k][last].time

\* What the strategy in _syncKey promises: "if their last-modified date is newer
\* than ours, overwrite ours".  So ours is never sent to replace a remote version
\* modified later than ours was.
NewerRemoteIsNotOverwritten ==
  \A k \in Keys :
    (task[k].pc = "put" /\ task[k].localVer > 0)
      => ModifiedAt(k, task[k].localVer) >= task[k].remoteTime
=============================================================================
