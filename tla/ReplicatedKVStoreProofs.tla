---------------------- MODULE ReplicatedKVStoreProofs ----------------------
(***************************************************************************)
(* Proofs about ReplicatedKVStore, for any set of keys and values, any     *)
(* number of permits, any clock skew and any bounds: every variable keeps  *)
(* its type and every remote version recorded in the table is true.        *)
(*                                                                         *)
(* RecordedVersionIsTrue is not inductive: whether the row written by      *)
(* RecordRemote is true depends on what the task carried through its round *)
(* trip.  RecordInv adds that.  Rows and remote versions are only ever     *)
(* appended while the process lives, so what a task has seen of them stays *)
(* true (lemma KeepTask); each action then only has to justify the task it *)
(* moves and the row it writes.                                            *)
(***************************************************************************)
EXTENDS ReplicatedKVStore, TLAPS

\* The local table and the server's history only grow, and stay well typed.
RowsGrow ==
  /\ rows' \in [Keys -> Seq(Row)]
  /\ \A k \in Keys : /\ Len(rows[k]) <= Len(rows'[k])
                     /\ \A i \in 1..Len(rows[k]) : rows'[k][i] = rows[k][i]
HistGrows ==
  /\ hist' \in [Keys -> Seq(Version)]
  /\ \A k \in Keys : /\ Len(hist[k]) <= Len(hist'[k])
                     /\ \A i \in 1..Len(hist[k]) : hist'[k][i] = hist[k][i]

\* Appending a row to one key lets the table grow.
LEMMA AppendRow ==
  ASSUME rows \in [Keys -> Seq(Row)], NEW k \in Keys, NEW r \in Row,
         rows' = [rows EXCEPT ![k] = Append(@, r)]
  PROVE  /\ RowsGrow
         /\ Len(rows'[k]) = Len(rows[k]) + 1
         /\ rows'[k][Len(rows[k]) + 1] = r
         /\ \A j \in Keys \ {k} : rows'[j] = rows[j]
<1> DEFINE s == rows[k]
<1>1. s \in Seq(Row)
  OBVIOUS
<1>2. /\ Append(s, r) \in Seq(Row)
      /\ Len(Append(s, r)) = Len(s) + 1
      /\ Append(s, r)[Len(s) + 1] = r
      /\ \A i \in 1..Len(s) : Append(s, r)[i] = s[i]
  BY <1>1
<1>3. rows'[k] = Append(s, r) /\ \A j \in Keys \ {k} : rows'[j] = rows[j]
  OBVIOUS
<1>4. rows' \in [Keys -> Seq(Row)]
  BY <1>2
<1>5. \A j \in Keys : Len(rows[j]) \in Nat
  OBVIOUS
<1> QED BY <1>1, <1>2, <1>3, <1>4, <1>5 DEF RowsGrow

\* The same for a version on the server.
LEMMA AppendVersion ==
  ASSUME hist \in [Keys -> Seq(Version)], NEW k \in Keys, NEW v \in Version,
         hist' = [hist EXCEPT ![k] = Append(@, v)]
  PROVE  /\ HistGrows
         /\ Len(hist'[k]) = Len(hist[k]) + 1
         /\ hist'[k][Len(hist[k]) + 1] = v
<1> DEFINE s == hist[k]
<1>1. s \in Seq(Version)
  OBVIOUS
<1>2. /\ Append(s, v) \in Seq(Version)
      /\ Len(Append(s, v)) = Len(s) + 1
      /\ Append(s, v)[Len(s) + 1] = v
      /\ \A i \in 1..Len(s) : Append(s, v)[i] = s[i]
  BY <1>1
<1>3. hist'[k] = Append(s, v) /\ \A j \in Keys \ {k} : hist'[j] = hist[j]
  OBVIOUS
<1>4. hist' \in [Keys -> Seq(Version)]
  BY <1>2
<1>5. \A j \in Keys : Len(hist[j]) \in Nat
  OBVIOUS
<1> QED BY <1>1, <1>2, <1>3, <1>4, <1>5 DEF HistGrows

\* What stays as it is has grown too.
LEMMA Stutter ==
  ASSUME TypeOK
  PROVE  /\ UNCHANGED rows => RowsGrow
         /\ UNCHANGED hist => HistGrows
BY DEF TypeOK, RowsGrow, HistGrows

\* The task of k that does not move stays true while table and server grow.
LEMMA KeepTask ==
  ASSUME TypeOK, RowsGrow, HistGrows, NEW k \in Keys, TaskIsTrue(k), task'[k] = task[k]
  PROVE  TaskIsTrue(k)'
<1> DEFINE t == task[k]
<1>1. t.localVer \in Nat /\ t.newVer \in Nat /\ t.remoteVer \in Nat
  BY DEF TypeOK, Task
<1>2. /\ Len(hist[k]) \in Nat /\ Len(hist'[k]) \in Nat /\ Len(hist[k]) <= Len(hist'[k])
      /\ Len(rows[k]) \in Nat /\ Len(rows'[k]) \in Nat /\ Len(rows[k]) <= Len(rows'[k])
  BY DEF TypeOK, RowsGrow, HistGrows
<1>3. \A i \in 1..Len(hist[k]) : i \in 1..Len(hist'[k]) /\ hist'[k][i] = hist[k][i]
  BY <1>2 DEF HistGrows
<1>4. \A i \in Nat : (i >= 1 /\ i <= Len(rows[k]))
                        => i <= Len(rows'[k]) /\ rows'[k][i] = rows[k][i]
  BY <1>2 DEF RowsGrow
<1> HIDE DEF t
<1>5. TaskIsTrue(k) /\ task[k] = t /\ task'[k] = t
  BY DEF t
<1> QED BY <1>1, <1>3, <1>4, <1>5 DEF TaskIsTrue, Opened, Content

\* A recorded version stays true while the server grows; an appended row is true
\* when it records nothing or a version that says the same.
LEMMA KeepRecords ==
  ASSUME TypeOK, RecordedVersionIsTrue, RowsGrow, HistGrows, NEW k \in Keys,
         \A j \in Keys \ {k} : rows'[j] = rows[j],
         \/ rows'[k] = rows[k]
         \/ /\ Len(rows'[k]) = Len(rows[k]) + 1
            /\ LET r == rows'[k][Len(rows[k]) + 1] IN
               r.remoteVer > 0 => /\ r.remoteVer <= Len(hist'[k])
                                  /\ r.content = Opened(hist'[k][r.remoteVer].content)
  PROVE  RecordedVersionIsTrue'
<1> SUFFICES ASSUME NEW j \in Keys, NEW i \in 1..Len(rows'[j]), rows'[j][i].remoteVer > 0
             PROVE  /\ rows'[j][i].remoteVer <= Len(hist'[j])
                    /\ rows'[j][i].content = Opened(hist'[j][rows'[j][i].remoteVer].content)
  BY DEF RecordedVersionIsTrue, Opened
<1>1. /\ Len(rows[j]) \in Nat /\ Len(hist[j]) \in Nat /\ Len(hist'[j]) \in Nat
      /\ Len(rows'[j]) \in Nat
  BY DEF TypeOK, RowsGrow, HistGrows
<1>2. CASE i \in 1..Len(rows[j])
  <2>1. rows'[j][i] = rows[j][i]
    BY <1>2 DEF RowsGrow
  <2>2. rows[j][i] \in Row
    BY <1>2 DEF TypeOK
  <2>3. rows[j][i].remoteVer \in 1..Len(hist[j])
    BY <1>1, <1>2, <2>1, <2>2 DEF RecordedVersionIsTrue, Row
  <2>4. hist'[j][rows[j][i].remoteVer] = hist[j][rows[j][i].remoteVer]
    BY <2>3 DEF HistGrows
  <2>5. rows[j][i].content = Opened(hist[j][rows[j][i].remoteVer].content)
    BY <1>2, <2>1 DEF RecordedVersionIsTrue
  <2>6. Len(hist[j]) <= Len(hist'[j])
    BY DEF HistGrows
  <2>7. rows[j][i].remoteVer <= Len(hist'[j])
    BY <1>1, <2>3, <2>6
  <2> QED BY <2>1, <2>4, <2>5, <2>7
<1>3. CASE i \notin 1..Len(rows[j])
  <2>1. j = k /\ i = Len(rows[k]) + 1
    BY <1>1, <1>3
  <2> QED BY <2>1
<1> QED BY <1>2, <1>3

\* A task that is over, or that only waits for the server to answer a question,
\* claims nothing.
LEMMA NothingClaimed ==
  ASSUME NEW k \in Keys,
         task'[k].pc \in {"idle", "head", "get", "refused", "gone", "ok", "failed", "abandoned"}
  PROVE  TaskIsTrue(k)'
BY DEF TaskIsTrue

\* The step of one key: if it writes at most one row, a true one, and leaves its own
\* task true, the invariant is preserved.
LEMMA OneKeyStep ==
  ASSUME RecordInv, NEW k \in Keys, TypeOK', RowsGrow, HistGrows, UNCHANGED listing,
         \A j \in Keys \ {k} : task'[j] = task[j] /\ rows'[j] = rows[j],
         TaskIsTrue(k)',
         \/ rows'[k] = rows[k]
         \/ /\ Len(rows'[k]) = Len(rows[k]) + 1
            /\ LET r == rows'[k][Len(rows[k]) + 1] IN
               r.remoteVer > 0 => /\ r.remoteVer <= Len(hist'[k])
                                  /\ r.content = Opened(hist'[k][r.remoteVer].content)
  PROVE  RecordInv'
<1>1. RecordedVersionIsTrue'
  BY KeepRecords DEF RecordInv
<1>2. ASSUME NEW j \in Keys PROVE TaskIsTrue(j)'
  <2>1. CASE j = k
    BY <2>1
  <2>2. CASE j # k
    BY <2>2, KeepTask DEF RecordInv
  <2> QED BY <2>1, <2>2
<1>3. ASSUME NEW j \in Keys PROVE listing'[j] <= Len(hist'[j])
  <2>1. /\ listing[j] \in Nat /\ Len(hist[j]) \in Nat /\ Len(hist'[j]) \in Nat
        /\ Len(hist[j]) <= Len(hist'[j]) /\ listing[j] <= Len(hist[j])
    BY DEF RecordInv, TypeOK, HistGrows
  <2> QED BY <2>1
<1> QED BY <1>1, <1>2, <1>3 DEF RecordInv

\* What Complete and Fail leave behind.
LEMMA Ends ==
  ASSUME TypeOK, NEW k \in Keys, Complete(k) \/ Fail(k)
  PROVE  /\ task' \in [Keys -> Task] /\ failures' \in Nat
         /\ \A j \in Keys \ {k} : task'[j] = task[j]
         /\ TaskIsTrue(k)'
<1>1. NoTask \in Task
  BY DEF NoTask, Task, Steps, Waiting, Answered, Over, RemoteErrors, RemoteContent, Content
<1>2. Finished("ok") \in Task /\ Finished("failed") \in Task
      /\ Finished("ok").pc = "ok" /\ Finished("failed").pc = "failed"
  BY DEF Finished, NoTask, Task, Steps, Waiting, Answered, Over, RemoteErrors, RemoteContent, Content
<1>3. PICK f \in {"ok", "failed"} : task' = [task EXCEPT ![k] = Finished(f)]
  BY DEF Complete, Fail
<1>4. task' \in [Keys -> Task] /\ \A j \in Keys \ {k} : task'[j] = task[j]
  BY <1>2, <1>3 DEF TypeOK
<1>5. task'[k].pc \in {"ok", "failed"}
  BY <1>2, <1>3 DEF TypeOK
<1>6. failures' \in Nat
  BY DEF Complete, Fail, TypeOK
<1> QED BY <1>4, <1>5, <1>6, NothingClaimed

\* A step that replaces the task of k.
LEMMA MovedTask ==
  ASSUME TypeOK, NEW k \in Keys, NEW t \in Task, task' = [task EXCEPT ![k] = t]
  PROVE  /\ task' \in [Keys -> Task]
         /\ task'[k] = t
         /\ \A j \in Keys \ {k} : task'[j] = task[j]
BY DEF TypeOK

\* What Advance leaves behind.
LEMMA Advances ==
  ASSUME TypeOK, NEW k \in Keys, NEW pc \in Steps, NEW a \in Nat, NEW b \in Nat,
         NEW c \in RemoteContent, Advance(k, pc, a, b, c)
  PROVE  /\ task' \in [Keys -> Task]
         /\ \A j \in Keys \ {k} : task'[j] = task[j]
         /\ task'[k].pc = pc /\ task'[k].localVer = a /\ task'[k].newVer = b
         /\ task'[k].content = c
<1> DEFINE t == [task[k] EXCEPT !.pc = pc, !.localVer = a, !.newVer = b, !.content = c]
<1>1. task[k] \in Task
  BY DEF TypeOK
<1>2. /\ t \in Task
      /\ t.pc = pc /\ t.localVer = a /\ t.newVer = b /\ t.content = c
  BY <1>1 DEF Task
<1>3. task' = [task EXCEPT ![k] = t]
  BY DEF Advance
<1> HIDE DEF t
<1> QED BY <1>2, <1>3, MovedTask

\* Init establishes the invariant.
LEMMA InitOK == Init => RecordInv
<1> SUFFICES ASSUME Init PROVE RecordInv
  OBVIOUS
<1> USE KVAssumption
<1>1. NoTask \in Task
  BY DEF NoTask, Task, Steps, Waiting, Answered, Over, RemoteErrors, RemoteContent, Content
<1>2. TypeOK
  <2>1. << >> \in Seq(Row) /\ << >> \in Seq(Version)
    OBVIOUS
  <2>2. rows \in [Keys -> Seq(Row)] /\ hist \in [Keys -> Seq(Version)]
    BY <2>1 DEF Init
  <2>3. task \in [Keys -> Task] /\ listing \in [Keys -> Nat]
    BY <1>1 DEF Init
  <2>4. events \in 0..MaxEvents
    BY DEF Init
  <2> QED BY <2>2, <2>3, <2>4 DEF Init, TypeOK, Phases
<1>3. \A k \in Keys : TaskIsTrue(k)
  BY DEF Init, TaskIsTrue, NoTask
<1> QED BY <1>2, <1>3 DEF Init, RecordInv, RecordedVersionIsTrue

----------------------------------------------------------------------------
(* Steps of one key that write the local table. *)

\* A row that records nothing, or is the newest row with a remote version, is a row.
LEMMA NewRows ==
  ASSUME TypeOK, NEW k \in Keys, NEW c \in Content
  PROVE  /\ [content |-> c, time |-> now, remoteVer |-> 0] \in Row
         /\ localContent(k) \in Content
         /\ localVersion(k) \in Nat /\ remoteVersion(k) \in Nat
<1>1. rows[k] \in Seq(Row) /\ now \in Nat
  BY DEF TypeOK
<1>2. rows[k] # << >> => rows[k][Len(rows[k])] \in Row
  BY <1>1
<1>3. Empty \in Content
  BY DEF Content
<1> QED BY <1>1, <1>2, <1>3 DEF Row, localContent, localVersion, remoteVersion

\* _set(k, c) appends a row that records nothing.
LEMMA SetAppends ==
  ASSUME TypeOK, NEW k \in Keys, NEW c \in Content, _set(k, c)
  PROVE  /\ RowsGrow
         /\ \A j \in Keys \ {k} : rows'[j] = rows[j]
         /\ Len(rows'[k]) = Len(rows[k]) + 1
         /\ rows'[k][Len(rows[k]) + 1].remoteVer = 0
         /\ rows'[k][Len(rows[k]) + 1].content = c
<1> DEFINE r == [content |-> c, time |-> now, remoteVer |-> 0]
<1>1. r \in Row
  BY NewRows
<1>2. rows \in [Keys -> Seq(Row)] /\ rows' = [rows EXCEPT ![k] = Append(@, r)]
  BY DEF TypeOK, _set
<1> HIDE DEF r
<1>3. /\ RowsGrow /\ Len(rows'[k]) = Len(rows[k]) + 1
      /\ rows'[k][Len(rows[k]) + 1] = r
      /\ \A j \in Keys \ {k} : rows'[j] = rows[j]
  BY <1>1, <1>2, AppendRow
<1> QED BY <1>3 DEF r

\* set and del.
LEMMA ClientWrite ==
  ASSUME RecordInv, NEW k \in Keys, NEW c \in Content, _set(k, c), AfterLocalWrite(k), Event,
         UNCHANGED <<linked, listing, failures, hist, orphans, now>>
  PROVE  RecordInv'
<1> USE DEF RecordInv
<1>1. /\ RowsGrow /\ HistGrows
      /\ \A j \in Keys \ {k} : rows'[j] = rows[j]
      /\ Len(rows'[k]) = Len(rows[k]) + 1
      /\ rows'[k][Len(rows[k]) + 1].remoteVer = 0
  BY SetAppends, Stutter
<1>2. task' \in [Keys -> Task] /\ \A j \in Keys \ {k} : task'[j] = task[j]
  <2>1. [NoTask EXCEPT !.pc = "head"] \in Task
    BY DEF NoTask, Task, Steps, Waiting, Answered, Over, RemoteErrors, RemoteContent, Content
  <2> QED BY <2>1 DEF AfterLocalWrite, TypeOK
<1>3. TypeOK'
  <2>1. rows' \in [Keys -> Seq(Row)] /\ hist' \in [Keys -> Seq(Version)]
    BY <1>1 DEF RowsGrow, HistGrows
  <2>2. syncRunning' \in BOOLEAN /\ phase' \in Phases
    BY DEF AfterLocalWrite, TypeOK, Phases
  <2>3. touched' \in SUBSET Keys
    BY DEF AfterLocalWrite, Touch, TypeOK
  <2>4. events' \in 0..MaxEvents
    BY KVAssumption DEF Event, TypeOK
  <2>5. /\ linked' \in BOOLEAN /\ listing' \in [Keys -> Nat] /\ failures' \in Nat
        /\ orphans' \in SUBSET Request /\ now' \in Nat
    BY DEF TypeOK
  <2> QED BY <1>2, <2>1, <2>2, <2>3, <2>4, <2>5 DEF TypeOK
<1>4. TaskIsTrue(k)'
  <2>1. CASE task'[k] = task[k]
    BY <1>1, <2>1, KeepTask
  <2>2. CASE task' = [task EXCEPT ![k] = [NoTask EXCEPT !.pc = "head"]]
    <3>1. task'[k].pc = "head"
      BY <2>2 DEF TypeOK, NoTask
    <3> QED BY <3>1, NothingClaimed
  <2> QED BY <2>1, <2>2 DEF AfterLocalWrite
<1> HIDE DEF RecordInv
<1> QED BY <1>1, <1>2, <1>3, <1>4, OneKeyStep

\* DropLocally.
LEMMA DropOK ==
  ASSUME RecordInv, NEW k \in Keys, DropLocally(k)
  PROVE  RecordInv'
<1>0. TypeOK /\ HistGrows /\ TaskIsTrue(k)
  BY Stutter DEF RecordInv, DropLocally
<1>1. CASE (Complete(k) \/ Fail(k)) /\ UNCHANGED rows
  <2>1. /\ task' \in [Keys -> Task] /\ failures' \in Nat /\ RowsGrow /\ TaskIsTrue(k)'
        /\ \A j \in Keys \ {k} : task'[j] = task[j]
    BY <1>0, <1>1, Ends, Stutter
  <2>2. TypeOK'
    BY <1>0, <1>1, <2>1 DEF TypeOK, DropLocally
  <2> QED BY <1>0, <1>1, <2>1, <2>2, OneKeyStep DEF DropLocally
<1>2. CASE /\ MayWrite(k, task[k].localVer) /\ _del(k)
           /\ Advance(k, "mark", task[k].localVer + 1, task[k].remoteVer, Deleted)
           /\ UNCHANGED failures
  <2>1. /\ RowsGrow /\ \A j \in Keys \ {k} : rows'[j] = rows[j]
        /\ Len(rows'[k]) = Len(rows[k]) + 1
        /\ rows'[k][Len(rows[k]) + 1].remoteVer = 0
        /\ rows'[k][Len(rows[k]) + 1].content = Deleted
    BY <1>0, <1>2, SetAppends DEF _del, Content
  <2>2. task[k] \in Task /\ task[k].localVer = Len(rows[k]) /\ Len(rows[k]) \in Nat
    BY <1>0, <1>2 DEF MayWrite, localVersion, TypeOK
  <2>3. /\ task' \in [Keys -> Task] /\ \A j \in Keys \ {k} : task'[j] = task[j]
        /\ task'[k].pc = "mark" /\ task'[k].localVer = Len(rows[k]) + 1
        /\ task'[k].newVer = task[k].remoteVer /\ task'[k].content = Deleted
    <3>1. /\ "mark" \in Steps /\ Deleted \in RemoteContent /\ task[k].localVer + 1 \in Nat
          /\ task[k].remoteVer \in Nat
      BY <2>2 DEF Steps, RemoteContent, Content, Task
    <3> QED BY <1>0, <1>2, <2>2, <3>1, Advances
  <2>4. TypeOK'
    BY <1>0, <1>2, <2>1, <2>3 DEF TypeOK, DropLocally, RowsGrow
  <2>5. task[k].remoteVer \in 1..Len(hist[k]) /\ hist[k][task[k].remoteVer].content = Deleted
    BY <1>0 DEF TaskIsTrue, DropLocally
  <2>6. Opened(Deleted) = Deleted
    BY KVAssumption DEF Opened
  <2>7. TaskIsTrue(k)'
    BY <2>1, <2>2, <2>3, <2>5, <2>6 DEF TaskIsTrue, DropLocally, Opened
  <2> QED BY <1>0, <1>2, <2>1, <2>3, <2>4, <2>7, OneKeyStep DEF DropLocally
<1> QED BY <1>1, <1>2 DEF DropLocally

\* StoreFetched.
LEMMA FetchedOK ==
  ASSUME RecordInv, NEW k \in Keys, StoreFetched(k)
  PROVE  RecordInv'
<1>0. TypeOK /\ HistGrows /\ TaskIsTrue(k) /\ task[k] \in Task
  BY Stutter DEF RecordInv, StoreFetched, TypeOK
<1>1. CASE (Complete(k) \/ Fail(k)) /\ (_del(k) \/ UNCHANGED rows)
  <2>1. /\ task' \in [Keys -> Task] /\ failures' \in Nat /\ TaskIsTrue(k)'
        /\ \A j \in Keys \ {k} : task'[j] = task[j]
    BY <1>0, <1>1, Ends
  <2>2. CASE UNCHANGED rows
    <3>1. RowsGrow
      BY <1>0, <2>2, Stutter
    <3>2. TypeOK'
      BY <1>0, <2>1, <2>2 DEF TypeOK, StoreFetched
    <3> QED BY <1>0, <2>1, <2>2, <3>1, <3>2, OneKeyStep DEF StoreFetched
  <2>3. CASE _del(k)
    <3>1. /\ RowsGrow /\ \A j \in Keys \ {k} : rows'[j] = rows[j]
          /\ Len(rows'[k]) = Len(rows[k]) + 1
          /\ rows'[k][Len(rows[k]) + 1].remoteVer = 0
      BY <1>0, <2>3, SetAppends DEF _del, Content
    <3>2. TypeOK'
      BY <1>0, <2>1, <3>1 DEF TypeOK, StoreFetched, RowsGrow
    <3> QED BY <1>0, <2>1, <3>1, <3>2, OneKeyStep DEF StoreFetched
  <2> QED BY <1>1, <2>2, <2>3
<1>2. CASE /\ task[k].content # Corrupt /\ MayWrite(k, task[k].localVer)
           /\ _set(k, Opened(task[k].content))
           /\ Advance(k, "mark", task[k].localVer + 1, task[k].newVer,
                      Opened(task[k].content))
           /\ UNCHANGED failures
  <2> DEFINE c == Opened(task[k].content)
  <2>1. c \in Content /\ c \in RemoteContent /\ Opened(c) = c
    BY <1>0, <1>2, KVAssumption DEF Task, RemoteContent, Content, Opened
  <2>2. /\ RowsGrow /\ \A j \in Keys \ {k} : rows'[j] = rows[j]
        /\ Len(rows'[k]) = Len(rows[k]) + 1
        /\ rows'[k][Len(rows[k]) + 1].remoteVer = 0
        /\ rows'[k][Len(rows[k]) + 1].content = c
    BY <1>0, <1>2, <2>1, SetAppends
  <2>3. task[k].localVer = Len(rows[k]) /\ Len(rows[k]) \in Nat
    BY <1>0, <1>2 DEF MayWrite, localVersion, TypeOK
  <2>4. /\ task' \in [Keys -> Task] /\ \A j \in Keys \ {k} : task'[j] = task[j]
        /\ task'[k].pc = "mark" /\ task'[k].localVer = Len(rows[k]) + 1
        /\ task'[k].newVer = task[k].newVer /\ task'[k].content = c
    <3>1. /\ "mark" \in Steps /\ task[k].localVer + 1 \in Nat /\ task[k].newVer \in Nat
      BY <1>0 DEF Steps, Task
    <3> QED BY <1>0, <1>2, <2>1, <2>3, <3>1, Advances
  <2>5. TypeOK'
    BY <1>0, <1>2, <2>2, <2>4 DEF TypeOK, StoreFetched, RowsGrow
  <2>6. /\ task[k].newVer \in 1..Len(hist[k])
        /\ task[k].content = hist[k][task[k].newVer].content
    BY <1>0 DEF TaskIsTrue, StoreFetched
  <2> HIDE DEF c
  <2>7. c = Opened(hist[k][task[k].newVer].content)
    BY <2>6 DEF c
  <2>8. TaskIsTrue(k)'
    BY <2>2, <2>3, <2>4, <2>6, <2>7 DEF TaskIsTrue, StoreFetched, Opened
  <2> QED BY <1>0, <1>2, <2>2, <2>4, <2>5, <2>8, OneKeyStep DEF StoreFetched
<1> QED BY <1>1, <1>2 DEF StoreFetched

\* RecordRemote: the only step that records a remote version.
LEMMA RecordOK ==
  ASSUME RecordInv, NEW k \in Keys, RecordRemote(k)
  PROVE  RecordInv'
<1>0. TypeOK /\ HistGrows /\ TaskIsTrue(k) /\ task[k] \in Task
  BY Stutter DEF RecordInv, RecordRemote, TypeOK
<1>1. Complete(k) \/ Fail(k)
  BY DEF RecordRemote
<1>2. /\ task' \in [Keys -> Task] /\ failures' \in Nat /\ TaskIsTrue(k)'
      /\ \A j \in Keys \ {k} : task'[j] = task[j]
  BY <1>0, <1>1, Ends
<1>3. CASE UNCHANGED rows
  <2>1. RowsGrow
    BY <1>0, <1>3, Stutter
  <2>2. TypeOK'
    BY <1>0, <1>2, <1>3 DEF TypeOK, RecordRemote
  <2> QED BY <1>0, <1>2, <1>3, <2>1, <2>2, OneKeyStep DEF RecordRemote
<1>4. CASE /\ task[k].localVer >= 1 /\ MayWrite(k, task[k].localVer)
           /\ setRemoteVersion(k, task[k].newVer)
  <2> DEFINE n == Len(rows[k])
             r == [content |-> localContent(k), time |-> now, remoteVer |-> task[k].newVer]
  <2>1. rows[k] \in Seq(Row) /\ n \in Nat /\ n = task[k].localVer /\ n >= 1
    BY <1>0, <1>4 DEF MayWrite, localVersion, TypeOK
  <2>2. rows[k] # << >> /\ localContent(k) = rows[k][n].content
    BY <2>1 DEF localContent
  <2>3. /\ task[k].newVer \in 1..Len(hist[k])
        /\ rows[k][n].content = Opened(hist[k][task[k].newVer].content)
    BY <1>0, <2>1 DEF TaskIsTrue, RecordRemote
  <2>4. r \in Row
    <3>1. localContent(k) \in Content /\ now \in Nat /\ task[k].newVer \in Nat
      BY <1>0, NewRows DEF TypeOK, Task, Content
    <3> QED BY <3>1 DEF Row
  <2>5. r.remoteVer = task[k].newVer /\ r.content = localContent(k)
    OBVIOUS
  <2>6. rows' = [rows EXCEPT ![k] = Append(@, r)] /\ rows \in [Keys -> Seq(Row)]
    BY <1>0, <1>4 DEF setRemoteVersion, TypeOK
  <2> HIDE DEF r
  <2>7. /\ RowsGrow /\ Len(rows'[k]) = Len(rows[k]) + 1
        /\ rows'[k][Len(rows[k]) + 1] = r
        /\ \A j \in Keys \ {k} : rows'[j] = rows[j]
    BY <2>4, <2>6, AppendRow
  <2>8. TypeOK'
    BY <1>0, <1>2, <2>7 DEF TypeOK, RecordRemote, RowsGrow
  <2>9. r.remoteVer <= Len(hist'[k]) /\ r.content = Opened(hist'[k][r.remoteVer].content)
    <3>1. hist' = hist /\ Len(hist[k]) \in Nat
      BY <1>0 DEF RecordRemote, TypeOK
    <3> QED BY <2>2, <2>3, <2>5, <3>1
  <2>10. UNCHANGED listing
    BY DEF RecordRemote
  <2> QED BY <1>0, <1>2, <2>7, <2>8, <2>9, <2>10, OneKeyStep
<1> QED BY <1>3, <1>4 DEF RecordRemote

----------------------------------------------------------------------------
(* Steps of one key that leave the local table alone. *)

\* A step of one key that changes neither the table nor the server.
LEMMA TaskOnlyStep ==
  ASSUME RecordInv, NEW k \in Keys, TaskIsTrue(k)', task' \in [Keys -> Task],
         failures' \in Nat, orphans' \in SUBSET Request, events' \in 0..MaxEvents,
         \A j \in Keys \ {k} : task'[j] = task[j],
         UNCHANGED <<rows, linked, syncRunning, phase, listing, hist, now, touched>>
  PROVE  RecordInv'
<1>1. TypeOK /\ RowsGrow /\ HistGrows
  BY Stutter DEF RecordInv
<1>2. TypeOK'
  BY <1>1 DEF TypeOK
<1> QED BY <1>1, <1>2, OneKeyStep

\* ReadRecorded.
LEMMA ReadOK ==
  ASSUME RecordInv, NEW k \in Keys, ReadRecorded(k)
  PROVE  RecordInv'
<1>0. /\ TypeOK /\ TaskIsTrue(k) /\ task[k] \in Task /\ remoteVersion(k) \in Nat
      /\ orphans \in SUBSET Request /\ events \in 0..MaxEvents /\ failures \in Nat
  BY NewRows DEF RecordInv, TypeOK, Content
<1>1. CASE Complete(k)
  BY <1>0, <1>1, Ends, TaskOnlyStep DEF ReadRecorded
<1>2. CASE /\ task' = [task EXCEPT ![k] = [@ EXCEPT !.pc = "read",
                                                    !.recorded = remoteVersion(k)]]
           /\ UNCHANGED failures
  <2> DEFINE t == [task[k] EXCEPT !.pc = "read", !.recorded = remoteVersion(k)]
  <2>1. t \in Task /\ t.pc = "read" /\ t.remoteErr = task[k].remoteErr
        /\ t.remoteVer = task[k].remoteVer
    BY <1>0 DEF Task, Steps
  <2>2. task' = [task EXCEPT ![k] = t]
    BY <1>2
  <2> HIDE DEF t
  <2>3. /\ task' \in [Keys -> Task] /\ task'[k] = t
        /\ \A j \in Keys \ {k} : task'[j] = task[j]
    BY <1>0, <2>1, <2>2, MovedTask
  <2>4. TaskIsTrue(k)'
    BY <1>0, <2>1, <2>3 DEF TaskIsTrue, ReadRecorded
  <2> QED BY <1>0, <1>2, <2>3, <2>4, TaskOnlyStep DEF ReadRecorded
<1> QED BY <1>1, <1>2 DEF ReadRecorded

\* Decide.
LEMMA DecideOK ==
  ASSUME RecordInv, NEW k \in Keys, Decide(k)
  PROVE  RecordInv'
<1>0. /\ TypeOK /\ TaskIsTrue(k) /\ task[k] \in Task
      /\ localContent(k) \in Content /\ localVersion(k) \in Nat
      /\ orphans \in SUBSET Request /\ events \in 0..MaxEvents /\ failures \in Nat
      /\ rows[k] \in Seq(Row)
  BY NewRows DEF RecordInv, TypeOK, Content
<1>1. CASE Fail(k)
  BY <1>0, <1>1, Ends, TaskOnlyStep DEF Decide
<1>2. CASE /\ task' = [task EXCEPT ![k] = [@ EXCEPT
               !.pc = NextStep(k),
               !.remoteVer = IF NextStep(k) = "put" THEN useRemoteVer(k) ELSE task[k].remoteVer,
               !.localVer = localVersion(k),
               !.content = localContent(k),
               !.newVer = IF NextStep(k) = "mark" THEN task[k].remoteVer ELSE 0]]
           /\ UNCHANGED failures
  <2> DEFINE p == NextStep(k)
             u == IF p = "put" THEN useRemoteVer(k) ELSE task[k].remoteVer
             n == IF p = "mark" THEN task[k].remoteVer ELSE 0
             t == [task[k] EXCEPT !.pc = p, !.remoteVer = u, !.localVer = localVersion(k),
                                  !.content = localContent(k), !.newVer = n]
  <2>1. /\ p \in {"mark", "del", "put", "drop", "get"}
        /\ p = "mark" => localContent(k) = Deleted /\ task[k].remoteErr = "tombstone"
        /\ p = "del" => localContent(k) = Deleted
        /\ p = "drop" => task[k].remoteErr = "tombstone"
    BY DEF NextStep, BothDeleted
  <2>2. useRemoteVer(k) \in Nat /\ task[k].remoteVer \in Nat
    BY <1>0 DEF useRemoteVer, Task
  <2> HIDE DEF p
  <2>3. /\ p \in Steps /\ u \in Nat /\ n \in Nat /\ localContent(k) \in RemoteContent
        /\ p # "put" => u = task[k].remoteVer
        /\ p = "mark" => n = task[k].remoteVer
    BY <1>0, <2>1, <2>2 DEF Steps, Waiting, RemoteContent
  <2>4. task' = [task EXCEPT ![k] = t]
    BY <1>2 DEF p
  <2> HIDE DEF u, n
  <2>5. /\ t \in Task /\ t.pc = p /\ t.remoteErr = task[k].remoteErr /\ t.remoteVer = u
        /\ t.localVer = localVersion(k) /\ t.content = localContent(k) /\ t.newVer = n
    BY <1>0, <2>3 DEF Task
  <2> HIDE DEF t
  <2>6. /\ task' \in [Keys -> Task] /\ task'[k] = t
        /\ \A j \in Keys \ {k} : task'[j] = task[j]
    BY <1>0, <2>4, <2>5, MovedTask
  <2>7. localVersion(k) >= 1 => /\ localVersion(k) = Len(rows[k])
                                /\ rows[k][Len(rows[k])].content = localContent(k)
    BY <1>0 DEF localVersion, localContent
  <2>8. task[k].remoteErr = "tombstone" => /\ task[k].remoteVer \in 1..Len(hist[k])
                                           /\ hist[k][task[k].remoteVer].content = Deleted
    BY <1>0 DEF TaskIsTrue, Decide
  <2>9. UNCHANGED <<rows, hist>> /\ Len(rows[k]) \in Nat
    BY <1>0 DEF Decide
  <2>10. CASE p = "mark"
    <3>1. TaskIsTrue(k)'
      <4>1. /\ task'[k].pc = "mark" /\ task'[k].content = Deleted
            /\ task'[k].newVer \in 1..Len(hist'[k])
            /\ hist'[k][task'[k].newVer].content = Deleted
        BY <2>1, <2>3, <2>5, <2>6, <2>8, <2>9, <2>10
      <4>2. task'[k].localVer >= 1 => /\ task'[k].localVer <= Len(rows'[k])
                                      /\ rows'[k][task'[k].localVer].content = Deleted
        BY <2>1, <2>5, <2>6, <2>7, <2>9, <2>10
      <4>3. Deleted # Foreign
        BY KVAssumption
      <4> QED BY <4>1, <4>2, <4>3 DEF TaskIsTrue, Opened
    <3> QED BY <1>0, <1>2, <2>6, <3>1, TaskOnlyStep DEF Decide
  <2>11. CASE p # "mark"
    <3>1. TaskIsTrue(k)'
      <4>1. CASE p = "get"
        BY <2>5, <2>6, <4>1, NothingClaimed
      <4>2. CASE p = "drop"
        BY <2>1, <2>3, <2>5, <2>6, <2>8, <2>9, <4>2 DEF TaskIsTrue
      <4>3. CASE p \in {"put", "del"}
        BY <1>0, <2>1, <2>5, <2>6, <2>7, <2>9, <4>3 DEF TaskIsTrue, Content
      <4> QED BY <2>1, <2>11, <4>1, <4>2, <4>3
    <3> QED BY <1>0, <1>2, <2>6, <3>1, TaskOnlyStep DEF Decide
  <2> QED BY <2>10, <2>11
<1> QED BY <1>1, <1>2 DEF Decide

\* Refused.
LEMMA RefusedOK ==
  ASSUME RecordInv, NEW k \in Keys, Refused(k)
  PROVE  RecordInv'
<1>0. TypeOK /\ orphans \in SUBSET Request /\ events \in 0..MaxEvents
  BY DEF RecordInv, TypeOK
<1>1. Complete(k) \/ Fail(k)
  BY DEF Refused
<1> QED BY <1>0, <1>1, Ends, TaskOnlyStep DEF Refused

\* ServeGet.
LEMMA ServeGetOK ==
  ASSUME RecordInv, NEW k \in Keys, ServeGet(k)
  PROVE  RecordInv'
<1>0. /\ TypeOK /\ TaskIsTrue(k) /\ task[k] \in Task
      /\ orphans \in SUBSET Request /\ events \in 0..MaxEvents /\ failures \in Nat
      /\ hist[k] \in Seq(Version)
  BY DEF RecordInv, TypeOK
<1>1. PICK v \in 1..Len(hist[k]) : task' = [task EXCEPT ![k] = [@ EXCEPT
         !.pc = IF hist[k][v].content = Deleted THEN "refused" ELSE "fetched",
         !.newVer = v, !.content = hist[k][v].content]]
  BY DEF ServeGet, remoteVer
<1> DEFINE p == IF hist[k][v].content = Deleted THEN "refused" ELSE "fetched"
           t == [task[k] EXCEPT !.pc = p, !.newVer = v, !.content = hist[k][v].content]
<1>2. p \in {"refused", "fetched"} /\ p \in Steps /\ v \in Nat
  BY <1>0 DEF Steps, Answered
<1>3. hist[k][v].content \in RemoteContent
  <2>1. hist[k][v] \in Version
    BY <1>0, <1>1
  <2> QED BY <2>1 DEF Version
<1>4. task' = [task EXCEPT ![k] = t]
  BY <1>1
<1> HIDE DEF p
<1>5. /\ t \in Task /\ t.pc = p /\ t.newVer = v /\ t.content = hist[k][v].content
  BY <1>0, <1>2, <1>3 DEF Task
<1> HIDE DEF t
<1>6. /\ task' \in [Keys -> Task] /\ task'[k] = t
      /\ \A j \in Keys \ {k} : task'[j] = task[j]
  BY <1>0, <1>4, <1>5, MovedTask
<1>7. TaskIsTrue(k)'
  BY <1>2, <1>5, <1>6 DEF TaskIsTrue, ServeGet
<1> QED BY <1>0, <1>6, <1>7, TaskOnlyStep DEF ServeGet

\* ServeHead.
LEMMA ServeHeadOK ==
  ASSUME RecordInv, NEW k \in Keys, ServeHead(k)
  PROVE  RecordInv'
<1>0. /\ TypeOK /\ TaskIsTrue(k) /\ task[k] \in Task
      /\ orphans \in SUBSET Request /\ events \in 0..MaxEvents /\ failures \in Nat
      /\ hist[k] \in Seq(Version) /\ Len(hist[k]) \in Nat
  BY DEF RecordInv, TypeOK
<1>1. CASE task' = [task EXCEPT ![k] = [@ EXCEPT !.pc = "headed", !.remoteErr = "notFound"]]
  <2> DEFINE t == [task[k] EXCEPT !.pc = "headed", !.remoteErr = "notFound"]
  <2>1. t \in Task /\ t.pc = "headed" /\ t.remoteErr = "notFound"
    BY <1>0 DEF Task, Steps, RemoteErrors
  <2>2. task' = [task EXCEPT ![k] = t]
    BY <1>1
  <2> HIDE DEF t
  <2>3. /\ task' \in [Keys -> Task] /\ task'[k] = t
        /\ \A j \in Keys \ {k} : task'[j] = task[j]
    BY <1>0, <2>1, <2>2, MovedTask
  <2>4. TaskIsTrue(k)'
    BY <2>1, <2>3 DEF TaskIsTrue
  <2> QED BY <1>0, <2>3, <2>4, TaskOnlyStep DEF ServeHead
<1>2. CASE /\ Len(hist[k]) # 0
           /\ LET v == hist[k][Len(hist[k])] IN
              \E s \in {u \in 0..v.time : v.time - u < Second} :
                task' = [task EXCEPT ![k] = [@ EXCEPT !.pc = "headed",
                  !.remoteErr = serverErr(v), !.remoteVer = Len(hist[k]), !.remoteTime = s]]
  <2> DEFINE v == hist[k][Len(hist[k])]
  <2>1. v \in Version /\ Len(hist[k]) \in 1..Len(hist[k])
    BY <1>0, <1>2
  <2>2. serverErr(v) \in RemoteErrors /\ (serverErr(v) = "tombstone" => v.content = Deleted)
    BY DEF serverErr, RemoteErrors
  <2>3. PICK s \in 0..v.time :
          task' = [task EXCEPT ![k] = [@ EXCEPT !.pc = "headed",
                  !.remoteErr = serverErr(v), !.remoteVer = Len(hist[k]), !.remoteTime = s]]
    BY <1>2
  <2>4. s \in Nat
    BY <2>1, <2>3 DEF Version
  <2> DEFINE e == serverErr(v)
             t == [task[k] EXCEPT !.pc = "headed", !.remoteErr = e,
                                  !.remoteVer = Len(hist[k]), !.remoteTime = s]
  <2>5. task' = [task EXCEPT ![k] = t]
    BY <2>3
  <2>6. e \in RemoteErrors /\ (e = "tombstone" => hist[k][Len(hist[k])].content = Deleted)
    BY <2>2
  <2> HIDE DEF e, v
  <2>7. t \in Task /\ t.pc = "headed" /\ t.remoteErr = e /\ t.remoteVer = Len(hist[k])
    BY <1>0, <2>4, <2>6 DEF Task, Steps
  <2> HIDE DEF t
  <2>8. /\ task' \in [Keys -> Task] /\ task'[k] = t
        /\ \A j \in Keys \ {k} : task'[j] = task[j]
    BY <1>0, <2>5, <2>7, MovedTask
  <2>9. TaskIsTrue(k)'
    BY <2>1, <2>6, <2>7, <2>8 DEF TaskIsTrue, ServeHead
  <2> QED BY <1>0, <2>8, <2>9, TaskOnlyStep DEF ServeHead
<1> QED BY <1>1, <1>2 DEF ServeHead, remoteVer

\* RequestFails.
LEMMA RequestFailsOK ==
  ASSUME RecordInv, NEW k \in Keys, RequestFails(k)
  PROVE  RecordInv'
<1>0. /\ TypeOK /\ TaskIsTrue(k) /\ task[k] \in Task /\ failures \in Nat
  BY DEF RecordInv, TypeOK
<1>1. orphans' \in SUBSET Request /\ events' \in 0..MaxEvents
  <2>1. ASSUME NEW j \in UnderWay PROVE RequestOf(j) \in Request
    <3>1. /\ j \in Keys /\ task[j].pc \in {"put", "del"} /\ task[j].content \in Content
          /\ task[j].remoteVer \in Nat
      BY DEF UnderWay, RecordInv, TaskIsTrue, TypeOK, Task
    <3> QED BY <3>1 DEF RequestOf, Request
  <2>2. events' \in 0..MaxEvents
    BY <1>0, KVAssumption DEF RequestFails, Event, TypeOK
  <2> QED BY <1>0, <2>1, <2>2 DEF RequestFails, TypeOK
<1>2. CASE Fail(k)
  BY <1>0, <1>1, <1>2, Ends, TaskOnlyStep DEF RequestFails
<1>3. CASE /\ task' = [task EXCEPT ![k] = [@ EXCEPT !.pc = "headed", !.remoteErr = "unknown"]]
           /\ UNCHANGED failures
  <2> DEFINE t == [task[k] EXCEPT !.pc = "headed", !.remoteErr = "unknown"]
  <2>1. t \in Task /\ t.pc = "headed" /\ t.remoteErr = "unknown"
    BY <1>0 DEF Task, Steps, RemoteErrors
  <2>2. task' = [task EXCEPT ![k] = t]
    BY <1>3
  <2> HIDE DEF t
  <2>3. /\ task' \in [Keys -> Task] /\ task'[k] = t
        /\ \A j \in Keys \ {k} : task'[j] = task[j]
    BY <1>0, <2>1, <2>2, MovedTask
  <2>4. TaskIsTrue(k)'
    BY <2>1, <2>3 DEF TaskIsTrue
  <2> QED BY <1>0, <1>1, <1>3, <2>3, <2>4, TaskOnlyStep DEF RequestFails
<1> QED BY <1>2, <1>3 DEF RequestFails

----------------------------------------------------------------------------
(* Steps of the server. *)

\* Store appends a version with the content given.
LEMMA StoreAppends ==
  ASSUME TypeOK, NEW k \in Keys, NEW c \in RemoteContent, Store(k, c)
  PROVE  /\ HistGrows
         /\ Len(hist[k]) \in Nat
         /\ Len(hist'[k]) = Len(hist[k]) + 1
         /\ hist'[k][Len(hist[k]) + 1].content = c
<1> DEFINE v == [content |-> c, time |-> serverTime]
<1>1. v \in Version /\ v.content = c
  BY KVAssumption DEF Version, serverTime, TypeOK
<1>2. hist \in [Keys -> Seq(Version)] /\ hist' = [hist EXCEPT ![k] = Append(@, v)]
  BY DEF TypeOK, Store
<1> HIDE DEF v
<1>3. /\ HistGrows /\ Len(hist'[k]) = Len(hist[k]) + 1
      /\ hist'[k][Len(hist[k]) + 1] = v
  BY <1>1, <1>2, AppendVersion
<1> QED BY <1>1, <1>2, <1>3

\* What Answer leaves behind.
LEMMA Answers ==
  ASSUME TypeOK, NEW k \in Keys, NEW pc \in Steps, NEW n \in Nat, Answer(k, pc, n)
  PROVE  /\ task' \in [Keys -> Task]
         /\ \A j \in Keys \ {k} : task'[j] = task[j]
         /\ task'[k].pc = pc /\ task'[k].newVer = n /\ task'[k].content = task[k].content
         /\ task'[k].localVer = task[k].localVer
<1> DEFINE t == [task[k] EXCEPT !.pc = pc, !.newVer = n]
<1>1. task[k] \in Task
  BY DEF TypeOK
<1>2. /\ t \in Task /\ t.pc = pc /\ t.newVer = n
      /\ t.content = task[k].content /\ t.localVer = task[k].localVer
  BY <1>1 DEF Task
<1>3. task' = [task EXCEPT ![k] = t]
  BY DEF Answer
<1> HIDE DEF t
<1> QED BY <1>2, <1>3, MovedTask

\* ServePut and ServeDel: an accepted request stores what the task sent.
LEMMA ServeWriteOK ==
  ASSUME RecordInv, NEW k \in Keys, ServePut(k) \/ ServeDel(k)
  PROVE  RecordInv'
<1>0. /\ TypeOK /\ RowsGrow /\ TaskIsTrue(k) /\ task[k] \in Task
      /\ task[k].pc \in {"put", "del"} /\ task[k].content \in Content
      /\ Len(hist[k]) \in Nat
      /\ UNCHANGED <<rows, linked, syncRunning, phase, listing, failures, orphans, now,
                     events, touched>>
  BY Stutter DEF RecordInv, TypeOK, ServePut, ServeDel, TaskIsTrue
<1>1. CASE Store(k, task[k].content) /\ Answer(k, "acked", Len(hist[k]) + 1)
  <2>1. task[k].content \in RemoteContent /\ "acked" \in Steps /\ Len(hist[k]) + 1 \in Nat
    BY <1>0 DEF RemoteContent, Steps, Answered
  <2>2. /\ HistGrows /\ Len(hist'[k]) = Len(hist[k]) + 1
        /\ hist'[k][Len(hist[k]) + 1].content = task[k].content
    BY <1>0, <1>1, <2>1, StoreAppends
  <2>3. /\ task' \in [Keys -> Task] /\ \A j \in Keys \ {k} : task'[j] = task[j]
        /\ task'[k].pc = "acked" /\ task'[k].newVer = Len(hist[k]) + 1
        /\ task'[k].content = task[k].content /\ task'[k].localVer = task[k].localVer
    BY <1>0, <1>1, <2>1, Answers
  <2>4. TypeOK'
    BY <1>0, <2>2, <2>3 DEF TypeOK, HistGrows
  <2>5. Foreign \notin Content
    BY KVAssumption DEF Content
  <2>6. TaskIsTrue(k)'
    <3>1. task'[k].content = Opened(hist'[k][task'[k].newVer].content)
      BY <1>0, <2>2, <2>3, <2>5 DEF Opened
    <3>2. task'[k].newVer \in 1..Len(hist'[k])
      BY <1>0, <2>2, <2>3
    <3>3. task'[k].localVer >= 1 => /\ task'[k].localVer <= Len(rows'[k])
                                    /\ rows'[k][task'[k].localVer].content = task'[k].content
      BY <1>0, <2>3 DEF TaskIsTrue
    <3> QED BY <2>3, <3>1, <3>2, <3>3 DEF TaskIsTrue, Opened
  <2> QED BY <1>0, <2>2, <2>3, <2>4, <2>6, OneKeyStep
<1>2. CASE UNCHANGED hist /\ \E p \in {"refused", "gone"} : Answer(k, p, 0)
  <2>1. PICK p \in {"refused", "gone"} : Answer(k, p, 0)
    BY <1>2
  <2>2. p \in Steps
    BY DEF Steps, Answered
  <2>3. /\ task' \in [Keys -> Task] /\ \A j \in Keys \ {k} : task'[j] = task[j]
        /\ task'[k].pc = p
    BY <1>0, <2>1, <2>2, Answers
  <2>4. TaskIsTrue(k)'
    BY <2>1, <2>3, NothingClaimed
  <2>5. failures' \in Nat /\ orphans' \in SUBSET Request /\ events' \in 0..MaxEvents
    BY <1>0 DEF TypeOK
  <2> QED BY <1>0, <1>2, <2>3, <2>4, <2>5, TaskOnlyStep
<1>3. CASE ServePut(k)
  BY <1>1, <1>2, <1>3 DEF ServePut, remoteVer
<1>4. CASE ServeDel(k)
  <2>1. task[k].content = Deleted
    BY <1>0, <1>4 DEF ServeDel, TaskIsTrue
  <2> QED BY <1>1, <1>2, <1>4, <2>1 DEF ServeDel, remoteVer
<1> QED BY <1>3, <1>4

\* A version that appears on the server without this device's doing: written by
\* another device, or by a request of ours that nobody waits for.
LEMMA ForeignVersionOK ==
  ASSUME RecordInv, NEW k \in Keys, NEW c \in RemoteContent, Store(k, c), TypeOK',
         UNCHANGED <<rows, listing, task>>
  PROVE  RecordInv'
<1>1. TypeOK /\ RowsGrow /\ HistGrows /\ TaskIsTrue(k)
  BY Stutter, StoreAppends DEF RecordInv
<1>2. TaskIsTrue(k)'
  BY <1>1, KeepTask
<1> QED BY <1>1, <1>2, OneKeyStep

\* OtherDeviceWrites.
LEMMA OtherDeviceOK ==
  ASSUME RecordInv, NEW k \in Keys, NEW c \in OtherWrites, OtherDeviceWrites(k, c)
  PROVE  RecordInv'
<1>1. TypeOK /\ c \in RemoteContent
  BY KVAssumption DEF RecordInv, RemoteContent, Content
<1>2. HistGrows
  BY <1>1, StoreAppends DEF OtherDeviceWrites
<1>3. touched' \in SUBSET Keys /\ events' \in 0..MaxEvents
  BY <1>1, KVAssumption DEF OtherDeviceWrites, Touch, Event, TypeOK
<1>4. TypeOK'
  BY <1>1, <1>2, <1>3 DEF OtherDeviceWrites, TypeOK, HistGrows
<1> QED BY <1>1, <1>4, ForeignVersionOK DEF OtherDeviceWrites

\* OrphanArrives and OrphanIsLost.
LEMMA OrphanOK ==
  ASSUME RecordInv, NEW r \in orphans, OrphanArrives(r) \/ OrphanIsLost(r)
  PROVE  RecordInv'
<1>1. /\ TypeOK /\ r \in Request /\ orphans' \in SUBSET Request
      /\ UNCHANGED <<rows, linked, syncRunning, phase, listing, task, failures, now, events>>
  BY DEF RecordInv, TypeOK, OrphanArrives, OrphanIsLost
<1>2. r.key \in Keys /\ r.content \in RemoteContent
  BY <1>1 DEF Request, RemoteContent
<1>3. CASE Store(r.key, r.content) /\ Touch(r.key)
  <2>1. HistGrows /\ touched' \in SUBSET Keys
    BY <1>1, <1>2, <1>3, StoreAppends DEF Touch, TypeOK
  <2>2. TypeOK'
    BY <1>1, <2>1 DEF TypeOK, HistGrows
  <2> QED BY <1>1, <1>2, <1>3, <2>2, ForeignVersionOK
<1>4. CASE UNCHANGED <<hist, touched>>
  <2>1. TypeOK'
    BY <1>1, <1>4 DEF TypeOK
  <2>2. TaskIsTrue(r.key)' /\ RowsGrow /\ HistGrows
    <3>1. RowsGrow /\ HistGrows
      BY <1>1, <1>4, Stutter
    <3>2. TaskIsTrue(r.key)
      BY <1>2 DEF RecordInv
    <3> QED BY <1>1, <1>2, <3>1, <3>2, KeepTask
  <2> QED BY <1>1, <1>2, <1>4, <2>1, <2>2, OneKeyStep
<1> QED BY <1>3, <1>4 DEF OrphanArrives, OrphanIsLost

----------------------------------------------------------------------------
(* Steps of the whole store. *)

\* A step that leaves table, server and tasks alone.
LEMMA QuietStep ==
  ASSUME RecordInv, UNCHANGED <<rows, hist, task>>, TypeOK',
         \A k \in Keys : listing'[k] <= Len(hist[k])
  PROVE  RecordInv'
<1>1. TypeOK /\ RowsGrow /\ HistGrows
  BY Stutter DEF RecordInv
<1>2. RecordedVersionIsTrue'
  BY DEF RecordInv, RecordedVersionIsTrue, Opened
<1>3. \A k \in Keys : TaskIsTrue(k)'
  BY <1>1, KeepTask DEF RecordInv
<1> QED BY <1>2, <1>3 DEF RecordInv

\* syncAllKeys, ServeKeys, KeysFail, rmdb and Tick.
LEMMA QuietOK ==
  ASSUME RecordInv, syncAllKeys \/ ServeKeys \/ KeysFail \/ rmdb \/ Tick
  PROVE  RecordInv'
<1>0. TypeOK /\ \A k \in Keys : listing[k] \in Nat /\ Len(hist[k]) \in Nat /\ listing[k] <= Len(hist[k])
  BY DEF RecordInv, TypeOK
<1> USE KVAssumption
<1>1. CASE syncAllKeys
  <2>1. TypeOK'
    BY <1>0, <1>1 DEF syncAllKeys, Event, TypeOK, Phases
  <2> QED BY <1>0, <1>1, <2>1, QuietStep DEF syncAllKeys
<1>2. CASE ServeKeys
  <2>1. listing' = [k \in Keys |-> Len(hist[k])]
    BY <1>2 DEF ServeKeys, remoteVer
  <2>2. TypeOK'
    BY <1>0, <1>2, <2>1 DEF ServeKeys, TypeOK, Phases
  <2> QED BY <1>0, <1>2, <2>1, <2>2, QuietStep DEF ServeKeys
<1>3. CASE KeysFail
  <2>1. TypeOK'
    <3>1. syncRunning' \in BOOLEAN /\ phase' \in Phases /\ listing' \in [Keys -> Nat]
      BY <1>3 DEF KeysFail, Phases
    <3>2. events' \in 0..MaxEvents
      BY <1>0, <1>3 DEF KeysFail, Event, TypeOK
    <3> QED BY <1>0, <1>3, <3>1, <3>2 DEF KeysFail, TypeOK
  <2> QED BY <1>0, <1>3, <2>1, QuietStep DEF KeysFail
<1>4. CASE rmdb
  <2>1. TypeOK'
    <3>1. linked' \in BOOLEAN
      BY <1>4 DEF rmdb
    <3>2. events' \in 0..MaxEvents
      BY <1>0, <1>4 DEF rmdb, Event, TypeOK
    <3> QED BY <1>0, <1>4, <3>1, <3>2 DEF rmdb, TypeOK
  <2> QED BY <1>0, <1>4, <2>1, QuietStep DEF rmdb
<1>5. CASE Tick
  <2>1. TypeOK'
    BY <1>0, <1>5 DEF Tick, TypeOK
  <2> QED BY <1>0, <1>5, <2>1, QuietStep DEF Tick
<1> QED BY <1>1, <1>2, <1>3, <1>4, <1>5

\* KeysArrive: a queued task knows a version the server has.
LEMMA KeysArriveOK ==
  ASSUME RecordInv, KeysArrive
  PROVE  RecordInv'
<1>0. TypeOK /\ RecordedVersionIsTrue /\ UNCHANGED <<rows, hist>>
  BY DEF RecordInv, KeysArrive
<1>1. ASSUME NEW k \in Keys
      PROVE  /\ Queued(k) \in Task
             /\ Queued(k).pc \in {"queued", "idle"}
             /\ Queued(k).remoteErr = "tombstone"
                  => /\ Queued(k).remoteVer \in 1..Len(hist[k])
                     /\ hist[k][Queued(k).remoteVer].content = Deleted
  <2>1. NoTask \in Task /\ NoTask.pc = "idle" /\ NoTask.remoteErr = "nil"
    BY DEF NoTask, Task, Steps, Waiting, Answered, Over, RemoteErrors, RemoteContent, Content
  <2>2. CASE listing[k] > 0
    <3> DEFINE v == hist[k][listing[k]]
               e == serverErr(v)
               t == [NoTask EXCEPT !.pc = "queued", !.remoteVer = listing[k],
                                   !.remoteTime = v.time, !.remoteErr = e]
    <3>1. /\ listing[k] \in Nat /\ Len(hist[k]) \in Nat /\ listing[k] \in 1..Len(hist[k])
          /\ hist[k] \in Seq(Version)
      BY <2>2 DEF RecordInv, TypeOK
    <3>2. v \in Version
      BY <3>1
    <3>3. v.time \in Nat
      BY <3>2 DEF Version
    <3>4. e \in RemoteErrors /\ (e = "tombstone" => v.content = Deleted)
      BY DEF serverErr, RemoteErrors
    <3>5. Queued(k) = t
      BY <2>2 DEF Queued
    <3> HIDE DEF e
    <3>6. t \in Task /\ t.pc = "queued" /\ t.remoteVer = listing[k] /\ t.remoteErr = e
      BY <2>1, <3>1, <3>3, <3>4 DEF Task, Steps
    <3> HIDE DEF t
    <3> QED BY <3>1, <3>4, <3>5, <3>6
  <2>3. CASE ~(listing[k] > 0)
    <3>1. Queued(k) = [NoTask EXCEPT !.pc = "queued"] \/ Queued(k) = NoTask
      BY <2>3 DEF Queued
    <3> DEFINE t == [NoTask EXCEPT !.pc = "queued"]
    <3>2. t \in Task /\ t.pc = "queued" /\ t.remoteErr = "nil"
      BY <2>1 DEF Task, Steps
    <3> HIDE DEF t
    <3>3. Queued(k) = t \/ Queued(k) = NoTask
      BY <3>1 DEF t
    <3> QED BY <2>1, <3>2, <3>3
  <2> QED BY <2>2, <2>3
<1>2. task' = [k \in Keys |-> Queued(k)]
  BY DEF KeysArrive
<1>3. TypeOK'
  <2>1. task' \in [Keys -> Task]
    BY <1>1, <1>2
  <2> QED BY <1>0, <2>1 DEF KeysArrive, TypeOK, Phases
<1>4. ASSUME NEW k \in Keys PROVE TaskIsTrue(k)'
  <2>1. task'[k] = Queued(k)
    BY <1>2
  <2> QED BY <1>0, <1>1, <2>1 DEF TaskIsTrue
<1>5. RecordedVersionIsTrue'
  BY <1>0 DEF RecordedVersionIsTrue, Opened
<1>6. \A k \in Keys : listing'[k] = 0 /\ Len(hist'[k]) \in Nat
  BY <1>3 DEF KeysArrive, TypeOK
<1> QED BY <1>3, <1>4, <1>5, <1>6 DEF RecordInv

\* FinishSync and Restart: no task is left; a restart may lose the whole table.
LEMMA ResetOK ==
  ASSUME RecordInv, FinishSync \/ Restart
  PROVE  RecordInv'
<1>0. TypeOK /\ RecordedVersionIsTrue /\ UNCHANGED hist /\ task' = [k \in Keys |-> NoTask]
  BY DEF RecordInv, FinishSync, Restart
<1>1. NoTask \in Task /\ NoTask.pc = "idle"
  BY DEF NoTask, Task, Steps, Waiting, Answered, Over, RemoteErrors, RemoteContent, Content
<1>2. rows' = rows \/ rows' = [k \in Keys |-> << >>]
  BY DEF FinishSync, Restart
<1>3. rows' \in [Keys -> Seq(Row)]
  <2>1. << >> \in Seq(Row)
    OBVIOUS
  <2> QED BY <1>0, <1>2, <2>1 DEF TypeOK
<1>4. ASSUME NEW j \in UnderWay PROVE RequestOf(j) \in Request
  <2>1. /\ j \in Keys /\ task[j].pc \in {"put", "del"} /\ task[j].content \in Content
        /\ task[j].remoteVer \in Nat
    BY DEF UnderWay, RecordInv, TaskIsTrue, TypeOK, Task
  <2> QED BY <2>1 DEF RequestOf, Request
<1>5. TypeOK'
  <2>1. task' \in [Keys -> Task]
    BY <1>0, <1>1
  <2>2. orphans' \in SUBSET Request
    BY <1>0, <1>4 DEF FinishSync, Restart, TypeOK
  <2>3. events' \in 0..MaxEvents
    BY <1>0, KVAssumption DEF FinishSync, Restart, Event, TypeOK
  <2>4. listing' \in [Keys -> Nat] /\ failures' \in Nat /\ touched' \in SUBSET Keys
    BY <1>0 DEF FinishSync, Restart, TypeOK
  <2>5. linked' \in BOOLEAN /\ syncRunning' \in BOOLEAN /\ phase' \in Phases /\ now' \in Nat
    BY <1>0 DEF FinishSync, Restart, TypeOK, Phases
  <2> QED BY <1>0, <1>3, <2>1, <2>2, <2>3, <2>4, <2>5 DEF TypeOK
<1>6. ASSUME NEW k \in Keys PROVE TaskIsTrue(k)'
  BY <1>0, <1>1, NothingClaimed
<1>7. RecordedVersionIsTrue'
  BY <1>0, <1>2 DEF RecordedVersionIsTrue, Opened
<1>8. ASSUME NEW k \in Keys PROVE listing'[k] <= Len(hist'[k])
  <2>1. listing'[k] = 0 \/ listing'[k] = listing[k]
    BY DEF FinishSync, Restart
  <2>2. Len(hist[k]) \in Nat /\ listing[k] <= Len(hist[k])
    BY DEF RecordInv, TypeOK
  <2> QED BY <1>0, <2>1, <2>2
<1> QED BY <1>5, <1>6, <1>7, <1>8 DEF RecordInv

\* TransactionThrows: the task is over, or abandoned.
LEMMA ThrowsOK ==
  ASSUME RecordInv, NEW k \in Keys, TransactionThrows(k)
  PROVE  RecordInv'
<1>0. /\ TypeOK /\ failures \in Nat /\ orphans \in SUBSET Request /\ events' \in 0..MaxEvents
  BY KVAssumption DEF RecordInv, TransactionThrows, Event, TypeOK
<1>1. CASE Fail(k)
  BY <1>0, <1>1, Ends, TaskOnlyStep DEF TransactionThrows
<1>2. CASE task' = [task EXCEPT ![k] = Finished("abandoned")] /\ UNCHANGED failures
  <2> DEFINE t == Finished("abandoned")
  <2>1. t \in Task /\ t.pc = "abandoned"
    BY DEF Finished, NoTask, Task, Steps, Waiting, Answered, Over, RemoteErrors, RemoteContent,
           Content
  <2>2. task' = [task EXCEPT ![k] = t]
    BY <1>2
  <2> HIDE DEF t
  <2>3. /\ task' \in [Keys -> Task] /\ task'[k] = t
        /\ \A j \in Keys \ {k} : task'[j] = task[j]
    BY <1>0, <2>1, <2>2, MovedTask
  <2>4. TaskIsTrue(k)'
    BY <2>1, <2>3, NothingClaimed
  <2> QED BY <1>0, <1>2, <2>3, <2>4, TaskOnlyStep DEF TransactionThrows
<1> QED BY <1>1, <1>2 DEF TransactionThrows, Throw

----------------------------------------------------------------------------

\* Every step preserves the invariant.
LEMMA StepOK == RecordInv /\ [Next]_vars => RecordInv'
<1> SUFFICES ASSUME RecordInv, [Next]_vars PROVE RecordInv'
  OBVIOUS
<1>1. CASE UNCHANGED vars
  <2>1. TypeOK' /\ UNCHANGED <<rows, hist, task, listing>>
    BY <1>1 DEF vars, RecordInv, TypeOK
  <2> QED BY <2>1, QuietStep DEF RecordInv
<1>2. ASSUME NEW k \in Keys, NEW v \in Values, set(k, v) PROVE RecordInv'
  BY <1>2, ClientWrite DEF set, Content
<1>3. ASSUME NEW k \in Keys, del(k) PROVE RecordInv'
  BY <1>3, ClientWrite DEF del, _del, Content
<1>4. ASSUME NEW k \in Keys, Local(k) PROVE RecordInv'
  BY <1>4, ReadOK, DecideOK, DropOK, FetchedOK, RecordOK, RefusedOK DEF Local
<1>5. ASSUME NEW k \in Keys, Serve(k) PROVE RecordInv'
  BY <1>5, ServeWriteOK, ServeGetOK, ServeHeadOK DEF Serve
<1> QED BY <1>1, <1>2, <1>3, <1>4, <1>5, OtherDeviceOK, RequestFailsOK, ThrowsOK, OrphanOK,
           QuietOK, KeysArriveOK, ResetOK DEF Next

\* RecordInv holds in every reachable state.
THEOREM RecordInvariant == Spec => []RecordInv
<1> QED BY InitOK, StepOK, PTL DEF Spec

\* Every variable of the store keeps its type: rows and remote versions are well
\* formed, and a request under way never carries bytes read from the server.
THEOREM TypeCorrect == Spec => []TypeOK
<1>1. RecordInv => TypeOK
  BY DEF RecordInv
<1> QED BY <1>1, RecordInvariant, PTL

\* Every remote version recorded in the table is true, so the shortcut of _syncKey
\* ("if they match, there is nothing to do") never hides a difference.
THEOREM RecordsAreTrue == Spec => []RecordedVersionIsTrue
<1>1. RecordInv => RecordedVersionIsTrue
  BY DEF RecordInv
<1> QED BY <1>1, RecordInvariant, PTL

----------------------------------------------------------------------------
(* One sync at a time, and what a task may write. *)

\* A step of the task of k moves no other task, starts none and leaves the flag and
\* the phase alone.
LEMMA TaskSteps ==
  ASSUME TypeOK, NEW k \in Keys, Local(k) \/ Serve(k) \/ RequestFails(k) \/ TransactionThrows(k)
  PROVE  /\ task[k].pc # "idle"
         /\ \A j \in Keys \ {k} : task'[j] = task[j]
         /\ UNCHANGED <<syncRunning, phase>>
<1>1. task[k].pc # "idle" /\ UNCHANGED <<syncRunning, phase>>
  BY DEF Local, Serve, RequestFails, TransactionThrows, ReadRecorded, Decide, DropLocally,
         StoreFetched, RecordRemote, Refused, ServePut, ServeDel, ServeGet, ServeHead, Waiting, Answered
<1>2. \E t : task' = [task EXCEPT ![k] = t]
  <2>1. CASE Local(k)
    BY <2>1 DEF Local, ReadRecorded, Decide, DropLocally, StoreFetched, RecordRemote,
                Refused, Complete, Fail, Advance
  <2>2. CASE Serve(k)
    BY <2>2 DEF Serve, ServePut, ServeDel, ServeGet, ServeHead, Answer
  <2>3. CASE RequestFails(k)
    BY <2>3 DEF RequestFails, Fail
  <2>4. CASE TransactionThrows(k)
    BY <2>4 DEF TransactionThrows, Throw, Fail
  <2> QED BY <2>1, <2>2, <2>3, <2>4
<1> QED BY <1>1, <1>2 DEF TypeOK

\* SyncInv is preserved by every step.
LEMMA SyncStep == TypeOK /\ SyncInv /\ [Next]_vars => SyncInv'
<1> SUFFICES ASSUME TypeOK, SyncInv, [Next]_vars PROVE SyncInv'
  OBVIOUS
<1>1. ASSUME NEW k \in Keys, AfterLocalWrite(k) PROVE SyncInv'
  <2>1. CASE UNCHANGED <<syncRunning, phase, task>>
    BY <2>1 DEF SyncInv
  <2>2. CASE syncRunning' = TRUE /\ phase' = "single"
    BY <2>2 DEF SyncInv
  <2> QED BY <1>1, <2>1, <2>2 DEF AfterLocalWrite
<1>2. ASSUME NEW k \in Keys, Local(k) \/ Serve(k) \/ RequestFails(k) \/ TransactionThrows(k) PROVE SyncInv'
  BY <1>2, TaskSteps DEF SyncInv
<1>3. CASE UNCHANGED <<syncRunning, phase, task>>
  BY <1>3 DEF SyncInv
<1>4. CASE syncAllKeys \/ ServeKeys
  BY <1>4 DEF syncAllKeys, ServeKeys, SyncInv
<1>5. CASE KeysFail
  BY <1>5 DEF KeysFail, SyncInv
<1>6. CASE KeysArrive
  BY <1>6 DEF KeysArrive, SyncInv
<1>7. CASE FinishSync \/ Restart
  <2>1. \A k \in Keys : task'[k].pc = "idle"
    BY <1>7 DEF FinishSync, Restart, NoTask
  <2> QED BY <1>7, <2>1 DEF FinishSync, Restart, SyncInv
<1> QED BY <1>1, <1>2, <1>3, <1>4, <1>5, <1>6, <1>7
        DEF Next, vars, set, del, OtherDeviceWrites, OrphanArrives, OrphanIsLost, rmdb, Tick

\* SyncInv holds in every reachable state.
LEMMA SyncInvariant == Spec => []SyncInv
<1>1. Init => SyncInv
  BY DEF Init, SyncInv, NoTask
<1> QED BY <1>1, SyncStep, TypeCorrect, PTL DEF Spec

\* _syncKey works on a key only while syncRunning keeps other syncs out.
THEOREM OneSyncAtATime == Spec => []TasksOnlyWhileSyncing
<1>1. SyncInv => TasksOnlyWhileSyncing
  BY DEF SyncInv, TasksOnlyWhileSyncing
<1> QED BY <1>1, SyncInvariant, PTL

\* What a task of k writes follows the version it holds; writes by clients move no
\* task that is under way.
LEMMA WriteStep ==
  ASSUME TypeOK, SyncInv, [Next]_vars, NEW k \in Keys, rows'[k] # rows[k],
         task'[k] # task[k], task[k].pc # "idle", task'[k].pc # "idle"
  PROVE  Len(rows[k]) = task[k].localVer
<1>1. ASSUME NEW j \in Keys, AfterLocalWrite(j) PROVE FALSE
  BY <1>1 DEF AfterLocalWrite, SyncInv
<1>2. CASE rows' = rows \/ task' = task
  BY <1>2
<1>3. CASE KeysArrive \/ FinishSync
  BY <1>3 DEF KeysArrive, FinishSync
<1>4. CASE Restart
  BY <1>4 DEF Restart, NoTask
<1>5. ASSUME NEW j \in Keys, Local(j) PROVE Len(rows[k]) = task[k].localVer
  <2>1. j = k
    BY <1>5, TaskSteps
  <2>2. MayWrite(k, task[k].localVer)
    BY <1>5, <2>1 DEF Local, ReadRecorded, Decide, DropLocally, StoreFetched, RecordRemote,
                      Refused
  <2> QED BY <2>2 DEF MayWrite, localVersion
<1> QED BY <1>1, <1>2, <1>3, <1>4, <1>5
        DEF Next, vars, set, del, OtherDeviceWrites, OrphanArrives, OrphanIsLost, rmdb, Tick,
            Serve, ServePut, ServeDel, ServeGet, ServeHead, RequestFails, TransactionThrows,
            syncAllKeys, ServeKeys, KeysFail

\* An edit made while a task waits for the server is never buried by the row the
\* task writes afterwards.
THEOREM EditsAreKept == Spec => TasksKeepEdits
<1> DEFINE A == \A k \in Keys :
       (rows'[k] # rows[k] /\ task'[k] # task[k] /\ task[k].pc # "idle" /\ task'[k].pc # "idle")
         => Len(rows[k]) = task[k].localVer
<1>1. TypeOK /\ SyncInv /\ [Next]_vars => [A]_vars
  BY WriteStep
<1> QED BY <1>1, TypeCorrect, SyncInvariant, PTL DEF Spec, TasksKeepEdits

-----------------------------------------------------------------------------
(* A sync that reports success has brought the stores into agreement.      *)
(*                                                                         *)
(* The argument follows one key that nobody else changes while the sync    *)
(* runs.  The version its task compares with is then the newest one on the *)
(* server and the row it read is the newest one of the table, from the     *)
(* listing to the end of the task, so that what RecordInv knows of these   *)
(* two is what LocalView and ServerView say.  A task that does not get so  *)
(* far leaves a failure behind, and lost increments never bring the        *)
(* counter back to 0.                                                      *)

\* The task of a key that nobody else touches works on the newest versions of both sides.
TaskIsCurrent(k) ==
  LET t == task[k] IN
  /\ t.pc \in {"idle", "gone", "ok"} => Agree(k)
  /\ t.pc \in {"queued", "read", "drop", "get"} => t.remoteVer = Len(hist[k])
  /\ t.pc \in {"drop", "put", "del", "get", "fetched", "mark", "acked"}
       => t.localVer = Len(rows[k])
  /\ t.pc \in {"fetched", "mark", "acked"} => t.newVer = Len(hist[k])

\* The inductive invariant.  The tasks of syncAllKeys never ask the server for a version
\* (only syncKey does): the listing told them.
CurrentInv ==
  /\ phase = "listed" => \A k \in Keys \ touched : listing[k] = Len(hist[k])
  /\ phase = "tasks" =>
       \A k \in Keys : /\ task[k].pc \notin {"head", "headed"}
                       /\ task[k].pc = "failed" => failures > 0
                       /\ k \notin touched => TaskIsCurrent(k)

\* The table and the server are changed for no key but k.
OnlyKey(k) == \A j \in Keys \ {k} : rows'[j] = rows[j] /\ hist'[j] = hist[j]

\* The stores agree when the newest row and the newest version say the same.
LEMMA AgreeNext ==
  ASSUME TypeOK', NEW k \in Keys, NEW c,
         IF Len(rows'[k]) = 0 THEN c = Deleted ELSE rows'[k][Len(rows'[k])].content = c,
         IF Len(hist'[k]) = 0 THEN c = Deleted
                              ELSE Opened(hist'[k][Len(hist'[k])].content) = c
  PROVE  Agree(k)'
<1>1. rows'[k] \in Seq(Row) /\ hist'[k] \in Seq(Version)
  BY DEF TypeOK
<1>2. /\ rows'[k] = << >> <=> Len(rows'[k]) = 0
      /\ hist'[k] = << >> <=> Len(hist'[k]) = 0
  BY <1>1
<1>3. LocalView(k)' = c
  BY <1>2 DEF LocalView, localContent
<1>4. ServerView(k)' = c
  BY <1>2 DEF ServerView, Opened
<1> QED BY <1>3, <1>4 DEF Agree

\* What the table and the server say of k is the same when neither changes.
LEMMA CurrentStays ==
  ASSUME NEW k \in Keys, TaskIsCurrent(k), task'[k] = task[k], rows'[k] = rows[k],
         hist'[k] = hist[k]
  PROVE  TaskIsCurrent(k)'
BY DEF TaskIsCurrent, Agree, LocalView, ServerView, localContent, Opened

\* A step of the task of k during syncAllKeys has to care for k only.
LEMMA OneKeyCurrent ==
  ASSUME CurrentInv, phase = "tasks", UNCHANGED <<phase, touched>>, NEW k \in Keys,
         OnlyKey(k), \A j \in Keys \ {k} : task'[j] = task[j],
         failures > 0 => failures' > 0,
         task'[k].pc \notin {"head", "headed"},
         task'[k].pc = "failed" => failures' > 0,
         k \notin touched => TaskIsCurrent(k)'
  PROVE  CurrentInv'
<1>1. ASSUME NEW j \in Keys
      PROVE  /\ task'[j].pc \notin {"head", "headed"}
             /\ task'[j].pc = "failed" => failures' > 0
             /\ j \notin touched => TaskIsCurrent(j)'
  <2>1. CASE j = k
    BY <2>1
  <2>2. CASE j # k
    <3>1. task'[j] = task[j] /\ rows'[j] = rows[j] /\ hist'[j] = hist[j]
      BY <2>2 DEF OnlyKey
    <3> QED BY <3>1, CurrentStays DEF CurrentInv
  <2> QED BY <2>1, <2>2
<1> QED BY <1>1 DEF CurrentInv

\* A task that fails is counted, whatever increments are lost.
LEMMA FailCurrent ==
  ASSUME TypeOK, CurrentInv, phase = "tasks", UNCHANGED <<phase, touched>>, NEW k \in Keys,
         OnlyKey(k), Fail(k)
  PROVE  CurrentInv'
<1>1. /\ task'[k].pc = "failed" /\ failures' > 0
      /\ \A j \in Keys \ {k} : task'[j] = task[j]
  BY DEF Fail, Finished, NoTask, TypeOK
<1>2. TaskIsCurrent(k)'
  BY <1>1 DEF TaskIsCurrent
<1> QED BY <1>1, <1>2, OneKeyCurrent

\* A task that completes has brought its key into agreement.
LEMMA CompleteCurrent ==
  ASSUME TypeOK, CurrentInv, phase = "tasks", UNCHANGED <<phase, touched>>, NEW k \in Keys,
         OnlyKey(k), Complete(k), k \notin touched => Agree(k)'
  PROVE  CurrentInv'
<1>1. /\ task'[k].pc = "ok" /\ failures' = failures
      /\ \A j \in Keys \ {k} : task'[j] = task[j]
  BY DEF Complete, Finished, NoTask, TypeOK
<1>2. k \notin touched => TaskIsCurrent(k)'
  BY <1>1 DEF TaskIsCurrent
<1> QED BY <1>1, <1>2, OneKeyCurrent

----------------------------------------------------------------------------
(* The steps of a task. *)

\* ReadRecorded completes a task only when the recorded version is the newest.
LEMMA ReadCurrent ==
  ASSUME RecordInv, TypeOK', CurrentInv, phase = "tasks", NEW k \in Keys, ReadRecorded(k)
  PROVE  CurrentInv'
<1>0. /\ TypeOK /\ RecordedVersionIsTrue /\ task[k] \in Task /\ OnlyKey(k)
      /\ UNCHANGED <<rows, hist, phase, touched>>
      /\ rows[k] \in Seq(Row) /\ Len(rows[k]) \in Nat /\ Len(hist[k]) \in Nat
  BY DEF RecordInv, TypeOK, ReadRecorded, OnlyKey
<1>1. task[k].pc = "queued"
  BY DEF ReadRecorded, CurrentInv
<1>2. CASE UpToDate(k)
  <2>1. Complete(k)
    BY <1>2 DEF ReadRecorded
  <2>2. ASSUME k \notin touched PROVE Agree(k)'
    <3>1. task[k].remoteVer = Len(hist[k])
      BY <1>1, <2>2 DEF CurrentInv, TaskIsCurrent
    <3>2. rows[k] # << >> /\ rows[k][Len(rows[k])].remoteVer = Len(hist[k]) /\ Len(hist[k]) > 0
      BY <1>2, <3>1 DEF UpToDate, remoteVersion
    <3>3. Len(rows[k]) \in 1..Len(rows[k])
      BY <1>0, <3>2
    <3>4. rows[k][Len(rows[k])].content = Opened(hist[k][Len(hist[k])].content)
      BY <1>0, <3>2, <3>3 DEF RecordedVersionIsTrue
    <3> QED BY <1>0, <3>2, <3>3, <3>4, AgreeNext
  <2> QED BY <1>0, <2>1, <2>2, CompleteCurrent
<1>3. CASE ~UpToDate(k)
  <2> DEFINE t == [task[k] EXCEPT !.pc = "read", !.recorded = remoteVersion(k)]
  <2>1. t.pc = "read" /\ t.remoteVer = task[k].remoteVer
    BY <1>0 DEF Task
  <2>2. task' = [task EXCEPT ![k] = t] /\ UNCHANGED failures
    BY <1>3 DEF ReadRecorded
  <2> HIDE DEF t
  <2>3. task'[k] = t /\ \A j \in Keys \ {k} : task'[j] = task[j]
    BY <1>0, <2>2 DEF TypeOK
  <2>4. k \notin touched => TaskIsCurrent(k)'
    BY <1>0, <1>1, <2>1, <2>3 DEF CurrentInv, TaskIsCurrent
  <2> QED BY <1>0, <2>1, <2>2, <2>3, <2>4, OneKeyCurrent
<1> QED BY <1>2, <1>3

\* Decide keeps the versions it compared.
LEMMA DecideCurrent ==
  ASSUME RecordInv, CurrentInv, phase = "tasks", NEW k \in Keys, Decide(k)
  PROVE  CurrentInv'
<1>0. /\ TypeOK /\ task[k] \in Task /\ OnlyKey(k) /\ task[k].pc = "read"
      /\ UNCHANGED <<rows, hist, phase, touched>>
  BY DEF RecordInv, TypeOK, Decide, OnlyKey
<1>1. CASE Fail(k)
  BY <1>0, <1>1, FailCurrent
<1>2. CASE /\ task' = [task EXCEPT ![k] = [@ EXCEPT
               !.pc = NextStep(k),
               !.remoteVer = IF NextStep(k) = "put" THEN useRemoteVer(k) ELSE task[k].remoteVer,
               !.localVer = localVersion(k),
               !.content = localContent(k),
               !.newVer = IF NextStep(k) = "mark" THEN task[k].remoteVer ELSE 0]]
           /\ UNCHANGED failures
  <2> DEFINE p == NextStep(k)
             u == IF p = "put" THEN useRemoteVer(k) ELSE task[k].remoteVer
             n == IF p = "mark" THEN task[k].remoteVer ELSE 0
             t == [task[k] EXCEPT !.pc = p, !.remoteVer = u, !.localVer = localVersion(k),
                                  !.content = localContent(k), !.newVer = n]
  <2>1. p \in {"mark", "del", "put", "drop", "get"}
    BY DEF NextStep
  <2>2. task' = [task EXCEPT ![k] = t]
    BY <1>2
  <2> HIDE DEF p
  <2>3. /\ p # "put" => u = task[k].remoteVer
        /\ p = "mark" => n = task[k].remoteVer
    OBVIOUS
  <2> HIDE DEF u, n
  <2>4. t.pc = p /\ t.remoteVer = u /\ t.localVer = Len(rows[k]) /\ t.newVer = n
    BY <1>0 DEF Task, localVersion
  <2> HIDE DEF t
  <2>5. task'[k] = t /\ \A j \in Keys \ {k} : task'[j] = task[j]
    BY <1>0, <2>2 DEF TypeOK
  <2>6. k \notin touched => task[k].remoteVer = Len(hist[k])
    BY <1>0 DEF CurrentInv, TaskIsCurrent
  <2>7. k \notin touched => TaskIsCurrent(k)'
    BY <1>0, <2>1, <2>3, <2>4, <2>5, <2>6 DEF TaskIsCurrent
  <2> QED BY <1>0, <1>2, <2>1, <2>4, <2>5, <2>7, OneKeyCurrent
<1> QED BY <1>1, <1>2 DEF Decide

\* DropLocally: a tombstone as the newest version, and no row or a row that says Deleted.
LEMMA DropCurrent ==
  ASSUME RecordInv, TypeOK', CurrentInv, phase = "tasks", NEW k \in Keys, DropLocally(k)
  PROVE  CurrentInv'
<1>0. /\ TypeOK /\ task[k] \in Task /\ TaskIsTrue(k) /\ task[k].pc = "drop"
      /\ UNCHANGED <<hist, phase, touched>> /\ Len(hist[k]) \in Nat
      /\ Opened(Deleted) = Deleted
  BY KVAssumption DEF RecordInv, TypeOK, DropLocally, Opened
<1>1. CASE task[k].localVer = 0
  <2>1. Complete(k) /\ UNCHANGED rows /\ OnlyKey(k)
    BY <1>0, <1>1 DEF DropLocally, OnlyKey
  <2>2. ASSUME k \notin touched PROVE Agree(k)'
    <3>1. task[k].remoteVer = Len(hist[k]) /\ Len(rows[k]) = 0
      BY <1>0, <1>1, <2>2 DEF CurrentInv, TaskIsCurrent
    <3>2. hist[k][Len(hist[k])].content = Deleted
      BY <1>0, <3>1 DEF TaskIsTrue
    <3> QED BY <1>0, <2>1, <3>1, <3>2, AgreeNext
  <2> QED BY <1>0, <2>1, <2>2, CompleteCurrent
<1>2. CASE /\ MayWrite(k, task[k].localVer) /\ _del(k)
           /\ Advance(k, "mark", task[k].localVer + 1, task[k].remoteVer, Deleted)
           /\ UNCHANGED failures
  <2>1. /\ \A j \in Keys \ {k} : rows'[j] = rows[j]
        /\ Len(rows'[k]) = Len(rows[k]) + 1
    BY <1>0, <1>2, SetAppends DEF _del, Content
  <2>2. task[k].localVer = Len(rows[k]) /\ Len(rows[k]) \in Nat
    BY <1>0, <1>2 DEF MayWrite, localVersion, TypeOK
  <2>3. /\ \A j \in Keys \ {k} : task'[j] = task[j]
        /\ task'[k].pc = "mark" /\ task'[k].localVer = Len(rows[k]) + 1
        /\ task'[k].newVer = task[k].remoteVer
    <3>1. /\ "mark" \in Steps /\ Deleted \in RemoteContent /\ task[k].localVer + 1 \in Nat
          /\ task[k].remoteVer \in Nat
      BY <1>0, <2>2 DEF Steps, RemoteContent, Content, Task
    <3> QED BY <1>0, <1>2, <2>2, <3>1, Advances
  <2>4. k \notin touched => task[k].remoteVer = Len(hist[k])
    BY <1>0 DEF CurrentInv, TaskIsCurrent
  <2>5. k \notin touched => TaskIsCurrent(k)'
    BY <1>0, <2>1, <2>3, <2>4 DEF TaskIsCurrent
  <2>6. OnlyKey(k)
    BY <1>0, <2>1 DEF OnlyKey
  <2> QED BY <1>0, <1>2, <2>3, <2>5, <2>6, OneKeyCurrent
<1>3. CASE Fail(k) /\ UNCHANGED rows
  BY <1>0, <1>3, FailCurrent DEF OnlyKey
<1> QED BY <1>1, <1>2, <1>3 DEF DropLocally

\* StoreFetched: the newest row is what the newest version says.
LEMMA FetchedCurrent ==
  ASSUME RecordInv, CurrentInv, phase = "tasks", NEW k \in Keys, StoreFetched(k)
  PROVE  CurrentInv'
<1>0. /\ TypeOK /\ task[k] \in Task /\ task[k].pc = "fetched"
      /\ UNCHANGED <<hist, phase, touched>>
  BY DEF RecordInv, TypeOK, StoreFetched
<1>1. CASE Fail(k) /\ (_del(k) \/ UNCHANGED rows)
  <2>1. OnlyKey(k)
    <3>1. CASE _del(k)
      BY <1>0, <3>1, SetAppends DEF _del, Content, OnlyKey
    <3>2. CASE UNCHANGED rows
      BY <1>0, <3>2 DEF OnlyKey
    <3> QED BY <1>1, <3>1, <3>2
  <2> QED BY <1>0, <1>1, <2>1, FailCurrent
<1>2. CASE /\ task[k].content # Corrupt /\ MayWrite(k, task[k].localVer)
           /\ _set(k, Opened(task[k].content))
           /\ Advance(k, "mark", task[k].localVer + 1, task[k].newVer,
                      Opened(task[k].content))
           /\ UNCHANGED failures
  <2> DEFINE c == Opened(task[k].content)
  <2>1. c \in Content /\ c \in RemoteContent
    BY <1>0, <1>2, KVAssumption DEF Task, RemoteContent, Content, Opened
  <2>2. /\ \A j \in Keys \ {k} : rows'[j] = rows[j]
        /\ Len(rows'[k]) = Len(rows[k]) + 1
    BY <1>0, <1>2, <2>1, SetAppends
  <2>3. task[k].localVer = Len(rows[k]) /\ Len(rows[k]) \in Nat
    BY <1>0, <1>2 DEF MayWrite, localVersion, TypeOK
  <2>4. /\ \A j \in Keys \ {k} : task'[j] = task[j]
        /\ task'[k].pc = "mark" /\ task'[k].localVer = Len(rows[k]) + 1
        /\ task'[k].newVer = task[k].newVer
    <3>1. "mark" \in Steps /\ task[k].localVer + 1 \in Nat /\ task[k].newVer \in Nat
      BY <1>0 DEF Steps, Task
    <3> QED BY <1>0, <1>2, <2>1, <2>3, <3>1, Advances
  <2>5. k \notin touched => task[k].newVer = Len(hist[k])
    BY <1>0 DEF CurrentInv, TaskIsCurrent
  <2>6. k \notin touched => TaskIsCurrent(k)'
    BY <1>0, <2>2, <2>4, <2>5 DEF TaskIsCurrent
  <2>7. OnlyKey(k)
    BY <1>0, <2>2 DEF OnlyKey
  <2> QED BY <1>0, <1>2, <2>4, <2>6, <2>7, OneKeyCurrent
<1> QED BY <1>1, <1>2 DEF StoreFetched

\* RecordRemote: the row it appends says what the newest version says.
LEMMA RecordCurrent ==
  ASSUME RecordInv, TypeOK', CurrentInv, phase = "tasks", NEW k \in Keys, RecordRemote(k)
  PROVE  CurrentInv'
<1>0. /\ TypeOK /\ task[k] \in Task /\ TaskIsTrue(k) /\ task[k].pc \in {"mark", "acked"}
      /\ UNCHANGED <<hist, phase, touched>>
  BY DEF RecordInv, TypeOK, RecordRemote
<1>1. CASE Fail(k) /\ UNCHANGED rows
  BY <1>0, <1>1, FailCurrent DEF OnlyKey
<1>2. CASE /\ task[k].localVer >= 1 /\ MayWrite(k, task[k].localVer)
           /\ setRemoteVersion(k, task[k].newVer) /\ Complete(k)
  <2> DEFINE n == Len(rows[k])
             r == [content |-> localContent(k), time |-> now, remoteVer |-> task[k].newVer]
  <2>1. rows[k] \in Seq(Row) /\ n \in Nat /\ n = task[k].localVer /\ n >= 1
    BY <1>0, <1>2 DEF MayWrite, localVersion, TypeOK
  <2>2. localContent(k) = rows[k][n].content
    BY <2>1 DEF localContent
  <2>3. /\ task[k].newVer \in 1..Len(hist[k])
        /\ rows[k][n].content = Opened(hist[k][task[k].newVer].content)
    BY <1>0, <2>1 DEF TaskIsTrue
  <2>4. r \in Row
    <3>1. localContent(k) \in Content /\ now \in Nat /\ task[k].newVer \in Nat
      BY <1>0, NewRows DEF TypeOK, Task, Content
    <3> QED BY <3>1 DEF Row
  <2>5. r.content = localContent(k)
    OBVIOUS
  <2>6. rows' = [rows EXCEPT ![k] = Append(@, r)] /\ rows \in [Keys -> Seq(Row)]
    BY <1>0, <1>2 DEF setRemoteVersion, TypeOK
  <2> HIDE DEF r
  <2>7. /\ Len(rows'[k]) = Len(rows[k]) + 1
        /\ rows'[k][Len(rows[k]) + 1] = r
        /\ \A j \in Keys \ {k} : rows'[j] = rows[j]
    BY <2>4, <2>6, AppendRow
  <2>8. OnlyKey(k)
    BY <1>0, <2>7 DEF OnlyKey
  <2>9. ASSUME k \notin touched PROVE Agree(k)'
    <3>1. task[k].newVer = Len(hist[k])
      BY <1>0, <2>9 DEF CurrentInv, TaskIsCurrent
    <3>2. rows'[k][Len(rows'[k])].content = Opened(hist'[k][Len(hist'[k])].content)
      BY <1>0, <2>2, <2>3, <2>5, <2>7, <3>1
    <3>3. Len(rows'[k]) # 0 /\ Len(hist'[k]) # 0
      BY <1>0, <2>1, <2>3, <2>7, <3>1
    <3> QED BY <3>2, <3>3, AgreeNext
  <2> QED BY <1>0, <1>2, <2>8, <2>9, CompleteCurrent
<1> QED BY <1>1, <1>2 DEF RecordRemote

\* Refused: a request to delete what the server does not have leaves both sides without
\* the key.
LEMMA RefusedCurrent ==
  ASSUME RecordInv, TypeOK', CurrentInv, phase = "tasks", NEW k \in Keys, Refused(k)
  PROVE  CurrentInv'
<1>0. /\ TypeOK /\ OnlyKey(k) /\ UNCHANGED <<rows, hist, phase, touched>>
  BY DEF RecordInv, Refused, OnlyKey
<1>1. CASE Fail(k)
  BY <1>0, <1>1, FailCurrent
<1>2. CASE task[k].pc = "gone" /\ Complete(k)
  <2>1. k \notin touched => Agree(k)
    BY <1>2 DEF CurrentInv, TaskIsCurrent
  <2>2. k \notin touched => Agree(k)'
    BY <1>0, <2>1 DEF Agree, LocalView, ServerView, localContent, Opened
  <2> QED BY <1>0, <1>2, <2>2, CompleteCurrent
<1> QED BY <1>1, <1>2 DEF Refused

----------------------------------------------------------------------------
(* The server's answers, and what others do. *)

\* Store changes the versions of its key only.
LEMMA StoreOnly ==
  ASSUME TypeOK, NEW k \in Keys, NEW c, Store(k, c)
  PROVE  \A j \in Keys \ {k} : hist'[j] = hist[j]
BY DEF Store, TypeOK

\* ServePut and ServeDel: an accepted request makes the newest version; a key that is
\* gone is gone on both sides.
LEMMA ServeWriteCurrent ==
  ASSUME RecordInv, TypeOK', CurrentInv, phase = "tasks", NEW k \in Keys,
         ServePut(k) \/ ServeDel(k)
  PROVE  CurrentInv'
<1>0. /\ TypeOK /\ TaskIsTrue(k) /\ task[k].pc \in {"put", "del"}
      /\ task[k].content \in Content /\ Len(hist[k]) \in Nat
      /\ UNCHANGED <<rows, phase, failures, touched>>
  BY DEF RecordInv, TypeOK, ServePut, ServeDel, TaskIsTrue
<1>1. k \notin touched => task[k].localVer = Len(rows[k])
  BY <1>0 DEF CurrentInv, TaskIsCurrent
<1>2. CASE \E c \in Content : Store(k, c) /\ Answer(k, "acked", Len(hist[k]) + 1)
  <2>1. PICK c \in Content : Store(k, c) /\ Answer(k, "acked", Len(hist[k]) + 1)
    BY <1>2
  <2>2. c \in RemoteContent /\ "acked" \in Steps /\ Len(hist[k]) + 1 \in Nat
    BY <1>0 DEF RemoteContent, Steps, Answered
  <2>3. Len(hist'[k]) = Len(hist[k]) + 1 /\ \A j \in Keys \ {k} : hist'[j] = hist[j]
    BY <1>0, <2>1, <2>2, StoreAppends, StoreOnly
  <2>4. /\ \A j \in Keys \ {k} : task'[j] = task[j]
        /\ task'[k].pc = "acked" /\ task'[k].newVer = Len(hist[k]) + 1
        /\ task'[k].localVer = task[k].localVer
    BY <1>0, <2>1, <2>2, Answers
  <2>5. k \notin touched => TaskIsCurrent(k)'
    BY <1>0, <1>1, <2>3, <2>4 DEF TaskIsCurrent
  <2>6. OnlyKey(k)
    BY <1>0, <2>3 DEF OnlyKey
  <2> QED BY <1>0, <2>4, <2>5, <2>6, OneKeyCurrent
<1>3. CASE Answer(k, "refused", 0) /\ UNCHANGED hist
  <2>1. "refused" \in Steps
    BY DEF Steps, Answered
  <2>2. task'[k].pc = "refused" /\ \A j \in Keys \ {k} : task'[j] = task[j]
    BY <1>0, <1>3, <2>1, Answers
  <2>3. TaskIsCurrent(k)' /\ OnlyKey(k)
    BY <1>0, <1>3, <2>2 DEF TaskIsCurrent, OnlyKey
  <2> QED BY <1>0, <2>2, <2>3, OneKeyCurrent
<1>4. CASE task[k].pc = "del" /\ Len(hist[k]) = 0 /\ Answer(k, "gone", 0) /\ UNCHANGED hist
  <2>1. "gone" \in Steps
    BY DEF Steps, Answered
  <2>2. task'[k].pc = "gone" /\ \A j \in Keys \ {k} : task'[j] = task[j]
    BY <1>0, <1>4, <2>1, Answers
  <2>3. ASSUME k \notin touched PROVE Agree(k)'
    <3>1. Len(rows[k]) \in Nat
      BY <1>0 DEF TypeOK
    <3>2. Len(rows[k]) # 0 => rows[k][Len(rows[k])].content = Deleted
      BY <1>0, <1>1, <1>4, <2>3, <3>1 DEF TaskIsTrue
    <3> QED BY <1>0, <1>4, <3>2, AgreeNext
  <2>4. k \notin touched => TaskIsCurrent(k)'
    BY <2>2, <2>3 DEF TaskIsCurrent
  <2>5. OnlyKey(k)
    BY <1>0, <1>4 DEF OnlyKey
  <2> QED BY <1>0, <2>2, <2>4, <2>5, OneKeyCurrent
<1>5. CASE ServePut(k)
  BY <1>0, <1>2, <1>3, <1>5 DEF ServePut, remoteVer
<1>6. CASE ServeDel(k)
  <2>1. Deleted \in Content
    BY DEF Content
  <2> QED BY <1>2, <1>3, <1>4, <1>6, <2>1 DEF ServeDel, remoteVer
<1> QED BY <1>5, <1>6

\* ServeGet: the version asked for is the newest.
LEMMA ServeGetCurrent ==
  ASSUME RecordInv, CurrentInv, phase = "tasks", NEW k \in Keys, ServeGet(k)
  PROVE  CurrentInv'
<1>0. /\ TypeOK /\ task[k] \in Task /\ task[k].pc = "get" /\ OnlyKey(k)
      /\ UNCHANGED <<rows, hist, phase, failures, touched>>
  BY DEF RecordInv, TypeOK, ServeGet, OnlyKey
<1>1. PICK v \in {task[k].remoteVer, Len(hist[k])} : task' = [task EXCEPT ![k] = [@ EXCEPT
         !.pc = IF hist[k][v].content = Deleted THEN "refused" ELSE "fetched",
         !.newVer = v, !.content = hist[k][v].content]]
  BY DEF ServeGet, remoteVer
<1> DEFINE p == IF hist[k][v].content = Deleted THEN "refused" ELSE "fetched"
           t == [task[k] EXCEPT !.pc = p, !.newVer = v, !.content = hist[k][v].content]
<1>2. p \in {"refused", "fetched"}
  OBVIOUS
<1>3. task' = [task EXCEPT ![k] = t]
  BY <1>1
<1> HIDE DEF p
<1>4. t.pc = p /\ t.newVer = v /\ t.localVer = task[k].localVer
  BY <1>0 DEF Task
<1> HIDE DEF t
<1>5. task'[k] = t /\ \A j \in Keys \ {k} : task'[j] = task[j]
  BY <1>0, <1>3 DEF TypeOK
<1>6. k \notin touched => v = Len(hist[k]) /\ task[k].localVer = Len(rows[k])
  BY <1>0, <1>1 DEF CurrentInv, TaskIsCurrent
<1>7. k \notin touched => TaskIsCurrent(k)'
  BY <1>0, <1>2, <1>4, <1>5, <1>6 DEF TaskIsCurrent
<1> QED BY <1>0, <1>2, <1>4, <1>5, <1>7, OneKeyCurrent

\* RequestFails ends the task.
LEMMA RequestFailsCurrent ==
  ASSUME RecordInv, CurrentInv, phase = "tasks", NEW k \in Keys, RequestFails(k)
  PROVE  CurrentInv'
<1>1. task[k].pc # "head"
  BY DEF CurrentInv
<1>2. Fail(k)
  BY <1>1 DEF RequestFails
<1>3. TypeOK /\ OnlyKey(k) /\ UNCHANGED <<phase, touched>>
  BY DEF RecordInv, RequestFails, OnlyKey
<1> QED BY <1>2, <1>3, FailCurrent

\* TransactionThrows ends the task: syncAllKeys catches the error.
LEMMA ThrowsCurrent ==
  ASSUME RecordInv, CurrentInv, phase = "tasks", NEW k \in Keys, TransactionThrows(k)
  PROVE  CurrentInv'
<1>1. Fail(k)
  BY DEF TransactionThrows, Throw
<1>2. TypeOK /\ OnlyKey(k) /\ UNCHANGED <<phase, touched>>
  BY DEF RecordInv, TransactionThrows, OnlyKey
<1> QED BY <1>1, <1>2, FailCurrent

\* A step of the task of a key: in syncAllKeys one of the above, in a syncKey nothing is
\* claimed.
LEMMA TaskStepCurrent ==
  ASSUME RecordInv, TypeOK', SyncInv, CurrentInv, NEW k \in Keys,
         Local(k) \/ Serve(k) \/ RequestFails(k) \/ TransactionThrows(k)
  PROVE  CurrentInv'
<1>1. task[k].pc # "idle" /\ UNCHANGED phase
  BY TaskSteps DEF RecordInv
<1>2. CASE phase = "tasks"
  <2>1. CASE Local(k)
    BY <1>2, <2>1, ReadCurrent, DecideCurrent, DropCurrent, FetchedCurrent, RecordCurrent,
       RefusedCurrent DEF Local
  <2>2. CASE Serve(k)
    <3>1. ~ServeHead(k)
      BY <1>2 DEF ServeHead, CurrentInv
    <3> QED BY <1>2, <2>2, <3>1, ServeWriteCurrent, ServeGetCurrent DEF Serve
  <2>3. CASE RequestFails(k)
    BY <1>2, <2>3, RequestFailsCurrent
  <2>4. CASE TransactionThrows(k)
    BY <1>2, <2>4, ThrowsCurrent
  <2> QED BY <2>1, <2>2, <2>3, <2>4
<1>3. CASE phase = "single"
  BY <1>1, <1>3 DEF CurrentInv
<1> QED BY <1>1, <1>2, <1>3 DEF SyncInv

\* A client or another device changes a key while a sync runs: the key is touched.
LEMMA TouchedCurrent ==
  ASSUME SyncInv, CurrentInv, NEW k \in Keys, OnlyKey(k), Touch(k),
         UNCHANGED <<phase, listing, task, failures>>
  PROVE  CurrentInv'
<1>1. CASE phase = "idle"
  BY <1>1 DEF CurrentInv
<1>2. CASE phase # "idle"
  <2>1. touched' = touched \cup {k}
    BY <1>2 DEF Touch, SyncInv
  <2>2. \A j \in Keys \ touched' : /\ rows'[j] = rows[j] /\ hist'[j] = hist[j]
                                   /\ j \notin touched
    BY <2>1 DEF OnlyKey
  <2>3. phase' = "listed" => \A j \in Keys \ touched' : listing'[j] = Len(hist'[j])
    BY <2>2 DEF CurrentInv
  <2>4. ASSUME phase' = "tasks", NEW j \in Keys
        PROVE  /\ task'[j].pc \notin {"head", "headed"}
               /\ task'[j].pc = "failed" => failures' > 0
               /\ j \notin touched' => TaskIsCurrent(j)'
    <3>1. j \notin touched' => TaskIsCurrent(j)'
      BY <2>2, <2>4, CurrentStays DEF CurrentInv
    <3> QED BY <2>4, <3>1 DEF CurrentInv
  <2> QED BY <2>3, <2>4 DEF CurrentInv
<1> QED BY <1>1, <1>2

\* Steps that change neither the stores nor the sync.
LEMMA QuietCurrent ==
  ASSUME CurrentInv, UNCHANGED <<rows, hist, phase, listing, task, failures, touched>>
  PROVE  CurrentInv'
<1>1. ASSUME NEW k \in Keys, TaskIsCurrent(k) PROVE TaskIsCurrent(k)'
  BY <1>1, CurrentStays
<1> QED BY <1>1 DEF CurrentInv

\* set and del.
LEMMA ClientCurrent ==
  ASSUME TypeOK, SyncInv, CurrentInv, NEW k \in Keys, NEW c \in Content, _set(k, c),
         AfterLocalWrite(k), UNCHANGED <<listing, failures, hist>>
  PROVE  CurrentInv'
<1>1. OnlyKey(k)
  BY SetAppends DEF OnlyKey
<1>2. CASE phase' = "single"
  BY <1>2 DEF CurrentInv
<1>3. CASE Touch(k) /\ UNCHANGED <<syncRunning, phase, task>>
  BY <1>1, <1>3, TouchedCurrent
<1> QED BY <1>2, <1>3 DEF AfterLocalWrite

\* OtherDeviceWrites, OrphanArrives and OrphanIsLost.
LEMMA RemoteCurrent ==
  ASSUME TypeOK, SyncInv, CurrentInv,
         \/ \E k \in Keys, c \in OtherWrites : OtherDeviceWrites(k, c)
         \/ \E r \in orphans : OrphanArrives(r) \/ OrphanIsLost(r)
  PROVE  CurrentInv'
<1>1. ASSUME NEW k \in Keys, NEW c, Store(k, c), Touch(k),
             UNCHANGED <<rows, phase, listing, task, failures>>
      PROVE  CurrentInv'
  <2>1. OnlyKey(k)
    BY <1>1, StoreOnly DEF OnlyKey
  <2> QED BY <1>1, <2>1, TouchedCurrent
<1>2. ASSUME NEW k \in Keys, NEW c \in OtherWrites, OtherDeviceWrites(k, c)
      PROVE  CurrentInv'
  BY <1>1, <1>2 DEF OtherDeviceWrites
<1>3. ASSUME NEW r \in orphans, OrphanArrives(r) PROVE CurrentInv'
  <2>1. r.key \in Keys
    BY DEF TypeOK, Request
  <2>2. UNCHANGED <<rows, phase, listing, task, failures>>
    BY <1>3 DEF OrphanArrives
  <2>3. CASE Store(r.key, r.content) /\ Touch(r.key)
    BY <1>1, <2>1, <2>2, <2>3
  <2>4. CASE UNCHANGED <<hist, touched>>
    BY <2>2, <2>4, QuietCurrent
  <2> QED BY <1>3, <2>3, <2>4 DEF OrphanArrives
<1>4. ASSUME NEW r \in orphans, OrphanIsLost(r) PROVE CurrentInv'
  BY <1>4, QuietCurrent DEF OrphanIsLost
<1> QED BY <1>2, <1>3, <1>4

\* KeysArrive: every key the listing names gets its newest version; a key without a task
\* is on neither side.
LEMMA KeysArriveCurrent ==
  ASSUME RecordInv, TypeOK', CurrentInv, KeysArrive
  PROVE  CurrentInv'
<1>0. TypeOK /\ UNCHANGED <<rows, hist, touched>> /\ phase = "listed" /\ phase' = "tasks"
  BY DEF RecordInv, KeysArrive
<1>1. ASSUME NEW k \in Keys
      PROVE  /\ task'[k].pc \in {"queued", "idle"}
             /\ task'[k].remoteVer = listing[k]
             /\ task'[k].pc = "idle" => listing[k] = 0 /\ rows[k] = << >>
  <2>1. listing[k] \in Nat
    BY <1>0 DEF TypeOK
  <2>2. task'[k] = Queued(k)
    BY DEF KeysArrive
  <2>3. CASE listing[k] > 0
    <3> DEFINE v == hist[k][listing[k]]
               e == serverErr(v)
    <3>1. Queued(k) = [NoTask EXCEPT !.pc = "queued", !.remoteVer = listing[k],
                                     !.remoteTime = v.time, !.remoteErr = e]
      BY <2>3 DEF Queued
    <3> HIDE DEF e, v
    <3> QED BY <2>2, <3>1 DEF NoTask
  <2>4. CASE listing[k] = 0 /\ rows[k] # << >>
    BY <2>2, <2>4 DEF Queued, NoTask
  <2>5. CASE listing[k] = 0 /\ rows[k] = << >>
    BY <2>2, <2>5 DEF Queued, NoTask
  <2> QED BY <2>1, <2>3, <2>4, <2>5
<1>2. ASSUME NEW k \in Keys, k \notin touched PROVE TaskIsCurrent(k)'
  <2>1. listing[k] = Len(hist[k])
    BY <1>0, <1>2 DEF CurrentInv
  <2>2. CASE task'[k].pc = "idle"
    <3>1. Len(rows'[k]) = 0 /\ Len(hist'[k]) = 0
      BY <1>0, <1>1, <2>1, <2>2
    <3>2. Agree(k)'
      BY <3>1, AgreeNext
    <3> QED BY <2>2, <3>2 DEF TaskIsCurrent
  <2>3. CASE task'[k].pc = "queued"
    BY <1>0, <1>1, <2>1, <2>3 DEF TaskIsCurrent
  <2> QED BY <1>1, <2>2, <2>3
<1> QED BY <1>0, <1>1, <1>2 DEF CurrentInv

\* Every step preserves the invariant.
LEMMA CurrentStep == RecordInv /\ RecordInv' /\ SyncInv /\ CurrentInv /\ [Next]_vars => CurrentInv'
<1> SUFFICES ASSUME RecordInv, RecordInv', SyncInv, CurrentInv, [Next]_vars PROVE CurrentInv'
  OBVIOUS
<1>0. TypeOK /\ TypeOK'
  BY DEF RecordInv
<1>1. CASE UNCHANGED vars
  BY <1>1, QuietCurrent DEF vars
<1>2. ASSUME NEW k \in Keys, NEW v \in Values, set(k, v) PROVE CurrentInv'
  BY <1>0, <1>2, ClientCurrent DEF set, Content
<1>3. ASSUME NEW k \in Keys, del(k) PROVE CurrentInv'
  BY <1>0, <1>3, ClientCurrent DEF del, _del, Content
<1>4. ASSUME NEW k \in Keys, Local(k) \/ Serve(k) \/ RequestFails(k) \/ TransactionThrows(k) PROVE CurrentInv'
  BY <1>0, <1>4, TaskStepCurrent
<1>5. CASE ServeKeys
  BY <1>5 DEF ServeKeys, remoteVer, CurrentInv
<1>6. CASE syncAllKeys \/ KeysFail \/ FinishSync \/ Restart
  <2>1. phase' \in {"listing", "idle"}
    BY <1>6 DEF syncAllKeys, KeysFail, FinishSync, Restart
  <2> QED BY <2>1 DEF CurrentInv
<1>7. CASE rmdb \/ Tick
  BY <1>7, QuietCurrent DEF rmdb, Tick
<1> QED BY <1>0, <1>1, <1>2, <1>3, <1>4, <1>5, <1>6, <1>7, RemoteCurrent, KeysArriveCurrent
        DEF Next

\* CurrentInv holds in every reachable state.
LEMMA CurrentInvariant == Spec => []CurrentInv
<1>1. Init => CurrentInv
  BY DEF Init, CurrentInv
<1> QED BY <1>1, CurrentStep, RecordInvariant, SyncInvariant, PTL DEF Spec

\* When syncAllKeys calls its completion handler without an error, the local and the
\* remote store agree on every key that nobody else changed meanwhile: no task is left
\* out or ends early, and no failure goes unnoticed although the counter is incremented
\* without synchronisation.
THEOREM SuccessIsAgreement == Spec => []SuccessMeansInSync
<1>1. CurrentInv => SuccessMeansInSync
  <2> SUFFICES ASSUME CurrentInv, phase = "tasks", failures = 0,
                      \A k \in Keys : task[k].pc \in Over \cup {"idle"},
                      NEW k \in Keys \ touched
               PROVE  Agree(k)
    BY DEF SuccessMeansInSync
  <2>1. task[k].pc \in {"ok", "idle"}
    BY DEF CurrentInv, Over
  <2> QED BY <2>1 DEF CurrentInv, TaskIsCurrent
<1> QED BY <1>1, CurrentInvariant, PTL
=============================================================================
