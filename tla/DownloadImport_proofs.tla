------------------------ MODULE DownloadImport_proofs ------------------------
(***************************************************************************)
(* What holds of DownloadImport for every set of downloads, files and      *)
(* jobs, and for any number of faults: its types, that a tracker counts    *)
(* exactly the copies under way, that these copies are being made, that an *)
(* import that is not over has a message in flight, and that a tracked     *)
(* record is dropped only after the import.                                *)
(*                                                                         *)
(* For the first, a job that was never sent has no copies (Known), and the *)
(* copies a scan dispatches are new ones.  For the third, an open job has  *)
(* a tracker, and its scan or its copies are out (Awaiting).  For the      *)
(* last, what a job copies comes from the download it tracks               *)
(* (FromDownload), and a tracker with an imported file has a row to show   *)
(* for it (Recorded), unless the series or movie is gone.                  *)
(***************************************************************************)
EXTENDS DownloadImport, FiniteSetTheorems, TLAPS

Known ==
  /\ \A c \in copying : c.job \in sent
  /\ \A t \in tasks : JobOf(t) \in sent
  /\ \A r \in results : JobOf(r.task) \in sent

Tracks(j, d) == j \in DOMAIN trackers => trackers[j].download = d
FromDownload ==
  /\ \A c \in copying : Tracks(c.job, Of[c.source])
  /\ \A t \in tasks : t.what = "scan" => Tracks(t.job, t.on)
  /\ \A r \in results : r.task.what = "scan" =>
       Tracks(r.task.job, r.task.on) /\ r.found = SourcesOf(r.task.on)

HasRow(d, rs) == \E r \in rs : r.owner = Target[d] /\ \E s \in SourcesOf(d) : r.file = Dest[s]
RecordedIn(ts, rs) ==
  \A j \in DOMAIN ts :
    ts[j].imported > 0 /\ Target[ts[j].download] \in library => HasRow(ts[j].download, rs)
Recorded == RecordedIn(trackers, rows)

Finite == IsFiniteSet(copying)

IInv == TypeOK /\ Finite /\ Known /\ FromDownload /\ Recorded /\ TrackerExact /\ CopiesNotStuck

---------------------------------------------------------------------------
(* The operators of the module *)

LEMMA ConstantFacts ==
  /\ MaxFaults \in Nat /\ IsFiniteSet(Source)
  /\ \A s \in Source : /\ Of[s] \in Download /\ Bytes[s] \in Nat \ {0} /\ Dest[s] \in Path
                       /\ Target[Of[s]] \in Entity
  /\ \A d \in Download : Target[d] \in Entity
  BY ImportAssumption DEF Entity

LEMMA DropFacts ==
  ASSUME NEW f, NEW x
  PROVE  /\ DOMAIN Drop(f, x) = DOMAIN f \ {x}
         /\ \A z \in DOMAIN f : z # x => Drop(f, x)[z] = f[z]
  BY DEF Drop

LEMMA TaskKinds ==
  ASSUME NEW t \in Task
  PROVE  /\ t.what = "scan" => t.job \in Job /\ t.on \in Download /\ JobOf(t) = t.job
         /\ t.what = "copy" => /\ t.copy \in Copy /\ JobOf(t) = t.copy.job
                               /\ t = [what |-> "copy", copy |-> t.copy]
         /\ t.what \in {"scan", "copy"}
  BY DEF Task, JobOf

\* The entries of a handling are as many as its files, and new to the job.
NewOf(j, ss, no) == {CopyOf(j, s, no) : s \in ss}

LEMMA NewCopies ==
  ASSUME NEW j \in Job, NEW ss \in SUBSET Source, NEW no \in 1 .. MaxFaults + 1,
         Finite, Unused(j, no)
  PROVE  /\ NewOf(j, ss, no) \subseteq Copy /\ IsFiniteSet(NewOf(j, ss, no))
         /\ \A c \in NewOf(j, ss, no) : c.job = j /\ c.source \in ss
         /\ Cardinality(NewOf(j, ss, no)) = Cardinality(ss)
         /\ NewOf(j, ss, no) \cap copying = {}
<1> DEFINE new == {CopyOf(j, s, no) : s \in ss}
           f == [s \in ss |-> CopyOf(j, s, no)]
<1>1. \A s \in ss : CopyOf(j, s, no).source = s /\ CopyOf(j, s, no).job = j
                    /\ CopyOf(j, s, no) \in Copy
  BY DEF CopyOf, Copy
<1>2. f \in Bijection(ss, new)
  BY <1>1 DEF Bijection, Injection, Surjection, IsInjective
<1>3. IsFiniteSet(ss) BY ConstantFacts, FS_Subset
<1>4. ExistsBijection(ss, new) BY <1>2 DEF ExistsBijection
<1>5. IsFiniteSet(new) /\ Cardinality(new) = Cardinality(ss) /\ Cardinality(ss) \in Nat
  BY <1>3, <1>4, FS_Bijection, FS_CardinalityType
<1>6. new \cap copying = {} BY DEF Unused
<1> QED BY <1>1, <1>5, <1>6 DEF NewOf

LEMMA CountsFinite ==
  ASSUME Finite, NEW j
  PROVE  IsFiniteSet(CopiesOf(j)) /\ Cardinality(CopiesOf(j)) \in Nat
<1>1. CopiesOf(j) \in SUBSET copying BY DEF CopiesOf
<1> QED BY <1>1, FS_Subset, FS_CardinalityType DEF Finite

LEMMA FaultType == ASSUME TypeOK, NEW k, Fault(k) PROVE faults' \in 0 .. MaxFaults
  BY ConstantFacts DEF Fault, TypeOK

LEMMA MarkType ==
  ASSUME TypeOK, NEW j, MarkReceived(j)
  PROVE  /\ DOMAIN jobs' = DOMAIN jobs
         /\ \A i \in DOMAIN jobs' : jobs'[i] \in [movie : BOOLEAN, completed : BOOLEAN]
  BY DEF TypeOK, MarkReceived

\* The end of a handler, which cleaned up with trackers ts or left it.
Ends(ts, j) ==
  \/ \E also \in BOOLEAN : Cleanup(ts, j, also)
  \/ /\ trackers' = ts /\ tracked' = tracked
     /\ MarkReceived(j) \/ jobs' = jobs

\* A cleanup keeps all trackers but the one whose copies are all in.
LEMMA EndFacts ==
  ASSUME TypeOK, NEW ts, NEW j, Ends(ts, j)
  PROVE  /\ DOMAIN jobs' = DOMAIN jobs
         /\ \A i \in DOMAIN jobs' : jobs'[i] \in [movie : BOOLEAN, completed : BOOLEAN]
         /\ DOMAIN trackers' \subseteq DOMAIN ts
         /\ \A i \in DOMAIN trackers' : trackers'[i] = ts[i]
         /\ tracked' \subseteq tracked
         /\ \A d \in tracked \ tracked' :
              /\ j \in DOMAIN ts /\ AllCopied(ts[j]) /\ j \notin DOMAIN trackers'
              /\ ts[j].download = d /\ ts[j].imported > 0
<1>1. CASE CleansUp(ts, j) /\ \E also \in BOOLEAN : Cleanup(ts, j, also)
  <2>1. trackers' = Drop(ts, j) /\ MarkReceived(j) /\ j \in DOMAIN ts /\ AllCopied(ts[j])
    BY <1>1 DEF Cleanup, CleansUp
  <2>2. tracked' = IF ts[j].imported > 0 THEN tracked \ {ts[j].download} ELSE tracked
    BY <1>1 DEF Cleanup
  <2>3. /\ DOMAIN jobs' = DOMAIN jobs
        /\ \A i \in DOMAIN jobs' : jobs'[i] \in [movie : BOOLEAN, completed : BOOLEAN]
    BY <2>1, MarkType
  <2>4. /\ DOMAIN trackers' = DOMAIN ts \ {j}
        /\ \A z \in DOMAIN ts : z # j => trackers'[z] = ts[z]
    BY <2>1, DropFacts
  <2> QED BY <2>1, <2>2, <2>3, <2>4
<1>2. CASE ~(CleansUp(ts, j) /\ \E also \in BOOLEAN : Cleanup(ts, j, also))
  <2>1. trackers' = ts /\ tracked' = tracked /\ (MarkReceived(j) \/ jobs' = jobs)
    BY <1>2 DEF Ends, Cleanup
  <2> QED BY <2>1, MarkType DEF TypeOK
<1> QED BY <1>1, <1>2

\* What trackers ts must satisfy when a handler ends, with the copies and rows by then.
Exact(ts, cs) ==
  \A i \in DOMAIN ts :
    /\ ts[i].dispatched = ts[i].completed + Cardinality({c \in cs : c.job = i})
    /\ ts[i].imported <= ts[i].completed
Right(ts) ==
  /\ DOMAIN ts = DOMAIN trackers
  /\ \A i \in DOMAIN ts : ts[i] \in Tracker /\ ts[i].download = trackers[i].download
  /\ Exact(ts, copying') /\ RecordedIn(ts, rows')

\* The step of DroppedAfterImport.
Dropped ==
  \A d \in tracked \ tracked' :
    \E j \in DOMAIN trackers \ DOMAIN trackers' :
      /\ trackers[j].download = d
      /\ {c \in copying' : c.job = j} = {}
      /\ Target[d] \in library =>
           \E r \in rows' : r.owner = Target[d] /\ \E s \in SourcesOf(d) : r.file = Dest[s]

LEMMA RightEnds ==
  ASSUME IInv, NEW ts, NEW j, Right(ts), Ends(ts, j), IsFiniteSet(copying'),
         library' = library
  PROVE  /\ TrackerExact' /\ Recorded' /\ Dropped
         /\ DOMAIN trackers' \subseteq DOMAIN trackers
         /\ \A i \in DOMAIN trackers' : /\ trackers'[i] \in Tracker
                                        /\ trackers'[i].download = trackers[i].download
<1>1. TypeOK BY DEF IInv
<1>2. /\ DOMAIN trackers' \subseteq DOMAIN ts
      /\ \A i \in DOMAIN trackers' : trackers'[i] = ts[i]
  BY <1>1, EndFacts
<1>3. \A d \in tracked \ tracked' :
         /\ j \in DOMAIN ts /\ AllCopied(ts[j]) /\ j \notin DOMAIN trackers'
         /\ ts[j].download = d /\ ts[j].imported > 0
  BY <1>1, EndFacts
<1>4. /\ DOMAIN ts = DOMAIN trackers
      /\ \A i \in DOMAIN ts : ts[i] \in Tracker /\ ts[i].download = trackers[i].download
      /\ Exact(ts, copying') /\ RecordedIn(ts, rows')
  BY DEF Right
<1>5. TrackerExact' BY <1>2, <1>4 DEF Exact, TrackerExact, CopiesOf
<1>6. Recorded' BY <1>2, <1>4 DEF Recorded, RecordedIn, HasRow, SourcesOf
<1>7. ASSUME NEW d \in tracked \ tracked'
      PROVE  \E i \in DOMAIN trackers \ DOMAIN trackers' :
               /\ trackers[i].download = d
               /\ {c \in copying' : c.job = i} = {}
               /\ Target[d] \in library =>
                    \E r \in rows' : r.owner = Target[d] /\ \E s \in SourcesOf(d) : r.file = Dest[s]
  <2> DEFINE left == {c \in copying' : c.job = j}
  <2>1. /\ j \in DOMAIN ts /\ AllCopied(ts[j]) /\ j \notin DOMAIN trackers'
        /\ ts[j].download = d /\ ts[j].imported > 0
    BY <1>3
  <2>2. IsFiniteSet(left) /\ Cardinality(left) \in Nat
    BY FS_Subset, FS_CardinalityType
  <2>3. ts[j].dispatched = ts[j].completed + Cardinality(left)
    BY <1>4, <2>1 DEF Exact
  <2>4. ts[j].dispatched = ts[j].completed /\ ts[j].completed \in Nat
    BY <1>4, <2>1 DEF AllCopied, Tracker
  <2>5. Cardinality(left) = 0 BY <2>2, <2>3, <2>4
  <2>6. left = {} BY <2>2, <2>5, FS_EmptySet
  <2>7. Target[d] \in library => HasRow(d, rows') BY <1>4, <2>1 DEF RecordedIn
  <2>8. j \in DOMAIN trackers \ DOMAIN trackers' /\ trackers[j].download = d BY <1>4, <2>1
  <2> QED BY <2>6, <2>7, <2>8 DEF HasRow
<1>8. Dropped BY <1>7 DEF Dropped
<1> QED BY <1>2, <1>4, <1>5, <1>6, <1>8

---------------------------------------------------------------------------
(* Steps that leave the consumer's copies and the library alone *)

LEMMA DispatchStep ==
  ASSUME IInv, NEW j \in Job, NEW d \in Download, NEW movie \in BOOLEAN, NEW force \in BOOLEAN,
         Dispatch(j, d, movie, force)
  PROVE  IInv'
<1>1. /\ j \notin sent /\ sent' = sent \cup {j} /\ TypeOK
      /\ UNCHANGED <<copying, results, disk, rows, link, library, tracked, faults, hit>>
      /\ tasks' = tasks \cup {[what |-> "scan", job |-> j, on |-> d]}
  BY DEF Dispatch, database, IInv
<1>2. /\ j \notin DOMAIN trackers /\ DOMAIN trackers' = DOMAIN trackers \cup {j}
      /\ trackers'[j] = NewTracker(d)
      /\ \A i \in DOMAIN trackers : trackers'[i] = trackers[i]
  <2>1. trackers' = Extend(trackers, j, NewTracker(d)) BY DEF Dispatch
  <2>2. j \notin DOMAIN trackers BY <1>1 DEF TypeOK
  <2> DEFINE n == NewTracker(d)
  <2>3. /\ DOMAIN Extend(trackers, j, n) = DOMAIN trackers \cup {j}
        /\ Extend(trackers, j, n)[j] = n
        /\ \A z \in DOMAIN trackers : z # j => Extend(trackers, j, n)[z] = trackers[z]
    BY DEF Extend
  <2> QED BY <2>1, <2>2, <2>3
<1>3. NewTracker(d) \in Tracker /\ NewTracker(d).download = d /\ NewTracker(d).imported = 0
      /\ NewTracker(d).dispatched = 0 /\ NewTracker(d).completed = 0
  BY DEF NewTracker, Tracker
<1>4. TypeOK'
  <2>1. DOMAIN jobs' = DOMAIN jobs \cup {j}
        /\ \A i \in DOMAIN jobs' : jobs'[i] \in [movie : BOOLEAN, completed : BOOLEAN]
    BY <1>1 DEF Dispatch, Extend, TypeOK
  <2>2. DOMAIN imports' \subseteq DOMAIN imports \cup {j}
        /\ \A i \in DOMAIN imports' : imports'[i] \in [download : Download, force : BOOLEAN]
    BY <1>1 DEF Dispatch, Extend, TypeOK
  <2>3. [what |-> "scan", job |-> j, on |-> d] \in Task BY DEF Task
  <2> QED BY <1>1, <1>2, <1>3, <2>1, <2>2, <2>3 DEF TypeOK
<1>5. \A c \in copying : c.job # j BY <1>1 DEF IInv, Known
<1>6. Known' BY <1>1 DEF IInv, Known, JobOf
<1>7. FromDownload'
  <2>1. \A t \in tasks : t.what = "scan" => t.job # j
    BY <1>1, TaskKinds DEF IInv, Known, TypeOK
  <2>2. \A r \in results : r.task.what = "scan" => r.task.job # j
    BY <1>1, TaskKinds DEF IInv, Known, TypeOK, Result
  <2>3. \A c \in copying' : Tracks(c.job, Of[c.source])'
    BY <1>1, <1>2, <1>5 DEF IInv, FromDownload, Tracks
  <2>4. \A t \in tasks' : t.what = "scan" => Tracks(t.job, t.on)'
    BY <1>1, <1>2, <1>3, <2>1 DEF IInv, FromDownload, Tracks
  <2>5. \A r \in results' : r.task.what = "scan" => Tracks(r.task.job, r.task.on)'
    BY <1>1, <1>2, <2>2 DEF IInv, FromDownload, Tracks
  <2> QED BY <1>1, <2>3, <2>4, <2>5 DEF IInv, FromDownload, SourcesOf
<1>8. TrackerExact'
  <2>1. CopiesOf(j) = {} BY <1>5 DEF CopiesOf
  <2>2. \A i : CopiesOf(i)' = CopiesOf(i) BY <1>1 DEF CopiesOf
  <2>3. Cardinality(CopiesOf(j)') = 0 BY <2>1, <2>2, FS_EmptySet
  <2>4. ASSUME NEW i \in DOMAIN trackers'
        PROVE  /\ trackers'[i].dispatched = trackers'[i].completed + Cardinality(CopiesOf(i)')
               /\ trackers'[i].imported <= trackers'[i].completed
    <3>1. CASE i = j BY <1>2, <1>3, <2>3, <3>1
    <3>2. CASE i # j
      <4>1. i \in DOMAIN trackers /\ trackers'[i] = trackers[i] BY <1>2, <3>2
      <4>2. TrackerExact BY DEF IInv
      <4> QED BY <4>1, <4>2, <2>2 DEF TrackerExact
    <3> QED BY <3>1, <3>2
  <2> QED BY <2>4 DEF TrackerExact
<1>9. Recorded' BY <1>1, <1>2, <1>3 DEF IInv, Recorded, RecordedIn, HasRow
<1>10. CopiesNotStuck' BY <1>1 DEF IInv, CopiesNotStuck
<1> QED BY <1>1, <1>4, <1>6, <1>7, <1>8, <1>9, <1>10 DEF IInv, Finite

\* What the other invariants need of a step that only moves requests and answers.
Moves ==
  /\ UNCHANGED <<copying, trackers, rows, library, imports, link, tracked, sent>>
  /\ \A t \in tasks' : t \in tasks \/ \E r \in results : t = r.task
  /\ \A r \in results' :
       \/ r \in results
       \/ r.task \in tasks /\ (r.task.what = "scan" => r.found = SourcesOf(r.task.on))

LEMMA MovesStep ==
  ASSUME IInv, TypeOK', Moves, CopiesNotStuck' PROVE IInv'
<1>1. UNCHANGED <<copying, trackers, rows, library, imports, link, tracked, sent>>
  BY DEF Moves
<1>2. Known' BY <1>1 DEF IInv, Known, Moves
<1>3. FromDownload' BY <1>1 DEF IInv, FromDownload, Moves, Tracks
<1>4. Recorded' BY <1>1 DEF IInv, Recorded, RecordedIn, HasRow
<1>5. TrackerExact' BY <1>1 DEF IInv, TrackerExact, CopiesOf
<1> QED BY <1>1, <1>2, <1>3, <1>4, <1>5 DEF IInv, Finite

CopyTask(c) == [what |-> "copy", copy |-> c]

LEMMA StuckByTask ==
  ASSUME CopiesNotStuck, NEW c \in copying, c.job \notin hit
  PROVE  CopyTask(c) \in tasks \/ \E r \in results : r.task = CopyTask(c)
  BY DEF CopiesNotStuck, CopyTask

LEMMA CopyTaskJob == ASSUME NEW c PROVE JobOf(CopyTask(c)) = c.job /\ CopyTask(c).what = "copy"
                                        /\ CopyTask(c).copy = c
  BY DEF JobOf, CopyTask

\* The answer to a copy takes the place of the request.
LEMMA ReplyFacts ==
  ASSUME IInv, NEW t \in tasks, NEW found, NEW ok, Reply(t, found, ok),
         t.what = "scan" => found = SourcesOf(t.on)
  PROVE  Moves /\ CopiesNotStuck'
<1>1. /\ tasks' = tasks \ {t}
      /\ results' = results \cup {[task |-> t, found |-> found, ok |-> ok]}
      /\ UNCHANGED <<copying, trackers, rows, library, imports, link, tracked, sent, hit>>
  BY DEF Reply, pendingState, database
<1>2. Moves BY <1>1 DEF Moves
<1>3. ASSUME NEW c \in copying, c.job \notin hit
      PROVE  \/ CopyTask(c) \in tasks'
             \/ \E r \in results' : r.task = CopyTask(c)
  <2>1. CopyTask(c) \in tasks \/ \E r \in results : r.task = CopyTask(c)
    BY <1>3, StuckByTask DEF IInv
  <2>2. CASE CopyTask(c) = t
    <3> DEFINE r == [task |-> t, found |-> found, ok |-> ok]
    <3>1. r \in results' /\ r.task = t BY <1>1
    <3> QED BY <2>2, <3>1
  <2>3. CASE CopyTask(c) # t BY <1>1, <2>1, <2>3
  <2> QED BY <2>2, <2>3
<1>4. CopiesNotStuck' BY <1>1, <1>3 DEF CopiesNotStuck, CopyTask
<1> QED BY <1>2, <1>4

LEMMA WorkStep == ASSUME IInv, NEW t \in tasks, Work(t) PROVE IInv'
<1>1. t \in Task /\ TypeOK BY DEF IInv, TypeOK
<1>2. CASE WorkerScan(t)
  <2>1. Reply(t, SourcesOf(t.on), TRUE) /\ UNCHANGED <<disk, faults>> BY <1>2 DEF WorkerScan
  <2>2. [task |-> t, found |-> SourcesOf(t.on), ok |-> TRUE] \in Result
    BY <1>1 DEF Result, SourcesOf
  <2>3. TypeOK' BY <1>1, <2>1, <2>2 DEF Reply, TypeOK, pendingState, database
  <2> QED BY <2>1, <2>3, ReplyFacts, MovesStep
<1>3. ASSUME NEW ok \in BOOLEAN, WorkerCopy(t, ok) PROVE IInv'
  <2>1. Reply(t, {}, ok) /\ t.what = "copy" BY <1>3 DEF WorkerCopy
  <2>2. t.copy.source \in Source BY <1>1, <2>1, TaskKinds DEF Copy
  <2>3. [task |-> t, found |-> {}, ok |-> ok] \in Result BY <1>1 DEF Result
  <2>4. disk' \in [Path -> Nat] /\ faults' \in 0 .. MaxFaults
    <3> DEFINE p == Dest[t.copy.source]
               n == Bytes[t.copy.source]
    <3>1. p \in Path /\ n \in Nat /\ n - 1 \in Nat BY <2>2, ConstantFacts
    <3>2. CASE ok
      BY <1>1, <1>3, <3>1, <3>2 DEF WorkerCopy, TypeOK
    <3>3. CASE ~ok
      <4>1. Fault("copy") /\ \E part \in {disk[p], n - 1} : disk' = [disk EXCEPT ![p] = part]
        BY <1>3, <3>3 DEF WorkerCopy
      <4>2. faults' \in 0 .. MaxFaults BY <1>1, <4>1, FaultType
      <4> HIDE DEF p, n
      <4>3. disk' \in [Path -> Nat] BY <1>1, <3>1, <4>1 DEF TypeOK
      <4> QED BY <4>2, <4>3
    <3> QED BY <3>2, <3>3
  <2>5. TypeOK' BY <1>1, <2>1, <2>3, <2>4 DEF Reply, TypeOK, pendingState, database
  <2> QED BY <2>1, <2>5, ReplyFacts, MovesStep
<1> QED BY <1>2, <1>3 DEF Work

LEMMA LoseStep ==
  ASSUME IInv,
         \/ \E t \in tasks : LoseTask(t)
         \/ \E r \in results : Redeliver(r) \/ LoseResult(r)
  PROVE  IInv'
<1>1. TypeOK /\ Known /\ CopiesNotStuck BY DEF IInv
<1>2. ASSUME NEW t \in tasks, LoseTask(t) PROVE IInv'
  <2>1. t \in Task /\ JobOf(t) \in sent BY <1>1 DEF TypeOK, Known
  <2>2. faults' \in 0 .. MaxFaults BY <1>1, <1>2, FaultType DEF LoseTask
  <2>3. TypeOK' BY <1>1, <1>2, <2>1, <2>2 DEF LoseTask, TypeOK, pendingState, database
  <2>4. Moves BY <1>2 DEF LoseTask, Moves, pendingState, database
  <2>5. CopiesNotStuck'
    <3>1. tasks' = tasks \ {t} /\ hit' = hit \cup {JobOf(t)} /\ UNCHANGED <<copying, results>>
      BY <1>2 DEF LoseTask, pendingState
    <3>2. ASSUME NEW c \in copying', c.job \notin hit'
          PROVE  CopyTask(c) \in tasks' \/ \E r \in results' : r.task = CopyTask(c)
      BY <1>1, <3>1, <3>2, StuckByTask, CopyTaskJob
    <3> QED BY <3>2 DEF CopiesNotStuck, CopyTask
  <2> QED BY <2>3, <2>4, <2>5, MovesStep
<1>3. ASSUME NEW r \in results, LoseResult(r) PROVE IInv'
  <2>1. r.task \in Task /\ JobOf(r.task) \in sent BY <1>1 DEF TypeOK, Known, Result
  <2>2. faults' \in 0 .. MaxFaults BY <1>1, <1>3, FaultType DEF LoseResult
  <2>3. TypeOK' BY <1>1, <1>3, <2>1, <2>2 DEF LoseResult, TypeOK, pendingState, database
  <2>4. Moves BY <1>3 DEF LoseResult, Moves, pendingState, database
  <2>5. CopiesNotStuck'
    <3>1. results' = results \ {r} /\ hit' = hit \cup {JobOf(r.task)}
          /\ UNCHANGED <<copying, tasks>>
      BY <1>3 DEF LoseResult, pendingState
    <3>2. ASSUME NEW c \in copying', c.job \notin hit'
          PROVE  CopyTask(c) \in tasks' \/ \E q \in results' : q.task = CopyTask(c)
      BY <1>1, <3>1, <3>2, StuckByTask, CopyTaskJob
    <3> QED BY <3>2 DEF CopiesNotStuck, CopyTask
  <2> QED BY <2>3, <2>4, <2>5, MovesStep
<1>4. ASSUME NEW r \in results, Redeliver(r) PROVE IInv'
  <2>1. r.task \in Task /\ JobOf(r.task) \in sent BY <1>1 DEF TypeOK, Known, Result
  <2>2. faults' \in 0 .. MaxFaults BY <1>1, <1>4, FaultType DEF Redeliver
  <2>3. TypeOK' BY <1>1, <1>4, <2>1, <2>2 DEF Redeliver, TypeOK, pendingState, database
  <2>4. Moves BY <1>4 DEF Redeliver, Moves, pendingState, database
  <2>5. CopiesNotStuck'
    BY <1>1, <1>4 DEF Redeliver, CopiesNotStuck, pendingState
  <2> QED BY <2>3, <2>4, <2>5, MovesStep
<1> QED BY <1>2, <1>3, <1>4

LEMMA JobsStep ==
  ASSUME IInv, GetRunningJobs \/ \E j \in Job : CancelJob(j) PROVE IInv'
<1>1. TypeOK /\ CopiesNotStuck BY DEF IInv
<1>2. CASE GetRunningJobs
  <2>1. TypeOK' BY <1>1, <1>2 DEF GetRunningJobs, TypeOK, database
  <2>2. Moves BY <1>2 DEF GetRunningJobs, Moves, database
  <2>3. CopiesNotStuck' BY <1>1, <1>2 DEF GetRunningJobs, CopiesNotStuck
  <2> QED BY <2>1, <2>2, <2>3, MovesStep
<1>3. ASSUME NEW j \in Job, CancelJob(j) PROVE IInv'
  <2>1. faults' \in 0 .. MaxFaults BY <1>1, <1>3, FaultType DEF CancelJob
  <2>2. TypeOK' BY <1>1, <1>3, <2>1 DEF CancelJob, TypeOK, database
  <2>3. Moves BY <1>3 DEF CancelJob, Moves, database
  <2>4. CopiesNotStuck' BY <1>1, <1>3 DEF CancelJob, CopiesNotStuck
  <2> QED BY <2>2, <2>3, <2>4, MovesStep
<1> QED BY <1>2, <1>3

LEMMA RestartStep == ASSUME IInv, Restart PROVE IInv'
<1>1. TypeOK BY DEF IInv
<1>2. faults' \in 0 .. MaxFaults BY <1>1, FaultType DEF Restart
<1>3. /\ DOMAIN jobs' = {} /\ DOMAIN imports' = {} /\ DOMAIN trackers' = {} /\ copying' = {}
      /\ hit' = hit \cup sent
      /\ UNCHANGED <<tasks, results, disk, rows, link, library, tracked, sent>>
  BY DEF Restart, Empty, database
<1>4. TypeOK' BY <1>1, <1>2, <1>3 DEF TypeOK
<1>5. Known' /\ FromDownload' /\ Recorded' /\ TrackerExact' /\ CopiesNotStuck'
  BY <1>3 DEF IInv, Known, FromDownload, Tracks, Recorded, RecordedIn, TrackerExact, CopiesNotStuck
<1>6. Finite' BY <1>3, FS_EmptySet DEF Finite
<1> QED BY <1>4, <1>5, <1>6 DEF IInv

\* What is not deleted keeps its rows; of what is, nothing is asked.
LEMMA DeleteStep == ASSUME IInv, NEW e \in Entity, DeleteEntity(e) PROVE IInv'
<1>1. TypeOK BY DEF IInv
<1>2. faults' \in 0 .. MaxFaults BY <1>1, FaultType DEF DeleteEntity
<1>3. /\ library' = library \ {e} /\ rows' = {r \in rows : r.owner # e}
      /\ UNCHANGED <<jobs, imports, trackers, copying, tasks, results, disk, tracked, sent, hit>>
  BY DEF DeleteEntity, pendingState
<1>4. link' \in [Episode \cup (Entity \cap Movie) -> {RowId(r) : r \in rows'} \cup {None}]
  <2> DEFINE gone == {r \in rows : r.owner = e}
  <2>1. link' = [x \in DOMAIN link |-> IF link[x] \in {RowId(r) : r \in gone}
                                         THEN None ELSE link[x]]
    BY DEF DeleteEntity, Unlinked
  <2>2. DOMAIN link = Episode \cup (Entity \cap Movie)
        /\ \A x \in DOMAIN link : link[x] \in {RowId(r) : r \in rows} \cup {None}
    BY <1>1 DEF TypeOK
  <2>3. ASSUME NEW x \in DOMAIN link PROVE link'[x] \in {RowId(r) : r \in rows'} \cup {None}
    <3>1. CASE link[x] = None BY <2>1, <3>1
    <3>2. ASSUME NEW r \in rows, link[x] = RowId(r), r \notin gone
          PROVE  link'[x] \in {RowId(q) : q \in rows'} \cup {None}
      <4>1. r \in rows' BY <1>3, <3>2
      <4> QED BY <2>1, <3>2, <4>1
    <3>3. ASSUME NEW r \in gone, link[x] = RowId(r) PROVE link'[x] = None
      BY <2>1, <3>3
    <3> QED BY <2>2, <3>1, <3>2, <3>3
  <2> QED BY <2>1, <2>2, <2>3
<1>5. TypeOK' BY <1>1, <1>2, <1>3, <1>4 DEF TypeOK
<1>6. Recorded'
  <2> SUFFICES ASSUME NEW j \in DOMAIN trackers', trackers'[j].imported > 0,
                      Target[trackers'[j].download] \in library'
               PROVE  \E r \in rows' : /\ r.owner = Target[trackers'[j].download]
                                       /\ \E s \in SourcesOf(trackers'[j].download) :
                                            r.file = Dest[s]
    BY DEF Recorded, RecordedIn, HasRow, SourcesOf
  <2> DEFINE d == trackers[j].download
  <2>1. j \in DOMAIN trackers /\ trackers'[j] = trackers[j] BY <1>3
  <2>2. Target[d] \in library /\ Target[d] # e BY <1>3, <2>1
  <2>3. HasRow(d, rows) BY <2>1, <2>2 DEF IInv, Recorded, RecordedIn
  <2>4. PICK r \in rows : r.owner = Target[d] /\ \E s \in SourcesOf(d) : r.file = Dest[s]
    BY <2>3 DEF HasRow
  <2>5. r \in rows' BY <1>3, <2>2, <2>4
  <2>6. \E q \in rows' : q.owner = Target[d] /\ \E s \in SourcesOf(d) : q.file = Dest[s]
    BY <2>4, <2>5
  <2> QED BY <2>1, <2>6
<1>7. Known' /\ FromDownload' /\ TrackerExact' /\ CopiesNotStuck' /\ Finite'
  BY <1>3 DEF IInv, Known, FromDownload, Tracks, TrackerExact, CopiesOf, CopiesNotStuck, Finite
<1> QED BY <1>5, <1>6, <1>7 DEF IInv

---------------------------------------------------------------------------
(* The consumer *)

\* Trackers ts are those of the state but that n copies more are dispatched for j.
Raised(ts, j, n) ==
  /\ DOMAIN ts = DOMAIN trackers
  /\ \A i \in DOMAIN trackers : i # j => ts[i] = trackers[i]
  /\ j \in DOMAIN trackers =>
       /\ ts[j] \in Tracker /\ ts[j].download = trackers[j].download
       /\ ts[j].dispatched = trackers[j].dispatched + n
       /\ ts[j].completed = trackers[j].completed /\ ts[j].imported = trackers[j].imported

LEMMA FinishedFacts ==
  ASSUME TypeOK, NEW j, NEW n \in Nat
  PROVE  Raised(Finished(j, n), j, n)
<1>1. CASE j \notin DOMAIN trackers BY <1>1 DEF Finished, Raised
<1>2. CASE j \in DOMAIN trackers
  <2>1. trackers[j] \in Tracker BY <1>2 DEF TypeOK
  <2>2. DOMAIN Finished(j, n) = DOMAIN trackers
        /\ \A i \in DOMAIN trackers : i # j => Finished(j, n)[i] = trackers[i]
    BY <1>2 DEF Finished
  <2>3. Finished(j, n)[j] =
          [trackers[j] EXCEPT !.finished = TRUE, !.dispatched = @ + n]
    BY <1>2 DEF Finished
  <2>4. Finished(j, n)[j] =
          [download |-> trackers[j].download, dispatched |-> trackers[j].dispatched + n,
           completed |-> trackers[j].completed, imported |-> trackers[j].imported,
           finished |-> TRUE]
    BY <2>1, <2>3 DEF Tracker
  <2>5. /\ trackers[j].download \in Download /\ trackers[j].dispatched + n \in Nat
        /\ trackers[j].completed \in Nat /\ trackers[j].imported \in Nat
    BY <2>1 DEF Tracker
  <2>6. Finished(j, n)[j] \in Tracker BY <2>4, <2>5 DEF Tracker
  <2> QED BY <1>2, <2>2, <2>4, <2>6 DEF Raised
<1> QED BY <1>1, <1>2

\* The copies a scan adds are new, its job's, and of the download it lists.
LEMMA RaisedRight ==
  ASSUME IInv, NEW j, NEW new, NEW ts, Raised(ts, j, Cardinality(new)),
         IsFiniteSet(new), new \cap copying = {}, \A c \in new : c.job = j,
         copying' = copying \cup new, rows' = rows
  PROVE  Right(ts)
<1>1. TypeOK /\ Finite /\ TrackerExact /\ Recorded BY DEF IInv
<1>2. \A i \in DOMAIN ts : ts[i] \in Tracker /\ ts[i].download = trackers[i].download
                           /\ ts[i].imported = trackers[i].imported
                           /\ ts[i].completed = trackers[i].completed
  BY <1>1 DEF Raised, TypeOK
<1>3. DOMAIN ts = DOMAIN trackers BY DEF Raised
<1>4. RecordedIn(ts, rows') BY <1>1, <1>2, <1>3 DEF Recorded, RecordedIn
<1>5. ASSUME NEW i \in DOMAIN ts
      PROVE  ts[i].dispatched = ts[i].completed + Cardinality({c \in copying' : c.job = i})
  <2> DEFINE before == CopiesOf(i)
             after == {c \in copying' : c.job = i}
  <2>1. IsFiniteSet(before) /\ Cardinality(before) \in Nat BY <1>1, CountsFinite
  <2>2. trackers[i].dispatched = trackers[i].completed + Cardinality(before)
    BY <1>1, <1>3, <1>5 DEF TrackerExact
  <2>3. CASE i # j
    <3>1. after = before BY <2>3 DEF CopiesOf
    <3>2. ts[i] = trackers[i] BY <1>3, <2>3 DEF Raised
    <3> QED BY <2>2, <3>1, <3>2
  <2>4. CASE i = j
    <3>1. after = before \cup new /\ before \cap new = {} BY <2>4 DEF CopiesOf
    <3>2. Cardinality(after) = Cardinality(before) + Cardinality(new)
      <4>1. Cardinality(before \cap new) = 0 BY <3>1, FS_EmptySet
      <4>2. Cardinality(new) \in Nat BY FS_CardinalityType
      <4>3. Cardinality(before \cup new)
              = Cardinality(before) + Cardinality(new) - Cardinality(before \cap new)
        BY <2>1, FS_Union
      <4> HIDE DEF before, after
      <4>4. Cardinality(before \cup new) = Cardinality(before) + Cardinality(new)
        BY <2>1, <4>1, <4>2, <4>3
      <4> QED BY <3>1, <4>4
    <3>3. /\ ts[i].dispatched = trackers[i].dispatched + Cardinality(new)
          /\ ts[i].completed = trackers[i].completed
      BY <1>3, <2>4 DEF Raised
    <3>4. trackers[i].completed \in Nat /\ Cardinality(new) \in Nat
      BY <1>1, <1>3, FS_CardinalityType DEF TypeOK, Tracker
    <3> QED BY <2>1, <2>2, <3>2, <3>3, <3>4
  <2> QED BY <2>3, <2>4
<1>6. Exact(ts, copying') BY <1>1, <1>2, <1>3, <1>5 DEF Exact, TrackerExact
<1> QED BY <1>2, <1>3, <1>4, <1>6 DEF Right

\* A scan's answer is handled: the job's trackers become ts, and copies are dispatched.
Scanned(r, new, ts) ==
  /\ new \subseteq Copy /\ IsFiniteSet(new) /\ new \cap copying = {}
  /\ \A c \in new : c.job = r.task.job /\ c.source \in r.found
  /\ copying' = copying \cup new /\ tasks' = tasks \cup {CopyTask(c) : c \in new}
  /\ Raised(ts, r.task.job, Cardinality(new)) /\ Ends(ts, r.task.job)
  /\ imports' = imports

LEMMA ScannedStep ==
  ASSUME IInv, NEW r \in results, r.task.what = "scan", results' = results \ {r},
         NEW new, NEW ts, Scanned(r, new, ts),
         UNCHANGED <<disk, rows, link, library, sent, faults, hit>>
  PROVE  IInv' /\ Dropped
<1> DEFINE j == r.task.job
<1>1. TypeOK /\ Finite /\ Known /\ FromDownload BY DEF IInv
<1>2. r.task \in Task /\ j \in sent /\ r.found = SourcesOf(r.task.on) /\ Tracks(j, r.task.on)
  BY <1>1 DEF TypeOK, Result, Known, FromDownload, JobOf
<1>3. /\ new \subseteq Copy /\ IsFiniteSet(new) /\ new \cap copying = {}
      /\ \A c \in new : c.job = j /\ c.source \in r.found
      /\ copying' = copying \cup new /\ tasks' = tasks \cup {CopyTask(c) : c \in new}
      /\ Raised(ts, j, Cardinality(new)) /\ Ends(ts, j) /\ imports' = imports
  BY DEF Scanned
<1>4. Right(ts) BY <1>3, RaisedRight
<1>5. Finite' BY <1>1, <1>3, FS_Union DEF Finite
<1>6. /\ TrackerExact' /\ Recorded' /\ Dropped
      /\ DOMAIN trackers' \subseteq DOMAIN trackers
      /\ \A i \in DOMAIN trackers' : /\ trackers'[i] \in Tracker
                                     /\ trackers'[i].download = trackers[i].download
  BY <1>3, <1>4, <1>5, RightEnds DEF Finite
<1>7. TypeOK'
  <2>1. tasks' \subseteq Task
    <3>1. \A c \in new : CopyTask(c) \in Task BY <1>3 DEF CopyTask, Task
    <3> QED BY <1>1, <1>3, <3>1 DEF TypeOK
  <2>2. /\ DOMAIN jobs' = DOMAIN jobs
        /\ \A i \in DOMAIN jobs' : jobs'[i] \in [movie : BOOLEAN, completed : BOOLEAN]
        /\ tracked' \subseteq tracked
    BY <1>1, <1>3, EndFacts
  <2> QED BY <1>1, <1>3, <1>6, <2>1, <2>2 DEF TypeOK
<1>8. Known'
  <2>1. \A t \in tasks' : JobOf(t) \in sent BY <1>1, <1>2, <1>3, CopyTaskJob DEF Known
  <2> QED BY <1>1, <1>2, <1>3, <2>1 DEF Known
<1>9. FromDownload'
  <2>1. \A i, d : Tracks(i, d) => Tracks(i, d)' BY <1>6 DEF Tracks
  <2>2. \A c \in new : Tracks(c.job, Of[c.source])'
    BY <1>2, <1>3, <2>1 DEF SourcesOf
  <2>3. \A c \in copying' : Tracks(c.job, Of[c.source])'
    BY <1>1, <1>3, <2>1, <2>2 DEF FromDownload
  <2>4. \A t \in tasks' : t.what = "scan" => Tracks(t.job, t.on)'
    <3>1. \A c \in new : CopyTask(c).what = "copy" BY DEF CopyTask
    <3> QED BY <1>1, <1>3, <2>1, <3>1 DEF FromDownload
  <2>5. \A q \in results' : q.task.what = "scan" =>
          Tracks(q.task.job, q.task.on)' /\ q.found = SourcesOf(q.task.on)
    BY <1>1, <2>1 DEF FromDownload
  <2> QED BY <2>3, <2>4, <2>5 DEF FromDownload, SourcesOf
<1>10. CopiesNotStuck'
  <2>1. ASSUME NEW c \in copying', c.job \notin hit
        PROVE  CopyTask(c) \in tasks' \/ \E q \in results' : q.task = CopyTask(c)
    <3>1. CASE c \in new BY <1>3, <3>1
    <3>2. CASE c \in copying
      <4>1. CopyTask(c) \in tasks \/ \E q \in results : q.task = CopyTask(c)
        BY <2>1, <3>2, StuckByTask DEF IInv
      <4>2. r.task # CopyTask(c) BY CopyTaskJob
      <4> QED BY <1>3, <4>1, <4>2
    <3> QED BY <1>3, <3>1, <3>2
  <2> QED BY <2>1 DEF CopiesNotStuck, CopyTask
<1> QED BY <1>5, <1>6, <1>7, <1>8, <1>9, <1>10 DEF IInv

LEMMA ScanStep == ASSUME IInv, NEW r \in results, HandleScan(r) PROVE IInv' /\ Dropped
<1> DEFINE j == r.task.job
<1>1. TypeOK /\ Finite BY DEF IInv
<1>2. /\ r.task.what = "scan" /\ results' = results \ {r}
      /\ UNCHANGED <<disk, rows, link, library, sent, faults, hit>>
  BY DEF HandleScan, database
<1>3. r.task \in Task /\ r.found \subseteq Source /\ j \in Job
  BY <1>1, <1>2, TaskKinds DEF TypeOK, Result
<1>4. SUFFICES \E new, ts : Scanned(r, new, ts)
  BY <1>2, ScannedStep
<1>5. Raised(trackers, j, 0) BY <1>1 DEF Raised, TypeOK, Tracker
<1>6. ASSUME NEW ts, Raised(ts, j, 0), Ends(ts, j), UNCHANGED <<imports, copying, tasks>>
      PROVE  \E new, us : Scanned(r, new, us)
  <2>1. IsFiniteSet({}) /\ Cardinality({}) = 0 BY FS_EmptySet
  <2>2. {CopyTask(c) : c \in {}} = {} OBVIOUS
  <2>3. Raised(ts, j, Cardinality({})) BY <1>6, <2>1
  <2>4. Scanned(r, {}, ts) BY <1>6, <2>1, <2>2, <2>3 DEF Scanned
  <2> QED BY <2>4
<1>7. ASSUME NEW ss \in SUBSET Source, ss \subseteq r.found, DispatchCopies(j, ss),
             NEW ts, Raised(ts, j, Cardinality(ss)), Ends(ts, j), imports' = imports
      PROVE  \E new, us : Scanned(r, new, us)
  <2>1. PICK no \in 1 .. MaxFaults + 1 :
          /\ Unused(j, no)
          /\ copying' = copying \cup {CopyOf(j, s, no) : s \in ss}
          /\ tasks' = tasks \cup {[what |-> "copy", copy |-> CopyOf(j, s, no)] : s \in ss}
    BY <1>7 DEF DispatchCopies
  <2> DEFINE new == NewOf(j, ss, no)
  <2>2. /\ new \subseteq Copy /\ IsFiniteSet(new)
        /\ \A c \in new : c.job = j /\ c.source \in ss
        /\ Cardinality(new) = Cardinality(ss) /\ new \cap copying = {}
    BY <1>1, <1>3, <2>1, NewCopies
  <2>3. {[what |-> "copy", copy |-> CopyOf(j, s, no)] : s \in ss} = {CopyTask(c) : c \in new}
    BY DEF CopyTask, NewOf
  <2>4. copying' = copying \cup new BY <2>1 DEF NewOf
  <2>5. tasks' = tasks \cup {CopyTask(c) : c \in new} BY <2>1, <2>3
  <2>6. Raised(ts, j, Cardinality(new)) BY <1>7, <2>2
  <2> HIDE DEF new
  <2>7. \A c \in new : c.job = r.task.job /\ c.source \in r.found BY <1>7, <2>2
  <2>8. Scanned(r, new, ts) BY <1>7, <2>2, <2>4, <2>5, <2>6, <2>7 DEF Scanned
  <2> QED BY <2>8
<1>8. Raised(Finished(j, 0), j, 0) BY <1>1, FinishedFacts
<1>9. CASE j \notin DOMAIN jobs
  <2>1. UNCHANGED <<jobs, imports, trackers, copying, tasks, tracked>>
    BY <1>2, <1>9 DEF HandleScan, pendingState
  <2>2. Ends(trackers, j) BY <2>1 DEF Ends
  <2> QED BY <1>5, <1>6, <2>1, <2>2
<1>10. CASE j \in DOMAIN jobs /\ jobs[j].movie
  <2> DEFINE m == Target[r.task.on]
  <2>1. MovieScanned(j, m, r.found) BY <1>2, <1>10 DEF HandleScan
  <2>2. CASE r.found = {}
    <3>1. Cleanup(Finished(j, 0), j, TRUE) /\ UNCHANGED <<imports, copying, tasks>>
      BY <2>1, <2>2 DEF MovieScanned
    <3>2. Ends(Finished(j, 0), j) BY <3>1 DEF Ends
    <3> QED BY <1>6, <1>8, <3>1, <3>2
  <2>3. CASE r.found # {} /\ m \notin library
    <3>1. MarkReceived(j) /\ UNCHANGED <<imports, trackers, copying, tasks, tracked>>
      BY <2>1, <2>3 DEF MovieScanned
    <3>2. Ends(trackers, j) BY <3>1 DEF Ends
    <3> QED BY <1>5, <1>6, <3>1, <3>2
  <2>4. CASE r.found # {} /\ m \in library
    <3>1. PICK s \in r.found : /\ DispatchCopies(j, {s}) /\ trackers' = Finished(j, 1)
                               /\ UNCHANGED <<jobs, imports, tracked>>
      BY <2>1, <2>4 DEF MovieScanned
    <3>2. Ends(Finished(j, 1), j) BY <3>1 DEF Ends
    <3>3. Raised(Finished(j, 1), j, Cardinality({s})) BY <1>1, FinishedFacts, FS_Singleton
    <3>4. {s} \in SUBSET Source /\ {s} \subseteq r.found BY <1>3, <3>1
    <3> QED BY <1>7, <3>1, <3>2, <3>3, <3>4
  <2> QED BY <2>2, <2>3, <2>4
<1>11. CASE j \in DOMAIN jobs /\ ~jobs[j].movie
  <2>1. SeriesScanned(j, r.found) BY <1>2, <1>11 DEF HandleScan
  <2>2. CASE r.found = {}
    <3>1. Cleanup(Finished(j, 0), j, TRUE) /\ UNCHANGED <<imports, copying, tasks>>
      BY <2>1, <2>2 DEF SeriesScanned
    <3>2. Ends(Finished(j, 0), j) BY <3>1 DEF Ends
    <3> QED BY <1>6, <1>8, <3>1, <3>2
  <2>3. CASE r.found # {} /\ j \notin DOMAIN imports
    <3>1. MarkReceived(j) /\ UNCHANGED <<imports, trackers, copying, tasks, tracked>>
      BY <2>1, <2>3 DEF SeriesScanned
    <3>2. Ends(trackers, j) BY <3>1 DEF Ends
    <3> QED BY <1>5, <1>6, <3>1, <3>2
  <2>4. CASE r.found # {} /\ j \in DOMAIN imports
    <3> DEFINE ss == {s \in r.found : Importable(j, s)}
               ts == Finished(j, Cardinality(ss))
    <3>1. /\ DispatchCopies(j, ss) /\ imports' = imports
          /\ \/ Cleanup(ts, j, TRUE)
             \/ trackers' = ts /\ UNCHANGED <<jobs, tracked>>
      BY <2>1, <2>4 DEF SeriesScanned
    <3>2. ss \in SUBSET Source /\ ss \subseteq r.found BY <1>3
    <3>3. Cardinality(ss) \in Nat BY <3>2, ConstantFacts, FS_Subset, FS_CardinalityType
    <3>4. Raised(ts, j, Cardinality(ss)) BY <1>1, <3>3, FinishedFacts
    <3>5. Ends(ts, j) BY <3>1 DEF Ends
    <3> QED BY <1>7, <3>1, <3>2, <3>4, <3>5
  <2> QED BY <2>2, <2>3, <2>4
<1> QED BY <1>9, <1>10, <1>11

\* The row of an import is one of the download's; a link leads to a row.
LEMMA InsertFacts ==
  ASSUME TypeOK, NEW s \in Source,
         rows' = rows \cup {ImportedRow(s)},
         link' = [x \in DOMAIN link |->
                    IF x \in ImportedLinks(s) THEN RowId(ImportedRow(s)) ELSE link[x]]
  PROVE  /\ \A q \in rows' : q.file \in Path /\ q.owner \in Entity /\ q.size \in Nat
         /\ link' \in [Episode \cup (Entity \cap Movie) -> {RowId(q) : q \in rows'} \cup {None}]
         /\ HasRow(Of[s], rows')
<1> DEFINE n == ImportedRow(s)
           ids == {RowId(q) : q \in rows'} \cup {None}
<1>1. n.file = Dest[s] /\ n.owner = Target[Of[s]] /\ n.size = Bytes[s] BY DEF ImportedRow
<1>2. Dest[s] \in Path /\ Target[Of[s]] \in Entity /\ Bytes[s] \in Nat BY ConstantFacts
<1>3. n \in rows' OBVIOUS
<1> HIDE DEF n
<1>4. \A q \in rows' : q.file \in Path /\ q.owner \in Entity /\ q.size \in Nat
  BY <1>1, <1>2 DEF TypeOK, n
<1>5. HasRow(Of[s], rows') BY <1>1, <1>3, ConstantFacts DEF HasRow, SourcesOf
<1>6. DOMAIN link = Episode \cup (Entity \cap Movie)
      /\ \A x \in DOMAIN link : link[x] \in {RowId(q) : q \in rows} \cup {None}
  BY DEF TypeOK
<1>7. \A x \in DOMAIN link : link[x] \in ids BY <1>6
<1>8. RowId(n) \in ids BY <1>3
<1>9. link' = [x \in DOMAIN link |->
                 IF x \in ImportedLinks(s) THEN RowId(n) ELSE link[x]]
  BY DEF n
<1> HIDE DEF ids
<1>10. link' \in [DOMAIN link -> ids] BY <1>7, <1>8, <1>9
<1> QED BY <1>4, <1>5, <1>6, <1>10 DEF ids

\* One copy more is in, and recorded if it counts as imported.
LEMMA CountedRight ==
  ASSUME IInv, NEW r, NEW c \in copying, r.task.copy = c,
         copying' = copying \ {c}, rows \subseteq rows',
         Inserted(r) => HasRow(Of[c.source], rows')
  PROVE  Right(Counted(c.job, r))
<1> DEFINE j == c.job
           ts == Counted(j, r)
<1>1. TypeOK /\ Finite /\ TrackerExact /\ Recorded /\ FromDownload BY DEF IInv
<1>2. DOMAIN ts = DOMAIN trackers /\ \A i \in DOMAIN ts : i # j => ts[i] = trackers[i]
  BY DEF Counted
<1>3. ASSUME j \in DOMAIN trackers
      PROVE  \E n \in {0, 1} :
               /\ n = 1 => Inserted(r)
               /\ ts[j] \in Tracker /\ ts[j].download = trackers[j].download
               /\ ts[j].dispatched = trackers[j].dispatched
               /\ ts[j].completed = trackers[j].completed + 1
               /\ ts[j].imported = trackers[j].imported + n
  <2> DEFINE n == IF Inserted(r) THEN 1 ELSE 0
             t == trackers[j]
  <2>1. t \in Tracker BY <1>1, <1>3 DEF TypeOK
  <2>2. ts[j] = [t EXCEPT !.completed = @ + 1, !.imported = @ + n]
    BY <1>3 DEF Counted
  <2>3. n \in {0, 1} /\ (n = 1 => Inserted(r)) OBVIOUS
  <2> HIDE DEF n, ts
  <2>4. ts[j] = [download |-> t.download, dispatched |-> t.dispatched,
                 completed |-> t.completed + 1, imported |-> t.imported + n,
                 finished |-> t.finished]
    BY <2>1, <2>2 DEF Tracker
  <2>5. /\ t.download \in Download /\ t.dispatched \in Nat /\ t.completed + 1 \in Nat
        /\ t.imported + n \in Nat /\ t.finished \in BOOLEAN
    BY <2>1, <2>3 DEF Tracker
  <2>6. ts[j] \in Tracker BY <2>4, <2>5 DEF Tracker
  <2> QED BY <2>3, <2>4, <2>6
<1> HIDE DEF ts
<1>4. \A i \in DOMAIN ts : ts[i] \in Tracker /\ ts[i].download = trackers[i].download
  BY <1>1, <1>2, <1>3 DEF TypeOK
<1>5. ASSUME NEW i \in DOMAIN ts
      PROVE  /\ ts[i].dispatched = ts[i].completed + Cardinality({k \in copying' : k.job = i})
             /\ ts[i].imported <= ts[i].completed
  <2> DEFINE before == CopiesOf(i)
             after == {k \in copying' : k.job = i}
             t == trackers[i]
  <2>1. IsFiniteSet(before) /\ Cardinality(before) \in Nat BY <1>1, CountsFinite
  <2>2. t.dispatched = t.completed + Cardinality(before) /\ t.imported <= t.completed
    BY <1>1, <1>2, <1>5 DEF TrackerExact
  <2>3. t.completed \in Nat /\ t.imported \in Nat BY <1>1, <1>2, <1>5 DEF TypeOK, Tracker
  <2>4. CASE i # j
    <3>1. after = before BY <2>4 DEF CopiesOf
    <3>2. ts[i] = t BY <1>2, <2>4
    <3> QED BY <2>2, <3>1, <3>2
  <2>5. CASE i = j
    <3>1. after = before \ {c} /\ c \in before BY <2>5 DEF CopiesOf
    <3>2. Cardinality(before \ {c}) = Cardinality(before) - 1
      <4>1. IsFiniteSet(before) /\ c \in before BY <2>1, <3>1
      <4> HIDE DEF before
      <4> QED BY <4>1, FS_RemoveElement
    <3>3. PICK n \in {0, 1} : /\ ts[i].dispatched = t.dispatched
                              /\ ts[i].completed = t.completed + 1
                              /\ ts[i].imported = t.imported + n
      BY <1>2, <1>3, <2>5
    <3> HIDE DEF before, after, t
    <3>4. ts[i].dispatched = ts[i].completed + (Cardinality(before) - 1)
      BY <2>1, <2>2, <2>3, <3>3
    <3>5. ts[i].imported <= ts[i].completed BY <2>2, <2>3, <3>3
    <3>6. ts[i].dispatched = ts[i].completed + Cardinality(after) BY <3>1, <3>2, <3>4
    <3> QED BY <3>5, <3>6 DEF after
  <2> QED BY <2>4, <2>5
<1>6. Exact(ts, copying') BY <1>5 DEF Exact
<1>7. RecordedIn(ts, rows')
  <2> SUFFICES ASSUME NEW i \in DOMAIN ts, ts[i].imported > 0, Target[ts[i].download] \in library
               PROVE  HasRow(ts[i].download, rows')
    BY DEF RecordedIn
  <2>1. CASE i \in DOMAIN trackers /\ trackers[i].imported > 0
    <3>1. HasRow(ts[i].download, rows) BY <1>1, <1>4, <2>1 DEF Recorded, RecordedIn
    <3> QED BY <3>1 DEF HasRow
  <2>2. CASE ~(trackers[i].imported > 0)
    <3>1. i = j BY <1>2, <2>2
    <3>2. PICK n \in {0, 1} : /\ n = 1 => Inserted(r)
                              /\ ts[i].imported = trackers[i].imported + n
      BY <1>2, <1>3, <3>1
    <3>3. trackers[i].imported \in Nat BY <1>1, <1>2 DEF TypeOK, Tracker
    <3>4. n = 1 BY <2>2, <3>2, <3>3
    <3>5. HasRow(Of[c.source], rows') BY <3>2, <3>4
    <3>6. ts[i].download = Of[c.source]
      BY <1>1, <1>2, <1>4, <3>1 DEF FromDownload, Tracks
    <3> QED BY <3>5, <3>6
  <2> QED BY <1>2, <2>1, <2>2
<1> QED BY <1>2, <1>4, <1>6, <1>7 DEF Right, ts

LEMMA CopyStep == ASSUME IInv, NEW r \in results, HandleCopy(r) PROVE IInv' /\ Dropped
<1> DEFINE c == r.task.copy
           s == c.source
<1>1. TypeOK /\ Finite /\ Known /\ FromDownload /\ CopiesNotStuck BY DEF IInv
<1>2. /\ r.task.what = "copy" /\ results' = results \ {r}
      /\ UNCHANGED <<tasks, disk, library, sent, faults, hit>>
  BY DEF HandleCopy
<1>3. r.task \in Task /\ r.task = CopyTask(c) /\ c \in Copy
  BY <1>1, <1>2, TaskKinds DEF TypeOK, Result, CopyTask
<1>4. ASSUME NEW k \in copying, k # c, k.job \notin hit
      PROVE  CopyTask(k) \in tasks' \/ \E q \in results' : q.task = CopyTask(k)
  <2>1. CopyTask(k) \in tasks \/ \E q \in results : q.task = CopyTask(k)
    BY <1>1, <1>4, StuckByTask
  <2>2. CopyTask(k) # r.task BY <1>4, CopyTaskJob
  <2> QED BY <1>2, <2>1, <2>2
<1>5. CASE c \notin copying
  <2>1. UNCHANGED <<jobs, imports, trackers, copying, rows, link, tracked>>
    BY <1>5 DEF HandleCopy, pendingState
  <2>2. TypeOK' BY <1>1, <1>2, <2>1 DEF TypeOK
  <2>3. Moves BY <1>2, <2>1 DEF Moves
  <2>4. CopiesNotStuck' BY <1>2, <1>4, <1>5, <2>1 DEF CopiesNotStuck, CopyTask
  <2>5. Dropped BY <2>1 DEF Dropped
  <2> QED BY <2>2, <2>3, <2>4, <2>5, MovesStep
<1>6. CASE c \in copying
  <2> DEFINE j == c.job
             ts == Counted(j, r)
  <2>1. /\ copying' = copying \ {c} /\ imports' = imports /\ Cleanup(ts, j, FALSE)
        /\ IF Inserted(r)
             THEN /\ rows' = rows \cup {ImportedRow(s)}
                  /\ link' = [x \in DOMAIN link |->
                                IF x \in ImportedLinks(s) THEN RowId(ImportedRow(s)) ELSE link[x]]
             ELSE UNCHANGED <<rows, link>>
    BY <1>6 DEF HandleCopy, Settled
  <2>2. s \in Source BY <1>3 DEF Copy
  <2>3. /\ \A q \in rows' : q.file \in Path /\ q.owner \in Entity /\ q.size \in Nat
        /\ link' \in [Episode \cup (Entity \cap Movie) -> {RowId(q) : q \in rows'} \cup {None}]
        /\ rows \subseteq rows' /\ (Inserted(r) => HasRow(Of[s], rows'))
    <3>1. CASE Inserted(r) BY <1>1, <2>1, <2>2, <3>1, InsertFacts
    <3>2. CASE ~Inserted(r) BY <1>1, <2>1, <3>2 DEF TypeOK
    <3> QED BY <3>1, <3>2
  <2>4. Right(ts) BY <1>6, <2>1, <2>3, CountedRight
  <2>5. Ends(ts, j) BY <2>1 DEF Ends
  <2>6. Finite' BY <1>1, <2>1, FS_Subset DEF Finite
  <2>7. /\ TrackerExact' /\ Recorded' /\ Dropped
        /\ DOMAIN trackers' \subseteq DOMAIN trackers
        /\ \A i \in DOMAIN trackers' : /\ trackers'[i] \in Tracker
                                       /\ trackers'[i].download = trackers[i].download
    BY <1>2, <2>4, <2>5, <2>6, RightEnds DEF Finite
  <2>8. /\ DOMAIN jobs' = DOMAIN jobs
        /\ \A i \in DOMAIN jobs' : jobs'[i] \in [movie : BOOLEAN, completed : BOOLEAN]
        /\ tracked' \subseteq tracked
    BY <1>1, <2>5, EndFacts
  <2>9. TypeOK' BY <1>1, <1>2, <2>1, <2>3, <2>7, <2>8 DEF TypeOK
  <2>10. Known' BY <1>1, <1>2, <2>1 DEF Known
  <2>11. FromDownload'
    <3>1. \A i, d : Tracks(i, d) => Tracks(i, d)' BY <2>7 DEF Tracks
    <3> QED BY <1>1, <1>2, <2>1, <3>1 DEF FromDownload, SourcesOf
  <2>12. CopiesNotStuck' BY <1>2, <1>4, <2>1 DEF CopiesNotStuck, CopyTask
  <2> QED BY <2>6, <2>7, <2>9, <2>10, <2>11, <2>12 DEF IInv
<1> QED BY <1>5, <1>6

---------------------------------------------------------------------------
(* The theorems *)

LEMMA Initial == Init => IInv
<1> SUFFICES ASSUME Init PROVE IInv OBVIOUS
<1>1. /\ DOMAIN jobs = {} /\ DOMAIN imports = {} /\ DOMAIN trackers = {}
      /\ copying = {} /\ tasks = {} /\ results = {} /\ rows = {} /\ library = Entity
      /\ disk = [p \in Path |-> 0] /\ tracked \subseteq Download
      /\ link = [x \in Episode \cup (Entity \cap Movie) |-> None]
      /\ sent = {} /\ faults = 0 /\ hit = {}
  BY DEF Init, Empty
<1>2. TypeOK BY <1>1, ConstantFacts DEF TypeOK
<1>3. Finite BY <1>1, FS_EmptySet DEF Finite
<1>4. Known /\ FromDownload /\ Recorded /\ TrackerExact /\ CopiesNotStuck
  BY <1>1 DEF Known, FromDownload, Recorded, RecordedIn, TrackerExact, CopiesNotStuck
<1> QED BY <1>2, <1>3, <1>4 DEF IInv

LEMMA Inductive == IInv /\ [Next]_vars => IInv' /\ Dropped
<1> SUFFICES ASSUME IInv, [Next]_vars PROVE IInv' /\ Dropped OBVIOUS
<1>1. ASSUME NEW j \in Job, NEW d \in Download, DispatchCompleted(j, d) \/ ImportQueueItem(j, d)
      PROVE  IInv' /\ Dropped
  <2>1. \E movie, force \in BOOLEAN : Dispatch(j, d, movie, force)
    <3>1. CASE DispatchCompleted(j, d)
      <4>1. Dispatch(j, d, FALSE, FALSE) BY <3>1 DEF DispatchCompleted
      <4> QED BY <4>1
    <3>2. CASE ImportQueueItem(j, d)
      <4>1. Dispatch(j, d, Target[d] \in Movie, TRUE) BY <3>2 DEF ImportQueueItem
      <4>3. CASE Target[d] \in Movie
        <5>1. Dispatch(j, d, TRUE, TRUE) BY <4>1, <4>3, Zenon
        <5> QED BY <5>1
      <4>4. CASE ~(Target[d] \in Movie)
        <5>1. (Target[d] \in Movie) = FALSE BY <4>4
        <5>2. Dispatch(j, d, FALSE, TRUE) BY <4>1, <5>1, Zenon
        <5> QED BY <5>2
      <4> QED BY <4>3, <4>4
    <3> QED BY <1>1, <3>1, <3>2
  <2>2. tracked' = tracked BY <2>1 DEF Dispatch
  <2> QED BY <2>1, <2>2, DispatchStep DEF Dropped
<1>2. ASSUME NEW t \in tasks, Work(t) PROVE IInv' /\ Dropped
  <2>1. tracked' = tracked BY <1>2 DEF Work, WorkerScan, WorkerCopy, Reply
  <2> QED BY <1>2, <2>1, WorkStep DEF Dropped
<1>3. ASSUME \/ \E t \in tasks : LoseTask(t)
             \/ \E r \in results : Redeliver(r) \/ LoseResult(r)
      PROVE  IInv' /\ Dropped
  <2>1. tracked' = tracked BY <1>3 DEF LoseTask, Redeliver, LoseResult
  <2> QED BY <1>3, <2>1, LoseStep DEF Dropped
<1>4. ASSUME NEW r \in results, Handle(r) PROVE IInv' /\ Dropped
  BY <1>4, ScanStep, CopyStep DEF Handle
<1>5. CASE GetRunningJobs \/ \E j \in Job : CancelJob(j)
  <2>1. tracked' = tracked BY <1>5 DEF GetRunningJobs, CancelJob
  <2> QED BY <1>5, <2>1, JobsStep DEF Dropped
<1>6. CASE Restart
  <2>1. tracked' = tracked BY <1>6 DEF Restart
  <2> QED BY <1>6, <2>1, RestartStep DEF Dropped
<1>7. ASSUME NEW e \in Entity, DeleteEntity(e) PROVE IInv' /\ Dropped
  <2>1. tracked' = tracked BY <1>7 DEF DeleteEntity
  <2> QED BY <1>7, <2>1, DeleteStep DEF Dropped
<1>8. CASE UNCHANGED vars
  <2>1. TypeOK' /\ Moves /\ CopiesNotStuck' /\ tracked' = tracked
    BY <1>8 DEF vars, IInv, TypeOK, Moves, CopiesNotStuck
  <2> QED BY <2>1, MovesStep DEF Dropped
<1> QED BY <1>1, <1>2, <1>3, <1>4, <1>5, <1>6, <1>7, <1>8 DEF Next, Step

\* The invariant holds in every state.
THEOREM Invariance == Spec => []IInv
<1>1. Init => IInv BY Initial
<1>2. IInv /\ [Next]_vars => IInv' BY Inductive
<1> QED BY <1>1, <1>2, PTL DEF Spec

\* Every variable keeps its type.
THEOREM TypeCorrect == Spec => []TypeOK
<1>1. IInv => TypeOK BY DEF IInv
<1> QED BY <1>1, Invariance, PTL

\* A tracker (DownloadJobTracker) counts exactly the copies under way, whatever is
\* lost, repeated, cancelled or deleted.
THEOREM TrackersCount == Spec => []TrackerExact
<1>1. IInv => TrackerExact BY DEF IInv
<1> QED BY <1>1, Invariance, PTL

\* A copy that the consumer waits for is being made or answered, unless a message of
\* its job was lost or repeated or the server restarted.
THEOREM CopiesAnswered == Spec => []CopiesNotStuck
<1>1. IInv => CopiesNotStuck BY DEF IInv
<1> QED BY <1>1, Invariance, PTL

\* try_download_cleanup() drops a tracked record only after an import that waits for
\* no copy and has a row of the download to show.
THEOREM CleanupAfterImport == Spec => DroppedAfterImport
<1>1. IInv /\ [Next]_vars => Dropped BY Inductive
<1>2. IInv /\ [Next]_vars => [Dropped]_vars BY <1>1
<1>3. Spec => [][Dropped]_vars BY <1>2, Invariance, PTL DEF Spec
<1> QED BY <1>3 DEF Dropped, DroppedAfterImport

---------------------------------------------------------------------------
(* What ImportsFinish waits for *)

\* A job that is open can still end by itself: its scan is out and it copies nothing,
\* or its files were scanned and copies are out.
Open(j) == j \in DOMAIN jobs /\ ~jobs[j].completed /\ j \notin hit
ScanOut(j) == \/ \E t \in tasks : t.what = "scan" /\ t.job = j
              \/ \E r \in results : r.task.what = "scan" /\ r.task.job = j
Awaits(j) == /\ j \in DOMAIN trackers
             /\ IF trackers[j].finished THEN CopiesOf(j) # {}
                                        ELSE trackers[j].dispatched = 0 /\ ScanOut(j)
Awaiting == \A j : Open(j) => Awaits(j)

\* A job outside hit that is registered and not completed has a message in flight.
Pending(j) == \/ \E t \in tasks : JobOf(t) = j
              \/ \E r \in results : JobOf(r.task) = j
OpenImportsPending == \A j \in DOMAIN jobs : ~jobs[j].completed /\ j \notin hit => Pending(j)

LEMMA AwaitsKept ==
  ASSUME NEW j, Awaits(j), j \in DOMAIN trackers', trackers'[j] = trackers[j],
         CopiesOf(j)' = CopiesOf(j), ScanOut(j) => ScanOut(j)'
  PROVE  Awaits(j)'
  BY DEF Awaits

\* A step that leaves the consumer alone and no job's scan behind.
LEMMA AwaitingKept ==
  ASSUME Awaiting, UNCHANGED <<trackers, copying>>,
         \A j : Open(j)' => Open(j), \A j : Open(j)' /\ ScanOut(j) => ScanOut(j)'
  PROVE  Awaiting'
<1> SUFFICES ASSUME NEW j, Open(j)' PROVE Awaits(j)' BY DEF Awaiting
<1>1. Awaits(j) BY DEF Awaiting
<1>2. j \in DOMAIN trackers' /\ trackers'[j] = trackers[j] BY <1>1 DEF Awaits
<1>3. CopiesOf(j)' = CopiesOf(j) BY DEF CopiesOf
<1> QED BY <1>1, <1>2, <1>3, AwaitsKept

LEMMA DispatchAwaits ==
  ASSUME IInv, Awaiting, NEW j, NEW d, NEW movie, NEW force, Dispatch(j, d, movie, force)
  PROVE  Awaiting'
<1>1. /\ j \notin sent /\ UNCHANGED <<copying, results, hit>>
      /\ tasks' = tasks \cup {[what |-> "scan", job |-> j, on |-> d]}
      /\ jobs' = Extend(jobs, j, [movie |-> movie, completed |-> FALSE])
      /\ trackers' = Extend(trackers, j, NewTracker(d))
  BY DEF Dispatch
<1>2. \A i : i # j /\ i \in DOMAIN jobs' => i \in DOMAIN jobs /\ jobs'[i] = jobs[i]
  BY <1>1 DEF Extend
<1> DEFINE n == NewTracker(d)
<1>3. /\ DOMAIN trackers' = DOMAIN trackers \cup {j} /\ trackers'[j] = n
      /\ \A i \in DOMAIN trackers : i # j => trackers'[i] = trackers[i]
  BY <1>1 DEF Extend
<1>4. n.finished = FALSE /\ n.dispatched = 0 BY DEF NewTracker
<1> HIDE DEF n
<1>5. ASSUME NEW i, Open(i)' PROVE Awaits(i)'
  <2>1. CASE i = j
    <3> DEFINE t == [what |-> "scan", job |-> j, on |-> d]
    <3>1. t \in tasks' /\ t.what = "scan" /\ t.job = j BY <1>1
    <3>2. ScanOut(j)' BY <3>1 DEF ScanOut
    <3> QED BY <1>3, <1>4, <2>1, <3>2 DEF Awaits
  <2>2. CASE i # j
    <3>1. Open(i) BY <1>1, <1>2, <1>5, <2>2 DEF Open
    <3>2. Awaits(i) BY <3>1 DEF Awaiting
    <3>3. i \in DOMAIN trackers' /\ trackers'[i] = trackers[i] BY <1>3, <2>2, <3>2 DEF Awaits
    <3>4. CopiesOf(i)' = CopiesOf(i) BY <1>1 DEF CopiesOf
    <3>5. ScanOut(i) => ScanOut(i)' BY <1>1 DEF ScanOut
    <3> QED BY <3>2, <3>3, <3>4, <3>5, AwaitsKept
  <2> QED BY <2>1, <2>2
<1> QED BY <1>5 DEF Awaiting

LEMMA MessagesAwait ==
  ASSUME IInv, Awaiting,
         \/ \E t \in tasks : Work(t) \/ LoseTask(t)
         \/ \E r \in results : Redeliver(r) \/ LoseResult(r)
  PROVE  Awaiting'
<1>1. TypeOK BY DEF IInv
<1>2. ASSUME NEW t \in tasks, NEW found, NEW ok, Reply(t, found, ok) PROVE Awaiting'
  <2> DEFINE r == [task |-> t, found |-> found, ok |-> ok]
  <2>1. /\ tasks' = tasks \ {t} /\ r \in results' /\ results \subseteq results'
        /\ UNCHANGED <<jobs, trackers, copying, hit>>
    BY <1>2 DEF Reply, pendingState
  <2>2. \A j : Open(j)' => Open(j) BY <2>1 DEF Open
  <2>3. r.task = t OBVIOUS
  <2> HIDE DEF r
  <2>4. \A j : ScanOut(j) => ScanOut(j)' BY <2>1, <2>3 DEF ScanOut
  <2> QED BY <2>1, <2>2, <2>4, AwaitingKept
<1>3. ASSUME NEW t \in tasks, LoseTask(t) PROVE Awaiting'
  <2>1. /\ tasks' = tasks \ {t} /\ hit' = hit \cup {JobOf(t)}
        /\ UNCHANGED <<jobs, trackers, copying, results>>
    BY <1>3 DEF LoseTask, pendingState
  <2>2. \A j : Open(j)' => Open(j) /\ JobOf(t) # j BY <2>1 DEF Open
  <2>3. t.what = "scan" => JobOf(t) = t.job BY <1>1, TaskKinds DEF TypeOK
  <2>4. \A j : JobOf(t) # j /\ ScanOut(j) => ScanOut(j)' BY <2>1, <2>3 DEF ScanOut
  <2> QED BY <2>1, <2>2, <2>4, AwaitingKept
<1>4. ASSUME NEW r \in results, LoseResult(r) PROVE Awaiting'
  <2>1. /\ results' = results \ {r} /\ hit' = hit \cup {JobOf(r.task)}
        /\ UNCHANGED <<jobs, trackers, copying, tasks>>
    BY <1>4 DEF LoseResult, pendingState
  <2>2. \A j : Open(j)' => Open(j) /\ JobOf(r.task) # j BY <2>1 DEF Open
  <2>3. r.task.what = "scan" => JobOf(r.task) = r.task.job
    BY <1>1, TaskKinds DEF TypeOK, Result
  <2>4. \A j : JobOf(r.task) # j /\ ScanOut(j) => ScanOut(j)' BY <2>1, <2>3 DEF ScanOut
  <2> QED BY <2>1, <2>2, <2>4, AwaitingKept
<1>5. ASSUME NEW r \in results, Redeliver(r) PROVE Awaiting'
  <2>1. /\ tasks' = tasks \cup {r.task} /\ hit \subseteq hit'
        /\ UNCHANGED <<jobs, trackers, copying, results>>
    BY <1>5 DEF Redeliver, pendingState
  <2>2. \A j : Open(j)' => Open(j) BY <2>1 DEF Open
  <2>3. \A j : ScanOut(j) => ScanOut(j)' BY <2>1 DEF ScanOut
  <2> QED BY <2>1, <2>2, <2>3, AwaitingKept
<1>6. ASSUME NEW t \in tasks, Work(t) PROVE Awaiting'
  BY <1>2, <1>6 DEF Work, WorkerScan, WorkerCopy
<1> QED BY <1>3, <1>4, <1>5, <1>6

LEMMA JobsAwait ==
  ASSUME IInv, Awaiting,
         \/ GetRunningJobs \/ Restart
         \/ \E j \in Job : CancelJob(j)
         \/ \E e \in Entity : DeleteEntity(e)
  PROVE  Awaiting'
<1>1. CASE Restart
  <2>1. DOMAIN jobs' = {} BY <1>1 DEF Restart, Empty
  <2> QED BY <2>1 DEF Awaiting, Open
<1>2. CASE GetRunningJobs
  <2>1. UNCHANGED <<trackers, copying, tasks, results, hit>> BY <1>2 DEF GetRunningJobs
  <2>2. \A j : Open(j)' => Open(j) BY <1>2 DEF GetRunningJobs, Open
  <2>3. \A j : ScanOut(j) => ScanOut(j)' BY <2>1 DEF ScanOut
  <2> QED BY <2>1, <2>2, <2>3, AwaitingKept
<1>3. ASSUME NEW i \in Job, CancelJob(i) PROVE Awaiting'
  <2>1. /\ UNCHANGED <<trackers, copying, tasks, results, hit>>
        /\ i \in DOMAIN jobs /\ jobs' = [jobs EXCEPT ![i].completed = TRUE]
    BY <1>3 DEF CancelJob
  <2>2. DOMAIN jobs' = DOMAIN jobs /\ \A j \in DOMAIN jobs : j # i => jobs'[j] = jobs[j]
    BY <2>1
  <2>3. jobs'[i].completed
    <3>1. jobs[i] \in [movie : BOOLEAN, completed : BOOLEAN] BY <2>1 DEF IInv, TypeOK
    <3> QED BY <2>1, <3>1
  <2>4. \A j : Open(j)' => Open(j) BY <2>1, <2>2, <2>3 DEF Open
  <2>5. \A j : ScanOut(j) => ScanOut(j)' BY <2>1 DEF ScanOut
  <2> QED BY <2>1, <2>4, <2>5, AwaitingKept
<1>4. ASSUME NEW e \in Entity, DeleteEntity(e) PROVE Awaiting'
  <2>1. UNCHANGED <<jobs, trackers, copying, tasks, results, hit>>
    BY <1>4 DEF DeleteEntity, pendingState
  <2>2. \A j : Open(j)' => Open(j) BY <2>1 DEF Open
  <2>3. \A j : ScanOut(j) => ScanOut(j)' BY <2>1 DEF ScanOut
  <2> QED BY <2>1, <2>2, <2>3, AwaitingKept
<1> QED BY <1>1, <1>2, <1>3, <1>4

\* What a handler does to the other jobs: nothing.
Apart(j) ==
  /\ UNCHANGED <<sent, hit>>
  /\ \A i : i # j =>
       /\ i \in DOMAIN jobs' => i \in DOMAIN jobs /\ jobs'[i] = jobs[i]
       /\ i \in DOMAIN trackers => i \in DOMAIN trackers' /\ trackers'[i] = trackers[i]
       /\ CopiesOf(i)' = CopiesOf(i)
       /\ ScanOut(i) => ScanOut(i)'

LEMMA ApartAwaits ==
  ASSUME Awaiting, NEW j, Apart(j), Open(j)' => Awaits(j)'
  PROVE  Awaiting'
<1>1. ASSUME NEW i, Open(i)', i # j PROVE Awaits(i)'
  <2>1. Open(i) BY <1>1 DEF Apart, Open
  <2>2. Awaits(i) BY <2>1 DEF Awaiting
  <2>3. i \in DOMAIN trackers' /\ trackers'[i] = trackers[i] BY <1>1, <2>2 DEF Apart, Awaits
  <2> QED BY <1>1, <2>2, <2>3, AwaitsKept DEF Apart
<1> QED BY <1>1 DEF Awaiting

\* A handler ends with its job counted as done, or the trackers are as it left them.
LEMMA CleanupFacts ==
  ASSUME TypeOK, NEW ts, NEW j, NEW also \in BOOLEAN, Cleanup(ts, j, also)
  PROVE  /\ \A i : i # j =>
              /\ i \in DOMAIN jobs' => i \in DOMAIN jobs /\ jobs'[i] = jobs[i]
              /\ i \in DOMAIN ts => i \in DOMAIN trackers' /\ trackers'[i] = ts[i]
         /\ also \/ CleansUp(ts, j) => ~Open(j)'
         /\ ~CleansUp(ts, j) => trackers' = ts
         /\ Open(j)' /\ hit' = hit => Open(j)
<1>1. MarkReceived(j) =>
        /\ DOMAIN jobs' = DOMAIN jobs /\ ~Open(j)'
        /\ \A i \in DOMAIN jobs : i # j => jobs'[i] = jobs[i]
  <2>1. CASE j \in DOMAIN jobs
    <3>1. jobs[j] \in [movie : BOOLEAN, completed : BOOLEAN] BY <2>1 DEF TypeOK
    <3> QED BY <2>1, <3>1 DEF MarkReceived, Open
  <2>2. CASE j \notin DOMAIN jobs BY <2>2 DEF MarkReceived, Open
  <2> QED BY <2>1, <2>2
<1>2. CASE CleansUp(ts, j)
  <2>1. trackers' = Drop(ts, j) /\ MarkReceived(j) BY <1>2 DEF Cleanup
  <2>2. \A i : i # j /\ i \in DOMAIN ts => i \in DOMAIN trackers' /\ trackers'[i] = ts[i]
    BY <2>1 DEF Drop
  <2> QED BY <1>1, <1>2, <2>1, <2>2
<1>3. CASE ~CleansUp(ts, j)
  <2>1. trackers' = ts /\ IF also THEN MarkReceived(j) ELSE jobs' = jobs
    BY <1>3 DEF Cleanup
  <2>2. CASE also BY <1>1, <1>3, <2>1, <2>2
  <2>3. CASE ~also BY <1>3, <2>1, <2>3 DEF Open
  <2> QED BY <2>2, <2>3
<1> QED BY <1>2, <1>3

LEMMA FinishedAwaits ==
  ASSUME TypeOK, NEW j, NEW n \in Nat
  PROVE  /\ DOMAIN Finished(j, n) = DOMAIN trackers
         /\ \A i \in DOMAIN trackers : i # j => Finished(j, n)[i] = trackers[i]
         /\ j \in DOMAIN trackers => /\ Finished(j, n)[j].finished
                                     /\ Finished(j, n)[j].dispatched = trackers[j].dispatched + n
<1>1. CASE j \in DOMAIN trackers
  <2>1. trackers[j] \in Tracker BY <1>1 DEF TypeOK
  <2> QED BY <1>1, <2>1 DEF Finished, Tracker
<1>2. CASE j \notin DOMAIN trackers BY <1>2 DEF Finished
<1> QED BY <1>1, <1>2

\* The copies that a scan's handler adds are of its job.
LEMMA NewCopiesApart ==
  ASSUME NEW j, NEW ss, DispatchCopies(j, ss)
  PROVE  /\ copying \subseteq copying' /\ tasks \subseteq tasks'
         /\ \A i : i # j => CopiesOf(i)' = CopiesOf(i)
         /\ ss # {} => CopiesOf(j)' # {}
<1>1. PICK no \in 1 .. MaxFaults + 1 :
        /\ copying' = copying \cup {CopyOf(j, s, no) : s \in ss}
        /\ tasks \subseteq tasks'
  BY DEF DispatchCopies
<1>2. \A s : CopyOf(j, s, no).job = j BY DEF CopyOf
<1> QED BY <1>1, <1>2 DEF CopiesOf

LEMMA ScanAwaits ==
  ASSUME IInv, TrackerExact', Finite', Awaiting, NEW r \in results, HandleScan(r)
  PROVE  Awaiting'
<1> DEFINE j == r.task.job
<1>1. TypeOK /\ TrackerExact BY DEF IInv
<1>2. /\ r.task.what = "scan" /\ results' = results \ {r} /\ UNCHANGED <<sent, hit>>
  BY DEF HandleScan
<1>3. \A i : i # j /\ tasks \subseteq tasks' /\ ScanOut(i) => ScanOut(i)' BY <1>2 DEF ScanOut
<1>4. ASSUME NEW ts, \/ ts = trackers \/ \E n \in Nat : ts = Finished(j, n),
             NEW ss, \/ DispatchCopies(j, ss) \/ UNCHANGED <<copying, tasks>>,
             \/ \E also \in BOOLEAN : Cleanup(ts, j, also)
             \/ trackers' = ts /\ (MarkReceived(j) \/ jobs' = jobs)
      PROVE  Apart(j)
  <2>1. \A i \in DOMAIN trackers : i # j => i \in DOMAIN ts /\ ts[i] = trackers[i]
    BY <1>1, <1>4, FinishedAwaits
  <2>2. \A i : i # j =>
          /\ i \in DOMAIN jobs' => i \in DOMAIN jobs /\ jobs'[i] = jobs[i]
          /\ i \in DOMAIN ts => i \in DOMAIN trackers' /\ trackers'[i] = ts[i]
    <3>1. CASE \E also \in BOOLEAN : Cleanup(ts, j, also) BY <1>1, <3>1, CleanupFacts
    <3>2. CASE trackers' = ts /\ (MarkReceived(j) \/ jobs' = jobs)
      BY <3>2 DEF MarkReceived
    <3> QED BY <1>4, <3>1, <3>2
  <2>3. tasks \subseteq tasks' /\ \A i : i # j => CopiesOf(i)' = CopiesOf(i)
    <3>1. CASE DispatchCopies(j, ss) BY <3>1, NewCopiesApart
    <3>2. CASE UNCHANGED <<copying, tasks>> BY <3>2 DEF CopiesOf
    <3> QED BY <1>4, <3>1, <3>2
  <2> QED BY <1>2, <1>3, <2>1, <2>2, <2>3 DEF Apart
<1>5. MarkReceived(j) => ~Open(j)'
  <2>1. j \in DOMAIN jobs => jobs[j] \in [movie : BOOLEAN, completed : BOOLEAN]
    BY <1>1 DEF TypeOK
  <2> QED BY <2>1 DEF MarkReceived, Open
<1>6. CASE j \notin DOMAIN jobs
  <2>1. UNCHANGED <<jobs, trackers, copying, tasks>> BY <1>6 DEF HandleScan, pendingState
  <2>2. ~Open(j)' BY <1>6, <2>1 DEF Open
  <2>3. Apart(j) BY <1>4, <2>1
  <2> QED BY <2>2, <2>3, ApartAwaits
<1>7. ASSUME Cleanup(Finished(j, 0), j, TRUE), UNCHANGED <<copying, tasks>> PROVE Awaiting'
  <2>1. ~Open(j)' BY <1>1, <1>7, CleanupFacts
  <2>2. Apart(j) BY <1>4, <1>7
  <2> QED BY <2>1, <2>2, ApartAwaits
<1>8. ASSUME MarkReceived(j), UNCHANGED <<trackers, copying, tasks>> PROVE Awaiting'
  <2>1. Apart(j) BY <1>4, <1>8
  <2> QED BY <1>5, <1>8, <2>1, ApartAwaits
<1>9. CASE j \in DOMAIN jobs /\ jobs[j].movie
  <2>1. MovieScanned(j, Target[r.task.on], r.found) BY <1>9 DEF HandleScan
  <2>2. \/ Cleanup(Finished(j, 0), j, TRUE) /\ UNCHANGED <<copying, tasks>>
        \/ MarkReceived(j) /\ UNCHANGED <<trackers, copying, tasks>>
        \/ \E s : DispatchCopies(j, {s}) /\ trackers' = Finished(j, 1) /\ jobs' = jobs
    BY <2>1 DEF MovieScanned
  <2>3. ASSUME NEW s, DispatchCopies(j, {s}), trackers' = Finished(j, 1), jobs' = jobs
        PROVE  Awaiting'
    <3>1. Apart(j) BY <1>4, <2>3
    <3>2. CopiesOf(j)' # {} BY <2>3, NewCopiesApart
    <3>3. Open(j)' => Awaits(j)'
      <4>1. SUFFICES ASSUME Open(j)' PROVE Awaits(j)' OBVIOUS
      <4>2. Awaits(j) BY <1>2, <2>3, <4>1 DEF Awaiting, Open
      <4>3. j \in DOMAIN trackers' /\ trackers'[j].finished
        BY <1>1, <2>3, <4>2, FinishedAwaits DEF Awaits
      <4> QED BY <3>2, <4>3 DEF Awaits
    <3> QED BY <3>1, <3>3, ApartAwaits
  <2> QED BY <1>7, <1>8, <2>2, <2>3
<1>10. CASE j \in DOMAIN jobs /\ ~jobs[j].movie
  <2> DEFINE ss == {s \in r.found : Importable(j, s)}
             n == Cardinality(ss)
             ts == Finished(j, n)
  <2>1. SeriesScanned(j, r.found) BY <1>10 DEF HandleScan
  <2>2. \/ Cleanup(Finished(j, 0), j, TRUE) /\ UNCHANGED <<copying, tasks>>
        \/ MarkReceived(j) /\ UNCHANGED <<trackers, copying, tasks>>
        \/ DispatchCopies(j, ss) /\ Cleanup(ts, j, TRUE)
        \/ /\ DispatchCopies(j, ss) /\ trackers' = ts /\ jobs' = jobs
           /\ ts[j].dispatched # 0
    BY <2>1 DEF SeriesScanned
  <2>3. r.found \subseteq Source BY <1>1 DEF TypeOK, Result
  <2>4. IsFiniteSet(ss) /\ n \in Nat /\ (n = 0 => ss = {})
    <3>1. ss \in SUBSET Source BY <2>3
    <3>2. IsFiniteSet(ss) BY <3>1, ConstantFacts, FS_Subset
    <3> HIDE DEF ss
    <3> QED BY <3>2, FS_CardinalityType, FS_EmptySet
  <2> HIDE DEF ss, n
  <2>5. CASE DispatchCopies(j, ss) /\ Cleanup(ts, j, TRUE)
    <3>1. ~Open(j)' BY <1>1, <2>5, CleanupFacts
    <3>2. Apart(j) BY <1>4, <2>4, <2>5
    <3> QED BY <3>1, <3>2, ApartAwaits
  <2>6. CASE /\ DispatchCopies(j, ss) /\ trackers' = ts /\ jobs' = jobs
             /\ ts[j].dispatched # 0
    <3>1. Apart(j) BY <1>4, <2>4, <2>6
    <3>2. ASSUME Open(j)' PROVE Awaits(j)'
      <4>1. Awaits(j) BY <1>2, <2>6, <3>2 DEF Awaiting, Open
      <4>2. /\ j \in DOMAIN trackers' /\ trackers'[j].finished
            /\ trackers'[j].dispatched = trackers[j].dispatched + n
        BY <1>1, <2>4, <2>6, <4>1, FinishedAwaits DEF Awaits
      <4>3. CopiesOf(j)' # {}
        <5>1. CASE ss # {} BY <2>6, <5>1, NewCopiesApart
        <5>2. CASE ss = {}
          <6>1. n = 0 BY <5>2, FS_EmptySet DEF n
          <6>2. trackers[j].dispatched # 0
            <7>1. trackers[j].dispatched \in Nat BY <1>1, <4>1 DEF Awaits, TypeOK, Tracker
            <7> QED BY <2>6, <4>2, <6>1, <7>1
          <6>3. CopiesOf(j) # {} BY <4>1, <6>2 DEF Awaits
          <6>4. copying \subseteq copying' BY <2>6, NewCopiesApart
          <6> QED BY <6>3, <6>4 DEF CopiesOf
        <5> QED BY <5>1, <5>2
      <4> QED BY <4>2, <4>3 DEF Awaits
    <3> QED BY <3>1, <3>2, ApartAwaits
  <2> QED BY <1>7, <1>8, <2>2, <2>5, <2>6
<1> QED BY <1>6, <1>9, <1>10

LEMMA CountedType ==
  ASSUME TypeOK, NEW r, NEW j \in DOMAIN trackers
  PROVE  /\ Counted(j, r)[j].finished = trackers[j].finished
         /\ Counted(j, r)[j].dispatched = trackers[j].dispatched
         /\ Counted(j, r)[j].completed = trackers[j].completed + 1
<1>1. trackers[j] \in Tracker BY DEF TypeOK
<1> QED BY <1>1 DEF Counted, Tracker

LEMMA CopyAwaits ==
  ASSUME IInv, TrackerExact', Awaiting, NEW r \in results, HandleCopy(r)
  PROVE  Awaiting'
<1> DEFINE c == r.task.copy
           j == c.job
<1>1. TypeOK /\ TrackerExact /\ Finite BY DEF IInv
<1>2. r.task.what = "copy" /\ results' = results \ {r} /\ UNCHANGED <<tasks, sent, hit>>
  BY DEF HandleCopy
<1>3. \A i : ScanOut(i) => ScanOut(i)' BY <1>2 DEF ScanOut
<1>4. CASE c \notin copying
  <2>1. UNCHANGED <<jobs, trackers, copying>> BY <1>4 DEF HandleCopy, pendingState
  <2>2. \A i : Open(i)' => Open(i) BY <1>2, <2>1 DEF Open
  <2> QED BY <1>3, <2>1, <2>2, AwaitingKept
<1>5. CASE c \in copying
  <2> DEFINE ts == Counted(j, r)
  <2>1. copying' = copying \ {c} /\ Cleanup(ts, j, FALSE) BY <1>5 DEF HandleCopy, Settled
  <2>2. /\ DOMAIN ts = DOMAIN trackers /\ \A i \in DOMAIN ts : i # j => ts[i] = trackers[i]
    BY DEF Counted
  <2>3. j \in DOMAIN trackers =>
          /\ ts[j].finished = trackers[j].finished
          /\ ts[j].dispatched = trackers[j].dispatched
          /\ ts[j].completed = trackers[j].completed + 1
    BY <1>1, CountedType
  <2> HIDE DEF ts
  <2>4. \A i : i # j => CopiesOf(i)' = CopiesOf(i) BY <2>1 DEF CopiesOf
  <2>5. Apart(j)
    <3>1. \A i : i # j =>
            /\ i \in DOMAIN jobs' => i \in DOMAIN jobs /\ jobs'[i] = jobs[i]
            /\ i \in DOMAIN ts => i \in DOMAIN trackers' /\ trackers'[i] = ts[i]
      <4>1. \E also \in BOOLEAN : Cleanup(ts, j, also) BY <2>1
      <4> QED BY <1>1, <4>1, CleanupFacts
    <3>2. \A i : i # j /\ i \in DOMAIN trackers => i \in DOMAIN trackers' /\ trackers'[i] = trackers[i]
      BY <2>2, <3>1
    <3> QED BY <1>2, <1>3, <2>4, <3>1, <3>2 DEF Apart
  <2>6. ASSUME Open(j)' PROVE Awaits(j)'
    <3>1. ~CleansUp(ts, j) /\ trackers' = ts /\ Open(j)
      <4>1. \E also \in BOOLEAN : Cleanup(ts, j, also) BY <2>1
      <4> QED BY <1>1, <1>2, <2>6, <4>1, CleanupFacts
    <3>2. Awaits(j) BY <3>1 DEF Awaiting
    <3>3. j \in DOMAIN trackers /\ trackers[j] \in Tracker BY <1>1, <3>2 DEF Awaits, TypeOK
    <3>4. trackers[j].dispatched > 0
      <4>1. IsFiniteSet(CopiesOf(j)) /\ Cardinality(CopiesOf(j)) \in Nat BY <1>1, CountsFinite
      <4>2. c \in CopiesOf(j) BY <1>5 DEF CopiesOf
      <4>3. Cardinality(CopiesOf(j)) # 0 BY <4>1, <4>2, FS_EmptySet
      <4>4. trackers[j].dispatched = trackers[j].completed + Cardinality(CopiesOf(j))
        BY <1>1, <3>3 DEF TrackerExact
      <4> QED BY <3>3, <4>1, <4>3, <4>4 DEF Tracker
    <3>5. trackers[j].finished BY <3>2, <3>4 DEF Awaits
    <3>6. j \in DOMAIN trackers' /\ trackers'[j].finished
          /\ trackers'[j].completed # trackers'[j].dispatched
      BY <2>2, <2>3, <3>1, <3>3, <3>4, <3>5 DEF CleansUp, AllCopied
    <3>7. trackers'[j].dispatched = trackers'[j].completed + Cardinality(CopiesOf(j)')
      BY <3>6 DEF TrackerExact
    <3>8. CopiesOf(j)' # {}
      <4>1. trackers'[j].dispatched \in Nat BY <2>2, <2>3, <3>1, <3>3 DEF Tracker
      <4>2. SUFFICES ASSUME CopiesOf(j)' = {} PROVE FALSE OBVIOUS
      <4>3. Cardinality(CopiesOf(j)') = 0 BY <4>2, FS_EmptySet
      <4>4. trackers'[j].completed \in Nat
        BY <2>3, <3>1, <3>3 DEF Tracker
      <4> QED BY <3>6, <3>7, <4>1, <4>3, <4>4
    <3> QED BY <3>6, <3>8 DEF Awaits
  <2> QED BY <2>5, <2>6, ApartAwaits
<1> QED BY <1>4, <1>5

LEMMA AwaitingStep == IInv /\ IInv' /\ Awaiting /\ [Next]_vars => Awaiting'
<1> SUFFICES ASSUME IInv, IInv', Awaiting, [Next]_vars PROVE Awaiting' OBVIOUS
<1>1. Finite' /\ TrackerExact' BY DEF IInv
<1>2. ASSUME NEW j \in Job, NEW d \in Download, DispatchCompleted(j, d) \/ ImportQueueItem(j, d)
      PROVE  Awaiting'
  BY <1>2, DispatchAwaits DEF DispatchCompleted, ImportQueueItem
<1>3. ASSUME NEW r \in results, Handle(r) PROVE Awaiting'
  BY <1>1, <1>3, ScanAwaits, CopyAwaits DEF Handle
<1>4. CASE UNCHANGED vars
  <2>1. UNCHANGED <<jobs, trackers, copying, tasks, results, hit>> BY <1>4 DEF vars
  <2>2. \A j : Open(j)' => Open(j) BY <2>1 DEF Open
  <2>3. \A j : ScanOut(j) => ScanOut(j)' BY <2>1 DEF ScanOut
  <2> QED BY <2>1, <2>2, <2>3, AwaitingKept
<1> QED BY <1>2, <1>3, <1>4, MessagesAwait, JobsAwait DEF Next, Step

\* The consumer never waits for nothing: an import job that get_running_jobs() reports
\* (registered, neither completed nor cancelled) has a request with the workers or an
\* answer on its way, unless a message of it was lost or came twice or the server
\* restarted.  What is left of ImportsFinish is that messages are handled in the end.
THEOREM ImportsPending == Spec => []OpenImportsPending
<1>1. Init => Awaiting
  <2>1. Init => DOMAIN jobs = {} BY DEF Init, Empty
  <2> QED BY <2>1 DEF Awaiting, Open
<1>2. IInv /\ IInv' /\ Awaiting /\ [Next]_vars => Awaiting' BY AwaitingStep
<1>3. IInv /\ Awaiting => OpenImportsPending
  <2> SUFFICES ASSUME IInv, Awaiting, NEW j \in DOMAIN jobs, ~jobs[j].completed, j \notin hit
               PROVE  Pending(j)
    BY DEF OpenImportsPending
  <2>1. Awaits(j) BY DEF Awaiting, Open
  <2>2. ASSUME NEW c \in CopiesOf(j) PROVE Pending(j)
    <3>1. c \in copying /\ c.job = j BY <2>2 DEF CopiesOf
    <3>2. CopyTask(c) \in tasks \/ \E r \in results : r.task = CopyTask(c)
      BY <3>1, StuckByTask DEF IInv
    <3>3. JobOf(CopyTask(c)) = j BY <3>1, CopyTaskJob
    <3> QED BY <3>2, <3>3 DEF Pending
  <2>3. ASSUME ScanOut(j) PROVE Pending(j)
    BY <2>3, TaskKinds DEF ScanOut, Pending, IInv, TypeOK, Result
  <2> QED BY <2>1, <2>2, <2>3 DEF Awaits
<1> QED BY <1>1, <1>2, <1>3, Invariance, PTL DEF Spec

=============================================================================
