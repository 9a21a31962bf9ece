------------------------ MODULE MusicBrainzSync_proofs ------------------------
(***************************************************************************)
(* What holds of MusicBrainzSync for all dumps, batches, checkpoints and   *)
(* channels, and any number of syncs and faults.  For any number of tasks: *)
(* the types, indexes that come back, two sides of a channel that never    *)
(* both wait, and steps that bring a sync to its end.  As long as one sync *)
(* is active at a time: checkpoints are not ahead of the table, and what   *)
(* is completed is stored.  (Of two that overlap, one may extract an older *)
(* dump over the newer one that the other's record is of.)  One is active  *)
(* at a time as long as nobody starts a download beside a sync.            *)
(*                                                                         *)
(* The argument follows the rows of a record's scope.  A record is Sound:  *)
(* its rows are in the extracted version, and stored up to its checkpoint, *)
(* so an attempt that starts behind the checkpoint still meets the others. *)
(* What such an attempt passes over is stored or not of the scope          *)
(* (Attached, Known).  What it takes is never lost on its way: each row of *)
(* the scope is in the table, in a message, in the batch or in the rest of *)
(* the file, or the attempt is cut (FlowOK), and the rows up to a          *)
(* checkpoint under way are ahead of it (ChannelOK, OutOK).  So a          *)
(* checkpoint that the writer takes covers stored rows only, and a pipe    *)
(* that has run dry without a cut has stored them all (Finished).          *)
(***************************************************************************)
EXTENDS MusicBrainzSync, SequenceTheorems, FiniteSetTheorems, TLAPS

TaskRec ==
  [pc : {"idle", "resolve", "next", "drop", "fetch", "download", "extract", "unpack",
         "write", "recreate", "close"},
   process : BOOLEAN, todo : Seq(Dataset), id : Nat, from : Nat, known : SUBSET Row,
   tar : Nat, rows : Nat, last : Nat, end : Outcome]
ParserRec == [at : {"off", "read", "end"}, file : Seq(Row), batch : SUBSET Row,
              rows : Nat, last : Nat, out : Seq(Messages)]
\* Checks are the parser's own: it never sends them.
Sent == {m \in Messages : m.kind # "check"}

\* What is true of one task, given the records and the cached versions.
TaskGood(x, recs, stored) ==
  /\ x \in TaskRec
  /\ x.pc \notin {"idle", "resolve", "next"} =>
       x.todo # <<>> /\ x.id \in DOMAIN recs[Head(x.todo)]
  /\ x.pc = "unpack" => 0 < x.tar /\ x.tar <= stored[Head(x.todo)]

FilesOK ==
  /\ remote \in [Dataset -> Nat] /\ cache \in [Dataset -> Nat] /\ extracted \in [Dataset -> Nat]
  /\ \A d \in Dataset : /\ remote[d] \in DOMAIN Files[d]
                        /\ cache[d] <= remote[d] /\ extracted[d] <= cache[d]
  /\ recent \subseteq Dataset /\ lock \subseteq Dataset /\ outdated \subseteq Dataset
HistoryOK == records \in [Dataset -> Seq(Record)] /\ synced \subseteq Dataset /\ table \subseteq Row
IndexesOK == broken \subseteq dropped /\ dropped \subseteq Dataset
TasksOK == task \in [Task -> TaskRec] /\ \A t \in Task : TaskGood(task[t], records, cache)
PipesOK ==
  /\ parser \in [Task -> ParserRec]
  /\ channel \in [Task -> Seq(Sent)] /\ \A t \in Task : Len(channel[t]) <= Capacity
ControlOK ==
  /\ handle \in Task \cup {Nobody, Loader} /\ cancelled \subseteq Task \cup {Loader}
  /\ processOnly \in BOOLEAN
  /\ loader \in [at : {"idle", "resolve", "next", "get"}, todo : Seq(Dataset)]
  /\ loader.at = "get" => loader.todo # <<>>
BoundsOK == runs \in 0 .. MaxRuns /\ loads \in 0 .. MaxLoads /\ faults \in 0 .. MaxFaults
Types == FilesOK /\ HistoryOK /\ IndexesOK /\ TasksOK /\ PipesOK /\ ControlOK /\ BoundsOK

LEMMA SentFacts == Sent \subseteq Messages /\ Seq(Sent) \subseteq Seq(Messages)
<1>1. Sent \subseteq Messages BY DEF Sent
<1> QED BY <1>1

LEMMA TypesOfTypes == Types => TypeOK
<1> SUFFICES ASSUME Types PROVE TypeOK OBVIOUS
<1>1. channel \in [Task -> Seq(Messages)] BY SentFacts DEF Types, PipesOK
<1> QED BY <1>1 DEF Types, TypeOK, FilesOK, HistoryOK, IndexesOK, TasksOK, PipesOK, ControlOK,
                    BoundsOK, TaskRec, ParserRec

---------------------------------------------------------------------------
(* Tasks: what the actions make of one *)

LEMMA TodoFacts ==
  ASSUME NEW ds \in Seq(Dataset), ds # <<>>
  PROVE  Head(ds) \in Dataset /\ Tail(ds) \in Seq(Dataset)
  OBVIOUS

LEMMA RequestFacts == \A ds \in Request : ds \in Seq(Dataset)
<1> SUFFICES ASSUME NEW ds \in Request PROVE ds \in Seq(Dataset) OBVIOUS
<1>1. CASE ds = Datasets BY <1>1, DumpAssumption
<1>2. ASSUME NEW d \in Dataset, ds = <<d>> PROVE ds \in Seq(Dataset) BY <1>2
<1> QED BY <1>1, <1>2 DEF Request

LEMMA IdleFacts ==
  /\ Idle \in TaskRec /\ Idle.pc = "idle" /\ Idle.todo = <<>>
  BY DEF Idle, TaskRec, Outcome

LEMMA SpawnFacts ==
  ASSUME NEW process \in BOOLEAN, NEW ds \in Seq(Dataset)
  PROVE  LET x == [Idle EXCEPT !.pc = "resolve", !.process = process, !.todo = ds]
         IN  x \in TaskRec /\ x.pc = "resolve"
  BY DEF Idle, TaskRec, Outcome

LEMMA RestFacts ==
  ASSUME NEW t, task[t] \in TaskRec, task[t].todo # <<>>
  PROVE  RestOf(t) \in TaskRec /\ RestOf(t).pc = "next"
<1>1. Tail(task[t].todo) \in Seq(Dataset) /\ task[t].process \in BOOLEAN
  BY TodoFacts DEF TaskRec
<1> QED BY <1>1 DEF RestOf, TaskRec, Idle, Outcome

\* A step to another program counter.
LEMMA StepFacts ==
  ASSUME NEW x \in TaskRec,
         NEW q \in {"next", "fetch", "extract", "close", "recreate"}
  PROVE  LET y == [x EXCEPT !.pc = q]
         IN  /\ y \in TaskRec /\ y.pc = q /\ y.todo = x.todo /\ y.id = x.id
             /\ y.from = x.from /\ y.known = x.known /\ y.end = x.end /\ y.last = x.last
  BY DEF TaskRec

LEMMA LeaveFacts ==
  ASSUME NEW t, task[t] \in TaskRec, NEW how \in Outcome
  PROVE  LET y == Leave(t, how)
         IN  /\ y \in TaskRec /\ y.pc = "recreate" /\ y.todo = task[t].todo
             /\ y.id = task[t].id /\ y.end = how
             /\ y.from = task[t].from /\ y.known = task[t].known
  BY DEF TaskRec, Leave, Outcome

LEMMA BeginFacts ==
  ASSUME NEW x \in TaskRec, NEW i \in Nat, NEW m \in Nat, NEW n \in Nat
  PROVE  LET y == [x EXCEPT !.pc = "drop", !.id = i, !.from = m, !.rows = n, !.last = m]
         IN  /\ y \in TaskRec /\ y.pc = "drop" /\ y.todo = x.todo /\ y.id = i
             /\ y.from = m /\ y.last = m
  BY DEF TaskRec

LEMMA KnowFacts ==
  ASSUME NEW x \in TaskRec, NEW k \in SUBSET Row, NEW q \in {"extract", "download"}
  PROVE  LET y == [[x EXCEPT !.known = k] EXCEPT !.pc = q]
         IN  /\ y \in TaskRec /\ y.pc = q /\ y.todo = x.todo /\ y.id = x.id
             /\ y.from = x.from /\ y.known = k /\ y.last = x.last
  BY DEF TaskRec

LEMMA TarFacts ==
  ASSUME NEW x \in TaskRec, NEW v \in Nat, NEW q \in {"write", "unpack"}
  PROVE  LET y == [x EXCEPT !.pc = q, !.tar = v]
         IN  /\ y \in TaskRec /\ y.pc = q /\ y.todo = x.todo /\ y.id = x.id
             /\ y.from = x.from /\ y.known = x.known /\ y.tar = v /\ y.last = x.last
  BY DEF TaskRec

LEMMA CountFacts ==
  ASSUME NEW x \in TaskRec, NEW n \in Nat, NEW i \in Nat
  PROVE  /\ LET y == [x EXCEPT !.rows = n]
            IN  /\ y \in TaskRec /\ y.pc = x.pc /\ y.todo = x.todo /\ y.id = x.id
                /\ y.from = x.from /\ y.known = x.known /\ y.end = x.end /\ y.last = x.last
         /\ LET y == [x EXCEPT !.rows = n, !.last = i]
            IN  /\ y \in TaskRec /\ y.pc = x.pc /\ y.todo = x.todo /\ y.id = x.id
                /\ y.from = x.from /\ y.known = x.known /\ y.end = x.end /\ y.last = i
         /\ LET y == [x EXCEPT !.rows = n, !.last = i, !.end = "cancelled"]
            IN  /\ y \in TaskRec /\ y.pc = x.pc /\ y.todo = x.todo /\ y.id = x.id
                /\ y.from = x.from /\ y.known = x.known /\ y.end = "cancelled" /\ y.last = i
  BY DEF TaskRec, Outcome

\* Records stay where they are, and cached versions only grow.
Grown ==
  /\ \A d \in Dataset : DOMAIN records[d] \subseteq DOMAIN records'[d]
  /\ \A d \in Dataset : cache[d] \in Nat /\ cache'[d] \in Nat /\ cache[d] <= cache'[d]

LEMMA GrownGood ==
  ASSUME Grown, NEW x, TaskGood(x, records, cache)
  PROVE  TaskGood(x, records', cache')
<1>1. CASE x.pc \in {"idle", "resolve", "next"} BY <1>1 DEF TaskGood
<1>2. CASE x.pc \notin {"idle", "resolve", "next"}
  <2>1. x.todo \in Seq(Dataset) /\ x.todo # <<>> BY <1>2 DEF TaskGood, TaskRec
  <2>2. Head(x.todo) \in Dataset BY <2>1, TodoFacts
  <2>3. x.id \in DOMAIN records'[Head(x.todo)] BY <1>2, <2>2 DEF TaskGood, Grown
  <2>4. x.pc = "unpack" => x.tar <= cache'[Head(x.todo)]
    BY <2>2 DEF TaskGood, Grown, TaskRec
  <2> QED BY <2>1, <2>3, <2>4 DEF TaskGood
<1> QED BY <1>1, <1>2

LEMMA OthersGood ==
  ASSUME TasksOK, Grown, NEW t \in Task, NEW x, Set(t, x), TaskGood(x, records', cache')
  PROVE  TasksOK'
<1>1. x \in TaskRec BY DEF TaskGood
<1>2. task' \in [Task -> TaskRec] BY <1>1 DEF Set, TasksOK
<1>3. ASSUME NEW u \in Task PROVE TaskGood(task'[u], records', cache')
  <2>1. CASE u = t BY <2>1 DEF Set, TasksOK
  <2>2. CASE u # t
    <3>1. task'[u] = task[u] BY <2>2 DEF Set, TasksOK
    <3>2. TaskGood(task[u], records, cache) BY DEF TasksOK
    <3> QED BY <3>1, <3>2, GrownGood
  <2> QED BY <2>1, <2>2
<1> QED BY <1>2, <1>3 DEF TasksOK

LEMMA SameTasks ==
  ASSUME TasksOK, Grown, task' = task
  PROVE  TasksOK'
<1>1. \A t \in Task : TaskGood(task[t], records', cache') BY GrownGood DEF TasksOK
<1> QED BY <1>1 DEF TasksOK

\* What a step leaves alone stays right.
LEMMA Frames ==
  ASSUME Types
  PROVE  /\ UNCHANGED <<files, lines>> => FilesOK'
         /\ UNCHANGED <<records, synced, table>> => HistoryOK'
         /\ UNCHANGED indexes => IndexesOK'
         /\ UNCHANGED pipe => PipesOK'
         /\ UNCHANGED <<handle, cancelled, loader, processOnly>> => ControlOK'
         /\ UNCHANGED bounds /\ faults' = faults => BoundsOK'
         /\ UNCHANGED bounds /\ (\E k \in Faults : Fault(k)) => BoundsOK'
         /\ UNCHANGED <<cache, records>> => Grown
<1>1. UNCHANGED <<files, lines>> => FilesOK' BY DEF Types, FilesOK, files, lines
<1>2. UNCHANGED <<records, synced, table>> => HistoryOK' BY DEF Types, HistoryOK
<1>3. UNCHANGED indexes => IndexesOK' BY DEF Types, IndexesOK, indexes
<1>4. UNCHANGED pipe => PipesOK' BY DEF Types, PipesOK, pipe
<1>5. UNCHANGED <<handle, cancelled, loader, processOnly>> => ControlOK' BY DEF Types, ControlOK
<1>6. UNCHANGED bounds /\ faults' = faults => BoundsOK' BY DEF Types, BoundsOK, bounds
<1>7. UNCHANGED bounds /\ (\E k \in Faults : Fault(k)) => BoundsOK'
  BY DumpAssumption DEF Types, BoundsOK, bounds, Fault
<1>8. UNCHANGED <<cache, records>> => Grown BY DEF Types, FilesOK, Grown
<1> QED BY <1>1, <1>2, <1>3, <1>4, <1>5, <1>6, <1>7, <1>8

LEMMA OutcomesFacts ==
  ASSUME Types, NEW ok \in BOOLEAN, NEW k, Outcomes(ok, k), UNCHANGED bounds
  PROVE  BoundsOK'
<1>1. faults' = faults \/ Fault(k) BY DEF Outcomes
<1>2. Fault(k) => k \in Faults BY DEF Fault
<1> QED BY <1>1, <1>2, Frames

LEMMA FaultFacts ==
  ASSUME Types, NEW k, Fault(k), UNCHANGED bounds
  PROVE  BoundsOK'
<1>1. k \in Faults BY DEF Fault
<1> QED BY <1>1, Frames

LEMMA UnstaleFacts ==
  ASSUME NEW recs \in [Dataset -> Seq(Record)]
  PROVE  /\ Unstale(recs) \in [Dataset -> Seq(Record)]
         /\ \A d \in Dataset :
              /\ DOMAIN Unstale(recs)[d] = DOMAIN recs[d]
              /\ \A i \in DOMAIN recs[d] :
                   /\ Unstale(recs)[d][i].scope = recs[d][i].scope
                   /\ Unstale(recs)[d][i].mark = recs[d][i].mark
                   /\ Unstale(recs)[d][i].status = "completed" => recs[d][i].status = "completed"
<1>1. ASSUME NEW d \in Dataset, NEW i \in DOMAIN recs[d]
      PROVE  /\ Unstale(recs)[d][i] \in Record
             /\ Unstale(recs)[d][i].scope = recs[d][i].scope
             /\ Unstale(recs)[d][i].mark = recs[d][i].mark
             /\ Unstale(recs)[d][i].status = "completed" => recs[d][i].status = "completed"
  <2>1. recs[d][i] \in Record OBVIOUS
  <2>2. Unstale(recs)[d][i] = IF recs[d][i].status = "running"
                                THEN [recs[d][i] EXCEPT !.status = "failed"] ELSE recs[d][i]
    BY DEF Unstale
  <2> QED BY <2>1, <2>2 DEF Record
<1>2. ASSUME NEW d \in Dataset
      PROVE  DOMAIN Unstale(recs)[d] = DOMAIN recs[d] /\ Unstale(recs)[d] \in Seq(Record)
  <2>1. DOMAIN Unstale(recs)[d] = DOMAIN recs[d] BY DEF Unstale
  <2>2. Len(recs[d]) \in Nat /\ DOMAIN recs[d] = 1 .. Len(recs[d]) OBVIOUS
  <2>3. Unstale(recs)[d] = [i \in 1 .. Len(recs[d]) |-> Unstale(recs)[d][i]]
    BY <2>2 DEF Unstale
  <2>4. \A i \in 1 .. Len(recs[d]) : Unstale(recs)[d][i] \in Record BY <2>2, <1>1
  <2> QED BY <2>1, <2>2, <2>3, <2>4
<1>3. Unstale(recs) = [d \in Dataset |-> Unstale(recs)[d]] BY DEF Unstale
<1> QED BY <1>1, <1>2, <1>3

LEMMA UnstaleType ==
  ASSUME Types, records' = Unstale(records), UNCHANGED <<synced, table, cache>>
  PROVE  HistoryOK' /\ Grown
<1>1. records \in [Dataset -> Seq(Record)] BY DEF Types, HistoryOK
<1>2. records' \in [Dataset -> Seq(Record)] BY <1>1, UnstaleFacts
<1>3. \A d \in Dataset : DOMAIN records'[d] = DOMAIN records[d] BY <1>1, UnstaleFacts
<1> QED BY <1>2, <1>3 DEF Types, HistoryOK, FilesOK, Grown

---------------------------------------------------------------------------
(* Types: requests and the run *)

LEMMA InitTypes == Init => Types
<1> SUFFICES ASSUME Init PROVE Types OBVIOUS
<1>1. FilesOK
  <2>1. \A d \in Dataset : 1 \in DOMAIN Files[d] BY DumpAssumption
  <2> QED BY <2>1 DEF Init, FilesOK
<1>2. HistoryOK /\ IndexesOK BY DEF Init, HistoryOK, IndexesOK
<1>3. TasksOK BY IdleFacts DEF Init, TasksOK, TaskGood
<1>4. PipesOK
  <2>1. Off \in ParserRec BY DEF Off, ParserRec
  <2> QED BY <2>1, DumpAssumption DEF Init, PipesOK
<1>5. ControlOK
  <2>1. NoLoader \in [at : {"idle", "resolve", "next", "get"}, todo : Seq(Dataset)]
    BY DEF NoLoader
  <2>2. NoLoader.at # "get" BY DEF NoLoader
  <2> QED BY <2>1, <2>2 DEF Init, ControlOK
<1>6. BoundsOK BY DumpAssumption DEF Init, BoundsOK
<1> QED BY <1>1, <1>2, <1>3, <1>4, <1>5, <1>6 DEF Types

LEMMA SpawnTypes ==
  ASSUME Types, NEW p \in BOOLEAN, NEW ds \in Request, Spawn(p, ds)
  PROVE  Types'
<1>1. ds \in Seq(Dataset) BY RequestFacts
<1>2. FilesOK' /\ IndexesOK' /\ PipesOK' BY Frames DEF Spawn
<1>3. HistoryOK' /\ Grown
  <2>1. CASE handle = Nobody BY <2>1, Frames DEF Spawn, files
  <2>2. CASE handle # Nobody BY <2>2, UnstaleType DEF Spawn, files
  <2> QED BY <2>1, <2>2
<1>4. \E t \in Task : t \notin Active BY DEF Spawn, Active
<1> DEFINE t == CHOOSE x \in Task : x \notin Active
           x == [Idle EXCEPT !.pc = "resolve", !.process = p, !.todo = ds]
<1>5. t \in Task BY <1>4
<1>6. Set(t, x) /\ handle' = t /\ cancelled' = cancelled \ {t} BY DEF Spawn
<1>7. x \in TaskRec /\ x.pc = "resolve" BY <1>1, SpawnFacts
<1> HIDE DEF t, x
<1>8. TasksOK'
  <2>1. TaskGood(x, records', cache') BY <1>7 DEF TaskGood
  <2> QED BY <2>1, <1>3, <1>5, <1>6, OthersGood DEF Types
<1>9. ControlOK' BY <1>5, <1>6 DEF Types, ControlOK, Spawn
<1>10. BoundsOK' BY DumpAssumption DEF Types, BoundsOK, Spawn
<1> QED BY <1>2, <1>3, <1>8, <1>9, <1>10 DEF Types

LEMMA CancelTypes ==
  ASSUME Types, CancelSync
  PROVE  Types'
<1>1. FilesOK' /\ IndexesOK' /\ PipesOK' /\ BoundsOK' BY Frames DEF CancelSync
<1>2. HistoryOK' /\ Grown BY UnstaleType DEF CancelSync, files
<1>3. TasksOK' BY <1>2, SameTasks DEF CancelSync, Types
<1>4. ControlOK'
  <2>1. Unfinished(handle) => handle \in Task \cup {Loader}
    BY DEF Unfinished, Active
  <2> QED BY <2>1 DEF CancelSync, Types, ControlOK
<1> QED BY <1>1, <1>2, <1>3, <1>4 DEF Types

LEMMA StartDownloadTypes ==
  ASSUME Types, NEW ds \in Request, StartDownload(ds)
  PROVE  Types'
<1>1. ds \in Seq(Dataset) BY RequestFacts
<1>2. FilesOK' /\ IndexesOK' /\ PipesOK' /\ HistoryOK' BY Frames DEF StartDownload, history
<1>3. TasksOK' BY Frames, SameTasks DEF StartDownload, Types, history, files
<1>4. ControlOK' BY <1>1 DEF StartDownload, Types, ControlOK
<1>5. BoundsOK' BY DumpAssumption DEF Types, BoundsOK, StartDownload
<1> QED BY <1>2, <1>3, <1>4, <1>5 DEF Types

\* A step that only moves the task, and what it needs of the new slot.
LEMMA TaskOnly ==
  ASSUME Types, NEW t \in Task, NEW x, Set(t, x), TaskGood(x, records, cache),
         UNCHANGED <<files, lines, history, table, indexes, pipe, control>>,
         processOnly' \in BOOLEAN, BoundsOK'
  PROVE  Types'
<1>1. FilesOK' /\ HistoryOK' /\ IndexesOK' /\ PipesOK' /\ Grown BY Frames DEF history, files
<1>2. TaskGood(x, records', cache') BY DEF history, files
<1>3. TasksOK' BY <1>1, <1>2, OthersGood DEF Types
<1>4. ControlOK' BY DEF Types, ControlOK, control
<1> QED BY <1>1, <1>3, <1>4 DEF Types

\* The program counters at which a task has a dataset and its record.
Busy(t) == task[t].pc \notin {"idle", "resolve", "next"}

LEMMA BusyFacts ==
  ASSUME Types, NEW t \in Task
  PROVE  /\ task[t] \in TaskRec /\ TaskGood(task[t], records, cache)
         /\ Busy(t) => /\ task[t].todo # <<>> /\ Now(t) \in Dataset
                       /\ task[t].id \in DOMAIN records[Now(t)]
                       /\ task[t].id \in Nat /\ task[t].todo \in Seq(Dataset)
<1>1. task[t] \in TaskRec /\ TaskGood(task[t], records, cache) BY DEF Types, TasksOK
<1>2. task[t].id \in Nat /\ task[t].todo \in Seq(Dataset) BY <1>1 DEF TaskRec
<1>3. Busy(t) => task[t].todo # <<>> /\ task[t].id \in DOMAIN records[Now(t)]
  BY <1>1 DEF TaskGood, Busy, Now
<1> QED BY <1>1, <1>2, <1>3, TodoFacts DEF Now

LEMMA MovedGood ==
  ASSUME Types, NEW t \in Task, Busy(t),
         NEW y \in TaskRec, y.todo = task[t].todo, y.id = task[t].id, y.pc # "unpack"
  PROVE  TaskGood(y, records, cache)
  BY BusyFacts DEF TaskGood, Now

LEMMA RestGood ==
  ASSUME Types, NEW t \in Task, task[t].todo # <<>>
  PROVE  TaskGood(RestOf(t), records, cache)
<1>1. RestOf(t) \in TaskRec /\ RestOf(t).pc = "next" BY BusyFacts, RestFacts
<1> QED BY <1>1 DEF TaskGood

LEMMA ResolveTypes ==
  ASSUME Types, NEW t \in Task, NEW ok \in BOOLEAN, Resolve(t, ok)
  PROVE  Types'
<1>1. BoundsOK' BY OutcomesFacts DEF Resolve
<1>2. processOnly' \in BOOLEAN BY DEF Resolve, Types, ControlOK
<1>3. CASE ok
  <2> DEFINE y == [task[t] EXCEPT !.pc = "next"]
  <2>1. y \in TaskRec /\ y.pc = "next" BY BusyFacts, StepFacts
  <2>2. Set(t, y) BY <1>3 DEF Resolve
  <2> HIDE DEF y
  <2>3. TaskGood(y, records, cache) BY <2>1 DEF TaskGood
  <2> QED BY <1>1, <1>2, <2>2, <2>3, TaskOnly DEF Resolve
<1>4. CASE ~ok
  <2>1. TaskGood(Idle, records, cache) BY IdleFacts DEF TaskGood
  <2>2. Set(t, Idle) BY <1>4 DEF Resolve
  <2> QED BY <1>1, <1>2, <2>1, <2>2, TaskOnly DEF Resolve
<1> QED BY <1>3, <1>4

LEMMA EndRunTypes ==
  ASSUME Types, NEW t \in Task, EndRun(t)
  PROVE  Types'
<1>1. TaskGood(Idle, records, cache) BY IdleFacts DEF TaskGood
<1>2. BoundsOK' BY Frames DEF EndRun
<1>3. processOnly' \in BOOLEAN BY DEF EndRun, Types, ControlOK
<1> QED BY <1>1, <1>2, <1>3, TaskOnly DEF EndRun

LEMMA SkipTypes ==
  ASSUME Types, NEW t \in Task, Skip(t)
  PROVE  Types'
<1>1. TaskGood(RestOf(t), records, cache) BY RestGood DEF Skip, Turn
<1>2. BoundsOK' BY Frames DEF Skip
<1>3. processOnly' \in BOOLEAN BY DEF Skip, Types, ControlOK
<1> QED BY <1>1, <1>2, <1>3, TaskOnly DEF Skip

---------------------------------------------------------------------------
(* Types: a record is begun, and what comes before the file is read *)

LEMMA RecordFacts ==
  ASSUME Types, NEW d \in Dataset
  PROVE  /\ records[d] \in Seq(Record) /\ Len(records[d]) \in Nat
         /\ DOMAIN records[d] = 1 .. Len(records[d])
         /\ \A i \in DOMAIN records[d] :
              /\ records[d][i] \in Record
              /\ records[d][i].mark \in Nat /\ records[d][i].rows \in Nat
              /\ records[d][i].scope \subseteq Row
<1>1. records[d] \in Seq(Record) BY DEF Types, HistoryOK
<1>2. \A i \in DOMAIN records[d] : records[d][i] \in Record BY <1>1
<1> QED BY <1>1, <1>2 DEF Record

LEMMA NewFacts == NewRecord \in Record /\ NewRecord.mark = 0 /\ NewRecord.rows = 0
                  /\ NewRecord.scope = {} /\ NewRecord.status = "running"
  BY DEF NewRecord, Record

LEMMA AttemptTypes ==
  ASSUME Types, NEW t \in Task, task[t].todo # <<>>, NEW i, NEW recs \in Seq(Record),
         Attempt(t, i, recs), i \in DOMAIN recs, DOMAIN records[Now(t)] \subseteq DOMAIN recs,
         UNCHANGED <<files, synced, table>>
  PROVE  /\ HistoryOK' /\ Grown /\ TasksOK' /\ task'[t].pc = "drop"
<1>1. Now(t) \in Dataset BY BusyFacts, TodoFacts DEF Now, TaskRec
<1>2. i \in Nat /\ recs[i] \in Record OBVIOUS
<1>3. recs[i].mark \in Nat /\ recs[i].rows \in Nat BY <1>2 DEF Record
<1> DEFINE y == [task[t] EXCEPT !.pc = "drop", !.id = i, !.from = recs[i].mark,
                                !.rows = recs[i].rows, !.last = recs[i].mark]
<1>4. y \in TaskRec /\ y.pc = "drop" /\ y.todo = task[t].todo /\ y.id = i
  <2>1. task[t] \in TaskRec BY BusyFacts
  <2> QED BY <1>2, <1>3, <2>1 DEF TaskRec
<1>5. Set(t, y) /\ records' = [records EXCEPT ![Now(t)] = recs] BY DEF Attempt
<1> HIDE DEF y
<1>6. HistoryOK' BY <1>1, <1>5 DEF Types, HistoryOK
<1>7. Grown BY <1>1, <1>5 DEF Grown, Types, FilesOK, HistoryOK, files
<1>8. TaskGood(y, records', cache')
  <2>1. records'[Now(t)] = recs BY <1>1, <1>5 DEF Types, HistoryOK
  <2> QED BY <2>1, <1>4 DEF TaskGood, Now
<1>9. TasksOK' BY <1>5, <1>7, <1>8, OthersGood DEF Types
<1>10. task'[t] = y BY <1>5 DEF Set, Types, TasksOK
<1> QED BY <1>4, <1>6, <1>7, <1>9, <1>10

\* The three ways a record is begun: none, a new one, an unfinished one.
LEMMA BeginCases ==
  ASSUME Types, NEW t \in Task, NEW ok \in BOOLEAN, Begin(t, ok)
  PROVE  /\ task[t].todo # <<>> /\ Now(t) \in Dataset
         /\ \/ records' = records /\ Set(t, RestOf(t))
            \/ \E i \in Nat : \E recs \in Seq(Record) :
                 /\ Attempt(t, i, recs) /\ i \in DOMAIN recs
                 /\ DOMAIN records[Now(t)] \subseteq DOMAIN recs
                 /\ recs[i].status = "running"
                 /\ \A k \in DOMAIN recs :
                      \/ recs[k] = NewRecord
                      \/ /\ k \in DOMAIN records[Now(t)] /\ recs[k].mark = records[Now(t)][k].mark
                         /\ recs[k].scope = records[Now(t)][k].scope
                         /\ recs[k].status = "completed" => recs[k] = records[Now(t)][k]
<1>1. task[t].todo # <<>> BY DEF Begin, Turn
<1>2. Now(t) \in Dataset BY <1>1, BusyFacts, TodoFacts DEF Now, TaskRec
<1> DEFINE old == records[Now(t)]
<1>3. /\ old \in Seq(Record) /\ Len(old) \in Nat /\ DOMAIN old = 1 .. Len(old)
      /\ \A k \in DOMAIN old : old[k] \in Record
  BY <1>2, RecordFacts
<1>4. CASE ~ok BY <1>1, <1>2, <1>4 DEF Begin
<1>5. ASSUME Attempt(t, Len(old) + 1, Append(old, NewRecord))
      PROVE  \E i \in Nat : \E recs \in Seq(Record) :
                 /\ Attempt(t, i, recs) /\ i \in DOMAIN recs
                 /\ DOMAIN old \subseteq DOMAIN recs
                 /\ recs[i].status = "running"
                 /\ \A k \in DOMAIN recs :
                      \/ recs[k] = NewRecord
                      \/ /\ k \in DOMAIN old /\ recs[k].mark = old[k].mark
                         /\ recs[k].scope = old[k].scope
                         /\ recs[k].status = "completed" => recs[k] = old[k]
  <2> DEFINE new == Append(old, NewRecord)
  <2>1. /\ new \in Seq(Record) /\ DOMAIN new = 1 .. (Len(old) + 1)
        /\ new[Len(old) + 1] = NewRecord /\ \A k \in DOMAIN old : new[k] = old[k]
    BY <1>3, NewFacts
  <2>2. \A k \in DOMAIN new : k = Len(old) + 1 \/ k \in DOMAIN old BY <2>1, <1>3
  <2> HIDE DEF new, old
  <2>3. Len(old) + 1 \in Nat /\ Len(old) + 1 \in DOMAIN new /\ DOMAIN old \subseteq DOMAIN new
    BY <1>3, <2>1
  <2>4. Attempt(t, Len(old) + 1, new) BY <1>5 DEF new
  <2> QED BY <2>1, <2>2, <2>3, <2>4, NewFacts
<1>6. ASSUME NEW i \in Resumable(Now(t)), Attempt(t, i, [old EXCEPT ![i].status = "running"])
      PROVE  \E j \in Nat : \E recs \in Seq(Record) :
                 /\ Attempt(t, j, recs) /\ j \in DOMAIN recs
                 /\ DOMAIN old \subseteq DOMAIN recs
                 /\ recs[j].status = "running"
                 /\ \A k \in DOMAIN recs :
                      \/ recs[k] = NewRecord
                      \/ /\ k \in DOMAIN old /\ recs[k].mark = old[k].mark
                         /\ recs[k].scope = old[k].scope
                         /\ recs[k].status = "completed" => recs[k] = old[k]
  <2>1. i \in DOMAIN old /\ i \in Nat BY <1>3 DEF Resumable
  <2> DEFINE now == [old[i] EXCEPT !.status = "running"]
             new == [old EXCEPT ![i].status = "running"]
  <2>2. /\ now \in Record /\ now.status = "running" /\ now.mark = old[i].mark
        /\ now.scope = old[i].scope
    BY <2>1, <1>3 DEF Record
  <2>3. new = [old EXCEPT ![i] = now] OBVIOUS
  <2> HIDE DEF now
  <2>4. /\ new \in Seq(Record) /\ DOMAIN new = DOMAIN old /\ new[i] = now
        /\ \A k \in DOMAIN old : k # i => new[k] = old[k]
    BY <2>1, <2>2, <2>3, <1>3
  <2>5. Attempt(t, i, new) BY <1>6
  <2> HIDE DEF new, old
  <2> QED BY <2>1, <2>2, <2>4, <2>5
<1>7. CASE ok
  <2>1. \/ Attempt(t, Len(old) + 1, Append(old, NewRecord))
        \/ \E i \in Resumable(Now(t)) : Attempt(t, i, [old EXCEPT ![i].status = "running"])
    BY <1>7 DEF Begin
  <2> QED BY <2>1, <1>1, <1>2, <1>5, <1>6
<1> QED BY <1>4, <1>7

LEMMA BeginTypes ==
  ASSUME Types, NEW t \in Task, NEW ok \in BOOLEAN, Begin(t, ok)
  PROVE  Types'
<1>1. BoundsOK' BY OutcomesFacts DEF Begin
<1>2. FilesOK' /\ IndexesOK' /\ PipesOK' /\ ControlOK' BY Frames DEF Begin, control
<1>3. task[t].todo # <<>> BY BeginCases
<1>4. CASE records' = records /\ Set(t, RestOf(t))
  <2>1. TaskGood(RestOf(t), records', cache') BY <1>3, <1>4, RestGood DEF Begin, files
  <2>2. Grown /\ HistoryOK' BY <1>4, Frames DEF Begin, files
  <2> QED BY <1>1, <1>2, <1>4, <2>1, <2>2, OthersGood DEF Types
<1>5. ASSUME NEW i \in Nat, NEW recs \in Seq(Record), Attempt(t, i, recs), i \in DOMAIN recs,
             DOMAIN records[Now(t)] \subseteq DOMAIN recs
      PROVE  Types'
  <2>1. HistoryOK' /\ TasksOK' BY <1>3, <1>5, AttemptTypes DEF Begin
  <2> QED BY <2>1, <1>1, <1>2 DEF Types
<1> QED BY <1>4, <1>5, BeginCases

LEMMA DropIndexesTypes ==
  ASSUME Types, NEW t \in Task, NEW ok \in BOOLEAN, DropIndexes(t, ok)
  PROVE  Types'
<1>1. BoundsOK' BY OutcomesFacts DEF DropIndexes
<1>2. FilesOK' /\ HistoryOK' /\ PipesOK' /\ ControlOK' /\ Grown
  BY Frames DEF DropIndexes, control, history, files
<1>3. Busy(t) BY DEF DropIndexes, Busy
<1>4. task[t].todo # <<>> /\ Now(t) \in Dataset /\ task[t] \in TaskRec BY <1>3, BusyFacts
<1>5. IndexesOK' BY <1>4 DEF DropIndexes, Types, IndexesOK
<1>6. PICK y : y = IF ok THEN [task[t] EXCEPT !.pc = "fetch"] ELSE RestOf(t) OBVIOUS
<1>7. TaskGood(y, records, cache)
  <2>1. CASE ok
    <3>1. y \in TaskRec /\ y.pc = "fetch" /\ y.todo = task[t].todo /\ y.id = task[t].id
      BY <2>1, <1>4, <1>6, StepFacts
    <3> QED BY <3>1, <1>3, MovedGood
  <2>2. CASE ~ok BY <2>2, <1>4, <1>6, RestGood
  <2> QED BY <2>1, <2>2
<1>8. TasksOK' BY <1>2, <1>6, <1>7, OthersGood DEF DropIndexes, Types, files, history
<1> QED BY <1>1, <1>2, <1>5, <1>8 DEF Types

\* What becomes of a task that fetches: it leaves, or knows the table and goes on.
FetchedSlot(t, y) ==
  \/ y = Leave(t, "failed")
  \/ \E q \in {"extract", "download"} : y = [[task[t] EXCEPT !.known = table] EXCEPT !.pc = q]

LEMMA FetchCases ==
  ASSUME Types, NEW t \in Task, Fetch(t)
  PROVE  /\ Busy(t) /\ lock' \subseteq Dataset
         /\ \E y : Set(t, y) /\ FetchedSlot(t, y)
<1>1. Busy(t) BY DEF Fetch, Busy
<1>2. Now(t) \in Dataset BY <1>1, BusyFacts
<1>3. lock' \subseteq Dataset BY <1>2 DEF Fetch, Types, FilesOK
<1>4. \E y : Set(t, y) /\ FetchedSlot(t, y) BY DEF Fetch, FetchedSlot
<1> QED BY <1>1, <1>3, <1>4

LEMMA FetchTypes ==
  ASSUME Types, NEW t \in Task, Fetch(t)
  PROVE  Types'
<1>1. Busy(t) /\ lock' \subseteq Dataset BY FetchCases
<1>2. task[t] \in TaskRec BY BusyFacts
<1>3. BoundsOK' /\ HistoryOK' /\ IndexesOK' /\ PipesOK' /\ ControlOK' /\ Grown
  BY Frames DEF Fetch, control, history, files
<1>4. FilesOK' BY <1>1 DEF Fetch, Types, FilesOK, lines
<1>5. PICK y : Set(t, y) /\ FetchedSlot(t, y) BY FetchCases
<1>6. y \in TaskRec /\ y.pc # "unpack" /\ y.todo = task[t].todo /\ y.id = task[t].id
  <2>1. CASE y = Leave(t, "failed") BY <2>1, <1>2, LeaveFacts DEF Outcome
  <2>2. ASSUME NEW q \in {"extract", "download"},
               y = [[task[t] EXCEPT !.known = table] EXCEPT !.pc = q]
        PROVE  y \in TaskRec /\ y.pc # "unpack" /\ y.todo = task[t].todo /\ y.id = task[t].id
    <3>1. table \in SUBSET Row BY DEF Types, HistoryOK
    <3>2. y \in TaskRec /\ y.pc = q /\ y.todo = task[t].todo /\ y.id = task[t].id
      BY <2>2, <3>1, <1>2 DEF TaskRec
    <3> QED BY <3>2
  <2> QED BY <2>1, <2>2, <1>5 DEF FetchedSlot
<1>7. TaskGood(y, records, cache) BY <1>1, <1>6, MovedGood
<1>8. TasksOK' BY <1>3, <1>5, <1>7, OthersGood DEF Fetch, Types, history
<1> QED BY <1>1, <1>3, <1>4, <1>8 DEF Types

LEMMA DownloadedFacts ==
  ASSUME Types, NEW d \in Dataset, Downloaded(d), records' = records
  PROVE  FilesOK' /\ Grown
<1>1. remote[d] \in Nat /\ cache[d] <= remote[d] BY DEF Types, FilesOK
<1>2. \A e \in Dataset : cache'[e] = IF e = d THEN remote[d] ELSE cache[e]
  BY DEF Downloaded, Types, FilesOK
<1>3. cache' \in [Dataset -> Nat] BY <1>1 DEF Downloaded, Types, FilesOK
<1>4. \A e \in Dataset : /\ cache'[e] <= remote[e] /\ cache[e] <= cache'[e]
                         /\ extracted[e] <= cache'[e]
  <2> SUFFICES ASSUME NEW e \in Dataset
               PROVE  /\ cache'[e] <= remote[e] /\ cache[e] <= cache'[e]
                      /\ extracted[e] <= cache'[e]
    OBVIOUS
  <2>1. /\ cache[e] \in Nat /\ remote[e] \in Nat /\ extracted[e] \in Nat
        /\ cache[e] <= remote[e] /\ extracted[e] <= cache[e]
    BY DEF Types, FilesOK
  <2> QED BY <2>1, <1>2
<1>5. FilesOK' BY <1>3, <1>4 DEF Downloaded, Types, FilesOK
<1>6. Grown BY <1>3, <1>4 DEF Grown, Types, FilesOK
<1> QED BY <1>5, <1>6

LEMMA DownloadCases ==
  ASSUME Types, NEW t \in Task, NEW how \in Outcome, Download(t, how)
  PROVE  /\ Busy(t) /\ task[t].pc = "download"
         /\ \/ /\ how = "completed" /\ Downloaded(Now(t)) /\ faults' = faults
               /\ Set(t, [task[t] EXCEPT !.pc = "extract"])
            \/ /\ how # "completed" /\ UNCHANGED <<files, lines>> /\ BoundsOK'
               /\ Set(t, Leave(t, how))
<1>1. CASE how = "completed" BY <1>1 DEF Download, Busy
<1>2. CASE how # "completed"
  <2>1. BoundsOK' BY <1>2, FaultFacts, Frames DEF Download
  <2> QED BY <1>2, <2>1 DEF Download, Busy
<1> QED BY <1>1, <1>2

LEMMA DownloadTypes ==
  ASSUME Types, NEW t \in Task, NEW how \in Outcome, Download(t, how)
  PROVE  Types'
<1>1. Busy(t) BY DownloadCases
<1>2. task[t] \in TaskRec /\ Now(t) \in Dataset BY <1>1, BusyFacts
<1>3. HistoryOK' /\ IndexesOK' /\ PipesOK' /\ ControlOK' /\ records' = records
  BY Frames DEF Download, control, history
<1>4. ASSUME NEW y, Set(t, y), y \in TaskRec, y.pc # "unpack", y.todo = task[t].todo,
             y.id = task[t].id, Grown
      PROVE  TasksOK'
  <2>1. TaskGood(y, records, cache) BY <1>1, <1>4, MovedGood
  <2>2. TaskGood(y, records', cache') BY <2>1, <1>4, GrownGood
  <2> QED BY <2>2, <1>4, OthersGood DEF Types
<1>5. CASE how = "completed"
  <2>1. FilesOK' /\ Grown BY <1>2, <1>3, <1>5, DownloadCases, DownloadedFacts
  <2>2. BoundsOK' BY <1>5, DownloadCases, Frames DEF Download
  <2>3. PICK y : y = [task[t] EXCEPT !.pc = "extract"] OBVIOUS
  <2>4. y \in TaskRec /\ y.pc = "extract" /\ y.todo = task[t].todo /\ y.id = task[t].id
    BY <1>2, <2>3, StepFacts
  <2>5. Set(t, y) BY <1>5, <2>3, DownloadCases
  <2>6. TasksOK' BY <1>4, <2>1, <2>4, <2>5
  <2> QED BY <1>3, <2>1, <2>2, <2>6 DEF Types
<1>6. CASE how # "completed"
  <2>1. FilesOK' /\ Grown BY <1>3, <1>6, DownloadCases, Frames DEF files
  <2>2. BoundsOK' /\ Set(t, Leave(t, how)) BY <1>6, DownloadCases
  <2>3. PICK y : y = Leave(t, how) OBVIOUS
  <2>4. y \in TaskRec /\ y.pc = "recreate" /\ y.todo = task[t].todo /\ y.id = task[t].id
    BY <1>2, <2>3, LeaveFacts
  <2>6. TasksOK' BY <1>4, <2>1, <2>2, <2>3, <2>4
  <2> QED BY <1>3, <2>1, <2>2, <2>6 DEF Types
<1> QED BY <1>5, <1>6

---------------------------------------------------------------------------
(* Types: the file is opened and parsed *)

LEMMA FileFacts ==
  ASSUME NEW d \in Dataset, NEW v \in DOMAIN Files[d]
  PROVE  Files[d][v] \in Seq(Row) /\ RowsOf(Files[d][v]) \subseteq Row
<1>1. Files[d][v] \in Seq(Row) BY DumpAssumption
<1>2. RowsOf(Files[d][v]) \subseteq Row BY <1>1 DEF RowsOf
<1> QED BY <1>1, <1>2

\* A version between 0 and one that exists exists.
LEMMA VersionFacts ==
  ASSUME Types, NEW d \in Dataset, NEW v \in Nat, 0 < v, v <= cache[d]
  PROVE  v \in DOMAIN Files[d]
<1>1. DOMAIN Files[d] = 1 .. Len(Files[d]) /\ Len(Files[d]) \in Nat BY DumpAssumption
<1>2. remote[d] \in DOMAIN Files[d] /\ cache[d] <= remote[d] /\ cache[d] \in Nat /\ remote[d] \in Nat
  BY DEF Types, FilesOK
<1> QED BY <1>1, <1>2

\* The parser as it is opened, and as a line or the end of the file leaves it.
LEMMA OffFacts == Off \in ParserRec /\ Off.at = "off" /\ Off.out = <<>> /\ Off.batch = {}
  BY DEF Off, ParserRec

Opening(t, v) == [Off EXCEPT !.at = "read", !.file = Files[Now(t)][v],
                             !.rows = task[t].rows, !.last = task[t].from]
LEMMA OpeningFacts ==
  ASSUME NEW t, task[t] \in TaskRec, NEW v, Files[Now(t)][v] \in Seq(Row)
  PROVE  LET p == Opening(t, v)
         IN  /\ p \in ParserRec /\ p.at = "read" /\ p.file = Files[Now(t)][v]
             /\ p.batch = {} /\ p.out = <<>> /\ p.last = task[t].from
<1>1. task[t].rows \in Nat /\ task[t].from \in Nat BY DEF TaskRec
<1>2. Opening(t, v) = [at |-> "read", file |-> Files[Now(t)][v], batch |-> {},
                       rows |-> task[t].rows, last |-> task[t].from, out |-> <<>>]
  <2>1. PICK o : o = Off OBVIOUS
  <2>2. o = [at |-> "off", file |-> <<>>, batch |-> {}, rows |-> 0, last |-> 0, out |-> <<>>]
    BY <2>1 DEF Off
  <2>3. PICK f : f = Files[Now(t)][v] OBVIOUS
  <2>4. Opening(t, v) = [o EXCEPT !.at = "read", !.file = f,
                                  !.rows = task[t].rows, !.last = task[t].from]
    BY <2>1, <2>3 DEF Opening
  <2> QED BY <2>2, <2>3, <2>4
<1>3. PICK p : p = Opening(t, v) OBVIOUS
<1>4. /\ p.at = "read" /\ p.file = Files[Now(t)][v] /\ p.batch = {} /\ p.out = <<>>
      /\ p.last = task[t].from
  BY <1>2, <1>3
<1>5. p \in ParserRec BY <1>1, <1>2, <1>3 DEF ParserRec
<1> QED BY <1>3, <1>4, <1>5

\* The rows a new record is given, and what is written into which record.
Wanted(t, v) == {r \in RowsOf(Files[Now(t)][v]) : Kept(task[t].known, r)}

LEMMA OpenedRecords ==
  ASSUME Types, NEW t \in Task, Busy(t), NEW v \in DOMAIN Files[Now(t)], Opened(t, v),
         UNCHANGED <<cache, synced, table>>
  PROVE  /\ \A d \in Dataset :
              /\ DOMAIN records'[d] = DOMAIN records[d]
              /\ \A i \in DOMAIN records[d] :
                   \/ records'[d][i] = records[d][i]
                   \/ /\ task[t].from = 0 /\ d = Now(t) /\ i = task[t].id
                      /\ records'[d][i].scope = Wanted(t, v)
                      /\ records'[d][i].mark = records[d][i].mark
                      /\ records'[d][i].status = records[d][i].status
         /\ task[t].from = 0 => records'[Now(t)][task[t].id].scope = Wanted(t, v)
         /\ task[t].from # 0 => records' = records
         /\ HistoryOK' /\ Grown
<1>1. /\ Now(t) \in Dataset /\ task[t].id \in DOMAIN records[Now(t)] /\ task[t] \in TaskRec
  BY BusyFacts
<1>2. records \in [Dataset -> Seq(Record)] BY DEF Types, HistoryOK
<1>3. task[t].from \in Nat BY <1>1 DEF TaskRec
<1> DEFINE d == Now(t)
           i == task[t].id
<1>4. PICK new : new = [records[d][i] EXCEPT !.scope = Wanted(t, v)] OBVIOUS
<1>5. Wanted(t, v) \subseteq Row BY <1>1, FileFacts DEF Wanted
<1>6. /\ new \in Record /\ new.scope = Wanted(t, v) /\ new.mark = records[d][i].mark
      /\ new.status = records[d][i].status
  <2>1. records[d][i] \in Record BY <1>1, RecordFacts
  <2> QED BY <1>4, <1>5, <2>1 DEF Record
<1>7. records' = IF task[t].from > 0 THEN records
                 ELSE [records EXCEPT ![d] = [records[d] EXCEPT ![i] = new]]
  BY <1>4 DEF Opened, Wanted
<1>8. CASE task[t].from > 0
  <2>1. records' = records /\ task[t].from # 0 BY <1>3, <1>7, <1>8
  <2>2. HistoryOK' /\ Grown BY <2>1 DEF Types, HistoryOK, Grown, FilesOK
  <2> QED BY <2>1, <2>2
<1>9. CASE ~(task[t].from > 0)
  <2>1. task[t].from = 0 BY <1>3, <1>9
  <2>2. PICK recs : recs = [records[d] EXCEPT ![i] = new] OBVIOUS
  <2>3. records[d] \in Seq(Record) BY <1>1, <1>2
  <2>4. /\ recs \in Seq(Record) /\ DOMAIN recs = DOMAIN records[d] /\ recs[i] = new
        /\ \A k \in DOMAIN records[d] : k # i => recs[k] = records[d][k]
    BY <1>1, <1>6, <2>2, <2>3
  <2>5. records' = [records EXCEPT ![d] = recs] BY <1>7, <1>9, <2>2
  <2>6. /\ records' \in [Dataset -> Seq(Record)] /\ records'[d] = recs
        /\ \A e \in Dataset : e # d => records'[e] = records[e]
    BY <1>1, <1>2, <2>4, <2>5
  <2>7. HistoryOK' BY <2>6 DEF Types, HistoryOK
  <2>8. Grown
    <3>1. \A e \in Dataset : DOMAIN records[e] \subseteq DOMAIN records'[e] BY <2>4, <2>6
    <3>2. \A e \in Dataset : cache[e] \in Nat /\ cache'[e] = cache[e] BY DEF Types, FilesOK
    <3> QED BY <3>1, <3>2 DEF Grown
  <2> HIDE DEF d, i
  <2>9. ASSUME NEW e \in Dataset
        PROVE  /\ DOMAIN records'[e] = DOMAIN records[e]
               /\ \A k \in DOMAIN records[e] :
                    \/ records'[e][k] = records[e][k]
                    \/ /\ e = d /\ k = i /\ records'[e][k] = new
    BY <2>4, <2>6
  <2>10. records'[d][i] = new BY <2>4, <2>6
  <2> QED BY <2>1, <2>7, <2>8, <2>9, <2>10, <1>6 DEF d, i
<1> QED BY <1>8, <1>9

LEMMA OpenedTypes ==
  ASSUME Types, NEW t \in Task, Busy(t), NEW v \in DOMAIN Files[Now(t)], Opened(t, v),
         UNCHANGED <<cache, synced, table, channel>>
  PROVE  HistoryOK' /\ TasksOK' /\ PipesOK'
<1>1. /\ Now(t) \in Dataset /\ task[t].id \in DOMAIN records[Now(t)] /\ task[t] \in TaskRec
  BY BusyFacts
<1>2. HistoryOK' /\ Grown BY OpenedRecords
<1>3. PICK y : y = [task[t] EXCEPT !.pc = "write", !.tar = 0] OBVIOUS
<1>4. y \in TaskRec /\ y.pc = "write" /\ y.todo = task[t].todo /\ y.id = task[t].id
  BY <1>1, <1>3 DEF TaskRec
<1>5. TaskGood(y, records', cache') BY <1>2, <1>4, MovedGood, GrownGood
<1>6. Set(t, y) BY <1>3 DEF Opened
<1>7. TasksOK' BY <1>2, <1>5, <1>6, OthersGood DEF Types
<1>8. Opening(t, v) \in ParserRec BY <1>1, FileFacts, OpeningFacts
<1>9. parser' = [parser EXCEPT ![t] = Opening(t, v)] BY DEF Opened, Opening
<1>10. PipesOK' BY <1>8, <1>9 DEF Types, PipesOK
<1> QED BY <1>2, <1>7, <1>10

LEMMA ExtractTypes ==
  ASSUME Types, NEW t \in Task, Extract(t)
  PROVE  Types'
<1>1. Busy(t) BY DEF Extract, Busy
<1>2. Now(t) \in Dataset /\ task[t] \in TaskRec BY <1>1, BusyFacts
<1>3. FilesOK' /\ IndexesOK' /\ ControlOK' /\ BoundsOK' BY Frames DEF Extract, control
<1>4. /\ extracted[Now(t)] \in Nat /\ extracted[Now(t)] <= cache[Now(t)] /\ cache[Now(t)] \in Nat
  BY <1>2 DEF Types, FilesOK
<1>5. CASE extracted[Now(t)] > 0 /\ Now(t) \notin outdated
  <2>1. extracted[Now(t)] \in DOMAIN Files[Now(t)] BY <1>2, <1>4, <1>5, VersionFacts
  <2>2. Opened(t, extracted[Now(t)]) BY <1>5 DEF Extract
  <2>3. HistoryOK' /\ TasksOK' /\ PipesOK' BY <1>1, <2>1, <2>2, OpenedTypes DEF Extract, files
  <2> QED BY <1>3, <2>3 DEF Types
<1>6. CASE ~(extracted[Now(t)] > 0 /\ Now(t) \notin outdated)
  <2>1. PICK y : y = IF cache[Now(t)] = 0 THEN Leave(t, "failed")
                     ELSE [task[t] EXCEPT !.pc = "unpack", !.tar = cache[Now(t)]]
    OBVIOUS
  <2>2. Set(t, y) /\ UNCHANGED <<parser, records>> BY <1>6, <2>1 DEF Extract
  <2>3. TaskGood(y, records, cache)
    <3>1. CASE cache[Now(t)] = 0
      <4>1. y \in TaskRec /\ y.pc = "recreate" /\ y.todo = task[t].todo /\ y.id = task[t].id
        BY <1>2, <2>1, <3>1, LeaveFacts DEF Outcome
      <4> QED BY <4>1, <1>1, MovedGood
    <3>2. CASE cache[Now(t)] # 0
      <4>1. y = [task[t] EXCEPT !.pc = "unpack", !.tar = cache[Now(t)]] BY <2>1, <3>2
      <4>2. /\ y \in TaskRec /\ y.pc = "unpack" /\ y.todo = task[t].todo /\ y.id = task[t].id
            /\ y.tar = cache[Now(t)]
        BY <1>2, <1>4, <4>1 DEF TaskRec
      <4> QED BY <4>2, <1>1, <1>4, <3>2, BusyFacts DEF TaskGood, Now
    <3> QED BY <3>1, <3>2
  <2>4. Grown /\ HistoryOK' /\ PipesOK' BY <2>2, Frames DEF Extract, files, pipe
  <2>5. TasksOK' BY <2>2, <2>3, <2>4, OthersGood DEF Types, Extract, files
  <2> QED BY <1>3, <2>4, <2>5 DEF Types
<1> QED BY <1>5, <1>6

LEMMA UnpackTypes ==
  ASSUME Types, NEW t \in Task, Unpack(t)
  PROVE  Types'
<1>1. Busy(t) BY DEF Unpack, Busy
<1>2. Now(t) \in Dataset /\ task[t] \in TaskRec BY <1>1, BusyFacts
<1>3. IndexesOK' /\ ControlOK' /\ BoundsOK' BY Frames DEF Unpack, control
<1>4. 0 < task[t].tar /\ task[t].tar <= cache[Now(t)] /\ task[t].tar \in Nat
  BY <1>2, BusyFacts DEF Unpack, TaskGood, Now, TaskRec
<1>5. task[t].tar \in DOMAIN Files[Now(t)] BY <1>2, <1>4, VersionFacts
<1>6. FilesOK' BY <1>2, <1>4 DEF Unpack, Types, FilesOK, files
<1>7. HistoryOK' /\ TasksOK' /\ PipesOK'
  BY <1>1, <1>5, OpenedTypes DEF Unpack, files
<1> QED BY <1>3, <1>6, <1>7 DEF Types

LEMMA MessageFacts ==
  ASSUME NEW kind \in {"batch", "progress", "check", "done", "cancelled"},
         NEW rows \in SUBSET Row, NEW n \in Nat, NEW id \in Nat
  PROVE  LET m == Message(kind, rows, n, id)
         IN  m \in Messages /\ m.kind = kind /\ m.rows = rows /\ m.count = n /\ m.id = id
  BY DEF Message, Messages

\* What a line that is taken leaves to be sent: nothing, a batch, or a batch and a
\* checkpoint with it.
Rested(k, rows) == k.out = <<>> /\ k.batch = rows
Batched(k, rows) == k.out = <<Message("batch", rows, 0, 0)>> /\ k.batch = {}
Checked(k, rows) ==
  /\ k.out = <<Message("batch", rows, 0, 0), Message("progress", {}, k.rows, k.last),
               Message("check", {}, k.rows, k.last)>>
  /\ k.batch = {}

\* Short sequences, joined.
LEMMA Joined ==
  ASSUME NEW S, NEW b \in S, NEW c \in S, NEW d \in S
  PROVE  <<b>> \o <<c, d>> = <<b, c, d>> /\ <<b>> \o <<d>> = <<b, d>> /\ <<>> \o <<d>> = <<d>>
<1>1. <<b>> \in Seq(S) /\ <<c, d>> \in Seq(S) /\ <<b, c, d>> \in Seq(S) /\ <<d>> \in Seq(S) /\ <<b, d>> \in Seq(S) OBVIOUS
<1>2. <<b>> \o <<c, d>> = <<b, c, d>>
  <2> PICK s, u : s = <<b>> /\ u = <<c, d>> OBVIOUS
  <2> PICK w : w = s \o u OBVIOUS
  <2>1. s \in Seq(S) /\ u \in Seq(S) /\ Len(s) = 1 /\ Len(u) = 2 BY <1>1
  <2>2. w \in Seq(S) /\ Len(w) = 3 BY <2>1
  <2>3. w[1] = s[1] /\ w[2] = u[1] /\ w[3] = u[2] BY <2>1
  <2>4. PICK x : x = <<b, c, d>> OBVIOUS
  <2>5. x \in Seq(S) /\ Len(x) = 3 /\ x[1] = b /\ x[2] = c /\ x[3] = d BY <1>1, <2>4
  <2>6. s[1] = b /\ u[1] = c /\ u[2] = d OBVIOUS
  <2>7. \A i \in 1 .. Len(w) : w[i] = x[i] BY <2>2, <2>3, <2>5, <2>6
  <2>8. w = x BY <2>2, <2>5, <2>7, SeqEqual
  <2> QED BY <2>4, <2>8
<1>3. <<b>> \o <<d>> = <<b, d>>
  <2> PICK s, u : s = <<b>> /\ u = <<d>> OBVIOUS
  <2> PICK w : w = s \o u OBVIOUS
  <2>1. s \in Seq(S) /\ u \in Seq(S) /\ Len(s) = 1 /\ Len(u) = 1 BY <1>1
  <2>2. w \in Seq(S) /\ Len(w) = 2 BY <2>1
  <2>3. w[1] = s[1] /\ w[2] = u[1] BY <2>1
  <2>4. PICK x : x = <<b, d>> OBVIOUS
  <2>5. x \in Seq(S) /\ Len(x) = 2 /\ x[1] = b /\ x[2] = d BY <1>1, <2>4
  <2>6. s[1] = b /\ u[1] = d OBVIOUS
  <2>7. \A i \in 1 .. Len(w) : w[i] = x[i] BY <2>2, <2>3, <2>5, <2>6
  <2>8. w = x BY <2>2, <2>5, <2>7, SeqEqual
  <2> QED BY <2>4, <2>8
<1>4. <<>> \o <<d>> = <<d>> BY <1>1, ConcatEmptySeq
<1> QED BY <1>2, <1>3, <1>4

LEMMA SendsFacts ==
  ASSUME NEW q \in ParserRec
  PROVE  \/ Sends(q) = <<>>
         \/ Sends(q) = <<Message("batch", q.batch, 0, 0)>>
         \/ Sends(q) = <<Message("batch", q.batch, 0, 0), Message("progress", {}, q.rows, q.last),
                         Message("check", {}, q.rows, q.last)>>
<1> PICK b : b = Message("batch", q.batch, 0, 0) OBVIOUS
<1> PICK c : c = Message("progress", {}, q.rows, q.last) OBVIOUS
<1> PICK d : d = Message("check", {}, q.rows, q.last) OBVIOUS
<1> b \in Messages /\ c \in Messages /\ d \in Messages
  BY DEF Message, Messages, ParserRec
<1>1. <<b>> \o <<c, d>> = <<b, c, d>> BY Joined
<1>2. <<b>> \in Seq(Messages) /\ <<b>> \o <<>> = <<b>> OBVIOUS
<1>3. <<>> \o <<>> = <<>> OBVIOUS
<1>4. Sends(q) = (IF Cardinality(q.batch) >= Batch \/ q.rows % Every = 0 THEN <<b>> ELSE <<>>)
                 \o IF q.rows % Every = 0 THEN <<c, d>> ELSE <<>>
  BY DEF Sends
<1>5. CASE q.rows % Every = 0 BY <1>1, <1>4, <1>5
<1>6. CASE q.rows % Every # 0
  <2>1. CASE Cardinality(q.batch) >= Batch BY <1>2, <1>4, <1>6, <2>1
  <2>2. CASE ~(Cardinality(q.batch) >= Batch) BY <1>3, <1>4, <1>6, <2>2
  <2> QED BY <2>1, <2>2
<1> QED BY <1>5, <1>6

LEMMA TakenFacts ==
  ASSUME NEW p \in ParserRec, NEW r \in Row, p.file # <<>>, r = Head(p.file)
  PROVE  LET k == Taken(p, r)
         IN  /\ k \in ParserRec /\ k.at = p.at /\ k.file = Tail(p.file) /\ k.last = Key[r]
             /\ \/ Rested(k, p.batch \cup {r})
                \/ Batched(k, p.batch \cup {r})
                \/ Checked(k, p.batch \cup {r})
<1>1. PICK q : q = [p EXCEPT !.file = Tail(@), !.batch = @ \cup {r}, !.rows = @ + 1, !.last = Key[r]]
  OBVIOUS
<1>2. Key[r] \in Nat BY DumpAssumption
<1>3. Tail(p.file) \in Seq(Row) BY DEF ParserRec
<1>4. /\ q \in ParserRec /\ q.at = p.at /\ q.file = Tail(p.file) /\ q.last = Key[r]
      /\ q.batch = p.batch \cup {r} /\ q.rows \in Nat
  <2>1. p = [at |-> p.at, file |-> p.file, batch |-> p.batch, rows |-> p.rows,
             last |-> p.last, out |-> p.out]
    BY DEF ParserRec
  <2>2. PICK e, f, g, n, l, o : p = [at |-> e, file |-> f, batch |-> g, rows |-> n,
                                     last |-> l, out |-> o]
    BY <2>1
  <2>3. /\ e \in {"off", "read", "end"} /\ g \in SUBSET Row /\ n \in Nat /\ o \in Seq(Messages)
        /\ p.at = e /\ p.file = f /\ p.batch = g /\ p.rows = n
    BY <2>2 DEF ParserRec
  <2>4. q = [at |-> e, file |-> Tail(f), batch |-> g \cup {r}, rows |-> n + 1,
             last |-> Key[r], out |-> o]
    BY <1>1, <2>2
  <2>5. n + 1 \in Nat /\ g \cup {r} \in SUBSET Row BY <2>3
  <2>6. q \in ParserRec BY <1>2, <1>3, <2>3, <2>4, <2>5 DEF ParserRec
  <2> QED BY <2>3, <2>4, <2>5, <2>6
<1>5. PICK flushed \in BOOLEAN :
        flushed = (\E i \in DOMAIN Sends(q) : Sends(q)[i].kind = "batch")
  OBVIOUS
<1>6. Taken(p, r) = [q EXCEPT !.out = Sends(q), !.batch = IF flushed THEN {} ELSE @]
  BY <1>1, <1>5 DEF Taken
<1>7. PICK k : k = Taken(p, r) OBVIOUS
<1>8. PICK b : b = Message("batch", q.batch, 0, 0) OBVIOUS
<1>9. PICK c : c = Message("progress", {}, q.rows, q.last) OBVIOUS
<1>10. PICK d : d = Message("check", {}, q.rows, q.last) OBVIOUS
<1>11. b \in Messages /\ c \in Messages /\ d \in Messages /\ b.kind = "batch"
  BY <1>2, <1>4, <1>8, <1>9, <1>10 DEF Message, Messages, ParserRec
<1>12. ASSUME Sends(q) \in Seq(Messages)
       PROVE  /\ k \in ParserRec /\ k.at = p.at /\ k.file = Tail(p.file) /\ k.last = Key[r]
              /\ k.out = Sends(q) /\ k.rows = q.rows
              /\ k.batch = IF flushed THEN {} ELSE p.batch \cup {r}
  BY <1>4, <1>6, <1>7, <1>12 DEF ParserRec
<1>13. CASE Sends(q) = <<>>
  <2>1. ~flushed BY <1>5, <1>13
  <2>2. Sends(q) \in Seq(Messages) BY <1>13
  <2>3. Rested(k, p.batch \cup {r}) BY <1>12, <1>13, <2>1, <2>2 DEF Rested
  <2> QED BY <1>7, <1>12, <2>2, <2>3
<1>14. CASE Sends(q) = <<b>>
  <2>1. flushed
    <3>1. 1 \in DOMAIN Sends(q) /\ Sends(q)[1] = b BY <1>14
    <3> QED BY <3>1, <1>5, <1>11
  <2>2. Sends(q) \in Seq(Messages) BY <1>11, <1>14
  <2>3. Batched(k, p.batch \cup {r}) BY <1>4, <1>8, <1>12, <1>14, <2>1, <2>2 DEF Batched
  <2> QED BY <1>7, <1>12, <2>2, <2>3
<1>15. CASE Sends(q) = <<b, c, d>>
  <2>1. flushed
    <3>1. 1 \in DOMAIN Sends(q) /\ Sends(q)[1] = b BY <1>15
    <3> QED BY <3>1, <1>5, <1>11
  <2>2. Sends(q) \in Seq(Messages) BY <1>11, <1>15
  <2>3. k.out = <<b, c, d>> /\ k.batch = {} /\ k.rows = q.rows /\ k.last = q.last
    BY <1>4, <1>12, <1>15, <2>1, <2>2
  <2>4. Checked(k, p.batch \cup {r}) BY <1>4, <1>8, <1>9, <1>10, <2>3 DEF Checked
  <2> QED BY <1>7, <1>12, <2>2, <2>4
<1> QED BY <1>4, <1>8, <1>9, <1>10, <1>13, <1>14, <1>15, SendsFacts

\* The end of the file: what is left of the batch, and the message that it is done.
Ended(k, p) ==
  /\ k.at = "end" /\ k.file = p.file /\ k.batch = {} /\ k.last = p.last
  /\ \/ k.out = <<Message("done", {}, p.rows, 0)>> /\ p.batch = {}
     \/ k.out = <<Message("batch", p.batch, 0, 0), Message("done", {}, p.rows, 0)>>
LEMMA EndedFacts ==
  ASSUME NEW p \in ParserRec
  PROVE  LET k == [p EXCEPT !.at = "end", !.batch = {}, !.out = Last(p)]
         IN  k \in ParserRec /\ Ended(k, p)
<1>1. PICK b : b = Message("batch", p.batch, 0, 0) OBVIOUS
<1>2. PICK d : d = Message("done", {}, p.rows, 0) OBVIOUS
<1>3. b \in Messages /\ d \in Messages
  BY <1>1, <1>2 DEF Message, Messages, ParserRec
<1>4. <<b>> \o <<d>> = <<b, d>> /\ <<>> \o <<d>> = <<d>> BY <1>3, Joined
<1>5. \/ Last(p) = <<d>> /\ p.batch = {}
      \/ Last(p) = <<b, d>>
  BY <1>1, <1>2, <1>4 DEF Last
<1>6. Last(p) \in Seq(Messages)
  <2>1. <<d>> \in Seq(Messages) /\ <<b, d>> \in Seq(Messages) BY <1>3
  <2> QED BY <1>5, <2>1
<1>7. PICK k : k = [p EXCEPT !.at = "end", !.batch = {}, !.out = Last(p)] OBVIOUS
<1>8. /\ k \in ParserRec /\ k.at = "end" /\ k.file = p.file /\ k.batch = {} /\ k.last = p.last
      /\ k.out = Last(p)
  BY <1>6, <1>7 DEF ParserRec
<1> QED BY <1>1, <1>2, <1>5, <1>7, <1>8 DEF Ended

LEMMA TailFacts ==
  ASSUME NEW p \in ParserRec, p.out # <<>>
  PROVE  LET k == [p EXCEPT !.out = Tail(@)]
         IN  /\ k \in ParserRec /\ k.at = p.at /\ k.file = p.file /\ k.batch = p.batch
             /\ k.last = p.last /\ k.out = Tail(p.out)
<1>1. PICK o : o = Tail(p.out) OBVIOUS
<1>2. o \in Seq(Messages) BY <1>1 DEF ParserRec
<1>3. PICK k : k = [p EXCEPT !.out = o] OBVIOUS
<1>4. /\ k \in ParserRec /\ k.at = p.at /\ k.file = p.file /\ k.batch = p.batch
      /\ k.last = p.last /\ k.out = o
  BY <1>2, <1>3 DEF ParserRec
<1> QED BY <1>1, <1>3, <1>4

LEMMA CutFacts ==
  ASSUME NEW p \in ParserRec
  PROVE  LET k == [p EXCEPT !.at = "end", !.file = <<>>,
                            !.out = <<Message("cancelled", {}, p.rows, p.last)>>]
         IN  /\ k \in ParserRec /\ k.at = "end" /\ k.file = <<>> /\ k.batch = p.batch
             /\ k.last = p.last /\ k.out = <<Message("cancelled", {}, p.rows, p.last)>>
<1>1. PICK m : m = Message("cancelled", {}, p.rows, p.last) OBVIOUS
<1>2. m \in Messages BY <1>1 DEF Message, Messages, ParserRec
<1>3. PICK o : o = <<m>> OBVIOUS
<1>4. o \in Seq(Messages) BY <1>2, <1>3
<1>5. PICK f : f = <<>> OBVIOUS
<1>6. f \in Seq(Row) BY <1>5
<1>7. PICK k : k = [p EXCEPT !.at = "end", !.file = f, !.out = o] OBVIOUS
<1>8. /\ k \in ParserRec /\ k.at = "end" /\ k.file = f /\ k.batch = p.batch
      /\ k.last = p.last /\ k.out = o
  BY <1>4, <1>6, <1>7 DEF ParserRec
<1> QED BY <1>1, <1>3, <1>5, <1>7, <1>8

LEMMA ParserTypes ==
  ASSUME Types, NEW t \in Task, NEW p \in ParserRec, Parser(t, p),
         channel' \in [Task -> Seq(Sent)], \A u \in Task : Len(channel'[u]) <= Capacity
  PROVE  Types'
<1>1. FilesOK' /\ HistoryOK' /\ IndexesOK' /\ ControlOK' /\ BoundsOK' /\ Grown
  BY Frames DEF Parser, history, control, files
<1>2. TasksOK' BY <1>1, SameTasks DEF Parser, Types
<1>3. PipesOK' BY DEF Parser, PipesOK, Types
<1> QED BY <1>1, <1>2, <1>3 DEF Types

LEMMA PipeFacts ==
  ASSUME Types, NEW t \in Task
  PROVE  /\ parser[t] \in ParserRec /\ channel[t] \in Seq(Sent)
         /\ Len(channel[t]) <= Capacity /\ Len(channel[t]) \in Nat
         /\ parser[t].file \in Seq(Row) /\ parser[t].out \in Seq(Messages)
         /\ parser[t].batch \subseteq Row /\ parser[t].last \in Nat /\ parser[t].rows \in Nat
<1>1. parser[t] \in ParserRec /\ channel[t] \in Seq(Sent) /\ Len(channel[t]) <= Capacity
  BY DEF Types, PipesOK
<1> QED BY <1>1 DEF ParserRec

LEMMA ReadLineTypes ==
  ASSUME Types, NEW t \in Task, ReadLine(t)
  PROVE  Types'
<1>1. PICK p : p = parser[t] OBVIOUS
<1>2. p \in ParserRec /\ p.file \in Seq(Row) /\ p.file # <<>> BY <1>1, PipeFacts DEF ReadLine
<1>3. Head(p.file) \in Row /\ Tail(p.file) \in Seq(Row) BY <1>2
<1>4. PICK k : k = IF Passed(t, Head(p.file)) THEN [p EXCEPT !.file = Tail(@)]
                   ELSE Taken(p, Head(p.file))
  OBVIOUS
<1>5. k \in ParserRec
  <2>1. [p EXCEPT !.file = Tail(@)] \in ParserRec
    <3>1. PICK f : f = Tail(p.file) OBVIOUS
    <3>2. [p EXCEPT !.file = f] \in ParserRec BY <1>2, <1>3, <3>1 DEF ParserRec
    <3> QED BY <3>1, <3>2
  <2>2. Taken(p, Head(p.file)) \in ParserRec BY <1>2, <1>3, TakenFacts
  <2> QED BY <1>4, <2>1, <2>2
<1>6. Parser(t, k) /\ channel' = channel BY <1>1, <1>4 DEF ReadLine
<1> QED BY <1>5, <1>6, ParserTypes DEF Types, PipesOK

LEMMA EndOfFileTypes ==
  ASSUME Types, NEW t \in Task, EndOfFile(t)
  PROVE  Types'
<1>1. PICK k : k = [parser[t] EXCEPT !.at = "end", !.batch = {}, !.out = Last(parser[t])] OBVIOUS
<1>2. k \in ParserRec BY <1>1, PipeFacts, EndedFacts
<1>3. Parser(t, k) /\ channel' = channel BY <1>1 DEF EndOfFile
<1> QED BY <1>2, <1>3, ParserTypes DEF Types, PipesOK

LEMMA CheckTokenTypes ==
  ASSUME Types, NEW t \in Task, CheckToken(t)
  PROVE  Types'
<1>1. PICK p : p = parser[t] OBVIOUS
<1>2. p \in ParserRec /\ p.out # <<>> BY <1>1, PipeFacts DEF CheckToken
<1>3. PICK k : k = IF t \in cancelled
                     THEN [p EXCEPT !.at = "end", !.file = <<>>,
                                    !.out = <<Message("cancelled", {}, p.rows, p.last)>>]
                     ELSE [p EXCEPT !.out = Tail(@)]
  OBVIOUS
<1>4. k \in ParserRec BY <1>2, <1>3, CutFacts, TailFacts
<1>5. Parser(t, k) /\ channel' = channel BY <1>1, <1>3 DEF CheckToken
<1> QED BY <1>4, <1>5, ParserTypes DEF Types, PipesOK

LEMMA SendTypes ==
  ASSUME Types, NEW t \in Task, Send(t)
  PROVE  Types'
<1>1. PICK p : p = parser[t] OBVIOUS
<1>2. p \in ParserRec /\ p.out # <<>> /\ p.out \in Seq(Messages) BY <1>1, PipeFacts DEF Send
<1>3. PICK k : k = IF p.at = "end" /\ Len(p.out) = 1 THEN Off ELSE [p EXCEPT !.out = Tail(@)]
  OBVIOUS
<1>4. k \in ParserRec BY <1>2, <1>3, OffFacts, TailFacts
<1>5. Parser(t, k) BY <1>1, <1>3 DEF Send
<1>6. PICK c : c = Append(channel[t], Head(p.out)) OBVIOUS
<1>7. Head(p.out) \in Sent BY <1>1, <1>2 DEF Send, Sent
<1>8. c \in Seq(Sent) /\ Len(c) = Len(channel[t]) + 1 BY <1>6, <1>7, PipeFacts
<1>9. Len(c) <= Capacity BY <1>8, PipeFacts, DumpAssumption DEF Send
<1>10. channel' = [channel EXCEPT ![t] = c] BY <1>1, <1>6 DEF Send
<1>11. channel' \in [Task -> Seq(Sent)] /\ \A u \in Task : Len(channel'[u]) <= Capacity
  BY <1>8, <1>9, <1>10 DEF Types, PipesOK
<1> QED BY <1>4, <1>5, <1>11, ParserTypes

---------------------------------------------------------------------------
(* Types: the writer *)

\* What a checkpoint makes of the records.
LEMMA MarkedFacts ==
  ASSUME Types, NEW t \in Task, Busy(t), NEW n \in Nat, NEW id \in Nat,
         UNCHANGED <<cache, synced>>, table' \subseteq Row, records' = Marked(t, n, id)
  PROVE  /\ \A d \in Dataset :
              /\ DOMAIN records'[d] = DOMAIN records[d]
              /\ \A i \in DOMAIN records[d] :
                   /\ records'[d][i].scope = records[d][i].scope
                   /\ records'[d][i].status = records[d][i].status
                   /\ \/ records'[d][i].mark = records[d][i].mark
                      \/ d = Now(t) /\ i = task[t].id /\ records'[d][i].mark = id
         /\ HistoryOK' /\ Grown
<1> DEFINE d == Now(t)
           i == task[t].id
<1>1. d \in Dataset /\ i \in DOMAIN records[d] BY BusyFacts
<1>2. records \in [Dataset -> Seq(Record)] BY DEF Types, HistoryOK
<1>3. PICK old : old = records[d] OBVIOUS
<1>4. old \in Seq(Record) /\ old[i] \in Record BY <1>1, <1>2, <1>3
<1>5. PICK new : new = [[old[i] EXCEPT !.mark = id] EXCEPT !.rows = n] OBVIOUS
<1>6. new \in Record /\ new.mark = id /\ new.scope = old[i].scope /\ new.status = old[i].status
  BY <1>4, <1>5 DEF Record
<1>7. PICK recs : recs = [old EXCEPT ![i] = new] OBVIOUS
<1>8. /\ recs \in Seq(Record) /\ DOMAIN recs = DOMAIN old /\ recs[i] = new
      /\ \A k \in DOMAIN old : k # i => recs[k] = old[k]
  BY <1>1, <1>3, <1>4, <1>6, <1>7
<1>9. records' = [records EXCEPT ![d] = recs]
  BY <1>1, <1>2, <1>3, <1>4, <1>5, <1>7 DEF Marked
<1>10. /\ records' \in [Dataset -> Seq(Record)] /\ records'[d] = recs
       /\ \A e \in Dataset : e # d => records'[e] = records[e]
  BY <1>1, <1>2, <1>8, <1>9
<1>11. HistoryOK' BY <1>10 DEF Types, HistoryOK
<1>12. Grown
  <2>1. \A e \in Dataset : DOMAIN records[e] \subseteq DOMAIN records'[e] BY <1>3, <1>8, <1>10
  <2>2. \A e \in Dataset : cache[e] \in Nat /\ cache'[e] = cache[e] BY DEF Types, FilesOK
  <2> QED BY <2>1, <2>2 DEF Grown
<1> HIDE DEF d, i
<1>13. ASSUME NEW e \in Dataset
       PROVE  /\ DOMAIN records'[e] = DOMAIN records[e]
              /\ \A k \in DOMAIN records[e] :
                   \/ records'[e][k] = records[e][k]
                   \/ e = d /\ k = i /\ records'[e][k] = new
  BY <1>3, <1>8, <1>10
<1> QED BY <1>3, <1>6, <1>11, <1>12, <1>13 DEF d, i

LEMMA ReceiveCases ==
  ASSUME Types, NEW t \in Task, NEW ok \in BOOLEAN, Receive(t, ok)
  PROVE  /\ Busy(t) /\ task[t].pc = "write" /\ channel[t] # <<>> /\ BoundsOK'
         /\ \/ /\ channel' = [channel EXCEPT ![t] = <<>>]
               /\ parser' = [parser EXCEPT ![t] = Off]
               /\ Set(t, Leave(t, "failed")) /\ UNCHANGED <<table, records>>
            \/ \E m \in Sent, y \in TaskRec :
                 /\ m = Head(channel[t])
                 /\ channel' = [channel EXCEPT ![t] = Tail(@)] /\ parser' = parser
                 /\ table' = table \cup m.rows /\ table' \subseteq Row
                 /\ records' = IF m.kind = "progress" THEN Marked(t, m.count, m.id) ELSE records
                 /\ Set(t, y) /\ y.pc = "write" /\ y.todo = task[t].todo /\ y.id = task[t].id
                 /\ y.from = task[t].from /\ y.known = task[t].known
                 /\ y.end = IF m.kind = "cancelled" THEN "cancelled" ELSE task[t].end
                 /\ y.last = IF m.kind \in {"cancelled", "progress"} THEN m.id ELSE task[t].last
<1>1. Busy(t) /\ task[t].pc = "write" /\ channel[t] # <<>> BY DEF Receive, Busy
<1>2. task[t] \in TaskRec BY BusyFacts
<1>3. PICK m : m = Head(channel[t]) OBVIOUS
<1>4. m \in Sent BY <1>1, <1>3, PipeFacts
<1>5. /\ m.kind \in {"batch", "progress", "check", "done", "cancelled"} /\ m.rows \in SUBSET Row
      /\ m.count \in Nat /\ m.id \in Nat /\ m.kind # "check"
  BY <1>4 DEF Sent, Messages
<1>6. BoundsOK' BY OutcomesFacts, Frames DEF Receive
<1>7. CASE ~ok BY <1>1, <1>6, <1>7 DEF Receive
<1>8. CASE ok
  <2>1. /\ channel' = [channel EXCEPT ![t] = Tail(@)] /\ parser' = parser
        /\ table' = table \cup m.rows
        /\ records' = IF m.kind = "progress" THEN Marked(t, m.count, m.id) ELSE records
    BY <1>3, <1>8 DEF Receive
  <2>2. table' \subseteq Row BY <1>5, <2>1 DEF Types, HistoryOK
  <2>3. CASE m.kind = "batch"
    <3>1. Set(t, task[t]) BY <1>3, <1>8, <2>3 DEF Receive
    <3> QED BY <1>1, <1>2, <1>3, <1>4, <1>6, <2>1, <2>2, <2>3, <3>1
  <2>4. CASE m.kind = "done"
    <3>1. PICK y : y = [task[t] EXCEPT !.rows = m.count] OBVIOUS
    <3>2. Set(t, y) BY <1>3, <1>8, <2>4, <3>1 DEF Receive
    <3>3. /\ y \in TaskRec /\ y.pc = task[t].pc /\ y.todo = task[t].todo /\ y.id = task[t].id
          /\ y.from = task[t].from /\ y.known = task[t].known /\ y.end = task[t].end
          /\ y.last = task[t].last
      BY <1>2, <1>5, <3>1 DEF TaskRec
    <3> QED BY <1>1, <1>3, <1>4, <1>6, <2>1, <2>2, <2>4, <3>2, <3>3
  <2>5. CASE m.kind = "progress"
    <3>1. PICK y : y = [task[t] EXCEPT !.rows = m.count, !.last = m.id] OBVIOUS
    <3>2. Set(t, y) BY <1>3, <1>8, <2>5, <3>1 DEF Receive
    <3>3. /\ y \in TaskRec /\ y.pc = task[t].pc /\ y.todo = task[t].todo /\ y.id = task[t].id
          /\ y.from = task[t].from /\ y.known = task[t].known /\ y.end = task[t].end
          /\ y.last = m.id
      BY <1>2, <1>5, <3>1 DEF TaskRec
    <3> QED BY <1>1, <1>3, <1>4, <1>6, <2>1, <2>2, <2>5, <3>2, <3>3
  <2>6. CASE m.kind = "cancelled"
    <3>1. PICK y : y = [task[t] EXCEPT !.rows = m.count, !.last = m.id, !.end = "cancelled"]
      OBVIOUS
    <3>2. Set(t, y) BY <1>3, <1>8, <2>6, <3>1 DEF Receive
    <3>3. /\ y \in TaskRec /\ y.pc = task[t].pc /\ y.todo = task[t].todo /\ y.id = task[t].id
          /\ y.from = task[t].from /\ y.known = task[t].known /\ y.end = "cancelled"
          /\ y.last = m.id
      BY <1>2, <1>5, <3>1 DEF TaskRec, Outcome
    <3> QED BY <1>1, <1>3, <1>4, <1>6, <2>1, <2>2, <2>6, <3>2, <3>3
  <2> QED BY <1>5, <2>3, <2>4, <2>5, <2>6
<1> QED BY <1>7, <1>8

LEMMA ReceiveTypes ==
  ASSUME Types, NEW t \in Task, NEW ok \in BOOLEAN, Receive(t, ok)
  PROVE  Types'
<1>1. Busy(t) /\ task[t].pc = "write" /\ channel[t] # <<>> /\ BoundsOK' BY ReceiveCases
<1>2. task[t] \in TaskRec BY BusyFacts
<1>3. FilesOK' /\ IndexesOK' /\ ControlOK' BY Frames DEF Receive, control
<1>4. CASE /\ channel' = [channel EXCEPT ![t] = <<>>]
           /\ parser' = [parser EXCEPT ![t] = Off]
           /\ Set(t, Leave(t, "failed")) /\ UNCHANGED <<table, records>>
  <2>1. HistoryOK' /\ Grown BY <1>4, Frames DEF Receive, files
  <2>2. PICK y : y = Leave(t, "failed") OBVIOUS
  <2>3. y \in TaskRec /\ y.pc = "recreate" /\ y.todo = task[t].todo /\ y.id = task[t].id
    BY <1>2, <2>2, LeaveFacts DEF Outcome
  <2>4. TaskGood(y, records', cache') BY <1>1, <2>1, <2>3, MovedGood, GrownGood
  <2>5. TasksOK' BY <1>4, <2>1, <2>2, <2>4, OthersGood DEF Types
  <2>6. PipesOK'
    <3>1. <<>> \in Seq(Sent) /\ Len(<<>>) <= Capacity BY DumpAssumption
    <3> QED BY <1>4, <3>1, OffFacts DEF Types, PipesOK
  <2> QED BY <1>1, <1>3, <2>1, <2>5, <2>6 DEF Types
<1>5. ASSUME NEW m \in Sent, NEW y \in TaskRec,
             channel' = [channel EXCEPT ![t] = Tail(@)], parser' = parser,
             table' \subseteq Row,
             records' = IF m.kind = "progress" THEN Marked(t, m.count, m.id) ELSE records,
             Set(t, y), y.pc = "write", y.todo = task[t].todo, y.id = task[t].id
      PROVE  Types'
  <2>1. HistoryOK' /\ Grown
    <3>1. CASE m.kind = "progress"
      <4>1. m.count \in Nat /\ m.id \in Nat BY DEF Sent, Messages
      <4> QED BY <1>1, <1>5, <3>1, <4>1, MarkedFacts DEF Receive, files
    <3>2. CASE m.kind # "progress"
      BY <1>5, <3>2 DEF Types, HistoryOK, Grown, FilesOK, Receive, files
    <3> QED BY <3>1, <3>2
  <2>2. TaskGood(y, records', cache') BY <1>1, <1>5, <2>1, MovedGood, GrownGood
  <2>3. TasksOK' BY <1>5, <2>1, <2>2, OthersGood DEF Types
  <2>4. PipesOK'
    <3>1. PICK c : c = Tail(channel[t]) OBVIOUS
    <3>2. c \in Seq(Sent) /\ Len(c) <= Capacity
      <4>1. Len(c) = Len(channel[t]) - 1 /\ c \in Seq(Sent) BY <1>1, <3>1, PipeFacts
      <4> QED BY <4>1, PipeFacts, DumpAssumption
    <3>3. channel' = [channel EXCEPT ![t] = c] BY <1>5, <3>1
    <3> QED BY <1>5, <3>2, <3>3 DEF Types, PipesOK
  <2> QED BY <1>1, <1>3, <2>1, <2>3, <2>4 DEF Types
<1> QED BY <1>4, <1>5, ReceiveCases

\* A step of the writer that keeps its dataset and record.
LEMMA WriterTypes ==
  ASSUME Types, NEW t \in Task, Busy(t), NEW y, Set(t, y), y \in TaskRec, y.pc # "unpack",
         y.todo = task[t].todo, y.id = task[t].id, HistoryOK', IndexesOK', Grown, BoundsOK',
         UNCHANGED <<files, lines, pipe, control, processOnly>>
  PROVE  Types'
<1>1. FilesOK' /\ PipesOK' /\ ControlOK' BY Frames DEF control
<1>2. TaskGood(y, records', cache') BY MovedGood, GrownGood
<1>3. TasksOK' BY <1>2, OthersGood DEF Types
<1> QED BY <1>1, <1>3 DEF Types

LEMMA DrainedTypes ==
  ASSUME Types, NEW t \in Task, NEW ok \in BOOLEAN, Drained(t, ok)
  PROVE  Types'
<1>1. Busy(t) BY DEF Drained, Busy
<1>2. task[t] \in TaskRec BY BusyFacts
<1>3. task[t].rows \in Nat /\ task[t].last \in Nat /\ task[t].end \in Outcome BY <1>2 DEF TaskRec
<1>4. BoundsOK' BY OutcomesFacts DEF Drained
<1>5. HistoryOK' /\ Grown
  <2>1. table' \subseteq Row BY DEF Drained, Types, HistoryOK
  <2>2. CASE ok BY <1>1, <1>3, <2>1, <2>2, MarkedFacts DEF Drained, files
  <2>3. CASE ~ok BY <2>3, Frames DEF Drained, files
  <2> QED BY <2>2, <2>3
<1>6. PICK y : y = Leave(t, IF ok THEN task[t].end ELSE "failed") OBVIOUS
<1>7. y \in TaskRec /\ y.pc = "recreate" /\ y.todo = task[t].todo /\ y.id = task[t].id
  BY <1>2, <1>3, <1>6, LeaveFacts DEF Outcome
<1>8. Set(t, y) BY <1>6 DEF Drained
<1>9. IndexesOK' BY Frames DEF Drained
<1> QED BY <1>1, <1>4, <1>5, <1>7, <1>8, <1>9, WriterTypes DEF Drained

LEMMA RecreateTypes ==
  ASSUME Types, NEW t \in Task, NEW ok \in BOOLEAN, RecreateIndexes(t, ok)
  PROVE  Types'
<1>1. Busy(t) BY DEF RecreateIndexes, Busy
<1>2. task[t] \in TaskRec /\ task[t].todo # <<>> BY <1>1, BusyFacts
<1>3. BoundsOK' BY OutcomesFacts DEF RecreateIndexes
<1>4. HistoryOK' /\ Grown /\ FilesOK' /\ PipesOK' /\ ControlOK'
  BY Frames DEF RecreateIndexes, history, files, control
<1>5. IndexesOK' BY DEF RecreateIndexes, Types, IndexesOK
<1>6. CASE ok
  <2>1. PICK y : y = [task[t] EXCEPT !.pc = "close"] OBVIOUS
  <2>2. y \in TaskRec /\ y.pc = "close" /\ y.todo = task[t].todo /\ y.id = task[t].id
    BY <1>2, <2>1, StepFacts
  <2>3. Set(t, y) BY <1>6, <2>1 DEF RecreateIndexes
  <2> QED BY <1>1, <1>3, <1>4, <1>5, <2>2, <2>3, WriterTypes DEF RecreateIndexes
<1>7. CASE ~ok
  <2>1. TaskGood(RestOf(t), records', cache') BY <1>2, <1>4, RestGood, GrownGood
  <2>2. TasksOK' BY <1>4, <1>7, <2>1, OthersGood DEF Types, RecreateIndexes
  <2> QED BY <1>3, <1>4, <1>5, <2>2 DEF Types
<1> QED BY <1>6, <1>7

\* Closing a record changes its status only.
LEMMA CloseFacts ==
  ASSUME Types, NEW t \in Task, NEW ok \in BOOLEAN, Close(t, ok)
  PROVE  /\ \A d \in Dataset :
              /\ DOMAIN records'[d] = DOMAIN records[d]
              /\ \A i \in DOMAIN records[d] :
                   /\ records'[d][i].scope = records[d][i].scope
                   /\ records'[d][i].mark = records[d][i].mark
                   /\ \/ records'[d][i].status = records[d][i].status
                      \/ d = Now(t) /\ i = task[t].id /\ records'[d][i].status = task[t].end
         /\ HistoryOK' /\ Grown
<1> DEFINE d == Now(t)
           i == task[t].id
<1>1. Busy(t) BY DEF Close, Busy
<1>2. d \in Dataset /\ i \in DOMAIN records[d] /\ task[t] \in TaskRec BY <1>1, BusyFacts
<1>3. records \in [Dataset -> Seq(Record)] BY DEF Types, HistoryOK
<1>4. synced' \subseteq Dataset /\ table' = table
  BY <1>2 DEF Close, Types, HistoryOK
<1>5. \A e \in Dataset : cache[e] \in Nat /\ cache'[e] = cache[e]
  BY DEF Types, FilesOK, Close, files
<1>6. CASE ~ok
  <2>1. records' = records BY <1>6 DEF Close
  <2>2. HistoryOK' /\ Grown BY <2>1, <1>4, <1>5 DEF Types, HistoryOK, Grown
  <2> QED BY <2>1, <2>2
<1>7. CASE ok
  <2>1. PICK old : old = records[d] OBVIOUS
  <2>2. old \in Seq(Record) /\ old[i] \in Record BY <1>2, <1>3, <2>1
  <2>3. task[t].end \in {"running", "completed", "failed", "cancelled"}
    BY <1>2 DEF TaskRec, Outcome
  <2>4. PICK new : new = [old[i] EXCEPT !.status = task[t].end] OBVIOUS
  <2>5. /\ new \in Record /\ new.mark = old[i].mark /\ new.scope = old[i].scope
        /\ new.status = task[t].end
    BY <2>2, <2>3, <2>4 DEF Record
  <2>6. PICK recs : recs = [old EXCEPT ![i] = new] OBVIOUS
  <2>7. /\ recs \in Seq(Record) /\ DOMAIN recs = DOMAIN old /\ recs[i] = new
        /\ \A k \in DOMAIN old : k # i => recs[k] = old[k]
    BY <1>2, <2>1, <2>2, <2>5, <2>6
  <2>8. records' = [records EXCEPT ![d] = recs]
    BY <1>2, <1>3, <1>7, <2>1, <2>2, <2>4, <2>6 DEF Close
  <2>9. /\ records' \in [Dataset -> Seq(Record)] /\ records'[d] = recs
        /\ \A e \in Dataset : e # d => records'[e] = records[e]
    BY <1>2, <1>3, <2>7, <2>8
  <2>10. HistoryOK' BY <1>4, <2>9 DEF Types, HistoryOK
  <2>11. Grown BY <1>5, <2>1, <2>7, <2>9 DEF Grown
  <2> HIDE DEF d, i
  <2>12. ASSUME NEW e \in Dataset
         PROVE  /\ DOMAIN records'[e] = DOMAIN records[e]
                /\ \A k \in DOMAIN records[e] :
                     \/ records'[e][k] = records[e][k]
                     \/ e = d /\ k = i /\ records'[e][k] = new
    BY <2>1, <2>7, <2>9
  <2> QED BY <2>1, <2>5, <2>10, <2>11, <2>12 DEF d, i
<1> QED BY <1>6, <1>7

LEMMA CloseTypes ==
  ASSUME Types, NEW t \in Task, NEW ok \in BOOLEAN, Close(t, ok)
  PROVE  Types'
<1>1. Busy(t) BY DEF Close, Busy
<1>2. task[t].todo # <<>> BY <1>1, BusyFacts
<1>3. BoundsOK' BY OutcomesFacts DEF Close
<1>4. HistoryOK' /\ Grown BY CloseFacts
<1>5. FilesOK' /\ IndexesOK' /\ PipesOK' /\ ControlOK' BY Frames DEF Close, control
<1>6. TaskGood(RestOf(t), records', cache') BY <1>2, <1>4, RestGood, GrownGood
<1>7. TasksOK' BY <1>4, <1>6, OthersGood DEF Types, Close
<1> QED BY <1>3, <1>4, <1>5, <1>7 DEF Types

---------------------------------------------------------------------------
(* Types: the download task, the world, and every step *)

LoaderType == [at : {"idle", "resolve", "next", "get"}, todo : Seq(Dataset)]

LEMMA LoadTypes ==
  ASSUME Types, NEW l \in LoaderType, Load(l), l.at = "get" => l.todo # <<>>,
         FilesOK', Grown, BoundsOK'
  PROVE  Types'
<1>1. HistoryOK' /\ IndexesOK' /\ PipesOK' BY Frames DEF Load, history
<1>2. TasksOK' BY SameTasks DEF Load, Types
<1>3. ControlOK' BY DEF Load, Types, ControlOK, LoaderType
<1> QED BY <1>1, <1>2, <1>3 DEF Types

LEMMA NoLoaderFacts == NoLoader \in LoaderType /\ NoLoader.at = "idle"
  BY DEF NoLoader, LoaderType

LEMMA LoaderFacts ==
  ASSUME Types
  PROVE  /\ loader \in LoaderType
         /\ loader.at = "get" => loader.todo # <<>>
         /\ loader.todo \in Seq(Dataset)
<1>1. loader \in LoaderType BY DEF Types, ControlOK, LoaderType
<1> QED BY <1>1 DEF Types, ControlOK, LoaderType

LEMMA LoaderResolveTypes ==
  ASSUME Types, NEW ok \in BOOLEAN, LoaderResolve(ok)
  PROVE  Types'
<1>1. PICK l : l = IF ok THEN [loader EXCEPT !.at = "next"] ELSE NoLoader OBVIOUS
<1>2. Load(l) BY <1>1 DEF LoaderResolve
<1>3. l \in LoaderType /\ l.at # "get"
  <2>1. CASE ok BY <1>1, <2>1, LoaderFacts DEF LoaderType
  <2>2. CASE ~ok BY <1>1, <2>2, NoLoaderFacts
  <2> QED BY <2>1, <2>2
<1>4. BoundsOK' BY <1>2, OutcomesFacts DEF LoaderResolve, Load
<1>5. FilesOK' /\ Grown BY <1>2, Frames DEF LoaderResolve, Load, files, history
<1> QED BY <1>2, <1>3, <1>4, <1>5, LoadTypes

LEMMA LoaderNextTypes ==
  ASSUME Types, LoaderNext
  PROVE  Types'
<1>1. \E l : /\ Load(l)
             /\ \/ l = NoLoader
                \/ loader.todo # <<>> /\ l = [loader EXCEPT !.todo = Tail(@)] /\ loader.at = "next"
                \/ loader.todo # <<>> /\ l = [loader EXCEPT !.at = "get"]
  BY DEF LoaderNext
<1>2. PICK l : /\ Load(l)
               /\ \/ l = NoLoader
                  \/ loader.todo # <<>> /\ l = [loader EXCEPT !.todo = Tail(@)] /\ loader.at = "next"
                  \/ loader.todo # <<>> /\ l = [loader EXCEPT !.at = "get"]
  BY <1>1
<1>3. l \in LoaderType /\ (l.at = "get" => l.todo # <<>>)
  <2>1. CASE l = NoLoader BY <2>1, NoLoaderFacts
  <2>2. CASE loader.todo # <<>> /\ l = [loader EXCEPT !.todo = Tail(@)] /\ loader.at = "next"
    <3>1. Tail(loader.todo) \in Seq(Dataset) BY <2>2, LoaderFacts
    <3> QED BY <2>2, <3>1, LoaderFacts DEF LoaderType
  <2>3. CASE loader.todo # <<>> /\ l = [loader EXCEPT !.at = "get"]
    BY <2>3, LoaderFacts DEF LoaderType
  <2> QED BY <1>2, <2>1, <2>2, <2>3
<1>4. lock' = lock \/ (loader.todo # <<>> /\ lock' = lock \cup {Head(loader.todo)})
  BY DEF LoaderNext
<1>5. lock' \subseteq Dataset
  <2>1. lock \subseteq Dataset BY DEF Types, FilesOK
  <2>2. loader.todo # <<>> => Head(loader.todo) \in Dataset BY LoaderFacts, TodoFacts
  <2> QED BY <1>4, <2>1, <2>2
<1>6. FilesOK' BY <1>5 DEF LoaderNext, Types, FilesOK, lines
<1>7. Grown /\ BoundsOK' BY <1>2, Frames DEF LoaderNext, Load, history
<1> QED BY <1>2, <1>3, <1>6, <1>7, LoadTypes

LEMMA LoaderGetTypes ==
  ASSUME Types, NEW how \in Outcome, LoaderGet(how)
  PROVE  Types'
<1>1. loader.todo # <<>> /\ Head(loader.todo) \in Dataset /\ Tail(loader.todo) \in Seq(Dataset)
  BY LoaderFacts, TodoFacts DEF LoaderGet
<1>2. CASE /\ how = "completed" /\ faults' = faults
           /\ Downloaded(Head(loader.todo))
           /\ Load([at |-> "next", todo |-> Tail(loader.todo)])
  <2>1. FilesOK' /\ Grown BY <1>1, <1>2, DownloadedFacts DEF Load, history
  <2>2. BoundsOK' BY <1>2, Frames DEF Load
  <2>3. PICK l : l = [at |-> "next", todo |-> Tail(loader.todo)] OBVIOUS
  <2>4. l \in LoaderType /\ l.at # "get" BY <1>1, <2>3 DEF LoaderType
  <2> QED BY <1>2, <2>1, <2>2, <2>3, <2>4, LoadTypes
<1>3. CASE Load(NoLoader) /\ UNCHANGED <<files, lines>> /\ (faults' = faults \/ Fault("http"))
  <2>1. FilesOK' /\ Grown BY <1>3, Frames DEF Load, history, files
  <2>2. BoundsOK' BY <1>3, FaultFacts, Frames DEF Load
  <2> QED BY <1>3, <2>1, <2>2, NoLoaderFacts, LoadTypes
<1> QED BY <1>2, <1>3 DEF LoaderGet

LEMMA NewVersionTypes ==
  ASSUME Types, NEW d \in Dataset, NewVersion(d)
  PROVE  Types'
<1>1. HistoryOK' /\ IndexesOK' /\ PipesOK' /\ ControlOK' /\ BoundsOK' /\ Grown
  BY Frames DEF NewVersion, history, control
<1>2. TasksOK' BY <1>1, SameTasks DEF NewVersion, Types
<1>3. FilesOK'
  <2>1. DOMAIN Files[d] = 1 .. Len(Files[d]) /\ Len(Files[d]) \in Nat BY DumpAssumption
  <2>2. remote[d] \in Nat /\ remote[d] < Len(Files[d]) BY DEF Types, FilesOK, NewVersion
  <2>3. remote[d] + 1 \in DOMAIN Files[d] /\ remote[d] + 1 \in Nat BY <2>1, <2>2
  <2>4. remote' = [remote EXCEPT ![d] = remote[d] + 1] BY DEF NewVersion
  <2>5. remote' \in [Dataset -> Nat] BY <2>3, <2>4 DEF Types, FilesOK
  <2>6. \A e \in Dataset : remote'[e] = IF e = d THEN remote[d] + 1 ELSE remote[e]
    BY <2>4 DEF Types, FilesOK
  <2>7. ASSUME NEW e \in Dataset PROVE remote'[e] \in DOMAIN Files[e] /\ cache[e] <= remote'[e]
    <3>1. /\ remote[e] \in DOMAIN Files[e] /\ cache[e] <= remote[e] /\ cache[e] \in Nat
          /\ remote[e] \in Nat
      BY DEF Types, FilesOK
    <3> QED BY <2>3, <2>6, <3>1
  <2> QED BY <2>5, <2>7 DEF NewVersion, Types, FilesOK, lines
<1> QED BY <1>1, <1>2, <1>3 DEF Types

LEMMA DayPassesTypes ==
  ASSUME Types, NEW d \in Dataset, DayPasses(d)
  PROVE  Types'
<1>1. IndexesOK' /\ PipesOK' /\ ControlOK' /\ BoundsOK' /\ Grown
  BY Frames DEF DayPasses, control
<1>2. TasksOK' BY <1>1, SameTasks DEF DayPasses, Types
<1>3. FilesOK' BY DEF DayPasses, Types, FilesOK, lines
<1>4. HistoryOK' BY DEF DayPasses, Types, HistoryOK
<1> QED BY <1>1, <1>2, <1>3, <1>4 DEF Types

LEMMA RestartTypes ==
  ASSUME Types, Restart
  PROVE  Types'
<1>1. FilesOK' BY Frames DEF Restart
<1>2. HistoryOK' /\ Grown BY UnstaleType DEF Restart, files
<1>3. BoundsOK' BY FaultFacts DEF Restart
<1>4. TasksOK' BY IdleFacts DEF Restart, TasksOK, TaskGood
<1>5. IndexesOK' BY DEF Restart, IndexesOK
<1>6. PipesOK'
  <2>1. <<>> \in Seq(Sent) /\ Len(<<>>) <= Capacity BY DumpAssumption
  <2> QED BY <2>1, OffFacts DEF Restart, PipesOK
<1>7. ControlOK' BY NoLoaderFacts DEF Restart, ControlOK, LoaderType
<1> QED BY <1>1, <1>2, <1>3, <1>4, <1>5, <1>6, <1>7 DEF Types

LEMMA StutterTypes ==
  ASSUME Types, UNCHANGED vars
  PROVE  Types'
<1>1. UNCHANGED <<files, lines, records, synced, table, indexes, pipe, handle, cancelled, loader,
                  processOnly, bounds, task>> /\ faults' = faults
  BY DEF vars, files, lines, indexes, pipe, bounds
<1>2. /\ FilesOK' /\ HistoryOK' /\ IndexesOK' /\ PipesOK' /\ ControlOK' /\ BoundsOK' /\ Grown
  BY <1>1, Frames DEF files
<1>3. TasksOK' BY <1>1, <1>2, SameTasks DEF Types
<1> QED BY <1>2, <1>3 DEF Types

LEMMA StepTypes ==
  ASSUME Types, [Next]_vars
  PROVE  Types'
<1>1. ASSUME NEW ds \in Request, StartSync(ds) \/ StartProcess(ds) \/ StartDownload(ds)
      PROVE  Types'
  BY <1>1, SpawnTypes, StartDownloadTypes DEF StartSync, StartProcess
<1>2. ASSUME NEW t \in Task, WriterStep(t) PROVE Types'
  BY <1>2, EndRunTypes, SkipTypes, FetchTypes, ExtractTypes, UnpackTypes, DownloadTypes,
     ResolveTypes, BeginTypes, DropIndexesTypes, ReceiveTypes, DrainedTypes, RecreateTypes,
     CloseTypes DEF WriterStep
<1>3. ASSUME NEW t \in Task, ParserStep(t) PROVE Types'
  BY <1>3, ReadLineTypes, EndOfFileTypes, CheckTokenTypes, SendTypes DEF ParserStep
<1>4. ASSUME NEW ok \in BOOLEAN, LoaderResolve(ok) PROVE Types' BY <1>4, LoaderResolveTypes
<1>5. ASSUME NEW how \in Outcome, LoaderGet(how) PROVE Types' BY <1>5, LoaderGetTypes
<1>6. ASSUME NEW d \in Dataset, NewVersion(d) \/ DayPasses(d) PROVE Types'
  BY <1>6, NewVersionTypes, DayPassesTypes
<1>7. CASE CancelSync BY <1>7, CancelTypes
<1>8. CASE LoaderNext BY <1>8, LoaderNextTypes
<1>9. CASE Restart BY <1>9, RestartTypes
<1>10. CASE UNCHANGED vars BY <1>10, StutterTypes
<1> QED BY <1>1, <1>2, <1>3, <1>4, <1>5, <1>6, <1>7, <1>8, <1>9, <1>10 DEF Next

\* The types of MusicBrainzSync, and with them the bound of the channel between a parser
\* and its writer.
THEOREM TypeCorrect == Spec => []TypeOK
<1>1. Types /\ [Next]_vars => Types' BY StepTypes
<1> QED BY <1>1, InitTypes, TypesOfTypes, PTL DEF Spec

---------------------------------------------------------------------------
(* Indexes come back *)

\* A task is where its dataset is without its indexes.
Without(x) == x.todo # <<>> /\ x.pc \notin {"idle", "resolve", "next", "drop", "close"}

LEMMA Withouts ==
  IndexesComeBack <=> \A d \in dropped \ broken : \E t \in Task :
                        Without(task[t]) /\ Head(task[t].todo) = d
  BY DEF IndexesComeBack, Without, Active, Now

LEMMA WithoutsNext ==
  IndexesComeBack' <=> \A d \in dropped' \ broken' : \E t \in Task :
                         Without(task'[t]) /\ Head(task'[t].todo) = d
  BY DEF IndexesComeBack, Without, Active, Now

\* The others stay where they are, and so does a task that keeps its dataset.
LEMMA IndexesKept ==
  ASSUME Types, IndexesComeBack, NEW t \in Task, NEW y, Set(t, y), UNCHANGED indexes,
         Without(task[t]) => Without(y) /\ y.todo = task[t].todo
  PROVE  IndexesComeBack'
<1> SUFFICES ASSUME NEW d \in dropped' \ broken'
             PROVE  \E u \in Task : Without(task'[u]) /\ Head(task'[u].todo) = d
  BY WithoutsNext
<1>1. d \in dropped \ broken BY DEF indexes
<1>2. PICK u \in Task : Without(task[u]) /\ Head(task[u].todo) = d BY <1>1, Withouts
<1>3. task' = [task EXCEPT ![t] = y] /\ task \in [Task -> TaskRec]
  BY DEF Set, Types, TasksOK
<1>4. CASE u = t BY <1>2, <1>3, <1>4
<1>5. CASE u # t BY <1>2, <1>3, <1>5
<1> QED BY <1>4, <1>5

LEMMA SameIndexes ==
  ASSUME IndexesComeBack, task' = task, UNCHANGED indexes
  PROVE  IndexesComeBack'
  BY DEF IndexesComeBack, Active, Now, indexes

\* A task leaves the ones it is at: the others' tasks are still there.
LEMMA IndexesLeft ==
  ASSUME Types, IndexesComeBack, NEW t \in Task, NEW y, Set(t, y),
         \A d \in dropped' \ broken' :
           \/ d \in dropped \ broken /\ ~(Without(task[t]) /\ Head(task[t].todo) = d)
           \/ Without(y) /\ Head(y.todo) = d
  PROVE  IndexesComeBack'
<1> SUFFICES ASSUME NEW d \in dropped' \ broken'
             PROVE  \E u \in Task : Without(task'[u]) /\ Head(task'[u].todo) = d
  BY WithoutsNext
<1>1. task' = [task EXCEPT ![t] = y] /\ task \in [Task -> TaskRec]
  BY DEF Set, Types, TasksOK
<1>2. CASE Without(y) /\ Head(y.todo) = d BY <1>1, <1>2
<1>3. CASE d \in dropped \ broken /\ ~(Without(task[t]) /\ Head(task[t].todo) = d)
  <2>1. PICK u \in Task : Without(task[u]) /\ Head(task[u].todo) = d BY <1>3, Withouts
  <2>2. u # t BY <1>3, <2>1
  <2> QED BY <1>1, <2>1, <2>2
<1> QED BY <1>2, <1>3

LEMMA SpawnIndexes ==
  ASSUME Types, IndexesComeBack, NEW p \in BOOLEAN, NEW ds \in Request, Spawn(p, ds)
  PROVE  IndexesComeBack'
<1> DEFINE t == CHOOSE x \in Task : x \notin Active
           y == [Idle EXCEPT !.pc = "resolve", !.process = p, !.todo = ds]
<1>1. \E x \in Task : x \notin Active BY DEF Spawn, Active
<1>2. t \in Task /\ t \notin Active BY <1>1
<1>3. Set(t, y) /\ UNCHANGED indexes BY DEF Spawn
<1> HIDE DEF t, y
<1>4. ~Without(task[t]) BY <1>2 DEF Active, Without
<1> QED BY <1>2, <1>3, <1>4, IndexesKept

\* What a writer does to the indexes, and where it goes.
LEMMA WriterIndexes ==
  ASSUME Types, IndexesComeBack, NEW t \in Task, WriterStep(t)
  PROVE  IndexesComeBack'
<1>1. task[t] \in TaskRec BY BusyFacts
<1>2. ASSUME NEW y, Set(t, y), UNCHANGED indexes, task[t].pc \in {"resolve", "next", "close"}
      PROVE  IndexesComeBack'
  BY <1>2, IndexesKept DEF Without
<1>3. ASSUME NEW y, Set(t, y), UNCHANGED indexes, y.todo = task[t].todo,
             y.pc \notin {"idle", "resolve", "next", "drop", "close"}
      PROVE  IndexesComeBack'
  BY <1>3, IndexesKept DEF Without
<1>4. CASE EndRun(t) \/ Skip(t) BY <1>2, <1>4 DEF EndRun, Skip, Turn
<1>5. ASSUME NEW ok \in BOOLEAN, Resolve(t, ok) \/ Close(t, ok) PROVE IndexesComeBack'
  BY <1>2, <1>5 DEF Resolve, Close
<1>6. ASSUME NEW ok \in BOOLEAN, Begin(t, ok) PROVE IndexesComeBack'
  <2>1. \E y : Set(t, y) BY <1>6, BeginCases DEF Attempt
  <2> QED BY <2>1, <1>2, <1>6 DEF Begin, Turn
<1>7. CASE Fetch(t)
  <2>1. PICK y : Set(t, y) /\ FetchedSlot(t, y) BY <1>7, FetchCases
  <2>2. y.todo = task[t].todo /\ y.pc \in {"recreate", "extract", "download"}
    BY <1>1, <2>1 DEF FetchedSlot, Leave, TaskRec
  <2> QED BY <1>3, <1>7, <2>1, <2>2 DEF Fetch
<1>8. ASSUME NEW how \in Outcome, Download(t, how) PROVE IndexesComeBack'
  <2>1. \E y : /\ Set(t, y)
               /\ y = [task[t] EXCEPT !.pc = "extract"] \/ y = Leave(t, how)
    BY <1>8, DownloadCases
  <2>2. PICK y : /\ Set(t, y)
                 /\ y = [task[t] EXCEPT !.pc = "extract"] \/ y = Leave(t, how)
    BY <2>1
  <2>3. y.todo = task[t].todo /\ y.pc \in {"recreate", "extract"}
    BY <1>1, <2>2 DEF Leave, TaskRec
  <2> QED BY <1>3, <1>8, <2>2, <2>3 DEF Download
<1>9. CASE Extract(t)
  <2>1. \E y : /\ Set(t, y)
               /\ \/ y = Leave(t, "failed") \/ y = [task[t] EXCEPT !.pc = "write", !.tar = 0]
                  \/ y = [task[t] EXCEPT !.pc = "unpack", !.tar = cache[Now(t)]]
    BY <1>9 DEF Extract, Opened
  <2>2. PICK y : /\ Set(t, y)
                 /\ \/ y = Leave(t, "failed") \/ y = [task[t] EXCEPT !.pc = "write", !.tar = 0]
                    \/ y = [task[t] EXCEPT !.pc = "unpack", !.tar = cache[Now(t)]]
    BY <2>1
  <2>3. y.todo = task[t].todo /\ y.pc \in {"recreate", "write", "unpack"}
    BY <1>1, <2>2 DEF Leave, TaskRec
  <2> QED BY <1>3, <1>9, <2>2, <2>3 DEF Extract
<1>10. CASE Unpack(t)
  <2>1. PICK y : y = [task[t] EXCEPT !.pc = "write", !.tar = 0] OBVIOUS
  <2>2. Set(t, y) BY <1>10, <2>1 DEF Unpack, Opened
  <2>3. y.todo = task[t].todo /\ y.pc = "write" BY <1>1, <2>1 DEF TaskRec
  <2> QED BY <1>3, <1>10, <2>2, <2>3 DEF Unpack
<1>11. ASSUME NEW ok \in BOOLEAN, Receive(t, ok) PROVE IndexesComeBack'
  <2>1. \E y : /\ Set(t, y) /\ y.todo = task[t].todo /\ y.pc \in {"recreate", "write"}
    <3>1. CASE Set(t, Leave(t, "failed")) BY <1>1, <3>1, LeaveFacts DEF Outcome
    <3>2. CASE \E y \in TaskRec : Set(t, y) /\ y.pc = "write" /\ y.todo = task[t].todo BY <3>2
    <3> QED BY <1>11, <3>1, <3>2, ReceiveCases
  <2> QED BY <1>3, <1>11, <2>1 DEF Receive
<1>12. ASSUME NEW ok \in BOOLEAN, Drained(t, ok) PROVE IndexesComeBack'
  <2>1. PICK y : y = Leave(t, IF ok THEN task[t].end ELSE "failed") OBVIOUS
  <2>2. Set(t, y) BY <1>12, <2>1 DEF Drained
  <2>3. y.todo = task[t].todo /\ y.pc = "recreate" BY <1>1, <2>1 DEF Leave, TaskRec
  <2> QED BY <1>3, <1>12, <2>2, <2>3 DEF Drained
<1>13. ASSUME NEW ok \in BOOLEAN, DropIndexes(t, ok) PROVE IndexesComeBack'
  <2>1. task[t].pc = "drop" /\ task[t].todo # <<>> /\ ~Without(task[t])
    BY <1>13, BusyFacts DEF DropIndexes, Busy, Without
  <2>2. CASE ok
    <3>1. PICK y : y = [task[t] EXCEPT !.pc = "fetch"] OBVIOUS
    <3>2. y.pc = "fetch" /\ y.todo = task[t].todo BY <1>1, <3>1 DEF TaskRec
    <3>3. Set(t, y) BY <1>13, <2>2, <3>1 DEF DropIndexes
    <3>4. Without(y) /\ Head(y.todo) = Now(t) BY <2>1, <3>2 DEF Without, Now
    <3>5. dropped' = dropped \cup {Now(t)} /\ broken' = broken BY <1>13, <2>2 DEF DropIndexes
    <3> QED BY <2>1, <3>3, <3>4, <3>5, IndexesLeft
  <2>3. CASE ~ok
    <3>1. Set(t, RestOf(t)) BY <1>13, <2>3 DEF DropIndexes
    <3>2. dropped' = dropped \cup {Now(t)} /\ broken' = broken \cup {Now(t)}
      BY <1>13, <2>3 DEF DropIndexes
    <3> QED BY <2>1, <3>1, <3>2, IndexesLeft
  <2> QED BY <2>2, <2>3
<1>14. ASSUME NEW ok \in BOOLEAN, RecreateIndexes(t, ok) PROVE IndexesComeBack'
  <2>1. \E y : Set(t, y) BY <1>14 DEF RecreateIndexes
  <2>2. \A d \in dropped' \ broken' : d \in dropped \ broken /\ d # Now(t)
    <3>1. CASE ok
      <4>1. dropped' = dropped \ {Now(t)} /\ broken' = broken \ {Now(t)}
        BY <1>14, <3>1 DEF RecreateIndexes
      <4> QED BY <4>1
    <3>2. CASE ~ok
      <4>1. dropped' = dropped /\ broken' = (broken \cup {Now(t)}) \cap dropped
        BY <1>14, <3>2 DEF RecreateIndexes
      <4> QED BY <4>1
    <3> QED BY <3>1, <3>2
  <2> QED BY <2>1, <2>2, IndexesLeft DEF Now
<1> QED BY <1>4, <1>5, <1>6, <1>7, <1>8, <1>9, <1>10, <1>11, <1>12, <1>13, <1>14
        DEF WriterStep

LEMMA StepIndexes ==
  ASSUME Types, IndexesComeBack, [Next]_vars
  PROVE  IndexesComeBack'
<1>1. ASSUME NEW ds \in Request, StartSync(ds) \/ StartProcess(ds) \/ StartDownload(ds)
      PROVE  IndexesComeBack'
  BY <1>1, SpawnIndexes, SameIndexes DEF StartSync, StartProcess, StartDownload
<1>2. ASSUME NEW t \in Task, ParserStep(t) PROVE IndexesComeBack'
  BY <1>2, SameIndexes DEF ParserStep, ReadLine, EndOfFile, CheckToken, Send, Parser
<1>3. ASSUME NEW ok \in BOOLEAN, LoaderResolve(ok) PROVE IndexesComeBack'
  BY <1>3, SameIndexes DEF LoaderResolve, Load
<1>4. ASSUME NEW how \in Outcome, LoaderGet(how) PROVE IndexesComeBack'
  BY <1>4, SameIndexes DEF LoaderGet, Load
<1>5. ASSUME NEW d \in Dataset, NewVersion(d) \/ DayPasses(d) PROVE IndexesComeBack'
  BY <1>5, SameIndexes DEF NewVersion, DayPasses
<1>6. CASE CancelSync BY <1>6, SameIndexes DEF CancelSync
<1>7. CASE LoaderNext BY <1>7, SameIndexes DEF LoaderNext, Load
<1>8. CASE Restart BY <1>8 DEF Restart, IndexesComeBack
<1>9. CASE UNCHANGED vars BY <1>9, SameIndexes DEF vars, indexes
<1> QED BY <1>1, <1>2, <1>3, <1>4, <1>5, <1>6, <1>7, <1>8, <1>9, WriterIndexes DEF Next

\* drop_sync_indexes() and recreate_sync_indexes(): a dataset without its indexes has a
\* task that will make them again, or a statement on its indexes failed; for any number of
\* tasks, however they leave their dataset.
THEOREM IndexesAreMadeAgain == Spec => []IndexesComeBack
<1>1. Init => IndexesComeBack BY DEF Init, IndexesComeBack
<1>2. Types /\ IndexesComeBack /\ [Next]_vars => Types' /\ IndexesComeBack'
  BY StepTypes, StepIndexes
<1> QED BY <1>1, <1>2, InitTypes, PTL DEF Spec

---------------------------------------------------------------------------
(* A sync comes to its end *)

\* What is left of a sync: its datasets, how far it is with the first of them, and the
\* lines, the messages and the end of the file that are still between parser and writer.
\* (A line makes three messages at most.)
Stage(pc) ==
  CASE pc = "resolve" -> 11 [] pc = "next" -> 10 [] pc = "drop" -> 9 [] pc = "fetch" -> 8
    [] pc = "download" -> 7 [] pc = "extract" -> 6 [] pc = "unpack" -> 5 [] pc = "write" -> 4
    [] pc = "recreate" -> 3 [] pc = "close" -> 2 [] OTHER -> 0
Weight(n, m, l, reading) == 7 * n + 2 * m + l + (IF reading THEN 5 ELSE 0)
Work(p, c) == Weight(Len(p.file), Len(p.out), Len(c), p.at = "read")
Distance(x, p, c) == [sets |-> Len(x.todo), stage |-> Stage(x.pc), work |-> Work(p, c)]
Less(a, b) ==
  \/ a.sets < b.sets
  \/ a.sets = b.sets /\ a.stage < b.stage
  \/ a.sets = b.sets /\ a.stage = b.stage /\ a.work < b.work

Left(t) == Distance(task[t], parser[t], channel[t])
Nearer(t) == task'[t].pc = "idle" \/ Less(Left(t)', Left(t))
StepsCount ==
  /\ \A t \in Task : WriterStep(t) \/ ParserStep(t) => Nearer(t)
  /\ \A t \in Active : Nearer(t) \/ UNCHANGED <<task[t], parser[t], channel[t]>>
Countable ==
  \A t \in Task : Left(t) \in [sets : Nat, stage : Nat, work : Nat]

\* The parser is there only while its writer is, and at the end of the file it still has
\* a last message to send, which is not a look at the token.
Paired(x, p, c) ==
  /\ p.at = "off" => p.out = <<>>
  /\ p.at = "end" => p.out # <<>> /\ \A i \in DOMAIN p.out : p.out[i].kind # "check"
  /\ x.pc # "write" => p.at = "off" /\ c = <<>>
AllPaired == \A t \in Task : Paired(task[t], parser[t], channel[t])

ParserGoes(t) ==
  IF parser[t].out = <<>> THEN parser[t].at = "read"
  ELSE Head(parser[t].out).kind = "check" \/ Len(channel[t]) < Capacity
NeverBothWait ==
  \A t \in Task :
    /\ task[t].pc = "write" => channel[t] # <<>> \/ HungUp(t) \/ ParserGoes(t)
    /\ parser[t].at # "off" => task[t].pc = "write"

LEMMA StageFacts ==
  /\ Stage("resolve") = 11 /\ Stage("next") = 10 /\ Stage("drop") = 9 /\ Stage("fetch") = 8
  /\ Stage("download") = 7 /\ Stage("extract") = 6 /\ Stage("unpack") = 5
  /\ Stage("write") = 4 /\ Stage("recreate") = 3 /\ Stage("close") = 2
  /\ \A pc : Stage(pc) \in Nat
  BY DEF Stage

LEMMA WeightFacts ==
  \A n, m, l \in Nat : \A reading \in BOOLEAN : Weight(n, m, l, reading) \in Nat
<1> SUFFICES ASSUME NEW n \in Nat, NEW m \in Nat, NEW l \in Nat, NEW reading \in BOOLEAN
             PROVE  Weight(n, m, l, reading) \in Nat
  OBVIOUS
<1>1. 7 * n \in Nat /\ 2 * m \in Nat OBVIOUS
<1> QED BY <1>1 DEF Weight

\* A line is read, a message sent or taken, the end of the file reached.
LEMMA WeightLess ==
  ASSUME NEW n \in Nat, NEW m \in Nat, NEW l \in Nat, NEW reading \in BOOLEAN
  PROVE  /\ \A e \in 0 .. 3 : n > 0 => Weight(n - 1, e, l, reading) < Weight(n, 0, l, reading)
         /\ \A b \in {l, l + 1} : m > 0 => Weight(n, m - 1, b, reading) < Weight(n, m, l, reading)
         /\ l > 0 => Weight(n, m, l - 1, reading) < Weight(n, m, l, reading)
         /\ \A e \in {1, 2} : Weight(n, e, l, FALSE) < Weight(n, 0, l, TRUE)
         /\ Weight(0, 1, l, FALSE) < Weight(n, m, l, TRUE)
         /\ Weight(0, 0, l + 1, FALSE) < Weight(n, 1, l, FALSE)
<1>1. \A e \in 0 .. 3 : n > 0 => Weight(n - 1, e, l, reading) < Weight(n, 0, l, reading)
  BY DEF Weight
<1>2. \A b \in {l, l + 1} : m > 0 => Weight(n, m - 1, b, reading) < Weight(n, m, l, reading)
  BY DEF Weight
<1>6. l > 0 => Weight(n, m, l - 1, reading) < Weight(n, m, l, reading) BY DEF Weight
<1>3. \A e \in {1, 2} : Weight(n, e, l, FALSE) < Weight(n, 0, l, TRUE) BY DEF Weight
<1>4. Weight(0, 1, l, FALSE) < Weight(n, m, l, TRUE) BY DEF Weight
<1>5. Weight(0, 0, l + 1, FALSE) < Weight(n, 1, l, FALSE) BY DEF Weight
<1> QED BY <1>1, <1>2, <1>3, <1>4, <1>5, <1>6

LEMMA WorkFacts ==
  ASSUME NEW p \in ParserRec, NEW c \in Seq(Sent)
  PROVE  /\ Work(p, c) \in Nat
         /\ Len(p.file) \in Nat /\ Len(p.out) \in Nat /\ Len(c) \in Nat
<1>1. p.file \in Seq(Row) /\ p.out \in Seq(Messages) BY DEF ParserRec
<1>2. Len(p.file) \in Nat /\ Len(p.out) \in Nat /\ Len(c) \in Nat BY <1>1
<1>3. (p.at = "read") \in BOOLEAN OBVIOUS
<1>4. Work(p, c) \in Nat BY <1>2, <1>3, WeightFacts DEF Work
<1> QED BY <1>2, <1>4

\* The three ways to come nearer.
LEMMA LaterStage ==
  ASSUME NEW x, NEW y, y.todo = x.todo, Stage(y.pc) < Stage(x.pc), NEW p, NEW c, NEW k, NEW b
  PROVE  Less(Distance(y, k, b), Distance(x, p, c))
  BY DEF Less, Distance

LEMMA LessWork ==
  ASSUME NEW x, NEW y, y.todo = x.todo, y.pc = x.pc,
         NEW p, NEW c, NEW k, NEW b, Work(k, b) < Work(p, c)
  PROVE  Less(Distance(y, k, b), Distance(x, p, c))
  BY DEF Less, Distance

LEMMA FewerSets ==
  ASSUME NEW t, task[t] \in TaskRec, task[t].todo # <<>>, NEW p, NEW c, NEW k, NEW b
  PROVE  /\ RestOf(t) \in TaskRec /\ RestOf(t).pc = "next"
         /\ Less(Distance(RestOf(t), k, b), Distance(task[t], p, c))
<1>1. RestOf(t) \in TaskRec /\ RestOf(t).pc = "next" BY RestFacts
<1>2. PICK s : s = task[t].todo OBVIOUS
<1>3. s \in Seq(Dataset) /\ s # <<>> BY <1>2 DEF TaskRec
<1>4. Len(Tail(s)) < Len(s) BY <1>3
<1>5. RestOf(t).todo = Tail(s) BY <1>2 DEF RestOf, Idle
<1> QED BY <1>1, <1>2, <1>4, <1>5 DEF Less, Distance

LEMMA InitPaired == Init => AllPaired
  BY OffFacts, IdleFacts DEF Init, AllPaired, Paired

\* What a step of a task makes of it and of its pipe.
Moves(t, y, k, b) ==
  /\ Set(t, y)
  /\ parser' = [parser EXCEPT ![t] = k]
  /\ channel' = [channel EXCEPT ![t] = b]
Onward(t) ==
  \E y, k, b : /\ Moves(t, y, k, b) /\ Paired(y, k, b)
               /\ y.pc = "idle" \/ Less(Distance(y, k, b), Left(t))

LEMMA OnwardSteps ==
  ASSUME Types, AllPaired, NEW t \in Task, Onward(t)
  PROVE  /\ AllPaired' /\ Nearer(t)
         /\ \A u \in Task : u # t => UNCHANGED <<task[u], parser[u], channel[u]>>
<1>1. PICK y, k, b : /\ Moves(t, y, k, b) /\ Paired(y, k, b)
                     /\ y.pc = "idle" \/ Less(Distance(y, k, b), Left(t))
  BY DEF Onward
<1>2. /\ task' = [task EXCEPT ![t] = y] /\ parser' = [parser EXCEPT ![t] = k]
      /\ channel' = [channel EXCEPT ![t] = b]
  BY <1>1 DEF Moves, Set
<1>3. DOMAIN task = Task /\ DOMAIN parser = Task /\ DOMAIN channel = Task
  BY DEF Types, TasksOK, PipesOK
<1>4. task'[t] = y /\ parser'[t] = k /\ channel'[t] = b BY <1>2, <1>3
<1>5. \A u \in Task : u # t => UNCHANGED <<task[u], parser[u], channel[u]>> BY <1>2, <1>3
<1>6. AllPaired'
  <2>1. ASSUME NEW u \in Task PROVE Paired(task'[u], parser'[u], channel'[u])
    <3>1. CASE u = t BY <1>1, <1>4, <3>1
    <3>2. CASE u # t
      <4>1. task'[u] = task[u] /\ parser'[u] = parser[u] /\ channel'[u] = channel[u]
        BY <1>5, <3>2
      <4> QED BY <4>1 DEF AllPaired
    <3> QED BY <3>1, <3>2
  <2> QED BY <2>1 DEF AllPaired
<1>7. Left(t)' = Distance(y, k, b) BY <1>4 DEF Left
<1> QED BY <1>1, <1>4, <1>5, <1>6, <1>7 DEF Nearer

\* A step of the parser, which has a writer.
LEMMA ParserMoves ==
  ASSUME Types, AllPaired, NEW t \in Task, NEW k, NEW b,
         task' = task, parser' = [parser EXCEPT ![t] = k], channel' = [channel EXCEPT ![t] = b],
         parser[t].at # "off",
         k.at = "off" => k.out = <<>>,
         k.at = "end" => k.out # <<>> /\ \A i \in DOMAIN k.out : k.out[i].kind # "check",
         Work(k, b) < Work(parser[t], channel[t])
  PROVE  Onward(t)
<1>1. task[t].pc = "write" BY DEF AllPaired, Paired
<1>2. Paired(task[t], k, b) BY <1>1 DEF Paired
<1>3. Set(t, task[t]) BY DEF Set, Types, TasksOK
<1>4. Less(Distance(task[t], k, b), Left(t)) BY LessWork DEF Left
<1> QED BY <1>2, <1>3, <1>4 DEF Onward, Moves

LEMMA ReadLineOnward ==
  ASSUME Types, AllPaired, NEW t \in Task, ReadLine(t)
  PROVE  Onward(t)
<1>1. PICK p : p = parser[t] OBVIOUS
<1>2. p \in ParserRec /\ p.file \in Seq(Row) /\ p.file # <<>> /\ p.at = "read" /\ p.out = <<>>
  BY <1>1, PipeFacts DEF ReadLine
<1>3. PICK f : f = Tail(p.file) OBVIOUS
<1>4. Head(p.file) \in Row /\ f \in Seq(Row) /\ Len(f) = Len(p.file) - 1 BY <1>2, <1>3
<1>5. PICK k : k = IF Passed(t, Head(p.file)) THEN [p EXCEPT !.file = Tail(@)]
                   ELSE Taken(p, Head(p.file))
  OBVIOUS
<1>6. k \in ParserRec /\ k.at = "read" /\ k.file = f /\ Len(k.out) \in 0 .. 3
  <2>1. CASE Passed(t, Head(p.file))
    <3>1. k = [p EXCEPT !.file = f] BY <1>3, <1>5, <2>1
    <3>2. k \in ParserRec /\ k.at = p.at /\ k.file = f /\ k.out = p.out
      BY <1>2, <1>4, <3>1 DEF ParserRec
    <3>3. Len(k.out) = 0 BY <1>2, <3>2
    <3> QED BY <1>2, <3>2, <3>3
  <2>2. CASE ~Passed(t, Head(p.file))
    <3>1. /\ k \in ParserRec /\ k.at = p.at /\ k.file = f
          /\ \/ Rested(k, p.batch \cup {Head(p.file)})
             \/ Batched(k, p.batch \cup {Head(p.file)})
             \/ Checked(k, p.batch \cup {Head(p.file)})
      BY <1>2, <1>3, <1>4, <1>5, <2>2, TakenFacts
    <3>2. k.out = <<>> \/ (\E a : k.out = <<a>>) \/ (\E a, b, c : k.out = <<a, b, c>>)
      BY <3>1, Zenon DEF Rested, Batched, Checked
    <3>3. Len(k.out) \in 0 .. 3
      <4>1. CASE k.out = <<>> BY <4>1
      <4>2. ASSUME NEW a, k.out = <<a>> PROVE Len(k.out) = 1 BY <4>2
      <4>3. ASSUME NEW a, NEW b, NEW c, k.out = <<a, b, c>> PROVE Len(k.out) = 3 BY <4>3
      <4> QED BY <3>2, <4>1, <4>2, <4>3
    <3> QED BY <1>2, <3>1, <3>3
  <2> QED BY <2>1, <2>2
<1>7. /\ channel[t] \in Seq(Sent) /\ Len(channel[t]) \in Nat /\ Len(p.file) \in Nat
      /\ Len(p.out) = 0 /\ Len(p.file) > 0
  BY <1>2, PipeFacts
<1>8. Work(k, channel[t]) < Work(p, channel[t])
  <2>1. Work(k, channel[t]) = Weight(Len(p.file) - 1, Len(k.out), Len(channel[t]), TRUE)
    BY <1>4, <1>6 DEF Work
  <2>2. Work(p, channel[t]) = Weight(Len(p.file), 0, Len(channel[t]), TRUE)
    BY <1>2, <1>7 DEF Work
  <2> QED BY <2>1, <2>2, <1>6, <1>7, WeightLess
<1>9. parser' = [parser EXCEPT ![t] = k] /\ task' = task /\ channel' = channel
  BY <1>1, <1>5 DEF ReadLine, Parser
<1>10. channel' = [channel EXCEPT ![t] = channel[t]] BY <1>9 DEF Types, PipesOK
<1> QED BY <1>1, <1>2, <1>6, <1>8, <1>9, <1>10, ParserMoves

LEMMA EndOfFileOnward ==
  ASSUME Types, AllPaired, NEW t \in Task, EndOfFile(t)
  PROVE  Onward(t)
<1>1. PICK p : p = parser[t] OBVIOUS
<1>2. p \in ParserRec /\ p.at = "read" /\ p.out = <<>> BY <1>1, PipeFacts DEF EndOfFile
<1>3. PICK k : k = [p EXCEPT !.at = "end", !.batch = {}, !.out = Last(p)] OBVIOUS
<1>4. k \in ParserRec /\ Ended(k, p) BY <1>2, <1>3, EndedFacts
<1> PICK d : d = Message("done", {}, p.rows, 0) OBVIOUS
<1> PICK m : m = Message("batch", p.batch, 0, 0) OBVIOUS
<1>5. d.kind = "done" /\ m.kind = "batch" BY DEF Message
<1>6. k.out = <<d>> \/ k.out = <<m, d>> BY <1>4 DEF Ended
<1>7. k.out # <<>> /\ Len(k.out) \in {1, 2}
  <2>1. CASE k.out = <<d>> BY <2>1
  <2>2. CASE k.out = <<m, d>> BY <2>2
  <2> QED BY <1>6, <2>1, <2>2
<1>8. \A i \in DOMAIN k.out : k.out[i].kind # "check"
  <2>1. CASE k.out = <<d>> BY <1>5, <2>1
  <2>2. CASE k.out = <<m, d>> BY <1>5, <2>2
  <2> QED BY <1>6, <2>1, <2>2
<1>9. /\ channel[t] \in Seq(Sent) /\ Len(channel[t]) \in Nat /\ Len(p.file) \in Nat
      /\ Len(p.out) = 0 /\ k.file = p.file /\ k.at = "end"
  BY <1>2, <1>4, PipeFacts, WorkFacts DEF Ended
<1>10. Work(k, channel[t]) < Work(p, channel[t])
  <2>1. Work(k, channel[t]) = Weight(Len(p.file), Len(k.out), Len(channel[t]), FALSE)
    BY <1>9 DEF Work
  <2>2. Work(p, channel[t]) = Weight(Len(p.file), 0, Len(channel[t]), TRUE)
    BY <1>2, <1>9 DEF Work
  <2> QED BY <2>1, <2>2, <1>7, <1>9, WeightLess
<1>11. parser' = [parser EXCEPT ![t] = k] /\ task' = task /\ channel' = channel
  BY <1>1, <1>3 DEF EndOfFile, Parser
<1>12. channel' = [channel EXCEPT ![t] = channel[t]] BY <1>11 DEF Types, PipesOK
<1> QED BY <1>1, <1>2, <1>7, <1>8, <1>9, <1>10, <1>11, <1>12, ParserMoves

LEMMA CheckTokenOnward ==
  ASSUME Types, AllPaired, NEW t \in Task, CheckToken(t)
  PROVE  Onward(t)
<1>1. PICK p : p = parser[t] OBVIOUS
<1>2. /\ p \in ParserRec /\ p.out # <<>> /\ p.out \in Seq(Messages) /\ Head(p.out).kind = "check"
      /\ p.at \in {"off", "read", "end"}
  BY <1>1, PipeFacts DEF CheckToken, ParserRec
<1>3. p.at = "read"
  <2>1. 1 \in DOMAIN p.out /\ p.out[1] = Head(p.out) BY <1>2
  <2>2. Paired(task[t], p, channel[t]) BY <1>1 DEF AllPaired
  <2> QED BY <1>2, <2>1, <2>2 DEF Paired
<1>4. /\ channel[t] \in Seq(Sent) /\ Len(channel[t]) \in Nat /\ Len(p.file) \in Nat
      /\ Len(p.out) \in Nat /\ Len(p.out) >= 1
  BY <1>2, PipeFacts, WorkFacts
<1>5. task' = task /\ channel' = channel BY DEF CheckToken, Parser
<1>6. channel' = [channel EXCEPT ![t] = channel[t]] BY <1>5 DEF Types, PipesOK
<1>7. CASE t \in cancelled
  <2>1. PICK k : k = [p EXCEPT !.at = "end", !.file = <<>>,
                               !.out = <<Message("cancelled", {}, p.rows, p.last)>>]
    OBVIOUS
  <2>2. PICK m : m = Message("cancelled", {}, p.rows, p.last) OBVIOUS
  <2>3. k \in ParserRec /\ k.at = "end" /\ k.file = <<>> /\ k.out = <<m>>
    BY <1>2, <2>1, <2>2, CutFacts
  <2>4. m.kind = "cancelled" BY <2>2 DEF Message
  <2>5. k.out # <<>> /\ \A i \in DOMAIN k.out : k.out[i].kind # "check" BY <2>3, <2>4
  <2>6. Len(k.out) = 1 /\ Len(k.file) = 0 BY <2>3
  <2>7. Work(k, channel[t]) < Work(p, channel[t])
    <3>1. Work(k, channel[t]) = Weight(0, 1, Len(channel[t]), FALSE) BY <2>3, <2>6 DEF Work
    <3>2. Work(p, channel[t]) = Weight(Len(p.file), Len(p.out), Len(channel[t]), TRUE)
      BY <1>3 DEF Work
    <3> QED BY <3>1, <3>2, <1>4, WeightLess
  <2>8. parser' = [parser EXCEPT ![t] = k] BY <1>1, <1>7, <2>1 DEF CheckToken, Parser
  <2> QED BY <1>1, <1>3, <1>5, <1>6, <2>3, <2>5, <2>7, <2>8, ParserMoves
<1>8. CASE t \notin cancelled
  <2>1. PICK k : k = [p EXCEPT !.out = Tail(@)] OBVIOUS
  <2>2. k \in ParserRec /\ k.at = p.at /\ k.file = p.file /\ k.out = Tail(p.out)
    BY <1>2, <2>1, TailFacts
  <2>3. Len(k.out) = Len(p.out) - 1 BY <1>2, <2>2
  <2>4. Work(k, channel[t]) < Work(p, channel[t])
    <3>1. Work(k, channel[t]) = Weight(Len(p.file), Len(p.out) - 1, Len(channel[t]), TRUE)
      BY <1>3, <2>2, <2>3 DEF Work
    <3>2. Work(p, channel[t]) = Weight(Len(p.file), Len(p.out), Len(channel[t]), TRUE)
      BY <1>3 DEF Work
    <3>3. Len(p.out) > 0 BY <1>4
    <3> QED BY <3>1, <3>2, <3>3, <1>4, WeightLess
  <2>5. parser' = [parser EXCEPT ![t] = k] BY <1>1, <1>8, <2>1 DEF CheckToken, Parser
  <2> QED BY <1>1, <1>3, <1>5, <1>6, <2>2, <2>4, <2>5, ParserMoves
<1> QED BY <1>7, <1>8

LEMMA SendOnward ==
  ASSUME Types, AllPaired, NEW t \in Task, Send(t)
  PROVE  Onward(t)
<1>1. PICK p : p = parser[t] OBVIOUS
<1>2. /\ p \in ParserRec /\ p.out # <<>> /\ p.out \in Seq(Messages)
      /\ p.at \in {"off", "read", "end"}
  BY <1>1, PipeFacts DEF Send, ParserRec
<1>3. Paired(task[t], p, channel[t]) BY <1>1 DEF AllPaired
<1>4. p.at # "off" BY <1>2, <1>3 DEF Paired
<1>5. PICK c : c = Append(channel[t], Head(p.out)) OBVIOUS
<1>6. Head(p.out) \in Sent BY <1>1, <1>2 DEF Send, Sent
<1>7. c \in Seq(Sent) /\ Len(c) = Len(channel[t]) + 1 BY <1>5, <1>6, PipeFacts
<1>8. channel' = [channel EXCEPT ![t] = c] /\ task' = task BY <1>1, <1>5 DEF Send, Parser
<1>9. /\ Len(channel[t]) \in Nat /\ Len(p.file) \in Nat /\ Len(p.out) \in Nat /\ Len(p.out) >= 1
  BY <1>2, PipeFacts, WorkFacts
<1>10. CASE p.at = "end" /\ Len(p.out) = 1
  <2>1. parser' = [parser EXCEPT ![t] = Off] BY <1>1, <1>10 DEF Send, Parser
  <2>2. Off.at = "off" /\ Off.out = <<>> /\ Off.file = <<>> BY DEF Off
  <2>3. Len(Off.out) = 0 /\ Len(Off.file) = 0 BY <2>2
  <2>4. Work(Off, c) < Work(p, channel[t])
    <3>1. Work(Off, c) = Weight(0, 0, Len(channel[t]) + 1, FALSE) BY <1>7, <2>2, <2>3 DEF Work
    <3>2. Work(p, channel[t]) = Weight(Len(p.file), 1, Len(channel[t]), FALSE) BY <1>10 DEF Work
    <3> QED BY <3>1, <3>2, <1>9, WeightLess
  <2> QED BY <1>1, <1>4, <1>8, <2>1, <2>2, <2>4, ParserMoves
<1>11. CASE ~(p.at = "end" /\ Len(p.out) = 1)
  <2>1. PICK k : k = [p EXCEPT !.out = Tail(@)] OBVIOUS
  <2>2. k \in ParserRec /\ k.at = p.at /\ k.file = p.file /\ k.out = Tail(p.out)
    BY <1>2, <2>1, TailFacts
  <2>3. parser' = [parser EXCEPT ![t] = k] BY <1>1, <1>11, <2>1 DEF Send, Parser
  <2>4. Len(k.out) = Len(p.out) - 1 BY <1>2, <2>2
  <2>5. Work(k, c) < Work(p, channel[t])
    <3>1. PICK reading \in BOOLEAN : reading = (p.at = "read") OBVIOUS
    <3>2. Work(k, c) = Weight(Len(p.file), Len(p.out) - 1, Len(channel[t]) + 1, reading)
      BY <1>7, <2>2, <2>4, <3>1 DEF Work
    <3>3. Work(p, channel[t]) = Weight(Len(p.file), Len(p.out), Len(channel[t]), reading)
      BY <3>1 DEF Work
    <3>4. Len(p.out) > 0 BY <1>9
    <3> QED BY <3>2, <3>3, <3>4, <1>9, WeightLess
  <2>6. ASSUME k.at = "end"
        PROVE  k.out # <<>> /\ \A i \in DOMAIN k.out : k.out[i].kind # "check"
    <3>1. Len(p.out) # 1 BY <1>11, <2>2, <2>6
    <3>2. k.out # <<>>
      <4>1. Len(k.out) # 0 BY <1>9, <2>4, <3>1
      <4>2. Len(<<>>) = 0 OBVIOUS
      <4> QED BY <4>1, <4>2
    <3>3. ASSUME NEW i \in DOMAIN k.out PROVE k.out[i].kind # "check"
      <4>1. i + 1 \in DOMAIN p.out /\ k.out[i] = p.out[i + 1] BY <1>2, <2>2
      <4> QED BY <4>1, <1>3, <2>2, <2>6 DEF Paired
    <3> QED BY <3>2, <3>3
  <2> QED BY <1>1, <1>4, <1>8, <2>2, <2>3, <2>5, <2>6, ParserMoves
<1> QED BY <1>10, <1>11

\* A step of the writer before or after the pipe.
LEMMA WriterMoves ==
  ASSUME Types, AllPaired, NEW t \in Task, NEW y, Set(t, y), UNCHANGED pipe,
         parser[t].at = "off", channel[t] = <<>>,
         y.pc = "idle" \/ Less(Distance(y, parser[t], channel[t]), Left(t))
  PROVE  Onward(t)
<1>1. Paired(y, parser[t], channel[t]) BY DEF AllPaired, Paired
<1>2. parser' = [parser EXCEPT ![t] = parser[t]] /\ channel' = [channel EXCEPT ![t] = channel[t]]
  BY DEF pipe, Types, PipesOK
<1> QED BY <1>1, <1>2 DEF Onward, Moves

\* The parser is opened.
LEMMA OpenedOnward ==
  ASSUME Types, AllPaired, NEW t \in Task, task[t].pc \in {"extract", "unpack"}, NEW v,
         v \in DOMAIN Files[Now(t)], Opened(t, v), channel' = channel
  PROVE  Onward(t)
<1>1. task[t] \in TaskRec /\ Now(t) \in Dataset BY BusyFacts DEF Busy
<1>2. PICK y : y = [task[t] EXCEPT !.pc = "write", !.tar = 0] OBVIOUS
<1>3. y.pc = "write" /\ y.todo = task[t].todo BY <1>1, <1>2 DEF TaskRec
<1>4. PICK k : k = Opening(t, v) OBVIOUS
<1>5. Files[Now(t)][v] \in Seq(Row) BY <1>1, FileFacts
<1>6. k.at = "read" BY <1>1, <1>4, <1>5, OpeningFacts
<1>7. Set(t, y) /\ parser' = [parser EXCEPT ![t] = k] BY <1>2, <1>4 DEF Opened, Opening
<1>8. channel' = [channel EXCEPT ![t] = channel[t]] BY DEF Types, PipesOK
<1>9. Paired(y, k, channel[t]) BY <1>3, <1>6 DEF Paired
<1>10. Stage(y.pc) < Stage(task[t].pc) BY <1>3, StageFacts
<1>11. Less(Distance(y, k, channel[t]), Left(t)) BY <1>3, <1>10, LaterStage DEF Left
<1> QED BY <1>7, <1>8, <1>9, <1>11 DEF Onward, Moves

LEMMA ReceiveOnward ==
  ASSUME Types, AllPaired, NEW t \in Task, NEW ok \in BOOLEAN, Receive(t, ok)
  PROVE  Onward(t)
<1>1. task[t] \in TaskRec /\ task[t].pc = "write" /\ channel[t] # <<>> BY BusyFacts DEF Receive
<1>2. CASE /\ channel' = [channel EXCEPT ![t] = <<>>]
           /\ parser' = [parser EXCEPT ![t] = Off]
           /\ Set(t, Leave(t, "failed"))
  <2>1. PICK y : y = Leave(t, "failed") OBVIOUS
  <2>2. y.pc = "recreate" /\ y.todo = task[t].todo BY <1>1, <2>1, LeaveFacts DEF Outcome
  <2>3. Paired(y, Off, <<>>) BY OffFacts DEF Paired
  <2>4. Stage(y.pc) < Stage(task[t].pc) BY <1>1, <2>2, StageFacts
  <2>5. Less(Distance(y, Off, <<>>), Left(t)) BY <2>2, <2>4, LaterStage DEF Left
  <2> QED BY <1>2, <2>1, <2>3, <2>5 DEF Onward, Moves
<1>3. ASSUME NEW y \in TaskRec, channel' = [channel EXCEPT ![t] = Tail(@)], parser' = parser,
             Set(t, y), y.pc = "write", y.todo = task[t].todo
      PROVE  Onward(t)
  <2>1. PICK p : p = parser[t] OBVIOUS
  <2>2. PICK b : b = Tail(channel[t]) OBVIOUS
  <2>3. /\ p \in ParserRec /\ Len(p.file) \in Nat /\ Len(p.out) \in Nat
        /\ Len(channel[t]) \in Nat /\ Len(channel[t]) > 0 /\ Len(b) = Len(channel[t]) - 1
    BY <1>1, <2>1, <2>2, PipeFacts, WorkFacts
  <2>4. Work(p, b) < Work(p, channel[t])
    <3>1. PICK reading \in BOOLEAN : reading = (p.at = "read") OBVIOUS
    <3>2. Work(p, b) = Weight(Len(p.file), Len(p.out), Len(channel[t]) - 1, reading)
      BY <2>3, <3>1 DEF Work
    <3>3. Work(p, channel[t]) = Weight(Len(p.file), Len(p.out), Len(channel[t]), reading)
      BY <3>1 DEF Work
    <3> QED BY <3>2, <3>3, <2>3, WeightLess
  <2>5. Paired(y, p, b)
    <3>1. Paired(task[t], p, channel[t]) BY <2>1 DEF AllPaired
    <3> QED BY <1>3, <3>1 DEF Paired
  <2>6. Less(Distance(y, p, b), Left(t)) BY <1>1, <1>3, <2>1, <2>4, LessWork DEF Left
  <2>7. parser' = [parser EXCEPT ![t] = p] /\ channel' = [channel EXCEPT ![t] = b]
    BY <1>3, <2>1, <2>2 DEF Types, PipesOK
  <2> QED BY <1>3, <2>5, <2>6, <2>7 DEF Onward, Moves
<1> QED BY <1>2, <1>3, ReceiveCases

LEMMA ExtractOnward ==
  ASSUME Types, AllPaired, NEW t \in Task, Extract(t)
  PROVE  Onward(t)
<1>1. task[t] \in TaskRec /\ Now(t) \in Dataset /\ task[t].pc = "extract"
  BY BusyFacts DEF Extract, Busy
<1>2. parser[t].at = "off" /\ channel[t] = <<>> BY <1>1 DEF AllPaired, Paired
<1>3. CASE extracted[Now(t)] > 0 /\ Now(t) \notin outdated
  <2>1. extracted[Now(t)] \in DOMAIN Files[Now(t)]
    BY <1>1, <1>3, VersionFacts DEF Types, FilesOK
  <2>2. Opened(t, extracted[Now(t)]) BY <1>3 DEF Extract
  <2> QED BY <1>1, <2>1, <2>2, OpenedOnward DEF Extract
<1>4. CASE ~(extracted[Now(t)] > 0 /\ Now(t) \notin outdated)
  <2>1. PICK y : y = IF cache[Now(t)] = 0 THEN Leave(t, "failed")
                     ELSE [task[t] EXCEPT !.pc = "unpack", !.tar = cache[Now(t)]]
    OBVIOUS
  <2>2. Set(t, y) /\ UNCHANGED pipe BY <1>4, <2>1 DEF Extract, pipe
  <2>3. y.pc \in {"recreate", "unpack"} /\ y.todo = task[t].todo
    BY <1>1, <2>1 DEF Leave, TaskRec
  <2>4. Stage(y.pc) < Stage(task[t].pc) BY <1>1, <2>3, StageFacts
  <2>5. Less(Distance(y, parser[t], channel[t]), Left(t)) BY <2>3, <2>4, LaterStage DEF Left
  <2> QED BY <1>2, <2>2, <2>5, WriterMoves
<1> QED BY <1>3, <1>4

LEMMA UnpackOnward ==
  ASSUME Types, AllPaired, NEW t \in Task, Unpack(t)
  PROVE  Onward(t)
<1>1. task[t] \in TaskRec /\ Now(t) \in Dataset /\ task[t].pc = "unpack"
  BY BusyFacts DEF Unpack, Busy
<1>2. 0 < task[t].tar /\ task[t].tar <= cache[Now(t)] /\ task[t].tar \in Nat
  BY <1>1, BusyFacts DEF TaskGood, Now, TaskRec
<1>3. task[t].tar \in DOMAIN Files[Now(t)] BY <1>1, <1>2, VersionFacts
<1> QED BY <1>1, <1>3, OpenedOnward DEF Unpack

\* The other steps of a writer are to a later stage, to the next dataset or to the end.
LEMMA WriterOnward ==
  ASSUME Types, AllPaired, NEW t \in Task, WriterStep(t)
  PROVE  Onward(t)
<1>1. task[t] \in TaskRec BY BusyFacts
<1>2. ASSUME NEW y, Set(t, y), UNCHANGED pipe, task[t].pc # "write", y.todo = task[t].todo,
             Stage(y.pc) < Stage(task[t].pc)
      PROVE  Onward(t)
  <2>1. parser[t].at = "off" /\ channel[t] = <<>> BY <1>2 DEF AllPaired, Paired
  <2>2. Less(Distance(y, parser[t], channel[t]), Left(t)) BY <1>2, LaterStage DEF Left
  <2> QED BY <1>2, <2>1, <2>2, WriterMoves
<1>3. ASSUME Set(t, RestOf(t)), UNCHANGED pipe, task[t].pc # "write", task[t].todo # <<>>
      PROVE  Onward(t)
  <2>1. parser[t].at = "off" /\ channel[t] = <<>> BY <1>3 DEF AllPaired, Paired
  <2>2. Less(Distance(RestOf(t), parser[t], channel[t]), Left(t))
    BY <1>1, <1>3, FewerSets DEF Left
  <2> QED BY <1>3, <2>1, <2>2, WriterMoves
<1>4. ASSUME Set(t, Idle), UNCHANGED pipe, task[t].pc # "write" PROVE Onward(t)
  <2>1. parser[t].at = "off" /\ channel[t] = <<>> BY <1>4 DEF AllPaired, Paired
  <2> QED BY <1>4, <2>1, IdleFacts, WriterMoves
<1>5. CASE EndRun(t) BY <1>4, <1>5 DEF EndRun
<1>6. CASE Skip(t) BY <1>3, <1>6 DEF Skip, Turn
<1>7. ASSUME NEW ok \in BOOLEAN, Resolve(t, ok) PROVE Onward(t)
  <2>1. CASE ok
    <3>1. PICK y : y = [task[t] EXCEPT !.pc = "next"] OBVIOUS
    <3>2. y.pc = "next" /\ y.todo = task[t].todo BY <1>1, <3>1, StepFacts
    <3>3. Set(t, y) /\ UNCHANGED pipe /\ task[t].pc = "resolve"
      BY <1>7, <2>1, <3>1 DEF Resolve
    <3>4. Stage(y.pc) < Stage(task[t].pc) BY <3>2, <3>3, StageFacts
    <3> QED BY <1>2, <3>2, <3>3, <3>4
  <2>2. CASE ~ok BY <1>4, <1>7, <2>2 DEF Resolve
  <2> QED BY <2>1, <2>2
<1>8. ASSUME NEW ok \in BOOLEAN, Begin(t, ok) PROVE Onward(t)
  <2>1. task[t].pc = "next" /\ task[t].todo # <<>> /\ UNCHANGED pipe BY <1>8 DEF Begin, Turn
  <2>2. CASE Set(t, RestOf(t)) BY <1>3, <2>1, <2>2
  <2>3. ASSUME NEW i \in Nat, NEW recs \in Seq(Record), Attempt(t, i, recs), i \in DOMAIN recs
        PROVE  Onward(t)
    <3>1. recs[i] \in Record BY <2>3
    <3>2. recs[i].mark \in Nat /\ recs[i].rows \in Nat BY <3>1 DEF Record
    <3> PICK m, n \in Nat : m = recs[i].mark /\ n = recs[i].rows BY <3>2
    <3>3. PICK y : y = [task[t] EXCEPT !.pc = "drop", !.id = i, !.from = m, !.rows = n, !.last = m]
      OBVIOUS
    <3>4. y.pc = "drop" /\ y.todo = task[t].todo BY <1>1, <3>3 DEF TaskRec
    <3>5. Set(t, y) BY <2>3, <3>3 DEF Attempt
    <3>6. Stage(y.pc) < Stage(task[t].pc) BY <2>1, <3>4, StageFacts
    <3> QED BY <1>2, <2>1, <3>4, <3>5, <3>6
  <2> QED BY <1>8, <2>2, <2>3, BeginCases
<1>9. ASSUME NEW ok \in BOOLEAN, DropIndexes(t, ok) PROVE Onward(t)
  <2>1. task[t].pc = "drop" /\ UNCHANGED pipe /\ task[t].todo # <<>>
    BY <1>9, BusyFacts DEF DropIndexes, Busy
  <2>2. CASE ok
    <3>1. PICK y : y = [task[t] EXCEPT !.pc = "fetch"] OBVIOUS
    <3>2. y.pc = "fetch" /\ y.todo = task[t].todo BY <1>1, <3>1, StepFacts
    <3>3. Set(t, y) BY <1>9, <2>2, <3>1 DEF DropIndexes
    <3>4. Stage(y.pc) < Stage(task[t].pc) BY <2>1, <3>2, StageFacts
    <3> QED BY <1>2, <2>1, <3>2, <3>3, <3>4
  <2>3. CASE ~ok BY <1>3, <1>9, <2>1, <2>3 DEF DropIndexes
  <2> QED BY <2>2, <2>3
<1>10. CASE Fetch(t)
  <2>1. PICK y : Set(t, y) /\ FetchedSlot(t, y) BY <1>10, FetchCases
  <2>2. y.todo = task[t].todo /\ y.pc \in {"recreate", "extract", "download"}
    BY <1>1, <2>1 DEF FetchedSlot, Leave, TaskRec
  <2>3. task[t].pc = "fetch" /\ UNCHANGED pipe BY <1>10 DEF Fetch
  <2>4. Stage(y.pc) < Stage(task[t].pc) BY <2>2, <2>3, StageFacts
  <2> QED BY <1>2, <2>1, <2>2, <2>3, <2>4
<1>11. ASSUME NEW how \in Outcome, Download(t, how) PROVE Onward(t)
  <2>1. \E y : /\ Set(t, y)
               /\ y = [task[t] EXCEPT !.pc = "extract"] \/ y = Leave(t, how)
    BY <1>11, DownloadCases
  <2>2. PICK y : /\ Set(t, y)
                 /\ y = [task[t] EXCEPT !.pc = "extract"] \/ y = Leave(t, how)
    BY <2>1
  <2>3. y.todo = task[t].todo /\ y.pc \in {"recreate", "extract"}
    BY <1>1, <2>2 DEF Leave, TaskRec
  <2>4. task[t].pc = "download" /\ UNCHANGED pipe BY <1>11 DEF Download
  <2>5. Stage(y.pc) < Stage(task[t].pc) BY <2>3, <2>4, StageFacts
  <2> QED BY <1>2, <2>2, <2>3, <2>4, <2>5
<1>12. ASSUME NEW ok \in BOOLEAN, Drained(t, ok) PROVE Onward(t)
  <2>1. PICK y : y = Leave(t, IF ok THEN task[t].end ELSE "failed") OBVIOUS
  <2>2. Set(t, y) /\ UNCHANGED pipe /\ task[t].pc = "write" /\ HungUp(t)
    BY <1>12, <2>1 DEF Drained
  <2>3. y.todo = task[t].todo /\ y.pc = "recreate" BY <1>1, <2>1 DEF Leave, TaskRec
  <2>4. Stage(y.pc) < Stage(task[t].pc) BY <2>2, <2>3, StageFacts
  <2>5. Less(Distance(y, parser[t], channel[t]), Left(t)) BY <2>3, <2>4, LaterStage DEF Left
  <2> QED BY <2>2, <2>5, WriterMoves DEF HungUp
<1>13. ASSUME NEW ok \in BOOLEAN, RecreateIndexes(t, ok) PROVE Onward(t)
  <2>1. task[t].pc = "recreate" /\ UNCHANGED pipe /\ task[t].todo # <<>>
    BY <1>13, BusyFacts DEF RecreateIndexes, Busy
  <2>2. CASE ok
    <3>1. PICK y : y = [task[t] EXCEPT !.pc = "close"] OBVIOUS
    <3>2. y.pc = "close" /\ y.todo = task[t].todo BY <1>1, <3>1, StepFacts
    <3>3. Set(t, y) BY <1>13, <2>2, <3>1 DEF RecreateIndexes
    <3>4. Stage(y.pc) < Stage(task[t].pc) BY <2>1, <3>2, StageFacts
    <3> QED BY <1>2, <2>1, <3>2, <3>3, <3>4
  <2>3. CASE ~ok BY <1>3, <1>13, <2>1, <2>3 DEF RecreateIndexes
  <2> QED BY <2>2, <2>3
<1>14. ASSUME NEW ok \in BOOLEAN, Close(t, ok) PROVE Onward(t)
  <2>1. task[t].pc = "close" /\ UNCHANGED pipe /\ task[t].todo # <<>> /\ Set(t, RestOf(t))
    BY <1>14, BusyFacts DEF Close, Busy
  <2> QED BY <1>3, <2>1
<1> QED BY <1>5, <1>6, <1>7, <1>8, <1>9, <1>10, <1>11, <1>12, <1>13, <1>14,
           ReceiveOnward, ExtractOnward, UnpackOnward DEF WriterStep

\* What no task does leaves every task as it is, starts one or ends them all.
LEMMA SamePairs ==
  ASSUME AllPaired, UNCHANGED <<task, parser, channel>>
  PROVE  AllPaired' /\ \A t \in Task : UNCHANGED <<task[t], parser[t], channel[t]>>
  BY DEF AllPaired

LEMMA SpawnPairs ==
  ASSUME Types, AllPaired, NEW process, NEW ds, Spawn(process, ds)
  PROVE  /\ AllPaired'
         /\ \A t \in Active : UNCHANGED <<task[t], parser[t], channel[t]>>
<1> DEFINE s == CHOOSE x \in Task : x \notin Active
           y == [Idle EXCEPT !.pc = "resolve", !.process = process, !.todo = ds]
<1>1. \E x \in Task : x \notin Active BY DEF Spawn, Active
<1>2. s \in Task /\ s \notin Active BY <1>1
<1>3. Set(s, y) /\ UNCHANGED pipe BY DEF Spawn
<1> HIDE DEF s, y
<1>4. /\ task' = [task EXCEPT ![s] = y] /\ parser' = parser /\ channel' = channel
      /\ DOMAIN task = Task
  BY <1>3 DEF Set, pipe, Types, TasksOK
<1>5. \A t \in Task : t # s => task'[t] = task[t] BY <1>4
<1>6. task[s].pc = "idle" BY <1>2 DEF Active
<1>7. parser[s].at = "off" /\ channel[s] = <<>> BY <1>2, <1>6 DEF AllPaired, Paired
<1>8. Paired(task'[s], parser'[s], channel'[s])
  <2>1. Paired(task[s], parser[s], channel[s]) BY <1>2 DEF AllPaired
  <2> QED BY <1>4, <1>7, <2>1 DEF Paired
<1>9. AllPaired'
  <2>1. ASSUME NEW t \in Task PROVE Paired(task'[t], parser'[t], channel'[t])
    <3>1. CASE t = s BY <1>8, <3>1
    <3>2. CASE t # s BY <1>4, <1>5, <3>2 DEF AllPaired
    <3> QED BY <3>1, <3>2
  <2> QED BY <2>1 DEF AllPaired
<1>10. ASSUME NEW t \in Active PROVE UNCHANGED <<task[t], parser[t], channel[t]>>
  BY <1>2, <1>4, <1>5 DEF Active
<1> QED BY <1>9, <1>10

LEMMA RestartPairs ==
  ASSUME Types, Restart
  PROVE  AllPaired' /\ \A t \in Task : Nearer(t)
<1>1. \A t \in Task : task'[t] = Idle /\ parser'[t] = Off /\ channel'[t] = <<>> BY DEF Restart
<1>2. AllPaired' BY <1>1, OffFacts DEF AllPaired, Paired
<1> QED BY <1>1, <1>2, IdleFacts DEF Nearer

\* A task's own steps count, whichever part of Next they are; the others' leave it alone.
LEMMA OwnSteps ==
  ASSUME Types, AllPaired, NEW t \in Task, WriterStep(t) \/ ParserStep(t)
  PROVE  Onward(t)
  BY WriterOnward, ReadLineOnward, EndOfFileOnward, CheckTokenOnward, SendOnward DEF ParserStep

LEMMA StepCounts ==
  ASSUME Types, AllPaired, [Next]_vars
  PROVE  AllPaired' /\ StepsCount
<1>1. \A t \in Task : WriterStep(t) \/ ParserStep(t) => Nearer(t) BY OwnSteps, OnwardSteps
<1> DEFINE Untouched(t) == UNCHANGED <<task[t], parser[t], channel[t]>>
<1> SUFFICES AllPaired' /\ \A t \in Active : Nearer(t) \/ Untouched(t) BY <1>1 DEF StepsCount
<1>2. Active \subseteq Task BY DEF Active
<1>3. ASSUME NEW t \in Task, WriterStep(t) \/ ParserStep(t)
      PROVE  AllPaired' /\ \A u \in Active : Nearer(u) \/ Untouched(u)
  BY <1>2, <1>3, OwnSteps, OnwardSteps
<1>4. ASSUME UNCHANGED <<task, parser, channel>>
      PROVE  AllPaired' /\ \A u \in Active : Nearer(u) \/ Untouched(u)
  BY <1>2, <1>4, SamePairs
<1>5. ASSUME NEW ds \in Request, StartSync(ds) \/ StartProcess(ds)
      PROVE  AllPaired' /\ \A u \in Active : Nearer(u) \/ Untouched(u)
  BY <1>5, SpawnPairs DEF StartSync, StartProcess
<1>6. ASSUME NEW ds \in Request, StartDownload(ds) PROVE UNCHANGED <<task, parser, channel>>
  BY <1>6 DEF StartDownload, pipe
<1>7. CancelSync => UNCHANGED <<task, parser, channel>> BY DEF CancelSync, pipe
<1>8. ASSUME NEW ok \in BOOLEAN, LoaderResolve(ok) PROVE UNCHANGED <<task, parser, channel>>
  BY <1>8 DEF LoaderResolve, Load, pipe
<1>9. LoaderNext => UNCHANGED <<task, parser, channel>> BY DEF LoaderNext, Load, pipe
<1>10. ASSUME NEW how \in Outcome, LoaderGet(how) PROVE UNCHANGED <<task, parser, channel>>
  BY <1>10 DEF LoaderGet, Load, pipe
<1>11. ASSUME NEW d \in Dataset, NewVersion(d) \/ DayPasses(d)
       PROVE  UNCHANGED <<task, parser, channel>>
  BY <1>11 DEF NewVersion, DayPasses, pipe
<1>12. CASE Restart BY <1>2, <1>12, RestartPairs
<1>13. UNCHANGED vars => UNCHANGED <<task, parser, channel>> BY DEF vars
<1> HIDE DEF Untouched
<1> QED BY <1>3, <1>4, <1>5, <1>6, <1>7, <1>8, <1>9, <1>10, <1>11, <1>12, <1>13 DEF Next

LEMMA PairsGo == Types /\ AllPaired => NeverBothWait
<1> SUFFICES ASSUME Types, AllPaired, NEW t \in Task, channel[t] = <<>>, parser[t].at # "off"
             PROVE  ParserGoes(t)
  BY DEF NeverBothWait, HungUp, AllPaired, Paired
<1>1. parser[t].at \in {"read", "end"} BY PipeFacts DEF ParserRec
<1>2. Len(channel[t]) < Capacity BY DumpAssumption
<1> QED BY <1>1, <1>2 DEF AllPaired, Paired, ParserGoes

LEMMA TypesCount == Types => Countable
<1> SUFFICES ASSUME Types, NEW t \in Task PROVE Left(t) \in [sets : Nat, stage : Nat, work : Nat]
  BY DEF Countable
<1>1. task[t].todo \in Seq(Dataset) BY BusyFacts DEF TaskRec
<1>2. Len(task[t].todo) \in Nat BY <1>1
<1>3. Work(parser[t], channel[t]) \in Nat BY PipeFacts, WorkFacts
<1> QED BY <1>2, <1>3, StageFacts DEF Left, Distance

\* blocking_send() and recv(): a writer that waits for a message has a parser that can go
\* on, and a parser that waits for room has a writer with a message to take; a writer whose
\* parser ended finds the channel closed.  So the two never wait for each other, however
\* small the channel, and whichever of them failed or was cancelled.
THEOREM SidesNeverBothWait == Spec => []NeverBothWait
<1>1. Types /\ AllPaired /\ [Next]_vars => Types' /\ AllPaired' BY StepTypes, StepCounts
<1> QED BY <1>1, InitTypes, InitPaired, PairsGo, PTL DEF Spec

\* Every step of a sync or of its parser ends the sync or brings it nearer to its end by a
\* count that cannot fall for ever, and no step of another sync, of a user or of the world
\* takes it back: no sync goes round in circles, for any dumps, faults and number of tasks.
THEOREM SyncsComeToAnEnd == Spec => []Countable /\ [][StepsCount]_vars
<1>1. Types /\ AllPaired /\ [Next]_vars => Types' /\ AllPaired' /\ [StepsCount]_vars
  BY StepTypes, StepCounts
<1> QED BY <1>1, InitTypes, InitPaired, TypesCount, PTL DEF Spec

---------------------------------------------------------------------------
(* What is between a file and the table: the pipe of an attempt *)

Sorted(f) == \A i, j \in DOMAIN f : i < j => Key[f[i]] < Key[f[j]]

\* The rows of a sequence of messages.
All(ms) == UNION {ms[i].rows : i \in DOMAIN ms}
Cover(T, c, p) == T \cup All(c) \cup All(p.out) \cup p.batch
Marks == {"progress", "cancelled"}
Cut(c, p, end) == \/ end # "completed"
                  \/ \E i \in DOMAIN c : c[i].kind = "cancelled"
                  \/ \E i \in DOMAIN p.out : p.out[i].kind = "cancelled"

\* The parser: nothing is left when it is off or at its end, and a check comes last.
ShapeOK(p) ==
  /\ p.at = "off" => p = Off
  /\ p.at = "end" => p.file = <<>> /\ p.batch = {}
  /\ Sorted(p.file)
  /\ \A i \in DOMAIN p.out : p.out[i].kind = "check" =>
       i = Len(p.out) /\ p.out[i].rows = {} /\ p.batch = {}
\* No row of the scope is lost, unless the attempt is cut and says so.
FlowOK(S, T, c, p, end) ==
  \/ S \subseteq Cover(T, c, p) \cup RowsOf(p.file)
  \/ p.at # "read" /\ Cut(c, p, end)
\* The rows up to where the parser is have been taken.
LastOK(S, T, c, p) == \A r \in S : Key[r] <= p.last => r \in Cover(T, c, p)
\* The rows up to a checkpoint are ahead of it.
ChannelOK(S, T, c) ==
  \A i \in DOMAIN c : c[i].kind \in Marks =>
    \A r \in S : Key[r] <= c[i].id =>
      r \in T \/ \E j \in DOMAIN c : j < i /\ r \in c[j].rows
OutOK(S, T, c, p) ==
  \A i \in DOMAIN p.out : p.out[i].kind \in Marks =>
    \A r \in S : Key[r] <= p.out[i].id =>
      r \in T \cup All(c) \/ \E j \in DOMAIN p.out : j < i /\ r \in p.out[j].rows
PipeOK(S, T, c, p, end) ==
  ShapeOK(p) /\ FlowOK(S, T, c, p, end) /\ LastOK(S, T, c, p) /\ ChannelOK(S, T, c)
    /\ OutOK(S, T, c, p)

\* What is left of a sorted file after its first row lies behind that row.
LEMMA RestRows ==
  ASSUME NEW f \in Seq(Row), f # <<>>
  PROVE  /\ RowsOf(f) = {Head(f)} \cup RowsOf(Tail(f))
         /\ Sorted(f) => /\ Sorted(Tail(f))
                         /\ \A r \in RowsOf(Tail(f)) : Key[r] > Key[Head(f)]
<1>1. /\ Tail(f) \in Seq(Row) /\ Head(f) = f[1] /\ Len(f) \in Nat \ {0}
      /\ Len(Tail(f)) = Len(f) - 1 /\ f \in [1 .. Len(f) -> Row]
      /\ DOMAIN Tail(f) = 1 .. (Len(f) - 1)
      /\ \A i \in 1 .. (Len(f) - 1) : Tail(f)[i] = f[i + 1]
  OBVIOUS
<1>2. RowsOf(f) = {Head(f)} \cup RowsOf(Tail(f))
  <2>1. ASSUME NEW i \in 1 .. Len(f) PROVE f[i] \in {Head(f)} \cup RowsOf(Tail(f))
    <3>1. CASE i = 1 BY <3>1, <1>1
    <3>2. CASE i # 1
      <4>1. i - 1 \in DOMAIN Tail(f) /\ Tail(f)[i - 1] = f[i] BY <1>1, <3>2
      <4> QED BY <4>1 DEF RowsOf
    <3> QED BY <3>1, <3>2
  <2>2. Head(f) \in RowsOf(f) BY <1>1 DEF RowsOf
  <2>3. ASSUME NEW i \in DOMAIN Tail(f) PROVE Tail(f)[i] \in RowsOf(f)
    <3>1. i + 1 \in DOMAIN f /\ Tail(f)[i] = f[i + 1] BY <1>1
    <3> QED BY <3>1 DEF RowsOf
  <2> QED BY <1>1, <2>1, <2>2, <2>3 DEF RowsOf
<1>3. ASSUME Sorted(f)
      PROVE  Sorted(Tail(f)) /\ \A r \in RowsOf(Tail(f)) : Key[r] > Key[Head(f)]
  <2>1. ASSUME NEW i \in DOMAIN Tail(f), NEW j \in DOMAIN Tail(f), i < j
        PROVE  Key[Tail(f)[i]] < Key[Tail(f)[j]]
    BY <1>1, <1>3, <2>1, i + 1 \in DOMAIN f, j + 1 \in DOMAIN f DEF Sorted
  <2>2. ASSUME NEW i \in DOMAIN Tail(f) PROVE Key[Tail(f)[i]] > Key[Head(f)]
    <3>1. 1 \in DOMAIN f /\ i + 1 \in DOMAIN f /\ 1 < i + 1 BY <1>1
    <3>2. Key[f[1]] < Key[f[i + 1]] BY <3>1, <1>3 DEF Sorted
    <3>3. f[1] \in Row /\ f[i + 1] \in Row BY <3>1, <1>1
    <3>4. Key[f[1]] \in Nat /\ Key[f[i + 1]] \in Nat BY <3>3, DumpAssumption
    <3> QED BY <3>2, <3>4, <1>1
  <2> QED BY <2>1, <2>2 DEF Sorted, RowsOf
<1> QED BY <1>2, <1>3

LEMMA AllFacts ==
  /\ All(<<>>) = {}
  /\ \A a \in Messages : All(<<a>>) = a.rows
  /\ \A a \in Messages, b \in Messages : All(<<a, b>>) = a.rows \cup b.rows
  /\ \A a \in Messages, b \in Messages, c \in Messages :
       All(<<a, b, c>>) = a.rows \cup b.rows \cup c.rows
<1>1. All(<<>>) = {} BY DEF All
<1>2. ASSUME NEW a \in Messages PROVE All(<<a>>) = a.rows
  <2> PICK s : s = <<a>> OBVIOUS
  <2>1. DOMAIN s = {1} /\ s[1] = a OBVIOUS
  <2>2. {s[i].rows : i \in DOMAIN s} = {a.rows} BY <2>1
  <2> QED BY <2>2 DEF All
<1>3. ASSUME NEW a \in Messages, NEW b \in Messages PROVE All(<<a, b>>) = a.rows \cup b.rows
  <2> PICK s : s = <<a, b>> OBVIOUS
  <2>1. DOMAIN s = {1, 2} /\ s[1] = a /\ s[2] = b OBVIOUS
  <2>2. {s[i].rows : i \in DOMAIN s} = {a.rows, b.rows} BY <2>1
  <2> QED BY <2>2 DEF All
<1>4. ASSUME NEW a \in Messages, NEW b \in Messages, NEW c \in Messages
      PROVE  All(<<a, b, c>>) = a.rows \cup b.rows \cup c.rows
  <2> PICK s : s = <<a, b, c>> OBVIOUS
  <2>1. DOMAIN s = {1, 2, 3} /\ s[1] = a /\ s[2] = b /\ s[3] = c OBVIOUS
  <2>2. {s[i].rows : i \in DOMAIN s} = {a.rows, b.rows, c.rows} BY <2>1
  <2> QED BY <2>2 DEF All
<1> QED BY <1>1, <1>2, <1>3, <1>4

LEMMA AppendAll ==
  ASSUME NEW c \in Seq(Messages), NEW m \in Messages
  PROVE  /\ All(Append(c, m)) = All(c) \cup m.rows
         /\ DOMAIN Append(c, m) = 1 .. (Len(c) + 1) /\ DOMAIN c = 1 .. Len(c) /\ Len(c) \in Nat
         /\ Append(c, m)[Len(c) + 1] = m /\ \A i \in DOMAIN c : Append(c, m)[i] = c[i]
<1>1. PICK a : a = Append(c, m) OBVIOUS
<1>2. /\ DOMAIN a = 1 .. (Len(c) + 1) /\ DOMAIN c = 1 .. Len(c) /\ Len(c) \in Nat
      /\ a[Len(c) + 1] = m /\ \A i \in DOMAIN c : a[i] = c[i]
  BY <1>1
<1>3. \A i \in DOMAIN a : i \in DOMAIN c \/ i = Len(c) + 1 BY <1>2
<1>4. Len(c) + 1 \in DOMAIN a /\ DOMAIN c \subseteq DOMAIN a BY <1>2
<1>5. All(a) = All(c) \cup m.rows BY <1>2, <1>3, <1>4, Zenon DEF All
<1> QED BY <1>1, <1>2, <1>5

LEMMA TailAll ==
  ASSUME NEW c \in Seq(Messages), c # <<>>
  PROVE  /\ All(c) = Head(c).rows \cup All(Tail(c))
         /\ DOMAIN c = 1 .. Len(c) /\ Len(c) \in Nat \ {0} /\ c[1] = Head(c)
         /\ DOMAIN Tail(c) = 1 .. (Len(c) - 1)
         /\ \A i \in 1 .. (Len(c) - 1) : Tail(c)[i] = c[i + 1]
<1>1. PICK a : a = Tail(c) OBVIOUS
<1>2. /\ DOMAIN c = 1 .. Len(c) /\ Len(c) \in Nat \ {0} /\ c[1] = Head(c)
      /\ DOMAIN a = 1 .. (Len(c) - 1)
      /\ \A i \in 1 .. (Len(c) - 1) : a[i] = c[i + 1]
  BY <1>1
<1>3. \A i \in DOMAIN c : i = 1 \/ (i - 1 \in DOMAIN a /\ a[i - 1] = c[i]) BY <1>2
<1>4. 1 \in DOMAIN c /\ \A i \in DOMAIN a : i + 1 \in DOMAIN c /\ a[i] = c[i + 1] BY <1>2
<1>5. All(c) \subseteq Head(c).rows \cup All(a)
  <2> SUFFICES ASSUME NEW i \in DOMAIN c, NEW r \in c[i].rows
               PROVE  r \in Head(c).rows \cup All(a)
    BY DEF All
  <2>1. CASE i = 1 BY <1>2, <2>1
  <2>2. CASE i - 1 \in DOMAIN a /\ a[i - 1] = c[i] BY <2>2 DEF All
  <2> QED BY <1>3, <2>1, <2>2
<1>6. Head(c).rows \cup All(a) \subseteq All(c)
  <2>1. Head(c).rows \subseteq All(c) BY <1>2, <1>4 DEF All
  <2>2. ASSUME NEW i \in DOMAIN a, NEW r \in a[i].rows PROVE r \in All(c)
    BY <1>4 DEF All
  <2> QED BY <2>1, <2>2 DEF All
<1> QED BY <1>1, <1>2, <1>5, <1>6

---------------------------------------------------------------------------
(* What the steps of the parser and the writer do to the pipe *)

LEMMA TailEmpty ==
  ASSUME NEW s \in Seq(Messages), Len(s) = 1
  PROVE  Tail(s) = <<>>
<1>1. PICK t : t = Tail(s) OBVIOUS
<1>2. t \in Seq(Messages) /\ Len(t) = 0 BY <1>1
<1>3. t = <<>> BY <1>2, EmptySeq
<1> QED BY <1>1, <1>3

LEMMA SameCover ==
  ASSUME NEW S, NEW T, NEW c, NEW p, NEW k, k.out = p.out, k.batch = p.batch
  PROVE  Cover(T, c, k) = Cover(T, c, p)
  BY DEF Cover

\* A file is opened: all rows are in it, and none up to where it starts is wanted.
LEMMA OpenPipe ==
  ASSUME NEW S, NEW T, NEW p \in ParserRec, NEW end,
         p.at = "read", p.batch = {}, p.out = <<>>, Sorted(p.file),
         S \subseteq RowsOf(p.file), \A r \in S : Key[r] <= p.last => r \in T
  PROVE  PipeOK(S, T, <<>>, p, end)
<1>1. ShapeOK(p) BY DEF ShapeOK
<1>2. FlowOK(S, T, <<>>, p, end) BY DEF FlowOK
<1>3. LastOK(S, T, <<>>, p) BY DEF LastOK, Cover
<1>4. ChannelOK(S, T, <<>>) /\ OutOK(S, T, <<>>, p) BY DEF ChannelOK, OutOK
<1> QED BY <1>1, <1>2, <1>3, <1>4 DEF PipeOK

\* A line is passed over: it is of no row that is still to be stored.
LEMMA PassPipe ==
  ASSUME NEW S, NEW T, NEW c, NEW p \in ParserRec, NEW k \in ParserRec, NEW end,
         PipeOK(S, T, c, p, end), p.at = "read", p.out = <<>>, p.file # <<>>,
         k.at = p.at, k.file = Tail(p.file), k.out = p.out, k.batch = p.batch, k.last = p.last,
         Head(p.file) \in S => Head(p.file) \in T
  PROVE  PipeOK(S, T, c, k, end)
<1>1. p.file \in Seq(Row) BY DEF ParserRec
<1>2. Cover(T, c, k) = Cover(T, c, p) BY SameCover
<1>3. ShapeOK(k) BY <1>1, RestRows DEF PipeOK, ShapeOK
<1>4. FlowOK(S, T, c, k, end)
  <2>1. S \subseteq Cover(T, c, p) \cup RowsOf(p.file) BY DEF PipeOK, FlowOK
  <2>2. S \subseteq Cover(T, c, p) \cup RowsOf(k.file)
    <3>1. RowsOf(p.file) = {Head(p.file)} \cup RowsOf(k.file) BY <1>1, RestRows
    <3>2. T \subseteq Cover(T, c, p) BY DEF Cover
    <3> QED BY <2>1, <3>1, <3>2
  <2> QED BY <1>2, <2>2 DEF FlowOK
<1>5. LastOK(S, T, c, k) BY <1>2 DEF PipeOK, LastOK
<1>6. ChannelOK(S, T, c) BY DEF PipeOK
<1>7. OutOK(S, T, c, k) BY DEF OutOK
<1> QED BY <1>3, <1>4, <1>5, <1>6, <1>7 DEF PipeOK

\* A line is taken: its row is in the batch or sent with it, and what is left of the file
\* lies behind it.
LEMMA TakePipe ==
  ASSUME NEW S \in SUBSET Row, NEW T, NEW c, NEW p \in ParserRec, NEW k \in ParserRec, NEW end,
         PipeOK(S, T, c, p, end), p.at = "read", p.out = <<>>, p.file # <<>>,
         k.at = p.at, k.file = Tail(p.file), k.last = Key[Head(p.file)],
         \/ Rested(k, p.batch \cup {Head(p.file)})
         \/ Batched(k, p.batch \cup {Head(p.file)})
         \/ Checked(k, p.batch \cup {Head(p.file)})
  PROVE  PipeOK(S, T, c, k, end)
<1>1. p.file \in Seq(Row) BY DEF ParserRec
<1>2. Head(p.file) \in Row /\ p.batch \subseteq Row BY <1>1 DEF ParserRec
<1>3. PICK B : B = p.batch \cup {Head(p.file)} OBVIOUS
<1>4. PICK b : b = Message("batch", B, 0, 0) OBVIOUS
<1>5. PICK m : m = Message("progress", {}, k.rows, k.last) OBVIOUS
<1>6. PICK x : x = Message("check", {}, k.rows, k.last) OBVIOUS
<1>7. B \in SUBSET Row /\ k.rows \in Nat /\ k.last \in Nat BY <1>2, <1>3 DEF ParserRec
<1>8. /\ b \in Messages /\ b.kind = "batch" /\ b.rows = B
      /\ m \in Messages /\ m.kind = "progress" /\ m.rows = {} /\ m.id = k.last
      /\ x \in Messages /\ x.kind = "check" /\ x.rows = {}
  BY <1>4, <1>5, <1>6, <1>7 DEF Message, Messages
<1>9. \/ k.out = <<>> /\ k.batch = B
      \/ k.out = <<b>> /\ k.batch = {}
      \/ k.out = <<b, m, x>> /\ k.batch = {}
  BY <1>3, <1>4, <1>5, <1>6 DEF Rested, Batched, Checked
<1>10. Cover(T, c, k) = T \cup All(c) \cup B
  <2>1. All(k.out) \cup k.batch = B
    <3>1. CASE k.out = <<>> /\ k.batch = B BY <3>1, AllFacts
    <3>2. CASE k.out = <<b>> /\ k.batch = {}
      <4>1. All(<<b>>) = b.rows BY <1>8, AllFacts
      <4> QED BY <1>8, <3>2, <4>1
    <3>3. CASE k.out = <<b, m, x>> /\ k.batch = {}
      <4>1. All(<<b, m, x>>) = b.rows \cup m.rows \cup x.rows BY <1>8, AllFacts
      <4> QED BY <1>8, <3>3, <4>1
    <3> QED BY <1>9, <3>1, <3>2, <3>3
  <2> QED BY <2>1 DEF Cover
<1>11. Cover(T, c, p) \subseteq Cover(T, c, k)
  BY <1>3, <1>10, AllFacts DEF Cover
<1>12. S \subseteq Cover(T, c, k) \cup RowsOf(k.file)
  <2>1. S \subseteq Cover(T, c, p) \cup RowsOf(p.file) BY DEF PipeOK, FlowOK
  <2>2. RowsOf(p.file) = {Head(p.file)} \cup RowsOf(k.file) BY <1>1, RestRows
  <2>3. Head(p.file) \in Cover(T, c, k) BY <1>3, <1>10
  <2> QED BY <1>11, <2>1, <2>2, <2>3
<1>13. ShapeOK(k)
  <2>1. Sorted(k.file) BY <1>1, RestRows DEF PipeOK, ShapeOK
  <2>2. ASSUME NEW i \in DOMAIN k.out, k.out[i].kind = "check"
        PROVE  i = Len(k.out) /\ k.out[i].rows = {} /\ k.batch = {}
    <3>1. CASE k.out = <<>> BY <3>1
    <3>2. CASE k.out = <<b>> BY <1>8, <2>2, <3>2
    <3>3. CASE k.out = <<b, m, x>> /\ k.batch = {} BY <1>8, <2>2, <3>3
    <3> QED BY <1>9, <3>1, <3>2, <3>3
  <2> QED BY <2>1, <2>2 DEF ShapeOK
<1>14. LastOK(S, T, c, k)
  <2> SUFFICES ASSUME NEW r \in S, Key[r] <= k.last PROVE r \in Cover(T, c, k) BY DEF LastOK
  <2>1. r \notin RowsOf(k.file)
    <3>1. \A s \in RowsOf(k.file) : Key[s] > k.last
      BY <1>1, RestRows DEF PipeOK, ShapeOK
    <3>2. Key[r] \in Nat BY DumpAssumption
    <3> QED BY <3>1, <3>2, <1>7
  <2> QED BY <1>12, <2>1
<1>15. OutOK(S, T, c, k)
  <2> SUFFICES ASSUME NEW i \in DOMAIN k.out, k.out[i].kind \in Marks, NEW r \in S,
                      Key[r] <= k.out[i].id
               PROVE  \/ r \in T \cup All(c)
                      \/ \E j \in DOMAIN k.out : j < i /\ r \in k.out[j].rows
    BY DEF OutOK
  <2>1. k.out = <<b, m, x>> /\ i = 2
    <3>1. CASE k.out = <<>> BY <3>1
    <3>2. CASE k.out = <<b>> BY <1>8, <3>2 DEF Marks
    <3>3. CASE k.out = <<b, m, x>> BY <1>8, <3>3 DEF Marks
    <3> QED BY <1>9, <3>1, <3>2, <3>3
  <2>2. k.out[2] = m /\ k.out[1] = b /\ 1 \in DOMAIN k.out BY <2>1
  <2>3. r \in T \cup All(c) \cup B BY <1>8, <1>10, <1>14, <2>1, <2>2 DEF LastOK
  <2> QED BY <1>8, <2>1, <2>2, <2>3
<1>16. FlowOK(S, T, c, k, end) BY <1>12 DEF FlowOK
<1>17. ChannelOK(S, T, c) BY DEF PipeOK
<1> QED BY <1>13, <1>14, <1>15, <1>16, <1>17 DEF PipeOK

\* The end of the file: the batch is sent.
LEMMA EndPipe ==
  ASSUME NEW S, NEW T, NEW c, NEW p \in ParserRec, NEW k \in ParserRec, NEW end,
         PipeOK(S, T, c, p, end), p.at = "read", p.out = <<>>, p.file = <<>>, Ended(k, p)
  PROVE  PipeOK(S, T, c, k, end)
<1>1. PICK b : b = Message("batch", p.batch, 0, 0) OBVIOUS
<1>2. PICK d : d = Message("done", {}, p.rows, 0) OBVIOUS
<1>3. /\ b \in Messages /\ b.kind = "batch" /\ b.rows = p.batch
      /\ d \in Messages /\ d.kind = "done" /\ d.rows = {}
  BY <1>1, <1>2 DEF Message, Messages, ParserRec
<1>4. /\ k.at = "end" /\ k.file = <<>> /\ k.batch = {} /\ k.last = p.last
      /\ (k.out = <<d>> /\ p.batch = {}) \/ k.out = <<b, d>>
  BY <1>1, <1>2 DEF Ended
<1>5. Cover(T, c, k) = Cover(T, c, p) BY <1>3, <1>4, AllFacts DEF Cover
<1>6. \A i \in DOMAIN k.out : k.out[i].kind \in {"batch", "done"}
  <2>1. CASE k.out = <<d>> BY <1>3, <2>1
  <2>2. CASE k.out = <<b, d>> BY <1>3, <2>2
  <2> QED BY <1>4, <2>1, <2>2
<1>7. ShapeOK(k) BY <1>4, <1>6 DEF PipeOK, ShapeOK
<1>8. FlowOK(S, T, c, k, end) BY <1>4, <1>5 DEF PipeOK, FlowOK
<1>9. LastOK(S, T, c, k) BY <1>4, <1>5 DEF PipeOK, LastOK
<1>10. ChannelOK(S, T, c) BY DEF PipeOK
<1>11. OutOK(S, T, c, k) BY <1>6 DEF OutOK, Marks
<1> QED BY <1>7, <1>8, <1>9, <1>10, <1>11 DEF PipeOK

\* The token is looked at: the attempt is cut, or the check is done with.
LEMMA CheckPipe ==
  ASSUME NEW S, NEW T, NEW c, NEW p \in ParserRec, NEW k \in ParserRec, NEW end,
         PipeOK(S, T, c, p, end), p.out # <<>>, Head(p.out).kind = "check",
         \/ /\ k.at = "end" /\ k.file = <<>> /\ k.batch = p.batch /\ k.last = p.last
            /\ k.out = <<Message("cancelled", {}, p.rows, p.last)>>
         \/ /\ k.at = p.at /\ k.file = p.file /\ k.batch = p.batch /\ k.last = p.last
            /\ k.out = Tail(p.out)
  PROVE  PipeOK(S, T, c, k, end)
<1>1. p.out \in Seq(Messages) BY DEF ParserRec
<1>2. /\ Len(p.out) \in Nat \ {0} /\ 1 \in DOMAIN p.out /\ p.out[1] = Head(p.out)
      /\ All(p.out) = Head(p.out).rows \cup All(Tail(p.out))
  BY <1>1, TailAll
<1>3. Len(p.out) = 1 /\ Head(p.out).rows = {} /\ p.batch = {}
  BY <1>2 DEF PipeOK, ShapeOK
<1>4. Tail(p.out) = <<>> BY <1>1, <1>3, TailEmpty
<1>5. All(p.out) = {} BY <1>2, <1>3, <1>4, AllFacts
<1>6. Cover(T, c, p) = T \cup All(c) BY <1>3, <1>5 DEF Cover
<1>7. ChannelOK(S, T, c) BY DEF PipeOK
<1>8. CASE /\ k.at = "end" /\ k.file = <<>> /\ k.batch = p.batch /\ k.last = p.last
           /\ k.out = <<Message("cancelled", {}, p.rows, p.last)>>
  <2>1. PICK m : m = Message("cancelled", {}, p.rows, p.last) OBVIOUS
  <2>2. /\ m \in Messages /\ m.kind = "cancelled" /\ m.rows = {} /\ m.id = p.last
    BY <2>1 DEF Message, Messages, ParserRec
  <2>3. k.out = <<m>> BY <1>8, <2>1
  <2>4. Len(k.out) = 1 /\ DOMAIN k.out = {1} /\ k.out[1] = m BY <2>3
  <2>5. All(k.out) = {} BY <2>2, <2>3, AllFacts
  <2>6. Cover(T, c, k) = T \cup All(c) BY <1>3, <1>8, <2>5 DEF Cover
  <2>7. ShapeOK(k) BY <1>3, <1>8, <2>2, <2>4 DEF ShapeOK, Sorted
  <2>8. FlowOK(S, T, c, k, end) BY <1>8, <2>2, <2>4 DEF FlowOK, Cut
  <2>9. LastOK(S, T, c, k) BY <1>6, <1>8, <2>6 DEF PipeOK, LastOK
  <2>10. OutOK(S, T, c, k) BY <1>6, <2>2, <2>4 DEF PipeOK, LastOK, OutOK
  <2> QED BY <1>7, <2>7, <2>8, <2>9, <2>10 DEF PipeOK
<1>9. CASE /\ k.at = p.at /\ k.file = p.file /\ k.batch = p.batch /\ k.last = p.last
           /\ k.out = Tail(p.out)
  <2>1. k.out = <<>> /\ DOMAIN k.out = {} BY <1>4, <1>9
  <2>2. Cover(T, c, k) = Cover(T, c, p) BY <1>6, <1>9, <1>3, <2>1, AllFacts DEF Cover
  <2>3. ShapeOK(k)
    <3>1. p.at # "off" BY <1>2 DEF PipeOK, ShapeOK, Off
    <3> QED BY <1>9, <2>1, <3>1 DEF PipeOK, ShapeOK
  <2>4. FlowOK(S, T, c, k, end)
    <3>1. CASE S \subseteq Cover(T, c, p) \cup RowsOf(p.file)
      BY <1>9, <2>2, <3>1 DEF FlowOK
    <3>2. CASE p.at # "read" /\ Cut(c, p, end)
      <4>1. \A i \in DOMAIN p.out : p.out[i].kind # "cancelled"
        <5>1. \A i \in DOMAIN p.out : i = 1 BY <1>1, <1>3
        <5> QED BY <5>1, <1>2
      <4>2. Cut(c, k, end) BY <3>2, <4>1 DEF Cut
      <4> QED BY <1>9, <3>2, <4>2 DEF FlowOK
    <3> QED BY <3>1, <3>2 DEF PipeOK, FlowOK
  <2>5. LastOK(S, T, c, k) BY <1>9, <2>2 DEF PipeOK, LastOK
  <2>6. OutOK(S, T, c, k) BY <2>1 DEF OutOK
  <2> QED BY <1>7, <2>3, <2>4, <2>5, <2>6 DEF PipeOK
<1> QED BY <1>8, <1>9

\* The first message moves into the channel, where it is ahead of the others.
LEMMA SendPipe ==
  ASSUME NEW S \in SUBSET Row, NEW T, NEW c \in Seq(Messages), NEW d, NEW p \in ParserRec, NEW k \in ParserRec,
         NEW end, PipeOK(S, T, c, p, end), p.out # <<>>, d = Append(c, Head(p.out)),
         Head(p.out).kind # "check",
         \/ p.at = "end" /\ Len(p.out) = 1 /\ k = Off
         \/ /\ k.at = p.at /\ k.file = p.file /\ k.batch = p.batch /\ k.last = p.last
            /\ k.out = Tail(p.out)
  PROVE  PipeOK(S, T, d, k, end)
<1>1. p.out \in Seq(Messages) BY DEF ParserRec
<1> DEFINE m == Head(p.out)
<1>2. m \in Messages BY <1>1
<1>3. /\ All(p.out) = m.rows \cup All(Tail(p.out)) /\ Len(p.out) \in Nat \ {0}
      /\ DOMAIN p.out = 1 .. Len(p.out) /\ p.out[1] = m
      /\ DOMAIN Tail(p.out) = 1 .. (Len(p.out) - 1)
      /\ \A i \in 1 .. (Len(p.out) - 1) : Tail(p.out)[i] = p.out[i + 1]
  BY <1>1, TailAll
<1>4. /\ All(d) = All(c) \cup m.rows
      /\ DOMAIN d = 1 .. (Len(c) + 1) /\ DOMAIN c = 1 .. Len(c) /\ Len(c) \in Nat
      /\ d[Len(c) + 1] = m /\ \A i \in DOMAIN c : d[i] = c[i]
  BY <1>2, AppendAll
<1> HIDE DEF m
<1>5. /\ k.out = Tail(p.out) /\ k.file = p.file /\ k.batch = p.batch
      /\ \/ k.at = p.at /\ k.last = p.last
         \/ k = Off /\ k.at = "off" /\ p.at = "end" /\ k.last = 0 /\ k.file = <<>> /\ k.out = <<>>
  <2>1. CASE p.at = "end" /\ Len(p.out) = 1 /\ k = Off
    <3>1. Tail(p.out) = <<>> BY <1>1, <2>1, TailEmpty
    <3>2. p.file = <<>> /\ p.batch = {} BY <2>1 DEF PipeOK, ShapeOK
    <3> QED BY <2>1, <3>1, <3>2 DEF Off
  <2>2. CASE /\ k.at = p.at /\ k.file = p.file /\ k.batch = p.batch /\ k.last = p.last
             /\ k.out = Tail(p.out)
    BY <2>2
  <2> QED BY <2>1, <2>2
<1>6. Cover(T, d, k) = Cover(T, c, p) BY <1>3, <1>4, <1>5 DEF Cover
<1>7. ShapeOK(k)
  <2>1. CASE k = Off /\ k.at = "off" /\ k.file = <<>> /\ k.out = <<>>
    BY <2>1 DEF ShapeOK, Sorted
  <2>2. CASE k.at = p.at
    <3>1. p.at # "off" BY DEF PipeOK, ShapeOK, Off
    <3>2. k.at = "end" => k.file = <<>> /\ k.batch = {} BY <1>5, <2>2 DEF PipeOK, ShapeOK
    <3>3. Sorted(k.file) BY <1>5 DEF PipeOK, ShapeOK
    <3>4. ASSUME NEW i \in DOMAIN k.out, k.out[i].kind = "check"
          PROVE  i = Len(k.out) /\ k.out[i].rows = {} /\ k.batch = {}
      <4>1. i \in 1 .. (Len(p.out) - 1) /\ k.out[i] = p.out[i + 1] /\ i + 1 \in DOMAIN p.out
        BY <1>3, <1>5
      <4>2. i + 1 = Len(p.out) /\ p.out[i + 1].rows = {} /\ p.batch = {}
        BY <3>4, <4>1 DEF PipeOK, ShapeOK
      <4>3. Len(k.out) = Len(p.out) - 1 BY <1>1, <1>3, <1>5
      <4>4. i = Len(k.out) BY <1>3, <4>1, <4>2, <4>3
      <4> QED BY <1>5, <4>1, <4>2, <4>4
    <3> QED BY <2>2, <3>1, <3>2, <3>3, <3>4 DEF ShapeOK
  <2> QED BY <1>5, <2>1, <2>2
<1>8. FlowOK(S, T, d, k, end)
  <2>1. CASE S \subseteq Cover(T, c, p) \cup RowsOf(p.file)
    BY <1>5, <1>6, <2>1 DEF FlowOK
  <2>2. CASE p.at # "read" /\ Cut(c, p, end)
    <3>1. k.at # "read" BY <1>5, <2>2
    <3>2. Cut(d, k, end)
      <4>1. CASE end # "completed" BY <4>1 DEF Cut
      <4>2. ASSUME NEW i \in DOMAIN c, c[i].kind = "cancelled" PROVE Cut(d, k, end)
        <5>1. i \in DOMAIN d /\ d[i] = c[i] BY <1>4
        <5> QED BY <4>2, <5>1 DEF Cut
      <4>3. ASSUME NEW i \in DOMAIN p.out, p.out[i].kind = "cancelled" PROVE Cut(d, k, end)
        <5>1. CASE i = 1
          <6>1. Len(c) + 1 \in DOMAIN d /\ d[Len(c) + 1].kind = "cancelled"
            BY <1>3, <1>4, <4>3, <5>1
          <6> QED BY <6>1 DEF Cut
        <5>2. CASE i # 1
          <6>1. i - 1 \in 1 .. (Len(p.out) - 1) /\ (i - 1) + 1 = i BY <1>3, <5>2
          <6>2. i - 1 \in DOMAIN k.out /\ k.out[i - 1] = p.out[i] BY <1>3, <1>5, <6>1
          <6> QED BY <4>3, <6>2 DEF Cut
        <5> QED BY <5>1, <5>2
      <4> QED BY <2>2, <4>1, <4>2, <4>3 DEF Cut
    <3> QED BY <3>1, <3>2 DEF FlowOK
  <2> QED BY <2>1, <2>2 DEF PipeOK, FlowOK
<1>9. LastOK(S, T, d, k)
  <2> SUFFICES ASSUME NEW r \in S, Key[r] <= k.last PROVE r \in Cover(T, d, k) BY DEF LastOK
  <2>1. Key[r] \in Nat /\ Key[r] > 0 BY DumpAssumption
  <2>2. k.last = p.last BY <1>5, <2>1
  <2> QED BY <1>6, <2>2 DEF PipeOK, LastOK
<1>10. ChannelOK(S, T, d)
  <2> SUFFICES ASSUME NEW i \in DOMAIN d, d[i].kind \in Marks, NEW r \in S, Key[r] <= d[i].id
               PROVE  r \in T \/ \E j \in DOMAIN d : j < i /\ r \in d[j].rows
    BY DEF ChannelOK
  <2>1. CASE i \in DOMAIN c
    <3>1. d[i] = c[i] BY <1>4, <2>1
    <3>2. r \in T \/ \E j \in DOMAIN c : j < i /\ r \in c[j].rows
      BY <2>1, <3>1 DEF PipeOK, ChannelOK
    <3>3. \A j \in DOMAIN c : j \in DOMAIN d /\ d[j] = c[j] BY <1>4
    <3> QED BY <3>2, <3>3
  <2>2. CASE i = Len(c) + 1
    <3>1. d[i] = m /\ 1 \in DOMAIN p.out /\ p.out[1] = m BY <1>3, <1>4, <2>2
    <3>2. \/ r \in T \cup All(c)
          \/ \E j \in DOMAIN p.out : j < 1 /\ r \in p.out[j].rows
      BY <3>1 DEF PipeOK, OutOK
    <3>3. r \in T \cup All(c) BY <1>3, <3>2
    <3>4. r \in T \/ \E j \in DOMAIN c : r \in c[j].rows BY <3>3 DEF All
    <3>5. \A j \in DOMAIN c : j \in DOMAIN d /\ d[j] = c[j] /\ j < i BY <1>4, <2>2
    <3> QED BY <3>4, <3>5
  <2> QED BY <1>4, <2>1, <2>2
<1>11. OutOK(S, T, d, k)
  <2> SUFFICES ASSUME NEW i \in DOMAIN k.out, k.out[i].kind \in Marks, NEW r \in S,
                      Key[r] <= k.out[i].id
               PROVE  \/ r \in T \cup All(d)
                      \/ \E j \in DOMAIN k.out : j < i /\ r \in k.out[j].rows
    BY DEF OutOK
  <2>1. i \in 1 .. (Len(p.out) - 1) /\ k.out[i] = p.out[i + 1] /\ i + 1 \in DOMAIN p.out
    BY <1>3, <1>5
  <2>2. \/ r \in T \cup All(c)
        \/ \E j \in DOMAIN p.out : j < i + 1 /\ r \in p.out[j].rows
    BY <2>1 DEF PipeOK, OutOK
  <2>3. CASE r \in T \cup All(c) BY <1>4, <2>3
  <2>4. ASSUME NEW j \in DOMAIN p.out, j < i + 1, r \in p.out[j].rows
        PROVE  r \in All(d) \/ \E l \in DOMAIN k.out : l < i /\ r \in k.out[l].rows
    <3>1. CASE j = 1 BY <1>3, <1>4, <2>4, <3>1
    <3>2. CASE j # 1
      <4>1. j - 1 \in 1 .. (Len(p.out) - 1) /\ (j - 1) + 1 = j /\ j - 1 < i
        BY <1>3, <2>1, <2>4, <3>2
      <4>2. j - 1 \in DOMAIN k.out /\ k.out[j - 1] = p.out[j] BY <1>3, <1>5, <4>1
      <4> QED BY <2>4, <4>1, <4>2
    <3> QED BY <3>1, <3>2
  <2> QED BY <2>2, <2>3, <2>4
<1> QED BY <1>7, <1>8, <1>9, <1>10, <1>11 DEF PipeOK

\* The writer takes the first message; what a checkpoint covers is stored.
LEMMA ReceivePipe ==
  ASSUME NEW S, NEW T, NEW c \in Seq(Messages), NEW d, NEW p, NEW end, NEW end2,
         NEW m, PipeOK(S, T, c, p, end), c # <<>>, d = Tail(c), m = Head(c),
         end2 = IF m.kind = "cancelled" THEN "cancelled" ELSE end
  PROVE  /\ PipeOK(S, T \cup m.rows, d, p, end2)
         /\ m.kind \in Marks => \A r \in S : Key[r] <= m.id => r \in T
<1>1. /\ All(c) = m.rows \cup All(d) /\ Len(c) \in Nat \ {0}
      /\ DOMAIN c = 1 .. Len(c) /\ c[1] = m /\ DOMAIN d = 1 .. (Len(c) - 1)
      /\ \A i \in 1 .. (Len(c) - 1) : d[i] = c[i + 1]
  BY TailAll
<1> DEFINE U == T \cup m.rows
<1>2. Cover(U, d, p) = Cover(T, c, p) BY <1>1 DEF Cover
<1>3. m.kind \in Marks => \A r \in S : Key[r] <= m.id => r \in T
  <2> SUFFICES ASSUME m.kind \in Marks, NEW r \in S, Key[r] <= m.id PROVE r \in T OBVIOUS
  <2>1. 1 \in DOMAIN c /\ c[1] = m BY <1>1
  <2>2. r \in T \/ \E j \in DOMAIN c : j < 1 /\ r \in c[j].rows
    BY <2>1 DEF PipeOK, ChannelOK
  <2> QED BY <1>1, <2>2
<1>4. ShapeOK(p) BY DEF PipeOK
<1>5. FlowOK(S, U, d, p, end2)
  <2>1. CASE S \subseteq Cover(T, c, p) \cup RowsOf(p.file)
    BY <1>2, <2>1 DEF FlowOK
  <2>2. CASE p.at # "read" /\ Cut(c, p, end)
    <3>1. CASE end # "completed" BY <2>2, <3>1 DEF FlowOK, Cut
    <3>2. ASSUME NEW i \in DOMAIN c, c[i].kind = "cancelled" PROVE Cut(d, p, end2)
      <4>1. CASE i = 1 BY <1>1, <3>2, <4>1 DEF Cut
      <4>2. CASE i # 1
        <5>1. i - 1 \in 1 .. (Len(c) - 1) /\ (i - 1) + 1 = i BY <1>1, <4>2
        <5>2. i - 1 \in DOMAIN d /\ d[i - 1] = c[i] BY <1>1, <5>1
        <5> QED BY <3>2, <5>2 DEF Cut
      <4> QED BY <4>1, <4>2
    <3>3. ASSUME NEW i \in DOMAIN p.out, p.out[i].kind = "cancelled" PROVE Cut(d, p, end2)
      BY <3>3 DEF Cut
    <3> QED BY <2>2, <3>1, <3>2, <3>3 DEF FlowOK, Cut
  <2> QED BY <2>1, <2>2 DEF PipeOK, FlowOK
<1>6. LastOK(S, U, d, p) BY <1>2 DEF PipeOK, LastOK
<1>7. ChannelOK(S, U, d)
  <2> SUFFICES ASSUME NEW i \in DOMAIN d, d[i].kind \in Marks, NEW r \in S, Key[r] <= d[i].id
               PROVE  r \in U \/ \E j \in DOMAIN d : j < i /\ r \in d[j].rows
    BY DEF ChannelOK
  <2>1. i \in 1 .. (Len(c) - 1) /\ d[i] = c[i + 1] /\ i + 1 \in DOMAIN c BY <1>1
  <2>2. r \in T \/ \E j \in DOMAIN c : j < i + 1 /\ r \in c[j].rows
    BY <2>1 DEF PipeOK, ChannelOK
  <2>3. ASSUME NEW j \in DOMAIN c, j < i + 1, r \in c[j].rows
        PROVE  r \in U \/ \E l \in DOMAIN d : l < i /\ r \in d[l].rows
    <3>1. CASE j = 1 BY <1>1, <2>3, <3>1
    <3>2. CASE j # 1
      <4>1. j - 1 \in 1 .. (Len(c) - 1) /\ (j - 1) + 1 = j /\ j - 1 < i BY <1>1, <2>1, <2>3, <3>2
      <4>2. j - 1 \in DOMAIN d /\ d[j - 1] = c[j] BY <1>1, <4>1
      <4> QED BY <2>3, <4>1, <4>2
    <3> QED BY <3>1, <3>2
  <2> QED BY <2>2, <2>3
<1>8. OutOK(S, U, d, p)
  <2>1. T \cup All(c) = U \cup All(d) BY <1>1
  <2> QED BY <2>1 DEF PipeOK, OutOK
<1> QED BY <1>3, <1>4, <1>5, <1>6, <1>7, <1>8 DEF PipeOK

---------------------------------------------------------------------------
(* The invariant behind checkpoints, as long as one sync is active at a time *)

Current(t) == records[Now(t)][task[t].id]
Scope(t) == Current(t).scope
Early == {"drop", "fetch", "download", "extract", "unpack"}

\* What holds of a record of d, given the version of its file and the table: a row of its
\* scope can be found again, and is stored up to the checkpoint.
Sound(rec, d, v, T) ==
  /\ \A r \in rec.scope : /\ v > 0 /\ r \in RowsOf(Files[d][v])
                          /\ Kept(T, r)
                          /\ Key[r] <= rec.mark => r \in T
  /\ rec.status = "completed" => rec.scope \subseteq T
RecordsSound ==
  \A d \in Dataset : \A i \in DOMAIN records[d] : Sound(records[d][i], d, extracted[d], table)

\* An attempt is of its record, and what it starts behind is stored.
Attached(t) ==
  Busy(t) => /\ Current(t).status # "completed"
             /\ \A r \in Scope(t) : Key[r] <= task[t].from \/ Key[r] <= task[t].last => r \in table
             /\ task[t].pc \in Early =>
                  Current(t).mark = task[t].from /\ task[t].last = task[t].from
Known(t) ==
  /\ task[t].known \subseteq table
  /\ task[t].pc \in {"download", "extract", "unpack", "write"} =>
       \A r \in Scope(t) : Kept(task[t].known, r)
Piped(t) ==
  /\ task[t].pc = "write" =>
       PipeOK(Scope(t), table, channel[t], parser[t], task[t].end)
  /\ task[t].pc # "write" => parser[t] = Off /\ channel[t] = <<>>
Finished(t) ==
  task[t].pc \in {"recreate", "close"} /\ task[t].end = "completed" => Scope(t) \subseteq table
Newer(t) == task[t].pc = "unpack" => extracted[Now(t)] <= task[t].tar

Sync(t) == Attached(t) /\ Known(t) /\ Piped(t) /\ Finished(t) /\ Newer(t)
\* No two tasks are active.
Alone == \A t, u \in Active : t = u
Inv == Types /\ RecordsSound /\ \A t \in Task : Sync(t)

\* What a record may become, and where its file and the table may go.
LEMMA SoundGrows ==
  ASSUME NEW d \in Dataset, NEW v \in Nat, NEW w \in Nat, NEW T, NEW U, T \subseteq U,
         NEW old, NEW new, Sound(old, d, v, T), new.scope = old.scope,
         v = w \/ (v > 0 => v <= w /\ v \in DOMAIN Files[d] /\ w \in DOMAIN Files[d]),
         \A r \in new.scope : Key[r] <= new.mark => r \in U \/ Key[r] <= old.mark,
         new.status = "completed" => old.status = "completed" \/ new.scope \subseteq U
  PROVE  Sound(new, d, w, U)
<1>1. ASSUME NEW r \in new.scope
      PROVE  /\ w > 0 /\ r \in RowsOf(Files[d][w])
             /\ Kept(U, r)
             /\ Key[r] <= new.mark => r \in U
  <2>1. v > 0 /\ r \in RowsOf(Files[d][v]) /\ Kept(T, r) BY <1>1 DEF Sound
  <2>2. w > 0 BY <2>1
  <2>3. r \in RowsOf(Files[d][w]) BY <2>1, FilesAssumption
  <2>4. Kept(U, r) BY <2>1 DEF Kept
  <2>5. Key[r] <= new.mark => r \in U BY <1>1 DEF Sound
  <2> QED BY <2>2, <2>3, <2>4, <2>5
<1>2. new.status = "completed" => new.scope \subseteq U BY DEF Sound
<1> QED BY <1>1, <1>2 DEF Sound

\* The records are as they were but for what is stored or failed.
Fits ==
  \A d \in Dataset :
    /\ DOMAIN records'[d] = DOMAIN records[d]
    /\ \A i \in DOMAIN records[d] :
         /\ records'[d][i].scope = records[d][i].scope
         /\ \A r \in records[d][i].scope :
              Key[r] <= records'[d][i].mark => r \in table' \/ Key[r] <= records[d][i].mark
         /\ records'[d][i].status = "completed" =>
              records[d][i].status = "completed" \/ records[d][i].scope \subseteq table'

LEMMA FitsSound ==
  ASSUME Types, RecordsSound, Fits, table \subseteq table', extracted' = extracted
  PROVE  RecordsSound'
<1> SUFFICES ASSUME NEW d \in Dataset, NEW i \in DOMAIN records'[d]
             PROVE  Sound(records'[d][i], d, extracted'[d], table')
  BY DEF RecordsSound
<1>1. i \in DOMAIN records[d] BY DEF Fits
<1>2. Sound(records[d][i], d, extracted[d], table) BY <1>1 DEF RecordsSound
<1>3. extracted[d] \in Nat BY DEF Types, FilesOK
<1>4. PICK old, new : old = records[d][i] /\ new = records'[d][i] OBVIOUS
<1>5. /\ new.scope = old.scope
      /\ \A r \in new.scope : Key[r] <= new.mark => r \in table' \/ Key[r] <= old.mark
      /\ new.status = "completed" => old.status = "completed" \/ new.scope \subseteq table'
  BY <1>1, <1>4 DEF Fits
<1>6. Sound(new, d, extracted[d], table') BY <1>2, <1>3, <1>4, <1>5, SoundGrows
<1> QED BY <1>4, <1>6

LEMMA SameFits == ASSUME UNCHANGED <<records, table>> PROVE Fits
  BY DEF Fits

LEMMA UnstaleFits ==
  ASSUME Types, records' = Unstale(records), table' = table
  PROVE  Fits
<1>1. records \in [Dataset -> Seq(Record)] BY DEF Types, HistoryOK
<1>2. ASSUME NEW d \in Dataset
      PROVE  /\ DOMAIN records'[d] = DOMAIN records[d]
             /\ \A i \in DOMAIN records[d] :
                   /\ records'[d][i].scope = records[d][i].scope
                   /\ records'[d][i].mark = records[d][i].mark
                   /\ records'[d][i].status = "completed" => records[d][i].status = "completed"
  BY <1>1, UnstaleFacts
<1> QED BY <1>2 DEF Fits

\* Nothing that the invariant speaks of changes.
LEMMA SameInv ==
  ASSUME Inv, UNCHANGED <<records, table, extracted, task, parser, channel>>
  PROVE  RecordsSound' /\ \A t \in Task : Sync(t)'
<1>1. RecordsSound' BY SameFits, FitsSound DEF Inv
<1>2. ASSUME NEW t \in Task PROVE Sync(t)'
  <2>1. Sync(t) BY DEF Inv
  <2>2. Attached(t)' BY <2>1 DEF Sync, Attached, Busy, Current, Scope, Now
  <2>3. Known(t)' BY <2>1 DEF Sync, Known, Current, Scope, Now
  <2>4. Piped(t)' BY <2>1 DEF Sync, Piped, Current, Scope, Now
  <2>5. Finished(t)' BY <2>1 DEF Sync, Finished, Current, Scope, Now
  <2>6. Newer(t)' BY <2>1 DEF Sync, Newer, Now
  <2> QED BY <2>2, <2>3, <2>4, <2>5, <2>6 DEF Sync
<1> QED BY <1>1, <1>2

---------------------------------------------------------------------------
(* The invariant: requests, and the steps of the writer *)

LEMMA BusyScope ==
  ASSUME Types, NEW t \in Task, Busy(t)
  PROVE  /\ Current(t) \in Record /\ Scope(t) \subseteq Row /\ Current(t).mark \in Nat
<1>1. Now(t) \in Dataset /\ task[t].id \in DOMAIN records[Now(t)] BY BusyFacts
<1> QED BY <1>1, RecordFacts DEF Current, Scope

\* A task that has no dataset has nothing to keep.
LEMMA RestSync ==
  ASSUME Inv, NEW t \in Task, NEW y, Set(t, y), y.pc \in {"idle", "resolve", "next"},
         y.known \subseteq table', parser'[t] = Off, channel'[t] = <<>>
  PROVE  Sync(t)'
<1>1. task'[t] = y BY DEF Set, Inv, Types, TasksOK
<1> QED BY <1>1 DEF Sync, Attached, Busy, Known, Piped, Finished, Newer

LEMMA NothingPiped ==
  ASSUME Inv, NEW t \in Task, task[t].pc # "write", UNCHANGED pipe
  PROVE  parser'[t] = Off /\ channel'[t] = <<>>
  BY DEF Inv, Sync, Piped, pipe

LEMMA RestKnown ==
  /\ Idle.known = {} /\ Idle.pc = "idle"
  /\ \A t : RestOf(t).known = {} /\ RestOf(t).pc = "next"
  BY DEF Idle, RestOf

\* A task that is idle stays so, and the table only grows.
LEMMA IdleSync ==
  ASSUME Inv, NEW u \in Task, task[u].pc = "idle", table \subseteq table',
         task'[u] = task[u], parser'[u] = parser[u], channel'[u] = channel[u]
  PROVE  Sync(u)'
<1>1. Known(u) /\ Piped(u) BY DEF Inv, Sync
<1> QED BY <1>1 DEF Sync, Attached, Busy, Known, Piped, Finished, Newer

\* Requests: the task that is started has nothing yet, and is the only one then.
LEMMA SpawnSync ==
  ASSUME Inv, Alone', NEW p \in BOOLEAN, NEW ds \in Request, Spawn(p, ds)
  PROVE  RecordsSound' /\ \A u \in Task : Sync(u)'
<1>1. RecordsSound'
  <2>1. Fits BY UnstaleFits, SameFits DEF Spawn, Inv
  <2> QED BY <2>1, FitsSound DEF Spawn, Inv, lines
<1>2. \E x \in Task : x \notin Active BY DEF Spawn, Active
<1>3. PICK t \in Task : t = (CHOOSE x \in Task : x \notin Active) /\ t \notin Active BY <1>2
<1>4. PICK y : y = [Idle EXCEPT !.pc = "resolve", !.process = p, !.todo = ds] OBVIOUS
<1>5. Set(t, y) BY <1>3, <1>4 DEF Spawn
<1>6. y.pc = "resolve" /\ y.known = {} BY <1>4 DEF Idle
<1>7. task[t].pc # "write" BY <1>3 DEF Active
<1>8. parser'[t] = Off /\ channel'[t] = <<>> BY <1>7, NothingPiped DEF Spawn
<1>9. Sync(t)' BY <1>5, <1>6, <1>8, RestSync
<1>10. ASSUME NEW u \in Task, u # t PROVE Sync(u)'
  <2>1. task' = [task EXCEPT ![t] = y] /\ DOMAIN task = Task
    BY <1>5 DEF Set, Inv, Types, TasksOK
  <2>2. task'[t] = y /\ task'[u] = task[u] BY <1>10, <2>1
  <2>3. task'[u].pc = "idle" BY <1>6, <1>10, <2>2 DEF Alone, Active
  <2>4. UNCHANGED <<table, parser, channel>> BY DEF Spawn, pipe
  <2> QED BY <2>2, <2>3, <2>4, IdleSync
<1> QED BY <1>1, <1>9, <1>10

\* A task that gives up its dataset: what it did with its record is sound.
LEMMA RestInv ==
  ASSUME Inv, NEW t \in Task, NEW y, Set(t, y), y \in {Idle, RestOf(t)}, task[t].pc # "write",
         Fits, UNCHANGED pipe, UNCHANGED <<extracted, table>>
  PROVE  RecordsSound' /\ Sync(t)'
<1>1. RecordsSound' BY FitsSound DEF Inv
<1>2. y.pc \in {"idle", "resolve", "next"} /\ y.known \subseteq table' BY RestKnown
<1>3. Sync(t)' BY <1>2, NothingPiped, RestSync
<1> QED BY <1>1, <1>3

\* Cancelling: records fail, and the task goes on until it sees its token.
LEMMA CancelInv ==
  ASSUME Inv, CancelSync
  PROVE  RecordsSound' /\ \A t \in Task : Sync(t)'
<1>1. Fits BY UnstaleFits DEF CancelSync, Inv
<1>2. RecordsSound' BY <1>1, FitsSound DEF CancelSync, Inv, lines
<1>3. ASSUME NEW t \in Task PROVE Sync(t)'
  <2>1. Sync(t) /\ Types BY DEF Inv
  <2>2. UNCHANGED <<task, table, parser, channel, extracted>> BY DEF CancelSync, pipe, lines
  <2>3. CASE Busy(t)
    <3>1. Now(t) \in Dataset /\ task[t].id \in DOMAIN records[Now(t)] BY <2>1, <2>3, BusyFacts
    <3>2. records \in [Dataset -> Seq(Record)] BY <2>1 DEF Types, HistoryOK
    <3>3. PICK old, new : old = Current(t) /\ new = records'[Now(t)][task[t].id] OBVIOUS
    <3>4. /\ new.scope = old.scope /\ new.mark = old.mark
          /\ new.status = "completed" => old.status = "completed"
      BY <3>1, <3>2, <3>3, UnstaleFacts DEF CancelSync, Current
    <3>5. Current(t)' = new /\ Scope(t)' = Scope(t) BY <2>2, <3>3, <3>4 DEF Current, Scope, Now
    <3>6. Attached(t)' BY <2>1, <2>2, <3>3, <3>4, <3>5 DEF Sync, Attached, Busy
    <3>7. Known(t)' BY <2>1, <2>2, <3>5 DEF Sync, Known
    <3>8. Piped(t)' BY <2>1, <2>2, <3>5 DEF Sync, Piped
    <3>9. Finished(t)' BY <2>1, <2>2, <3>5 DEF Sync, Finished
    <3>10. Newer(t)' BY <2>1, <2>2 DEF Sync, Newer, Now
    <3> QED BY <3>6, <3>7, <3>8, <3>9, <3>10 DEF Sync
  <2>4. CASE ~Busy(t)
    <3>1. task[t].pc \in {"idle", "resolve", "next"} BY <2>4 DEF Busy
    <3> QED BY <2>1, <2>2, <3>1 DEF Sync, Attached, Busy, Known, Piped, Finished, Newer
  <2> QED BY <2>3, <2>4
<1> QED BY <1>2, <1>3

\* A step of the writer, not at the file, that keeps its record.
LEMMA MovedInv ==
  ASSUME Inv, NEW t \in Task, Busy(t), task[t].pc # "write", NEW y, Set(t, y),
         y.todo = task[t].todo, y.id = task[t].id, y.from = task[t].from, y.last = task[t].last,
         y.pc \notin {"idle", "resolve", "next", "write"},
         y.pc \in Early => task[t].pc \in Early,
         y.known \subseteq table,
         y.pc \in {"download", "extract", "unpack"} => \A r \in Scope(t) : Kept(y.known, r),
         y.pc = "unpack" => extracted[Now(t)] <= y.tar,
         y.pc \in {"recreate", "close"} /\ y.end = "completed" => Scope(t) \subseteq table,
         UNCHANGED pipe, UNCHANGED <<records, table, extracted>>
  PROVE  RecordsSound' /\ Sync(t)'
<1>1. RecordsSound' BY SameFits, FitsSound DEF Inv
<1>2. task'[t] = y BY DEF Set, Inv, Types, TasksOK
<1>3. Now(t)' = Now(t) /\ Current(t)' = Current(t) /\ Scope(t)' = Scope(t)
  BY <1>2 DEF Now, Current, Scope
<1>4. Sync(t) BY DEF Inv
<1>5. Attached(t)' BY <1>2, <1>3, <1>4 DEF Sync, Attached, Busy
<1>6. Known(t)' BY <1>2, <1>3 DEF Known
<1>7. Piped(t)' BY <1>2, NothingPiped DEF Piped
<1>8. Finished(t)' BY <1>2, <1>3 DEF Finished
<1>9. Newer(t)' BY <1>2, <1>3 DEF Newer
<1>10. Sync(t)' BY <1>5, <1>6, <1>7, <1>8, <1>9 DEF Sync
<1> QED BY <1>1, <1>10

LEMMA BeginInv ==
  ASSUME Inv, NEW t \in Task, NEW ok \in BOOLEAN, Begin(t, ok)
  PROVE  RecordsSound' /\ Sync(t)'
<1>1. Types /\ Sync(t) /\ task[t].pc = "next" BY DEF Inv, Begin, Turn
<1>2. UNCHANGED pipe /\ UNCHANGED <<extracted, table>> BY DEF Begin, lines
<1>3. CASE records' = records /\ Set(t, RestOf(t))
  BY <1>1, <1>2, <1>3, SameFits, RestInv
<1>4. ASSUME NEW i \in Nat, NEW recs \in Seq(Record), Attempt(t, i, recs), i \in DOMAIN recs,
             recs[i].status = "running",
             \A k \in DOMAIN recs :
               \/ recs[k] = NewRecord
               \/ /\ k \in DOMAIN records[Now(t)] /\ recs[k].mark = records[Now(t)][k].mark
                  /\ recs[k].scope = records[Now(t)][k].scope
                  /\ recs[k].status = "completed" => recs[k] = records[Now(t)][k]
      PROVE  RecordsSound' /\ Sync(t)'
  <2>1. Now(t) \in Dataset /\ task[t] \in TaskRec /\ task[t].todo # <<>>
    BY <1>1, BeginCases, BusyFacts
  <2>2. records' = [records EXCEPT ![Now(t)] = recs] BY <1>4 DEF Attempt
  <2>3. /\ records'[Now(t)] = recs
        /\ \A d \in Dataset : d # Now(t) => records'[d] = records[d]
    BY <1>1, <2>1, <2>2 DEF Types, HistoryOK
  <2>4. ASSUME NEW k \in DOMAIN recs
        PROVE  Sound(recs[k], Now(t), extracted[Now(t)], table)
    <3>1. CASE recs[k] = NewRecord BY <3>1, NewFacts DEF Sound
    <3>2. CASE /\ k \in DOMAIN records[Now(t)] /\ recs[k].mark = records[Now(t)][k].mark
               /\ recs[k].scope = records[Now(t)][k].scope
               /\ recs[k].status = "completed" => recs[k] = records[Now(t)][k]
      <4>1. Sound(records[Now(t)][k], Now(t), extracted[Now(t)], table)
        BY <2>1, <3>2 DEF Inv, RecordsSound
      <4> QED BY <3>2, <4>1 DEF Sound
    <3> QED BY <1>4, <3>1, <3>2
  <2>5. RecordsSound'
    <3> SUFFICES ASSUME NEW d \in Dataset, NEW k \in DOMAIN records'[d]
                 PROVE  Sound(records'[d][k], d, extracted'[d], table')
      BY DEF RecordsSound
    <3>1. CASE d = Now(t) BY <1>2, <2>3, <2>4, <3>1
    <3>2. CASE d # Now(t)
      <4>1. Sound(records[d][k], d, extracted[d], table) BY <2>3, <3>2 DEF Inv, RecordsSound
      <4> QED BY <1>2, <2>3, <3>2, <4>1
    <3> QED BY <3>1, <3>2
  <2>6. PICK y : y = [task[t] EXCEPT !.pc = "drop", !.id = i, !.from = recs[i].mark,
                                     !.rows = recs[i].rows, !.last = recs[i].mark]
    OBVIOUS
  <2>7. /\ y.pc = "drop" /\ y.todo = task[t].todo /\ y.id = i /\ y.known = task[t].known
        /\ y.from = recs[i].mark /\ y.last = recs[i].mark
    BY <2>1, <2>6 DEF TaskRec
  <2>8. task'[t] = y BY <1>1, <1>4, <2>6 DEF Attempt, Set, Types, TasksOK
  <2>9. Now(t)' = Now(t) /\ Current(t)' = recs[i] /\ Scope(t)' = recs[i].scope
    BY <2>3, <2>7, <2>8 DEF Now, Current, Scope
  <2>10. Sound(recs[i], Now(t), extracted[Now(t)], table) BY <1>4, <2>4
  <2>11. Attached(t)'
    BY <1>2, <1>4, <2>7, <2>8, <2>9, <2>10 DEF Attached, Sound, Early
  <2>12. Known(t)' BY <1>1, <1>2, <2>7, <2>8 DEF Sync, Known
  <2>13. Piped(t)' BY <1>1, <1>2, <2>7, <2>8, NothingPiped DEF Piped
  <2>14. Finished(t)' /\ Newer(t)' BY <2>7, <2>8 DEF Finished, Newer
  <2>15. Sync(t)' BY <2>11, <2>12, <2>13, <2>14 DEF Sync
  <2> QED BY <2>5, <2>15
<1> QED BY <1>1, <1>3, <1>4, BeginCases

LEMMA DropIndexesInv ==
  ASSUME Inv, NEW t \in Task, NEW ok \in BOOLEAN, DropIndexes(t, ok)
  PROVE  RecordsSound' /\ Sync(t)'
<1>1. /\ Types /\ Sync(t) /\ task[t].pc = "drop" /\ Busy(t) /\ task[t] \in TaskRec
  BY BusyFacts DEF Inv, DropIndexes, Busy
<1>2. UNCHANGED pipe /\ UNCHANGED <<records, table, extracted>>
  BY DEF DropIndexes, history, lines
<1>3. CASE ok
  <2>1. PICK y : y = [task[t] EXCEPT !.pc = "fetch"] OBVIOUS
  <2>2. /\ y.pc = "fetch" /\ y.todo = task[t].todo /\ y.id = task[t].id /\ y.from = task[t].from
        /\ y.last = task[t].last /\ y.known = task[t].known
    BY <1>1, <2>1 DEF TaskRec
  <2>3. Set(t, y) BY <1>3, <2>1 DEF DropIndexes
  <2>4. y.known \subseteq table BY <1>1, <2>2 DEF Sync, Known
  <2> QED BY <1>1, <1>2, <2>2, <2>3, <2>4, MovedInv DEF Early
<1>4. CASE ~ok
  <2>1. Set(t, RestOf(t)) BY <1>4 DEF DropIndexes
  <2> QED BY <1>1, <1>2, <2>1, SameFits, RestInv
<1> QED BY <1>3, <1>4

LEMMA CurrentSound ==
  ASSUME Inv, NEW t \in Task, Busy(t)
  PROVE  Sound(Current(t), Now(t), extracted[Now(t)], table)
<1>1. Now(t) \in Dataset /\ task[t].id \in DOMAIN records[Now(t)] BY BusyFacts DEF Inv
<1> QED BY <1>1 DEF Inv, RecordsSound, Current

LEMMA FetchInv ==
  ASSUME Inv, NEW t \in Task, Fetch(t)
  PROVE  RecordsSound' /\ Sync(t)'
<1>1. /\ Types /\ Sync(t) /\ task[t].pc = "fetch" /\ Busy(t) /\ task[t] \in TaskRec
  BY BusyFacts DEF Inv, Fetch, Busy
<1>2. UNCHANGED pipe /\ UNCHANGED <<records, table, extracted>>
  BY DEF Fetch, history, lines
<1>3. PICK y : Set(t, y) /\ FetchedSlot(t, y) BY <1>1, FetchCases
<1>4. \A r \in Scope(t) : Kept(table, r) BY <1>1, CurrentSound DEF Sound, Scope
<1>5. /\ y.todo = task[t].todo /\ y.id = task[t].id /\ y.from = task[t].from
      /\ y.last = task[t].last
      /\ \/ y.pc = "recreate" /\ y.end = "failed" /\ y.known = task[t].known
         \/ y.pc \in {"extract", "download"} /\ y.known = table
  BY <1>1, <1>3 DEF FetchedSlot, Leave, TaskRec
<1>6. y.known \subseteq table BY <1>1, <1>5 DEF Sync, Known
<1> QED BY <1>1, <1>2, <1>3, <1>4, <1>5, <1>6, MovedInv DEF Early

LEMMA DownloadInv ==
  ASSUME Inv, NEW t \in Task, NEW how \in Outcome, Download(t, how)
  PROVE  RecordsSound' /\ Sync(t)'
<1>1. /\ Types /\ Sync(t) /\ task[t].pc = "download" /\ Busy(t) /\ task[t] \in TaskRec
  BY BusyFacts DEF Inv, Download, Busy
<1>2. extracted' = extracted BY <1>1, DownloadCases DEF Downloaded, lines
<1>3. UNCHANGED pipe /\ UNCHANGED <<records, table>> BY DEF Download, history
<1>4. \E y : /\ Set(t, y)
             /\ \/ y = [task[t] EXCEPT !.pc = "extract"]
                \/ how # "completed" /\ y = Leave(t, how)
  BY <1>1, DownloadCases
<1>5. PICK y : /\ Set(t, y)
               /\ \/ y = [task[t] EXCEPT !.pc = "extract"]
                  \/ how # "completed" /\ y = Leave(t, how)
  BY <1>4
<1>6. /\ y.todo = task[t].todo /\ y.id = task[t].id /\ y.from = task[t].from
      /\ y.last = task[t].last /\ y.known = task[t].known
      /\ y.pc = "extract" \/ (y.pc = "recreate" /\ y.end # "completed")
  BY <1>1, <1>5 DEF Leave, TaskRec
<1>7. y.known \subseteq table /\ \A r \in Scope(t) : Kept(y.known, r)
  BY <1>1, <1>6 DEF Sync, Known
<1> QED BY <1>1, <1>2, <1>3, <1>5, <1>6, <1>7, MovedInv DEF Early

\* A file is opened: a new record is given what is to be stored of it, and an old one
\* finds its rows in it.
LEMMA OpenedInv ==
  ASSUME Inv, NEW t \in Task, task[t].pc \in {"extract", "unpack"},
         NEW v \in DOMAIN Files[Now(t)], Opened(t, v),
         UNCHANGED <<cache, synced, table, channel>>,
         extracted[Now(t)] <= v, extracted' = [extracted EXCEPT ![Now(t)] = v]
  PROVE  RecordsSound' /\ Sync(t)'
<1>1. Types /\ Sync(t) /\ Busy(t) /\ task[t] \in TaskRec BY BusyFacts DEF Inv, Busy
<1>2. Now(t) \in Dataset /\ task[t].id \in DOMAIN records[Now(t)] BY <1>1, BusyFacts
<1> DEFINE d == Now(t)
           i == task[t].id
<1>3. v \in Nat /\ v > 0 BY <1>2, DumpAssumption
<1>4. /\ \A e \in Dataset : extracted[e] \in Nat /\ extracted[e] <= cache[e]
      /\ extracted'[d] = v /\ \A e \in Dataset : e # d => extracted'[e] = extracted[e]
  BY <1>1, <1>2 DEF Types, FilesOK
<1>5. Files[d][v] \in Seq(Row) /\ RowsOf(Files[d][v]) \subseteq Row /\ Sorted(Files[d][v])
  BY <1>2, FileFacts, FilesAssumption DEF Sorted
<1>6. /\ \A e \in Dataset :
           /\ DOMAIN records'[e] = DOMAIN records[e]
           /\ \A k \in DOMAIN records[e] :
                \/ records'[e][k] = records[e][k]
                \/ /\ task[t].from = 0 /\ e = d /\ k = i
                   /\ records'[e][k].scope = Wanted(t, v)
                   /\ records'[e][k].mark = records[e][k].mark
                   /\ records'[e][k].status = records[e][k].status
      /\ task[t].from = 0 => records'[d][i].scope = Wanted(t, v)
      /\ task[t].from # 0 => records' = records
  BY <1>1, OpenedRecords
<1>7. /\ task[t].known \subseteq table /\ Current(t).status # "completed"
      /\ Current(t).mark = task[t].from /\ task[t].last = task[t].from
      /\ channel[t] = <<>> /\ task[t].from \in Nat
      /\ \A r \in Scope(t) : Kept(task[t].known, r)
      /\ \A r \in Scope(t) : Key[r] <= task[t].from => r \in table
  BY <1>1 DEF Sync, Known, Attached, Early, Piped, TaskRec
<1>8. \A r \in Wanted(t, v) : /\ r \in RowsOf(Files[d][v]) /\ Kept(task[t].known, r)
                              /\ r \in Row /\ Key[r] \in Nat /\ Key[r] > 0
  BY <1>5, DumpAssumption DEF Wanted
<1>9. RecordsSound'
  <2> SUFFICES ASSUME NEW e \in Dataset, NEW k \in DOMAIN records'[e]
               PROVE  Sound(records'[e][k], e, extracted'[e], table')
    BY DEF RecordsSound
  <2>1. k \in DOMAIN records[e] BY <1>6
  <2>2. CASE records'[e][k] = records[e][k]
    <3>1. Sound(records[e][k], e, extracted[e], table) BY <2>1 DEF Inv, RecordsSound
    <3>2. PICK old : old = records[e][k] OBVIOUS
    <3>3. CASE e # d
      BY <1>4, <2>2, <3>1, <3>3
    <3>4. CASE e = d
      <4>1. extracted[d] > 0 => extracted[d] \in DOMAIN Files[d] BY <1>1, <1>2, <1>4, VersionFacts
      <4>2. Sound(old, d, v, table)
        <5>1. Sound(old, d, extracted[d], table) BY <3>1, <3>2, <3>4
        <5>2. extracted[d] \in Nat BY <1>2, <1>4
        <5> QED BY <1>2, <1>3, <4>1, <5>1, <5>2, SoundGrows
      <4> QED BY <1>4, <2>2, <3>2, <3>4, <4>2
    <3> QED BY <3>3, <3>4
  <2>3. CASE /\ task[t].from = 0 /\ e = d /\ k = i
             /\ records'[e][k].scope = Wanted(t, v)
             /\ records'[e][k].mark = records[e][k].mark
             /\ records'[e][k].status = records[e][k].status
    <3>1. PICK new : new = records'[e][k] OBVIOUS
    <3>2. new.mark = 0 /\ new.status # "completed" /\ new.scope = Wanted(t, v)
      BY <1>7, <2>3, <3>1 DEF Current
    <3>3. ASSUME NEW r \in new.scope
          PROVE  v > 0 /\ r \in RowsOf(Files[d][v]) /\ Kept(table, r) /\ ~(Key[r] <= new.mark)
      <4>1. r \in RowsOf(Files[d][v]) /\ Kept(task[t].known, r) /\ Key[r] \in Nat /\ Key[r] > 0
        BY <1>8, <3>2
      <4>2. Kept(table, r) BY <1>7, <4>1 DEF Kept
      <4> QED BY <1>3, <3>2, <4>1, <4>2
    <3>4. Sound(new, d, v, table) BY <3>2, <3>3 DEF Sound
    <3> QED BY <1>4, <2>3, <3>1, <3>4
  <2> QED BY <1>6, <2>1, <2>2, <2>3
<1>10. PICK y : y = [task[t] EXCEPT !.pc = "write", !.tar = 0] OBVIOUS
<1>11. /\ y.pc = "write" /\ y.todo = task[t].todo /\ y.id = i /\ y.known = task[t].known
       /\ y.from = task[t].from /\ y.last = task[t].last
  BY <1>1, <1>10 DEF TaskRec
<1>12. task'[t] = y BY <1>1, <1>10 DEF Opened, Set, Types, TasksOK
<1>13. Now(t)' = d /\ Current(t)' = records'[d][i] /\ Scope(t)' = records'[d][i].scope
  BY <1>11, <1>12 DEF Now, Current, Scope
<1>14. /\ records'[d][i].status # "completed"
       /\ \A r \in Scope(t)' : /\ Kept(task[t].known, r)
                               /\ Key[r] <= task[t].from => r \in table
                               /\ r \in RowsOf(Files[d][v])
  <2>1. CASE task[t].from = 0
    <3>1. records'[d][i].scope = Wanted(t, v) BY <1>6, <2>1
    <3>2. records'[d][i].status = records[d][i].status BY <1>2, <1>6
    <3>3. \A r \in Wanted(t, v) : ~(Key[r] <= task[t].from) BY <1>8, <2>1
    <3> QED BY <1>7, <1>8, <1>13, <3>1, <3>2, <3>3 DEF Current
  <2>2. CASE task[t].from # 0
    <3>1. records' = records BY <1>6, <2>2
    <3>2. Sound(records'[d][i], d, v, table') BY <1>2, <1>4, <1>6, <1>9 DEF RecordsSound
    <3> QED BY <1>7, <1>13, <3>1, <3>2 DEF Current, Scope, Sound
  <2> QED BY <2>1, <2>2
<1>15. Attached(t)' BY <1>7, <1>11, <1>12, <1>13, <1>14 DEF Attached, Early
<1>16. Known(t)' BY <1>7, <1>11, <1>12, <1>14 DEF Known
<1>17. PICK p : p = Opening(t, v) OBVIOUS
<1>18. /\ p \in ParserRec /\ p.at = "read" /\ p.file = Files[d][v]
       /\ p.batch = {} /\ p.out = <<>> /\ p.last = task[t].from
  BY <1>1, <1>5, <1>17, OpeningFacts
<1>19. parser'[t] = p BY <1>1, <1>17 DEF Opened, Opening, Types, PipesOK
<1>20. Piped(t)'
  <2>1. PICK S : S = Scope(t)' OBVIOUS
  <2>2. S \subseteq RowsOf(p.file) /\ \A r \in S : Key[r] <= p.last => r \in table
    BY <1>14, <1>18, <2>1
  <2>3. PipeOK(S, table, <<>>, p, task'[t].end) BY <1>5, <1>18, <2>2, OpenPipe
  <2>4. channel'[t] = <<>> BY <1>7
  <2> QED BY <1>11, <1>12, <1>19, <2>1, <2>3, <2>4 DEF Piped
<1>21. Finished(t)' /\ Newer(t)' BY <1>11, <1>12 DEF Finished, Newer
<1>22. Sync(t)' BY <1>15, <1>16, <1>20, <1>21 DEF Sync
<1> QED BY <1>9, <1>22

LEMMA ExtractInv ==
  ASSUME Inv, NEW t \in Task, Extract(t)
  PROVE  RecordsSound' /\ Sync(t)'
<1>1. /\ Types /\ Sync(t) /\ task[t].pc = "extract" /\ Busy(t) /\ task[t] \in TaskRec
      /\ Now(t) \in Dataset
  BY BusyFacts DEF Inv, Extract, Busy
<1>2. /\ extracted[Now(t)] \in Nat /\ extracted[Now(t)] <= cache[Now(t)]
      /\ extracted \in [Dataset -> Nat]
  BY <1>1 DEF Types, FilesOK
<1>3. UNCHANGED <<cache, synced, table, channel, extracted>> BY DEF Extract, files, lines
<1>4. CASE extracted[Now(t)] > 0 /\ Now(t) \notin outdated
  <2>1. PICK v : v = extracted[Now(t)] OBVIOUS
  <2>2. Opened(t, v) BY <1>4, <2>1 DEF Extract
  <2>3. v \in DOMAIN Files[Now(t)] BY <1>1, <1>2, <1>4, <2>1, VersionFacts
  <2>4. extracted' = [extracted EXCEPT ![Now(t)] = v] BY <1>2, <1>3, <2>1
  <2>5. extracted[Now(t)] <= v BY <1>2, <2>1
  <2> QED BY <1>1, <1>3, <2>2, <2>3, <2>4, <2>5, OpenedInv
<1>5. CASE ~(extracted[Now(t)] > 0 /\ Now(t) \notin outdated)
  <2>1. PICK y : y = IF cache[Now(t)] = 0 THEN Leave(t, "failed")
                     ELSE [task[t] EXCEPT !.pc = "unpack", !.tar = cache[Now(t)]]
    OBVIOUS
  <2>2. Set(t, y) /\ UNCHANGED <<parser, records>> BY <1>5, <2>1 DEF Extract
  <2>3. /\ y.todo = task[t].todo /\ y.id = task[t].id /\ y.from = task[t].from
        /\ y.last = task[t].last /\ y.known = task[t].known
        /\ \/ y.pc = "recreate" /\ y.end = "failed"
           \/ y.pc = "unpack" /\ y.tar = cache[Now(t)]
    <3>1. CASE cache[Now(t)] = 0
      <4>1. y = Leave(t, "failed") BY <2>1, <3>1
      <4> QED BY <1>1, <4>1 DEF Leave, TaskRec
    <3>2. CASE cache[Now(t)] # 0
      <4>1. y = [task[t] EXCEPT !.pc = "unpack", !.tar = cache[Now(t)]] BY <2>1, <3>2
      <4> QED BY <1>1, <4>1 DEF TaskRec
    <3> QED BY <3>1, <3>2
  <2>4. y.known \subseteq table /\ \A r \in Scope(t) : Kept(y.known, r)
    BY <1>1, <2>3 DEF Sync, Known
  <2>5. UNCHANGED pipe BY <1>3, <2>2 DEF pipe
  <2> QED BY <1>1, <1>2, <1>3, <2>2, <2>3, <2>4, <2>5, MovedInv DEF Early
<1> QED BY <1>4, <1>5

LEMMA UnpackInv ==
  ASSUME Inv, NEW t \in Task, Unpack(t)
  PROVE  RecordsSound' /\ Sync(t)'
<1>1. /\ Types /\ Sync(t) /\ task[t].pc = "unpack" /\ Busy(t) /\ task[t] \in TaskRec
      /\ Now(t) \in Dataset
  BY BusyFacts DEF Inv, Unpack, Busy
<1>2. PICK v : v = task[t].tar OBVIOUS
<1>3. 0 < v /\ v <= cache[Now(t)] /\ v \in Nat
  BY <1>1, <1>2, BusyFacts DEF TaskGood, Now, TaskRec
<1>4. v \in DOMAIN Files[Now(t)] BY <1>1, <1>3, VersionFacts
<1>5. extracted[Now(t)] <= v BY <1>1, <1>2 DEF Sync, Newer
<1>6. /\ UNCHANGED <<cache, synced, table, channel>> /\ Opened(t, v)
      /\ extracted' = [extracted EXCEPT ![Now(t)] = v]
  BY <1>2 DEF Unpack, files
<1> QED BY <1>1, <1>4, <1>5, <1>6, OpenedInv

---------------------------------------------------------------------------
(* The invariant: the steps of the parser *)

\* Only the parser of an attempt that writes takes steps.
LEMMA Parsing ==
  ASSUME Inv, NEW t \in Task, parser[t].at = "read" \/ parser[t].out # <<>>
  PROVE  /\ Types /\ Sync(t) /\ task[t].pc = "write" /\ Busy(t) /\ Scope(t) \in SUBSET Row
         /\ PipeOK(Scope(t), table, channel[t], parser[t], task[t].end)
<1>1. Types /\ Sync(t) BY DEF Inv
<1>2. task[t].pc = "write" BY <1>1, OffFacts DEF Sync, Piped
<1>3. Busy(t) BY <1>2 DEF Busy
<1> QED BY <1>1, <1>2, <1>3, BusyScope DEF Sync, Piped

LEMMA PipeOnly ==
  ASSUME Inv, NEW t \in Task, task[t].pc = "write", NEW k, Parser(t, k),
         PipeOK(Scope(t), table, channel'[t], k, task[t].end)
  PROVE  RecordsSound' /\ Sync(t)'
<1>1. Types /\ Sync(t) BY DEF Inv
<1>2. UNCHANGED <<records, table, extracted, task>> BY DEF Parser, history, lines
<1>3. RecordsSound' BY <1>2, SameFits, FitsSound DEF Inv
<1>4. parser'[t] = k BY <1>1 DEF Parser, Types, PipesOK
<1>5. Scope(t)' = Scope(t) /\ Current(t)' = Current(t) BY <1>2 DEF Scope, Current, Now
<1>6. Attached(t)' BY <1>1, <1>2, <1>5 DEF Sync, Attached, Busy
<1>7. Known(t)' BY <1>1, <1>2, <1>5 DEF Sync, Known
<1>8. Piped(t)' BY <1>2, <1>4, <1>5 DEF Piped
<1>9. Finished(t)' /\ Newer(t)' BY <1>2 DEF Finished, Newer
<1>10. Sync(t)' BY <1>6, <1>7, <1>8, <1>9 DEF Sync
<1> QED BY <1>3, <1>10

LEMMA ReadLineInv ==
  ASSUME Inv, NEW t \in Task, ReadLine(t)
  PROVE  RecordsSound' /\ Sync(t)'
<1>1. PICK p : p = parser[t] OBVIOUS
<1>2. p.at = "read" /\ p.out = <<>> /\ p.file # <<>> BY <1>1 DEF ReadLine
<1>3. /\ Types /\ Sync(t) /\ task[t].pc = "write" /\ Busy(t) /\ Scope(t) \in SUBSET Row
      /\ PipeOK(Scope(t), table, channel[t], p, task[t].end)
  BY <1>1, <1>2, Parsing
<1>4. p \in ParserRec /\ p.file \in Seq(Row) BY <1>1, <1>3, PipeFacts
<1>5. Head(p.file) \in Row BY <1>2, <1>4
<1>6. PICK r : r = Head(p.file) OBVIOUS
<1>7. channel'[t] = channel[t] BY DEF ReadLine
<1>8. CASE Passed(t, r)
  <2>1. PICK f : f = Tail(p.file) OBVIOUS
  <2>2. PICK k : k = [p EXCEPT !.file = f] OBVIOUS
  <2>3. f \in Seq(Row) BY <1>2, <1>4, <2>1
  <2>4. /\ k \in ParserRec /\ k.at = p.at /\ k.file = f /\ k.out = p.out
        /\ k.batch = p.batch /\ k.last = p.last
    BY <1>4, <2>2, <2>3 DEF ParserRec
  <2>5. Parser(t, k) BY <1>1, <1>6, <1>8, <2>1, <2>2 DEF ReadLine
  <2>6. r \in Scope(t) => r \in table
    BY <1>3, <1>8 DEF Passed, Sync, Known, Attached
  <2>7. PipeOK(Scope(t), table, channel[t], k, task[t].end)
    BY <1>2, <1>3, <1>4, <1>6, <2>1, <2>4, <2>6, PassPipe
  <2> QED BY <1>3, <1>7, <2>5, <2>7, PipeOnly
<1>9. CASE ~Passed(t, r)
  <2>1. PICK k : k = Taken(p, r) OBVIOUS
  <2>2. Parser(t, k) BY <1>1, <1>6, <1>9, <2>1 DEF ReadLine
  <2>3. /\ k \in ParserRec /\ k.at = p.at /\ k.file = Tail(p.file) /\ k.last = Key[r]
        /\ \/ Rested(k, p.batch \cup {r})
           \/ Batched(k, p.batch \cup {r})
           \/ Checked(k, p.batch \cup {r})
    BY <1>2, <1>4, <1>5, <1>6, <2>1, TakenFacts
  <2>4. PipeOK(Scope(t), table, channel[t], k, task[t].end)
    BY <1>2, <1>3, <1>4, <1>6, <2>3, TakePipe
  <2> QED BY <1>3, <1>7, <2>2, <2>4, PipeOnly
<1> QED BY <1>8, <1>9

LEMMA EndOfFileInv ==
  ASSUME Inv, NEW t \in Task, EndOfFile(t)
  PROVE  RecordsSound' /\ Sync(t)'
<1>1. PICK p : p = parser[t] OBVIOUS
<1>2. p.at = "read" /\ p.out = <<>> /\ p.file = <<>> BY <1>1 DEF EndOfFile
<1>3. /\ Types /\ task[t].pc = "write"
      /\ PipeOK(Scope(t), table, channel[t], p, task[t].end)
  BY <1>1, <1>2, Parsing
<1>4. p \in ParserRec BY <1>1, <1>3, PipeFacts
<1>5. PICK k : k = [p EXCEPT !.at = "end", !.batch = {}, !.out = Last(p)] OBVIOUS
<1>6. k \in ParserRec /\ Ended(k, p) BY <1>4, <1>5, EndedFacts
<1>7. Parser(t, k) /\ channel'[t] = channel[t] BY <1>1, <1>5 DEF EndOfFile
<1>8. PipeOK(Scope(t), table, channel[t], k, task[t].end)
  BY <1>2, <1>3, <1>4, <1>6, EndPipe
<1> QED BY <1>3, <1>7, <1>8, PipeOnly

LEMMA CheckTokenInv ==
  ASSUME Inv, NEW t \in Task, CheckToken(t)
  PROVE  RecordsSound' /\ Sync(t)'
<1>1. PICK p : p = parser[t] OBVIOUS
<1>2. p.out # <<>> /\ Head(p.out).kind = "check" BY <1>1 DEF CheckToken
<1>3. /\ Types /\ task[t].pc = "write"
      /\ PipeOK(Scope(t), table, channel[t], p, task[t].end)
  BY <1>1, <1>2, Parsing
<1>4. p \in ParserRec BY <1>1, <1>3, PipeFacts
<1>5. PICK k : k = IF t \in cancelled
                     THEN [p EXCEPT !.at = "end", !.file = <<>>,
                                    !.out = <<Message("cancelled", {}, p.rows, p.last)>>]
                     ELSE [p EXCEPT !.out = Tail(@)]
  OBVIOUS
<1>6. Parser(t, k) /\ channel'[t] = channel[t] BY <1>1, <1>5 DEF CheckToken
<1>7. /\ k \in ParserRec /\ k.batch = p.batch /\ k.last = p.last
      /\ \/ /\ k.at = "end" /\ k.file = <<>>
            /\ k.out = <<Message("cancelled", {}, p.rows, p.last)>>
         \/ k.at = p.at /\ k.file = p.file /\ k.out = Tail(p.out)
  <2>1. CASE t \in cancelled BY <1>4, <1>5, <2>1, CutFacts
  <2>2. CASE t \notin cancelled BY <1>2, <1>4, <1>5, <2>2, TailFacts
  <2> QED BY <2>1, <2>2
<1>8. PipeOK(Scope(t), table, channel[t], k, task[t].end)
  BY <1>2, <1>3, <1>4, <1>7, CheckPipe
<1> QED BY <1>3, <1>6, <1>8, PipeOnly

LEMMA SendInv ==
  ASSUME Inv, NEW t \in Task, Send(t)
  PROVE  RecordsSound' /\ Sync(t)'
<1>1. PICK p : p = parser[t] OBVIOUS
<1>2. p.out # <<>> /\ Head(p.out).kind # "check" BY <1>1 DEF Send
<1>3. /\ Types /\ task[t].pc = "write" /\ Scope(t) \in SUBSET Row
      /\ PipeOK(Scope(t), table, channel[t], p, task[t].end)
  BY <1>1, <1>2, Parsing
<1>4. p \in ParserRec /\ channel[t] \in Seq(Messages) BY <1>1, <1>3, PipeFacts, SentFacts
<1>5. PICK k : k = IF p.at = "end" /\ Len(p.out) = 1 THEN Off ELSE [p EXCEPT !.out = Tail(@)]
  OBVIOUS
<1>6. PICK d : d = Append(channel[t], Head(p.out)) OBVIOUS
<1>7. Parser(t, k) BY <1>1, <1>5 DEF Send
<1>8. channel'[t] = d BY <1>1, <1>3, <1>6 DEF Send, Types, PipesOK
<1>9. /\ k \in ParserRec
      /\ \/ p.at = "end" /\ Len(p.out) = 1 /\ k = Off
         \/ /\ k.at = p.at /\ k.file = p.file /\ k.batch = p.batch /\ k.last = p.last
            /\ k.out = Tail(p.out)
  <2>1. CASE p.at = "end" /\ Len(p.out) = 1 BY <1>5, <2>1, OffFacts
  <2>2. CASE ~(p.at = "end" /\ Len(p.out) = 1) BY <1>2, <1>4, <1>5, <2>2, TailFacts
  <2> QED BY <2>1, <2>2
<1>10. PipeOK(Scope(t), table, d, k, task[t].end)
  <2>1. PICK S, T, c, e : S = Scope(t) /\ T = table /\ c = channel[t] /\ e = task[t].end
    OBVIOUS
  <2>2. S \in SUBSET Row /\ c \in Seq(Messages) /\ PipeOK(S, T, c, p, e) /\ d = Append(c, Head(p.out))
    BY <1>3, <1>4, <1>6, <2>1
  <2>3. PipeOK(S, T, d, k, e)
    <3>1. CASE p.at = "end" /\ Len(p.out) = 1 /\ k = Off
      BY <1>2, <1>4, <1>9, <2>2, <3>1, SendPipe
    <3>2. CASE /\ k.at = p.at /\ k.file = p.file /\ k.batch = p.batch /\ k.last = p.last
               /\ k.out = Tail(p.out)
      BY <1>2, <1>4, <1>9, <2>2, <3>2, SendPipe
    <3> QED BY <1>9, <3>1, <3>2
  <2> QED BY <2>1, <2>3
<1> QED BY <1>3, <1>7, <1>8, <1>10, PipeOnly

---------------------------------------------------------------------------
(* The invariant: the writer behind the channel *)

\* A step of the writer at the channel, or away from it: the record may be marked.
LEMMA OwnInv ==
  ASSUME Inv, NEW t \in Task, Busy(t), NEW y, Set(t, y),
         y.todo = task[t].todo, y.id = task[t].id, y.from = task[t].from,
         y.known = task[t].known, y.pc \in {"write", "recreate"},
         y.pc = "write" => task[t].pc = "write",
         Fits, table \subseteq table', extracted' = extracted,
         records'[Now(t)][task[t].id].status # "completed",
         \A r \in Scope(t) : Key[r] <= y.last => r \in table',
         y.pc = "write" => PipeOK(Scope(t), table', channel'[t], parser'[t], y.end),
         y.pc = "recreate" => parser'[t] = Off /\ channel'[t] = <<>>,
         y.pc = "recreate" /\ y.end = "completed" => Scope(t) \subseteq table'
  PROVE  RecordsSound' /\ Sync(t)'
<1>1. Types /\ Sync(t) BY DEF Inv
<1>2. Now(t) \in Dataset /\ task[t].id \in DOMAIN records[Now(t)] BY <1>1, BusyFacts
<1>3. RecordsSound' BY FitsSound DEF Inv
<1>4. task'[t] = y BY <1>1 DEF Set, Types, TasksOK
<1>5. Now(t)' = Now(t) /\ Current(t)' = records'[Now(t)][task[t].id]
  BY <1>4 DEF Now, Current
<1>6. Scope(t)' = Scope(t)
  <2>1. records'[Now(t)][task[t].id].scope = records[Now(t)][task[t].id].scope
    BY <1>2 DEF Fits
  <2> QED BY <1>5, <2>1 DEF Scope, Current
<1>7. Attached(t)'
  <2>1. \A r \in Scope(t) : Key[r] <= task[t].from => r \in table'
    BY <1>1 DEF Sync, Attached
  <2>2. y.pc \notin Early BY DEF Early
  <2> QED BY <1>4, <1>5, <1>6, <2>1, <2>2 DEF Attached
<1>8. Known(t)'
  <2>1. y.known \subseteq table' BY <1>1 DEF Sync, Known
  <2>2. y.pc = "write" => \A r \in Scope(t) : Kept(y.known, r) BY <1>1 DEF Sync, Known
  <2> QED BY <1>4, <1>6, <2>1, <2>2 DEF Known
<1>9. Piped(t)' BY <1>4, <1>6 DEF Piped
<1>10. Finished(t)' BY <1>4, <1>6 DEF Finished
<1>11. Newer(t)' BY <1>4 DEF Newer
<1>12. Sync(t)' BY <1>7, <1>8, <1>9, <1>10, <1>11 DEF Sync
<1> QED BY <1>3, <1>12

\* A checkpoint that covers stored rows only fits.
LEMMA MarkedFits ==
  ASSUME Types, NEW t \in Task, Busy(t), NEW n \in Nat, NEW id \in Nat,
         UNCHANGED <<cache, synced>>, table' \subseteq Row, records' = Marked(t, n, id),
         \A r \in Scope(t) : Key[r] <= id => r \in table'
  PROVE  /\ Fits
         /\ records'[Now(t)][task[t].id].status = Current(t).status
<1>1. Now(t) \in Dataset /\ task[t].id \in DOMAIN records[Now(t)] BY BusyFacts
<1>2. \A d \in Dataset :
        /\ DOMAIN records'[d] = DOMAIN records[d]
        /\ \A i \in DOMAIN records[d] :
             /\ records'[d][i].scope = records[d][i].scope
             /\ records'[d][i].status = records[d][i].status
             /\ \/ records'[d][i].mark = records[d][i].mark
                \/ d = Now(t) /\ i = task[t].id /\ records'[d][i].mark = id
  BY MarkedFacts
<1>3. ASSUME NEW d \in Dataset, NEW i \in DOMAIN records[d]
      PROVE  \A r \in records[d][i].scope :
               Key[r] <= records'[d][i].mark => r \in table' \/ Key[r] <= records[d][i].mark
  <2>1. CASE records'[d][i].mark = records[d][i].mark BY <2>1
  <2>2. CASE d = Now(t) /\ i = task[t].id /\ records'[d][i].mark = id
    BY <2>2 DEF Scope, Current
  <2> QED BY <1>2, <2>1, <2>2
<1>4. Fits BY <1>2, <1>3 DEF Fits
<1> QED BY <1>1, <1>2, <1>4 DEF Current

LEMMA ReceiveInv ==
  ASSUME Inv, NEW t \in Task, NEW ok \in BOOLEAN, Receive(t, ok)
  PROVE  RecordsSound' /\ Sync(t)'
<1>1. /\ Types /\ Sync(t) /\ Busy(t) /\ task[t].pc = "write" /\ channel[t] # <<>>
      /\ task[t] \in TaskRec
  BY ReceiveCases, BusyFacts DEF Inv
<1>2. /\ Now(t) \in Dataset /\ task[t].id \in DOMAIN records[Now(t)]
      /\ channel[t] \in Seq(Messages)
  BY <1>1, BusyFacts, PipeFacts, SentFacts
<1>3. /\ Current(t).status # "completed"
      /\ \A r \in Scope(t) : Key[r] <= task[t].last => r \in table
      /\ PipeOK(Scope(t), table, channel[t], parser[t], task[t].end)
  BY <1>1 DEF Sync, Attached, Piped
<1>4. extracted' = extracted /\ UNCHANGED <<cache, synced>> BY DEF Receive, files, lines
<1>5. CASE /\ channel' = [channel EXCEPT ![t] = <<>>]
           /\ parser' = [parser EXCEPT ![t] = Off]
           /\ Set(t, Leave(t, "failed")) /\ UNCHANGED <<table, records>>
  <2>1. PICK y : y = Leave(t, "failed") OBVIOUS
  <2>2. /\ y.pc = "recreate" /\ y.end = "failed" /\ y.todo = task[t].todo /\ y.id = task[t].id
        /\ y.from = task[t].from /\ y.last = task[t].last /\ y.known = task[t].known
    BY <1>1, <2>1 DEF Leave, TaskRec
  <2>3. parser'[t] = Off /\ channel'[t] = <<>> BY <1>1, <1>5 DEF Types, PipesOK
  <2>4. records'[Now(t)][task[t].id].status # "completed" BY <1>3, <1>5 DEF Current
  <2>5. Fits BY <1>5, SameFits
  <2> QED BY <1>1, <1>3, <1>4, <1>5, <2>1, <2>2, <2>3, <2>4, <2>5, OwnInv
<1>6. ASSUME NEW m \in Sent, NEW y \in TaskRec,
             m = Head(channel[t]),
             channel' = [channel EXCEPT ![t] = Tail(@)], parser' = parser,
             table' = table \cup m.rows, table' \subseteq Row,
             records' = IF m.kind = "progress" THEN Marked(t, m.count, m.id) ELSE records,
             Set(t, y), y.pc = "write", y.todo = task[t].todo, y.id = task[t].id,
             y.from = task[t].from, y.known = task[t].known,
             y.end = IF m.kind = "cancelled" THEN "cancelled" ELSE task[t].end,
             y.last = IF m.kind \in {"cancelled", "progress"} THEN m.id ELSE task[t].last
      PROVE  RecordsSound' /\ Sync(t)'
  <2>1. PICK d : d = Tail(channel[t]) OBVIOUS
  <2>2. channel'[t] = d BY <1>1, <1>6, <2>1 DEF Types, PipesOK
  <2>3. /\ PipeOK(Scope(t), table', d, parser[t], y.end)
        /\ m.kind \in Marks => \A r \in Scope(t) : Key[r] <= m.id => r \in table
    <3>1. PICK S, T, c, q, e, f : /\ S = Scope(t) /\ T = table /\ c = channel[t] /\ q = parser[t]
                                  /\ e = task[t].end /\ f = y.end
      OBVIOUS
    <3>2. /\ c \in Seq(Messages) /\ c # <<>> /\ PipeOK(S, T, c, q, e) /\ d = Tail(c) /\ m = Head(c)
          /\ f = IF m.kind = "cancelled" THEN "cancelled" ELSE e
      BY <1>1, <1>2, <1>3, <1>6, <2>1, <3>1
    <3>3. /\ PipeOK(S, T \cup m.rows, d, q, f)
          /\ m.kind \in Marks => \A r \in S : Key[r] <= m.id => r \in T
      BY <3>2, ReceivePipe
    <3> QED BY <1>6, <3>1, <3>3
  <2>4. table \subseteq table' BY <1>6
  <2>5. Fits /\ records'[Now(t)][task[t].id].status = Current(t).status
    <3>1. CASE m.kind = "progress"
      <4>1. m.count \in Nat /\ m.id \in Nat BY DEF Sent, Messages
      <4>2. records' = Marked(t, m.count, m.id) BY <1>6, <3>1
      <4>3. \A r \in Scope(t) : Key[r] <= m.id => r \in table'
        BY <2>3, <2>4, <3>1 DEF Marks
      <4> QED BY <1>1, <1>4, <1>6, <4>1, <4>2, <4>3, MarkedFits
    <3>2. CASE m.kind # "progress"
      <4>1. records' = records BY <1>6, <3>2
      <4> QED BY <4>1, <2>4 DEF Fits, Current
    <3> QED BY <3>1, <3>2
  <2>6. \A r \in Scope(t) : Key[r] <= y.last => r \in table'
    BY <1>3, <1>6, <2>3, <2>4 DEF Marks
  <2>7. PipeOK(Scope(t), table', channel'[t], parser'[t], y.end) BY <1>6, <2>2, <2>3
  <2> QED BY <1>1, <1>3, <1>4, <1>6, <2>4, <2>5, <2>6, <2>7, OwnInv
<1>7. \/ /\ channel' = [channel EXCEPT ![t] = <<>>]
         /\ parser' = [parser EXCEPT ![t] = Off]
         /\ Set(t, Leave(t, "failed")) /\ UNCHANGED <<table, records>>
      \/ \E m \in Sent, y \in TaskRec :
           /\ m = Head(channel[t])
           /\ channel' = [channel EXCEPT ![t] = Tail(@)] /\ parser' = parser
           /\ table' = table \cup m.rows /\ table' \subseteq Row
           /\ records' = IF m.kind = "progress" THEN Marked(t, m.count, m.id) ELSE records
           /\ Set(t, y) /\ y.pc = "write" /\ y.todo = task[t].todo /\ y.id = task[t].id
           /\ y.from = task[t].from /\ y.known = task[t].known
           /\ y.end = IF m.kind = "cancelled" THEN "cancelled" ELSE task[t].end
           /\ y.last = IF m.kind \in {"cancelled", "progress"} THEN m.id ELSE task[t].last
  BY <1>1, ReceiveCases
<1> QED BY <1>5, <1>6, <1>7

\* A drained pipe of a sync that was not cut has put the scope into the table.
LEMMA DrainedPipe ==
  ASSUME NEW S, NEW T, NEW p, p.at = "off", PipeOK(S, T, <<>>, p, "completed")
  PROVE  p = Off /\ S \subseteq T
<1>1. p = Off BY DEF PipeOK, ShapeOK
<1>2. p.out = <<>> /\ p.batch = {} /\ p.file = <<>> BY <1>1 DEF Off
<1>3. Cover(T, <<>>, p) = T BY <1>2, AllFacts DEF Cover
<1>4. ~Cut(<<>>, p, "completed") BY <1>2 DEF Cut
<1>5. S \subseteq T \cup RowsOf(<<>>) BY <1>2, <1>3, <1>4 DEF PipeOK, FlowOK
<1> QED BY <1>1, <1>5 DEF RowsOf

LEMMA DrainedInv ==
  ASSUME Inv, NEW t \in Task, NEW ok \in BOOLEAN, Drained(t, ok)
  PROVE  RecordsSound' /\ Sync(t)'
<1>1. /\ Types /\ Sync(t) /\ Busy(t) /\ task[t].pc = "write" /\ task[t] \in TaskRec
  BY BusyFacts DEF Inv, Drained, Busy
<1>2. /\ Current(t).status # "completed"
      /\ \A r \in Scope(t) : Key[r] <= task[t].last => r \in table
      /\ PipeOK(Scope(t), table, <<>>, parser[t], task[t].end)
      /\ parser[t].at = "off" /\ channel[t] = <<>>
  BY <1>1 DEF Sync, Attached, Piped, Drained, HungUp
<1>3. /\ UNCHANGED <<cache, synced, table, extracted, parser, channel>> /\ table' \subseteq Row
  BY <1>1 DEF Drained, files, lines, pipe, Types, HistoryOK
<1>4. task[t].rows \in Nat /\ task[t].last \in Nat BY <1>1 DEF TaskRec
<1>5. PICK how : how = IF ok THEN task[t].end ELSE "failed" OBVIOUS
<1>6. PICK y : y = Leave(t, how) OBVIOUS
<1>7. Set(t, y) BY <1>5, <1>6 DEF Drained
<1>8. /\ y.pc = "recreate" /\ y.end = how /\ y.todo = task[t].todo /\ y.id = task[t].id
      /\ y.from = task[t].from /\ y.last = task[t].last /\ y.known = task[t].known
  BY <1>1, <1>6 DEF Leave, TaskRec
<1>9. Fits /\ records'[Now(t)][task[t].id].status = Current(t).status
  <2>1. CASE ok
    <3>1. records' = Marked(t, task[t].rows, task[t].last) BY <2>1 DEF Drained
    <3> QED BY <1>1, <1>2, <1>3, <1>4, <3>1, MarkedFits
  <2>2. CASE ~ok
    <3>1. records' = records BY <2>2 DEF Drained
    <3> QED BY <1>3, <3>1, SameFits DEF Current
  <2> QED BY <2>1, <2>2
<1>10. parser[t] = Off BY <1>2 DEF PipeOK, ShapeOK
<1>11. y.end = "completed" => Scope(t) \subseteq table
  <2> SUFFICES ASSUME y.end = "completed" PROVE Scope(t) \subseteq table OBVIOUS
  <2>1. task[t].end = "completed" BY <1>5, <1>8
  <2> QED BY <1>2, <2>1, DrainedPipe
<1> QED BY <1>1, <1>2, <1>3, <1>7, <1>8, <1>9, <1>10, <1>11, OwnInv

LEMMA RecreateInv ==
  ASSUME Inv, NEW t \in Task, NEW ok \in BOOLEAN, RecreateIndexes(t, ok)
  PROVE  RecordsSound' /\ Sync(t)'
<1>1. /\ Types /\ Sync(t) /\ Busy(t) /\ task[t].pc = "recreate" /\ task[t] \in TaskRec
  BY BusyFacts DEF Inv, RecreateIndexes, Busy
<1>2. UNCHANGED pipe /\ UNCHANGED <<records, table, extracted>>
  BY DEF RecreateIndexes, history, lines
<1>3. CASE ok
  <2>1. PICK y : y = [task[t] EXCEPT !.pc = "close"] OBVIOUS
  <2>2. /\ y.pc = "close" /\ y.todo = task[t].todo /\ y.id = task[t].id /\ y.from = task[t].from
        /\ y.last = task[t].last /\ y.known = task[t].known /\ y.end = task[t].end
    BY <1>1, <2>1 DEF TaskRec
  <2>3. Set(t, y) BY <1>3, <2>1 DEF RecreateIndexes
  <2>4. /\ y.known \subseteq table
        /\ y.end = "completed" => Scope(t) \subseteq table
    BY <1>1, <2>2 DEF Sync, Known, Finished
  <2> QED BY <1>1, <1>2, <2>2, <2>3, <2>4, MovedInv DEF Early
<1>4. CASE ~ok
  <2>1. Set(t, RestOf(t)) BY <1>4 DEF RecreateIndexes
  <2> QED BY <1>1, <1>2, <2>1, SameFits, RestInv
<1> QED BY <1>3, <1>4

LEMMA CloseInv ==
  ASSUME Inv, NEW t \in Task, NEW ok \in BOOLEAN, Close(t, ok)
  PROVE  RecordsSound' /\ Sync(t)'
<1>1. Types /\ Sync(t) /\ task[t].pc = "close" BY DEF Inv, Close
<1>2. UNCHANGED pipe /\ UNCHANGED <<extracted, table>> /\ Set(t, RestOf(t)) BY DEF Close, lines
<1>3. \A d \in Dataset :
        /\ DOMAIN records'[d] = DOMAIN records[d]
        /\ \A i \in DOMAIN records[d] :
             /\ records'[d][i].scope = records[d][i].scope
             /\ records'[d][i].mark = records[d][i].mark
             /\ \/ records'[d][i].status = records[d][i].status
                \/ d = Now(t) /\ i = task[t].id /\ records'[d][i].status = task[t].end
  BY <1>1, CloseFacts
<1>4. task[t].end = "completed" => records[Now(t)][task[t].id].scope \subseteq table'
  BY <1>1, <1>2 DEF Sync, Finished, Scope, Current
<1>5. ASSUME NEW d \in Dataset, NEW i \in DOMAIN records[d]
      PROVE  records'[d][i].status = "completed" =>
               records[d][i].status = "completed" \/ records[d][i].scope \subseteq table'
  BY <1>3, <1>4
<1>6. Fits BY <1>3, <1>5 DEF Fits
<1> QED BY <1>1, <1>2, <1>6, RestInv

---------------------------------------------------------------------------
(* The invariant: the run, and the rest of the service *)

LEMMA ResolveInv ==
  ASSUME Inv, NEW t \in Task, NEW ok \in BOOLEAN, Resolve(t, ok)
  PROVE  RecordsSound' /\ Sync(t)'
<1>1. Types /\ Sync(t) /\ task[t].pc = "resolve" /\ task[t] \in TaskRec
  BY BusyFacts DEF Inv, Resolve
<1>2. UNCHANGED pipe /\ UNCHANGED <<records, table, extracted>> BY DEF Resolve, history, lines
<1>3. CASE ok
  <2>1. PICK y : y = [task[t] EXCEPT !.pc = "next"] OBVIOUS
  <2>2. y.pc = "next" /\ y.known = task[t].known BY <1>1, <2>1 DEF TaskRec
  <2>3. Set(t, y) BY <1>3, <2>1 DEF Resolve
  <2>4. y.known \subseteq table' BY <1>1, <1>2, <2>2 DEF Sync, Known
  <2>5. Sync(t)' BY <1>1, <1>2, <2>2, <2>3, <2>4, NothingPiped, RestSync
  <2>6. RecordsSound' BY <1>2, SameFits, FitsSound DEF Inv
  <2> QED BY <2>5, <2>6
<1>4. CASE ~ok
  <2>1. Set(t, Idle) BY <1>4 DEF Resolve
  <2> QED BY <1>1, <1>2, <2>1, SameFits, RestInv
<1> QED BY <1>3, <1>4

LEMMA TurnInv ==
  ASSUME Inv, NEW t \in Task, EndRun(t) \/ Skip(t)
  PROVE  RecordsSound' /\ Sync(t)'
<1>1. task[t].pc = "next" BY DEF EndRun, Skip, Turn
<1>2. \E y \in {Idle, RestOf(t)} : Set(t, y) BY DEF EndRun, Skip
<1>3. UNCHANGED pipe /\ UNCHANGED <<records, table, extracted>>
  BY DEF EndRun, Skip, history, lines
<1> QED BY <1>1, <1>2, <1>3, SameFits, RestInv

\* A restart fails the running records and leaves no task.
LEMMA RestartInv ==
  ASSUME Inv, Restart
  PROVE  RecordsSound' /\ \A t \in Task : Sync(t)'
<1>1. Fits BY UnstaleFits DEF Restart, Inv
<1>2. RecordsSound' BY <1>1, FitsSound DEF Restart, Inv, lines
<1>3. ASSUME NEW t \in Task PROVE Sync(t)'
  <2>1. task'[t] = Idle /\ parser'[t] = Off /\ channel'[t] = <<>> BY DEF Restart
  <2>2. task'[t].pc = "idle" /\ task'[t].known = {} BY <2>1, RestKnown
  <2> QED BY <2>1, <2>2 DEF Sync, Attached, Busy, Known, Piped, Finished, Newer
<1> QED BY <1>2, <1>3

\* The loader and the world touch archives only.
LEMMA ArchiveInv ==
  ASSUME Inv,
         \/ \E ds \in Request : StartDownload(ds)
         \/ \E ok \in BOOLEAN : LoaderResolve(ok)
         \/ LoaderNext \/ \E how \in Outcome : LoaderGet(how)
         \/ \E d \in Dataset : NewVersion(d) \/ DayPasses(d)
         \/ UNCHANGED vars
  PROVE  RecordsSound' /\ \A t \in Task : Sync(t)'
<1>1. CASE \E ds \in Request : StartDownload(ds)
  BY <1>1, SameInv DEF StartDownload, history, lines, pipe
<1>2. CASE \E ok \in BOOLEAN : LoaderResolve(ok)
  BY <1>2, SameInv DEF LoaderResolve, Load, history, lines, pipe
<1>3. CASE LoaderNext BY <1>3, SameInv DEF LoaderNext, Load, history, lines, pipe
<1>4. CASE \E how \in Outcome : LoaderGet(how)
  BY <1>4, SameInv DEF LoaderGet, Load, Downloaded, history, lines, pipe
<1>5. CASE \E d \in Dataset : NewVersion(d) \/ DayPasses(d)
  BY <1>5, SameInv DEF NewVersion, DayPasses, history, lines, pipe
<1>6. CASE UNCHANGED vars BY <1>6, SameInv DEF vars
<1> QED BY <1>1, <1>2, <1>3, <1>4, <1>5, <1>6

\* A task that takes a step is active, and touches no other.
LEMMA LoneSteps ==
  ASSUME Inv, NEW t \in Task, WriterStep(t) \/ ParserStep(t)
  PROVE  /\ t \in Active /\ table \subseteq table'
         /\ \A u \in Task : u # t =>
              task'[u] = task[u] /\ parser'[u] = parser[u] /\ channel'[u] = channel[u]
<1> DEFINE Own == /\ t \in Active /\ table \subseteq table'
                  /\ task' = task \/ \E y : Set(t, y)
                  /\ parser' = parser \/ \E k : parser' = [parser EXCEPT ![t] = k]
                  /\ channel' = channel \/ \E b : channel' = [channel EXCEPT ![t] = b]
<1>1. Types BY DEF Inv
<1>2. ASSUME ParserStep(t) PROVE Own
  <2>1. parser[t].at = "read" \/ parser[t].out # <<>>
    BY <1>2 DEF ParserStep, ReadLine, EndOfFile, CheckToken, Send
  <2>2. t \in Active BY <2>1, Parsing DEF Active
  <2>3. /\ task' = task /\ table' = table
        /\ \E k : parser' = [parser EXCEPT ![t] = k]
    BY <1>2 DEF ParserStep, ReadLine, EndOfFile, CheckToken, Send, Parser
  <2>4. channel' = channel \/ \E b : channel' = [channel EXCEPT ![t] = b]
    BY <1>2 DEF ParserStep, ReadLine, EndOfFile, CheckToken, Send
  <2> QED BY <2>2, <2>3, <2>4
<1>3. ASSUME WriterStep(t) PROVE Own
  <2>1. ASSUME EndRun(t) \/ Skip(t) \/ Fetch(t) PROVE Own
    BY <2>1 DEF EndRun, Skip, Fetch, Turn, Active, pipe
  <2>2. ASSUME Extract(t) PROVE Own
    <3>1. t \in Active /\ table' = table /\ channel' = channel BY <2>2 DEF Extract, Active
    <3>2. ASSUME \E v : Opened(t, v) PROVE Own BY <3>1, <3>2 DEF Opened
    <3>3. ASSUME (\E y : Set(t, y)) /\ parser' = parser PROVE Own BY <3>1, <3>3
    <3>4. (\E v : Opened(t, v)) \/ ((\E y : Set(t, y)) /\ parser' = parser)
      BY <2>2 DEF Extract
    <3> QED BY <3>2, <3>3, <3>4
  <2>3. ASSUME Unpack(t) PROVE Own
    BY <2>3 DEF Unpack, Opened, Active
  <2>4. ASSUME NEW how \in Outcome, Download(t, how) PROVE Own
    BY <2>4 DEF Download, Active, pipe
  <2>5. ASSUME NEW ok \in BOOLEAN, Resolve(t, ok) \/ DropIndexes(t, ok) \/ Drained(t, ok)
        PROVE  Own
    BY <2>5 DEF Resolve, DropIndexes, Drained, Active, pipe
  <2>6. ASSUME NEW ok \in BOOLEAN, RecreateIndexes(t, ok) \/ Close(t, ok) PROVE Own
    BY <2>6 DEF RecreateIndexes, Close, Active, pipe
  <2>7. ASSUME NEW ok \in BOOLEAN, Begin(t, ok) PROVE Own
    BY <2>7 DEF Begin, Attempt, Turn, Active, pipe
  <2>8. ASSUME NEW ok \in BOOLEAN, Receive(t, ok) PROVE Own
    <3>1. t \in Active BY <2>8 DEF Receive, Active
    <3>2. table \subseteq table' BY <2>8 DEF Receive
    <3>3. \E y : Set(t, y) BY <2>8 DEF Receive
    <3>4. /\ parser' = parser \/ \E k : parser' = [parser EXCEPT ![t] = k]
          /\ \E b : channel' = [channel EXCEPT ![t] = b]
      BY <2>8 DEF Receive
    <3> QED BY <3>1, <3>2, <3>3, <3>4
  <2> QED BY <1>3, <2>1, <2>2, <2>3, <2>4, <2>5, <2>6, <2>7, <2>8 DEF WriterStep
<1>4. Own BY <1>2, <1>3
<1>5. ASSUME NEW u \in Task, u # t
      PROVE  task'[u] = task[u] /\ parser'[u] = parser[u] /\ channel'[u] = channel[u]
  <2>1. DOMAIN task = Task /\ DOMAIN parser = Task /\ DOMAIN channel = Task
    BY <1>1 DEF Types, TasksOK, PipesOK
  <2>2. task'[u] = task[u] BY <1>4, <1>5, <2>1 DEF Set
  <2>3. parser'[u] = parser[u] BY <1>4, <1>5, <2>1
  <2>4. channel'[u] = channel[u] BY <1>4, <1>5, <2>1
  <2> QED BY <2>2, <2>3, <2>4
<1> QED BY <1>4, <1>5

LEMMA StepInv ==
  ASSUME Inv, Alone, Alone', [Next]_vars
  PROVE  Inv'
<1> DEFINE Goal == RecordsSound' /\ \A u \in Task : Sync(u)'
<1>1. ASSUME NEW ds \in Request, StartSync(ds) \/ StartProcess(ds) PROVE Goal
  BY <1>1, SpawnSync DEF StartSync, StartProcess
<1>2. ASSUME NEW t \in Task, WriterStep(t) PROVE RecordsSound' /\ Sync(t)'
  <2>1. CASE EndRun(t) \/ Skip(t) BY <2>1, TurnInv
  <2>2. CASE Fetch(t) \/ Extract(t) \/ Unpack(t) BY <2>2, FetchInv, ExtractInv, UnpackInv
  <2>3. ASSUME NEW how \in Outcome, Download(t, how) PROVE RecordsSound' /\ Sync(t)'
    BY <2>3, DownloadInv
  <2>4. ASSUME NEW ok \in BOOLEAN, Resolve(t, ok) \/ Begin(t, ok) \/ DropIndexes(t, ok)
        PROVE  RecordsSound' /\ Sync(t)'
    BY <2>4, ResolveInv, BeginInv, DropIndexesInv
  <2>5. ASSUME NEW ok \in BOOLEAN,
               \/ Receive(t, ok) \/ Drained(t, ok)
               \/ RecreateIndexes(t, ok) \/ Close(t, ok)
        PROVE  RecordsSound' /\ Sync(t)'
    BY <2>5, ReceiveInv, DrainedInv, RecreateInv, CloseInv
  <2> QED BY <1>2, <2>1, <2>2, <2>3, <2>4, <2>5 DEF WriterStep
<1>3. ASSUME NEW t \in Task, WriterStep(t) \/ ParserStep(t) PROVE Goal
  <2>1. ASSUME ParserStep(t) PROVE RecordsSound' /\ Sync(t)'
    BY <2>1, ReadLineInv, EndOfFileInv, CheckTokenInv, SendInv DEF ParserStep
  <2>2. RecordsSound' /\ Sync(t)' BY <1>2, <1>3, <2>1
  <2>3. ASSUME NEW u \in Task, u # t PROVE Sync(u)'
    <3>1. /\ t \in Active /\ table \subseteq table'
          /\ task'[u] = task[u] /\ parser'[u] = parser[u] /\ channel'[u] = channel[u]
      BY <1>3, <2>3, LoneSteps
    <3>2. task[u].pc = "idle" BY <2>3, <3>1 DEF Alone, Active
    <3> QED BY <3>1, <3>2, IdleSync
  <2> QED BY <2>2, <2>3
<1>4. ASSUME CancelSync PROVE Goal BY <1>4, CancelInv
<1>5. ASSUME Restart PROVE Goal BY <1>5, RestartInv
<1>6. Types' BY StepTypes DEF Inv
<1>7. Goal
  <2>1. \/ \E ds \in Request : StartDownload(ds)
        \/ \E ok \in BOOLEAN : LoaderResolve(ok)
        \/ LoaderNext \/ \E how \in Outcome : LoaderGet(how)
        \/ \E d \in Dataset : NewVersion(d) \/ DayPasses(d)
        \/ UNCHANGED vars
        \/ \E ds \in Request : StartSync(ds) \/ StartProcess(ds)
        \/ \E t \in Task : WriterStep(t) \/ ParserStep(t)
        \/ CancelSync \/ Restart
    BY DEF Next
  <2> QED BY <2>1, <1>1, <1>3, <1>4, <1>5, ArchiveInv
<1> QED BY <1>6, <1>7 DEF Inv

LEMMA InitInv == Init => Inv
<1> SUFFICES ASSUME Init PROVE Inv OBVIOUS
<1>1. Types BY InitTypes
<1>2. RecordsSound BY DEF Init, RecordsSound
<1>3. ASSUME NEW t \in Task PROVE Sync(t)
  <2>1. task[t] = Idle /\ parser[t] = Off /\ channel[t] = <<>> BY <1>3 DEF Init
  <2>2. task[t].pc = "idle" /\ task[t].known = {} BY <2>1, RestKnown
  <2> QED BY <2>1, <2>2 DEF Sync, Attached, Busy, Known, Piped, Finished, Newer
<1> QED BY <1>1, <1>2, <1>3 DEF Inv

LEMMA InvMeans == Inv => MarkNotAhead /\ CompletedIsStored
<1> SUFFICES ASSUME Inv, NEW d \in Dataset, NEW i \in DOMAIN records[d]
             PROVE  /\ \A r \in records[d][i].scope : Key[r] <= records[d][i].mark => r \in table
                    /\ records[d][i].status = "completed" => records[d][i].scope \subseteq table
  BY DEF MarkNotAhead, CompletedIsStored
<1>1. Sound(records[d][i], d, extracted[d], table) BY DEF Inv, RecordsSound
<1> QED BY <1>1 DEF Sound

\* Only finitely many tasks are active: a request starts one.
LEMMA FewActive == Spec => []IsFiniteSet(Active)
<1>1. Init => Types /\ IsFiniteSet(Active)
  <2> SUFFICES ASSUME Init PROVE IsFiniteSet(Active) BY InitTypes
  <2>1. Active = {} BY RestKnown DEF Init, Active
  <2> QED BY <2>1, FS_EmptySet
<1>2. Types /\ IsFiniteSet(Active) /\ [Next]_vars => Types' /\ IsFiniteSet(Active)'
  <2> SUFFICES ASSUME Types, IsFiniteSet(Active), [Next]_vars PROVE IsFiniteSet(Active)'
    BY StepTypes
  <2>1. \E x : Active' \subseteq Active \cup {x}
    <3>1. DOMAIN task = Task BY DEF Types, TasksOK
    <3>2. (\E x \in Task : \E y : Set(x, y)) \/ task' = task \/ Restart
      <4>1. ASSUME NEW t \in Task, WriterStep(t) \/ ParserStep(t)
            PROVE  (\E y : Set(t, y)) \/ task' = task
        <5>1. CASE ParserStep(t)
          BY <5>1 DEF ParserStep, ReadLine, EndOfFile, CheckToken, Send, Parser
        <5>2. CASE WriterStep(t)
          BY <5>2 DEF WriterStep, EndRun, Skip, Fetch, Extract, Unpack, Opened, Download,
                      Resolve, Begin, Attempt, DropIndexes, Receive, Drained, RecreateIndexes, Close
        <5> QED BY <4>1, <5>1, <5>2
      <4>2. ASSUME NEW p \in BOOLEAN, NEW ds \in Request, Spawn(p, ds)
            PROVE  \E x \in Task : \E y : Set(x, y)
        <5>1. \E x \in Task : x \notin Active BY <4>2 DEF Spawn, Active
        <5>2. (CHOOSE x \in Task : x \notin Active) \in Task BY <5>1
        <5> QED BY <4>2, <5>2 DEF Spawn
      <4>3. ASSUME \/ \E ds \in Request : StartDownload(ds)
                   \/ CancelSync \/ LoaderNext
                   \/ \E ok \in BOOLEAN : LoaderResolve(ok)
                   \/ \E how \in Outcome : LoaderGet(how)
                   \/ \E d \in Dataset : NewVersion(d) \/ DayPasses(d)
                   \/ UNCHANGED vars
            PROVE  task' = task
        BY <4>3 DEF StartDownload, CancelSync, LoaderResolve, LoaderNext, LoaderGet, Load,
                    NewVersion, DayPasses, vars
      <4> QED BY <4>1, <4>2, <4>3 DEF Next, StartSync, StartProcess
    <3>3. CASE \E x \in Task : \E y : Set(x, y)
      <4>1. PICK x \in Task : \E y : Set(x, y) BY <3>3
      <4>2. \A u \in Task : u # x => task'[u] = task[u] BY <3>1, <4>1 DEF Set
      <4> QED BY <4>2 DEF Active
    <3>4. CASE task' = task BY <3>4 DEF Active
    <3>5. CASE Restart
      <4>1. Active' = {} BY <3>5, RestKnown DEF Restart, Active
      <4> QED BY <4>1
    <3> QED BY <3>2, <3>3, <3>4, <3>5
  <2>2. PICK x : Active' \subseteq Active \cup {x} BY <2>1
  <2>3. IsFiniteSet(Active \cup {x}) BY FS_AddElement
  <2> QED BY <2>2, <2>3, FS_Subset
<1> QED BY <1>1, <1>2, PTL DEF Spec

LEMMA OneIsAlone ==
  ASSUME IsFiniteSet(Active), OneSyncAtATime
  PROVE  Alone
<1> SUFFICES ASSUME NEW t \in Active, NEW u \in Active, t # u PROVE FALSE BY DEF Alone
<1>1. IsFiniteSet({t}) /\ Cardinality({t}) = 1 BY FS_Singleton
<1>2. Cardinality({t} \cup {u}) = 2
  <2>1. u \notin {t} OBVIOUS
  <2>2. Cardinality({t} \cup {u}) = Cardinality({t}) + 1 BY <1>1, <2>1, FS_AddElement
  <2> QED BY <1>1, <2>2
<1>3. {t} \cup {u} \in SUBSET Active OBVIOUS
<1>4. Cardinality({t} \cup {u}) <= Cardinality(Active) BY <1>3, FS_Subset
<1>5. Cardinality(Active) \in Nat BY FS_CardinalityType
<1> QED BY <1>2, <1>4, <1>5 DEF OneSyncAtATime

LEMMA AloneInvariance == Spec /\ []OneSyncAtATime => []Inv
<1>1. IsFiniteSet(Active) /\ OneSyncAtATime => Alone BY OneIsAlone
<1>2. Inv /\ Alone /\ Alone' /\ [Next]_vars => Inv' BY StepInv
<1> QED BY <1>1, <1>2, InitInv, FewActive, PTL DEF Spec

\* update_sync_progress_with_resume(): as long as the handle tells of the one sync that is
\* active, no checkpoint is ahead of the table, whatever the parser, the channel and the
\* writer were at when a sync was cut, failed or crashed, and over any number of attempts
\* and new dumps.
THEOREM CheckpointsAreStored == Spec /\ []OneSyncAtATime => []MarkNotAhead
BY AloneInvariance, InvMeans, PTL

\* complete_sync(): as long as one sync is active at a time, the rows of a completed record
\* are stored, those that earlier attempts were to store included.
THEOREM CompletedMeansStored == Spec /\ []OneSyncAtATime => []CompletedIsStored
BY AloneInvariance, InvMeans, PTL

---------------------------------------------------------------------------
(* When the handle is enough *)

\* No download is started on its own while a sync is active.
DownloadsWait == \A ds \in Request : StartDownload(ds) => Active = {}
\* The task that is active is the one whose handle is kept.
Handled == Active \subseteq {handle}

LEMMA SpawnHandled ==
  ASSUME Types, Handled, NEW p \in BOOLEAN, NEW ds \in Request, Spawn(p, ds)
  PROVE  Handled'
<1>1. Active = {} BY DEF Spawn, Unfinished, Handled
<1>2. \E x \in Task : x \notin Active BY DEF Spawn, Active
<1>3. PICK t \in Task : t = (CHOOSE x \in Task : x \notin Active) BY <1>2
<1>4. handle' = t /\ \E y : Set(t, y) BY <1>3 DEF Spawn
<1>5. \A u \in Task : u # t => task'[u] = task[u] BY <1>4 DEF Set, Types, TasksOK
<1> QED BY <1>1, <1>4, <1>5 DEF Handled, Active

\* A step of the writer is of an active task, and ends at most this one.
LEMMA WriterHandled ==
  ASSUME Types, Handled, NEW t \in Task, WriterStep(t)
  PROVE  Handled'
<1> DEFINE Own == t \in Active /\ handle' = handle /\ \E y : Set(t, y)
<1>1. Own
  <2>1. ASSUME EndRun(t) \/ Skip(t) \/ Fetch(t) PROVE Own
    BY <2>1 DEF EndRun, Skip, Fetch, Turn, Active, control
  <2>2. ASSUME Extract(t) PROVE Own
    BY <2>2 DEF Extract, Opened, Active, control
  <2>3. ASSUME Unpack(t) PROVE Own
    BY <2>3 DEF Unpack, Opened, Active, control
  <2>4. ASSUME NEW how \in Outcome, Download(t, how) PROVE Own
    BY <2>4 DEF Download, Active, control
  <2>5. ASSUME NEW ok \in BOOLEAN, Resolve(t, ok) \/ DropIndexes(t, ok) \/ Drained(t, ok)
        PROVE  Own
    BY <2>5 DEF Resolve, DropIndexes, Drained, Active, control
  <2>6. ASSUME NEW ok \in BOOLEAN, RecreateIndexes(t, ok) \/ Close(t, ok) PROVE Own
    BY <2>6 DEF RecreateIndexes, Close, Active, control
  <2>7. ASSUME NEW ok \in BOOLEAN, Begin(t, ok) PROVE Own
    BY <2>7 DEF Begin, Attempt, Turn, Active, control
  <2>8. ASSUME NEW ok \in BOOLEAN, Receive(t, ok) PROVE Own
    BY <2>8 DEF Receive, Active, control
  <2> QED BY <2>1, <2>2, <2>3, <2>4, <2>5, <2>6, <2>7, <2>8 DEF WriterStep
<1>2. \A u \in Task : u # t => task'[u] = task[u] BY <1>1 DEF Set, Types, TasksOK
<1>3. Active' \subseteq Active BY <1>1, <1>2 DEF Active
<1> QED BY <1>1, <1>3 DEF Handled

LEMMA StepHandled ==
  ASSUME Types, Handled, [Next]_vars, [DownloadsWait]_vars
  PROVE  Handled'
<1>1. ASSUME task' = task, handle' = handle PROVE Handled' BY <1>1 DEF Handled, Active
<1>2. ASSUME NEW ds \in Request, StartSync(ds) \/ StartProcess(ds) PROVE Handled'
  BY <1>2, SpawnHandled DEF StartSync, StartProcess
<1>3. ASSUME NEW ds \in Request, StartDownload(ds) PROVE Handled'
  <2>1. task' = task BY <1>3 DEF StartDownload
  <2>2. Active = {}
    <3>1. CASE DownloadsWait BY <1>3, <3>1 DEF DownloadsWait
    <3>2. CASE UNCHANGED vars
      <4>1. loader.at = "idle" /\ loader' = [at |-> "resolve", todo |-> ds] BY <1>3 DEF StartDownload
      <4>2. loader' = loader BY <3>2 DEF vars
      <4> QED BY <4>1, <4>2
    <3> QED BY <3>1, <3>2
  <2> QED BY <2>1, <2>2 DEF Handled, Active
<1>4. CancelSync => Handled' BY <1>1 DEF CancelSync
<1>5. ASSUME NEW t \in Task, WriterStep(t) PROVE Handled' BY <1>5, WriterHandled
<1>6. ASSUME NEW t \in Task, ParserStep(t) PROVE Handled'
  BY <1>1, <1>6 DEF ParserStep, ReadLine, EndOfFile, CheckToken, Send, Parser, control
<1>7. ASSUME \/ \E ok \in BOOLEAN : LoaderResolve(ok)
             \/ LoaderNext \/ \E how \in Outcome : LoaderGet(how)
      PROVE  Handled'
  BY <1>1, <1>7 DEF LoaderResolve, LoaderNext, LoaderGet, Load
<1>8. ASSUME NEW d \in Dataset, NewVersion(d) \/ DayPasses(d) PROVE Handled'
  BY <1>1, <1>8 DEF NewVersion, DayPasses, control
<1>9. CASE Restart
  <2>1. Active' = {} BY <1>9, RestKnown DEF Restart, Active
  <2> QED BY <2>1 DEF Handled
<1>10. CASE UNCHANGED vars BY <1>1, <1>10 DEF vars
<1> QED BY <1>2, <1>3, <1>4, <1>5, <1>6, <1>7, <1>8, <1>9, <1>10 DEF Next

\* start_sync(), start_process(), start_download(): the handle tells of the only sync as long
\* as nobody starts a download of its own beside one.
THEOREM OneAtATime == Spec /\ [][DownloadsWait]_vars => []OneSyncAtATime
<1>1. Init => Handled BY RestKnown DEF Init, Handled, Active
<1>2. Types /\ Handled /\ [Next]_vars /\ [DownloadsWait]_vars => Handled' BY StepHandled
<1>3. Handled => OneSyncAtATime
  <2> SUFFICES ASSUME Handled PROVE Cardinality(Active) <= 1 BY DEF OneSyncAtATime
  <2>1. IsFiniteSet({handle}) /\ Cardinality({handle}) = 1 BY FS_Singleton
  <2>2. Active \in SUBSET {handle} BY DEF Handled
  <2>3. Cardinality(Active) <= Cardinality({handle}) BY <2>1, <2>2, FS_Subset
  <2> QED BY <2>1, <2>3
<1>4. Types /\ [Next]_vars => Types' BY StepTypes
<1> QED BY <1>1, <1>2, <1>3, <1>4, InitTypes, PTL DEF Spec

\* With both: syncs that nobody downloads beside store what their checkpoints and their
\* completed records say.
THEOREM UndisturbedSyncsAreSound ==
  Spec /\ [][DownloadsWait]_vars => [](MarkNotAhead /\ CompletedIsStored)
BY OneAtATime, CheckpointsAreStored, CompletedMeansStored, PTL

================================================================================
