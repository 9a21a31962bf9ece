------------------------- MODULE DatasetSync_proofs -------------------------
(***************************************************************************)
(* What holds of DatasetSync for every set of datasets, files and faults:  *)
(* its types, that checkpoints are never ahead of the table, that what     *)
(* ends as completed is stored, and that every step of a task brings its   *)
(* end nearer, which the next claim of the slot waits for.                 *)
(*                                                                         *)
(* The first two are not inductive: what a task will have stored depends   *)
(* on its batch and on the rest of its file.  Covered says that the rows   *)
(* of the record's scope are in the table, in the batch or in the rest of  *)
(* the file, and that the rest lies behind the last row taken; Attached    *)
(* ties the task to its record, and ScopesInFiles lets a later attempt find *)
(* the rows of the first one in a newer file.                              *)
(***************************************************************************)
EXTENDS DatasetSync, SequenceTheorems, TLAPS

Behind(f, n) == \A r \in RowsOf(f) : Key[r] > n
Sorted(f) == \A i, j \in DOMAIN f : i < j => Key[f[i]] < Key[f[j]]

Busy == task.pc \notin {"idle", "next"}
Current == records[Now][task.id]

\* What holds of a record of d, given the cached version and the table.
Sound(rec, d, version, rows) ==
  /\ \A r \in rec.scope : /\ version > 0 /\ r \in RowsOf(Files[d][version])
                          /\ Kept(rows, r)
                          /\ Key[r] <= rec.mark => r \in rows
  /\ rec.status = "completed" => rec.scope \subseteq rows

RecordsSound ==
  \A d \in Dataset : \A i \in DOMAIN records[d] : Sound(records[d][i], d, cache[d], table)

Attached ==
  Busy => /\ task.todo # <<>> /\ task.id \in DOMAIN records[Now]
          /\ task.known \subseteq table
          /\ \A r \in Current.scope : Key[r] <= task.from => r \in table

\* Kept(table, r) of an old scope does not say Kept(task.known, r) once rows were added
\* after the attempt began: what it knows is what it began with.
Known == Busy => \A r \in Current.scope : Kept(task.known, r)

Covered ==
  /\ task.pc \in {"next", "fetch", "download", "open"} => task.last = 0
  /\ task.pc \in {"fetch", "download", "open"} =>
       Current.status = "running" /\ Current.mark = task.from
  /\ task.pc \in {"read", "check", "flush", "save"} =>
       /\ Current.status = "running"
       /\ Sorted(task.file) /\ Behind(task.file, task.last)
       /\ Current.scope \subseteq table \cup task.batch \cup RowsOf(task.file)
  /\ task.pc = "save" => task.batch = {}
  /\ task.pc \in {"flush", "save"} /\ task.next = "completed" => task.file = <<>>
  /\ task.pc = "completed" => Current.scope \subseteq table

LoaderBusy == loading => loader # <<>>

IInv == TypeOK /\ RecordsSound /\ Attached /\ Known /\ Covered /\ LoaderBusy

---------------------------------------------------------------------------
(* Sequences of rows, and the sets the model is built from *)

\* What is left of a sorted file after its first row lies behind that row.
LEMMA TailFacts ==
  ASSUME NEW f \in Seq(Row), f # <<>>
  PROVE  /\ Tail(f) \in Seq(Row) /\ Head(f) \in Row
         /\ RowsOf(f) = {Head(f)} \cup RowsOf(Tail(f))
         /\ Sorted(f) => Sorted(Tail(f)) /\ Behind(Tail(f), Key[Head(f)])
<1>1. /\ Tail(f) \in Seq(Row) /\ Head(f) = f[1] /\ Len(f) \in Nat \ {0}
      /\ Len(Tail(f)) = Len(f) - 1 /\ f \in [1 .. Len(f) -> Row]
      /\ DOMAIN Tail(f) = 1 .. (Len(f) - 1)
      /\ \A i \in 1 .. (Len(f) - 1) : Tail(f)[i] = f[i + 1]
  OBVIOUS
<1>2. RowsOf(f) = {Head(f)} \cup RowsOf(Tail(f))
  <2>1. RowsOf(f) \subseteq {Head(f)} \cup RowsOf(Tail(f))
    <3> SUFFICES ASSUME NEW i \in 1 .. Len(f) PROVE f[i] \in {Head(f)} \cup RowsOf(Tail(f))
      BY <1>1 DEF RowsOf
    <3>1. CASE i = 1 BY <3>1, <1>1
    <3>2. CASE i # 1
      <4>1. i - 1 \in DOMAIN Tail(f) /\ Tail(f)[i - 1] = f[i] BY <1>1, <3>2
      <4> QED BY <4>1 DEF RowsOf
    <3> QED BY <3>1, <3>2
  <2>2. {Head(f)} \cup RowsOf(Tail(f)) \subseteq RowsOf(f)
    <3>1. Head(f) \in RowsOf(f) BY <1>1 DEF RowsOf
    <3>2. ASSUME NEW i \in DOMAIN Tail(f) PROVE Tail(f)[i] \in RowsOf(f)
      <4>1. i + 1 \in DOMAIN f /\ Tail(f)[i] = f[i + 1] BY <1>1
      <4> QED BY <4>1 DEF RowsOf
    <3> QED BY <3>1, <3>2 DEF RowsOf
  <2> QED BY <2>1, <2>2
<1>3. ASSUME Sorted(f) PROVE Sorted(Tail(f)) /\ Behind(Tail(f), Key[Head(f)])
  <2>1. ASSUME NEW i \in DOMAIN Tail(f), NEW j \in DOMAIN Tail(f), i < j
        PROVE  Key[Tail(f)[i]] < Key[Tail(f)[j]]
    BY <1>1, <1>3, <2>1, i + 1 \in DOMAIN f, j + 1 \in DOMAIN f DEF Sorted
  <2>2. ASSUME NEW i \in DOMAIN Tail(f) PROVE Key[Tail(f)[i]] > Key[Head(f)]
    <3>1. 1 \in DOMAIN f /\ i + 1 \in DOMAIN f /\ 1 < i + 1 BY <1>1
    <3>2. Key[f[1]] < Key[f[i + 1]] BY <3>1, <1>3 DEF Sorted
    <3>3. f[1] \in Row /\ f[i + 1] \in Row /\ Key[f[1]] \in Nat /\ Key[f[i + 1]] \in Nat
      BY <3>1, <1>1, SyncAssumption
    <3> QED BY <3>2, <3>3, <1>1
  <2> QED BY <2>1, <2>2 DEF Sorted, Behind, RowsOf
<1> QED BY <1>1, <1>2, <1>3

\* A version of a file is a sorted sequence of rows.
LEMMA FileFacts ==
  ASSUME NEW d \in Dataset, NEW v \in DOMAIN Files[d]
  PROVE  /\ Files[d][v] \in Seq(Row) /\ RowsOf(Files[d][v]) \subseteq Row
         /\ Sorted(Files[d][v]) /\ Behind(Files[d][v], 0)
<1>1. Files[d][v] \in Seq(Row) BY SyncAssumption
<1>2. RowsOf(Files[d][v]) \subseteq Row BY <1>1 DEF RowsOf
<1>3. Behind(Files[d][v], 0)
  <2> SUFFICES ASSUME NEW r \in RowsOf(Files[d][v]) PROVE Key[r] > 0 BY DEF Behind
  <2>1. r \in Row /\ Key[r] \in Nat \ {0} BY <1>2, SyncAssumption
  <2> QED BY <2>1
<1>4. Sorted(Files[d][v]) BY FilesAssumption DEF Sorted
<1> QED BY <1>1, <1>2, <1>3, <1>4

\* The first dataset of a list of datasets, and the others.
LEMMA TodoFacts ==
  ASSUME NEW ds \in Seq(Dataset), ds # <<>>
  PROVE  Head(ds) \in Dataset /\ Tail(ds) \in Seq(Dataset)
  OBVIOUS

LEMMA RequestFacts == \A ds \in Request : ds \in Seq(Dataset)
<1> SUFFICES ASSUME NEW ds \in Request PROVE ds \in Seq(Dataset) OBVIOUS
<1>1. CASE ds = Datasets BY <1>1, SyncAssumption
<1>2. ASSUME NEW d \in Dataset, ds = <<d>> PROVE ds \in Seq(Dataset) BY <1>2
<1> QED BY <1>1, <1>2 DEF Request

LEMMA IdleFacts == Idle \in Slot /\ Idle.pc = "idle" /\ Idle.last = 0
  BY DEF Idle, Slot, Outcome

LEMMA RestFacts ==
  ASSUME NEW t \in Slot, t.todo # <<>>
  PROVE  RestOf(t) \in Slot /\ RestOf(t).pc = "next" /\ RestOf(t).last = 0
  BY TodoFacts, IdleFacts DEF RestOf, Slot, Idle

---------------------------------------------------------------------------
(* Types *)

LEMMA UnstaleFacts ==
  ASSUME NEW recs \in [Dataset -> Seq(Record)]
  PROVE  /\ Unstale(recs) \in [Dataset -> Seq(Record)]
         /\ \A d \in Dataset :
              /\ DOMAIN Unstale(recs)[d] = DOMAIN recs[d]
              /\ \A i \in DOMAIN recs[d] :
                   /\ Unstale(recs)[d][i].scope = recs[d][i].scope
                   /\ Unstale(recs)[d][i].mark = recs[d][i].mark
                   /\ Unstale(recs)[d][i].status = "completed" => recs[d][i].status = "completed"
<1>1. ASSUME NEW d \in Dataset, NEW i \in DOMAIN recs[d]
      PROVE  /\ recs[d][i] \in Record
             /\ Unstale(recs)[d][i] \in Record
             /\ Unstale(recs)[d][i].scope = recs[d][i].scope
             /\ Unstale(recs)[d][i].mark = recs[d][i].mark
             /\ Unstale(recs)[d][i].status = "completed" => recs[d][i].status = "completed"
  <2>1. recs[d][i] \in Record OBVIOUS
  <2>2. Unstale(recs)[d][i] = IF recs[d][i].status = "running"
                                THEN [recs[d][i] EXCEPT !.status = "failed"] ELSE recs[d][i]
    BY DEF Unstale
  <2> QED BY <2>1, <2>2 DEF Record
<1>2. ASSUME NEW d \in Dataset
      PROVE  DOMAIN Unstale(recs)[d] = DOMAIN recs[d] /\ Unstale(recs)[d] \in Seq(Record)
  <2>1. DOMAIN Unstale(recs)[d] = DOMAIN recs[d] BY DEF Unstale
  <2>2. Len(recs[d]) \in Nat /\ DOMAIN recs[d] = 1 .. Len(recs[d]) OBVIOUS
  <2>3. Unstale(recs)[d] = [i \in 1 .. Len(recs[d]) |-> Unstale(recs)[d][i]]
    BY <2>2 DEF Unstale
  <2>4. \A i \in 1 .. Len(recs[d]) : Unstale(recs)[d][i] \in Record BY <2>2, <1>1
  <2> QED BY <2>1, <2>2, <2>3, <2>4
<1>3. Unstale(recs) = [d \in Dataset |-> Unstale(recs)[d]] BY DEF Unstale
<1> QED BY <1>1, <1>2, <1>3

\* What the versions of a file are: numbers from 1 on.
LEMMA VersionFacts ==
  ASSUME NEW d \in Dataset
  PROVE  Files[d] \in Seq(Seq(Row)) /\ Len(Files[d]) \in Nat /\ DOMAIN Files[d] = 1 .. Len(Files[d])
  BY SyncAssumption

LEMMA Bounds == MaxRuns \in Nat /\ MaxFaults \in Nat
  BY SyncAssumption

LEMMA InitType == Init => TypeOK
<1> SUFFICES ASSUME Init PROVE TypeOK OBVIOUS
<1>1. \A d \in Dataset : remote[d] \in DOMAIN Files[d] /\ cache[d] <= remote[d]
  BY VersionFacts, SyncAssumption DEF Init
<1>2. records \in [Dataset -> Seq(Record)] BY DEF Init
<1>3. runs \in 0 .. MaxRuns /\ faults \in 0 .. MaxFaults BY Bounds DEF Init
<1>4. remote \in [Dataset -> Nat] /\ cache \in [Dataset -> Nat] BY DEF Init
<1>5. loader \in Seq(Dataset) BY DEF Init
<1> QED BY <1>1, <1>2, <1>3, <1>4, <1>5, IdleFacts DEF Init, TypeOK

LEMMA FaultType == ASSUME TypeOK, NEW k, Fault(k) PROVE faults' \in 0 .. MaxFaults
  BY Bounds DEF Fault, TypeOK

LEMMA StartType ==
  ASSUME TypeOK, NEW ds \in Request,
         StartSync(ds) \/ StartForced(ds) \/ StartProcess(ds) \/ StartDownload(ds)
  PROVE  TypeOK'
<1>1. ds \in Seq(Dataset) BY RequestFacts
<1>2. ASSUME NEW p \in BOOLEAN, Claim(p, ds)
      PROVE  /\ task' \in Slot /\ runs' \in 0 .. MaxRuns /\ cancelled' \in BOOLEAN
             /\ processOnly' \in BOOLEAN
             /\ UNCHANGED <<remote, cache, recent, lock, loader, loading, faults>>
  <2>1. runs' \in 0 .. MaxRuns BY <1>2, Bounds DEF TypeOK, Claim
  <2>2. task' = [pc |-> "next", process |-> p, todo |-> ds, id |-> 0, from |-> 0,
                 known |-> {}, file |-> <<>>, batch |-> {}, rows |-> 0, last |-> 0,
                 next |-> "check"]
    BY <1>2 DEF Claim, Idle
  <2>3. task' \in Slot BY <1>1, <2>2 DEF Slot
  <2> QED BY <1>2, <2>1, <2>3 DEF Claim, cacheState, loaderState
<1>3. CASE StartSync(ds) BY <1>2, <1>3, UnstaleFacts DEF StartSync, TypeOK
<1>4. CASE StartForced(ds)
  <2>1. records' \in [Dataset -> Seq(Record)] BY <1>4 DEF StartForced
  <2> QED BY <1>2, <1>4, <2>1 DEF StartForced, TypeOK
<1>5. CASE StartProcess(ds) BY <1>2, <1>5 DEF StartProcess, TypeOK
<1>6. CASE StartDownload(ds)
  <2>1. runs' \in 0 .. MaxRuns BY <1>6, Bounds DEF TypeOK, StartDownload
  <2> QED BY <1>1, <1>6, <2>1 DEF StartDownload, TypeOK, cacheState
<1> QED BY <1>3, <1>4, <1>5, <1>6

\* The dataset and the record that a busy task works on.
LEMMA NowFacts ==
  ASSUME TypeOK, Attached, Busy
  PROVE  /\ Now \in Dataset /\ task.todo \in Seq(Dataset) /\ task.todo # <<>>
         /\ records[Now] \in Seq(Record) /\ task.id \in DOMAIN records[Now]
         /\ Current \in Record /\ task \in Slot
<1>1. task.todo \in Seq(Dataset) /\ task.todo # <<>> BY DEF TypeOK, Slot, Attached
<1>2. Now \in Dataset BY <1>1, TodoFacts DEF Now
<1>3. records[Now] \in Seq(Record) BY <1>2 DEF TypeOK
<1>4. task.id \in DOMAIN records[Now] BY DEF Attached
<1>5. Current \in Record BY <1>3, <1>4 DEF Current
<1> QED BY <1>1, <1>2, <1>3, <1>4, <1>5 DEF TypeOK

\* One record of a dataset is replaced.
LEMMA Replaced ==
  ASSUME NEW recs \in [Dataset -> Seq(Record)], NEW d \in Dataset, NEW i \in DOMAIN recs[d],
         NEW rec \in Record
  PROVE  LET new == [recs EXCEPT ![d][i] = rec] IN
         /\ new \in [Dataset -> Seq(Record)]
         /\ new[d][i] = rec
         /\ \A e \in Dataset : /\ DOMAIN new[e] = DOMAIN recs[e]
                               /\ \A j \in DOMAIN recs[e] :
                                    ~(e = d /\ j = i) => new[e][j] = recs[e][j]
<1> DEFINE new == [recs EXCEPT ![d][i] = rec]
<1>1. recs[d] \in Seq(Record) /\ i \in 1 .. Len(recs[d]) OBVIOUS
<1>2. new[d] = [recs[d] EXCEPT ![i] = rec] OBVIOUS
<1>3. new[d] \in Seq(Record) BY <1>1, <1>2
<1>4. \A e \in Dataset : e # d => new[e] = recs[e] OBVIOUS
<1>5. new \in [Dataset -> Seq(Record)] BY <1>3, <1>4
<1>6. new[d][i] = rec /\ DOMAIN new[d] = DOMAIN recs[d]
      /\ \A j \in DOMAIN recs[d] : j # i => new[d][j] = recs[d][j]
  BY <1>1, <1>2
<1> QED BY <1>4, <1>5, <1>6

LEMMA EndRunType == ASSUME TypeOK, EndRun PROVE TypeOK'
  BY IdleFacts DEF EndRun, TypeOK, cacheState, loaderState, bounds, Slot

LEMMA SkipType == ASSUME TypeOK, Skip PROVE TypeOK'
<1>1. task' \in Slot BY RestFacts DEF Skip, TypeOK
<1> QED BY <1>1 DEF Skip, TypeOK, cacheState, loaderState, bounds

\* What an attempt at a dataset starts with: a new record or one that is resumed.
Reused(rec, old) ==
  rec.status = "running" /\ rec.scope = old.scope /\ rec.mark = old.mark
Begun ==
  /\ task.todo # <<>> /\ Now \in Dataset /\ task.pc = "next"
  /\ records' \in [Dataset -> Seq(Record)]
  /\ task'.id \in DOMAIN records'[Now] /\ task'.id \in Nat
  /\ task'.rows \in Nat /\ task'.from \in Nat
  /\ task' = [task EXCEPT !.pc = "fetch", !.id = task'.id, !.from = task'.from,
                          !.rows = task'.rows, !.known = table]
  /\ records'[Now][task'.id].status = "running"
  /\ records'[Now][task'.id].mark = task'.from
  /\ \A e \in Dataset : \A j \in DOMAIN records'[e] :
       \/ j \in DOMAIN records[e] /\ records'[e][j] = records[e][j]
       \/ records'[e][j] = NewRecord
       \/ j \in DOMAIN records[e] /\ Reused(records'[e][j], records[e][j])

LEMMA BeginFacts == ASSUME TypeOK, Begin PROVE Begun
<1>1. task.todo # <<>> /\ task.todo \in Seq(Dataset) /\ task \in Slot /\ task.pc = "next"
  BY DEF Begin, TypeOK, Slot
<1>2. Now \in Dataset BY <1>1, TodoFacts DEF Now
<1> DEFINE old == records[Now]
<1>3. old \in Seq(Record) /\ records \in [Dataset -> Seq(Record)] BY <1>2 DEF TypeOK
<1>4. NewRecord \in Record BY DEF NewRecord, Record
<1>5. ASSUME NEW i \in Nat, NEW recs \in Seq(Record), i \in DOMAIN recs, Attempt(i, recs)
      PROVE  /\ records' \in [Dataset -> Seq(Record)]
             /\ records'[Now] = recs /\ \A e \in Dataset : e # Now => records'[e] = records[e]
             /\ task' = [task EXCEPT !.pc = "fetch", !.id = i, !.from = recs[i].mark,
                                     !.rows = recs[i].rows, !.known = table]
             /\ task'.id = i /\ task'.from = recs[i].mark /\ task'.rows = recs[i].rows
             /\ recs[i] \in Record /\ task'.rows \in Nat /\ task'.from \in Nat
  <2>1. records' = [records EXCEPT ![Now] = recs] BY <1>5 DEF Attempt
  <2>2. task' = [task EXCEPT !.pc = "fetch", !.id = i, !.from = recs[i].mark,
                             !.rows = recs[i].rows, !.known = table]
    BY <1>5 DEF Attempt
  <2>3. task'.id = i /\ task'.from = recs[i].mark /\ task'.rows = recs[i].rows
    BY <2>2, <1>1 DEF Slot
  <2>4. recs[i] \in Record BY <1>5
  <2>5. recs[i].rows \in Nat /\ recs[i].mark \in Nat BY <2>4 DEF Record
  <2> QED BY <2>1, <2>2, <2>3, <2>4, <2>5, <1>2, <1>3
<1>6. CASE Attempt(Len(old) + 1, Append(old, NewRecord))
  <2> DEFINE recs == Append(old, NewRecord)
             n == Len(old) + 1
  <2>1. /\ recs \in Seq(Record) /\ n \in DOMAIN recs /\ n \in Nat /\ recs[n] = NewRecord
        /\ \A j \in DOMAIN recs : j = n \/ (j \in DOMAIN old /\ recs[j] = old[j])
    BY <1>3, <1>4
  <2>2. NewRecord.status = "running" BY DEF NewRecord
  <2>3. Attempt(n, recs) BY <1>6
  <2> HIDE DEF recs, n
  <2>4. /\ records'[Now] = recs
        /\ \A e \in Dataset : e # Now => records'[e] = records[e]
        /\ task'.id = n /\ task'.from = recs[n].mark
        /\ task'.rows \in Nat /\ task'.from \in Nat
        /\ records' \in [Dataset -> Seq(Record)]
        /\ task' = [task EXCEPT !.pc = "fetch", !.id = task'.id, !.from = task'.from,
                                !.rows = task'.rows, !.known = table]
    BY <1>5, <2>1, <2>3
  <2>5. \A e \in Dataset : \A j \in DOMAIN records'[e] :
          \/ j \in DOMAIN records[e] /\ records'[e][j] = records[e][j]
          \/ records'[e][j] = NewRecord
    BY <2>1, <2>4
  <2> QED BY <1>1, <1>2, <2>1, <2>2, <2>4, <2>5 DEF Begun
<1>7. ASSUME NEW i \in Resumable(Now), Attempt(i, [old EXCEPT ![i].status = "running"])
      PROVE  Begun
  <2> DEFINE again == [old[i] EXCEPT !.status = "running"]
             recs == [old EXCEPT ![i].status = "running"]
  <2>1. i \in DOMAIN old /\ i \in Nat BY <1>3 DEF Resumable
  <2>2. old[i] \in Record BY <1>3, <2>1
  <2>3. again \in Record /\ Reused(again, old[i]) BY <2>2 DEF Record, Reused
  <2>4. recs = [old EXCEPT ![i] = again] BY <2>1
  <2> HIDE DEF again, recs
  <2>5. recs \in Seq(Record) /\ DOMAIN recs = DOMAIN old /\ recs[i] = again
        /\ \A j \in DOMAIN old : j # i => recs[j] = old[j]
    BY <1>3, <2>1, <2>3, <2>4
  <2>6. Attempt(i, recs) BY <1>7 DEF recs
  <2>7. /\ records'[Now] = recs /\ \A e \in Dataset : e # Now => records'[e] = records[e]
        /\ task'.id = i /\ task'.from = recs[i].mark
        /\ task'.rows \in Nat /\ task'.from \in Nat
        /\ records' \in [Dataset -> Seq(Record)]
        /\ task' = [task EXCEPT !.pc = "fetch", !.id = task'.id, !.from = task'.from,
                                !.rows = task'.rows, !.known = table]
    BY <1>5, <2>1, <2>5, <2>6
  <2>8. \A e \in Dataset : \A j \in DOMAIN records'[e] :
          \/ j \in DOMAIN records[e] /\ records'[e][j] = records[e][j]
          \/ j \in DOMAIN records[e] /\ Reused(records'[e][j], records[e][j])
    BY <2>1, <2>3, <2>5, <2>7
  <2>9. records'[Now][task'.id].status = "running" BY <2>3, <2>5, <2>7 DEF Reused
  <2> QED BY <1>1, <1>2, <2>1, <2>5, <2>7, <2>8, <2>9 DEF Begun
<1> QED BY <1>6, <1>7 DEF Begin

LEMMA BeginType == ASSUME TypeOK, Begin PROVE TypeOK'
<1>1. Begun BY BeginFacts
<1>2. task \in Slot /\ task'.id \in Nat /\ task'.from \in Nat /\ task'.rows \in Nat
      /\ table \subseteq Row
  BY <1>1 DEF Begun, TypeOK
<1>3. task' = [task EXCEPT !.pc = "fetch", !.id = task'.id, !.from = task'.from,
                           !.rows = task'.rows, !.known = table]
  BY <1>1 DEF Begun
<1>4. task' \in Slot BY <1>2, <1>3 DEF Slot
<1>5. records' \in [Dataset -> Seq(Record)] BY <1>1 DEF Begun
<1> QED BY <1>4, <1>5 DEF Begin, TypeOK, cacheState, loaderState, bounds

LEMMA DownloadedType ==
  ASSUME TypeOK, NEW d \in Dataset, Downloaded(d)
  PROVE  /\ cache' \in [Dataset -> Nat] /\ recent' \subseteq Dataset /\ lock' \subseteq Dataset
         /\ \A e \in Dataset : cache'[e] <= remote[e] /\ cache[e] <= cache'[e]
  BY DEF TypeOK, Downloaded

LEMMA FetchType == ASSUME IInv, Fetch PROVE TypeOK'
<1>1. Now \in Dataset /\ task \in Slot BY NowFacts DEF IInv, Fetch, Busy
<1>2. task' \in Slot BY <1>1 DEF Fetch, Slot
<1>3. lock' \subseteq Dataset BY <1>1 DEF Fetch, IInv, TypeOK
<1> QED BY <1>2, <1>3 DEF Fetch, IInv, TypeOK, loaderState, bounds

LEMMA DownloadType ==
  ASSUME IInv, NEW how \in Outcome, Download(how) PROVE TypeOK'
<1>1. Now \in Dataset /\ task \in Slot BY NowFacts DEF IInv, Download, Busy
<1>2. task' \in Slot BY <1>1 DEF Download, Slot, Outcome
<1>3. CASE Downloaded(Now) /\ faults' = faults
  BY <1>1, <1>2, <1>3, DownloadedType DEF Download, Downloaded, IInv, TypeOK, loaderState
<1>4. CASE UNCHANGED cacheState /\ (Fault("http") \/ faults' = faults)
  <2>1. faults' \in 0 .. MaxFaults BY <1>4, FaultType DEF IInv, TypeOK
  <2> QED BY <1>2, <1>4, <2>1 DEF Download, IInv, TypeOK, cacheState, loaderState
<1> QED BY <1>3, <1>4 DEF Download

LEMMA LoaderType ==
  ASSUME IInv, LoaderStart \/ \E ok \in BOOLEAN : LoaderEnd(ok) PROVE TypeOK'
<1>1. TypeOK /\ loader \in Seq(Dataset) BY DEF IInv, TypeOK
<1>2. CASE LoaderStart
  <2>1. loader # <<>> BY <1>2 DEF LoaderStart
  <2>2. Head(loader) \in Dataset /\ Tail(loader) \in Seq(Dataset) BY <1>1, <2>1, TodoFacts
  <2>3. \/ loader' \in {<<>>, Tail(loader)} /\ UNCHANGED <<loading, lock>>
        \/ loader' = loader /\ loading' = TRUE /\ lock' = lock \cup {Head(loader)}
    BY <1>2 DEF LoaderStart
  <2>4. loader' \in Seq(Dataset) /\ lock' \subseteq Dataset
    BY <1>1, <2>2, <2>3, EmptySeq DEF TypeOK
  <2>5. loading' \in BOOLEAN BY <1>1, <2>3 DEF TypeOK
  <2> QED BY <1>1, <1>2, <2>4, <2>5 DEF LoaderStart, TypeOK, bounds
<1>3. ASSUME NEW ok \in BOOLEAN, LoaderEnd(ok) PROVE TypeOK'
  <2>1. CASE ok
    <3>1. Head(loader) \in Dataset /\ Tail(loader) \in Seq(Dataset)
      BY <1>1, <1>3, TodoFacts DEF LoaderEnd, IInv, LoaderBusy
    <3>2. Downloaded(Head(loader)) /\ loader' = Tail(loader) /\ faults' = faults
      BY <1>3, <2>1 DEF LoaderEnd
    <3>3. /\ cache' \in [Dataset -> Nat] /\ recent' \subseteq Dataset /\ lock' \subseteq Dataset
          /\ \A e \in Dataset : cache'[e] <= remote[e]
      BY <1>1, <3>1, <3>2, DownloadedType
    <3> QED BY <1>1, <1>3, <3>1, <3>2, <3>3 DEF LoaderEnd, TypeOK, Downloaded
  <2>2. CASE ~ok
    <3>1. Fault("http") /\ loader' = <<>> /\ UNCHANGED cacheState
      BY <1>3, <2>2 DEF LoaderEnd
    <3>2. faults' \in 0 .. MaxFaults BY <1>1, <3>1, FaultType
    <3>3. loading' \in BOOLEAN BY <1>3 DEF LoaderEnd
    <3>4. loader' \in Seq(Dataset) BY <3>1, EmptySeq
    <3> QED BY <1>1, <1>3, <3>1, <3>2, <3>3, <3>4 DEF LoaderEnd, TypeOK, cacheState
  <2> QED BY <2>1, <2>2
<1> QED BY <1>2, <1>3

LEMMA OpenType == ASSUME IInv, Open PROVE TypeOK'
<1>1. /\ Now \in Dataset /\ task \in Slot /\ task.id \in DOMAIN records[Now]
      /\ Current \in Record /\ records \in [Dataset -> Seq(Record)]
  BY NowFacts DEF IInv, Open, Busy, TypeOK
<1>2. CASE cache[Now] = 0
  <2>1. task' \in Slot BY <1>1, <1>2 DEF Open, Slot, Outcome
  <2> QED BY <1>2, <2>1 DEF Open, IInv, TypeOK, cacheState, loaderState, bounds
<1>3. CASE cache[Now] # 0
  <2> DEFINE f == Files[Now][cache[Now]]
  <2>1. cache[Now] \in DOMAIN Files[Now] BY <1>1, <1>3, VersionFacts DEF IInv, TypeOK
  <2>2. f \in Seq(Row) /\ RowsOf(f) \subseteq Row BY <1>1, <2>1, FileFacts
  <2>3. task' = [task EXCEPT !.pc = "read", !.file = f] BY <1>3 DEF Open
  <2> HIDE DEF f
  <2>4. task' \in Slot BY <1>1, <2>2, <2>3 DEF Slot
  <2>5. CASE task.from > 0
    <3>1. records' = records BY <1>3, <2>5 DEF Open
    <3> QED BY <2>4, <3>1 DEF Open, IInv, TypeOK, cacheState, loaderState, bounds
  <2>6. CASE ~(task.from > 0)
    <3> DEFINE new == {r \in RowsOf(f) : Kept(task.known, r)}
    <3>1. records' = [records EXCEPT ![Now][task.id].scope = new]
      BY <1>3, <2>6 DEF Open, f
    <3>2. new \subseteq Row BY <2>2
    <3> HIDE DEF new
    <3>3. [Current EXCEPT !.scope = new] \in Record BY <1>1, <3>2 DEF Record
    <3>4. records' = [records EXCEPT ![Now][task.id] = [Current EXCEPT !.scope = new]]
      BY <3>1 DEF Current
    <3>5. records' \in [Dataset -> Seq(Record)] BY <1>1, <3>3, <3>4, Replaced
    <3> QED BY <2>4, <3>5 DEF Open, IInv, TypeOK, cacheState, loaderState, bounds
  <2> QED BY <2>5, <2>6
<1> QED BY <1>2, <1>3

LEMMA WrittenFacts ==
  ASSUME TypeOK, NEW batch \in SUBSET Row, NEW ok \in BOOLEAN, Written(batch, ok)
  PROVE  /\ table' \subseteq Row /\ table \subseteq table' /\ faults' \in 0 .. MaxFaults
         /\ ok => table' = table \cup batch
<1>1. CASE ok BY <1>1 DEF Written, TypeOK
<1>2. CASE ~ok
  <2>1. faults' \in 0 .. MaxFaults BY <1>2, FaultType DEF Written
  <2> QED BY <1>2, <2>1 DEF Written, TypeOK
<1> QED BY <1>1, <1>2

LEMMA TakenFacts ==
  ASSUME task \in Slot, task.file # <<>>
  PROVE  LET r == Head(task.file)  t == Taken(r) IN
         /\ r \in Row /\ t \in Slot /\ t.pc = task.pc /\ t.file = Tail(task.file)
         /\ t.batch = task.batch \cup {r} /\ t.last = Key[r] /\ t.next = "check"
         /\ t.todo = task.todo /\ t.id = task.id /\ t.from = task.from /\ t.known = task.known
         /\ Tail(task.file) \in Seq(Row)
<1>1. task.file \in Seq(Row) BY DEF Slot
<1>2. Head(task.file) \in Row /\ Tail(task.file) \in Seq(Row) BY <1>1, TailFacts
<1>3. Key[Head(task.file)] \in Nat BY <1>2, SyncAssumption
<1> DEFINE r == Head(task.file)
<1>4. Taken(r) = [task EXCEPT !.file = Tail(task.file), !.batch = task.batch \cup {r},
                              !.rows = task.rows + 1, !.last = Key[r], !.next = "check"]
  BY DEF Taken, Slot
<1> HIDE DEF r
<1>5. r \in Row /\ Key[r] \in Nat BY <1>2, <1>3 DEF r
<1>6. Taken(r) \in Slot
  <2>1. task.batch \cup {r} \in SUBSET Row /\ task.rows + 1 \in Nat BY <1>5 DEF Slot
  <2>2. "check" \in {"check"} \cup Outcome OBVIOUS
  <2> QED BY <1>2, <1>4, <1>5, <2>1, <2>2 DEF Slot
<1>7. /\ Taken(r).pc = task.pc /\ Taken(r).file = Tail(task.file)
      /\ Taken(r).batch = task.batch \cup {r} /\ Taken(r).last = Key[r]
      /\ Taken(r).next = "check" /\ Taken(r).todo = task.todo /\ Taken(r).id = task.id
      /\ Taken(r).from = task.from /\ Taken(r).known = task.known
  BY <1>4 DEF Slot
<1> QED BY <1>2, <1>5, <1>6, <1>7 DEF r

LEMMA DueFacts == \A t : DueOf(t) \in {"flush", "check"}
  BY DEF DueOf

LEMMA ReadRowType == ASSUME IInv, NEW ok \in BOOLEAN, ReadRow(ok) PROVE TypeOK'
<1>1. task \in Slot /\ task.file # <<>> /\ TypeOK BY DEF IInv, TypeOK, ReadRow
<1> DEFINE r == Head(task.file)
           t == Taken(r)
<1>2. t \in Slot /\ Tail(task.file) \in Seq(Row) /\ t.batch \subseteq Row
  BY <1>1, TakenFacts DEF Slot
<1>3. CASE Passed(r)
  <2>1. task' \in Slot BY <1>1, <1>2, <1>3 DEF ReadRow, Slot
  <2> QED BY <1>1, <1>3, <2>1 DEF ReadRow, TypeOK, cacheState, loaderState
<1>4. CASE ~Passed(r) /\ Cardinality(t.batch) < Batch
  <2>1. task' = [t EXCEPT !.pc = DueOf(t)] BY <1>4 DEF ReadRow
  <2> HIDE DEF t
  <2>2. task' \in Slot BY <1>2, <2>1, DueFacts DEF Slot
  <2> QED BY <1>1, <1>4, <2>2 DEF ReadRow, TypeOK, cacheState, loaderState, t
<1>5. CASE ~Passed(r) /\ ~(Cardinality(t.batch) < Batch)
  <2>1. /\ Written(t.batch, ok)
        /\ task' = IF ok THEN [t EXCEPT !.batch = {}, !.pc = DueOf(t)]
                         ELSE [t EXCEPT !.pc = "failed"]
    BY <1>5 DEF ReadRow
  <2> HIDE DEF t
  <2>2. task' \in Slot BY <1>2, <2>1, DueFacts DEF Slot, Outcome
  <2>3. table' \subseteq Row /\ faults' \in 0 .. MaxFaults BY <1>1, <1>2, <2>1, WrittenFacts
  <2> QED BY <1>1, <2>2, <2>3 DEF ReadRow, TypeOK, cacheState, loaderState
<1> QED BY <1>3, <1>4, <1>5

LEMMA OtherTaskType ==
  ASSUME IInv, EndOfFile \/ CheckCancelled \/ \E ok \in BOOLEAN : Flush(ok) PROVE TypeOK'
<1>1. task \in Slot /\ TypeOK /\ task.batch \in SUBSET Row BY DEF IInv, TypeOK, Slot
<1>2. CASE EndOfFile
  <2>1. task' \in Slot BY <1>1, <1>2 DEF EndOfFile, Slot, Outcome
  <2> QED BY <1>1, <1>2, <2>1 DEF EndOfFile, TypeOK, cacheState, loaderState, bounds
<1>3. CASE CheckCancelled
  <2>1. task' \in Slot BY <1>1, <1>3 DEF CheckCancelled, Slot, Outcome
  <2> QED BY <1>1, <1>3, <2>1 DEF CheckCancelled, TypeOK, cacheState, loaderState, bounds
<1>4. ASSUME NEW ok \in BOOLEAN, Flush(ok) PROVE TypeOK'
  <2>1. task' \in Slot BY <1>1, <1>4 DEF Flush, Slot, Outcome
  <2>2. table' \subseteq Row /\ faults' \in 0 .. MaxFaults BY <1>1, <1>4, WrittenFacts DEF Flush
  <2> QED BY <1>1, <1>4, <2>1, <2>2 DEF Flush, TypeOK, cacheState, loaderState
<1> QED BY <1>2, <1>3, <1>4

LEMMA SaveFacts ==
  ASSUME IInv, Save(TRUE)
  PROVE  /\ records \in [Dataset -> Seq(Record)] /\ Now \in Dataset /\ task \in Slot
         /\ task.id \in DOMAIN records[Now]
         /\ [Current EXCEPT !.mark = task.last, !.rows = task.rows] \in Record
         /\ records' = [records EXCEPT ![Now][task.id] =
                          [Current EXCEPT !.mark = task.last, !.rows = task.rows]]
         /\ task' = [task EXCEPT !.pc = task.next]
<1>1. /\ Now \in Dataset /\ task \in Slot /\ task.id \in DOMAIN records[Now]
      /\ Current \in Record /\ records \in [Dataset -> Seq(Record)]
  BY NowFacts DEF IInv, Save, Busy, TypeOK
<1>2. [Current EXCEPT !.mark = task.last, !.rows = task.rows] \in Record
  BY <1>1 DEF Record, Slot
<1>3. records' = [records EXCEPT ![Now][task.id].mark = task.last,
                                 ![Now][task.id].rows = task.rows]
  BY DEF Save
<1>4. records' = [records EXCEPT ![Now][task.id] =
                    [Current EXCEPT !.mark = task.last, !.rows = task.rows]]
  BY <1>1, <1>3 DEF Current
<1> QED BY <1>1, <1>2, <1>4 DEF Save

LEMMA CloseFacts ==
  ASSUME IInv, Close(TRUE)
  PROVE  /\ records \in [Dataset -> Seq(Record)] /\ Now \in Dataset /\ task \in Slot
         /\ task.id \in DOMAIN records[Now]
         /\ [Current EXCEPT !.status = task.pc] \in Record
         /\ records' = [records EXCEPT ![Now][task.id] = [Current EXCEPT !.status = task.pc]]
<1>1. /\ Now \in Dataset /\ task \in Slot /\ task.id \in DOMAIN records[Now]
      /\ Current \in Record /\ records \in [Dataset -> Seq(Record)]
  BY NowFacts DEF IInv, Close, Busy, TypeOK, Outcome
<1>2. [Current EXCEPT !.status = task.pc] \in Record
  BY <1>1 DEF Record, Outcome, Close
<1>3. records' = [records EXCEPT ![Now][task.id] = [Current EXCEPT !.status = task.pc]]
  BY <1>1 DEF Current, Close
<1> QED BY <1>1, <1>2, <1>3

LEMMA SaveType == ASSUME IInv, NEW ok \in BOOLEAN, Save(ok) PROVE TypeOK'
<1>1. CASE ok = TRUE
  <2>1. Save(TRUE) BY <1>1
  <2>2. records' \in [Dataset -> Seq(Record)]
    <3> DEFINE rec == [Current EXCEPT !.mark = task.last, !.rows = task.rows]
    <3>1. /\ records \in [Dataset -> Seq(Record)] /\ Now \in Dataset
          /\ task.id \in DOMAIN records[Now] /\ rec \in Record
          /\ records' = [records EXCEPT ![Now][task.id] = rec]
      BY <2>1, SaveFacts
    <3> HIDE DEF rec
    <3> QED BY <3>1, Replaced
  <2>3. task' \in Slot BY <2>1, SaveFacts DEF Slot, Outcome
  <2> QED BY <2>1, <2>2, <2>3 DEF Save, IInv, TypeOK, cacheState, loaderState
<1>2. CASE ok = FALSE
  <2>1. Fault("http") \/ Fault("db") BY <1>2 DEF Save
  <2>2. faults' \in 0 .. MaxFaults BY <2>1, FaultType DEF IInv
  <2>3. task' \in Slot BY <1>2 DEF Save, Slot, Outcome, IInv, TypeOK
  <2> QED BY <1>2, <2>2, <2>3 DEF Save, IInv, TypeOK, cacheState, loaderState
<1> QED BY <1>1, <1>2

LEMMA CloseType == ASSUME IInv, NEW ok \in BOOLEAN, Close(ok) PROVE TypeOK'
<1>1. task' \in Slot
  <2>1. task \in Slot /\ task.todo # <<>> BY NowFacts DEF IInv, Close, Busy, Outcome
  <2> QED BY <2>1, RestFacts DEF Close
<1>2. Now \in Dataset BY NowFacts DEF IInv, Close, Busy, Outcome
<1>3. CASE ok = TRUE
  <2>1. Close(TRUE) BY <1>3
  <2>2. records' \in [Dataset -> Seq(Record)]
    <3> DEFINE rec == [Current EXCEPT !.status = task.pc]
    <3>1. /\ records \in [Dataset -> Seq(Record)] /\ Now \in Dataset
          /\ task.id \in DOMAIN records[Now] /\ rec \in Record
          /\ records' = [records EXCEPT ![Now][task.id] = rec]
      BY <2>1, CloseFacts
    <3> HIDE DEF rec
    <3> QED BY <3>1, Replaced
  <2>3. synced' \subseteq Dataset BY <1>2, <2>1 DEF Close, IInv, TypeOK
  <2> QED BY <1>1, <2>1, <2>2, <2>3 DEF Close, IInv, TypeOK, cacheState, loaderState
<1>4. CASE ok = FALSE
  <2>1. faults' \in 0 .. MaxFaults BY <1>4, FaultType DEF Close, IInv
  <2> QED BY <1>1, <1>4, <2>1 DEF Close, IInv, TypeOK, cacheState, loaderState
<1> QED BY <1>3, <1>4

LEMMA WorldType ==
  ASSUME TypeOK, NEW d \in Dataset, NewVersion(d) \/ DayPasses(d) PROVE TypeOK'
<1>1. CASE NewVersion(d)
  <2>1. remote' = [remote EXCEPT ![d] = remote[d] + 1] /\ remote[d] < Len(Files[d])
    BY <1>1 DEF NewVersion
  <2>2. remote'[d] \in DOMAIN Files[d] /\ remote' \in [Dataset -> Nat] /\ cache[d] <= remote'[d]
    BY <2>1, VersionFacts DEF TypeOK
  <2>3. \A e \in Dataset : remote'[e] \in DOMAIN Files[e] /\ cache[e] <= remote'[e]
    BY <2>1, <2>2 DEF TypeOK
  <2> QED BY <1>1, <2>2, <2>3 DEF NewVersion, TypeOK, loaderState, bounds
<1>2. CASE DayPasses(d)
  BY <1>2 DEF DayPasses, TypeOK, loaderState, bounds
<1> QED BY <1>1, <1>2

LEMMA RestartType == ASSUME TypeOK, Restart PROVE TypeOK'
<1>1. faults' \in 0 .. MaxFaults BY FaultType DEF Restart
<1>2. records' \in [Dataset -> Seq(Record)] BY UnstaleFacts DEF Restart, TypeOK
<1>3. loader' \in Seq(Dataset) BY DEF Restart
<1> QED BY <1>1, <1>2, <1>3, IdleFacts DEF Restart, TypeOK, cacheState

LEMMA StepType == ASSUME IInv, [Next]_vars PROVE TypeOK'
<1>0. TypeOK BY DEF IInv
<1>1. CASE TaskStep
  BY <1>0, <1>1, EndRunType, SkipType, BeginType, FetchType, OpenType, OtherTaskType,
     DownloadType, ReadRowType, SaveType, CloseType DEF TaskStep
<1>2. CASE CancelSync
  BY <1>0, <1>2 DEF CancelSync, TypeOK, cacheState, loaderState, bounds
<1>3. CASE UNCHANGED vars BY <1>0, <1>3 DEF vars, TypeOK
<1> QED BY <1>0, <1>1, <1>2, <1>3, StartType, LoaderType, WorldType, RestartType DEF Next

---------------------------------------------------------------------------
(* The invariant *)

Grows == table \subseteq table' /\ \A d \in Dataset : cache[d] <= cache'[d]
SameRecord(new, old) ==
  new.scope = old.scope /\ new.mark = old.mark /\ (new.status = "completed" => old.status = "completed")
SameRecords ==
  \A d \in Dataset : \A i \in DOMAIN records'[d] :
    i \in DOMAIN records[d] /\ SameRecord(records'[d][i], records[d][i])

\* A record stays sound when the table and the cached version grow.
LEMMA SoundGrows ==
  ASSUME TypeOK, TypeOK', Grows, NEW d \in Dataset, NEW rec \in Record, NEW new \in Record,
         Sound(rec, d, cache[d], table), SameRecord(new, rec)
  PROVE  Sound(new, d, cache'[d], table')
<1>1. ASSUME NEW r \in rec.scope
      PROVE  /\ cache'[d] > 0 /\ r \in RowsOf(Files[d][cache'[d]]) /\ Kept(table', r)
             /\ Key[r] <= rec.mark => r \in table'
  <2>1. cache[d] > 0 /\ r \in RowsOf(Files[d][cache[d]]) /\ Kept(table, r)
        /\ (Key[r] <= rec.mark => r \in table)
    BY <1>1 DEF Sound
  <2>2. cache[d] \in Nat /\ cache'[d] \in Nat /\ cache[d] <= cache'[d]
        /\ remote[d] \in DOMAIN Files[d] /\ remote'[d] \in DOMAIN Files[d]
        /\ cache[d] <= remote[d] /\ cache'[d] <= remote'[d]
    BY DEF TypeOK, Grows
  <2>3. cache[d] \in DOMAIN Files[d] /\ cache'[d] \in DOMAIN Files[d]
    BY <2>1, <2>2, VersionFacts
  <2>4. RowsOf(Files[d][cache[d]]) \subseteq RowsOf(Files[d][cache'[d]])
    BY <2>2, <2>3, FilesAssumption
  <2> QED BY <2>1, <2>2, <2>4 DEF Kept, Grows
<1> QED BY <1>1 DEF Sound, SameRecord, Grows

LEMMA RecordsKept ==
  ASSUME TypeOK, TypeOK', RecordsSound, Grows, SameRecords PROVE RecordsSound'
<1> SUFFICES ASSUME NEW d \in Dataset, NEW i \in DOMAIN records'[d]
             PROVE  Sound(records'[d][i], d, cache'[d], table')
  BY DEF RecordsSound
<1>1. i \in DOMAIN records[d] /\ SameRecord(records'[d][i], records[d][i]) BY DEF SameRecords
<1>2. records[d][i] \in Record /\ records'[d][i] \in Record BY <1>1 DEF TypeOK
<1>3. Sound(records[d][i], d, cache[d], table) BY <1>1 DEF RecordsSound
<1> QED BY <1>1, <1>2, <1>3, SoundGrows

LEMMA UnchangedRecords == ASSUME records' = records PROVE SameRecords
  BY DEF SameRecords, SameRecord

\* Nothing is said of a task between two datasets but where it starts reading.
LEMMA BetweenDatasets ==
  ASSUME task'.pc \in {"idle", "next"}, task'.last = 0
  PROVE  Attached' /\ Known' /\ Covered'
  BY DEF Attached, Known, Covered, Busy

\* A task that goes on with its dataset, while records stay and rows come.
LEMMA GoesOn ==
  ASSUME TypeOK, TypeOK', RecordsSound, Attached, Known, Busy, Grows, records' = records,
         task'.todo = task.todo, task'.id = task.id, task'.from = task.from,
         task'.known = task.known
  PROVE  RecordsSound' /\ Attached' /\ Known' /\ Current' = Current
<1>1. RecordsSound' BY RecordsKept, UnchangedRecords
<1>2. Now' = Now /\ Current' = Current BY DEF Now, Current
<1>3. Attached' BY <1>2 DEF Attached, Grows
<1>4. Known' BY <1>2 DEF Known, Kept
<1> QED BY <1>1, <1>2, <1>3, <1>4

\* Steps that leave the task and its records alone.
LEMMA OthersStep ==
  ASSUME IInv, TypeOK', Grows, UNCHANGED <<records, task>>
  PROVE  RecordsSound' /\ Attached' /\ Known' /\ Covered'
<1>1. CASE Busy
  <2>1. RecordsSound' /\ Attached' /\ Known' /\ Current' = Current BY <1>1, GoesOn DEF IInv
  <2> QED BY <2>1 DEF IInv, Covered, Grows
<1>2. CASE ~Busy
  <2>1. RecordsSound' BY RecordsKept, UnchangedRecords DEF IInv
  <2> QED BY <1>2, <2>1 DEF IInv, Attached, Known, Covered, Busy
<1> QED BY <1>1, <1>2

LEMMA UnstaleSame == ASSUME TypeOK, records' = Unstale(records) PROVE SameRecords
<1>1. records \in [Dataset -> Seq(Record)] BY DEF TypeOK
<1>2. \A d \in Dataset :
        /\ DOMAIN records'[d] = DOMAIN records[d]
        /\ \A i \in DOMAIN records[d] : SameRecord(records'[d][i], records[d][i])
  BY <1>1, UnstaleFacts DEF SameRecord
<1> QED BY <1>2 DEF SameRecords

LEMMA StartStep ==
  ASSUME IInv, TypeOK', NEW ds \in Request,
         StartSync(ds) \/ StartForced(ds) \/ StartProcess(ds)
  PROVE  RecordsSound' /\ Attached' /\ Known' /\ Covered'
<1>1. task'.pc = "next" /\ task'.last = 0 /\ cache' = cache
  BY DEF StartSync, StartForced, StartProcess, Claim, Idle, cacheState
<1>2. Attached' /\ Known' /\ Covered' BY <1>1, BetweenDatasets
<1>3. CASE StartSync(ds)
  <2>1. Grows BY <1>1, <1>3 DEF StartSync, Grows, IInv, TypeOK
  <2>2. SameRecords BY <1>3, UnstaleSame DEF StartSync, IInv
  <2> QED BY <1>2, <2>1, <2>2, RecordsKept DEF IInv
<1>4. CASE StartForced(ds)
  <2>1. \A d \in Dataset : DOMAIN records'[d] = {} BY <1>4 DEF StartForced
  <2> QED BY <1>2, <2>1 DEF RecordsSound
<1>5. CASE StartProcess(ds)
  <2>1. Grows BY <1>1, <1>5 DEF StartProcess, Grows, IInv, TypeOK
  <2>2. SameRecords BY <1>5, UnchangedRecords DEF StartProcess
  <2> QED BY <1>2, <2>1, <2>2, RecordsKept DEF IInv
<1> QED BY <1>3, <1>4, <1>5

LEMMA RestStep ==
  ASSUME IInv, TypeOK', EndRun \/ Skip \/ Restart
  PROVE  RecordsSound' /\ Attached' /\ Known' /\ Covered'
<1>1. task'.pc \in {"idle", "next"} /\ task'.last = 0
  BY RestFacts, IdleFacts DEF EndRun, Skip, Restart, IInv, TypeOK
<1>2. Attached' /\ Known' /\ Covered' BY <1>1, BetweenDatasets
<1>3. Grows
  <2>1. cache' = cache /\ table' = table BY DEF EndRun, Skip, Restart, cacheState
  <2> QED BY <2>1 DEF Grows, IInv, TypeOK
<1>4. SameRecords
  BY UnchangedRecords, UnstaleSame DEF EndRun, Skip, Restart, IInv
<1> QED BY <1>2, <1>3, <1>4, RecordsKept DEF IInv

\* A record that an attempt begins with was sound, or it is new and has no scope yet.
LEMMA BeginStep ==
  ASSUME IInv, TypeOK', Begin PROVE RecordsSound' /\ Attached' /\ Known' /\ Covered'
<1>1. Begun /\ cache' = cache /\ table' = table
  BY BeginFacts DEF IInv, Begin, cacheState
<1>2. Grows BY <1>1 DEF Grows, IInv, TypeOK
<1>3. RecordsSound'
  <2> SUFFICES ASSUME NEW d \in Dataset, NEW i \in DOMAIN records'[d]
               PROVE  Sound(records'[d][i], d, cache'[d], table')
    BY DEF RecordsSound
  <2>1. CASE records'[d][i] = NewRecord BY <2>1 DEF Sound, NewRecord
  <2>2. CASE i \in DOMAIN records[d] /\ SameRecord(records'[d][i], records[d][i])
    <3>1. Sound(records[d][i], d, cache[d], table) BY <2>2 DEF IInv, RecordsSound
    <3>2. records[d][i] \in Record /\ records'[d][i] \in Record BY <2>2 DEF IInv, TypeOK
    <3> QED BY <1>2, <2>2, <3>1, <3>2, SoundGrows DEF IInv
  <2> QED BY <1>1, <2>1, <2>2 DEF Begun, Reused, SameRecord
<1>4. /\ task' = [task EXCEPT !.pc = "fetch", !.id = task'.id, !.from = task'.from,
                              !.rows = task'.rows, !.known = table]
      /\ task \in Slot
  BY <1>1 DEF Begun, IInv, TypeOK
<1>5. task'.pc = "fetch" /\ task'.todo = task.todo /\ task'.known = table
      /\ task'.last = task.last
  BY <1>4 DEF Slot
<1>6. Now' = Now /\ Current' = records'[Now][task'.id] BY <1>5 DEF Now, Current
<1>7. Current'.status = "running" /\ Current'.mark = task'.from BY <1>1, <1>6 DEF Begun
<1>8. Sound(Current', Now, cache'[Now], table) BY <1>1, <1>3, <1>6 DEF Begun, RecordsSound
<1>9. Attached' BY <1>1, <1>5, <1>6, <1>7, <1>8 DEF Attached, Begun, Sound
<1>10. Known' BY <1>5, <1>8 DEF Known, Sound
<1>11. Covered' BY <1>1, <1>5, <1>7 DEF Covered, Begun, IInv
<1> QED BY <1>3, <1>9, <1>10, <1>11

\* Steps of a busy task that leave the table, its file and its batch alone.
LEMMA MoveStep ==
  ASSUME IInv, TypeOK',
         Fetch \/ (\E how \in Outcome : Download(how)) \/ EndOfFile \/ CheckCancelled
  PROVE  RecordsSound' /\ Attached' /\ Known' /\ Covered'
<1>1. Busy /\ task \in Slot /\ records' = records /\ table' = table
  BY DEF IInv, TypeOK, Fetch, Download, EndOfFile, CheckCancelled, Busy
<1>2. Grows
  <2>1. CASE cache' = cache BY <1>1, <2>1 DEF Grows, IInv, TypeOK
  <2>2. CASE Downloaded(Now)
    <3>1. Now \in Dataset BY <1>1, NowFacts DEF IInv
    <3> QED BY <1>1, <2>2, <3>1, DownloadedType DEF Grows, IInv
  <2> QED BY <2>1, <2>2 DEF Fetch, Download, EndOfFile, CheckCancelled, cacheState
<1>3. /\ task'.todo = task.todo /\ task'.id = task.id /\ task'.from = task.from
      /\ task'.known = task.known /\ task'.file = task.file /\ task'.batch = task.batch
      /\ task'.last = task.last
  BY <1>1 DEF Fetch, Download, EndOfFile, CheckCancelled, Slot
<1>4. RecordsSound' /\ Attached' /\ Known' /\ Current' = Current
  BY <1>1, <1>2, <1>3, GoesOn DEF IInv
<1>5. \/ task.pc \in {"fetch", "download"} /\ task'.pc \in {"download", "open", "failed", "cancelled"}
      \/ /\ task.pc \in {"read", "check"} /\ task'.pc \in {"read", "flush"}
         /\ task'.pc = "flush" /\ task'.next = "completed" => task.file = <<>>
  BY <1>1, <1>3 DEF Fetch, Download, EndOfFile, CheckCancelled, Slot, Outcome, IInv, Covered
<1>6. Covered' BY <1>1, <1>3, <1>4, <1>5 DEF Covered, IInv
<1> QED BY <1>4, <1>6

\* The scope of a new record comes from the file that is opened; that of an older one is
\* in it.
LEMMA OpenStep ==
  ASSUME IInv, TypeOK', Open PROVE RecordsSound' /\ Attached' /\ Known' /\ Covered'
<1>1. /\ Busy /\ Now \in Dataset /\ task \in Slot /\ task.id \in DOMAIN records[Now]
      /\ Current \in Record /\ records \in [Dataset -> Seq(Record)] /\ TypeOK
      /\ table' = table /\ cache' = cache /\ task.pc = "open"
  BY NowFacts DEF IInv, Open, Busy, TypeOK, cacheState
<1>2. Grows BY <1>1 DEF Grows, TypeOK
<1>3. CASE cache[Now] = 0
  <2>1. task' = [task EXCEPT !.pc = "failed"] /\ records' = records BY <1>3 DEF Open
  <2>2. /\ task'.todo = task.todo /\ task'.id = task.id /\ task'.from = task.from
        /\ task'.known = task.known /\ task'.pc = "failed"
    BY <1>1, <2>1 DEF Slot
  <2> QED BY <1>1, <1>2, <2>1, <2>2, GoesOn DEF IInv, Covered
<1>4. CASE cache[Now] # 0
  <2> DEFINE f == Files[Now][cache[Now]]
  <2>1. cache[Now] > 0 /\ cache[Now] \in DOMAIN Files[Now]
    <3>1. /\ cache[Now] \in Nat /\ remote[Now] \in Nat /\ cache[Now] <= remote[Now]
          /\ remote[Now] \in DOMAIN Files[Now]
      BY <1>1 DEF TypeOK
    <3>2. Len(Files[Now]) \in Nat /\ DOMAIN Files[Now] = 1 .. Len(Files[Now])
      BY <1>1, VersionFacts
    <3> QED BY <1>4, <3>1, <3>2
  <2>2. f \in Seq(Row) /\ RowsOf(f) \subseteq Row /\ Sorted(f) /\ Behind(f, 0)
    BY <1>1, <2>1, FileFacts
  <2>3. task' = [task EXCEPT !.pc = "read", !.file = f] BY <1>4 DEF Open
  <2>4. /\ task'.todo = task.todo /\ task'.id = task.id /\ task'.from = task.from
        /\ task'.known = task.known /\ task'.pc = "read" /\ task'.file = f
        /\ task'.last = task.last
    BY <1>1, <2>3 DEF Slot
  <2>7. task'.last = 0 /\ Now' = Now BY <1>1, <2>4 DEF IInv, Covered, Now
  <2>5. CASE task.from > 0
    <3>1. records' = records BY <1>4, <2>5 DEF Open
    <3>2. RecordsSound' /\ Attached' /\ Known' /\ Current' = Current
      BY <1>1, <1>2, <2>4, <2>7, <3>1, GoesOn DEF IInv
    <3>3. Sound(Current, Now, cache[Now], table)
      BY <1>1 DEF Current, IInv, RecordsSound
    <3>4. Current.scope \subseteq RowsOf(f) BY <3>3 DEF Sound
    <3>5. Covered' BY <1>1, <2>2, <2>4, <2>7, <3>2, <3>4 DEF Covered, IInv
    <3> QED BY <3>2, <3>5
  <2>6. CASE ~(task.from > 0)
    <3> DEFINE new == {r \in RowsOf(f) : Kept(task.known, r)}
               rec == [Current EXCEPT !.scope = new]
    <3>1. records' = [records EXCEPT ![Now][task.id] = rec]
      BY <1>4, <2>6 DEF Open, Current
    <3>2. rec \in Record /\ rec.scope = new /\ rec.mark = Current.mark
          /\ rec.status = Current.status
      BY <1>1, <2>2 DEF Record
    <3>3. Current.mark = 0 /\ Current.status = "running"
      BY <1>1, <2>6 DEF IInv, Covered, Slot
    <3>4. task.known \subseteq table BY <1>1 DEF IInv, Attached
    <3>5. \A r \in new : Key[r] > 0 /\ Key[r] \in Nat /\ r \in RowsOf(f) /\ Kept(task.known, r)
      BY <2>2, SyncAssumption DEF Behind
    <3>6. Sound(rec, Now, cache[Now], table)
      <4>1. \A r \in new : ~(Key[r] <= 0) /\ Kept(table, r) BY <3>4, <3>5 DEF Kept
      <4> QED BY <2>1, <3>2, <3>3, <3>5, <4>1 DEF Sound
    <3> HIDE DEF rec
    <3>7. /\ records'[Now][task.id] = rec
          /\ \A e \in Dataset :
               /\ DOMAIN records'[e] = DOMAIN records[e]
               /\ \A j \in DOMAIN records[e] :
                    ~(e = Now /\ j = task.id) => records'[e][j] = records[e][j]
      BY <1>1, <3>1, <3>2, Replaced
    <3>8. RecordsSound' BY <1>1, <3>6, <3>7 DEF RecordsSound, IInv
    <3>9. Current' = rec BY <2>4, <2>7, <3>7 DEF Current
    <3>10. Attached'
      <4>1. task'.from = 0 BY <1>1, <2>4, <2>7, <2>6 DEF Slot
      <4> QED BY <1>1, <2>4, <2>7, <3>2, <3>4, <3>5, <3>7, <3>9, <4>1 DEF Attached, IInv
    <3>11. Known' BY <2>4, <2>7, <3>2, <3>5, <3>9 DEF Known
    <3>12. Covered' BY <2>2, <2>4, <2>7, <3>2, <3>3, <3>5, <3>9 DEF Covered
    <3> QED BY <3>8, <3>10, <3>11, <3>12
  <2> QED BY <2>5, <2>6
<1> QED BY <1>3, <1>4

\* A row of the scope that is passed is stored already; one that is taken moves from the
\* file to the batch, or with the batch to the table.
LEMMA ReadRowStep ==
  ASSUME IInv, TypeOK', NEW ok \in BOOLEAN, ReadRow(ok)
  PROVE  RecordsSound' /\ Attached' /\ Known' /\ Covered'
<1>1. /\ Busy /\ task \in Slot /\ task.file # <<>> /\ task.pc = "read" /\ TypeOK
      /\ records' = records /\ cache' = cache /\ task.file \in Seq(Row)
  BY DEF IInv, TypeOK, ReadRow, Busy, Slot, cacheState
<1> DEFINE r == Head(task.file)
           t == Taken(r)
<1>2. /\ RowsOf(task.file) = {r} \cup RowsOf(Tail(task.file))
      /\ Sorted(Tail(task.file)) /\ Behind(Tail(task.file), Key[r])
      /\ Behind(Tail(task.file), task.last)
      /\ Current.scope \subseteq table \cup task.batch \cup RowsOf(task.file)
      /\ Current.status = "running"
  BY <1>1, TailFacts DEF IInv, Covered, Behind
<1>3. /\ t \in Slot /\ t.pc = task.pc /\ t.file = Tail(task.file)
      /\ t.batch = task.batch \cup {r} /\ t.last = Key[r] /\ t.next = "check"
      /\ t.todo = task.todo /\ t.id = task.id /\ t.from = task.from /\ t.known = task.known
      /\ t.batch \subseteq Row
  BY <1>1, TakenFacts DEF Slot
<1> HIDE DEF t
<1>4. CASE Passed(r)
  <2>1. task' = [task EXCEPT !.file = Tail(task.file)] /\ table' = table
    BY <1>4, <1>1 DEF ReadRow
  <2>2. Grows BY <1>1, <2>1 DEF Grows, TypeOK
  <2>3. /\ task'.todo = task.todo /\ task'.id = task.id /\ task'.from = task.from
        /\ task'.known = task.known /\ task'.pc = "read" /\ task'.file = Tail(task.file)
        /\ task'.last = task.last /\ task'.batch = task.batch
    BY <1>1, <2>1 DEF Slot
  <2>4. RecordsSound' /\ Attached' /\ Known' /\ Current' = Current
    BY <1>1, <2>2, <2>3, GoesOn DEF IInv
  <2>5. r \in Current.scope => r \in table
    BY <1>1, <1>4 DEF Passed, IInv, Attached, Known
  <2>6. Covered' BY <1>2, <2>1, <2>3, <2>4, <2>5 DEF Covered
  <2> QED BY <2>4, <2>6
<1>5. CASE ~Passed(r)
  <2>1. \/ task' = [t EXCEPT !.pc = DueOf(t)] /\ table' = table
        \/ Written(t.batch, ok) /\ task' = [t EXCEPT !.pc = "failed"]
        \/ ok /\ Written(t.batch, ok) /\ task' = [t EXCEPT !.batch = {}, !.pc = DueOf(t)]
    BY <1>5 DEF ReadRow, t
  <2>2. /\ table \subseteq table'
        /\ ok /\ Written(t.batch, ok) => table' = table \cup t.batch
    BY <1>1, <1>3, <2>1, WrittenFacts
  <2>3. Grows BY <1>1, <2>2 DEF Grows, TypeOK
  <2>4. DueOf(t) \in {"flush", "check"} BY DueFacts
  <2>5. /\ task'.todo = t.todo /\ task'.id = t.id /\ task'.from = t.from
        /\ task'.known = t.known /\ task'.file = t.file
        /\ task'.last = t.last /\ task'.next = "check"
        /\ \/ task'.pc \in {"flush", "check"} /\ task'.batch = t.batch
           \/ task'.pc = "failed"
           \/ /\ task'.pc \in {"flush", "check"} /\ task'.batch = {}
              /\ table' = table \cup t.batch
    BY <1>3, <2>1, <2>2, <2>4 DEF Slot
  <2>6. RecordsSound' /\ Attached' /\ Known' /\ Current' = Current
    BY <1>1, <1>3, <2>3, <2>5, GoesOn DEF IInv
  <2>7. Covered' BY <1>2, <1>3, <2>2, <2>5, <2>6 DEF Covered
  <2> QED BY <2>6, <2>7
<1> QED BY <1>4, <1>5

LEMMA FlushStep ==
  ASSUME IInv, TypeOK', NEW ok \in BOOLEAN, Flush(ok)
  PROVE  RecordsSound' /\ Attached' /\ Known' /\ Covered'
<1>1. /\ Busy /\ task \in Slot /\ task.pc = "flush" /\ TypeOK /\ task.batch \in SUBSET Row
      /\ records' = records /\ cache' = cache /\ Written(task.batch, ok)
  BY DEF IInv, TypeOK, Flush, Busy, Slot, cacheState
<1>2. /\ table \subseteq table' /\ (ok => table' = table \cup task.batch)
  BY <1>1, WrittenFacts
<1>3. Grows BY <1>1, <1>2 DEF Grows, TypeOK
<1>4. /\ task'.todo = task.todo /\ task'.id = task.id /\ task'.from = task.from
      /\ task'.known = task.known /\ task'.file = task.file /\ task'.last = task.last
      /\ task'.next = task.next
      /\ \/ ok /\ task'.pc = "save" /\ task'.batch = {}
         \/ ~ok /\ task'.pc = "failed"
  BY <1>1 DEF Flush, Slot
<1>5. RecordsSound' /\ Attached' /\ Known' /\ Current' = Current
  BY <1>1, <1>3, <1>4, GoesOn DEF IInv
<1>6. Covered' BY <1>1, <1>2, <1>4, <1>5 DEF Covered, IInv
<1> QED BY <1>5, <1>6

\* A checkpoint is saved with an empty batch: what lies before it is in the table.
LEMMA SaveStep ==
  ASSUME IInv, TypeOK', NEW ok \in BOOLEAN, Save(ok)
  PROVE  RecordsSound' /\ Attached' /\ Known' /\ Covered'
<1>1. /\ Busy /\ task \in Slot /\ task.pc = "save" /\ TypeOK
      /\ table' = table /\ cache' = cache
  BY DEF IInv, TypeOK, Save, Busy, cacheState
<1>2. Grows BY <1>1 DEF Grows, TypeOK
<1>3. CASE ok = FALSE
  <2>1. records' = records /\ task' = [task EXCEPT !.pc = "failed"] BY <1>3 DEF Save
  <2>2. /\ task'.todo = task.todo /\ task'.id = task.id /\ task'.from = task.from
        /\ task'.known = task.known /\ task'.pc = "failed"
    BY <1>1, <2>1 DEF Slot
  <2> QED BY <1>1, <1>2, <2>1, <2>2, GoesOn DEF IInv, Covered
<1>4. CASE ok = TRUE
  <2> DEFINE rec == [Current EXCEPT !.mark = task.last, !.rows = task.rows]
  <2>1. Save(TRUE) BY <1>4
  <2>2. /\ records \in [Dataset -> Seq(Record)] /\ Now \in Dataset
        /\ task.id \in DOMAIN records[Now] /\ rec \in Record
        /\ records' = [records EXCEPT ![Now][task.id] = rec]
        /\ task' = [task EXCEPT !.pc = task.next]
    BY <2>1, SaveFacts
  <2>3. Current \in Record BY <1>1, NowFacts DEF IInv
  <2>4. rec.scope = Current.scope /\ rec.mark = task.last /\ rec.status = Current.status
    BY <2>3 DEF Record
  <2>5. /\ Current.status = "running" /\ Behind(task.file, task.last) /\ Sorted(task.file)
        /\ Current.scope \subseteq table \cup RowsOf(task.file)
        /\ task.next = "completed" => task.file = <<>>
    BY <1>1 DEF IInv, Covered
  <2>6. Sound(Current, Now, cache[Now], table) BY <2>2 DEF Current, IInv, RecordsSound
  <2>7. task.last \in Nat /\ \A r \in Current.scope : Key[r] \in Nat
    BY <1>1, <2>3, SyncAssumption DEF Slot, Record
  <2>8. Sound(rec, Now, cache[Now], table)
    <3>1. ASSUME NEW r \in Current.scope, Key[r] <= task.last PROVE r \in table
      <4>1. r \notin RowsOf(task.file) BY <2>5, <2>7, <3>1 DEF Behind
      <4> QED BY <2>5, <4>1
    <3> QED BY <2>4, <2>5, <2>6, <3>1 DEF Sound
  <2> HIDE DEF rec
  <2>9. /\ records'[Now][task.id] = rec
        /\ \A e \in Dataset :
             /\ DOMAIN records'[e] = DOMAIN records[e]
             /\ \A j \in DOMAIN records[e] :
                  ~(e = Now /\ j = task.id) => records'[e][j] = records[e][j]
    BY <2>2, Replaced
  <2>10. RecordsSound' BY <1>1, <2>2, <2>8, <2>9 DEF RecordsSound, IInv
  <2>11. /\ task'.todo = task.todo /\ task'.id = task.id /\ task'.from = task.from
         /\ task'.known = task.known /\ task'.file = task.file /\ task'.batch = task.batch
         /\ task'.last = task.last /\ task'.pc = task.next /\ Now' = Now
         /\ task.next \in {"check"} \cup Outcome
    BY <1>1, <2>2 DEF Slot, Now
  <2>12. Current' = rec BY <2>9, <2>11 DEF Current
  <2>13. Attached' BY <1>1, <2>2, <2>4, <2>9, <2>11, <2>12 DEF Attached, IInv
  <2>14. Known' BY <1>1, <2>4, <2>11, <2>12 DEF Known, IInv
  <2>15. task.next = "completed" => Current.scope \subseteq table
    BY <2>5 DEF RowsOf
  <2>16. Covered'
    BY <1>1, <2>4, <2>5, <2>11, <2>12, <2>15 DEF Covered, Outcome
  <2> QED BY <2>10, <2>13, <2>14, <2>16
<1> QED BY <1>3, <1>4

LEMMA CloseStep ==
  ASSUME IInv, TypeOK', NEW ok \in BOOLEAN, Close(ok)
  PROVE  RecordsSound' /\ Attached' /\ Known' /\ Covered'
<1>1. /\ Busy /\ task \in Slot /\ task.pc \in Outcome /\ TypeOK
      /\ table' = table /\ cache' = cache /\ task' = RestOf(task)
  BY DEF IInv, TypeOK, Close, Busy, cacheState, Outcome
<1>2. task.todo # <<>> /\ Now \in Dataset BY <1>1, NowFacts DEF IInv
<1>3. Attached' /\ Known' /\ Covered' BY <1>1, <1>2, RestFacts, BetweenDatasets
<1>4. Grows BY <1>1 DEF Grows, TypeOK
<1>5. CASE ok = FALSE
  <2>1. records' = records BY <1>5 DEF Close
  <2> QED BY <1>3, <1>4, <2>1, RecordsKept, UnchangedRecords DEF IInv
<1>6. CASE ok = TRUE
  <2> DEFINE rec == [Current EXCEPT !.status = task.pc]
  <2>1. Close(TRUE) BY <1>6
  <2>2. /\ records \in [Dataset -> Seq(Record)]
        /\ task.id \in DOMAIN records[Now] /\ rec \in Record
        /\ records' = [records EXCEPT ![Now][task.id] = rec]
    BY <2>1, CloseFacts
  <2>3. Current \in Record BY <1>1, NowFacts DEF IInv
  <2>4. rec.scope = Current.scope /\ rec.mark = Current.mark /\ rec.status = task.pc
    BY <2>3 DEF Record
  <2>5. Sound(Current, Now, cache[Now], table) BY <1>2, <2>2 DEF Current, IInv, RecordsSound
  <2>6. task.pc = "completed" => Current.scope \subseteq table BY DEF IInv, Covered
  <2>7. Sound(rec, Now, cache[Now], table) BY <2>4, <2>5, <2>6 DEF Sound
  <2> HIDE DEF rec
  <2>8. /\ records'[Now][task.id] = rec
        /\ \A e \in Dataset :
             /\ DOMAIN records'[e] = DOMAIN records[e]
             /\ \A j \in DOMAIN records[e] :
                  ~(e = Now /\ j = task.id) => records'[e][j] = records[e][j]
    BY <1>2, <2>2, Replaced
  <2>9. RecordsSound' BY <1>1, <2>7, <2>8 DEF RecordsSound, IInv
  <2> QED BY <1>3, <2>9
<1> QED BY <1>5, <1>6

\* Steps of everybody but the task.
LEMMA OutsideStep ==
  ASSUME IInv, TypeOK',
         \/ CancelSync \/ LoaderStart \/ \E ok \in BOOLEAN : LoaderEnd(ok)
         \/ \E ds \in Request : StartDownload(ds)
         \/ \E d \in Dataset : NewVersion(d) \/ DayPasses(d)
  PROVE  RecordsSound' /\ Attached' /\ Known' /\ Covered'
<1>1. table' = table /\ UNCHANGED <<records, task>>
  BY DEF CancelSync, LoaderStart, LoaderEnd, StartDownload, NewVersion, DayPasses
<1>2. cache' = cache \/ (loading /\ Downloaded(Head(loader)))
  BY DEF CancelSync, LoaderStart, LoaderEnd, StartDownload, NewVersion, DayPasses, cacheState
<1>3. \A d \in Dataset : cache[d] <= cache'[d]
  <2>1. CASE cache' = cache BY <2>1 DEF IInv, TypeOK
  <2>2. CASE loading /\ Downloaded(Head(loader))
    <3>1. Head(loader) \in Dataset BY <2>2, TodoFacts DEF IInv, TypeOK, LoaderBusy
    <3> QED BY <2>2, <3>1, DownloadedType DEF IInv
  <2> QED BY <1>2, <2>1, <2>2
<1> QED BY <1>1, <1>3, OthersStep DEF Grows

LEMMA LoaderStep == ASSUME IInv, [Next]_vars PROVE LoaderBusy'
<1>1. CASE loader' = loader /\ loading' = loading BY <1>1 DEF IInv, LoaderBusy
<1>2. CASE loading' = FALSE BY <1>2 DEF LoaderBusy
<1>3. ASSUME NEW ds \in Request, StartDownload(ds) PROVE LoaderBusy'
  BY <1>3 DEF StartDownload, IInv, LoaderBusy
<1>4. CASE LoaderStart
  <2>1. loader # <<>> /\ ~loading BY <1>4 DEF LoaderStart
  <2>2. loader' = loader \/ loading' = loading BY <1>4 DEF LoaderStart
  <2> QED BY <2>1, <2>2 DEF LoaderBusy
<1>5. CASE TaskStep
  BY <1>1, <1>5
     DEF TaskStep, EndRun, Skip, Begin, Fetch, Open, EndOfFile, CheckCancelled, Download,
         ReadRow, Flush, Save, Close, loaderState
<1>6. CASE UNCHANGED vars BY <1>1, <1>6 DEF vars
<1>7. ASSUME NEW ds \in Request, StartSync(ds) \/ StartForced(ds) \/ StartProcess(ds)
      PROVE  LoaderBusy'
  BY <1>1, <1>7 DEF StartSync, StartForced, StartProcess, Claim, loaderState
<1> QED
  BY <1>1, <1>2, <1>3, <1>4, <1>5, <1>6, <1>7
     DEF Next, CancelSync, LoaderEnd, NewVersion, DayPasses, Restart, loaderState

LEMMA Inductive == ASSUME IInv, [Next]_vars PROVE IInv'
<1>1. TypeOK' BY StepType
<1>2. LoaderBusy' BY LoaderStep
<1>3. RecordsSound' /\ Attached' /\ Known' /\ Covered'
  <2>1. CASE TaskStep
    BY <1>1, <2>1, RestStep, BeginStep, MoveStep, OpenStep, ReadRowStep, FlushStep, SaveStep,
       CloseStep DEF TaskStep
  <2>2. CASE UNCHANGED vars
    <3>1. Grows BY <2>2 DEF vars, Grows, IInv, TypeOK
    <3> QED BY <1>1, <2>2, <3>1, OthersStep DEF vars
  <2> QED BY <1>1, <2>1, <2>2, StartStep, RestStep, OutsideStep DEF Next
<1> QED BY <1>1, <1>2, <1>3 DEF IInv

LEMMA Initial == Init => IInv
  BY InitType DEF Init, IInv, RecordsSound, Attached, Known, Covered, LoaderBusy, Busy, Idle

THEOREM Invariance == Spec => []IInv
  BY Initial, Inductive, PTL DEF Spec

---------------------------------------------------------------------------
\* Every variable keeps its type: records, checkpoints and the slot of the task included.
THEOREM TypeCorrect == Spec => []TypeOK
<1>1. IInv => TypeOK BY DEF IInv
<1> QED BY <1>1, Invariance, PTL

\* No checkpoint that update_sync_progress_full() saves is ahead of the table, for any
\* files, batch size, intervals, faults and requests.
THEOREM CheckpointsSound == Spec => []MarkNotAhead
<1>1. IInv => MarkNotAhead BY DEF IInv, RecordsSound, Sound, MarkNotAhead
<1> QED BY <1>1, Invariance, PTL

\* What complete_sync() marks has all its rows in the table, over all attempts.
THEOREM CompletedStored == Spec => []CompletedIsStored
<1>1. IInv => CompletedIsStored BY DEF IInv, RecordsSound, Sound, CompletedIsStored
<1> QED BY <1>1, Invariance, PTL

---------------------------------------------------------------------------
(* A claimed slot is on its way to being free *)

\* What is left of a sync: its datasets, how far it is with the first of them, the rows of
\* its file, and how far it is with one row or with the last flush.
Stage(pc) ==
  CASE pc = "next" -> 6 [] pc = "fetch" -> 5 [] pc = "download" -> 4 [] pc = "open" -> 3
    [] pc \in {"read", "check", "flush", "save"} -> 2 [] pc \in Outcome -> 1 [] OTHER -> 0
Round(pc) == CASE pc = "flush" -> 6 [] pc = "save" -> 5 [] pc = "check" -> 4 [] OTHER -> 3
Weight(n, k) == 8 * n + k
Ending(x) == x.next # "check" /\ x.pc \in {"flush", "save"}
Work(x) ==
  IF Ending(x) THEN (IF x.pc = "flush" THEN 2 ELSE 1) ELSE Weight(Len(x.file), Round(x.pc))
Distance(x) == [sets |-> Len(x.todo), stage |-> Stage(x.pc), work |-> Work(x)]
Less(a, b) ==
  \/ a.sets < b.sets
  \/ a.sets = b.sets /\ a.stage < b.stage
  \/ a.sets = b.sets /\ a.stage = b.stage /\ a.work < b.work

Nearer == task'.pc = "idle" \/ Less(Distance(task'), Distance(task))
StepsCount ==
  /\ TaskStep => Nearer
  /\ task.pc # "idle" => Nearer \/ UNCHANGED task
Countable == Distance(task) \in [sets : Nat, stage : Nat, work : Nat]

LEMMA StageFacts ==
  /\ Stage("next") = 6 /\ Stage("fetch") = 5 /\ Stage("download") = 4 /\ Stage("open") = 3
  /\ Stage("read") = 2 /\ Stage("check") = 2 /\ Stage("flush") = 2 /\ Stage("save") = 2
  /\ \A pc \in Outcome : Stage(pc) = 1
  /\ \A pc : Stage(pc) \in Nat
  BY DEF Stage, Outcome

LEMMA RoundFacts ==
  /\ Round("flush") = 6 /\ Round("save") = 5 /\ Round("check") = 4 /\ Round("read") = 3
  /\ \A pc : Round(pc) \in 3 .. 6
  BY DEF Round

LEMMA WeightFacts ==
  ASSUME NEW n \in Nat, NEW j \in 3 .. 6, NEW k \in 3 .. 6
  PROVE  /\ Weight(n, k) \in Nat /\ Weight(n, k) > 2
         /\ j < k => Weight(n, j) < Weight(n, k)
         /\ n > 0 => Weight(n - 1, j) < Weight(n, k)
<1>1. 8 * n \in Nat OBVIOUS
<1>2. Weight(n, k) \in Nat /\ Weight(n, k) > 2 BY <1>1 DEF Weight
<1>3. j < k => Weight(n, j) < Weight(n, k) BY DEF Weight
<1>4. n > 0 => Weight(n - 1, j) < Weight(n, k) BY DEF Weight
<1> QED BY <1>2, <1>3, <1>4

LEMMA FileLength == ASSUME NEW x \in Slot PROVE Len(x.file) \in Nat /\ Len(x.todo) \in Nat
<1>1. x.file \in Seq(Row) /\ x.todo \in Seq(Dataset) BY DEF Slot
<1> QED BY <1>1

LEMMA TypesCount == TypeOK => Countable
<1> SUFFICES ASSUME TypeOK PROVE Countable OBVIOUS
<1>1. Len(task.file) \in Nat /\ Len(task.todo) \in Nat BY FileLength DEF TypeOK
<1>2. Round(task.pc) \in 3 .. 6 BY RoundFacts
<1>3. Weight(Len(task.file), Round(task.pc)) \in Nat BY <1>1, <1>2, WeightFacts
<1>4. Work(task) \in Nat BY <1>3 DEF Work
<1> QED BY <1>1, <1>4, StageFacts DEF Countable, Distance

\* The ways to come nearer: the next dataset, a later stage, and within one, less to do.
LEMMA FewerSets ==
  ASSUME task \in Slot, task.todo # <<>>, task' = RestOf(task)
  PROVE  Nearer
<1>1. PICK s : s = task.todo OBVIOUS
<1>2. s \in Seq(Dataset) /\ s # <<>> BY <1>1 DEF Slot
<1>3. Len(Tail(s)) < Len(s) BY <1>2
<1>4. RestOf(task).todo = Tail(s) BY <1>1 DEF RestOf, Idle
<1> QED BY <1>1, <1>3, <1>4 DEF Nearer, Less, Distance

LEMMA LaterStage ==
  ASSUME task'.todo = task.todo, Stage(task'.pc) < Stage(task.pc)
  PROVE  Nearer
  BY DEF Nearer, Less, Distance

LEMMA LessWork ==
  ASSUME task'.todo = task.todo, Stage(task'.pc) = Stage(task.pc), Work(task') < Work(task)
  PROVE  Nearer
  BY DEF Nearer, Less, Distance

\* A row that is read, passed over or taken.
LEMMA ReadRowNearer ==
  ASSUME TypeOK, NEW ok \in BOOLEAN, ReadRow(ok)
  PROVE  Nearer
<1>1. task \in Slot /\ task.file # <<>> /\ task.pc = "read" BY DEF TypeOK, ReadRow
<1>2. PICK f : f = Tail(task.file) OBVIOUS
<1>3. /\ f \in Seq(Row) /\ Len(f) = Len(task.file) - 1 /\ Len(task.file) \in Nat
      /\ Len(task.file) > 0
  <2>1. task.file \in Seq(Row) BY <1>1 DEF Slot
  <2> QED BY <1>1, <1>2, <2>1
<1> DEFINE r == Head(task.file)
           t == Taken(r)
<1>4. t \in Slot /\ t.pc = "read" /\ t.file = f /\ t.todo = task.todo /\ t.next = "check"
  BY <1>1, <1>2, TakenFacts
<1>5. ASSUME NEW x, task' = x, x.file = f, x.todo = task.todo,
             x.pc = "read" \/ (x.pc \in {"flush", "check"} /\ x.next = "check")
      PROVE  Nearer
  <2>1. Stage(x.pc) = Stage(task.pc) BY <1>1, <1>5, StageFacts
  <2>2. Work(x) = Weight(Len(task.file) - 1, Round(x.pc)) BY <1>3, <1>5 DEF Work, Ending
  <2>3. Work(task) = Weight(Len(task.file), Round("read")) BY <1>1 DEF Work, Ending
  <2>4. Round(x.pc) \in 3 .. 6 /\ Round("read") \in 3 .. 6 BY RoundFacts
  <2>5. Work(x) < Work(task) BY <1>3, <2>2, <2>3, <2>4, WeightFacts
  <2> QED BY <1>5, <2>1, <2>5, LessWork
<1> HIDE DEF t
<1>6. CASE Passed(r)
  <2>1. task' = [task EXCEPT !.file = f] BY <1>2, <1>6 DEF ReadRow
  <2>2. task'.file = f /\ task'.todo = task.todo /\ task'.pc = "read" BY <1>1, <2>1 DEF Slot
  <2> QED BY <1>5, <2>2
<1>7. CASE ~Passed(r) /\ Cardinality(t.batch) < Batch
  <2>1. task' = [t EXCEPT !.pc = DueOf(t)] BY <1>7 DEF ReadRow, t
  <2>2. /\ task'.file = f /\ task'.todo = task.todo /\ task'.next = "check"
        /\ task'.pc \in {"flush", "check"}
    BY <1>4, <2>1, DueFacts DEF Slot
  <2> QED BY <1>5, <2>2
<1>8. CASE ~Passed(r) /\ ~(Cardinality(t.batch) < Batch)
  <2>1. task' = IF ok THEN [t EXCEPT !.batch = {}, !.pc = DueOf(t)]
                      ELSE [t EXCEPT !.pc = "failed"]
    BY <1>8 DEF ReadRow, t
  <2>2. CASE ok
    <3>1. /\ task'.file = f /\ task'.todo = task.todo /\ task'.next = "check"
          /\ task'.pc \in {"flush", "check"}
      BY <1>4, <2>1, <2>2, DueFacts DEF Slot
    <3> QED BY <1>5, <3>1
  <2>3. CASE ~ok
    <3>1. task'.todo = task.todo /\ task'.pc = "failed" BY <1>4, <2>1, <2>3 DEF Slot
    <3>2. Stage(task'.pc) < Stage(task.pc) BY <1>1, <3>1, StageFacts DEF Outcome
    <3> QED BY <3>1, <3>2, LaterStage
  <2> QED BY <2>2, <2>3
<1> QED BY <1>6, <1>7, <1>8

\* The other steps within a file.
LEMMA RoundNearer ==
  ASSUME TypeOK, \/ EndOfFile \/ CheckCancelled
                 \/ \E ok \in BOOLEAN : Flush(ok) \/ Save(ok)
  PROVE  Nearer
<1>1. task \in Slot BY DEF TypeOK
<1>2. PICK n \in Nat : n = Len(task.file) BY <1>1, FileLength
<1>3. ASSUME task'.todo = task.todo, task'.pc \in Outcome,
             task.pc \in {"read", "check", "flush", "save"}
      PROVE  Nearer
  <2>1. Stage(task'.pc) < Stage(task.pc) BY <1>3, StageFacts
  <2> QED BY <1>3, <2>1, LaterStage
<1>4. ASSUME task'.todo = task.todo, task'.pc \in {"read", "check", "flush", "save"},
             task.pc \in {"read", "check", "flush", "save"}, Work(task') < Work(task)
      PROVE  Nearer
  <2>1. Stage(task'.pc) = Stage(task.pc) BY <1>4, StageFacts
  <2> QED BY <1>4, <2>1, LessWork
<1>5. \A pc : Round(pc) \in 3 .. 6 BY RoundFacts
<1>6. CASE EndOfFile
  <2>1. task' = [task EXCEPT !.pc = "flush", !.next = "completed"] /\ task.pc = "read"
    BY <1>6 DEF EndOfFile
  <2>2. task'.pc = "flush" /\ task'.next = "completed" /\ task'.todo = task.todo
    BY <1>1, <2>1 DEF Slot
  <2>3. Work(task') = 2 BY <2>2 DEF Work, Ending
  <2>4. Work(task) = Weight(n, Round("read")) BY <1>2, <2>1 DEF Work, Ending
  <2>5. Work(task') < Work(task) BY <1>5, <2>3, <2>4, WeightFacts
  <2> QED BY <1>4, <2>1, <2>2, <2>5
<1>7. CASE CheckCancelled
  <2>1. task.pc = "check" BY <1>7 DEF CheckCancelled
  <2>2. Work(task) = Weight(n, 4) BY <1>2, <2>1, RoundFacts DEF Work, Ending
  <2>3. CASE task' = [task EXCEPT !.pc = "flush", !.next = "cancelled"]
    <3>1. task'.pc = "flush" /\ task'.next = "cancelled" /\ task'.todo = task.todo
      BY <1>1, <2>3 DEF Slot
    <3>2. Work(task') = 2 BY <3>1 DEF Work, Ending
    <3>3. Work(task') < Work(task) BY <2>2, <3>2, WeightFacts
    <3> QED BY <1>4, <2>1, <3>1, <3>3
  <2>4. CASE task' = [task EXCEPT !.pc = "read"]
    <3>1. task'.pc = "read" /\ task'.todo = task.todo /\ task'.file = task.file
      BY <1>1, <2>4 DEF Slot
    <3>2. Work(task') = Weight(n, 3) BY <1>2, <3>1, RoundFacts DEF Work, Ending
    <3>3. Work(task') < Work(task) BY <2>2, <3>2, WeightFacts
    <3> QED BY <1>4, <2>1, <3>1, <3>3
  <2> QED BY <1>7, <2>3, <2>4 DEF CheckCancelled
<1>8. ASSUME NEW ok \in BOOLEAN, Flush(ok) PROVE Nearer
  <2>1. task.pc = "flush" BY <1>8 DEF Flush
  <2>2. CASE ok
    <3>1. task' = [task EXCEPT !.pc = "save", !.batch = {}] BY <1>8, <2>2 DEF Flush
    <3>2. /\ task'.pc = "save" /\ task'.todo = task.todo /\ task'.file = task.file
          /\ task'.next = task.next
      BY <1>1, <3>1 DEF Slot
    <3>3. CASE task.next = "check"
      <4>1. Work(task') = Weight(n, 5) BY <1>2, <3>2, <3>3, RoundFacts DEF Work, Ending
      <4>2. Work(task) = Weight(n, 6) BY <1>2, <2>1, <3>3, RoundFacts DEF Work, Ending
      <4>3. Work(task') < Work(task) BY <4>1, <4>2, WeightFacts
      <4> QED BY <1>4, <2>1, <3>2, <4>3
    <3>4. CASE task.next # "check"
      <4>1. Work(task') = 1 /\ Work(task) = 2 BY <2>1, <3>2, <3>4 DEF Work, Ending
      <4> QED BY <1>4, <2>1, <3>2, <4>1
    <3> QED BY <3>3, <3>4
  <2>3. CASE ~ok
    <3>1. task' = [task EXCEPT !.pc = "failed"] BY <1>8, <2>3 DEF Flush
    <3>2. task'.pc = "failed" /\ task'.todo = task.todo BY <1>1, <3>1 DEF Slot
    <3> QED BY <1>3, <2>1, <3>2 DEF Outcome
  <2> QED BY <2>2, <2>3
<1>9. ASSUME NEW ok \in BOOLEAN, Save(ok) PROVE Nearer
  <2>1. task.pc = "save" BY <1>9 DEF Save
  <2>2. CASE ok
    <3>1. task' = [task EXCEPT !.pc = task.next] BY <1>9, <2>2 DEF Save
    <3>2. task'.pc = task.next /\ task'.todo = task.todo /\ task'.file = task.file
      BY <1>1, <3>1 DEF Slot
    <3>3. CASE task.next = "check"
      <4>1. Work(task') = Weight(n, 4) BY <1>2, <3>2, <3>3, RoundFacts DEF Work, Ending
      <4>2. Work(task) = Weight(n, 5) BY <1>2, <2>1, <3>3, RoundFacts DEF Work, Ending
      <4>3. Work(task') < Work(task) BY <4>1, <4>2, WeightFacts
      <4> QED BY <1>4, <2>1, <3>2, <3>3, <4>3
    <3>4. CASE task.next # "check"
      <4>1. task.next \in Outcome BY <1>1, <3>4 DEF Slot
      <4> QED BY <1>3, <2>1, <3>2, <4>1
    <3> QED BY <3>3, <3>4
  <2>3. CASE ~ok
    <3>1. task' = [task EXCEPT !.pc = "failed"] BY <1>9, <2>3 DEF Save
    <3>2. task'.pc = "failed" /\ task'.todo = task.todo BY <1>1, <3>1 DEF Slot
    <3> QED BY <1>3, <2>1, <3>2 DEF Outcome
  <2> QED BY <2>2, <2>3
<1> QED BY <1>6, <1>7, <1>8, <1>9

\* The steps between two datasets, and before the file is read.
LEMMA OutsideNearer ==
  ASSUME IInv, \/ EndRun \/ Skip \/ Begin \/ Fetch \/ Open
               \/ \E how \in Outcome : Download(how)
               \/ \E ok \in BOOLEAN : Close(ok)
  PROVE  Nearer
<1>1. task \in Slot /\ TypeOK BY DEF IInv, TypeOK
<1>2. CASE EndRun BY <1>2, IdleFacts DEF EndRun, Nearer
<1>3. CASE Skip BY <1>1, <1>3, FewerSets DEF Skip
<1>4. CASE Begin
  <2>1. Begun BY <1>1, <1>4, BeginFacts
  <2>2. task'.pc = "fetch" /\ task'.todo = task.todo /\ task.pc = "next"
    <3>1. task' = [task EXCEPT !.pc = "fetch", !.id = task'.id, !.from = task'.from,
                               !.rows = task'.rows, !.known = table]
      BY <1>1, <2>1, <1>4 DEF Begin, Attempt, Slot
    <3> QED BY <1>1, <2>1, <3>1 DEF Slot, Begun
  <2>3. Stage(task'.pc) < Stage(task.pc) BY <2>2, StageFacts
  <2> QED BY <2>2, <2>3, LaterStage
<1>5. CASE Fetch
  <2>1. task.pc = "fetch" /\ task'.pc \in {"open", "download"} /\ task'.todo = task.todo
    BY <1>1, <1>5 DEF Fetch, Slot
  <2>2. Stage(task'.pc) < Stage(task.pc) BY <2>1, StageFacts
  <2> QED BY <2>1, <2>2, LaterStage
<1>6. ASSUME NEW how \in Outcome, Download(how) PROVE Nearer
  <2>1. /\ task.pc = "download" /\ task'.pc \in {"open"} \cup Outcome
        /\ task'.todo = task.todo
    BY <1>1, <1>6 DEF Download, Slot, Outcome
  <2>2. Stage(task'.pc) < Stage(task.pc) BY <2>1, StageFacts
  <2> QED BY <2>1, <2>2, LaterStage
<1>7. CASE Open
  <2>1. task.pc = "open" /\ task'.pc \in {"read", "failed"} /\ task'.todo = task.todo
    BY <1>1, <1>7 DEF Open, Slot
  <2>2. Stage(task'.pc) < Stage(task.pc) BY <2>1, StageFacts DEF Outcome
  <2> QED BY <2>1, <2>2, LaterStage
<1>8. ASSUME NEW ok \in BOOLEAN, Close(ok) PROVE Nearer
  <2>1. task.todo # <<>> BY <1>8, NowFacts DEF IInv, Close, Busy, Outcome
  <2> QED BY <1>1, <1>8, <2>1, FewerSets DEF Close
<1> QED BY <1>2, <1>3, <1>4, <1>5, <1>6, <1>7, <1>8

LEMMA StepCounts == ASSUME IInv, [Next]_vars PROVE StepsCount
<1>1. TaskStep => Nearer
  BY ReadRowNearer, RoundNearer, OutsideNearer DEF IInv, TaskStep
<1>2. ASSUME task.pc # "idle" PROVE Nearer \/ UNCHANGED task
  <2>1. CASE TaskStep BY <1>1, <2>1
  <2>2. ASSUME NEW ds \in Request, StartSync(ds) \/ StartForced(ds) \/ StartProcess(ds)
        PROVE  FALSE
    BY <1>2, <2>2 DEF StartSync, StartForced, StartProcess, Claim
  <2>3. ASSUME NEW ds \in Request, StartDownload(ds) PROVE UNCHANGED task
    BY <2>3 DEF StartDownload
  <2>4. CASE CancelSync BY <2>4 DEF CancelSync
  <2>5. ASSUME \/ LoaderStart \/ \E ok \in BOOLEAN : LoaderEnd(ok)
               \/ \E d \in Dataset : NewVersion(d) \/ DayPasses(d)
        PROVE  UNCHANGED task
    BY <2>5 DEF LoaderStart, LoaderEnd, NewVersion, DayPasses
  <2>6. CASE Restart BY <2>6, IdleFacts DEF Restart, Nearer
  <2>7. CASE UNCHANGED vars BY <2>7 DEF vars
  <2> QED BY <2>1, <2>2, <2>3, <2>4, <2>5, <2>6, <2>7 DEF Next
<1> QED BY <1>1, <1>2 DEF StepsCount

\* Every step of the task that holds the slot frees it or brings it nearer to that by a
\* count that cannot fall for ever, whatever fails, and no request, download or restart
\* takes it back.  With the task's weak fairness the slot is freed.
THEOREM SyncsComeToAnEnd == Spec => []Countable /\ [][StepsCount]_vars
<1>1. IInv => Countable BY TypesCount DEF IInv
<1>2. IInv /\ [Next]_vars => [StepsCount]_vars BY StepCounts
<1> QED BY <1>1, <1>2, Invariance, PTL DEF Spec

=============================================================================
