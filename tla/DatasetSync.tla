----------------------------- MODULE DatasetSync -----------------------------
(***************************************************************************)
(* The imports of the IMDb service.  A sync goes through its datasets one  *)
(* after the other: it downloads the file unless the cached one is recent, *)
(* reads it row by row, writes rows in batches and now and then saves the  *)
(* key of the last row as a checkpoint, where a sync that failed or was    *)
(* cancelled is resumed.  One task syncs or processes at a time; downloads *)
(* asked for on their own run next to it.                                  *)
(*                                                                         *)
(* A row is stored when its statement ran: an upsert, or an update of the  *)
(* rows that are there (ratings, titles of episodes).                      *)
(***************************************************************************)
EXTENDS Integers, Sequences, FiniteSets

CONSTANTS
  Datasets,     \* ALL_DATASETS, in processing order
  Row,          \* the rows of all files that the parsers accept
  Key,          \* Key[r]: what resuming compares, a title or name id, or a
                \* title id * 100 + ordering
  Needs,        \* Needs[r]: the rows (title, series, person) that must be stored for r
                \* to be kept
  Files,        \* Files[d][v]: the rows of version v of d's file, in order
  Batch,        \* BATCH_SIZE
  Every,        \* Every[d]: rows between checkpoints (PROGRESS_INTERVAL)
  CancelEvery,  \* CANCEL_CHECK_INTERVAL
  Faults,       \* the kinds of faults that may happen
  MaxFaults,    \* bound: how many of them happen
  MaxRuns       \* bound: how many syncs and downloads are started

Dataset == {Datasets[i] : i \in DOMAIN Datasets}

ASSUME SyncAssumption ==
  /\ Datasets \in Seq(Dataset)
  /\ Key \in [Row -> Nat \ {0}] /\ Needs \in [Row -> SUBSET Row]
  /\ \A d \in Dataset : /\ Files[d] \in Seq(Seq(Row)) /\ Len(Files[d]) > 0
                        /\ Every[d] \in Nat \ {0}
  /\ Batch \in Nat \ {0} /\ CancelEvery \in Nat \ {0}
  /\ Faults \subseteq {"http", "db", "crash"} /\ MaxFaults \in Nat /\ MaxRuns \in Nat

VARIABLES
  remote,      \* remote[d]: the version that IMDb offers
  cache,       \* cache[d]: the version in the cache directory, 0 when there is none
  recent,      \* the datasets whose cached file is less than a day old
  lock,        \* the datasets that have a .downloading file
  records,     \* records[d]: imdb_sync_status of d, in the order of started_at
  synced,      \* the datasets completed less than a day ago
  table,       \* the rows stored
  task,        \* the sync slot
  cancelled,   \* its cancellation token
  processOnly, \* the flag that downloads and skipping read
  loader,      \* the datasets a download task has still to do, the first one
  loading,     \* being downloaded by it
  runs, faults \* for the bounds

vars == <<remote, cache, recent, lock, records, synced, table, task, cancelled,
          processOnly, loader, loading, runs, faults>>
cacheState == <<remote, cache, recent, lock>>
loaderState == <<loader, loading>>
bounds == <<runs, faults>>

\* scope is a history: the rows the record's first attempt had to store.
Record == [status : {"running", "completed", "failed", "cancelled"},
           mark : Nat, rows : Nat, scope : SUBSET Row]
Outcome == {"completed", "failed", "cancelled"}
Idle == [pc |-> "idle", process |-> FALSE, todo |-> <<>>, id |-> 0, from |-> 0,
         known |-> {}, file |-> <<>>, batch |-> {}, rows |-> 0, last |-> 0, next |-> "check"]

Fault(kind) == kind \in Faults /\ faults < MaxFaults /\ faults' = faults + 1
RowsOf(f) == {f[i] : i \in DOMAIN f}
Kept(known, r) == Needs[r] \subseteq known

\* IMDb's files are sorted by what resuming compares, and rows are added to them, not
\* taken away.
ASSUME FilesAssumption ==
  \A d \in Dataset : \A v, w \in DOMAIN Files[d] :
    /\ \A i, j \in DOMAIN Files[d][v] : i < j => Key[Files[d][v][i]] < Key[Files[d][v][j]]
    /\ v <= w => RowsOf(Files[d][v]) \subseteq RowsOf(Files[d][w])

---------------------------------------------------------------------------
(* start_sync(), start_process(), cancel_sync(), start_download() *)

\* fail_stale_running_syncs()
UnstaleAsError(recs) ==                              \* mutant of Unstale
  [d \in Dataset |-> [i \in DOMAIN recs[d] |->
     IF recs[d][i].status = "running" THEN [recs[d][i] EXCEPT !.status = "error"]
                                      ELSE recs[d][i]]]
Unstale(recs) ==
  [d \in Dataset |-> [i \in DOMAIN recs[d] |->
     IF recs[d][i].status = "running" THEN [recs[d][i] EXCEPT !.status = "failed"]
                                      ELSE recs[d][i]]]

Claim(process, ds) ==
  /\ task.pc = "idle" /\ runs < MaxRuns
  /\ runs' = runs + 1
  /\ task' = [Idle EXCEPT !.pc = "next", !.process = process, !.todo = ds]
  /\ cancelled' = FALSE
  /\ processOnly' = process
  /\ UNCHANGED <<cacheState, loaderState, faults>>

StartSync(ds) ==
  /\ Claim(FALSE, ds)
  /\ records' = Unstale(records)
  /\ UNCHANGED <<table, synced>>

\* The tables and their history go in one TRUNCATE; when that fails nothing is done.
StartForced(ds) ==
  /\ Claim(FALSE, ds)
  /\ records' = [d \in Dataset |-> <<>>]
  /\ table' = {}
  /\ synced' = {}

StartProcess(ds) == Claim(TRUE, ds) /\ UNCHANGED <<records, table, synced>>

CancelSync ==
  /\ task.pc # "idle" /\ ~cancelled
  /\ cancelled' = TRUE
  /\ UNCHANGED <<cacheState, records, synced, table, task, processOnly, loaderState, bounds>>

StartDownload(ds) ==
  /\ loader = <<>> /\ runs < MaxRuns
  /\ runs' = runs + 1
  /\ loader' = ds
  /\ processOnly' = FALSE
  /\ UNCHANGED <<cacheState, records, synced, table, task, cancelled, loading, faults>>

---------------------------------------------------------------------------
(* run_single_dataset(), should_skip_dataset(), get_or_resume_sync() *)

Now == Head(task.todo)
RestAgain(t) == [Idle EXCEPT !.pc = "next", !.process = t.process, !.todo = t.todo] \* mutant of RestOf
RestOf(t) == [Idle EXCEPT !.pc = "next", !.process = t.process, !.todo = Tail(t.todo)]

EndRun ==
  /\ task.pc = "next" /\ (task.todo = <<>> \/ cancelled)
  /\ task' = Idle
  /\ processOnly' = IF task.process THEN FALSE ELSE processOnly
  /\ UNCHANGED <<cacheState, records, synced, table, cancelled, loaderState, bounds>>

Skips(d) ==
  \/ task.process /\ cache[d] = 0
  \/ ~processOnly /\ d \in synced

Skip ==
  /\ task.pc = "next" /\ task.todo # <<>> /\ ~cancelled
  /\ Skips(Now)
  /\ task' = RestOf(task)
  /\ UNCHANGED <<cacheState, records, synced, table, cancelled, processOnly, loaderState, bounds>>

Resumable(d) ==
  {i \in DOMAIN records[d] : records[d][i].status \in {"failed", "cancelled"}
                             /\ records[d][i].mark > 0}
NewRecord == [status |-> "running", mark |-> 0, rows |-> 0, scope |-> {}]

\* Filters, like the ids of known series, are loaded before the download.
Attempt(i, recs) ==
  /\ records' = [records EXCEPT ![Now] = recs]
  /\ task' = [task EXCEPT !.pc = "fetch", !.id = i, !.from = recs[i].mark,
                          !.rows = recs[i].rows, !.known = table]

Begin ==
  /\ task.pc = "next" /\ task.todo # <<>> /\ ~cancelled
  /\ ~Skips(Now)
  /\ \/ Resumable(Now) = {} /\ Attempt(Len(records[Now]) + 1, Append(records[Now], NewRecord))
     \/ \E i \in Resumable(Now) :
          /\ \A k \in Resumable(Now) : k <= i
          /\ Attempt(i, [records[Now] EXCEPT ![i].status = "running"])
  /\ UNCHANGED <<cacheState, synced, table, cancelled, processOnly, loaderState, bounds>>

---------------------------------------------------------------------------
(* download_dataset() *)

\* Another download is under way, or the cached file will do.
CachedIsUsed(d) == d \in lock \/ d \in recent
Fetch ==
  /\ task.pc = "fetch"
  /\ IF processOnly \/ CachedIsUsed(Now)
       THEN task' = [task EXCEPT !.pc = "open"] /\ lock' = lock
       ELSE task' = [task EXCEPT !.pc = "download"] /\ lock' = lock \cup {Now}
  /\ UNCHANGED <<remote, cache, recent, records, synced, table, cancelled, processOnly,
                 loaderState, bounds>>

\* The lock file goes only when the download succeeds.
Downloaded(d) ==
  /\ cache' = [cache EXCEPT ![d] = remote[d]]
  /\ recent' = recent \cup {d}
  /\ lock' = lock \ {d}
  /\ UNCHANGED remote

Download(how) ==
  /\ task.pc = "download"
  /\ \/ how = "completed" /\ Downloaded(Now) /\ faults' = faults
     \/ how = "failed" /\ Fault("http") /\ UNCHANGED cacheState
     \/ how = "cancelled" /\ cancelled /\ faults' = faults /\ UNCHANGED cacheState
  /\ task' = [task EXCEPT !.pc = IF how = "completed" THEN "open" ELSE how]
  /\ UNCHANGED <<records, synced, table, cancelled, processOnly, loaderState, runs>>

\* The download task: errors end it, nothing cancels it.
LoaderStart ==
  /\ loader # <<>> /\ ~loading
  /\ IF ~processOnly /\ CachedIsUsed(Head(loader))
       THEN loader' = Tail(loader) /\ UNCHANGED <<loading, lock>>
     ELSE IF processOnly
       THEN /\ loader' = IF cache[Head(loader)] = 0 THEN <<>> ELSE Tail(loader)
            /\ UNCHANGED <<loading, lock>>
     ELSE loader' = loader /\ loading' = TRUE /\ lock' = lock \cup {Head(loader)}
  /\ UNCHANGED <<remote, cache, recent, records, synced, table, task, cancelled, processOnly,
                 bounds>>

LoaderEnd(ok) ==
  /\ loading
  /\ loading' = FALSE
  /\ IF ok THEN Downloaded(Head(loader)) /\ loader' = Tail(loader) /\ faults' = faults
           ELSE Fault("http") /\ loader' = <<>> /\ UNCHANGED cacheState
  /\ UNCHANGED <<records, synced, table, task, cancelled, processOnly, runs>>

---------------------------------------------------------------------------
(* The inner loops: sync_title_basics_inner() and its siblings *)

\* A new record is given its scope.
Open ==
  /\ task.pc = "open"
  /\ IF cache[Now] = 0
       THEN task' = [task EXCEPT !.pc = "failed"] /\ records' = records
       ELSE LET f == Files[Now][cache[Now]] IN
            /\ task' = [task EXCEPT !.pc = "read", !.file = f]
            /\ records' = IF task.from > 0 THEN records
                          ELSE [records EXCEPT ![Now][task.id].scope =
                                  {r \in RowsOf(f) : Kept(task.known, r)}]
  /\ UNCHANGED <<cacheState, synced, table, cancelled, processOnly, loaderState, bounds>>

\* A statement that fails may have been one of several that make up the flush.
Written(batch, ok) ==
  IF ok THEN table' = table \cup batch /\ faults' = faults
        ELSE Fault("db") /\ \E part \in SUBSET batch : table' = table \cup part

DueUnflushed(t) ==                                   \* mutant of DueOf
  IF t.rows % Every[Head(t.todo)] = 0 THEN "save" ELSE "check"
DueOf(t) == IF t.rows % Every[Head(t.todo)] = 0 THEN "flush" ELSE "check"
Taken(r) ==
  [task EXCEPT !.file = Tail(@), !.batch = @ \cup {r}, !.rows = @ + 1, !.last = Key[r],
               !.next = "check"]

Passed(r) == ~Kept(task.known, r) \/ Key[r] <= task.from

ReadRow(ok) ==
  /\ task.pc = "read" /\ task.file # <<>>
  /\ LET r == Head(task.file)  t == Taken(r) IN
     IF Passed(r)
       THEN ok /\ task' = [task EXCEPT !.file = Tail(@)] /\ UNCHANGED <<table, faults>>
     ELSE IF Cardinality(t.batch) < Batch
       THEN ok /\ task' = [t EXCEPT !.pc = DueOf(t)] /\ UNCHANGED <<table, faults>>
     ELSE /\ Written(t.batch, ok)
          /\ task' = IF ok THEN [t EXCEPT !.batch = {}, !.pc = DueOf(t)]
                           ELSE [t EXCEPT !.pc = "failed"]
  /\ UNCHANGED <<cacheState, records, synced, cancelled, processOnly, loaderState, runs>>

EndUnflushed ==                                      \* mutant of EndOfFile
  /\ task.pc = "read" /\ task.file = <<>>
  /\ task' = [task EXCEPT !.pc = "save", !.next = "completed"]
  /\ UNCHANGED <<cacheState, records, synced, table, cancelled, processOnly, loaderState, bounds>>

EndOfFile ==
  /\ task.pc = "read" /\ task.file = <<>>
  /\ task' = [task EXCEPT !.pc = "flush", !.next = "completed"]
  /\ UNCHANGED <<cacheState, records, synced, table, cancelled, processOnly, loaderState, bounds>>

CheckCancelled ==
  /\ task.pc = "check"
  /\ task' = IF task.rows % CancelEvery = 0 /\ cancelled
               THEN [task EXCEPT !.pc = "flush", !.next = "cancelled"]
               ELSE [task EXCEPT !.pc = "read"]
  /\ UNCHANGED <<cacheState, records, synced, table, cancelled, processOnly, loaderState, bounds>>

\* "Flush before checkpoint so last_processed_id is never ahead of DB state"
Flush(ok) ==
  /\ task.pc = "flush"
  /\ Written(task.batch, ok)
  /\ task' = IF ok THEN [task EXCEPT !.pc = "save", !.batch = {}]
                   ELSE [task EXCEPT !.pc = "failed"]
  /\ UNCHANGED <<cacheState, records, synced, cancelled, processOnly, loaderState, runs>>

\* update_sync_progress_full()
Save(ok) ==
  /\ task.pc = "save"
  /\ IF ok THEN /\ faults' = faults
                /\ records' = [records EXCEPT ![Now][task.id].mark = task.last,
                                              ![Now][task.id].rows = task.rows]
                /\ task' = [task EXCEPT !.pc = task.next]
           ELSE Fault("db") /\ records' = records /\ task' = [task EXCEPT !.pc = "failed"]
  /\ UNCHANGED <<cacheState, synced, table, cancelled, processOnly, loaderState, runs>>

\* complete_sync(), cancel_sync(), fail_sync(); the next dataset's turn comes
\* whether or not the status could be written.
Close(ok) ==
  /\ task.pc \in Outcome
  /\ IF ok THEN /\ faults' = faults
                /\ records' = [records EXCEPT ![Now][task.id].status = task.pc]
                /\ synced' = IF task.pc = "completed" THEN synced \cup {Now} ELSE synced
           ELSE Fault("db") /\ UNCHANGED <<records, synced>>
  /\ task' = RestOf(task)
  /\ UNCHANGED <<cacheState, table, cancelled, processOnly, loaderState, runs>>

---------------------------------------------------------------------------
(* The world, and restarts *)

NewVersion(d) ==
  /\ remote[d] < Len(Files[d])
  /\ remote' = [remote EXCEPT ![d] = @ + 1]
  /\ UNCHANGED <<cache, recent, lock, records, synced, table, task, cancelled, processOnly,
                 loaderState, bounds>>

DayPasses(d) ==
  /\ d \in recent \cup synced
  /\ recent' = recent \ {d} /\ synced' = synced \ {d}
  /\ UNCHANGED <<remote, cache, lock, records, table, task, cancelled, processOnly,
                 loaderState, bounds>>

Restart ==
  /\ Fault("crash")
  /\ task' = Idle /\ cancelled' = FALSE /\ processOnly' = FALSE
  /\ loader' = <<>> /\ loading' = FALSE
  /\ records' = Unstale(records)
  /\ UNCHANGED <<cacheState, synced, table, runs>>

Init ==
  /\ remote = [d \in Dataset |-> 1] /\ cache = [d \in Dataset |-> 0]
  /\ recent = {} /\ lock = {} /\ synced = {} /\ table = {}
  /\ records = [d \in Dataset |-> <<>>]
  /\ task = Idle /\ cancelled = FALSE /\ processOnly = FALSE
  /\ loader = <<>> /\ loading = FALSE
  /\ runs = 0 /\ faults = 0

\* resolve_datasets(): the requested ones, all when none is named, in order.
Request == {Datasets} \cup {<<d>> : d \in Dataset}

TaskStep ==
  \/ EndRun \/ Skip \/ Begin \/ Fetch \/ Open \/ EndOfFile \/ CheckCancelled
  \/ \E how \in Outcome : Download(how)
  \/ \E ok \in BOOLEAN : ReadRow(ok) \/ Flush(ok) \/ Save(ok) \/ Close(ok)

Next ==
  \/ \E ds \in Request :
       StartSync(ds) \/ StartForced(ds) \/ StartProcess(ds) \/ StartDownload(ds)
  \/ CancelSync \/ TaskStep
  \/ LoaderStart \/ \E ok \in BOOLEAN : LoaderEnd(ok)
  \/ \E d \in Dataset : NewVersion(d) \/ DayPasses(d)
  \/ Restart

Spec == Init /\ [][Next]_vars

\* The task goes on by itself; a download ends, its client has a timeout.
FairSpec == Spec /\ WF_vars(TaskStep)

---------------------------------------------------------------------------
Slot == [pc : {"idle", "next", "fetch", "download", "open", "read", "check", "flush",
               "save"} \cup Outcome,
         process : BOOLEAN, todo : Seq(Dataset), id : Nat, from : Nat, known : SUBSET Row,
         file : Seq(Row), batch : SUBSET Row, rows : Nat, last : Nat,
         next : {"check"} \cup Outcome]

TypeOK ==
  /\ remote \in [Dataset -> Nat] /\ cache \in [Dataset -> Nat]
  /\ \A d \in Dataset : remote[d] \in DOMAIN Files[d] /\ cache[d] <= remote[d]
  /\ recent \subseteq Dataset /\ lock \subseteq Dataset /\ synced \subseteq Dataset
  /\ records \in [Dataset -> Seq(Record)]
  /\ table \subseteq Row
  /\ task \in Slot
  /\ cancelled \in BOOLEAN /\ processOnly \in BOOLEAN
  /\ loader \in Seq(Dataset) /\ loading \in BOOLEAN
  /\ runs \in 0 .. MaxRuns /\ faults \in 0 .. MaxFaults

\* "last_processed_id is never ahead of DB state": whatever failed, was cancelled or
\* crashed in between, the rows up to a checkpoint are stored.
MarkNotAhead ==
  \A d \in Dataset : \A i \in DOMAIN records[d] :
    \A r \in records[d][i].scope : Key[r] <= records[d][i].mark => r \in table

\* What counts as completed is complete, over all its attempts: every row that the
\* first of them was to store is in the table.
CompletedIsStored ==
  \A d \in Dataset : \A i \in DOMAIN records[d] :
    records[d][i].status = "completed" => records[d][i].scope \subseteq table

\* A claimed slot becomes free again ("A sync/process is already running" otherwise
\* for ever).
SlotIsFreed == task.pc # "idle" ~> task.pc = "idle"

==============================================================================
