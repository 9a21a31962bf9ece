--------------------------- MODULE MusicBrainzSync ---------------------------
(***************************************************************************)
(* The imports of the MusicBrainz service.  For each of its datasets a     *)
(* sync drops the table's indexes, downloads the archive unless the cached *)
(* one will do, extracts it, and runs two threads: a parser that reads the *)
(* lines and sends batches and checkpoints through a bounded channel, and  *)
(* a writer that stores them in that order.  Then the indexes are made     *)
(* again and the record is closed.  A sync that failed or was cancelled is *)
(* resumed behind its checkpoint.  One handle is to say whether a sync is  *)
(* active; downloads on their own put theirs in its place.                 *)
(***************************************************************************)
EXTENDS Integers, Sequences, FiniteSets

CONSTANTS
  Datasets,     \* ALL_DATASETS, in processing order
  Row,          \* the entities of all dumps that have an MBID
  Key,          \* Key[r]: its MBID, in the order of strings
  Needs,        \* Needs[r]: the release group that must be stored for a release
  Files,        \* Files[d][v]: the lines of version v of d's dump, by MBID
  Batch,        \* BATCH_SIZE
  Every,        \* PROGRESS_INTERVAL
  Capacity,     \* the messages a channel holds
  Task,         \* bound: the sync tasks that may overlap
  Faults,       \* the kinds of faults that may happen
  MaxFaults,    \* bound: how many of them happen
  MaxRuns,      \* bound: how many syncs are started
  MaxLoads      \* bound: how many downloads are started

Dataset == {Datasets[i] : i \in DOMAIN Datasets}

ASSUME DumpAssumption ==
  /\ Datasets \in Seq(Dataset)
  /\ Key \in [Row -> Nat \ {0}] /\ Needs \in [Row -> SUBSET Row]
  /\ \A d \in Dataset : Files[d] \in Seq(Seq(Row)) /\ Len(Files[d]) > 0
  /\ Batch \in Nat \ {0} /\ Every \in Nat \ {0} /\ Capacity \in Nat \ {0}
  /\ Faults \subseteq {"http", "db", "crash"}
  /\ MaxFaults \in Nat /\ MaxRuns \in Nat /\ MaxLoads \in Nat

RowsOf(f) == {f[i] : i \in DOMAIN f}

\* What resuming behind an MBID relies on: the lines of a dump are in the order of MBIDs,
\* and a later dump keeps the lines of earlier ones.
ASSUME FilesAssumption ==
  \A d \in Dataset : \A v, w \in DOMAIN Files[d] :
    /\ \A i, j \in DOMAIN Files[d][v] : i < j => Key[Files[d][v][i]] < Key[Files[d][v][j]]
    /\ v <= w => RowsOf(Files[d][v]) \subseteq RowsOf(Files[d][w])

VARIABLES
  remote,      \* remote[d]: the version of the dump that is offered
  cache,       \* cache[d]: the version of the archive in the cache, 0 for none
  recent,      \* the datasets whose archive is less than a day old
  lock,        \* the datasets that have a .downloading file
  extracted,   \* extracted[d]: the version that d's .jsonl file was extracted from
  outdated,    \* the datasets whose .jsonl is older than their archive
  records,     \* records[d]: mb_sync_status of d, in the order of started_at
  synced,      \* the datasets completed less than a day ago
  table,       \* the entities stored
  dropped,     \* the datasets without their secondary indexes
  broken,      \* of these, the ones where a statement on indexes failed
  task,        \* task[t]: a sync or process task and its writer
  parser,      \* parser[t]: its parser
  channel,     \* channel[t]: the messages between them
  handle,      \* AppState.sync_handle: the task it is of
  cancelled,   \* the tasks whose token is cancelled
  processOnly, \* the flag that downloads and skipping read
  loader,      \* the download task
  runs, loads, faults

vars == <<remote, cache, recent, lock, extracted, outdated, records, synced, table, dropped,
          broken, task, parser, channel, handle, cancelled, processOnly, loader, runs, loads,
          faults>>
files == <<remote, cache, recent, lock>>
lines == <<extracted, outdated>>
history == <<records, synced>>
indexes == <<dropped, broken>>
pipe == <<parser, channel>>
control == <<handle, cancelled, loader>>
bounds == <<runs, loads>>

\* scope is a history: the rows the record's first attempt had to store.
Record == [status : {"running", "completed", "failed", "cancelled"},
           mark : Nat, rows : Nat, scope : SUBSET Row]
Outcome == {"completed", "failed", "cancelled"}
Nobody == "none"
Loader == "loader"
Idle == [pc |-> "idle", process |-> FALSE, todo |-> <<>>, id |-> 0, from |-> 0,
         known |-> {}, tar |-> 0, rows |-> 0, last |-> 0, end |-> "completed"]
Off == [at |-> "off", file |-> <<>>, batch |-> {}, rows |-> 0, last |-> 0, out |-> <<>>]
NoLoader == [at |-> "idle", todo |-> <<>>]

Fault(kind) == kind \in Faults /\ faults < MaxFaults /\ faults' = faults + 1
Outcomes(ok, kind) == IF ok THEN faults' = faults ELSE Fault(kind)
Set(t, r) == task' = [task EXCEPT ![t] = r]
Active == {t \in Task : task[t].pc # "idle"}
Kept(known, r) == Needs[r] \subseteq known

---------------------------------------------------------------------------
(* start_sync(), start_process(), cancel_sync(), start_download() *)

\* fail_stale_running_syncs()
Unstale(recs) ==
  [d \in Dataset |-> [i \in DOMAIN recs[d] |->
     IF recs[d][i].status = "running" THEN [recs[d][i] EXCEPT !.status = "failed"]
                                      ELSE recs[d][i]]]

Unfinished(h) == h \in Active \/ (h = Loader /\ loader.at # "idle")

\* The handler answers "already running", or spawns a task and keeps its handle.
Spawn(process, ds) ==
  /\ ~Unfinished(handle)
  /\ Active # Task /\ runs < MaxRuns
  /\ runs' = runs + 1
  /\ LET t == CHOOSE x \in Task : x \notin Active IN
     /\ Set(t, [Idle EXCEPT !.pc = "resolve", !.process = process, !.todo = ds])
     /\ handle' = t
     /\ cancelled' = cancelled \ {t}
  /\ processOnly' = process
  /\ records' = IF handle = Nobody THEN records ELSE Unstale(records)
  /\ UNCHANGED <<files, lines, synced, table, indexes, pipe, loader, loads, faults>>

StartSync(ds) == Spawn(FALSE, ds)
StartProcess(ds) == Spawn(TRUE, ds)

\* Running records are failed whether or not a task runs.
CancelSync ==
  /\ cancelled' = IF Unfinished(handle) THEN cancelled \cup {handle} ELSE cancelled
  /\ records' = Unstale(records)
  /\ UNCHANGED <<files, lines, synced, table, indexes, task, pipe, handle, processOnly,
                 loader, bounds, faults>>

\* "Downloads run independently", and "store handle so cancel can reach it".
StartDownload(ds) ==
  /\ loader.at = "idle" /\ loads < MaxLoads
  /\ loads' = loads + 1
  /\ loader' = [at |-> "resolve", todo |-> ds]
  /\ handle' = Loader
  /\ cancelled' = cancelled \ {Loader}
  /\ processOnly' = FALSE
  /\ UNCHANGED <<files, lines, history, table, indexes, task, pipe, runs, faults>>

---------------------------------------------------------------------------
(* run_full_sync_selective(), run_process_only(), should_skip_dataset() *)

Now(t) == Head(task[t].todo)
RestOf(t) ==
  [Idle EXCEPT !.pc = "next", !.process = task[t].process, !.todo = Tail(task[t].todo)]

\* resolve_latest_dump_url(): without the name of the latest dump nothing is done.
Resolve(t, ok) ==
  /\ task[t].pc = "resolve"
  /\ Outcomes(ok, "http")
  /\ Set(t, IF ok THEN [task[t] EXCEPT !.pc = "next"] ELSE Idle)
  /\ processOnly' = IF task[t].process THEN ok ELSE processOnly
  /\ UNCHANGED <<files, lines, history, table, indexes, pipe, control, bounds>>

EndRun(t) ==
  /\ task[t].pc = "next" /\ (task[t].todo = <<>> \/ t \in cancelled)
  /\ Set(t, Idle)
  /\ processOnly' = IF task[t].process THEN FALSE ELSE processOnly
  /\ UNCHANGED <<files, lines, history, table, indexes, pipe, control, bounds, faults>>

Resumable(d) ==
  {i \in DOMAIN records[d] : records[d][i].status \in {"failed", "cancelled"}
                             /\ records[d][i].mark > 0}
Skips(t) ==
  \/ task[t].process /\ cache[Now(t)] = 0
  \/ ~processOnly /\ Resumable(Now(t)) = {} /\ Now(t) \in synced
Turn(t) == task[t].pc = "next" /\ task[t].todo # <<>> /\ t \notin cancelled

Skip(t) ==
  /\ Turn(t) /\ Skips(t)
  /\ Set(t, RestOf(t))
  /\ UNCHANGED <<files, lines, history, table, indexes, pipe, control, processOnly, bounds, faults>>

\* get_or_resume_sync()
NewRecord == [status |-> "running", mark |-> 0, rows |-> 0, scope |-> {}]
Attempt(t, i, recs) ==
  /\ records' = [records EXCEPT ![Now(t)] = recs]
  /\ Set(t, [task[t] EXCEPT !.pc = "drop", !.id = i, !.from = recs[i].mark,
                            !.rows = recs[i].rows, !.last = recs[i].mark])
Begin(t, ok) ==
  /\ Turn(t) /\ ~Skips(t)
  /\ Outcomes(ok, "db")
  /\ LET d == Now(t)  old == records[d] IN
     \/ ~ok /\ records' = records /\ Set(t, RestOf(t))
     \/ ok /\ Resumable(d) = {} /\ Attempt(t, Len(old) + 1, Append(old, NewRecord))
     \/ /\ ok
        /\ \E i \in Resumable(d) : /\ \A k \in Resumable(d) : k <= i
                                   /\ Attempt(t, i, [old EXCEPT ![i].status = "running"])
  /\ UNCHANGED <<files, lines, synced, table, indexes, pipe, control, processOnly, bounds>>

\* drop_sync_indexes(): an error leaves the record as it is.
DropIndexes(t, ok) ==
  /\ task[t].pc = "drop"
  /\ Outcomes(ok, "db")
  /\ dropped' = dropped \cup {Now(t)}
  /\ broken' = IF ok THEN broken ELSE broken \cup {Now(t)}
  /\ Set(t, IF ok THEN [task[t] EXCEPT !.pc = "fetch"] ELSE RestOf(t))
  /\ UNCHANGED <<files, lines, history, table, pipe, control, processOnly, bounds>>

---------------------------------------------------------------------------
(* download_dataset(), ensure_jsonl_extracted() *)

\* Another download is under way, or the cached archive will do.
CachedIsUsed(d) == d \in lock \/ d \in recent
\* The inner function is left with an error or because of the token.
Leave(t, how) == [task[t] EXCEPT !.pc = "recreate", !.end = how]

\* The ids that filter the releases are read before the download.
Fetch(t) ==
  /\ task[t].pc = "fetch"
  /\ LET seen == [task[t] EXCEPT !.known = table] IN
     IF processOnly /\ cache[Now(t)] = 0
       THEN Set(t, Leave(t, "failed")) /\ lock' = lock
     ELSE IF processOnly \/ CachedIsUsed(Now(t))
       THEN Set(t, [seen EXCEPT !.pc = "extract"]) /\ lock' = lock
     ELSE Set(t, [seen EXCEPT !.pc = "download"]) /\ lock' = lock \cup {Now(t)}
  /\ UNCHANGED <<remote, cache, recent, lines, history, table, indexes, pipe, control,
                 processOnly, bounds, faults>>

\* The lock file goes only when the download succeeds.
Downloaded(d) ==
  /\ cache' = [cache EXCEPT ![d] = remote[d]]
  /\ recent' = recent \cup {d}
  /\ lock' = lock \ {d}
  /\ outdated' = outdated \cup {d}
  /\ UNCHANGED <<remote, extracted>>

CancelUnfinished(t) == [task[t] EXCEPT !.pc = "close", !.end = "cancelled"]
DownloadLeaving(t, how) ==                           \* mutant of Download
  /\ task[t].pc = "download"
  /\ \/ how = "completed" /\ Downloaded(Now(t)) /\ faults' = faults
     \/ how = "failed" /\ Fault("http") /\ UNCHANGED <<files, lines>>
     \/ how = "cancelled" /\ t \in cancelled /\ faults' = faults /\ UNCHANGED <<files, lines>>
  /\ Set(t, CASE how = "completed" -> [task[t] EXCEPT !.pc = "extract"]
              [] how = "cancelled" -> CancelUnfinished(t)
              [] how = "failed" -> Leave(t, how))
  /\ UNCHANGED <<history, table, indexes, pipe, control, processOnly, bounds>>
Download(t, how) ==
  /\ task[t].pc = "download"
  /\ \/ how = "completed" /\ Downloaded(Now(t)) /\ faults' = faults
     \/ how = "failed" /\ Fault("http") /\ UNCHANGED <<files, lines>>
     \/ how = "cancelled" /\ t \in cancelled /\ faults' = faults /\ UNCHANGED <<files, lines>>
  /\ Set(t, IF how = "completed" THEN [task[t] EXCEPT !.pc = "extract"] ELSE Leave(t, how))
  /\ UNCHANGED <<history, table, indexes, pipe, control, processOnly, bounds>>

\* The parser opens the file; a new record is given its scope.
Opened(t, v) ==
  /\ Set(t, [task[t] EXCEPT !.pc = "write", !.tar = 0])
  /\ parser' = [parser EXCEPT ![t] = [Off EXCEPT !.at = "read", !.file = Files[Now(t)][v],
                                                 !.rows = task[t].rows, !.last = task[t].from]]
  /\ records' = IF task[t].from > 0 THEN records
                ELSE [records EXCEPT ![Now(t)][task[t].id].scope =
                        {r \in RowsOf(Files[Now(t)][v]) : Kept(task[t].known, r)}]

\* "If JSONL exists and is newer than the tar.xz, reuse it"
Extract(t) ==
  /\ task[t].pc = "extract"
  /\ LET d == Now(t) IN
     IF extracted[d] > 0 /\ d \notin outdated
       THEN Opened(t, extracted[d])
       ELSE /\ Set(t, IF cache[d] = 0 THEN Leave(t, "failed")
                      ELSE [task[t] EXCEPT !.pc = "unpack", !.tar = cache[d]])
            /\ UNCHANGED <<parser, records>>
  /\ UNCHANGED <<files, lines, synced, table, indexes, channel, control, processOnly, bounds, faults>>

Unpack(t) ==
  /\ task[t].pc = "unpack"
  /\ extracted' = [extracted EXCEPT ![Now(t)] = task[t].tar]
  /\ outdated' = outdated \ {Now(t)}
  /\ Opened(t, task[t].tar)
  /\ UNCHANGED <<files, synced, table, indexes, channel, control, processOnly, bounds, faults>>

---------------------------------------------------------------------------
(* parse_jsonl_file(), parse_release_jsonl() *)

Message(kind, rows, n, id) == [kind |-> kind, rows |-> rows, count |-> n, id |-> id]
Parser(t, p) ==
  /\ parser' = [parser EXCEPT ![t] = p]
  /\ UNCHANGED <<files, lines, history, table, indexes, task, control, processOnly, bounds, faults>>

\* What is sent after a row; then the token is looked at.
SendsUnflushed(p) ==                                 \* mutant of Sends
  (IF Cardinality(p.batch) >= Batch THEN <<Message("batch", p.batch, 0, 0)>> ELSE <<>>)
  \o IF p.rows % Every = 0 THEN <<Message("progress", {}, p.rows, p.last),
                                  Message("check", {}, p.rows, p.last)>> ELSE <<>>
Sends(p) ==
  (IF Cardinality(p.batch) >= Batch \/ p.rows % Every = 0
     THEN <<Message("batch", p.batch, 0, 0)>> ELSE <<>>)
  \o IF p.rows % Every = 0 THEN <<Message("progress", {}, p.rows, p.last),
                                  Message("check", {}, p.rows, p.last)>> ELSE <<>>

Passed(t, r) == ~Kept(task[t].known, r) \/ Key[r] <= task[t].from
Taken(p, r) ==
  LET q == [p EXCEPT !.file = Tail(@), !.batch = @ \cup {r}, !.rows = @ + 1, !.last = Key[r]] IN
  [q EXCEPT !.out = Sends(q),
            !.batch = IF \E i \in DOMAIN Sends(q) : Sends(q)[i].kind = "batch" THEN {} ELSE @]

ReadLine(t) ==
  /\ parser[t].at = "read" /\ parser[t].out = <<>> /\ parser[t].file # <<>>
  /\ LET p == parser[t]  r == Head(p.file) IN
     Parser(t, IF Passed(t, r) THEN [p EXCEPT !.file = Tail(@)] ELSE Taken(p, r))
  /\ UNCHANGED channel

LastUnflushed(p) == <<Message("done", {}, p.rows, 0)>>        \* mutant of Last
Last(p) ==
  (IF p.batch = {} THEN <<>> ELSE <<Message("batch", p.batch, 0, 0)>>)
  \o <<Message("done", {}, p.rows, 0)>>
EndOfFile(t) ==
  /\ parser[t].at = "read" /\ parser[t].out = <<>> /\ parser[t].file = <<>>
  /\ Parser(t, [parser[t] EXCEPT !.at = "end", !.batch = {}, !.out = Last(parser[t])])
  /\ UNCHANGED channel

CheckToken(t) ==
  /\ parser[t].out # <<>> /\ Head(parser[t].out).kind = "check"
  /\ LET p == parser[t] IN
     Parser(t, IF t \in cancelled
                 THEN [p EXCEPT !.at = "end", !.file = <<>>,
                                !.out = <<Message("cancelled", {}, p.rows, p.last)>>]
                 ELSE [p EXCEPT !.out = Tail(@)])
  /\ UNCHANGED channel

\* blocking_send() waits for room.
SendUnbounded(t) ==                                  \* mutant of Send
  /\ parser[t].out # <<>> /\ Head(parser[t].out).kind # "check"
  /\ channel' = [channel EXCEPT ![t] = Append(@, Head(parser[t].out))]
  /\ Parser(t, IF parser[t].at = "end" /\ Len(parser[t].out) = 1
                 THEN Off ELSE [parser[t] EXCEPT !.out = Tail(@)])
Send(t) ==
  /\ parser[t].out # <<>> /\ Head(parser[t].out).kind # "check"
  /\ Len(channel[t]) < Capacity
  /\ channel' = [channel EXCEPT ![t] = Append(@, Head(parser[t].out))]
  /\ Parser(t, IF parser[t].at = "end" /\ Len(parser[t].out) = 1
                 THEN Off ELSE [parser[t] EXCEPT !.out = Tail(@)])

---------------------------------------------------------------------------
(* The writer: sync_generic_inner() and its siblings *)

\* update_sync_progress_with_resume()
Marked(t, n, id) ==
  [records EXCEPT ![Now(t)][task[t].id].mark = id, ![Now(t)][task[t].id].rows = n]

\* One message is taken and acted on.  An error drops the receiver, and the parser ends
\* with its next send.
Receive(t, ok) ==
  /\ task[t].pc = "write" /\ channel[t] # <<>>
  /\ LET m == Head(channel[t])  fallible == m.kind \in {"batch", "progress"} IN
     /\ IF fallible THEN Outcomes(ok, "db") ELSE ok /\ faults' = faults
     /\ IF ok
          THEN /\ channel' = [channel EXCEPT ![t] = Tail(@)] /\ parser' = parser
               /\ table' = table \cup m.rows
               /\ records' = IF m.kind = "progress" THEN Marked(t, m.count, m.id) ELSE records
               /\ Set(t, CASE m.kind = "batch" -> task[t]
                           [] m.kind = "done" -> [task[t] EXCEPT !.rows = m.count]
                           [] m.kind = "progress" -> [task[t] EXCEPT !.rows = m.count, !.last = m.id]
                           [] m.kind = "cancelled" -> [task[t] EXCEPT !.rows = m.count,
                                                         !.last = m.id, !.end = "cancelled"])
          ELSE /\ channel' = [channel EXCEPT ![t] = <<>>]
               /\ parser' = [parser EXCEPT ![t] = Off]
               /\ Set(t, Leave(t, "failed"))
               /\ UNCHANGED <<table, records>>
  /\ UNCHANGED <<files, lines, synced, indexes, control, processOnly, bounds>>

\* recv() has nothing more to wait for when the sender is gone.
HungUpKeepingSender(t) == FALSE                      \* mutant of HungUp
HungUp(t) == channel[t] = <<>> /\ parser[t].at = "off"
Drained(t, ok) ==
  /\ task[t].pc = "write" /\ HungUp(t)
  /\ Outcomes(ok, "db")
  /\ records' = IF ok THEN Marked(t, task[t].rows, task[t].last) ELSE records
  /\ Set(t, Leave(t, IF ok THEN task[t].end ELSE "failed"))
  /\ UNCHANGED <<files, lines, synced, table, indexes, pipe, control, processOnly, bounds>>

\* recreate_sync_indexes(): an error leaves the record as it is.
RecreateIndexes(t, ok) ==
  /\ task[t].pc = "recreate"
  /\ Outcomes(ok, "db")
  /\ dropped' = IF ok THEN dropped \ {Now(t)} ELSE dropped
  /\ broken' = IF ok THEN broken \ {Now(t)} ELSE (broken \cup {Now(t)}) \cap dropped
  /\ Set(t, IF ok THEN [task[t] EXCEPT !.pc = "close"] ELSE RestOf(t))
  /\ UNCHANGED <<files, lines, history, table, pipe, control, processOnly, bounds>>

\* complete_sync(), cancel_sync(), fail_sync()
Close(t, ok) ==
  /\ task[t].pc = "close"
  /\ Outcomes(ok, "db")
  /\ records' = IF ok THEN [records EXCEPT ![Now(t)][task[t].id].status = task[t].end] ELSE records
  /\ synced' = IF ok /\ task[t].end = "completed" THEN synced \cup {Now(t)} ELSE synced
  /\ Set(t, RestOf(t))
  /\ UNCHANGED <<files, lines, table, indexes, pipe, control, processOnly, bounds>>

---------------------------------------------------------------------------
(* run_download_only(): errors and its token end it *)

Load(l) ==
  /\ loader' = l
  /\ UNCHANGED <<history, table, indexes, task, pipe, handle, cancelled, processOnly, bounds>>

LoaderResolve(ok) ==
  /\ loader.at = "resolve"
  /\ Outcomes(ok, "http")
  /\ Load(IF ok THEN [loader EXCEPT !.at = "next"] ELSE NoLoader)
  /\ UNCHANGED <<files, lines>>

LoaderNext ==
  /\ loader.at = "next"
  /\ LET d == Head(loader.todo) IN
     IF loader.todo = <<>> \/ Loader \in cancelled \/ (processOnly /\ cache[d] = 0)
       THEN Load(NoLoader) /\ lock' = lock
     ELSE IF processOnly \/ CachedIsUsed(d)
       THEN Load([loader EXCEPT !.todo = Tail(@)]) /\ lock' = lock
     ELSE Load([loader EXCEPT !.at = "get"]) /\ lock' = lock \cup {d}
  /\ UNCHANGED <<remote, cache, recent, lines, faults>>

LoaderGet(how) ==
  /\ loader.at = "get"
  /\ \/ /\ how = "completed" /\ faults' = faults
        /\ Downloaded(Head(loader.todo))
        /\ Load([at |-> "next", todo |-> Tail(loader.todo)])
     \/ /\ how = "failed" /\ Fault("http")
        /\ Load(NoLoader) /\ UNCHANGED <<files, lines>>
     \/ /\ how = "cancelled" /\ Loader \in cancelled /\ faults' = faults
        /\ Load(NoLoader) /\ UNCHANGED <<files, lines>>

---------------------------------------------------------------------------
(* The world, and restarts *)

NewVersion(d) ==
  /\ remote[d] < Len(Files[d])
  /\ remote' = [remote EXCEPT ![d] = @ + 1]
  /\ UNCHANGED <<cache, recent, lock, lines, history, table, indexes, task, pipe, control,
                 processOnly, bounds, faults>>

DayPasses(d) ==
  /\ d \in recent \cup synced
  /\ recent' = recent \ {d} /\ synced' = synced \ {d}
  /\ UNCHANGED <<remote, cache, lock, lines, records, table, indexes, task, pipe, control,
                 processOnly, bounds, faults>>

\* "Startup cleanup": stale records are failed, all indexes made.
Restart ==
  /\ Fault("crash")
  /\ task' = [t \in Task |-> Idle] /\ parser' = [t \in Task |-> Off]
  /\ channel' = [t \in Task |-> <<>>]
  /\ handle' = Nobody /\ cancelled' = {} /\ processOnly' = FALSE /\ loader' = NoLoader
  /\ records' = Unstale(records)
  /\ dropped' = {} /\ broken' = {}
  /\ UNCHANGED <<files, lines, synced, table, bounds>>

Init ==
  /\ remote = [d \in Dataset |-> 1] /\ cache = [d \in Dataset |-> 0]
  /\ recent = {} /\ lock = {} /\ synced = {} /\ table = {} /\ dropped = {} /\ broken = {}
  /\ extracted = [d \in Dataset |-> 0] /\ outdated = {}
  /\ records = [d \in Dataset |-> <<>>]
  /\ task = [t \in Task |-> Idle] /\ parser = [t \in Task |-> Off]
  /\ channel = [t \in Task |-> <<>>]
  /\ handle = Nobody /\ cancelled = {} /\ processOnly = FALSE /\ loader = NoLoader
  /\ runs = 0 /\ loads = 0 /\ faults = 0

Request == {Datasets} \cup {<<d>> : d \in Dataset}

WriterStep(t) ==
  \/ EndRun(t) \/ Skip(t) \/ Fetch(t) \/ Extract(t) \/ Unpack(t)
  \/ \E how \in Outcome : Download(t, how)
  \/ \E ok \in BOOLEAN : \/ Resolve(t, ok) \/ Begin(t, ok) \/ DropIndexes(t, ok)
                         \/ Receive(t, ok) \/ Drained(t, ok)
                         \/ RecreateIndexes(t, ok) \/ Close(t, ok)
ParserStep(t) == ReadLine(t) \/ EndOfFile(t) \/ CheckToken(t) \/ Send(t)

Next ==
  \/ \E ds \in Request : StartSync(ds) \/ StartProcess(ds) \/ StartDownload(ds)
  \/ CancelSync
  \/ \E t \in Task : WriterStep(t) \/ ParserStep(t)
  \/ \E ok \in BOOLEAN : LoaderResolve(ok)
  \/ LoaderNext \/ \E how \in Outcome : LoaderGet(how)
  \/ \E d \in Dataset : NewVersion(d) \/ DayPasses(d)
  \/ Restart

Spec == Init /\ [][Next]_vars

\* Tasks and threads go on by themselves; a download ends, its client has a timeout.
FairSpec == Spec /\ \A t \in Task : WF_vars(WriterStep(t)) /\ WF_vars(ParserStep(t))

---------------------------------------------------------------------------
Messages == [kind : {"batch", "progress", "check", "done", "cancelled"}, rows : SUBSET Row,
             count : Nat, id : Nat]

TypeOK ==
  /\ remote \in [Dataset -> Nat] /\ cache \in [Dataset -> Nat] /\ extracted \in [Dataset -> Nat]
  /\ \A d \in Dataset : /\ remote[d] \in DOMAIN Files[d]
                        /\ cache[d] <= remote[d] /\ extracted[d] <= cache[d]
  /\ recent \subseteq Dataset /\ lock \subseteq Dataset /\ synced \subseteq Dataset
  /\ outdated \subseteq Dataset /\ broken \subseteq dropped /\ dropped \subseteq Dataset
  /\ records \in [Dataset -> Seq(Record)]
  /\ table \subseteq Row
  /\ task \in [Task ->
       [pc : {"idle", "resolve", "next", "drop", "fetch", "download", "extract", "unpack",
              "write", "recreate", "close"},
        process : BOOLEAN, todo : Seq(Dataset), id : Nat, from : Nat, known : SUBSET Row,
        tar : Nat, rows : Nat, last : Nat, end : Outcome]]
  /\ parser \in [Task -> [at : {"off", "read", "end"}, file : Seq(Row), batch : SUBSET Row,
                          rows : Nat, last : Nat, out : Seq(Messages)]]
  /\ channel \in [Task -> Seq(Messages)] /\ \A t \in Task : Len(channel[t]) <= Capacity
  /\ handle \in Task \cup {Nobody, Loader} /\ cancelled \subseteq Task \cup {Loader}
  /\ processOnly \in BOOLEAN
  /\ loader \in [at : {"idle", "resolve", "next", "get"}, todo : Seq(Dataset)]
  /\ runs \in 0 .. MaxRuns /\ loads \in 0 .. MaxLoads /\ faults \in 0 .. MaxFaults

\* "save resume checkpoint": the rows up to a checkpoint are stored, although another
\* thread read them, the channel held them back and either side may have ended.
MarkNotAhead ==
  \A d \in Dataset : \A i \in DOMAIN records[d] :
    \A r \in records[d][i].scope : Key[r] <= records[d][i].mark => r \in table

\* What counts as completed is complete, over all its attempts.
CompletedIsStored ==
  \A d \in Dataset : \A i \in DOMAIN records[d] :
    records[d][i].status = "completed" => records[d][i].scope \subseteq table

\* "We drop them before ingestion and recreate them once the dataset finishes": indexes
\* are gone while a task is at their dataset, or a statement on them failed.
IndexesComeBack ==
  \A d \in dropped \ broken : \E t \in Active :
    task[t].todo # <<>> /\ Now(t) = d /\ task[t].pc \notin {"resolve", "next", "drop", "close"}

\* A sync ends: its parser and its writer never wait for each other for ever.
SyncEnds == \A t \in Task : t \in Active ~> t \notin Active

\* The handle is the "single source of truth for whether a sync is active".
OneSyncAtATime == Cardinality(Active) <= 1

==============================================================================
