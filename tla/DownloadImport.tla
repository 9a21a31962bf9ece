---------------------------- MODULE DownloadImport ----------------------------
(***************************************************************************)
(* The import of completed downloads through the workers: the scheduler or *)
(* the user has a download's directory listed, ScanResultConsumer matches  *)
(* each file and has a worker copy it into the library, and when the copy  *)
(* is there records it; after the last file the tracked download goes.     *)
(*                                                                         *)
(* As in LibraryScan a handler of the consumer is one step, and requests   *)
(* and results are in flight in any order.                                 *)
(***************************************************************************)
EXTENDS Naturals, FiniteSets

CONSTANTS
  Download,      \* the completed downloads in the client; they stay there
  Source,        \* the video files in the download directories
  Of,            \* Of[s]: the download of s
  Bytes,         \* Bytes[s]: its size
  Target,        \* Target[d]: the series or movie the download is tracked for
  Movie,         \* the targets that are movies
  Matches,       \* Matches[s]: the episodes that s is matched to
  Path,          \* the paths in the library
  Dest,          \* Dest[s]: the path that naming gives s
  Job,           \* the import jobs
  None,
  Faults,        \* the kinds of faults that may happen
  MaxFaults      \* bound: how many of them happen

Entity == {Target[d] : d \in Download}
Episode == UNION {Matches[s] : s \in Source}

ASSUME ImportAssumption ==
  /\ Of \in [Source -> Download] /\ IsFiniteSet(Source)
  /\ Bytes \in [Source -> Nat \ {0}]
  /\ DOMAIN Target = Download /\ None \notin Entity
  /\ \A s \in Source : Target[Of[s]] \in Movie => Matches[s] = {}
  /\ Episode \cap Movie = {}
  /\ Dest \in [Source -> Path]
  /\ Faults \subseteq {"lost", "twice", "cancel", "restart", "copy", "delete"}
  /\ MaxFaults \in Nat

VARIABLES
  jobs,      \* PendingScanJobs.jobs: is the job completed, is it a movie's?
  imports,   \* download_imports by scan job: the download, and if it is forced
  trackers,  \* download_job_trackers
  copying,   \* the copies dispatched and not answered: download_imports and
             \* movie_file_imports by import job, import_to_scan_job
  tasks,     \* requests enqueued and not answered
  results,   \* answers that the consumer has not seen
  disk,      \* disk[p]: the size of the file at p, 0 when there is none
  rows,      \* the rows of episode_files and movie_files
  link,      \* link[x]: the file row of an episode or a movie
  library,   \* the series and movies in the database
  tracked,   \* the downloads that have a tracked record
  sent,      \* the jobs that were dispatched
  faults,    \* faults so far, for the bound
  hit        \* history: the jobs a message of which was lost or sent twice

vars == <<jobs, imports, trackers, copying, tasks, results, disk, rows, link, library,
          tracked, sent, faults, hit>>
pendingState == <<jobs, imports, trackers, copying>>
database == <<rows, link, library>>

Copy == [job : Job, source : Source, no : 1 .. MaxFaults + 1]
Tracker == [download : Download, dispatched : Nat, completed : Nat, imported : Nat,
            finished : BOOLEAN]
Task == [what : {"scan"}, job : Job, on : Download] \cup [what : {"copy"}, copy : Copy]
Result == [task : Task, found : SUBSET Source, ok : BOOLEAN]

Fault(kind) == kind \in Faults /\ faults < MaxFaults /\ faults' = faults + 1
Extend(f, x, y) == [z \in DOMAIN f \cup {x} |-> IF z = x THEN y ELSE f[z]]
Drop(f, x) == [z \in DOMAIN f \ {x} |-> f[z]]

JobOf(t) == IF t.what = "scan" THEN t.job ELSE t.copy.job
RowId(r) == <<r.file, r.copy>>

---------------------------------------------------------------------------
(* Dispatch: register_download_import(), register_movie_download_import(), *)
(* register_job(), enqueue_job()                                           *)

NewTracker(d) == [download |-> d, dispatched |-> 0, completed |-> 0, imported |-> 0,
                  finished |-> FALSE]

Dispatch(j, d, movie, force) ==
  /\ j \notin sent
  /\ sent' = sent \cup {j}
  /\ jobs' = Extend(jobs, j, [movie |-> movie, completed |-> FALSE])
  /\ imports' = IF movie THEN imports ELSE Extend(imports, j, [download |-> d, force |-> force])
  /\ trackers' = Extend(trackers, j, NewTracker(d))
  /\ tasks' = tasks \cup {[what |-> "scan", job |-> j, on |-> d]}
  /\ UNCHANGED <<copying, results, disk, database, tracked, faults, hit>>

\* The scheduler and ProcessMonitoredDownloads dispatch every completed download
\* of the clients, tracked or not and whatever is in progress.
DispatchCompleted(j, d) == Dispatch(j, d, FALSE, FALSE)

\* The user imports an item of the queue.
ImportQueueItem(j, d) == d \in tracked /\ Dispatch(j, d, Target[d] \in Movie, TRUE)

---------------------------------------------------------------------------
(* The workers: scan_download_directory(), move_file() *)

Reply(t, found, ok) ==
  /\ tasks' = tasks \ {t}
  /\ results' = results \cup {[task |-> t, found |-> found, ok |-> ok]}
  /\ UNCHANGED <<pendingState, database, tracked, sent, hit>>

SourcesOf(d) == {s \in Source : Of[s] = d}
WorkerScan(t) ==
  /\ t \in tasks /\ t.what = "scan"
  /\ Reply(t, SourcesOf(t.on), TRUE)
  /\ UNCHANGED <<disk, faults>>

\* The copy truncates what is at the destination; one that fails may leave a part.
WorkerCopy(t, ok) ==
  /\ t \in tasks /\ t.what = "copy"
  /\ Reply(t, {}, ok)
  /\ LET s == t.copy.source IN
     IF ok THEN disk' = [disk EXCEPT ![Dest[s]] = Bytes[s]] /\ faults' = faults
     ELSE /\ Fault("copy")
          /\ \E part \in {disk[Dest[s]], Bytes[s] - 1} : disk' = [disk EXCEPT ![Dest[s]] = part]

---------------------------------------------------------------------------
(* try_download_cleanup() and mark_job_result_received(), on trackers ts *)

\* Every import job is registered with one entity id: one result completes it.
MarkReceived(j) ==
  jobs' = IF j \in DOMAIN jobs THEN [jobs EXCEPT ![j].completed = TRUE] ELSE jobs

AllCopiedEarly(t) == t.finished /\ t.imported > 0    \* mutant of AllCopied
AllCopied(t) == t.finished /\ t.completed = t.dispatched /\ t.dispatched > 0
CleansUp(ts, j) == j \in DOMAIN ts /\ AllCopied(ts[j])

\* A download of which at least one file was imported loses its tracked record;
\* the job counts as done when this cleans up, or when also says so.
Cleanup(ts, j, also) ==
  IF CleansUp(ts, j)
    THEN /\ trackers' = Drop(ts, j)
         /\ tracked' = IF ts[j].imported > 0 THEN tracked \ {ts[j].download} ELSE tracked
         /\ MarkReceived(j)
    ELSE /\ trackers' = ts
         /\ tracked' = tracked
         /\ IF also THEN MarkReceived(j) ELSE jobs' = jobs

---------------------------------------------------------------------------
(* handle_download_scan_result(), handle_movie_download_scan_result() *)

\* One entry per file that is copied; the entries of one handling of a scan have the
\* first number that no entry, request or answer of the job still has.
CopyOf(j, s, no) == [job |-> j, source |-> s, no |-> no]
Unused(j, no) ==
  \A s \in Source : /\ CopyOf(j, s, no) \notin copying
                    /\ \A t \in tasks \cup {r.task : r \in results} :
                         t.what = "copy" => t.copy # CopyOf(j, s, no)
DispatchCopies(j, ss) ==
  \E no \in 1 .. MaxFaults + 1 :
    /\ Unused(j, no) /\ \A n \in 1 .. no - 1 : ~Unused(j, n)
    /\ copying' = copying \cup {CopyOf(j, s, no) : s \in ss}
    /\ tasks' = tasks \cup {[what |-> "copy", copy |-> CopyOf(j, s, no)] : s \in ss}

\* All matched episodes have a file of the same size.  (Files found in a download
\* directory have no hash yet: the size decides.)
Identical(s) ==
  \A e \in Matches[s] : \E r \in rows : link[e] = RowId(r) /\ r.size = Bytes[s]

Importable(j, s) ==
  /\ Matches[s] # {} /\ Target[Of[s]] \in library
  /\ imports[j].force \/ ~Identical(s)

Finished(j, n) ==
  IF j \notin DOMAIN trackers THEN trackers
  ELSE [trackers EXCEPT ![j].finished = TRUE, ![j].dispatched = @ + n]

SeriesScanned(j, found) ==
  IF found = {}
    THEN /\ Cleanup(Finished(j, 0), j, TRUE)
         /\ UNCHANGED <<imports, copying, tasks>>
  ELSE IF j \notin DOMAIN imports
    THEN MarkReceived(j) /\ UNCHANGED <<imports, trackers, copying, tasks, tracked>>
  ELSE LET new == {s \in found : Importable(j, s)}
           ts == Finished(j, Cardinality(new)) IN
       /\ DispatchCopies(j, new)
       /\ IF j \notin DOMAIN ts \/ ts[j].dispatched = 0
            THEN Cleanup(ts, j, TRUE)
            ELSE /\ trackers' = ts
                 /\ UNCHANGED <<jobs, tracked>>
       /\ UNCHANGED imports

MovieScanned(j, m, found) ==
  IF found = {}
    THEN /\ Cleanup(Finished(j, 0), j, TRUE)
         /\ UNCHANGED <<imports, copying, tasks>>
  ELSE IF m \notin library
    THEN MarkReceived(j) /\ UNCHANGED <<imports, trackers, copying, tasks, tracked>>
  ELSE \E s \in {x \in found : \A y \in found : Bytes[y] <= Bytes[x]} :
       /\ DispatchCopies(j, {s})
       /\ trackers' = Finished(j, 1)
       /\ UNCHANGED <<jobs, imports, tracked>>

\* The type of the registered job chooses the handler.  A job that is forgotten is
\* taken for a scan of series 0 (or of the series with the movie's id): its files
\* are not imported.
HandleScan(r) ==
  /\ r \in results /\ r.task.what = "scan"
  /\ results' = results \ {r}
  /\ LET j == r.task.job IN
     IF j \notin DOMAIN jobs
       THEN UNCHANGED <<pendingState, tasks, tracked>>
     ELSE IF jobs[j].movie THEN MovieScanned(j, Target[r.task.on], r.found)
                           ELSE SeriesScanned(j, r.found)
  /\ UNCHANGED <<disk, database, sent, faults, hit>>

---------------------------------------------------------------------------
(* handle_import_files_result(), handle_movie_import_result() *)

\* The row is inserted whether or not the path has one already.
FreshCopy(p) ==
  CHOOSE n \in 1 .. Cardinality(rows) + 1 : \A r \in rows : r.file = p => r.copy # n
ImportedRow(s) ==
  [file |-> Dest[s], copy |-> FreshCopy(Dest[s]), owner |-> Target[Of[s]],
   size |-> Bytes[s], hash |-> FALSE]
ImportedLinks(s) ==
  IF Target[Of[s]] \in Movie THEN {Target[Of[s]]} ELSE Matches[s]

\* The insert fails when the series or movie is gone (foreign key).
Inserted(r) == r.ok /\ Target[Of[r.task.copy.source]] \in library

CountedIfOk(j, r) ==                                 \* mutant of Counted
  IF j \notin DOMAIN trackers \/ ~Inserted(r) THEN trackers
  ELSE [trackers EXCEPT ![j].completed = @ + 1, ![j].imported = @ + 1]
Counted(j, r) ==
  IF j \notin DOMAIN trackers THEN trackers
  ELSE [trackers EXCEPT ![j].completed = @ + 1,
                        ![j].imported = @ + IF Inserted(r) THEN 1 ELSE 0]

SettledIfOk(c, r) == IF r.ok THEN copying \ {c} ELSE copying \* mutant of Settled
Settled(c, r) == copying \ {c}

HandleCopy(r) ==
  /\ r \in results /\ r.task.what = "copy"
  /\ results' = results \ {r}
  /\ LET c == r.task.copy IN
     \/ /\ c \notin copying
        /\ UNCHANGED <<pendingState, rows, link, tracked>>
     \/ /\ c \in copying
        /\ copying' = Settled(c, r)
        /\ IF Inserted(r)
             THEN /\ rows' = rows \cup {ImportedRow(c.source)}
                  /\ link' = [x \in DOMAIN link |->
                                IF x \in ImportedLinks(c.source)
                                  THEN RowId(ImportedRow(c.source)) ELSE link[x]]
             ELSE UNCHANGED <<rows, link>>
        /\ Cleanup(Counted(c.job, r), c.job, FALSE)
        /\ UNCHANGED imports
  /\ UNCHANGED <<tasks, disk, library, sent, faults, hit>>

---------------------------------------------------------------------------
(* cancel_job(), get_running_jobs(), restarts, and what else happens *)

CancelJob(j) ==
  /\ j \in DOMAIN jobs /\ ~jobs[j].completed
  /\ Fault("cancel")
  /\ jobs' = [jobs EXCEPT ![j].completed = TRUE]
  /\ UNCHANGED <<imports, trackers, copying, tasks, results, disk, database, tracked, sent, hit>>

GetRunningJobs ==
  /\ \E j \in DOMAIN jobs : jobs[j].completed
  /\ jobs' = [j \in {i \in DOMAIN jobs : ~jobs[i].completed} |-> jobs[j]]
  /\ UNCHANGED <<imports, trackers, copying, tasks, results, disk, database, tracked, sent,
                 faults, hit>>

Empty == [j \in {} |-> None]
Restart ==
  /\ Fault("restart")
  /\ jobs' = Empty /\ imports' = Empty /\ trackers' = Empty /\ copying' = {}
  /\ hit' = hit \cup sent
  /\ UNCHANGED <<tasks, results, disk, database, tracked, sent>>

LoseTask(t) ==
  /\ t \in tasks
  /\ Fault("lost")
  /\ tasks' = tasks \ {t}
  /\ hit' = hit \cup {JobOf(t)}
  /\ UNCHANGED <<pendingState, results, disk, database, tracked, sent>>

LoseResult(r) ==
  /\ r \in results
  /\ Fault("lost")
  /\ results' = results \ {r}
  /\ hit' = hit \cup {JobOf(r.task)}
  /\ UNCHANGED <<pendingState, tasks, disk, database, tracked, sent>>

\* The stream delivers a request again after it was answered (StartedOnce).
Redeliver(r) ==
  /\ r \in results
  /\ Fault("twice")
  /\ tasks' = tasks \cup {r.task}
  /\ hit' = hit \cup {JobOf(r.task)}
  /\ UNCHANGED <<pendingState, results, disk, database, tracked, sent>>

StillLinked(gone) == link                            \* mutant of Unlinked
Unlinked(gone) == [x \in DOMAIN link |-> IF link[x] \in {RowId(r) : r \in gone}
                                          THEN None ELSE link[x]]

\* Rows and episodes go with their series or movie (ON DELETE CASCADE).
DeleteEntity(e) ==
  /\ e \in library
  /\ Fault("delete")
  /\ library' = library \ {e}
  /\ rows' = {r \in rows : r.owner # e}
  /\ link' = Unlinked({r \in rows : r.owner = e})
  /\ UNCHANGED <<pendingState, tasks, results, disk, tracked, sent, hit>>

---------------------------------------------------------------------------
Init ==
  /\ jobs = Empty /\ imports = Empty /\ trackers = Empty /\ copying = {}
  /\ tasks = {} /\ results = {}
  /\ disk = [p \in Path |-> 0]
  /\ rows = {}
  /\ link = [x \in Episode \cup (Entity \cap Movie) |-> None]
  /\ library = Entity
  /\ tracked \in SUBSET Download
  /\ sent = {} /\ faults = 0 /\ hit = {}

Work(t) == WorkerScan(t) \/ \E ok \in BOOLEAN : WorkerCopy(t, ok)
Handle(r) == HandleScan(r) \/ HandleCopy(r)

\* Everything but what other parts of the server notice too.
Step ==
  \/ \E j \in Job, d \in Download : DispatchCompleted(j, d) \/ ImportQueueItem(j, d)
  \/ \E t \in tasks : Work(t) \/ LoseTask(t)
  \/ \E r \in results : Handle(r) \/ Redeliver(r) \/ LoseResult(r)
  \/ \E j \in Job : CancelJob(j)
  \/ GetRunningJobs

Next == Step \/ Restart \/ \E e \in Entity : DeleteEntity(e)

Spec == Init /\ [][Next]_vars

\* As in LibraryScan.
FairSpec ==
  /\ Spec
  /\ \A t \in Task : WF_vars(t \in tasks /\ Work(t))
  /\ WF_vars(\E r \in results : Handle(r))

---------------------------------------------------------------------------
TypeOK ==
  /\ DOMAIN jobs \subseteq sent
  /\ \A j \in DOMAIN jobs : jobs[j] \in [movie : BOOLEAN, completed : BOOLEAN]
  /\ DOMAIN imports \subseteq sent
  /\ \A j \in DOMAIN imports : imports[j] \in [download : Download, force : BOOLEAN]
  /\ DOMAIN trackers \subseteq sent
  /\ \A j \in DOMAIN trackers : trackers[j] \in Tracker
  /\ copying \subseteq Copy /\ tasks \subseteq Task /\ results \subseteq Result
  /\ disk \in [Path -> Nat]
  /\ \A r \in rows : r.file \in Path /\ r.owner \in Entity /\ r.size \in Nat
  /\ link \in [Episode \cup (Entity \cap Movie) -> {RowId(r) : r \in rows} \cup {None}]
  /\ library \subseteq Entity /\ tracked \subseteq Download
  /\ sent \subseteq Job /\ faults \in 0 .. MaxFaults /\ hit \subseteq sent

\* The tracker of a job counts exactly the copies under way, even when requests and
\* results are lost or come twice: cleanup is neither early nor, by a miscount, never.
CopiesOf(j) == {c \in copying : c.job = j}
TrackerExact ==
  \A j \in DOMAIN trackers :
    /\ trackers[j].dispatched = trackers[j].completed + Cardinality(CopiesOf(j))
    /\ trackers[j].imported <= trackers[j].completed

\* A copy that is waited for is being made or its answer is on its way, unless one
\* of the job's messages was lost or sent twice.
CopiesNotStuck ==
  \A c \in copying : c.job \notin hit =>
    \/ [what |-> "copy", copy |-> c] \in tasks
    \/ \E r \in results : r.task = [what |-> "copy", copy |-> c]

\* A record is dropped only after an import of its download that waits for no more
\* copies and recorded at least one file, in the library's tables by then unless
\* its series or movie was deleted.
DroppedAfterImport ==
  [][\A d \in tracked \ tracked' :
       \E j \in DOMAIN trackers \ DOMAIN trackers' :
         /\ trackers[j].download = d
         /\ {c \in copying' : c.job = j} = {}
         /\ Target[d] \in library =>
              \E r \in rows' : r.owner = Target[d] /\ \E s \in SourcesOf(d) : r.file = Dest[s]]_vars

\* An import that is started comes to its end, unless a message of it is lost or
\* comes twice, or the server restarts.
ImportsFinish ==
  \A j \in Job :
    (j \in DOMAIN jobs /\ ~jobs[j].completed) ~>
      (j \in hit \/ j \notin DOMAIN jobs \/ jobs[j].completed)

===============================================================================
