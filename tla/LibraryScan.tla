----------------------------- MODULE LibraryScan -----------------------------
(***************************************************************************)
(* Rescans of the library.  The server registers a scan and enqueues it;   *)
(* workers list the directories and answer once per entity; for every new  *)
(* file ScanResultConsumer enqueues a probe and a hash and records the     *)
(* file when both results are in.                                          *)
(*                                                                         *)
(* The consumer is one task that handles one result after the other, so a  *)
(* handler is one step; the API, the workers and restarts come in between. *)
(* JobService says what becomes of a request, here the tasks; its answers  *)
(* are results in flight, in any order, since many workers send them.      *)
(***************************************************************************)
EXTENDS Naturals, FiniteSets

CONSTANTS
  Series, Movie, \* the entities: two tables, each with ids of its own
  SeriesWithId,  \* SeriesWithId[m]: the series, if any, that has movie m's id
  File,          \* the paths of video files
  Home,          \* Home[f]: the entity in whose directory f is
  Episodes,      \* Episodes[f]: the episodes its name says; none for movies
  Local,         \* the files that the server can read too
  Job,           \* the scans, each requested once
  Entities,      \* Entities[j]: the series, or the movies, that j scans
  Listed,        \* the jobs registered with the consumer: scans of movies and of
                 \* one new series (auto_scan_series), not the RescanSeries command
  None,
  Faults,        \* the kinds of faults and of changes that may happen
  MaxFaults      \* bound: how many of them happen

Entity == Series \cup Movie
Episode == UNION {Episodes[f] : f \in File}

ASSUME ScanAssumption ==
  /\ Series \cap Movie = {}
  /\ SeriesWithId \in [Movie -> Series \cup {None}]
  /\ Home \in [File -> Entity]
  /\ \A f \in File : Home[f] \in Series <=> Episodes[f] # {}
  /\ \A f, g \in File : Home[f] # Home[g] => Episodes[f] \cap Episodes[g] = {}
  /\ IsFiniteSet(File)
  /\ Episode \cap Movie = {}
  /\ Local \subseteq File /\ Listed \subseteq Job
  /\ \A j \in Job : /\ IsFiniteSet(Entities[j]) /\ Entities[j] # {}
                    /\ Entities[j] \subseteq Series \/ Entities[j] \subseteq Movie
  /\ \A j \in Job : Entities[j] \subseteq Movie => j \in Listed
  /\ \A j \in Listed : Entities[j] \subseteq Series => Cardinality(Entities[j]) = 1
  /\ None \notin Entity
  /\ Faults \subseteq {"lost", "twice", "cancel", "restart", "disk", "delete",
                "unreadable"}
  /\ MaxFaults \in Nat

VARIABLES
  jobs,     \* PendingScanJobs.jobs: what is known of a registered job
  pend,     \* file_jobs: the files that wait for their probe and hash results
  tasks,    \* requests enqueued and not answered
  results,  \* answers that the consumer has not seen
  disk,     \* disk[f]: the size of f, 0 when it is not there
  rows,     \* the rows of episode_files and movie_files; copy tells rows of
            \* one path apart
  link,     \* link[x]: the file row of an episode or a movie (its has_file)
  library,  \* the series and movies that are in the database
  sent,     \* the scans requested
  faults,   \* faults so far, for the bound
  hit       \* history: the jobs a message of which was lost or sent twice

vars == <<jobs, pend, tasks, results, disk, rows, link, library, sent, faults, hit>>
database == <<rows, link, library>>

Size == 0 .. 2
Answer == {"no", "none", "some"}
Found == [file : File, size : Size]
Pending == [job : Job, file : File, size : Size, entity : Entity,
            probe : Answer, hash : Answer]
Task == [job : Job, what : {"scan"}, on : Entity]
          \cup [job : Job, what : {"probe", "hash"}, on : File]
Row == [file : File, copy : Nat, owner : Entity, size : Size, hash : BOOLEAN]
Result == [task : Task, found : SUBSET Found, answer : Answer]

Fault(kind) == kind \in Faults /\ faults < MaxFaults /\ faults' = faults + 1

---------------------------------------------------------------------------
(* register_job(), enqueue_job() *)

Tasks(j, what, xs) == {[job |-> j, what |-> what, on |-> x] : x \in xs}

Registered(j) == [received |-> 0, completed |-> FALSE, total |-> 0, done |-> 0]

RequestScan(j) ==
  /\ j \notin sent /\ Entities[j] \subseteq library
  /\ sent' = sent \cup {j}
  /\ jobs' = IF j \in Listed
               THEN [i \in DOMAIN jobs \cup {j} |-> IF i = j THEN Registered(j) ELSE jobs[i]]
               ELSE jobs
  /\ tasks' = tasks \cup Tasks(j, "scan", Entities[j])
  /\ UNCHANGED <<pend, results, disk, database, faults, hit>>

---------------------------------------------------------------------------
(* The workers *)

OnDisk == {f \in File : disk[f] > 0}
FilesIn(e) == {f \in OnDisk : Home[f] = e}

\* scan_series_directory() lists every video file whose name has an episode,
\* scan_movie_directory() the largest video file.
Listing(e) ==
  IF e \in Series THEN {{[file |-> f, size |-> disk[f]] : f \in FilesIn(e)}}
  ELSE IF FilesIn(e) = {} THEN {{}}
  ELSE {{[file |-> f, size |-> disk[f]]} :
          f \in {g \in FilesIn(e) : \A h \in FilesIn(e) : disk[h] <= disk[g]}}

Reply(t, found, answer) ==
  /\ t \in tasks
  /\ tasks' = tasks \ {t}
  /\ results' = results \cup {[task |-> t, found |-> found, answer |-> answer]}
  /\ UNCHANGED <<jobs, pend, disk, database, sent, hit>>

WorkerScan(t) ==
  /\ t.what = "scan"
  /\ \E found \in Listing(t.on) : Reply(t, found, "some")
  /\ faults' = faults

\* A file that is gone, or that FFmpeg or the hash cannot read, gives no value.
WorkerEnrich(t, answer) ==
  /\ t.what # "scan"
  /\ Reply(t, {}, answer)
  /\ CASE answer = "some" -> t.on \in OnDisk /\ faults' = faults
       [] answer = "none" -> IF t.on \in OnDisk THEN Fault("unreadable") ELSE faults' = faults

---------------------------------------------------------------------------
(* mark_job_result_received(), process_scanned_files(), process_movie_scan_result() *)

MarkReceivedLate(js, j) ==                           \* mutant of MarkReceived
  IF j \notin DOMAIN js THEN js
  ELSE LET n == js[j].received + 1 IN
       [js EXCEPT ![j].received = n,
                  ![j].completed = @ \/ n > Cardinality(Entities[j])]
MarkReceived(js, j) ==
  IF j \notin DOMAIN js THEN js
  ELSE LET n == js[j].received + 1 IN
       [js EXCEPT ![j].received = n,
                  ![j].completed = @ \/ n >= Cardinality(Entities[j])]

RowId(r) == <<r.file, r.copy>>
NewRow(f, e, size, hash, copy) ==
  [file |-> f, copy |-> copy, owner |-> e, size |-> size, hash |-> hash]

\* A file whose path has a row keeps that row as it is; the others get one.
RowsOf(f) == {r \in rows : r.file = f}
UnguardedRows(s, fs, hashed) ==                      \* mutant of RowsWith
  rows \cup {NewRow(x.file, s, x.size, x.file \in hashed, Cardinality(RowsOf(x.file)) + 1) : x \in fs}
RowsWith(s, fs, hashed) ==
  rows \cup {NewRow(x.file, s, x.size, x.file \in hashed, 1) :
               x \in {y \in fs : RowsOf(y.file) = {}}}

\* The episodes of the series s are linked to rows of the files that name them,
\* file after file in the order of the listing.
RecordEpisodes(s, fs, hashed) ==
  LET named == {x \in fs : Episodes[x.file] # {}}
      eps == UNION {Episodes[x.file] : x \in {y \in named : Home[y.file] = s}} IN
  IF s \notin library THEN UNCHANGED <<rows, link>>
  ELSE /\ rows' = RowsWith(s, named, hashed)
       /\ link' \in {l \in [DOMAIN link -> {RowId(r) : r \in rows'} \cup {None}] :
                       \A x \in DOMAIN link :
                         IF x \in eps
                           THEN \E r \in rows' : /\ l[x] = RowId(r)
                                                 /\ \E y \in named : r.file = y.file
                                                 /\ x \in Episodes[r.file]
                           ELSE l[x] = link[x]}

\* get_by_movie_id() returns one of the movie's rows: a file is looked for in
\* that one only.
FreshCopy(f) == CHOOSE n \in 1 .. Cardinality(rows) + 1 : \A r \in RowsOf(f) : r.copy # n
RecordMovie(m, x, hashed) ==
  LET mine == {r \in rows : r.owner = m}
      new == NewRow(x.file, m, x.size, x.file \in hashed, FreshCopy(x.file)) IN
  \/ /\ m \notin library
     /\ UNCHANGED <<rows, link>>
  \/ /\ m \in library
     /\ \E r \in mine : /\ r.file = x.file
                        /\ link' = [link EXCEPT ![m] = RowId(r)]
                        /\ rows' = rows
  \/ /\ m \in library
     /\ mine = {} \/ \E r \in mine : r.file # x.file
     /\ rows' = rows \cup {new}
     /\ link' = [link EXCEPT ![m] = RowId(new)]

\* A file without media info is analysed by the server, if it can read it.
LocallyHashed(fs) == {x.file : x \in fs} \cap Local \cap OnDisk

---------------------------------------------------------------------------
(* handle_scan_result(), handle_movie_scan_result(), dispatch_enrichment_jobs() *)

Known(e, x) == \E r \in rows : r.owner = e /\ r.file = x.file /\ r.size = x.size /\ r.hash
NotKnown(e, fs) == {x \in fs : ~Known(e, x)}

DispatchOrMark(j, e, new) ==
  IF new = {}
    THEN /\ jobs' = MarkReceived(jobs, j)
         /\ UNCHANGED <<pend, tasks>>
    ELSE /\ pend' = {p \in pend : p.job # j \/ \A x \in new : x.file # p.file}
                      \cup {[job |-> j, file |-> x.file, size |-> x.size, entity |-> e,
                             probe |-> "no", hash |-> "no"] : x \in new}
         /\ tasks' = tasks \cup Tasks(j, "probe", {x.file : x \in new})
                           \cup Tasks(j, "hash", {x.file : x \in new})
         /\ jobs' = IF j \in DOMAIN jobs
                      THEN [jobs EXCEPT ![j].total = @ + Cardinality(new)] ELSE jobs

SeriesResult(j, s, found) ==
  IF found = {}
    THEN LET fallback == {x \in UNION Listing(s) : x.file \in Local} IN
         /\ IF fallback = {} THEN UNCHANGED <<rows, link>>
                             ELSE RecordEpisodes(s, fallback, LocallyHashed(fallback))
         /\ DispatchOrMark(j, s, {})
    ELSE LET known == found \ NotKnown(s, found) IN
         /\ IF known = {} THEN UNCHANGED <<rows, link>> ELSE RecordEpisodes(s, known, File)
         /\ DispatchOrMark(j, s, NotKnown(s, found))

MovieResult(j, m, found) ==
  IF found = {}
    THEN /\ link' = [link EXCEPT ![m] = None]
         /\ rows' = rows
         /\ DispatchOrMark(j, m, {})
    ELSE /\ LET known == found \ NotKnown(m, found) IN
            IF known = {} THEN UNCHANGED <<rows, link>>
                          ELSE \E x \in known : RecordMovie(m, x, File)
         /\ DispatchOrMark(j, m, NotKnown(m, found))

\* The handler is chosen by the type of the registered job; a job that is not
\* registered, or not any more, is taken for a scan of series.
HandleScan(r) ==
  /\ r \in results /\ r.task.what = "scan"
  /\ results' = results \ {r}
  /\ LET j == r.task.job  e == r.task.on IN
     IF e \in Series THEN SeriesResult(j, e, r.found)
     ELSE IF j \in DOMAIN jobs THEN MovieResult(j, e, r.found)
     ELSE IF SeriesWithId[e] # None THEN SeriesResult(j, SeriesWithId[e], r.found)
     ELSE UNCHANGED <<jobs, pend, tasks, rows, link>>
  /\ UNCHANGED <<disk, library, sent, faults, hit>>

---------------------------------------------------------------------------
(* handle_probe_file_result(), handle_hash_file_result(), process_enriched_file() *)

WaitingFor(r) == {p \in pend : p.job = r.task.job /\ p.file = r.task.on}
AnsweredIfSome(p, r) ==                              \* mutant of Answered
  IF r.answer = "none" THEN p
  ELSE IF r.task.what = "probe" THEN [p EXCEPT !.probe = r.answer]
                                ELSE [p EXCEPT !.hash = r.answer]
Answered(p, r) == IF r.task.what = "probe" THEN [p EXCEPT !.probe = r.answer]
                                           ELSE [p EXCEPT !.hash = r.answer]
FileReadyOnFirst(p) == p.probe # "no" \/ p.hash # "no" \* mutant of FileReady
FileReady(p) == p.probe # "no" /\ p.hash # "no"

RecordFile(p) ==
  LET fs == {[file |-> p.file, size |-> p.size]}
      hashed == IF p.probe = "none" THEN LocallyHashed(fs)
                ELSE IF p.hash = "some" THEN {p.file} ELSE {} IN
  IF p.entity \in Series THEN RecordEpisodes(p.entity, fs, hashed)
  ELSE \E x \in fs : RecordMovie(p.entity, x, hashed)

CountNothing(js, j) == js                            \* mutant of CountDone
CountDone(js, j) == IF j \in DOMAIN js THEN [js EXCEPT ![j].done = @ + 1] ELSE js
AfterFile(j) ==
  IF \E p \in pend' : p.job = j THEN CountDone(jobs, j)
  ELSE MarkReceived(CountDone(jobs, j), j)

HandleFile(r) ==
  /\ r \in results /\ r.task.what # "scan"
  /\ results' = results \ {r}
  /\ \/ /\ WaitingFor(r) = {}
        /\ UNCHANGED <<jobs, pend, rows, link>>
     \/ \E p \in WaitingFor(r) :
          /\ ~FileReady(Answered(p, r))
          /\ pend' = (pend \ {p}) \cup {Answered(p, r)}
          /\ UNCHANGED <<jobs, rows, link>>
     \/ \E p \in WaitingFor(r) :
          /\ FileReady(Answered(p, r))
          /\ pend' = pend \ {p}
          /\ RecordFile(Answered(p, r))
          /\ jobs' = AfterFile(p.job)
  /\ UNCHANGED <<tasks, disk, library, sent, faults, hit>>

---------------------------------------------------------------------------
(* cancel_job(), get_running_jobs(), restarts, and what else happens *)

CancelJob(j) ==
  /\ j \in DOMAIN jobs /\ ~jobs[j].completed
  /\ Fault("cancel")
  /\ jobs' = [jobs EXCEPT ![j].completed = TRUE]
  /\ hit' = hit \cup {j}
  /\ UNCHANGED <<pend, tasks, results, disk, database, sent>>

GetRunningJobs ==
  /\ \E j \in DOMAIN jobs : jobs[j].completed
  /\ jobs' = [j \in {i \in DOMAIN jobs : ~jobs[i].completed} |-> jobs[j]]
  /\ UNCHANGED <<pend, tasks, results, disk, database, sent, faults, hit>>

Restart ==
  /\ Fault("restart")
  /\ jobs' = [j \in {} |-> Registered(j)]
  /\ pend' = {}
  /\ hit' = hit \cup sent
  /\ UNCHANGED <<tasks, results, disk, database, sent>>

\* An XADD fails or a worker dies with the task; the consumer lags behind.
LoseTask(t) ==
  /\ t \in tasks
  /\ Fault("lost")
  /\ tasks' = tasks \ {t}
  /\ hit' = hit \cup {t.job}
  /\ UNCHANGED <<jobs, pend, results, disk, database, sent>>

LoseResult(r) ==
  /\ r \in results
  /\ Fault("lost")
  /\ results' = results \ {r}
  /\ hit' = hit \cup {r.task.job}
  /\ UNCHANGED <<jobs, pend, tasks, disk, database, sent>>

\* The stream delivers a request again after it was answered (StartedOnce).
Redeliver(r) ==
  /\ r \in results
  /\ Fault("twice")
  /\ tasks' = tasks \cup {r.task}
  /\ hit' = hit \cup {r.task.job}
  /\ UNCHANGED <<jobs, pend, results, disk, database, sent>>

ChangeFile(f, size) ==
  /\ disk[f] # size
  /\ Fault("disk")
  /\ disk' = [disk EXCEPT ![f] = size]
  /\ UNCHANGED <<jobs, pend, tasks, results, database, sent, hit>>

StillLinked(gone) == link                            \* mutant of Unlinked
Unlinked(gone) == [x \in DOMAIN link |-> IF link[x] \in {RowId(r) : r \in gone}
                                          THEN None ELSE link[x]]

\* Rows and episodes go with their series or movie (ON DELETE CASCADE).
DeleteEntity(e) ==
  /\ e \in library
  /\ Fault("delete")
  /\ library' = library \ {e}
  /\ rows' = {r \in rows : r.owner # e}
  /\ link' = Unlinked({r \in rows : r.owner = e})
  /\ UNCHANGED <<jobs, pend, tasks, results, disk, sent, hit>>

---------------------------------------------------------------------------
Init ==
  /\ jobs = [j \in {} |-> Registered(j)]
  /\ pend = {} /\ tasks = {} /\ results = {}
  /\ disk \in [File -> {0, 1}]
  /\ rows = {}
  /\ link = [x \in Episode \cup Movie |-> None]
  /\ library = Entity
  /\ sent = {} /\ faults = 0 /\ hit = {}

Work(t) == WorkerScan(t) \/ \E answer \in {"none", "some"} : WorkerEnrich(t, answer)
Handle(r) == HandleScan(r) \/ HandleFile(r)

\* Everything but what other parts of the server notice too.
Step ==
  \/ \E j \in Job : RequestScan(j) \/ CancelJob(j)
  \/ \E t \in tasks : Work(t) \/ LoseTask(t)
  \/ \E r \in results : Handle(r) \/ Redeliver(r) \/ LoseResult(r)
  \/ GetRunningJobs
  \/ \E f \in File, size \in Size : ChangeFile(f, size)

Next == Step \/ Restart \/ \E e \in Entity : DeleteEntity(e)

Spec == Init /\ [][Next]_vars

\* What JobService promises of every task, and a consumer that goes on reading.
FairSpec ==
  /\ Spec
  /\ \A t \in Task : WF_vars(t \in tasks /\ Work(t))
  /\ WF_vars(\E r \in results : Handle(r))

---------------------------------------------------------------------------
TypeOK ==
  /\ DOMAIN jobs \subseteq sent \cap Listed
  /\ \A j \in DOMAIN jobs : jobs[j] \in [received : Nat, completed : BOOLEAN,
                                         total : Nat, done : Nat]
  /\ pend \subseteq Pending
  /\ tasks \subseteq Task
  /\ results \subseteq Result
  /\ disk \in [File -> Size]
  /\ rows \subseteq Row
  /\ link \in [Episode \cup Movie -> {RowId(r) : r \in rows} \cup {None}]
  /\ library \subseteq Entity
  /\ sent \subseteq Job /\ faults \in 0 .. MaxFaults /\ hit \subseteq sent

\* No path of a series is recorded twice, however its scans overlap: the table has no
\* UNIQUE constraint, only get_by_path() before the insert.  (For a movie with two files
\* this does not hold: get_by_movie_id() returns one of its rows.)
OneRowPerPath == \A r, q \in rows : r.owner \in Series /\ r.file = q.file => r = q

\* A job that counts as completed has nothing left to come: no entity without a
\* result, no file without its probe and hash.
Outstanding(j) ==
  \/ \E p \in pend : p.job = j
  \/ \E t \in tasks : t.job = j
  \/ \E r \in results : r.task.job = j
CompletedMeansDone ==
  \A j \in DOMAIN jobs : jobs[j].completed /\ j \notin hit => ~Outstanding(j)

\* The progress that is shown counts each file once: the files still waiting are
\* those announced and not done.
ProgressExact ==
  \A j \in DOMAIN jobs \ hit :
    jobs[j].total = jobs[j].done + Cardinality({p \in pend : p.job = j})

\* A file that waits for a result gets one, or a message was lost.
FilesNotStuck ==
  \A p \in pend : p.job \notin hit =>
    \A what \in {"probe", "hash"} :
      (IF what = "probe" THEN p.probe ELSE p.hash) = "no" =>
        \/ [job |-> p.job, what |-> what, on |-> p.file] \in tasks
        \/ \E r \in results : r.task = [job |-> p.job, what |-> what, on |-> p.file]

\* "Auto-completes the job when all expected results have arrived", unless one
\* of its messages is lost, it is cancelled, or the server restarts.
Completes(j) ==
  (j \in DOMAIN jobs /\ ~jobs[j].completed) ~>
    (j \in hit \/ j \notin DOMAIN jobs \/ jobs[j].completed)
SingleScansComplete == \A j \in Job : Cardinality(Entities[j]) = 1 => Completes(j)
ScansComplete == \A j \in Job : Completes(j)

==============================================================================
