------------------------------- MODULE Library -------------------------------
(***************************************************************************)
(* Rescans and imports together.  LibraryScan and DownloadImport run in    *)
(* the one ScanResultConsumer, next to each other: they share the library  *)
(* on disk, the file rows and the links to them, and a restart or the      *)
(* deletion of a series or movie concerns both.                            *)
(***************************************************************************)
EXTENDS Naturals, FiniteSets

CONSTANTS
  Series, Movie, SeriesWithId, File, Home, Episodes, Local,      \* the library
  ScanJob, Entities, Listed,                                     \* its scans
  Download, Source, Of, Bytes, Target, Matches, Dest, ImportJob, \* the downloads
  None, Faults, MaxFaults

VARIABLES
  jobs, pend, tasks, results, sent, hit,         \* of LibraryScan
  importJobs, imports, trackers, copying,        \* of DownloadImport
  importTasks, importResults, tracked, importSent, importHit,
  disk, rows, link, library, faults              \* shared

Scan == INSTANCE LibraryScan WITH Job <- ScanJob
Import == INSTANCE DownloadImport
  WITH Job <- ImportJob, Path <- File, jobs <- importJobs, tasks <- importTasks,
       results <- importResults, sent <- importSent, hit <- importHit

scanVars == <<jobs, pend, tasks, results, sent, hit>>
importVars == <<importJobs, imports, trackers, copying, importTasks, importResults,
                tracked, importSent, importHit>>
vars == <<scanVars, importVars, disk, rows, link, library, faults>>

Init == Scan!Init /\ Import!Init

Next ==
  \/ Scan!Step /\ UNCHANGED importVars
  \/ Import!Step /\ UNCHANGED scanVars
  \/ Scan!Restart /\ Import!Restart
  \/ \E e \in Series \cup Movie : Scan!DeleteEntity(e) /\ Import!DeleteEntity(e)

Spec == Init /\ [][Next]_vars

\* "Check if file already exists in database": a path of a series that is both scanned
\* and imported has one row.
OneRowPerPath == Scan!OneRowPerPath
==============================================================================
