--------------------------- MODULE DownloadQueue ---------------------------
(***************************************************************************)
(* TrackedDownloadService: the operations that keep the tracked downloads  *)
(* in step with the download client and the library.  Scheduler jobs and   *)
(* API requests run them at the same time; they share the stores and       *)
(* nothing else, and every call to the client, the database or a store is  *)
(* an await, so the operations interleave between those calls.             *)
(*                                                                         *)
(* The stores are those of TrackedStores, seen here as one set of records  *)
(* (flushes succeed, so a restart finds what was in memory).  One enabled  *)
(* download client stands for all of them: keys of two clients differ.     *)
(***************************************************************************)
EXTENDS Naturals, Sequences, FiniteSets

CONSTANTS
  SearchOrder,  \* the content stores in the order remove_by_id tries them
  Download,     \* the downloads, by their id in the download client
  Kind,         \* Kind[d]: the store of the content type of d
  Matchable,    \* downloads whose name reconcile can match to a library item
  Proc,         \* the tasks that run operations
  Ops,          \* Ops[p]: the operations task p may run
  Upgrades,     \* whether the library may hold a file from elsewhere
  MaxId,        \* bound: no store hands out an id above this one
  MaxRestarts   \* bound: restarts of the server

Active == {SearchOrder[i] : i \in DOMAIN SearchOrder}
Record == [store : Active, id : Nat \ {0}, dl : Download]
ClientState == {"absent", "downloading", "completed"}

ASSUME QueueAssumption ==
  /\ SearchOrder \in Seq(STRING) /\ "suppressed" \notin Active
  /\ Kind \in [Download -> Active]
  /\ Matchable \subseteq Download
  /\ Ops \in [Proc -> SUBSET {"poll", "process", "reconcile", "grab", "remove"}]
  /\ Upgrades \in BOOLEAN
  /\ MaxId \in Nat /\ MaxRestarts \in Nat

VARIABLES
  client,     \* client[d]: what the download client says of d
  library,    \* library[d]: the library file of d's target: "missing", imported
              \* from d ("this") or from something else ("other")
  recs,       \* the tracked downloads of all content stores
  nextId,     \* nextId[s]: the id counter of store s
  suppressed, \* the downloads on the suppression list
  job,        \* job[p]: what task p is doing
  restarts,   \* number of restarts, for the bound
  bare,       \* history: bare[p]: the downloads that, while p collected the
              \* known ids, were at some moment neither tracked nor suppressed,
              \* or that the user released from suppression
  lapsed      \* history: the records whose download the client did not have
              \* at some moment since the record was made

shared == <<client, library, recs, nextId, suppressed>>
vars == <<shared, job, restarts, bare, lapsed>>

\* todo: the records the task has read and not dealt with; hit: the record it
\* has decided to drop; seen: the downloads it goes by; left: the stores it has
\* still to read.
Doing(pc, todo, hit, seen) ==
  [pc |-> pc, todo |-> todo, hit |-> hit, seen |-> seen, left |-> <<>>]
Idle == Doing("idle", {}, {}, {})
At(p, pc) == job[p].pc = pc
Become(p, j) == job' = [job EXCEPT ![p] = j]
May(p, op) == At(p, "idle") /\ op \in Ops[p]

Present == {d \in Download : client[d] # "absent"}
Tracked == {r.dl : r \in recs}

\* insert(): a new record under the next id of its store.
Insert(d) ==
  LET s == Kind[d] IN
  /\ nextId[s] <= MaxId
  /\ recs' = recs \cup {[store |-> s, id |-> nextId[s], dl |-> d]}
  /\ nextId' = [nextId EXCEPT ![s] = @ + 1]

\* What remove_by_id(id) removes: the record with that id in the first store
\* that has one.
ById(id) ==
  {r \in recs : r.id = id /\ \E i \in DOMAIN SearchOrder :
      /\ SearchOrder[i] = r.store
      /\ \A j \in 1 .. (i - 1) : \A q \in recs :
           q.id = id => q.store # SearchOrder[j]}

RemoveById(id) == recs' = recs \ ById(id)

---------------------------------------------------------------------------
(* get_queue: drop the records whose download has left the client *)

PollStart(p) ==
  /\ May(p, "poll")
  /\ Become(p, Doing("poll_ask", recs, {}, {}))
  /\ UNCHANGED <<shared, restarts>>

\* A client that cannot be asked keeps its records.
PollAskUnanswered(p, ok) ==                          \* mutant of PollAsk
  /\ At(p, "poll_ask")
  /\ LET gone == {r \in job[p].todo : ok => client[r.dl] = "absent"} IN
     Become(p, IF gone = {} THEN Idle ELSE Doing("poll_drop", gone, {}, {}))
  /\ UNCHANGED <<shared, restarts>>
PollAsk(p, ok) ==
  /\ At(p, "poll_ask")
  /\ LET gone == {r \in job[p].todo : ok /\ client[r.dl] = "absent"} IN
     Become(p, IF gone = {} THEN Idle ELSE Doing("poll_drop", gone, {}, {}))
  /\ UNCHANGED <<shared, restarts>>

PollDrop(p, r) ==
  /\ At(p, "poll_drop")
  /\ RemoveById(r.id)
  /\ Become(p, IF job[p].todo = {r} THEN Idle
               ELSE Doing("poll_drop", job[p].todo \ {r}, {}, {}))
  /\ UNCHANGED <<client, library, nextId, suppressed, restarts>>

---------------------------------------------------------------------------
(* process_queue and cleanup_imported_downloads *)

ProcessStart(p) ==
  /\ May(p, "process")
  /\ recs # {}
  /\ Become(p, Doing("process", recs, {}, {}))
  /\ UNCHANGED <<shared, restarts>>

\* check_already_imported looks at the target of the download only.
CompletedIsImported(r) == client[r.dl] = "completed"  \* mutant of AlreadyImported
AlreadyImported(r) == library[r.dl] # "missing"

\* One round of process_queue's loop: a completed download whose target has a
\* file is dropped; a client that fails to answer leaves the record alone.
ProcessAsk(p, r, ok) ==
  /\ At(p, "process")
  /\ LET rest == job[p].todo \ {r} IN
     IF ok /\ client[r.dl] = "completed" /\ AlreadyImported(r)
       THEN Become(p, Doing("process_drop", rest, {r}, {}))
       ELSE Become(p, Doing("process", rest, {}, {}))
  /\ UNCHANGED <<shared, restarts>>

ProcessDrop(p, r) ==
  /\ At(p, "process_drop")
  /\ RemoveById(r.id)
  /\ Become(p, Doing("process", job[p].todo, {}, {}))
  /\ UNCHANGED <<client, library, nextId, suppressed, restarts>>

\* The clean-up that ends process_queue and reconcile_downloads: records first,
\* then the output paths of the downloads in the client.
CleanStart(p) ==
  /\ \/ At(p, "process") /\ job[p].todo = {}
     \/ At(p, "reconcile") /\ job[p].seen = {}
  /\ Become(p, IF recs = {} THEN Idle ELSE Doing("clean_ask", recs, {}, {}))
  /\ UNCHANGED <<shared, restarts>>

Proceed(rest) == IF rest = {} THEN Idle ELSE Doing("clean", rest, {}, {})

CleanAsk(p, ok) ==
  /\ At(p, "clean_ask")
  /\ LET there == {r \in job[p].todo : ok /\ client[r.dl] # "absent"} IN
     Become(p, Proceed(there))
  /\ UNCHANGED <<shared, restarts>>

\* A file imported from this download has its hash; another file's hash differs
\* when both can be computed, and counts as imported when one cannot.
CleanCheck(p, r, hashed) ==
  /\ At(p, "clean")
  /\ LET rest == job[p].todo \ {r} IN
     IF library[r.dl] = "this" \/ (library[r.dl] = "other" /\ ~hashed)
       THEN Become(p, Doing("clean_drop", rest, {r}, {}))
       ELSE Become(p, Proceed(rest))
  /\ UNCHANGED <<shared, restarts>>

CleanDrop(p, r) ==
  /\ At(p, "clean_drop")
  /\ RemoveById(r.id)
  /\ Become(p, Proceed(job[p].todo))
  /\ UNCHANGED <<client, library, nextId, suppressed, restarts>>

---------------------------------------------------------------------------
(* reconcile_downloads: track what the client has and pir9 does not know *)

\* all_download_ids() reads the content stores first and the suppression list
\* last; left: what is still to be read, seen: the downloads read so far.
SuppressedFirst == <<"suppressed">> \o SearchOrder   \* mutant of ReadOrder
ReadOrder == SearchOrder \o <<"suppressed">>

IdsIn(s) == IF s = "suppressed" THEN suppressed
            ELSE {r.dl : r \in {q \in recs : q.store = s}}

Knowing(left, seen) == [Doing("known", {}, {}, seen) EXCEPT !.left = left]

StartIfTracking(p) ==                                \* mutant of ReconcileStart
  /\ May(p, "reconcile")
  /\ recs # {}
  /\ Become(p, Knowing(ReadOrder, {}))
  /\ UNCHANGED <<shared, restarts>>
ReconcileStart(p) ==
  /\ May(p, "reconcile")
  /\ Become(p, Knowing(ReadOrder, {}))
  /\ UNCHANGED <<shared, restarts>>

ReconcileRead(p) ==
  /\ At(p, "known") /\ job[p].left # <<>>
  /\ Become(p, Knowing(Tail(job[p].left), job[p].seen \cup IdsIn(Head(job[p].left))))
  /\ UNCHANGED <<shared, restarts>>

ReconcileAsk(p, ok) ==
  /\ At(p, "known") /\ job[p].left = <<>>
  /\ LET new == {d \in Present \ job[p].seen : ok /\ d \in Matchable} IN
     Become(p, Doing("reconcile", {}, {}, new))
  /\ UNCHANGED <<shared, restarts>>

ReconcileInsert(p, d) ==
  /\ At(p, "reconcile")
  /\ Insert(d)
  /\ Become(p, Doing("reconcile", {}, {}, job[p].seen \ {d}))
  /\ UNCHANGED <<client, library, suppressed, restarts>>

---------------------------------------------------------------------------
(* grab_release: hand the release to the client, then track it *)

\* A client that has the torrent already answers with its id as well.
GrabAdd(p, d) ==
  /\ May(p, "grab")
  /\ client' = [client EXCEPT ![d] = IF @ = "absent" THEN "downloading" ELSE @]
  /\ Become(p, Doing("grab", {}, {}, {d}))
  /\ UNCHANGED <<library, recs, nextId, suppressed, restarts>>

GrabTrack(p, d) ==
  /\ At(p, "grab")
  /\ Insert(d)
  /\ Become(p, Idle)
  /\ UNCHANGED <<client, library, suppressed, restarts>>

---------------------------------------------------------------------------
(* remove: the user takes a record off the queue *)

\* find_by_id() resolves the id the way remove_by_id() does.
RemoveFind(p, r, fromClient) ==
  /\ May(p, "remove")
  /\ Become(p, Doing(IF fromClient THEN "remove_client" ELSE "suppress", {}, ById(r.id), {}))
  /\ UNCHANGED <<shared, restarts>>

\* A client that refuses is only logged.
RemoveFromClient(p, r, ok) ==
  /\ At(p, "remove_client")
  /\ client' = IF ok THEN [client EXCEPT ![r.dl] = "absent"] ELSE client
  /\ Become(p, Doing("remove", {}, {r}, {}))
  /\ UNCHANGED <<library, recs, nextId, suppressed, restarts>>

\* The download is suppressed first and its record removed after that.
Suppress(p, r) ==
  /\ At(p, "suppress")
  /\ suppressed' = suppressed \cup {r.dl}
  /\ Become(p, Doing("remove", {}, {r}, {}))
  /\ UNCHANGED <<client, library, recs, nextId, restarts>>

RemoveRecord(p, r) ==
  /\ At(p, "remove")
  /\ RemoveById(r.id)
  /\ Become(p, Idle)
  /\ UNCHANGED <<client, library, nextId, suppressed, restarts>>

---------------------------------------------------------------------------
(* Requests that are one step, the client, the importer, restarts *)

\* An item the page shows as untracked is removed without the client.
SuppressUntracked(d) ==
  /\ d \in Present \ Tracked
  /\ suppressed' = suppressed \cup {d}
  /\ UNCHANGED <<client, library, recs, nextId, job, restarts>>

\* The API's deletion of one record by its id.
DeleteRecord(r) ==
  /\ RemoveById(r.id)
  /\ UNCHANGED <<client, library, nextId, suppressed, job, restarts>>

ClearSuppressed ==
  /\ suppressed # {}
  /\ suppressed' = {}
  /\ UNCHANGED <<client, library, recs, nextId, job, restarts>>

\* The client: somebody adds a download, it completes, somebody deletes it.
ClientStep(d) ==
  /\ \/ client[d] = "absent" /\ client' = [client EXCEPT ![d] = "downloading"]
     \/ client[d] = "downloading" /\ client' = [client EXCEPT ![d] = "completed"]
     \/ client[d] # "absent" /\ client' = [client EXCEPT ![d] = "absent"]
  /\ UNCHANGED <<library, recs, nextId, suppressed, job, restarts>>

\* The importer's last act: the file is in the library and the record goes by
\* its natural key (remove_by_download_id); of two records, one of them.
Import(d) ==
  /\ client[d] = "completed" /\ library[d] # "this"
  /\ library' = [library EXCEPT ![d] = "this"]
  /\ \/ d \notin Tracked /\ recs' = recs
     \/ \E r \in recs : r.dl = d /\ recs' = recs \ {r}
  /\ UNCHANGED <<client, nextId, suppressed, job, restarts>>

\* The counter of a store that is read back: one above its largest id.
CountsFromLargest(s, n) ==                           \* mutant of CountsOn
  LET used == {r.id : r \in {q \in recs : q.store = s}} IN
  /\ \A i \in used : i <= n
  /\ n = 0 \/ n \in used
CountsOn(s, n) ==
  LET used == {r.id : r \in {q \in recs : q.store = s}} IN
  /\ \A i \in used : i < n
  /\ n = 1 \/ n - 1 \in used

\* Tasks die and the stores are read back.
Restart ==
  /\ restarts < MaxRestarts
  /\ restarts' = restarts + 1
  /\ job' = [p \in Proc |-> Idle]
  /\ \E n \in [Active -> 0 .. (MaxId + 1)] :
       (\A s \in Active : CountsOn(s, n[s])) /\ nextId' = n
  /\ UNCHANGED <<client, library, recs, suppressed>>

---------------------------------------------------------------------------
Init ==
  /\ client = [d \in Download |-> "absent"]
  /\ library \in [Download -> IF Upgrades THEN {"missing", "other"} ELSE {"missing"}]
  /\ recs = {}
  /\ nextId = [s \in Active |-> 1]
  /\ suppressed = {}
  /\ job = [p \in Proc |-> Idle]
  /\ restarts = 0
  /\ bare = [p \in Proc |-> {}]
  /\ lapsed = {}

Poll(p) ==
  \/ PollStart(p)
  \/ \E ok \in BOOLEAN : PollAsk(p, ok)
  \/ \E r \in job[p].todo : PollDrop(p, r)
Process(p) ==
  \/ ProcessStart(p)
  \/ \E r \in job[p].todo, ok \in BOOLEAN : ProcessAsk(p, r, ok)
  \/ \E r \in job[p].hit : ProcessDrop(p, r)
Clean(p) ==
  \/ CleanStart(p)
  \/ \E ok \in BOOLEAN : CleanAsk(p, ok)
  \/ \E r \in job[p].todo, hashed \in BOOLEAN : CleanCheck(p, r, hashed)
  \/ \E r \in job[p].hit : CleanDrop(p, r)
Reconcile(p) ==
  \/ ReconcileStart(p)
  \/ ReconcileRead(p)
  \/ \E ok \in BOOLEAN : ReconcileAsk(p, ok)
  \/ \E d \in job[p].seen : ReconcileInsert(p, d)
Grab(p) ==
  \/ \E d \in Download : GrabAdd(p, d)
  \/ \E d \in job[p].seen : GrabTrack(p, d)
Remove(p) ==
  \/ \E r \in recs, fromClient \in BOOLEAN : RemoveFind(p, r, fromClient)
  \/ \E r \in job[p].hit, ok \in BOOLEAN : RemoveFromClient(p, r, ok)
  \/ \E r \in job[p].hit : Suppress(p, r)
  \/ \E r \in job[p].hit : RemoveRecord(p, r)
Environment ==
  \/ \E d \in Download :
       SuppressUntracked(d) \/ ClientStep(d) \/ Import(d)
  \/ \E r \in recs : DeleteRecord(r)
  \/ ClearSuppressed
  \/ Restart

\* The history variables follow every step.
History ==
  /\ bare' = [p \in Proc |->
       LET now == (Download \ (Tracked' \cup suppressed'))
                     \cup (suppressed \ suppressed') IN
       CASE job'[p].pc = "known" -> (IF At(p, "known") THEN bare[p] ELSE {}) \cup now
         [] job'[p].pc = "reconcile" -> bare[p]
         [] OTHER -> {}]
  /\ lapsed' = {r \in recs' : r \in lapsed \/ client'[r.dl] = "absent"}

Next ==
  /\ \/ \E p \in Proc : \/ Poll(p) \/ Process(p) \/ Clean(p)
                        \/ Reconcile(p) \/ Grab(p) \/ Remove(p)
     \/ Environment
  /\ History

Spec == Init /\ [][Next]_vars

\* run_job_loop(): once started, the scheduler runs reconcile again and again on a
\* task of its own, and the client does not fail to answer for ever.
ReconcileStep(p) == (Reconcile(p) \/ Clean(p)) /\ History
FairSpec ==
  /\ Spec
  /\ \A p \in Proc : Ops[p] = {"reconcile"} =>
       /\ WF_vars(ReconcileStep(p))
       /\ SF_vars(ReconcileAsk(p, TRUE) /\ History)

---------------------------------------------------------------------------
Pc == {"idle", "poll_ask", "poll_drop", "process", "process_drop",
       "clean_ask", "clean", "clean_drop", "known", "reconcile",
       "grab", "remove_client", "suppress", "remove"}
Job == [pc : Pc, todo : SUBSET Record, hit : SUBSET Record,
        seen : SUBSET Download, left : Seq(Active \cup {"suppressed"})]

TypeOK ==
  /\ client \in [Download -> ClientState]
  /\ library \in [Download -> {"missing", "this", "other"}]
  /\ recs \subseteq Record
  /\ nextId \in [Active -> Nat \ {0}]
  /\ suppressed \subseteq Download
  /\ job \in [Proc -> Job]
  /\ restarts \in 0 .. MaxRestarts
  /\ bare \in [Proc -> SUBSET Download]
  /\ lapsed \subseteq recs

\* What reconcile is about to track was, at some moment while it collected the
\* known ids, neither tracked nor suppressed.  It reads the stores one after the
\* other while the user removes records: a removal that suppresses first, and a
\* collection that reads the suppression list last, never lose a download.
SuppressionSticks ==
  \A p \in Proc : At(p, "reconcile") => job[p].seen \subseteq bare[p]

\* get_queue drops a record only when the client has been without the download
\* since the record was made: a grab that finishes while the client is being
\* asked keeps its record.
AutoRemovalSound ==
  [][\A p \in Proc : At(p, "poll_drop") /\ job'[p] # job[p] /\ restarts' = restarts =>
       recs \ recs' \subseteq lapsed]_vars

\* The scheduler's jobs delete only records that are confirmed imported ("The
\* only mutation is deleting records that are confirmed imported").
ConfirmedImportedOnly ==
  [][\A p \in Proc : (At(p, "process_drop") \/ At(p, "clean_drop")) /\ job'[p] # job[p]
                     /\ restarts' = restarts =>
       \A r \in recs \ recs' : library[r.dl] = "this"]_vars

\* A download the client has and pir9 lost (a crash between grab_release's call
\* to the client and its record, or one somebody added by hand: "discover
\* externally-added downloads", every five minutes) gets tracked, unless it leaves
\* the client or the user suppresses it first.
Retracked ==
  \A d \in Matchable :
    (d \in Present \ (Tracked \cup suppressed)) ~>
      (d \in Tracked \cup suppressed \/ client[d] = "absent" \/ nextId[Kind[d]] > MaxId)

============================================================================
