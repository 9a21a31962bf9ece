--------------------------- MODULE TrackedStores ---------------------------
(***************************************************************************)
(* The bookkeeping of grabbed downloads: one TrackingStore per content     *)
(* type plus the suppression list, each a vector in memory behind a lock   *)
(* and a JSONL file that is rewritten after every change.                  *)
(*                                                                         *)
(* An operation holds the store's write lock from its change of the vector *)
(* to the end of flush(), so both are one step here; flush() may fail, and *)
(* because it writes a temporary file and renames it, a failure or a crash *)
(* leaves the previous file.  Only insert() does something before it takes *)
(* the lock: it draws the id, so it is two steps.                          *)
(***************************************************************************)
EXTENDS Naturals, Sequences, FiniteSets

CONSTANTS
  SearchOrder,   \* the content stores in the order remove_by_id tries them
  Suppressed,    \* the suppression list, a store of the same kind
  Key,           \* the natural keys (client id, id in that client)
  Content,       \* what a record links the download to (series, movie, ...)
  LegacyRow,     \* the rows the old database table may hold
  MaxId,         \* bound: no store hands out an id above this one
  MaxRecords,    \* bound: records held, or being inserted, at one time
  FlushMayFail   \* whether a flush may fail (full disk, I/O error)

Active == {SearchOrder[i] : i \in DOMAIN SearchOrder}
Store == Active \cup {Suppressed}
Id == Nat \ {0}
Rec == [id : Id, key : Key, content : Content]
Row == [store : Active, rec : Rec]

ASSUME StoresAssumption ==
  /\ SearchOrder \in Seq(STRING)
  /\ Suppressed \notin Active
  /\ FlushMayFail \in BOOLEAN
  /\ MaxId \in Nat

\* The old table's primary key: no two rows share an id.
ASSUME LegacyAssumption ==
  /\ LegacyRow \subseteq Row
  /\ \A r1, r2 \in LegacyRow : r1.rec.id = r2.rec.id => r1 = r2

NoHandle == [store |-> "none"]

VARIABLES
  phase,     \* "down", "migrating" (load_or_migrate is running) or "up"
  items,     \* items[s]: the vector of store s, as a set of records
  nextId,    \* nextId[s]: the store's id counter
  inserting, \* inserts that drew their id and wait for the write lock
  files,     \* the stores whose JSONL file exists
  disk,      \* disk[s]: the records in the file of s
  legacy,    \* the active rows of the old database table
  todo,      \* the rows the running migration has not inserted yet
  handle,    \* a record some caller has seen and may remove by its id
  acked,     \* history: <<id, key>> of inserts that returned Ok, not removed
  dirty      \* history: the stores whose last flush failed

vars == <<phase, items, nextId, inserting, files, disk, legacy, todo, handle,
          acked, dirty>>
boot == <<phase, legacy, todo>>

RecordCount ==
  Cardinality(inserting) + Cardinality(UNION {{s} \X items[s] : s \in Store})

FlushOutcome == IF FlushMayFail THEN {TRUE, FALSE} ELSE {TRUE}

\* Mutant of Flush: the file is truncated and written in place.
FlushInPlace(s, recs, ok) ==
  /\ disk' = [disk EXCEPT ![s] = IF ok THEN recs ELSE {}]
  /\ files' = files \cup {s}
  /\ dirty' = IF ok THEN dirty \ {s} ELSE dirty \cup {s}

\* flush(): all records of the vector replace the file, or nothing changes.
Flush(s, recs, ok) ==
  /\ disk' = IF ok THEN [disk EXCEPT ![s] = recs] ELSE disk
  /\ files' = IF ok THEN files \cup {s} ELSE files
  /\ dirty' = IF ok THEN dirty \ {s} ELSE dirty \cup {s}

\* Mutant of IsNextId: load() keeps the largest id and forgets the "+ 1".
IsLastId(n, recs) ==
  /\ \A r \in recs : r.id <= n
  /\ n = 1 \/ \E r \in recs : n = r.id

\* What the counter of a store is after load(): one above the largest id read.
IsNextId(n, recs) ==
  /\ \A r \in recs : r.id < n
  /\ n = 1 \/ \E r \in recs : n = r.id + 1

Named(r) == <<r.id, r.key>>

---------------------------------------------------------------------------
(* insert() *)

\* Mutant of DrawId: the counter is incremented before the id is taken, from
\* a start of 0.
DrawIdBefore(s, k, c) ==
  /\ phase = "up"
  /\ nextId[s] <= MaxId
  /\ RecordCount < MaxRecords
  /\ inserting' = inserting \cup
       {[store |-> s, rec |-> [id |-> nextId[s] - 1, key |-> k, content |-> c]]}
  /\ nextId' = [nextId EXCEPT ![s] = @ + 1]
  /\ UNCHANGED <<boot, items, files, disk, handle, acked, dirty>>

\* Mutant of DrawId: the smallest id that is free in the vector.
DrawFreeId(s, k, c) ==
  /\ phase = "up"
  /\ nextId[s] <= MaxId
  /\ RecordCount < MaxRecords
  /\ \E n \in 1 .. nextId[s] :
       /\ \A r \in items[s] : r.id # n
       /\ \A m \in 1 .. (n - 1) : \E r \in items[s] : r.id = m
       /\ inserting' = inserting \cup
            {[store |-> s, rec |-> [id |-> n, key |-> k, content |-> c]]}
       /\ nextId' = [nextId EXCEPT ![s] = IF n = @ THEN @ + 1 ELSE @]
  /\ UNCHANGED <<boot, items, files, disk, handle, acked, dirty>>

DrawId(s, k, c) ==
  /\ phase = "up"
  /\ nextId[s] <= MaxId
  /\ RecordCount < MaxRecords
  /\ inserting' = inserting \cup
       {[store |-> s, rec |-> [id |-> nextId[s], key |-> k, content |-> c]]}
  /\ nextId' = [nextId EXCEPT ![s] = @ + 1]
  /\ UNCHANGED <<boot, items, files, disk, handle, acked, dirty>>

\* A failed flush makes insert() return Err and leaves the record in memory.
Push(p, ok) ==
  /\ phase = "up"
  /\ inserting' = inserting \ {p}
  /\ items' = [items EXCEPT ![p.store] = @ \cup {p.rec}]
  /\ Flush(p.store, items'[p.store], ok)
  /\ acked' = IF ok THEN [acked EXCEPT ![p.store] = @ \cup {Named(p.rec)}]
                    ELSE acked
  /\ UNCHANGED <<boot, nextId, handle>>

---------------------------------------------------------------------------
(* The removals and the update *)

\* remove() on one store: a failed flush is only logged.
Drop(s, recs, ok) ==
  /\ items' = [items EXCEPT ![s] = @ \ recs]
  /\ Flush(s, items'[s], ok)
  /\ acked' = [acked EXCEPT ![s] = @ \ {Named(r) : r \in recs}]

Holds(s, id) == \E r \in items[s] : r.id = id

\* The store remove_by_id takes the record from: the first that knows the id.
FirstWith(s, id) ==
  \E i \in DOMAIN SearchOrder :
    /\ SearchOrder[i] = s
    /\ Holds(s, id)
    /\ \A j \in 1 .. (i - 1) : ~Holds(SearchOrder[j], id)

\* A caller (a queue page, get_queue, process_queue, the clean-up) reads the
\* records with get_all_any() and keeps one of them.
Look(s, r) ==
  /\ phase = "up"
  /\ handle = NoHandle
  /\ handle' = [store |-> s, rec |-> r, fresh |-> TRUE]
  /\ UNCHANGED <<boot, items, nextId, inserting, files, disk, acked, dirty>>

\* Mutant of RemoveById: the position found in the store is used after the
\* lock was given up, so any record may sit there.
RemoveAtPosition(ok) ==
  /\ phase = "up"
  /\ handle # NoHandle
  /\ handle' = NoHandle
  /\ \/ /\ \A s \in Active : ~Holds(s, handle.rec.id)
        /\ UNCHANGED <<items, files, disk, acked, dirty>>
     \/ \E s \in Active :
          /\ FirstWith(s, handle.rec.id)
          /\ \E r \in items[s] : Drop(s, {r}, ok)
  /\ UNCHANGED <<boot, nextId, inserting>>

\* ... and later removes it: all that reaches remove_by_id() is the id.
RemoveById(ok) ==
  /\ phase = "up"
  /\ handle # NoHandle
  /\ handle' = NoHandle
  /\ \/ /\ \A s \in Active : ~Holds(s, handle.rec.id)
        /\ UNCHANGED <<items, files, disk, acked, dirty>>
     \/ \E s \in Active :
          /\ FirstWith(s, handle.rec.id)
          /\ \E r \in items[s] : r.id = handle.rec.id /\ Drop(s, {r}, ok)
  /\ UNCHANGED <<boot, nextId, inserting>>

\* remove_by_download_id(): the first store that has the natural key, and
\* there the first record of the vector, whose order is not modelled.
RemoveByDownloadId(k, ok) ==
  /\ phase = "up"
  /\ \E i \in DOMAIN SearchOrder :
       /\ \A j \in 1 .. (i - 1) : \A r \in items[SearchOrder[j]] : r.key # k
       /\ \E r \in items[SearchOrder[i]] :
            r.key = k /\ Drop(SearchOrder[i], {r}, ok)
  /\ UNCHANGED <<boot, nextId, inserting, handle>>

\* update(): the match of a record is corrected in place.
Update(s, r, c, ok) ==
  /\ phase = "up"
  /\ items' = [items EXCEPT ![s] = (@ \ {r}) \cup {[r EXCEPT !.content = c]}]
  /\ Flush(s, items'[s], ok)
  /\ UNCHANGED <<boot, nextId, inserting, handle, acked>>

\* Mutant of ClearSuppressed: the vector is emptied and not flushed.
ClearInMemory(ok) ==
  /\ phase = "up"
  /\ items[Suppressed] # {}
  /\ items' = [items EXCEPT ![Suppressed] = {}]
  /\ acked' = [acked EXCEPT ![Suppressed] = {}]
  /\ UNCHANGED <<boot, nextId, inserting, handle, disk, files, dirty>>

\* clear_tracked_downloads: remove_where(|_| true) on the suppression list.
ClearSuppressed(ok) ==
  /\ phase = "up"
  /\ items[Suppressed] # {}
  /\ Drop(Suppressed, items[Suppressed], ok)
  /\ UNCHANGED <<boot, nextId, inserting, handle>>

---------------------------------------------------------------------------
(* Restarts and the one-time migration *)

\* What is in memory dies; a page in a browser keeps the id it shows.
Crash ==
  /\ phase # "down"
  /\ phase' = "down"
  /\ items' = [s \in Store |-> {}]
  /\ nextId' = [s \in Store |-> 1]
  /\ inserting' = {}
  /\ todo' = {}
  /\ dirty' = {}
  /\ handle' = IF handle = NoHandle THEN NoHandle
               ELSE [handle EXCEPT !.fresh = FALSE]
  /\ UNCHANGED <<files, disk, legacy, acked>>

NeedsMigration == Active \cap files = {}

\* load_or_migrate(): load() of every store, then the rows of the database
\* when no content store has a file.  The rows may turn out unreadable.
Boot(next, readable) ==
  /\ phase = "down"
  /\ \A s \in Store : IsNextId(next[s], disk[s])
  /\ nextId' = next
  /\ items' = disk
  /\ todo' = IF NeedsMigration /\ readable THEN legacy ELSE {}
  /\ phase' = IF todo' = {} THEN "up" ELSE "migrating"
  /\ UNCHANGED <<inserting, files, disk, legacy, handle, acked, dirty>>

\* One round of migrate_from_db's loop: insert_with_id keeps the row's id.
\* An error ends the migration, and the server starts with what it has.
MigrateRow(row, ok) ==
  LET s == row.store IN
  /\ phase = "migrating"
  /\ items' = [items EXCEPT ![s] = @ \cup {row.rec}]
  /\ nextId' = [nextId EXCEPT ![s] = IF row.rec.id >= @ THEN row.rec.id + 1
                                                         ELSE @]
  /\ Flush(s, items'[s], ok)
  /\ todo' = IF ok THEN todo \ {row} ELSE {}
  /\ phase' = IF todo' = {} THEN "up" ELSE "migrating"
  /\ acked' = IF ok THEN [acked EXCEPT ![s] = @ \cup {Named(row.rec)}]
                    ELSE acked
  /\ UNCHANGED <<inserting, legacy, handle>>

---------------------------------------------------------------------------
Init ==
  /\ phase = "down"
  /\ items = [s \in Store |-> {}]
  /\ nextId = [s \in Store |-> 1]
  /\ inserting = {}
  /\ files = {}
  /\ disk = [s \in Store |-> {}]
  /\ legacy \in SUBSET LegacyRow
  /\ todo = {}
  /\ handle = NoHandle
  /\ acked = [s \in Store |-> {}]
  /\ dirty = {}

\* The ids a loaded counter can have: those of the records, plus one.
Counters == [Store -> {1} \cup {r.id + 1 : r \in UNION {disk[s] : s \in Store}}]

Next ==
  \/ \E s \in Store, k \in Key, c \in Content : DrawId(s, k, c)
  \/ \E p \in inserting, ok \in FlushOutcome : Push(p, ok)
  \/ \E s \in Active : \E r \in items[s] : Look(s, r)
  \/ \E ok \in FlushOutcome : RemoveById(ok)
  \/ \E k \in Key, ok \in FlushOutcome : RemoveByDownloadId(k, ok)
  \/ \E s \in Active, c \in Content, ok \in FlushOutcome :
       \E r \in items[s] : Update(s, r, c, ok)
  \/ \E ok \in FlushOutcome : ClearSuppressed(ok)
  \/ Crash
  \/ \E next \in Counters, readable \in FlushOutcome : Boot(next, readable)
  \/ \E row \in todo, ok \in FlushOutcome : MigrateRow(row, ok)

Spec == Init /\ [][Next]_vars

---------------------------------------------------------------------------
TypeOK ==
  /\ phase \in {"down", "migrating", "up"}
  /\ items \in [Store -> SUBSET Rec]
  /\ nextId \in [Store -> Id]
  /\ inserting \subseteq [store : Store, rec : Rec]
  /\ files \subseteq Store
  /\ disk \in [Store -> SUBSET Rec]
  /\ legacy \subseteq LegacyRow
  /\ todo \subseteq legacy
  /\ handle \in {NoHandle} \cup [store : Active, rec : Rec, fresh : BOOLEAN]
  /\ acked \in [Store -> SUBSET (Id \X Key)]
  /\ dirty \subseteq Store

\* An id names one record of its store: inserts that draw their ids before
\* they queue for the lock, restarts that reset the counter from the file and
\* the migration that brings its own ids never make two records share one.
UniqueIds ==
  \A s \in Store : \A r1, r2 \in items[s] : r1.id = r2.id => r1 = r2

\* A record whose insert() returned Ok is on disk until it is removed,
\* whatever later flushes fail and however often the server restarts.
AckedDurable ==
  \A s \in Store : \A a \in acked[s] : \E r \in disk[s] : Named(r) = a

\* Within one run of the server an id a caller has read keeps naming the same
\* download, or none: in particular it is never drawn again.
FreshIdsStable ==
  (handle # NoHandle /\ handle.fresh) =>
     \A r \in items[handle.store] \cup
              {p.rec : p \in {q \in inserting : q.store = handle.store}} :
       r.id = handle.rec.id => r.key = handle.rec.key

\* A caller that removes a record it has read in this run of the server makes
\* that record disappear and no other one ("Remove a tracked download by ID
\* from whichever store contains it").
RemovalHitsTarget ==
  [][(handle # NoHandle /\ handle' = NoHandle /\ handle.fresh) =>
       \A s \in Active : \A r \in items[s] \ items'[s] :
         s = handle.store /\ Named(r) = Named(handle.rec)]_vars

---------------------------------------------------------------------------
(* What the stores promise *)

\* While the server is down its answers are those of the next start.
Answers == IF phase = "down" THEN disk ELSE items

\* The ids below a store's counter, without those that an insert has drawn and
\* not yet used; the migration brings ids of its own until it is done.
Spent == [s \in Store |->
  IF phase = "up"
  THEN {n \in 1 .. (nextId[s] - 1) :
          \A p \in inserting : p.store = s => p.rec.id # n}
  ELSE {r.id : r \in Answers[s]}]

Keeper == INSTANCE RecordKeeper
            WITH records <- Answers, saved <- disk, spent <- Spent, unsaved <- dirty

\* The stores keep records: however inserts overlap and whatever flush fails,
\* every change is of one record (or clears a list) and is saved together with
\* what earlier failures left out or known not to be, no id comes to name a
\* second record within a run of the server, and a restart, in the middle of
\* the migration too, brings back exactly what the last save left.
KeepsRecords == Keeper!Spec

============================================================================
