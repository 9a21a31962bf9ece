----------------------- MODULE TrackedStores_proofs -----------------------
(***************************************************************************)
(* What holds of TrackedStores for every set of stores, keys and contents, *)
(* every bound, and with or without failing flushes: ids, acknowledgements *)
(* and removals, and that the stores implement RecordKeeper.               *)
(*                                                                         *)
(* RecordKeeper's ids are spent once.  The counter alone does not say so:  *)
(* an insert that drew its id has not yet used it, and the migration       *)
(* brings ids below the counter, which no row has because the old table's  *)
(* key keeps them apart (MigrationInv).                                    *)
(***************************************************************************)
EXTENDS TrackedStores, TLAPS

\* Ids already given out lie below the counter, and no two records, waiting
\* inserts or lines of a file share one.
IdsInv ==
  /\ UniqueIds
  /\ \A s \in Store : \A r \in items[s] : r.id < nextId[s]
  /\ \A p \in inserting : p.rec.id < nextId[p.store]
  /\ \A p \in inserting : \A r \in items[p.store] : r.id # p.rec.id
  /\ \A p, q \in inserting :
       p.store = q.store /\ p.rec.id = q.rec.id => p = q
  /\ \A s \in Store : \A r1, r2 \in disk[s] : r1.id = r2.id => r1 = r2
  /\ phase # "up" => inserting = {}

\* While it runs, the migration is the only source of records in the content
\* stores, and it takes every row once.
MigrationInv ==
  /\ \A s \in Active : s \notin files => disk[s] = {}
  /\ phase = "migrating" =>
       \A s \in Active : \A r \in items[s] :
         \E row \in legacy \ todo : row.rec.id = r.id

\* Acknowledged records are in memory too, so that the next flush keeps them.
AckedInv ==
  /\ AckedDurable
  /\ phase # "down" =>
       \A s \in Store : \A a \in acked[s] : \E r \in items[s] : Named(r) = a

\* The file equals the vector unless the last flush of the store failed: one
\* successful flush repairs what earlier failed ones left behind.
FlushHeals ==
  phase = "up" => \A s \in Store \ dirty : disk[s] = items[s]

HealsInv ==
  /\ phase = "down" => dirty = {}
  /\ phase # "down" => \A s \in Store \ dirty : disk[s] = items[s]

FreshInv ==
  (handle # NoHandle /\ handle.fresh) =>
     /\ phase = "up"
     /\ handle.rec.id < nextId[handle.store]
     /\ FreshIdsStable

IInv == TypeOK /\ IdsInv /\ MigrationInv /\ AckedInv /\ HealsInv /\ FreshInv

---------------------------------------------------------------------------
(* Type correctness *)

LEMMA InitType == Init => TypeOK
  BY LegacyAssumption DEF Init, TypeOK, Id, NoHandle

LEMMA DropType ==
  ASSUME TypeOK, NEW s \in Store, NEW recs \in SUBSET items[s],
         NEW ok \in BOOLEAN, Drop(s, recs, ok)
  PROVE  /\ items' \in [Store -> SUBSET Rec]
         /\ files' \subseteq Store
         /\ disk' \in [Store -> SUBSET Rec]
         /\ acked' \in [Store -> SUBSET (Id \X Key)]
         /\ dirty' \subseteq Store
  BY DEF Drop, Flush, TypeOK

LEMMA TypeStep == TypeOK /\ [Next]_vars => TypeOK'
<1> SUFFICES ASSUME TypeOK, [Next]_vars PROVE TypeOK'
  OBVIOUS
<1>0. FlushOutcome \subseteq BOOLEAN
  BY DEF FlushOutcome
<1>1. ASSUME NEW s \in Store, NEW k \in Key, NEW c \in Content, DrawId(s, k, c)
      PROVE TypeOK'
  <2>1. nextId[s] \in Id /\ nextId[s] + 1 \in Id
    BY DEF TypeOK, Id
  <2>2. [id |-> nextId[s], key |-> k, content |-> c] \in Rec
    BY <2>1 DEF Rec
  <2> QED
    BY <1>1, <2>1, <2>2 DEF DrawId, TypeOK, boot
<1>2. ASSUME NEW p \in inserting, NEW ok \in FlushOutcome, Push(p, ok)
      PROVE TypeOK'
  <2>1. p.store \in Store /\ p.rec \in Rec /\ Named(p.rec) \in Id \X Key
    BY DEF TypeOK, Named, Rec
  <2> QED
    BY <1>2, <2>1 DEF Push, Flush, TypeOK, boot
<1>3. ASSUME NEW s \in Active, NEW r \in items[s], Look(s, r) PROVE TypeOK'
  <2>1. r \in Rec
    BY DEF TypeOK, Store
  <2> QED
    BY <1>3, <2>1 DEF Look, TypeOK, boot
<1>4. ASSUME NEW ok \in FlushOutcome, RemoveById(ok) PROVE TypeOK'
  <2>1. CASE UNCHANGED <<items, files, disk, acked, dirty>>
    BY <1>4, <2>1 DEF RemoveById, TypeOK, boot
  <2>2. ASSUME NEW s \in Active, NEW r \in items[s], Drop(s, {r}, ok)
        PROVE TypeOK'
    <3>1. s \in Store /\ {r} \in SUBSET items[s] /\ ok \in BOOLEAN
      BY <1>0 DEF Store
    <3>2. /\ items' \in [Store -> SUBSET Rec]
          /\ files' \subseteq Store
          /\ disk' \in [Store -> SUBSET Rec]
          /\ acked' \in [Store -> SUBSET (Id \X Key)]
          /\ dirty' \subseteq Store
      BY <2>2, <3>1, DropType
    <3> QED
      BY <1>4, <3>2 DEF RemoveById, TypeOK, boot
  <2> QED
    BY <1>4, <2>1, <2>2 DEF RemoveById
<1>5. ASSUME NEW k \in Key, NEW ok \in FlushOutcome, RemoveByDownloadId(k, ok)
      PROVE TypeOK'
  <2>1. PICK s \in Active : \E r \in items[s] : Drop(s, {r}, ok)
    BY <1>5 DEF RemoveByDownloadId, Active
  <2>2. PICK r \in items[s] : Drop(s, {r}, ok)
    BY <2>1
  <2>3. s \in Store /\ {r} \in SUBSET items[s] /\ ok \in BOOLEAN
    BY <1>0 DEF Store
  <2>4. /\ items' \in [Store -> SUBSET Rec]
        /\ files' \subseteq Store
        /\ disk' \in [Store -> SUBSET Rec]
        /\ acked' \in [Store -> SUBSET (Id \X Key)]
        /\ dirty' \subseteq Store
    BY <2>2, <2>3, DropType
  <2> QED
    BY <1>5, <2>4 DEF RemoveByDownloadId, TypeOK, boot
<1>6. ASSUME NEW s \in Active, NEW c \in Content, NEW ok \in FlushOutcome,
             NEW r \in items[s], Update(s, r, c, ok)
      PROVE TypeOK'
  <2>1. s \in Store /\ r \in Rec /\ [r EXCEPT !.content = c] \in Rec
    BY DEF TypeOK, Store, Rec
  <2>2. items' \in [Store -> SUBSET Rec]
    BY <1>6, <2>1 DEF Update, TypeOK
  <2>3. disk' \in [Store -> SUBSET Rec] /\ files' \subseteq Store /\ dirty' \subseteq Store
    BY <1>6, <2>1, <2>2 DEF Update, Flush, TypeOK
  <2> QED
    BY <1>6, <2>2, <2>3 DEF Update, TypeOK, boot
<1>7. ASSUME NEW ok \in FlushOutcome, ClearSuppressed(ok) PROVE TypeOK'
  <2>1. /\ Suppressed \in Store /\ ok \in BOOLEAN
        /\ items[Suppressed] \in SUBSET items[Suppressed]
    BY <1>0 DEF Store
  <2>2. Drop(Suppressed, items[Suppressed], ok)
    BY <1>7 DEF ClearSuppressed
  <2>3. /\ items' \in [Store -> SUBSET Rec]
        /\ files' \subseteq Store
        /\ disk' \in [Store -> SUBSET Rec]
        /\ acked' \in [Store -> SUBSET (Id \X Key)]
        /\ dirty' \subseteq Store
    BY <2>1, <2>2, DropType
  <2> QED
    BY <1>7, <2>3 DEF ClearSuppressed, TypeOK, boot
<1>8. CASE Crash
  <2>1. handle' \in {NoHandle} \cup [store : Active, rec : Rec, fresh : BOOLEAN]
    BY <1>8 DEF Crash, TypeOK
  <2>2. items' \in [Store -> SUBSET Rec] /\ nextId' \in [Store -> Id]
    BY <1>8 DEF Crash, Id
  <2> QED
    BY <1>8, <2>1, <2>2 DEF Crash, TypeOK
<1>9. ASSUME NEW next \in Counters, NEW readable \in FlushOutcome,
             Boot(next, readable)
      PROVE TypeOK'
  <2>1. Counters \subseteq [Store -> Id]
    BY DEF Counters, TypeOK, Rec, Id
  <2> QED
    BY <1>9, <2>1 DEF Boot, TypeOK
<1>10. ASSUME NEW row \in todo, NEW ok \in FlushOutcome, MigrateRow(row, ok)
       PROVE TypeOK'
  <2>1. /\ row \in legacy /\ row.store \in Store /\ row.rec \in Rec
        /\ row.rec.id + 1 \in Id /\ Named(row.rec) \in Id \X Key
    BY LegacyAssumption DEF TypeOK, Row, Store, Rec, Id, Named
  <2>2. items' \in [Store -> SUBSET Rec] /\ nextId' \in [Store -> Id]
    BY <1>10, <2>1 DEF MigrateRow, TypeOK
  <2>3. disk' \in [Store -> SUBSET Rec] /\ files' \subseteq Store /\ dirty' \subseteq Store
    BY <1>10, <2>1, <2>2 DEF MigrateRow, Flush, TypeOK
  <2> QED
    BY <1>10, <2>1, <2>2, <2>3 DEF MigrateRow, TypeOK
<1>11. CASE UNCHANGED vars
  BY <1>11 DEF vars, TypeOK
<1> QED
  BY <1>1, <1>2, <1>3, <1>4, <1>5, <1>6, <1>7, <1>8, <1>9, <1>10, <1>11
     DEF Next

\* The records, counters, files and handles keep their types.
THEOREM TypeCorrect == Spec => []TypeOK
  BY InitType, TypeStep, PTL DEF Spec

---------------------------------------------------------------------------
(* The three removals do the same thing to the stores *)

Removal ==
  \E s \in Store, ok \in BOOLEAN : \E recs \in SUBSET items[s] : Drop(s, recs, ok)

RemovalStep ==
  /\ phase = "up"
  /\ Removal \/ UNCHANGED <<items, files, disk, acked, dirty>>
  /\ handle' \in {handle, NoHandle}
  /\ UNCHANGED <<phase, legacy, todo, nextId, inserting>>

LEMMA Removals ==
  ASSUME NEW ok \in FlushOutcome,
         \/ RemoveById(ok)
         \/ \E k \in Key : RemoveByDownloadId(k, ok)
         \/ ClearSuppressed(ok)
  PROVE  RemovalStep
<1>0. ok \in BOOLEAN
  BY DEF FlushOutcome
<1>1. CASE RemoveById(ok)
  <2>1. ASSUME NEW s \in Active, NEW r \in items[s], Drop(s, {r}, ok)
        PROVE Removal
    BY <1>0, <2>1 DEF Removal, Store
  <2> QED
    BY <1>1, <2>1 DEF RemoveById, RemovalStep, boot
<1>2. ASSUME NEW k \in Key, RemoveByDownloadId(k, ok) PROVE RemovalStep
  <2>1. PICK s \in Active : \E r \in items[s] : Drop(s, {r}, ok)
    BY <1>2 DEF RemoveByDownloadId, Active
  <2>2. Removal
    BY <1>0, <2>1 DEF Removal, Store
  <2> QED
    BY <1>2, <2>2 DEF RemoveByDownloadId, RemovalStep, boot
<1>3. CASE ClearSuppressed(ok)
  <2>1. Removal
    BY <1>0, <1>3 DEF ClearSuppressed, Removal, Store
  <2> QED
    BY <1>3, <2>1 DEF ClearSuppressed, RemovalStep, boot
<1> QED
  BY <1>1, <1>2, <1>3

\* The steps an invariant must survive, the removals taken together.
Steps ==
  \/ \E s \in Store, k \in Key, c \in Content : DrawId(s, k, c)
  \/ \E p \in inserting, ok \in BOOLEAN : Push(p, ok)
  \/ \E s \in Active : \E r \in items[s] : Look(s, r)
  \/ RemovalStep
  \/ \E s \in Active, c \in Content, ok \in BOOLEAN :
       \E r \in items[s] : Update(s, r, c, ok)
  \/ Crash
  \/ \E next \in Counters, readable \in BOOLEAN : Boot(next, readable)
  \/ \E row \in todo, ok \in BOOLEAN : MigrateRow(row, ok)
  \/ UNCHANGED vars

LEMMA NextSteps == [Next]_vars => Steps
<1> SUFFICES ASSUME [Next]_vars PROVE Steps
  OBVIOUS
<1>1. FlushOutcome \subseteq BOOLEAN
  BY DEF FlushOutcome
<1>2. ASSUME NEW ok \in FlushOutcome,
             \/ RemoveById(ok)
             \/ \E k \in Key : RemoveByDownloadId(k, ok)
             \/ ClearSuppressed(ok)
      PROVE Steps
  BY <1>2, Removals DEF Steps
<1> QED
  BY <1>1, <1>2, Zenon DEF Next, Steps

---------------------------------------------------------------------------
(* Ids *)

LEMMA IdsStep ==
  TypeOK /\ MigrationInv /\ IdsInv /\ [Next]_vars => IdsInv'
<1> SUFFICES ASSUME TypeOK, MigrationInv, IdsInv, [Next]_vars PROVE IdsInv'
  OBVIOUS
<1>1. ASSUME NEW s \in Store, NEW k \in Key, NEW c \in Content, DrawId(s, k, c)
      PROVE IdsInv'
  BY <1>1 DEF DrawId, IdsInv, UniqueIds, TypeOK, Rec, Id, boot
<1>2. ASSUME NEW p \in inserting, NEW ok \in BOOLEAN, Push(p, ok) PROVE IdsInv'
  <2>1. UniqueIds' /\ UNCHANGED <<phase, nextId>>
    BY <1>2 DEF Push, IdsInv, UniqueIds, TypeOK, boot
  <2>2. \A s \in Store : \A r \in items'[s] : r.id < nextId[s]
    BY <1>2 DEF Push, IdsInv, TypeOK
  <2>3. \A q \in inserting' : \A r \in items'[q.store] : r.id # q.rec.id
    BY <1>2 DEF Push, IdsInv, TypeOK
  <2>4. \A s \in Store : disk'[s] = disk[s] \/ disk'[s] = items'[s]
    BY <1>2 DEF Push, Flush, TypeOK
  <2> QED
    BY <1>2, <2>1, <2>2, <2>3, <2>4 DEF Push, IdsInv, UniqueIds
<1>3. ASSUME NEW s \in Active, NEW r \in items[s], Look(s, r) PROVE IdsInv'
  BY <1>3 DEF Look, IdsInv, UniqueIds, boot
<1>4. CASE RemovalStep
  <2>1. CASE UNCHANGED <<items, files, disk, acked, dirty>>
    BY <1>4, <2>1 DEF RemovalStep, IdsInv, UniqueIds
  <2>2. ASSUME NEW s \in Store, NEW ok \in BOOLEAN,
               NEW recs \in SUBSET items[s], Drop(s, recs, ok)
        PROVE IdsInv'
    <3>1. \A t \in Store : items'[t] \subseteq items[t]
      BY <2>2 DEF Drop, TypeOK
    <3>2. \A t \in Store : disk'[t] = disk[t] \/ disk'[t] = items'[t]
      BY <2>2 DEF Drop, Flush, TypeOK
    <3>3. \A p \in inserting : p.store \in Store
      BY DEF TypeOK
    <3> QED
      BY <1>4, <3>1, <3>2, <3>3 DEF RemovalStep, IdsInv, UniqueIds
  <2> QED
    BY <1>4, <2>1, <2>2 DEF RemovalStep, Removal
<1>5. ASSUME NEW s \in Active, NEW c \in Content, NEW ok \in BOOLEAN,
             NEW r \in items[s], Update(s, r, c, ok)
      PROVE IdsInv'
  <2>1. s \in Store /\ [r EXCEPT !.content = c].id = r.id
    BY DEF Store, TypeOK, Rec
  <2>2. /\ UNCHANGED <<phase, nextId, inserting>>
        /\ items' = [items EXCEPT ![s] = (@ \ {r}) \cup {[r EXCEPT !.content = c]}]
    BY <1>5 DEF Update, boot
  <2>6. UniqueIds'
    <3> DEFINE n == [r EXCEPT !.content = c]
    <3>1. items'[s] = (items[s] \ {r}) \cup {n}
      BY <2>1, <2>2 DEF TypeOK
    <3>2. \A t \in Store : t # s => items'[t] = items[t]
      BY <2>2 DEF TypeOK
    <3>3. \A x \in items[s] \ {r} : x.id # n.id
      BY <2>1 DEF IdsInv, UniqueIds
    <3>4. \A r1, r2 \in items'[s] : r1.id = r2.id => r1 = r2
      BY <2>1, <3>1, <3>3 DEF IdsInv, UniqueIds
    <3> HIDE DEF n
    <3> QED
      BY <3>2, <3>4 DEF IdsInv, UniqueIds
  <2>3. \A t \in Store : \A x \in items'[t] :
           \E y \in items[t] : x.id = y.id
    BY <1>5, <2>1 DEF Update, TypeOK
  <2>4. \A t \in Store : disk'[t] = disk[t] \/ disk'[t] = items'[t]
    BY <1>5, <2>1 DEF Update, Flush, TypeOK
  <2>5. \A p \in inserting : p.store \in Store
    BY DEF TypeOK
  <2> QED
    BY <2>2, <2>3, <2>4, <2>5, <2>6 DEF IdsInv, UniqueIds
<1>6. CASE Crash
  BY <1>6 DEF Crash, IdsInv, UniqueIds
<1>7. ASSUME NEW next \in Counters, NEW readable \in BOOLEAN, Boot(next, readable)
      PROVE IdsInv'
  BY <1>7 DEF Boot, IsNextId, IdsInv, UniqueIds
<1>8. ASSUME NEW row \in todo, NEW ok \in BOOLEAN, MigrateRow(row, ok)
      PROVE IdsInv'
  <2> DEFINE s == row.store
  <2>1. s \in Active /\ s \in Store /\ row.rec \in Rec /\ row \in LegacyRow
    BY LegacyAssumption DEF TypeOK, Row, Store
  <2>2. \A r \in items[s] : r.id # row.rec.id
    BY <1>8, <2>1, LegacyAssumption DEF MigrateRow, MigrationInv, TypeOK
  <2>3. items' = [items EXCEPT ![s] = @ \cup {row.rec}] /\ UniqueIds'
    BY <1>8, <2>1, <2>2 DEF MigrateRow, IdsInv, UniqueIds, TypeOK
  <2>4. \A t \in Store : \A r \in items'[t] : r.id < nextId'[t]
    BY <1>8, <2>1, <2>3 DEF MigrateRow, IdsInv, TypeOK, Rec, Id
  <2>5. \A t \in Store : disk'[t] = disk[t] \/ disk'[t] = items'[t]
    BY <1>8, <2>1, <2>3 DEF MigrateRow, Flush, TypeOK
  <2>6. inserting = {} /\ inserting' = {}
    BY <1>8 DEF MigrateRow, IdsInv
  <2> QED
    BY <2>3, <2>4, <2>5, <2>6 DEF IdsInv, UniqueIds
<1>9. CASE UNCHANGED vars
  BY <1>9 DEF vars, IdsInv, UniqueIds
<1> QED
  BY <1>1, <1>2, <1>3, <1>4, <1>5, <1>6, <1>7, <1>8, <1>9, NextSteps DEF Steps
---------------------------------------------------------------------------
(* The migration *)

LEMMA MigrationStep == TypeOK /\ MigrationInv /\ [Next]_vars => MigrationInv'
<1> SUFFICES ASSUME TypeOK, MigrationInv, [Next]_vars PROVE MigrationInv'
  OBVIOUS
<1>1. ASSUME NEW s \in Store, NEW recs, NEW ok \in BOOLEAN, Flush(s, recs, ok)
      PROVE \A t \in Active : t \notin files' => disk'[t] = {}
  BY <1>1 DEF Flush, MigrationInv, TypeOK, Store
<1>2. ASSUME NEW s \in Store, NEW k \in Key, NEW c \in Content, DrawId(s, k, c)
      PROVE MigrationInv'
  BY <1>2 DEF DrawId, MigrationInv, boot
<1>3. ASSUME NEW p \in inserting, NEW ok \in BOOLEAN, Push(p, ok)
      PROVE MigrationInv'
  <2>1. p.store \in Store
    BY DEF TypeOK
  <2> QED
    BY <1>1, <1>3, <2>1 DEF Push, MigrationInv, boot
<1>4. ASSUME NEW s \in Active, NEW r \in items[s], Look(s, r) PROVE MigrationInv'
  BY <1>4 DEF Look, MigrationInv, boot
<1>5. CASE RemovalStep
  <2>1. CASE UNCHANGED <<items, files, disk, acked, dirty>>
    BY <1>5, <2>1 DEF RemovalStep, MigrationInv
  <2>2. CASE Removal
    BY <1>1, <1>5, <2>2 DEF RemovalStep, Removal, Drop, MigrationInv
  <2> QED
    BY <1>5, <2>1, <2>2 DEF RemovalStep
<1>6. ASSUME NEW s \in Active, NEW c \in Content, NEW ok \in BOOLEAN,
             NEW r \in items[s], Update(s, r, c, ok)
      PROVE MigrationInv'
  BY <1>1, <1>6 DEF Update, MigrationInv, Store, boot
<1>7. CASE Crash
  BY <1>7 DEF Crash, MigrationInv
<1>8. ASSUME NEW next \in Counters, NEW readable \in BOOLEAN, Boot(next, readable)
      PROVE MigrationInv'
  BY <1>8 DEF Boot, NeedsMigration, MigrationInv
<1>9. ASSUME NEW row \in todo, NEW ok \in BOOLEAN, MigrateRow(row, ok)
      PROVE MigrationInv'
  <2> DEFINE s == row.store
  <2>1. s \in Active /\ s \in Store /\ row \in legacy
    BY LegacyAssumption DEF TypeOK, Row, Store
  <2>2. \A t \in Active : t \notin files' => disk'[t] = {}
    BY <1>1, <1>9, <2>1 DEF MigrateRow
  <2>3. ASSUME phase' = "migrating", NEW t \in Active, NEW r \in items'[t]
        PROVE  \E x \in legacy' \ todo' : x.rec.id = r.id
    <3>1. todo' = todo \ {row} /\ legacy' = legacy /\ phase = "migrating"
      BY <1>9, <2>3 DEF MigrateRow
    <3>2. r = row.rec \/ r \in items[t]
      BY <1>9, <2>1, <2>3 DEF MigrateRow, TypeOK, Store
    <3> QED
      BY <2>1, <3>1, <3>2 DEF MigrationInv
  <2> QED
    BY <2>2, <2>3 DEF MigrationInv
<1>10. CASE UNCHANGED vars
  BY <1>10 DEF vars, MigrationInv
<1> QED
  BY <1>2, <1>3, <1>4, <1>5, <1>6, <1>7, <1>8, <1>9, <1>10, NextSteps DEF Steps

---------------------------------------------------------------------------
(* Acknowledged records *)

LEMMA AckedStep == TypeOK /\ AckedInv /\ [Next]_vars => AckedInv'
<1> SUFFICES ASSUME TypeOK, AckedInv, [Next]_vars PROVE AckedInv'
  OBVIOUS
<1>1. ASSUME NEW s \in Store, NEW k \in Key, NEW c \in Content, DrawId(s, k, c)
      PROVE AckedInv'
  BY <1>1 DEF DrawId, AckedInv, AckedDurable, boot
<1>2. ASSUME NEW p \in inserting, NEW ok \in BOOLEAN, Push(p, ok) PROVE AckedInv'
  <2>1. p.store \in Store
    BY DEF TypeOK
  <2>2. \A s \in Store : \A a \in acked'[s] : \E r \in items'[s] : Named(r) = a
    BY <1>2, <2>1 DEF Push, AckedInv, TypeOK
  <2>3. \A s \in Store : \A a \in acked'[s] : \E r \in disk'[s] : Named(r) = a
    <3>1. CASE ok
      BY <1>2, <2>1, <2>2, <3>1 DEF Push, Flush, AckedInv, AckedDurable, TypeOK
    <3>2. CASE ~ok
      BY <1>2, <3>2 DEF Push, Flush, AckedInv, AckedDurable
    <3> QED
      BY <3>1, <3>2
  <2> QED
    BY <2>2, <2>3 DEF AckedInv, AckedDurable
<1>3. ASSUME NEW s \in Active, NEW r \in items[s], Look(s, r) PROVE AckedInv'
  BY <1>3 DEF Look, AckedInv, AckedDurable, boot
<1>4. CASE RemovalStep
  <2>1. CASE UNCHANGED <<items, files, disk, acked, dirty>>
    BY <1>4, <2>1 DEF RemovalStep, AckedInv, AckedDurable
  <2>2. ASSUME NEW s \in Store, NEW ok \in BOOLEAN,
               NEW recs \in SUBSET items[s], Drop(s, recs, ok)
        PROVE AckedInv'
    <3>1. \A t \in Store : \A a \in acked'[t] : \E r \in items'[t] : Named(r) = a
      BY <1>4, <2>2 DEF RemovalStep, Drop, AckedInv, TypeOK
    <3>2. \A t \in Store : acked'[t] \subseteq acked[t]
      BY <2>2 DEF Drop, TypeOK
    <3>3. \A t \in Store : disk'[t] = disk[t] \/ disk'[t] = items'[t]
      BY <2>2 DEF Drop, Flush, TypeOK
    <3> QED
      BY <3>1, <3>2, <3>3 DEF AckedInv, AckedDurable
  <2> QED
    BY <1>4, <2>1, <2>2 DEF RemovalStep, Removal
<1>5. ASSUME NEW s \in Active, NEW c \in Content, NEW ok \in BOOLEAN,
             NEW r \in items[s], Update(s, r, c, ok)
      PROVE AckedInv'
  <2>1. s \in Store /\ Named([r EXCEPT !.content = c]) = Named(r)
    BY DEF Store, TypeOK, Rec, Named
  <2>2. items' = [items EXCEPT ![s] = (@ \ {r}) \cup {[r EXCEPT !.content = c]}]
    BY <1>5 DEF Update
  <2>3. \A t \in Store : \A x \in items[t] : \E y \in items'[t] : Named(y) = Named(x)
    BY <2>1, <2>2 DEF TypeOK
  <2>4. \A t \in Store : disk'[t] = disk[t] \/ disk'[t] = items'[t]
    BY <1>5, <2>1 DEF Update, Flush, TypeOK
  <2>5. phase = "up" /\ phase' = "up" /\ acked' = acked
    BY <1>5 DEF Update, boot
  <2> QED
    BY <2>3, <2>4, <2>5 DEF AckedInv, AckedDurable
<1>6. CASE Crash
  BY <1>6 DEF Crash, AckedInv, AckedDurable
<1>7. ASSUME NEW next \in Counters, NEW readable \in BOOLEAN, Boot(next, readable)
      PROVE AckedInv'
  BY <1>7 DEF Boot, AckedInv, AckedDurable
<1>8. ASSUME NEW row \in todo, NEW ok \in BOOLEAN, MigrateRow(row, ok)
      PROVE AckedInv'
  <2>1. row.store \in Store
    BY LegacyAssumption DEF TypeOK, Row, Store
  <2>2. \A s \in Store : \A a \in acked'[s] : \E r \in items'[s] : Named(r) = a
    BY <1>8, <2>1 DEF MigrateRow, AckedInv, TypeOK
  <2>3. \A s \in Store : \A a \in acked'[s] : \E r \in disk'[s] : Named(r) = a
    <3>1. CASE ok
      BY <1>8, <2>1, <2>2, <3>1 DEF MigrateRow, Flush, AckedInv, AckedDurable, TypeOK
    <3>2. CASE ~ok
      BY <1>8, <3>2 DEF MigrateRow, Flush, AckedInv, AckedDurable
    <3> QED
      BY <3>1, <3>2
  <2> QED
    BY <2>2, <2>3 DEF AckedInv, AckedDurable
<1>9. CASE UNCHANGED vars
  BY <1>9 DEF vars, AckedInv, AckedDurable
<1> QED
  BY <1>1, <1>2, <1>3, <1>4, <1>5, <1>6, <1>7, <1>8, <1>9, NextSteps DEF Steps
---------------------------------------------------------------------------
(* Memory and file *)

LEMMA HealsStep == TypeOK /\ HealsInv /\ [Next]_vars => HealsInv'
<1> SUFFICES ASSUME TypeOK, HealsInv, [Next]_vars PROVE HealsInv'
  OBVIOUS
\* Whatever changes one store and flushes it keeps the others as they were.
<1>0. ASSUME NEW s \in Store, NEW ok \in BOOLEAN, phase # "down", phase' # "down",
             \A t \in Store : t # s => items'[t] = items[t],
             Flush(s, items'[s], ok)
      PROVE HealsInv'
  <2>1. CASE ok
    <3>1. disk' = [disk EXCEPT ![s] = items'[s]] /\ dirty' = dirty \ {s}
      BY <1>0, <2>1 DEF Flush
    <3> QED
      BY <1>0, <3>1 DEF HealsInv, TypeOK
  <2>2. CASE ~ok
    BY <1>0, <2>2 DEF Flush, HealsInv
  <2> QED
    BY <2>1, <2>2
<1>1. ASSUME NEW s \in Store, NEW k \in Key, NEW c \in Content, DrawId(s, k, c)
      PROVE HealsInv'
  BY <1>1 DEF DrawId, HealsInv, boot
<1>2. ASSUME NEW p \in inserting, NEW ok \in BOOLEAN, Push(p, ok) PROVE HealsInv'
  <2>1. p.store \in Store /\ phase # "down" /\ phase' # "down"
    BY <1>2 DEF Push, TypeOK, boot
  <2>2. \A t \in Store : t # p.store => items'[t] = items[t]
    BY <1>2 DEF Push, TypeOK
  <2> QED
    BY <1>0, <1>2, <2>1, <2>2 DEF Push
<1>3. ASSUME NEW s \in Active, NEW r \in items[s], Look(s, r) PROVE HealsInv'
  BY <1>3 DEF Look, HealsInv, boot
<1>4. CASE RemovalStep
  <2>1. CASE UNCHANGED <<items, files, disk, acked, dirty>>
    BY <1>4, <2>1 DEF RemovalStep, HealsInv
  <2>2. ASSUME NEW s \in Store, NEW ok \in BOOLEAN,
               NEW recs \in SUBSET items[s], Drop(s, recs, ok)
        PROVE HealsInv'
    <3>1. \A t \in Store : t # s => items'[t] = items[t]
      BY <2>2 DEF Drop, TypeOK
    <3> QED
      BY <1>0, <1>4, <2>2, <3>1 DEF RemovalStep, Drop
  <2> QED
    BY <1>4, <2>1, <2>2 DEF RemovalStep, Removal
<1>5. ASSUME NEW s \in Active, NEW c \in Content, NEW ok \in BOOLEAN,
             NEW r \in items[s], Update(s, r, c, ok)
      PROVE HealsInv'
  <2>1. s \in Store /\ phase # "down" /\ phase' # "down"
    BY <1>5 DEF Update, Store, boot
  <2>2. \A t \in Store : t # s => items'[t] = items[t]
    BY <1>5 DEF Update, TypeOK
  <2> QED
    BY <1>0, <1>5, <2>1, <2>2 DEF Update
<1>6. CASE Crash
  BY <1>6 DEF Crash, HealsInv
<1>7. ASSUME NEW next \in Counters, NEW readable \in BOOLEAN, Boot(next, readable)
      PROVE HealsInv'
  BY <1>7 DEF Boot, HealsInv
<1>8. ASSUME NEW row \in todo, NEW ok \in BOOLEAN, MigrateRow(row, ok)
      PROVE HealsInv'
  <2>1. row.store \in Store /\ phase # "down" /\ phase' # "down"
    BY <1>8, LegacyAssumption DEF MigrateRow, TypeOK, Row, Store
  <2>2. \A t \in Store : t # row.store => items'[t] = items[t]
    BY <1>8 DEF MigrateRow, TypeOK
  <2> QED
    BY <1>0, <1>8, <2>1, <2>2 DEF MigrateRow
<1>9. CASE UNCHANGED vars
  BY <1>9 DEF vars, HealsInv
<1> QED
  BY <1>1, <1>2, <1>3, <1>4, <1>5, <1>6, <1>7, <1>8, <1>9, NextSteps DEF Steps

---------------------------------------------------------------------------
(* Ids a caller holds *)

LEMMA FreshStep == TypeOK /\ IdsInv /\ FreshInv /\ [Next]_vars => FreshInv'
<1> SUFFICES ASSUME TypeOK, IdsInv, FreshInv, [Next]_vars,
                    handle' # NoHandle, handle'.fresh
             PROVE  FreshInv'
  BY DEF FreshInv
\* A step that leaves the handle and the counters alone and gives no record
\* of its store a new key under an old id.
<1>0. ASSUME handle' = handle, phase' = phase, nextId' = nextId,
             \A r \in items'[handle.store] :
                \/ \E x \in items[handle.store] : x.id = r.id /\ x.key = r.key
                \/ \E q \in inserting : q.store = handle.store /\ q.rec = r,
             inserting' \subseteq inserting
      PROVE FreshInv'
  BY <1>0 DEF FreshInv, FreshIdsStable
<1>1. ASSUME NEW s \in Store, NEW k \in Key, NEW c \in Content, DrawId(s, k, c)
      PROVE FreshInv'
  <2> DEFINE p == [store |-> s, rec |-> [id |-> nextId[s], key |-> k, content |-> c]]
  <2>1. /\ handle' = handle /\ phase' = "up" /\ items' = items
        /\ inserting' = inserting \cup {p}
        /\ nextId' = [nextId EXCEPT ![s] = @ + 1]
    BY <1>1 DEF DrawId, boot
  <2>2. /\ handle.store \in Store /\ handle.rec.id \in Nat
        /\ handle.rec.id < nextId[handle.store]
    BY <2>1 DEF FreshInv, TypeOK, Store, Rec, Id
  <2>3. handle'.rec.id < nextId'[handle'.store]
    BY <2>1, <2>2 DEF TypeOK, Id
  <2>4. p.store = handle.store => p.rec.id # handle.rec.id
    BY <2>2 DEF TypeOK, Id
  <2>5. FreshIdsStable'
    BY <2>1, <2>4 DEF FreshInv, FreshIdsStable
  <2> QED
    BY <2>1, <2>3, <2>5 DEF FreshInv
<1>2. ASSUME NEW p \in inserting, NEW ok \in BOOLEAN, Push(p, ok) PROVE FreshInv'
  <2>1. /\ handle' = handle /\ phase' = phase /\ nextId' = nextId
        /\ inserting' \subseteq inserting
        /\ items' = [items EXCEPT ![p.store] = @ \cup {p.rec}]
    BY <1>2 DEF Push, boot
  <2>2. handle.store \in Store
    BY <2>1 DEF TypeOK, Store
  <2>3. \A r \in items'[handle.store] :
           r \in items[handle.store] \/ (p.store = handle.store /\ r = p.rec)
    BY <2>1, <2>2 DEF TypeOK
  <2> QED
    BY <1>0, <2>1, <2>3
<1>3. ASSUME NEW s \in Active, NEW r \in items[s], Look(s, r) PROVE FreshInv'
  <2>1. /\ handle' = [store |-> s, rec |-> r, fresh |-> TRUE] /\ s \in Store
        /\ UNCHANGED <<phase, items, nextId, inserting>> /\ phase = "up"
    BY <1>3 DEF Look, Store, boot
  <2> QED
    BY <2>1 DEF IdsInv, UniqueIds, FreshInv, FreshIdsStable
<1>4. CASE RemovalStep
  <2>1. \A s \in Store : items'[s] \subseteq items[s]
    BY <1>4 DEF RemovalStep, Removal, Drop, TypeOK
  <2>2. handle' = handle /\ handle.store \in Store
    BY <1>4 DEF RemovalStep, TypeOK, Store
  <2> QED
    BY <1>0, <1>4, <2>1, <2>2 DEF RemovalStep
<1>5. ASSUME NEW s \in Active, NEW c \in Content, NEW ok \in BOOLEAN,
             NEW r \in items[s], Update(s, r, c, ok)
      PROVE FreshInv'
  <2> DEFINE n == [r EXCEPT !.content = c]
  <2>1. s \in Store /\ n.id = r.id /\ n.key = r.key
    BY DEF Store, TypeOK, Rec
  <2>2. /\ UNCHANGED <<handle, phase, nextId, inserting>>
        /\ items' = [items EXCEPT ![s] = (@ \ {r}) \cup {n}]
    BY <1>5 DEF Update, boot
  <2>3. handle.store \in Store
    BY <2>2 DEF TypeOK, Store
  <2>4. \A x \in items'[handle.store] :
           x \in items[handle.store] \/ (s = handle.store /\ x = n)
    BY <2>1, <2>2, <2>3 DEF TypeOK
  <2> HIDE DEF n
  <2>5. \A x \in items'[handle.store] :
           \E y \in items[handle.store] : y.id = x.id /\ y.key = x.key
    BY <2>1, <2>4
  <2> QED
    BY <1>0, <2>2, <2>5
<1>6. CASE Crash
  BY <1>6 DEF Crash, TypeOK
<1>7. ASSUME NEW next \in Counters, NEW readable \in BOOLEAN, Boot(next, readable)
      PROVE FreshInv'
  BY <1>7 DEF Boot, FreshInv
<1>8. ASSUME NEW row \in todo, NEW ok \in BOOLEAN, MigrateRow(row, ok)
      PROVE FreshInv'
  BY <1>8 DEF MigrateRow, FreshInv
<1>9. CASE UNCHANGED vars
  BY <1>9 DEF vars, FreshInv, FreshIdsStable
<1> QED
  BY <1>1, <1>2, <1>3, <1>4, <1>5, <1>6, <1>7, <1>8, <1>9, NextSteps DEF Steps

---------------------------------------------------------------------------
(* The theorems *)

LEMMA InitInv == Init => IInv
<1> SUFFICES ASSUME Init PROVE IInv
  OBVIOUS
<1>1. TypeOK
  BY InitType
<1>2. IdsInv
  BY DEF Init, IdsInv, UniqueIds
<1>3. MigrationInv
  BY DEF Init, MigrationInv, Store
<1>4. AckedInv /\ HealsInv /\ FreshInv
  BY DEF Init, AckedInv, AckedDurable, HealsInv, FreshInv
<1> QED
  BY <1>1, <1>2, <1>3, <1>4 DEF IInv

LEMMA StepInv == IInv /\ [Next]_vars => IInv'
  BY TypeStep, IdsStep, MigrationStep, AckedStep, HealsStep, FreshStep DEF IInv

\* The strengthened invariant holds throughout.
THEOREM Invariance == Spec => []IInv
  BY InitInv, StepInv, PTL DEF Spec

\* No two records of a store ever share an id.
THEOREM IdsAreUnique == Spec => []UniqueIds
<1>1. IInv => UniqueIds
  BY DEF IInv, IdsInv
<1> QED
  BY <1>1, Invariance, PTL

\* What insert() acknowledged is in the file until it is removed.
THEOREM AcknowledgedIsDurable == Spec => []AckedDurable
<1>1. IInv => AckedDurable
  BY DEF IInv, AckedInv
<1> QED
  BY <1>1, Invariance, PTL

\* One successful flush makes the file equal to the vector again.
THEOREM FilesFollowMemory == Spec => []FlushHeals
<1>1. IInv => FlushHeals
  BY DEF IInv, HealsInv, FlushHeals
<1> QED
  BY <1>1, Invariance, PTL

\* Within one run of the server an id never comes to name another download.
THEOREM IdsStableWithinRun == Spec => []FreshIdsStable
<1>1. IInv => FreshIdsStable
  BY DEF IInv, FreshInv, FreshIdsStable
<1> QED
  BY <1>1, Invariance, PTL

---------------------------------------------------------------------------
(* Removals by id *)

\* What a removal by the id of a record read in this run takes, with any number of
\* content stores: one with that id, from the first store that holds the id; and if
\* that is the store the caller has read, the download it has read.
NamesakeRemoval ==
  (handle # NoHandle /\ handle' = NoHandle /\ handle.fresh) =>
    \A s \in Active : \A r \in items[s] \ items'[s] :
      /\ r.id = handle.rec.id /\ FirstWith(s, r.id)
      /\ s = handle.store => Named(r) = Named(handle.rec)

\* What RemovalHitsTarget says of one step.
ExactRemoval ==
  (handle # NoHandle /\ handle' = NoHandle /\ handle.fresh) =>
    \A s \in Active : \A r \in items[s] \ items'[s] :
      s = handle.store /\ Named(r) = Named(handle.rec)

LEMMA RemovalTakesNamesake == ASSUME IInv, [Next]_vars PROVE NamesakeRemoval
<1> DEFINE Taken(s, r) == /\ r.id = handle.rec.id /\ FirstWith(s, r.id)
                          /\ s = handle.store => Named(r) = Named(handle.rec)
<1> SUFFICES ASSUME handle # NoHandle, handle' = NoHandle, handle.fresh,
                    NEW s \in Active, NEW r \in items[s], r \notin items'[s]
             PROVE  Taken(s, r)
  BY DEF NamesakeRemoval
<1>0. TypeOK
  BY DEF IInv
<1>1. handle \in [store : Active, rec : Rec, fresh : BOOLEAN]
  BY <1>0 DEF TypeOK
<1>3. ASSUME NEW ok \in FlushOutcome, RemoveById(ok) PROVE Taken(s, r)
  <2>1. items' # items
    OBVIOUS
  <2>2. PICK t \in Active : /\ FirstWith(t, handle.rec.id)
                            /\ \E x \in items[t] : x.id = handle.rec.id /\ Drop(t, {x}, ok)
    BY <1>3, <2>1 DEF RemoveById
  <2>3. PICK x \in items[t] : x.id = handle.rec.id /\ Drop(t, {x}, ok)
    BY <2>2
  <2>4. t = s /\ r = x
    BY <2>3, <1>0 DEF Drop, TypeOK, Store
  <2>5. s = handle.store => r.key = handle.rec.key
    BY <2>3, <2>4 DEF IInv, FreshInv, FreshIdsStable
  <2> QED
    BY <2>2, <2>3, <2>4, <2>5 DEF Named
<1>4. ASSUME NEW p \in inserting, NEW ok \in FlushOutcome, Push(p, ok) PROVE FALSE
  BY <1>4 DEF Push
<1>5. ASSUME NEW k \in Key, NEW ok \in FlushOutcome, RemoveByDownloadId(k, ok)
      PROVE FALSE
  BY <1>5 DEF RemoveByDownloadId
<1>6. ASSUME NEW t \in Active, NEW c \in Content, NEW ok \in FlushOutcome,
             NEW x \in items[t], Update(t, x, c, ok)
      PROVE FALSE
  BY <1>6 DEF Update
<1>7. ASSUME NEW ok \in FlushOutcome, ClearSuppressed(ok) PROVE FALSE
  BY <1>7 DEF ClearSuppressed
<1>8. CASE Crash
  <2>1. handle' = [handle EXCEPT !.fresh = FALSE]
    BY <1>8 DEF Crash
  <2>2. "fresh" \in DOMAIN handle' /\ "fresh" \notin DOMAIN NoHandle
    BY <1>1, <2>1 DEF NoHandle
  <2> QED
    BY <2>2
<1>9. ASSUME NEW next \in Counters, NEW readable \in FlushOutcome,
             Boot(next, readable)
      PROVE FALSE
  BY <1>9 DEF Boot
<1>10. ASSUME NEW row \in todo, NEW ok \in FlushOutcome, MigrateRow(row, ok)
       PROVE FALSE
  BY <1>10 DEF MigrateRow
<1>11. ASSUME NEW t \in Store, NEW k \in Key, NEW c \in Content, DrawId(t, k, c)
       PROVE FALSE
  BY <1>11 DEF DrawId
<1>12. ASSUME NEW t \in Active, NEW x \in items[t], Look(t, x) PROVE FALSE
  BY <1>12 DEF Look
<1>13. CASE UNCHANGED vars
  BY <1>13 DEF vars
<1> QED
  BY <1>3, <1>4, <1>5, <1>6, <1>7, <1>8, <1>9, <1>10, <1>11, <1>12, <1>13
     DEF Next

\* However many content stores there are, a removal by id takes a record with that id
\* and no other, from the first store that holds the id; from the caller's store only
\* the download that the caller has read.
THEOREM RemovalIsOfNamesake == Spec => [][NamesakeRemoval]_vars
<1>1. IInv /\ [Next]_vars => [NamesakeRemoval]_vars
  BY RemovalTakesNamesake
<1> QED
  BY <1>1, Invariance, PTL DEF Spec

LEMMA RemovalStepIsExact ==
  ASSUME Len(SearchOrder) = 1, IInv, [Next]_vars
  PROVE  ExactRemoval
<1> SUFFICES ASSUME handle # NoHandle, handle' = NoHandle, handle.fresh,
                    NEW s \in Active, NEW r \in items[s], r \notin items'[s]
             PROVE  s = handle.store /\ Named(r) = Named(handle.rec)
  BY DEF ExactRemoval
<1>1. Active = {SearchOrder[1]}
  BY StoresAssumption DEF Active
<1>2. handle.store \in Active
  BY DEF IInv, TypeOK
<1> QED
  BY <1>1, <1>2, RemovalTakesNamesake DEF NamesakeRemoval

\* With one content store, removing a record by the id read in this run of the
\* server removes that record and no other.  The assumption is needed: with two
\* stores TLC shows the wrong record going.
THEOREM RemovalIsExact ==
  ASSUME Len(SearchOrder) = 1
  PROVE  Spec => RemovalHitsTarget
<1>1. IInv /\ [Next]_vars => [ExactRemoval]_vars
  BY RemovalStepIsExact
<1>2. [][ExactRemoval]_vars => RemovalHitsTarget
  BY PTL DEF RemovalHitsTarget, ExactRemoval
<1> QED
  BY <1>1, <1>2, Invariance, PTL DEF Spec
---------------------------------------------------------------------------
(* The stores keep records *)

LEMMA SpentWhenUp ==
  ASSUME phase = "up", NEW s \in Store
  PROVE  Spent[s] = {n \in 1 .. (nextId[s] - 1) :
                       \A p \in inserting : p.store = s => p.rec.id # n}
  BY DEF Spent

LEMMA SpentWhenNotUp ==
  ASSUME phase # "up", NEW s \in Store PROVE Spent[s] = {r.id : r \in Answers[s]}
  BY DEF Spent

\* The id of a record that is answered with is spent.
AllSpent == \A s \in Store : \A r \in Answers[s] : r.id \in Spent[s]

LEMMA AnswersSpent == IInv => AllSpent
<1> SUFFICES ASSUME IInv, NEW s \in Store, NEW r \in Answers[s] PROVE r.id \in Spent[s]
  BY DEF AllSpent
<1>1. CASE phase = "up"
  <2>1. r \in items[s] /\ r \in Rec /\ nextId[s] \in Id BY <1>1 DEF Answers, IInv, TypeOK
  <2>2. r.id \in Nat \ {0} /\ r.id < nextId[s] /\ nextId[s] \in Nat
    BY <2>1 DEF IInv, IdsInv, Rec, Id
  <2>3. r.id \in 1 .. (nextId[s] - 1) BY <2>2
  <2>4. \A p \in inserting : p.store = s => p.rec.id # r.id BY <2>1 DEF IInv, IdsInv
  <2> QED BY <1>1, <2>3, <2>4, SpentWhenUp
<1>2. CASE phase # "up" BY <1>2, SpentWhenNotUp
<1> QED BY <1>1, <1>2

LEMMA NextAnswersSpent == IInv' => AllSpent'
  BY AnswersSpent, PTL

\* A step that leaves the counters and the waiting inserts alone spends nothing.
LEMMA SameSpent ==
  ASSUME phase = "up", phase' = "up", nextId' = nextId, inserting' = inserting
  PROVE  Spent' = Spent
  BY DEF Spent

\* A change under a store's lock, with the flush that ends it.
LEMMA FlushKeeps ==
  ASSUME TypeOK, NEW s \in Store, NEW recs, NEW ok,
         phase # "down", phase' # "down",
         items' = [items EXCEPT ![s] = recs], Flush(s, items'[s], ok)
  PROVE  Keeper!Keep(s, recs)
<1>1. Answers = items /\ Answers' = items' BY DEF Answers
<1>2. items'[s] = recs BY DEF TypeOK
<1> QED BY <1>1, <1>2 DEF Keeper!Keep, Flush

KeeperStep == [Keeper!Next]_(Keeper!vars)

LEMMA InsertKeeps ==
  ASSUME NEW s \in Store, NEW r, Keeper!Insert(s, r), r \in Answers'[s] PROVE KeeperStep
  BY DEF KeeperStep, Keeper!Next

LEMMA QuietKeeps ==
  ASSUME UNCHANGED <<Answers, disk, dirty>>, \A s \in Store : Spent[s] \subseteq Spent'[s]
  PROVE  KeeperStep
<1>1. Keeper!PassOver BY DEF Keeper!PassOver, Keeper!SpendsMore
<1> QED BY <1>1 DEF KeeperStep, Keeper!Next

LEMMA PushKeeps ==
  ASSUME IInv, NEW p \in inserting, NEW ok \in BOOLEAN, Push(p, ok) PROVE KeeperStep
<1> DEFINE s == p.store
           r == p.rec
<1>1. s \in Store /\ r \in Rec /\ nextId \in [Store -> Id] /\ TypeOK BY DEF IInv, TypeOK
<1>2. phase = "up" /\ phase' = "up" /\ nextId' = nextId BY DEF Push, boot
<1>3. Keeper!Keep(s, Answers[s] \cup {r})
  <2>1. items' = [items EXCEPT ![s] = items[s] \cup {r}] /\ Flush(s, items'[s], ok)
    BY DEF Push
  <2>2. Answers = items BY <1>2 DEF Answers
  <2> QED BY <1>1, <1>2, <2>1, <2>2, FlushKeeps
<1>4. r.id \notin Spent[s] BY <1>1, <1>2, SpentWhenUp
<1>5. \A t \in Store : Spent'[t] = {n \in 1 .. (nextId[t] - 1) :
                         \A q \in inserting' : q.store = t => q.rec.id # n}
  BY <1>2 DEF Spent
<1>6. \A t \in Store : Spent[t] \subseteq Spent'[t]
  <2>1. inserting' \subseteq inserting BY DEF Push
  <2> QED BY <1>2, <1>5, <2>1, SpentWhenUp
<1>7. r.id \in Spent'[s]
  <2>1. r.id \in Nat \ {0} /\ r.id < nextId[s] /\ nextId[s] \in Nat
    BY <1>1 DEF IInv, IdsInv, Rec, Id
  <2>2. r.id \in 1 .. (nextId[s] - 1) BY <2>1
  <2>3. \A q \in inserting' : q.store = s => q.rec.id # r.id
    BY DEF Push, IInv, IdsInv
  <2> QED BY <1>1, <1>5, <2>2, <2>3
<1>8. r \in Answers'[s]
  <2>1. items'[s] = items[s] \cup {r} BY <1>1 DEF Push, TypeOK
  <2> QED BY <1>2, <2>1 DEF Answers
<1>9. Keeper!Insert(s, r) BY <1>3, <1>4, <1>6, <1>7 DEF Keeper!Insert, Keeper!SpendsMore
<1> QED BY <1>1, <1>8, <1>9, InsertKeeps

LEMMA MigrateKeeps ==
  ASSUME IInv, IInv', NEW row \in todo, NEW ok \in BOOLEAN, MigrateRow(row, ok)
  PROVE  KeeperStep
<1> DEFINE s == row.store
           r == row.rec
<1>1. s \in Active /\ s \in Store /\ r \in Rec /\ row \in LegacyRow /\ TypeOK
  BY LegacyAssumption DEF IInv, TypeOK, Row, Store
<1>2. phase = "migrating" /\ phase' # "down" BY DEF MigrateRow
<1>3. items' = [items EXCEPT ![s] = items[s] \cup {r}] /\ Flush(s, items'[s], ok)
  BY DEF MigrateRow
<1>4. Answers = items /\ Answers' = items' BY <1>2 DEF Answers
<1>5. Keeper!Keep(s, Answers[s] \cup {r})
  BY <1>1, <1>2, <1>3, <1>4, FlushKeeps
<1>6. r.id \notin Spent[s]
  <2>1. \A x \in items[s] : x.id # r.id
    BY <1>1, <1>2, LegacyAssumption DEF IInv, MigrationInv, TypeOK
  <2> QED BY <1>1, <1>2, <1>4, <2>1, SpentWhenNotUp
<1>7. \A t \in Store : \A x \in Answers'[t] : x.id \in Spent'[t]
  BY NextAnswersSpent DEF AllSpent
<1>8. items'[s] = items[s] \cup {r} /\ \A t \in Store : items[t] \subseteq items'[t]
  BY <1>1, <1>3 DEF TypeOK
<1>9. \A t \in Store : Spent[t] \subseteq Spent'[t]
  BY <1>2, <1>4, <1>7, <1>8, SpentWhenNotUp
<1>10. r \in Answers'[s] /\ r.id \in Spent'[s] BY <1>1, <1>4, <1>7, <1>8
<1>11. Keeper!Insert(s, r)
  BY <1>5, <1>6, <1>9, <1>10 DEF Keeper!Insert, Keeper!SpendsMore
<1> QED BY <1>1, <1>10, <1>11, InsertKeeps

\* The steps that take records out or correct one.
LEMMA ChangeKeeps ==
  ASSUME IInv, NEW s \in Store, NEW recs, NEW ok,
         phase = "up", phase' = "up", UNCHANGED <<nextId, inserting>>,
         items' = [items EXCEPT ![s] = recs], Flush(s, items'[s], ok)
  PROVE  Keeper!Keep(s, recs) /\ Spent' = Spent
<1>1. TypeOK BY DEF IInv
<1>2. Keeper!Keep(s, recs) BY <1>1, FlushKeeps
<1>3. Spent' = Spent BY SameSpent
<1> QED BY <1>2, <1>3

LEMMA RemovalKeeps ==
  ASSUME IInv, NEW ok \in FlushOutcome,
         \/ RemoveById(ok)
         \/ \E k \in Key : RemoveByDownloadId(k, ok)
         \/ ClearSuppressed(ok)
  PROVE  KeeperStep
<1>1. phase = "up" /\ phase' = "up" /\ UNCHANGED <<nextId, inserting>>
  BY DEF RemoveById, RemoveByDownloadId, ClearSuppressed, boot
<1>2. Answers = items BY <1>1 DEF Answers
<1>3. ASSUME NEW s \in Active, NEW r \in items[s], Drop(s, {r}, ok) PROVE KeeperStep
  <2>1. s \in Store BY DEF Store
  <2>2. items' = [items EXCEPT ![s] = items[s] \ {r}] /\ Flush(s, items'[s], ok)
    BY <1>3 DEF Drop
  <2>3. Keeper!Keep(s, items[s] \ {r}) /\ Spent' = Spent
    BY <1>1, <2>1, <2>2, ChangeKeeps
  <2>4. Keeper!Remove(s, r) BY <1>2, <2>3 DEF Keeper!Remove
  <2> QED BY <1>2, <2>1, <2>4 DEF KeeperStep, Keeper!Next
<1>4. CASE ClearSuppressed(ok)
  <2>1. Suppressed \in Store BY DEF Store
  <2>2. /\ items' = [items EXCEPT ![Suppressed] = items[Suppressed] \ items[Suppressed]]
        /\ Flush(Suppressed, items'[Suppressed], ok)
    BY <1>4 DEF ClearSuppressed, Drop
  <2>3. items[Suppressed] \ items[Suppressed] = {} OBVIOUS
  <2>4. Keeper!Keep(Suppressed, {}) /\ Spent' = Spent
    BY <1>1, <2>1, <2>2, <2>3, ChangeKeeps
  <2>5. Keeper!Clear(Suppressed) BY <2>4 DEF Keeper!Clear
  <2> QED BY <2>1, <2>5 DEF KeeperStep, Keeper!Next
<1>5. CASE UNCHANGED <<items, files, disk, acked, dirty>>
  <2>1. Answers' = Answers BY <1>1, <1>5 DEF Answers
  <2>2. Spent' = Spent BY <1>1, SameSpent
  <2> QED BY <1>5, <2>1, <2>2, QuietKeeps
<1>6. CASE RemoveById(ok) BY <1>3, <1>5, <1>6 DEF RemoveById
<1>7. ASSUME NEW k \in Key, RemoveByDownloadId(k, ok) PROVE KeeperStep
  <2>1. PICK s \in Active : \E r \in items[s] : Drop(s, {r}, ok)
    BY <1>7 DEF RemoveByDownloadId, Active
  <2> QED BY <1>3, <2>1
<1> QED BY <1>4, <1>6, <1>7

LEMMA UpdateKeeps ==
  ASSUME IInv, NEW s \in Active, NEW c \in Content, NEW ok, NEW r \in items[s],
         Update(s, r, c, ok)
  PROVE  KeeperStep
<1>1. /\ phase = "up" /\ phase' = "up" /\ UNCHANGED <<nextId, inserting>> /\ s \in Store
  BY DEF Update, boot, Store
<1> DEFINE recs == (items[s] \ {r}) \cup {[r EXCEPT !.content = c]}
<1>2. items' = [items EXCEPT ![s] = recs] /\ Flush(s, items'[s], ok) BY DEF Update
<1>3. Keeper!Keep(s, recs) /\ Spent' = Spent BY <1>1, <1>2, ChangeKeeps
<1>4. Answers = items BY <1>1 DEF Answers
<1>5. Keeper!Correct(s, r, c) BY <1>3, <1>4 DEF Keeper!Correct
<1> QED BY <1>1, <1>4, <1>5 DEF KeeperStep, Keeper!Next

LEMMA StepKeeps == ASSUME IInv, IInv', [Next]_vars PROVE KeeperStep
<1>1. ASSUME NEW s \in Store, NEW k \in Key, NEW c \in Content, DrawId(s, k, c)
      PROVE  KeeperStep
  <2> DEFINE p == [store |-> s, rec |-> [id |-> nextId[s], key |-> k, content |-> c]]
  <2>1. /\ phase = "up" /\ phase' = "up" /\ UNCHANGED <<items, disk, dirty>>
        /\ inserting' = inserting \cup {p}
        /\ nextId' = [nextId EXCEPT ![s] = @ + 1]
    BY <1>1 DEF DrawId, boot
  <2>2. nextId \in [Store -> Nat] BY DEF IInv, TypeOK, Id
  <2>3. Answers' = Answers BY <2>1 DEF Answers
  <2>4. ASSUME NEW t \in Store, NEW n \in Spent[t] PROVE n \in Spent'[t]
    <3>1. /\ n \in 1 .. (nextId[t] - 1)
          /\ \A q \in inserting : q.store = t => q.rec.id # n
      BY <2>1, <2>4, SpentWhenUp
    <3>2. n \in 1 .. (nextId'[t] - 1) BY <2>1, <2>2, <3>1
    <3>3. p.store = t => p.rec.id # n BY <2>2, <3>1
    <3>4. \A q \in inserting' : q.store = t => q.rec.id # n BY <2>1, <3>1, <3>3
    <3> QED BY <2>1, <3>2, <3>4 DEF Spent
  <2> QED BY <2>1, <2>3, <2>4, QuietKeeps
<1>2. ASSUME NEW p \in inserting, NEW ok \in FlushOutcome, Push(p, ok) PROVE KeeperStep
  BY <1>2, PushKeeps DEF FlushOutcome
<1>3. ASSUME NEW s \in Active, NEW r \in items[s], Look(s, r) PROVE KeeperStep
  <2>1. UNCHANGED <<phase, nextId, inserting, items, disk, dirty>> /\ phase = "up"
    BY <1>3 DEF Look, boot
  <2>2. Spent' = Spent /\ Answers' = Answers BY <2>1, SameSpent DEF Answers
  <2> QED BY <2>1, <2>2, QuietKeeps
<1>4. ASSUME NEW ok \in FlushOutcome,
             \/ RemoveById(ok)
             \/ \E k \in Key : RemoveByDownloadId(k, ok)
             \/ ClearSuppressed(ok)
      PROVE  KeeperStep
  BY <1>4, RemovalKeeps
<1>5. ASSUME NEW s \in Active, NEW c \in Content, NEW ok \in FlushOutcome,
             NEW r \in items[s], Update(s, r, c, ok)
      PROVE  KeeperStep
  BY <1>5, UpdateKeeps
<1>6. CASE Crash
  <2>1. phase' = "down" /\ disk' = disk /\ dirty' = {} BY <1>6 DEF Crash
  <2>2. Answers' = disk BY <2>1 DEF Answers
  <2>3. \A s \in Store : \A r \in disk[s] : r.id \in Spent'[s]
    BY <2>2, NextAnswersSpent DEF AllSpent
  <2>4. Keeper!Restart BY <2>1, <2>2, <2>3 DEF Keeper!Restart
  <2> QED BY <2>4 DEF KeeperStep, Keeper!Next
<1>7. ASSUME NEW next \in Counters, NEW readable \in FlushOutcome, Boot(next, readable)
      PROVE  KeeperStep
  <2>1. phase = "down" /\ items' = disk /\ UNCHANGED <<disk, dirty>> /\ phase' # "down"
    BY <1>7 DEF Boot
  <2>2. Answers = disk /\ Answers' = disk BY <2>1 DEF Answers
  <2>3. \A s \in Store : \A r \in Answers'[s] : r.id \in Spent'[s]
    BY NextAnswersSpent DEF AllSpent
  <2>4. \A s \in Store : Spent[s] \subseteq Spent'[s] BY <2>1, <2>2, <2>3, SpentWhenNotUp
  <2> QED BY <2>1, <2>2, <2>4, QuietKeeps
<1>8. ASSUME NEW row \in todo, NEW ok \in FlushOutcome, MigrateRow(row, ok)
      PROVE  KeeperStep
  BY <1>8, MigrateKeeps DEF FlushOutcome
<1>9. CASE UNCHANGED vars
  <2>1. UNCHANGED <<Answers, disk, Spent, dirty>> BY <1>9 DEF vars, Answers, Spent
  <2> QED BY <2>1 DEF KeeperStep, Keeper!vars
<1> QED
  BY <1>1, <1>2, <1>3, <1>4, <1>5, <1>6, <1>7, <1>8, <1>9 DEF Next

LEMMA InitKeeps == Init => Keeper!Init
<1> SUFFICES ASSUME Init PROVE Keeper!Init OBVIOUS
<1>1. Answers = [s \in Store |-> {}] BY DEF Init, Answers
<1>2. Spent = [s \in Store |-> {}] BY <1>1 DEF Init, Spent
<1> QED BY <1>1, <1>2 DEF Init, Keeper!Init

\* The stores implement the record keeper: each of their steps changes one record or
\* clears a list, restarts, passes ids over or changes nothing that a caller can see.
THEOREM StoresKeepRecords == Spec => KeepsRecords
<1>1. IInv /\ IInv' /\ [Next]_vars => [Keeper!Next]_(Keeper!vars)
  BY StepKeeps DEF KeeperStep
<1> QED BY <1>1, InitKeeps, Invariance, PTL DEF Spec, KeepsRecords, Keeper!Spec

===========================================================================
