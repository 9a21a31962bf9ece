------------------------- MODULE SeriesRefresh_proofs -------------------------
(***************************************************************************)
(* What holds of SeriesRefresh for every metadata, every ordering and any  *)
(* number of overlapping refreshes: its types, and that the transaction of *)
(* a remap never breaks the index on the positions and gives back every    *)
(* position that it parked.                                                *)
(*                                                                         *)
(* A row is at a season and a number, or parked where only its own id can  *)
(* park it (Fits).  While a remap holds the locks, the rows it has not     *)
(* come to are parked and those it has placed are at claimed positions     *)
(* (Drafted), and a row is only placed where nothing is claimed; so two    *)
(* rows never meet, whatever was read before the transaction.              *)
(*                                                                         *)
(* Files stay with their episodes and a sync leaves no episode out while   *)
(* nothing takes the aired position of an episode that is to come: that is *)
(* so of metadata that names its episodes and has new ones in seasons no   *)
(* ordering reaches, and the last part proves it.                          *)
(***************************************************************************)
EXTENDS SeriesRefresh, FiniteSetTheorems, TLAPS

Pcs == {"idle", "fetch", "preload", "sync", "order", "plan", "begin", "restore", "rate", "write"}
RowIds == {D \in SUBSET (Nat \ {0}) : IsFiniteSet(D)}
Tables == UNION {[D -> Row] : D \in RowIds}
Targets == UNION {[D -> Position] : D \in SUBSET (Nat \ {0})}
Tasks == [pc : Pcs, remaps : BOOLEAN, ordering : Ordering, listing : Seq(Episode),
          seen : Tables, target : Targets, plan : SUBSET Nat, left : SUBSET Nat, off : Nat,
          claimed : SUBSET Place, draft : Tables]

\* A season and a number, or where the row with id i is parked.
Fits(i, at) == at \in Position \/ (at \in Place /\ at[1] = -(1000 + i))
Parked(t) == \A i \in DOMAIN t : Fits(i, t[i].at)

\* What a remap has made of its rows so far.
Drafted(t, ids) ==
  /\ DOMAIN t.draft = ids
  /\ \A i \in ids : IF i \in t.left \/ i \notin DOMAIN t.seen
                      THEN t.draft[i].at = Sentinel(i) ELSE t.draft[i].at \in t.claimed
  /\ Distinct(t.draft)
  /\ \A i \in DOMAIN t.seen \ t.left :
       t.seen[i].at \in Position => t.draft[i].at \in Position

\* What is known of a refresh while the table has the rows ids.
Good(t, ids) ==
  /\ t \in Tasks
  /\ t.plan \subseteq DOMAIN t.seen /\ t.left \subseteq DOMAIN t.seen
  /\ DOMAIN t.seen \subseteq ids
  /\ Parked(t.seen) /\ Parked(t.draft)
  /\ t.pc \in {"fetch", "preload", "sync"} => t.plan = {} /\ t.left = {}
  /\ t.pc = "order" => t.ordering # "aired"
  /\ t.pc \in {"begin", "restore"} => \A i \in t.plan : t.seen[i].tvdb \in DOMAIN t.target
  /\ IF t.pc = "restore" THEN Drafted(t, ids) ELSE t.draft = <<>>

Shared ==
  /\ version \in DOMAIN Listing /\ ordering \in Ordering
  /\ rows \in Tables /\ Parked(rows)
  /\ holder \in Refresher \cup {NoOne}
  /\ \/ import = NoImport
     \/ /\ import.row \in DOMAIN rows /\ import.was \in Row
        /\ import.file \in Episode /\ Fits(import.row, import.was.at)
  /\ runs \in 0 .. MaxRuns /\ edits \in 0 .. MaxEdits
Refreshes ==
  /\ refresh = [c \in Refresher |-> refresh[c]]
  /\ \A c \in Refresher : /\ Good(refresh[c], DOMAIN rows)
                          /\ refresh[c].pc = "restore" => holder = c
IInv == Shared /\ Refreshes

---------------------------------------------------------------------------
(* Constants and tables *)

LEMMA ConstantFacts ==
  /\ \A e \in Episode : Tvdb[e] \in Nat /\ Aired[e] \in Position
  /\ \A v \in DOMAIN Listing : Listing[v] \in Seq(Episode)
  /\ 1 \in DOMAIN Listing /\ DOMAIN Listing = 1 .. Len(Listing) /\ Len(Listing) \in Nat
  /\ "aired" \in Ordering
  /\ \A o \in Ordering \ {"aired"} : /\ DOMAIN Target[o] \subseteq Nat \ {0}
                                     /\ Target[o] \in [DOMAIN Target[o] -> Position]
  /\ NoOne \notin Refresher
  /\ MaxRuns \in Nat /\ MaxEdits \in Nat
<1>1. Listing \in Seq(Seq(Episode)) /\ Len(Listing) > 0 BY RefreshAssumption
<1>2. Len(Listing) \in Nat /\ DOMAIN Listing = 1 .. Len(Listing) BY <1>1
<1>3. 1 \in DOMAIN Listing BY <1>1, <1>2
<1>4. \A v \in DOMAIN Listing : Listing[v] \in Seq(Episode) BY <1>1, <1>2
<1> QED BY <1>2, <1>3, <1>4, RefreshAssumption

LEMMA TableFacts == ASSUME NEW t PROVE t \in Tables <=> Table(t)
<1>1. ASSUME t \in Tables PROVE Table(t)
  <2>1. PICK D \in RowIds : t \in [D -> Row] BY <1>1 DEF Tables
  <2>2. DOMAIN t = D BY <2>1
  <2> QED BY <2>1, <2>2 DEF RowIds, Table
<1>2. ASSUME Table(t) PROVE t \in Tables
  <2>1. DOMAIN t \in RowIds /\ t \in [DOMAIN t -> Row] BY <1>2 DEF Table, RowIds
  <2> QED BY <2>1 DEF Tables
<1> QED BY <1>1, <1>2

LEMMA NoTable == <<>> \in Tables /\ DOMAIN <<>> = {} /\ Parked(<<>>) /\ Distinct(<<>>)
<1>1. DOMAIN <<>> = {} OBVIOUS
<1>2. IsFiniteSet({}) BY FS_EmptySet
<1>3. <<>> \in [{} -> Row] BY <1>1
<1>4. {} \in RowIds BY <1>2 DEF RowIds
<1>5. <<>> \in Tables BY <1>3, <1>4 DEF Tables
<1> QED BY <1>1, <1>5 DEF Parked, Distinct

LEMMA Places == Position \subseteq Place /\ Nowhere \in Place
  BY DEF Position, Place, Nowhere

\* A finite set of numbers has a largest one.
LEMMA Largest ==
  ASSUME NEW T \in SUBSET Nat, IsFiniteSet(T), T # {}
  PROVE  \E k \in T : \A m \in T : m <= k
<1> DEFINE above(k) == {m \in T : m > k}
           C == {above(k) : k \in T}
<1>1. IsWellFoundedOn(StrictSubsetOrdering(T), FiniteSubsetsOf(T))
  BY FS_StrictSubsetOrderingWellFounded
<1>2. C \subseteq FiniteSubsetsOf(T)
  <2>1. \A k \in T : above(k) \in SUBSET T OBVIOUS
  <2>2. \A k \in T : IsFiniteSet(above(k)) BY <2>1, FS_Subset
  <2> QED BY <2>1, <2>2 DEF FiniteSubsetsOf
<1>3. C # {} OBVIOUS
<1>4. PICK x \in C : \A y \in C : ~(<<y, x>> \in StrictSubsetOrdering(T))
  BY <1>1, <1>2, <1>3, WFMin
<1>5. PICK k \in T : x = above(k) BY <1>4
<1>6. ASSUME NEW m \in T, m > k PROVE FALSE
  <2>1. above(m) \in C /\ above(m) \in SUBSET T /\ x \in SUBSET T BY <1>5
  <2>2. m \in x /\ m \notin above(m) BY <1>5, <1>6
  <2>4. \A n \in above(m) : n \in x BY <1>5, <1>6
  <2>3. <<above(m), x>> \in StrictSubsetOrdering(T) BY <2>1, <2>2, <2>4 DEF StrictSubsetOrdering
  <2> QED BY <1>4, <2>1, <2>3
<1> QED BY <1>6

---------------------------------------------------------------------------
(* Tasks *)

LEMMA Fields ==
  ASSUME NEW t \in Tasks
  PROVE  /\ t.pc \in Pcs /\ t.remaps \in BOOLEAN /\ t.ordering \in Ordering
         /\ t.listing \in Seq(Episode) /\ t.seen \in Tables /\ t.target \in Targets
         /\ t.plan \subseteq Nat /\ t.left \subseteq Nat /\ t.off \in Nat
         /\ t.claimed \subseteq Place /\ t.draft \in Tables
         /\ t = [pc |-> t.pc, remaps |-> t.remaps, ordering |-> t.ordering,
                 listing |-> t.listing, seen |-> t.seen, target |-> t.target,
                 plan |-> t.plan, left |-> t.left, off |-> t.off, claimed |-> t.claimed,
                 draft |-> t.draft]
  BY DEF Tasks

\* A task that has just been started, or is at its ratings, knows nothing.
Blank(pc, b, o) ==
  [pc |-> pc, remaps |-> b, ordering |-> o, listing |-> <<>>, seen |-> <<>>,
   target |-> <<>>, plan |-> {}, left |-> {}, off |-> 0, claimed |-> {}, draft |-> <<>>]

LEMMA GoodPlain ==
  ASSUME NEW t \in Tasks, NEW ids, t.pc \notin {"order", "begin", "restore"},
         t.plan \subseteq DOMAIN t.seen, t.left \subseteq DOMAIN t.seen, DOMAIN t.seen \subseteq ids,
         t.pc \in {"fetch", "preload", "sync"} => t.plan = {} /\ t.left = {},
         Parked(t.seen), t.draft = <<>>
  PROVE  Good(t, ids)
<1>1. Parked(t.draft) BY NoTable
<1> QED BY <1>1 DEF Good

LEMMA GoodBlank ==
  ASSUME NEW pc \in Pcs \ {"order", "begin", "restore"}, NEW b \in BOOLEAN, NEW o \in Ordering,
         NEW ids
  PROVE  Good(Blank(pc, b, o), ids) /\ Blank(pc, b, o).pc = pc
<1> DEFINE t == Blank(pc, b, o)
<1>1. <<>> \in Targets
  <2>1. <<>> \in [{} -> Position] BY NoTable
  <2> QED BY <2>1 DEF Targets
<1>2. <<>> \in Seq(Episode) OBVIOUS
<1>3. <<>> \in Tables BY NoTable
<1>4. {} \subseteq Nat /\ {} \subseteq Place /\ 0 \in Nat OBVIOUS
<1>5. t \in Tasks
  <2>1. pc \in Pcs OBVIOUS
  <2> QED BY <1>1, <1>2, <1>3, <1>4, <2>1 DEF Tasks, Blank
<1>6. /\ t.pc = pc /\ t.seen = <<>> /\ t.plan = {} /\ t.left = {} /\ t.draft = <<>>
  BY DEF Blank
<1> HIDE DEF t
<1>7. t.pc \notin {"order", "begin", "restore"} BY <1>6
<1>8. Parked(t.seen) /\ DOMAIN t.seen = {} BY <1>6, NoTable
<1>9. Good(t, ids) BY <1>5, <1>6, <1>7, <1>8, GoodPlain
<1> QED BY <1>6, <1>9 DEF t

LEMMA GoodNoTask == ASSUME NEW ids PROVE Good(NoTask, ids) /\ NoTask.pc = "idle"
<1>1. "idle" \in Pcs \ {"order", "begin", "restore"} BY DEF Pcs
<1>2. "aired" \in Ordering BY ConstantFacts
<1>3. Good(Blank("idle", FALSE, "aired"), ids) /\ Blank("idle", FALSE, "aired").pc = "idle"
  BY <1>1, <1>2, GoodBlank
<1>4. NoTask = Blank("idle", FALSE, "aired") BY DEF NoTask, Blank
<1> QED BY <1>3, <1>4

LEMMA GoodRating ==
  ASSUME NEW ids, NEW t, t = [NoTask EXCEPT !.pc = "rate"]
  PROVE  Good(t, ids) /\ t.pc = "rate"
<1>1. "rate" \in Pcs \ {"order", "begin", "restore"} BY DEF Pcs
<1>2. "aired" \in Ordering BY ConstantFacts
<1>3. Good(Blank("rate", FALSE, "aired"), ids) /\ Blank("rate", FALSE, "aired").pc = "rate"
  BY <1>1, <1>2, GoodBlank
<1>4. t = Blank("rate", FALSE, "aired") BY DEF NoTask, Blank
<1> QED BY <1>3, <1>4

LEMMA Grows ==
  ASSUME NEW t, NEW ids, NEW more, Good(t, ids), ids \subseteq more, t.pc # "restore"
  PROVE  Good(t, more)
  BY DEF Good

---------------------------------------------------------------------------
(* Steps of one task, and steps of others *)

LEMMA TaskStep ==
  ASSUME IInv, Shared', NEW c \in Refresher, NEW t, Task(c, t), Good(t, DOMAIN rows'),
         t.pc = "restore" => holder' = c, DOMAIN rows \subseteq DOMAIN rows',
         \A d \in Refresher \ {c} :
           refresh[d].pc = "restore" => holder' = d /\ DOMAIN rows' = DOMAIN rows
  PROVE  IInv'
<1>1. refresh = [d \in Refresher |-> refresh[d]] BY DEF IInv, Refreshes
<1>2. refresh' = [d \in Refresher |-> IF d = c THEN t ELSE refresh[d]] BY <1>1 DEF Task
<1>3. refresh' = [d \in Refresher |-> refresh'[d]] BY <1>2
<1>4. ASSUME NEW d \in Refresher
      PROVE  Good(refresh[d], DOMAIN rows)' /\ (refresh[d].pc = "restore" => holder = d)'
  <2>1. CASE d = c BY <1>2, <2>1
  <2>2. CASE d # c /\ refresh[d].pc = "restore"
    <3>1. Good(refresh[d], DOMAIN rows) BY DEF IInv, Refreshes
    <3>2. refresh'[d] = refresh[d] BY <1>2, <2>2
    <3> QED BY <2>2, <3>1, <3>2
  <2>3. CASE d # c /\ refresh[d].pc # "restore"
    <3>1. Good(refresh[d], DOMAIN rows) BY DEF IInv, Refreshes
    <3>2. Good(refresh[d], DOMAIN rows') BY <2>3, <3>1, Grows
    <3>3. refresh'[d] = refresh[d] BY <1>2, <2>3
    <3> QED BY <2>3, <3>2, <3>3
  <2> QED BY <2>1, <2>2, <2>3
<1> QED BY <1>3, <1>4 DEF IInv, Refreshes

\* A task goes on alone: the table, its locks and the import stay.
LEMMA LocalStep ==
  ASSUME IInv, NEW c \in Refresher, NEW t, Task(c, t), Good(t, DOMAIN rows),
         t.pc = "restore" => refresh[c].pc = "restore",
         ordering' \in Ordering, runs' \in 0 .. MaxRuns,
         UNCHANGED <<version, rows, holder, import, edits>>
  PROVE  IInv'
<1>1. Shared' BY DEF IInv, Shared
<1>2. \A d \in Refresher : refresh[d].pc = "restore" => holder' = d BY DEF IInv, Refreshes
<1> QED BY <1>1, <1>2, TaskStep

LEMMA OtherStep ==
  ASSUME IInv, Shared', UNCHANGED <<refresh, holder>>, DOMAIN rows' = DOMAIN rows
  PROVE  IInv'
  BY DEF IInv, Refreshes

LEMMA Known ==
  ASSUME IInv, NEW c \in Refresher
  PROVE  /\ Shared /\ Good(refresh[c], DOMAIN rows) /\ refresh[c] \in Tasks
         /\ ordering \in Ordering /\ runs \in 0 .. MaxRuns /\ rows \in Tables /\ Parked(rows)
         /\ refresh[c].pc = "restore" => holder = c
         /\ version \in DOMAIN Listing
  BY DEF IInv, Shared, Refreshes, Good

LEMMA StartStep ==
  ASSUME IInv, NEW c \in Refresher, NEW b \in BOOLEAN, Start(c, b) PROVE IInv'
<1>1. PICK t : t = [NoTask EXCEPT !.pc = "fetch", !.remaps = b, !.ordering = ordering] OBVIOUS
<1>2. /\ Task(c, t) /\ runs < MaxRuns /\ runs' = runs + 1
      /\ UNCHANGED <<version, rows, ordering, holder, import, edits>>
  BY <1>1 DEF Start
<1>3. ordering \in Ordering /\ runs \in 0 .. MaxRuns BY Known
<1>4. t = Blank("fetch", b, ordering) BY <1>1 DEF NoTask, Blank
<1>5. "fetch" \in Pcs \ {"order", "begin", "restore"} BY DEF Pcs
<1>6. Good(t, DOMAIN rows) /\ t.pc = "fetch" BY <1>3, <1>4, <1>5, GoodBlank
<1>7. runs' \in 0 .. MaxRuns BY <1>2, <1>3, ConstantFacts
<1> QED BY <1>2, <1>3, <1>6, <1>7, LocalStep

LEMMA FetchStep ==
  ASSUME IInv, NEW c \in Refresher, NEW b \in BOOLEAN, Fetch(c, b) PROVE IInv'
<1>1. PICK r : r = refresh[c] OBVIOUS
<1>2. PICK t : t = [r EXCEPT !.pc = "preload", !.listing = Listing[version]] OBVIOUS
<1>3. /\ r.pc = "fetch"
      /\ IF b THEN Task(c, t) /\ ordering' = r.ordering
              ELSE Task(c, NoTask) /\ ordering' = ordering
      /\ UNCHANGED <<version, rows, holder, import, runs, edits>>
  BY <1>1, <1>2 DEF Fetch, bounds
<1>4. /\ Good(r, DOMAIN rows) /\ r \in Tasks /\ ordering \in Ordering
      /\ runs \in 0 .. MaxRuns /\ rows \in Tables /\ Parked(rows) /\ version \in DOMAIN Listing
  BY <1>1, Known
<1>5. r.ordering \in Ordering /\ Listing[version] \in Seq(Episode)
  BY <1>4, Fields, ConstantFacts
<1>6. CASE b
  <2>1. t = [pc |-> "preload", remaps |-> r.remaps, ordering |-> r.ordering,
             listing |-> Listing[version], seen |-> r.seen,
             target |-> r.target, plan |-> r.plan, left |-> r.left,
             off |-> r.off, claimed |-> r.claimed, draft |-> r.draft]
    <3>1. r = [pc |-> r.pc, remaps |-> r.remaps, ordering |-> r.ordering,
               listing |-> r.listing, seen |-> r.seen, target |-> r.target,
               plan |-> r.plan, left |-> r.left, off |-> r.off,
               claimed |-> r.claimed, draft |-> r.draft]
      BY <1>4, Fields
    <3> QED BY <1>2, <3>1
  <2>2. t \in Tasks BY <1>4, <1>5, <2>1, Fields DEF Tasks, Pcs
  <2>3. Good(t, DOMAIN rows) BY <1>3, <1>4, <2>1, <2>2 DEF Good
  <2>4. t.pc = "preload" BY <2>1
  <2> QED BY <1>3, <1>4, <1>5, <1>6, <2>3, <2>4, LocalStep
<1>7. CASE ~b
  <2>1. Good(NoTask, DOMAIN rows) /\ NoTask.pc # "restore" BY GoodNoTask
  <2> QED BY <1>3, <1>4, <1>7, <2>1, LocalStep
<1> QED BY <1>6, <1>7

LEMMA PreloadStep == ASSUME IInv, NEW c \in Refresher, Preload(c) PROVE IInv'
<1>1. PICK r : r = refresh[c] OBVIOUS
<1>2. PICK t : t = [r EXCEPT !.pc = "sync", !.seen = rows] OBVIOUS
<1>3. /\ r.pc = "preload" /\ Task(c, t)
      /\ UNCHANGED <<version, rows, ordering, holder, import, runs, edits>>
  BY <1>1, <1>2 DEF Preload, bounds
<1>4. /\ Good(r, DOMAIN rows) /\ r \in Tasks /\ ordering \in Ordering
      /\ runs \in 0 .. MaxRuns /\ rows \in Tables /\ Parked(rows) /\ version \in DOMAIN Listing
  BY <1>1, Known
<1>5. t = [pc |-> "sync", remaps |-> r.remaps, ordering |-> r.ordering,
           listing |-> r.listing, seen |-> rows, target |-> r.target,
           plan |-> r.plan, left |-> r.left, off |-> r.off,
           claimed |-> r.claimed, draft |-> r.draft]
  <2>1. r = [pc |-> r.pc, remaps |-> r.remaps, ordering |-> r.ordering,
             listing |-> r.listing, seen |-> r.seen, target |-> r.target,
             plan |-> r.plan, left |-> r.left, off |-> r.off,
             claimed |-> r.claimed, draft |-> r.draft]
    BY <1>4, Fields
  <2> QED BY <1>2, <2>1
<1>6. t \in Tasks BY <1>4, <1>5, Fields DEF Tasks, Pcs
<1>7. /\ r.plan = {} /\ r.left = {} /\ r.draft = <<>> BY <1>3, <1>4 DEF Good
<1>8. /\ t.pc = "sync" /\ t.seen = rows /\ t.plan = {} /\ t.left = {} /\ t.draft = <<>>
  BY <1>5, <1>7
<1>9. Good(t, DOMAIN rows) BY <1>4, <1>6, <1>8, GoodPlain
<1> QED BY <1>3, <1>4, <1>8, <1>9, LocalStep

LEMMA FetchOrderStep ==
  ASSUME IInv, NEW c \in Refresher, NEW b \in BOOLEAN, FetchOrder(c, b) PROVE IInv'
<1>1. PICK r : r = refresh[c] OBVIOUS
<1>3. /\ r.pc = "order"
      /\ Task(c, IF b THEN [r EXCEPT !.pc = "plan", !.target = Target[r.ordering]]
                      ELSE [r EXCEPT !.pc = "rate"])
      /\ UNCHANGED <<version, rows, ordering, holder, import, runs, edits>>
  BY <1>1 DEF FetchOrder, bounds
<1>4. /\ Good(r, DOMAIN rows) /\ r \in Tasks /\ ordering \in Ordering
      /\ runs \in 0 .. MaxRuns /\ rows \in Tables /\ Parked(rows) /\ version \in DOMAIN Listing
  BY <1>1, Known
<1>5. Target[r.ordering] \in Targets
  <2>1. r.ordering \in Ordering \ {"aired"} BY <1>3, <1>4, Fields DEF Good
  <2>2. /\ DOMAIN Target[r.ordering] \in SUBSET (Nat \ {0})
        /\ Target[r.ordering] \in [DOMAIN Target[r.ordering] -> Position]
    BY <2>1, ConstantFacts
  <2> QED BY <2>2 DEF Targets
<1>6. CASE b
  <2>1. PICK t : t = [r EXCEPT !.pc = "plan", !.target = Target[r.ordering]] OBVIOUS
  <2>2. t = [pc |-> "plan", remaps |-> r.remaps, ordering |-> r.ordering,
             listing |-> r.listing, seen |-> r.seen,
             target |-> Target[r.ordering], plan |-> r.plan, left |-> r.left,
             off |-> r.off, claimed |-> r.claimed, draft |-> r.draft]
    <3>1. r = [pc |-> r.pc, remaps |-> r.remaps, ordering |-> r.ordering,
               listing |-> r.listing, seen |-> r.seen, target |-> r.target,
               plan |-> r.plan, left |-> r.left, off |-> r.off,
               claimed |-> r.claimed, draft |-> r.draft]
      BY <1>4, Fields
    <3> QED BY <2>1, <3>1
  <2>3. t \in Tasks BY <1>4, <1>5, <2>2, Fields DEF Tasks, Pcs
  <2>4. Good(t, DOMAIN rows) BY <1>3, <1>4, <2>2, <2>3 DEF Good
  <2>5. t.pc = "plan" BY <2>2
  <2> QED BY <1>3, <1>4, <1>6, <2>1, <2>4, <2>5, LocalStep
<1>7. CASE ~b
  <2>1. PICK t : t = [r EXCEPT !.pc = "rate"] OBVIOUS
  <2>2. t = [pc |-> "rate", remaps |-> r.remaps, ordering |-> r.ordering,
             listing |-> r.listing, seen |-> r.seen, target |-> r.target,
             plan |-> r.plan, left |-> r.left, off |-> r.off,
             claimed |-> r.claimed, draft |-> r.draft]
    <3>1. r = [pc |-> r.pc, remaps |-> r.remaps, ordering |-> r.ordering,
               listing |-> r.listing, seen |-> r.seen, target |-> r.target,
               plan |-> r.plan, left |-> r.left, off |-> r.off,
               claimed |-> r.claimed, draft |-> r.draft]
      BY <1>4, Fields
    <3> QED BY <2>1, <3>1
  <2>3. t \in Tasks BY <1>4, <2>2, Fields DEF Tasks, Pcs
  <2>4. Good(t, DOMAIN rows) BY <1>3, <1>4, <2>2, <2>3 DEF Good
  <2>5. t.pc = "rate" BY <2>2
  <2> QED BY <1>3, <1>4, <1>7, <2>1, <2>4, <2>5, LocalStep
<1> QED BY <1>6, <1>7

LEMMA PlanStep == ASSUME IInv, NEW c \in Refresher, Plan(c) PROVE IInv'
<1>1. PICK r : r = refresh[c] OBVIOUS
<1>2. PICK plan : plan = Remapped(r.target) OBVIOUS
<1>3. /\ r.pc = "plan"
      /\ Task(c, IF plan = {} THEN [r EXCEPT !.pc = "rate", !.target = <<>>]
                 ELSE [r EXCEPT !.pc = "begin", !.seen = rows, !.plan = plan])
      /\ UNCHANGED <<version, rows, ordering, holder, import, runs, edits>>
  BY <1>1, <1>2 DEF Plan, bounds
<1>4. /\ Good(r, DOMAIN rows) /\ r \in Tasks /\ ordering \in Ordering
      /\ runs \in 0 .. MaxRuns /\ rows \in Tables /\ Parked(rows) /\ version \in DOMAIN Listing
  BY <1>1, Known
<1>5. <<>> \in Targets
  <2>1. <<>> \in [{} -> Position] BY NoTable
  <2> QED BY <2>1 DEF Targets
<1>6. /\ plan \subseteq DOMAIN rows /\ \A i \in plan : rows[i].tvdb \in DOMAIN r.target
      /\ DOMAIN rows \subseteq Nat
  <2>1. DOMAIN rows \subseteq Nat BY <1>4, TableFacts DEF Table
  <2> QED BY <1>2, <2>1 DEF Remapped, Placed
<1>7. CASE plan = {}
  <2>1. PICK t : t = [r EXCEPT !.pc = "rate", !.target = <<>>] OBVIOUS
  <2>2. t = [pc |-> "rate", remaps |-> r.remaps, ordering |-> r.ordering,
             listing |-> r.listing, seen |-> r.seen, target |-> <<>>,
             plan |-> r.plan, left |-> r.left, off |-> r.off,
             claimed |-> r.claimed, draft |-> r.draft]
    <3>1. r = [pc |-> r.pc, remaps |-> r.remaps, ordering |-> r.ordering,
               listing |-> r.listing, seen |-> r.seen, target |-> r.target,
               plan |-> r.plan, left |-> r.left, off |-> r.off,
               claimed |-> r.claimed, draft |-> r.draft]
      BY <1>4, Fields
    <3> QED BY <2>1, <3>1
  <2>3. t \in Tasks BY <1>4, <1>5, <2>2, Fields DEF Tasks, Pcs
  <2>4. Good(t, DOMAIN rows) BY <1>3, <1>4, <2>2, <2>3 DEF Good
  <2>5. t.pc = "rate" BY <2>2
  <2> QED BY <1>3, <1>4, <1>7, <2>1, <2>4, <2>5, LocalStep
<1>8. CASE plan # {}
  <2>1. PICK t : t = [r EXCEPT !.pc = "begin", !.seen = rows, !.plan = plan] OBVIOUS
  <2>2. t = [pc |-> "begin", remaps |-> r.remaps, ordering |-> r.ordering,
             listing |-> r.listing, seen |-> rows, target |-> r.target,
             plan |-> plan, left |-> r.left, off |-> r.off,
             claimed |-> r.claimed, draft |-> r.draft]
    <3>1. r = [pc |-> r.pc, remaps |-> r.remaps, ordering |-> r.ordering,
               listing |-> r.listing, seen |-> r.seen, target |-> r.target,
               plan |-> r.plan, left |-> r.left, off |-> r.off,
               claimed |-> r.claimed, draft |-> r.draft]
      BY <1>4, Fields
    <3> QED BY <2>1, <3>1
  <2>3. t \in Tasks BY <1>4, <1>6, <2>2, Fields DEF Tasks, Pcs
  <2>4. r.left \subseteq DOMAIN rows /\ r.draft = <<>> BY <1>3, <1>4 DEF Good
  <2>5. Good(t, DOMAIN rows) BY <1>4, <1>6, <2>2, <2>3, <2>4, NoTable DEF Good
  <2>6. t.pc = "begin" BY <2>2
  <2> QED BY <1>3, <1>4, <1>8, <2>1, <2>5, <2>6, LocalStep
<1> QED BY <1>7, <1>8

---------------------------------------------------------------------------
(* The transaction of a remap *)

\* While nobody holds the locks no refresh is in its transaction.
LEMMA NobodyRestores ==
  ASSUME IInv, Unlocked, NEW d \in Refresher PROVE refresh[d].pc # "restore"
  BY ConstantFacts DEF IInv, Refreshes, Unlocked

LEMMA SentinelFits ==
  ASSUME NEW i \in Nat
  PROVE  Sentinel(i) \in Place /\ Fits(i, Sentinel(i)) /\ Sentinel(i)[1] = -(1000 + i)
<1>1. -(1000 + i) \in Int OBVIOUS
<1> QED BY <1>1 DEF Sentinel, Place, Fits

LEMMA BeginStep == ASSUME IInv, NEW c \in Refresher, Begin(c) PROVE IInv'
<1>1. PICK r : r = refresh[c] OBVIOUS
<1>2. PICK m : m = Moved(r) OBVIOUS
<1>3. PICK t : t = [r EXCEPT !.pc = "restore", !.draft = m,
                             !.claimed = {NewPlace(r, i) : i \in r.plan},
                             !.left = DOMAIN r.seen \ r.plan]
  OBVIOUS
<1>4. /\ Good(r, DOMAIN rows) /\ r \in Tasks /\ ordering \in Ordering
      /\ runs \in 0 .. MaxRuns /\ rows \in Tables /\ Parked(rows) /\ version \in DOMAIN Listing
  BY <1>1, Known
<1>5. /\ r.pc = "begin" /\ Unlocked
      /\ IF Distinct(m) THEN holder' = c /\ Task(c, t) ELSE Task(c, NoTask) /\ UNCHANGED holder
      /\ UNCHANGED <<version, rows, ordering, import, runs, edits>>
  BY <1>1, <1>2, <1>3 DEF Begin, bounds
<1>6. \A d \in Refresher : refresh[d].pc # "restore" BY <1>5, NobodyRestores
<1>7. CASE ~Distinct(m)
  <2>1. Good(NoTask, DOMAIN rows) /\ NoTask.pc # "restore" BY GoodNoTask
  <2> QED BY <1>4, <1>5, <1>7, <2>1, LocalStep
<1>8. CASE Distinct(m)
  <2>1. t = [pc |-> "restore", remaps |-> r.remaps, ordering |-> r.ordering,
             listing |-> r.listing, seen |-> r.seen, target |-> r.target,
             plan |-> r.plan, left |-> DOMAIN r.seen \ r.plan, off |-> r.off,
             claimed |-> {NewPlace(r, i) : i \in r.plan}, draft |-> m]
    <3>1. r = [pc |-> r.pc, remaps |-> r.remaps, ordering |-> r.ordering,
               listing |-> r.listing, seen |-> r.seen, target |-> r.target,
               plan |-> r.plan, left |-> r.left, off |-> r.off,
               claimed |-> r.claimed, draft |-> r.draft]
      BY <1>4, Fields
    <3> QED BY <1>3, <3>1
  <2>2. /\ r.seen \in Tables /\ DOMAIN r.seen \subseteq Nat /\ r.target \in Targets
        /\ r.plan \subseteq DOMAIN r.seen /\ DOMAIN r.seen \subseteq DOMAIN rows
        /\ \A i \in r.plan : r.seen[i].tvdb \in DOMAIN r.target
        /\ Parked(r.seen)
    BY <1>4, <1>5, Fields, TableFacts DEF Good, Table
  <2>3. \A i \in r.plan : NewPlace(r, i) \in Position
    <3>1. PICK D \in SUBSET (Nat \ {0}) : r.target \in [D -> Position] BY <2>2 DEF Targets
    <3> QED BY <2>2, <3>1 DEF NewPlace
  <2>4. /\ DOMAIN rows \subseteq Nat \ {0} /\ IsFiniteSet(DOMAIN rows)
        /\ \A i \in DOMAIN rows : rows[i] \in Row
    BY <1>4, TableFacts DEF Table
  <2>5. DOMAIN m = DOMAIN rows /\ m = [i \in DOMAIN rows |-> m[i]] BY <1>2 DEF Moved
  <2>6. \A i \in r.plan : m[i] \in Row /\ m[i].at = NewPlace(r, i)
    <3>1. TAKE i \in r.plan
    <3>2. PICK x : x = NewPlace(r, i) OBVIOUS
    <3>3. PICK y : y = r.seen[i].at OBVIOUS
    <3>4. x \in Place /\ y \in Place
      <4>1. x \in Place BY <2>3, <3>2, Places
      <4>2. r.seen[i] \in Row BY <2>2, TableFacts DEF Table
      <4> QED BY <3>3, <4>1, <4>2 DEF Row
    <3>5. PICK q \in Row : q = rows[i] BY <2>2, <2>4
    <3>6. m[i] = [q EXCEPT !.at = x, !.scene = y]
      BY <1>2, <2>2, <3>2, <3>3, <3>5 DEF Moved
    <3>7. [q EXCEPT !.at = x, !.scene = y] \in Row /\ [q EXCEPT !.at = x, !.scene = y].at = x
      BY <3>4 DEF Row
    <3> QED BY <3>2, <3>6, <3>7
  <2>7. \A i \in DOMAIN rows \ r.plan : m[i] \in Row /\ m[i].at = Sentinel(i)
    <3>1. TAKE i \in DOMAIN rows \ r.plan
    <3>2. PICK x : x = Sentinel(i) OBVIOUS
    <3>3. x \in Place BY <2>4, <3>2, SentinelFits
    <3>4. PICK q \in Row : q = rows[i] BY <2>4
    <3>5. m[i] = [q EXCEPT !.at = x] BY <1>2, <3>2, <3>4 DEF Moved
    <3>6. [q EXCEPT !.at = x] \in Row /\ [q EXCEPT !.at = x].at = x BY <3>3 DEF Row
    <3> QED BY <3>2, <3>5, <3>6
  <2>8. m \in Tables
    <3>1. \A i \in DOMAIN rows : m[i] \in Row BY <2>6, <2>7
    <3>2. m \in [DOMAIN rows -> Row] BY <2>5, <3>1
    <3>3. Table(m) BY <2>4, <2>5, <3>2 DEF Table
    <3> QED BY <3>3, TableFacts
  <2>9. Parked(m)
    <3>1. \A i \in r.plan : Fits(i, m[i].at) BY <2>3, <2>6 DEF Fits
    <3>2. \A i \in DOMAIN rows \ r.plan : Fits(i, m[i].at) BY <2>4, <2>7, SentinelFits
    <3> QED BY <2>5, <3>1, <3>2 DEF Parked
  <2>10. t \in Tasks
    <3>1. {NewPlace(r, i) : i \in r.plan} \subseteq Place BY <2>3, Places
    <3>2. DOMAIN r.seen \ r.plan \subseteq Nat BY <2>2
    <3> QED BY <1>4, <2>1, <2>8, <3>1, <3>2, Fields DEF Tasks, Pcs
  <2>11. /\ t.pc = "restore" /\ t.draft = m /\ t.claimed = {NewPlace(r, i) : i \in r.plan}
         /\ t.left = DOMAIN r.seen \ r.plan /\ t.seen = r.seen /\ t.plan = r.plan
         /\ t.target = r.target
    BY <2>1
  <2>12. Drafted(t, DOMAIN rows)
    <3>1. \A i \in DOMAIN rows : IF i \in t.left \/ i \notin DOMAIN t.seen
             THEN t.draft[i].at = Sentinel(i) ELSE t.draft[i].at \in t.claimed
      BY <2>2, <2>6, <2>7, <2>11
    <3>2. \A i \in DOMAIN t.seen \ t.left : t.draft[i].at \in Position
      BY <2>3, <2>6, <2>11
    <3> QED BY <1>8, <2>5, <2>11, <3>1, <3>2 DEF Drafted
  <2>13. Good(t, DOMAIN rows) BY <2>2, <2>9, <2>10, <2>11, <2>12 DEF Good
  <2>14. Shared' BY <1>5, <1>8 DEF IInv, Shared
  <2> QED BY <1>5, <1>6, <1>8, <2>13, <2>14, TaskStep
<1> QED BY <1>7, <1>8

LEMMA BumpStep == ASSUME IInv, NEW c \in Refresher, Bump(c) PROVE IInv'
<1>1. PICK r : r = refresh[c] OBVIOUS
<1>2. PICK t : t = [r EXCEPT !.off = r.off + 1] OBVIOUS
<1>3. /\ r.pc = "restore" /\ Task(c, t)
      /\ UNCHANGED <<version, rows, ordering, holder, import, runs, edits>>
  BY <1>1, <1>2 DEF Bump, bounds
<1>4. /\ Good(r, DOMAIN rows) /\ r \in Tasks /\ ordering \in Ordering
      /\ runs \in 0 .. MaxRuns /\ rows \in Tables /\ Parked(rows) /\ version \in DOMAIN Listing
  BY <1>1, Known
<1>5. t = [pc |-> r.pc, remaps |-> r.remaps, ordering |-> r.ordering,
           listing |-> r.listing, seen |-> r.seen, target |-> r.target,
           plan |-> r.plan, left |-> r.left, off |-> r.off + 1,
           claimed |-> r.claimed, draft |-> r.draft]
  <2>1. r = [pc |-> r.pc, remaps |-> r.remaps, ordering |-> r.ordering,
             listing |-> r.listing, seen |-> r.seen, target |-> r.target,
             plan |-> r.plan, left |-> r.left, off |-> r.off,
             claimed |-> r.claimed, draft |-> r.draft]
    BY <1>4, Fields
  <2> QED BY <1>2, <2>1
<1>6. r.off \in Nat BY <1>4, Fields
<1>7. t \in Tasks BY <1>4, <1>5, <1>6, Fields DEF Tasks
<1>8. /\ t.pc = "restore" /\ t.draft = r.draft /\ t.claimed = r.claimed /\ t.left = r.left
      /\ t.seen = r.seen /\ t.plan = r.plan /\ t.target = r.target
  BY <1>3, <1>5
<1>9. Drafted(t, DOMAIN rows) BY <1>3, <1>4, <1>8 DEF Good, Drafted
<1>10. Good(t, DOMAIN rows) BY <1>3, <1>4, <1>7, <1>8, <1>9 DEF Good
<1> QED BY <1>1, <1>3, <1>4, <1>10, LocalStep

\* Where a row is wanted, it is or may be parked: no other row can be parked there.
LEMMA WantedFits ==
  ASSUME NEW r \in Tasks, NEW i \in DOMAIN r.seen, Parked(r.seen)
  PROVE  /\ Fits(i, Wanted(r, i)) /\ Wanted(r, i) \in Place
         /\ r.seen[i].at \in Position => Wanted(r, i) \in Position
<1>1. PICK p : p = r.seen[i].at OBVIOUS
<1>2. PICK n : n = r.off OBVIOUS
<1>3. n \in Nat /\ Fits(i, p) BY <1>1, <1>2, Fields DEF Parked
<1>4. Wanted(r, i) = <<p[1], p[2] + n>> BY <1>1, <1>2 DEF Wanted
<1>5. CASE p \in Position
  <2>1. p[1] \in Nat /\ p[2] + n \in Nat BY <1>3, <1>5 DEF Position
  <2>2. Wanted(r, i) \in Position BY <1>4, <2>1 DEF Position
  <2> QED BY <2>2, Places DEF Fits
<1>6. CASE p \notin Position
  <2>1. p[1] \in Int /\ p[2] + n \in Int /\ p[1] = -(1000 + i) BY <1>3, <1>6 DEF Fits, Place
  <2>2. Wanted(r, i) \in Place /\ Wanted(r, i)[1] = -(1000 + i) BY <1>4, <2>1 DEF Place
  <2> QED BY <1>1, <1>6, <2>2 DEF Fits
<1> QED BY <1>5, <1>6

LEMMA SentinelsApart ==
  ASSUME NEW i \in Nat, NEW j \in Nat, i # j, NEW at, Fits(i, at) PROVE at # Sentinel(j)
<1>1. Sentinel(j)[1] = -(1000 + j) BY SentinelFits
<1>2. CASE at \in Position
  <2>1. at[1] \in Nat BY <1>2 DEF Position
  <2> QED BY <1>1, <2>1
<1>3. CASE at[1] = -(1000 + i) BY <1>1, <1>3
<1> QED BY <1>2, <1>3 DEF Fits

LEMMA RestoreStep == ASSUME IInv, NEW c \in Refresher, Restore(c) PROVE IInv'
<1>1. PICK r : r = refresh[c] OBVIOUS
<1>2. PICK i : /\ i \in Turn(r) /\ Wanted(r, i) \notin r.claimed
               /\ Task(c, [r EXCEPT !.off = 0, !.left = @ \ {i}, !.draft[i].at = Wanted(r, i),
                                    !.claimed = @ \cup {Wanted(r, i)}])
  BY <1>1 DEF Restore
<1>3. /\ r.pc = "restore"
      /\ UNCHANGED <<version, rows, ordering, holder, import, runs, edits>>
  BY <1>1 DEF Restore, bounds
<1>4. /\ Good(r, DOMAIN rows) /\ r \in Tasks /\ ordering \in Ordering
      /\ runs \in 0 .. MaxRuns /\ rows \in Tables /\ Parked(rows) /\ version \in DOMAIN Listing
  BY <1>1, Known
<1>5. PICK at : at = Wanted(r, i) OBVIOUS
<1>6. PICK d : d = [r.draft EXCEPT ![i].at = at] OBVIOUS
<1>7. PICK t : t = [r EXCEPT !.off = 0, !.left = r.left \ {i}, !.draft = d,
                             !.claimed = r.claimed \cup {at}]
  OBVIOUS
<1>8. Task(c, t)
  <2>1. [r EXCEPT !.off = 0, !.left = @ \ {i}, !.draft[i].at = at,
                  !.claimed = @ \cup {at}]
        = [r EXCEPT !.off = 0, !.left = r.left \ {i}, !.draft = d,
                    !.claimed = r.claimed \cup {at}]
    BY <1>6
  <2> QED BY <1>2, <1>5, <1>7, <2>1
<1>9. Drafted(r, DOMAIN rows) BY <1>3, <1>4 DEF Good
<1>10. /\ i \in r.left /\ i \in DOMAIN r.seen /\ i \in DOMAIN rows /\ i \in Nat
       /\ Parked(r.seen) /\ Parked(r.draft) /\ r.draft \in Tables
       /\ DOMAIN r.seen \subseteq DOMAIN rows /\ r.plan \subseteq DOMAIN r.seen
       /\ r.left \subseteq DOMAIN r.seen
  BY <1>2, <1>4, TableFacts, Fields DEF Turn, Good, Table
<1>11. /\ Fits(i, at) /\ at \in Place /\ at \notin r.claimed
       /\ r.seen[i].at \in Position => at \in Position
  BY <1>2, <1>4, <1>5, <1>10, WantedFits
<1>12. /\ DOMAIN r.draft = DOMAIN rows /\ DOMAIN r.draft \subseteq Nat
       /\ \A j \in DOMAIN r.draft : r.draft[j] \in Row
       /\ Table(r.draft)
  BY <1>9, <1>10, TableFacts DEF Drafted, Table
<1>13. /\ DOMAIN d = DOMAIN rows /\ d = [j \in DOMAIN rows |-> d[j]]
       /\ \A j \in DOMAIN rows \ {i} : d[j] = r.draft[j]
  BY <1>6, <1>12
<1>14. d[i] \in Row /\ d[i].at = at
  <2>1. PICK q \in Row : q = r.draft[i] BY <1>10, <1>12
  <2>2. d[i] = [q EXCEPT !.at = at] BY <1>6, <1>10, <1>12, <2>1
  <2>3. [q EXCEPT !.at = at] \in Row /\ [q EXCEPT !.at = at].at = at BY <1>11 DEF Row
  <2> QED BY <2>2, <2>3
<1>15. d \in Tables
  <2>1. \A j \in DOMAIN rows : d[j] \in Row BY <1>12, <1>13, <1>14
  <2>2. d \in [DOMAIN rows -> Row] BY <1>13, <2>1
  <2>3. Table(d) BY <1>12, <1>13, <2>2 DEF Table
  <2> QED BY <2>3, TableFacts
<1>16. Parked(d)
  <2>1. \A j \in DOMAIN rows \ {i} : Fits(j, d[j].at) BY <1>10, <1>12, <1>13 DEF Parked
  <2> QED BY <1>11, <1>13, <1>14, <2>1 DEF Parked
<1>17. t = [pc |-> r.pc, remaps |-> r.remaps, ordering |-> r.ordering,
            listing |-> r.listing, seen |-> r.seen, target |-> r.target,
            plan |-> r.plan, left |-> r.left \ {i}, off |-> 0,
            claimed |-> r.claimed \cup {at}, draft |-> d]
  <2>1. r = [pc |-> r.pc, remaps |-> r.remaps, ordering |-> r.ordering,
             listing |-> r.listing, seen |-> r.seen, target |-> r.target,
             plan |-> r.plan, left |-> r.left, off |-> r.off,
             claimed |-> r.claimed, draft |-> r.draft]
    BY <1>4, Fields
  <2> QED BY <1>7, <2>1
<1>18. t \in Tasks
  <2>1. r.left \ {i} \subseteq Nat /\ r.claimed \cup {at} \subseteq Place
    BY <1>4, <1>11, Fields
  <2> QED BY <1>4, <1>15, <1>17, <2>1, Fields DEF Tasks
<1>19. /\ t.pc = "restore" /\ t.draft = d /\ t.claimed = r.claimed \cup {at}
       /\ t.left = r.left \ {i} /\ t.seen = r.seen /\ t.plan = r.plan /\ t.target = r.target
  BY <1>3, <1>17
<1>20. \A j \in DOMAIN rows : IF j \in t.left \/ j \notin DOMAIN t.seen
         THEN t.draft[j].at = Sentinel(j) ELSE t.draft[j].at \in t.claimed
  <2>1. TAKE j \in DOMAIN rows
  <2>2. CASE j = i BY <1>10, <1>14, <1>19, <2>2
  <2>3. CASE j # i
    <3>1. IF j \in r.left \/ j \notin DOMAIN r.seen
            THEN r.draft[j].at = Sentinel(j) ELSE r.draft[j].at \in r.claimed
      BY <1>9 DEF Drafted
    <3> QED BY <1>13, <1>19, <2>3, <3>1
  <2> QED BY <2>2, <2>3
<1>21. \A j \in DOMAIN rows \ {i} : d[j].at # at
  <2>1. TAKE j \in DOMAIN rows \ {i}
  <2>2. IF j \in r.left \/ j \notin DOMAIN r.seen
          THEN r.draft[j].at = Sentinel(j) ELSE r.draft[j].at \in r.claimed
    BY <1>9 DEF Drafted
  <2>3. at # Sentinel(j) BY <1>10, <1>11, <1>12, SentinelsApart
  <2> QED BY <1>11, <1>13, <2>2, <2>3
<1>22. Distinct(d)
  <2>1. Distinct(r.draft) BY <1>9 DEF Drafted
  <2>2. ASSUME NEW j \in DOMAIN rows, NEW k \in DOMAIN rows, d[j].at = d[k].at PROVE j = k
    <3>1. CASE j = i BY <1>14, <1>21, <2>2, <3>1
    <3>2. CASE k = i BY <1>14, <1>21, <2>2, <3>2
    <3>3. CASE j # i /\ k # i BY <1>12, <1>13, <2>1, <2>2, <3>3 DEF Distinct
    <3> QED BY <3>1, <3>2, <3>3
  <2> QED BY <1>13, <2>2 DEF Distinct
<1>23. \A j \in DOMAIN t.seen \ t.left : t.seen[j].at \in Position => t.draft[j].at \in Position
  <2>1. TAKE j \in DOMAIN t.seen \ t.left
  <2>2. CASE j = i BY <1>11, <1>14, <1>19, <2>2
  <2>3. CASE j # i
    <3>1. j \in DOMAIN r.seen \ r.left /\ j \in DOMAIN rows BY <1>10, <1>19, <2>3
    <3>2. r.seen[j].at \in Position => r.draft[j].at \in Position BY <1>9, <3>1 DEF Drafted
    <3> QED BY <1>13, <1>19, <2>3, <3>1, <3>2
  <2> QED BY <2>2, <2>3
<1>24. Drafted(t, DOMAIN rows) BY <1>13, <1>19, <1>20, <1>22, <1>23 DEF Drafted
<1>25. /\ r.plan \subseteq DOMAIN r.seen
       /\ \A j \in r.plan : r.seen[j].tvdb \in DOMAIN r.target
  BY <1>3, <1>4 DEF Good
<1>26. Good(t, DOMAIN rows) BY <1>10, <1>16, <1>18, <1>19, <1>24, <1>25 DEF Good
<1> QED BY <1>1, <1>3, <1>4, <1>8, <1>26, LocalStep

LEMMA CommitStep == ASSUME IInv, NEW c \in Refresher, Commit(c) PROVE IInv'
<1>1. PICK r : r = refresh[c] OBVIOUS
<1>2. PICK t : t = [NoTask EXCEPT !.pc = "rate"] OBVIOUS
<1>3. /\ r.pc = "restore" /\ rows' = r.draft /\ holder' = NoOne /\ Task(c, t)
      /\ UNCHANGED <<version, ordering, import, runs, edits>>
  BY <1>1, <1>2 DEF Commit, bounds
<1>4. /\ Good(r, DOMAIN rows) /\ r \in Tasks /\ ordering \in Ordering
      /\ runs \in 0 .. MaxRuns /\ rows \in Tables /\ Parked(rows) /\ version \in DOMAIN Listing
  BY <1>1, Known
<1>5. /\ DOMAIN rows' = DOMAIN rows /\ rows' \in Tables /\ Parked(rows')
  BY <1>3, <1>4, Fields DEF Good, Drafted
<1>6. Shared' BY <1>3, <1>5 DEF IInv, Shared
<1>7. Good(t, DOMAIN rows') /\ t.pc # "restore" BY <1>2, GoodRating
<1>8. \A d \in Refresher \ {c} : refresh[d].pc # "restore"
  BY <1>1, <1>3 DEF IInv, Refreshes
<1> QED BY <1>3, <1>5, <1>6, <1>7, <1>8, TaskStep

---------------------------------------------------------------------------
(* Ratings, and what else happens *)

LEMMA RateStep ==
  ASSUME IInv, NEW c \in Refresher, NEW b \in BOOLEAN, Rate(c, b) PROVE IInv'
<1>1. PICK r : r = refresh[c] OBVIOUS
<1>2. PICK hits : hits = {i \in DOMAIN rows : rows[i].at \in Rated} OBVIOUS
<1>3. PICK t : t = [NoTask EXCEPT !.pc = "write", !.seen = rows, !.left = hits] OBVIOUS
<1>4. /\ Good(r, DOMAIN rows) /\ r \in Tasks /\ ordering \in Ordering
      /\ runs \in 0 .. MaxRuns /\ rows \in Tables /\ Parked(rows) /\ version \in DOMAIN Listing
  BY <1>1, Known
<1>5. /\ Task(c, IF b THEN t ELSE NoTask)
      /\ UNCHANGED <<version, rows, ordering, holder, import, runs, edits>>
  BY <1>2, <1>3 DEF Rate, bounds
<1>6. CASE b
  <2>1. t = [pc |-> "write", remaps |-> FALSE, ordering |-> "aired", listing |-> <<>>,
             seen |-> rows, target |-> <<>>, plan |-> {}, left |-> hits, off |-> 0,
             claimed |-> {}, draft |-> <<>>]
    BY <1>3 DEF NoTask
  <2>2. <<>> \in Targets
    <3>1. <<>> \in [{} -> Position] BY NoTable
    <3> QED BY <3>1 DEF Targets
  <2>3. <<>> \in Tables /\ <<>> \in Seq(Episode) /\ "aired" \in Ordering
    BY NoTable, ConstantFacts
  <2>4. hits \subseteq DOMAIN rows /\ hits \subseteq Nat
    BY <1>2, <1>4, TableFacts DEF Table
  <2>5. {} \subseteq Nat /\ {} \subseteq Place /\ 0 \in Nat OBVIOUS
  <2>6. t \in Tasks BY <1>4, <2>1, <2>2, <2>3, <2>4, <2>5 DEF Tasks, Pcs
  <2>7. /\ t.pc = "write" /\ t.seen = rows /\ t.plan = {} /\ t.left = hits /\ t.draft = <<>>
    BY <2>1
  <2>8. Good(t, DOMAIN rows) BY <1>4, <2>4, <2>6, <2>7, GoodPlain
  <2> QED BY <1>4, <1>5, <1>6, <2>7, <2>8, LocalStep
<1>7. CASE ~b
  <2>1. Good(NoTask, DOMAIN rows) /\ NoTask.pc # "restore" BY GoodNoTask
  <2> QED BY <1>4, <1>5, <1>7, <2>1, LocalStep
<1> QED BY <1>6, <1>7

LEMMA RewrittenFacts ==
  ASSUME rows \in Tables, Parked(rows), NEW i \in DOMAIN rows, NEW row \in Row, Fits(i, row.at)
  PROVE  /\ Rewritten(i, row) \in Tables /\ Parked(Rewritten(i, row))
         /\ DOMAIN Rewritten(i, row) = DOMAIN rows
<1>1. PICK u : u = [rows EXCEPT ![i] = row] OBVIOUS
<1>2. Table(rows) /\ rows \in [DOMAIN rows -> Row] BY TableFacts DEF Table
<1>3. /\ DOMAIN u = DOMAIN rows /\ u \in [DOMAIN rows -> Row] /\ u[i] = row
      /\ \A j \in DOMAIN rows \ {i} : u[j] = rows[j]
  BY <1>1, <1>2
<1>4. u \in Tables BY <1>2, <1>3, TableFacts DEF Table
<1>5. Parked(u) BY <1>3 DEF Parked
<1>6. Rewritten(i, row) = IF Distinct(u) THEN u ELSE rows BY <1>1 DEF Rewritten
<1> QED BY <1>3, <1>4, <1>5, <1>6

LEMMA WriteBackStep == ASSUME IInv, NEW c \in Refresher, WriteBack(c) PROVE IInv'
<1>1. PICK r : r = refresh[c] OBVIOUS
<1>2. PICK i : i \in Turn(r) /\ rows' = Rewritten(i, r.seen[i])
               /\ Task(c, [r EXCEPT !.left = @ \ {i}])
  BY <1>1 DEF WriteBack
<1>3. PICK t : t = [r EXCEPT !.left = r.left \ {i}] OBVIOUS
<1>4. /\ Good(r, DOMAIN rows) /\ r \in Tasks /\ ordering \in Ordering
      /\ runs \in 0 .. MaxRuns /\ rows \in Tables /\ Parked(rows) /\ version \in DOMAIN Listing
  BY <1>1, Known
<1>5. /\ r.pc = "write" /\ Unlocked /\ Task(c, t)
      /\ UNCHANGED <<version, ordering, holder, import, runs, edits>>
  BY <1>1, <1>2, <1>3 DEF WriteBack, bounds
<1>6. /\ i \in DOMAIN rows /\ r.seen[i] \in Row /\ Fits(i, r.seen[i].at)
  <2>1. /\ i \in DOMAIN r.seen /\ i \in DOMAIN rows /\ r.seen \in Tables /\ Parked(r.seen)
    BY <1>2, <1>4, Fields DEF Turn, Good
  <2> QED BY <2>1, TableFacts DEF Table, Parked
<1>7. rows' \in Tables /\ Parked(rows') /\ DOMAIN rows' = DOMAIN rows
  BY <1>2, <1>4, <1>6, RewrittenFacts
<1>8. Shared' BY <1>5, <1>7 DEF IInv, Shared
<1>9. t = [pc |-> r.pc, remaps |-> r.remaps, ordering |-> r.ordering,
           listing |-> r.listing, seen |-> r.seen, target |-> r.target,
           plan |-> r.plan, left |-> r.left \ {i}, off |-> r.off,
           claimed |-> r.claimed, draft |-> r.draft]
  <2>1. r = [pc |-> r.pc, remaps |-> r.remaps, ordering |-> r.ordering,
             listing |-> r.listing, seen |-> r.seen, target |-> r.target,
             plan |-> r.plan, left |-> r.left, off |-> r.off,
             claimed |-> r.claimed, draft |-> r.draft]
    BY <1>4, Fields
  <2> QED BY <1>3, <2>1
<1>10. t \in Tasks BY <1>4, <1>9, Fields DEF Tasks
<1>11. /\ t.pc = "write" /\ t.seen = r.seen /\ t.plan = r.plan /\ t.left = r.left \ {i}
       /\ t.draft = r.draft
  BY <1>5, <1>9
<1>12. /\ r.plan \subseteq DOMAIN r.seen /\ r.left \subseteq DOMAIN r.seen
       /\ DOMAIN r.seen \subseteq DOMAIN rows /\ Parked(r.seen) /\ r.draft = <<>>
  BY <1>4, <1>5 DEF Good
<1>13. Good(t, DOMAIN rows') BY <1>7, <1>10, <1>11, <1>12, GoodPlain
<1>14. \A d \in Refresher : refresh[d].pc # "restore" BY <1>5, NobodyRestores
<1> QED BY <1>5, <1>7, <1>8, <1>11, <1>13, <1>14, TaskStep

LEMMA DoneStep == ASSUME IInv, NEW c \in Refresher, Done(c) PROVE IInv'
<1>1. /\ Task(c, NoTask)
      /\ UNCHANGED <<version, rows, ordering, holder, import, runs, edits>>
  BY DEF Done, bounds
<1>2. ordering \in Ordering /\ runs \in 0 .. MaxRuns BY Known
<1>3. Good(NoTask, DOMAIN rows) /\ NoTask.pc # "restore" BY GoodNoTask
<1> QED BY <1>1, <1>2, <1>3, LocalStep

LEMMA SetOrderingStep == ASSUME IInv, NEW o \in Ordering, SetOrdering(o) PROVE IInv'
<1>1. edits < MaxEdits /\ edits' = edits + 1 /\ edits \in 0 .. MaxEdits
  BY DEF SetOrdering, IInv, Shared
<1>2. edits' \in 0 .. MaxEdits BY <1>1, ConstantFacts
<1>3. Shared' BY <1>2 DEF SetOrdering, IInv, Shared
<1> QED BY <1>3, OtherStep DEF SetOrdering

LEMMA NewVersionStep == ASSUME IInv, NewVersion PROVE IInv'
<1>1. version \in DOMAIN Listing /\ version < Len(Listing) /\ version' = version + 1
  BY DEF NewVersion, IInv, Shared
<1>2. version' \in DOMAIN Listing BY <1>1, ConstantFacts
<1>3. Shared' BY <1>2 DEF NewVersion, IInv, Shared, bounds
<1> QED BY <1>3, OtherStep DEF NewVersion

LEMMA ImportReadStep == ASSUME IInv, NEW e \in Episode, ImportRead(e) PROVE IInv'
<1>1. PICK i : i \in Lookup(Aired[e]) /\ import' = [row |-> i, was |-> rows[i], file |-> e]
  BY DEF ImportRead
<1>2. UNCHANGED <<version, rows, ordering, refresh, holder, runs, edits>>
  BY DEF ImportRead, bounds
<1>3. i \in DOMAIN rows BY <1>1 DEF Lookup
<1>4. rows \in Tables /\ Parked(rows) BY DEF IInv, Shared
<1>5. rows[i] \in Row /\ Fits(i, rows[i].at) BY <1>3, <1>4, TableFacts DEF Table, Parked
<1>6. /\ import'.row = i /\ import'.was = rows[i] /\ import'.file = e BY <1>1
<1>7. Shared' BY <1>2, <1>3, <1>5, <1>6 DEF IInv, Shared
<1> QED BY <1>2, <1>7, OtherStep

LEMMA ImportWriteStep == ASSUME IInv, ImportWrite PROVE IInv'
<1>1. PICK w : w = [import.was EXCEPT !.file = import.file] OBVIOUS
<1>2. /\ import # NoImport /\ import' = NoImport /\ rows' = Rewritten(import.row, w)
      /\ UNCHANGED <<version, ordering, refresh, holder, runs, edits>>
  BY <1>1 DEF ImportWrite, bounds
<1>3. /\ import.row \in DOMAIN rows /\ import.was \in Row
      /\ import.file \in Episode /\ Fits(import.row, import.was.at)
      /\ rows \in Tables /\ Parked(rows)
  BY <1>2 DEF IInv, Shared
<1>4. w \in Row /\ w.at = import.was.at
  <2>1. PICK q \in Row : q = import.was BY <1>3
  <2>2. PICK e \in Episode : e = import.file BY <1>3
  <2>3. w = [q EXCEPT !.file = e] BY <1>1, <2>1, <2>2
  <2>4. [q EXCEPT !.file = e] \in Row /\ [q EXCEPT !.file = e].at = q.at BY DEF Row
  <2> QED BY <2>1, <2>3, <2>4
<1>5. rows' \in Tables /\ Parked(rows') /\ DOMAIN rows' = DOMAIN rows
  BY <1>2, <1>3, <1>4, RewrittenFacts
<1>6. Shared' BY <1>2, <1>5 DEF IInv, Shared
<1> QED BY <1>2, <1>5, <1>6, OtherStep

---------------------------------------------------------------------------
(* The transaction of a sync *)

LEMMA EntryFacts ==
  ASSUME NEW r \in Tasks
  PROVE  /\ DOMAIN r.listing \subseteq Nat /\ IsFiniteSet(DOMAIN r.listing)
         /\ \A k \in DOMAIN r.listing : r.listing[k] \in Episode
<1>1. PICK l \in Seq(Episode) : l = r.listing BY Fields
<1>2. DOMAIN l = 1 .. Len(l) /\ Len(l) \in Nat /\ \A k \in DOMAIN l : l[k] \in Episode BY <1>1
<1>3. PICK n \in Nat : n = Len(l) BY <1>2
<1>4. 1 .. n \in SUBSET Nat /\ \A k \in 1 .. n : k <= n BY <1>3
<1>5. IsFiniteSet(1 .. n) BY <1>4, FS_BoundedSetOfNaturals
<1> QED BY <1>1, <1>2, <1>3, <1>4, <1>5

\* An entry that matches a row is written to one of the rows that were read.
LEMMA MatchedRow ==
  ASSUME NEW r \in Tasks, NEW k \in DOMAIN r.listing \ Inserted(r)
  PROVE  RowOf(r, k) \in DOMAIN r.seen
<1>1. PICK ms : ms = Matches(r.seen, r.listing[k]) OBVIOUS
<1>2. ms # {} BY <1>1 DEF Inserted
<1>3. RowOf(r, k) = CHOOSE i \in ms : TRUE BY <1>1, <1>2 DEF RowOf
<1>4. RowOf(r, k) \in ms BY <1>2, <1>3
<1>5. ms \subseteq DOMAIN r.seen BY <1>1 DEF Matches, ById, ByPosition
<1> QED BY <1>4, <1>5

LEMMA OverwrittenRow ==
  ASSUME NEW r \in Tasks, rows \in Tables, NEW i \in DOMAIN rows
  PROVE  Overwritten(r, i) \in Row /\ Overwritten(r, i).at = rows[i].at
<1>1. PICK ks : ks = {k \in DOMAIN r.listing \ Inserted(r) : RowOf(r, k) = i} OBVIOUS
<1>2. PICK q \in Row : q = rows[i] BY TableFacts DEF Table
<1>3. CASE ks = {} BY <1>1, <1>2, <1>3 DEF Overwritten
<1>4. CASE ks # {}
  <2>1. PICK n : n = CHOOSE k \in ks : \A m \in ks : m <= k OBVIOUS
  <2>2. ks \subseteq DOMAIN r.listing /\ ks \subseteq Nat /\ IsFiniteSet(ks)
    <3>1. ks \in SUBSET DOMAIN r.listing BY <1>1
    <3> QED BY <3>1, EntryFacts, FS_Subset
  <2>3. \E k \in ks : \A m \in ks : m <= k BY <1>4, <2>2, Largest
  <2>4. n \in ks BY <2>1, <2>3
  <2>5. PICK e \in Episode : e = r.listing[n] BY <2>2, <2>4, EntryFacts
  <2>6. i \in DOMAIN r.seen BY <1>1, <2>4, MatchedRow
  <2>7. r.seen[i].tvdb \in Nat BY <2>6, Fields, TableFacts DEF Table, Row
  <2>8. PICK x : x = IF Tvdb[e] > 0 THEN Tvdb[e] ELSE r.seen[i].tvdb OBVIOUS
  <2>9. x \in Nat BY <2>7, <2>8, ConstantFacts
  <2>10. Overwritten(r, i) = [q EXCEPT !.tvdb = x, !.title = e]
    BY <1>1, <1>2, <1>4, <2>1, <2>5, <2>8 DEF Overwritten
  <2>11. /\ [q EXCEPT !.tvdb = x, !.title = e] \in Row
         /\ [q EXCEPT !.tvdb = x, !.title = e].at = q.at
    BY <2>9 DEF Row
  <2> QED BY <1>2, <2>10, <2>11
<1> QED BY <1>3, <1>4

LEMMA NewRowFacts ==
  ASSUME NEW e \in Episode
  PROVE  NewRow(e) \in Row /\ NewRow(e).at \in Position
<1>1. PICK x \in Nat : x = Tvdb[e] BY ConstantFacts
<1>2. PICK p \in Position : p = Aired[e] BY ConstantFacts
<1>3. p \in Place /\ Nowhere \in Place BY Places
<1>4. NewRow(e) = [tvdb |-> x, title |-> e, at |-> p, scene |-> Nowhere, file |-> NoFile]
  BY <1>1, <1>2 DEF NewRow
<1> QED BY <1>2, <1>3, <1>4 DEF Row

\* The ids of new rows: the numbers of the rows and of the entries up to this one.
LEMMA NewIds ==
  ASSUME NEW r \in Tasks, IsFiniteSet(DOMAIN rows)
  PROVE  LET new == {RowOf(r, k) : k \in Inserted(r)} IN
         new \subseteq Nat \ {0} /\ IsFiniteSet(new)
<1> DEFINE new == {RowOf(r, k) : k \in Inserted(r)}
           f == [k \in Inserted(r) |-> RowOf(r, k)]
<1>1. Inserted(r) \subseteq DOMAIN r.listing BY DEF Inserted
<1>2. IsFiniteSet(Inserted(r)) /\ Inserted(r) \subseteq Nat
  BY <1>1, EntryFacts, FS_Subset
<1>3. ASSUME NEW k \in Inserted(r) PROVE RowOf(r, k) \in Nat \ {0}
  <2>1. PICK ahead : ahead = {m \in 1 .. k : Matches(r.seen, r.listing[m]) = {}} OBVIOUS
  <2>2. k \in Nat /\ k # 0
    <3>1. r.listing \in Seq(Episode) BY Fields
    <3>2. DOMAIN r.listing = 1 .. Len(r.listing) /\ Len(r.listing) \in Nat BY <3>1
    <3> QED BY <1>1, <3>2
  <2>3. k \in ahead BY <2>1, <2>2 DEF Inserted
  <2>4. ahead \in SUBSET Nat /\ \A m \in ahead : m <= k BY <2>1, <2>2
  <2>5. IsFiniteSet(ahead) BY <2>2, <2>4, FS_BoundedSetOfNaturals
  <2>6. Cardinality(ahead) \in Nat /\ Cardinality(ahead) # 0
    BY <2>3, <2>5, FS_CardinalityType, FS_EmptySet
  <2>7. Cardinality(DOMAIN rows) \in Nat BY FS_CardinalityType
  <2>8. RowOf(r, k) = Cardinality(DOMAIN rows) + Cardinality(ahead)
    BY <2>1 DEF RowOf, Inserted
  <2> QED BY <2>6, <2>7, <2>8
<1>4. f \in Surjection(Inserted(r), new) BY DEF Surjection
<1>5. IsFiniteSet(new)
  <2> HIDE DEF f, new
  <2> QED BY <1>2, <1>4, FS_Surjection
<1> QED BY <1>3, <1>5

LEMMA SyncedTable ==
  ASSUME NEW r \in Tasks, rows \in Tables, Parked(rows)
  PROVE  /\ Synced(r) \in Tables /\ Parked(Synced(r))
         /\ DOMAIN rows \subseteq DOMAIN Synced(r)
<1>1. DOMAIN rows \subseteq Nat \ {0} /\ IsFiniteSet(DOMAIN rows) BY TableFacts DEF Table
<1>2. PICK new : new = {RowOf(r, k) : k \in Inserted(r)} OBVIOUS
<1>3. new \subseteq Nat \ {0} /\ IsFiniteSet(new) BY <1>1, <1>2, NewIds
<1>4. PICK u : u = Synced(r) OBVIOUS
<1>5. DOMAIN u = DOMAIN rows \cup new /\ u = [i \in DOMAIN rows \cup new |-> u[i]]
  BY <1>2, <1>4 DEF Synced
<1>6. ASSUME NEW i \in DOMAIN rows PROVE u[i] \in Row /\ Fits(i, u[i].at)
  <2>1. u[i] = Overwritten(r, i) BY <1>4 DEF Synced
  <2>2. Overwritten(r, i) \in Row /\ Overwritten(r, i).at = rows[i].at BY OverwrittenRow
  <2> QED BY <2>1, <2>2 DEF Parked
<1>7. ASSUME NEW i \in new \ DOMAIN rows PROVE u[i] \in Row /\ Fits(i, u[i].at)
  <2>1. PICK n : n = CHOOSE k \in Inserted(r) : RowOf(r, k) = i OBVIOUS
  <2>2. \E k \in Inserted(r) : RowOf(r, k) = i BY <1>2
  <2>3. n \in Inserted(r) BY <2>1, <2>2
  <2>4. n \in DOMAIN r.listing BY <2>3 DEF Inserted
  <2>5. PICK e \in Episode : e = r.listing[n] BY <2>4, EntryFacts
  <2>6. u[i] = NewRow(e) BY <1>2, <1>4, <2>1, <2>5 DEF Synced
  <2>7. NewRow(e) \in Row /\ NewRow(e).at \in Position BY NewRowFacts
  <2> QED BY <2>6, <2>7 DEF Fits
<1>8. u \in [DOMAIN u -> Row] BY <1>5, <1>6, <1>7
<1>9. DOMAIN u \subseteq Nat \ {0} BY <1>1, <1>3, <1>5
<1>10. IsFiniteSet(DOMAIN u) BY <1>1, <1>3, <1>5, FS_Union
<1>11. u \in Tables BY <1>8, <1>9, <1>10, TableFacts DEF Table
<1>12. Parked(u) BY <1>5, <1>6, <1>7 DEF Parked
<1> QED BY <1>4, <1>5, <1>11, <1>12

LEMMA SyncStep == ASSUME IInv, NEW c \in Refresher, Sync(c) PROVE IInv'
<1>1. PICK r : r = refresh[c] OBVIOUS
<1>2. PICK go : go = IF r.remaps /\ r.ordering # "aired" THEN "order" ELSE "rate" OBVIOUS
<1>3. PICK t : t = [r EXCEPT !.pc = go, !.listing = <<>>, !.seen = <<>>] OBVIOUS
<1>4. /\ Good(r, DOMAIN rows) /\ r \in Tasks /\ ordering \in Ordering
      /\ runs \in 0 .. MaxRuns /\ rows \in Tables /\ Parked(rows) /\ version \in DOMAIN Listing
  BY <1>1, Known
<1>5. /\ r.pc = "sync" /\ Unlocked
      /\ IF Distinct(Synced(r)) THEN rows' = Synced(r) /\ Task(c, t)
                                ELSE Task(c, NoTask) /\ rows' = rows
      /\ UNCHANGED <<version, ordering, holder, import, runs, edits>>
  BY <1>1, <1>2, <1>3 DEF Sync, bounds
<1>6. \A d \in Refresher : refresh[d].pc # "restore" BY <1>5, NobodyRestores
<1>7. CASE ~Distinct(Synced(r))
  <2>1. Good(NoTask, DOMAIN rows) /\ NoTask.pc # "restore" BY GoodNoTask
  <2> QED BY <1>4, <1>5, <1>7, <2>1, LocalStep
<1>8. CASE Distinct(Synced(r))
  <2>1. /\ rows' \in Tables /\ Parked(rows') /\ DOMAIN rows \subseteq DOMAIN rows'
    BY <1>4, <1>5, <1>8, SyncedTable
  <2>2. Shared' BY <1>5, <2>1 DEF IInv, Shared
  <2>3. t = [pc |-> go, remaps |-> r.remaps, ordering |-> r.ordering,
             listing |-> <<>>, seen |-> <<>>, target |-> r.target,
             plan |-> r.plan, left |-> r.left, off |-> r.off,
             claimed |-> r.claimed, draft |-> r.draft]
    <3>1. r = [pc |-> r.pc, remaps |-> r.remaps, ordering |-> r.ordering,
               listing |-> r.listing, seen |-> r.seen, target |-> r.target,
               plan |-> r.plan, left |-> r.left, off |-> r.off,
               claimed |-> r.claimed, draft |-> r.draft]
      BY <1>4, Fields
    <3> QED BY <1>3, <3>1
  <2>4. <<>> \in Seq(Episode) /\ <<>> \in Tables /\ go \in Pcs BY <1>2, NoTable DEF Pcs
  <2>5. t \in Tasks BY <1>4, <2>3, <2>4, Fields DEF Tasks
  <2>6. r.plan = {} /\ r.left = {} /\ r.draft = <<>> BY <1>4, <1>5 DEF Good
  <2>7. /\ t.pc \in {"order", "rate"} /\ t.seen = <<>> /\ t.plan = {} /\ t.left = {}
        /\ t.draft = <<>>
        /\ t.pc = "order" => t.ordering # "aired"
    BY <1>2, <2>3, <2>6
  <2>8. DOMAIN t.seen = {} /\ Parked(t.seen) /\ Parked(t.draft) BY <2>7, NoTable
  <2>9. t.pc \notin {"fetch", "preload", "sync", "begin", "restore"} BY <2>7
  <2>10. Good(t, DOMAIN rows') BY <2>5, <2>7, <2>8, <2>9 DEF Good
  <2> QED BY <1>5, <1>6, <1>8, <2>1, <2>2, <2>7, <2>10, TaskStep
<1> QED BY <1>7, <1>8

---------------------------------------------------------------------------
(* The invariant *)

LEMMA Initially == ASSUME Init PROVE IInv
<1>1. PICK l \in Seq(Episode) : l = Listing[1] BY ConstantFacts
<1>2. DOMAIN l = 1 .. Len(l) /\ Len(l) \in Nat /\ \A k \in DOMAIN l : l[k] \in Episode BY <1>1
<1>3. PICK n \in Nat : n = Len(l) BY <1>2
<1>4. 1 .. n \in SUBSET Nat /\ (\A k \in 1 .. n : k <= n) /\ 1 .. n \subseteq Nat \ {0}
  BY <1>3
<1>5. IsFiniteSet(1 .. n) BY <1>4, FS_BoundedSetOfNaturals
<1>6. rows = [k \in 1 .. n |-> NewRow(l[k])] BY <1>1, <1>2, <1>3 DEF Init
<1>7. \A k \in 1 .. n : NewRow(l[k]) \in Row /\ Fits(k, NewRow(l[k]).at)
  BY <1>2, <1>3, NewRowFacts DEF Fits
<1>8. DOMAIN rows = 1 .. n /\ rows \in [1 .. n -> Row] BY <1>6, <1>7
<1>9. rows \in Tables BY <1>4, <1>5, <1>8, TableFacts DEF Table
<1>10. Parked(rows) BY <1>6, <1>7, <1>8 DEF Parked
<1>11. Shared
  <2>1. 1 \in DOMAIN Listing /\ 0 \in 0 .. MaxRuns /\ 0 \in 0 .. MaxEdits BY ConstantFacts
  <2> QED BY <1>9, <1>10, <2>1 DEF Init, Shared
<1>12. Refreshes
  <2>1. refresh = [c \in Refresher |-> NoTask] BY DEF Init
  <2>2. Good(NoTask, DOMAIN rows) /\ NoTask.pc = "idle" BY GoodNoTask
  <2> QED BY <2>1, <2>2 DEF Refreshes
<1> QED BY <1>11, <1>12 DEF IInv

LEMMA Inductive == IInv /\ [Next]_vars => IInv'
<1> SUFFICES ASSUME IInv, [Next]_vars PROVE IInv' OBVIOUS
<1>1. ASSUME NEW c \in Refresher, NEW b \in BOOLEAN,
             Start(c, b) \/ Fetch(c, b) \/ FetchOrder(c, b) \/ Rate(c, b)
      PROVE  IInv'
  BY <1>1, StartStep, FetchStep, FetchOrderStep, RateStep
<1>2. ASSUME NEW c \in Refresher,
             \/ Preload(c) \/ Sync(c) \/ Plan(c) \/ Begin(c) \/ Bump(c) \/ Restore(c)
             \/ Commit(c) \/ WriteBack(c) \/ Done(c)
      PROVE  IInv'
  BY <1>2, PreloadStep, SyncStep, PlanStep, BeginStep, BumpStep, RestoreStep, CommitStep,
     WriteBackStep, DoneStep
<1>3. ASSUME NEW o \in Ordering, SetOrdering(o) PROVE IInv' BY <1>3, SetOrderingStep
<1>4. ASSUME NEW e \in Episode, ImportRead(e) PROVE IInv' BY <1>4, ImportReadStep
<1>5. CASE NewVersion BY <1>5, NewVersionStep
<1>6. CASE ImportWrite BY <1>6, ImportWriteStep
<1>7. CASE UNCHANGED vars BY <1>7 DEF vars, bounds, IInv, Shared, Refreshes
<1> QED BY <1>1, <1>2, <1>3, <1>4, <1>5, <1>6, <1>7 DEF Next

\* Rows are at a season and a number or parked by their own id, and what a remap has
\* placed is at claimed positions, in every reachable state.
THEOREM Invariance == Spec => []IInv
<1>1. Init => IInv BY Initially
<1> QED BY <1>1, Inductive, PTL DEF Spec

---------------------------------------------------------------------------
(* What the runs check *)

\* Every variable has its type: a refresh never plans or restores a row that it has not
\* read, and its tables are finite.
THEOREM TypeCorrect == Spec => []TypeOK
<1>1. ASSUME IInv PROVE TypeOK
  <2>1. /\ version \in DOMAIN Listing /\ ordering \in Ordering /\ Table(rows)
        /\ holder \in Refresher \cup {NoOne} /\ runs \in 0 .. MaxRuns /\ edits \in 0 .. MaxEdits
    BY <1>1, TableFacts DEF IInv, Shared
  <2>2. ASSUME NEW c \in Refresher
        PROVE  LET t == refresh[c] IN
               /\ t.pc \in {"idle", "fetch", "preload", "sync", "order", "plan", "begin",
                           "restore", "rate", "write"}
               /\ t.ordering \in Ordering /\ Table(t.seen) /\ Table(t.draft)
               /\ t.plan \subseteq DOMAIN t.seen /\ t.left \subseteq DOMAIN t.seen
               /\ t.off \in Nat /\ t.claimed \subseteq Place
    <3>1. PICK t : t = refresh[c] OBVIOUS
    <3>2. Good(t, DOMAIN rows) /\ t \in Tasks BY <1>1, <3>1, Known
    <3> QED BY <3>1, <3>2, Fields, TableFacts DEF Good, Pcs
  <2> QED BY <2>1, <2>2 DEF TypeOK
<1> QED BY <1>1, Invariance, PTL

\* The unique index on the positions holds at every moment of a remap's transaction,
\* for every ordering and whatever was read before it.
THEOREM RemapKeepsIndex == Spec => []RemapFits
<1>1. ASSUME IInv PROVE RemapFits
  <2>1. ASSUME NEW c \in Refresher PROVE Distinct(refresh[c].draft)
    <3>1. PICK t : t = refresh[c] OBVIOUS
    <3>2. Good(t, DOMAIN rows) BY <1>1, <3>1, Known
    <3>3. Distinct(t.draft) BY <3>2, NoTable DEF Good, Drafted
    <3> QED BY <3>1, <3>3
  <2> QED BY <2>1 DEF RemapFits
<1> QED BY <1>1, Invariance, PTL

\* A row that was read at a season and a number has one again as soon as the
\* transaction has come to it.
THEOREM NothingStaysParked == Spec => []WhatWasReadIsRestored
<1>1. ASSUME IInv PROVE WhatWasReadIsRestored
  <2>1. ASSUME NEW c \in Refresher, refresh[c].pc = "restore",
               NEW i \in DOMAIN refresh[c].seen \ refresh[c].left,
               refresh[c].seen[i].at \in Position
        PROVE  refresh[c].draft[i].at \in Position
    <3>1. PICK t : t = refresh[c] OBVIOUS
    <3>2. Good(t, DOMAIN rows) BY <1>1, <3>1, Known
    <3>3. Drafted(t, DOMAIN rows) BY <2>1, <3>1, <3>2 DEF Good
    <3> QED BY <2>1, <3>1, <3>3 DEF Drafted
  <2> QED BY <2>1 DEF WhatWasReadIsRestored
<1> QED BY <1>1, Invariance, PTL

---------------------------------------------------------------------------
(* Which episode a row stands for *)

\* The metadata tells every episode's TVDB id, and no id twice.
Identified ==
  /\ \A e \in Episode : Tvdb[e] > 0
  /\ \A e, f \in Episode : Tvdb[e] = Tvdb[f] => e = f

\* What a sync would add is at positions where it has seen no row: the match by position
\* finds nothing that the match by id does not find.
FreshPositionsFree ==
  \A c \in Refresher : refresh[c].pc = "sync" =>
    \A k \in DOMAIN refresh[c].listing :
      ById(refresh[c].seen, refresh[c].listing[k]) = {} =>
        ByPosition(refresh[c].seen, refresh[c].listing[k]) = {}

\* What was copied from the table still tells the same episodes.
Agrees(t, table) ==
  \A i \in DOMAIN t : /\ i \in DOMAIN table
                      /\ t[i].title = table[i].title /\ t[i].tvdb = table[i].tvdb
Told(t) == \A i \in DOMAIN t : t[i].title \in Episode /\ t[i].tvdb = Tvdb[t[i].title]
Dense(t) == \A i \in DOMAIN t : i <= Cardinality(DOMAIN t)

Named ==
  /\ Told(rows) /\ Dense(rows)
  /\ \A c \in Refresher : Agrees(refresh[c].seen, rows) /\ Agrees(refresh[c].draft, rows)
  /\ import # NoImport => /\ import.was.title = rows[import.row].title
                          /\ import.was.tvdb = rows[import.row].tvdb

LEMMA AgreesTransitive ==
  ASSUME NEW t, NEW u, NEW w, Agrees(t, u), Agrees(u, w) PROVE Agrees(t, w)
  BY DEF Agrees

LEMMA AgreesPlain == ASSUME NEW t PROVE Agrees(t, t) /\ Agrees(<<>>, t)
<1>1. DOMAIN <<>> = {} OBVIOUS
<1> QED BY <1>1 DEF Agrees

\* A step of one task leaves the others.
LEMMA AfterTask ==
  ASSUME IInv, NEW c \in Refresher, NEW t, Task(c, t)
  PROVE  refresh'[c] = t /\ \A d \in Refresher \ {c} : refresh'[d] = refresh[d]
  BY DEF IInv, Refreshes, Task

LEMMA Rewriting ==
  ASSUME NEW i \in DOMAIN rows, NEW row, row.title = rows[i].title, row.tvdb = rows[i].tvdb
  PROVE  Agrees(rows, Rewritten(i, row)) /\ DOMAIN Rewritten(i, row) = DOMAIN rows
  BY DEF Rewritten, Agrees

\* An entry is written only to rows that stand for its episode.
LEMMA MatchesTell ==
  ASSUME Identified, NEW r \in Tasks, Told(r.seen),
         NEW k \in DOMAIN r.listing,
         ById(r.seen, r.listing[k]) = {} => ByPosition(r.seen, r.listing[k]) = {}
  PROVE  /\ k \in Inserted(r) \/ k \notin Inserted(r)
         /\ k \notin Inserted(r) => /\ RowOf(r, k) \in DOMAIN r.seen
                                    /\ r.seen[RowOf(r, k)].title = r.listing[k]
<1>1. PICK e \in Episode : e = r.listing[k] BY EntryFacts
<1>2. ASSUME k \notin Inserted(r)
      PROVE  RowOf(r, k) \in DOMAIN r.seen /\ r.seen[RowOf(r, k)].title = e
  <2>1. PICK ms : ms = Matches(r.seen, e) OBVIOUS
  <2>2. ms # {} BY <1>1, <1>2, <2>1 DEF Inserted
  <2>3. RowOf(r, k) \in ms BY <1>1, <2>1, <2>2 DEF RowOf
  <2>4. ms = ById(r.seen, e) BY <1>1, <2>1, <2>2 DEF Matches
  <2>5. PICK i : i = RowOf(r, k) OBVIOUS
  <2>6. i \in DOMAIN r.seen /\ r.seen[i].tvdb = Tvdb[e] BY <2>3, <2>4, <2>5 DEF ById
  <2>7. r.seen[i].title = e BY <1>1, <2>6 DEF Told, Identified
  <2> QED BY <2>5, <2>6, <2>7
<1> QED BY <1>1, <1>2

\* ... so overwriting a row leaves its episode.
LEMMA OverwritingTells ==
  ASSUME Identified, NEW r \in Tasks, rows \in Tables, Told(rows), Agrees(r.seen, rows),
         \A k \in DOMAIN r.listing :
           ById(r.seen, r.listing[k]) = {} => ByPosition(r.seen, r.listing[k]) = {},
         NEW i \in DOMAIN rows
  PROVE  /\ Overwritten(r, i).title = rows[i].title
         /\ Overwritten(r, i).tvdb = rows[i].tvdb
<1>1. PICK ks : ks = {k \in DOMAIN r.listing \ Inserted(r) : RowOf(r, k) = i} OBVIOUS
<1>2. PICK q \in Row : q = rows[i] BY TableFacts DEF Table
<1>3. CASE ks = {} BY <1>1, <1>3 DEF Overwritten
<1>4. CASE ks # {}
  <2>1. PICK n : n = CHOOSE k \in ks : \A m \in ks : m <= k OBVIOUS
  <2>2. ks \subseteq DOMAIN r.listing /\ ks \subseteq Nat /\ IsFiniteSet(ks)
    <3>1. ks \in SUBSET DOMAIN r.listing BY <1>1
    <3> QED BY <3>1, EntryFacts, FS_Subset
  <2>3. \E k \in ks : \A m \in ks : m <= k BY <1>4, <2>2, Largest
  <2>4. n \in ks BY <2>1, <2>3
  <2>5. PICK e \in Episode : e = r.listing[n] BY <2>2, <2>4, EntryFacts
  <2>6. Told(r.seen) BY DEF Told, Agrees
  <2>7. i \in DOMAIN r.seen /\ r.seen[i].title = e
    BY <1>1, <2>2, <2>4, <2>5, <2>6, MatchesTell
  <2>8. q.title = e /\ q.tvdb = Tvdb[e] /\ Tvdb[e] > 0
    BY <1>2, <2>7 DEF Agrees, Told, Identified
  <2>9. Overwritten(r, i) = [q EXCEPT !.tvdb = Tvdb[e], !.title = e]
    BY <1>1, <1>2, <1>4, <2>1, <2>5, <2>8 DEF Overwritten
  <2>10. /\ [q EXCEPT !.tvdb = Tvdb[e], !.title = e].title = e
         /\ [q EXCEPT !.tvdb = Tvdb[e], !.title = e].tvdb = Tvdb[e]
    BY DEF Row
  <2> QED BY <1>2, <2>8, <2>9, <2>10
<1> QED BY <1>3, <1>4

\* The rows that a sync adds have ids of their own, one for each entry.
LEMMA NewIdsApart ==
  ASSUME NEW r \in Tasks, rows \in Tables, Dense(rows)
  PROVE  /\ \A k \in Inserted(r) : RowOf(r, k) \notin DOMAIN rows
         /\ \A k, m \in Inserted(r) : RowOf(r, k) = RowOf(r, m) => k = m
         /\ \A k \in Inserted(r) :
              RowOf(r, k) <= Cardinality(DOMAIN rows) + Cardinality(Inserted(r))
         /\ IsFiniteSet(Inserted(r))
<1> DEFINE ahead(k) == {m \in 1 .. k : Matches(r.seen, r.listing[m]) = {}}
<1>1. DOMAIN rows \subseteq Nat /\ IsFiniteSet(DOMAIN rows) BY TableFacts DEF Table
<1>2. PICK n \in Nat : n = Cardinality(DOMAIN rows) BY <1>1, FS_CardinalityType
<1>3. PICK len \in Nat : DOMAIN r.listing = 1 .. len
  <2>1. r.listing \in Seq(Episode) BY Fields
  <2> QED BY <2>1
<1>4. Inserted(r) \subseteq 1 .. len BY <1>3 DEF Inserted
<1>5. IsFiniteSet(Inserted(r)) BY <1>3, <1>4, EntryFacts, FS_Subset
<1>6. ASSUME NEW k \in Inserted(r)
      PROVE  /\ RowOf(r, k) = n + Cardinality(ahead(k))
             /\ ahead(k) \in SUBSET Inserted(r) /\ IsFiniteSet(ahead(k)) /\ k \in ahead(k)
             /\ Cardinality(ahead(k)) \in Nat \ {0}
             /\ Cardinality(ahead(k)) <= Cardinality(Inserted(r))
  <2>1. k \in 1 .. len BY <1>4
  <2>2. ahead(k) \in SUBSET Inserted(r) BY <1>3, <2>1 DEF Inserted
  <2>3. k \in ahead(k) BY <2>1 DEF Inserted
  <2>4. IsFiniteSet(ahead(k)) /\ Cardinality(ahead(k)) <= Cardinality(Inserted(r))
    BY <1>5, <2>2, FS_Subset
  <2>5. Cardinality(ahead(k)) \in Nat \ {0} BY <2>3, <2>4, FS_CardinalityType, FS_EmptySet
  <2>6. RowOf(r, k) = n + Cardinality(ahead(k)) BY <1>2 DEF RowOf, Inserted
  <2> QED BY <2>2, <2>3, <2>4, <2>5, <2>6
<1>7. ASSUME NEW k \in Inserted(r), NEW m \in Inserted(r), k < m
      PROVE  RowOf(r, k) # RowOf(r, m)
  <2>1. k \in 1 .. len /\ m \in 1 .. len BY <1>4
  <2>2. ahead(k) \in SUBSET ahead(m) /\ m \notin ahead(k) BY <1>7, <2>1
  <2>3. ahead(k) # ahead(m) BY <1>6, <2>2
  <2>4. /\ IsFiniteSet(ahead(m)) /\ Cardinality(ahead(k)) \in Nat
        /\ Cardinality(ahead(m)) \in Nat
        /\ RowOf(r, k) = n + Cardinality(ahead(k))
        /\ RowOf(r, m) = n + Cardinality(ahead(m))
    BY <1>6
  <2> HIDE DEF ahead
  <2>5. Cardinality(ahead(k)) # Cardinality(ahead(m)) BY <2>2, <2>3, <2>4, FS_Subset
  <2> QED BY <2>4, <2>5
<1> HIDE DEF ahead
<1>8. ASSUME NEW k \in Inserted(r), NEW m \in Inserted(r), RowOf(r, k) = RowOf(r, m)
      PROVE  k = m
  <2>1. k \in Nat /\ m \in Nat BY <1>4
  <2>2. k < m \/ m < k \/ k = m BY <2>1
  <2> QED BY <1>7, <1>8, <2>2
<1>9. ASSUME NEW k \in Inserted(r) PROVE RowOf(r, k) \notin DOMAIN rows
  <2>1. \A i \in DOMAIN rows : i <= n BY <1>2 DEF Dense
  <2>2. PICK a \in Nat \ {0} : RowOf(r, k) = n + a BY <1>6
  <2>3. ~(n + a <= n) BY <2>2
  <2> QED BY <2>1, <2>2, <2>3
<1>10. ASSUME NEW k \in Inserted(r)
       PROVE  RowOf(r, k) <= Cardinality(DOMAIN rows) + Cardinality(Inserted(r))
  <2>1. PICK a \in Nat : a = Cardinality(ahead(k)) BY <1>6
  <2>2. PICK b \in Nat : b = Cardinality(Inserted(r)) BY <1>5, FS_CardinalityType
  <2>3. RowOf(r, k) = n + a /\ a <= b BY <1>6, <2>1, <2>2
  <2> QED BY <1>2, <2>2, <2>3
<1> QED BY <1>5, <1>8, <1>9, <1>10

\* What a sync makes of the table: no row comes to stand for another episode, and every
\* entry has a row.
LEMMA SyncTells ==
  ASSUME Identified, NEW r \in Tasks, rows \in Tables, Told(rows), Dense(rows),
         Agrees(r.seen, rows),
         \A k \in DOMAIN r.listing :
           ById(r.seen, r.listing[k]) = {} => ByPosition(r.seen, r.listing[k]) = {}
  PROVE  /\ Agrees(rows, Synced(r)) /\ Told(Synced(r)) /\ Dense(Synced(r))
         /\ \A k \in DOMAIN r.listing :
              \E i \in DOMAIN Synced(r) : Synced(r)[i].title = r.listing[k]
<1>1. PICK new : new = {RowOf(r, k) : k \in Inserted(r)} OBVIOUS
<1>2. PICK u : u = Synced(r) OBVIOUS
<1>3. DOMAIN u = DOMAIN rows \cup new BY <1>1, <1>2 DEF Synced
<1>4. \A i \in DOMAIN rows : u[i].title = rows[i].title /\ u[i].tvdb = rows[i].tvdb
  BY <1>2, OverwritingTells DEF Synced
<1>5. ASSUME NEW k \in Inserted(r)
      PROVE  /\ RowOf(r, k) \in new \ DOMAIN rows
             /\ u[RowOf(r, k)] = NewRow(r.listing[k])
  <2>1. PICK i : i = RowOf(r, k) OBVIOUS
  <2>2. i \in new /\ i \notin DOMAIN rows BY <1>1, <2>1, NewIdsApart
  <2>3. u[i] = NewRow(r.listing[CHOOSE m \in Inserted(r) : RowOf(r, m) = i])
    BY <1>1, <1>2, <2>2 DEF Synced
  <2>4. (CHOOSE m \in Inserted(r) : RowOf(r, m) = i) = k
    <3>1. PICK w : w = CHOOSE m \in Inserted(r) : RowOf(r, m) = i OBVIOUS
    <3>2. w \in Inserted(r) /\ RowOf(r, w) = i BY <2>1, <3>1
    <3>3. w = k BY <2>1, <3>2, NewIdsApart
    <3> QED BY <3>1, <3>3
  <2> QED BY <2>1, <2>2, <2>3, <2>4
<1>6. \A e \in Episode : NewRow(e).title = e /\ NewRow(e).tvdb = Tvdb[e] BY DEF NewRow
<1>7. Inserted(r) \subseteq DOMAIN r.listing BY DEF Inserted
<1>8. Agrees(rows, u) BY <1>3, <1>4 DEF Agrees
<1>9. Told(u)
  <2>1. ASSUME NEW i \in DOMAIN u PROVE u[i].title \in Episode /\ u[i].tvdb = Tvdb[u[i].title]
    <3>1. CASE i \in DOMAIN rows BY <1>4, <3>1 DEF Told
    <3>2. CASE i \notin DOMAIN rows
      <4>1. PICK k \in Inserted(r) : i = RowOf(r, k) BY <1>1, <1>3, <3>2
      <4>2. r.listing[k] \in Episode BY <1>7, <4>1, EntryFacts
      <4> QED BY <1>5, <1>6, <4>1, <4>2
    <3> QED BY <3>1, <3>2
  <2> QED BY <2>1 DEF Told
<1>10. Dense(u)
  <2>1. IsFiniteSet(DOMAIN rows) /\ DOMAIN rows \subseteq Nat BY TableFacts DEF Table
  <2>2. new \subseteq Nat \ {0} /\ IsFiniteSet(new) BY <1>1, <2>1, NewIds
  <2>3. Cardinality(new) = Cardinality(Inserted(r))
    <3> DEFINE f == [k \in Inserted(r) |-> RowOf(r, k)]
    <3>1. f \in Surjection(Inserted(r), new) BY <1>1 DEF Surjection
    <3>4. f \in [Inserted(r) -> new] BY <1>1
    <3>5. ASSUME NEW k \in Inserted(r), NEW m \in Inserted(r), f[k] = f[m] PROVE k = m
      BY <3>5, NewIdsApart
    <3>2. f \in Injection(Inserted(r), new)
      <4> HIDE DEF f
      <4> QED BY <3>4, <3>5 DEF Injection, IsInjective
    <3>3. IsFiniteSet(Inserted(r)) BY NewIdsApart
    <3> HIDE DEF f
    <3> QED BY <3>1, <3>2, <3>3, FS_Surjection
  <2>4. DOMAIN rows \cap new = {} BY <1>1, NewIdsApart
  <2>5. Cardinality(DOMAIN u) = Cardinality(DOMAIN rows) + Cardinality(Inserted(r))
    <3>1. Cardinality(DOMAIN rows) \in Nat /\ Cardinality(new) \in Nat
      BY <2>1, <2>2, FS_CardinalityType
    <3>2. Cardinality(DOMAIN rows \cap new) = 0 BY <2>4, FS_EmptySet
    <3> QED BY <1>3, <2>1, <2>2, <2>3, <3>1, <3>2, FS_Union
  <2>6. ASSUME NEW i \in DOMAIN u PROVE i <= Cardinality(DOMAIN u)
    <3>1. PICK a \in Nat : a = Cardinality(DOMAIN rows) BY <2>1, FS_CardinalityType
    <3>2. PICK b \in Nat : b = Cardinality(Inserted(r)) BY <2>2, <2>3, FS_CardinalityType
    <3>3. CASE i \in DOMAIN rows
      <4>1. i <= a /\ i \in Nat BY <2>1, <3>1, <3>3 DEF Dense
      <4> QED BY <2>5, <3>1, <3>2, <4>1
    <3>4. CASE i \notin DOMAIN rows
      <4>1. PICK k \in Inserted(r) : i = RowOf(r, k) BY <1>1, <1>3, <3>4
      <4> QED BY <2>5, <4>1, NewIdsApart
    <3> QED BY <3>3, <3>4
  <2> QED BY <2>6 DEF Dense
<1>11. ASSUME NEW k \in DOMAIN r.listing PROVE \E i \in DOMAIN u : u[i].title = r.listing[k]
  <2>1. CASE k \in Inserted(r)
    <3>1. r.listing[k] \in Episode BY EntryFacts
    <3> QED BY <1>3, <1>5, <1>6, <2>1, <3>1
  <2>2. CASE k \notin Inserted(r)
    <3>1. Told(r.seen) BY DEF Told, Agrees
    <3>2. PICK i : i = RowOf(r, k) OBVIOUS
    <3>3. i \in DOMAIN r.seen /\ r.seen[i].title = r.listing[k]
      BY <2>2, <3>1, <3>2, MatchesTell
    <3>4. i \in DOMAIN rows /\ r.seen[i].title = rows[i].title BY <3>3 DEF Agrees
    <3> QED BY <1>3, <1>4, <3>3, <3>4
  <2> QED BY <2>1, <2>2
<1> QED BY <1>2, <1>8, <1>9, <1>10, <1>11

\* A step of one task keeps the names when its copies agree with the table it found and
\* the table goes on to tell the same episodes.
LEMMA NamedTask ==
  ASSUME IInv, Named, NEW c \in Refresher, NEW t, Task(c, t),
         Agrees(t.seen, rows), Agrees(t.draft, rows),
         Agrees(rows, rows'), Told(rows'), Dense(rows'), UNCHANGED import
  PROVE  Named'
<1>1. ASSUME NEW d \in Refresher
      PROVE  Agrees(refresh'[d].seen, rows') /\ Agrees(refresh'[d].draft, rows')
  <2>1. CASE d = c BY <2>1, AfterTask, AgreesTransitive
  <2>2. CASE d # c
    <3>1. refresh'[d] = refresh[d] BY <2>2, AfterTask
    <3>2. Agrees(refresh[d].seen, rows) /\ Agrees(refresh[d].draft, rows) BY DEF Named
    <3> QED BY <3>1, <3>2, AgreesTransitive
  <2> QED BY <2>1, <2>2
<1>2. import # NoImport => /\ import.was.title = rows'[import.row].title
                           /\ import.was.tvdb = rows'[import.row].tvdb
  BY DEF IInv, Shared, Named, Agrees
<1> QED BY <1>1, <1>2 DEF Named

LEMMA NamedLocal ==
  ASSUME IInv, Named, NEW c \in Refresher, NEW t, Task(c, t),
         Agrees(t.seen, rows), Agrees(t.draft, rows), UNCHANGED <<rows, import>>
  PROVE  Named'
<1>1. Agrees(rows, rows') /\ Told(rows') /\ Dense(rows') BY AgreesPlain DEF Named
<1> QED BY <1>1, NamedTask

LEMMA BlankFields ==
  /\ NoTask.seen = <<>> /\ NoTask.draft = <<>> /\ NoTask.listing = <<>> /\ NoTask.target = <<>>
  /\ NoTask.off = 0 /\ NoTask.pc = "idle" /\ NoTask.claimed = {} /\ NoTask.plan = {}
  /\ NoTask.left = {}
  BY DEF NoTask

LEMMA NamedNoTask ==
  ASSUME IInv, Named, NEW c \in Refresher, Task(c, NoTask), UNCHANGED <<rows, import>>
  PROVE  Named'
<1>1. Agrees(NoTask.seen, rows) /\ Agrees(NoTask.draft, rows) BY BlankFields, AgreesPlain
<1> QED BY <1>1, NamedLocal

\* Every step but those of a sync, a commit and the writes of whole rows leaves the table.
LEMMA NamedCopies ==
  ASSUME IInv, Named, NEW c \in Refresher,
         \/ \E b \in BOOLEAN : Start(c, b) \/ Fetch(c, b) \/ FetchOrder(c, b) \/ Rate(c, b)
         \/ Preload(c) \/ Plan(c) \/ Bump(c) \/ Done(c)
  PROVE  Named'
<1>1. PICK r : r = refresh[c] OBVIOUS
<1>2. r \in Tasks /\ Agrees(r.seen, rows) /\ Agrees(r.draft, rows) BY <1>1, Known DEF Named
<1>3. r = [pc |-> r.pc, remaps |-> r.remaps, ordering |-> r.ordering,
           listing |-> r.listing, seen |-> r.seen, target |-> r.target,
           plan |-> r.plan, left |-> r.left, off |-> r.off,
           claimed |-> r.claimed, draft |-> r.draft]
  BY <1>2, Fields
<1>4. Agrees(rows, rows) /\ Agrees(<<>>, rows) BY AgreesPlain
<1>5. CASE \E b \in BOOLEAN : Start(c, b)
  <2>1. PICK b \in BOOLEAN : Start(c, b) BY <1>5
  <2>2. PICK t : t = [NoTask EXCEPT !.pc = "fetch", !.remaps = b, !.ordering = ordering] OBVIOUS
  <2>3. Task(c, t) /\ UNCHANGED <<rows, import>> BY <2>1, <2>2 DEF Start
  <2>4. t.seen = <<>> /\ t.draft = <<>> BY <2>2 DEF NoTask
  <2> QED BY <1>4, <2>3, <2>4, NamedLocal
<1>6. CASE \E b \in BOOLEAN : Fetch(c, b)
  <2>1. PICK b \in BOOLEAN : Fetch(c, b) BY <1>6
  <2>2. PICK t : t = [r EXCEPT !.pc = "preload", !.listing = Listing[version]] OBVIOUS
  <2>3. (Task(c, t) \/ Task(c, NoTask)) /\ UNCHANGED <<rows, import>>
    BY <1>1, <2>1, <2>2 DEF Fetch
  <2>4. t.seen = r.seen /\ t.draft = r.draft BY <1>3, <2>2
  <2>5. CASE Task(c, t) BY <1>2, <2>3, <2>4, <2>5, NamedLocal
  <2> QED BY <2>3, <2>5, NamedNoTask
<1>7. CASE \E b \in BOOLEAN : FetchOrder(c, b)
  <2>1. PICK b \in BOOLEAN : FetchOrder(c, b) BY <1>7
  <2>2. PICK t : t = IF b THEN [r EXCEPT !.pc = "plan", !.target = Target[r.ordering]]
                          ELSE [r EXCEPT !.pc = "rate"]
    OBVIOUS
  <2>3. Task(c, t) /\ UNCHANGED <<rows, import>> BY <1>1, <2>1, <2>2 DEF FetchOrder
  <2>4. t.seen = r.seen /\ t.draft = r.draft
    <3>1. CASE b BY <1>3, <2>2, <3>1
    <3>2. CASE ~b BY <1>3, <2>2, <3>2
    <3> QED BY <3>1, <3>2
  <2> QED BY <1>2, <2>3, <2>4, NamedLocal
<1>8. CASE \E b \in BOOLEAN : Rate(c, b)
  <2>1. PICK b \in BOOLEAN : Rate(c, b) BY <1>8
  <2>2. PICK hits : hits = {i \in DOMAIN rows : rows[i].at \in Rated} OBVIOUS
  <2>3. PICK t : t = [NoTask EXCEPT !.pc = "write", !.seen = rows, !.left = hits] OBVIOUS
  <2>4. (Task(c, t) \/ Task(c, NoTask)) /\ UNCHANGED <<rows, import>>
    BY <2>1, <2>2, <2>3 DEF Rate
  <2>5. t.seen = rows /\ t.draft = <<>> BY <2>3 DEF NoTask
  <2>6. CASE Task(c, t) BY <1>4, <2>4, <2>5, <2>6, NamedLocal
  <2> QED BY <2>4, <2>6, NamedNoTask
<1>9. CASE Preload(c)
  <2>1. PICK t : t = [r EXCEPT !.pc = "sync", !.seen = rows] OBVIOUS
  <2>2. Task(c, t) /\ UNCHANGED <<rows, import>> BY <1>1, <1>9, <2>1 DEF Preload
  <2>3. t.seen = rows /\ t.draft = r.draft BY <1>3, <2>1
  <2> QED BY <1>2, <1>4, <2>2, <2>3, NamedLocal
<1>10. CASE Plan(c)
  <2>1. PICK plan : plan = Remapped(r.target) OBVIOUS
  <2>2. PICK t : t = IF plan = {} THEN [r EXCEPT !.pc = "rate", !.target = <<>>]
                     ELSE [r EXCEPT !.pc = "begin", !.seen = rows, !.plan = plan]
    OBVIOUS
  <2>3. Task(c, t) /\ UNCHANGED <<rows, import>> BY <1>1, <1>10, <2>1, <2>2 DEF Plan
  <2>4. t.seen \in {rows, r.seen} /\ t.draft = r.draft
    <3>1. CASE plan = {} BY <1>3, <2>2, <3>1
    <3>2. CASE plan # {} BY <1>3, <2>2, <3>2
    <3> QED BY <3>1, <3>2
  <2>5. Agrees(t.seen, rows) /\ Agrees(t.draft, rows) BY <1>2, <1>4, <2>4
  <2> QED BY <2>3, <2>5, NamedLocal
<1>11. CASE Bump(c)
  <2>1. PICK t : t = [r EXCEPT !.off = r.off + 1] OBVIOUS
  <2>2. Task(c, t) /\ UNCHANGED <<rows, import>> BY <1>1, <1>11, <2>1 DEF Bump
  <2>3. t.seen = r.seen /\ t.draft = r.draft BY <1>3, <2>1
  <2> QED BY <1>2, <2>2, <2>3, NamedLocal
<1>12. CASE Done(c) BY <1>12, NamedNoTask DEF Done
<1> QED BY <1>5, <1>6, <1>7, <1>8, <1>9, <1>10, <1>11, <1>12

LEMMA NamedSync ==
  ASSUME Identified, FreshPositionsFree, IInv, Named, NEW c \in Refresher, Sync(c)
  PROVE  Named' /\ Agrees(rows, rows')
<1>1. PICK r : r = refresh[c] OBVIOUS
<1>2. PICK t : t = [r EXCEPT !.pc = IF r.remaps /\ r.ordering # "aired" THEN "order" ELSE "rate",
                             !.listing = <<>>, !.seen = <<>>]
  OBVIOUS
<1>3. /\ r.pc = "sync" /\ UNCHANGED import
      /\ \/ rows' = Synced(r) /\ Task(c, t)
         \/ rows' = rows /\ Task(c, NoTask)
  BY <1>1, <1>2 DEF Sync
<1>4. /\ r \in Tasks /\ rows \in Tables /\ Agrees(r.seen, rows) /\ Agrees(r.draft, rows)
      /\ Told(rows) /\ Dense(rows)
  BY <1>1, Known DEF Named
<1>5. CASE rows' = Synced(r) /\ Task(c, t)
  <2>1. \A k \in DOMAIN r.listing :
          ById(r.seen, r.listing[k]) = {} => ByPosition(r.seen, r.listing[k]) = {}
    BY <1>1, <1>3 DEF FreshPositionsFree
  <2>2. Agrees(rows, rows') /\ Told(rows') /\ Dense(rows') BY <1>4, <1>5, <2>1, SyncTells
  <2>3. t.seen = <<>> /\ t.draft = r.draft
    <3>1. r = [pc |-> r.pc, remaps |-> r.remaps, ordering |-> r.ordering,
               listing |-> r.listing, seen |-> r.seen, target |-> r.target,
               plan |-> r.plan, left |-> r.left, off |-> r.off,
               claimed |-> r.claimed, draft |-> r.draft]
      BY <1>4, Fields
    <3> QED BY <1>2, <3>1
  <2>4. Agrees(t.seen, rows) /\ Agrees(t.draft, rows) BY <1>4, <2>3, AgreesPlain
  <2> QED BY <1>3, <1>5, <2>2, <2>4, NamedTask
<1>6. CASE rows' = rows /\ Task(c, NoTask) BY <1>3, <1>6, NamedNoTask, AgreesPlain
<1> QED BY <1>3, <1>5, <1>6

\* A remap moves rows and changes nothing else of them.
LEMMA NamedBegin == ASSUME IInv, Named, NEW c \in Refresher, Begin(c) PROVE Named'
<1>1. PICK r : r = refresh[c] OBVIOUS
<1>2. PICK t : t = [r EXCEPT !.pc = "restore", !.draft = Moved(r),
                             !.claimed = {NewPlace(r, i) : i \in r.plan},
                             !.left = DOMAIN r.seen \ r.plan]
  OBVIOUS
<1>3. (Task(c, t) \/ Task(c, NoTask)) /\ UNCHANGED <<rows, import>>
  BY <1>1, <1>2 DEF Begin
<1>4. r \in Tasks /\ Agrees(r.seen, rows) /\ rows \in Tables BY <1>1, Known DEF Named
<1>5. CASE Task(c, t)
  <2>1. t.seen = r.seen /\ t.draft = Moved(r)
    <3>1. r = [pc |-> r.pc, remaps |-> r.remaps, ordering |-> r.ordering,
               listing |-> r.listing, seen |-> r.seen, target |-> r.target,
               plan |-> r.plan, left |-> r.left, off |-> r.off,
               claimed |-> r.claimed, draft |-> r.draft]
      BY <1>4, Fields
    <3> QED BY <1>2, <3>1
  <2>2. DOMAIN Moved(r) = DOMAIN rows BY DEF Moved
  <2>3. ASSUME NEW i \in DOMAIN rows
        PROVE  Moved(r)[i].title = rows[i].title /\ Moved(r)[i].tvdb = rows[i].tvdb
    <3>1. PICK q \in Row : q = rows[i] BY <1>4, TableFacts DEF Table
    <3>2. PICK x : x = NewPlace(r, i) OBVIOUS
    <3>3. PICK y : y = r.seen[i].at OBVIOUS
    <3>4. PICK z : z = Sentinel(i) OBVIOUS
    <3>5. Moved(r)[i] \in {[q EXCEPT !.at = x, !.scene = y], [q EXCEPT !.at = z]}
      BY <3>1, <3>2, <3>3, <3>4 DEF Moved
    <3>6. /\ [q EXCEPT !.at = x, !.scene = y].title = q.title
          /\ [q EXCEPT !.at = x, !.scene = y].tvdb = q.tvdb
          /\ [q EXCEPT !.at = z].title = q.title /\ [q EXCEPT !.at = z].tvdb = q.tvdb
      BY DEF Row
    <3> QED BY <3>1, <3>5, <3>6
  <2>4. Agrees(t.draft, rows) BY <2>1, <2>2, <2>3 DEF Agrees
  <2> QED BY <1>3, <1>4, <1>5, <2>1, <2>4, NamedLocal
<1> QED BY <1>3, <1>5, NamedNoTask

LEMMA NamedRestore == ASSUME IInv, Named, NEW c \in Refresher, Restore(c) PROVE Named'
<1>1. PICK r : r = refresh[c] OBVIOUS
<1>2. PICK i : /\ i \in Turn(r)
               /\ Task(c, [r EXCEPT !.off = 0, !.left = @ \ {i}, !.draft[i].at = Wanted(r, i),
                                    !.claimed = @ \cup {Wanted(r, i)}])
  BY <1>1 DEF Restore
<1>3. PICK d : d = [r.draft EXCEPT ![i].at = Wanted(r, i)] OBVIOUS
<1>4. PICK t : t = [r EXCEPT !.off = 0, !.left = r.left \ {i}, !.draft = d,
                             !.claimed = r.claimed \cup {Wanted(r, i)}]
  OBVIOUS
<1>5. Task(c, t)
  <2>1. [r EXCEPT !.off = 0, !.left = @ \ {i}, !.draft[i].at = Wanted(r, i),
                  !.claimed = @ \cup {Wanted(r, i)}]
        = [r EXCEPT !.off = 0, !.left = r.left \ {i}, !.draft = d,
                    !.claimed = r.claimed \cup {Wanted(r, i)}]
    BY <1>3
  <2> QED BY <1>2, <1>4, <2>1
<1>6. UNCHANGED <<rows, import>> BY DEF Restore
<1>7. /\ r \in Tasks /\ Agrees(r.seen, rows) /\ Agrees(r.draft, rows)
      /\ \A j \in DOMAIN r.draft : r.draft[j] \in Row
  <2>1. r \in Tasks BY <1>1, Known
  <2> QED BY <1>1, <2>1, Fields, TableFacts DEF Named, Table
<1>8. t.seen = r.seen /\ t.draft = d
  <2>1. r = [pc |-> r.pc, remaps |-> r.remaps, ordering |-> r.ordering,
             listing |-> r.listing, seen |-> r.seen, target |-> r.target,
             plan |-> r.plan, left |-> r.left, off |-> r.off,
             claimed |-> r.claimed, draft |-> r.draft]
    BY <1>7, Fields
  <2> QED BY <1>4, <2>1
<1>9. ASSUME NEW j \in DOMAIN d
      PROVE  j \in DOMAIN r.draft /\ d[j].title = r.draft[j].title /\ d[j].tvdb = r.draft[j].tvdb
  <2>1. j \in DOMAIN r.draft BY <1>3
  <2>2. PICK q \in Row : q = r.draft[j] BY <1>7, <2>1
  <2>3. PICK x : x = Wanted(r, i) OBVIOUS
  <2>4. d[j] \in {q, [q EXCEPT !.at = x]} BY <1>3, <2>1, <2>2, <2>3
  <2>5. [q EXCEPT !.at = x].title = q.title /\ [q EXCEPT !.at = x].tvdb = q.tvdb BY DEF Row
  <2> QED BY <2>1, <2>2, <2>4, <2>5
<1>10. Agrees(d, rows) BY <1>7, <1>9 DEF Agrees
<1> QED BY <1>5, <1>6, <1>7, <1>8, <1>10, NamedLocal

LEMMA NamedCommit ==
  ASSUME IInv, Named, NEW c \in Refresher, Commit(c) PROVE Named' /\ Agrees(rows, rows')
<1>1. PICK r : r = refresh[c] OBVIOUS
<1>2. PICK t : t = [NoTask EXCEPT !.pc = "rate"] OBVIOUS
<1>3. r.pc = "restore" /\ rows' = r.draft /\ Task(c, t) /\ UNCHANGED import
  BY <1>1, <1>2 DEF Commit
<1>4. /\ Agrees(r.draft, rows) /\ Told(rows) /\ Dense(rows) /\ DOMAIN r.draft = DOMAIN rows
  BY <1>1, <1>3, Known DEF Named, Good, Drafted
<1>5. Agrees(rows, rows') /\ Told(rows') /\ Dense(rows')
  BY <1>3, <1>4 DEF Agrees, Told, Dense
<1>6. t.seen = <<>> /\ t.draft = <<>> BY <1>2 DEF NoTask
<1>7. Agrees(t.seen, rows) /\ Agrees(t.draft, rows) BY <1>6, AgreesPlain
<1> QED BY <1>3, <1>5, <1>7, NamedTask

LEMMA NamedWriteBack ==
  ASSUME IInv, Named, NEW c \in Refresher, WriteBack(c) PROVE Named' /\ Agrees(rows, rows')
<1>1. PICK r : r = refresh[c] OBVIOUS
<1>2. PICK i : i \in Turn(r) /\ rows' = Rewritten(i, r.seen[i])
               /\ Task(c, [r EXCEPT !.left = @ \ {i}])
  BY <1>1 DEF WriteBack
<1>3. PICK t : t = [r EXCEPT !.left = r.left \ {i}] OBVIOUS
<1>4. Task(c, t) /\ UNCHANGED import BY <1>2, <1>3 DEF WriteBack
<1>5. /\ r \in Tasks /\ Good(r, DOMAIN rows) /\ Agrees(r.seen, rows) /\ Agrees(r.draft, rows)
      /\ Told(rows) /\ Dense(rows)
  BY <1>1, Known DEF Named
<1>6. i \in DOMAIN r.seen /\ i \in DOMAIN rows BY <1>2, <1>5 DEF Turn, Good
<1>7. Agrees(rows, rows') /\ DOMAIN rows' = DOMAIN rows
  BY <1>2, <1>5, <1>6, Rewriting DEF Agrees
<1>8. Told(rows') /\ Dense(rows') BY <1>5, <1>7 DEF Agrees, Told, Dense
<1>9. t.seen = r.seen /\ t.draft = r.draft
  <2>1. r = [pc |-> r.pc, remaps |-> r.remaps, ordering |-> r.ordering,
             listing |-> r.listing, seen |-> r.seen, target |-> r.target,
             plan |-> r.plan, left |-> r.left, off |-> r.off,
             claimed |-> r.claimed, draft |-> r.draft]
    BY <1>5, Fields
  <2> QED BY <1>3, <2>1
<1> QED BY <1>4, <1>5, <1>7, <1>8, <1>9, NamedTask

LEMMA NamedImport ==
  ASSUME IInv, Named, (\E e \in Episode : ImportRead(e)) \/ ImportWrite
  PROVE  Named' /\ Agrees(rows, rows')
<1>1. CASE \E e \in Episode : ImportRead(e)
  <2>1. PICK e \in Episode : ImportRead(e) BY <1>1
  <2>2. PICK i : import' = [row |-> i, was |-> rows[i], file |-> e] BY <2>1 DEF ImportRead
  <2>3. UNCHANGED <<rows, refresh>> BY <2>1 DEF ImportRead
  <2>4. import'.row = i /\ import'.was = rows[i] BY <2>2
  <2> QED BY <2>3, <2>4, AgreesPlain DEF Named
<1>2. CASE ImportWrite
  <2>1. PICK w : w = [import.was EXCEPT !.file = import.file] OBVIOUS
  <2>2. /\ import # NoImport /\ import' = NoImport /\ rows' = Rewritten(import.row, w)
        /\ UNCHANGED refresh
    BY <1>2, <2>1 DEF ImportWrite
  <2>3. import.row \in DOMAIN rows /\ import.was \in Row BY <2>2 DEF IInv, Shared
  <2>4. w.title = import.was.title /\ w.tvdb = import.was.tvdb
    <3>1. PICK q \in Row : q = import.was BY <2>3
    <3>2. PICK f : f = import.file OBVIOUS
    <3>3. [q EXCEPT !.file = f].title = q.title /\ [q EXCEPT !.file = f].tvdb = q.tvdb BY DEF Row
    <3> QED BY <2>1, <3>1, <3>2, <3>3
  <2>5. Agrees(rows, rows') /\ DOMAIN rows' = DOMAIN rows
    BY <2>2, <2>3, <2>4, Rewriting DEF Named
  <2>6. Told(rows') /\ Dense(rows') BY <2>5 DEF Agrees, Told, Dense, Named
  <2>7. ASSUME NEW d \in Refresher
        PROVE  Agrees(refresh'[d].seen, rows') /\ Agrees(refresh'[d].draft, rows')
    <3>1. Agrees(refresh[d].seen, rows) /\ Agrees(refresh[d].draft, rows) BY DEF Named
    <3> QED BY <2>2, <2>5, <3>1, AgreesTransitive
  <2> QED BY <2>2, <2>5, <2>6, <2>7 DEF Named
<1> QED BY <1>1, <1>2

\* No step makes a row stand for another episode.
LEMMA NamedStep ==
  ASSUME Identified, FreshPositionsFree, IInv, Named, [Next]_vars
  PROVE  Named' /\ Agrees(rows, rows')
<1>1. ASSUME NEW c \in Refresher,
             \/ \E b \in BOOLEAN : Start(c, b) \/ Fetch(c, b) \/ FetchOrder(c, b) \/ Rate(c, b)
             \/ Preload(c) \/ Plan(c) \/ Bump(c) \/ Done(c)
      PROVE  Named' /\ Agrees(rows, rows')
  <2>1. rows' = rows
    BY <1>1 DEF Start, Fetch, FetchOrder, Rate, Preload, Plan, Bump, Done
  <2> QED BY <1>1, <2>1, NamedCopies, AgreesPlain
<1>2. ASSUME NEW c \in Refresher, Begin(c) \/ Restore(c)
      PROVE  Named' /\ Agrees(rows, rows')
  <2>1. rows' = rows BY <1>2 DEF Begin, Restore
  <2> QED BY <1>2, <2>1, NamedBegin, NamedRestore, AgreesPlain
<1>3. ASSUME NEW c \in Refresher, Sync(c) \/ Commit(c) \/ WriteBack(c)
      PROVE  Named' /\ Agrees(rows, rows')
  BY <1>3, NamedSync, NamedCommit, NamedWriteBack
<1>4. CASE (\E e \in Episode : ImportRead(e)) \/ ImportWrite BY <1>4, NamedImport
<1>5. CASE (\E o \in Ordering : SetOrdering(o)) \/ NewVersion \/ UNCHANGED vars
  <2>1. UNCHANGED <<rows, refresh, import>>
    BY <1>5 DEF SetOrdering, NewVersion, vars, bounds
  <2> QED BY <2>1, AgreesPlain DEF Named
<1> QED BY <1>1, <1>2, <1>3, <1>4, <1>5 DEF Next

LEMMA NamedInit == ASSUME Init PROVE Named
<1>1. PICK l \in Seq(Episode) : l = Listing[1] BY ConstantFacts
<1>2. PICK n \in Nat : DOMAIN l = 1 .. n /\ \A k \in 1 .. n : l[k] \in Episode BY <1>1
<1>3. rows = [k \in 1 .. n |-> NewRow(l[k])] BY <1>1, <1>2 DEF Init
<1>4. Told(rows) BY <1>2, <1>3 DEF Told, NewRow
<1>5. Dense(rows)
  <2>1. Cardinality(1 .. n) = n BY FS_Interval
  <2> QED BY <1>3, <2>1 DEF Dense
<1>6. ASSUME NEW c \in Refresher
      PROVE  Agrees(refresh[c].seen, rows) /\ Agrees(refresh[c].draft, rows)
  <2>1. refresh[c] = NoTask BY DEF Init
  <2> QED BY <2>1, BlankFields, AgreesPlain
<1> QED BY <1>4, <1>5, <1>6 DEF Named, Init

\* Where new episodes come to free positions, no step makes a row with a file, or any
\* other, stand for another episode.
THEOREM FilesKeepEpisode ==
  ASSUME Identified PROVE Spec /\ []FreshPositionsFree => FileKeepsEpisode
<1>1. Init => Named BY NamedInit
<1>2. Named /\ IInv /\ FreshPositionsFree /\ [Next]_vars => Named' BY NamedStep
<1>3. Named /\ IInv /\ FreshPositionsFree /\ [Next]_vars =>
        [\A i \in DOMAIN rows : rows[i].file # NoFile => rows'[i].title = rows[i].title]_rows
  BY NamedStep DEF Agrees
<1> QED BY <1>1, <1>2, <1>3, Invariance, PTL DEF Spec, FileKeepsEpisode

LEMMA CoveringStep ==
  ASSUME Identified, FreshPositionsFree, IInv, Named, [Next]_vars,
         NEW c \in Refresher, refresh[c].pc = "sync", refresh'[c].pc \in {"order", "rate"},
         NEW k \in DOMAIN refresh[c].listing
  PROVE  \E i \in DOMAIN rows' : rows'[i].title = refresh[c].listing[k]
<1>1. PICK r : r = refresh[c] OBVIOUS
<1>2. CASE Sync(c)
  <2>1. PICK t : t = [r EXCEPT !.pc = IF r.remaps /\ r.ordering # "aired" THEN "order" ELSE "rate",
                               !.listing = <<>>, !.seen = <<>>]
    OBVIOUS
  <2>2. rows' = Synced(r) \/ Task(c, NoTask) BY <1>1, <1>2, <2>1 DEF Sync
  <2>3. ~Task(c, NoTask) BY AfterTask, BlankFields
  <2>4. /\ r \in Tasks /\ rows \in Tables /\ Agrees(r.seen, rows)
        /\ Told(rows) /\ Dense(rows)
    BY <1>1, Known DEF Named
  <2>5. \A m \in DOMAIN r.listing :
          ById(r.seen, r.listing[m]) = {} => ByPosition(r.seen, r.listing[m]) = {}
    BY <1>1 DEF FreshPositionsFree
  <2> QED BY <1>1, <2>2, <2>3, <2>4, <2>5, SyncTells
<1>3. CASE ~Sync(c)
  <2>1. ASSUME NEW d \in Refresher \ {c}, NEW t, Task(d, t) PROVE refresh'[c] = refresh[c]
    BY <2>1, AfterTask
  <2>2. ASSUME NEW d \in Refresher, \E t : Task(d, t) PROVE d = c \/ refresh'[c] = refresh[c]
    BY <2>1, <2>2
  <2>3. ASSUME NEW d \in Refresher,
               \/ \E b \in BOOLEAN : Start(d, b) \/ Fetch(d, b) \/ FetchOrder(d, b) \/ Rate(d, b)
               \/ Preload(d) \/ Plan(d) \/ Begin(d) \/ Bump(d) \/ Restore(d)
               \/ Commit(d) \/ WriteBack(d) \/ Done(d)
        PROVE  (\E t : Task(d, t)) /\ refresh[d].pc # "sync"
    BY <2>3 DEF Start, Fetch, FetchOrder, Rate, Preload, Plan, Begin, Bump, Restore, Commit,
                WriteBack, Done
  <2>4. ASSUME NEW d \in Refresher, Sync(d) PROVE \E t : Task(d, t)
    BY <2>4 DEF Sync
  <2>5. refresh'[c] = refresh[c]
    <3>1. CASE \E d \in Refresher :
                 \/ \E b \in BOOLEAN : Start(d, b) \/ Fetch(d, b) \/ FetchOrder(d, b) \/ Rate(d, b)
                 \/ Preload(d) \/ Plan(d) \/ Begin(d) \/ Bump(d) \/ Restore(d)
                 \/ Commit(d) \/ WriteBack(d) \/ Done(d)
      BY <2>2, <2>3, <3>1
    <3>2. CASE \E d \in Refresher : Sync(d) BY <1>3, <2>2, <2>4, <3>2
    <3>3. CASE \/ \E o \in Ordering : SetOrdering(o)
               \/ NewVersion \/ (\E e \in Episode : ImportRead(e)) \/ ImportWrite
               \/ UNCHANGED vars
      BY <3>3 DEF SetOrdering, NewVersion, ImportRead, ImportWrite, vars
    <3> QED BY <3>1, <3>2, <3>3 DEF Next
  <2> QED BY <2>5
<1> QED BY <1>2, <1>3

\* Where new episodes come to free positions, a sync that commits leaves every episode of
\* its metadata with a row.
THEOREM SyncsCover ==
  ASSUME Identified PROVE Spec /\ []FreshPositionsFree => SyncCovers
<1>1. Init => Named BY NamedInit
<1>2. Named /\ IInv /\ FreshPositionsFree /\ [Next]_vars => Named' BY NamedStep
<1>3. Named /\ IInv /\ FreshPositionsFree /\ [Next]_vars =>
        [\A c \in Refresher :
           refresh[c].pc = "sync" /\ refresh'[c].pc \in {"order", "rate"} =>
             \A k \in DOMAIN refresh[c].listing :
               \E i \in DOMAIN rows' : rows'[i].title = refresh[c].listing[k]]_vars
  BY CoveringStep
<1> QED BY <1>1, <1>2, <1>3, Invariance, PTL DEF Spec, SyncCovers

---------------------------------------------------------------------------
(* New episodes in seasons that no ordering moves into *)

\* The seasons that no ordering puts an episode into: there nobody is bumped either.
Quiet == {s \in Nat : \A o \in Ordering \ {"aired"} :
                        \A id \in DOMAIN Target[o] : Target[o][id][1] # s}

\* The metadata has one episode at a position, and what it comes to list after the series
\* was added is in quiet seasons (the next season of a running series, for one).
NewSeasonsOnly ==
  /\ \A e, f \in Episode : Aired[e] = Aired[f] => e = f
  /\ \A k, m \in DOMAIN Listing[1] : Listing[1][k] = Listing[1][m] => k = m
  /\ \A v \in DOMAIN Listing : \A k \in DOMAIN Listing[v] :
       \/ \E m \in DOMAIN Listing[1] : Listing[1][m] = Listing[v][k]
       \/ Aired[Listing[v][k]][1] \in Quiet

\* A row in a quiet season is where its episode aired.
AnchoredRow(r) == r.at[1] \in Quiet => r.at = Aired[r.title]
Anchored(t) == \A i \in DOMAIN t : AnchoredRow(t[i])
HasFirst(t) == \A m \in DOMAIN Listing[1] : \E i \in DOMAIN t : t[i].title = Listing[1][m]

\* A remap claims in a quiet season only what rows had there, so it bumps nobody there.
Unbumped(t) ==
  /\ \A p \in t.claimed : p[1] \in Quiet => \E j \in DOMAIN t.seen \ t.left : t.seen[j].at = p
  /\ t.off > 0 => \A i \in Turn(t) : t.seen[i].at[1] \notin Quiet
Calm(t) ==
  /\ Anchored(t.seen) /\ Distinct(t.seen) /\ Anchored(t.draft)
  /\ \A id \in DOMAIN t.target : t.target[id][1] \notin Quiet
  /\ t.pc \in {"preload", "sync"} => \E v \in DOMAIN Listing : t.listing = Listing[v]
  /\ t.pc = "sync" => HasFirst(t.seen)
  /\ IF t.pc = "restore" THEN Unbumped(t) ELSE t.off = 0

CalmRows == Anchored(rows) /\ Distinct(rows) /\ HasFirst(rows)
Seasons ==
  /\ CalmRows
  /\ \A c \in Refresher : Calm(refresh[c])
  /\ import # NoImport => AnchoredRow(import.was)

LEMMA SeasonsKeepFresh ==
  ASSUME Identified, NewSeasonsOnly, IInv, Named, Seasons PROVE FreshPositionsFree
<1> SUFFICES ASSUME NEW c \in Refresher, refresh[c].pc = "sync",
                    NEW k \in DOMAIN refresh[c].listing,
                    ById(refresh[c].seen, refresh[c].listing[k]) = {},
                    NEW i \in ByPosition(refresh[c].seen, refresh[c].listing[k])
             PROVE  FALSE
  BY DEF FreshPositionsFree
<1>1. PICK r \in Tasks : r = refresh[c] BY Known
<1>2. PICK e \in Episode : e = r.listing[k] BY <1>1, EntryFacts
<1>3. Told(r.seen) BY <1>1 DEF Named, Told, Agrees
<1>4. \A j \in DOMAIN r.seen : r.seen[j].title # e
  BY <1>1, <1>2, <1>3 DEF ById, Told, Identified
<1>5. i \in DOMAIN r.seen /\ r.seen[i].at = Aired[e] BY <1>1, <1>2 DEF ByPosition
<1>6. Anchored(r.seen) /\ HasFirst(r.seen) /\ \E v \in DOMAIN Listing : r.listing = Listing[v]
  BY <1>1 DEF Seasons, Calm
<1>7. Aired[e][1] \in Quiet BY <1>1, <1>2, <1>4, <1>6 DEF NewSeasonsOnly, HasFirst
<1>8. Aired[r.seen[i].title] = Aired[e] BY <1>5, <1>6, <1>7 DEF Anchored, AnchoredRow
<1>9. r.seen[i].title \in Episode BY <1>3, <1>5 DEF Told
<1> QED BY <1>4, <1>5, <1>8, <1>9 DEF NewSeasonsOnly

LEMMA NothingCalm == Anchored(<<>>) /\ Distinct(<<>>) /\ DOMAIN <<>> = {}
<1>1. DOMAIN <<>> = {} OBVIOUS
<1> QED BY <1>1 DEF Anchored, Distinct

LEMMA CalmTask ==
  ASSUME IInv, Seasons, NEW c \in Refresher, NEW t, Task(c, t), Calm(t), CalmRows',
         UNCHANGED import
  PROVE  Seasons'
<1>1. \A d \in Refresher : Calm(refresh[d])'
  <2>1. TAKE d \in Refresher
  <2>2. refresh'[d] \in {t, refresh[d]} BY AfterTask
  <2>3. Calm(refresh'[d]) BY <2>2 DEF Seasons
  <2> QED BY <2>3
<1> QED BY <1>1 DEF Seasons

LEMMA CalmLocal ==
  ASSUME IInv, Seasons, NEW c \in Refresher, NEW t, Task(c, t), Calm(t),
         UNCHANGED <<rows, import>>
  PROVE  Seasons'
<1>1. CalmRows' BY DEF Seasons, CalmRows
<1> QED BY <1>1, CalmTask

\* A task that keeps its copies, or has none, stays calm.
LEMMA CalmSame ==
  ASSUME NEW r, Calm(r), NEW t, r.pc # "restore", t.pc \notin {"preload", "sync", "restore"},
         t.seen \in {r.seen, <<>>}, t.draft = r.draft, t.target \in {r.target, <<>>},
         t.off = r.off
  PROVE  Calm(t)
  BY NothingCalm DEF Calm

LEMMA CalmBlank ==
  ASSUME NEW t, t.pc \notin {"preload", "sync", "restore"}, t.draft = <<>>, t.target = <<>>,
         t.off = 0, Anchored(t.seen), Distinct(t.seen)
  PROVE  Calm(t)
  BY NothingCalm DEF Calm

LEMMA CalmNoTask ==
  ASSUME IInv, Seasons, NEW c \in Refresher, Task(c, NoTask), UNCHANGED <<rows, import>>
  PROVE  Seasons'
<1>1. Calm(NoTask) BY BlankFields, NothingCalm, CalmBlank
<1> QED BY <1>1, CalmLocal

LEMMA CalmCopies ==
  ASSUME IInv, Seasons, NEW c \in Refresher,
         \/ \E b \in BOOLEAN : Start(c, b) \/ Fetch(c, b) \/ FetchOrder(c, b) \/ Rate(c, b)
         \/ Preload(c) \/ Plan(c) \/ Done(c)
  PROVE  Seasons'
<1>1. PICK r : r = refresh[c] OBVIOUS
<1>2. r \in Tasks /\ Calm(r) BY <1>1, Known DEF Seasons
<1>3. r = [pc |-> r.pc, remaps |-> r.remaps, ordering |-> r.ordering,
           listing |-> r.listing, seen |-> r.seen, target |-> r.target,
           plan |-> r.plan, left |-> r.left, off |-> r.off,
           claimed |-> r.claimed, draft |-> r.draft]
  BY <1>2, Fields
<1>4. CalmRows BY DEF Seasons
<1>5. CASE \E b \in BOOLEAN : Start(c, b)
  <2>1. PICK b \in BOOLEAN : Start(c, b) BY <1>5
  <2>2. PICK t : t = [NoTask EXCEPT !.pc = "fetch", !.remaps = b, !.ordering = ordering] OBVIOUS
  <2>3. Task(c, t) /\ UNCHANGED <<rows, import>> BY <2>1, <2>2 DEF Start
  <2>4. t.pc = "fetch" /\ t.seen = <<>> /\ t.draft = <<>> /\ t.target = <<>> /\ t.off = 0
    BY <2>2 DEF NoTask
  <2>5. Calm(t) BY <2>4, NothingCalm, CalmBlank
  <2> QED BY <2>3, <2>5, CalmLocal
<1>6. CASE \E b \in BOOLEAN : Fetch(c, b)
  <2>1. PICK b \in BOOLEAN : Fetch(c, b) BY <1>6
  <2>2. PICK t : t = [r EXCEPT !.pc = "preload", !.listing = Listing[version]] OBVIOUS
  <2>3. r.pc = "fetch" /\ (Task(c, t) \/ Task(c, NoTask)) /\ UNCHANGED <<rows, import>>
    BY <1>1, <2>1, <2>2 DEF Fetch
  <2>4. /\ t.pc = "preload" /\ t.listing = Listing[version] /\ t.off = r.off
        /\ t.seen = r.seen /\ t.draft = r.draft /\ t.target = r.target
    BY <1>3, <2>2
  <2>5. version \in DOMAIN Listing BY DEF IInv, Shared
  <2>6. Calm(t) BY <1>2, <2>3, <2>4, <2>5 DEF Calm
  <2> QED BY <2>3, <2>6, CalmLocal, CalmNoTask
<1>7. CASE \E b \in BOOLEAN : FetchOrder(c, b)
  <2>1. PICK b \in BOOLEAN : FetchOrder(c, b) BY <1>7
  <2>2. PICK t : t = IF b THEN [r EXCEPT !.pc = "plan", !.target = Target[r.ordering]]
                          ELSE [r EXCEPT !.pc = "rate"]
    OBVIOUS
  <2>3. r.pc = "order" /\ Task(c, t) /\ UNCHANGED <<rows, import>>
    BY <1>1, <2>1, <2>2 DEF FetchOrder
  <2>4. CASE b
    <3>1. /\ t.pc = "plan" /\ t.target = Target[r.ordering] /\ t.off = r.off
          /\ t.seen = r.seen /\ t.draft = r.draft
      BY <1>3, <2>2, <2>4
    <3>2. r.ordering \in Ordering \ {"aired"} BY <1>1, <1>2, <2>3, Known, Fields DEF Good
    <3>3. \A id \in DOMAIN t.target : t.target[id][1] \notin Quiet BY <3>1, <3>2 DEF Quiet
    <3>4. Calm(t) BY <1>2, <2>3, <3>1, <3>3 DEF Calm
    <3> QED BY <2>3, <3>4, CalmLocal
  <2>5. CASE ~b
    <3>1. /\ t.pc = "rate" /\ t.target = r.target /\ t.off = r.off
          /\ t.seen = r.seen /\ t.draft = r.draft
      BY <1>3, <2>2, <2>5
    <3>2. Calm(t) BY <1>2, <2>3, <3>1, CalmSame
    <3> QED BY <2>3, <3>2, CalmLocal
  <2> QED BY <2>4, <2>5
<1>8. CASE \E b \in BOOLEAN : Rate(c, b)
  <2>1. PICK b \in BOOLEAN : Rate(c, b) BY <1>8
  <2>2. PICK hits : hits = {i \in DOMAIN rows : rows[i].at \in Rated} OBVIOUS
  <2>3. PICK t : t = [NoTask EXCEPT !.pc = "write", !.seen = rows, !.left = hits] OBVIOUS
  <2>4. (Task(c, t) \/ Task(c, NoTask)) /\ UNCHANGED <<rows, import>>
    BY <2>1, <2>2, <2>3 DEF Rate
  <2>5. t.pc = "write" /\ t.seen = rows /\ t.draft = <<>> /\ t.target = <<>> /\ t.off = 0
    BY <2>3 DEF NoTask
  <2>6. Calm(t) BY <1>4, <2>5, CalmBlank DEF CalmRows
  <2> QED BY <2>4, <2>6, CalmLocal, CalmNoTask
<1>9. CASE Preload(c)
  <2>1. PICK t : t = [r EXCEPT !.pc = "sync", !.seen = rows] OBVIOUS
  <2>2. r.pc = "preload" /\ Task(c, t) /\ UNCHANGED <<rows, import>>
    BY <1>1, <1>9, <2>1 DEF Preload
  <2>3. /\ t.pc = "sync" /\ t.seen = rows /\ t.draft = r.draft /\ t.listing = r.listing
        /\ t.target = r.target /\ t.off = r.off
    BY <1>3, <2>1
  <2>4. Calm(t) BY <1>2, <1>4, <2>2, <2>3 DEF Calm, CalmRows
  <2> QED BY <2>2, <2>4, CalmLocal
<1>10. CASE Plan(c)
  <2>1. PICK plan : plan = Remapped(r.target) OBVIOUS
  <2>2. PICK t : t = IF plan = {} THEN [r EXCEPT !.pc = "rate", !.target = <<>>]
                     ELSE [r EXCEPT !.pc = "begin", !.seen = rows, !.plan = plan]
    OBVIOUS
  <2>3. r.pc = "plan" /\ Task(c, t) /\ UNCHANGED <<rows, import>>
    BY <1>1, <1>10, <2>1, <2>2 DEF Plan
  <2>4. CASE plan = {}
    <3>1. /\ t.pc = "rate" /\ t.target = <<>> /\ t.off = r.off
          /\ t.seen = r.seen /\ t.draft = r.draft
      BY <1>3, <2>2, <2>4
    <3>2. Calm(t) BY <1>2, <2>3, <3>1, CalmSame
    <3> QED BY <2>3, <3>2, CalmLocal
  <2>5. CASE plan # {}
    <3>1. /\ t.pc = "begin" /\ t.target = r.target /\ t.off = r.off
          /\ t.seen = rows /\ t.draft = r.draft
      BY <1>3, <2>2, <2>5
    <3>2. Calm(t) BY <1>2, <1>4, <2>3, <3>1 DEF Calm, CalmRows
    <3> QED BY <2>3, <3>2, CalmLocal
  <2> QED BY <2>4, <2>5
<1>11. CASE Done(c) BY <1>11, CalmNoTask DEF Done
<1> QED BY <1>5, <1>6, <1>7, <1>8, <1>9, <1>10, <1>11

\* The table after a step that names the same episodes has the first ones still.
LEMMA FirstStay == ASSUME NEW t, NEW u, HasFirst(t), Agrees(t, u) PROVE HasFirst(u)
  BY DEF HasFirst, Agrees

LEMMA CalmSync ==
  ASSUME IInv, Seasons, NEW c \in Refresher, Sync(c), Agrees(rows, rows')
  PROVE  Seasons'
<1>1. PICK r : r = refresh[c] OBVIOUS
<1>2. PICK t : t = [r EXCEPT !.pc = IF r.remaps /\ r.ordering # "aired" THEN "order" ELSE "rate",
                             !.listing = <<>>, !.seen = <<>>]
  OBVIOUS
<1>3. /\ r.pc = "sync" /\ UNCHANGED import
      /\ \/ rows' = Synced(r) /\ Distinct(Synced(r)) /\ Task(c, t)
         \/ rows' = rows /\ Task(c, NoTask)
  BY <1>1, <1>2 DEF Sync
<1>4. r \in Tasks /\ Calm(r) /\ rows \in Tables BY <1>1, Known DEF Seasons
<1>5. CASE rows' = Synced(r) /\ Distinct(Synced(r)) /\ Task(c, t)
  <2>1. PICK new : new = {RowOf(r, k) : k \in Inserted(r)} OBVIOUS
  <2>2. DOMAIN rows' = DOMAIN rows \cup new BY <1>5, <2>1 DEF Synced
  <2>3. ASSUME NEW i \in DOMAIN rows' PROVE AnchoredRow(rows'[i])
    <3>1. CASE i \in DOMAIN rows
      <4>1. rows'[i] = Overwritten(r, i) BY <1>5, <3>1 DEF Synced
      <4>2. rows'[i].at = rows[i].at BY <1>4, <3>1, <4>1, OverwrittenRow
      <4>3. rows'[i].title = rows[i].title BY <3>1 DEF Agrees
      <4> QED BY <3>1, <4>2, <4>3 DEF Seasons, CalmRows, Anchored, AnchoredRow
    <3>2. CASE i \notin DOMAIN rows
      <4>1. PICK e : rows'[i] = NewRow(e) BY <1>5, <2>1, <2>2, <3>2 DEF Synced
      <4> QED BY <4>1 DEF AnchoredRow, NewRow
    <3> QED BY <3>1, <3>2
  <2>4. HasFirst(rows') BY FirstStay DEF Seasons, CalmRows
  <2>5. CalmRows' BY <1>5, <2>3, <2>4 DEF CalmRows, Anchored
  <2>6. /\ t.pc \in {"order", "rate"} /\ t.seen = <<>> /\ t.draft = r.draft
        /\ t.target = r.target /\ t.off = r.off
    <3>1. r = [pc |-> r.pc, remaps |-> r.remaps, ordering |-> r.ordering,
               listing |-> r.listing, seen |-> r.seen, target |-> r.target,
               plan |-> r.plan, left |-> r.left, off |-> r.off,
               claimed |-> r.claimed, draft |-> r.draft]
      BY <1>4, Fields
    <3> QED BY <1>2, <3>1
  <2>7. Calm(t) BY <1>3, <1>4, <2>6, CalmSame
  <2> QED BY <1>3, <1>5, <2>5, <2>7, CalmTask
<1>6. CASE rows' = rows /\ Task(c, NoTask) BY <1>3, <1>6, CalmNoTask
<1> QED BY <1>3, <1>5, <1>6

LEMMA CalmBegin == ASSUME IInv, Seasons, NEW c \in Refresher, Begin(c) PROVE Seasons'
<1>1. PICK r : r = refresh[c] OBVIOUS
<1>2. PICK t : t = [r EXCEPT !.pc = "restore", !.draft = Moved(r),
                             !.claimed = {NewPlace(r, i) : i \in r.plan},
                             !.left = DOMAIN r.seen \ r.plan]
  OBVIOUS
<1>3. r.pc = "begin" /\ (Task(c, t) \/ Task(c, NoTask)) /\ UNCHANGED <<rows, import>>
  BY <1>1, <1>2 DEF Begin
<1>4. r \in Tasks /\ Calm(r) /\ rows \in Tables /\ Good(r, DOMAIN rows)
  BY <1>1, Known DEF Seasons
<1>5. /\ t.pc = "restore" /\ t.draft = Moved(r) /\ t.claimed = {NewPlace(r, i) : i \in r.plan}
      /\ t.seen = r.seen /\ t.target = r.target /\ t.off = r.off
  <2>1. r = [pc |-> r.pc, remaps |-> r.remaps, ordering |-> r.ordering,
             listing |-> r.listing, seen |-> r.seen, target |-> r.target,
             plan |-> r.plan, left |-> r.left, off |-> r.off,
             claimed |-> r.claimed, draft |-> r.draft]
    BY <1>4, Fields
  <2> QED BY <1>2, <2>1
<1>6. \A i \in r.plan : NewPlace(r, i)[1] \notin Quiet
  <2>1. \A i \in r.plan : r.seen[i].tvdb \in DOMAIN r.target BY <1>3, <1>4 DEF Good
  <2> QED BY <1>4, <2>1 DEF Calm, NewPlace
<1>7. ASSUME NEW i \in DOMAIN rows PROVE AnchoredRow(Moved(r)[i])
  <2>1. PICK q \in Row : q = rows[i] BY <1>4, TableFacts DEF Table
  <2>2. PICK x : x = NewPlace(r, i) OBVIOUS
  <2>3. PICK y : y = r.seen[i].at OBVIOUS
  <2>4. PICK z : z = Sentinel(i) OBVIOUS
  <2>5. i \in Nat BY <1>4, TableFacts DEF Table
  <2>6. z[1] \notin Quiet
    <3>1. z[1] = -(1000 + i) BY <2>4, <2>5, SentinelFits
    <3>2. z[1] \notin Nat BY <2>5, <3>1
    <3> QED BY <3>2 DEF Quiet
  <2>7. IF i \in r.plan THEN Moved(r)[i] = [q EXCEPT !.at = x, !.scene = y]
                        ELSE Moved(r)[i] = [q EXCEPT !.at = z]
    BY <2>1, <2>2, <2>3, <2>4 DEF Moved
  <2>8. [q EXCEPT !.at = x, !.scene = y].at = x /\ [q EXCEPT !.at = z].at = z BY DEF Row
  <2>9. Moved(r)[i].at[1] \notin Quiet BY <1>6, <2>2, <2>6, <2>7, <2>8
  <2> QED BY <2>9 DEF AnchoredRow
<1>8. Anchored(t.draft)
  <2>1. DOMAIN Moved(r) = DOMAIN rows BY DEF Moved
  <2> QED BY <1>5, <1>7, <2>1 DEF Anchored
<1>9. Unbumped(t)
  <2>1. t.off = 0 BY <1>3, <1>4, <1>5 DEF Calm
  <2> QED BY <1>5, <1>6, <2>1 DEF Unbumped
<1>10. Calm(t) BY <1>4, <1>5, <1>8, <1>9 DEF Calm
<1> QED BY <1>3, <1>10, CalmLocal, CalmNoTask

\* Two rows do not come to their turn together.
LEMMA OneTurn ==
  ASSUME NEW r \in Tasks, NEW i \in Turn(r), NEW j \in Turn(r), r.left \subseteq DOMAIN r.seen
  PROVE  i = j
<1>1. \A k \in DOMAIN r.seen : r.seen[k].at \in Place BY Fields, TableFacts DEF Table, Row
<1>2. i \in DOMAIN r.seen /\ j \in DOMAIN r.seen BY DEF Turn
<1>3. PICK p \in Place : p = r.seen[i].at BY <1>1, <1>2
<1>4. PICK q \in Place : q = r.seen[j].at BY <1>1, <1>2
<1>5. p[1] \in Int /\ p[2] \in Int /\ q[1] \in Int /\ q[2] \in Int BY DEF Place
<1>6. i # j => Earlier(p, q) /\ Earlier(q, p) BY <1>3, <1>4 DEF Turn
<1>7. ~(Earlier(p, q) /\ Earlier(q, p)) BY <1>5 DEF Earlier
<1> QED BY <1>6, <1>7

\* In a quiet season the row whose turn it is is wanted where it was.
LEMMA WantedInPlace ==
  ASSUME NEW r \in Tasks, Calm(r), r.pc = "restore", NEW i \in Turn(r),
         r.left \subseteq DOMAIN r.seen, Wanted(r, i)[1] \in Quiet
  PROVE  r.off = 0 /\ Wanted(r, i) = r.seen[i].at /\ r.seen[i].at[1] \in Quiet
<1>1. i \in DOMAIN r.seen BY DEF Turn
<1>2. PICK p \in Place : p = r.seen[i].at BY <1>1, Fields, TableFacts DEF Table, Row
<1>3. PICK n \in Nat : n = r.off BY Fields
<1>4. Wanted(r, i) = <<p[1], p[2] + n>> BY <1>2, <1>3 DEF Wanted
<1>5. p[1] \in Quiet BY <1>4
<1>6. ~(n > 0) BY <1>2, <1>3, <1>5 DEF Calm, Unbumped
<1>7. n = 0 BY <1>6
<1>8. p = <<p[1], p[2]>> /\ p[2] + 0 = p[2] BY DEF Place
<1> QED BY <1>2, <1>3, <1>4, <1>5, <1>7, <1>8

LEMMA CalmBump == ASSUME IInv, Seasons, NEW c \in Refresher, Bump(c) PROVE Seasons'
<1>1. PICK r : r = refresh[c] OBVIOUS
<1>2. PICK t : t = [r EXCEPT !.off = r.off + 1] OBVIOUS
<1>3. r.pc = "restore" /\ Task(c, t) /\ UNCHANGED <<rows, import>> BY <1>1, <1>2 DEF Bump
<1>4. PICK i \in Turn(r) : Wanted(r, i) \in r.claimed BY <1>1 DEF Bump
<1>5. r \in Tasks /\ Calm(r) /\ Good(r, DOMAIN rows) BY <1>1, Known DEF Seasons
<1>6. /\ t.pc = r.pc /\ t.draft = r.draft /\ t.claimed = r.claimed /\ t.left = r.left
      /\ t.seen = r.seen /\ t.target = r.target /\ t.listing = r.listing
  <2>1. r = [pc |-> r.pc, remaps |-> r.remaps, ordering |-> r.ordering,
             listing |-> r.listing, seen |-> r.seen, target |-> r.target,
             plan |-> r.plan, left |-> r.left, off |-> r.off,
             claimed |-> r.claimed, draft |-> r.draft]
    BY <1>5, Fields
  <2> QED BY <1>2, <2>1
<1>7. r.left \subseteq DOMAIN r.seen BY <1>5 DEF Good
<1>8. ASSUME NEW j \in Turn(r), r.seen[j].at[1] \in Quiet PROVE FALSE
  <2>1. j = i BY <1>4, <1>5, <1>7, OneTurn
  <2>2. i \in r.left BY <1>4 DEF Turn
  <2>3. Wanted(r, i)[1] = r.seen[i].at[1] BY DEF Wanted
  <2>4. Wanted(r, i) = r.seen[i].at BY <1>3, <1>4, <1>5, <1>7, <1>8, <2>1, <2>3, WantedInPlace
  <2>5. PICK k \in DOMAIN r.seen \ r.left : r.seen[k].at = r.seen[i].at
    BY <1>3, <1>4, <1>5, <1>8, <2>1, <2>4 DEF Calm, Unbumped
  <2>6. k = i BY <1>5, <1>7, <2>2, <2>5 DEF Calm, Distinct
  <2> QED BY <2>2, <2>5, <2>6
<1>9. Turn(t) = Turn(r) BY <1>6 DEF Turn
<1>10. Unbumped(t) BY <1>3, <1>5, <1>6, <1>8, <1>9 DEF Unbumped, Calm
<1>11. Calm(t) BY <1>3, <1>5, <1>6, <1>10 DEF Calm
<1> QED BY <1>3, <1>11, CalmLocal

LEMMA CalmRestore == ASSUME IInv, Named, Seasons, NEW c \in Refresher, Restore(c) PROVE Seasons'
<1>1. PICK r : r = refresh[c] OBVIOUS
<1>2. PICK i : /\ i \in Turn(r)
               /\ Task(c, [r EXCEPT !.off = 0, !.left = @ \ {i}, !.draft[i].at = Wanted(r, i),
                                    !.claimed = @ \cup {Wanted(r, i)}])
  BY <1>1 DEF Restore
<1>3. PICK d : d = [r.draft EXCEPT ![i].at = Wanted(r, i)] OBVIOUS
<1>4. PICK t : t = [r EXCEPT !.off = 0, !.left = r.left \ {i}, !.draft = d,
                             !.claimed = r.claimed \cup {Wanted(r, i)}]
  OBVIOUS
<1>5. Task(c, t)
  <2>1. [r EXCEPT !.off = 0, !.left = @ \ {i}, !.draft[i].at = Wanted(r, i),
                  !.claimed = @ \cup {Wanted(r, i)}]
        = [r EXCEPT !.off = 0, !.left = r.left \ {i}, !.draft = d,
                    !.claimed = r.claimed \cup {Wanted(r, i)}]
    BY <1>3
  <2> QED BY <1>2, <1>4, <2>1
<1>6. r.pc = "restore" /\ UNCHANGED <<rows, import>> BY <1>1 DEF Restore
<1>7. /\ r \in Tasks /\ Calm(r) /\ Good(r, DOMAIN rows)
      /\ Agrees(r.seen, rows) /\ Agrees(r.draft, rows)
  BY <1>1, Known DEF Seasons, Named
<1>8. /\ t.pc = "restore" /\ t.draft = d /\ t.claimed = r.claimed \cup {Wanted(r, i)}
      /\ t.left = r.left \ {i} /\ t.seen = r.seen /\ t.target = r.target /\ t.off = 0
  <2>1. r = [pc |-> r.pc, remaps |-> r.remaps, ordering |-> r.ordering,
             listing |-> r.listing, seen |-> r.seen, target |-> r.target,
             plan |-> r.plan, left |-> r.left, off |-> r.off,
             claimed |-> r.claimed, draft |-> r.draft]
    BY <1>7, Fields
  <2> QED BY <1>4, <1>6, <2>1
<1>9. r.left \subseteq DOMAIN r.seen /\ i \in r.left /\ i \in DOMAIN r.seen
  BY <1>2, <1>7 DEF Good, Turn
<1>10. Wanted(r, i)[1] \in Quiet => Wanted(r, i) = r.seen[i].at
  BY <1>2, <1>6, <1>7, <1>9, WantedInPlace
<1>11. ASSUME NEW j \in DOMAIN d PROVE AnchoredRow(d[j])
  <2>1. j \in DOMAIN r.draft BY <1>3
  <2>2. PICK q \in Row : q = r.draft[j] BY <1>7, <2>1, Fields, TableFacts DEF Table
  <2>3. PICK x : x = Wanted(r, i) OBVIOUS
  <2>4. AnchoredRow(q) BY <1>7, <2>1, <2>2 DEF Calm, Anchored
  <2>5. CASE j # i BY <1>3, <2>1, <2>2, <2>4, <2>5
  <2>6. CASE j = i
    <3>1. d[j] = [q EXCEPT !.at = x] BY <1>3, <2>1, <2>2, <2>3, <2>6
    <3>2. d[j].at = x /\ d[j].title = q.title BY <3>1 DEF Row
    <3>3. r.seen[i].title = q.title BY <1>7, <1>9, <2>1, <2>2, <2>6 DEF Agrees
    <3>4. AnchoredRow(r.seen[i]) BY <1>7, <1>9 DEF Calm, Anchored
    <3> QED BY <1>10, <2>3, <3>2, <3>3, <3>4 DEF AnchoredRow
  <2> QED BY <2>5, <2>6
<1>12. Unbumped(t)
  <2>1. ASSUME NEW p \in t.claimed, p[1] \in Quiet
        PROVE  \E j \in DOMAIN t.seen \ t.left : t.seen[j].at = p
    <3>1. CASE p \in r.claimed
      <4>1. PICK j \in DOMAIN r.seen \ r.left : r.seen[j].at = p
        BY <1>6, <1>7, <2>1, <3>1 DEF Calm, Unbumped
      <4> QED BY <1>8, <4>1
    <3>2. CASE p = Wanted(r, i) BY <1>8, <1>9, <1>10, <2>1, <3>2
    <3> QED BY <1>8, <3>1, <3>2
  <2> QED BY <1>8, <2>1 DEF Unbumped
<1>13. Calm(t) BY <1>7, <1>8, <1>11, <1>12 DEF Calm, Anchored
<1> QED BY <1>5, <1>6, <1>13, CalmLocal

LEMMA CalmCommit ==
  ASSUME IInv, Seasons, NEW c \in Refresher, Commit(c), Agrees(rows, rows') PROVE Seasons'
<1>1. PICK r : r = refresh[c] OBVIOUS
<1>2. PICK t : t = [NoTask EXCEPT !.pc = "rate"] OBVIOUS
<1>3. r.pc = "restore" /\ rows' = r.draft /\ Task(c, t) /\ UNCHANGED import
  BY <1>1, <1>2 DEF Commit
<1>4. Calm(r) /\ Distinct(r.draft) BY <1>1, <1>3, Known DEF Seasons, Good, Drafted
<1>5. HasFirst(rows') BY FirstStay DEF Seasons, CalmRows
<1>6. CalmRows' BY <1>3, <1>4, <1>5 DEF CalmRows, Calm
<1>7. t.pc = "rate" /\ t.seen = <<>> /\ t.draft = <<>> /\ t.target = <<>> /\ t.off = 0
  BY <1>2 DEF NoTask
<1>8. Calm(t) BY <1>7, NothingCalm, CalmBlank
<1> QED BY <1>3, <1>6, <1>8, CalmTask

LEMMA RewritingCalm ==
  ASSUME CalmRows, NEW i \in DOMAIN rows, NEW row, AnchoredRow(row), rows' = Rewritten(i, row),
         Agrees(rows, rows')
  PROVE  CalmRows'
<1>1. PICK u : u = [rows EXCEPT ![i] = row] OBVIOUS
<1>2. rows' = IF Distinct(u) THEN u ELSE rows BY <1>1 DEF Rewritten
<1>3. Anchored(u) BY <1>1 DEF CalmRows, Anchored
<1>4. HasFirst(rows') BY FirstStay DEF CalmRows
<1> QED BY <1>2, <1>3, <1>4 DEF CalmRows

LEMMA CalmWriteBack ==
  ASSUME IInv, Seasons, NEW c \in Refresher, WriteBack(c), Agrees(rows, rows') PROVE Seasons'
<1>1. PICK r : r = refresh[c] OBVIOUS
<1>2. PICK i : i \in Turn(r) /\ rows' = Rewritten(i, r.seen[i])
               /\ Task(c, [r EXCEPT !.left = @ \ {i}])
  BY <1>1 DEF WriteBack
<1>3. PICK t : t = [r EXCEPT !.left = r.left \ {i}] OBVIOUS
<1>4. r.pc = "write" /\ Task(c, t) /\ UNCHANGED import BY <1>1, <1>2, <1>3 DEF WriteBack
<1>5. r \in Tasks /\ Good(r, DOMAIN rows) /\ Calm(r) BY <1>1, Known DEF Seasons
<1>6. i \in DOMAIN r.seen /\ i \in DOMAIN rows BY <1>2, <1>5 DEF Turn, Good
<1>7. AnchoredRow(r.seen[i]) BY <1>5, <1>6 DEF Calm, Anchored
<1>8. CalmRows' BY <1>2, <1>6, <1>7, RewritingCalm DEF Seasons
<1>9. /\ t.pc = r.pc /\ t.seen = r.seen /\ t.draft = r.draft /\ t.target = r.target
      /\ t.off = r.off
  <2>1. r = [pc |-> r.pc, remaps |-> r.remaps, ordering |-> r.ordering,
             listing |-> r.listing, seen |-> r.seen, target |-> r.target,
             plan |-> r.plan, left |-> r.left, off |-> r.off,
             claimed |-> r.claimed, draft |-> r.draft]
    BY <1>5, Fields
  <2> QED BY <1>3, <2>1
<1>10. Calm(t) BY <1>4, <1>5, <1>9, CalmSame
<1> QED BY <1>4, <1>8, <1>10, CalmTask

LEMMA CalmImport ==
  ASSUME IInv, Seasons, Named, (\E e \in Episode : ImportRead(e)) \/ ImportWrite,
         Agrees(rows, rows')
  PROVE  Seasons'
<1>1. CASE \E e \in Episode : ImportRead(e)
  <2>1. PICK e \in Episode : ImportRead(e) BY <1>1
  <2>2. PICK i \in Lookup(Aired[e]) : import' = [row |-> i, was |-> rows[i], file |-> e]
    BY <2>1 DEF ImportRead
  <2>3. UNCHANGED <<rows, refresh>> BY <2>1 DEF ImportRead
  <2>4. import'.was = rows[i] /\ i \in DOMAIN rows BY <2>2 DEF Lookup
  <2> QED BY <2>3, <2>4 DEF Seasons, CalmRows, Anchored
<1>2. CASE ImportWrite
  <2>1. PICK w : w = [import.was EXCEPT !.file = import.file] OBVIOUS
  <2>2. /\ import # NoImport /\ import' = NoImport /\ rows' = Rewritten(import.row, w)
        /\ UNCHANGED refresh
    BY <1>2, <2>1 DEF ImportWrite
  <2>3. import.row \in DOMAIN rows /\ import.was \in Row BY <2>2 DEF IInv, Shared
  <2>4. w.title = import.was.title /\ w.at = import.was.at
    <3>1. PICK q \in Row : q = import.was BY <2>3
    <3>2. PICK f : f = import.file OBVIOUS
    <3>3. [q EXCEPT !.file = f].title = q.title /\ [q EXCEPT !.file = f].at = q.at BY DEF Row
    <3> QED BY <2>1, <3>1, <3>2, <3>3
  <2>5. AnchoredRow(w) BY <2>2, <2>4 DEF Seasons, AnchoredRow
  <2>6. CalmRows' BY <2>2, <2>3, <2>5, RewritingCalm DEF Seasons
  <2> QED BY <2>2, <2>6 DEF Seasons
<1> QED BY <1>1, <1>2

LEMMA SeasonsStep ==
  ASSUME IInv, Named, Seasons, Agrees(rows, rows'), [Next]_vars PROVE Seasons'
<1>1. ASSUME NEW c \in Refresher,
             \/ \E b \in BOOLEAN : Start(c, b) \/ Fetch(c, b) \/ FetchOrder(c, b) \/ Rate(c, b)
             \/ Preload(c) \/ Plan(c) \/ Done(c)
      PROVE  Seasons'
  BY <1>1, CalmCopies
<1>2. ASSUME NEW c \in Refresher,
             Sync(c) \/ Begin(c) \/ Bump(c) \/ Restore(c) \/ Commit(c) \/ WriteBack(c)
      PROVE  Seasons'
  BY <1>2, CalmSync, CalmBegin, CalmBump, CalmRestore, CalmCommit, CalmWriteBack
<1>3. CASE (\E e \in Episode : ImportRead(e)) \/ ImportWrite BY <1>3, CalmImport
<1>4. CASE (\E o \in Ordering : SetOrdering(o)) \/ NewVersion \/ UNCHANGED vars
  <2>1. UNCHANGED <<rows, refresh, import>>
    BY <1>4 DEF SetOrdering, NewVersion, vars, bounds
  <2> QED BY <2>1 DEF Seasons, CalmRows
<1> QED BY <1>1, <1>2, <1>3, <1>4 DEF Next

LEMMA SeasonsInit == ASSUME NewSeasonsOnly, Init PROVE Seasons
<1>1. PICK l \in Seq(Episode) : l = Listing[1] BY ConstantFacts
<1>2. \A k \in DOMAIN l : l[k] \in Episode BY <1>1
<1>3. rows = [k \in DOMAIN l |-> NewRow(l[k])] BY <1>1 DEF Init
<1>4. \A k \in DOMAIN l : rows[k].title = l[k] /\ rows[k].at = Aired[l[k]] BY <1>3 DEF NewRow
<1>5. Anchored(rows) BY <1>3, <1>4 DEF Anchored, AnchoredRow
<1>6. Distinct(rows)
  <2>1. DOMAIN rows = DOMAIN l BY <1>3
  <2>2. ASSUME NEW i \in DOMAIN l, NEW j \in DOMAIN l, rows[i].at = rows[j].at PROVE i = j
    <3>1. Aired[l[i]] = Aired[l[j]] BY <1>4, <2>2
    <3>2. l[i] = l[j] BY <1>2, <3>1 DEF NewSeasonsOnly
    <3> QED BY <1>1, <3>2 DEF NewSeasonsOnly
  <2> QED BY <2>1, <2>2 DEF Distinct
<1>7. HasFirst(rows) BY <1>1, <1>3, <1>4 DEF HasFirst
<1>8. Calm(NoTask) BY BlankFields, NothingCalm, CalmBlank
<1>9. \A c \in Refresher : refresh[c] = NoTask BY DEF Init
<1> QED BY <1>5, <1>6, <1>7, <1>8, <1>9 DEF Seasons, CalmRows, Init

\* Where the orderings leave the seasons of new episodes alone, new episodes always come
\* to free positions.
THEOREM QuietSeasonsAreFree ==
  ASSUME Identified, NewSeasonsOnly PROVE Spec => []FreshPositionsFree
<1>1. Init => Named /\ Seasons BY NamedInit, SeasonsInit
<1>2. Named /\ Seasons /\ IInv => FreshPositionsFree BY SeasonsKeepFresh
<1>3. Named /\ Seasons /\ IInv /\ [Next]_vars => Named' /\ Seasons'
  BY <1>2, NamedStep, SeasonsStep
<1> QED BY <1>1, <1>2, <1>3, Invariance, PTL DEF Spec

\* ... so there rows with files keep their episode and syncs cover their metadata, for
\* every ordering and however refreshes, edits and imports overlap.
THEOREM QuietSeasonsAreSafe ==
  ASSUME Identified, NewSeasonsOnly PROVE Spec => FileKeepsEpisode /\ SyncCovers
<1>1. Spec => []FreshPositionsFree BY QuietSeasonsAreFree
<1>2. Spec /\ []FreshPositionsFree => FileKeepsEpisode BY FilesKeepEpisode
<1>3. Spec /\ []FreshPositionsFree => SyncCovers BY SyncsCover
<1> QED BY <1>1, <1>2, <1>3, PTL

===============================================================================
