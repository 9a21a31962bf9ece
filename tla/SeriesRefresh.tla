---------------------------- MODULE SeriesRefresh ----------------------------
(***************************************************************************)
(* One series and its episodes.  A refresh fetches the metadata, writes    *)
(* the series' row back, matches the metadata's episodes with the rows     *)
(* (by TVDB id, else by position) and, when the user chose another         *)
(* ordering than the aired one, moves the rows to the positions that TVDB  *)
(* gives for it in one transaction; then it rates the episodes.  Commands  *)
(* and automatic refreshes of the same series may overlap, the user edits  *)
(* the ordering and imports link files meanwhile.                          *)
(***************************************************************************)
EXTENDS Integers, Sequences, FiniteSets

CONSTANTS
  Episode,     \* the episodes there are
  Tvdb,        \* Tvdb[e]: its TVDB id, 0 when the metadata has none
  Aired,       \* Aired[e]: its position in the metadata
  Listing,     \* Listing[v]: the episodes that version v of the metadata lists
  Ordering,    \* VALID_ORDERINGS that the user switches between
  Target,      \* Target[o]: the positions by TVDB id that TVDB has for ordering o
  Rated,       \* the positions that the IMDb service has ratings for
  Refresher,   \* bound: the refreshes of the series that may overlap
  MaxRuns,     \* bound: how many refreshes are started
  MaxEdits     \* bound: how often the user changes the ordering

Position == Nat \X Nat
NoOne == "nobody"

ASSUME RefreshAssumption ==
  /\ Tvdb \in [Episode -> Nat]
  /\ \A e \in Episode : Aired[e] \in Position
  /\ Listing \in Seq(Seq(Episode)) /\ Len(Listing) > 0
  /\ "aired" \in Ordering
  /\ \A o \in Ordering \ {"aired"} : /\ DOMAIN Target[o] \subseteq Nat \ {0}
                                     /\ Target[o] \in [DOMAIN Target[o] -> Position]
  /\ Rated \subseteq Position /\ NoOne \notin Refresher
  /\ MaxRuns \in Nat /\ MaxEdits \in Nat

VARIABLES
  version,   \* the version of the metadata that is offered
  rows,      \* rows[i]: the episodes row with id i
  ordering,  \* episode_ordering of the series' row
  refresh,   \* refresh[c]: the local state of a refresh
  holder,    \* the refresh whose remap transaction holds the rows' locks, if one does
  import,    \* an import between the read of its episode's row and the write
  runs, edits

vars == <<version, rows, ordering, refresh, holder, import, runs, edits>>
bounds == <<runs, edits>>

NoFile == "none"
Nowhere == <<0, 0>>
\* at: season and episode number; scene: their backup; file: what its file shows.
NoTask == [pc |-> "idle", remaps |-> FALSE, ordering |-> "aired", listing |-> <<>>,
           seen |-> <<>>, target |-> <<>>, plan |-> {}, left |-> {}, off |-> 0,
           claimed |-> {}, draft |-> <<>>]
NoImport == [row |-> 0, was |-> <<>>, file |-> NoFile]

Unlocked == holder = NoOne
Task(c, t) == refresh' = [refresh EXCEPT ![c] = t]
Earlier(p, q) == p[1] < q[1] \/ (p[1] = q[1] /\ p[2] < q[2])
\* The rows are gone through in the order of (season_number, episode_number).
Turn(t) == {i \in t.left : \A j \in t.left \ {i} : Earlier(t.seen[i].at, t.seen[j].at)}

---------------------------------------------------------------------------
(* execute_refresh_series() and, without the remap, auto_refresh_series() *)

Start(c, remaps) ==
  /\ refresh[c].pc = "idle" /\ runs < MaxRuns
  /\ runs' = runs + 1
  /\ Task(c, [NoTask EXCEPT !.pc = "fetch", !.remaps = remaps, !.ordering = ordering])
  /\ UNCHANGED <<version, rows, ordering, holder, import, edits>>

\* The metadata arrives and the series' row is written back as it was read.
Fetch(c, ok) ==
  /\ refresh[c].pc = "fetch"
  /\ IF ok
       THEN /\ Task(c, [refresh[c] EXCEPT !.pc = "preload", !.listing = Listing[version]])
            /\ ordering' = refresh[c].ordering
       ELSE Task(c, NoTask) /\ ordering' = ordering
  /\ UNCHANGED <<version, rows, holder, import, bounds>>

---------------------------------------------------------------------------
(* EpisodeRepository::sync_episodes_batch() *)

Preload(c) ==
  /\ refresh[c].pc = "preload"
  /\ Task(c, [refresh[c] EXCEPT !.pc = "sync", !.seen = rows])
  /\ UNCHANGED <<version, rows, ordering, holder, import, bounds>>

ById(seen, e) == {i \in DOMAIN seen : Tvdb[e] > 0 /\ seen[i].tvdb = Tvdb[e]}
ByPosition(seen, e) == {i \in DOMAIN seen : seen[i].at = Aired[e]}
MatchesOnlyPosition(seen, e) == ByPosition(seen, e)        \* mutant of Matches
Matches(seen, e) == IF ById(seen, e) # {} THEN ById(seen, e) ELSE ByPosition(seen, e)

\* The entry k of the listing is written to the row of this id.  New rows take the
\* next ids.
RowOf(t, k) ==
  IF Matches(t.seen, t.listing[k]) # {}
    THEN CHOOSE i \in Matches(t.seen, t.listing[k]) : TRUE
    ELSE Cardinality(DOMAIN rows)
         + Cardinality({m \in 1 .. k : Matches(t.seen, t.listing[m]) = {}})
Inserted(t) == {k \in DOMAIN t.listing : Matches(t.seen, t.listing[k]) = {}}
NewRow(e) == [tvdb |-> Tvdb[e], title |-> e, at |-> Aired[e], scene |-> Nowhere, file |-> NoFile]

\* Only the TVDB id and what the metadata tells are updated, never the position.
Overwritten(t, i) ==
  LET ks == {k \in DOMAIN t.listing \ Inserted(t) : RowOf(t, k) = i}
      e == t.listing[CHOOSE k \in ks : \A m \in ks : m <= k] IN
  IF ks = {} THEN rows[i]
  ELSE [rows[i] EXCEPT !.tvdb = IF Tvdb[e] > 0 THEN Tvdb[e] ELSE t.seen[i].tvdb,
                       !.title = e]
SyncedWithoutInserts(t) == [i \in DOMAIN rows |-> Overwritten(t, i)]   \* mutant of Synced
Synced(t) ==
  [i \in DOMAIN rows \cup {RowOf(t, k) : k \in Inserted(t)} |->
     IF i \in DOMAIN rows THEN Overwritten(t, i)
     ELSE NewRow(t.listing[CHOOSE k \in Inserted(t) : RowOf(t, k) = i])]

\* UNIQUE (series_id, season_number, episode_number)
Distinct(table) == \A i, j \in DOMAIN table : table[i].at = table[j].at => i = j

\* An insert at a position that is taken fails the transaction and the command.
Sync(c) ==
  /\ refresh[c].pc = "sync" /\ Unlocked
  /\ LET t == refresh[c] IN
     IF Distinct(Synced(t))
       THEN /\ rows' = Synced(t)
            /\ Task(c, [t EXCEPT !.pc = IF t.remaps /\ t.ordering # "aired" THEN "order"
                                                                          ELSE "rate",
                                 !.listing = <<>>, !.seen = <<>>])
       ELSE Task(c, NoTask) /\ rows' = rows
  /\ UNCHANGED <<version, ordering, holder, import, bounds>>

---------------------------------------------------------------------------
(* "Remap episode numbers if series uses a non-default TVDB ordering" *)

\* get_episodes_by_ordering() may fail or find nothing.
FetchOrder(c, ok) ==
  /\ refresh[c].pc = "order"
  /\ Task(c, IF ok THEN [refresh[c] EXCEPT !.pc = "plan", !.target = Target[refresh[c].ordering]]
                   ELSE [refresh[c] EXCEPT !.pc = "rate"])
  /\ UNCHANGED <<version, rows, ordering, holder, import, bounds>>

Placed(target, row) == row.tvdb > 0 /\ row.tvdb \in DOMAIN target
Remapped(target) ==
  {i \in DOMAIN rows : Placed(target, rows[i]) /\ target[rows[i].tvdb] # rows[i].at}

Plan(c) ==
  /\ refresh[c].pc = "plan"
  /\ LET plan == Remapped(refresh[c].target) IN
     Task(c, IF plan = {} THEN [refresh[c] EXCEPT !.pc = "rate", !.target = <<>>]
             ELSE [refresh[c] EXCEPT !.pc = "begin", !.seen = rows, !.plan = plan])
  /\ UNCHANGED <<version, rows, ordering, holder, import, bounds>>

Sentinel(i) == <<-(1000 + i), -(1000 + i)>>
NewPlace(t, i) == t.target[t.seen[i].tvdb]

\* Phases A and B1: every row of the series to its sentinel, those of the plan to their
\* new positions.  Two rows with the same new position fail the command.
Moved(t) ==
  [i \in DOMAIN rows |->
     IF i \in t.plan THEN [rows[i] EXCEPT !.at = NewPlace(t, i), !.scene = t.seen[i].at]
                     ELSE [rows[i] EXCEPT !.at = Sentinel(i)]]
Begin(c) ==
  /\ refresh[c].pc = "begin" /\ Unlocked
  /\ LET t == refresh[c] IN
     IF Distinct(Moved(t))
       THEN /\ holder' = c
            /\ Task(c, [t EXCEPT !.pc = "restore", !.draft = Moved(t),
                                 !.claimed = {NewPlace(t, i) : i \in t.plan},
                                 !.left = DOMAIN t.seen \ t.plan])
       ELSE Task(c, NoTask) /\ UNCHANGED holder
  /\ UNCHANGED <<version, rows, ordering, import, bounds>>

\* Phase B2: "restore non-remapped episodes to their original positions", or the next
\* one in the season that is not claimed.
Wanted(t, i) == <<t.seen[i].at[1], t.seen[i].at[2] + t.off>>
BumpDown(c) ==                                            \* mutant of Bump
  /\ refresh[c].pc = "restore"
  /\ \E i \in Turn(refresh[c]) : Wanted(refresh[c], i) \in refresh[c].claimed
  /\ Task(c, [refresh[c] EXCEPT !.off = @ - 1])
  /\ UNCHANGED <<version, rows, ordering, holder, import, bounds>>
Bump(c) ==
  /\ refresh[c].pc = "restore"
  /\ \E i \in Turn(refresh[c]) : Wanted(refresh[c], i) \in refresh[c].claimed
  /\ Task(c, [refresh[c] EXCEPT !.off = @ + 1])
  /\ UNCHANGED <<version, rows, ordering, holder, import, bounds>>

RestoreUnclaimed(c) ==                                    \* mutant of Restore
  /\ refresh[c].pc = "restore"
  /\ \E i \in Turn(refresh[c]) :
       LET t == refresh[c]  at == Wanted(t, i) IN
       /\ at \notin t.claimed
       /\ Task(c, [t EXCEPT !.off = 0, !.left = @ \ {i}, !.draft[i].at = at])
  /\ UNCHANGED <<version, rows, ordering, holder, import, bounds>>
RestoreOnlyInPlace(c) ==                                  \* mutant of Restore
  /\ refresh[c].pc = "restore"
  /\ \E i \in Turn(refresh[c]) :
       LET t == refresh[c]  at == Wanted(t, i) IN
       /\ at \notin t.claimed
       /\ Task(c, [t EXCEPT !.off = 0, !.left = @ \ {i}, !.claimed = @ \cup {at},
                            !.draft[i].at = IF t.off = 0 THEN at ELSE @])
  /\ UNCHANGED <<version, rows, ordering, holder, import, bounds>>
Restore(c) ==
  /\ refresh[c].pc = "restore"
  /\ \E i \in Turn(refresh[c]) :
       LET t == refresh[c]  at == Wanted(t, i) IN
       /\ at \notin t.claimed
       /\ Task(c, [t EXCEPT !.off = 0, !.left = @ \ {i}, !.draft[i].at = at,
                            !.claimed = @ \cup {at}])
  /\ UNCHANGED <<version, rows, ordering, holder, import, bounds>>

Commit(c) ==
  /\ refresh[c].pc = "restore" /\ refresh[c].left = {}
  /\ rows' = refresh[c].draft
  /\ holder' = NoOne
  /\ Task(c, [NoTask EXCEPT !.pc = "rate"])
  /\ UNCHANGED <<version, ordering, import, bounds>>

---------------------------------------------------------------------------
(* "Enrich episodes with IMDB ratings" *)

Rate(c, ok) ==
  /\ refresh[c].pc = "rate"
  /\ Task(c, IF ok THEN [NoTask EXCEPT !.pc = "write", !.seen = rows,
                                       !.left = {i \in DOMAIN rows : rows[i].at \in Rated}]
                   ELSE NoTask)
  /\ UNCHANGED <<version, rows, ordering, holder, import, bounds>>

\* EpisodeRepository::update() writes all columns; when that breaks the index nothing
\* is written.
Rewritten(i, row) ==
  LET table == [rows EXCEPT ![i] = row] IN IF Distinct(table) THEN table ELSE rows

WriteBack(c) ==
  /\ refresh[c].pc = "write" /\ refresh[c].left # {} /\ Unlocked
  /\ \E i \in Turn(refresh[c]) :
       /\ rows' = Rewritten(i, refresh[c].seen[i])
       /\ Task(c, [refresh[c] EXCEPT !.left = @ \ {i}])
  /\ UNCHANGED <<version, ordering, holder, import, bounds>>

Done(c) ==
  /\ refresh[c].pc = "write" /\ refresh[c].left = {}
  /\ Task(c, NoTask)
  /\ UNCHANGED <<version, rows, ordering, holder, import, bounds>>

---------------------------------------------------------------------------
(* What else happens to the series *)

\* The handler reads and writes the series' row.
SetOrdering(o) ==
  /\ edits < MaxEdits /\ o # ordering
  /\ edits' = edits + 1
  /\ ordering' = o
  /\ UNCHANGED <<version, rows, refresh, holder, import, runs>>

NewVersion ==
  /\ version < Len(Listing)
  /\ version' = version + 1
  /\ UNCHANGED <<rows, ordering, refresh, holder, import, bounds>>

\* get_by_series_season_episode(): "match by current season/episode numbers", else "by
\* scene (original aired) numbers".
Lookup(at) ==
  IF \E i \in DOMAIN rows : rows[i].at = at THEN {i \in DOMAIN rows : rows[i].at = at}
                                            ELSE {i \in DOMAIN rows : rows[i].scene = at}

\* A file named by the aired numbers of e is imported.
ImportRead(e) ==
  /\ import = NoImport
  /\ \E i \in Lookup(Aired[e]) :
       rows[i].file = NoFile /\ import' = [row |-> i, was |-> rows[i], file |-> e]
  /\ UNCHANGED <<version, rows, ordering, refresh, holder, bounds>>

ImportWrite ==
  /\ import # NoImport /\ Unlocked
  /\ rows' = Rewritten(import.row, [import.was EXCEPT !.file = import.file])
  /\ import' = NoImport
  /\ UNCHANGED <<version, ordering, refresh, holder, bounds>>

\* The series was added, which lists its episodes once.
Init ==
  /\ version = 1 /\ ordering \in Ordering
  /\ rows = [k \in DOMAIN Listing[1] |-> NewRow(Listing[1][k])]
  /\ refresh = [c \in Refresher |-> NoTask]
  /\ holder = NoOne /\ import = NoImport
  /\ runs = 0 /\ edits = 0

Next ==
  \/ \E c \in Refresher :
       \/ \E b \in BOOLEAN : Start(c, b) \/ Fetch(c, b) \/ FetchOrder(c, b) \/ Rate(c, b)
       \/ Preload(c) \/ Sync(c) \/ Plan(c) \/ Begin(c) \/ Bump(c) \/ Restore(c) \/ Commit(c)
       \/ WriteBack(c) \/ Done(c)
  \/ \E o \in Ordering : SetOrdering(o)
  \/ NewVersion
  \/ \E e \in Episode : ImportRead(e)
  \/ ImportWrite

Spec == Init /\ [][Next]_vars

---------------------------------------------------------------------------
Place == Int \X Int
Row == [tvdb : Nat, title : Episode, at : Place, scene : Place, file : Episode \cup {NoFile}]
Table(t) ==
  DOMAIN t \subseteq Nat \ {0} /\ IsFiniteSet(DOMAIN t) /\ t \in [DOMAIN t -> Row]

TypeOK ==
  /\ version \in DOMAIN Listing /\ ordering \in Ordering
  /\ Table(rows)
  /\ holder \in Refresher \cup {NoOne}
  /\ \A c \in Refresher : LET t == refresh[c] IN
       /\ t.pc \in {"idle", "fetch", "preload", "sync", "order", "plan", "begin", "restore",
                    "rate", "write"}
       /\ t.ordering \in Ordering /\ Table(t.seen) /\ Table(t.draft)
       /\ t.plan \subseteq DOMAIN t.seen /\ t.left \subseteq DOMAIN t.seen
       /\ t.off \in Nat /\ t.claimed \subseteq Place
  /\ runs \in 0 .. MaxRuns /\ edits \in 0 .. MaxEdits

\* The transaction of a remap never breaks the index on the positions, whatever the
\* ordering takes from the rows that are not in it and however far they are bumped.
RemapFits == \A c \in Refresher : Distinct(refresh[c].draft)

\* "restore non-remapped episodes to their original positions": what a transaction parked
\* below zero has a season and a number again when it commits, if it was read before.
WhatWasReadIsRestored ==
  \A c \in Refresher : refresh[c].pc = "restore" =>
    \A i \in DOMAIN refresh[c].seen \ refresh[c].left :
      refresh[c].seen[i].at \in Position => refresh[c].draft[i].at \in Position

\* A row with a file goes on to stand for the same episode, however refreshes, changes of
\* the ordering and imports overlap.
FileKeepsEpisode ==
  [][\A i \in DOMAIN rows : rows[i].file # NoFile => rows'[i].title = rows[i].title]_rows

\* A sync that is committed leaves no episode of its metadata without a row.
SyncCovers ==
  [][\A c \in Refresher :
       refresh[c].pc = "sync" /\ refresh'[c].pc \in {"order", "rate"} =>
         \A k \in DOMAIN refresh[c].listing :
           \E i \in DOMAIN rows' : rows'[i].title = refresh[c].listing[k]]_vars

==============================================================================
