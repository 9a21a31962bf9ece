-------------------------- MODULE MCTrackedStores --------------------------
(* Small instances of TrackedStores for TLC. *)
EXTENDS TrackedStores

CONSTANTS k1, k2, c1

OneStore == <<"series">>

\* What the old table may hold; it numbers its rows itself.
SeriesRows == {[store |-> "series", rec |-> [id |-> 1, key |-> k1, content |-> c1]],
               [store |-> "series", rec |-> [id |-> 2, key |-> k2, content |-> c1]]}
============================================================================
