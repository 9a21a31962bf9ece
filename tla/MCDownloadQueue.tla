-------------------------- MODULE MCDownloadQueue --------------------------
(* Small instances of DownloadQueue for TLC. *)
EXTENDS DownloadQueue, TLC

CONSTANTS d1, d2, p1, p2

OneStore == <<"series">>
AllSeries == [d \in Download |-> "series"]

\* A scheduler task next to a task that serves the API.
TwoTasks == [p \in Proc |-> IF p = p1 THEN {"poll", "process", "reconcile"}
                                      ELSE {"grab", "remove"}]

\* The reconcile job of the scheduler and the user.
JobAndUser == [p \in Proc |-> IF p = p1 THEN {"reconcile"} ELSE {"grab", "remove"}]

\* The downloads are interchangeable where they all are of one kind.
Downloads == Permutations(Download)
============================================================================
