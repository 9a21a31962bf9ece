---------------------------- MODULE MCDatasetSync ----------------------------
(* Two datasets: a file of series, and one of episodes that are kept only    *)
(* when their series is stored; of episodes a later version has one row more. *)
EXTENDS DatasetSync

CONSTANTS s1, e1, e2, e3

Order == <<"basics", "episode">>
Keys == [r \in Row |-> CASE r = s1 -> 1 [] r = e1 -> 1 [] r = e2 -> 2 [] r = e3 -> 3]
Parents == [r \in Row |-> IF r \in {e1, e3} THEN {s1} ELSE {}]
Contents == [d \in Dataset |->
  IF d = "basics" THEN <<<<s1>>>> ELSE <<<<e2, e3>>, <<e1, e2, e3>>>>]
Intervals == [d \in Dataset |-> IF d = "basics" THEN 1 ELSE 2]
==============================================================================
