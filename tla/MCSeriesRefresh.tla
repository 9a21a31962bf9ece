--------------------------- MODULE MCSeriesRefresh ---------------------------
(* Three episodes of one season, of which the DVD ordering moves the third   *)
(* to the first position, keeps the second and does not know the first.      *)
EXTENDS SeriesRefresh, TLC

CONSTANTS e1, e2, e3

Ids == [e \in Episode |-> CASE e = e1 -> 11 [] e = e2 -> 12 [] e = e3 -> 13]
Places == [e \in Episode |-> CASE e = e1 -> <<1, 1>> [] e = e2 -> <<1, 2>> [] e = e3 -> <<1, 3>>]
Growing == <<<<e1, e2>>, <<e1, e2, e3>>>>
Orders == [o \in Ordering \ {"aired"} |-> 12 :> <<1, 2>> @@ 13 :> <<1, 1>>]
Ratings == {<<1, 1>>}
==============================================================================
