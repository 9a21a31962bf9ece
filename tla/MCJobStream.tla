---------------------------- MODULE MCJobStream ----------------------------
(* Small instances of JobStream for TLC. *)
EXTENDS JobStream

CONSTANTS w1, w2, j1, j2

\* One worker serves every path, the other only those of j2.
OneServesAll == [w \in Worker |-> IF w = w1 THEN Job ELSE {j2}]
=============================================================================
