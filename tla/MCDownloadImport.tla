--------------------------- MODULE MCDownloadImport ---------------------------
(* Small instances of DownloadImport for TLC. *)
EXTENDS DownloadImport

CONSTANTS d1, d2, a1, a2, b1, e1, e2, s1, m1, p1, p2, q1, j1, j2

\* d1 is a season pack of two episodes of s1, d2 the movie m1.
Contents == [s \in Source |-> IF s = b1 THEN d2 ELSE d1]
Sizes == [s \in Source |-> IF s = a2 THEN 3 ELSE 2]
Targets == [d \in Download |-> IF d = d1 THEN s1 ELSE m1]
MatchedTo == [s \in Source |-> CASE s = a1 -> {e1} [] s = a2 -> {e2} [] OTHER -> {}]
Names == [s \in Source |-> CASE s = a1 -> p1 [] s = a2 -> p2 [] OTHER -> q1]
===============================================================================
