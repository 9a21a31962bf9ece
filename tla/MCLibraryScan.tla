---------------------------- MODULE MCLibraryScan ----------------------------
(* Small libraries for LibraryScan. *)
EXTENDS LibraryScan

CONSTANTS s1, m1, m2, f1, g1, g2, e1, j1, j2, j3

\* The movies have the same id as the series s1, if there is one.
SameId == [m \in Movie |-> IF s1 \in Series THEN s1 ELSE None]

\* g2 belongs to the second movie, if there is one, else to the first.
FileHome == [f \in File |-> IF f = f1 THEN s1
                            ELSE IF f = g2 /\ m2 \in Movie THEN m2 ELSE m1]
FileEpisodes == [f \in File |-> IF f = f1 THEN {e1} ELSE {}]

\* j1 and j3 scan the series, j2 the movies.
Scans == [j \in Job |-> IF j = j2 THEN Movie ELSE Series]
==============================================================================
