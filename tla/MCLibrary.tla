------------------------------ MODULE MCLibrary ------------------------------
(* A series of one episode: its only file is imported and scanned. *)
EXTENDS Library

CONSTANTS s1, f1, e1, d1, a1

FileHome == [f \in File |-> s1]
FileEpisodes == [f \in File |-> {e1}]
NoMovie == [m \in {} |-> None]
Scans == [j \in ScanJob |-> {s1}]
Contents == [s \in Source |-> d1]
Sizes == [s \in Source |-> 2]
Targets == [d \in Download |-> s1]
MatchedTo == [s \in Source |-> {e1}]
Names == [s \in Source |-> f1]
==============================================================================
