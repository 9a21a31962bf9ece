------------------------- MODULE MCMusicBrainzSync -------------------------
(* Releases, of which the later dump has two more; one of these belongs to a *)
(* group that is not stored.                                                 *)
EXTENDS MusicBrainzSync

CONSTANTS g, r1, r2, r3, r4

Order == <<"release">>
Keys == [r \in Row |-> CASE r = r1 -> 1 [] r = r2 -> 2 [] r = r3 -> 3 [] r \in {r4, g} -> 4]
Groups == [r \in Row |-> IF r = r4 THEN {g} ELSE {}]
Dumps == [d \in Dataset |-> <<<<r1, r3>>, <<r1, r2, r3, r4>>>>]
============================================================================
