---------------------------- MODULE RecordKeeper ----------------------------
(***************************************************************************)
(* What the tracking stores promise to the rest of the server: records     *)
(* with ids of their own, changed one at a time, that a restart brings     *)
(* back as the last save left them.  TrackedStores implements this with    *)
(* its counters, locks, files and the migration; the queue service relies  *)
(* on it.                                                                  *)
(***************************************************************************)
CONSTANTS
  Store,     \* the stores
  Content    \* what a record links the download to

VARIABLES
  records,   \* records[s]: what store s answers with
  saved,     \* saved[s]: what a restart brings back
  spent,     \* spent[s]: the ids that name a record, or that none will come to
             \* have before the next restart
  unsaved    \* the stores whose last save failed

vars == <<records, saved, spent, unsaved>>

Init ==
  /\ records = [s \in Store |-> {}]
  /\ saved = [s \in Store |-> {}]
  /\ spent = [s \in Store |-> {}]
  /\ unsaved = {}

\* A change is saved with all that earlier failures left out, or known not to be.
Keep(s, recs) ==
  /\ records' = [records EXCEPT ![s] = recs]
  /\ \/ /\ saved' = [saved EXCEPT ![s] = recs]
        /\ unsaved' = unsaved \ {s}
     \/ /\ saved' = saved
        /\ unsaved' = unsaved \cup {s}

\* Ids are spent and never given back; some are passed over.
SpendsMore == \A s \in Store : spent[s] \subseteq spent'[s]

Insert(s, r) ==
  /\ r.id \notin spent[s]
  /\ Keep(s, records[s] \cup {r})
  /\ SpendsMore /\ r.id \in spent'[s]

Remove(s, r) ==
  /\ Keep(s, records[s] \ {r})
  /\ UNCHANGED spent

Correct(s, r, c) ==
  /\ Keep(s, (records[s] \ {r}) \cup {[r EXCEPT !.content = c]})
  /\ UNCHANGED spent

Clear(s) == Keep(s, {}) /\ UNCHANGED spent

PassOver == SpendsMore /\ UNCHANGED <<records, saved, unsaved>>

Restart ==
  /\ records' = saved
  /\ \A s \in Store : \A r \in saved[s] : r.id \in spent'[s]
  /\ unsaved' = {}
  /\ UNCHANGED saved

Next ==
  \/ \E s \in Store : \E r \in records'[s] : Insert(s, r)
  \/ \E s \in Store : \E r \in records[s] : Remove(s, r)
  \/ \E s \in Store, c \in Content : \E r \in records[s] : Correct(s, r, c)
  \/ \E s \in Store : Clear(s)
  \/ PassOver
  \/ Restart

Spec == Init /\ [][Next]_vars

=============================================================================
