----------------------------- MODULE JobService -----------------------------
(***************************************************************************)
(* What the job stream and its workers promise to the server: a job that   *)
(* is sent is open until it is answered, unless a fault may have lost it.  *)
(* JobStream implements this; the consumers of results rely on it.         *)
(***************************************************************************)
CONSTANTS
  Job,       \* the jobs the server sends
  Runnable   \* the jobs that some worker can decode and has the paths for

VARIABLES
  sent,      \* the jobs the server has sent
  answered,  \* the jobs whose result is on the result stream
  lost       \* the jobs a fault may have lost

vars == <<sent, answered, lost>>

Open(j) == j \in sent \ (answered \cup lost)

Init == sent = {} /\ answered = {} /\ lost = {}

\* enqueue_job() returns nothing: an XADD that fails is a job lost at once.
Send(j) ==
  /\ j \notin sent
  /\ sent' = sent \cup {j}
  /\ lost' \in {lost, lost \cup {j}}
  /\ UNCHANGED answered

Answer(j) ==
  /\ j \in sent
  /\ answered' = answered \cup {j}
  /\ UNCHANGED <<sent, lost>>

Lose(js) ==
  /\ js \subseteq sent
  /\ lost' = lost \cup js
  /\ UNCHANGED <<sent, answered>>

Next ==
  \/ \E j \in Job : Send(j) \/ Answer(j)
  \/ \E js \in SUBSET Job : Lose(js)

Spec == Init /\ [][Next]_vars

\* An open job that can be run does not stay open for ever.
Settle(j) == Open(j) /\ (Answer(j) \/ \E js \in SUBSET Job : j \in js /\ Lose(js))
FairSpec == Spec /\ \A j \in Runnable : WF_vars(Settle(j))

==============================================================================
