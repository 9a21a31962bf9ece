------------------------------ MODULE JobStream ------------------------------
(***************************************************************************)
(* The Redis stream of jobs and the consumer group of workers: the server  *)
(* enqueues, WorkerRunner reads one entry per poll, sends back what is not *)
(* for its paths, acknowledges what it takes and runs it.                  *)
(*                                                                         *)
(* An entry is in the group's view from its XADD to its XACK: undelivered  *)
(* (owner Nobody) or in the pending list (PEL) of a worker.  Every call to *)
(* Redis is an await and may fail; the code logs the failure and goes on.  *)
(*                                                                         *)
(* The entries are a set; XADD's order is what each knows to be ahead of   *)
(* it.  Entry ids are taken from Slot and used again when nobody refers to *)
(* them, so that a job that goes round and round has finitely many states. *)
(***************************************************************************)
EXTENDS Naturals

CONSTANTS
  Worker,      \* the workers, by their consumer name
  Nobody,      \* owner of an entry that is not delivered
  Job,         \* the jobs the server sends, each once
  Fits,        \* Fits[w]: the jobs with a path among w's worker paths
  Inline,      \* jobs run in the select loop (import, delete, rename); the
               \* others (scan, probe, hash) run on tasks of their own
  Undecodable, \* jobs this build of the worker cannot deserialize
  Slot,        \* the entry ids
  Faults,      \* the kinds of faults that may happen
  MaxFaults    \* bound: how many faults happen

ASSUME StreamAssumption ==
  /\ Nobody \notin Worker
  /\ Fits \in [Worker -> SUBSET Job]
  /\ Inline \subseteq Job /\ Undecodable \subseteq Job
  /\ Faults \subseteq {"redis", "crash", "stall", "trim"}
  /\ MaxFaults \in Nat

Entry == [id : Slot, job : Job, owner : Worker \cup {Nobody}, old : BOOLEAN,
          kept : BOOLEAN, ahead : SUBSET Slot]

Free == [pc |-> "free"]
Hand == {Free} \cup [pc : {"got", "forwarded", "inline"}, id : Slot, job : Job]

VARIABLES
  entries,  \* the entries that are not acknowledged; old: pending for five
            \* minutes or more; kept: not trimmed off the stream
  hand,     \* hand[w]: what the select loop of w is at
  running,  \* running[w]: the jobs on tasks of their own
  up,       \* up[w]: w runs
  sent,     \* the jobs the server has enqueued
  answered, \* the jobs whose result is on the result stream
  faults,   \* faults so far, for the bound
  lost,     \* history: the jobs a fault may have lost
  started,  \* history: the jobs some worker has started
  redo      \* history: the jobs a fault may have delivered twice

vars == <<entries, hand, running, up, sent, answered, faults, lost, started, redo>>
history == <<lost, started, redo>>

Fault(kind) == kind \in Faults /\ faults < MaxFaults /\ faults' = faults + 1
Redis(ok) == IF ok THEN faults' = faults ELSE Fault("redis")
If(b, set) == IF b THEN set ELSE {}

Ids(es) == {e.id : e \in es}
Held(w) == If(hand[w].pc \in {"got", "forwarded"}, {hand[w].id})
Unused == Slot \ (Ids(entries) \cup UNION {Held(w) : w \in Worker})

Pel(w) == {e \in entries : e.owner = w}
Undelivered == {e \in entries : e.owner = Nobody}
First(es) == {e \in es : e.ahead \cap Ids(es) = {}}
Replaced(e, f) == (entries \ {e}) \cup {f}

\* XADD puts the job at the end of the stream, XACK takes an entry out of
\* whichever pending list it is in.
Added(j) == entries \cup
  {[id |-> CHOOSE i \in Unused : TRUE, job |-> j, owner |-> Nobody,
    old |-> FALSE, kept |-> TRUE, ahead |-> Ids(entries)]}
Without(gone) ==
  {[e EXCEPT !.ahead = @ \ gone] : e \in {x \in entries : x.id \notin gone}}
Acked(w, ok) == IF ok THEN Without({hand[w].id}) ELSE entries

---------------------------------------------------------------------------
(* enqueue_job() in the server *)

SendRegisteringLate(j, ok) ==                        \* mutant of Send
  /\ j \notin sent /\ Unused # {}
  /\ Redis(ok)
  /\ sent' = sent \cup If(ok, {j})
  /\ entries' = IF ok THEN Added(j) ELSE entries
  /\ lost' = lost \cup If(~ok, {j})
  /\ UNCHANGED <<hand, running, up, answered, started, redo>>
Send(j, ok) ==
  /\ j \notin sent /\ Unused # {}
  /\ Redis(ok)
  /\ sent' = sent \cup {j}
  /\ entries' = IF ok THEN Added(j) ELSE entries
  /\ lost' = lost \cup If(~ok, {j})
  /\ UNCHANGED <<hand, running, up, answered, started, redo>>

---------------------------------------------------------------------------
(* read_job_from_stream(): the head of the own pending list, else a new entry *)

Polls(w) == up[w] /\ hand[w] = Free
Readable(e) == e.kept /\ e.job \notin Undecodable
Got(e) == [pc |-> "got", id |-> e.id, job |-> e.job]

\* Being read makes a pending entry young again; a head that cannot be decoded
\* is ignored and left where it is.
ReadNoPending(w, e) == FALSE                         \* mutant of ReadPending
ReadPending(w, e) ==
  /\ Polls(w)
  /\ e \in First(Pel(w)) /\ e.kept /\ (Readable(e) \/ e.old)
  /\ entries' = Replaced(e, [e EXCEPT !.old = FALSE])
  /\ hand' = [hand EXCEPT ![w] = IF Readable(e) THEN Got(e) ELSE Free]
  /\ UNCHANGED <<running, up, sent, answered, faults, history>>

\* A new entry is read when the read of the pending list (COUNT 1) yields no
\* job: it fails, the list is empty, or its head is trimmed or undecodable.
ReadNew(w, e, ok) ==
  /\ Polls(w)
  /\ Redis(ok)
  /\ ok => \A h \in First(Pel(w)) : ~Readable(h) /\ ~(h.kept /\ h.old)
  /\ e \in First(Undelivered)
  /\ entries' = Replaced(e, [e EXCEPT !.owner = w])
  /\ hand' = [hand EXCEPT ![w] = IF Readable(e) THEN Got(e) ELSE Free]
  /\ UNCHANGED <<running, up, sent, answered, history>>

---------------------------------------------------------------------------
(* handle_stream_job() *)

\* A job for other paths goes to the end of the stream, and then its old entry
\* is acknowledged.
ForwardNothing(w, ok) ==                             \* mutant of Forward
  /\ hand[w].pc = "got" /\ hand[w].job \notin Fits[w] /\ Unused # {}
  /\ Redis(ok)
  /\ hand' = [hand EXCEPT ![w].pc = "forwarded"]
  /\ UNCHANGED <<entries, running, up, sent, answered, history>>
Forward(w, ok) ==
  /\ hand[w].pc = "got" /\ hand[w].job \notin Fits[w] /\ Unused # {}
  /\ Redis(ok)
  /\ entries' = IF ok THEN Added(hand[w].job) ELSE entries
  /\ hand' = [hand EXCEPT ![w].pc = "forwarded"]
  /\ lost' = lost \cup If(~ok, {hand[w].job})
  /\ UNCHANGED <<running, up, sent, answered, started, redo>>

AckForwarded(w, ok) ==
  /\ hand[w].pc = "forwarded"
  /\ Redis(ok)
  /\ entries' = Acked(w, ok)
  /\ hand' = [hand EXCEPT ![w] = Free]
  /\ redo' = redo \cup If(~ok, {hand[w].job})
  /\ UNCHANGED <<running, up, sent, answered, lost, started>>

\* A job for this worker is acknowledged first and run after that.
Claim(w, ok) ==
  /\ hand[w].pc = "got" /\ hand[w].job \in Fits[w]
  /\ Redis(ok)
  /\ entries' = Acked(w, ok)
  /\ LET j == hand[w].job IN
     /\ IF j \in Inline
          THEN hand' = [hand EXCEPT ![w].pc = "inline"] /\ running' = running
          ELSE /\ hand' = [hand EXCEPT ![w] = Free]
               /\ running' = [running EXCEPT ![w] = @ \cup {j}]
     /\ started' = started \cup {j}
     /\ redo' = redo \cup If(~ok, {j})
  /\ UNCHANGED <<up, sent, answered, lost>>

\* The result is published; when that fails, it is gone.
Publish(j, ok) ==
  /\ Redis(ok)
  /\ answered' = answered \cup If(ok, {j})
  /\ lost' = lost \cup If(~ok, {j})

Finish(w, j, ok) ==
  /\ Publish(j, ok)
  /\ running' = [running EXCEPT ![w] = @ \ {j}]
  /\ UNCHANGED <<entries, hand, up, sent, started, redo>>

FinishInline(w, ok) ==
  /\ hand[w].pc = "inline"
  /\ Publish(hand[w].job, ok)
  /\ hand' = [hand EXCEPT ![w] = Free]
  /\ UNCHANGED <<entries, running, up, sent, started, redo>>

---------------------------------------------------------------------------
(* Restarts, recover_stale_jobs(), time, and the trimming of the stream *)

Runs(w) == running[w] \cup If(hand[w].pc = "inline", {hand[w].job})

Crash(w) ==
  /\ up[w]
  /\ Fault("crash")
  /\ up' = [up EXCEPT ![w] = FALSE]
  /\ hand' = [hand EXCEPT ![w] = Free]
  /\ running' = [running EXCEPT ![w] = {}]
  /\ lost' = lost \cup Runs(w)
  /\ redo' = redo \cup If(hand[w].pc = "forwarded", {hand[w].job})
  /\ UNCHANGED <<entries, sent, answered, started>>

\* XAUTOCLAIM gives w the old entries of every pending list and deletes the
\* pending entries whose data is trimmed; fewer than ten of them (COUNT 10).
ReclaimAll(w) ==                                     \* mutant of Reclaimed
  LET pending == {e \in entries : e.owner # Nobody} IN
  (entries \ pending) \cup {[e EXCEPT !.owner = w] : e \in pending}
Reclaimed(w) ==
  {[e EXCEPT !.owner = IF e.old THEN w ELSE @, !.old = FALSE] :
     e \in Without(Ids({x \in entries : x.owner # Nobody /\ ~x.kept}))}

Start(w, ok) ==
  /\ ~up[w]
  /\ Redis(ok)
  /\ up' = [up EXCEPT ![w] = TRUE]
  /\ entries' = IF ok THEN Reclaimed(w) ELSE entries
  /\ UNCHANGED <<hand, running, sent, answered, history>>

Autoclaim(w) ==
  /\ Polls(w)
  /\ entries' = Reclaimed(w)
  /\ UNCHANGED <<hand, running, up, sent, answered, faults, history>>

\* Five minutes pass.  What a worker holds or will read at its next poll does not
\* get that old, unless the worker stalls.
Attended(e) ==
  \E w \in Worker : e.id \in Held(w) \/ (Polls(w) /\ e \in First(Pel(w)) /\ e.kept)

Age(e) ==
  /\ e.owner # Nobody /\ ~e.old
  /\ IF Attended(e) THEN Fault("stall") ELSE faults' = faults
  /\ entries' = Replaced(e, [e EXCEPT !.old = TRUE])
  /\ redo' = redo \cup If(\E w \in Worker : e.id \in Held(w), {e.job})
  /\ UNCHANGED <<hand, running, up, sent, answered, lost, started>>

\* Other traffic makes the stream longer than MAXLEN: its oldest entry goes.
Trim(e) ==
  /\ e \in First({x \in entries : x.kept})
  /\ Fault("trim")
  /\ entries' = IF e.owner = Nobody THEN Without({e.id})
                ELSE Replaced(e, [e EXCEPT !.kept = FALSE])
  /\ lost' = lost \cup {e.job}
  /\ UNCHANGED <<hand, running, up, sent, answered, started, redo>>

---------------------------------------------------------------------------
Init ==
  /\ entries = {}
  /\ hand = [w \in Worker |-> Free]
  /\ running = [w \in Worker |-> {}]
  /\ up = [w \in Worker |-> TRUE]
  /\ sent = {} /\ answered = {}
  /\ faults = 0
  /\ lost = {} /\ started = {} /\ redo = {}

Next ==
  \/ \E j \in Job, ok \in BOOLEAN : Send(j, ok)
  \/ \E w \in Worker :
       \/ \E e \in entries : ReadPending(w, e)
       \/ \E e \in entries, ok \in BOOLEAN : ReadNew(w, e, ok)
       \/ \E ok \in BOOLEAN :
            \/ Forward(w, ok) \/ AckForwarded(w, ok)
            \/ Claim(w, ok) \/ FinishInline(w, ok) \/ Start(w, ok)
       \/ \E j \in running[w], ok \in BOOLEAN : Finish(w, j, ok)
       \/ Crash(w)
       \/ Autoclaim(w)
  \/ \E e \in entries : Age(e) \/ Trim(e)

Spec == Init /\ [][Next]_vars

\* The select loop of a worker polls again and again and picks among its timers
\* at random, so none waits for ever; Docker restarts a worker that dies
\* ("restart: unless-stopped"); spawned tasks end; minutes pass.
LoopStep(w) ==
  \/ \E e \in entries : ReadPending(w, e)
  \/ \E ok \in BOOLEAN :
       \/ Forward(w, ok) \/ AckForwarded(w, ok)
       \/ Claim(w, ok) \/ FinishInline(w, ok) \/ Start(w, ok)
FairSpec ==
  /\ Spec
  /\ \A w \in Worker :
       /\ WF_vars(LoopStep(w))
       /\ SF_vars(\E e \in entries : ReadNew(w, e, TRUE))
       /\ SF_vars(Autoclaim(w))
       /\ \A j \in Job : WF_vars(\E ok \in BOOLEAN : j \in running[w] /\ Finish(w, j, ok))
  /\ \A i \in Slot : WF_vars(\E e \in entries : e.id = i /\ Age(e))

---------------------------------------------------------------------------
TypeOK ==
  /\ entries \subseteq Entry
  /\ hand \in [Worker -> Hand]
  /\ running \in [Worker -> SUBSET Job]
  /\ up \in [Worker -> BOOLEAN]
  /\ sent \subseteq Job /\ answered \subseteq sent
  /\ faults \in 0 .. MaxFaults
  /\ lost \subseteq sent /\ started \subseteq sent /\ redo \subseteq sent

InStream(j) == \E e \in entries : e.job = j
Running(j) == \E w \in Worker : j \in Runs(w)

\* No job disappears: it is answered, a worker runs it or the stream holds it,
\* whatever is read, sent back, reclaimed and acknowledged in between, unless
\* a fault lost it (an XADD that failed, a worker that died running it, or
\* the trimming of the stream).
JobsAccounted ==
  \A j \in sent : j \in answered \cup lost \/ InStream(j) \/ Running(j)

\* The consumer group hands a job to one worker ("exclusive via consumer
\* group"): it starts a second time only after a failed acknowledgement, a death
\* between the two halves of sending it back, or a stall of five minutes.
StartedOnce ==
  [][\A w \in Worker : hand[w].pc = "got" /\ hand[w].job \in Fits[w] /\ hand'[w] # hand[w]
                       /\ up'[w] /\ hand[w].job \in started =>
       hand[w].job \in redo]_vars

\* To the server the stream and its workers are the abstract job service: a job
\* is sent once, then answered or lost, and one that can be run is settled.
Service == INSTANCE JobService
  WITH Runnable <- {j \in Job \ Undecodable : \E w \in Worker : j \in Fits[w]}
ImplementsService == Service!FairSpec

==============================================================================
