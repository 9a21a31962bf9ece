----------------------- MODULE DownloadQueue_proofs -----------------------
(***************************************************************************)
(* What holds of DownloadQueue for every set of downloads, tasks, stores   *)
(* and every bound: reconcile's ids, what the jobs may remove, and that    *)
(* the stores are used as RecordKeeper has them, which TrackedStores       *)
(* implements.                                                             *)
(***************************************************************************)
EXTENDS DownloadQueue, TLAPS

\* A record is in the store of its download's kind, below the id counter, and
\* alone with its id in its store.
RecsInv ==
  /\ \A r \in recs : r.store = Kind[r.dl] /\ r.id < nextId[r.store]
  /\ \A r, q \in recs : r.id = q.id /\ r.store = q.store => r = q

\* The records a task holds are old ones: no record that is in a store now has
\* the id of another one a task still holds.
Held(p) == job[p].todo \cup job[p].hit
HeldInv ==
  \A p \in Proc : \A r \in Held(p) :
    /\ r.id < nextId[r.store]
    /\ \A q \in recs : r.id = q.id /\ r.store = q.store => r = q

\* What reconcile has not met while it collected the known ids was bare at some
\* moment, or it is still to be met in a store that has not been read; the
\* suppression list is the last of these.
KnownInv ==
  \A p \in Proc : At(p, "known") =>
    /\ job[p].left # <<>> => job[p].left[Len(job[p].left)] = "suppressed"
    /\ \A d \in Download \ (job[p].seen \cup bare[p]) :
         \E i \in DOMAIN job[p].left : d \in IdsIn(job[p].left[i])

\* What get_queue is about to drop had left the client.
PollInv ==
  \A p \in Proc : At(p, "poll_drop") => job[p].todo \cap recs \subseteq lapsed

\* What the clean-ups are about to drop is in the library, from the download
\* itself when the library holds nothing from elsewhere.
LibraryInv ==
  ~Upgrades =>
    /\ \A d \in Download : library[d] # "other"
    /\ \A p \in Proc : At(p, "process_drop") \/ At(p, "clean_drop") =>
         \A r \in job[p].hit : library[r.dl] = "this"

IInv == TypeOK /\ RecsInv /\ HeldInv /\ KnownInv /\ SuppressionSticks
          /\ PollInv /\ LibraryInv

---------------------------------------------------------------------------
(* What one step does to the records, and to one task *)

RecsStep ==
  \/ recs' \subseteq recs /\ nextId' = nextId /\ restarts' = restarts
  \/ \E d \in Download : Insert(d) /\ restarts' = restarts
  \/ /\ recs' = recs /\ restarts' # restarts
     /\ job' = [p \in Proc |-> Idle]
     /\ nextId' \in [Active -> Nat]
     /\ \A s \in Active : CountsOn(s, nextId'[s])

LibraryStep ==
  \A d \in Download : library'[d] # library[d] => library'[d] = "this"

\* The ways in which a step changes what task p is doing.
Keeps(p) == job'[p] = job[p]
Leaves(p) ==
  /\ job'[p].pc \notin {"known", "reconcile", "poll_drop", "process_drop", "clean_drop"}
  /\ job'[p].todo \cup job'[p].hit \subseteq Held(p) \cup recs
Reads(p) ==
  /\ UNCHANGED <<recs, suppressed>>
  /\ job'[p].pc = "known" /\ job'[p].todo = {} /\ job'[p].hit = {}
  /\ \/ At(p, "idle") /\ job'[p].left = ReadOrder /\ job'[p].seen = {}
     \/ /\ At(p, "known") /\ job[p].left # <<>>
        /\ job'[p].left = Tail(job[p].left)
        /\ job'[p].seen = job[p].seen \cup IdsIn(Head(job[p].left))
Tracks(p) ==
  /\ job'[p].pc = "reconcile" /\ job'[p].todo = {} /\ job'[p].hit = {}
  /\ \/ At(p, "known") /\ job[p].left = <<>> /\ job'[p].seen \cap job[p].seen = {}
     \/ At(p, "reconcile") /\ job'[p].seen \subseteq job[p].seen
PollDrops(p) ==
  /\ job'[p].pc = "poll_drop" /\ job'[p].hit = {}
  /\ job'[p].todo \subseteq job[p].todo
  /\ \/ At(p, "poll_drop")
     \/ /\ UNCHANGED <<client, recs>>
        /\ \A r \in job'[p].todo : client[r.dl] = "absent"
Imports(p) ==
  /\ job'[p].pc \in {"process_drop", "clean_drop"}
  /\ job'[p].todo \cup job'[p].hit \subseteq Held(p)
  /\ UNCHANGED library
  /\ \A r \in job'[p].hit : library[r.dl] # "missing"
TaskStep(p) ==
  \/ Keeps(p) \/ Leaves(p) \/ Reads(p) \/ Tracks(p) \/ PollDrops(p) \/ Imports(p)

Summary == RecsStep /\ LibraryStep /\ \A p \in Proc : TaskStep(p)

---------------------------------------------------------------------------
(* Type correctness *)

LEMMA RemoveByIdType ==
  ASSUME TypeOK, NEW i, RemoveById(i)
  PROVE  recs' \subseteq recs
  BY DEF RemoveById, ById

LEMMA InsertType ==
  ASSUME TypeOK, NEW d \in Download, Insert(d)
  PROVE  recs' \subseteq Record /\ nextId' \in [Active -> Nat \ {0}]
<1>1. Kind[d] \in Active
  BY QueueAssumption
<1> QED
  BY <1>1 DEF Insert, TypeOK, Record

LEMMA DoingType ==
  ASSUME NEW pc \in Pc, NEW todo \in SUBSET Record, NEW hit \in SUBSET Record,
         NEW seen \in SUBSET Download
  PROVE  Doing(pc, todo, hit, seen) \in Job
<1>1. <<>> \in Seq(Active \cup {"suppressed"})
  OBVIOUS
<1> QED
  BY <1>1 DEF Doing, Job

LEMMA IdleType == Idle \in Job
  BY DoingType DEF Idle, Pc

LEMMA InitType == Init => TypeOK
  BY IdleType, QueueAssumption DEF Init, TypeOK, ClientState

---------------------------------------------------------------------------
(* Every step keeps the types and is one of the ways above *)

CoreOK ==
  /\ client \in [Download -> ClientState]
  /\ library \in [Download -> {"missing", "this", "other"}]
  /\ recs \subseteq Record
  /\ nextId \in [Active -> Nat \ {0}]
  /\ suppressed \subseteq Download
  /\ job \in [Proc -> Job]
  /\ restarts \in 0 .. MaxRestarts

LEMMA BecomeType ==
  ASSUME TypeOK, NEW p \in Proc, NEW j \in Job, Become(p, j)
  PROVE  /\ job' \in [Proc -> Job]
         /\ job'[p] = j
         /\ \A q \in Proc : q # p => Keeps(q)
  BY DEF Become, TypeOK, Keeps

\* What is left to show of a step of task p.
LEMMA TaskSummary ==
  ASSUME TypeOK, NEW p \in Proc, NEW j \in Job, Become(p, j),
         TaskStep(p), RecsStep, LibraryStep
  PROVE  Summary
<1>1. \A q \in Proc : q # p => Keeps(q)
  BY BecomeType
<1> QED
  BY <1>1 DEF Summary, TaskStep

LEMMA PollSteps ==
  ASSUME TypeOK, NEW p \in Proc, Poll(p)
  PROVE  CoreOK' /\ Summary
<1>1. CASE PollStart(p)
  <2> DEFINE j == Doing("poll_ask", recs, {}, {})
  <2>1. j \in Job /\ Become(p, j)
    BY <1>1, DoingType DEF PollStart, TypeOK, Pc
  <2>2. job' \in [Proc -> Job] /\ job'[p] = j
    BY <2>1, BecomeType
  <2>3. CoreOK'
    BY <1>1, <2>2 DEF PollStart, shared, CoreOK, TypeOK
  <2>4. TaskStep(p) /\ RecsStep /\ LibraryStep
    BY <1>1, <2>2 DEF PollStart, shared, TaskStep, Leaves, RecsStep, LibraryStep, Doing
  <2> QED
    BY <2>1, <2>3, <2>4, TaskSummary
<1>2. ASSUME NEW ok \in BOOLEAN, PollAsk(p, ok)
      PROVE  CoreOK' /\ Summary
  <2> DEFINE gone == {r \in job[p].todo : ok /\ client[r.dl] = "absent"}
             j == IF gone = {} THEN Idle ELSE Doing("poll_drop", gone, {}, {})
  <2>1. gone \subseteq job[p].todo /\ gone \in SUBSET Record
    BY DEF TypeOK, Job
  <2>2. j \in Job /\ Become(p, j)
    BY <1>2, <2>1, DoingType, IdleType DEF PollAsk, Pc
  <2>3. job' \in [Proc -> Job] /\ job'[p] = j
    BY <2>2, BecomeType
  <2>4. CoreOK'
    BY <1>2, <2>3 DEF PollAsk, shared, CoreOK, TypeOK
  <2>5. TaskStep(p) /\ RecsStep /\ LibraryStep
    BY <1>2, <2>1, <2>3
       DEF PollAsk, shared, TaskStep, Leaves, PollDrops, RecsStep, LibraryStep, Doing, Idle
  <2> QED
    BY <2>2, <2>4, <2>5, TaskSummary
<1>3. ASSUME NEW r \in job[p].todo, PollDrop(p, r)
      PROVE  CoreOK' /\ Summary
  <2> DEFINE rest == job[p].todo \ {r}
             j == IF job[p].todo = {r} THEN Idle ELSE Doing("poll_drop", rest, {}, {})
  <2>1. j \in Job /\ Become(p, j)
    <3>1. rest \in SUBSET Record
      BY DEF TypeOK, Job
    <3> QED
      BY <1>3, <3>1, DoingType, IdleType DEF PollDrop, Pc
  <2>2. job' \in [Proc -> Job] /\ job'[p] = j
    BY <2>1, BecomeType
  <2>3. recs' \subseteq recs
    BY <1>3, RemoveByIdType DEF PollDrop
  <2>4. CoreOK'
    BY <1>3, <2>2, <2>3 DEF PollDrop, CoreOK, TypeOK
  <2>5. TaskStep(p) /\ RecsStep /\ LibraryStep
    BY <1>3, <2>2, <2>3
       DEF PollDrop, TaskStep, Leaves, PollDrops, RecsStep, LibraryStep, Doing, Idle
  <2> QED
    BY <2>1, <2>4, <2>5, TaskSummary
<1> QED
  BY <1>1, <1>2, <1>3 DEF Poll

LEMMA ProcessSteps ==
  ASSUME TypeOK, NEW p \in Proc, Process(p)
  PROVE  CoreOK' /\ Summary
<1>1. CASE ProcessStart(p)
  <2> DEFINE j == Doing("process", recs, {}, {})
  <2>1. j \in Job /\ Become(p, j)
    BY <1>1, DoingType DEF ProcessStart, TypeOK, Pc
  <2>2. job' \in [Proc -> Job] /\ job'[p] = j
    BY <2>1, BecomeType
  <2>3. CoreOK'
    BY <1>1, <2>2 DEF ProcessStart, shared, CoreOK, TypeOK
  <2>4. TaskStep(p) /\ RecsStep /\ LibraryStep
    BY <1>1, <2>2
       DEF ProcessStart, shared, TaskStep, RecsStep, LibraryStep, Leaves, Doing
  <2> QED
    BY <2>1, <2>3, <2>4, TaskSummary
<1>2. ASSUME NEW r \in job[p].todo, NEW ok \in BOOLEAN, ProcessAsk(p, r, ok)
      PROVE  CoreOK' /\ Summary
  <2> DEFINE rest == job[p].todo \ {r}
             hits == ok /\ client[r.dl] = "completed" /\ AlreadyImported(r)
             j == IF hits THEN Doing("process_drop", rest, {r}, {})
                       ELSE Doing("process", rest, {}, {})
  <2>1. rest \in SUBSET Record /\ {r} \in SUBSET Record
    BY DEF TypeOK, Job
  <2>2. j \in Job /\ Become(p, j)
    BY <1>2, <2>1, DoingType DEF ProcessAsk, Become, Pc
  <2>3. job' \in [Proc -> Job] /\ job'[p] = j
    BY <2>2, BecomeType
  <2>4. CoreOK'
    BY <1>2, <2>3, <2>1 DEF ProcessAsk, shared, CoreOK, TypeOK
  <2>5. TaskStep(p) /\ RecsStep /\ LibraryStep
    BY <1>2, <2>3, <2>1
       DEF ProcessAsk, shared, TaskStep, RecsStep, LibraryStep, Leaves, Imports, Held, Doing, AlreadyImported
  <2> QED
    BY <2>2, <2>4, <2>5, TaskSummary
<1>3. ASSUME NEW r \in job[p].hit, ProcessDrop(p, r)
      PROVE  CoreOK' /\ Summary
  <2> DEFINE j == Doing("process", job[p].todo, {}, {})
  <2>1. job[p].todo \in SUBSET Record
    BY DEF TypeOK, Job
  <2>2. recs' \subseteq recs
    BY <1>3, RemoveByIdType DEF ProcessDrop
  <2>3. j \in Job /\ Become(p, j)
    BY <1>3, <2>1, <2>2, DoingType DEF ProcessDrop, Pc
  <2>4. job' \in [Proc -> Job] /\ job'[p] = j
    BY <2>3, BecomeType
  <2>5. CoreOK'
    BY <1>3, <2>4, <2>1, <2>2 DEF ProcessDrop, CoreOK, TypeOK
  <2>6. TaskStep(p) /\ RecsStep /\ LibraryStep
    BY <1>3, <2>4, <2>1, <2>2
       DEF ProcessDrop, TaskStep, RecsStep, LibraryStep, Leaves, Held, Doing
  <2> QED
    BY <2>3, <2>5, <2>6, TaskSummary
<1> QED
  BY <1>1, <1>2, <1>3 DEF Process

LEMMA ProceedType ==
  ASSUME NEW rest \in SUBSET Record
  PROVE  Proceed(rest) \in Job
  BY DoingType, IdleType DEF Proceed, Pc

LEMMA CleanSteps ==
  ASSUME TypeOK, NEW p \in Proc, Clean(p)
  PROVE  CoreOK' /\ Summary
<1>1. CASE CleanStart(p)
  <2> DEFINE j == IF recs = {} THEN Idle ELSE Doing("clean_ask", recs, {}, {})
  <2>1. j \in Job /\ Become(p, j)
    BY <1>1, DoingType, IdleType DEF CleanStart, TypeOK, Pc
  <2>2. job' \in [Proc -> Job] /\ job'[p] = j
    BY <2>1, BecomeType
  <2>3. CoreOK'
    BY <1>1, <2>2 DEF CleanStart, shared, CoreOK, TypeOK
  <2>4. TaskStep(p) /\ RecsStep /\ LibraryStep
    BY <1>1, <2>2
       DEF CleanStart, shared, TaskStep, RecsStep, LibraryStep, Leaves, Doing, Idle
  <2> QED
    BY <2>1, <2>3, <2>4, TaskSummary
<1>2. ASSUME NEW ok \in BOOLEAN, CleanAsk(p, ok)
      PROVE  CoreOK' /\ Summary
  <2> DEFINE there == {r \in job[p].todo : ok /\ client[r.dl] # "absent"}
             j == Proceed(there)
  <2>1. there \in SUBSET Record
    BY DEF TypeOK, Job
  <2>2. j \in Job /\ Become(p, j)
    BY <1>2, <2>1, ProceedType DEF CleanAsk, Become
  <2>3. job' \in [Proc -> Job] /\ job'[p] = j
    BY <2>2, BecomeType
  <2>4. CoreOK'
    BY <1>2, <2>3, <2>1 DEF CleanAsk, shared, CoreOK, TypeOK
  <2>5. TaskStep(p) /\ RecsStep /\ LibraryStep
    BY <1>2, <2>3, <2>1
       DEF CleanAsk, shared, TaskStep, RecsStep, LibraryStep, Leaves, Held, Proceed, Doing, Idle
  <2> QED
    BY <2>2, <2>4, <2>5, TaskSummary
<1>3. ASSUME NEW r \in job[p].todo, NEW hashed \in BOOLEAN, CleanCheck(p, r, hashed)
      PROVE  CoreOK' /\ Summary
  <2> DEFINE rest == job[p].todo \ {r}
             hits == library[r.dl] = "this" \/ (library[r.dl] = "other" /\ ~hashed)
             j == IF hits THEN Doing("clean_drop", rest, {r}, {}) ELSE Proceed(rest)
  <2>1. rest \in SUBSET Record /\ {r} \in SUBSET Record
    BY DEF TypeOK, Job
  <2>2. j \in Job /\ Become(p, j)
    BY <1>3, <2>1, DoingType, ProceedType DEF CleanCheck, Become, Pc
  <2>3. job' \in [Proc -> Job] /\ job'[p] = j
    BY <2>2, BecomeType
  <2>4. CoreOK'
    BY <1>3, <2>3, <2>1 DEF CleanCheck, shared, CoreOK, TypeOK
  <2>5. TaskStep(p) /\ RecsStep /\ LibraryStep
    BY <1>3, <2>3, <2>1
       DEF CleanCheck, shared, TaskStep, RecsStep, LibraryStep, Leaves, Imports, Held, Proceed, Doing, Idle
  <2> QED
    BY <2>2, <2>4, <2>5, TaskSummary
<1>4. ASSUME NEW r \in job[p].hit, CleanDrop(p, r)
      PROVE  CoreOK' /\ Summary
  <2> DEFINE j == Proceed(job[p].todo)
  <2>1. job[p].todo \in SUBSET Record
    BY DEF TypeOK, Job
  <2>2. recs' \subseteq recs
    BY <1>4, RemoveByIdType DEF CleanDrop
  <2>3. j \in Job /\ Become(p, j)
    BY <1>4, <2>1, <2>2, ProceedType DEF CleanDrop, Become
  <2>4. job' \in [Proc -> Job] /\ job'[p] = j
    BY <2>3, BecomeType
  <2>5. CoreOK'
    BY <1>4, <2>4, <2>1, <2>2 DEF CleanDrop, CoreOK, TypeOK
  <2>6. TaskStep(p) /\ RecsStep /\ LibraryStep
    BY <1>4, <2>4, <2>1, <2>2
       DEF CleanDrop, TaskStep, RecsStep, LibraryStep, Leaves, Held, Proceed, Doing, Idle
  <2> QED
    BY <2>3, <2>5, <2>6, TaskSummary
<1> QED
  BY <1>1, <1>2, <1>3, <1>4 DEF Clean

LEMMA KnowingType ==
  ASSUME NEW left \in Seq(Active \cup {"suppressed"}), NEW seen \in SUBSET Download
  PROVE  Knowing(left, seen) \in Job
<1>1. "known" \in Pc /\ {} \in SUBSET Record BY DEF Pc
<1>2. PICK j \in Job : j = Doing("known", {}, {}, seen) BY <1>1, DoingType
<1>3. [j EXCEPT !.left = left] \in Job BY DEF Job
<1> QED BY <1>2, <1>3 DEF Knowing

LEMMA ReadOrderType == ReadOrder \in Seq(Active \cup {"suppressed"})
<1>1. SearchOrder \in Seq(Active \cup {"suppressed"})
  BY QueueAssumption DEF Active
<1>2. <<"suppressed">> \in Seq(Active \cup {"suppressed"})
  OBVIOUS
<1> QED
  BY <1>1, <1>2 DEF ReadOrder

LEMMA ReconcileSteps ==
  ASSUME TypeOK, NEW p \in Proc, Reconcile(p)
  PROVE  CoreOK' /\ Summary
<1>1. CASE ReconcileStart(p)
  <2> DEFINE j == Knowing(ReadOrder, {})
  <2>1. j \in Job /\ Become(p, j)
    BY <1>1, KnowingType, ReadOrderType DEF ReconcileStart, Become
  <2>2. job' \in [Proc -> Job] /\ job'[p] = j
    BY <2>1, BecomeType
  <2>3. CoreOK'
    BY <1>1, <2>2 DEF ReconcileStart, shared, CoreOK, TypeOK
  <2>4. TaskStep(p) /\ RecsStep /\ LibraryStep
    BY <1>1, <2>2
       DEF ReconcileStart, shared, TaskStep, RecsStep, LibraryStep, Reads, Knowing, Doing, May
  <2> QED
    BY <2>1, <2>3, <2>4, TaskSummary
<1>2. CASE ReconcileRead(p)
  <2> DEFINE j == Knowing(Tail(job[p].left), job[p].seen \cup IdsIn(Head(job[p].left)))
  <2>1. job[p].left \in Seq(Active \cup {"suppressed"}) /\ job[p].seen \subseteq Download
    BY DEF TypeOK, Job
  <2>2. job[p].seen \cup IdsIn(Head(job[p].left)) \subseteq Download
    BY <2>1 DEF IdsIn, TypeOK, Record
  <2>3. Tail(job[p].left) \in Seq(Active \cup {"suppressed"})
    BY <1>2, <2>1 DEF ReconcileRead
  <2>4. j \in Job /\ Become(p, j)
    BY <1>2, <2>1, <2>2, <2>3, KnowingType DEF ReconcileRead, Become
  <2>5. job' \in [Proc -> Job] /\ job'[p] = j
    BY <2>4, BecomeType
  <2>6. CoreOK'
    BY <1>2, <2>5, <2>1, <2>2, <2>3 DEF ReconcileRead, shared, CoreOK, TypeOK
  <2>7. TaskStep(p) /\ RecsStep /\ LibraryStep
    BY <1>2, <2>5, <2>1, <2>2, <2>3
       DEF ReconcileRead, shared, TaskStep, RecsStep, LibraryStep, Reads, Knowing, Doing
  <2> QED
    BY <2>4, <2>6, <2>7, TaskSummary
<1>3. ASSUME NEW ok \in BOOLEAN, ReconcileAsk(p, ok)
      PROVE  CoreOK' /\ Summary
  <2> DEFINE new == {d \in Present \ job[p].seen : ok /\ d \in Matchable}
             j == Doing("reconcile", {}, {}, new)
  <2>1. new \in SUBSET Download
    BY DEF Present
  <2>2. j \in Job /\ Become(p, j)
    BY <1>3, <2>1, DoingType DEF ReconcileAsk, Pc
  <2>3. job' \in [Proc -> Job] /\ job'[p] = j
    BY <2>2, BecomeType
  <2>4. CoreOK'
    BY <1>3, <2>3, <2>1 DEF ReconcileAsk, shared, CoreOK, TypeOK
  <2>5. TaskStep(p) /\ RecsStep /\ LibraryStep
    BY <1>3, <2>3, <2>1
       DEF ReconcileAsk, shared, TaskStep, RecsStep, LibraryStep, Tracks, Doing
  <2> QED
    BY <2>2, <2>4, <2>5, TaskSummary
<1>4. ASSUME NEW d \in job[p].seen, ReconcileInsert(p, d)
      PROVE  CoreOK' /\ Summary
  <2> DEFINE rest == job[p].seen \ {d}
             j == Doing("reconcile", {}, {}, rest)
  <2>1. rest \in SUBSET Download /\ d \in Download
    BY DEF TypeOK, Job
  <2>2. recs' \subseteq Record /\ nextId' \in [Active -> Nat \ {0}]
    BY <1>4, <2>1, InsertType DEF ReconcileInsert
  <2>3. j \in Job /\ Become(p, j)
    BY <1>4, <2>1, <2>2, DoingType DEF ReconcileInsert, Pc
  <2>4. job' \in [Proc -> Job] /\ job'[p] = j
    BY <2>3, BecomeType
  <2>5. CoreOK'
    BY <1>4, <2>4, <2>1, <2>2 DEF ReconcileInsert, CoreOK, TypeOK
  <2>6. TaskStep(p) /\ RecsStep /\ LibraryStep
    BY <1>4, <2>4, <2>1, <2>2
       DEF ReconcileInsert, TaskStep, RecsStep, LibraryStep, Tracks, Doing
  <2> QED
    BY <2>3, <2>5, <2>6, TaskSummary
<1> QED
  BY <1>1, <1>2, <1>3, <1>4 DEF Reconcile

LEMMA GrabSteps ==
  ASSUME TypeOK, NEW p \in Proc, Grab(p)
  PROVE  CoreOK' /\ Summary
<1>1. ASSUME NEW d \in Download, GrabAdd(p, d)
      PROVE  CoreOK' /\ Summary
  <2> DEFINE j == Doing("grab", {}, {}, {d})
  <2>1. j \in Job /\ Become(p, j)
    BY <1>1, DoingType DEF GrabAdd, Pc
  <2>2. job' \in [Proc -> Job] /\ job'[p] = j
    BY <2>1, BecomeType
  <2>3. CoreOK'
    BY <1>1, <2>2 DEF GrabAdd, CoreOK, TypeOK, ClientState
  <2>4. TaskStep(p) /\ RecsStep /\ LibraryStep
    BY <1>1, <2>2
       DEF GrabAdd, TaskStep, RecsStep, LibraryStep, Leaves, Doing
  <2> QED
    BY <2>1, <2>3, <2>4, TaskSummary
<1>2. ASSUME NEW d \in job[p].seen, GrabTrack(p, d)
      PROVE  CoreOK' /\ Summary
  <2> DEFINE j == Idle
  <2>1. d \in Download
    BY DEF TypeOK, Job
  <2>2. recs' \subseteq Record /\ nextId' \in [Active -> Nat \ {0}]
    BY <1>2, <2>1, InsertType DEF GrabTrack
  <2>3. j \in Job /\ Become(p, j)
    BY <1>2, <2>1, <2>2, IdleType DEF GrabTrack, Become
  <2>4. job' \in [Proc -> Job] /\ job'[p] = j
    BY <2>3, BecomeType
  <2>5. CoreOK'
    BY <1>2, <2>4, <2>1, <2>2 DEF GrabTrack, CoreOK, TypeOK
  <2>6. TaskStep(p) /\ RecsStep /\ LibraryStep
    BY <1>2, <2>4, <2>1, <2>2
       DEF GrabTrack, TaskStep, RecsStep, LibraryStep, Leaves, Idle, Doing
  <2> QED
    BY <2>3, <2>5, <2>6, TaskSummary
<1> QED
  BY <1>1, <1>2 DEF Grab

LEMMA RemoveSteps ==
  ASSUME TypeOK, NEW p \in Proc, Remove(p)
  PROVE  CoreOK' /\ Summary
<1>1. ASSUME NEW r \in recs, NEW fromClient \in BOOLEAN, RemoveFind(p, r, fromClient)
      PROVE  CoreOK' /\ Summary
  <2> DEFINE j == Doing(IF fromClient THEN "remove_client" ELSE "suppress", {}, ById(r.id), {})
  <2>1. ById(r.id) \subseteq recs /\ ById(r.id) \in SUBSET Record
    BY DEF ById, TypeOK
  <2>2. j \in Job /\ Become(p, j)
    BY <1>1, <2>1, DoingType DEF RemoveFind, Pc
  <2>3. job' \in [Proc -> Job] /\ job'[p] = j
    BY <2>2, BecomeType
  <2>4. CoreOK'
    BY <1>1, <2>3, <2>1 DEF RemoveFind, shared, CoreOK, TypeOK
  <2>5. TaskStep(p) /\ RecsStep /\ LibraryStep
    BY <1>1, <2>3, <2>1
       DEF RemoveFind, shared, TaskStep, RecsStep, LibraryStep, Leaves, Doing
  <2> QED
    BY <2>2, <2>4, <2>5, TaskSummary
<1>2. ASSUME NEW r \in job[p].hit, NEW ok \in BOOLEAN, RemoveFromClient(p, r, ok)
      PROVE  CoreOK' /\ Summary
  <2> DEFINE j == Doing("remove", {}, {r}, {})
  <2>1. {r} \in SUBSET Record
    BY DEF TypeOK, Job
  <2>2. client' \in [Download -> ClientState]
    BY <1>2 DEF RemoveFromClient, TypeOK, ClientState
  <2>3. j \in Job /\ Become(p, j)
    BY <1>2, <2>1, <2>2, DoingType DEF RemoveFromClient, Pc
  <2>4. job' \in [Proc -> Job] /\ job'[p] = j
    BY <2>3, BecomeType
  <2>5. CoreOK'
    BY <1>2, <2>4, <2>1, <2>2 DEF RemoveFromClient, CoreOK, TypeOK
  <2>6. TaskStep(p) /\ RecsStep /\ LibraryStep
    BY <1>2, <2>4, <2>1, <2>2
       DEF RemoveFromClient, TaskStep, RecsStep, LibraryStep, Leaves, Held, Doing
  <2> QED
    BY <2>3, <2>5, <2>6, TaskSummary
<1>3. ASSUME NEW r \in job[p].hit, Suppress(p, r)
      PROVE  CoreOK' /\ Summary
  <2> DEFINE j == Doing("remove", {}, {r}, {})
  <2>1. {r} \in SUBSET Record /\ r.dl \in Download
    BY DEF TypeOK, Job, Record
  <2>2. j \in Job /\ Become(p, j)
    BY <1>3, <2>1, DoingType DEF Suppress, Pc
  <2>3. job' \in [Proc -> Job] /\ job'[p] = j
    BY <2>2, BecomeType
  <2>4. CoreOK'
    BY <1>3, <2>3, <2>1 DEF Suppress, CoreOK, TypeOK
  <2>5. TaskStep(p) /\ RecsStep /\ LibraryStep
    BY <1>3, <2>3, <2>1
       DEF Suppress, TaskStep, RecsStep, LibraryStep, Leaves, Held, Doing
  <2> QED
    BY <2>2, <2>4, <2>5, TaskSummary
<1>4. ASSUME NEW r \in job[p].hit, RemoveRecord(p, r)
      PROVE  CoreOK' /\ Summary
  <2> DEFINE j == Idle
  <2>1. recs' \subseteq recs
    BY <1>4, RemoveByIdType DEF RemoveRecord
  <2>2. j \in Job /\ Become(p, j)
    BY <1>4, <2>1, IdleType DEF RemoveRecord, Become
  <2>3. job' \in [Proc -> Job] /\ job'[p] = j
    BY <2>2, BecomeType
  <2>4. CoreOK'
    BY <1>4, <2>3, <2>1 DEF RemoveRecord, CoreOK, TypeOK
  <2>5. TaskStep(p) /\ RecsStep /\ LibraryStep
    BY <1>4, <2>3, <2>1
       DEF RemoveRecord, TaskStep, RecsStep, LibraryStep, Leaves, Idle, Doing
  <2> QED
    BY <2>2, <2>4, <2>5, TaskSummary
<1> QED
  BY <1>1, <1>2, <1>3, <1>4 DEF Remove

LEMMA EnvironmentSteps ==
  ASSUME TypeOK, Environment
  PROVE  CoreOK' /\ Summary
<1>1. ASSUME NEW d \in Download, SuppressUntracked(d)
      PROVE  CoreOK' /\ Summary
  BY <1>1 DEF SuppressUntracked, CoreOK, TypeOK, Summary, RecsStep, LibraryStep,
              TaskStep, Keeps
<1>2. ASSUME NEW d \in Download, ClientStep(d)
      PROVE  CoreOK' /\ Summary
  <2>1. client' \in [Download -> ClientState]
    BY <1>2 DEF ClientStep, TypeOK, ClientState
  <2> QED
    BY <1>2, <2>1 DEF ClientStep, CoreOK, TypeOK, Summary, RecsStep, LibraryStep,
                      TaskStep, Keeps
<1>3. ASSUME NEW d \in Download, Import(d)
      PROVE  CoreOK' /\ Summary
  <2>1. recs' \subseteq recs
    BY <1>3 DEF Import
  <2> QED
    BY <1>3, <2>1 DEF Import, CoreOK, TypeOK, Summary, RecsStep, LibraryStep,
                      TaskStep, Keeps
<1>4. ASSUME NEW r \in recs, DeleteRecord(r)
      PROVE  CoreOK' /\ Summary
  <2>1. recs' \subseteq recs
    BY <1>4, RemoveByIdType DEF DeleteRecord
  <2> QED
    BY <1>4, <2>1 DEF DeleteRecord, CoreOK, TypeOK, Summary, RecsStep, LibraryStep,
                      TaskStep, Keeps
<1>5. CASE ClearSuppressed
  BY <1>5 DEF ClearSuppressed, CoreOK, TypeOK, Summary, RecsStep, LibraryStep,
              TaskStep, Keeps
<1>6. CASE Restart
  <2>1. /\ recs' = recs /\ restarts' # restarts /\ restarts' \in 0 .. MaxRestarts
        /\ job' = [p \in Proc |-> Idle]
    BY <1>6, QueueAssumption DEF Restart, TypeOK
  <2>2. PICK n \in [Active -> 0 .. (MaxId + 1)] :
          (\A s \in Active : CountsOn(s, n[s])) /\ nextId' = n
    BY <1>6 DEF Restart
  <2>3. \A s \in Active : n[s] \in Nat \ {0}
    <3> SUFFICES ASSUME NEW s \in Active PROVE n[s] # 0
      BY QueueAssumption
    <3>1. CASE n[s] - 1 \in {r.id : r \in {q \in recs : q.store = s}}
      BY <3>1 DEF TypeOK, Record
    <3>2. CASE n[s] = 1
      BY <3>2
    <3> QED
      BY <2>2, <3>1, <3>2 DEF CountsOn
  <2>4. job' \in [Proc -> Job]
    BY <2>1, IdleType
  <2>5. CoreOK'
    BY <1>6, <2>1, <2>2, <2>3, <2>4 DEF Restart, CoreOK, TypeOK
  <2>6. RecsStep /\ LibraryStep
    BY <1>6, <2>1, <2>2, <2>3 DEF Restart, RecsStep, LibraryStep
  <2>7. \A p \in Proc : TaskStep(p)
    BY <2>1 DEF TaskStep, Leaves, Idle, Doing
  <2> QED
    BY <2>5, <2>6, <2>7 DEF Summary
<1> QED
  BY <1>1, <1>2, <1>3, <1>4, <1>5, <1>6 DEF Environment

LEMMA StepSummary ==
  ASSUME TypeOK, Next
  PROVE  CoreOK' /\ Summary
  BY PollSteps, ProcessSteps, CleanSteps, ReconcileSteps, GrabSteps, RemoveSteps,
     EnvironmentSteps DEF Next

LEMMA StepType ==
  ASSUME TypeOK, [Next]_vars
  PROVE  TypeOK'
<1>1. CASE Next
  <2>1. CoreOK'
    BY <1>1, StepSummary
  <2>2. bare' \in [Proc -> SUBSET Download]
    BY <1>1, <2>1 DEF Next, History, TypeOK, CoreOK
  <2>3. lapsed' \subseteq recs'
    BY <1>1 DEF Next, History
  <2> QED
    BY <2>1, <2>2, <2>3 DEF TypeOK, CoreOK
<1>2. CASE UNCHANGED vars
  BY <1>2 DEF vars, shared, TypeOK
<1> QED
  BY <1>1, <1>2

\* Every state has the declared types.
THEOREM TypeCorrect == Spec => []TypeOK
<1>1. Init => TypeOK
  BY InitType
<1>2. TypeOK /\ [Next]_vars => TypeOK'
  BY StepType
<1> QED
  BY <1>1, <1>2, PTL DEF Spec

---------------------------------------------------------------------------
(* The invariant, conjunct by conjunct, from the summary of a step *)

LEMMA InitInv == Init => IInv
  BY InitType, QueueAssumption
     DEF Init, IInv, RecsInv, HeldInv, KnownInv, SuppressionSticks, PollInv,
         LibraryInv, Idle, Doing, At, Held

LEMMA StepRecs ==
  ASSUME TypeOK, RecsInv, RecsStep
  PROVE  RecsInv'
<1>1. CASE recs' \subseteq recs /\ nextId' = nextId
  BY <1>1 DEF RecsInv
<1>2. ASSUME NEW d \in Download, Insert(d)
      PROVE  RecsInv'
  <2>1. Kind[d] \in Active
    BY QueueAssumption
  <2> QED
    BY <1>2, <2>1 DEF Insert, RecsInv, TypeOK, Record
<1>3. CASE recs' = recs /\ \A s \in Active : CountsOn(s, nextId'[s])
  <2>1. ASSUME NEW r \in recs PROVE r.id < nextId'[r.store]
    BY <1>3, <2>1 DEF CountsOn, TypeOK, Record
  <2> QED
    BY <1>3, <2>1 DEF RecsInv
<1> QED
  BY <1>1, <1>2, <1>3 DEF RecsStep

LEMMA StepHeld ==
  ASSUME TypeOK, RecsInv, HeldInv, Summary, TypeOK'
  PROVE  HeldInv'
<1>1. ASSUME NEW p \in Proc, NEW r \in Held(p)'
      PROVE  r \in Held(p) \cup recs
  BY <1>1 DEF Summary, TaskStep, Keeps, Leaves, Reads, Tracks, PollDrops, Imports, Held
<1>2. ASSUME NEW p \in Proc, NEW r \in Held(p)'
      PROVE  /\ r \in Record
             /\ r.id < nextId[r.store]
             /\ \A q \in recs : r.id = q.id /\ r.store = q.store => r = q
  BY <1>1, <1>2 DEF HeldInv, RecsInv, TypeOK, Job, Held
<1> SUFFICES ASSUME NEW p \in Proc, NEW r \in Held(p)'
             PROVE  /\ r.id < nextId'[r.store]
                    /\ \A q \in recs' : r.id = q.id /\ r.store = q.store => r = q
  BY DEF HeldInv
<1>3. CASE recs' \subseteq recs /\ nextId' = nextId
  BY <1>2, <1>3
<1>4. ASSUME NEW d \in Download, Insert(d)
      PROVE  /\ r.id < nextId'[r.store]
             /\ \A q \in recs' : r.id = q.id /\ r.store = q.store => r = q
  <2>1. Kind[d] \in Active
    BY QueueAssumption
  <2> QED
    BY <1>2, <1>4, <2>1 DEF Insert, TypeOK, Record
<1>5. CASE job' = [q \in Proc |-> Idle]
  BY <1>5 DEF Held, Idle, Doing
<1> QED
  BY <1>3, <1>4, <1>5 DEF Summary, RecsStep

LEMMA StepPoll ==
  ASSUME TypeOK, HeldInv, PollInv, Summary, History
  PROVE  PollInv'
<1> SUFFICES ASSUME NEW p \in Proc, At(p, "poll_drop")',
                    NEW r \in job'[p].todo \cap recs'
             PROVE  r \in lapsed'
  BY DEF PollInv
<1>1. Keeps(p) \/ PollDrops(p)
  BY DEF Summary, TaskStep, Leaves, Reads, Tracks, Imports, At
<1>2. r \in job[p].todo
  BY <1>1 DEF Keeps, PollDrops
<1>3. r \in recs
  <2>1. r.id < nextId[r.store]
    BY <1>2 DEF HeldInv, Held
  <2>2. ASSUME NEW d \in Download, Insert(d) PROVE r \in recs
    BY <2>1, <2>2, QueueAssumption DEF Insert, TypeOK, Record
  <2> QED
    BY <2>2 DEF Summary, RecsStep
<1>4. CASE At(p, "poll_drop")
  BY <1>2, <1>3, <1>4 DEF PollInv, History
<1>5. CASE ~At(p, "poll_drop")
  <2>1. client'[r.dl] = "absent"
    BY <1>1, <1>5 DEF Keeps, PollDrops, At
  <2> QED
    BY <2>1 DEF History
<1> QED
  BY <1>4, <1>5

LEMMA StepLibrary ==
  ASSUME TypeOK, LibraryInv, Summary, TypeOK'
  PROVE  LibraryInv'
<1> SUFFICES ASSUME ~Upgrades PROVE LibraryInv'
  BY DEF LibraryInv
<1>1. \A d \in Download : library'[d] # "other"
  BY DEF LibraryInv, Summary, LibraryStep
<1>2. ASSUME NEW p \in Proc, (At(p, "process_drop") \/ At(p, "clean_drop"))',
             NEW r \in job'[p].hit
      PROVE  library'[r.dl] = "this"
  <2>1. r.dl \in Download
    BY <1>2 DEF TypeOK, Job, Record
  <2>2. CASE Keeps(p)
    BY <1>2, <2>1, <2>2 DEF Keeps, At, LibraryInv, Summary, LibraryStep
  <2>3. CASE Imports(p)
    BY <1>1, <1>2, <2>1, <2>3 DEF Imports, TypeOK
  <2> QED
    BY <1>2, <2>2, <2>3 DEF Summary, TaskStep, Leaves, Reads, Tracks, PollDrops, At
<1> QED
  BY <1>1, <1>2 DEF LibraryInv

LEMMA ReadOrderCovers ==
  /\ ReadOrder # <<>> /\ ReadOrder[Len(ReadOrder)] = "suppressed"
  /\ \A s \in Active \cup {"suppressed"} : \E i \in DOMAIN ReadOrder : ReadOrder[i] = s
<1> DEFINE S == Active \cup {"suppressed"}
<1>1. SearchOrder \in Seq(S)
  BY QueueAssumption DEF Active
<1>2. /\ Len(ReadOrder) = Len(SearchOrder) + 1
      /\ ReadOrder \in Seq(S)
      /\ ReadOrder[Len(SearchOrder) + 1] = "suppressed"
      /\ \A i \in DOMAIN SearchOrder : ReadOrder[i] = SearchOrder[i]
  BY <1>1 DEF ReadOrder
<1>3. DOMAIN ReadOrder = 1 .. (Len(SearchOrder) + 1) /\ Len(SearchOrder) \in Nat
      /\ DOMAIN SearchOrder = 1 .. Len(SearchOrder)
  BY <1>1, <1>2
<1>4. \A s \in Active : \E i \in DOMAIN ReadOrder : ReadOrder[i] = s
  BY <1>2, <1>3 DEF Active
<1> QED
  BY <1>2, <1>3, <1>4

\* IdsIn(s) after the step.
IdsThen(s) == IF s = "suppressed" THEN suppressed'
              ELSE {r.dl : r \in {q \in recs' : q.store = s}}

LEMMA StepKnown ==
  ASSUME TypeOK, RecsInv, KnownInv, Summary, History, TypeOK', RecsInv'
  PROVE  KnownInv'
<1> SUFFICES ASSUME NEW p \in Proc, At(p, "known")'
             PROVE  /\ job'[p].left # <<>> => job'[p].left[Len(job'[p].left)] = "suppressed"
                    /\ \A d \in Download \ (job'[p].seen \cup bare'[p]) :
                         \E i \in DOMAIN job'[p].left : d \in IdsThen(job'[p].left[i])
  BY DEF KnownInv, IdsIn, IdsThen
<1> DEFINE now == (Download \ (Tracked' \cup suppressed')) \cup (suppressed \ suppressed')
<1>1. bare'[p] = (IF At(p, "known") THEN bare[p] ELSE {}) \cup now
  BY DEF History, At
<1>2. job[p].left \in Seq(Active \cup {"suppressed"})
  BY DEF TypeOK, Job
<1>3. CASE Keeps(p)
  <2>1. At(p, "known") /\ job'[p] = job[p]
    BY <1>3 DEF Keeps, At
  <2>2. ASSUME NEW d \in Download \ (job[p].seen \cup bare'[p])
        PROVE  \E i \in DOMAIN job[p].left : d \in IdsThen(job[p].left[i])
    <3>1. PICK i \in DOMAIN job[p].left : d \in IdsIn(job[p].left[i])
      BY <1>1, <2>1, <2>2 DEF KnownInv
    <3>2. d \in Tracked' \cup suppressed' /\ (d \in suppressed => d \in suppressed')
      BY <1>1, <2>2
    <3>3. CASE d \in suppressed'
      <4>1. Len(job[p].left) \in DOMAIN job[p].left
            /\ job[p].left[Len(job[p].left)] = "suppressed"
        BY <1>2, <2>1, <3>1 DEF KnownInv
      <4> QED
        BY <3>3, <4>1 DEF IdsThen
    <3>4. CASE d \notin suppressed'
      <4>1. job[p].left[i] # "suppressed" /\ job[p].left[i] = Kind[d]
        BY <3>1, <3>2, <3>4 DEF IdsIn, RecsInv
      <4>2. PICK r \in recs' : r.dl = d
        BY <3>2, <3>4 DEF Tracked
      <4>3. r.store = Kind[d]
        BY <4>2 DEF RecsInv
      <4> QED
        BY <4>1, <4>2, <4>3 DEF IdsThen
    <3> QED
      BY <3>3, <3>4
  <2> QED
    BY <2>1, <2>2 DEF KnownInv
<1>4. CASE Reads(p) /\ At(p, "idle")
  <2>1. job'[p].left = ReadOrder
    BY <1>4 DEF Reads, At
  <2>2. ASSUME NEW d \in Download \ (job'[p].seen \cup bare'[p])
        PROVE  \E i \in DOMAIN ReadOrder : d \in IdsThen(ReadOrder[i])
    <3>1. d \in Tracked' \cup suppressed'
      BY <1>1, <2>2
    <3>2. CASE d \in suppressed'
      BY <3>2, ReadOrderCovers DEF IdsThen
    <3>3. CASE d \in Tracked'
      <4>1. PICK r \in recs' : r.dl = d
        BY <3>3 DEF Tracked
      <4>2. r.store \in Active
        BY <4>1 DEF TypeOK, Record
      <4>3. PICK i \in DOMAIN ReadOrder : ReadOrder[i] = r.store
        BY <4>2, ReadOrderCovers
      <4> QED
        BY <4>1, <4>2, <4>3, QueueAssumption DEF IdsThen
    <3> QED
      BY <3>1, <3>2, <3>3
  <2> QED
    BY <2>1, <2>2, ReadOrderCovers
<1>5. CASE Reads(p) /\ ~At(p, "idle")
  <2>1. /\ At(p, "known") /\ job[p].left # <<>>
        /\ job'[p].left = Tail(job[p].left)
        /\ job'[p].seen = job[p].seen \cup IdsIn(Head(job[p].left))
        /\ UNCHANGED <<recs, suppressed>>
    BY <1>5 DEF Reads
  <2> DEFINE n == Len(job[p].left)
  <2>2. /\ n \in Nat \ {0} /\ DOMAIN job[p].left = 1 .. n
        /\ DOMAIN Tail(job[p].left) = 1 .. (n - 1)
        /\ Len(Tail(job[p].left)) = n - 1
        /\ Head(job[p].left) = job[p].left[1]
        /\ \A i \in 2 .. n : Tail(job[p].left)[i - 1] = job[p].left[i]
    BY <1>2, <2>1
  <2>3. job[p].left[n] = "suppressed"
    BY <2>1 DEF KnownInv
  <2>4. Tail(job[p].left) # <<>> => Tail(job[p].left)[n - 1] = "suppressed"
    <3>1. n = 1 => Tail(job[p].left) = <<>>
      BY <1>2, <2>2
    <3> QED
      BY <2>2, <2>3, <3>1
  <2>5. ASSUME NEW d \in Download \ (job'[p].seen \cup bare'[p])
        PROVE  \E i \in DOMAIN Tail(job[p].left) : d \in IdsIn(Tail(job[p].left)[i])
    <3>1. PICK i \in 1 .. n : d \in IdsIn(job[p].left[i])
      BY <1>1, <2>1, <2>2, <2>5 DEF KnownInv
    <3>2. i # 1
      BY <2>1, <2>2, <2>5, <3>1
    <3>3. i - 1 \in 1 .. (n - 1) /\ Tail(job[p].left)[i - 1] = job[p].left[i]
      BY <2>2, <3>1, <3>2
    <3> QED
      BY <2>2, <3>1, <3>3
  <2>6. \A s : IdsThen(s) = IdsIn(s)
    BY <2>1 DEF IdsIn, IdsThen
  <2> QED
    BY <2>1, <2>2, <2>4, <2>5, <2>6
<1> QED
  BY <1>3, <1>4, <1>5 DEF Summary, TaskStep, Leaves, Tracks, PollDrops, Imports, At

LEMMA StepSticks ==
  ASSUME TypeOK, KnownInv, SuppressionSticks, Summary, History, TypeOK'
  PROVE  SuppressionSticks'
<1> SUFFICES ASSUME NEW p \in Proc, At(p, "reconcile")'
             PROVE  job'[p].seen \subseteq bare'[p]
  BY DEF SuppressionSticks
<1>1. bare'[p] = bare[p]
  BY DEF History, At
<1>2. CASE At(p, "reconcile") /\ job'[p].seen \subseteq job[p].seen
  BY <1>1, <1>2 DEF SuppressionSticks
<1>3. CASE At(p, "known") /\ job[p].left = <<>> /\ job'[p].seen \cap job[p].seen = {}
  <2>1. Download \ (job[p].seen \cup bare[p]) = {}
    BY <1>3 DEF KnownInv
  <2>2. job'[p].seen \subseteq Download
    BY DEF TypeOK, Job
  <2> QED
    BY <1>1, <1>3, <2>1, <2>2
<1> QED
  BY <1>2, <1>3 DEF Summary, TaskStep, Keeps, Leaves, Reads, Tracks, PollDrops,
                    Imports, At

LEMMA StepInv ==
  ASSUME IInv, [Next]_vars
  PROVE  IInv'
<1>1. CASE Next
  <2>1. Summary /\ History /\ TypeOK'
    BY <1>1, StepSummary, StepType DEF IInv, Next
  <2>2. RecsInv'
    BY <2>1, StepRecs DEF IInv, Summary
  <2> QED
    BY <2>1, <2>2, StepHeld, StepKnown, StepSticks, StepPoll, StepLibrary DEF IInv
<1>2. CASE UNCHANGED vars
  BY <1>2 DEF vars, shared, IInv, TypeOK, RecsInv, HeldInv, Held, KnownInv, IdsIn,
              SuppressionSticks, PollInv, LibraryInv, At
<1> QED
  BY <1>1, <1>2

\* The strengthened invariant, from which the properties below follow.
THEOREM Invariance == Spec => []IInv
<1>1. Init => IInv
  BY InitInv
<1>2. IInv /\ [Next]_vars => IInv'
  BY StepInv
<1> QED
  BY <1>1, <1>2, PTL DEF Spec

---------------------------------------------------------------------------
(* The properties *)

\* A download the user suppressed, and did not release, is not tracked by
\* reconcile however its reads and the user's removal interleave.
THEOREM SuppressionHolds == Spec => []SuppressionSticks
<1>1. IInv => SuppressionSticks
  BY DEF IInv
<1> QED
  BY <1>1, Invariance, PTL

\* With one store, an id a task holds names the record it read, or nothing.
LEMMA ByIdExact ==
  ASSUME Len(SearchOrder) = 1, TypeOK, HeldInv,
         NEW p \in Proc, NEW r \in Held(p)
  PROVE  ById(r.id) \subseteq {r}
<1> SUFFICES ASSUME NEW q \in ById(r.id) PROVE q = r
  OBVIOUS
<1>1. q \in recs /\ q.id = r.id /\ q.store \in Active /\ r.store \in Active
  BY DEF ById, TypeOK, Job, Held, Record
<1>2. q.store = r.store
  BY <1>1, QueueAssumption DEF Active
<1> QED
  BY <1>1, <1>2 DEF HeldInv

\* Only a task's own step changes what it is doing, restarts apart.
LEMMA OwnStep ==
  ASSUME TypeOK, Next, NEW p \in Proc, job'[p] # job[p], restarts' = restarts
  PROVE  Poll(p) \/ Process(p) \/ Clean(p) \/ Reconcile(p) \/ Grab(p) \/ Remove(p)
<1>1. ~Environment
  BY DEF Environment, SuppressUntracked, ClientStep, Import, DeleteRecord,
         ClearSuppressed, Restart, TypeOK
<1>2. ASSUME NEW q \in Proc, NEW j, Become(q, j)
      PROVE  q = p
  BY <1>2 DEF Become, TypeOK
<1>3. ASSUME NEW q \in Proc,
             Poll(q) \/ Process(q) \/ Clean(q) \/ Reconcile(q) \/ Grab(q) \/ Remove(q)
      PROVE  q = p
  <2>1. \E j : Become(q, j)
    <3>1. CASE Poll(q)
      BY <3>1 DEF Poll, PollStart, PollAsk, PollDrop
    <3>2. CASE Process(q)
      BY <3>2 DEF Process, ProcessStart, ProcessAsk, ProcessDrop
    <3>3. CASE Clean(q)
      BY <3>3 DEF Clean, CleanStart, CleanAsk, CleanCheck, CleanDrop
    <3>4. CASE Reconcile(q)
      BY <3>4 DEF Reconcile, ReconcileStart, ReconcileRead, ReconcileAsk, ReconcileInsert
    <3>5. CASE Grab(q)
      BY <3>5 DEF Grab, GrabAdd, GrabTrack
    <3>6. CASE Remove(q)
      BY <3>6 DEF Remove, RemoveFind, RemoveFromClient, Suppress, RemoveRecord
    <3> QED
      BY <1>3, <3>1, <3>2, <3>3, <3>4, <3>5, <3>6
  <2> QED
    BY <1>2, <2>1
<1> QED
  BY <1>1, <1>3 DEF Next

LEMMA PollDropsHeld ==
  ASSUME TypeOK, Next, NEW p \in Proc, job'[p] # job[p], restarts' = restarts,
         At(p, "poll_drop")
  PROVE  \E r \in job[p].todo : RemoveById(r.id)
  BY OwnStep
     DEF Poll, PollStart, PollAsk, PollDrop, Process, ProcessStart, ProcessAsk,
         ProcessDrop, Clean, CleanStart, CleanAsk, CleanCheck, CleanDrop, Reconcile,
         ReconcileStart, ReconcileRead, ReconcileAsk, ReconcileInsert, Grab, GrabAdd,
         GrabTrack, Remove, RemoveFind, RemoveFromClient, Suppress, RemoveRecord, May, At

LEMMA ImportDropsHeld ==
  ASSUME TypeOK, Next, NEW p \in Proc, job'[p] # job[p], restarts' = restarts,
         At(p, "process_drop") \/ At(p, "clean_drop")
  PROVE  \E r \in job[p].hit : RemoveById(r.id)
  BY OwnStep
     DEF Poll, PollStart, PollAsk, PollDrop, Process, ProcessStart, ProcessAsk,
         ProcessDrop, Clean, CleanStart, CleanAsk, CleanCheck, CleanDrop, Reconcile,
         ReconcileStart, ReconcileRead, ReconcileAsk, ReconcileInsert, Grab, GrabAdd,
         GrabTrack, Remove, RemoveFind, RemoveFromClient, Suppress, RemoveRecord, May, At

\* With one store, get_queue drops no record whose download the client has had
\* ever since the record was made.
THEOREM AutoRemovalIsSound ==
  ASSUME Len(SearchOrder) = 1
  PROVE  Spec => AutoRemovalSound
<1>1. ASSUME IInv, Next, NEW p \in Proc, At(p, "poll_drop"), job'[p] # job[p],
             restarts' = restarts
      PROVE  recs \ recs' \subseteq lapsed
  <2>1. PICK r \in job[p].todo : RemoveById(r.id)
    BY <1>1, PollDropsHeld DEF IInv
  <2>2. ById(r.id) \subseteq {r}
    BY <1>1, ByIdExact DEF IInv, Held
  <2>3. recs \ recs' \subseteq {r} \cap recs
    BY <2>1, <2>2 DEF RemoveById
  <2> QED
    BY <1>1, <2>3 DEF IInv, PollInv
<1>2. IInv /\ [Next]_vars =>
        [\A p \in Proc : At(p, "poll_drop") /\ job'[p] # job[p] /\ restarts' = restarts =>
           recs \ recs' \subseteq lapsed]_vars
  BY <1>1
<1> QED
  BY <1>2, Invariance, PTL DEF Spec, AutoRemovalSound

\* With one store, and a library that holds nothing from elsewhere, the clean-ups
\* drop no record whose download has not been imported.
THEOREM OnlyImportedIsDropped ==
  ASSUME Len(SearchOrder) = 1, ~Upgrades
  PROVE  Spec => ConfirmedImportedOnly
<1>1. ASSUME IInv, Next, NEW p \in Proc,
             At(p, "process_drop") \/ At(p, "clean_drop"), job'[p] # job[p],
             restarts' = restarts
      PROVE  \A r \in recs \ recs' : library[r.dl] = "this"
  <2>1. PICK r \in job[p].hit : RemoveById(r.id)
    BY <1>1, ImportDropsHeld DEF IInv
  <2>2. ById(r.id) \subseteq {r}
    BY <1>1, ByIdExact DEF IInv, Held
  <2>3. recs \ recs' \subseteq {r}
    BY <2>1, <2>2 DEF RemoveById
  <2> QED
    BY <1>1, <2>3 DEF IInv, LibraryInv
<1>2. IInv /\ [Next]_vars =>
        [\A p \in Proc : (At(p, "process_drop") \/ At(p, "clean_drop")) /\ job'[p] # job[p]
                         /\ restarts' = restarts =>
           \A r \in recs \ recs' : library[r.dl] = "this"]_vars
  BY <1>1
<1> QED
  BY <1>2, Invariance, PTL DEF Spec, ConfirmedImportedOnly
---------------------------------------------------------------------------
(* The queue uses its stores as RecordKeeper has them *)

\* The records by store; flushes succeed here, so what is there is saved.
Stored == [s \in Active |-> {r \in recs : r.store = s}]
SpentIds == [s \in Active |-> 1 .. (nextId[s] - 1)]
Keeper == INSTANCE RecordKeeper
            WITH Store <- Active, Content <- {}, records <- Stored, saved <- Stored,
                 spent <- SpentIds, unsaved <- {}
KeeperStep == [Keeper!Next]_(Keeper!vars)

\* An id resolves to one record, though several stores may use it.
LEMMA ByIdOne ==
  ASSUME TypeOK, RecsInv, NEW n, NEW r \in ById(n), NEW q \in ById(n) PROVE r = q
<1>1. PICK i \in DOMAIN SearchOrder :
        /\ SearchOrder[i] = r.store
        /\ \A j \in 1 .. (i - 1) : \A x \in recs : x.id = n => x.store # SearchOrder[j]
  BY DEF ById
<1>2. PICK k \in DOMAIN SearchOrder :
        /\ SearchOrder[k] = q.store
        /\ \A j \in 1 .. (k - 1) : \A x \in recs : x.id = n => x.store # SearchOrder[j]
  BY DEF ById
<1>3. r \in recs /\ q \in recs /\ r.id = n /\ q.id = n BY DEF ById
<1>4. i \in Nat \ {0} /\ k \in Nat \ {0}
  <2>1. DOMAIN SearchOrder = 1 .. Len(SearchOrder) /\ Len(SearchOrder) \in Nat
    BY QueueAssumption
  <2> QED BY <2>1
<1>5. ~(i < k)
  <2> SUFFICES ASSUME i < k PROVE FALSE OBVIOUS
  <2>1. i \in 1 .. (k - 1) BY <1>4
  <2> QED BY <1>1, <1>2, <1>3, <2>1
<1>6. ~(k < i)
  <2> SUFFICES ASSUME k < i PROVE FALSE OBVIOUS
  <2>1. k \in 1 .. (i - 1) BY <1>4
  <2> QED BY <1>1, <1>2, <1>3, <2>1
<1>7. i = k BY <1>4, <1>5, <1>6
<1> QED BY <1>1, <1>2, <1>3, <1>7 DEF RecsInv

OneLess == recs' = recs \/ \E r \in recs : recs' = recs \ {r}

LEMMA RemoveByIdOneLess ==
  ASSUME TypeOK, RecsInv, NEW n, RemoveById(n) PROVE OneLess
<1>1. CASE ById(n) = {} BY <1>1 DEF RemoveById, OneLess
<1>2. CASE ById(n) # {}
  <2>1. PICK r : r \in ById(n) BY <1>2
  <2>2. ById(n) = {r} BY <2>1, ByIdOne
  <2>3. r \in recs BY <2>1 DEF ById
  <2> QED BY <2>2, <2>3 DEF RemoveById, OneLess
<1> QED BY <1>1, <1>2

LEMMA StepOneLess ==
  ASSUME TypeOK, RecsInv, Next PROVE OneLess \/ \E d \in Download : Insert(d)
<1>1. ASSUME NEW p \in Proc, Poll(p) PROVE OneLess
  BY <1>1, RemoveByIdOneLess DEF Poll, PollStart, PollAsk, PollDrop, shared, OneLess
<1>2. ASSUME NEW p \in Proc, Process(p) PROVE OneLess
  BY <1>2, RemoveByIdOneLess
     DEF Process, ProcessStart, ProcessAsk, ProcessDrop, shared, OneLess
<1>3. ASSUME NEW p \in Proc, Clean(p) PROVE OneLess
  BY <1>3, RemoveByIdOneLess
     DEF Clean, CleanStart, CleanAsk, CleanCheck, CleanDrop, shared, OneLess
<1>4. ASSUME NEW p \in Proc, Reconcile(p)
      PROVE  OneLess \/ \E d \in Download : Insert(d)
  <2>1. job[p].seen \subseteq Download BY DEF TypeOK, Job
  <2> QED
    BY <1>4, <2>1 DEF Reconcile, ReconcileStart, ReconcileRead, ReconcileAsk,
                      ReconcileInsert, shared, OneLess
<1>5. ASSUME NEW p \in Proc, Grab(p) PROVE OneLess \/ \E d \in Download : Insert(d)
  <2>1. job[p].seen \subseteq Download BY DEF TypeOK, Job
  <2> QED BY <1>5, <2>1 DEF Grab, GrabAdd, GrabTrack, OneLess
<1>6. ASSUME NEW p \in Proc, Remove(p) PROVE OneLess
  BY <1>6, RemoveByIdOneLess
     DEF Remove, RemoveFind, RemoveFromClient, Suppress, RemoveRecord, shared, OneLess
<1>7. CASE Environment
  BY <1>7, RemoveByIdOneLess DEF Environment, SuppressUntracked, ClientStep, Import,
     DeleteRecord, ClearSuppressed, Restart, OneLess
<1> QED BY <1>1, <1>2, <1>3, <1>4, <1>5, <1>6, <1>7 DEF Next

LEMMA QuietStores ==
  ASSUME recs' = recs, nextId' = nextId PROVE KeeperStep
  BY DEF KeeperStep, Keeper!vars, Stored, SpentIds

LEMMA DropIsRemove ==
  ASSUME TypeOK, NEW r \in recs, recs' = recs \ {r}, nextId' = nextId PROVE KeeperStep
<1>1. r.store \in Active BY DEF TypeOK, Record
<1>2. Stored' = [Stored EXCEPT ![r.store] = Stored[r.store] \ {r}] BY DEF Stored
<1>3. SpentIds' = SpentIds BY DEF SpentIds
<1>4. Keeper!Remove(r.store, r) BY <1>1, <1>2, <1>3 DEF Keeper!Remove, Keeper!Keep
<1>5. r \in Stored[r.store] BY <1>1 DEF Stored
<1> QED BY <1>1, <1>4, <1>5 DEF KeeperStep, Keeper!Next

LEMMA TrackIsInsert ==
  ASSUME TypeOK, NEW d \in Download, Insert(d) PROVE KeeperStep
<1> DEFINE s == Kind[d]
           r == [store |-> s, id |-> nextId[s], dl |-> d]
<1>1. s \in Active BY QueueAssumption
<1>2. nextId[s] \in Nat \ {0} /\ nextId \in [Active -> Nat \ {0}] BY <1>1 DEF TypeOK
<1>3. recs' = recs \cup {r} /\ nextId' = [nextId EXCEPT ![s] = @ + 1] BY DEF Insert
<1>4. Stored' = [Stored EXCEPT ![s] = Stored[s] \cup {r}]
  <2>1. PICK new : new = r OBVIOUS
  <2>2. new.store = s BY <2>1
  <2>3. recs' = recs \cup {new} BY <1>3, <2>1
  <2>4. Stored'[s] = Stored[s] \cup {new} BY <1>1, <2>2, <2>3 DEF Stored
  <2>5. \A t \in Active : t # s => Stored'[t] = Stored[t] BY <2>2, <2>3 DEF Stored
  <2> QED BY <1>1, <2>1, <2>4, <2>5 DEF Stored
<1>5. r.id \notin SpentIds[s] BY <1>1, <1>2 DEF SpentIds
<1>6. nextId'[s] = nextId[s] + 1 /\ \A t \in Active : t # s => nextId'[t] = nextId[t]
  BY <1>1, <1>2, <1>3
<1>7. \A t \in Active : SpentIds[t] \subseteq SpentIds'[t]
  BY <1>2, <1>6 DEF SpentIds
<1>8. r.id \in SpentIds'[s] BY <1>1, <1>2, <1>6 DEF SpentIds
<1>9. Keeper!Insert(s, r)
  BY <1>4, <1>5, <1>7, <1>8 DEF Keeper!Insert, Keeper!Keep, Keeper!SpendsMore
<1>10. r \in Stored'[s] BY <1>1, <1>3 DEF Stored
<1> QED BY <1>1, <1>9, <1>10 DEF KeeperStep, Keeper!Next

LEMMA RestartIsRestart ==
  ASSUME TypeOK, recs' = recs, nextId' \in [Active -> Nat],
         \A s \in Active : CountsOn(s, nextId'[s])
  PROVE  KeeperStep
<1>1. Stored' = Stored BY DEF Stored
<1>2. ASSUME NEW s \in Active, NEW r \in Stored[s] PROVE r.id \in SpentIds'[s]
  <2>1. r \in recs /\ r.store = s /\ r.id \in Nat \ {0} BY <1>2 DEF Stored, TypeOK, Record
  <2>2. r.id < nextId'[s] /\ nextId'[s] \in Nat BY <2>1 DEF CountsOn
  <2>3. r.id \in 1 .. (nextId'[s] - 1) BY <2>1, <2>2
  <2> QED BY <2>3 DEF SpentIds
<1>3. Keeper!Restart BY <1>1, <1>2 DEF Keeper!Restart
<1> QED BY <1>3 DEF KeeperStep, Keeper!Next

LEMMA StepIsKeeper == ASSUME IInv, [Next]_vars PROVE KeeperStep
<1>1. CASE UNCHANGED vars BY <1>1, QuietStores DEF vars, shared
<1>2. CASE Next
  <2>1. TypeOK /\ RecsInv BY DEF IInv
  <2>2. RecsStep BY <1>2, <2>1, StepSummary DEF Summary
  <2>3. CASE recs' \subseteq recs /\ nextId' = nextId
    <3>1. CASE OneLess BY <2>1, <2>3, <3>1, QuietStores, DropIsRemove DEF OneLess
    <3>2. ASSUME NEW d \in Download, Insert(d) PROVE KeeperStep
      BY <2>1, <3>2, TrackIsInsert
    <3> QED BY <1>2, <2>1, <3>1, <3>2, StepOneLess
  <2>4. ASSUME NEW d \in Download, Insert(d) PROVE KeeperStep BY <2>1, <2>4, TrackIsInsert
  <2>5. CASE /\ recs' = recs /\ nextId' \in [Active -> Nat]
             /\ \A s \in Active : CountsOn(s, nextId'[s])
    BY <2>1, <2>5, RestartIsRestart
  <2> QED BY <2>2, <2>3, <2>4, <2>5 DEF RecsStep
<1> QED BY <1>1, <1>2

LEMMA InitIsKeeper == Init => Keeper!Init
<1> SUFFICES ASSUME Init PROVE Keeper!Init OBVIOUS
<1>1. Stored = [s \in Active |-> {}] BY DEF Init, Stored
<1>2. SpentIds = [s \in Active |-> {}] BY DEF Init, SpentIds
<1> QED BY <1>1, <1>2 DEF Keeper!Init

\* The service's tasks, the user and the importer use the stores as the record keeper
\* has them, which TrackedStores implements: one record at a time goes, by its id too
\* when several stores use it, and ids are spent once between restarts.
THEOREM QueueKeepsRecords == Spec => Keeper!Spec
<1>1. IInv /\ [Next]_vars => [Keeper!Next]_(Keeper!vars) BY StepIsKeeper DEF KeeperStep
<1> QED BY <1>1, InitIsKeeper, Invariance, PTL DEF Spec, Keeper!Spec

============================================================================
