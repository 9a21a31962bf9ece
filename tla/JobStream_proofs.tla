-------------------------- MODULE JobStream_proofs --------------------------
(***************************************************************************)
(* What holds of JobStream for every set of workers, jobs and faults: its  *)
(* types, that no job disappears without a fault, and that none is started *)
(* twice without one.                                                      *)
(*                                                                         *)
(* JobsAccounted is not inductive: a job that is being sent back has two   *)
(* entries, and which of them will be acknowledged depends on the hands of *)
(* the workers.  SafeInv asks for an entry that no worker is about to      *)
(* acknowledge as sent back; HandInv says that a slot a worker holds still *)
(* stands for the job it read, and TrimInv that what a reclaim deletes is  *)
(* recorded as lost.                                                       *)
(***************************************************************************)
EXTENDS JobStream, TLAPS

Same(e, f) == e.id = f.id /\ e.job = f.job
Distinct(es) == \A a, b \in es : a.id = b.id => a = b
Holding(w) == hand[w].pc \in {"got", "forwarded"}
SendsBack(e) == \E w \in Worker : hand[w].pc = "forwarded" /\ hand[w].id = e.id

SlotInv == Distinct(entries)
HandInv ==
  \A w \in Worker : hand[w] # Free =>
    /\ hand[w].job \in sent
    /\ Holding(w) => \A e \in entries : e.id = hand[w].id => e.job = hand[w].job
SentInv ==
  /\ \A e \in entries : e.job \in sent
  /\ \A w \in Worker : running[w] \subseteq sent
TrimInv == \A e \in entries : ~e.kept => e.owner # Nobody /\ e.job \in lost
Safe(j) ==
  \/ j \in answered \cup lost
  \/ Running(j)
  \/ \E e \in entries : e.job = j /\ ~SendsBack(e)
SafeInv == \A j \in sent : Safe(j)

IInv == TypeOK /\ SlotInv /\ HandInv /\ SentInv /\ TrimInv /\ SafeInv

---------------------------------------------------------------------------
(* What the operations on the stream do to the set of entries *)

\* One entry gives way to another of the same id and job.
LEMMA ReplacedFacts ==
  ASSUME entries \subseteq Entry, SlotInv, NEW e \in entries, NEW f \in Entry,
         Same(e, f)
  PROVE  /\ Replaced(e, f) \subseteq Entry
         /\ Distinct(Replaced(e, f))
         /\ \A x \in Replaced(e, f) : x = f \/ x \in entries
         /\ \A x \in entries : \E y \in Replaced(e, f) : Same(x, y)
  BY DEF Replaced, SlotInv, Distinct, Same

\* XADD adds one entry, under an id that no entry has and no worker holds.
LEMMA AddedFacts ==
  ASSUME entries \subseteq Entry, SlotInv, NEW j \in Job, Unused # {}
  PROVE  \E n \in Entry :
           /\ Added(j) = entries \cup {n}
           /\ n.id \in Unused /\ n.job = j /\ n.owner = Nobody /\ n.kept /\ ~n.old
           /\ Added(j) \subseteq Entry
           /\ Distinct(Added(j))
<1> DEFINE i == CHOOSE i \in Unused : TRUE
           n == [id |-> i, job |-> j, owner |-> Nobody, old |-> FALSE,
                 kept |-> TRUE, ahead |-> Ids(entries)]
<1>1. i \in Unused
  OBVIOUS
<1>2. i \in Slot /\ \A e \in entries : e.id # i
  BY <1>1 DEF Unused, Ids
<1>3. Ids(entries) \subseteq Slot
  BY DEF Ids, Entry
<1>4. n \in Entry /\ n.id = i /\ n.job = j /\ n.owner = Nobody /\ n.kept /\ ~n.old
  BY <1>2, <1>3 DEF Entry
<1>5. Added(j) = entries \cup {n}
  BY DEF Added
<1> HIDE DEF n
<1>6. Distinct(entries \cup {n})
  BY <1>2, <1>4 DEF SlotInv, Distinct
<1> QED
  BY <1>1, <1>4, <1>5, <1>6

\* Taking entries out leaves the others, but for what was ahead of them.
LEMMA WithoutFacts ==
  ASSUME entries \subseteq Entry, SlotInv, NEW gone
  PROVE  /\ Without(gone) \subseteq Entry
         /\ Distinct(Without(gone))
         /\ \A f \in Without(gone) : f.id \notin gone /\
              \E e \in entries : Same(e, f) /\ f.owner = e.owner /\ f.kept = e.kept
                                 /\ f.old = e.old
         /\ \A e \in entries : e.id \notin gone =>
              \E f \in Without(gone) : Same(e, f)
<1> DEFINE cut(e) == [e EXCEPT !.ahead = @ \ gone]
<1>1. \A e \in entries : /\ cut(e) \in Entry
                         /\ Same(e, cut(e)) /\ cut(e).owner = e.owner
                         /\ cut(e).kept = e.kept /\ cut(e).old = e.old
  BY DEF Entry, Same
<1>2. Without(gone) = {cut(e) : e \in {x \in entries : x.id \notin gone}}
  BY DEF Without
<1> HIDE DEF cut
<1>3. Distinct(Without(gone))
  BY <1>1, <1>2 DEF Distinct, SlotInv, Same
<1> QED
  BY <1>1, <1>2, <1>3 DEF Same

\* XAUTOCLAIM keeps every entry but the pending ones that are trimmed.
LEMMA ReclaimedFacts ==
  ASSUME entries \subseteq Entry, SlotInv, TrimInv, NEW w \in Worker,
         Nobody \notin Worker
  PROVE  /\ Reclaimed(w) \subseteq Entry
         /\ Distinct(Reclaimed(w))
         /\ \A f \in Reclaimed(w) : f.kept /\ ~f.old /\ \E e \in entries :
              Same(e, f) /\ f.owner = IF e.old THEN w ELSE e.owner
         /\ \A e \in entries : e.kept => \E f \in Reclaimed(w) : Same(e, f)
<1> DEFINE gone == Ids({x \in entries : x.owner # Nobody /\ ~x.kept})
           moved(e) == [e EXCEPT !.owner = IF e.old THEN w ELSE @, !.old = FALSE]
<1>1. /\ Without(gone) \subseteq Entry
      /\ Distinct(Without(gone))
      /\ \A f \in Without(gone) : f.id \notin gone /\
           \E e \in entries : Same(e, f) /\ f.owner = e.owner /\ f.kept = e.kept
                              /\ f.old = e.old
      /\ \A e \in entries : e.id \notin gone => \E f \in Without(gone) : Same(e, f)
  BY WithoutFacts
<1>2. Reclaimed(w) = {moved(e) : e \in Without(gone)}
  BY DEF Reclaimed
<1>3. \A e \in Entry : /\ moved(e) \in Entry /\ Same(e, moved(e))
                      /\ moved(e).kept = e.kept /\ ~moved(e).old
                      /\ moved(e).owner = IF e.old THEN w ELSE e.owner
  BY DEF Entry, Same
<1>4. \A e \in entries : e.id \in gone <=> ~e.kept
  BY DEF Ids, SlotInv, Distinct, TrimInv
<1>5. \A e \in Without(gone) : e.kept
  BY <1>1, <1>4 DEF Same, SlotInv, Distinct, Entry
<1> HIDE DEF gone, moved
<1>6. Distinct(Reclaimed(w))
  BY <1>1, <1>2, <1>3 DEF Distinct, Same
<1>7. \A f \in Reclaimed(w) : f.kept /\ ~f.old /\ \E e \in entries :
        Same(e, f) /\ f.owner = IF e.old THEN w ELSE e.owner
  <2> TAKE f \in Reclaimed(w)
  <2>1. PICK g \in Without(gone) : f = moved(g)
    BY <1>2
  <2>2. PICK e \in entries : Same(e, g) /\ g.owner = e.owner /\ g.old = e.old
    BY <1>1
  <2> QED
    BY <1>1, <1>3, <1>5, <2>1, <2>2 DEF Same
<1>8. \A e \in entries : e.kept => \E f \in Reclaimed(w) : Same(e, f)
  <2> SUFFICES ASSUME NEW e \in entries, e.kept
               PROVE  \E f \in Reclaimed(w) : Same(e, f)
    OBVIOUS
  <2>1. PICK g \in Without(gone) : Same(e, g)
    BY <1>1, <1>4
  <2>2. moved(g) \in Reclaimed(w) /\ Same(g, moved(g))
    BY <1>1, <1>2, <1>3
  <2> QED
    BY <2>1, <2>2 DEF Same
<1> QED
  BY <1>1, <1>2, <1>3, <1>6, <1>7, <1>8

---------------------------------------------------------------------------
(* Types *)

LEMMA InitIsInductive == Init => IInv
  BY StreamAssumption DEF Init, IInv, TypeOK, SlotInv, Distinct, HandInv, SentInv,
     TrimInv, SafeInv, Hand, Free

\* What a worker holds, and what it says about the slot it holds.
LEMMA HandTypes ==
  ASSUME TypeOK, NEW w \in Worker, hand[w].pc \in {"got", "forwarded", "inline"}
  PROVE  hand[w].id \in Slot /\ hand[w].job \in Job /\ hand[w] # Free
  BY DEF TypeOK, Hand, Free

\* The fault budget.
LEMMA FaultTypes ==
  ASSUME TypeOK
  PROVE  /\ \A ok \in BOOLEAN : Redis(ok) => faults' \in 0 .. MaxFaults
         /\ \A kind : Fault(kind) => faults' \in 0 .. MaxFaults
  BY StreamAssumption DEF TypeOK, Redis, Fault

LEMMA StepTypes ==
  ASSUME IInv, Next
  PROVE  TypeOK' /\ SlotInv'
<1> USE DEF IInv
<1>0. /\ entries \subseteq Entry /\ SlotInv /\ TrimInv /\ Nobody \notin Worker
      /\ hand \in [Worker -> Hand] /\ running \in [Worker -> SUBSET Job]
      /\ sent \subseteq Job /\ answered \subseteq sent /\ lost \subseteq sent
      /\ started \subseteq sent /\ redo \subseteq sent
      /\ up \in [Worker -> BOOLEAN]
  BY StreamAssumption DEF TypeOK
<1>f. Free \in Hand
  BY DEF Hand
<1>1. ASSUME NEW j \in Job, NEW ok \in BOOLEAN, Send(j, ok)
      PROVE  TypeOK' /\ SlotInv'
  <2>1. entries' \subseteq Entry /\ Distinct(entries')
    BY <1>0, <1>1, AddedFacts DEF Send, SlotInv
  <2> QED
    BY <1>0, <1>1, <2>1, FaultTypes DEF Send, TypeOK, SlotInv, If
<1>2. ASSUME NEW w \in Worker, NEW e \in entries, ReadPending(w, e)
      PROVE  TypeOK' /\ SlotInv'
  <2> DEFINE f == [e EXCEPT !.old = FALSE]
  <2>1. f \in Entry /\ Same(e, f)
    BY <1>0 DEF Entry, Same
  <2>2. entries' = Replaced(e, f)
    BY <1>2 DEF ReadPending
  <2> HIDE DEF f
  <2>3. entries' \subseteq Entry /\ Distinct(entries')
    BY <1>0, <2>1, <2>2, ReplacedFacts
  <2>4. Got(e) \in Hand
    BY <1>0 DEF Got, Hand, Entry
  <2> QED
    BY <1>0, <1>f, <1>2, <2>3, <2>4 DEF ReadPending, TypeOK, SlotInv, history
<1>3. ASSUME NEW w \in Worker, NEW e \in entries, NEW ok \in BOOLEAN, ReadNew(w, e, ok)
      PROVE  TypeOK' /\ SlotInv'
  <2> DEFINE f == [e EXCEPT !.owner = w]
  <2>1. f \in Entry /\ Same(e, f)
    BY <1>0 DEF Entry, Same
  <2>2. entries' = Replaced(e, f)
    BY <1>3 DEF ReadNew
  <2> HIDE DEF f
  <2>3. entries' \subseteq Entry /\ Distinct(entries')
    BY <1>0, <2>1, <2>2, ReplacedFacts
  <2>4. Got(e) \in Hand
    BY <1>0 DEF Got, Hand, Entry
  <2> QED
    BY <1>0, <1>f, <1>3, <2>3, <2>4, FaultTypes DEF ReadNew, TypeOK, SlotInv, history
<1>4. ASSUME NEW w \in Worker, NEW ok \in BOOLEAN, Forward(w, ok)
      PROVE  TypeOK' /\ SlotInv'
  <2>1. hand[w].job \in Job /\ hand[w].id \in Slot /\ hand[w] # Free /\ hand[w].job \in sent
    BY <1>4, HandTypes DEF Forward, HandInv
  <2>2. entries' \subseteq Entry /\ Distinct(entries')
    BY <1>0, <1>4, <2>1, AddedFacts DEF Forward, SlotInv
  <2>3. hand' \in [Worker -> Hand]
    BY <1>0, <1>4, <2>1 DEF Forward, Hand, Free
  <2> QED
    BY <1>0, <1>4, <2>1, <2>2, <2>3, FaultTypes DEF Forward, TypeOK, SlotInv, If
<1>5. ASSUME NEW w \in Worker, NEW ok \in BOOLEAN, AckForwarded(w, ok)
      PROVE  TypeOK' /\ SlotInv'
  <2>1. hand[w].job \in sent
    BY <1>5, HandTypes DEF AckForwarded, HandInv
  <2>2. entries' \subseteq Entry /\ Distinct(entries')
    BY <1>0, <1>5, WithoutFacts DEF AckForwarded, Acked, SlotInv
  <2> QED
    BY <1>0, <1>f, <1>5, <2>1, <2>2, FaultTypes DEF AckForwarded, TypeOK, SlotInv, If
<1>6. ASSUME NEW w \in Worker, NEW ok \in BOOLEAN, Claim(w, ok)
      PROVE  TypeOK' /\ SlotInv'
  <2>1. hand[w].job \in Job /\ hand[w].id \in Slot /\ hand[w] # Free /\ hand[w].job \in sent
    BY <1>6, HandTypes DEF Claim, HandInv
  <2>2. entries' \subseteq Entry /\ Distinct(entries')
    BY <1>0, <1>6, WithoutFacts DEF Claim, Acked, SlotInv
  <2>3. hand' \in [Worker -> Hand]
    BY <1>0, <1>f, <1>6, <2>1 DEF Claim, Hand, Free
  <2>4. running' \in [Worker -> SUBSET Job]
    BY <1>0, <1>6, <2>1 DEF Claim
  <2> QED
    BY <1>0, <1>6, <2>1, <2>2, <2>3, <2>4, FaultTypes DEF Claim, TypeOK, SlotInv, If
<1>7. ASSUME NEW w \in Worker, NEW ok \in BOOLEAN, FinishInline(w, ok)
      PROVE  TypeOK' /\ SlotInv'
  <2>1. hand[w].job \in sent
    BY <1>7, HandTypes DEF FinishInline, HandInv
  <2> QED
    BY <1>0, <1>f, <1>7, <2>1, FaultTypes DEF FinishInline, Publish, TypeOK, SlotInv, If
<1>8. ASSUME NEW w \in Worker, NEW ok \in BOOLEAN, Start(w, ok)
      PROVE  TypeOK' /\ SlotInv'
  <2>1. entries' \subseteq Entry /\ Distinct(entries')
    BY <1>0, <1>8, ReclaimedFacts DEF Start, SlotInv
  <2> QED
    BY <1>0, <1>8, <2>1, FaultTypes DEF Start, TypeOK, SlotInv, history
<1>9. ASSUME NEW w \in Worker, NEW j \in running[w], NEW ok \in BOOLEAN, Finish(w, j, ok)
      PROVE  TypeOK' /\ SlotInv'
  <2>1. j \in sent
    BY DEF SentInv
  <2> QED
    BY <1>0, <1>9, <2>1, FaultTypes DEF Finish, Publish, TypeOK, SlotInv, If
<1>10. ASSUME NEW w \in Worker, Crash(w)
       PROVE  TypeOK' /\ SlotInv'
  <2>1. Runs(w) \subseteq sent /\ (hand[w].pc = "forwarded" => hand[w].job \in sent)
    BY HandTypes DEF Runs, If, SentInv, HandInv
  <2> QED
    BY <1>0, <1>f, <1>10, <2>1, FaultTypes DEF Crash, TypeOK, SlotInv, If
<1>11. ASSUME NEW w \in Worker, Autoclaim(w)
       PROVE  TypeOK' /\ SlotInv'
  <2>1. entries' \subseteq Entry /\ Distinct(entries')
    BY <1>0, <1>11, ReclaimedFacts DEF Autoclaim
  <2> QED
    BY <1>0, <1>11, <2>1 DEF Autoclaim, TypeOK, SlotInv, history
<1>12. ASSUME NEW e \in entries, Age(e)
       PROVE  TypeOK' /\ SlotInv'
  <2> DEFINE f == [e EXCEPT !.old = TRUE]
  <2>1. f \in Entry /\ Same(e, f) /\ e.job \in sent
    BY <1>0 DEF Entry, Same, SentInv
  <2>2. entries' = Replaced(e, f)
    BY <1>12 DEF Age
  <2> HIDE DEF f
  <2>3. entries' \subseteq Entry /\ Distinct(entries')
    BY <1>0, <2>1, <2>2, ReplacedFacts
  <2>4. faults' \in 0 .. MaxFaults
    BY <1>12, FaultTypes DEF Age, TypeOK
  <2> QED
    BY <1>0, <1>12, <2>1, <2>3, <2>4 DEF Age, TypeOK, SlotInv, If
<1>13. ASSUME NEW e \in entries, Trim(e)
       PROVE  TypeOK' /\ SlotInv'
  <2> DEFINE f == [e EXCEPT !.kept = FALSE]
  <2>1. f \in Entry /\ Same(e, f) /\ e.job \in sent
    BY <1>0 DEF Entry, Same, SentInv
  <2>2. entries' = Without({e.id}) \/ entries' = Replaced(e, f)
    BY <1>13 DEF Trim
  <2> HIDE DEF f
  <2>3. entries' \subseteq Entry /\ Distinct(entries')
    BY <1>0, <2>1, <2>2, ReplacedFacts, WithoutFacts
  <2> QED
    BY <1>0, <1>13, <2>1, <2>3, FaultTypes DEF Trim, TypeOK, SlotInv
<1> QED
  BY <1>1, <1>2, <1>3, <1>4, <1>5, <1>6, <1>7, <1>8, <1>9, <1>10, <1>11, <1>12, <1>13
     DEF Next

---------------------------------------------------------------------------
(* The other invariants, one operation at a time *)

\* Everything a step has to show, given what it does to the entries.
Rest == HandInv' /\ SentInv' /\ TrimInv' /\ SafeInv'

\* A job that was safe stays so when what made it safe is still there.
LEMMA StaysSafe ==
  ASSUME IInv, TypeOK', \A j \in sent' : j \in sent \/ Safe(j)',
         answered \cup lost \subseteq answered' \cup lost',
         \A j \in sent : Running(j) => Safe(j)',
         \A e \in entries : ~SendsBack(e) => Safe(e.job)'
  PROVE  SafeInv'
  BY DEF IInv, SafeInv, Safe

LEMMA SendKeeps ==
  ASSUME IInv, TypeOK', NEW j \in Job, NEW ok \in BOOLEAN, Send(j, ok)
  PROVE  Rest
<1> USE DEF IInv
<1>1. PICK n : /\ ok => entries' = entries \cup {n}
               /\ n.id \in Unused /\ n.job = j /\ n.owner = Nobody /\ n.kept
  BY AddedFacts DEF Send, TypeOK
<1>2. /\ ~ok => entries' = entries /\ j \in lost'
      /\ sent' = sent \cup {j} /\ hand' = hand /\ running' = running
      /\ lost \subseteq lost' /\ answered' = answered
  BY DEF Send, If
<1>3. \A w \in Worker : Holding(w) => hand[w].id # n.id
  BY <1>1 DEF Unused, Held, Holding, If
<1>4. HandInv'
  BY <1>1, <1>2, <1>3 DEF HandInv, Holding
<1>5. SentInv'
  BY <1>1, <1>2 DEF SentInv
<1>6. TrimInv'
  BY <1>1, <1>2 DEF TrimInv
<1>7. \A i : Running(i) => Running(i)'
  BY <1>2 DEF Running, Runs, If
<1>8. \A e \in entries : SendsBack(e)' => SendsBack(e)
  BY <1>2 DEF SendsBack
<1>9. \A e \in entries : ~SendsBack(e) => Safe(e.job)'
  BY <1>1, <1>2, <1>8 DEF Safe
<1>10. ok => ~SendsBack(n)'
  BY <1>2, <1>3 DEF SendsBack, Holding
<1>11. Safe(j)'
  BY <1>1, <1>2, <1>10 DEF Safe
<1>12. SafeInv'
  BY <1>2, <1>7, <1>9, <1>11, StaysSafe DEF Safe
<1> QED
  BY <1>4, <1>5, <1>6, <1>12 DEF Rest

\* The two reads take an entry into an empty hand.
LEMMA ReadKeeps ==
  ASSUME IInv, TypeOK', NEW w \in Worker, NEW e \in entries, NEW f \in Entry,
         Same(e, f), f.kept = e.kept, f.owner # Nobody, hand[w] = Free,
         entries' = Replaced(e, f),
         hand' = [hand EXCEPT ![w] = Got(e)] \/ hand' = [hand EXCEPT ![w] = Free],
         UNCHANGED <<running, sent, answered, lost>>
  PROVE  Rest
<1> USE DEF IInv
<1>1. /\ \A x \in entries' : x = f \/ x \in entries
      /\ \A x \in entries : \E y \in entries' : Same(x, y)
  BY ReplacedFacts DEF TypeOK
<1>2. \A v \in Worker : v # w => hand'[v] = hand[v]
  BY DEF TypeOK
<1>3. hand'[w] = Got(e) \/ hand'[w] = Free
  BY DEF TypeOK
<1>4. HandInv'
  <2> SUFFICES ASSUME NEW v \in Worker, hand'[v] # Free
               PROVE  /\ hand'[v].job \in sent'
                      /\ Holding(v)' => \A x \in entries' :
                           x.id = hand'[v].id => x.job = hand'[v].job
    BY DEF HandInv
  <2>1. CASE v = w
    BY <1>1, <1>3, <2>1 DEF Got, Same, SlotInv, Distinct, SentInv
  <2>2. CASE v # w
    BY <1>1, <1>2, <2>2 DEF HandInv, Holding, Same
  <2> QED
    BY <2>1, <2>2
<1>5. SentInv'
  BY <1>1 DEF SentInv, Same
<1>6. TrimInv'
  BY <1>1 DEF TrimInv, Same
<1>7. \A j : Running(j) => Running(j)'
  BY <1>2 DEF Running, Runs, If, Free
<1>8. \A x, y : SendsBack(y)' /\ Same(x, y) => SendsBack(x)
  BY <1>2, <1>3 DEF SendsBack, Same, Got, Free
<1>9. \A x \in entries : ~SendsBack(x) => Safe(x.job)'
  BY <1>1, <1>8 DEF Safe, Same
<1>10. SafeInv'
  BY <1>7, <1>9, StaysSafe DEF Safe
<1> QED
  BY <1>4, <1>5, <1>6, <1>10 DEF Rest

LEMMA ForwardKeeps ==
  ASSUME IInv, TypeOK', NEW w \in Worker, NEW ok \in BOOLEAN, Forward(w, ok)
  PROVE  Rest
<1> USE DEF IInv
<1>j. PICK j \in Job : j = hand[w].job
  BY HandTypes DEF Forward
<1>0. hand[w].id \in Slot /\ hand[w] # Free /\ j \in sent
  BY <1>j, HandTypes DEF Forward, HandInv
<1>1. PICK n : /\ ok => entries' = entries \cup {n}
               /\ n.id \in Unused /\ n.job = j /\ n.owner = Nobody /\ n.kept
  BY <1>j, AddedFacts DEF Forward, TypeOK
<1>2. /\ ~ok => entries' = entries /\ j \in lost'
      /\ sent' = sent /\ running' = running
      /\ lost \subseteq lost' /\ answered' = answered
  BY <1>j DEF Forward, If
<1>3. /\ \A v \in Worker : v # w => hand'[v] = hand[v]
      /\ hand[w].pc = "got" /\ hand'[w].pc = "forwarded"
      /\ hand'[w].id = hand[w].id /\ hand'[w].job = j
  BY <1>j, <1>0 DEF Forward, TypeOK, Hand, Free
<1>4. \A v \in Worker : Holding(v) => hand[v].id # n.id
  BY <1>1 DEF Unused, Held, Holding, If
<1>5. HandInv'
  <2> SUFFICES ASSUME NEW v \in Worker, hand'[v] # Free
               PROVE  /\ hand'[v].job \in sent'
                      /\ Holding(v)' => \A x \in entries' :
                           x.id = hand'[v].id => x.job = hand'[v].job
    BY DEF HandInv
  <2>1. hand[v] # Free /\ hand'[v].id = hand[v].id /\ hand'[v].job = hand[v].job
    BY <1>j, <1>0, <1>3
  <2>2. Holding(v)' => Holding(v)
    BY <1>3 DEF Holding
  <2> QED
    BY <1>1, <1>2, <1>4, <2>1, <2>2 DEF HandInv
<1>6. SentInv'
  BY <1>0, <1>1, <1>2 DEF SentInv
<1>7. TrimInv'
  BY <1>1, <1>2 DEF TrimInv
<1>8. \A i : Running(i) => Running(i)'
  BY <1>2, <1>3 DEF Running, Runs, If
<1>9. ok => ~SendsBack(n)'
  BY <1>3, <1>4 DEF SendsBack, Holding
<1>10. Safe(j)'
  BY <1>1, <1>2, <1>9 DEF Safe
<1>11. \A e \in entries : ~SendsBack(e) => Safe(e.job)'
  <2> SUFFICES ASSUME NEW e \in entries, ~SendsBack(e), e.job # j PROVE Safe(e.job)'
    BY <1>10
  <2>1. e.id # hand[w].id
    BY <1>j, <1>0, <1>3 DEF HandInv, Holding
  <2>2. ~SendsBack(e)'
    BY <1>3, <2>1 DEF SendsBack
  <2> QED
    BY <1>1, <1>2, <2>2 DEF Safe
<1>12. SafeInv'
  BY <1>2, <1>8, <1>11, StaysSafe DEF Safe
<1> QED
  BY <1>5, <1>6, <1>7, <1>12 DEF Rest

\* Acknowledging takes at most the entry in w's hand, whose job the caller
\* shows to be safe without it.
LEMMA AckKeeps ==
  ASSUME IInv, TypeOK', NEW w \in Worker, NEW ok \in BOOLEAN, Holding(w),
         NEW j \in Job, j = hand[w].job,
         entries' = Acked(w, ok),
         \A v \in Worker : v # w => hand'[v] = hand[v],
         hand'[w] = Free \/ hand'[w] = [pc |-> "inline", id |-> hand[w].id,
                                        job |-> hand[w].job],
         \A v \in Worker : /\ running[v] \subseteq running'[v]
                           /\ running'[v] \subseteq running[v] \cup {hand[w].job},
         UNCHANGED <<sent, answered, lost>>,
         \/ Safe(j)'
         \/ hand[w].pc = "forwarded"
  PROVE  Rest
<1> USE DEF IInv
<1>0. hand[w].id \in Slot /\ hand[w] # Free /\ hand[w].job \in sent
  BY HandTypes DEF Holding, HandInv
<1>1. /\ \A f \in entries' : \E e \in entries :
           Same(e, f) /\ f.owner = e.owner /\ f.kept = e.kept
      /\ \A e \in entries : e.id # hand[w].id => \E f \in entries' : Same(e, f)
  BY WithoutFacts DEF Acked, TypeOK, Same
<1>2. HandInv'
  <2> SUFFICES ASSUME NEW v \in Worker, hand'[v] # Free
               PROVE  /\ hand'[v].job \in sent'
                      /\ Holding(v)' => \A x \in entries' :
                           x.id = hand'[v].id => x.job = hand'[v].job
    BY DEF HandInv
  <2>1. CASE v = w
    BY <1>0, <2>1 DEF Holding
  <2>2. CASE v # w
    BY <1>1, <2>2 DEF HandInv, Holding, Same
  <2> QED
    BY <2>1, <2>2
<1>3. SentInv'
  BY <1>0, <1>1 DEF SentInv, Same
<1>4. TrimInv'
  BY <1>1 DEF TrimInv, Same
<1>5. \A i : Running(i) => Running(i)'
  BY DEF Running, Runs, If, Holding
<1>6. \A x, y : SendsBack(y)' /\ Same(x, y) => SendsBack(x)
  BY DEF SendsBack, Same, Free
<1>7. \A x \in entries : ~SendsBack(x) => Safe(x.job)'
  <2> SUFFICES ASSUME NEW x \in entries, ~SendsBack(x) PROVE Safe(x.job)'
    OBVIOUS
  <2>1. CASE x.id # hand[w].id
    BY <1>1, <1>6, <2>1 DEF Safe, Same
  <2>2. CASE x.id = hand[w].id
    BY <1>0, <2>2 DEF HandInv, Holding, SendsBack
  <2> QED
    BY <2>1, <2>2
<1>8. SafeInv'
  BY <1>5, <1>7, StaysSafe DEF Safe
<1> QED
  BY <1>2, <1>3, <1>4, <1>8 DEF Rest

\* Hands that let go of what they hold, runs that end: the stream is left alone.
LEMMA EndKeeps ==
  ASSUME IInv, TypeOK', UNCHANGED <<entries, sent>>,
         lost \subseteq lost', answered \subseteq answered',
         \A w \in Worker : running'[w] \subseteq running[w],
         \A w \in Worker : hand'[w] = hand[w] \/ hand'[w] = Free,
         \A w \in Worker : \A j \in Runs(w) : j \in Runs(w)' \cup answered' \cup lost'
  PROVE  Rest
<1> USE DEF IInv
<1>1. HandInv'
  BY DEF HandInv, Holding
<1>2. SentInv' /\ TrimInv'
  BY DEF SentInv, TrimInv
<1>3. \A j \in sent : Running(j) => Safe(j)'
  BY DEF Running, Safe
<1>4. \A e \in entries : SendsBack(e)' => SendsBack(e)
  BY DEF SendsBack, Free
<1>5. \A e \in entries : ~SendsBack(e) => Safe(e.job)'
  BY <1>4 DEF Safe
<1>6. SafeInv'
  BY <1>3, <1>5, StaysSafe
<1> QED
  BY <1>1, <1>2, <1>6 DEF Rest

\* Reclaiming, ageing and trimming: no hand moves, and the entries that go have
\* their job recorded as lost.
LEMMA StreamKeeps ==
  ASSUME IInv, TypeOK', UNCHANGED <<hand, running, sent, answered>>,
         lost \subseteq lost',
         \A f \in entries' : \E e \in entries : Same(e, f),
         \A e \in entries : e.job \in lost' \/ \E f \in entries' : Same(e, f),
         TrimInv'
  PROVE  Rest
<1> USE DEF IInv
<1>1. HandInv'
  BY DEF HandInv, Holding, Same
<1>2. SentInv'
  BY DEF SentInv, Same
<1>3. \A j : Running(j) => Running(j)'
  BY DEF Running, Runs, If
<1>4. \A x, y : SendsBack(y)' /\ Same(x, y) => SendsBack(x)
  BY DEF SendsBack, Same
<1>5. \A e \in entries : ~SendsBack(e) => Safe(e.job)'
  BY <1>4 DEF Safe, Same
<1>6. SafeInv'
  BY <1>3, <1>5, StaysSafe DEF Safe
<1> QED
  BY <1>1, <1>2, <1>6 DEF Rest

LEMMA ReclaimKeeps ==
  ASSUME IInv, TypeOK', NEW w \in Worker, entries' = Reclaimed(w) \/ entries' = entries,
         UNCHANGED <<hand, running, sent, answered, lost>>
  PROVE  Rest
<1> USE DEF IInv
<1>1. CASE entries' = entries
  BY <1>1, StreamKeeps DEF Same, TrimInv
<1>2. CASE entries' = Reclaimed(w)
  <2>1. /\ \A f \in entries' : f.kept /\ \E e \in entries : Same(e, f)
        /\ \A e \in entries : e.kept => \E f \in entries' : Same(e, f)
    BY <1>2, ReclaimedFacts, StreamAssumption DEF TypeOK
  <2>2. TrimInv'
    BY <2>1 DEF TrimInv
  <2>3. \A e \in entries : ~e.kept => e.job \in lost'
    BY DEF TrimInv
  <2> QED
    BY <2>1, <2>2, <2>3, StreamKeeps
<1> QED
  BY <1>1, <1>2

LEMMA TimeKeeps ==
  ASSUME IInv, TypeOK', NEW e \in entries, Age(e) \/ Trim(e)
  PROVE  Rest
<1> USE DEF IInv
<1>1. CASE Age(e)
  <2> DEFINE f == [e EXCEPT !.old = TRUE]
  <2>1. f \in Entry /\ Same(e, f) /\ f.kept = e.kept /\ f.owner = e.owner
    BY DEF Entry, Same, TypeOK
  <2>2. entries' = Replaced(e, f)
    BY <1>1 DEF Age
  <2> HIDE DEF f
  <2>3. /\ \A x \in entries' : x = f \/ x \in entries
        /\ \A x \in entries : \E y \in entries' : Same(x, y)
    BY <2>1, <2>2, ReplacedFacts DEF TypeOK
  <2>4. TrimInv'
    BY <1>1, <2>1, <2>3 DEF Age, TrimInv, Same
  <2>5. \A x \in entries' : \E y \in entries : Same(y, x)
    BY <2>1, <2>3 DEF Same
  <2> QED
    BY <1>1, <2>3, <2>4, <2>5, StreamKeeps DEF Age
<1>2. CASE Trim(e) /\ e.owner = Nobody
  <2>1. /\ \A x \in entries' : \E y \in entries :
             Same(y, x) /\ x.owner = y.owner /\ x.kept = y.kept
        /\ \A x \in entries : x.id # e.id => \E y \in entries' : Same(x, y)
    BY <1>2, WithoutFacts DEF Trim, TypeOK
  <2>2. TrimInv'
    <3>1. lost \subseteq lost'
      BY <1>2 DEF Trim
    <3> QED
      BY <2>1, <3>1 DEF TrimInv, Same
  <2>3. \A x \in entries : x.job \in lost' \/ \E y \in entries' : Same(x, y)
    BY <1>2, <2>1 DEF Trim, SlotInv, Distinct
  <2> QED
    BY <1>2, <2>1, <2>2, <2>3, StreamKeeps DEF Trim
<1>3. CASE Trim(e) /\ e.owner # Nobody
  <2> DEFINE f == [e EXCEPT !.kept = FALSE]
  <2>1. f \in Entry /\ Same(e, f) /\ f.owner = e.owner
    BY DEF Entry, Same, TypeOK
  <2>2. entries' = Replaced(e, f)
    BY <1>3 DEF Trim
  <2> HIDE DEF f
  <2>3. /\ \A x \in entries' : x = f \/ x \in entries
        /\ \A x \in entries : \E y \in entries' : Same(x, y)
    BY <2>1, <2>2, ReplacedFacts DEF TypeOK
  <2>4. TrimInv'
    BY <1>3, <2>1, <2>3 DEF Trim, TrimInv, Same
  <2>5. \A x \in entries' : \E y \in entries : Same(y, x)
    BY <2>1, <2>3 DEF Same
  <2> QED
    BY <1>3, <2>3, <2>4, <2>5, StreamKeeps DEF Trim
<1> QED
  BY <1>1, <1>2, <1>3

---------------------------------------------------------------------------
(* The step, and the theorems *)

LEMMA StepKeeps ==
  ASSUME IInv, Next
  PROVE  IInv'
<1> USE DEF IInv
<1>0. TypeOK' /\ SlotInv'
  BY StepTypes
<1>t. /\ entries \subseteq Entry /\ hand \in [Worker -> Hand]
      /\ running \in [Worker -> SUBSET Job]
      /\ answered \subseteq sent /\ lost \subseteq sent /\ Nobody \notin Worker
  BY StreamAssumption DEF TypeOK
<1>1. ASSUME NEW j \in Job, NEW ok \in BOOLEAN, Send(j, ok)
      PROVE  Rest
  BY <1>0, <1>1, SendKeeps
<1>2. ASSUME NEW w \in Worker, NEW e \in entries, ReadPending(w, e)
      PROVE  Rest
  <2> DEFINE f == [e EXCEPT !.old = FALSE]
  <2>1. f \in Entry /\ Same(e, f) /\ f.kept = e.kept /\ f.owner = w
    BY <1>t, <1>2 DEF Entry, Same, ReadPending, Pel, First
  <2>2. /\ entries' = Replaced(e, f) /\ hand[w] = Free
        /\ hand' = [hand EXCEPT ![w] = Got(e)] \/ hand' = [hand EXCEPT ![w] = Free]
        /\ UNCHANGED <<running, sent, answered, lost>>
    BY <1>2 DEF ReadPending, Polls, history
  <2> HIDE DEF f
  <2> QED
    BY <1>0, <1>t, <2>1, <2>2, ReadKeeps
<1>3. ASSUME NEW w \in Worker, NEW e \in entries, NEW ok \in BOOLEAN, ReadNew(w, e, ok)
      PROVE  Rest
  <2> DEFINE f == [e EXCEPT !.owner = w]
  <2>1. f \in Entry /\ Same(e, f) /\ f.kept = e.kept /\ f.owner = w
    BY <1>t DEF Entry, Same
  <2>2. /\ entries' = Replaced(e, f) /\ hand[w] = Free
        /\ hand' = [hand EXCEPT ![w] = Got(e)] \/ hand' = [hand EXCEPT ![w] = Free]
        /\ UNCHANGED <<running, sent, answered, lost>>
    BY <1>3 DEF ReadNew, Polls, history
  <2> HIDE DEF f
  <2> QED
    BY <1>0, <1>t, <2>1, <2>2, ReadKeeps
<1>4. ASSUME NEW w \in Worker, NEW ok \in BOOLEAN, Forward(w, ok)
      PROVE  Rest
  BY <1>0, <1>4, ForwardKeeps
<1>5. ASSUME NEW w \in Worker, NEW ok \in BOOLEAN, AckForwarded(w, ok)
      PROVE  Rest
  <2>1. PICK j \in Job : j = hand[w].job
    BY <1>5, HandTypes DEF AckForwarded
  <2>2. /\ Holding(w) /\ hand[w].pc = "forwarded" /\ entries' = Acked(w, ok)
        /\ UNCHANGED <<running, sent, answered, lost>>
    BY <1>5 DEF AckForwarded, Holding
  <2>3. hand'[w] = Free /\ \A v \in Worker : v # w => hand'[v] = hand[v]
    BY <1>t, <1>5 DEF AckForwarded
  <2> QED
    BY <1>0, <2>1, <2>2, <2>3, AckKeeps
<1>6. ASSUME NEW w \in Worker, NEW ok \in BOOLEAN, Claim(w, ok)
      PROVE  Rest
  <2>1. PICK j \in Job : j = hand[w].job
    BY <1>6, HandTypes DEF Claim
  <2>2. /\ Holding(w) /\ hand[w].pc = "got" /\ entries' = Acked(w, ok)
        /\ UNCHANGED <<sent, answered, lost>>
    BY <1>6 DEF Claim, Holding
  <2>3. hand[w] = [pc |-> "got", id |-> hand[w].id, job |-> j]
    BY <1>t, <2>1, <2>2 DEF Hand, Free
  <2>4. CASE j \in Inline
    <3>1. hand' = [hand EXCEPT ![w].pc = "inline"] /\ running' = running
      BY <1>6, <2>1, <2>4 DEF Claim
    <3>2. hand'[w] = [pc |-> "inline", id |-> hand[w].id, job |-> hand[w].job]
      BY <1>t, <2>1, <2>3, <3>1
    <3>3. \A v \in Worker : v # w => hand'[v] = hand[v]
      BY <1>t, <3>1
    <3>4. Safe(j)'
      BY <2>1, <3>2 DEF Safe, Running, Runs, If
    <3> QED
      BY <1>0, <2>1, <2>2, <3>1, <3>2, <3>3, <3>4, AckKeeps
  <2>5. CASE j \notin Inline
    <3>1. hand' = [hand EXCEPT ![w] = Free] /\ running' = [running EXCEPT ![w] = @ \cup {j}]
      BY <1>6, <2>1, <2>5 DEF Claim
    <3>2. hand'[w] = Free /\ \A v \in Worker : v # w => hand'[v] = hand[v]
      BY <1>t, <3>1
    <3>3. \A v \in Worker : /\ running[v] \subseteq running'[v]
                            /\ running'[v] \subseteq running[v] \cup {hand[w].job}
      BY <1>t, <2>1, <3>1
    <3>4. Safe(j)'
      BY <1>t, <3>1 DEF Safe, Running, Runs
    <3> QED
      BY <1>0, <2>1, <2>2, <3>2, <3>3, <3>4, AckKeeps
  <2> QED
    BY <2>4, <2>5
<1>7. ASSUME NEW w \in Worker, NEW ok \in BOOLEAN, FinishInline(w, ok)
      PROVE  Rest
  <2>1. /\ \A v \in Worker : hand'[v] = IF v = w THEN Free ELSE hand[v]
        /\ running' = running /\ hand[w].pc = "inline"
        /\ lost \subseteq lost' /\ answered \subseteq answered'
        /\ hand[w].job \in answered' \cup lost'
        /\ UNCHANGED <<entries, sent>>
    BY <1>t, <1>7 DEF FinishInline, Publish, If
  <2>2. \A v \in Worker : \A j \in Runs(v) : j \in Runs(v)' \cup answered' \cup lost'
    BY <2>1 DEF Runs, If
  <2> QED
    BY <1>0, <2>1, <2>2, EndKeeps
<1>8. ASSUME NEW w \in Worker, NEW ok \in BOOLEAN, Start(w, ok)
      PROVE  Rest
  BY <1>0, <1>8, ReclaimKeeps DEF Start, history
<1>9. ASSUME NEW w \in Worker, NEW j \in running[w], NEW ok \in BOOLEAN, Finish(w, j, ok)
      PROVE  Rest
  <2>1. /\ \A v \in Worker : running'[v] = IF v = w THEN running[v] \ {j} ELSE running[v]
        /\ hand' = hand
        /\ lost \subseteq lost' /\ answered \subseteq answered'
        /\ j \in answered' \cup lost'
        /\ UNCHANGED <<entries, sent>>
    BY <1>t, <1>9 DEF Finish, Publish, If
  <2>2. \A v \in Worker : \A i \in Runs(v) : i \in Runs(v)' \cup answered' \cup lost'
    BY <2>1 DEF Runs, If
  <2> QED
    BY <1>0, <2>1, <2>2, EndKeeps
<1>10. ASSUME NEW w \in Worker, Crash(w)
       PROVE  Rest
  <2>1. /\ \A v \in Worker : hand'[v] = IF v = w THEN Free ELSE hand[v]
        /\ \A v \in Worker : running'[v] = IF v = w THEN {} ELSE running[v]
        /\ lost' = lost \cup Runs(w) /\ answered' = answered
        /\ UNCHANGED <<entries, sent>>
    BY <1>t, <1>10 DEF Crash
  <2>2. \A v \in Worker : \A i \in Runs(v) : i \in Runs(v)' \cup answered' \cup lost'
    BY <2>1 DEF Runs, If
  <2> QED
    BY <1>0, <2>1, <2>2, EndKeeps
<1>11. ASSUME NEW w \in Worker, Autoclaim(w)
       PROVE  Rest
  BY <1>0, <1>11, ReclaimKeeps DEF Autoclaim, history
<1>12. ASSUME NEW e \in entries, Age(e) \/ Trim(e)
       PROVE  Rest
  BY <1>0, <1>12, TimeKeeps
<1>13. Rest
  BY <1>1, <1>2, <1>3, <1>4, <1>5, <1>6, <1>7, <1>8, <1>9, <1>10, <1>11, <1>12
     DEF Next
<1> QED
  BY <1>0, <1>13 DEF Rest

\* The strengthened invariant holds in every reachable state.
THEOREM Invariance == Spec => []IInv
<1>1. IInv /\ UNCHANGED vars => IInv'
  <2> SUFFICES ASSUME IInv, UNCHANGED vars PROVE IInv'
    OBVIOUS
  <2>1. UNCHANGED <<entries, hand, running, up, sent, answered, faults, lost, started, redo>>
    BY DEF vars
  <2>2. \A j : Running(j) => Running(j)'
    BY <2>1 DEF Running, Runs, If
  <2>3. \A e : SendsBack(e)' <=> SendsBack(e)
    BY <2>1 DEF SendsBack
  <2>4. SafeInv'
    BY <2>1, <2>2, <2>3 DEF IInv, SafeInv, Safe
  <2> QED
    BY <2>1, <2>4 DEF IInv, TypeOK, SlotInv, Distinct, HandInv, Holding, SentInv, TrimInv
<1> QED
  BY <1>1, InitIsInductive, StepKeeps, PTL DEF Spec

\* Every variable of the stream, the workers and the server keeps its type.
THEOREM TypeCorrect == Spec => []TypeOK
  BY Invariance, PTL DEF IInv

\* The stream loses no job by itself: one that was sent is answered, is run or
\* is in the stream, or one of the faults that the code does not guard against
\* has hit it.
THEOREM NoSilentLoss == Spec => []JobsAccounted
<1>1. IInv => JobsAccounted
  BY DEF IInv, SafeInv, Safe, JobsAccounted, InStream
<1> QED
  BY <1>1, Invariance, PTL

---------------------------------------------------------------------------
(* A job is started once.                                                   *)
(*                                                                          *)
(* A token of a job is a slot by which it may still be started: that of an  *)
(* entry that no worker is about to acknowledge as sent back, or that of a  *)
(* hand that has read the job.  Without a fault a job has one token until   *)
(* it is started and none after that, because what a worker holds stays in  *)
(* its own pending list.                                                    *)

Token(i, j) ==
  \/ \E e \in entries : e.id = i /\ e.job = j /\ ~SendsBack(e)
  \/ \E w \in Worker : hand[w].pc = "got" /\ hand[w].id = i /\ hand[w].job = j

OwnInv ==
  \A w \in Worker : Holding(w) /\ hand[w].job \notin redo =>
    /\ \A e \in entries : e.id = hand[w].id => e.owner = w /\ ~e.old
    /\ \A v \in Worker : Holding(v) /\ hand[v].id = hand[w].id => v = w
OnceInv ==
  \A j \in sent \ redo : \A i : Token(i, j) =>
    /\ j \notin started
    /\ \A k : Token(k, j) => k = i

YoungInv == \A e \in entries : e.owner = Nobody => ~e.old

Once == IInv /\ YoungInv /\ OwnInv /\ OnceInv

\* A step that makes no token and starts no job keeps OnceInv.
LEMMA NoNewToken ==
  ASSUME OnceInv, redo \subseteq redo', started' = started, sent' = sent,
         \A j \in sent \ redo' : \A i : Token(i, j)' => Token(i, j)
  PROVE  OnceInv'
  BY DEF OnceInv

\* What a worker is about to acknowledge as sent back is in its own list.
LEMMA SentBackIsOwned ==
  ASSUME Once, NEW e \in entries, e.job \notin redo, SendsBack(e)
  PROVE  \E v \in Worker : hand[v].pc = "forwarded" /\ hand[v].id = e.id /\ e.owner = v
<1>1. PICK v \in Worker : hand[v].pc = "forwarded" /\ hand[v].id = e.id
  BY DEF SendsBack
<1>2. Holding(v) /\ hand[v] # Free /\ hand[v].job = e.job
  BY <1>1, HandTypes DEF Once, IInv, HandInv, Holding
<1> QED
  BY <1>1, <1>2 DEF Once, OwnInv

LEMMA SendOnce ==
  ASSUME Once, TypeOK', NEW j \in Job, NEW ok \in BOOLEAN, Send(j, ok)
  PROVE  OwnInv' /\ OnceInv'
<1> USE DEF Once, IInv
<1>1. PICK n : /\ ok => entries' = entries \cup {n}
               /\ n.id \in Unused /\ n.job = j /\ n.owner = Nobody /\ n.kept
  BY AddedFacts DEF Send, TypeOK
<1>2. /\ ~ok => entries' = entries
      /\ sent' = sent \cup {j} /\ j \notin sent /\ UNCHANGED <<hand, started, redo>>
  BY DEF Send
<1>3. \A w \in Worker : Holding(w) => hand[w].id # n.id
  BY <1>1 DEF Unused, Held, Holding, If
<1>4. OwnInv'
  BY <1>1, <1>2, <1>3 DEF OwnInv, Holding
<1>5. \A e : SendsBack(e)' <=> SendsBack(e)
  BY <1>2 DEF SendsBack
<1>6. \A i : ~Token(i, j)
  <2>1. \A e \in entries : e.job # j
    BY <1>2 DEF SentInv
  <2>2. \A w \in Worker : hand[w].pc = "got" => hand[w].job # j
    BY <1>2, HandTypes DEF HandInv
  <2> QED
    BY <2>1, <2>2 DEF Token
<1>7. \A i : Token(i, j)' => i = n.id
  BY <1>1, <1>2, <1>5, <1>6 DEF Token
<1>8. \A k, i : k # j /\ Token(i, k)' => Token(i, k)
  BY <1>1, <1>2, <1>5 DEF Token
<1>9. j \notin started
  BY <1>2 DEF TypeOK
<1> QED
  BY <1>2, <1>4, <1>7, <1>8, <1>9 DEF OnceInv

LEMMA ReadOnce ==
  ASSUME Once, TypeOK', NEW w \in Worker, NEW e \in entries, NEW f \in Entry,
         Same(e, f), f.owner = w, ~f.old, e.owner \in {w, Nobody}, hand[w] = Free,
         entries' = Replaced(e, f),
         hand' = [hand EXCEPT ![w] = Got(e)] \/ hand' = [hand EXCEPT ![w] = Free],
         UNCHANGED <<sent, started, redo>>
  PROVE  OwnInv' /\ OnceInv'
<1> USE DEF Once, IInv
<1>1. /\ \A x \in entries' : x = f \/ x \in entries
      /\ Distinct(entries') /\ f \in entries'
  BY ReplacedFacts DEF TypeOK, Replaced
<1>2. /\ \A v \in Worker : v # w => hand'[v] = hand[v]
      /\ hand'[w] = Got(e) \/ hand'[w] = Free
      /\ Nobody \notin Worker
  BY StreamAssumption DEF TypeOK
<1>3. \A x, y : Same(x, y) => (SendsBack(y)' <=> SendsBack(x))
  BY <1>2 DEF SendsBack, Same, Got, Free
<1>4. e.job \notin redo => \A v \in Worker : v # w => ~(Holding(v) /\ hand[v].id = e.id)
  <2> SUFFICES ASSUME e.job \notin redo, NEW v \in Worker, v # w, Holding(v), hand[v].id = e.id
               PROVE  FALSE
    OBVIOUS
  <2>1. hand[v] # Free /\ hand[v].job = e.job
    BY HandTypes DEF Holding, HandInv
  <2> QED
    BY <1>2, <2>1 DEF OwnInv
<1>5. OwnInv'
  <2> SUFFICES ASSUME NEW v \in Worker, Holding(v)', hand'[v].job \notin redo'
               PROVE  /\ \A x \in entries' : x.id = hand'[v].id => x.owner = v /\ ~x.old
                      /\ \A u \in Worker : Holding(u)' /\ hand'[u].id = hand'[v].id => u = v
    BY DEF OwnInv
  <2>1. CASE v = w
    <3>1. hand'[w] = Got(e)
      BY <1>2, <2>1 DEF Holding, Free
    <3>2. \A x \in entries' : x.id = e.id => x = f
      BY <1>1 DEF Distinct, Same
    <3> QED
      BY <1>2, <1>4, <2>1, <3>1, <3>2 DEF Got, Holding
  <2>2. CASE v # w
    <3>1. Holding(v) /\ hand'[v] = hand[v] /\ hand[v].job \notin redo
      BY <1>2, <2>2 DEF Holding
    <3>2. hand[v].id # e.id
      <4> SUFFICES ASSUME hand[v].id = e.id PROVE FALSE
        OBVIOUS
      <4>1. e.job = hand[v].job
        BY <3>1, HandTypes DEF Holding, HandInv
      <4> QED
        BY <1>4, <2>2, <3>1, <4>1
    <3>3. \A x \in entries' : x.id = hand'[v].id => x.owner = v /\ ~x.old
      BY <1>1, <3>1, <3>2 DEF OwnInv, Same
    <3>4. \A u \in Worker : Holding(u)' /\ hand'[u].id = hand'[v].id => u = v
      BY <1>2, <3>1, <3>2 DEF OwnInv, Holding, Got, Free
    <3> QED
      BY <3>3, <3>4
  <2> QED
    BY <2>1, <2>2
<1>6. e.job \notin redo => ~SendsBack(e)
  BY <1>2, SentBackIsOwned DEF Free
<1>7. \A j \in sent \ redo' : \A i : Token(i, j)' => Token(i, j)
  <2> SUFFICES ASSUME NEW j \in sent \ redo, NEW i, Token(i, j)' PROVE Token(i, j)
    OBVIOUS
  <2>1. CASE \E x \in entries' : x.id = i /\ x.job = j /\ ~SendsBack(x)'
    BY <1>1, <1>3, <2>1 DEF Token, Same
  <2>2. CASE \E v \in Worker : hand'[v].pc = "got" /\ hand'[v].id = i /\ hand'[v].job = j
    BY <1>2, <1>6, <2>2 DEF Token, Got, Free
  <2> QED
    BY <2>1, <2>2 DEF Token
<1> QED
  BY <1>5, <1>7, NoNewToken

LEMMA ForwardOnce ==
  ASSUME Once, TypeOK', NEW w \in Worker, NEW ok \in BOOLEAN, Forward(w, ok)
  PROVE  OwnInv' /\ OnceInv'
<1> USE DEF Once, IInv
<1>j. PICK j \in Job : j = hand[w].job
  BY HandTypes DEF Forward
<1>0. hand[w].id \in Slot /\ hand[w] # Free /\ j \in sent
  BY <1>j, HandTypes DEF Forward, HandInv
<1>1. PICK n : /\ ok => entries' = entries \cup {n}
               /\ n.id \in Unused /\ n.job = j /\ n.owner = Nobody /\ n.kept
  BY <1>j, AddedFacts DEF Forward, TypeOK
<1>2. /\ ~ok => entries' = entries
      /\ UNCHANGED <<sent, started, redo>>
  BY DEF Forward
<1>3. /\ \A v \in Worker : v # w => hand'[v] = hand[v]
      /\ hand[w].pc = "got" /\ hand'[w].pc = "forwarded"
      /\ hand'[w].id = hand[w].id /\ hand'[w].job = j
  BY <1>j, <1>0 DEF Forward, TypeOK, Hand, Free
<1>4. \A v \in Worker : Holding(v) => hand[v].id # n.id
  BY <1>1 DEF Unused, Held, Holding, If
<1>5. \A v \in Worker : /\ Holding(v)' <=> Holding(v)
                        /\ hand'[v].id = hand[v].id /\ hand'[v].job = hand[v].job
  BY <1>j, <1>3 DEF Holding
<1>6. OwnInv'
  BY <1>1, <1>2, <1>4, <1>5 DEF OwnInv
<1>7. \A x \in entries : SendsBack(x)' <=> SendsBack(x) \/ x.id = hand[w].id
  BY <1>3 DEF SendsBack
<1>8. Token(hand[w].id, j)
  BY <1>j, <1>3 DEF Token
<1>9. ASSUME NEW i, Token(i, j)', j \notin redo
      PROVE  i = n.id
  <2>1. CASE \E x \in entries : x.id = i /\ x.job = j /\ ~SendsBack(x)'
    <3>1. PICK x \in entries : x.id = i /\ x.job = j /\ ~SendsBack(x)'
      BY <2>1
    <3>2. Token(i, j) /\ i # hand[w].id
      BY <1>7, <3>1 DEF Token
    <3> QED
      BY <1>0, <1>8, <1>9, <3>2 DEF OnceInv
  <2>2. CASE \E v \in Worker : hand'[v].pc = "got" /\ hand'[v].id = i /\ hand'[v].job = j
    <3>1. PICK v \in Worker : hand'[v].pc = "got" /\ hand'[v].id = i /\ hand'[v].job = j
      BY <2>2
    <3>2. v # w /\ hand[v].pc = "got" /\ hand[v].id = i /\ hand[v].job = j
      BY <1>3, <3>1
    <3>3. Token(i, j)
      BY <3>2 DEF Token
    <3>4. i = hand[w].id
      BY <1>0, <1>8, <1>9, <3>3 DEF OnceInv
    <3> QED
      BY <1>j, <1>3, <1>9, <3>2, <3>4 DEF OwnInv, Holding
  <2> QED
    BY <1>1, <1>2, <1>9, <2>1, <2>2 DEF Token
<1>10. \A k, i : k # j /\ Token(i, k)' => Token(i, k)
  <2> SUFFICES ASSUME NEW k, NEW i, k # j, Token(i, k)' PROVE Token(i, k)
    OBVIOUS
  <2>1. CASE \E x \in entries' : x.id = i /\ x.job = k /\ ~SendsBack(x)'
    BY <1>1, <1>2, <1>7, <2>1 DEF Token
  <2>2. CASE \E v \in Worker : hand'[v].pc = "got" /\ hand'[v].id = i /\ hand'[v].job = k
    BY <1>3, <2>2 DEF Token
  <2> QED
    BY <2>1, <2>2 DEF Token
<1>11. j \notin redo => j \notin started
  BY <1>0, <1>8 DEF OnceInv
<1>12. OnceInv'
  <2> SUFFICES ASSUME NEW k \in sent \ redo, NEW i, Token(i, k)'
               PROVE  k \notin started /\ \A l : Token(l, k)' => l = i
    BY <1>2 DEF OnceInv
  <2>1. CASE k = j
    BY <1>9, <1>11, <2>1
  <2>2. CASE k # j
    BY <1>10, <2>2 DEF OnceInv
  <2> QED
    BY <2>1, <2>2
<1> QED
  BY <1>6, <1>12

\* An acknowledgement that fails puts the job in redo; one that succeeds takes
\* the entry.  Either way the hand lets go of it.
LEMMA AckOnce ==
  ASSUME Once, TypeOK', NEW w \in Worker, NEW ok \in BOOLEAN, Holding(w),
         NEW j \in Job, j = hand[w].job,
         entries' = Acked(w, ok),
         \A v \in Worker : v # w => hand'[v] = hand[v],
         hand'[w].pc \notin {"got", "forwarded"},
         sent' = sent, redo \subseteq redo', ~ok => j \in redo',
         \/ hand[w].pc = "forwarded" /\ started' = started
         \/ hand[w].pc = "got" /\ started' = started \cup {j}
  PROVE  OwnInv' /\ OnceInv'
<1> USE DEF Once, IInv
<1>0. hand[w] # Free /\ j \in sent
  BY HandTypes DEF Holding, HandInv
<1>1. /\ \A f \in entries' : \E e \in entries : Same(e, f) /\ f.owner = e.owner /\ f.old = e.old
      /\ ok => \A f \in entries' : f.id # hand[w].id
  BY WithoutFacts DEF Acked, TypeOK, Same
<1>2. OwnInv'
  BY <1>1 DEF OwnInv, Holding, Same
<1>3. \A i, k : k \notin redo' /\ Token(i, k)' => Token(i, k)
  <2> SUFFICES ASSUME NEW i, NEW k, k \notin redo', Token(i, k)' PROVE Token(i, k)
    OBVIOUS
  <2>1. CASE \E x \in entries' : x.id = i /\ x.job = k /\ ~SendsBack(x)'
    <3>1. PICK x \in entries' : x.id = i /\ x.job = k /\ ~SendsBack(x)'
      BY <2>1
    <3>2. PICK y \in entries : Same(y, x)
      BY <1>1
    <3>3. y.id # hand[w].id
      BY <1>1, <3>1, <3>2 DEF Same, HandInv, Holding, Free
    <3>4. ~SendsBack(y)
      BY <3>1, <3>2, <3>3 DEF SendsBack, Same
    <3> QED
      BY <3>1, <3>2, <3>4 DEF Token, Same
  <2>2. CASE \E v \in Worker : hand'[v].pc = "got" /\ hand'[v].id = i /\ hand'[v].job = k
    BY <2>2 DEF Token
  <2> QED
    BY <2>1, <2>2 DEF Token
<1>4. CASE hand[w].pc = "forwarded"
  BY <1>2, <1>3, <1>4, NoNewToken
<1>5. CASE hand[w].pc = "got"
  <2>1. Token(hand[w].id, j)
    BY <1>5 DEF Token
  <2>2. ASSUME j \notin redo', NEW i, Token(i, j)' PROVE FALSE
    <3>1. i = hand[w].id
      BY <1>0, <1>3, <2>1, <2>2 DEF OnceInv
    <3>2. \A x \in entries' : x.id # i
      BY <1>1, <2>2, <3>1
    <3>3. PICK v \in Worker : hand'[v].pc = "got" /\ hand'[v].id = i
      BY <2>2, <3>2 DEF Token
    <3>4. v # w /\ Holding(v) /\ hand[v].id = i
      BY <3>3 DEF Holding
    <3> QED
      BY <2>2, <3>1, <3>4 DEF OwnInv
  <2>3. OnceInv'
    BY <1>3, <1>5, <2>2 DEF OnceInv
  <2> QED
    BY <1>2, <2>3
<1> QED
  BY <1>4, <1>5 DEF Holding

\* Hands that let go, and an entry that moves, ages or goes without being held.
LEMMA OthersOnce ==
  ASSUME Once, TypeOK', redo \subseteq redo', started' = started, sent' = sent,
         \A v \in Worker : hand'[v] = hand[v] \/ (/\ hand'[v] = Free
                                                  /\ hand[v].pc = "forwarded" =>
                                                       hand[v].job \in redo'),
         \A f \in entries' : \E e \in entries :
            /\ Same(e, f)
            /\ ~e.old => f.owner = e.owner
            /\ ~e.old /\ f.old => \A v \in Worker : Holding(v) /\ hand[v].id = e.id =>
                                    hand[v].job \in redo'
  PROVE  OwnInv' /\ OnceInv'
<1> USE DEF Once, IInv
<1>1. \A v \in Worker : Holding(v)' => Holding(v) /\ hand'[v] = hand[v]
  BY DEF Holding, Free
<1>2. OwnInv'
  BY <1>1 DEF OwnInv, Same
<1>3. \A j \in sent \ redo' : \A i : Token(i, j)' => Token(i, j)
  <2> SUFFICES ASSUME NEW j \in sent \ redo', NEW i, Token(i, j)' PROVE Token(i, j)
    OBVIOUS
  <2>1. CASE \E x \in entries' : x.id = i /\ x.job = j /\ ~SendsBack(x)'
    <3>1. PICK x \in entries' : x.id = i /\ x.job = j /\ ~SendsBack(x)'
      BY <2>1
    <3>2. PICK y \in entries : Same(y, x)
      OBVIOUS
    <3>3. ~SendsBack(y)
      <4> SUFFICES ASSUME SendsBack(y) PROVE FALSE
        OBVIOUS
      <4>1. PICK v \in Worker : hand[v].pc = "forwarded" /\ hand[v].id = y.id
        BY DEF SendsBack
      <4>2. hand[v].job = j
        BY <3>1, <3>2, <4>1 DEF HandInv, Holding, Same, Free
      <4>3. hand'[v] = hand[v]
        BY <4>1, <4>2
      <4> QED
        BY <3>1, <3>2, <4>1, <4>3 DEF SendsBack, Same
    <3> QED
      BY <3>1, <3>2, <3>3 DEF Token, Same
  <2>2. CASE \E v \in Worker : hand'[v].pc = "got" /\ hand'[v].id = i /\ hand'[v].job = j
    BY <2>2 DEF Token, Free
  <2> QED
    BY <2>1, <2>2 DEF Token
<1> QED
  BY <1>2, <1>3, NoNewToken

\* Only a pending entry grows old, and it stays pending.
LEMMA YoungStep ==
  ASSUME IInv, YoungInv, Next
  PROVE  YoungInv'
<1> USE DEF IInv
<1>t. entries \subseteq Entry /\ SlotInv /\ TrimInv /\ Nobody \notin Worker
  BY StreamAssumption DEF TypeOK
<1>1. ASSUME NEW w \in Worker, NEW ok \in BOOLEAN, entries' = Acked(w, ok)
      PROVE  YoungInv'
  BY <1>t, <1>1, WithoutFacts DEF Acked, YoungInv
<1>2. ASSUME NEW w \in Worker, entries' = Reclaimed(w)
      PROVE  YoungInv'
  BY <1>t, <1>2, ReclaimedFacts DEF YoungInv
<1>3. ASSUME NEW j \in Job, Unused # {}, entries' = Added(j)
      PROVE  YoungInv'
  BY <1>t, <1>3, AddedFacts DEF YoungInv
<1>4. ASSUME NEW e \in entries, NEW f, entries' = Replaced(e, f), f.owner = Nobody => ~f.old
      PROVE  YoungInv'
  BY <1>4 DEF YoungInv, Replaced
<1>5. entries' = entries => YoungInv'
  BY DEF YoungInv
<1>6. ASSUME NEW j \in Job, NEW ok \in BOOLEAN, Send(j, ok)
      PROVE  YoungInv'
  BY <1>3, <1>5, <1>6 DEF Send
<1>7. ASSUME NEW w \in Worker, NEW e \in entries, ReadPending(w, e)
      PROVE  YoungInv'
  <2> DEFINE f == [e EXCEPT !.old = FALSE]
  <2>1. ~f.old
    BY <1>t DEF Entry
  <2>2. entries' = Replaced(e, f)
    BY <1>7 DEF ReadPending
  <2> HIDE DEF f
  <2> QED
    BY <1>4, <2>1, <2>2
<1>8. ASSUME NEW w \in Worker, NEW e \in entries, NEW ok \in BOOLEAN, ReadNew(w, e, ok)
      PROVE  YoungInv'
  <2> DEFINE f == [e EXCEPT !.owner = w]
  <2>1. f.owner # Nobody
    BY <1>t DEF Entry
  <2>2. entries' = Replaced(e, f)
    BY <1>8 DEF ReadNew
  <2> HIDE DEF f
  <2> QED
    BY <1>4, <2>1, <2>2
<1>9. ASSUME NEW w \in Worker, NEW ok \in BOOLEAN, Forward(w, ok)
      PROVE  YoungInv'
  <2>1. hand[w].job \in Job
    BY <1>9, HandTypes DEF Forward
  <2> QED
    BY <1>3, <1>5, <1>9, <2>1 DEF Forward
<1>10. ASSUME NEW w \in Worker, NEW ok \in BOOLEAN, AckForwarded(w, ok) \/ Claim(w, ok)
       PROVE  YoungInv'
  BY <1>1, <1>10 DEF AckForwarded, Claim
<1>11. ASSUME NEW w \in Worker, NEW ok \in BOOLEAN, Start(w, ok) \/ Autoclaim(w)
       PROVE  YoungInv'
  BY <1>2, <1>5, <1>11 DEF Start, Autoclaim
<1>12. ASSUME NEW w \in Worker, NEW ok \in BOOLEAN,
              FinishInline(w, ok) \/ Crash(w) \/ \E j \in running[w] : Finish(w, j, ok)
       PROVE  YoungInv'
  BY <1>5, <1>12 DEF FinishInline, Crash, Finish
<1>13. ASSUME NEW e \in entries, Age(e)
       PROVE  YoungInv'
  <2> DEFINE f == [e EXCEPT !.old = TRUE]
  <2>1. f.owner # Nobody
    BY <1>t, <1>13 DEF Entry, Age
  <2>2. entries' = Replaced(e, f)
    BY <1>13 DEF Age
  <2> HIDE DEF f
  <2> QED
    BY <1>4, <2>1, <2>2
<1>14. ASSUME NEW e \in entries, Trim(e)
       PROVE  YoungInv'
  <2>1. CASE entries' = Without({e.id})
    BY <1>t, <2>1, WithoutFacts DEF YoungInv
  <2>2. CASE e.owner # Nobody /\ entries' = Replaced(e, [e EXCEPT !.kept = FALSE])
    <3> DEFINE f == [e EXCEPT !.kept = FALSE]
    <3>1. f.owner # Nobody
      BY <1>t, <2>2 DEF Entry
    <3>2. entries' = Replaced(e, f)
      BY <2>2
    <3> HIDE DEF f
    <3> QED
      BY <1>4, <3>1, <3>2
  <2> QED
    BY <1>14, <2>1, <2>2 DEF Trim
<1> QED
  BY <1>6, <1>7, <1>8, <1>9, <1>10, <1>11, <1>12, <1>13, <1>14 DEF Next

LEMMA OnceStep ==
  ASSUME Once, Next
  PROVE  Once'
<1> USE DEF Once, IInv
<1> DEFINE Goal == OwnInv' /\ OnceInv'
<1>0. IInv' /\ TypeOK' /\ YoungInv'
  BY StepKeeps, YoungStep
<1>t. /\ entries \subseteq Entry /\ hand \in [Worker -> Hand]
      /\ SlotInv /\ TrimInv /\ Nobody \notin Worker
  BY StreamAssumption DEF TypeOK
<1>1. ASSUME NEW j \in Job, NEW ok \in BOOLEAN, Send(j, ok)
      PROVE  Goal
  BY <1>0, <1>1, SendOnce
<1>2. ASSUME NEW w \in Worker, NEW e \in entries, ReadPending(w, e)
      PROVE  Goal
  <2> DEFINE f == [e EXCEPT !.old = FALSE]
  <2>1. f \in Entry /\ Same(e, f) /\ f.owner = w /\ ~f.old /\ e.owner = w
    BY <1>t, <1>2 DEF Entry, Same, ReadPending, Pel, First
  <2>2. /\ entries' = Replaced(e, f) /\ hand[w] = Free
        /\ hand' = [hand EXCEPT ![w] = Got(e)] \/ hand' = [hand EXCEPT ![w] = Free]
        /\ UNCHANGED <<sent, started, redo>>
    BY <1>2 DEF ReadPending, Polls, history
  <2> HIDE DEF f
  <2> QED
    BY <1>0, <2>1, <2>2, ReadOnce
<1>3. ASSUME NEW w \in Worker, NEW e \in entries, NEW ok \in BOOLEAN, ReadNew(w, e, ok)
      PROVE  Goal
  <2> DEFINE f == [e EXCEPT !.owner = w]
  <2>0. e.owner = Nobody /\ ~e.old
    BY <1>3 DEF ReadNew, First, Undelivered, YoungInv
  <2>1. f \in Entry /\ Same(e, f) /\ f.owner = w /\ ~f.old
    BY <1>t, <2>0 DEF Entry, Same
  <2>2. /\ entries' = Replaced(e, f) /\ hand[w] = Free
        /\ hand' = [hand EXCEPT ![w] = Got(e)] \/ hand' = [hand EXCEPT ![w] = Free]
        /\ UNCHANGED <<sent, started, redo>>
    BY <1>3 DEF ReadNew, Polls, history
  <2> HIDE DEF f
  <2> QED
    BY <1>0, <2>0, <2>1, <2>2, ReadOnce
<1>4. ASSUME NEW w \in Worker, NEW ok \in BOOLEAN, Forward(w, ok)
      PROVE  Goal
  BY <1>0, <1>4, ForwardOnce
<1>5. ASSUME NEW w \in Worker, NEW ok \in BOOLEAN, AckForwarded(w, ok)
      PROVE  Goal
  <2>1. PICK j \in Job : j = hand[w].job
    BY <1>5, HandTypes DEF AckForwarded
  <2>2. /\ Holding(w) /\ hand[w].pc = "forwarded" /\ entries' = Acked(w, ok)
        /\ UNCHANGED <<sent, started>>
        /\ redo \subseteq redo' /\ (~ok => j \in redo')
    BY <1>5, <2>1 DEF AckForwarded, Holding, If
  <2>3. hand'[w].pc = "free" /\ \A v \in Worker : v # w => hand'[v] = hand[v]
    BY <1>t, <1>5 DEF AckForwarded, Free
  <2> QED
    BY <1>0, <2>1, <2>2, <2>3, AckOnce
<1>6. ASSUME NEW w \in Worker, NEW ok \in BOOLEAN, Claim(w, ok)
      PROVE  Goal
  <2>1. PICK j \in Job : j = hand[w].job
    BY <1>6, HandTypes DEF Claim
  <2>2. /\ Holding(w) /\ hand[w].pc = "got" /\ entries' = Acked(w, ok)
        /\ sent' = sent /\ started' = started \cup {j}
        /\ redo \subseteq redo' /\ (~ok => j \in redo')
    BY <1>6, <2>1 DEF Claim, Holding, If
  <2>3. hand' = [hand EXCEPT ![w].pc = "inline"] \/ hand' = [hand EXCEPT ![w] = Free]
    BY <1>6 DEF Claim
  <2>4. hand[w] = [pc |-> "got", id |-> hand[w].id, job |-> j]
    BY <1>t, <2>1, <2>2 DEF Hand, Free
  <2>5. /\ hand'[w].pc \notin {"got", "forwarded"}
        /\ \A v \in Worker : v # w => hand'[v] = hand[v]
    BY <1>t, <2>3, <2>4 DEF Free
  <2> QED
    BY <1>0, <2>1, <2>2, <2>5, AckOnce
<1>7. ASSUME NEW w \in Worker, NEW ok \in BOOLEAN,
             FinishInline(w, ok) \/ \E j \in running[w] : Finish(w, j, ok)
      PROVE  Goal
  <2>1. /\ \A v \in Worker : \/ hand'[v] = hand[v]
                             \/ hand'[v] = Free /\ hand[v].pc = "inline"
        /\ UNCHANGED <<entries, sent, started, redo>>
    BY <1>t, <1>7 DEF FinishInline, Finish
  <2> QED
    BY <1>0, <2>1, OthersOnce DEF Same
<1>8. ASSUME NEW w \in Worker, NEW ok \in BOOLEAN, Start(w, ok) \/ Autoclaim(w)
      PROVE  Goal
  <2>1. /\ entries' = entries \/ entries' = Reclaimed(w)
        /\ UNCHANGED <<hand, sent, started, redo>>
    BY <1>8 DEF Start, Autoclaim, history
  <2>2. \A f \in entries' : \E e \in entries :
          Same(e, f) /\ (~e.old => f.owner = e.owner) /\ (f.old => e.old)
    BY <1>t, <2>1, ReclaimedFacts DEF Same
  <2> QED
    BY <1>0, <2>1, <2>2, OthersOnce
<1>9. ASSUME NEW w \in Worker, Crash(w)
      PROVE  Goal
  <2>1. /\ \A v \in Worker : \/ hand'[v] = hand[v]
                             \/ hand'[v] = Free /\ (hand[v].pc = "forwarded" =>
                                                      hand[v].job \in redo')
        /\ redo \subseteq redo'
        /\ UNCHANGED <<entries, sent, started>>
    BY <1>t, <1>9 DEF Crash, If
  <2> QED
    BY <1>0, <2>1, OthersOnce DEF Same
<1>10. ASSUME NEW e \in entries, Age(e)
       PROVE  Goal
  <2> DEFINE f == [e EXCEPT !.old = TRUE]
  <2>1. f \in Entry /\ Same(e, f) /\ f.owner = e.owner
    BY <1>t DEF Entry, Same
  <2>2. entries' = Replaced(e, f)
    BY <1>10 DEF Age
  <2> HIDE DEF f
  <2>3. \A x \in entries' : x = f \/ x \in entries
    BY <2>2 DEF Replaced
  <2>4. \A v \in Worker : Holding(v) /\ hand[v].id = e.id => hand[v].job \in redo'
    <3> SUFFICES ASSUME NEW v \in Worker, Holding(v), hand[v].id = e.id
                 PROVE  hand[v].job \in redo'
      OBVIOUS
    <3>1. e.job = hand[v].job
      BY HandTypes DEF Holding, HandInv
    <3>2. e.id \in Held(v)
      BY DEF Held, If, Holding
    <3> QED
      BY <1>10, <3>1, <3>2 DEF Age, If
  <2>5. redo \subseteq redo' /\ UNCHANGED <<hand, sent, started>>
    BY <1>10 DEF Age
  <2>6. \A x \in entries' : \E y \in entries :
          /\ Same(y, x) /\ x.owner = y.owner
          /\ ~y.old /\ x.old => \A v \in Worker : Holding(v) /\ hand[v].id = y.id =>
                                  hand[v].job \in redo'
    BY <2>1, <2>3, <2>4 DEF Same
  <2> QED
    BY <1>0, <2>5, <2>6, OthersOnce
<1>11. ASSUME NEW e \in entries, Trim(e)
       PROVE  Goal
  <2> DEFINE f == [e EXCEPT !.kept = FALSE]
  <2>1. f \in Entry /\ Same(e, f) /\ f.owner = e.owner /\ f.old = e.old
    BY <1>t DEF Entry, Same
  <2>2. entries' = Without({e.id}) \/ entries' = Replaced(e, f)
    BY <1>11 DEF Trim
  <2> HIDE DEF f
  <2>3. \A x \in entries' : \E y \in entries :
          Same(y, x) /\ x.owner = y.owner /\ x.old = y.old
    <3>1. CASE entries' = Without({e.id})
      BY <1>t, <3>1, WithoutFacts
    <3>2. CASE entries' = Replaced(e, f)
      BY <2>1, <3>2 DEF Replaced, Same
    <3> QED
      BY <2>2, <3>1, <3>2
  <2>4. UNCHANGED <<hand, sent, started, redo>>
    BY <1>11 DEF Trim
  <2> QED
    BY <1>0, <2>3, <2>4, OthersOnce
<1>12. Goal
  BY <1>1, <1>2, <1>3, <1>4, <1>5, <1>6, <1>7, <1>8, <1>9, <1>10, <1>11 DEF Next
<1> QED
  BY <1>0, <1>12

\* In every reachable state what a worker holds is in its own pending list, and a
\* job has at most one slot by which it may still be started and none once it
\* has been: the consumer group's exclusive delivery, absent the faults in redo.
THEOREM ExclusiveDelivery == Spec => []Once
<1>1. Init => Once
  <2> SUFFICES ASSUME Init PROVE Once
    OBVIOUS
  <2>1. IInv
    BY InitIsInductive
  <2> QED
    BY <2>1 DEF Once, Init, YoungInv, OwnInv, OnceInv, Holding, Free
<1>2. Once /\ UNCHANGED vars => Once'
  <2> SUFFICES ASSUME Once, UNCHANGED vars PROVE Once'
    OBVIOUS
  <2>1. UNCHANGED <<entries, hand, running, up, sent, answered, faults, lost, started, redo>>
    BY DEF vars
  <2>2. IInv'
    <3>1. \A j : Running(j) => Running(j)'
      BY <2>1 DEF Running, Runs, If
    <3>2. \A e : SendsBack(e)' <=> SendsBack(e)
      BY <2>1 DEF SendsBack
    <3>3. SafeInv'
      BY <2>1, <3>1, <3>2 DEF Once, IInv, SafeInv, Safe
    <3> QED
      BY <2>1, <3>3 DEF Once, IInv, TypeOK, SlotInv, Distinct, HandInv, Holding,
         SentInv, TrimInv
  <2>3. \A i, j : Token(i, j)' <=> Token(i, j)
    BY <2>1 DEF Token, SendsBack
  <2>4. YoungInv' /\ OwnInv' /\ OnceInv'
    BY <2>1, <2>3 DEF Once, YoungInv, OwnInv, OnceInv, Holding
  <2> QED
    BY <2>2, <2>4 DEF Once
<1> QED
  BY <1>1, <1>2, OnceStep, PTL DEF Spec

\* No job is started twice but for a failed acknowledgement, a worker that dies
\* between the two halves of sending a job back, or a stall while it holds one.
THEOREM StartsOnce == Spec => StartedOnce
<1>1. ASSUME Once, [Next]_vars, NEW w \in Worker,
             hand[w].pc = "got", hand[w].job \in started
      PROVE  hand[w].job \in redo
  <2>1. Token(hand[w].id, hand[w].job)
    BY <1>1 DEF Token
  <2>2. hand[w].job \in sent
    BY <1>1, HandTypes DEF Once, IInv, HandInv
  <2> QED
    BY <1>1, <2>1, <2>2 DEF Once, OnceInv
<1>2. Once /\ [Next]_vars =>
        [\A w \in Worker : hand[w].pc = "got" /\ hand[w].job \in Fits[w] /\ hand'[w] # hand[w]
                           /\ up'[w] /\ hand[w].job \in started =>
           hand[w].job \in redo]_vars
  BY <1>1
<1> QED
  BY <1>2, ExclusiveDelivery, PTL DEF Spec, StartedOnce

---------------------------------------------------------------------------
(* The stream and its workers are a job service *)

LEMMA StepImplements ==
  ASSUME IInv, [Next]_vars
  PROVE  [Service!Next]_(Service!vars)
<1> USE DEF Service!vars
<1> DEFINE Goal == [Service!Next]_(Service!vars)
<1>t. sent \subseteq Job /\ answered \subseteq sent /\ lost \subseteq sent
  BY DEF IInv, TypeOK
<1>1. ASSUME NEW js, js \subseteq sent, sent' = sent, answered' = answered,
             lost' = lost \cup js
      PROVE  Goal
  <2>1. Service!Lose(js) /\ js \in SUBSET Job
    BY <1>t, <1>1 DEF Service!Lose
  <2> QED
    BY <2>1 DEF Service!Next
<1>2. ASSUME NEW j \in sent, NEW ok \in BOOLEAN, sent' = sent, Publish(j, ok)
      PROVE  Goal
  <2>1. CASE ok
    <3>1. Service!Answer(j) /\ j \in Job
      BY <1>t, <1>2, <2>1 DEF Publish, If, Service!Answer
    <3> QED
      BY <3>1 DEF Service!Next
  <2>2. CASE ~ok
    BY <1>1, <1>2, <2>2 DEF Publish, If
  <2> QED
    BY <2>1, <2>2
<1>3. ASSUME sent' = sent, answered' = answered, lost' = lost
      PROVE  Goal
  BY <1>3
<1>4. ASSUME NEW j \in Job, NEW ok \in BOOLEAN, Send(j, ok)
      PROVE  Goal
  <2>1. Service!Send(j)
    BY <1>4 DEF Send, If, Service!Send
  <2> QED
    BY <2>1 DEF Service!Next
<1>5. ASSUME NEW w \in Worker, NEW ok \in BOOLEAN, Forward(w, ok)
      PROVE  Goal
  <2>1. hand[w].job \in sent
    BY <1>5, HandTypes DEF Forward, IInv, HandInv
  <2> QED
    BY <1>1, <1>5, <2>1 DEF Forward, If
<1>6. ASSUME NEW w \in Worker, NEW ok \in BOOLEAN, FinishInline(w, ok)
      PROVE  Goal
  <2>1. hand[w].job \in sent
    BY <1>6, HandTypes DEF FinishInline, IInv, HandInv
  <2> QED
    BY <1>2, <1>6, <2>1 DEF FinishInline
<1>7. ASSUME NEW w \in Worker, NEW j \in running[w], NEW ok \in BOOLEAN, Finish(w, j, ok)
      PROVE  Goal
  <2>1. j \in sent
    BY DEF IInv, SentInv
  <2> QED
    BY <1>2, <1>7, <2>1 DEF Finish
<1>8. ASSUME NEW w \in Worker, Crash(w)
      PROVE  Goal
  <2>1. Runs(w) \subseteq sent
    BY HandTypes DEF Runs, If, IInv, SentInv, HandInv
  <2> QED
    BY <1>1, <1>8, <2>1 DEF Crash
<1>9. ASSUME NEW e \in entries, Trim(e)
      PROVE  Goal
  <2>1. {e.job} \subseteq sent
    BY DEF IInv, SentInv
  <2> QED
    BY <1>1, <1>9, <2>1 DEF Trim
<1>10. ASSUME NEW w \in Worker, NEW e \in entries, NEW ok \in BOOLEAN,
              \/ ReadPending(w, e) \/ ReadNew(w, e, ok) \/ AckForwarded(w, ok)
              \/ Claim(w, ok)
       PROVE  Goal
  BY <1>3, <1>10 DEF ReadPending, ReadNew, AckForwarded, Claim, history
<1>11. ASSUME NEW w \in Worker, NEW ok \in BOOLEAN,
              AckForwarded(w, ok) \/ Claim(w, ok) \/ Start(w, ok) \/ Autoclaim(w)
       PROVE  Goal
  BY <1>3, <1>11 DEF AckForwarded, Claim, Start, Autoclaim, history
<1>12. ASSUME NEW e \in entries, Age(e)
       PROVE  Goal
  BY <1>3, <1>12 DEF Age
<1>13. Next => Goal
  BY <1>4, <1>5, <1>6, <1>7, <1>8, <1>9, <1>10, <1>11, <1>12 DEF Next
<1>14. CASE UNCHANGED vars
  BY <1>3, <1>14 DEF vars
<1> QED
  BY <1>13, <1>14

\* What the server may rely on: each job is sent once, and then it is answered or a
\* fault has hit it; nothing that was not sent is ever answered.
THEOREM StreamIsService == Spec => Service!Spec
<1>1. Init => Service!Init
  BY DEF Init, Service!Init
<1> QED
  BY <1>1, StepImplements, Invariance, PTL DEF Spec, Service!Spec

==============================================================================
