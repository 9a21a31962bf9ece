-------------------------- MODULE LibraryScan_proofs --------------------------
(***************************************************************************)
(* What holds of LibraryScan for every library, any number of scans and    *)
(* any number of faults: its types, one row per path of a series, a        *)
(* progress that counts each file once, files that are not stuck, jobs     *)
(* that are not completed too early, and jobs that are not given up.       *)
(*                                                                         *)
(* The argument is about the messages of the jobs that no fault has hit:   *)
(* each is in flight once (OneToken); the probe or the hash of a file is   *)
(* in flight exactly while the file waits for it (NoStray, FilesNotStuck); *)
(* the scan of an entity is over once a file of it waits (ScanOver).  So   *)
(* an answer meets at most the one entry it is for, no file is announced   *)
(* twice, and a job has received fewer results than it has entities while  *)
(* a scan or a file of it is left (Budget).  For the rows: those of series *)
(* and those of movies are of different files (RowHomes), and a listing    *)
(* has a file once (Listings).                                             *)
(* That something of an open job is in flight is the other half of the     *)
(* Budget: what it has not received is still a scan or a waiting file      *)
(* (Owing), and a waiting file lacks an answer (Unready).                  *)
(***************************************************************************)
EXTENDS LibraryScan, FiniteSetTheorems, TLAPS

Alive(t) == t \in tasks \/ \E r \in results : r.task = t
ScanOf(j, e) == [job |-> j, what |-> "scan", on |-> e]
PendOf(j) == {p \in pend : p.job = j}
ScansLeft(j) == {e \in Entities[j] : Alive(ScanOf(j, e))}
Lacks(p, what) == (IF what = "probe" THEN p.probe ELSE p.hash) = "no"
Awaits(p, t) == p.job = t.job /\ p.file = t.on /\ Lacks(p, t.what)

OneEach(fs) == \A x, y \in fs : x.file = y.file => x = y
Requested(t) == t.job \in sent /\ (t.what = "scan" => t.on \in Entities[t.job])

Listings ==
  \A r \in results :
    /\ r.answer # "no"
    /\ OneEach(r.found) /\ \A x \in r.found : Home[x.file] = r.task.on
Sent ==
  /\ \A t \in tasks : Requested(t)
  /\ \A r \in results : Requested(r.task)
  /\ \A p \in pend : p.job \in sent
Waiting ==
  /\ \A p \in pend : p.entity \in Movie => Home[p.file] = p.entity
  /\ \A p, q \in pend : p.job = q.job /\ p.file = q.file => p = q
OneToken ==
  \A r \in results : r.task.job \notin hit =>
    r.task \notin tasks /\ \A q \in results : q.task = r.task => q = r
ScanOver == \A p \in pend : p.job \notin hit => ~Alive(ScanOf(p.job, Home[p.file]))
NoStray ==
  \A t \in Task : Alive(t) /\ t.what # "scan" /\ t.job \notin hit => \E p \in pend : Awaits(p, t)
Budget ==
  \A j \in DOMAIN jobs \ hit :
    /\ jobs[j].received + Cardinality(ScansLeft(j)) + (IF PendOf(j) = {} THEN 0 ELSE 1)
         <= Cardinality(Entities[j])
    /\ jobs[j].completed => jobs[j].received >= Cardinality(Entities[j])
RowHomes ==
  \A r \in rows : /\ r.owner \in Series => Home[r.file] \in Series
                  /\ r.owner \in Movie => Home[r.file] = r.owner
Finite == IsFiniteSet(pend) /\ IsFiniteSet(rows)

Messages == OneToken /\ ScanOver /\ NoStray /\ FilesNotStuck
Counts == ProgressExact /\ Budget
Records == RowHomes /\ OneRowPerPath
IInv == TypeOK /\ Finite /\ Sent /\ Listings /\ Waiting /\ Messages /\ Counts /\ Records

---------------------------------------------------------------------------
(* Constants, types and helpers *)

LEMMA ConstantFacts ==
  /\ Series \cap Movie = {} /\ IsFiniteSet(File) /\ MaxFaults \in Nat
  /\ None \notin Entity /\ Listed \subseteq Job /\ Local \subseteq File
  /\ \A m \in Movie : SeriesWithId[m] \in Series \cup {None}
  /\ \A f \in File : /\ Home[f] \in Entity
                     /\ Home[f] \in Series <=> Episodes[f] # {}
  /\ \A j \in Job : /\ IsFiniteSet(Entities[j]) /\ Entities[j] # {}
                    /\ Entities[j] \subseteq Entity
                    /\ Cardinality(Entities[j]) \in Nat
<1>1. \A j \in Job : IsFiniteSet(Entities[j]) /\ Entities[j] # {} /\ Entities[j] \subseteq Entity
  BY ScanAssumption DEF Entity
<1>2. \A j \in Job : Cardinality(Entities[j]) \in Nat BY <1>1, FS_CardinalityType
<1> QED BY <1>1, <1>2, ScanAssumption DEF Entity

LEMMA FaultType == ASSUME TypeOK, NEW k, Fault(k) PROVE faults' \in 0 .. MaxFaults
  BY ConstantFacts DEF Fault, TypeOK

LEMMA TaskKinds ==
  ASSUME NEW t \in Task
  PROVE  /\ t.job \in Job /\ t.what \in {"scan", "probe", "hash"}
         /\ t = [job |-> t.job, what |-> t.what, on |-> t.on]
         /\ t.what = "scan" => t.on \in Entity /\ t = ScanOf(t.job, t.on)
         /\ t.what # "scan" => t.on \in File
  BY DEF Task, ScanOf

LEMMA FoundFinite == IsFiniteSet(Found)
<1> DEFINE dom == File \X Size
           f == [x \in dom |-> [file |-> x[1], size |-> x[2]]]
<1>1. IsFiniteSet(0 .. 2)
  <2>1. 0 .. 2 \in SUBSET Nat /\ \A n \in 0 .. 2 : n <= 2 OBVIOUS
  <2> QED BY <2>1, FS_BoundedSetOfNaturals
<1>2. IsFiniteSet(dom) BY <1>1, FS_Product, ConstantFacts DEF Size
<1>3. ASSUME NEW y \in Found PROVE \E x \in dom : f[x] = y
  <2>1. <<y.file, y.size>> \in dom /\ y = [file |-> y.file, size |-> y.size] BY DEF Found
  <2>2. f[<<y.file, y.size>>] = y BY <2>1
  <2> QED BY <2>1, <2>2
<1>4. \A x \in dom : f[x] \in Found BY DEF Found
<1>5. f \in [dom -> Found] BY <1>4
<1> HIDE DEF f, dom
<1>6. f \in Surjection(dom, Found) BY <1>3, <1>5 DEF Surjection
<1> QED BY <1>2, <1>6, FS_Surjection

LEMMA CountsFinite ==
  ASSUME Finite, NEW j PROVE IsFiniteSet(PendOf(j)) /\ Cardinality(PendOf(j)) \in Nat
<1>1. PendOf(j) \in SUBSET pend BY DEF PendOf
<1> QED BY <1>1, FS_Subset, FS_CardinalityType DEF Finite

LEMMA LeftFinite ==
  ASSUME NEW j \in Job
  PROVE  /\ IsFiniteSet(ScansLeft(j)) /\ Cardinality(ScansLeft(j)) \in Nat
         /\ Cardinality(ScansLeft(j)) <= Cardinality(Entities[j])
<1>1. ScansLeft(j) \in SUBSET Entities[j] BY DEF ScansLeft
<1> QED BY <1>1, ConstantFacts, FS_Subset, FS_CardinalityType

LEMMA JobsTyped ==
  ASSUME TypeOK, NEW j \in DOMAIN jobs
  PROVE  /\ j \in Job /\ j \in sent /\ j \in Listed
         /\ jobs[j] \in [received : Nat, completed : BOOLEAN, total : Nat, done : Nat]
         /\ jobs[j].received \in Nat /\ jobs[j].total \in Nat /\ jobs[j].done \in Nat
         /\ jobs[j].completed \in BOOLEAN
<1>1. jobs[j] \in [received : Nat, completed : BOOLEAN, total : Nat, done : Nat] BY DEF TypeOK
<1> QED BY <1>1 DEF TypeOK

LEMMA NotStuck ==
  FilesNotStuck <=>
    \A p \in pend : p.job \notin hit => \A what \in {"probe", "hash"} :
      Lacks(p, what) => Alive([job |-> p.job, what |-> what, on |-> p.file])
  BY DEF FilesNotStuck, Lacks, Alive

---------------------------------------------------------------------------
(* Steps that change nothing for the jobs outside of hs *)

Quiet(hs) ==
  /\ hit \subseteq hs
  /\ \A p : p.job \notin hs => (p \in pend' <=> p \in pend)
  /\ \A t \in Task : t.job \notin hs => (Alive(t)' <=> Alive(t))
  /\ DOMAIN jobs' \subseteq DOMAIN jobs
  /\ \A j \in DOMAIN jobs' \ hs : jobs'[j] = jobs[j]

\* What Messages and Counts say of them, after the step.
OverOutside(hs) == \A p \in pend : p.job \notin hs => ~Alive(ScanOf(p.job, Home[p.file]))
StrayOutside(hs) ==
  \A t \in Task : Alive(t) /\ t.what # "scan" /\ t.job \notin hs => \E p \in pend : Awaits(p, t)
StuckOutside(hs) ==
  \A p \in pend : p.job \notin hs => \A what \in {"probe", "hash"} :
    Lacks(p, what) => Alive([job |-> p.job, what |-> what, on |-> p.file])
ProgressOutside(hs) ==
  \A j \in DOMAIN jobs \ hs : jobs[j].total = jobs[j].done + Cardinality(PendOf(j))
BudgetOutside(hs) ==
  \A j \in DOMAIN jobs \ hs :
    /\ jobs[j].received + Cardinality(ScansLeft(j)) + (IF PendOf(j) = {} THEN 0 ELSE 1)
         <= Cardinality(Entities[j])
    /\ jobs[j].completed => jobs[j].received >= Cardinality(Entities[j])
Outside(hs) ==
  /\ OverOutside(hs) /\ StrayOutside(hs) /\ StuckOutside(hs)
  /\ ProgressOutside(hs) /\ BudgetOutside(hs)

LEMMA Inside == Outside(hit) <=> ScanOver /\ NoStray /\ FilesNotStuck /\ Counts
<1>1. OverOutside(hit) <=> ScanOver BY DEF OverOutside, ScanOver
<1>2. StrayOutside(hit) <=> NoStray BY DEF StrayOutside, NoStray
<1>3. StuckOutside(hit) <=> FilesNotStuck BY NotStuck DEF StuckOutside
<1>4. ProgressOutside(hit) <=> ProgressExact BY DEF ProgressOutside, ProgressExact, PendOf
<1>5. BudgetOutside(hit) <=> Budget BY DEF BudgetOutside, Budget
<1> QED BY <1>1, <1>2, <1>3, <1>4, <1>5 DEF Outside, Counts

LEMMA QuietOutside ==
  ASSUME TypeOK, Messages, Counts, NEW hs, Quiet(hs)
  PROVE  /\ \A p \in pend' : p.job \notin hs => ~Alive(ScanOf(p.job, Home[p.file]))'
         /\ \A t \in Task : Alive(t)' /\ t.what # "scan" /\ t.job \notin hs =>
              \E p \in pend' : Awaits(p, t)
         /\ \A p \in pend' : p.job \notin hs => \A what \in {"probe", "hash"} :
              Lacks(p, what) => Alive([job |-> p.job, what |-> what, on |-> p.file])'
         /\ \A j \in DOMAIN jobs' \ hs :
              /\ jobs'[j].total = jobs'[j].done + Cardinality(PendOf(j)')
              /\ jobs'[j].received + Cardinality(ScansLeft(j)')
                   + (IF PendOf(j)' = {} THEN 0 ELSE 1) <= Cardinality(Entities[j])
              /\ jobs'[j].completed => jobs'[j].received >= Cardinality(Entities[j])
<1>1. /\ hit \subseteq hs
      /\ \A p : p.job \notin hs => (p \in pend' <=> p \in pend)
      /\ \A t \in Task : t.job \notin hs => (Alive(t)' <=> Alive(t))
      /\ DOMAIN jobs' \subseteq DOMAIN jobs
      /\ \A j \in DOMAIN jobs' \ hs : jobs'[j] = jobs[j]
  BY DEF Quiet
<1>2. ASSUME NEW p \in pend', p.job \notin hs
      PROVE  /\ p \in pend /\ p.job \notin hit /\ p \in Pending
             /\ ScanOf(p.job, Home[p.file]) \in Task
             /\ \A what \in {"probe", "hash"} :
                  [job |-> p.job, what |-> what, on |-> p.file] \in Task
  <2>1. p \in pend /\ p.job \notin hit /\ p \in Pending BY <1>1, <1>2 DEF TypeOK
  <2>2. p.job \in Job /\ p.file \in File BY <2>1 DEF Pending
  <2>3. Home[p.file] \in Entity BY <2>2, ConstantFacts
  <2> QED BY <2>1, <2>2, <2>3 DEF Task, ScanOf
<1>3. ASSUME NEW p \in pend', p.job \notin hs PROVE ~Alive(ScanOf(p.job, Home[p.file]))'
  <2>1. ~Alive(ScanOf(p.job, Home[p.file])) BY <1>2, <1>3 DEF Messages, ScanOver
  <2>2. ScanOf(p.job, Home[p.file]).job = p.job BY DEF ScanOf
  <2> QED BY <1>1, <1>2, <1>3, <2>1, <2>2
<1>4. ASSUME NEW t \in Task, Alive(t)', t.what # "scan", t.job \notin hs
      PROVE  \E p \in pend' : Awaits(p, t)
  <2>1. Alive(t) /\ t.job \notin hit BY <1>1, <1>4
  <2>2. PICK p \in pend : Awaits(p, t) BY <1>4, <2>1 DEF Messages, NoStray
  <2>3. p.job \notin hs BY <1>4, <2>2 DEF Awaits
  <2> QED BY <1>1, <2>2, <2>3
<1>5. ASSUME NEW p \in pend', p.job \notin hs, NEW what \in {"probe", "hash"}, Lacks(p, what)
      PROVE  Alive([job |-> p.job, what |-> what, on |-> p.file])'
  <2>1. Alive([job |-> p.job, what |-> what, on |-> p.file])
    BY <1>2, <1>5, NotStuck DEF Messages
  <2> QED BY <1>1, <1>2, <1>5, <2>1
<1>6. ASSUME NEW j \in DOMAIN jobs' \ hs
      PROVE  /\ j \in DOMAIN jobs \ hit /\ jobs'[j] = jobs[j]
             /\ PendOf(j)' = PendOf(j) /\ ScansLeft(j)' = ScansLeft(j)
  <2>1. j \in DOMAIN jobs \ hit /\ jobs'[j] = jobs[j] BY <1>1
  <2>2. PendOf(j)' = PendOf(j) BY <1>1, <1>6 DEF PendOf
  <2>3. j \in Job /\ Entities[j] \subseteq Entity BY <2>1, JobsTyped, ConstantFacts
  <2>4. \A e \in Entities[j] : ScanOf(j, e) \in Task /\ ScanOf(j, e).job = j
    BY <2>3 DEF ScanOf, Task
  <2>5. ScansLeft(j)' = ScansLeft(j) BY <1>1, <1>6, <2>4 DEF ScansLeft
  <2> QED BY <2>1, <2>2, <2>5
<1>7. ASSUME NEW j \in DOMAIN jobs' \ hs
      PROVE  jobs'[j].total = jobs'[j].done + Cardinality(PendOf(j)')
  BY <1>6 DEF Counts, ProgressExact, PendOf
<1>8. ASSUME NEW j \in DOMAIN jobs' \ hs
      PROVE  /\ jobs'[j].received + Cardinality(ScansLeft(j)')
                  + (IF PendOf(j)' = {} THEN 0 ELSE 1) <= Cardinality(Entities[j])
             /\ jobs'[j].completed => jobs'[j].received >= Cardinality(Entities[j])
  BY <1>6 DEF Counts, Budget
<1> QED BY <1>3, <1>4, <1>5, <1>7, <1>8

LEMMA QuietStep ==
  ASSUME TypeOK, Messages, Counts, Quiet(hit')
  PROVE  ScanOver' /\ NoStray' /\ FilesNotStuck' /\ Counts'
<1>1. OverOutside(hit)' BY QuietOutside DEF OverOutside
<1>2. StrayOutside(hit)' BY QuietOutside DEF StrayOutside
<1>3. StuckOutside(hit)' BY QuietOutside DEF StuckOutside
<1>4. ProgressOutside(hit)' BY QuietOutside DEF ProgressOutside
<1>5. BudgetOutside(hit)' BY QuietOutside DEF BudgetOutside
<1>6. Outside(hit)' BY <1>1, <1>2, <1>3, <1>4, <1>5 DEF Outside
<1>7. Outside(hit)' <=> ScanOver' /\ NoStray' /\ FilesNotStuck' /\ Counts'
  BY Inside, PTL
<1> QED BY <1>6, <1>7

\* The records of the library stay as they are.
LEMMA SameRecords ==
  ASSUME Records, UNCHANGED rows PROVE Records'
  BY DEF Records, RowHomes, OneRowPerPath

\* What the other invariants need of a step that only moves requests and answers.
Moves ==
  /\ UNCHANGED <<pend, rows, library, link>>
  /\ sent \subseteq sent'
  /\ \A t \in tasks' : t \in tasks \/ \E r \in results : t = r.task
  /\ \A r \in results' : \/ r \in results
                         \/ /\ r.task \in tasks /\ r.answer # "no" /\ OneEach(r.found)
                            /\ \A x \in r.found : Home[x.file] = r.task.on

LEMMA MovesStep ==
  ASSUME IInv, TypeOK', Moves, Quiet(hit'), OneToken' PROVE IInv'
<1>1. TypeOK /\ Messages /\ Counts /\ Records BY DEF IInv
<1>2. ScanOver' /\ NoStray' /\ FilesNotStuck' /\ Counts' BY <1>1, QuietStep
<1>3. UNCHANGED <<pend, rows>> BY DEF Moves
<1>4. Sent' BY DEF IInv, Sent, Requested, Moves
<1>5. Listings' BY DEF IInv, Listings, Moves
<1>6. Waiting' BY <1>3 DEF IInv, Waiting
<1>7. Records' BY <1>1, <1>3, SameRecords
<1> QED BY <1>2, <1>3, <1>4, <1>5, <1>6, <1>7 DEF IInv, Finite, Messages

\* An answer takes the place of its request.
LEMMA ReplyStep ==
  ASSUME IInv, NEW t, NEW found, NEW answer, Reply(t, found, answer),
         answer # "no", OneEach(found), \A x \in found : Home[x.file] = t.on,
         answer \in Answer, found \subseteq Found, faults' \in 0 .. MaxFaults
  PROVE  IInv'
<1> DEFINE a == [task |-> t, found |-> found, answer |-> answer]
<1>1. TypeOK /\ Messages BY DEF IInv
<1>2. /\ t \in tasks /\ tasks' = tasks \ {t} /\ results' = results \cup {a}
      /\ UNCHANGED <<jobs, pend, disk, rows, link, library, sent, hit>>
  BY DEF Reply, database
<1>3. t \in Task /\ a \in Result BY <1>1, <1>2 DEF TypeOK, Result
<1>4. a.task = t /\ a.answer = answer /\ a.found = found OBVIOUS
<1> HIDE DEF a
<1>5. TypeOK' BY <1>1, <1>2, <1>3 DEF TypeOK
<1>6. Moves BY <1>2, <1>4 DEF Moves
<1>7. \A u : Alive(u)' <=> Alive(u) BY <1>2, <1>4 DEF Alive
<1>8. Quiet(hit') BY <1>2, <1>7 DEF Quiet
<1>9. OneToken'
  <2> SUFFICES ASSUME NEW r \in results', r.task.job \notin hit'
               PROVE  r.task \notin tasks' /\ \A q \in results' : q.task = r.task => q = r
    BY DEF OneToken
  <2>1. \A q \in results : q.task.job \notin hit => q.task # t
    BY <1>1, <1>2 DEF Messages, OneToken
  <2>2. CASE r = a BY <1>2, <1>4, <2>1, <2>2
  <2>3. CASE r \in results /\ r # a
    <3>1. r.task \notin tasks /\ \A q \in results : q.task = r.task => q = r
      BY <1>1, <1>2, <2>3 DEF Messages, OneToken
    <3>2. r.task # t BY <1>2, <2>1, <2>3
    <3> QED BY <1>2, <1>4, <3>1, <3>2
  <2> QED BY <1>2, <2>2, <2>3
<1> QED BY <1>5, <1>6, <1>8, <1>9, MovesStep

\* A listing has a file of the entity's directory once.
LEMMA ListingFacts ==
  ASSUME TypeOK, NEW e, NEW found \in Listing(e)
  PROVE  found \subseteq Found /\ OneEach(found) /\ \A x \in found : Home[x.file] = e
<1> DEFINE entry(f) == [file |-> f, size |-> disk[f]]
<1>1. \A f \in File : disk[f] \in Size BY DEF TypeOK
<1>2. \A f \in FilesIn(e) : f \in File /\ Home[f] = e BY DEF FilesIn, OnDisk
<1>3. ASSUME found \subseteq {entry(f) : f \in FilesIn(e)}
      PROVE  found \subseteq Found /\ OneEach(found) /\ \A x \in found : Home[x.file] = e
  <2>1. \A x \in found : x.file \in FilesIn(e) /\ x = entry(x.file) BY <1>3
  <2>2. \A x \in found : x \in Found BY <1>1, <1>2, <2>1 DEF Found
  <2>3. OneEach(found) BY <2>1 DEF OneEach
  <2> QED BY <1>2, <2>1, <2>2, <2>3
<1>4. found \subseteq {entry(f) : f \in FilesIn(e)} BY DEF Listing
<1> QED BY <1>3, <1>4

LEMMA WorkStep == ASSUME IInv, NEW t \in tasks, Work(t) PROVE IInv'
<1>1. TypeOK /\ faults \in 0 .. MaxFaults BY DEF IInv, TypeOK
<1>2. CASE WorkerScan(t)
  <2>1. PICK found \in Listing(t.on) : Reply(t, found, "some") BY <1>2 DEF WorkerScan
  <2>2. faults' = faults BY <1>2 DEF WorkerScan
  <2>3. found \subseteq Found /\ OneEach(found) /\ \A x \in found : Home[x.file] = t.on
    BY <1>1, ListingFacts
  <2> QED BY <1>1, <2>1, <2>2, <2>3, ReplyStep DEF Answer
<1>3. ASSUME NEW answer \in {"none", "some"}, WorkerEnrich(t, answer) PROVE IInv'
  <2>1. Reply(t, {}, answer) BY <1>3 DEF WorkerEnrich
  <2>2. faults' = faults \/ Fault("unreadable") BY <1>3 DEF WorkerEnrich
  <2>3. faults' \in 0 .. MaxFaults BY <1>1, <2>2, FaultType
  <2>4. OneEach({}) BY DEF OneEach
  <2> QED BY <2>1, <2>3, <2>4, ReplyStep DEF Answer
<1> QED BY <1>2, <1>3 DEF Work

LEMMA LoseStep ==
  ASSUME IInv,
         \/ \E t \in tasks : LoseTask(t)
         \/ \E r \in results : Redeliver(r) \/ LoseResult(r)
  PROVE  IInv'
<1>1. TypeOK /\ Sent /\ OneToken BY DEF IInv, Messages
<1>2. ASSUME NEW t \in tasks, LoseTask(t) PROVE IInv'
  <2>1. /\ tasks' = tasks \ {t} /\ hit' = hit \cup {t.job}
        /\ UNCHANGED <<jobs, pend, results, disk, rows, link, library, sent>>
    BY <1>2 DEF LoseTask, database
  <2>2. t.job \in sent /\ faults' \in 0 .. MaxFaults
    BY <1>1, <1>2, FaultType DEF LoseTask, Sent, Requested
  <2>3. TypeOK' BY <1>1, <2>1, <2>2 DEF TypeOK
  <2>4. Moves BY <2>1 DEF Moves
  <2>5. Quiet(hit') BY <2>1 DEF Quiet, Alive
  <2>6. OneToken' BY <1>1, <2>1 DEF OneToken
  <2> QED BY <2>3, <2>4, <2>5, <2>6, MovesStep
<1>3. ASSUME NEW r \in results, LoseResult(r) PROVE IInv'
  <2>1. /\ results' = results \ {r} /\ hit' = hit \cup {r.task.job}
        /\ UNCHANGED <<jobs, pend, tasks, disk, rows, link, library, sent>>
    BY <1>3 DEF LoseResult, database
  <2>2. r.task.job \in sent /\ faults' \in 0 .. MaxFaults
    BY <1>1, <1>3, FaultType DEF LoseResult, Sent, Requested
  <2>3. TypeOK' BY <1>1, <2>1, <2>2 DEF TypeOK
  <2>4. Moves BY <2>1 DEF Moves
  <2>5. Quiet(hit') BY <2>1 DEF Quiet, Alive
  <2>6. OneToken' BY <1>1, <2>1 DEF OneToken
  <2> QED BY <2>3, <2>4, <2>5, <2>6, MovesStep
<1>4. ASSUME NEW r \in results, Redeliver(r) PROVE IInv'
  <2>1. /\ tasks' = tasks \cup {r.task} /\ hit' = hit \cup {r.task.job}
        /\ UNCHANGED <<jobs, pend, results, disk, rows, link, library, sent>>
    BY <1>4 DEF Redeliver, database
  <2>2. r.task \in Task /\ r.task.job \in sent /\ faults' \in 0 .. MaxFaults
    BY <1>1, <1>4, FaultType DEF Redeliver, Sent, Requested, TypeOK, Result
  <2>3. TypeOK' BY <1>1, <2>1, <2>2 DEF TypeOK
  <2>4. Moves BY <2>1 DEF Moves
  <2>5. Quiet(hit') BY <2>1 DEF Quiet, Alive
  <2>6. OneToken' BY <1>1, <2>1 DEF OneToken
  <2> QED BY <2>3, <2>4, <2>5, <2>6, MovesStep
<1> QED BY <1>2, <1>3, <1>4

LEMMA JobsStep ==
  ASSUME IInv, GetRunningJobs \/ \E j \in Job : CancelJob(j) PROVE IInv'
<1>1. TypeOK /\ OneToken BY DEF IInv, Messages
<1>2. CASE GetRunningJobs
  <2>1. /\ jobs' = [j \in {i \in DOMAIN jobs : ~jobs[i].completed} |-> jobs[j]]
        /\ UNCHANGED <<pend, tasks, results, disk, rows, link, library, sent, faults, hit>>
    BY <1>2 DEF GetRunningJobs, database
  <2>2. TypeOK' BY <1>1, <2>1 DEF TypeOK
  <2>3. Moves BY <2>1 DEF Moves
  <2>4. Quiet(hit') BY <2>1 DEF Quiet, Alive
  <2>5. OneToken' BY <1>1, <2>1 DEF OneToken
  <2> QED BY <2>2, <2>3, <2>4, <2>5, MovesStep
<1>3. ASSUME NEW j \in Job, CancelJob(j) PROVE IInv'
  <2>1. /\ j \in DOMAIN jobs /\ jobs' = [jobs EXCEPT ![j].completed = TRUE]
        /\ hit' = hit \cup {j}
        /\ UNCHANGED <<pend, tasks, results, disk, rows, link, library, sent>>
    BY <1>3 DEF CancelJob, database
  <2>2. faults' \in 0 .. MaxFaults BY <1>1, <1>3, FaultType DEF CancelJob
  <2>3. j \in sent BY <1>1, <2>1, JobsTyped
  <2>4. \A i \in DOMAIN jobs' :
          jobs'[i] \in [received : Nat, completed : BOOLEAN, total : Nat, done : Nat]
    BY <1>1, <2>1 DEF TypeOK
  <2>5. TypeOK' BY <1>1, <2>1, <2>2, <2>3, <2>4 DEF TypeOK
  <2>6. Moves BY <2>1 DEF Moves
  <2>7. Quiet(hit') BY <2>1 DEF Quiet, Alive
  <2>8. OneToken' BY <1>1, <2>1 DEF OneToken
  <2> QED BY <2>5, <2>6, <2>7, <2>8, MovesStep
<1> QED BY <1>2, <1>3

LEMMA ChangeStep ==
  ASSUME IInv, NEW f \in File, NEW size \in Size, ChangeFile(f, size) PROVE IInv'
<1>1. TypeOK /\ OneToken BY DEF IInv, Messages
<1>2. /\ disk' = [disk EXCEPT ![f] = size]
      /\ UNCHANGED <<jobs, pend, tasks, results, rows, link, library, sent, hit>>
  BY DEF ChangeFile, database
<1>3. faults' \in 0 .. MaxFaults BY <1>1, FaultType DEF ChangeFile
<1>4. TypeOK' BY <1>1, <1>2, <1>3 DEF TypeOK
<1>5. Moves BY <1>2 DEF Moves
<1>6. Quiet(hit') BY <1>2 DEF Quiet, Alive
<1>7. OneToken' BY <1>1, <1>2 DEF OneToken
<1> QED BY <1>4, <1>5, <1>6, <1>7, MovesStep

\* All that was in flight is of jobs that a restart hits.
LEMMA RestartStep == ASSUME IInv, Restart PROVE IInv'
<1>1. TypeOK /\ Sent /\ Messages /\ Counts /\ Records /\ Listings BY DEF IInv
<1>2. /\ DOMAIN jobs' = {} /\ pend' = {} /\ hit' = hit \cup sent
      /\ UNCHANGED <<tasks, results, disk, rows, link, library, sent>>
  BY DEF Restart, database
<1>3. faults' \in 0 .. MaxFaults BY <1>1, FaultType DEF Restart
<1>4. TypeOK' BY <1>1, <1>2, <1>3 DEF TypeOK
<1>5. Quiet(hit') BY <1>1, <1>2 DEF Quiet, Alive, Sent
<1>6. ScanOver' /\ NoStray' /\ FilesNotStuck' /\ Counts' BY <1>1, <1>4, <1>5, QuietStep
<1>7. OneToken' BY <1>1, <1>2 DEF OneToken, Messages
<1>8. Sent' BY <1>1, <1>2 DEF Sent, Requested
<1>9. Listings' /\ Waiting' BY <1>1, <1>2 DEF Listings, Waiting
<1>10. Records' BY <1>1, <1>2, SameRecords
<1>11. Finite' BY <1>2, FS_EmptySet DEF IInv, Finite
<1> QED BY <1>4, <1>6, <1>7, <1>8, <1>9, <1>10, <1>11 DEF IInv, Messages

\* The rows that go leave no link behind.
LEMMA DeleteStep == ASSUME IInv, NEW e \in Entity, DeleteEntity(e) PROVE IInv'
<1>1. TypeOK /\ Sent /\ Messages /\ Counts /\ Records /\ Listings /\ Finite /\ Waiting
  BY DEF IInv
<1>2. /\ library' = library \ {e} /\ rows' = {r \in rows : r.owner # e}
      /\ UNCHANGED <<jobs, pend, tasks, results, disk, sent, hit>>
  BY DEF DeleteEntity
<1>3. faults' \in 0 .. MaxFaults BY <1>1, FaultType DEF DeleteEntity
<1>4. link' \in [Episode \cup Movie -> {RowId(r) : r \in rows'} \cup {None}]
  <2> DEFINE gone == {r \in rows : r.owner = e}
  <2>1. link' = [x \in DOMAIN link |-> IF link[x] \in {RowId(r) : r \in gone}
                                         THEN None ELSE link[x]]
    BY DEF DeleteEntity, Unlinked
  <2>2. DOMAIN link = Episode \cup Movie
        /\ \A x \in DOMAIN link : link[x] \in {RowId(r) : r \in rows} \cup {None}
    BY <1>1 DEF TypeOK
  <2>3. ASSUME NEW x \in DOMAIN link PROVE link'[x] \in {RowId(r) : r \in rows'} \cup {None}
    <3>1. CASE link[x] = None BY <2>1, <3>1
    <3>2. ASSUME NEW r \in rows, link[x] = RowId(r), r \notin gone
          PROVE  link'[x] \in {RowId(q) : q \in rows'} \cup {None}
      <4>1. r \in rows' BY <1>2, <3>2
      <4> QED BY <2>1, <3>2, <4>1
    <3>3. ASSUME NEW r \in gone, link[x] = RowId(r) PROVE link'[x] = None
      BY <2>1, <3>3
    <3> QED BY <2>2, <3>1, <3>2, <3>3
  <2> QED BY <2>1, <2>2, <2>3
<1>5. TypeOK' BY <1>1, <1>2, <1>3, <1>4 DEF TypeOK
<1>6. Quiet(hit') BY <1>2 DEF Quiet, Alive
<1>7. ScanOver' /\ NoStray' /\ FilesNotStuck' /\ Counts' BY <1>1, <1>5, <1>6, QuietStep
<1>8. OneToken' BY <1>1, <1>2 DEF OneToken, Messages
<1>9. Sent' BY <1>1, <1>2 DEF Sent, Requested
<1>10. Listings' /\ Waiting' BY <1>1, <1>2 DEF Listings, Waiting
<1>11. Records' BY <1>1, <1>2 DEF Records, RowHomes, OneRowPerPath
<1>12. rows' \in SUBSET rows BY <1>2
<1>13. Finite' BY <1>1, <1>2, <1>12, FS_Subset DEF Finite
<1> QED BY <1>5, <1>7, <1>8, <1>9, <1>10, <1>11, <1>13 DEF IInv, Messages

\* A scan that is requested has no message and no file yet.
LEMMA RequestStep == ASSUME IInv, NEW j \in Job, RequestScan(j) PROVE IInv'
<1> DEFINE new == Tasks(j, "scan", Entities[j])
<1>1. TypeOK /\ Sent /\ Messages /\ Counts /\ Records /\ Listings /\ Finite /\ Waiting
  BY DEF IInv
<1>2. /\ j \notin sent /\ sent' = sent \cup {j} /\ tasks' = tasks \cup new
      /\ UNCHANGED <<pend, results, disk, rows, link, library, faults, hit>>
      /\ jobs' = IF j \in Listed
                   THEN [i \in DOMAIN jobs \cup {j} |-> IF i = j THEN Registered(j) ELSE jobs[i]]
                   ELSE jobs
  BY DEF RequestScan, database
<1>3. \A t \in new : t.job = j /\ t.what = "scan" /\ t.on \in Entities[j] /\ t \in Task
  BY ConstantFacts DEF Tasks, Task
<1> HIDE DEF new
<1>4. /\ \A t \in tasks : t.job # j
      /\ \A r \in results : r.task.job # j
      /\ \A p \in pend : p.job # j
  BY <1>1, <1>2 DEF Sent, Requested
<1>5. \A t : Alive(t)' <=> Alive(t) \/ t \in new BY <1>2 DEF Alive
<1>6. /\ DOMAIN jobs' \subseteq DOMAIN jobs \cup {j}
      /\ \A i \in DOMAIN jobs' : i # j => i \in DOMAIN jobs /\ jobs'[i] = jobs[i]
      /\ j \in DOMAIN jobs' => jobs'[j] = Registered(j) /\ j \in Listed
  <2>1. j \notin DOMAIN jobs BY <1>1, <1>2, JobsTyped
  <2> QED BY <1>2, <2>1
<1>7. Registered(j) \in [received : Nat, completed : BOOLEAN, total : Nat, done : Nat]
  BY DEF Registered
<1>8. TypeOK'
  <2>1. \A i \in DOMAIN jobs' :
          jobs'[i] \in [received : Nat, completed : BOOLEAN, total : Nat, done : Nat]
    BY <1>1, <1>6, <1>7 DEF TypeOK
  <2> QED BY <1>1, <1>2, <1>3, <1>6, <2>1 DEF TypeOK
<1>9. Sent' BY <1>1, <1>2, <1>3 DEF Sent, Requested
<1>10. Listings' /\ Waiting' /\ Finite' BY <1>1, <1>2 DEF Listings, Waiting, Finite
<1>11. Records' BY <1>1, <1>2, SameRecords
<1>12. OneToken' BY <1>1, <1>2, <1>3, <1>4 DEF OneToken, Messages
<1>13. ScanOver'
  <2> SUFFICES ASSUME NEW p \in pend, p.job \notin hit
               PROVE  ~Alive(ScanOf(p.job, Home[p.file]))'
    BY <1>2 DEF ScanOver
  <2>1. ~Alive(ScanOf(p.job, Home[p.file])) BY <1>1 DEF Messages, ScanOver
  <2>2. ScanOf(p.job, Home[p.file]).job # j BY <1>4 DEF ScanOf
  <2> QED BY <1>3, <1>5, <2>1, <2>2
<1>14. NoStray' BY <1>1, <1>2, <1>3, <1>5 DEF Messages, NoStray
<1>15. FilesNotStuck'
  <2> SUFFICES ASSUME NEW p \in pend, p.job \notin hit, NEW what \in {"probe", "hash"},
                      Lacks(p, what)
               PROVE  Alive([job |-> p.job, what |-> what, on |-> p.file])'
    BY <1>2 DEF FilesNotStuck, Lacks, Alive
  <2>1. Alive([job |-> p.job, what |-> what, on |-> p.file])
    BY <1>1, NotStuck DEF Messages
  <2> QED BY <1>5, <2>1
<1>16. ASSUME NEW i \in DOMAIN jobs', i \notin hit', i # j
       PROVE  /\ i \in DOMAIN jobs \ hit /\ jobs'[i] = jobs[i]
              /\ PendOf(i)' = PendOf(i) /\ ScansLeft(i)' = ScansLeft(i)
  <2>1. i \in DOMAIN jobs \ hit /\ jobs'[i] = jobs[i] BY <1>2, <1>6, <1>16
  <2>2. PendOf(i)' = PendOf(i) BY <1>2 DEF PendOf
  <2>3. \A e : ScanOf(i, e) \notin new BY <1>3, <1>16 DEF ScanOf
  <2>4. ScansLeft(i)' = ScansLeft(i) BY <1>5, <2>3 DEF ScansLeft
  <2> QED BY <2>1, <2>2, <2>4
<1>17. /\ PendOf(j)' = {} /\ Cardinality({}) = 0
       /\ Cardinality(ScansLeft(j)') \in Nat
       /\ Cardinality(ScansLeft(j)') <= Cardinality(Entities[j])
       /\ Cardinality(Entities[j]) \in Nat
       /\ Registered(j).received = 0 /\ ~Registered(j).completed
       /\ Registered(j).total = 0 /\ Registered(j).done = 0
  <2>1. PendOf(j)' = {} BY <1>2, <1>4 DEF PendOf
  <2>2. ScansLeft(j)' \in SUBSET Entities[j] BY DEF ScansLeft
  <2>3. /\ Cardinality(ScansLeft(j)') \in Nat
        /\ Cardinality(ScansLeft(j)') <= Cardinality(Entities[j])
        /\ Cardinality(Entities[j]) \in Nat
    BY <2>2, ConstantFacts, FS_Subset, FS_CardinalityType
  <2> QED BY <2>1, <2>3, FS_EmptySet DEF Registered
<1>18. ProgressExact'
  <2> SUFFICES ASSUME NEW i \in DOMAIN jobs', i \notin hit'
               PROVE  jobs'[i].total = jobs'[i].done + Cardinality(PendOf(i)')
    BY DEF ProgressExact, PendOf
  <2>1. CASE i = j BY <1>6, <1>17, <2>1
  <2>2. CASE i # j BY <1>1, <1>16, <2>2 DEF Counts, ProgressExact, PendOf
  <2> QED BY <2>1, <2>2
<1>19. Budget'
  <2> SUFFICES ASSUME NEW i \in DOMAIN jobs', i \notin hit'
               PROVE  /\ jobs'[i].received + Cardinality(ScansLeft(i)')
                           + (IF PendOf(i)' = {} THEN 0 ELSE 1) <= Cardinality(Entities[i])
                      /\ jobs'[i].completed => jobs'[i].received >= Cardinality(Entities[i])
    BY DEF Budget
  <2>1. CASE i = j BY <1>6, <1>17, <2>1
  <2>2. CASE i # j BY <1>1, <1>16, <2>2 DEF Counts, Budget
  <2> QED BY <2>1, <2>2
<1> QED BY <1>8, <1>9, <1>10, <1>11, <1>12, <1>13, <1>14, <1>15, <1>18, <1>19
        DEF IInv, Messages, Counts

---------------------------------------------------------------------------
(* What the consumer keeps in mind *)

\* All of IInv but the library.
Booked ==
  /\ DOMAIN jobs \subseteq sent \cap Listed
  /\ \A j \in DOMAIN jobs : jobs[j] \in [received : Nat, completed : BOOLEAN,
                                         total : Nat, done : Nat]
  /\ pend \subseteq Pending /\ tasks \subseteq Task /\ results \subseteq Result
  /\ IsFiniteSet(pend)
  /\ Sent /\ Listings /\ Waiting /\ Messages /\ Counts

LEMMA MarkFacts ==
  ASSUME NEW js, NEW j,
         \A i \in DOMAIN js : js[i] \in [received : Nat, completed : BOOLEAN,
                                         total : Nat, done : Nat]
  PROVE  /\ DOMAIN MarkReceived(js, j) = DOMAIN js
         /\ \A i \in DOMAIN js :
              /\ MarkReceived(js, j)[i] \in [received : Nat, completed : BOOLEAN,
                                             total : Nat, done : Nat]
              /\ i # j => MarkReceived(js, j)[i] = js[i]
         /\ j \in DOMAIN js =>
              /\ MarkReceived(js, j)[j].received = js[j].received + 1
              /\ MarkReceived(js, j)[j].total = js[j].total
              /\ MarkReceived(js, j)[j].done = js[j].done
              /\ MarkReceived(js, j)[j].completed =>
                   js[j].completed \/ js[j].received + 1 >= Cardinality(Entities[j])
<1> DEFINE N == [received : Nat, completed : BOOLEAN, total : Nat, done : Nat]
<1>1. CASE j \notin DOMAIN js BY <1>1 DEF MarkReceived
<1>2. CASE j \in DOMAIN js
  <2> DEFINE n == js[j].received + 1
             m == MarkReceived(js, j)
             c == js[j].completed \/ n >= Cardinality(Entities[j])
  <2>1. m = [js EXCEPT ![j].received = n, ![j].completed = @ \/ n >= Cardinality(Entities[j])]
    BY <1>2 DEF MarkReceived
  <2>2. DOMAIN m = DOMAIN js /\ \A i \in DOMAIN js : i # j => m[i] = js[i] BY <1>2, <2>1
  <2>3. js[j] \in N BY <1>2
  <2>4. js[j] = [received |-> js[j].received, completed |-> js[j].completed,
                 total |-> js[j].total, done |-> js[j].done]
    BY <2>3
  <2>5. m[j] = [received |-> n, completed |-> c, total |-> js[j].total, done |-> js[j].done]
    BY <1>2, <2>1, <2>4
  <2>6. n \in Nat /\ c \in BOOLEAN /\ js[j].total \in Nat /\ js[j].done \in Nat BY <2>3
  <2> HIDE DEF n, c, m
  <2>7. m[j] \in N BY <2>5, <2>6
  <2>8. m[j].received = n /\ m[j].total = js[j].total /\ m[j].done = js[j].done /\ m[j].completed = c
    BY <2>5
  <2> QED BY <1>2, <2>2, <2>7, <2>8 DEF m, n, c
<1> QED BY <1>1, <1>2

\* The entries for new files, and the requests for them.
EntryOf(j, e, x) ==
  [job |-> j, file |-> x.file, size |-> x.size, entity |-> e, probe |-> "no", hash |-> "no"]
Entries(j, e, new) == {EntryOf(j, e, x) : x \in new}
Asked(j, new) ==
  Tasks(j, "probe", {x.file : x \in new}) \cup Tasks(j, "hash", {x.file : x \in new})

LEMMA EntryFacts ==
  ASSUME NEW j \in Job, NEW e \in Entity, NEW new, new \subseteq Found, OneEach(new)
  PROVE  LET entries == Entries(j, e, new) IN
         /\ entries \subseteq Pending /\ IsFiniteSet(entries)
         /\ Cardinality(entries) = Cardinality(new) /\ Cardinality(new) \in Nat
         /\ \A p \in entries : /\ p.job = j /\ p.entity = e
                               /\ Lacks(p, "probe") /\ Lacks(p, "hash")
                               /\ \E x \in new : p.file = x.file
         /\ \A x \in new : \E p \in entries : p.file = x.file
         /\ \A p, q \in entries : p.file = q.file => p = q
<1> DEFINE entries == {EntryOf(j, e, x) : x \in new}
           f == [x \in new |-> EntryOf(j, e, x)]
<1>1. \A x \in new : /\ EntryOf(j, e, x) \in Pending /\ EntryOf(j, e, x).file = x.file
                     /\ EntryOf(j, e, x).job = j /\ EntryOf(j, e, x).entity = e
                     /\ Lacks(EntryOf(j, e, x), "probe") /\ Lacks(EntryOf(j, e, x), "hash")
  BY DEF EntryOf, Pending, Found, Answer, Lacks
<1>2. f \in Bijection(new, entries)
  BY <1>1 DEF Bijection, Injection, Surjection, IsInjective, OneEach
<1>3. IsFiniteSet(new) /\ Cardinality(new) \in Nat
  BY FoundFinite, FS_Subset, FS_CardinalityType
<1>4. ExistsBijection(new, entries) BY <1>2 DEF ExistsBijection
<1>5. IsFiniteSet(entries) /\ Cardinality(entries) = Cardinality(new)
  BY <1>3, <1>4, FS_Bijection
<1>6. \A p, q \in entries : p.file = q.file => p = q BY <1>1 DEF OneEach
<1> QED BY <1>1, <1>3, <1>5, <1>6 DEF Entries

LEMMA AskedFacts ==
  ASSUME NEW j \in Job, NEW new, new \subseteq Found
  PROVE  /\ \A t \in Asked(j, new) : /\ t \in Task /\ t.job = j /\ t.what \in {"probe", "hash"}
                                     /\ \E x \in new : t.on = x.file
         /\ \A x \in new, what \in {"probe", "hash"} :
              [job |-> j, what |-> what, on |-> x.file] \in Asked(j, new)
<1>1. ASSUME NEW t \in Asked(j, new)
      PROVE  /\ t \in Task /\ t.job = j /\ t.what \in {"probe", "hash"}
             /\ \E x \in new : t.on = x.file
  <2>1. PICK x \in new, what \in {"probe", "hash"} : t = [job |-> j, what |-> what, on |-> x.file]
    BY <1>1 DEF Asked, Tasks
  <2>2. x.file \in File BY DEF Found
  <2>3. t \in Task BY <2>1, <2>2 DEF Task
  <2> QED BY <2>1, <2>3
<1>2. ASSUME NEW x \in new, NEW what \in {"probe", "hash"}
      PROVE  [job |-> j, what |-> what, on |-> x.file] \in Asked(j, new)
  <2>1. x.file \in {y.file : y \in new} OBVIOUS
  <2> QED BY <2>1 DEF Asked, Tasks
<1> QED BY <1>1, <1>2

LEMMA Dispatched ==
  ASSUME TypeOK, NEW j \in Job, NEW e, NEW new, DispatchOrMark(j, e, new),
         IsFiniteSet(new)
  PROVE  /\ pend' = {p \in pend : p.job # j \/ \A x \in new : x.file # p.file}
                      \cup Entries(j, e, new)
         /\ tasks' = tasks \cup Asked(j, new)
         /\ DOMAIN jobs' = DOMAIN jobs
         /\ \A i \in DOMAIN jobs :
              /\ jobs'[i] \in [received : Nat, completed : BOOLEAN, total : Nat, done : Nat]
              /\ i # j => jobs'[i] = jobs[i]
         /\ j \in DOMAIN jobs =>
              /\ jobs'[j].total = jobs[j].total + Cardinality(new) /\ jobs'[j].done = jobs[j].done
              /\ jobs'[j].received = jobs[j].received + (IF new = {} THEN 1 ELSE 0)
              /\ jobs'[j].completed =>
                   jobs[j].completed \/ jobs'[j].received >= Cardinality(Entities[j])
<1> DEFINE N == [received : Nat, completed : BOOLEAN, total : Nat, done : Nat]
<1>0. \A i \in DOMAIN jobs : jobs[i] \in N BY DEF TypeOK
<1>1. CASE new = {}
  <2>1. jobs' = MarkReceived(jobs, j) /\ pend' = pend /\ tasks' = tasks
    BY <1>1 DEF DispatchOrMark
  <2>2. Entries(j, e, new) = {} /\ Asked(j, new) = {} BY <1>1 DEF Entries, Asked, Tasks
  <2>3. /\ DOMAIN jobs' = DOMAIN jobs
        /\ \A i \in DOMAIN jobs : jobs'[i] \in N /\ (i # j => jobs'[i] = jobs[i])
        /\ j \in DOMAIN jobs =>
              /\ jobs'[j].received = jobs[j].received + 1
              /\ jobs'[j].total = jobs[j].total /\ jobs'[j].done = jobs[j].done
              /\ jobs'[j].completed =>
                   jobs[j].completed \/ jobs[j].received + 1 >= Cardinality(Entities[j])
    BY <1>0, <2>1, MarkFacts
  <2>4. Cardinality(new) = 0 BY <1>1, FS_EmptySet
  <2>5. j \in DOMAIN jobs => jobs[j].total + 0 = jobs[j].total BY <1>0
  <2> QED BY <1>1, <2>1, <2>2, <2>3, <2>4, <2>5
<1>2. CASE new # {}
  <2>1. /\ pend' = {p \in pend : p.job # j \/ \A x \in new : x.file # p.file}
                      \cup {[job |-> j, file |-> x.file, size |-> x.size, entity |-> e,
                             probe |-> "no", hash |-> "no"] : x \in new}
        /\ tasks' = tasks \cup Tasks(j, "probe", {x.file : x \in new})
                          \cup Tasks(j, "hash", {x.file : x \in new})
        /\ jobs' = IF j \in DOMAIN jobs
                     THEN [jobs EXCEPT ![j].total = @ + Cardinality(new)] ELSE jobs
    BY <1>2 DEF DispatchOrMark
  <2>2. pend' = {p \in pend : p.job # j \/ \A x \in new : x.file # p.file}
                  \cup Entries(j, e, new)
    BY <2>1 DEF Entries, EntryOf
  <2>3. tasks' = tasks \cup Asked(j, new) BY <2>1 DEF Asked
  <2>4. Cardinality(new) \in Nat BY FS_CardinalityType
  <2>5. CASE j \notin DOMAIN jobs BY <1>0, <1>2, <2>1, <2>2, <2>3, <2>5
  <2>6. CASE j \in DOMAIN jobs
    <3> DEFINE n == jobs[j].total + Cardinality(new)
    <3>1. jobs' = [jobs EXCEPT ![j].total = n] BY <2>1, <2>6
    <3>2. jobs[j] \in N BY <1>0, <2>6
    <3>3. jobs[j] = [received |-> jobs[j].received, completed |-> jobs[j].completed,
                     total |-> jobs[j].total, done |-> jobs[j].done]
      BY <3>2
    <3>4. jobs'[j] = [received |-> jobs[j].received, completed |-> jobs[j].completed,
                      total |-> n, done |-> jobs[j].done]
      BY <2>6, <3>1, <3>3
    <3>5. n \in Nat /\ jobs[j].received \in Nat /\ jobs[j].received + 0 = jobs[j].received
      BY <2>4, <3>2
    <3>6. jobs[j].completed \in BOOLEAN /\ jobs[j].done \in Nat BY <3>2
    <3> HIDE DEF n
    <3>7. jobs'[j] \in N BY <3>4, <3>5, <3>6
    <3>8. /\ DOMAIN jobs' = DOMAIN jobs
          /\ \A i \in DOMAIN jobs : jobs'[i] \in N /\ (i # j => jobs'[i] = jobs[i])
      BY <1>0, <2>6, <3>1, <3>7
    <3>9. /\ jobs'[j].total = n /\ jobs'[j].done = jobs[j].done
          /\ jobs'[j].received = jobs[j].received + 0 /\ jobs'[j].completed = jobs[j].completed
      BY <3>4, <3>5
    <3> QED BY <1>2, <2>2, <2>3, <3>8, <3>9 DEF n
  <2> QED BY <2>5, <2>6
<1> QED BY <1>1, <1>2

\* A scan's answer is handled for entity e: new files wait from now on.
LEMMA ScanBooked ==
  ASSUME IInv, NEW r \in results, r.task.what = "scan", results' = results \ {r},
         NEW e \in Entity, e \in Movie => e = r.task.on,
         NEW new, new \subseteq r.found, DispatchOrMark(r.task.job, e, new),
         UNCHANGED <<sent, hit>>
  PROVE  Booked'
<1> DEFINE j == r.task.job
           home == r.task.on
           entries == Entries(j, e, new)
           asked == Asked(j, new)
           N == [received : Nat, completed : BOOLEAN, total : Nat, done : Nat]
<1>1. TypeOK /\ Finite /\ Sent /\ Listings /\ Waiting /\ Messages /\ Counts BY DEF IInv
<1>2. /\ r.task \in Task /\ j \in Job /\ home \in Entity /\ r.task = ScanOf(j, home)
      /\ j \in sent /\ home \in Entities[j]
  BY <1>1, TaskKinds DEF TypeOK, Result, Sent, Requested
<1>3. /\ new \subseteq Found /\ OneEach(new) /\ IsFiniteSet(new)
      /\ \A x \in new : Home[x.file] = home
  BY <1>1, FoundFinite, FS_Subset DEF Listings, TypeOK, Result, OneEach
<1>4. /\ pend' = {p \in pend : p.job # j \/ \A x \in new : x.file # p.file} \cup entries
      /\ tasks' = tasks \cup asked
      /\ DOMAIN jobs' = DOMAIN jobs
      /\ \A i \in DOMAIN jobs : jobs'[i] \in N /\ (i # j => jobs'[i] = jobs[i])
      /\ j \in DOMAIN jobs =>
           /\ jobs'[j].total = jobs[j].total + Cardinality(new) /\ jobs'[j].done = jobs[j].done
           /\ jobs'[j].received = jobs[j].received + (IF new = {} THEN 1 ELSE 0)
           /\ jobs'[j].completed =>
                jobs[j].completed \/ jobs'[j].received >= Cardinality(Entities[j])
  BY <1>1, <1>2, <1>3, Dispatched
<1>5. /\ entries \subseteq Pending /\ IsFiniteSet(entries)
      /\ Cardinality(entries) = Cardinality(new) /\ Cardinality(new) \in Nat
      /\ \A p \in entries : /\ p.job = j /\ p.entity = e
                            /\ Lacks(p, "probe") /\ Lacks(p, "hash")
                            /\ \E x \in new : p.file = x.file
      /\ \A x \in new : \E p \in entries : p.file = x.file
      /\ \A p, q \in entries : p.file = q.file => p = q
  BY <1>2, <1>3, EntryFacts
<1>6. /\ \A t \in asked : /\ t \in Task /\ t.job = j /\ t.what \in {"probe", "hash"}
                          /\ \E x \in new : t.on = x.file
      /\ \A x \in new, what \in {"probe", "hash"} :
           [job |-> j, what |-> what, on |-> x.file] \in asked
  BY <1>2, <1>3, AskedFacts
<1> HIDE DEF entries, asked
<1>7. \A p \in entries : Home[p.file] = home BY <1>3, <1>5
<1>8. /\ \A q \in pend' : q \in entries \/ (q \in pend /\ (q.job = j => \A x \in new : x.file # q.file))
      /\ \A q \in pend : q.job # j => q \in pend'
  BY <1>4
<1>9. pend' \subseteq Pending /\ IsFiniteSet(pend')
  <2>1. {p \in pend : p.job # j \/ \A x \in new : x.file # p.file} \in SUBSET pend OBVIOUS
  <2>2. IsFiniteSet({p \in pend : p.job # j \/ \A x \in new : x.file # p.file})
    BY <1>1, <2>1, FS_Subset DEF Finite
  <2> QED BY <1>1, <1>4, <1>5, <2>2, FS_Union DEF TypeOK
<1>10. tasks' \subseteq Task /\ results' \subseteq Result BY <1>1, <1>4, <1>6 DEF TypeOK
<1>11. Sent'
  <2>1. \A t \in asked : Requested(t)' BY <1>2, <1>6 DEF Requested
  <2>2. \A p \in pend' : p.job \in sent BY <1>1, <1>2, <1>5, <1>8 DEF Sent
  <2> QED BY <1>1, <1>4, <2>1, <2>2 DEF Sent, Requested
<1>12. Listings' BY <1>1 DEF Listings
<1>13. Waiting'
  <2>1. \A p \in pend' : p.entity \in Movie => Home[p.file] = p.entity
    BY <1>1, <1>5, <1>7, <1>8 DEF Waiting
  <2>2. ASSUME NEW p \in pend', NEW q \in pend', p.job = q.job, p.file = q.file
        PROVE  p = q
    <3>1. CASE p \in entries /\ q \in entries BY <1>5, <2>2, <3>1
    <3>2. CASE p \notin entries /\ q \notin entries
      BY <1>1, <1>8, <2>2, <3>2 DEF Waiting
    <3>3. CASE p \in entries /\ q \notin entries BY <1>5, <1>8, <2>2, <3>3
    <3>4. CASE p \notin entries /\ q \in entries BY <1>5, <1>8, <2>2, <3>4
    <3> QED BY <3>1, <3>2, <3>3, <3>4
  <2> QED BY <2>1, <2>2 DEF Waiting
\* For a job that is not hit: the scan of home is over, and no file of home waited.
<1>14. \A t : t.job # j => (Alive(t)' <=> Alive(t))
  BY <1>2, <1>4, <1>6 DEF Alive, ScanOf
<1>15. ASSUME j \notin hit
       PROVE  /\ ~Alive(r.task)'
              /\ \A t : t # r.task => (Alive(t)' <=> Alive(t) \/ t \in asked)
              /\ \A p \in pend : p.job = j => Home[p.file] # home
              /\ pend' = pend \cup entries /\ pend \cap entries = {}
              /\ \A t \in asked : ~Alive(t)
  <2>1. r.task \notin tasks /\ \A q \in results : q.task = r.task => q = r
    BY <1>1, <1>15 DEF Messages, OneToken
  <2>2. r.task \notin asked BY <1>2, <1>6
  <2>3. ~Alive(r.task)' BY <1>4, <2>1, <2>2 DEF Alive
  <2>4. \A t : t # r.task => (Alive(t)' <=> Alive(t) \/ t \in asked) BY <1>4 DEF Alive
  <2>5. \A p \in pend : p.job = j => Home[p.file] # home
    BY <1>1, <1>2, <1>15 DEF Messages, ScanOver, Alive
  <2>6. pend' = pend \cup entries BY <1>3, <1>4, <2>5
  <2>7. pend \cap entries = {} BY <1>5, <1>7, <2>5
  <2>8. \A t \in asked : ~Alive(t)
    <3> SUFFICES ASSUME NEW t \in asked, Alive(t) PROVE FALSE OBVIOUS
    <3>1. t \in Task /\ t.job = j /\ t.what # "scan" /\ Home[t.on] = home BY <1>3, <1>6
    <3>2. PICK p \in pend : Awaits(p, t) BY <1>1, <1>15, <3>1 DEF Messages, NoStray
    <3> QED BY <2>5, <3>1, <3>2 DEF Awaits
  <2> QED BY <2>3, <2>4, <2>5, <2>6, <2>7, <2>8
<1>16. OneToken'
  <2> SUFFICES ASSUME NEW q \in results', q.task.job \notin hit
               PROVE  q.task \notin tasks' /\ \A u \in results' : u.task = q.task => u = q
    BY DEF OneToken
  <2>1. q.task \notin tasks /\ \A u \in results : u.task = q.task => u = q
    BY <1>1 DEF Messages, OneToken
  <2>2. q.task \notin asked BY <1>6, <1>15 DEF Alive
  <2> QED BY <1>4, <2>1, <2>2
<1>17. Quiet(hit \cup {j})
  <2>1. \A p : p.job \notin hit \cup {j} => (p \in pend' <=> p \in pend) BY <1>5, <1>8
  <2> QED BY <1>4, <1>14, <2>1 DEF Quiet
<1>18. OverOutside(hit)'
  <2> SUFFICES ASSUME NEW p \in pend', p.job \notin hit
               PROVE  ~Alive(ScanOf(p.job, Home[p.file]))'
    BY DEF OverOutside
  <2>1. CASE p.job # j BY <1>1, <1>17, <2>1, QuietOutside
  <2>2. CASE p.job = j /\ p \in entries BY <1>2, <1>7, <1>15, <2>2
  <2>3. CASE p.job = j /\ p \in pend
    <3>1. ~Alive(ScanOf(j, Home[p.file])) BY <1>1, <2>3 DEF Messages, ScanOver
    <3>2. ScanOf(j, Home[p.file]) \notin asked BY <1>6 DEF ScanOf
    <3>3. ScanOf(j, Home[p.file]) # r.task BY <1>2, <1>15, <2>3 DEF ScanOf
    <3> QED BY <1>15, <2>3, <3>1, <3>2, <3>3
  <2> QED BY <1>8, <2>1, <2>2, <2>3
<1>19. StrayOutside(hit)'
  <2> SUFFICES ASSUME NEW t \in Task, Alive(t)', t.what # "scan", t.job \notin hit
               PROVE  \E p \in pend' : Awaits(p, t)
    BY DEF StrayOutside
  <2>1. CASE t.job # j BY <1>1, <1>17, <2>1, QuietOutside
  <2>2. CASE t.job = j /\ t \in asked
    <3>1. PICK x \in new : t.on = x.file BY <1>6, <2>2
    <3>2. PICK p \in entries : p.file = x.file BY <1>5
    <3>3. Awaits(p, t) BY <1>5, <1>6, <2>2, <3>1, <3>2 DEF Awaits
    <3> QED BY <1>4, <3>3
  <2>3. CASE t.job = j /\ t \notin asked
    <3>1. Alive(t) BY <1>15, <2>3
    <3>2. PICK p \in pend : Awaits(p, t) BY <1>1, <2>3, <3>1 DEF Messages, NoStray
    <3> QED BY <1>15, <2>3, <3>2
  <2> QED BY <2>1, <2>2, <2>3
<1>20. StuckOutside(hit)'
  <2> SUFFICES ASSUME NEW p \in pend', p.job \notin hit, NEW what \in {"probe", "hash"},
                      Lacks(p, what)
               PROVE  Alive([job |-> p.job, what |-> what, on |-> p.file])'
    BY DEF StuckOutside
  <2>1. CASE p.job # j
    <3>1. \A q \in pend' : q.job \notin hit \cup {j} => \A w \in {"probe", "hash"} :
            Lacks(q, w) => Alive([job |-> q.job, what |-> w, on |-> q.file])'
      BY <1>1, <1>17, QuietOutside
    <3> QED BY <2>1, <3>1
  <2>2. CASE p.job = j /\ p \in entries
    <3>1. [job |-> j, what |-> what, on |-> p.file] \in asked BY <1>5, <1>6, <2>2
    <3> QED BY <1>4, <2>2, <3>1 DEF Alive
  <2>3. CASE p.job = j /\ p \in pend
    <3>1. Alive([job |-> j, what |-> what, on |-> p.file])
      BY <1>1, <2>3, NotStuck DEF Messages
    <3>2. [job |-> j, what |-> what, on |-> p.file] # r.task BY <1>2 DEF ScanOf
    <3> QED BY <1>15, <2>3, <3>1, <3>2
  <2> QED BY <1>8, <2>1, <2>2, <2>3
<1>21. ASSUME j \in DOMAIN jobs, j \notin hit
       PROVE  /\ Cardinality(PendOf(j)') = Cardinality(PendOf(j)) + Cardinality(new)
              /\ PendOf(j)' = {} <=> PendOf(j) = {} /\ new = {}
              /\ Cardinality(ScansLeft(j)') = Cardinality(ScansLeft(j)) - 1
              /\ Cardinality(PendOf(j)) \in Nat /\ Cardinality(ScansLeft(j)) \in Nat
              /\ Cardinality(Entities[j]) \in Nat
  <2>1. IsFiniteSet(PendOf(j)) /\ Cardinality(PendOf(j)) \in Nat BY <1>1, CountsFinite
  <2>2. PendOf(j)' = PendOf(j) \cup entries /\ PendOf(j) \cap entries = {}
    BY <1>5, <1>15, <1>21 DEF PendOf
  <2>3. Cardinality(PendOf(j) \cap entries) = 0 BY <2>2, FS_EmptySet
  <2>4. Cardinality(PendOf(j) \cup entries)
          = Cardinality(PendOf(j)) + Cardinality(entries) - Cardinality(PendOf(j) \cap entries)
    BY <1>5, <2>1, FS_Union
  <2>5. Cardinality(PendOf(j)') = Cardinality(PendOf(j)) + Cardinality(new)
    BY <1>5, <2>1, <2>2, <2>3, <2>4
  <2>6. PendOf(j)' = {} <=> PendOf(j) = {} /\ new = {} BY <1>5, <2>2
  <2>7. /\ IsFiniteSet(ScansLeft(j)) /\ Cardinality(ScansLeft(j)) \in Nat BY <1>2, LeftFinite
  <2>8. home \in ScansLeft(j) BY <1>2 DEF ScansLeft, Alive
  <2>9. ScansLeft(j)' = ScansLeft(j) \ {home}
    <3>1. \A x : x # home => ScanOf(j, x) # r.task BY <1>2 DEF ScanOf
    <3>2. \A x : ScanOf(j, x) \notin asked BY <1>6 DEF ScanOf
    <3>3. \A x : x # home => (Alive(ScanOf(j, x))' <=> Alive(ScanOf(j, x)))
      BY <1>15, <1>21, <3>1, <3>2
    <3>4. ~Alive(ScanOf(j, home))' BY <1>2, <1>15, <1>21
    <3> QED BY <3>3, <3>4 DEF ScansLeft
  <2>10. Cardinality(ScansLeft(j)') = Cardinality(ScansLeft(j)) - 1
    <3>1. Cardinality(ScansLeft(j) \ {home}) = Cardinality(ScansLeft(j)) - 1
      BY <2>7, <2>8, FS_RemoveElement
    <3> QED BY <2>9, <3>1
  <2> QED BY <1>2, <2>1, <2>5, <2>6, <2>7, <2>10, ConstantFacts
<1>22. ProgressOutside(hit)'
  <2> SUFFICES ASSUME NEW i \in DOMAIN jobs', i \notin hit
               PROVE  jobs'[i].total = jobs'[i].done + Cardinality(PendOf(i)')
    BY DEF ProgressOutside
  <2>1. CASE i # j BY <1>1, <1>17, <2>1, QuietOutside
  <2>2. CASE i = j
    <3>1. j \in DOMAIN jobs /\ j \notin hit BY <1>4, <2>2
    <3>2. jobs[j].total = jobs[j].done + Cardinality(PendOf(j))
      BY <1>1, <3>1 DEF Counts, ProgressExact, PendOf
    <3>3. jobs[j].total \in Nat /\ jobs[j].done \in Nat BY <1>1, <3>1, JobsTyped
    <3>4. jobs'[j].total = jobs[j].total + Cardinality(new) /\ jobs'[j].done = jobs[j].done
      BY <1>4, <3>1
    <3> QED BY <1>5, <1>21, <2>2, <3>1, <3>2, <3>3, <3>4
  <2> QED BY <2>1, <2>2
<1>23. BudgetOutside(hit)'
  <2> SUFFICES ASSUME NEW i \in DOMAIN jobs', i \notin hit
               PROVE  /\ jobs'[i].received + Cardinality(ScansLeft(i)')
                           + (IF PendOf(i)' = {} THEN 0 ELSE 1) <= Cardinality(Entities[i])
                      /\ jobs'[i].completed => jobs'[i].received >= Cardinality(Entities[i])
    BY DEF BudgetOutside
  <2>1. CASE i # j BY <1>1, <1>17, <2>1, QuietOutside
  <2>2. CASE i = j
    <3>1. j \in DOMAIN jobs /\ j \notin hit BY <1>4, <2>2
    <3>2. /\ jobs[j].received + Cardinality(ScansLeft(j)) + (IF PendOf(j) = {} THEN 0 ELSE 1)
               <= Cardinality(Entities[j])
          /\ jobs[j].completed => jobs[j].received >= Cardinality(Entities[j])
      BY <1>1, <3>1 DEF Counts, Budget
    <3>3. jobs[j].received \in Nat BY <1>1, <3>1, JobsTyped
    <3>4. /\ jobs'[j].received = jobs[j].received + (IF new = {} THEN 1 ELSE 0)
          /\ jobs'[j].completed =>
               jobs[j].completed \/ jobs'[j].received >= Cardinality(Entities[j])
      BY <1>4, <3>1
    <3>5. /\ PendOf(j)' = {} <=> PendOf(j) = {} /\ new = {}
          /\ Cardinality(ScansLeft(j)') = Cardinality(ScansLeft(j)) - 1
          /\ Cardinality(ScansLeft(j)) \in Nat /\ Cardinality(Entities[j]) \in Nat
      BY <1>21, <3>1
    <3>6. CASE new = {} BY <2>2, <3>2, <3>3, <3>4, <3>5, <3>6
    <3>7. CASE new # {} BY <2>2, <3>2, <3>3, <3>4, <3>5, <3>7
    <3> QED BY <3>6, <3>7
  <2> QED BY <2>1, <2>2
<1>24. Outside(hit)' BY <1>18, <1>19, <1>20, <1>22, <1>23 DEF Outside
<1>25. Outside(hit)' <=> ScanOver' /\ NoStray' /\ FilesNotStuck' /\ Counts'
  BY Inside, PTL
<1>26. Messages' /\ Counts' BY <1>16, <1>24, <1>25 DEF Messages
<1>27. /\ DOMAIN jobs' \subseteq sent' \cap Listed
       /\ \A i \in DOMAIN jobs' : jobs'[i] \in N
  BY <1>1, <1>4 DEF TypeOK
<1> QED BY <1>9, <1>10, <1>11, <1>12, <1>13, <1>26, <1>27 DEF Booked

\* An answer for a file leaves the consumer; its job's other messages stay.
LEMMA AnswerFacts ==
  ASSUME IInv, NEW r \in results, r.task.what # "scan", results' = results \ {r},
         UNCHANGED <<tasks, sent, hit>>
  PROVE  /\ r.task \in Task /\ r.task.job \in Job /\ r.task.what \in {"probe", "hash"}
         /\ r.task.on \in File /\ r.answer \in Answer /\ r.answer # "no"
         /\ \A t : Alive(t)' => Alive(t)
         /\ \A t : t # r.task /\ Alive(t) => Alive(t)'
         /\ r.task.job \notin hit => ~Alive(r.task)'
         /\ tasks' \subseteq Task /\ results' \subseteq Result
         /\ Listings' /\ OneToken'
         /\ \A j : ScansLeft(j)' = ScansLeft(j)
<1>1. TypeOK /\ Listings /\ OneToken BY DEF IInv, Messages
<1>2. r \in Result /\ r.task \in Task BY <1>1 DEF TypeOK, Result
<1>3. /\ r.task.job \in Job /\ r.task.what \in {"probe", "hash"} /\ r.task.on \in File
      /\ r.answer \in Answer /\ r.answer # "no"
  BY <1>1, <1>2, TaskKinds DEF Result, Listings
<1>4. \A t : Alive(t)' => Alive(t) BY DEF Alive
<1>5. \A t : t # r.task /\ Alive(t) => Alive(t)' BY DEF Alive
<1>6. r.task.job \notin hit => ~Alive(r.task)' BY <1>1 DEF OneToken, Alive
<1>7. tasks' \subseteq Task /\ results' \subseteq Result BY <1>1 DEF TypeOK
<1>8. Listings' BY <1>1 DEF Listings
<1>9. OneToken' BY <1>1 DEF OneToken
<1>10. ASSUME NEW j PROVE ScansLeft(j)' = ScansLeft(j)
  <2>1. \A e : ScanOf(j, e) # r.task BY DEF ScanOf
  <2> QED BY <1>4, <1>5, <2>1 DEF ScansLeft
<1> QED BY <1>2, <1>3, <1>4, <1>5, <1>6, <1>7, <1>8, <1>9, <1>10

LEMMA AnswerIgnored ==
  ASSUME IInv, NEW r \in results, r.task.what # "scan", results' = results \ {r},
         UNCHANGED <<tasks, sent, hit>>, WaitingFor(r) = {}, UNCHANGED <<jobs, pend>>
  PROVE  Booked'
<1>1. TypeOK /\ Finite /\ Sent /\ Waiting /\ Messages /\ Counts BY DEF IInv
<1>2. /\ r.task \in Task /\ \A t : Alive(t)' => Alive(t)
      /\ \A t : t # r.task /\ Alive(t) => Alive(t)'
      /\ tasks' \subseteq Task /\ results' \subseteq Result /\ Listings' /\ OneToken'
  BY AnswerFacts
<1>3. r.task.job \in hit
  <2> SUFFICES ASSUME r.task.job \notin hit PROVE FALSE OBVIOUS
  <2>1. PICK p \in pend : Awaits(p, r.task) BY <1>1, <1>2 DEF Messages, NoStray, Alive
  <2> QED BY <2>1 DEF Awaits, WaitingFor
<1>4. Quiet(hit') BY <1>2, <1>3 DEF Quiet
<1>5. ScanOver' /\ NoStray' /\ FilesNotStuck' /\ Counts' BY <1>1, <1>4, QuietStep
<1>6. Sent' /\ Waiting' BY <1>1 DEF Sent, Requested, Waiting
<1>7. /\ DOMAIN jobs' \subseteq sent' \cap Listed
      /\ \A i \in DOMAIN jobs' :
           jobs'[i] \in [received : Nat, completed : BOOLEAN, total : Nat, done : Nat]
      /\ pend' \subseteq Pending
  BY <1>1 DEF TypeOK
<1> QED BY <1>1, <1>2, <1>5, <1>6, <1>7 DEF Booked, Messages, Finite

LEMMA AnsweredFacts ==
  ASSUME TypeOK, NEW r, r.task.what \in {"probe", "hash"}, r.answer \in Answer,
         r.answer # "no", NEW p \in WaitingFor(r)
  PROVE  LET a == Answered(p, r) IN
         /\ p \in pend /\ p \in Pending /\ p.job = r.task.job /\ p.file = r.task.on
         /\ a \in Pending
         /\ a.job = p.job /\ a.file = p.file /\ a.entity = p.entity /\ a.size = p.size
         /\ ~Lacks(a, r.task.what)
         /\ \A what \in {"probe", "hash"} : what # r.task.what => (Lacks(a, what) <=> Lacks(p, what))
         /\ FileReady(a) => \A what \in {"probe", "hash"} : what # r.task.what => ~Lacks(p, what)
<1>1. p \in pend /\ p \in Pending /\ p.job = r.task.job /\ p.file = r.task.on
  BY DEF WaitingFor, TypeOK
<1>2. p = [job |-> p.job, file |-> p.file, size |-> p.size, entity |-> p.entity,
           probe |-> p.probe, hash |-> p.hash]
  BY <1>1 DEF Pending
<1>3. CASE r.task.what = "probe"
  <2>1. Answered(p, r) = [job |-> p.job, file |-> p.file, size |-> p.size,
                          entity |-> p.entity, probe |-> r.answer, hash |-> p.hash]
    BY <1>2, <1>3 DEF Answered
  <2> QED BY <1>1, <1>3, <2>1 DEF Pending, Lacks, FileReady
<1>4. CASE r.task.what = "hash"
  <2>1. Answered(p, r) = [job |-> p.job, file |-> p.file, size |-> p.size,
                          entity |-> p.entity, probe |-> p.probe, hash |-> r.answer]
    BY <1>2, <1>4 DEF Answered
  <2> QED BY <1>1, <1>4, <2>1 DEF Pending, Lacks, FileReady
<1> QED BY <1>3, <1>4

LEMMA AnswerKept ==
  ASSUME IInv, NEW r \in results, r.task.what # "scan", results' = results \ {r},
         UNCHANGED <<tasks, sent, hit, jobs>>,
         NEW p \in WaitingFor(r), pend' = (pend \ {p}) \cup {Answered(p, r)}
  PROVE  Booked'
<1> DEFINE a == Answered(p, r)
           j == r.task.job
<1>1. TypeOK /\ Finite /\ Sent /\ Waiting /\ Messages /\ Counts BY DEF IInv
<1>2. /\ r.task \in Task /\ r.task.job \in Job /\ r.task.what \in {"probe", "hash"}
      /\ r.task.on \in File /\ r.answer \in Answer /\ r.answer # "no"
      /\ \A t : Alive(t)' => Alive(t)
      /\ \A t : t # r.task /\ Alive(t) => Alive(t)'
      /\ r.task.job \notin hit => ~Alive(r.task)'
      /\ tasks' \subseteq Task /\ results' \subseteq Result
      /\ Listings' /\ OneToken'
      /\ \A i : ScansLeft(i)' = ScansLeft(i)
  BY AnswerFacts
<1>3. /\ p \in pend /\ p \in Pending /\ p.job = j /\ p.file = r.task.on
      /\ a \in Pending
      /\ a.job = p.job /\ a.file = p.file /\ a.entity = p.entity
      /\ ~Lacks(a, r.task.what)
      /\ \A what \in {"probe", "hash"} : what # r.task.what => (Lacks(a, what) <=> Lacks(p, what))
  BY <1>1, <1>2, AnsweredFacts
<1>4. pend' = (pend \ {p}) \cup {a} OBVIOUS
<1> HIDE DEF a
<1>5. \A q \in pend : q.job = p.job /\ q.file = p.file => q = p BY <1>1, <1>3 DEF Waiting
<1>6. IsFiniteSet(pend')
  <2>1. IsFiniteSet(pend \ {p}) BY <1>1, FS_RemoveElement DEF Finite
  <2>2. IsFiniteSet((pend \ {p}) \cup {a}) BY <2>1, FS_AddElement
  <2> QED BY <1>4, <2>2
<1>7. pend' \subseteq Pending BY <1>1, <1>3, <1>4 DEF TypeOK
<1>8. Sent'
  <2>1. \A q \in pend' : q.job \in sent BY <1>1, <1>3, <1>4 DEF Sent
  <2> QED BY <1>1, <2>1 DEF Sent, Requested
<1>9. Waiting'
  <2>1. \A q \in pend' : q.entity \in Movie => Home[q.file] = q.entity
    BY <1>1, <1>3, <1>4 DEF Waiting
  <2>2. ASSUME NEW q \in pend', NEW u \in pend', q.job = u.job, q.file = u.file PROVE q = u
    <3>1. CASE q = a /\ u = a BY <3>1
    <3>2. CASE q \in pend \ {p} /\ u \in pend \ {p} BY <1>1, <2>2, <3>2 DEF Waiting
    <3>3. CASE q = a /\ u \in pend \ {p} BY <1>3, <1>5, <2>2, <3>3
    <3>4. CASE q \in pend \ {p} /\ u = a BY <1>3, <1>5, <2>2, <3>4
    <3> QED BY <1>4, <3>1, <3>2, <3>3, <3>4
  <2> QED BY <2>1, <2>2 DEF Waiting
<1>10. OverOutside(hit)'
  <2> SUFFICES ASSUME NEW q \in pend', q.job \notin hit
               PROVE  ~Alive(ScanOf(q.job, Home[q.file]))'
    BY DEF OverOutside
  <2>1. PICK u \in pend : u.job = q.job /\ u.file = q.file BY <1>3, <1>4
  <2>2. ~Alive(ScanOf(u.job, Home[u.file])) BY <1>1, <2>1 DEF Messages, ScanOver
  <2> QED BY <1>2, <2>1, <2>2
<1>11. StrayOutside(hit)'
  <2> SUFFICES ASSUME NEW t \in Task, Alive(t)', t.what # "scan", t.job \notin hit
               PROVE  \E q \in pend' : Awaits(q, t)
    BY DEF StrayOutside
  <2>1. PICK q \in pend : Awaits(q, t) BY <1>1, <1>2 DEF Messages, NoStray
  <2>2. CASE q # p BY <1>4, <2>1, <2>2
  <2>3. CASE q = p
    <3>1. t.job = j /\ t.on = r.task.on /\ Lacks(p, t.what) BY <1>3, <2>1, <2>3 DEF Awaits
    <3>2. t # r.task BY <1>2, <3>1
    <3>3. t.what \in {"probe", "hash"} /\ t.what # r.task.what
      BY <1>2, <3>1, <3>2, TaskKinds
    <3>4. Awaits(a, t) BY <1>3, <3>1, <3>3 DEF Awaits
    <3> QED BY <1>4, <3>4
  <2> QED BY <2>2, <2>3
<1>12. StuckOutside(hit)'
  <2> SUFFICES ASSUME NEW q \in pend', q.job \notin hit, NEW what \in {"probe", "hash"},
                      Lacks(q, what)
               PROVE  Alive([job |-> q.job, what |-> what, on |-> q.file])'
    BY DEF StuckOutside
  <2>1. PICK u \in pend : u.job = q.job /\ u.file = q.file /\ Lacks(u, what)
                           /\ (u = p => what # r.task.what)
    <3>1. CASE q = a BY <1>3, <3>1
    <3>2. CASE q \in pend \ {p} BY <3>2
    <3> QED BY <1>4, <3>1, <3>2
  <2>2. Alive([job |-> u.job, what |-> what, on |-> u.file])
    BY <1>1, <2>1, NotStuck DEF Messages
  <2>3. [job |-> u.job, what |-> what, on |-> u.file] # r.task BY <1>3, <1>5, <2>1
  <2> QED BY <1>2, <2>1, <2>2, <2>3
<1>13. \A i : i # j => PendOf(i)' = PendOf(i) BY <1>3, <1>4 DEF PendOf
<1>14. Cardinality(PendOf(j)') = Cardinality(PendOf(j)) /\ PendOf(j)' # {} /\ PendOf(j) # {}
  <2>1. IsFiniteSet(PendOf(j)) /\ Cardinality(PendOf(j)) \in Nat BY <1>1, CountsFinite
  <2>2. p \in PendOf(j) BY <1>3 DEF PendOf
  <2>3. PendOf(j)' = (PendOf(j) \ {p}) \cup {a} BY <1>3, <1>4 DEF PendOf
  <2>4. a \notin PendOf(j) \ {p} BY <1>3, <1>5 DEF PendOf
  <2>5. /\ IsFiniteSet(PendOf(j) \ {p})
        /\ Cardinality(PendOf(j) \ {p}) = Cardinality(PendOf(j)) - 1
    BY <2>1, <2>2, FS_RemoveElement
  <2>6. Cardinality((PendOf(j) \ {p}) \cup {a}) = Cardinality(PendOf(j) \ {p}) + 1
    BY <2>4, <2>5, FS_AddElement
  <2> QED BY <2>1, <2>2, <2>3, <2>5, <2>6
<1>15. \A i : /\ Cardinality(PendOf(i)') = Cardinality(PendOf(i))
              /\ PendOf(i)' = {} <=> PendOf(i) = {}
  BY <1>13, <1>14
<1>16. ProgressOutside(hit)'
  <2>1. \A i \in DOMAIN jobs \ hit : jobs[i].total = jobs[i].done + Cardinality(PendOf(i))
    BY <1>1 DEF Counts, ProgressExact, PendOf
  <2> QED BY <1>15, <2>1 DEF ProgressOutside
<1>17. BudgetOutside(hit)' BY <1>1, <1>2, <1>15 DEF BudgetOutside, Counts, Budget
<1>18. Outside(hit)' BY <1>10, <1>11, <1>12, <1>16, <1>17 DEF Outside
<1>19. Outside(hit)' <=> ScanOver' /\ NoStray' /\ FilesNotStuck' /\ Counts' BY Inside, PTL
<1>20. Messages' /\ Counts' BY <1>2, <1>18, <1>19 DEF Messages
<1>21. /\ DOMAIN jobs' \subseteq sent' \cap Listed
       /\ \A i \in DOMAIN jobs' :
            jobs'[i] \in [received : Nat, completed : BOOLEAN, total : Nat, done : Nat]
  BY <1>1 DEF TypeOK
<1> QED BY <1>2, <1>6, <1>7, <1>8, <1>9, <1>20, <1>21 DEF Booked

\* What becomes of the job when a file of it is done.
LEMMA AfterFileFacts ==
  ASSUME TypeOK, NEW j, jobs' = AfterFile(j)
  PROVE  /\ DOMAIN jobs' = DOMAIN jobs
         /\ \A i \in DOMAIN jobs :
              /\ jobs'[i] \in [received : Nat, completed : BOOLEAN, total : Nat, done : Nat]
              /\ i # j => jobs'[i] = jobs[i]
         /\ j \in DOMAIN jobs =>
              /\ jobs'[j].total = jobs[j].total /\ jobs'[j].done = jobs[j].done + 1
              /\ jobs'[j].received = jobs[j].received + (IF PendOf(j)' = {} THEN 1 ELSE 0)
              /\ jobs'[j].completed =>
                   jobs[j].completed \/ jobs'[j].received >= Cardinality(Entities[j])
<1> DEFINE N == [received : Nat, completed : BOOLEAN, total : Nat, done : Nat]
           js == CountDone(jobs, j)
<1>1. \A i \in DOMAIN jobs : jobs[i] \in N BY DEF TypeOK
<1>2. /\ DOMAIN js = DOMAIN jobs
      /\ \A i \in DOMAIN jobs : js[i] \in N /\ (i # j => js[i] = jobs[i])
      /\ j \in DOMAIN jobs =>
           /\ js[j].total = jobs[j].total /\ js[j].done = jobs[j].done + 1
           /\ js[j].received = jobs[j].received /\ js[j].completed = jobs[j].completed
  <2>1. CASE j \notin DOMAIN jobs BY <1>1, <2>1 DEF CountDone
  <2>2. CASE j \in DOMAIN jobs
    <3> DEFINE n == jobs[j].done + 1
    <3>1. js = [jobs EXCEPT ![j].done = n] BY <2>2 DEF CountDone
    <3>2. jobs[j] \in N BY <1>1, <2>2
    <3>3. jobs[j] = [received |-> jobs[j].received, completed |-> jobs[j].completed,
                     total |-> jobs[j].total, done |-> jobs[j].done]
      BY <3>2
    <3>4. js[j] = [received |-> jobs[j].received, completed |-> jobs[j].completed,
                   total |-> jobs[j].total, done |-> n]
      BY <2>2, <3>1, <3>3
    <3>5. n \in Nat /\ jobs[j].received \in Nat /\ jobs[j].total \in Nat BY <3>2
    <3>6. jobs[j].completed \in BOOLEAN BY <3>2
    <3>7. DOMAIN js = DOMAIN jobs /\ \A i \in DOMAIN jobs : i # j => js[i] = jobs[i]
      BY <2>2, <3>1
    <3> HIDE DEF n, js
    <3>8. js[j] \in N BY <3>4, <3>5, <3>6
    <3>9. /\ js[j].total = jobs[j].total /\ js[j].done = n
          /\ js[j].received = jobs[j].received /\ js[j].completed = jobs[j].completed
      BY <3>4
    <3> QED BY <1>1, <3>7, <3>8, <3>9 DEF n
  <2> QED BY <2>1, <2>2
<1>3. jobs' = IF PendOf(j)' = {} THEN MarkReceived(js, j) ELSE js BY DEF AfterFile, PendOf
<1>4. j \in DOMAIN jobs => jobs[j].received + 0 = jobs[j].received
  BY <1>1
<1> HIDE DEF js
<1>5. CASE PendOf(j)' = {}
  <2>1. /\ DOMAIN MarkReceived(js, j) = DOMAIN js
        /\ \A i \in DOMAIN js : /\ MarkReceived(js, j)[i] \in N
                                /\ i # j => MarkReceived(js, j)[i] = js[i]
        /\ j \in DOMAIN js =>
             /\ MarkReceived(js, j)[j].received = js[j].received + 1
             /\ MarkReceived(js, j)[j].total = js[j].total
             /\ MarkReceived(js, j)[j].done = js[j].done
             /\ MarkReceived(js, j)[j].completed =>
                  js[j].completed \/ js[j].received + 1 >= Cardinality(Entities[j])
    BY <1>2, MarkFacts
  <2> QED BY <1>2, <1>3, <1>5, <2>1
<1>6. CASE PendOf(j)' # {} BY <1>2, <1>3, <1>4, <1>6
<1> QED BY <1>5, <1>6

\* The second answer for a file: its entry goes, and with the last one a result
\* of the job is received.
LEMMA FileDone ==
  ASSUME IInv, NEW r \in results, r.task.what # "scan", results' = results \ {r},
         UNCHANGED <<tasks, sent, hit>>,
         NEW p \in WaitingFor(r), FileReady(Answered(p, r)),
         pend' = pend \ {p}, jobs' = AfterFile(p.job)
  PROVE  Booked'
<1> DEFINE j == r.task.job
<1>1. TypeOK /\ Finite /\ Sent /\ Waiting /\ Messages /\ Counts BY DEF IInv
<1>2. /\ r.task \in Task /\ r.task.job \in Job /\ r.task.what \in {"probe", "hash"}
      /\ r.task.on \in File /\ r.answer \in Answer /\ r.answer # "no"
      /\ \A t : Alive(t)' => Alive(t)
      /\ \A t : t # r.task /\ Alive(t) => Alive(t)'
      /\ r.task.job \notin hit => ~Alive(r.task)'
      /\ tasks' \subseteq Task /\ results' \subseteq Result
      /\ Listings' /\ OneToken'
      /\ \A i : ScansLeft(i)' = ScansLeft(i)
  BY AnswerFacts
<1>3. /\ p \in pend /\ p \in Pending /\ p.job = j /\ p.file = r.task.on
      /\ \A what \in {"probe", "hash"} : what # r.task.what => ~Lacks(p, what)
  BY <1>1, <1>2, AnsweredFacts
<1>4. /\ DOMAIN jobs' = DOMAIN jobs
      /\ \A i \in DOMAIN jobs :
           /\ jobs'[i] \in [received : Nat, completed : BOOLEAN, total : Nat, done : Nat]
           /\ i # j => jobs'[i] = jobs[i]
      /\ j \in DOMAIN jobs =>
           /\ jobs'[j].total = jobs[j].total /\ jobs'[j].done = jobs[j].done + 1
           /\ jobs'[j].received = jobs[j].received + (IF PendOf(j)' = {} THEN 1 ELSE 0)
           /\ jobs'[j].completed =>
                jobs[j].completed \/ jobs'[j].received >= Cardinality(Entities[j])
  BY <1>1, <1>3, AfterFileFacts
<1>5. \A q \in pend : q.job = p.job /\ q.file = p.file => q = p BY <1>1, <1>3 DEF Waiting
<1>6. IsFiniteSet(pend') BY <1>1, FS_RemoveElement DEF Finite
<1>7. pend' \subseteq Pending BY <1>1 DEF TypeOK
<1>8. Sent' BY <1>1 DEF Sent, Requested
<1>9. Waiting' BY <1>1 DEF Waiting
<1>10. OverOutside(hit)' BY <1>1, <1>2 DEF OverOutside, Messages, ScanOver
<1>11. StrayOutside(hit)'
  <2> SUFFICES ASSUME NEW t \in Task, Alive(t)', t.what # "scan", t.job \notin hit
               PROVE  \E q \in pend' : Awaits(q, t)
    BY DEF StrayOutside
  <2>1. PICK q \in pend : Awaits(q, t) BY <1>1, <1>2 DEF Messages, NoStray
  <2>2. ASSUME q = p PROVE FALSE
    <3>1. t.job = j /\ t.on = r.task.on /\ Lacks(p, t.what) BY <1>3, <2>1, <2>2 DEF Awaits
    <3>2. t # r.task BY <1>2, <3>1
    <3>3. t.what \in {"probe", "hash"} /\ t.what # r.task.what
      BY <1>2, <3>1, <3>2, TaskKinds
    <3> QED BY <1>3, <3>1, <3>3
  <2> QED BY <2>1, <2>2
<1>12. StuckOutside(hit)'
  <2> SUFFICES ASSUME NEW q \in pend', q.job \notin hit, NEW what \in {"probe", "hash"},
                      Lacks(q, what)
               PROVE  Alive([job |-> q.job, what |-> what, on |-> q.file])'
    BY DEF StuckOutside
  <2>1. Alive([job |-> q.job, what |-> what, on |-> q.file])
    BY <1>1, NotStuck DEF Messages
  <2>2. [job |-> q.job, what |-> what, on |-> q.file] # r.task BY <1>3, <1>5
  <2> QED BY <1>2, <2>1, <2>2
<1>13. \A i : i # j => PendOf(i)' = PendOf(i) BY <1>3 DEF PendOf
<1>14. /\ PendOf(j) # {} /\ Cardinality(PendOf(j)) \in Nat
       /\ Cardinality(PendOf(j)') = Cardinality(PendOf(j)) - 1
  <2>1. IsFiniteSet(PendOf(j)) /\ Cardinality(PendOf(j)) \in Nat BY <1>1, CountsFinite
  <2>2. p \in PendOf(j) BY <1>3 DEF PendOf
  <2>3. PendOf(j)' = PendOf(j) \ {p} BY <1>3 DEF PendOf
  <2>4. Cardinality(PendOf(j) \ {p}) = Cardinality(PendOf(j)) - 1
    BY <2>1, <2>2, FS_RemoveElement
  <2> QED BY <2>1, <2>2, <2>3, <2>4
<1>15. ProgressOutside(hit)'
  <2> SUFFICES ASSUME NEW i \in DOMAIN jobs', i \notin hit
               PROVE  jobs'[i].total = jobs'[i].done + Cardinality(PendOf(i)')
    BY DEF ProgressOutside
  <2>1. jobs[i].total = jobs[i].done + Cardinality(PendOf(i))
    BY <1>1, <1>4 DEF Counts, ProgressExact, PendOf
  <2>2. CASE i # j BY <1>4, <1>13, <2>1, <2>2
  <2>3. CASE i = j
    <3>1. jobs[j].total \in Nat /\ jobs[j].done \in Nat BY <1>1, <1>4, <2>3, JobsTyped
    <3> QED BY <1>4, <1>14, <2>1, <2>3, <3>1
  <2> QED BY <2>2, <2>3
<1>16. BudgetOutside(hit)'
  <2> SUFFICES ASSUME NEW i \in DOMAIN jobs', i \notin hit
               PROVE  /\ jobs'[i].received + Cardinality(ScansLeft(i)')
                           + (IF PendOf(i)' = {} THEN 0 ELSE 1) <= Cardinality(Entities[i])
                      /\ jobs'[i].completed => jobs'[i].received >= Cardinality(Entities[i])
    BY DEF BudgetOutside
  <2>1. /\ jobs[i].received + Cardinality(ScansLeft(i)) + (IF PendOf(i) = {} THEN 0 ELSE 1)
             <= Cardinality(Entities[i])
        /\ jobs[i].completed => jobs[i].received >= Cardinality(Entities[i])
    BY <1>1, <1>4 DEF Counts, Budget
  <2>2. CASE i # j BY <1>2, <1>4, <1>13, <2>1, <2>2
  <2>3. CASE i = j
    <3>1. /\ j \in DOMAIN jobs /\ jobs[j].received \in Nat
          /\ Cardinality(ScansLeft(j)) \in Nat /\ Cardinality(Entities[j]) \in Nat
      BY <1>1, <1>2, <1>4, <2>3, JobsTyped, LeftFinite, ConstantFacts
    <3>2. /\ jobs'[j].received = jobs[j].received + (IF PendOf(j)' = {} THEN 1 ELSE 0)
          /\ jobs'[j].completed =>
               jobs[j].completed \/ jobs'[j].received >= Cardinality(Entities[j])
      BY <1>4, <3>1
    <3>3. ScansLeft(j)' = ScansLeft(j) BY <1>2
    <3>4. CASE PendOf(j)' = {} BY <1>14, <2>1, <2>3, <3>1, <3>2, <3>3, <3>4
    <3>5. CASE PendOf(j)' # {} BY <1>14, <2>1, <2>3, <3>1, <3>2, <3>3, <3>5
    <3> QED BY <3>4, <3>5
  <2> QED BY <2>2, <2>3
<1>17. Outside(hit)' BY <1>10, <1>11, <1>12, <1>15, <1>16 DEF Outside
<1>18. Outside(hit)' <=> ScanOver' /\ NoStray' /\ FilesNotStuck' /\ Counts' BY Inside, PTL
<1>19. Messages' /\ Counts' BY <1>2, <1>17, <1>18 DEF Messages
<1>20. /\ DOMAIN jobs' \subseteq sent' \cap Listed
       /\ \A i \in DOMAIN jobs' :
            jobs'[i] \in [received : Nat, completed : BOOLEAN, total : Nat, done : Nat]
  BY <1>1, <1>4 DEF TypeOK
<1> QED BY <1>2, <1>6, <1>7, <1>8, <1>9, <1>19, <1>20 DEF Booked

---------------------------------------------------------------------------
(* What the consumer records in the library *)

Catalogued ==
  /\ rows \subseteq Row /\ IsFiniteSet(rows)
  /\ link \in [Episode \cup Movie -> {RowId(r) : r \in rows} \cup {None}]
  /\ Records

LEMMA SameCatalogue == ASSUME Catalogued, UNCHANGED <<rows, link>> PROVE Catalogued'
<1>1. Records' BY SameRecords DEF Catalogued
<1> QED BY <1>1 DEF Catalogued

LEMMA NewRowType ==
  ASSUME NEW f \in File, NEW e \in Entity, NEW size \in Size, NEW copy \in Nat, NEW hashed
  PROVE  LET q == NewRow(f, e, size, f \in hashed, copy) IN
         q \in Row /\ q.file = f /\ q.owner = e /\ q.copy = copy
<1> DEFINE h == f \in hashed
<1>1. h \in BOOLEAN OBVIOUS
<1> HIDE DEF h
<1>2. NewRow(f, e, size, h, copy) = [file |-> f, copy |-> copy, owner |-> e, size |-> size, hash |-> h]
  BY DEF NewRow
<1>3. NewRow(f, e, size, h, copy) \in Row BY <1>1, <1>2 DEF Row
<1> QED BY <1>2, <1>3 DEF h

\* A path gets a row of a series only when it has none, from one entry of the list.
LEMMA EpisodeRows ==
  ASSUME Catalogued, NEW s \in Series, NEW fs, fs \subseteq Found, OneEach(fs),
         NEW hashed, RecordEpisodes(s, fs, hashed)
  PROVE  Catalogued'
<1> DEFINE named == {x \in fs : Episodes[x.file] # {}}
           fresh == {y \in named : RowsOf(y.file) = {}}
           row(x) == NewRow(x.file, s, x.size, x.file \in hashed, 1)
           new == {row(x) : x \in fresh}
<1>1. CASE s \notin library BY <1>1, SameCatalogue DEF RecordEpisodes
<1>2. CASE s \in library
  <2>1. /\ rows' = rows \cup new
        /\ link' \in [DOMAIN link -> {RowId(r) : r \in rows'} \cup {None}]
    <3>1. rows' = RowsWith(s, named, hashed) BY <1>2 DEF RecordEpisodes
    <3>2. link' \in [DOMAIN link -> {RowId(r) : r \in rows'} \cup {None}]
      BY <1>2 DEF RecordEpisodes
    <3> QED BY <3>1, <3>2 DEF RowsWith
  <2>2. DOMAIN link = Episode \cup Movie BY DEF Catalogued
  <2>3. s \in Entity /\ s \notin Movie BY ConstantFacts DEF Entity
  <2>4. ASSUME NEW x \in fresh
        PROVE  /\ row(x) \in Row /\ row(x).file = x.file /\ row(x).owner = s
               /\ Home[x.file] \in Series /\ RowsOf(x.file) = {}
    <3>1. x \in Found /\ Episodes[x.file] # {} /\ RowsOf(x.file) = {} OBVIOUS
    <3>2. x.file \in File /\ x.size \in Size BY <3>1 DEF Found
    <3>3. row(x) \in Row /\ row(x).file = x.file /\ row(x).owner = s
      BY <2>3, <3>2, NewRowType
    <3> QED BY <3>1, <3>2, <3>3, ConstantFacts
  <2>5. \A x, y \in fresh : x.file = y.file => x = y BY DEF OneEach
  <2>6. IsFiniteSet(new)
    <3> DEFINE g == [x \in fresh |-> row(x)]
    <3>1. fresh \in SUBSET Found OBVIOUS
    <3>2. IsFiniteSet(fresh) BY <3>1, FoundFinite, FS_Subset
    <3>3. g \in Surjection(fresh, new) BY DEF Surjection
    <3> HIDE DEF g, fresh, new
    <3> QED BY <3>2, <3>3, FS_Surjection
  <2> HIDE DEF fresh, row
  <2>7. \A q \in new : \E x \in fresh : q = row(x) OBVIOUS
  <2> HIDE DEF new
  <2>8. rows' \subseteq Row BY <2>1, <2>4, <2>7 DEF Catalogued
  <2>9. IsFiniteSet(rows') BY <2>1, <2>6, FS_Union DEF Catalogued
  <2>10. RowHomes' BY <2>1, <2>3, <2>4, <2>7 DEF Catalogued, Records, RowHomes
  <2>11. OneRowPerPath'
    <3> SUFFICES ASSUME NEW r \in rows', NEW q \in rows', r.owner \in Series, r.file = q.file
                 PROVE  r = q
      BY DEF OneRowPerPath
    <3>1. CASE r \in rows /\ q \in rows
      BY <3>1 DEF Catalogued, Records, OneRowPerPath
    <3>2. CASE r \in new /\ q \in rows BY <2>4, <2>7, <3>2 DEF RowsOf
    <3>3. CASE r \in rows /\ q \in new BY <2>4, <2>7, <3>3 DEF RowsOf
    <3>4. CASE r \in new /\ q \in new BY <2>4, <2>5, <2>7, <3>4
    <3> QED BY <2>1, <3>1, <3>2, <3>3, <3>4
  <2> QED BY <2>1, <2>2, <2>8, <2>9, <2>10, <2>11 DEF Catalogued, Records
<1> QED BY <1>1, <1>2

LEMMA UpTo == ASSUME NEW n \in Nat PROVE Cardinality(1 .. n) = n
<1> DEFINE f == [k \in 1 .. n |-> k]
<1>1. f \in Bijection(1 .. n, 1 .. n) BY DEF Bijection, Injection, Surjection, IsInjective
<1>2. ExistsBijection(1 .. n, 1 .. n) BY <1>1 DEF ExistsBijection
<1> QED BY <1>2, FS_CountingElements

\* The copies of a path's rows leave a number free.
LEMMA FreshExists ==
  ASSUME Catalogued, NEW f
  PROVE  FreshCopy(f) \in Nat
<1> DEFINE n == Cardinality(rows) + 1
           T == {r \in rows : r.file = f /\ r.copy \in 1 .. n}
           g == [r \in T |-> r.copy]
<1>1. IsFiniteSet(rows) /\ Cardinality(rows) \in Nat BY FS_CardinalityType DEF Catalogued
<1>2. n \in Nat /\ n > Cardinality(rows) BY <1>1
<1>3. \E k \in 1 .. n : \A r \in RowsOf(f) : r.copy # k
  <2> SUFFICES ASSUME \A k \in 1 .. n : \E r \in RowsOf(f) : r.copy = k PROVE FALSE
    OBVIOUS
  <2>1. T \in SUBSET rows OBVIOUS
  <2>2. IsFiniteSet(T) /\ Cardinality(T) <= Cardinality(rows) /\ Cardinality(T) \in Nat
    BY <1>1, <2>1, FS_Subset, FS_CardinalityType
  <2>3. ASSUME NEW k \in 1 .. n PROVE \E r \in T : r.copy = k BY DEF RowsOf
  <2>4. g \in [T -> 1 .. n] OBVIOUS
  <2>5. \A k \in 1 .. n : \E r \in T : g[r] = k BY <2>3
  <2> HIDE DEF T, g, n
  <2>6. g \in Surjection(T, 1 .. n) BY <2>4, <2>5 DEF Surjection
  <2>7. Cardinality(1 .. n) <= Cardinality(T) BY <2>2, <2>6, FS_Surjection
  <2>8. Cardinality(1 .. n) = n BY <1>2, UpTo
  <2> QED BY <1>1, <1>2, <2>2, <2>7, <2>8
<1>4. FreshCopy(f) \in 1 .. n BY <1>3 DEF FreshCopy
<1> QED BY <1>2, <1>4

\* A row of a movie is of a file of that movie, never of a series' path.
LEMMA MovieRows ==
  ASSUME Catalogued, NEW m \in Movie, NEW x \in Found, Home[x.file] = m,
         NEW hashed, RecordMovie(m, x, hashed)
  PROVE  Catalogued'
<1> DEFINE mine == {r \in rows : r.owner = m}
           new == NewRow(x.file, m, x.size, x.file \in hashed, FreshCopy(x.file))
<1>1. CASE UNCHANGED <<rows, link>> BY <1>1, SameCatalogue
<1>2. ASSUME NEW r \in rows, link' = [link EXCEPT ![m] = RowId(r)], rows' = rows
      PROVE  Catalogued'
  <2>1. Records' BY <1>2, SameRecords DEF Catalogued
  <2> QED BY <1>2, <2>1 DEF Catalogued
<1>3. CASE rows' = rows \cup {new} /\ link' = [link EXCEPT ![m] = RowId(new)]
  <2>1. m \in Entity /\ m \notin Series BY ConstantFacts DEF Entity
  <2>2. x.file \in File /\ x.size \in Size /\ FreshCopy(x.file) \in Nat
    <3>1. FreshCopy(x.file) \in Nat BY FreshExists
    <3> QED BY <3>1 DEF Found
  <2>3. new \in Row /\ new.file = x.file /\ new.owner = m
    <3> DEFINE c == FreshCopy(x.file)
               h == x.file \in hashed
               q == NewRow(x.file, m, x.size, h, c)
    <3>1. h \in BOOLEAN OBVIOUS
    <3> HIDE DEF c, h
    <3>2. c \in Nat BY <2>2 DEF c
    <3>3. q \in Row /\ q.file = x.file /\ q.owner = m BY <2>1, <2>2, <3>1, <3>2 DEF NewRow, Row
    <3> QED BY <3>3 DEF c, h
  <2>4. rows' = rows \cup {new} /\ link' = [link EXCEPT ![m] = RowId(new)] BY <1>3
  <2> HIDE DEF new
  <2>5. rows' \subseteq Row /\ IsFiniteSet(rows') BY <2>3, <2>4, FS_AddElement DEF Catalogued
  <2>6. link' \in [Episode \cup Movie -> {RowId(r) : r \in rows'} \cup {None}]
    BY <2>4 DEF Catalogued
  <2>7. RowHomes' BY <2>1, <2>3, <2>4 DEF Catalogued, Records, RowHomes
  <2>8. OneRowPerPath'
    <3> SUFFICES ASSUME NEW r \in rows', NEW q \in rows', r.owner \in Series, r.file = q.file
                 PROVE  r = q
      BY DEF OneRowPerPath
    <3>1. r \in rows /\ Home[r.file] \in Series
      BY <2>1, <2>3, <2>4 DEF Catalogued, Records, RowHomes
    <3>2. q \in rows BY <2>1, <2>3, <2>4, <3>1
    <3> QED BY <3>1, <3>2 DEF Catalogued, Records, OneRowPerPath
  <2> QED BY <2>5, <2>6, <2>7, <2>8 DEF Catalogued, Records
<1>4. \/ UNCHANGED <<rows, link>>
      \/ \E r \in rows : link' = [link EXCEPT ![m] = RowId(r)] /\ rows' = rows
      \/ rows' = rows \cup {new} /\ link' = [link EXCEPT ![m] = RowId(new)]
  BY DEF RecordMovie
<1> QED BY <1>1, <1>2, <1>3, <1>4

\* A scan's answer is recorded in the library.
LEMMA SeriesRows ==
  ASSUME IInv, NEW j, NEW s \in Series, NEW found, found \subseteq Found, OneEach(found),
         SeriesResult(j, s, found)
  PROVE  Catalogued' /\ DispatchOrMark(j, s, NotKnown(s, found))
<1>1. Catalogued /\ TypeOK BY DEF IInv, Catalogued, Finite, TypeOK
<1>2. CASE found = {}
  <2> DEFINE fallback == {x \in UNION Listing(s) : x.file \in Local}
  <2>1. /\ IF fallback = {} THEN UNCHANGED <<rows, link>>
                            ELSE RecordEpisodes(s, fallback, LocallyHashed(fallback))
        /\ DispatchOrMark(j, s, {})
    BY <1>2 DEF SeriesResult
  <2>2. fallback \subseteq Found /\ OneEach(fallback)
    <3>1. Listing(s) = {{[file |-> f, size |-> disk[f]] : f \in FilesIn(s)}} BY DEF Listing
    <3>2. UNION Listing(s) \in Listing(s) BY <3>1
    <3>3. UNION Listing(s) \subseteq Found /\ OneEach(UNION Listing(s))
      BY <1>1, <3>2, ListingFacts
    <3> QED BY <3>3 DEF OneEach
  <2>3. NotKnown(s, found) = {} BY <1>2 DEF NotKnown
  <2> HIDE DEF fallback
  <2>4. CASE fallback = {} BY <1>1, <2>1, <2>3, <2>4, SameCatalogue
  <2>5. CASE fallback # {} BY <1>1, <2>1, <2>2, <2>3, <2>5, EpisodeRows
  <2> QED BY <2>4, <2>5
<1>3. CASE found # {}
  <2> DEFINE known == found \ NotKnown(s, found)
  <2>1. /\ IF known = {} THEN UNCHANGED <<rows, link>> ELSE RecordEpisodes(s, known, File)
        /\ DispatchOrMark(j, s, NotKnown(s, found))
    BY <1>3 DEF SeriesResult
  <2>2. known \subseteq Found /\ OneEach(known) BY DEF OneEach
  <2> HIDE DEF known
  <2>3. CASE known = {} BY <1>1, <2>1, <2>3, SameCatalogue
  <2>4. CASE known # {} BY <1>1, <2>1, <2>2, <2>4, EpisodeRows
  <2> QED BY <2>1, <2>3, <2>4
<1> QED BY <1>2, <1>3

LEMMA MovieResultRows ==
  ASSUME IInv, NEW j, NEW m \in Movie, NEW found, found \subseteq Found, OneEach(found),
         \A x \in found : Home[x.file] = m, MovieResult(j, m, found)
  PROVE  Catalogued' /\ DispatchOrMark(j, m, NotKnown(m, found))
<1>1. Catalogued /\ TypeOK BY DEF IInv, Catalogued, Finite, TypeOK
<1>2. CASE found = {}
  <2>1. link' = [link EXCEPT ![m] = None] /\ rows' = rows /\ DispatchOrMark(j, m, {})
    BY <1>2 DEF MovieResult
  <2>2. NotKnown(m, found) = {} BY <1>2 DEF NotKnown
  <2>3. Records' BY <1>1, <2>1, SameRecords DEF Catalogued
  <2>4. link' \in [Episode \cup Movie -> {RowId(r) : r \in rows'} \cup {None}]
    BY <1>1, <2>1 DEF Catalogued
  <2>5. Catalogued' BY <1>1, <2>1, <2>3, <2>4 DEF Catalogued
  <2> QED BY <2>1, <2>2, <2>5
<1>3. CASE found # {}
  <2> DEFINE known == found \ NotKnown(m, found)
  <2>1. /\ IF known = {} THEN UNCHANGED <<rows, link>>
                         ELSE \E x \in known : RecordMovie(m, x, File)
        /\ DispatchOrMark(j, m, NotKnown(m, found))
    BY <1>3 DEF MovieResult
  <2>2. CASE known = {}
    <3>1. UNCHANGED <<rows, link>> BY <2>1, <2>2
    <3> QED BY <1>1, <2>1, <3>1, SameCatalogue
  <2>3. CASE known # {}
    <3>1. PICK x \in known : RecordMovie(m, x, File) BY <2>1, <2>3
    <3>2. x \in Found /\ Home[x.file] = m OBVIOUS
    <3>3. Catalogued' BY <1>1, <3>1, <3>2, MovieRows
    <3> QED BY <2>1, <3>3
  <2> QED BY <2>2, <2>3
<1> QED BY <1>2, <1>3

\* Together, all of IInv.
LEMMA Together ==
  ASSUME IInv, Booked', Catalogued', UNCHANGED <<disk, library, sent, faults, hit>>
  PROVE  IInv'
<1>1. TypeOK BY DEF IInv
<1>2. TypeOK' BY <1>1 DEF TypeOK, Booked, Catalogued
<1>3. Finite' BY DEF Finite, Booked, Catalogued
<1> QED BY <1>2, <1>3 DEF IInv, Booked, Catalogued

\* A movie's scan whose job is forgotten, with an id that no series has: the
\* answer is dropped, and no message is left that the job would miss.
LEMMA DroppedBooked ==
  ASSUME IInv, NEW r \in results, r.task.what = "scan", r.task.job \notin DOMAIN jobs,
         results' = results \ {r}, UNCHANGED <<jobs, pend, tasks, sent, hit>>
  PROVE  Booked'
<1>1. TypeOK /\ Finite /\ Sent /\ Listings /\ Waiting /\ Messages /\ Counts BY DEF IInv
<1>2. \A t : Alive(t)' => Alive(t) BY DEF Alive
<1>3. \A t : t # r.task /\ Alive(t) => Alive(t)' BY DEF Alive
<1>4. OverOutside(hit)' BY <1>1, <1>2 DEF OverOutside, Messages, ScanOver
<1>5. StrayOutside(hit)' BY <1>1, <1>2 DEF StrayOutside, Messages, NoStray
<1>6. StuckOutside(hit)'
  <2> SUFFICES ASSUME NEW q \in pend, q.job \notin hit, NEW what \in {"probe", "hash"},
                      Lacks(q, what)
               PROVE  Alive([job |-> q.job, what |-> what, on |-> q.file])'
    BY DEF StuckOutside
  <2>1. Alive([job |-> q.job, what |-> what, on |-> q.file])
    BY <1>1, NotStuck DEF Messages
  <2>2. [job |-> q.job, what |-> what, on |-> q.file] # r.task OBVIOUS
  <2> QED BY <1>3, <2>1, <2>2
<1>7. \A i \in DOMAIN jobs : PendOf(i)' = PendOf(i) /\ ScansLeft(i)' = ScansLeft(i)
  <2> SUFFICES ASSUME NEW i \in DOMAIN jobs
               PROVE  PendOf(i)' = PendOf(i) /\ ScansLeft(i)' = ScansLeft(i)
    OBVIOUS
  <2>1. PendOf(i)' = PendOf(i) BY DEF PendOf
  <2>2. \A e : ScanOf(i, e) # r.task BY DEF ScanOf
  <2>3. ScansLeft(i)' = ScansLeft(i) BY <1>2, <1>3, <2>2 DEF ScansLeft
  <2> QED BY <2>1, <2>3
<1>8. ProgressOutside(hit)'
  <2>1. \A i \in DOMAIN jobs \ hit : jobs[i].total = jobs[i].done + Cardinality(PendOf(i))
    BY <1>1 DEF Counts, ProgressExact, PendOf
  <2> QED BY <1>7, <2>1 DEF ProgressOutside
<1>9. BudgetOutside(hit)' BY <1>1, <1>7 DEF BudgetOutside, Counts, Budget
<1>10. Outside(hit)' BY <1>4, <1>5, <1>6, <1>8, <1>9 DEF Outside
<1>11. Outside(hit)' <=> ScanOver' /\ NoStray' /\ FilesNotStuck' /\ Counts' BY Inside, PTL
<1>12. OneToken' BY <1>1 DEF Messages, OneToken
<1>13. Sent' /\ Waiting' /\ Listings' BY <1>1 DEF Sent, Requested, Waiting, Listings
<1>14. /\ DOMAIN jobs' \subseteq sent' \cap Listed
       /\ \A i \in DOMAIN jobs' :
            jobs'[i] \in [received : Nat, completed : BOOLEAN, total : Nat, done : Nat]
       /\ pend' \subseteq Pending /\ tasks' \subseteq Task /\ results' \subseteq Result
       /\ IsFiniteSet(pend')
  BY <1>1 DEF TypeOK, Finite
<1> QED BY <1>10, <1>11, <1>12, <1>13, <1>14 DEF Booked, Messages

LEMMA ScanStep == ASSUME IInv, NEW r \in results, HandleScan(r) PROVE IInv'
<1> DEFINE j == r.task.job
           e == r.task.on
<1>1. /\ r.task.what = "scan" /\ results' = results \ {r}
      /\ IF e \in Series THEN SeriesResult(j, e, r.found)
         ELSE IF j \in DOMAIN jobs THEN MovieResult(j, e, r.found)
         ELSE IF SeriesWithId[e] # None THEN SeriesResult(j, SeriesWithId[e], r.found)
         ELSE UNCHANGED <<jobs, pend, tasks, rows, link>>
      /\ UNCHANGED <<disk, library, sent, faults, hit>>
  BY DEF HandleScan
<1>2. TypeOK /\ Listings BY DEF IInv
<1>3. r \in Result /\ r.task \in Task BY <1>2 DEF TypeOK, Result
<1>4. e \in Entity /\ r.found \subseteq Found BY <1>1, <1>3, TaskKinds DEF Result
<1>5. OneEach(r.found) /\ \A x \in r.found : Home[x.file] = e BY <1>2 DEF Listings
<1>6. ASSUME NEW s \in Series, SeriesResult(j, s, r.found) PROVE IInv'
  <2>1. Catalogued' /\ DispatchOrMark(j, s, NotKnown(s, r.found))
    BY <1>4, <1>5, <1>6, SeriesRows
  <2>2. s \in Entity /\ s \notin Movie BY ConstantFacts DEF Entity
  <2>3. NotKnown(s, r.found) \subseteq r.found BY DEF NotKnown
  <2>4. UNCHANGED <<sent, hit>> BY <1>1
  <2>5. Booked' BY <1>1, <2>1, <2>2, <2>3, <2>4, ScanBooked
  <2> QED BY <1>1, <2>1, <2>5, Together
<1>7. CASE e \in Series BY <1>1, <1>6, <1>7
<1>8. CASE e \notin Series /\ j \in DOMAIN jobs
  <2>1. e \in Movie BY <1>4, <1>8 DEF Entity
  <2>2. MovieResult(j, e, r.found) BY <1>1, <1>8
  <2>3. Catalogued' /\ DispatchOrMark(j, e, NotKnown(e, r.found))
    BY <1>4, <1>5, <2>1, <2>2, MovieResultRows
  <2>4. NotKnown(e, r.found) \subseteq r.found BY DEF NotKnown
  <2>5. UNCHANGED <<sent, hit>> BY <1>1
  <2>6. Booked' BY <1>1, <1>4, <2>3, <2>4, <2>5, ScanBooked
  <2> QED BY <1>1, <2>3, <2>6, Together
<1>9. CASE e \notin Series /\ j \notin DOMAIN jobs /\ SeriesWithId[e] # None
  <2>1. e \in Movie BY <1>4, <1>9 DEF Entity
  <2>2. SeriesWithId[e] \in Series BY <1>9, <2>1, ConstantFacts
  <2> QED BY <1>1, <1>6, <1>9, <2>2
<1>10. CASE e \notin Series /\ j \notin DOMAIN jobs /\ SeriesWithId[e] = None
  <2>1. UNCHANGED <<jobs, pend, tasks, rows, link>> BY <1>1, <1>10
  <2>2. Catalogued BY DEF IInv, Catalogued, Finite, TypeOK
  <2>3. Catalogued' BY <2>1, <2>2, SameCatalogue
  <2>4. Booked' BY <1>1, <1>10, <2>1, DroppedBooked
  <2> QED BY <1>1, <2>3, <2>4, Together
<1> QED BY <1>7, <1>8, <1>9, <1>10

\* An answer for a file: the second one records the file.
LEMMA FileStep == ASSUME IInv, NEW r \in results, HandleFile(r) PROVE IInv'
<1>1. /\ r.task.what # "scan" /\ results' = results \ {r}
      /\ UNCHANGED <<tasks, disk, library, sent, faults, hit>>
  BY DEF HandleFile
<1>2. TypeOK /\ Waiting BY DEF IInv
<1>3. Catalogued BY DEF IInv, Catalogued, Finite, TypeOK
<1>4. r.task.what \in {"probe", "hash"} /\ r.answer \in Answer /\ r.answer # "no"
  BY <1>1, AnswerFacts
<1>5. CASE WaitingFor(r) = {} /\ UNCHANGED <<jobs, pend, rows, link>>
  <2>1. Booked' BY <1>1, <1>5, AnswerIgnored
  <2>2. Catalogued' BY <1>3, <1>5, SameCatalogue
  <2> QED BY <1>1, <2>1, <2>2, Together
<1>6. ASSUME NEW p \in WaitingFor(r), pend' = (pend \ {p}) \cup {Answered(p, r)},
             UNCHANGED <<jobs, rows, link>>
      PROVE  IInv'
  <2>1. UNCHANGED <<tasks, sent, hit, jobs>> BY <1>1, <1>6
  <2>2. Booked' BY <1>1, <1>6, <2>1, AnswerKept
  <2>3. Catalogued' BY <1>3, <1>6, SameCatalogue
  <2> QED BY <1>1, <2>2, <2>3, Together
<1>7. ASSUME NEW p \in WaitingFor(r), FileReady(Answered(p, r)), pend' = pend \ {p},
             RecordFile(Answered(p, r)), jobs' = AfterFile(p.job)
      PROVE  IInv'
  <2> DEFINE a == Answered(p, r)
             fs == {[file |-> a.file, size |-> a.size]}
  <2>1. /\ p \in pend /\ a \in Pending
        /\ a.file = p.file /\ a.entity = p.entity /\ a.size = p.size
    BY <1>2, <1>4, AnsweredFacts
  <2>2. Booked'
    <3>1. UNCHANGED <<tasks, sent, hit>> BY <1>1
    <3> QED BY <1>1, <1>7, <3>1, FileDone
  <2>3. a.entity \in Entity /\ fs \subseteq Found /\ OneEach(fs)
    <3> HIDE DEF a
    <3> QED BY <2>1 DEF Pending, Found, OneEach
  <2>4. Catalogued'
    <3>1. CASE a.entity \in Series
      <4>1. PICK hashed : RecordEpisodes(a.entity, fs, hashed)
        BY <1>7, <3>1 DEF RecordFile
      <4> HIDE DEF a, fs
      <4> QED BY <1>3, <2>3, <3>1, <4>1, EpisodeRows
    <3>2. CASE a.entity \notin Series
      <4>1. PICK x \in fs : \E hashed : RecordMovie(a.entity, x, hashed)
        BY <1>7, <3>2 DEF RecordFile
      <4>2. a.entity \in Movie BY <2>3, <3>2 DEF Entity
      <4>3. x \in Found /\ Home[x.file] = a.entity
        <5>1. x.file = a.file OBVIOUS
        <5> QED BY <1>2, <2>1, <2>3, <4>2, <5>1 DEF Waiting
      <4> HIDE DEF a, fs
      <4> QED BY <1>3, <4>1, <4>2, <4>3, MovieRows
    <3> QED BY <3>1, <3>2
  <2> QED BY <1>1, <2>2, <2>4, Together
<1>8. \/ WaitingFor(r) = {} /\ UNCHANGED <<jobs, pend, rows, link>>
      \/ \E p \in WaitingFor(r) : /\ pend' = (pend \ {p}) \cup {Answered(p, r)}
                                  /\ UNCHANGED <<jobs, rows, link>>
      \/ \E p \in WaitingFor(r) : /\ FileReady(Answered(p, r)) /\ pend' = pend \ {p}
                                  /\ RecordFile(Answered(p, r)) /\ jobs' = AfterFile(p.job)
  BY DEF HandleFile
<1> QED BY <1>5, <1>6, <1>7, <1>8

---------------------------------------------------------------------------
(* The specification *)

LEMMA Initial == Init => IInv
<1> SUFFICES ASSUME Init PROVE IInv OBVIOUS
<1>1. /\ DOMAIN jobs = {} /\ pend = {} /\ tasks = {} /\ results = {}
      /\ disk \in [File -> {0, 1}] /\ rows = {}
      /\ link = [x \in Episode \cup Movie |-> None]
      /\ library = Entity /\ sent = {} /\ faults = 0 /\ hit = {}
  BY DEF Init
<1>2. disk \in [File -> Size]
  <2>1. {0, 1} \subseteq Size BY DEF Size
  <2> QED BY <1>1, <2>1
<1>3. faults \in 0 .. MaxFaults BY <1>1, ConstantFacts
<1>4. TypeOK BY <1>1, <1>2, <1>3 DEF TypeOK
<1>5. Finite BY <1>1, FS_EmptySet DEF Finite
<1>6. Sent /\ Listings /\ Waiting BY <1>1 DEF Sent, Listings, Waiting
<1>7. Messages BY <1>1 DEF Messages, OneToken, ScanOver, NoStray, FilesNotStuck, Alive
<1>8. Counts BY <1>1 DEF Counts, ProgressExact, Budget
<1>9. Records BY <1>1 DEF Records, RowHomes, OneRowPerPath
<1> QED BY <1>4, <1>5, <1>6, <1>7, <1>8, <1>9 DEF IInv

LEMMA StutterStep == ASSUME IInv, UNCHANGED vars PROVE IInv'
<1>1. UNCHANGED <<jobs, pend, tasks, results, disk, rows, link, library, sent, faults, hit>>
  BY DEF vars
<1>2. TypeOK' BY <1>1 DEF IInv, TypeOK
<1>3. Moves BY <1>1 DEF Moves
<1>4. Quiet(hit') BY <1>1 DEF Quiet, Alive
<1>5. OneToken' BY <1>1 DEF IInv, Messages, OneToken
<1> QED BY <1>2, <1>3, <1>4, <1>5, MovesStep

LEMMA Inductive == IInv /\ [Next]_vars => IInv'
<1> SUFFICES ASSUME IInv, [Next]_vars PROVE IInv' OBVIOUS
<1>1. CASE UNCHANGED vars BY <1>1, StutterStep
<1>2. ASSUME NEW j \in Job, RequestScan(j) PROVE IInv' BY <1>2, RequestStep
<1>3. ASSUME NEW j \in Job, CancelJob(j) PROVE IInv' BY <1>3, JobsStep
<1>4. ASSUME NEW t \in tasks, Work(t) PROVE IInv' BY <1>4, WorkStep
<1>5. ASSUME NEW t \in tasks, LoseTask(t) PROVE IInv' BY <1>5, LoseStep
<1>6. ASSUME NEW r \in results, Handle(r) PROVE IInv'
  BY <1>6, ScanStep, FileStep DEF Handle
<1>7. ASSUME NEW r \in results, Redeliver(r) \/ LoseResult(r) PROVE IInv'
  BY <1>7, LoseStep
<1>8. CASE GetRunningJobs BY <1>8, JobsStep
<1>9. ASSUME NEW f \in File, NEW size \in Size, ChangeFile(f, size) PROVE IInv'
  BY <1>9, ChangeStep
<1>10. CASE Restart BY <1>10, RestartStep
<1>11. ASSUME NEW e \in Entity, DeleteEntity(e) PROVE IInv' BY <1>11, DeleteStep
<1> QED BY <1>1, <1>2, <1>3, <1>4, <1>5, <1>6, <1>7, <1>8, <1>9, <1>10, <1>11
        DEF Next, Step

\* The inductive invariant holds of every behaviour: requests and answers are
\* in flight once, and what the jobs count is what is left of them.
THEOREM Invariance == Spec => []IInv
<1>1. Init => IInv BY Initial
<1>2. IInv /\ [Next]_vars => IInv' BY Inductive
<1> QED BY <1>1, <1>2, PTL DEF Spec

\* Jobs, entries, messages and rows keep their types, and every link of an episode
\* or a movie is to a row that exists.
THEOREM TypeCorrect == Spec => []TypeOK
<1>1. IInv => TypeOK BY DEF IInv
<1> QED BY <1>1, Invariance, PTL

\* No path of a series has two rows, however many scans of it overlap, with the
\* check of get_by_path() alone.
THEOREM PathsOnce == Spec => []OneRowPerPath
<1>1. IInv => OneRowPerPath BY DEF IInv, Records
<1> QED BY <1>1, Invariance, PTL

\* The progress of a job is the files announced less those that wait, in any order
\* of the answers and with any number of workers.
THEOREM ProgressCounts == Spec => []ProgressExact
<1>1. IInv => ProgressExact BY DEF IInv, Counts
<1> QED BY <1>1, Invariance, PTL

\* A file waits only for an answer that is still to come.
THEOREM FilesAnswered == Spec => []FilesNotStuck
<1>1. IInv => FilesNotStuck BY DEF IInv, Messages
<1> QED BY <1>1, Invariance, PTL

\* A job that counts as completed has received as many results as it has
\* entities, so that the budget leaves it no scan and no file.
THEOREM CompletedAtTheEnd == Spec => []CompletedMeansDone
<1>1. IInv => CompletedMeansDone
  <2> SUFFICES ASSUME IInv, NEW j \in DOMAIN jobs, jobs[j].completed, j \notin hit,
                      Outstanding(j)
               PROVE  FALSE
    BY DEF CompletedMeansDone
  <2>1. TypeOK /\ Finite /\ Sent /\ Messages /\ Counts BY DEF IInv
  <2>2. /\ j \in Job /\ jobs[j].received \in Nat
        /\ Cardinality(Entities[j]) \in Nat
        /\ IsFiniteSet(ScansLeft(j)) /\ Cardinality(ScansLeft(j)) \in Nat
    BY <2>1, JobsTyped, ConstantFacts, LeftFinite
  <2>3. /\ jobs[j].received + Cardinality(ScansLeft(j)) + (IF PendOf(j) = {} THEN 0 ELSE 1)
             <= Cardinality(Entities[j])
        /\ jobs[j].received >= Cardinality(Entities[j])
    BY <2>1 DEF Counts, Budget
  <2>4. PendOf(j) = {} /\ Cardinality(ScansLeft(j)) = 0 BY <2>2, <2>3
  <2>5. ScansLeft(j) = {} BY <2>2, <2>4, FS_EmptySet
  <2>6. PICK t \in Task : Alive(t) /\ t.job = j
    <3>1. CASE \E t \in tasks : t.job = j BY <2>1, <3>1 DEF TypeOK, Alive
    <3>2. CASE \E r \in results : r.task.job = j BY <2>1, <3>2 DEF TypeOK, Result, Alive
    <3> QED BY <2>4, <3>1, <3>2 DEF Outstanding, PendOf
  <2>7. CASE t.what = "scan"
    <3>1. t = ScanOf(j, t.on) BY <2>6, <2>7, TaskKinds
    <3>2. t.on \in Entities[j] BY <2>1, <2>6, <2>7 DEF Sent, Requested, Alive
    <3> QED BY <2>5, <2>6, <3>1, <3>2 DEF ScansLeft
  <2>8. CASE t.what # "scan"
    <3>1. PICK p \in pend : Awaits(p, t) BY <2>1, <2>6, <2>8 DEF Messages, NoStray
    <3> QED BY <2>4, <2>6, <3>1 DEF Awaits, PendOf
  <2> QED BY <2>7, <2>8
<1> QED BY <1>1, Invariance, PTL

---------------------------------------------------------------------------
(* What SingleScansComplete waits for *)

\* A job without a result yet still has a scan or a file to come; with a result for
\* each of its entities it is completed.
Owes(j) ==
  /\ jobs[j].received >= Cardinality(Entities[j]) => jobs[j].completed
  /\ jobs[j].received = 0 => ScansLeft(j) # {} \/ PendOf(j) # {}
Owing == \A j \in DOMAIN jobs \ hit : Owes(j)
Unready == \A p \in pend : Lacks(p, "probe") \/ Lacks(p, "hash")

InFlight(j) == \/ \E t \in tasks : t.job = j
               \/ \E r \in results : r.task.job = j
OpenScansPending ==
  \A j \in DOMAIN jobs \ hit :
    ~jobs[j].completed /\ (jobs[j].received = 0 \/ Cardinality(Entities[j]) = 1) => InFlight(j)

\* A step that takes nothing from the jobs outside hit'.
Spares(j) ==
  /\ j \in DOMAIN jobs \ hit /\ jobs'[j] = jobs[j]
  /\ \A e : Alive(ScanOf(j, e)) => Alive(ScanOf(j, e))'
  /\ PendOf(j) # {} => PendOf(j)' # {}

LEMMA OwesKept == ASSUME Owing, NEW j, Spares(j) PROVE Owes(j)'
<1>1. Owes(j) BY DEF Owing, Spares
<1>2. ScansLeft(j) \subseteq ScansLeft(j)' BY DEF ScansLeft, Spares
<1> QED BY <1>1, <1>2 DEF Owes, Spares

LEMMA MessagesOwe ==
  ASSUME Owing, Unready,
         \/ \E t \in tasks : Work(t) \/ LoseTask(t)
         \/ \E r \in results : Redeliver(r) \/ LoseResult(r)
  PROVE  Owing' /\ Unready'
<1>1. UNCHANGED <<jobs, pend>>
  BY DEF Work, WorkerScan, WorkerEnrich, Reply, LoseTask, Redeliver, LoseResult
<1>2. Unready' BY <1>1 DEF Unready
<1>3. hit \subseteq hit'
  BY DEF Work, WorkerScan, WorkerEnrich, Reply, LoseTask, Redeliver, LoseResult
<1>4. \A j \in DOMAIN jobs' \ hit' : \A e : Alive(ScanOf(j, e)) => Alive(ScanOf(j, e))'
  <2>1. ASSUME NEW t, NEW found, NEW answer, Reply(t, found, answer)
        PROVE  \A u : Alive(u) => Alive(u)'
    <3> DEFINE a == [task |-> t, found |-> found, answer |-> answer]
    <3>1. tasks' = tasks \ {t} /\ a \in results' /\ results \subseteq results'
      BY <2>1 DEF Reply
    <3>2. a.task = t OBVIOUS
    <3> HIDE DEF a
    <3> QED BY <3>1, <3>2 DEF Alive
  <2>2. ASSUME NEW t \in tasks, Work(t) PROVE \A u : Alive(u) => Alive(u)'
    BY <2>1, <2>2 DEF Work, WorkerScan, WorkerEnrich
  <2>3. \A j, e : ScanOf(j, e).job = j BY DEF ScanOf
  <2>4. ASSUME NEW t \in tasks, LoseTask(t)
        PROVE  t.job \in hit' /\ \A u : u.job # t.job /\ Alive(u) => Alive(u)'
    BY <2>4 DEF LoseTask, Alive
  <2>5. ASSUME NEW r \in results, LoseResult(r)
        PROVE  r.task.job \in hit' /\ \A u : u.job # r.task.job /\ Alive(u) => Alive(u)'
    BY <2>5 DEF LoseResult, Alive
  <2>6. ASSUME NEW r \in results, Redeliver(r) PROVE \A u : Alive(u) => Alive(u)'
    BY <2>6 DEF Redeliver, Alive
  <2> QED BY <2>2, <2>3, <2>4, <2>5, <2>6
<1>5. \A j \in DOMAIN jobs' \ hit' : Spares(j) BY <1>1, <1>3, <1>4 DEF Spares, PendOf
<1> QED BY <1>2, <1>5, OwesKept DEF Owing

LEMMA OthersOwe ==
  ASSUME Owing, Unready,
         \/ GetRunningJobs \/ Restart \/ UNCHANGED vars
         \/ \E j \in Job : CancelJob(j)
         \/ \E f \in File, size \in Size : ChangeFile(f, size)
         \/ \E e \in Entity : DeleteEntity(e)
  PROVE  Owing' /\ Unready'
<1>1. CASE Restart
  <2>1. pend' = {} /\ DOMAIN jobs' = {} BY <1>1 DEF Restart
  <2> QED BY <2>1 DEF Owing, Unready
<1>2. CASE ~Restart
  <2>1. /\ UNCHANGED <<pend, tasks, results>> /\ hit \subseteq hit'
        /\ \A j \in DOMAIN jobs' \ hit' : j \in DOMAIN jobs /\ jobs'[j] = jobs[j]
    BY <1>2 DEF GetRunningJobs, vars, CancelJob, ChangeFile, DeleteEntity
  <2>2. Unready' BY <2>1 DEF Unready
  <2>3. \A j \in DOMAIN jobs' \ hit' : Spares(j) BY <2>1 DEF Spares, PendOf, Alive
  <2> QED BY <2>2, <2>3, OwesKept DEF Owing
<1> QED BY <1>1, <1>2

LEMMA RequestOwes ==
  ASSUME IInv, Owing, Unready, NEW j \in Job, RequestScan(j) PROVE Owing' /\ Unready'
<1>1. /\ j \notin sent /\ tasks' = tasks \cup Tasks(j, "scan", Entities[j])
      /\ jobs' = IF j \in Listed
                   THEN [i \in DOMAIN jobs \cup {j} |-> IF i = j THEN Registered(j) ELSE jobs[i]]
                   ELSE jobs
      /\ UNCHANGED <<pend, results, hit>>
  BY DEF RequestScan
<1>2. Unready' BY <1>1 DEF Unready
<1>3. ASSUME NEW i \in DOMAIN jobs', i \notin hit', i # j PROVE Owes(i)'
  <2>1. i \in DOMAIN jobs /\ jobs'[i] = jobs[i] BY <1>1, <1>3
  <2>2. Spares(i) BY <1>1, <1>3, <2>1 DEF Spares, Alive, PendOf
  <2> QED BY <2>2, OwesKept
<1>4. ASSUME j \in DOMAIN jobs', j \notin hit' PROVE Owes(j)'
  <2>1. j \notin DOMAIN jobs BY <1>1 DEF IInv, TypeOK
  <2>2. jobs'[j].received = 0 BY <1>1, <1>4, <2>1 DEF Registered
  <2>3. PICK e : e \in Entities[j] BY ConstantFacts
  <2>4. ScanOf(j, e) \in tasks' BY <1>1, <2>3 DEF Tasks, ScanOf
  <2>5. e \in ScansLeft(j)' BY <2>3, <2>4 DEF ScansLeft, Alive
  <2>6. Cardinality(Entities[j]) \in Nat \ {0} BY ConstantFacts, FS_EmptySet
  <2> QED BY <2>2, <2>5, <2>6 DEF Owes
<1> QED BY <1>2, <1>3, <1>4 DEF Owing

\* The result that makes the count of the entities completes the job.
LEMMA MarkCompletes ==
  ASSUME NEW js, NEW j \in DOMAIN js,
         js[j] \in [received : Nat, completed : BOOLEAN, total : Nat, done : Nat]
  PROVE  /\ MarkReceived(js, j)[j].received = js[j].received + 1
         /\ js[j].received + 1 >= Cardinality(Entities[j]) => MarkReceived(js, j)[j].completed
<1> DEFINE n == js[j].received + 1
           c == js[j].completed \/ n >= Cardinality(Entities[j])
<1>1. MarkReceived(js, j) =
        [js EXCEPT ![j].received = n, ![j].completed = @ \/ n >= Cardinality(Entities[j])]
  BY DEF MarkReceived
<1>2. js[j] = [received |-> js[j].received, completed |-> js[j].completed,
               total |-> js[j].total, done |-> js[j].done]
  OBVIOUS
<1>3. MarkReceived(js, j)[j] =
        [received |-> n, completed |-> c, total |-> js[j].total, done |-> js[j].done]
  BY <1>1, <1>2
<1> HIDE DEF n, c
<1>4. MarkReceived(js, j)[j].received = n /\ MarkReceived(js, j)[j].completed = c BY <1>3
<1> QED BY <1>4 DEF n, c

LEMMA ScanOwes ==
  ASSUME IInv, Owing, Unready, NEW r \in results, HandleScan(r) PROVE Owing' /\ Unready'
<1> DEFINE j == r.task.job
<1>1. TypeOK BY DEF IInv
<1>2. r.task.what = "scan" /\ results' = results \ {r} /\ hit' = hit BY DEF HandleScan
<1>3. /\ r.task \in Task /\ j \in Job /\ r.task = ScanOf(j, r.task.on)
      /\ r.found \subseteq Found /\ OneEach(r.found)
  BY <1>1, <1>2, TaskKinds DEF TypeOK, Result, IInv, Listings
<1>4. \A i, e : i # j /\ tasks \subseteq tasks' /\ Alive(ScanOf(i, e)) => Alive(ScanOf(i, e))'
  <2>1. \A i, e : ScanOf(i, e).job = i BY DEF ScanOf
  <2> QED BY <1>2, <2>1 DEF Alive
<1>5. ASSUME NEW e \in Entity, NEW new, new \subseteq r.found, DispatchOrMark(j, e, new)
      PROVE  Owing' /\ Unready'
  <2>1. IsFiniteSet(new) /\ new \subseteq Found /\ OneEach(new)
    BY <1>3, <1>5, FoundFinite, FS_Subset DEF OneEach
  <2>2. /\ pend' = {p \in pend : p.job # j \/ \A x \in new : x.file # p.file}
                     \cup Entries(j, e, new)
        /\ tasks \subseteq tasks'
        /\ DOMAIN jobs' = DOMAIN jobs /\ \A i \in DOMAIN jobs : i # j => jobs'[i] = jobs[i]
    BY <1>1, <1>3, <1>5, <2>1, Dispatched
  <2>3. /\ \A p \in Entries(j, e, new) : p.job = j /\ Lacks(p, "probe")
        /\ \A x \in new : \E p \in Entries(j, e, new) : p.file = x.file
    BY <1>3, <2>1, EntryFacts
  <2>4. Unready' BY <2>2, <2>3 DEF Unready
  <2>5. ASSUME NEW i \in DOMAIN jobs', i \notin hit', i # j PROVE Owes(i)'
    <3>1. PendOf(i)' = PendOf(i) BY <2>2, <2>3, <2>5 DEF PendOf
    <3>2. Spares(i) BY <1>2, <1>4, <2>2, <2>5, <3>1 DEF Spares
    <3> QED BY <3>2, OwesKept
  <2>6. ASSUME j \in DOMAIN jobs', j \notin hit' PROVE Owes(j)'
    <3>1. j \in DOMAIN jobs /\ Owes(j) BY <1>2, <2>2, <2>6 DEF Owing
    <3>2. /\ jobs[j] \in [received : Nat, completed : BOOLEAN, total : Nat, done : Nat]
          /\ jobs[j].received \in Nat
      BY <1>1, <3>1, JobsTyped
    <3>3. CASE new = {}
      <4>1. jobs' = MarkReceived(jobs, j) BY <1>5, <3>3 DEF DispatchOrMark
      <4>2. /\ jobs'[j].received = jobs[j].received + 1
            /\ jobs[j].received + 1 >= Cardinality(Entities[j]) => jobs'[j].completed
        BY <3>1, <3>2, <4>1, MarkCompletes
      <4>3. jobs[j].received + 1 # 0 BY <3>2
      <4> QED BY <4>2, <4>3 DEF Owes
    <3>4. CASE new # {}
      <4>1. jobs' = [jobs EXCEPT ![j].total = @ + Cardinality(new)]
        BY <1>5, <3>1, <3>4 DEF DispatchOrMark
      <4>2. jobs'[j].received = jobs[j].received /\ jobs'[j].completed = jobs[j].completed
        BY <3>1, <3>2, <4>1
      <4>3. PendOf(j)' # {} BY <2>2, <2>3, <3>4 DEF PendOf
      <4> QED BY <3>1, <4>2, <4>3 DEF Owes
    <3> QED BY <3>3, <3>4
  <2> QED BY <2>4, <2>5, <2>6 DEF Owing
<1>6. ASSUME UNCHANGED <<jobs, pend, tasks>>, j \notin DOMAIN jobs PROVE Owing' /\ Unready'
  <2>1. Unready' BY <1>6 DEF Unready
  <2>2. \A i \in DOMAIN jobs' \ hit' : Spares(i) BY <1>2, <1>4, <1>6 DEF Spares, PendOf
  <2> QED BY <2>1, <2>2, OwesKept DEF Owing
<1>7. r.task.on \in Entity BY <1>2, <1>3, TaskKinds
<1>8. ASSUME NEW s \in Series, SeriesResult(j, s, r.found) PROVE Owing' /\ Unready'
  <2>1. \E new : new \subseteq r.found /\ DispatchOrMark(j, s, new)
    BY <1>8 DEF SeriesResult, NotKnown
  <2> QED BY <1>5, <2>1 DEF Entity
<1>9. ASSUME NEW m \in Movie, MovieResult(j, m, r.found) PROVE Owing' /\ Unready'
  <2>1. \E new : new \subseteq r.found /\ DispatchOrMark(j, m, new)
    BY <1>9 DEF MovieResult, NotKnown
  <2> QED BY <1>5, <2>1 DEF Entity
<1> DEFINE e == r.task.on
<1>10. CASE e \in Series BY <1>8, <1>10 DEF HandleScan
<1>11. CASE e \notin Series
  <2>1. e \in Movie BY <1>7, <1>11 DEF Entity
  <2>2. CASE j \in DOMAIN jobs BY <1>9, <1>11, <2>1, <2>2 DEF HandleScan
  <2>3. CASE j \notin DOMAIN jobs /\ SeriesWithId[e] # None
    <3>1. SeriesWithId[e] \in Series BY <2>1, <2>3, ConstantFacts
    <3> QED BY <1>8, <1>11, <2>3, <3>1 DEF HandleScan
  <2>4. CASE j \notin DOMAIN jobs /\ SeriesWithId[e] = None
    BY <1>6, <1>11, <2>4 DEF HandleScan
  <2> QED BY <2>2, <2>3, <2>4
<1> QED BY <1>10, <1>11

LEMMA FileOwes ==
  ASSUME IInv, Owing, Unready, NEW r \in results, HandleFile(r) PROVE Owing' /\ Unready'
<1>1. TypeOK BY DEF IInv
<1>2. r.task.what # "scan" /\ results' = results \ {r} /\ UNCHANGED <<tasks, sent, hit>>
  BY DEF HandleFile
<1>3. /\ r.task.what \in {"probe", "hash"} /\ r.answer \in Answer /\ r.answer # "no"
      /\ \A t : t # r.task /\ Alive(t) => Alive(t)'
  BY <1>2, AnswerFacts
<1>4. \A i, e : Alive(ScanOf(i, e)) => Alive(ScanOf(i, e))'
  <2>1. \A i, e : ScanOf(i, e) # r.task BY <1>2 DEF ScanOf
  <2> QED BY <1>3, <2>1
<1>5. CASE UNCHANGED <<jobs, pend>>
  <2>1. Unready' BY <1>5 DEF Unready
  <2>2. \A i \in DOMAIN jobs' \ hit' : Spares(i) BY <1>2, <1>4, <1>5 DEF Spares, PendOf
  <2> QED BY <2>1, <2>2, OwesKept DEF Owing
<1>6. ASSUME NEW p \in WaitingFor(r), ~FileReady(Answered(p, r)),
             pend' = (pend \ {p}) \cup {Answered(p, r)}, jobs' = jobs
      PROVE  Owing' /\ Unready'
  <2> DEFINE a == Answered(p, r)
  <2>1. a.job = p.job BY <1>1, <1>3, AnsweredFacts
  <2>2. Lacks(a, "probe") \/ Lacks(a, "hash") BY <1>6 DEF FileReady, Lacks
  <2> HIDE DEF a
  <2>3. pend' = (pend \ {p}) \cup {a} BY <1>6 DEF a
  <2>4. Unready' BY <2>2, <2>3 DEF Unready
  <2>5. \A i : PendOf(i) # {} => PendOf(i)' # {} BY <2>1, <2>3 DEF PendOf
  <2>6. \A i \in DOMAIN jobs' \ hit' : Spares(i) BY <1>2, <1>4, <1>6, <2>5 DEF Spares
  <2> QED BY <2>4, <2>6, OwesKept DEF Owing
<1>7. ASSUME NEW p \in WaitingFor(r), pend' = pend \ {p}, jobs' = AfterFile(p.job)
      PROVE  Owing' /\ Unready'
  <2> DEFINE j == p.job
             js == CountDone(jobs, j)
             N == [received : Nat, completed : BOOLEAN, total : Nat, done : Nat]
  <2>1. Unready' BY <1>7 DEF Unready
  <2>2. /\ DOMAIN jobs' = DOMAIN jobs /\ \A i \in DOMAIN jobs : i # j => jobs'[i] = jobs[i]
    BY <1>1, <1>7, AfterFileFacts
  <2>3. ASSUME NEW i \in DOMAIN jobs', i \notin hit', i # j PROVE Owes(i)'
    <3>1. PendOf(i)' = PendOf(i) BY <1>7, <2>3 DEF PendOf
    <3>2. Spares(i) BY <1>2, <1>4, <2>2, <2>3, <3>1 DEF Spares
    <3> QED BY <3>2, OwesKept
  <2>4. ASSUME j \in DOMAIN jobs', j \notin hit' PROVE Owes(j)'
    <3>1. j \in DOMAIN jobs /\ Owes(j) BY <1>2, <2>2, <2>4 DEF Owing
    <3>2. jobs[j] \in N /\ jobs[j].received \in Nat BY <1>1, <3>1, JobsTyped
    <3>3. /\ j \in DOMAIN js /\ js[j] \in N
          /\ js[j].received = jobs[j].received /\ js[j].completed = jobs[j].completed
      BY <3>1, <3>2 DEF CountDone
    <3>4. jobs' = IF PendOf(j)' = {} THEN MarkReceived(js, j) ELSE js
      BY <1>7 DEF AfterFile, PendOf
    <3> HIDE DEF js
    <3>5. CASE PendOf(j)' = {}
      <4>1. /\ jobs'[j].received = jobs[j].received + 1
            /\ jobs[j].received + 1 >= Cardinality(Entities[j]) => jobs'[j].completed
        BY <3>3, <3>4, <3>5, MarkCompletes
      <4>2. jobs[j].received + 1 # 0 BY <3>2
      <4> QED BY <4>1, <4>2 DEF Owes
    <3>6. CASE PendOf(j)' # {} BY <3>1, <3>3, <3>4, <3>6 DEF Owes
    <3> QED BY <3>5, <3>6
  <2> QED BY <2>1, <2>3, <2>4 DEF Owing
<1> QED BY <1>5, <1>6, <1>7 DEF HandleFile

\* A scan that is registered, not completed and not hit by a fault has a request with
\* the workers or an answer on its way, as long as no result of it has counted and, if
\* it is of one entity, always.  (ScanOverlap: the results of several movies can be
\* counted as one, and then such a job waits for nothing.)
THEOREM ScansPending == Spec => []OpenScansPending
<1>1. Init => Owing /\ Unready
  <2>1. Init => DOMAIN jobs = {} /\ pend = {} BY DEF Init
  <2> QED BY <2>1 DEF Owing, Unready
<1>2. IInv /\ Owing /\ Unready /\ [Next]_vars => Owing' /\ Unready'
  BY MessagesOwe, OthersOwe, RequestOwes, ScanOwes, FileOwes DEF Next, Step, Handle
<1>3. IInv /\ Owing /\ Unready => OpenScansPending
  <2> SUFFICES ASSUME IInv, Owing, Unready, NEW j \in DOMAIN jobs, j \notin hit,
                      ~jobs[j].completed,
                      jobs[j].received = 0 \/ Cardinality(Entities[j]) = 1
               PROVE  InFlight(j)
    BY DEF OpenScansPending
  <2>1. jobs[j].received \in Nat BY JobsTyped DEF IInv
  <2>2. ScansLeft(j) # {} \/ PendOf(j) # {} BY <2>1 DEF Owing, Owes
  <2>3. ASSUME NEW t, Alive(t), t.job = j PROVE InFlight(j) BY <2>3 DEF Alive, InFlight
  <2>4. ASSUME NEW e \in ScansLeft(j) PROVE InFlight(j)
    BY <2>3 DEF ScansLeft, ScanOf
  <2>5. ASSUME NEW p \in PendOf(j) PROVE InFlight(j)
    <3>1. p \in pend /\ p.job = j BY DEF PendOf
    <3>2. PICK what \in {"probe", "hash"} : Lacks(p, what) BY <3>1 DEF Unready
    <3>3. Alive([job |-> p.job, what |-> what, on |-> p.file])
      BY <3>1, <3>2, NotStuck DEF IInv, Messages
    <3> QED BY <2>3, <3>1, <3>3
  <2> QED BY <2>2, <2>4, <2>5
<1> QED BY <1>1, <1>2, <1>3, Invariance, PTL DEF Spec

===============================================================================
