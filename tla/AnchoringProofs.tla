--------------------------- MODULE AnchoringProofs ---------------------------
(***************************************************************************)
(* What Anchoring keeps true for any number of events, requests, assets,   *)
(* worker slots and handlers, whatever fails and however often.            *)
(*                                                                         *)
(* EventSentOnce is not inductive: it needs that an event's job id lets    *)
(* one task at a time work on it, and only while it is not done (TaskInv), *)
(* and that a transaction is on record, under way to it, or counted as     *)
(* lost (SentInv).                                                         *)
(*                                                                         *)
(* AssetMintedOnce has no such exclusion to rest on: the job of an asset   *)
(* and any number of handlers mint it side by side, and one that fails     *)
(* marks the asset failed that another has minted.  MintInv counts, for    *)
(* each asset, what has been sent together with what may still be sent.    *)
(***************************************************************************)
EXTENDS Anchoring, FiniteSetTheorems, TLAPS

Tasks == Slots \cup Handlers

TaskInv ==
    \A t \in Tasks :
        /\ task[t].pc = "idle" => task[t] = IdleTask
        /\ task[t].pc # "idle" => task[t].item \in Items
        /\ task[t].item \in Events =>
             /\ task[t].how = "keyed"
             /\ job[task[t].item] = "running"
             /\ ~row[task[t].item].done
             /\ \A u \in Tasks : task[u].item = task[t].item => u = t

Settling(i) == \E t \in Tasks : task[t].item = i /\ task[t].pc = "mark"

SentInv ==
    \A i \in Events :
        /\ sent[i] <= 1 + unrecorded[i]
        /\ ~row[i].done /\ ~Settling(i) => sent[i] <= unrecorded[i]

SendInv == TypeOK /\ TaskInv /\ SentInv

-----------------------------------------------------------------------------
(* Types.                                                                  *)

\* A count that is raised, perhaps outside the domain, stays a count.
LEMMA Raise ==
    ASSUME NEW S, NEW f \in [S -> Nat], NEW x
    PROVE  [f EXCEPT ![x] = @ + 1] \in [S -> Nat]
<1> DEFINE g == [f EXCEPT ![x] = @ + 1]
<1>1. ASSUME NEW y \in S PROVE g[y] \in Nat
  <2>1. CASE y = x
    <3>1. f[x] \in Nat
      BY <2>1
    <3>2. g[y] = f[x] + 1
      BY <2>1
    <3> QED BY <3>1, <3>2
  <2>2. CASE y # x
    BY <2>2
  <2> QED BY <2>1, <2>2
<1> QED BY <1>1

LEMMA RaiseBy ==
    ASSUME NEW S, NEW f \in [S -> Nat], NEW x, NEW n \in Nat
    PROVE  [f EXCEPT ![x] = @ + n] \in [S -> Nat]
<1> DEFINE g == [f EXCEPT ![x] = @ + n]
<1>1. ASSUME NEW y \in S PROVE g[y] \in Nat
  <2>1. CASE y = x
    <3>1. f[x] \in Nat
      BY <2>1
    <3>2. g[y] = f[x] + n
      BY <2>1
    <3> QED BY <3>1, <3>2
  <2>2. CASE y # x
    BY <2>2
  <2> QED BY <2>1, <2>2
<1> QED BY <1>1

\* A task that goes on to its next call.
LEMMA TaskStep ==
    ASSUME TypeOK, NEW t \in Tasks, NEW p \in Pcs
    PROVE  [task EXCEPT ![t].pc = p] \in [Tasks -> Task]
<1>1. task \in [Tasks -> Task]
  BY DEF TypeOK, Tasks
<1>2. [task[t] EXCEPT !.pc = p] \in Task
  BY <1>1 DEF Task
<1> QED BY <1>1, <1>2

\* A row that is worked on.
LEMMA RowStep ==
    ASSUME TypeOK, NEW i \in Items, NEW r,
           r \in [live : BOOLEAN, done : BOOLEAN, minted : BOOLEAN, attempts : Nat],
           row' = [row EXCEPT ![i] = r]
    PROVE  row' \in [Items -> [live : BOOLEAN, done : BOOLEAN, minted : BOOLEAN,
                               attempts : Nat]]
BY DEF TypeOK

LEMMA InitType == Init => TypeOK
BY AnchoringAssumption
   DEF Init, TypeOK, Task, IdleTask, Pcs, Closed, JobStates, ApiPcs

\* How many of some slots work on an item.
LEMMA Slotted ==
    ASSUME NEW ts \in SUBSET Slots, NEW us \in SUBSET ts, NEW i
    PROVE  /\ On(ts, i) \in Nat /\ On(us, i) \in Nat /\ On(us, i) <= On(ts, i)
           /\ (\A t \in ts : task[t].item # i) => On(ts, i) = 0
           /\ On(ts, i) = 0 => \A t \in ts : task[t].item # i
<1> DEFINE T == {t \in ts : task[t].item = i}
           U == {t \in us : task[t].item = i}
<1>1. IsFiniteSet(T) /\ U \in SUBSET T
  <2>1. IsFiniteSet(Slots) /\ T \in SUBSET Slots
    BY AnchoringAssumption
  <2> QED BY <2>1, FS_Subset
<1>2. IsFiniteSet(U) /\ Cardinality(U) <= Cardinality(T)
  BY <1>1, FS_Subset
<1>3. Cardinality(T) \in Nat /\ Cardinality(U) \in Nat
  BY <1>1, <1>2, FS_CardinalityType
<1>4. Cardinality(T) = 0 <=> T = {}
  BY <1>1, FS_EmptySet
<1> QED BY <1>2, <1>3, <1>4 DEF On

\* What dies with the worker.
LEMMA Dies ==
    ASSUME TypeOK, WorkerDies
    PROVE  \E accepted, lost \in SUBSET Slots :
             /\ \A t \in accepted : task[t].pc = "rpc"
             /\ \A t \in lost : task[t].pc \in {"rpc", "mark"}
             /\ accepted \subseteq lost
             /\ \A t \in Slots : task[t].pc = "mark" => t \in lost
             /\ \A i \in Items : /\ sent'[i] = sent[i] + On(accepted, i)
                                 /\ unrecorded'[i] = unrecorded[i] + On(lost, i)
<1> DEFINE busy == {t \in Slots : task[t].pc # "idle"}
           marks == {t \in busy : task[t].pc = "mark"}
<1>1. PICK accepted \in SUBSET {t \in busy : task[t].pc = "rpc"} :
        /\ sent' = [i \in Items |-> sent[i] + On(accepted, i)]
        /\ unrecorded' = [i \in Items |-> unrecorded[i] + On(accepted \cup marks, i)]
  BY DEF WorkerDies
<1> DEFINE lost == accepted \cup marks
<1>2. accepted \in SUBSET Slots /\ lost \in SUBSET Slots /\ accepted \subseteq lost
  OBVIOUS
<1>3. /\ \A t \in accepted : task[t].pc = "rpc"
      /\ \A t \in lost : task[t].pc \in {"rpc", "mark"}
      /\ \A t \in Slots : task[t].pc = "mark" => t \in lost
  OBVIOUS
<1>4. \A i \in Items : /\ sent'[i] = sent[i] + On(accepted, i)
                      /\ unrecorded'[i] = unrecorded[i] + On(lost, i)
  BY <1>1
<1> HIDE DEF lost
<1> QED BY <1>2, <1>3, <1>4

LEMMA DiesType ==
    ASSUME TypeOK, WorkerDies
    PROVE  TypeOK'
<1> DEFINE busy == {t \in Slots : task[t].pc # "idle"}
           marks == {t \in busy : task[t].pc = "mark"}
           loosed(again) == {t \in again : task[t].how = "loose"}
<1>1. PICK accepted \in SUBSET {t \in busy : task[t].pc = "rpc"}, again \in SUBSET busy :
        /\ sent' = [i \in Items |-> sent[i] + On(accepted, i)]
        /\ unrecorded' = [i \in Items |-> unrecorded[i] + On(accepted \cup marks, i)]
        /\ job' = [i \in Items |-> IF i \in Keys(again) THEN "queued"
                                  ELSE IF i \in Keys(busy) THEN "kept" ELSE job[i]]
        /\ loose' = [i \in Hashes |-> loose[i] + On(loosed(again), i)]
  BY DEF WorkerDies
<1>2. PICK a, b, c :
        /\ a \in SUBSET Slots /\ b \in SUBSET Slots /\ c \in SUBSET Slots
        /\ sent' = [i \in Items |-> sent[i] + On(a, i)]
        /\ unrecorded' = [i \in Items |-> unrecorded[i] + On(b, i)]
        /\ loose' = [i \in Hashes |-> loose[i] + On(c, i)]
  <2>1. /\ accepted \in SUBSET Slots /\ accepted \cup marks \in SUBSET Slots
        /\ loosed(again) \in SUBSET Slots
    OBVIOUS
  <2>2. /\ sent' = [i \in Items |-> sent[i] + On(accepted, i)]
        /\ unrecorded' = [i \in Items |-> unrecorded[i] + On(accepted \cup marks, i)]
        /\ loose' = [i \in Hashes |-> loose[i] + On(loosed(again), i)]
    BY <1>1
  <2> HIDE DEF marks, loosed
  <2> QED BY <2>1, <2>2
<1>3. \A i : On(a, i) \in Nat /\ On(b, i) \in Nat /\ On(c, i) \in Nat
  BY <1>2, Slotted
<1>4. sent' \in [Items -> Nat] /\ unrecorded' \in [Items -> Nat]
  BY <1>2, <1>3 DEF TypeOK
<1>5. job' \in [Items -> JobStates]
  BY <1>1 DEF TypeOK, JobStates
<1>6. loose' \in [Hashes -> Nat]
  BY <1>2, <1>3 DEF TypeOK
<1>7. task' \in [Slots \cup Handlers -> Task]
  BY DEF WorkerDies, TypeOK, IdleTask, Task, Pcs
<1>8. /\ breaker' \in [state : {"CLOSED", "OPEN", "HALF_OPEN"}, failures : Nat]
      /\ sweep' \subseteq Items /\ faults' \in Nat
      /\ UNCHANGED <<row, born, api, asked, failures>>
  BY DEF WorkerDies, Closed, TypeOK
<1> QED BY <1>4, <1>5, <1>6, <1>7, <1>8 DEF TypeOK

\* The end of a job preserves the types of what it changes.
LEMMA JobEndType ==
    ASSUME TypeOK, NEW t \in Tasks, Finished(t) \/ Requeued(t)
    PROVE  /\ task' \in [Tasks -> Task] /\ job' \in [Items -> JobStates]
           /\ loose' \in [Hashes -> Nat]
<1>1. IdleTask \in Task
  BY DEF IdleTask, Task, Pcs
<1>2. CASE Finished(t)
  BY <1>1, <1>2 DEF TypeOK, Finished, JobStates, Tasks
<1>3. CASE Requeued(t)
  <2>1. task' = [task EXCEPT ![t] = IdleTask]
    BY <1>3 DEF Requeued
  <2>2. job' \in [Items -> JobStates]
    BY <1>3 DEF TypeOK, Requeued, JobStates
  <2>3. loose' \in [Hashes -> Nat]
    <3>1. loose \in [Hashes -> Nat]
      BY DEF TypeOK
    <3>2. [loose EXCEPT ![task[t].item] = @ + 1] \in [Hashes -> Nat]
      BY <3>1, Raise
    <3> QED BY <1>3, <3>1, <3>2 DEF Requeued
  <2> QED BY <1>1, <2>1, <2>2, <2>3 DEF TypeOK, Tasks
<1> QED BY <1>2, <1>3

LEMMA RequestType ==
    ASSUME TypeOK, NEW i \in Items, Request(i) \/ ByHand(i)
    PROVE  TypeOK'
<1> USE DEF TypeOK
<1>1. CASE CheckSource(i)
  BY <1>1 DEF CheckSource, Queue, Workers, ApiPcs
<1>2. CASE Create(i)
  <2>1. row' \in [Items -> [live : BOOLEAN, done : BOOLEAN, minted : BOOLEAN,
                            attempts : Nat]]
    BY <1>2 DEF Create
  <2>2. born' \in Seq(Items)
    BY <1>2 DEF Create
  <2>3. api' \in [Items -> ApiPcs]
    BY <1>2 DEF Create, ApiPcs
  <2> QED BY <1>2, <2>1, <2>2, <2>3 DEF Create, Queue, Workers
<1>3. CASE Enqueue(i)
  <2>1. api' \in [Items -> ApiPcs]
    BY <1>3 DEF Enqueue, ApiPcs
  <2>2. job' \in [Items -> JobStates]
    BY <1>3 DEF Enqueue, EnqueueKeyed, JobStates
  <2>3. loose' \in [Hashes -> Nat]
    <3>1. [loose EXCEPT ![i] = @ + 1] \in [Hashes -> Nat]
      BY Raise
    <3> QED BY <1>3, <3>1 DEF Enqueue, EnqueueLoose
  <2> QED BY <1>3, <2>1, <2>2, <2>3 DEF Enqueue, Workers
<1>4. CASE \E h \in Handlers : MintInline(h, i)
  BY <1>4 DEF MintInline, Queue, ApiPcs, Task, Pcs
<1>5. CASE TriggerAnchor(i)
  BY <1>5 DEF TriggerAnchor, EnqueueKeyed, Workers, JobStates
<1>6. CASE \E h \in Handlers : Remint(h, i)
  BY <1>6 DEF Remint, Queue, Task, Pcs
<1> QED BY <1>1, <1>2, <1>3, <1>4, <1>5, <1>6 DEF Request, ByHand

LEMMA SweepType ==
    ASSUME TypeOK, SweepAnchors \/ SweepMints \/ \E i \in Items : SweepEnqueue(i)
    PROVE  TypeOK'
<1> USE DEF TypeOK
<1>1. CASE SweepAnchors
  <2>1. \A kind \in SUBSET Items : GetPending(kind) \subseteq Items
    BY DEF GetPending
  <2>2. Events \in SUBSET Items /\ Hashes \in SUBSET Items
    BY DEF Items, Memos
  <2> QED BY <1>1, <2>1, <2>2 DEF SweepAnchors, Queue, Workers
<1>2. CASE SweepMints
  BY <1>2 DEF SweepMints, Unminted, Items, Queue, Workers
<1>3. CASE \E i \in Items : SweepEnqueue(i)
  BY <1>3 DEF SweepEnqueue, EnqueueKeyed, Workers, JobStates
<1> QED BY <1>1, <1>2, <1>3

LEMMA PickType ==
    ASSUME TypeOK, NEW i \in Items, Pick(i) \/ ResultExpires(i)
    PROVE  TypeOK'
<1> USE DEF TypeOK
<1>1. ASSUME NEW t \in Slots, NEW how \in {"keyed", "loose"}, Begin(t, i, how)
      PROVE  task' \in [Tasks -> Task]
  BY <1>1 DEF Begin, Tasks, Task, Pcs
<1>2. ASSUME NEW t \in Slots, PickKeyed(t, i)
      PROVE  TypeOK'
  <2>1. job' \in [Items -> JobStates]
    BY <1>2 DEF PickKeyed, JobStates
  <2> QED BY <1>1, <1>2, <2>1 DEF PickKeyed, Rest, Tasks
<1>3. ASSUME NEW t \in Slots, PickLoose(t, i)
      PROVE  TypeOK'
  <2>1. loose' \in [Hashes -> Nat]
    BY <1>3 DEF PickLoose
  <2> QED BY <1>1, <1>3, <2>1 DEF PickLoose, Rest, Tasks
<1>4. CASE ResultExpires(i)
  BY <1>4 DEF ResultExpires, Workers, Rest, JobStates
<1> QED BY <1>2, <1>3, <1>4 DEF Pick

LEMMA RunType ==
    ASSUME TypeOK, TaskInv, NEW t \in Tasks, Run(t)
    PROVE  TypeOK'
<1> DEFINE i == task[t].item
<1>0. /\ task \in [Tasks -> Task] /\ task[t] \in Task
      /\ \A p \in Pcs : [task EXCEPT ![t].pc = p] \in [Tasks -> Task]
  BY TaskStep DEF TypeOK, Tasks
<1>1. CASE Admit(t)
  <2>1. task' \in [Tasks -> Task]
    BY <1>0, <1>1 DEF Admit, Pcs
  <2>2. /\ breaker' \in [state : {"CLOSED", "OPEN", "HALF_OPEN"}, failures : Nat]
        /\ failures' \in Nat
    <3>1. breaker \in [state : {"CLOSED", "OPEN", "HALF_OPEN"}, failures : Nat]
      BY DEF TypeOK
    <3>2. failures \in Nat /\ failures + 1 \in Nat
      BY DEF TypeOK
    <3>3. CASE breaker' = [breaker EXCEPT !.state = "HALF_OPEN"] /\ UNCHANGED failures
      BY <3>1, <3>2, <3>3
    <3>4. CASE UNCHANGED breaker
      BY <1>1, <3>1, <3>2, <3>4 DEF Admit
    <3> QED BY <1>1, <3>3, <3>4 DEF Admit
  <2> QED BY <1>1, <2>1, <2>2 DEF Admit, TypeOK, Queue, Rest, Tasks
<1>2. CASE Accepted(t)
  <2>1. task' \in [Tasks -> Task]
    BY <1>0, <1>2 DEF Accepted, Pcs
  <2>2. sent' \in [Items -> Nat]
    <3>1. sent \in [Items -> Nat] /\ sent' = [sent EXCEPT ![i] = @ + 1]
      BY <1>2 DEF Accepted, TypeOK
    <3> QED BY <3>1, Raise
  <2>3. breaker' \in [state : {"CLOSED", "OPEN", "HALF_OPEN"}, failures : Nat]
    BY <1>2 DEF Accepted, BreakerSuccess, Close, Closed, TypeOK
  <2> QED BY <1>2, <2>1, <2>2, <2>3 DEF Accepted, TypeOK, Queue, Rest, Tasks
<1>3. CASE Raised(t)
  <2>1. PICK n \in {0, 1} : /\ sent' = [sent EXCEPT ![i] = @ + n]
                            /\ unrecorded' = [unrecorded EXCEPT ![i] = @ + n]
    BY <1>3 DEF Raised
  <2>2. sent' \in [Items -> Nat] /\ unrecorded' \in [Items -> Nat]
    <3>1. n \in Nat
      OBVIOUS
    <3>2. sent \in [Items -> Nat] /\ unrecorded \in [Items -> Nat]
      BY DEF TypeOK
    <3> QED BY <2>1, <3>1, <3>2, RaiseBy
  <2>3. task' \in [Tasks -> Task]
    BY <1>0, <1>3 DEF Raised, Pcs
  <2>4. breaker' \in [state : {"CLOSED", "OPEN", "HALF_OPEN"}, failures : Nat]
    BY <1>3 DEF Raised, BreakerFailure, TypeOK
  <2>5. failures' \in Nat
    BY <1>3 DEF Raised, TypeOK
  <2> QED BY <1>3, <2>2, <2>3, <2>4, <2>5 DEF Raised, TypeOK, Queue, Rest, Tasks
<1>4. CASE RecordSuccess(t)
  <2>1. i \in Items /\ row[i] \in [live : BOOLEAN, done : BOOLEAN, minted : BOOLEAN,
                                   attempts : Nat]
    BY <1>4 DEF RecordSuccess, TaskInv, TypeOK
  <2>2. row' \in [Items -> [live : BOOLEAN, done : BOOLEAN, minted : BOOLEAN,
                            attempts : Nat]]
    <3>1. CASE i \in Memos
      <4> DEFINE n == IF i \in Events THEN row[i].attempts + 1 ELSE row[i].attempts
                 r == [row[i] EXCEPT !.done = TRUE, !.attempts = n]
      <4>1. MarkAnchored(i)
        BY <1>4, <3>1 DEF RecordSuccess
      <4>2. row' = [row EXCEPT ![i] = r]
        BY <4>1 DEF MarkAnchored
      <4>3. r \in [live : BOOLEAN, done : BOOLEAN, minted : BOOLEAN, attempts : Nat]
        <5>1. n \in Nat
          BY <2>1
        <5> HIDE DEF n
        <5> QED BY <2>1, <5>1
      <4> HIDE DEF r
      <4> QED BY <2>1, <4>2, <4>3, RowStep
    <3>2. CASE i \notin Memos
      <4>1. MarkMinted(i)
        BY <1>4, <3>2 DEF RecordSuccess
      <4>4. PICK named \in BOOLEAN :
              row' = [row EXCEPT ![i].done = TRUE, ![i].minted = @ \/ named]
        BY <4>1 DEF MarkMinted
      <4> DEFINE r == [row[i] EXCEPT !.done = TRUE, !.minted = @ \/ named]
      <4>2. row' = [row EXCEPT ![i] = r]
        BY <4>4
      <4>3. r \in [live : BOOLEAN, done : BOOLEAN, minted : BOOLEAN, attempts : Nat]
        BY <2>1
      <4> HIDE DEF r
      <4> QED BY <2>1, <4>2, <4>3, RowStep
    <3> QED BY <3>1, <3>2
  <2>3. Finished(t)
    BY <1>4 DEF RecordSuccess
  <2> QED BY <1>4, <2>2, <2>3, JobEndType DEF RecordSuccess, TypeOK, Rest, Tasks
<1>5. CASE RecordFailure(t)
  <2>1. /\ task[t].seen \in Nat /\ i \in Items
        /\ row[i] \in [live : BOOLEAN, done : BOOLEAN, minted : BOOLEAN,
                       attempts : Nat]
    BY <1>0, <1>5 DEF RecordFailure, TaskInv, TypeOK, Task
  <2>2. row' \in [Items -> [live : BOOLEAN, done : BOOLEAN, minted : BOOLEAN,
                            attempts : Nat]]
    <3>1. CASE i \in Memos /\ CountAttempt(i, task[t].seen)
      <4> DEFINE r == [row[i] EXCEPT !.attempts =
                         IF i \in Events THEN @ + 1 ELSE task[t].seen + 1]
      <4>1. row' = [row EXCEPT ![i] = r]
        BY <3>1 DEF CountAttempt
      <4>2. r \in [live : BOOLEAN, done : BOOLEAN, minted : BOOLEAN, attempts : Nat]
        BY <2>1
      <4> HIDE DEF r
      <4> QED BY <2>1, <4>1, <4>2, RowStep
    <3>2. CASE row' = [row EXCEPT ![i].done = FALSE]
      BY <2>1, <3>2 DEF TypeOK
    <3> QED BY <1>5, <3>1, <3>2 DEF RecordFailure
  <2>3. Finished(t) \/ Requeued(t)
    BY <1>5 DEF RecordFailure
  <2> QED BY <1>5, <2>2, <2>3, JobEndType DEF RecordFailure, TypeOK, Rest, Tasks
<1> QED BY <1>1, <1>2, <1>3, <1>4, <1>5 DEF Run

LEMMA FaultType ==
    ASSUME TypeOK, TaskInv, Fault
    PROVE  TypeOK'
<1> USE DEF TypeOK
<1>1. ASSUME NEW i \in Items, EnqueueFails(i)
      PROVE  TypeOK'
  <2>1. api' \in [Items -> ApiPcs] /\ faults' \in Nat
    BY <1>1 DEF EnqueueFails, ApiPcs
  <2> QED BY <1>1, <2>1 DEF EnqueueFails, Queue, Workers
<1>2. ASSUME NEW i \in Items, SweepEnqueueFails(i)
      PROVE  TypeOK'
  <2>1. sweep' \subseteq Items /\ faults' \in Nat
    BY <1>2 DEF SweepEnqueueFails
  <2> QED BY <1>2, <2>1 DEF SweepEnqueueFails, Queue, Workers
<1>3. ASSUME NEW t \in Tasks, Crash(t)
      PROVE  TypeOK'
  <2> DEFINE i == task[t].item
  <2>1. PICK n \in {0, 1} :
          /\ sent' = [sent EXCEPT ![i] = @ + n]
          /\ unrecorded' = [unrecorded EXCEPT ![i] =
                              IF task[t].pc = "mark" THEN @ + 1 ELSE @ + n]
    BY <1>3 DEF Crash
  <2>2. PICK m \in {0, 1} : unrecorded' = [unrecorded EXCEPT ![i] = @ + m]
    <3>1. CASE task[t].pc = "mark"
      BY <2>1, <3>1
    <3>2. CASE task[t].pc # "mark"
      BY <2>1, <3>2
    <3> QED BY <3>1, <3>2
  <2>3. sent' \in [Items -> Nat] /\ unrecorded' \in [Items -> Nat]
    <3> HIDE DEF TypeOK
    <3>1. n \in Nat /\ m \in Nat
      BY <2>1, <2>2
    <3>2. sent \in [Items -> Nat] /\ unrecorded \in [Items -> Nat]
      BY DEF TypeOK
    <3>3. [sent EXCEPT ![i] = @ + n] \in [Items -> Nat]
      BY <3>1, <3>2, RaiseBy
    <3>4. [unrecorded EXCEPT ![i] = @ + m] \in [Items -> Nat]
      BY <3>1, <3>2, RaiseBy
    <3> QED BY <2>1, <2>2, <3>3, <3>4
  <2>4. faults' \in Nat
    BY <1>3 DEF Crash
  <2>5. Finished(t) \/ Requeued(t)
    BY <1>3 DEF Crash
  <2> QED BY <1>3, <2>3, <2>4, <2>5, JobEndType DEF Crash, Rest, Tasks
<1> QED BY <1>1, <1>2, <1>3, DiesType DEF Fault, Tasks

LEMMA NextType ==
    ASSUME TypeOK, TaskInv, [Next]_vars
    PROVE  TypeOK'
<1>1. CASE UNCHANGED vars
  BY <1>1 DEF TypeOK, vars
<1>2. CASE Next
  BY <1>2, RequestType, SweepType, PickType, RunType, FaultType DEF Next, Tasks
<1> QED BY <1>1, <1>2

-----------------------------------------------------------------------------
(* Who works on an event, and what the chain was sent for it.              *)

\* An action that starts no task, ends none and sends nothing.
LEMMA Apart ==
    ASSUME TaskInv, SentInv, UNCHANGED <<task, sent, unrecorded>>,
           \A i \in Events : /\ row'[i].done = row[i].done
                             /\ job[i] = "running" => job'[i] = "running"
    PROVE  TaskInv' /\ SentInv'
<1>1. TaskInv'
  BY DEF TaskInv, Items, Memos
<1>2. \A i \in Events : Settling(i)' <=> Settling(i)
  BY DEF Settling
<1>3. SentInv'
  BY <1>2 DEF SentInv
<1> QED BY <1>1, <1>3

\* A task is started for a request or an asset.
LEMMA StartOther ==
    ASSUME TypeOK, TaskInv, SentInv, NEW t \in Tasks, NEW r \in Task,
           task[t].pc = "idle", r.pc \in {"call", "rpc"}, r.item \in Hashes \cup Assets,
           task' = [task EXCEPT ![t] = r], UNCHANGED <<sent, unrecorded>>,
           \A i \in Events : row'[i].done = row[i].done /\ job'[i] = job[i]
    PROVE  TaskInv' /\ SentInv'
<1>0. /\ r.item \notin Events /\ r.item \in Items /\ NoItem \notin Events
      /\ task[t].item = NoItem /\ task'[t] = r
      /\ \A u \in Tasks : u # t => task'[u] = task[u]
  BY AnchoringAssumption DEF TypeOK, Tasks, TaskInv, IdleTask, Items, Memos
<1>1. TaskInv'
  BY <1>0 DEF TaskInv
<1>2. \A i \in Events : Settling(i)' <=> Settling(i)
  BY <1>0 DEF Settling
<1>3. SentInv'
  BY <1>2 DEF SentInv
<1> QED BY <1>1, <1>3

\* A queued job of an event is started: its id was not in use.
LEMMA StartEvent ==
    ASSUME TypeOK, TaskInv, SentInv, NEW t \in Slots, NEW i \in Events,
           PickKeyed(t, i), ~NothingToDo(i)
    PROVE  TaskInv' /\ SentInv'
<1>0. /\ t \in Tasks /\ i \in Items /\ i \in Memos /\ NoItem \notin Events
      /\ job[i] = "queued" /\ task[t].pc = "idle"
  BY AnchoringAssumption DEF PickKeyed, Tasks, Items, Memos
<1>1. /\ task[t].item = NoItem
      /\ task'[t].pc = "call" /\ task'[t].item = i /\ task'[t].how = "keyed"
      /\ \A u \in Tasks : u # t => task'[u] = task[u]
  BY <1>0 DEF PickKeyed, Begin, TypeOK, Tasks, TaskInv, IdleTask
<1>2. /\ ~row[i].done /\ job'[i] = "running"
      /\ \A j \in Items : j # i => job'[j] = job[j]
      /\ UNCHANGED <<row, sent, unrecorded>>
  BY <1>0 DEF PickKeyed, NothingToDo, TypeOK
<1>3. \A u \in Tasks : task[u].item # i
  BY <1>0 DEF TaskInv
<1>4. TaskInv'
  BY <1>0, <1>1, <1>2, <1>3 DEF TaskInv, Items, Memos
<1>5. \A j \in Events : Settling(j)' <=> Settling(j)
  BY <1>0, <1>1, <1>3 DEF Settling
<1>6. SentInv'
  BY <1>2, <1>5 DEF SentInv
<1> QED BY <1>4, <1>6

\* A task goes on to its next call.
LEMMA Onward ==
    ASSUME TypeOK, TaskInv, NEW t \in Tasks, NEW p \in {"rpc", "fail", "mark"},
           task[t].pc \in {"call", "rpc"}, task' = [task EXCEPT ![t].pc = p],
           UNCHANGED <<row, job>>
    PROVE  /\ TaskInv'
           /\ \A i \in Events : \/ Settling(i)' <=> Settling(i)
                                \/ p = "mark" /\ i = task[t].item /\ Settling(i)'
<1>1. /\ task'[t].pc = p
      /\ \A u \in Tasks : /\ task'[u].item = task[u].item
                          /\ task'[u].how = task[u].how
                          /\ u # t => task'[u] = task[u]
  BY DEF TypeOK, Tasks, Task
<1>2. TaskInv'
  BY <1>1 DEF TaskInv
<1>3. ASSUME NEW i \in Events, p # "mark" \/ i # task[t].item
      PROVE  Settling(i)' <=> Settling(i)
  BY <1>1, <1>3 DEF Settling
<1>4. ASSUME NEW i \in Events, p = "mark", i = task[t].item
      PROVE  Settling(i)'
  BY <1>1, <1>4 DEF Settling
<1> QED BY <1>2, <1>3, <1>4

\* A task ends: nobody works on its item any more, if that is an event.
LEMMA Ended ==
    ASSUME TypeOK, TaskInv, NEW t \in Tasks, task[t].pc # "idle",
           Finished(t) \/ Requeued(t),
           \A j \in Events : j # task[t].item => row'[j].done = row[j].done
    PROVE  /\ TaskInv'
           /\ \A j \in Events :
                IF j = task[t].item THEN ~Settling(j)' ELSE Settling(j)' <=> Settling(j)
<1> DEFINE i == task[t].item
<1>0. NoItem \notin Events /\ IdleTask.item = NoItem /\ IdleTask.pc = "idle"
  BY AnchoringAssumption DEF IdleTask, Items, Memos
<1>1. /\ task'[t] = IdleTask
      /\ \A u \in Tasks : u # t => task'[u] = task[u]
  BY DEF Finished, Requeued, TypeOK, Tasks
<1>2. \A j \in Events : j # i => job'[j] = job[j]
  BY DEF Finished, Requeued, TypeOK, Items, Memos
<1>3. \A u \in Tasks : u # t /\ task[u].item \in Events => task[u].item # i
  BY DEF TaskInv
<1>4. TaskInv'
  BY <1>0, <1>1, <1>2, <1>3 DEF TaskInv
<1>5. ASSUME NEW j \in Events
      PROVE  IF j = i THEN ~Settling(j)' ELSE Settling(j)' <=> Settling(j)
  BY <1>0, <1>1, <1>3 DEF Settling
<1> QED BY <1>4, <1>5

LEMMA RequestSends ==
    ASSUME SendInv, NEW i \in Items, Request(i) \/ ByHand(i)
    PROVE  TaskInv' /\ SentInv'
<1> USE DEF SendInv
<1>1. CASE CheckSource(i)
  BY <1>1, Apart DEF CheckSource, Workers, Queue
<1>2. CASE Create(i)
  BY <1>2, Apart DEF Create, Workers, Queue, TypeOK, Items, Memos
<1>3. ASSUME EnqueueKeyed(i)
      PROVE  \A j \in Events : job[j] = "running" => job'[j] = "running"
  BY <1>3 DEF EnqueueKeyed, TypeOK, Items, Memos
<1>4. CASE Enqueue(i)
  BY <1>3, <1>4, Apart DEF Enqueue, Workers
<1>5. CASE TriggerAnchor(i)
  BY <1>3, <1>5, Apart DEF TriggerAnchor, Workers
<1>6. ASSUME NEW h \in Handlers, MintInline(h, i) \/ Remint(h, i)
      PROVE  TaskInv' /\ SentInv'
  <2> DEFINE how == IF MintInline(h, i) THEN "inline" ELSE "byhand"
             r == [pc |-> "rpc", item |-> i, how |-> how, seen |-> 0]
  <2>1. r \in Task /\ r.pc = "rpc" /\ r.item \in Assets /\ h \in Tasks
    BY <1>6 DEF MintInline, Remint, Task, Pcs, Tasks
  <2>2. /\ task[h].pc = "idle" /\ task' = [task EXCEPT ![h] = r]
        /\ UNCHANGED <<row, job, sent, unrecorded>>
    BY <1>6 DEF MintInline, Remint, Queue
  <2> HIDE DEF r
  <2> QED BY <2>1, <2>2, StartOther
<1> QED BY <1>1, <1>2, <1>4, <1>5, <1>6 DEF Request, ByHand

LEMMA SweepSends ==
    ASSUME SendInv, SweepAnchors \/ SweepMints \/ \E i \in Items : SweepEnqueue(i)
    PROVE  TaskInv' /\ SentInv'
<1> USE DEF SendInv
<1>1. CASE SweepAnchors \/ SweepMints
  BY <1>1, Apart DEF SweepAnchors, SweepMints, Workers, Queue
<1>2. ASSUME NEW i \in Items, SweepEnqueue(i)
      PROVE  TaskInv' /\ SentInv'
  <2>1. \A j \in Events : job[j] = "running" => job'[j] = "running"
    BY <1>2 DEF SweepEnqueue, EnqueueKeyed, TypeOK, Items, Memos
  <2> QED BY <1>2, <2>1, Apart DEF SweepEnqueue, Workers
<1> QED BY <1>1, <1>2

LEMMA PickSends ==
    ASSUME SendInv, NEW i \in Items, Pick(i) \/ ResultExpires(i)
    PROVE  TaskInv' /\ SentInv'
<1> USE DEF SendInv
<1>1. ASSUME NEW t \in Slots, PickKeyed(t, i) \/ PickLoose(t, i), NothingToDo(i)
      PROVE  TaskInv' /\ SentInv'
  <2>1. \A j \in Events : job[j] = "running" => job'[j] = "running"
    BY <1>1 DEF PickKeyed, PickLoose, TypeOK, Items, Memos
  <2>2. UNCHANGED <<row, task, sent, unrecorded>>
    BY <1>1 DEF PickKeyed, PickLoose, Begin
  <2> QED BY <2>1, <2>2, Apart
<1>2. ASSUME NEW t \in Slots, PickKeyed(t, i) \/ PickLoose(t, i), ~NothingToDo(i),
             i \notin Events
      PROVE  TaskInv' /\ SentInv'
  <2> DEFINE r(how) == [pc |-> IF i \in Memos THEN "call" ELSE "rpc", item |-> i,
                        how |-> how, seen |-> row[i].attempts]
  <2>1. i \in Hashes \cup Assets /\ row[i].attempts \in Nat /\ t \in Tasks
    BY <1>2 DEF Items, Memos, TypeOK, Tasks
  <2>2. \A how \in {"keyed", "loose"} :
          /\ r(how) \in Task /\ r(how).pc \in {"call", "rpc"}
          /\ r(how).item \in Hashes \cup Assets
    BY <2>1 DEF Task, Pcs
  <2>3. /\ task[t].pc = "idle" /\ UNCHANGED <<row, sent, unrecorded>>
        /\ \A j \in Events : job'[j] = job[j]
    <3>1. CASE PickKeyed(t, i)
      BY <1>2, <3>1 DEF PickKeyed, TypeOK, Items, Memos
    <3>2. CASE PickLoose(t, i)
      BY <3>2 DEF PickLoose
    <3> QED BY <1>2, <3>1, <3>2
  <2>4. \E how \in {"keyed", "loose"} : task' = [task EXCEPT ![t] = r(how)]
    BY <1>2 DEF PickKeyed, PickLoose, Begin
  <2> HIDE DEF r
  <2> QED BY <2>1, <2>2, <2>3, <2>4, StartOther
<1>3. ASSUME NEW t \in Slots, PickKeyed(t, i), ~NothingToDo(i), i \in Events
      PROVE  TaskInv' /\ SentInv'
  BY <1>3, StartEvent
<1>4. ASSUME NEW t \in Slots, PickLoose(t, i)
      PROVE  i \notin Events
  BY <1>4, AnchoringAssumption DEF PickLoose
<1>5. CASE ResultExpires(i)
  <2>1. \A j \in Events : job[j] = "running" => job'[j] = "running"
    BY <1>5 DEF ResultExpires, TypeOK, Items, Memos
  <2> QED BY <1>5, <2>1, Apart DEF ResultExpires, Workers
<1> QED BY <1>1, <1>2, <1>3, <1>4, <1>5 DEF Pick

\* While a task that has not been answered works on an event, nothing was
\* sent for the event but what is counted as lost.
LEMMA Unsent ==
    ASSUME SendInv, NEW t \in Tasks, task[t].item \in Events, task[t].pc # "mark"
    PROVE  sent[task[t].item] <= unrecorded[task[t].item]
BY DEF SendInv, TaskInv, SentInv, Settling

LEMMA RunSends ==
    ASSUME SendInv, NEW t \in Tasks, Run(t)
    PROVE  TaskInv' /\ SentInv'
<1> USE DEF SendInv
<1> DEFINE i == task[t].item
<1>0. /\ Events \subseteq Items /\ Events \subseteq Memos
      /\ sent \in [Items -> Nat] /\ unrecorded \in [Items -> Nat]
  BY DEF TypeOK, Items, Memos
<1>1. CASE Admit(t)
  <2>1. PICK p \in {"rpc", "fail"} : task' = [task EXCEPT ![t].pc = p]
    BY <1>1 DEF Admit
  <2>2. task[t].pc = "call" /\ UNCHANGED <<row, job, sent, unrecorded>>
    BY <1>1 DEF Admit, Queue
  <2>3. TaskInv' /\ \A j \in Events : Settling(j)' <=> Settling(j)
    BY <2>1, <2>2, Onward
  <2> QED BY <2>2, <2>3 DEF SentInv
<1>2. CASE Accepted(t)
  <2>1. /\ task[t].pc = "rpc" /\ task' = [task EXCEPT ![t].pc = "mark"]
        /\ sent' = [sent EXCEPT ![i] = @ + 1] /\ UNCHANGED <<row, job, unrecorded>>
    BY <1>2 DEF Accepted, Queue
  <2>2. /\ TaskInv'
        /\ \A j \in Events : (Settling(j)' <=> Settling(j)) \/ (j = i /\ Settling(j)')
    BY <2>1, Onward
  <2>3. i \in Events => sent[i] <= unrecorded[i]
    BY <2>1, Unsent
  <2>4. ASSUME NEW j \in Events
        PROVE  /\ sent'[j] <= 1 + unrecorded'[j]
               /\ ~row'[j].done /\ ~Settling(j)' => sent'[j] <= unrecorded'[j]
    <3>1. CASE j = i
      <4>1. Settling(j)'
        <5>1. task'[t].pc = "mark" /\ task'[t].item = i
          BY <2>1 DEF TypeOK, Tasks, Task
        <5> QED BY <3>1, <5>1 DEF Settling
      <4>2. sent'[j] = sent[j] + 1 /\ unrecorded'[j] = unrecorded[j]
        BY <1>0, <2>1, <3>1
      <4> QED BY <1>0, <2>3, <3>1, <4>1, <4>2
    <3>2. CASE j # i
      BY <1>0, <2>1, <2>2, <3>2 DEF SentInv
    <3> QED BY <3>1, <3>2
  <2> QED BY <2>2, <2>4 DEF SentInv
<1>3. CASE Raised(t)
  <2>1. /\ task[t].pc = "rpc" /\ task' = [task EXCEPT ![t].pc = "fail"]
        /\ UNCHANGED <<row, job>>
    BY <1>3 DEF Raised, Queue
  <2>2. PICK n \in {0, 1} : /\ sent' = [sent EXCEPT ![i] = @ + n]
                            /\ unrecorded' = [unrecorded EXCEPT ![i] = @ + n]
    BY <1>3 DEF Raised
  <2>3. TaskInv' /\ \A j \in Events : Settling(j)' <=> Settling(j)
    BY <2>1, Onward
  <2>4. ASSUME NEW j \in Events
        PROVE  /\ sent'[j] <= 1 + unrecorded'[j]
               /\ ~row'[j].done /\ ~Settling(j)' => sent'[j] <= unrecorded'[j]
    <3>1. \/ sent'[j] = sent[j] /\ unrecorded'[j] = unrecorded[j]
          \/ sent'[j] = sent[j] + n /\ unrecorded'[j] = unrecorded[j] + n
      BY <1>0, <2>2
    <3>2. /\ sent[j] \in Nat /\ unrecorded[j] \in Nat
          /\ sent[j] <= 1 + unrecorded[j]
          /\ ~row[j].done /\ ~Settling(j) => sent[j] <= unrecorded[j]
      BY <1>0 DEF SentInv
    <3> QED BY <2>1, <2>3, <3>1, <3>2
  <2> QED BY <2>3, <2>4 DEF SentInv
<1>4. CASE RecordSuccess(t)
  <2>1. /\ task[t].pc = "mark" /\ Finished(t) /\ UNCHANGED <<sent, unrecorded>>
        /\ IF i \in Memos THEN MarkAnchored(i) ELSE MarkMinted(i)
    BY <1>4 DEF RecordSuccess
  <2>2. /\ \A j \in Events : j # i => row'[j].done = row[j].done
        /\ i \in Events => row'[i].done
    <3>1. CASE i \in Memos
      BY <1>0, <2>1, <3>1 DEF MarkAnchored, TypeOK
    <3>2. CASE i \notin Memos
      <4>1. \E r : row' = [row EXCEPT ![i] = r]
        BY <2>1, <3>2 DEF MarkMinted
      <4> QED BY <1>0, <3>2, <4>1 DEF Memos
    <3> QED BY <3>1, <3>2
  <2>3. /\ TaskInv'
        /\ \A j \in Events : j # i => (Settling(j)' <=> Settling(j))
    BY <2>1, <2>2, Ended
  <2> QED BY <2>1, <2>2, <2>3 DEF SentInv
<1>5. CASE RecordFailure(t)
  <2>1. /\ task[t].pc = "fail" /\ UNCHANGED <<sent, unrecorded>>
        /\ Finished(t) \/ Requeued(t)
    BY <1>5 DEF RecordFailure
  <2>2. \A j \in Events : row'[j].done = row[j].done
    <3>1. i \in Assets => i \notin Events
      BY <1>0, AnchoringAssumption
    <3>2. CASE CountAttempt(i, task[t].seen)
      BY <1>0, <3>2 DEF CountAttempt, TypeOK
    <3>3. CASE i \in Assets /\ row' = [row EXCEPT ![i].done = FALSE]
      BY <1>0, <3>1, <3>3 DEF TypeOK
    <3> QED BY <1>5, <3>2, <3>3 DEF RecordFailure
  <2>3. /\ TaskInv'
        /\ \A j \in Events : j # i => (Settling(j)' <=> Settling(j))
    BY <2>1, <2>2, Ended
  <2>4. i \in Events => sent[i] <= unrecorded[i]
    BY <2>1, Unsent
  <2> QED BY <2>1, <2>2, <2>3, <2>4 DEF SentInv
<1> QED BY <1>1, <1>2, <1>3, <1>4, <1>5 DEF Run

\* The worker's tasks end; those of handlers go on.
LEMMA DiesTasks ==
    ASSUME TypeOK, WorkerDies, NEW i \in Items
    PROVE  /\ \A t \in Slots : task'[t] = IdleTask /\ task'[t].item = NoItem
           /\ \A h \in Handlers : task'[h] = task[h]
           /\ (\A t \in Slots : task[t].item # i) => job'[i] = job[i]
           /\ sweep' = {} /\ UNCHANGED <<row, api, asked>>
<1>1. /\ \A t \in Slots : task'[t] = IdleTask /\ task'[t].item = NoItem
      /\ \A h \in Handlers : task'[h] = task[h]
  BY AnchoringAssumption DEF WorkerDies, IdleTask
<1>2. ASSUME \A t \in Slots : task[t].item # i PROVE job'[i] = job[i]
  <2> DEFINE busy == {t \in Slots : task[t].pc # "idle"}
  <2>1. PICK again \in SUBSET busy :
          job' = [j \in Items |-> IF j \in Keys(again) THEN "queued"
                                 ELSE IF j \in Keys(busy) THEN "kept" ELSE job[j]]
    BY DEF WorkerDies
  <2>2. i \notin Keys(again) /\ i \notin Keys(busy)
    BY <1>2 DEF Keys
  <2> QED BY <2>1, <2>2
<1> QED BY <1>1, <1>2 DEF WorkerDies

LEMMA DiesSends ==
    ASSUME SendInv, WorkerDies
    PROVE  TaskInv' /\ SentInv'
<1> USE DEF SendInv
<1>0. /\ IdleTask.item = NoItem /\ IdleTask.pc = "idle" /\ NoItem \notin Events
      /\ Events \subseteq Items /\ sent \in [Items -> Nat] /\ unrecorded \in [Items -> Nat]
  BY AnchoringAssumption DEF IdleTask, Items, Memos, TypeOK
<1>1. /\ \A t \in Slots : task'[t] = IdleTask
      /\ \A h \in Handlers : task'[h] = task[h]
      /\ \A i \in Items : (\A t \in Slots : task[t].item # i) => job'[i] = job[i]
      /\ UNCHANGED row
  <2>1. \A i \in Items :
          /\ \A t \in Slots : task'[t] = IdleTask /\ task'[t].item = NoItem
          /\ \A h \in Handlers : task'[h] = task[h]
          /\ (\A t \in Slots : task[t].item # i) => job'[i] = job[i]
          /\ sweep' = {} /\ UNCHANGED <<row, api, asked>>
    BY DiesTasks
  <2>2. /\ \A t \in Slots : task'[t] = IdleTask
        /\ \A h \in Handlers : task'[h] = task[h]
        /\ UNCHANGED row
    BY AnchoringAssumption DEF WorkerDies
  <2> QED BY <2>1, <2>2
<1>2. TaskInv'
  <2> SUFFICES ASSUME NEW t \in Tasks
               PROVE  /\ task'[t].pc = "idle" => task'[t] = IdleTask
                      /\ task'[t].pc # "idle" => task'[t].item \in Items
                      /\ task'[t].item \in Events =>
                           /\ task'[t].how = "keyed"
                           /\ job'[task'[t].item] = "running"
                           /\ ~row'[task'[t].item].done
                           /\ \A u \in Tasks : task'[u].item = task'[t].item => u = t
    BY DEF TaskInv
  <2>1. CASE t \in Slots
    BY <1>0, <1>1, <2>1
  <2>2. CASE t \in Handlers
    <3>1. task'[t] = task[t]
      BY <1>1, <2>2
    <3>2. CASE task[t].item \in Events
      <4>1. \A u \in Tasks : task[u].item = task[t].item => u = t
        BY <3>2 DEF TaskInv
      <4>2. \A u \in Slots : task[u].item # task[t].item
        BY <2>2, <4>1, AnchoringAssumption DEF Tasks
      <4>3. job'[task[t].item] = "running"
        BY <1>0, <1>1, <3>2, <4>2 DEF TaskInv
      <4>4. \A u \in Tasks : task'[u].item = task[t].item => u = t
        BY <1>0, <1>1, <3>2, <4>1 DEF Tasks
      <4> QED BY <1>1, <3>1, <3>2, <4>3, <4>4 DEF TaskInv
    <3>3. CASE task[t].item \notin Events
      BY <3>1, <3>3 DEF TaskInv
    <3> QED BY <3>2, <3>3
  <2> QED BY <2>1, <2>2 DEF Tasks
<1>3. PICK accepted \in SUBSET Slots, lost \in SUBSET Slots :
        /\ \A t \in accepted : task[t].pc = "rpc"
        /\ \A t \in lost : task[t].pc \in {"rpc", "mark"}
        /\ accepted \subseteq lost
        /\ \A t \in Slots : task[t].pc = "mark" => t \in lost
        /\ \A i \in Items : /\ sent'[i] = sent[i] + On(accepted, i)
                            /\ unrecorded'[i] = unrecorded[i] + On(lost, i)
  BY Dies
<1>4. ASSUME NEW i \in Events
      PROVE  /\ sent'[i] <= 1 + unrecorded'[i]
             /\ ~row'[i].done /\ ~Settling(i)' => sent'[i] <= unrecorded'[i]
  <2>1. /\ On(accepted, i) \in Nat /\ On(lost, i) \in Nat /\ On(accepted, i) <= On(lost, i)
        /\ (\A t \in accepted : task[t].item # i) => On(accepted, i) = 0
        /\ On(lost, i) = 0 => \A t \in lost : task[t].item # i
    BY <1>3, Slotted
  <2>2. /\ sent[i] \in Nat /\ unrecorded[i] \in Nat /\ sent[i] <= 1 + unrecorded[i]
        /\ ~row[i].done /\ ~Settling(i) => sent[i] <= unrecorded[i]
        /\ sent'[i] = sent[i] + On(accepted, i)
        /\ unrecorded'[i] = unrecorded[i] + On(lost, i)
    BY <1>0, <1>3 DEF SentInv
  <2>3. CASE \E t \in Slots : task[t].item = i /\ task[t].pc = "mark"
    <3>1. PICK t \in Slots : task[t].item = i /\ task[t].pc = "mark"
      BY <2>3
    <3>2. \A u \in Tasks : task[u].item = i => u = t
      BY <3>1 DEF TaskInv, Tasks
    <3>3. \A u \in accepted : task[u].item # i
      BY <1>3, <3>1, <3>2 DEF Tasks
    <3>4. On(accepted, i) = 0 /\ On(lost, i) >= 1
      BY <1>3, <2>1, <3>1, <3>3
    <3> QED BY <2>1, <2>2, <3>4
  <2>4. CASE ~\E t \in Slots : task[t].item = i /\ task[t].pc = "mark"
    <3>1. Settling(i) => Settling(i)'
      BY <1>1, <2>4 DEF Settling, Tasks
    <3> QED BY <1>1, <2>1, <2>2, <3>1
  <2> QED BY <2>3, <2>4
<1> QED BY <1>2, <1>4 DEF SentInv

LEMMA FaultSends ==
    ASSUME SendInv, Fault
    PROVE  TaskInv' /\ SentInv'
<1> USE DEF SendInv
<1>1. ASSUME NEW i \in Items, EnqueueFails(i) \/ SweepEnqueueFails(i)
      PROVE  TaskInv' /\ SentInv'
  BY <1>1, Apart DEF EnqueueFails, SweepEnqueueFails, Workers, Queue
<1>2. ASSUME NEW t \in Tasks, Crash(t)
      PROVE  TaskInv' /\ SentInv'
  <2> DEFINE i == task[t].item
  <2>0. sent \in [Items -> Nat] /\ unrecorded \in [Items -> Nat] /\ Events \subseteq Items
    BY DEF TypeOK, Items, Memos
  <2>1. /\ task[t].pc # "idle" /\ UNCHANGED row
        /\ Finished(t) \/ Requeued(t)
    BY <1>2 DEF Crash
  <2>2. PICK n \in {0, 1} :
          /\ task[t].pc = "mark" => n = 0
          /\ sent' = [sent EXCEPT ![i] = @ + n]
          /\ unrecorded' = [unrecorded EXCEPT ![i] =
                              IF task[t].pc = "mark" THEN @ + 1 ELSE @ + n]
    BY <1>2 DEF Crash
  <2>3. /\ TaskInv'
        /\ \A j \in Events : j # i => (Settling(j)' <=> Settling(j))
    BY <2>1, Ended
  <2>4. i \in Events /\ task[t].pc # "mark" => sent[i] <= unrecorded[i]
    BY Unsent
  <2>5. ASSUME NEW j \in Events
        PROVE  /\ sent'[j] <= 1 + unrecorded'[j]
               /\ ~row'[j].done /\ ~Settling(j)' => sent'[j] <= unrecorded'[j]
    <3>1. /\ sent[j] \in Nat /\ unrecorded[j] \in Nat
          /\ sent[j] <= 1 + unrecorded[j]
          /\ ~row[j].done /\ ~Settling(j) => sent[j] <= unrecorded[j]
      BY <2>0 DEF SentInv
    <3>2. CASE j # i
      BY <2>0, <2>1, <2>2, <2>3, <3>1, <3>2
    <3>3. CASE j = i /\ task[t].pc = "mark"
      <4>1. sent'[j] = sent[j] /\ unrecorded'[j] = unrecorded[j] + 1
        BY <2>0, <2>2, <3>3
      <4> QED BY <3>1, <4>1
    <3>4. CASE j = i /\ task[t].pc # "mark"
      <4>1. sent'[j] = sent[j] + n /\ unrecorded'[j] = unrecorded[j] + n
        BY <2>0, <2>2, <3>4
      <4> QED BY <2>4, <3>1, <3>4, <4>1
    <3> QED BY <3>2, <3>3, <3>4
  <2> QED BY <2>3, <2>5 DEF SentInv
<1> QED BY <1>1, <1>2, DiesSends DEF Fault, Tasks

-----------------------------------------------------------------------------
(* What the chain was sent for an asset.  Several tasks may work on one      *)
(* asset: the job with its id and the handlers of whoever asked.  Each of    *)
(* them may still send once, and so may a job that is to come; what is sent  *)
(* and what may be sent without another request stays within what is lost,   *)
(* what was asked for and the one mint of its creation.                      *)

Keyed(i) == {t \in Slots : task[t].item = i}
Minting(i) == {h \in Handlers : task[h].item = i /\ task[h].pc # "mark"}
Unhandled(i) == \A h \in Handlers : task[h].item = i => task[h].how # "inline"

\* A job works on the asset and has not been answered, or one may come.
Chance(i) ==
    \/ \E t \in Keyed(i) : task[t].pc # "mark"
    \/ /\ Keyed(i) = {} /\ ~row[i].done
       /\ i \in sweep \/ job[i] = "queued" \/ (~row[i].minted /\ Unhandled(i))

SlotInv(i) ==
    \A t \in Slots : task[t].item = i =>
        /\ task[t].how = "keyed" /\ job[i] = "running"
        /\ \A u \in Slots : task[u].item = i => u = t

HandlerInv(i) == \A h \in Handlers : task[h].item = i => task[h].how \in {"inline", "byhand"}

\* Until its handler goes on from the commit, nothing else sees an asset.
NewInv(i) ==
    api[i] # "ended" =>
        /\ i \notin sweep /\ job[i] = "free" /\ ~row[i].done /\ ~row[i].minted
        /\ \A t \in Tasks : task[t].item # i

CountInv(i) ==
    /\ IsFiniteSet(Minting(i))
    /\ sent[i] + Cardinality(Minting(i)) + (IF Chance(i) THEN 1 ELSE 0)
         <= 1 + unrecorded[i] + asked[i]

AssetInv(i) == SlotInv(i) /\ HandlerInv(i) /\ NewInv(i) /\ CountInv(i)

MintInv == \A i \in Assets : AssetInv(i)

\* Nobody begins, goes on with or ends a task for i.
Quiet(i) ==
    \A t \in Tasks : task[t].item = i \/ task'[t].item = i => task'[t] = task[t]

LEMMA QuietSame ==
    ASSUME NEW i, Quiet(i)
    PROVE  /\ Keyed(i)' = Keyed(i) /\ Minting(i)' = Minting(i)
           /\ Unhandled(i)' <=> Unhandled(i)
           /\ \A t \in Slots : task'[t].item = i => task'[t] = task[t]
           /\ \A h \in Handlers : task'[h].item = i => task'[h] = task[h]
           /\ (\E t \in Keyed(i) : task[t].pc # "mark")'
                <=> \E t \in Keyed(i) : task[t].pc # "mark"
BY DEF Quiet, Keyed, Minting, Unhandled, Tasks

LEMMA CountType ==
    ASSUME TypeOK, NEW i \in Assets
    PROVE  sent[i] \in Nat /\ unrecorded[i] \in Nat /\ asked[i] \in Nat /\ i \in Items
BY DEF TypeOK, Items

\* What is sent and may be sent changes by no more than what is paid for.
LEMMA Pays ==
    ASSUME TypeOK, TypeOK', NEW i \in Assets, CountInv(i), IsFiniteSet(Minting(i)'),
           NEW more \in Nat,
           sent'[i] + Cardinality(Minting(i)') + (IF Chance(i)' THEN 1 ELSE 0)
             <= more + sent[i] + Cardinality(Minting(i)) + (IF Chance(i) THEN 1 ELSE 0),
           unrecorded'[i] + asked'[i] >= more + unrecorded[i] + asked[i]
    PROVE  CountInv(i)'
<1>1. /\ sent[i] \in Nat /\ unrecorded[i] \in Nat /\ asked[i] \in Nat
      /\ sent'[i] \in Nat /\ unrecorded'[i] \in Nat /\ asked'[i] \in Nat
  BY DEF TypeOK, Items
<1>2. Cardinality(Minting(i)) \in Nat /\ Cardinality(Minting(i)') \in Nat
  BY FS_CardinalityType DEF CountInv
<1> QED BY <1>1, <1>2 DEF CountInv

\* A step that leaves the tasks for i alone lists it only for cause.
LEMMA Aside ==
    ASSUME TypeOK, TypeOK', NEW i \in Assets, AssetInv(i), Quiet(i),
           sent'[i] = sent[i], unrecorded'[i] = unrecorded[i], asked'[i] = asked[i],
           row'[i].done = row[i].done, row'[i].minted = row[i].minted,
           api'[i] # "ended" => api[i] # "ended",
           \/ /\ job'[i] = job[i]
              /\ i \in sweep' => \/ i \in sweep
                                 \/ api[i] = "ended" /\ ~row[i].minted /\ Unhandled(i)
           \/ job[i] = "free" /\ job'[i] = "queued" /\ i \in sweep /\ sweep' \subseteq sweep
           \/ /\ job[i] \in {"queued", "kept"} /\ job'[i] \in {"kept", "free"}
              /\ sweep' \subseteq sweep
    PROVE  AssetInv(i)'
<1>0. i \in Items
  BY DEF Items
<1>1. SlotInv(i)'
  BY QuietSame DEF AssetInv, SlotInv, Quiet, Tasks
<1>2. HandlerInv(i)'
  BY QuietSame DEF AssetInv, HandlerInv
<1>3. NewInv(i)'
  BY DEF AssetInv, NewInv, Quiet
<1>4. Chance(i)' => Chance(i)
  BY QuietSame DEF Chance
<1>5. CountInv(i)'
  <2>1. Minting(i)' = Minting(i)
    BY QuietSame
  <2>2. IsFiniteSet(Minting(i)') /\ Cardinality(Minting(i)') = Cardinality(Minting(i))
    BY <2>1 DEF AssetInv, CountInv
  <2>3. Cardinality(Minting(i)) \in Nat
    BY FS_CardinalityType DEF AssetInv, CountInv
  <2> DEFINE c == Cardinality(Minting(i))
             n == IF Chance(i) THEN 1 ELSE 0
             m == IF Chance(i)' THEN 1 ELSE 0
  <2>4. n \in Nat /\ m \in Nat /\ m <= n
    BY <1>4
  <2>5. sent[i] + c + n <= 1 + unrecorded[i] + asked[i]
    BY DEF AssetInv, CountInv
  <2>6. sent'[i] + Cardinality(Minting(i)') + m <= 1 + unrecorded'[i] + asked'[i]
    <3> HIDE DEF c, n, m
    <3>1. Cardinality(Minting(i)') = c
      BY <2>2 DEF c
    <3>2. c \in Nat
      BY <2>3 DEF c
    <3> QED BY <2>4, <2>5, <3>1, <3>2, CountType
  <2> QED BY <2>2, <2>6 DEF CountInv
<1> QED BY <1>1, <1>2, <1>3, <1>5 DEF AssetInv

\* Handlers begin to mint: the one that created the asset, who asks for it.
LEMMA InlineMints ==
    ASSUME SendInv, TypeOK', NEW i \in Assets, AssetInv(i), NEW h \in Handlers,
           NEW k \in Assets, MintInline(h, k) \/ Remint(h, k)
    PROVE  AssetInv(i)'
<1> DEFINE how == IF MintInline(h, k) THEN "inline" ELSE "byhand"
           r == [pc |-> "rpc", item |-> k, how |-> how, seen |-> 0]
<1>0. /\ task[h].pc = "idle" /\ task' = [task EXCEPT ![h] = r] /\ task[h].item = NoItem
      /\ UNCHANGED <<row, job, sweep, sent, unrecorded>>
      /\ task'[h] = r /\ \A u \in Tasks : u # h => task'[u] = task[u]
      /\ NoItem # i /\ h \notin Slots
  <2>1. /\ task[h].pc = "idle" /\ task' = [task EXCEPT ![h] = r]
        /\ UNCHANGED <<row, job, sweep, sent, unrecorded>>
    BY DEF MintInline, Remint, Queue
  <2>2. task \in [Tasks -> Task] /\ h \in Tasks
    BY DEF SendInv, TypeOK, Tasks
  <2>3. task[h].item = NoItem
    BY <2>1, <2>2 DEF SendInv, TaskInv, IdleTask
  <2>4. NoItem # i /\ h \notin Slots
    BY AnchoringAssumption DEF Items
  <2> QED BY <2>1, <2>2, <2>3, <2>4
<1>1. CASE k # i
  <2>1. Quiet(i)
    BY <1>0, <1>1 DEF Quiet
  <2>2. asked'[i] = asked[i] /\ (api'[i] # "ended" => api[i] # "ended")
    BY <1>1 DEF MintInline, Remint, SendInv, TypeOK, Items
  <2> QED BY <1>0, <2>1, <2>2, Aside DEF SendInv
<1>2. CASE k = i
  <2>1. SlotInv(i)'
    BY <1>0 DEF AssetInv, SlotInv, Tasks
  <2>2. HandlerInv(i)'
    BY <1>0 DEF AssetInv, HandlerInv, Tasks
  <2>3. api'[i] = "ended"
    BY <1>2 DEF MintInline, Remint, SendInv, TypeOK, Items
  <2>4. NewInv(i)'
    BY <2>3 DEF NewInv
  <2>5. Minting(i)' = Minting(i) \cup {h} /\ h \notin Minting(i)
    BY <1>0, <1>2 DEF Minting, Tasks
  <2>6. /\ IsFiniteSet(Minting(i)')
        /\ Cardinality(Minting(i)') = Cardinality(Minting(i)) + 1
        /\ Cardinality(Minting(i)) \in Nat
    BY <2>5, FS_AddElement, FS_CardinalityType DEF AssetInv, CountInv
  <2>7. Keyed(i)' = Keyed(i) /\ \A t \in Slots : task'[t] = task[t]
    BY <1>0 DEF Keyed, Tasks
  <2>8. (Unhandled(i)' => Unhandled(i)) /\ (MintInline(h, k) => ~Unhandled(i)')
    BY <1>0, <1>2 DEF Unhandled, Tasks
  <2>9. Chance(i)' => Chance(i)
    BY <1>0, <2>7, <2>8 DEF Chance, Keyed
  <2>10. CASE MintInline(h, k)
    <3>1. api[i] # "ended" /\ asked'[i] = asked[i]
      BY <1>2, <2>10 DEF MintInline
    <3>2. /\ i \notin sweep /\ job[i] = "free" /\ ~row[i].done /\ ~row[i].minted
          /\ \A t \in Tasks : task[t].item # i
      BY <3>1 DEF AssetInv, NewInv
    <3>3. Chance(i)
      BY <3>2 DEF Chance, Keyed, Unhandled, Tasks
    <3>4. ~Chance(i)'
      BY <1>0, <2>7, <2>8, <2>10, <3>2 DEF Chance, Keyed, Tasks
    <3>5. /\ sent'[i] + Cardinality(Minting(i)') + (IF Chance(i)' THEN 1 ELSE 0)
               <= 0 + sent[i] + Cardinality(Minting(i)) + (IF Chance(i) THEN 1 ELSE 0)
          /\ unrecorded'[i] + asked'[i] >= 0 + unrecorded[i] + asked[i]
      BY <1>0, <2>6, <3>1, <3>3, <3>4, CountType DEF SendInv
    <3>6. CountInv(i)'
      BY <2>6, <3>5, Pays DEF SendInv, AssetInv
    <3> QED BY <2>1, <2>2, <2>4, <3>6 DEF AssetInv
  <2>11. CASE Remint(h, k)
    <3>1. asked'[i] = asked[i] + 1
      BY <1>2, <2>11 DEF Remint, SendInv, TypeOK, Items
    <3>2. sent'[i] = sent[i] /\ unrecorded'[i] = unrecorded[i]
      BY <1>0
    <3>3. /\ sent'[i] + Cardinality(Minting(i)') + (IF Chance(i)' THEN 1 ELSE 0)
               <= 1 + sent[i] + Cardinality(Minting(i)) + (IF Chance(i) THEN 1 ELSE 0)
          /\ unrecorded'[i] + asked'[i] >= 1 + unrecorded[i] + asked[i]
      BY <2>6, <2>9, <3>1, <3>2, CountType DEF SendInv
    <3>4. CountInv(i)'
      BY <2>6, <3>3, Pays DEF SendInv, AssetInv
    <3> QED BY <2>1, <2>2, <2>4, <3>4 DEF AssetInv
  <2> QED BY <2>10, <2>11
<1> QED BY <1>1, <1>2

LEMMA RequestMints ==
    ASSUME SendInv, TypeOK', NEW i \in Assets, AssetInv(i),
           NEW k \in Items, Request(k) \/ ByHand(k)
    PROVE  AssetInv(i)'
<1>0. /\ i \in Items /\ i \notin Memos /\ i \notin Hashes /\ i \notin Events
      /\ row \in [Items -> [live : BOOLEAN, done : BOOLEAN, minted : BOOLEAN,
                            attempts : Nat]]
      /\ api \in [Items -> ApiPcs] /\ job \in [Items -> JobStates]
      /\ asked \in [Items -> Nat] /\ TypeOK
  BY AnchoringAssumption DEF SendInv, TypeOK, Items, Memos
<1>1. ASSUME UNCHANGED task
      PROVE  Quiet(i)
  BY <1>1 DEF Quiet
<1>2. CASE CheckSource(k)
  <2>1. UNCHANGED <<row, job, task, sweep, sent, unrecorded, asked>> /\ k # i
    BY <1>0, <1>2 DEF CheckSource, Queue, Workers
  <2>2. api'[i] = api[i]
    BY <1>0, <1>2, <2>1 DEF CheckSource
  <2> QED BY <1>0, <1>1, <2>1, <2>2, Aside
<1>3. CASE Create(k)
  <2>1. UNCHANGED <<job, task, sweep, sent, unrecorded, asked>>
    BY <1>3 DEF Create, Queue, Workers
  <2>2. /\ row'[i].done = row[i].done /\ row'[i].minted = row[i].minted
        /\ api'[i] # "ended" => api[i] # "ended"
    BY <1>0, <1>3 DEF Create
  <2> QED BY <1>0, <1>1, <2>1, <2>2, Aside
<1>4. CASE Enqueue(k)
  <2>1. UNCHANGED <<row, task, sweep, sent, unrecorded, asked>> /\ k # i
    BY <1>0, <1>4 DEF Enqueue, Workers
  <2>2. api'[i] = api[i] /\ job'[i] = job[i]
    BY <1>0, <1>4, <2>1 DEF Enqueue, EnqueueKeyed
  <2> QED BY <1>0, <1>1, <2>1, <2>2, Aside
<1>5. CASE TriggerAnchor(k)
  <2>1. UNCHANGED <<row, api, task, sweep, sent, unrecorded>> /\ k # i
    BY <1>0, <1>5 DEF TriggerAnchor, Workers
  <2>2. asked'[i] = asked[i] /\ job'[i] = job[i]
    BY <1>0, <1>5, <2>1 DEF TriggerAnchor, EnqueueKeyed
  <2> QED BY <1>0, <1>1, <2>1, <2>2, Aside
<1>6. ASSUME NEW h \in Handlers, MintInline(h, k) \/ Remint(h, k)
      PROVE  AssetInv(i)'
  <2>1. k \in Assets
    BY <1>6 DEF MintInline, Remint
  <2> QED BY <1>6, <2>1, InlineMints
<1> QED BY <1>2, <1>3, <1>4, <1>5, <1>6 DEF Request, ByHand

LEMMA SweepMintsKeep ==
    ASSUME SendInv, TypeOK', NEW i \in Assets, AssetInv(i),
           \/ SweepAnchors \/ SweepMints
           \/ \E k \in Items : SweepEnqueue(k) \/ SweepEnqueueFails(k) \/ EnqueueFails(k)
    PROVE  AssetInv(i)'
<1>0. /\ i \in Items /\ i \notin Events /\ i \notin Hashes /\ TypeOK
      /\ api \in [Items -> ApiPcs] /\ job \in [Items -> JobStates]
  BY AnchoringAssumption DEF SendInv, TypeOK, Items, Memos
<1>1. /\ UNCHANGED <<row, task, sent, unrecorded, asked>>
      /\ Quiet(i)
  BY DEF SweepAnchors, SweepMints, SweepEnqueue, SweepEnqueueFails, EnqueueFails,
         Workers, Quiet
<1>2. CASE SweepAnchors
  <2>1. i \in sweep' => i \in sweep
    BY <1>0, <1>2 DEF SweepAnchors, GetPending
  <2> QED BY <1>0, <1>1, <1>2, <2>1, Aside DEF SweepAnchors, Queue
<1>3. CASE SweepMints
  <2>1. i \in sweep' => i \in sweep \/ i \in Unminted
    BY <1>3 DEF SweepMints
  <2>2. i \in Unminted => api[i] = "ended" /\ ~row[i].minted /\ Unhandled(i)
    BY DEF Unminted, Unhandled
  <2> QED BY <1>0, <1>1, <1>3, <2>1, <2>2, Aside DEF SweepMints, Queue
<1>4. ASSUME NEW k \in Items, SweepEnqueue(k)
      PROVE  AssetInv(i)'
  <2>1. UNCHANGED api /\ sweep' \subseteq sweep /\ k \in sweep
    BY <1>4 DEF SweepEnqueue
  <2>2. \/ job'[i] = job[i]
        \/ job[i] = "free" /\ job'[i] = "queued" /\ k = i
    BY <1>0, <1>4 DEF SweepEnqueue, EnqueueKeyed
  <2> QED BY <1>0, <1>1, <2>1, <2>2, Aside
<1>5. ASSUME NEW k \in Items, SweepEnqueueFails(k) \/ EnqueueFails(k)
      PROVE  AssetInv(i)'
  <2>1. UNCHANGED job /\ sweep' \subseteq sweep
    BY <1>5 DEF SweepEnqueueFails, EnqueueFails, Queue
  <2>2. api'[i] # "ended" => api[i] # "ended"
    BY <1>0, <1>5 DEF SweepEnqueueFails, EnqueueFails
  <2> QED BY <1>0, <1>1, <2>1, <2>2, Aside
<1> QED BY <1>2, <1>3, <1>4, <1>5

LEMMA PickMints ==
    ASSUME SendInv, TypeOK', NEW i \in Assets, AssetInv(i),
           NEW k \in Items, Pick(k) \/ ResultExpires(k)
    PROVE  AssetInv(i)'
<1>0. /\ i \in Items /\ i \notin Memos /\ i \notin Hashes /\ TypeOK /\ NoItem # i
      /\ job \in [Items -> JobStates] /\ task \in [Tasks -> Task]
  BY AnchoringAssumption DEF SendInv, TypeOK, Items, Memos, Tasks
<1>1. UNCHANGED <<row, sent, unrecorded, api, sweep, asked>>
  BY DEF Pick, PickKeyed, PickLoose, ResultExpires, Workers, Rest
<1>2. CASE ResultExpires(k)
  <2>1. UNCHANGED task /\ Quiet(i)
    BY <1>2 DEF ResultExpires, Workers, Quiet
  <2>2. \/ job'[i] = job[i]
        \/ job[i] = "kept" /\ job'[i] = "free"
    BY <1>0, <1>2 DEF ResultExpires
  <2> QED BY <1>0, <1>1, <2>1, <2>2, Aside
<1>3. ASSUME NEW t \in Slots, PickKeyed(t, k) \/ PickLoose(t, k),
             k # i \/ NothingToDo(k)
      PROVE  AssetInv(i)'
  <2>0. t \in Tasks /\ task[t].item = NoItem
    BY <1>3 DEF PickKeyed, PickLoose, SendInv, TaskInv, IdleTask, Tasks
  <2>1. \/ task' = task
        \/ \E how : task' = [task EXCEPT ![t] =
             [pc |-> IF k \in Memos THEN "call" ELSE "rpc", item |-> k,
              how |-> how, seen |-> row[k].attempts]] /\ k # i
    BY <1>3 DEF PickKeyed, PickLoose, Begin
  <2>2. Quiet(i)
    BY <1>0, <2>0, <2>1 DEF Quiet
  <2>3. \/ job'[i] = job[i]
        \/ job[i] = "queued" /\ job'[i] = "kept"
    BY <1>0, <1>3 DEF PickKeyed, PickLoose
  <2> QED BY <1>0, <1>1, <2>2, <2>3, Aside
<1>4. ASSUME NEW t \in Slots, PickKeyed(t, i), ~NothingToDo(i)
      PROVE  AssetInv(i)'
  <2> DEFINE r == [pc |-> IF i \in Memos THEN "call" ELSE "rpc", item |-> i,
                   how |-> "keyed", seen |-> row[i].attempts]
  <2>1. /\ t \in Tasks /\ t \notin Handlers /\ task' = [task EXCEPT ![t] = r]
        /\ task[t].item = NoItem /\ job[i] = "queued" /\ job'[i] = "running"
        /\ ~row[i].done
    BY <1>0, <1>4, AnchoringAssumption
       DEF PickKeyed, Begin, NothingToDo, SendInv, TaskInv, IdleTask, Tasks
  <2>2. /\ task'[t].how = "keyed" /\ task'[t].item = i
        /\ \A u \in Tasks : u # t => task'[u] = task[u]
    BY <1>0, <2>1
  <2>3. \A u \in Slots : task[u].item # i
    BY <2>1 DEF AssetInv, SlotInv
  <2>4. SlotInv(i)'
    BY <2>1, <2>2, <2>3 DEF SlotInv, Tasks
  <2>5. HandlerInv(i)' /\ Minting(i)' = Minting(i)
    BY <2>1, <2>2 DEF AssetInv, HandlerInv, Minting, Tasks
  <2>6. NewInv(i)'
    BY <1>1, <2>1 DEF AssetInv, NewInv
  <2>7. Chance(i)
    BY <2>1, <2>3 DEF Chance, Keyed
  <2>8. Cardinality(Minting(i)) \in Nat /\ IsFiniteSet(Minting(i))
    BY FS_CardinalityType DEF AssetInv, CountInv
  <2>9. /\ sent'[i] + Cardinality(Minting(i)') + (IF Chance(i)' THEN 1 ELSE 0)
             <= 0 + sent[i] + Cardinality(Minting(i)) + (IF Chance(i) THEN 1 ELSE 0)
        /\ unrecorded'[i] + asked'[i] >= 0 + unrecorded[i] + asked[i]
    BY <1>0, <1>1, <2>5, <2>7, <2>8, CountType
  <2>10. CountInv(i)'
    BY <1>0, <2>5, <2>8, <2>9, Pays DEF AssetInv
  <2> QED BY <2>4, <2>5, <2>6, <2>10 DEF AssetInv
<1>5. ASSUME NEW t \in Slots, PickLoose(t, k)
      PROVE  k # i
  BY <1>0, <1>5 DEF PickLoose
<1> QED BY <1>2, <1>3, <1>4, <1>5 DEF Pick

\* A task goes on to another call that has not been answered, or raises.
LEMMA GoesOn ==
    ASSUME SendInv, TypeOK', NEW i \in Assets, AssetInv(i),
           NEW t \in Tasks, task[t].item = i, task[t].pc # "mark",
           NEW p \in {"rpc", "fail"}, task' = [task EXCEPT ![t].pc = p],
           NEW n \in Nat, sent'[i] = sent[i] + n, unrecorded'[i] = unrecorded[i] + n,
           UNCHANGED <<row, job, sweep, api, asked>>
    PROVE  AssetInv(i)'
<1>0. /\ \A u \in Tasks : /\ task'[u].item = task[u].item /\ task'[u].how = task[u].how
                          /\ (task'[u].pc = "mark" <=> task[u].pc = "mark")
  BY DEF SendInv, TypeOK, Tasks, Task
<1>1. SlotInv(i)' /\ HandlerInv(i)' /\ NewInv(i)'
  BY <1>0 DEF AssetInv, SlotInv, HandlerInv, NewInv, Tasks
<1>2. Minting(i)' = Minting(i) /\ (Chance(i)' <=> Chance(i))
  BY <1>0 DEF Minting, Chance, Keyed, Unhandled, Tasks
<1>3. IsFiniteSet(Minting(i)) /\ Cardinality(Minting(i)) \in Nat
  BY FS_CardinalityType DEF AssetInv, CountInv
<1>4. /\ sent'[i] + Cardinality(Minting(i)') + (IF Chance(i)' THEN 1 ELSE 0)
           <= n + sent[i] + Cardinality(Minting(i)) + (IF Chance(i) THEN 1 ELSE 0)
      /\ unrecorded'[i] + asked'[i] >= n + unrecorded[i] + asked[i]
  BY <1>2, <1>3, CountType DEF SendInv
<1>5. CountInv(i)'
  BY <1>2, <1>3, <1>4, Pays DEF SendInv, AssetInv
<1> QED BY <1>1, <1>5 DEF AssetInv

\* The chain answers: what the task might have sent, it has sent.
LEMMA Answered ==
    ASSUME SendInv, TypeOK', NEW i \in Assets, AssetInv(i),
           NEW t \in Tasks, task[t].item = i, Accepted(t)
    PROVE  AssetInv(i)'
<1>0. /\ task[t].pc = "rpc" /\ task' = [task EXCEPT ![t].pc = "mark"]
      /\ sent' = [sent EXCEPT ![i] = @ + 1]
      /\ UNCHANGED <<row, job, sweep, api, asked, unrecorded>>
  BY DEF Accepted, Queue, Rest
<1>1. /\ \A u \in Tasks : /\ task'[u].item = task[u].item /\ task'[u].how = task[u].how
                          /\ u # t => task'[u] = task[u]
      /\ task'[t].pc = "mark"
  <2>1. task \in [Tasks -> Task]
    BY DEF SendInv, TypeOK, Tasks
  <2>2. /\ \A u \in Tasks : u # t => task'[u] = task[u]
        /\ task'[t] = [task[t] EXCEPT !.pc = "mark"]
    BY <1>0, <2>1
  <2>3. task[t] \in Task
    BY <2>1
  <2>4. /\ task'[t].item = task[t].item /\ task'[t].how = task[t].how
        /\ task'[t].pc = "mark"
    BY <2>2, <2>3 DEF Task
  <2> QED BY <2>2, <2>4
<1>2. SlotInv(i)' /\ HandlerInv(i)' /\ NewInv(i)'
  BY <1>0, <1>1 DEF AssetInv, SlotInv, HandlerInv, NewInv, Tasks
<1>3. IsFiniteSet(Minting(i)) /\ Cardinality(Minting(i)) \in Nat
  BY FS_CardinalityType DEF AssetInv, CountInv
<1>4. sent'[i] = sent[i] + 1
  BY <1>0, CountType DEF SendInv, TypeOK
<1>5. Keyed(i)' = Keyed(i) /\ (Unhandled(i)' <=> Unhandled(i))
  BY <1>1 DEF Keyed, Unhandled, Tasks
<1>6. CASE t \in Handlers
  <2>1. t \notin Slots /\ t \in Minting(i) /\ Minting(i)' = Minting(i) \ {t}
    BY <1>0, <1>1, <1>6, AnchoringAssumption DEF Minting, Tasks
  <2>2. /\ IsFiniteSet(Minting(i)')
        /\ Cardinality(Minting(i)') = Cardinality(Minting(i)) - 1
    BY <1>3, <2>1, FS_RemoveElement
  <2>3. Chance(i)' <=> Chance(i)
    BY <1>0, <1>1, <1>5, <2>1 DEF Chance, Keyed, Tasks
  <2>4. /\ sent'[i] + Cardinality(Minting(i)') + (IF Chance(i)' THEN 1 ELSE 0)
             <= 0 + sent[i] + Cardinality(Minting(i)) + (IF Chance(i) THEN 1 ELSE 0)
        /\ unrecorded'[i] + asked'[i] >= 0 + unrecorded[i] + asked[i]
    BY <1>0, <1>3, <1>4, <2>2, <2>3, CountType DEF SendInv
  <2>5. CountInv(i)'
    BY <2>2, <2>4, Pays DEF SendInv, AssetInv
  <2> QED BY <1>2, <2>5 DEF AssetInv
<1>7. CASE t \in Slots
  <2>1. t \notin Handlers /\ Minting(i)' = Minting(i)
    BY <1>1, <1>7, AnchoringAssumption DEF Minting, Tasks
  <2>2. t \in Keyed(i) /\ \A u \in Keyed(i) : u = t
    BY <1>7 DEF Keyed, AssetInv, SlotInv
  <2>3. Chance(i) /\ ~Chance(i)'
    BY <1>0, <1>1, <1>5, <2>2 DEF Chance
  <2>4. /\ sent'[i] + Cardinality(Minting(i)') + (IF Chance(i)' THEN 1 ELSE 0)
             <= 0 + sent[i] + Cardinality(Minting(i)) + (IF Chance(i) THEN 1 ELSE 0)
        /\ unrecorded'[i] + asked'[i] >= 0 + unrecorded[i] + asked[i]
    BY <1>0, <1>3, <1>4, <2>1, <2>3, CountType DEF SendInv
  <2>5. CountInv(i)'
    BY <1>3, <2>1, <2>4, Pays DEF SendInv, AssetInv
  <2> QED BY <1>2, <2>5 DEF AssetInv
<1> QED BY <1>6, <1>7 DEF Tasks

\* A task ends.  Unless it had been answered, it leaves a job to come at most
\* in its own place.
LEMMA Leaves ==
    ASSUME SendInv, NEW i \in Assets, AssetInv(i), NEW t \in Tasks,
           task[t].item = i, task[t].pc # "idle", Finished(t) \/ Requeued(t),
           UNCHANGED <<api, sweep>>
    PROVE  /\ SlotInv(i)' /\ HandlerInv(i)' /\ NewInv(i)'
           /\ IsFiniteSet(Minting(i)')
           /\ Cardinality(Minting(i)') \in Nat /\ Cardinality(Minting(i)) \in Nat
           /\ IF task[t].pc = "mark"
              THEN Cardinality(Minting(i)') = Cardinality(Minting(i))
              ELSE \/ Cardinality(Minting(i)') = Cardinality(Minting(i)) /\ Chance(i)
                   \/ Cardinality(Minting(i)') = Cardinality(Minting(i)) - 1
           /\ row'[i].done => (Chance(i)' => Chance(i))
<1>0. /\ i \in Items /\ i # NoItem /\ i \notin Hashes
      /\ job \in [Items -> JobStates] /\ task \in [Tasks -> Task]
  BY AnchoringAssumption DEF SendInv, TypeOK, Items, Memos, Tasks
<1>1. /\ task' = [task EXCEPT ![t] = IdleTask] /\ task'[t].item = NoItem
      /\ \A u \in Tasks : u # t => task'[u] = task[u]
  BY <1>0 DEF Finished, Requeued, IdleTask
<1>2. api[i] = "ended"
  BY DEF AssetInv, NewInv
<1>3. NewInv(i)'
  BY <1>2 DEF NewInv
<1>4. HandlerInv(i)'
  BY <1>0, <1>1 DEF AssetInv, HandlerInv, Tasks
<1>5. IsFiniteSet(Minting(i)) /\ Cardinality(Minting(i)) \in Nat
  BY FS_CardinalityType DEF AssetInv, CountInv
<1>6. CASE t \in Slots
  <2>1. \A u \in Slots : task[u].item = i => u = t
    BY <1>6 DEF AssetInv, SlotInv
  <2>2. \A u \in Slots : task'[u].item # i
    BY <1>0, <1>1, <1>6, <2>1 DEF Tasks
  <2>3. SlotInv(i)' /\ Keyed(i)' = {}
    BY <2>2 DEF SlotInv, Keyed
  <2>4. t \notin Handlers /\ Minting(i)' = Minting(i)
    BY <1>1, <1>6, AnchoringAssumption DEF Minting, Tasks
  <2>5. task[t].pc # "mark" => Chance(i)
    BY <1>6 DEF Chance, Keyed
  <2>6. row'[i].done => ~Chance(i)'
    BY <2>3 DEF Chance
  <2> QED BY <1>3, <1>4, <1>5, <2>3, <2>4, <2>5, <2>6
<1>7. CASE t \in Handlers
  <2>1. t \notin Slots /\ task[t].how \in {"inline", "byhand"}
    BY <1>7, AnchoringAssumption DEF AssetInv, HandlerInv
  <2>2. job'[i] = job[i]
    BY <2>1 DEF Finished, Requeued
  <2>3. SlotInv(i)'
    BY <1>1, <2>1, <2>2 DEF AssetInv, SlotInv, Tasks
  <2>4. /\ IsFiniteSet(Minting(i)') /\ Cardinality(Minting(i)') \in Nat
        /\ IF task[t].pc = "mark"
           THEN Cardinality(Minting(i)') = Cardinality(Minting(i))
           ELSE Cardinality(Minting(i)') = Cardinality(Minting(i)) - 1
    <3>1. CASE task[t].pc = "mark"
      <4>1. Minting(i)' = Minting(i)
        BY <1>0, <1>1, <1>7, <3>1 DEF Minting, Tasks
      <4> QED BY <1>5, <3>1, <4>1
    <3>2. CASE task[t].pc # "mark"
      <4>1. t \in Minting(i) /\ Minting(i)' = Minting(i) \ {t}
        BY <1>0, <1>1, <1>7, <3>2 DEF Minting, Tasks
      <4>2. /\ IsFiniteSet(Minting(i)')
            /\ Cardinality(Minting(i)') = Cardinality(Minting(i)) - 1
        BY <1>5, <4>1, FS_RemoveElement
      <4> QED BY <3>2, <4>2, FS_CardinalityType
    <3> QED BY <3>1, <3>2
  <2>5. row'[i].done => (Chance(i)' => Chance(i))
    BY <1>1, <2>1 DEF Chance, Keyed, Tasks
  <2> QED BY <1>3, <1>4, <1>5, <2>3, <2>4, <2>5
<1> QED BY <1>6, <1>7 DEF Tasks

LEMMA RunMints ==
    ASSUME SendInv, TypeOK', NEW i \in Assets, AssetInv(i), NEW t \in Tasks, Run(t)
    PROVE  AssetInv(i)'
<1>0. /\ i \in Items /\ i # NoItem /\ i \notin Memos /\ i \notin Hashes /\ TypeOK
      /\ job \in [Items -> JobStates] /\ task \in [Tasks -> Task]
      /\ sent \in [Items -> Nat] /\ unrecorded \in [Items -> Nat]
      /\ row \in [Items -> [live : BOOLEAN, done : BOOLEAN, minted : BOOLEAN,
                            attempts : Nat]]
  BY AnchoringAssumption DEF SendInv, TypeOK, Items, Memos, Tasks
<1>1. UNCHANGED <<api, sweep, asked>>
  BY DEF Run, Admit, Accepted, Raised, RecordSuccess, RecordFailure, Rest
<1>2. CASE task[t].item # i
  <2>1. Quiet(i)
    <3>1. \E r : task' = [task EXCEPT ![t] = r] /\ r.item # i
      <4>1. CASE Admit(t) \/ Accepted(t) \/ Raised(t)
        <5>1. PICK p \in Pcs : task' = [task EXCEPT ![t].pc = p]
          BY <4>1 DEF Admit, Accepted, Raised, Pcs
        <5> WITNESS [task[t] EXCEPT !.pc = p]
        <5> QED BY <1>0, <1>2, <5>1 DEF Task
      <4>2. CASE RecordSuccess(t) \/ RecordFailure(t)
        <5>1. task' = [task EXCEPT ![t] = IdleTask] /\ IdleTask.item # i
          BY <1>0, <4>2 DEF RecordSuccess, RecordFailure, Finished, Requeued, IdleTask
        <5> QED BY <5>1
      <4> QED BY <4>1, <4>2 DEF Run
    <3> QED BY <1>0, <1>2, <3>1 DEF Quiet
  <2>2. sent'[i] = sent[i] /\ unrecorded'[i] = unrecorded[i]
    BY <1>0, <1>2 DEF Run, Admit, Accepted, Raised, RecordSuccess, RecordFailure
  <2>3. job'[i] = job[i]
    BY <1>0, <1>2 DEF Run, Admit, Accepted, Raised, RecordSuccess, RecordFailure,
                      Finished, Requeued, Queue
  <2>4. row'[i] = row[i]
    <3>1. CASE RecordSuccess(t)
      BY <1>0, <1>2, <3>1 DEF RecordSuccess, MarkAnchored, MarkMinted
    <3>2. CASE RecordFailure(t)
      BY <1>0, <1>2, <3>2 DEF RecordFailure, CountAttempt
    <3> QED BY <3>1, <3>2 DEF Run, Admit, Accepted, Raised
  <2> QED BY <1>0, <1>1, <2>1, <2>2, <2>3, <2>4, Aside
<1>3. CASE task[t].item = i /\ Admit(t)
  <2>1. PICK p \in {"rpc", "fail"} : task' = [task EXCEPT ![t].pc = p]
    BY <1>3 DEF Admit
  <2>2. /\ task[t].pc # "mark" /\ UNCHANGED <<row, job>>
        /\ sent'[i] = sent[i] + 0 /\ unrecorded'[i] = unrecorded[i] + 0
    BY <1>0, <1>3 DEF Admit, Queue
  <2> QED BY <1>1, <1>3, <2>1, <2>2, GoesOn
<1>4. CASE task[t].item = i /\ Accepted(t)
  BY <1>4, Answered
<1>5. CASE task[t].item = i /\ Raised(t)
  <2>1. PICK n \in {0, 1} : /\ sent' = [sent EXCEPT ![i] = @ + n]
                            /\ unrecorded' = [unrecorded EXCEPT ![i] = @ + n]
    BY <1>5 DEF Raised
  <2>2. /\ n \in Nat
        /\ sent'[i] = sent[i] + n /\ unrecorded'[i] = unrecorded[i] + n
    BY <1>0, <2>1
  <2>3. /\ task[t].pc # "mark" /\ UNCHANGED <<row, job>>
        /\ task' = [task EXCEPT ![t].pc = "fail"]
    BY <1>5 DEF Raised, Queue
  <2> QED BY <1>1, <1>5, <2>2, <2>3, GoesOn
<1>6. CASE task[t].item = i /\ RecordSuccess(t)
  <2>1. /\ task[t].pc = "mark" /\ Finished(t) /\ UNCHANGED <<sent, unrecorded>>
        /\ row'[i].done
    BY <1>0, <1>6 DEF RecordSuccess, MarkMinted
  <2>2. /\ SlotInv(i)' /\ HandlerInv(i)' /\ NewInv(i)'
        /\ IsFiniteSet(Minting(i)') /\ Cardinality(Minting(i)) \in Nat
        /\ Cardinality(Minting(i)') = Cardinality(Minting(i))
        /\ Chance(i)' => Chance(i)
    BY <1>1, <1>6, <2>1, Leaves
  <2>3. /\ sent'[i] + Cardinality(Minting(i)') + (IF Chance(i)' THEN 1 ELSE 0)
             <= 0 + sent[i] + Cardinality(Minting(i)) + (IF Chance(i) THEN 1 ELSE 0)
        /\ unrecorded'[i] + asked'[i] >= 0 + unrecorded[i] + asked[i]
    BY <1>0, <1>1, <2>1, <2>2, CountType
  <2>4. CountInv(i)'
    BY <1>0, <2>2, <2>3, Pays DEF AssetInv
  <2> QED BY <2>2, <2>4 DEF AssetInv
<1>7. CASE task[t].item = i /\ RecordFailure(t)
  <2>1. /\ task[t].pc = "fail" /\ (Finished(t) \/ Requeued(t))
        /\ UNCHANGED <<sent, unrecorded>>
    BY <1>0, <1>7 DEF RecordFailure
  <2>2. /\ SlotInv(i)' /\ HandlerInv(i)' /\ NewInv(i)'
        /\ IsFiniteSet(Minting(i)') /\ Cardinality(Minting(i)) \in Nat
        /\ \/ Cardinality(Minting(i)') = Cardinality(Minting(i)) /\ Chance(i)
           \/ Cardinality(Minting(i)') = Cardinality(Minting(i)) - 1
    BY <1>1, <1>7, <2>1, Leaves
  <2>3. /\ sent'[i] + Cardinality(Minting(i)') + (IF Chance(i)' THEN 1 ELSE 0)
             <= 0 + sent[i] + Cardinality(Minting(i)) + (IF Chance(i) THEN 1 ELSE 0)
        /\ unrecorded'[i] + asked'[i] >= 0 + unrecorded[i] + asked[i]
    BY <1>0, <1>1, <2>1, <2>2, CountType
  <2>4. CountInv(i)'
    BY <1>0, <2>2, <2>3, Pays DEF AssetInv
  <2> QED BY <2>2, <2>4 DEF AssetInv
<1> QED BY <1>2, <1>3, <1>4, <1>5, <1>6, <1>7 DEF Run

LEMMA CrashMints ==
    ASSUME SendInv, TypeOK', NEW i \in Assets, AssetInv(i), NEW t \in Tasks, Crash(t)
    PROVE  AssetInv(i)'
<1>0. /\ i \in Items /\ i # NoItem /\ i \notin Hashes /\ TypeOK
      /\ job \in [Items -> JobStates] /\ task \in [Tasks -> Task]
      /\ sent \in [Items -> Nat] /\ unrecorded \in [Items -> Nat]
  BY AnchoringAssumption DEF SendInv, TypeOK, Items, Memos, Tasks
<1>1. /\ UNCHANGED <<row, api, sweep, asked>> /\ task[t].pc # "idle"
      /\ Finished(t) \/ Requeued(t)
  BY DEF Crash, Rest
<1>2. PICK n \in {0, 1} :
        /\ task[t].pc = "mark" => n = 0
        /\ sent' = [sent EXCEPT ![task[t].item] = @ + n]
        /\ unrecorded' = [unrecorded EXCEPT ![task[t].item] =
                            IF task[t].pc = "mark" THEN @ + 1 ELSE @ + n]
  BY DEF Crash
<1>3. CASE task[t].item # i
  <2>1. Quiet(i)
    BY <1>0, <1>1, <1>3 DEF Quiet, Finished, Requeued, IdleTask
  <2>2. sent'[i] = sent[i] /\ unrecorded'[i] = unrecorded[i]
    BY <1>0, <1>2, <1>3
  <2>3. job'[i] = job[i]
    BY <1>0, <1>1, <1>3 DEF Finished, Requeued
  <2> QED BY <1>0, <1>1, <2>1, <2>2, <2>3, Aside
<1>4. CASE task[t].item = i
  <2>1. /\ SlotInv(i)' /\ HandlerInv(i)' /\ NewInv(i)'
        /\ IsFiniteSet(Minting(i)') /\ Cardinality(Minting(i)) \in Nat
        /\ IF task[t].pc = "mark"
           THEN Cardinality(Minting(i)') = Cardinality(Minting(i))
           ELSE \/ Cardinality(Minting(i)') = Cardinality(Minting(i)) /\ Chance(i)
                \/ Cardinality(Minting(i)') = Cardinality(Minting(i)) - 1
    BY <1>1, <1>4, Leaves
  <2>2. /\ sent'[i] = sent[i] + n
        /\ unrecorded'[i] = unrecorded[i] + (IF task[t].pc = "mark" THEN 1 ELSE n)
    BY <1>0, <1>2, <1>4
  <2> DEFINE more == IF task[t].pc = "mark" THEN 1 ELSE n
  <2>3. /\ sent'[i] + Cardinality(Minting(i)') + (IF Chance(i)' THEN 1 ELSE 0)
             <= more + sent[i] + Cardinality(Minting(i)) + (IF Chance(i) THEN 1 ELSE 0)
        /\ unrecorded'[i] + asked'[i] >= more + unrecorded[i] + asked[i]
        /\ more \in Nat
    BY <1>0, <1>1, <1>2, <2>1, <2>2, CountType
  <2>4. CountInv(i)'
    <3> HIDE DEF more
    <3> QED BY <1>0, <2>1, <2>3, Pays DEF AssetInv
  <2> QED BY <2>1, <2>4 DEF AssetInv
<1> QED BY <1>3, <1>4

LEMMA DiesMints ==
    ASSUME SendInv, TypeOK', NEW i \in Assets, AssetInv(i), WorkerDies
    PROVE  AssetInv(i)'
<1>0. i \in Items /\ i # NoItem /\ TypeOK
  BY AnchoringAssumption DEF SendInv, Items
<1>1. /\ \A t \in Slots : task'[t] = IdleTask /\ task'[t].item = NoItem
      /\ \A h \in Handlers : task'[h] = task[h]
      /\ (\A t \in Slots : task[t].item # i) => job'[i] = job[i]
      /\ sweep' = {} /\ UNCHANGED <<row, api, asked>>
  BY <1>0, DiesTasks
<1>2. PICK accepted \in SUBSET Slots, lost \in SUBSET Slots :
        /\ \A t \in accepted : task[t].pc = "rpc"
        /\ \A t \in lost : task[t].pc \in {"rpc", "mark"}
        /\ accepted \subseteq lost
        /\ \A t \in Slots : task[t].pc = "mark" => t \in lost
        /\ \A j \in Items : /\ sent'[j] = sent[j] + On(accepted, j)
                            /\ unrecorded'[j] = unrecorded[j] + On(lost, j)
  BY <1>0, Dies
<1>3. /\ On(accepted, i) \in Nat /\ On(lost, i) \in Nat /\ On(accepted, i) <= On(lost, i)
      /\ (\A t \in accepted : task[t].item # i) => On(accepted, i) = 0
      /\ On(lost, i) = 0 => \A t \in lost : task[t].item # i
  BY <1>2, Slotted
<1>4. SlotInv(i)' /\ HandlerInv(i)'
  BY <1>0, <1>1 DEF AssetInv, SlotInv, HandlerInv
<1>5. NewInv(i)'
  <2> SUFFICES ASSUME api'[i] # "ended"
               PROVE  /\ i \notin sweep' /\ job'[i] = "free"
                      /\ ~row'[i].done /\ ~row'[i].minted
                      /\ \A t \in Tasks : task'[t].item # i
    BY DEF NewInv
  <2>1. /\ job[i] = "free" /\ ~row[i].done /\ ~row[i].minted
        /\ \A t \in Tasks : task[t].item # i
    BY <1>1 DEF AssetInv, NewInv
  <2> QED BY <1>0, <1>1, <2>1 DEF Tasks
<1>6. /\ Minting(i)' = Minting(i) /\ (Unhandled(i)' <=> Unhandled(i))
      /\ IsFiniteSet(Minting(i)) /\ Cardinality(Minting(i)) \in Nat
  BY <1>1, FS_CardinalityType DEF Minting, Unhandled, AssetInv, CountInv
<1>7. CountInv(i)'
  <2> DEFINE n == On(accepted, i)
             more == On(lost, i)
  <2>1. Chance(i)' => Chance(i) \/ n < more
    <3>1. CASE \E t \in Slots : task[t].item = i
      <4>1. PICK t \in Slots : task[t].item = i
        BY <3>1
      <4>2. \A u \in Slots : task[u].item = i => u = t
        BY <4>1 DEF AssetInv, SlotInv
      <4>3. CASE task[t].pc = "mark"
        <5>1. \A u \in accepted : task[u].item # i
          BY <1>2, <4>2, <4>3
        <5>2. n = 0 /\ more # 0
          BY <1>2, <1>3, <4>1, <4>3, <5>1
        <5> QED BY <1>3, <5>2
      <4>4. CASE task[t].pc # "mark"
        BY <4>1, <4>4 DEF Chance, Keyed
      <4> QED BY <4>3, <4>4
    <3>2. CASE ~\E t \in Slots : task[t].item = i
      BY <1>0, <1>1, <1>6, <3>2 DEF Chance, Keyed
    <3> QED BY <3>1, <3>2
  <2>2. sent'[i] = sent[i] + n /\ unrecorded'[i] = unrecorded[i] + more
    BY <1>0, <1>2
  <2>3. n \in Nat /\ more \in Nat /\ n <= more
    BY <1>3
  <2> HIDE DEF n, more
  <2>4. /\ sent'[i] + Cardinality(Minting(i)') + (IF Chance(i)' THEN 1 ELSE 0)
             <= more + sent[i] + Cardinality(Minting(i)) + (IF Chance(i) THEN 1 ELSE 0)
        /\ unrecorded'[i] + asked'[i] >= more + unrecorded[i] + asked[i]
    BY <1>0, <1>1, <1>6, <2>1, <2>2, <2>3, CountType
  <2> QED BY <1>0, <1>6, <2>3, <2>4, Pays DEF AssetInv
<1> QED BY <1>4, <1>5, <1>7 DEF AssetInv

LEMMA MintNext == SendInv /\ MintInv /\ [Next]_vars => MintInv'
<1> SUFFICES ASSUME SendInv, MintInv, [Next]_vars, NEW i \in Assets
             PROVE  AssetInv(i)'
  BY DEF MintInv
<1>0. AssetInv(i) /\ TypeOK'
  BY NextType DEF MintInv, SendInv
<1>1. CASE UNCHANGED vars
  <2>1. Quiet(i)
    BY <1>1 DEF Quiet, vars
  <2> QED BY <1>0, <1>1, <2>1, Aside DEF vars, SendInv
<1>2. CASE Next
  BY <1>0, <1>2, RequestMints, SweepMintsKeep, PickMints, RunMints, CrashMints,
     DiesMints DEF Next, Fault, Tasks
<1> QED BY <1>1, <1>2

LEMMA MintInit == Init => MintInv
<1> SUFFICES ASSUME Init, NEW i \in Assets PROVE AssetInv(i)
  BY DEF MintInv
<1>1. /\ \A t \in Tasks : task[t].item = NoItem
      /\ i \in Items /\ NoItem # i
  BY AnchoringAssumption DEF Init, Tasks, IdleTask, Items
<1>2. SlotInv(i) /\ HandlerInv(i)
  BY <1>1 DEF SlotInv, HandlerInv, Tasks
<1>3. NewInv(i)
  BY <1>1 DEF Init, NewInv
<1>4. Minting(i) = {}
  BY <1>1 DEF Minting, Tasks
<1>5. CountInv(i)
  <2>1. IsFiniteSet(Minting(i)) /\ Cardinality(Minting(i)) = 0
    BY <1>4, FS_EmptySet
  <2>2. sent[i] = 0 /\ unrecorded[i] = 0 /\ asked[i] = 0
    BY <1>1 DEF Init
  <2> QED BY <2>1, <2>2 DEF CountInv
<1> QED BY <1>2, <1>3, <1>5 DEF AssetInv

-----------------------------------------------------------------------------
(* The theorems.                                                           *)

LEMMA SendInit == Init => SendInv
<1> SUFFICES ASSUME Init PROVE SendInv
  OBVIOUS
<1>1. \A t \in Tasks : task[t] = IdleTask
  BY DEF Init, Tasks
<1>2. TaskInv
  BY <1>1, AnchoringAssumption DEF TaskInv, IdleTask, Items, Memos
<1>3. SentInv
  BY DEF Init, SentInv, Items, Memos
<1> QED BY <1>2, <1>3, InitType DEF SendInv

LEMMA SendNext == SendInv /\ [Next]_vars => SendInv'
<1> SUFFICES ASSUME SendInv, [Next]_vars PROVE TaskInv' /\ SentInv'
  BY NextType DEF SendInv
<1>1. CASE UNCHANGED vars
  BY <1>1, Apart DEF vars, SendInv
<1>2. CASE Next
  BY <1>2, RequestSends, SweepSends, PickSends, RunSends, FaultSends DEF Next, Tasks
<1> QED BY <1>1, <1>2

LEMMA SendAlways == Spec => []SendInv
BY SendInit, SendNext, PTL DEF Spec

\* Rows, jobs, tasks, the breaker and the counts keep their types.
THEOREM AnchoringTyped == Spec => []TypeOK
<1>1. SendInv => TypeOK
  BY DEF SendInv
<1> QED BY <1>1, SendAlways, PTL

\* Whatever crashes, is swept, asked for again or run twice, no more
\* transactions carry an event than one and those whose outcome was lost.
THEOREM MemoSentOnce == Spec => []EventSentOnce
<1>1. SendInv => EventSentOnce
  BY DEF SendInv, SentInv, EventSentOnce
<1> QED BY <1>1, SendAlways, PTL

LEMMA MintAlways == Spec => []MintInv
BY MintInit, MintNext, SendAlways, PTL DEF Spec

\* However its creation, the sweeps, retries by hand and crashes overlap, an
\* asset is minted once, and once more only for an answer that was lost or
\* for somebody who asked.
THEOREM MintedOnce == Spec => []AssetMintedOnce
<1>1. TypeOK /\ MintInv => AssetMintedOnce
  <2> SUFFICES ASSUME TypeOK, MintInv, NEW i \in Assets
               PROVE  sent[i] <= 1 + unrecorded[i] + asked[i]
    BY DEF AssetMintedOnce
  <2>1. CountInv(i) /\ Cardinality(Minting(i)) \in Nat
    BY FS_CardinalityType DEF MintInv, AssetInv, CountInv
  <2> QED BY <2>1, CountType DEF CountInv
<1> QED BY <1>1, AnchoringTyped, MintAlways, PTL

LEMMA BreakerNext == TypeOK /\ BreakerCounts /\ [Next]_vars => BreakerCounts'
<1> SUFFICES ASSUME TypeOK, BreakerCounts, [Next]_vars PROVE BreakerCounts'
  OBVIOUS
<1>0. /\ Threshold \in Nat \ {0} /\ breaker.failures \in Nat
      /\ breaker.state \in {"CLOSED", "OPEN", "HALF_OPEN"}
      /\ breaker \in [state : {"CLOSED", "OPEN", "HALF_OPEN"}, failures : Nat]
  BY AnchoringAssumption DEF TypeOK
<1>1. CASE UNCHANGED breaker
  BY <1>1 DEF BreakerCounts
<1>2. ASSUME NEW t \in Tasks, Run(t)
      PROVE  BreakerCounts'
  <2>1. \/ UNCHANGED breaker
        \/ breaker.state = "OPEN" /\ breaker' = [breaker EXCEPT !.state = "HALF_OPEN"]
        \/ BreakerSuccess
        \/ BreakerFailure
    BY <1>2 DEF Run, Admit, Accepted, Raised, RecordSuccess, RecordFailure
  <2>2. CASE breaker.state = "OPEN" /\ breaker' = [breaker EXCEPT !.state = "HALF_OPEN"]
    BY <1>0, <2>2 DEF BreakerCounts
  <2>3. CASE BreakerSuccess
    BY <1>0, <2>3 DEF BreakerSuccess, Close, Closed, BreakerCounts
  <2>4. CASE BreakerFailure
    BY <1>0, <2>4 DEF BreakerFailure, BreakerCounts
  <2> QED BY <1>1, <2>1, <2>2, <2>3, <2>4
<1>3. ASSUME Next, ~\E t \in Tasks : Run(t)
      PROVE  UNCHANGED breaker \/ WorkerDies
  <2>1. ASSUME NEW i \in Items, Request(i) \/ ByHand(i)
        PROVE  UNCHANGED breaker
    BY <2>1 DEF Request, ByHand, CheckSource, Create, Enqueue, MintInline,
                TriggerAnchor, Remint, Workers
  <2>2. ASSUME NEW i \in Items, Pick(i) \/ SweepEnqueue(i) \/ ResultExpires(i)
        PROVE  UNCHANGED breaker
    BY <2>2 DEF Pick, PickKeyed, PickLoose, SweepEnqueue, ResultExpires, Workers
  <2>3. SweepAnchors \/ SweepMints => UNCHANGED breaker
    BY DEF SweepAnchors, SweepMints, Workers
  <2>4. Fault => UNCHANGED breaker \/ WorkerDies
    BY DEF Fault, EnqueueFails, SweepEnqueueFails, Crash, Workers
  <2> QED BY <1>3, <2>1, <2>2, <2>3, <2>4 DEF Next, Tasks
<1>4. UNCHANGED vars => UNCHANGED breaker
  BY DEF vars
<1>5. CASE WorkerDies
  BY <1>0, <1>5 DEF WorkerDies, Closed, BreakerCounts
<1> QED BY <1>1, <1>2, <1>3, <1>4, <1>5

\* The circuit is closed exactly while fewer failures than the threshold are
\* counted, however many calls are in flight when it opens or closes.
THEOREM BreakerConsistent == Spec => []BreakerCounts
<1>1. Init => BreakerCounts
  BY AnchoringAssumption DEF Init, BreakerCounts, Closed
<1> QED BY <1>1, BreakerNext, AnchoringTyped, PTL DEF Spec
=============================================================================
