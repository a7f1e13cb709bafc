------------------------------ MODULE Anchoring ------------------------------
(***************************************************************************)
(* How trace-service puts things on the blockchain: custody events and     *)
(* anchor requests of other services as memos, assets as compressed NFTs.  *)
(* API handlers commit a row and enqueue a job; the ARQ worker runs jobs;  *)
(* cron sweeps enqueue again what is still pending; memos pass a circuit   *)
(* breaker.                                                                *)
(*                                                                         *)
(* A step is one call: a database statement, a call to Redis or a call to  *)
(* the chain.  ARQ, the queue, is modelled from how the worker uses it: a  *)
(* job id is taken while its job is queued, running or its result is kept; *)
(* a job that raised may or may not be run again; a job whose worker died  *)
(* is.  The chain is modelled by what its caller learns: a transaction may *)
(* be accepted although the call ends in an error.                         *)
(***************************************************************************)
EXTENDS Integers, Sequences, FiniteSets, SequencesExt, FiniteSetsExt

CONSTANTS
    Events,         \* custody events
    Hashes,         \* anchor requests of other services
    Assets,         \* assets to be minted
    Source,         \* [Hashes -> ...]: the entity a request is about
    Treeless,       \* assets whose tenant has no Merkle tree
    Slots,          \* jobs the worker runs at the same time
    Handlers,       \* API handlers that mint inside the request
    NoItem,
    MaxRetries,     \* ANCHOR_MAX_RETRIES
    Window,         \* rows a sweep reads at most
    Threshold,      \* failures that open the circuit
    MaxFailures,    \* bound: calls to the chain that fail
    MaxFaults,      \* bound: crashes and calls to Redis that fail
    MaxAsked,       \* bound: mints and anchors somebody asks for by hand
    Mixes           \* bound: the sets of items, one of which comes to exist

Memos == Events \cup Hashes
Items == Memos \cup Assets

ASSUME AnchoringAssumption ==
    /\ Events \cap Hashes = {} /\ Memos \cap Assets = {}
    /\ NoItem \notin Items /\ Slots \cap Handlers = {} /\ IsFiniteSet(Slots)
    /\ Treeless \subseteq Assets
    /\ DOMAIN Source = Hashes
    /\ MaxRetries \in Nat /\ Window \in Nat \ {0} /\ Threshold \in Nat \ {0}
    /\ MaxFailures \in Nat /\ MaxFaults \in Nat
    /\ MaxAsked \in Nat /\ Mixes \subseteq SUBSET Items

VARIABLES
    row,        \* per item: committed? done (anchored / CONFIRMED)? attempts
    born,       \* the items in the order of created_at
    api,        \* the request that creates each item
    job,        \* the job with the item's job id
    loose,      \* jobs for a request that were enqueued without a job id
    task,       \* what each worker slot and handler is doing
    breaker,    \* the circuit breaker of the Solana client
    sweep,      \* items a sweep has listed and not enqueued yet
    sent,       \* transactions the chain accepted for each item
    unrecorded, \* ... of which the outcome did not reach the database
    asked,      \* mints and anchors asked for by hand
    failures,   \* failed calls to the chain so far
    faults      \* crashes and failed calls to Redis so far

vars == <<row, born, api, job, loose, task, breaker, sweep, sent, unrecorded,
          asked, failures, faults>>

ApiPcs == {"new", "checked", "committed", "ended"}
JobStates == {"free", "queued", "running", "kept"}
Pcs == {"idle", "call", "rpc", "mark", "fail"}
\* how: as the job with the item's id, as a job without one, in the handler
\* that created the item, or in one that somebody called for it.
Task == [pc : Pcs, item : Items \cup {NoItem},
         how : {"keyed", "loose", "inline", "byhand"}, seen : Nat]
IdleTask == [pc |-> "idle", item |-> NoItem, how |-> "keyed", seen |-> 0]
Closed == [state |-> "CLOSED", failures |-> 0]

Init ==
    /\ row = [i \in Items |-> [live |-> FALSE, done |-> FALSE, minted |-> FALSE,
                               attempts |-> 0]]
    /\ born = <<>>
    /\ \E mix \in Mixes :
         api = [i \in Items |-> IF i \in mix THEN "new" ELSE "ended"]
    /\ job = [i \in Items |-> "free"]
    /\ loose = [i \in Hashes |-> 0]
    /\ task = [t \in Slots \cup Handlers |-> IdleTask]
    /\ breaker = Closed
    /\ sweep = {}
    /\ sent = [i \in Items |-> 0]
    /\ unrecorded = [i \in Items |-> 0]
    /\ asked = [i \in Items |-> 0]
    /\ failures = 0
    /\ faults = 0

-----------------------------------------------------------------------------
(* The API: a row is committed, then its job is enqueued.                  *)

Workers == <<task, breaker, sent, unrecorded, failures>>
Queue == <<job, loose>>

\* Mutant: every call makes a job, as if no _job_id were passed.
EnqueueAlways(i) == job' = [job EXCEPT ![i] = "queued"]

\* enqueue_job with a _job_id does nothing while that id is taken.
EnqueueKeyed(i) ==
    job' = [job EXCEPT ![i] = IF @ = "free" THEN "queued" ELSE @]

EnqueueLoose(i) == loose' = [loose EXCEPT ![i] = @ + 1]

\* submit_anchor looks for a request of the same source, without a lock.
CheckSource(i) ==
    /\ i \in Hashes /\ api[i] = "new"
    /\ api' = [api EXCEPT ![i] =
         IF \E j \in Hashes : row[j].live /\ Source[j] = Source[i]
         THEN "ended" ELSE "checked"]
    /\ UNCHANGED <<row, born, Queue, Workers, sweep, asked, faults>>

Pending(i) == row[i].live /\ ~row[i].done

Create(i) ==
    /\ api[i] = IF i \in Hashes THEN "checked" ELSE "new"
    /\ api' = [api EXCEPT ![i] = "committed"]
    /\ row' = [row EXCEPT ![i].live = TRUE]
    /\ born' = Append(born, i)
    /\ UNCHANGED <<Queue, Workers, sweep, asked, faults>>

\* After the commit: a job for a memo.
Enqueue(i) ==
    /\ i \in Memos /\ api[i] = "committed"
    /\ api' = [api EXCEPT ![i] = "ended"]
    /\ IF i \in Events THEN EnqueueKeyed(i) /\ UNCHANGED loose
                       ELSE EnqueueLoose(i) /\ UNCHANGED job
    /\ UNCHANGED <<row, born, Workers, sweep, asked, faults>>

\* Redis is down, or the process dies: the row stays without a job.
EnqueueFails(i) ==
    /\ api[i] = "committed"
    /\ faults < MaxFaults
    /\ api' = [api EXCEPT ![i] = "ended"]
    /\ faults' = faults + 1
    /\ UNCHANGED <<row, born, Queue, Workers, sweep, asked>>

\* Somebody asks for an event to be anchored.
TriggerAnchor(i) ==
    /\ i \in Events /\ row[i].live /\ ~row[i].done
    /\ MapThenSumSet(LAMBDA j : asked[j], Items) < MaxAsked
    /\ asked' = [asked EXCEPT ![i] = @ + 1]
    /\ EnqueueKeyed(i)
    /\ UNCHANGED <<row, born, api, loose, Workers, sweep, faults>>

\* The handler that created an asset mints it; the row is committed already.
MintInline(h, i) ==
    /\ i \in Assets /\ api[i] = "committed" /\ task[h].pc = "idle"
    /\ api' = [api EXCEPT ![i] = "ended"]
    /\ task' = [task EXCEPT ![h] =
                  [pc |-> "rpc", item |-> i, how |-> "inline", seen |-> 0]]
    /\ UNCHANGED <<row, born, Queue, breaker, sent, unrecorded, failures,
                   sweep, asked, faults>>

\* Somebody asks for an asset to be minted again, whatever its status.
Remint(h, i) ==
    /\ i \in Assets /\ api[i] = "ended" /\ row[i].live /\ task[h].pc = "idle"
    /\ MapThenSumSet(LAMBDA j : asked[j], Items) < MaxAsked
    /\ asked' = [asked EXCEPT ![i] = @ + 1]
    /\ task' = [task EXCEPT ![h] =
                  [pc |-> "rpc", item |-> i, how |-> "byhand", seen |-> 0]]
    /\ UNCHANGED <<row, born, api, Queue, breaker, sent, unrecorded, failures,
                   sweep, faults>>

-----------------------------------------------------------------------------
(* The sweeps: cron jobs that enqueue what is still pending.               *)

Exhausted(i) == row[i].attempts >= MaxRetries
Oldest(kind) == SelectSeq(born, LAMBDA i : i \in kind /\ Pending(i))
FirstOf(s) == {s[n] : n \in 1..(IF Len(s) < Window THEN Len(s) ELSE Window)}

\* Mutant: a row is listed until it has been tried once.
GetPendingUntried(kind) ==
    {i \in kind : i \in FirstOf(Oldest(kind)) /\ row[i].attempts = 0}

GetPending(kind) == {i \in kind : i \in FirstOf(Oldest(kind)) /\ ~Exhausted(i)}

\* The oldest pending rows are read; of these the exhausted are skipped.
SweepAnchors ==
    /\ sweep \cap Memos = {}
    /\ sweep' = sweep \cup GetPending(Events) \cup GetPending(Hashes)
    /\ UNCHANGED <<row, born, api, Queue, Workers, asked, faults>>

\* Mutant: the sweep does not leave a new asset to its handler.
UnmintedYet == {i \in Assets : Pending(i) /\ ~row[i].minted}

\* Assets whose asset_mint is still a placeholder, in no particular order: five
\* minutes after it was created, the handler that created one has ended.
Unminted ==
    {i \in Assets :
        /\ Pending(i) /\ api[i] = "ended" /\ ~row[i].minted
        /\ \A h \in Handlers : task[h].item = i => task[h].how # "inline"}

SweepMints ==
    /\ sweep \cap Assets = {}
    /\ \E S \in SUBSET Unminted :
         /\ S = Unminted \/ Cardinality(S) = Window
         /\ sweep' = sweep \cup S
    /\ UNCHANGED <<row, born, api, Queue, Workers, asked, faults>>

SweepEnqueue(i) ==
    /\ i \in sweep
    /\ sweep' = sweep \ {i}
    /\ EnqueueKeyed(i)
    /\ UNCHANGED <<row, born, api, loose, Workers, asked, faults>>

SweepEnqueueFails(i) ==
    /\ i \in sweep
    /\ faults < MaxFaults
    /\ sweep' = sweep \ {i}
    /\ faults' = faults + 1
    /\ UNCHANGED <<row, born, api, Queue, Workers, asked>>

-----------------------------------------------------------------------------
(* The worker.                                                             *)

Rest == <<born, api, sweep, asked>>

\* The end of a job: its result is kept, and with it its id, ...
Finished(t) ==
    /\ task' = [task EXCEPT ![t] = IdleTask]
    /\ job' = IF task[t].how = "keyed"
              THEN [job EXCEPT ![task[t].item] = "kept"] ELSE job
    /\ UNCHANGED loose

\* ... or it is put back to be run again.
Requeued(t) ==
    LET i == task[t].item IN
    /\ task' = [task EXCEPT ![t] = IdleTask]
    /\ job' = IF task[t].how = "keyed" THEN [job EXCEPT ![i] = "queued"] ELSE job
    /\ loose' = IF task[t].how = "loose" THEN [loose EXCEPT ![i] = @ + 1] ELSE loose

NothingToDo(i) == row[i].done \/ i \in Treeless

\* What a job does with the row it reads first.
Begin(t, i, how) ==
    task' = IF NothingToDo(i) THEN task
            ELSE [task EXCEPT ![t] = [pc |-> IF i \in Memos THEN "call" ELSE "rpc",
                                      item |-> i, how |-> how, seen |-> row[i].attempts]]

\* A slot takes a job from the queue and runs it up to its first call.
PickKeyed(t, i) ==
    /\ task[t].pc = "idle" /\ job[i] = "queued"
    /\ job' = [job EXCEPT ![i] = IF NothingToDo(i) THEN "kept" ELSE "running"]
    /\ Begin(t, i, "keyed")
    /\ UNCHANGED <<row, loose, breaker, sent, unrecorded, failures, faults, Rest>>

PickLoose(t, i) ==
    /\ i \in Hashes /\ task[t].pc = "idle" /\ loose[i] > 0
    /\ loose' = [loose EXCEPT ![i] = @ - 1]
    /\ Begin(t, i, "loose")
    /\ UNCHANGED <<row, job, breaker, sent, unrecorded, failures, faults, Rest>>

\* CircuitBreaker.call, before the call: an open circuit refuses it until the
\* recovery timeout has passed.
Admit(t) ==
    /\ task[t].pc = "call"
    /\ \/ /\ breaker.state # "OPEN"
          /\ task' = [task EXCEPT ![t].pc = "rpc"]
          /\ UNCHANGED <<breaker, failures>>
       \/ /\ breaker.state = "OPEN"
          /\ breaker' = [breaker EXCEPT !.state = "HALF_OPEN"]
          /\ task' = [task EXCEPT ![t].pc = "rpc"]
          /\ UNCHANGED failures
       \/ /\ breaker.state = "OPEN" /\ failures < MaxFailures
          /\ failures' = failures + 1
          /\ task' = [task EXCEPT ![t].pc = "fail"]
          /\ UNCHANGED breaker
    /\ UNCHANGED <<row, Queue, sent, unrecorded, faults, Rest>>

\* Mutant: closing the circuit forgets to start counting afresh.
CloseUncounted == [breaker EXCEPT !.state = "CLOSED"]

Close == Closed

\* ... after a call that returned, ...
BreakerSuccess == breaker' = IF breaker.state = "HALF_OPEN" THEN Close ELSE breaker

\* ... and after one that raised.
BreakerFailure ==
    breaker' = [failures |-> breaker.failures + 1,
                state |-> IF breaker.failures + 1 >= Threshold
                          THEN "OPEN" ELSE breaker.state]

\* The chain accepts the transaction and answers.
Accepted(t) ==
    LET i == task[t].item IN
    /\ task[t].pc = "rpc"
    /\ sent' = [sent EXCEPT ![i] = @ + 1]
    /\ IF i \in Memos THEN BreakerSuccess ELSE UNCHANGED breaker
    /\ task' = [task EXCEPT ![t].pc = "mark"]
    /\ UNCHANGED <<row, Queue, unrecorded, failures, faults, Rest>>

\* The call raises; the chain may have accepted the transaction all the same.
Raised(t) ==
    LET i == task[t].item IN
    /\ task[t].pc = "rpc"
    /\ failures < MaxFailures
    /\ failures' = failures + 1
    /\ \E accepted \in {0, 1} :
         /\ sent' = [sent EXCEPT ![i] = @ + accepted]
         /\ unrecorded' = [unrecorded EXCEPT ![i] = @ + accepted]
    /\ IF i \in Memos THEN BreakerFailure ELSE UNCHANGED breaker
    /\ task' = [task EXCEPT ![t].pc = "fail"]
    /\ UNCHANGED <<row, Queue, faults, Rest>>

\* mark_anchored counts the attempt for an event only.
MarkAnchored(i) ==
    row' = [row EXCEPT ![i].done = TRUE,
                       ![i].attempts = IF i \in Events THEN @ + 1 ELSE @]

\* update_blockchain_fields with the result of a mint: the placeholder stays
\* if the result does not name the asset.
MarkMinted(i) ==
    \E named \in BOOLEAN :
        row' = [row EXCEPT ![i].done = TRUE, ![i].minted = @ \/ named]

RecordSuccess(t) ==
    LET i == task[t].item IN
    /\ task[t].pc = "mark"
    /\ IF i \in Memos THEN MarkAnchored(i) ELSE MarkMinted(i)
    /\ Finished(t)
    /\ UNCHANGED <<breaker, sent, unrecorded, failures, faults, Rest>>

\* An event's attempts are raised by an atomic UPDATE, a request's from the
\* attempts the session has read.
CountAttempt(i, seen) ==
    row' = [row EXCEPT ![i].attempts = IF i \in Events THEN @ + 1 ELSE seen + 1]

\* A memo job re-raises; a mint absorbs the exception, and the retry it
\* enqueues goes to a queue this worker does not read.
RecordFailure(t) ==
    LET i == task[t].item IN
    /\ task[t].pc = "fail"
    /\ \/ i \in Memos /\ CountAttempt(i, task[t].seen) /\ (Finished(t) \/ Requeued(t))
       \/ i \in Assets /\ row' = [row EXCEPT ![i].done = FALSE] /\ Finished(t)
    /\ UNCHANGED <<breaker, sent, unrecorded, failures, faults, Rest>>

\* The job runs into its time limit, or the process of a handler dies: the job
\* is run again unless its tries are used up, a handler's work is not.
Crash(t) ==
    LET i == task[t].item IN
    /\ task[t].pc # "idle"
    /\ faults < MaxFaults
    /\ faults' = faults + 1
    /\ \E accepted \in IF task[t].pc = "rpc" THEN {0, 1} ELSE {0} :
         /\ sent' = [sent EXCEPT ![i] = @ + accepted]
         /\ unrecorded' = [unrecorded EXCEPT ![i] =
                             IF task[t].pc = "mark" THEN @ + 1 ELSE @ + accepted]
    /\ Requeued(t) \/ Finished(t)
    /\ UNCHANGED <<row, breaker, failures, Rest>>

\* The worker's process dies, and with it all its jobs, the sweep it was in and
\* its circuit breaker.
On(ts, i) == Cardinality({t \in ts : task[t].item = i})
Keys(ts) == {task[t].item : t \in {u \in ts : task[u].how = "keyed"}}

WorkerDies ==
    LET busy == {t \in Slots : task[t].pc # "idle"} IN
    /\ faults < MaxFaults
    /\ faults' = faults + 1
    /\ \E accepted \in SUBSET {t \in busy : task[t].pc = "rpc"}, again \in SUBSET busy :
         /\ sent' = [i \in Items |-> sent[i] + On(accepted, i)]
         /\ unrecorded' = [i \in Items |-> unrecorded[i]
                              + On(accepted \cup {t \in busy : task[t].pc = "mark"}, i)]
         /\ job' = [i \in Items |-> IF i \in Keys(again) THEN "queued"
                                    ELSE IF i \in Keys(busy) THEN "kept" ELSE job[i]]
         /\ loose' = [i \in Hashes |->
                         loose[i] + On({t \in again : task[t].how = "loose"}, i)]
    /\ task' = [t \in Slots \cup Handlers |-> IF t \in Slots THEN IdleTask ELSE task[t]]
    /\ breaker' = Closed
    /\ sweep' = {}
    /\ UNCHANGED <<row, born, api, asked, failures>>

\* keep_result: an hour later the job id is free again, which nobody notices
\* unless the item is pending.
ResultExpires(i) ==
    /\ job[i] = "kept" /\ Pending(i)
    /\ job' = [job EXCEPT ![i] = "free"]
    /\ UNCHANGED <<row, loose, Workers, faults, Rest>>

-----------------------------------------------------------------------------
Request(i) ==
    \/ CheckSource(i) \/ Create(i) \/ Enqueue(i)
    \/ \E h \in Handlers : MintInline(h, i)

ByHand(i) == TriggerAnchor(i) \/ \E h \in Handlers : Remint(h, i)

Pick(i) == \E t \in Slots : PickKeyed(t, i) \/ PickLoose(t, i)

Run(t) ==
    \/ Admit(t) \/ Accepted(t) \/ Raised(t)
    \/ RecordSuccess(t) \/ RecordFailure(t)

Fault ==
    \/ \E i \in Items : EnqueueFails(i) \/ SweepEnqueueFails(i)
    \/ \E t \in Slots \cup Handlers : Crash(t)
    \/ WorkerDies

Next ==
    \/ \E i \in Items : Request(i) \/ ByHand(i) \/ Pick(i)
                        \/ SweepEnqueue(i) \/ ResultExpires(i)
    \/ \E t \in Slots \cup Handlers : Run(t)
    \/ SweepAnchors \/ SweepMints
    \/ Fault

Spec == Init /\ [][Next]_vars

\* The event loops go on with what they have begun; ARQ takes jobs in the
\* order of their scores, so that a queued one is not passed over for ever;
\* cron runs the sweeps again and again; every kept result expires.  Nobody
\* has to ask for anything by hand, and nothing has to fail.
FairSpec ==
    /\ Spec
    /\ WF_vars(\E t \in Slots \cup Handlers : Run(t))
    /\ WF_vars(\E i \in Items : Request(i))
    /\ WF_vars(\E i \in Items : SweepEnqueue(i))
    /\ WF_vars(SweepAnchors) /\ WF_vars(SweepMints)
    /\ \A i \in Items : WF_vars(Pick(i)) /\ WF_vars(ResultExpires(i))
-----------------------------------------------------------------------------
(* Properties.                                                             *)

\* Every variable keeps its type.
TypeOK ==
    /\ row \in [Items -> [live : BOOLEAN, done : BOOLEAN, minted : BOOLEAN,
                          attempts : Nat]]
    /\ born \in Seq(Items)
    /\ api \in [Items -> ApiPcs]
    /\ job \in [Items -> JobStates]
    /\ loose \in [Hashes -> Nat]
    /\ task \in [Slots \cup Handlers -> Task]
    /\ breaker \in [state : {"CLOSED", "OPEN", "HALF_OPEN"}, failures : Nat]
    /\ sweep \subseteq Items
    /\ sent \in [Items -> Nat] /\ unrecorded \in [Items -> Nat]
    /\ asked \in [Items -> Nat]
    /\ failures \in Nat /\ faults \in Nat

\* The chain is paid once for an event, and once more only for a transaction
\* whose outcome was lost: handlers, sweeps, manual triggers and redelivered
\* jobs share one job id, so that no two of them send at the same time.
EventSentOnce == \A i \in Events : sent[i] <= 1 + unrecorded[i]

\* An asset is minted again only when an outcome was lost or somebody asked.
AssetMintedOnce == \A i \in Assets : sent[i] <= 1 + unrecorded[i] + asked[i]

\* "Verify before re-sending to avoid double-spending fees on Solana": the
\* same for the requests of other services.
RequestSentOnce == \A i \in Hashes : sent[i] <= 1 + unrecorded[i]

\* The breaker's state and its counter agree, although calls that started
\* under one state end under another.
BreakerCounts == (breaker.state = "CLOSED") <=> (breaker.failures < Threshold)

\* As many rows as a sweep reads will be pending for ever: exhausted ones of
\* the same kind, assets that no retry mints.
Crowded(i) ==
    LET hide(kind) == {j \in kind : Pending(j) /\ Exhausted(j)} IN
    \/ i \in Events /\ Cardinality(hide(Events)) >= Window
    \/ i \in Hashes /\ Cardinality(hide(Hashes)) >= Window
    \/ i \in Assets /\ Cardinality(Unminted \cap Treeless) >= Window

\* Nothing is forgotten: whatever crashes or is lost, in the end every item
\* that was committed is on the chain and recorded as such, unless its
\* attempts are used up, its tenant has no tree, or rows that nothing will
\* ever clear fill the window of the sweep.
NeverForgotten ==
    <>[](\A i \in Items : row[i].live =>
            \/ i \in Memos /\ row[i].done
            \/ i \in Memos /\ Exhausted(i)
            \/ i \in Assets /\ (row[i].minted \/ row[i].done \/ i \in Treeless)
            \/ Crowded(i))

\* "the sweeper + worker retries guarantee eventual anchoring"
EventuallyAnchored == <>[](\A i \in Events : row[i].live => row[i].done)
=============================================================================
