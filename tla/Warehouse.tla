------------------------------ MODULE Warehouse ------------------------------
(***************************************************************************)
(* How inventory-service moves and counts one product between places:      *)
(* transfers between warehouses in one or two phases, relocations and      *)
(* movement orders between the bins of a warehouse, and cycle counts, from *)
(* the snapshot to the adjustment.                                         *)
(*                                                                         *)
(* A session is one READ COMMITTED transaction without autoflush.  An      *)
(* object that was read is kept, and an UPDATE sets the columns that were  *)
(* changed to values computed from it: what was committed in between is    *)
(* lost.  An UPDATE, and SELECT ... FOR UPDATE, wait for the row.          *)
(*                                                                         *)
(* A place is a warehouse or a bin and has at most one row, without batch  *)
(* or variant; nothing is reserved.  A row that is deleted and inserted    *)
(* again counts as the same row, and of two sessions that insert one, the  *)
(* second may go on as if it had found it (StockLevel has both).  Sales    *)
(* and receipts of other requests are single steps.  Costs are left out.   *)
(***************************************************************************)
EXTENDS Integers, FiniteSets

CONSTANTS
    Sessions,       \* sessions of requests
    NoSession,
    Places,
    Transfers,      \* movements that are begun and completed by two requests
    Lines,          \* lines of movement orders
    Counts,         \* cycle counts of one product
    NoDoc,
    From, To,       \* [Transfers \cup Lines -> Places]
    Qty,            \* [Transfers \cup Lines -> Nat]: units that move
    Counted,        \* [Counts -> Places]
    InitStock,      \* [Places -> Nat]
    MaxStock,       \* bound: units on record at a place that takes part in more
    MaxShrink,      \* bound: units that disappear without a record
    Mixes           \* bound: the kinds that happen together, one set chosen at first

Moves == Transfers \cup Lines
Docs == Moves \cup Counts
StatusKinds == {"start", "complete", "cancel"}
CountKinds == StatusKinds \cup {"create", "record", "approve"}
Kinds == {"transfer", "initiate", "arrive", "relocate", "confirm"} \cup CountKinds
Outside == {"sell", "receive", "shrink"}

ASSUME WarehouseAssumption ==
    /\ NoSession \notin Sessions /\ NoDoc \notin Docs
    /\ Transfers \cap Lines = {} /\ Moves \cap Counts = {}
    /\ From \in [Moves -> Places] /\ To \in [Moves -> Places]
    /\ \A d \in Moves : From[d] # To[d]
    /\ Qty \in [Moves -> Nat \ {0}] /\ Counted \in [Counts -> Places]
    /\ InitStock \in [Places -> Nat]
    /\ MaxStock \in Nat /\ MaxShrink \in Nat
    /\ Mixes \subseteq SUBSET (Kinds \cup Outside)

VARIABLES
    mix,            \* what may happen in this behaviour
    level,          \* the rows as committed
    lock,           \* the session that holds each place's row
    transfer,       \* status of every two-phase transfer
    line,           \* which ends of a line are confirmed, and whether it is done
    count,          \* the cycle counts, with their item
    sess,           \* every session: where it stands, what it read and writes
    physical,       \* what is really at each place
    ledger,         \* net quantity of the movements on record, from InitStock on
    lost,           \* places written from what had changed since it was read
    applied         \* how often each count's discrepancy was put on the level

vars == <<mix, level, lock, transfer, line, count, sess, physical, ledger, lost,
          applied>>

Row == [there : BOOLEAN, onHand : Nat, inTransit : Nat]
Line == [source : BOOLEAN, dest : BOOLEAN, done : BOOLEAN]
TransferStatuses == {"none", "in_transit", "completed"}
NoRow == [there |-> FALSE, onHand |-> 0, inTransit |-> 0]
NewLine == [source |-> FALSE, dest |-> FALSE, done |-> FALSE]

\* system: the snapshot; found: the error of the level when the goods were
\* counted; still: the level was then as in the snapshot; valued: it has a
\* row in ira_snapshots.
NewCount == [status |-> "none", system |-> 0, counted |-> -1, found |-> 0,
             still |-> FALSE, valued |-> FALSE]

Count == [status : {"none", "draft", "in_progress", "completed", "canceled", "approved"},
          system : Nat, counted : Nat \cup {-1}, found : Int, still : BOOLEAN,
          valued : BOOLEAN]

\* seen: the status of its transfer; old: the rows as they were read; new: the
\* rows as they are to be; stale: places written although they had changed.
Idle == [pc |-> "idle", kind |-> "none", doc |-> NoDoc,
         seen |-> "none", ends |-> {}, count |-> NewCount,
         old |-> [p \in Places |-> NoRow], new |-> [p \in Places |-> NoRow],
         stale |-> {}]
Session == [pc : {"idle", "take", "pick", "put", "dest", "write", "value", "commit"},
            kind : Kinds \cup {"none"}, doc : Docs \cup {NoDoc},
            seen : TransferStatuses, ends : SUBSET {"source", "dest"}, count : Count,
            old : [Places -> Row], new : [Places -> Row], stale : SUBSET Places]

Init ==
    /\ mix \in Mixes
    /\ level = [p \in Places |-> [there |-> InitStock[p] > 0,
                                  onHand |-> InitStock[p], inTransit |-> 0]]
    /\ lock = [p \in Places |-> NoSession]
    /\ transfer = [d \in Transfers |-> "none"]
    /\ line = [d \in Lines |-> NewLine]
    /\ count = [c \in Counts |-> NewCount]
    /\ sess = [s \in Sessions |-> Idle]
    /\ physical = InitStock
    /\ ledger = InitStock
    /\ lost = {}
    /\ applied = [c \in Counts |-> 0]

At(s, pc) == sess[s].pc = pc
Go(s, pc) == sess' = [sess EXCEPT ![s].pc = pc]
Free(p) == lock[p] = NoSession
AtLeastZero(n) == IF n < 0 THEN 0 ELSE n
Source(s) == From[sess[s].doc]
Dest(s) == IF sess[s].doc \in Counts THEN Counted[sess[s].doc] ELSE To[sess[s].doc]

Documents == <<transfer, line, count>>
Records == <<level, Documents, physical, ledger, lost, applied>>

\* A session ends and gives its rows back; if it does not commit, that is all.
End(s) ==
    /\ sess' = [sess EXCEPT ![s] = Idle]
    /\ lock' = [p \in Places |-> IF lock[p] = s THEN NoSession ELSE lock[p]]
Rollback(s) == End(s) /\ UNCHANGED Records

-----------------------------------------------------------------------------
(* A request reads its document, and the row it takes from, and tests them. *)

Begin(s, kind, d, new) ==
    /\ At(s, "idle") /\ kind \in mix
    /\ sess' = [sess EXCEPT ![s] = [new EXCEPT !.kind = kind, !.doc = d]]
    /\ UNCHANGED <<mix, lock, Records>>

Enough(p, n) == level[p].there /\ level[p].onHand >= n
Reading(p, pc) == [Idle EXCEPT !.pc = pc, !.old[p] = level[p]]

\* What initiate_transfer and create_count insert is nobody else's.
Unborn(d) == \A s \in Sessions : sess[s].doc = d => sess[s].kind \notin {"initiate", "create"}

\* Movements that leave no document can be made again, while the goods are
\* there and the records of both places stay within the bound.
Bounded(d) == physical[From[d]] >= Qty[d] /\ \A p \in {From[d], To[d]} :
                ledger[p] \in 0 .. MaxStock /\ level[p].onHand <= MaxStock

\* transfer, initiate_transfer: the source is read without a lock, and only
\* what is on hand is tested.  A transfer in one phase leaves no document.
BeginTransfer(s, d) ==
    /\ d \in Transfers /\ Enough(From[d], Qty[d])
    /\ \/ Bounded(d) /\ Begin(s, "transfer", d, Reading(From[d], "take"))
       \/ transfer[d] = "none" /\ Unborn(d) /\ Begin(s, "initiate", d, Reading(From[d], "take"))

\* Mutant: any transfer can be completed.
CompletableAlways(d) == transfer[d] # "none"

Completable(d) == transfer[d] = "in_transit"

BeginArrive(s, d) ==
    /\ d \in Transfers /\ Completable(d)
    /\ Begin(s, "arrive", d, [Idle EXCEPT !.pc = "dest", !.seen = transfer[d]])

\* relocate_within_warehouse.
BeginRelocate(s, d) ==
    d \in Lines /\ Enough(From[d], Qty[d]) /\ Bounded(d)
                /\ Begin(s, "relocate", d, Reading(From[d], "take"))

\* confirm_line: the goods move when both ends are confirmed and they have not
\* moved before.
BeginConfirm(s, d) ==
    /\ d \in Lines
    /\ \E ends \in SUBSET {"source", "dest"} :
         LET all == /\ line[d].source \/ "source" \in ends
                    /\ line[d].dest \/ "dest" \in ends
         IN Begin(s, "confirm", d,
                  [Idle EXCEPT !.ends = ends,
                               !.pc = IF all /\ ~line[d].done THEN "pick" ELSE "commit"])

\* create_count copies what is on hand.
BeginCreate(s, c) ==
    /\ c \in Counts /\ count[c].status = "none" /\ Unborn(c)
    /\ Begin(s, "create", c,
             [Idle EXCEPT !.pc = "commit",
                !.count = [NewCount EXCEPT !.status = "draft",
                                           !.system = level[Counted[c]].onHand]])

\* start_count, complete_count and cancel_count.
Allowed(kind) ==
    CASE kind = "start" -> {"draft"}
      [] kind = "complete" -> {"in_progress"}
      [] kind = "cancel" -> {"draft", "in_progress", "completed"}

BeginStatus(s, c) ==
    /\ c \in Counts
    /\ \E kind \in StatusKinds :
         /\ count[c].status \in Allowed(kind)
         /\ kind = "complete" => count[c].counted >= 0
         /\ Begin(s, kind, c, [Idle EXCEPT !.pc = "commit"])

\* The goods at a place; below zero, some are owed to who bought or moved them.
There(p) == AtLeastZero(physical[p])
Error(p) == level[p].onHand - There(p)

\* record_item_count and recount_item: what was counted is what was there.
BeginRecord(s, c) ==
    /\ c \in Counts /\ count[c].status = "in_progress"
    /\ Begin(s, "record", c,
             [Idle EXCEPT !.pc = "commit",
                !.count = [count[c] EXCEPT
                             !.counted = There(Counted[c]),
                             !.found = Error(Counted[c]),
                             !.still = level[Counted[c]].onHand = count[c].system]])

Discrepancy(s) == sess[s].count.counted - sess[s].count.system

BeginApprove(s, c) ==
    /\ c \in Counts /\ count[c].status = "completed"
    /\ Begin(s, "approve", c,
             [Idle EXCEPT !.count = count[c],
                !.pc = IF count[c].counted = count[c].system
                       THEN "value" ELSE "dest"])

-----------------------------------------------------------------------------
(* The rows of the places.                                                 *)

\* The row of p is locked and written.
Write(s, p, row, stale, pc) ==
    /\ lock' = [lock EXCEPT ![p] = s]
    /\ sess' = [sess EXCEPT ![s].new[p] = row, ![s].pc = pc,
                            ![s].stale = IF stale THEN @ \cup {p} ELSE @]
    /\ UNCHANGED <<mix, Records>>

\* upsert_level deletes a row with nothing left on hand, whatever is on its
\* way to it; relocate keeps it.
Left(s, row, n) ==
    IF n = 0 /\ sess[s].kind # "relocate" THEN NoRow ELSE [row EXCEPT !.onHand = n]

\* The source gives what moves: what it had when it was read, less that.  If
\* the row is gone, upsert_level takes nothing and an UPDATE raises.
Take(s) ==
    LET p == Source(s) old == sess[s].old[p]
        next == IF sess[s].kind = "transfer" THEN "put" ELSE "dest" IN
    /\ At(s, "take") /\ Free(p)
    /\ IF level[p].there
       THEN Write(s, p, Left(s, level[p], old.onHand - Qty[sess[s].doc]),
                  level[p].onHand # old.onHand, next)
       ELSE IF sess[s].kind = "relocate" THEN Rollback(s) /\ UNCHANGED mix
       ELSE /\ sess' = [sess EXCEPT ![s].pc = next, ![s].stale = @ \cup {p}]
            /\ UNCHANGED <<mix, lock, Records>>

\* _move_quant locks the source before it reads it.
Pick(s) ==
    LET p == Source(s) n == Qty[sess[s].doc] IN
    /\ At(s, "pick") /\ Free(p)
    /\ IF Enough(p, n)
       THEN Write(s, p, [level[p] EXCEPT !.onHand = @ - n], FALSE, "put")
       ELSE Rollback(s) /\ UNCHANGED mix

\* transfer and _move_quant lock the destination before they read it.
Put(s) ==
    LET p == Dest(s) IN
    /\ At(s, "put") /\ Free(p)
    /\ Write(s, p, [level[p] EXCEPT !.there = TRUE, !.onHand = @ + Qty[sess[s].doc]],
             FALSE, "commit")

\* The others read the destination first; complete_transfer needs it there.
ReadDest(s) ==
    LET p == Dest(s) IN
    /\ At(s, "dest")
    /\ IF sess[s].kind = "arrive" /\ ~level[p].there
       THEN Rollback(s)
       ELSE /\ sess' = [sess EXCEPT ![s].old[p] = level[p], ![s].pc = "write"]
            /\ UNCHANGED <<lock, Records>>
    /\ UNCHANGED mix

\* Mutant: approval sets the level to what was counted.
AdjustedToCount(s) == sess[s].count.counted

\* approve_count corrects what is on hand by the discrepancy.
Adjusted(s) == AtLeastZero(sess[s].old[Dest(s)].onHand + Discrepancy(s))

\* ... and write it: on hand, in transit, or both, from what they have read.
Written(s) ==
    LET p == Dest(s) old == sess[s].old[p] now == level[p]
        n == IF sess[s].doc \in Moves THEN Qty[sess[s].doc] ELSE 0 IN
    CASE sess[s].kind = "initiate" ->
           [now EXCEPT !.there = TRUE, !.inTransit = old.inTransit + n]
      [] sess[s].kind = "arrive" ->
           [now EXCEPT !.onHand = old.onHand + n,
                       !.inTransit = AtLeastZero(old.inTransit - n)]
      [] sess[s].kind = "relocate" ->
           [now EXCEPT !.there = TRUE, !.onHand = old.onHand + n]
      [] sess[s].kind = "approve" ->
           IF Adjusted(s) = 0 THEN NoRow
           ELSE [now EXCEPT !.there = TRUE, !.onHand = Adjusted(s)]

\* An UPDATE of a row that is gone raises, and so does an INSERT of one that
\* has come; set_qty, and upsert_level after a read that found nothing, look
\* for the row once more.
Missed(s, p) ==
    /\ level[p].there # sess[s].old[p].there
    /\ \/ sess[s].kind \in {"arrive", "relocate"}
       \/ sess[s].kind = "initiate" /\ ~level[p].there

WriteDest(s) ==
    LET p == Dest(s) IN
    /\ At(s, "write") /\ Free(p)
    /\ IF Missed(s, p)
       THEN Rollback(s) /\ UNCHANGED mix
       ELSE Write(s, p, Written(s),
                  sess[s].kind # "initiate" /\ level[p].onHand # sess[s].old[p].onHand,
                  IF sess[s].kind = "approve" THEN "value" ELSE "commit")

\* Mutant: the table of snapshots has no unique key.
ValuedNever(s) == FALSE

\* A count has at most one row in ira_snapshots.
Valued(s) == count[sess[s].doc].valued

\* create_ira_snapshot: the INSERT waits for another session's, and raises if
\* that has committed.
Value(s) ==
    /\ At(s, "value")
    /\ \A r \in Sessions \ {s} :
         ~(At(r, "commit") /\ sess[r].kind = "approve" /\ sess[r].doc = sess[s].doc)
    /\ IF Valued(s) THEN Rollback(s)
       ELSE Go(s, "commit") /\ UNCHANGED <<lock, Records>>
    /\ UNCHANGED mix

-----------------------------------------------------------------------------
(* The session commits.                                                    *)

\* The net quantity a session's movements, and the goods, make at place p.
Moved(s, p) ==
    LET d == sess[s].doc n == IF d \in Moves THEN Qty[d] ELSE 0
        goes == d \in Moves /\ p = From[d] comes == d \in Moves /\ p = To[d] IN
    CASE sess[s].kind \in {"transfer", "relocate"} /\ goes -> -n
      [] sess[s].kind \in {"transfer", "relocate"} /\ comes -> n
      [] sess[s].kind = "confirm" /\ lock[p] = s /\ goes -> -n
      [] sess[s].kind = "confirm" /\ lock[p] = s /\ comes -> n
      [] sess[s].kind = "initiate" /\ goes -> -n
      [] sess[s].kind = "arrive" /\ comes /\ transfer[d] = "in_transit" -> n
      [] OTHER -> 0

\* An approval records the difference to what it has read.
Corrected(s, p) ==
    IF sess[s].kind = "approve" /\ lock[p] = s
    THEN Adjusted(s) - (IF level[p].there = sess[s].old[p].there
                        THEN sess[s].old[p].onHand ELSE level[p].onHand)
    ELSE 0

\* The status a document of the session is given.
TransferStatus(s, d) ==
    IF d # sess[s].doc THEN transfer[d]
    ELSE CASE sess[s].kind = "initiate" -> "in_transit"
           [] sess[s].kind = "arrive" -> "completed"
           [] OTHER -> transfer[d]

LineStatus(s, d) ==
    IF d # sess[s].doc \/ sess[s].kind # "confirm" THEN line[d]
    ELSE [source |-> line[d].source \/ "source" \in sess[s].ends,
          dest |-> line[d].dest \/ "dest" \in sess[s].ends,
          done |-> line[d].done \/ \E p \in Places : lock[p] = s]

CountStatus(s, c) ==
    LET q == sess[s] now == count[c] IN
    IF c # q.doc THEN now
    ELSE CASE q.kind = "create" -> q.count
           [] q.kind = "start" -> [now EXCEPT !.status = "in_progress"]
           [] q.kind = "complete" -> [now EXCEPT !.status = "completed"]
           [] q.kind = "cancel" -> [now EXCEPT !.status = "canceled"]
           [] q.kind = "record" -> [q.count EXCEPT !.status = now.status,
                                                   !.valued = now.valued]
           [] q.kind = "approve" -> [now EXCEPT !.status = "approved", !.valued = TRUE]

\* The second of two sessions that complete the same transfer.
Again(s) ==
    IF sess[s].kind = "arrive" /\ sess[s].seen # transfer[sess[s].doc]
    THEN {Dest(s)} ELSE {}

Commit(s) ==
    /\ At(s, "commit")
    /\ level' = [p \in Places |-> IF lock[p] = s THEN sess[s].new[p] ELSE level[p]]
    /\ transfer' = [d \in Transfers |-> TransferStatus(s, d)]
    /\ line' = [d \in Lines |-> LineStatus(s, d)]
    /\ count' = [c \in Counts |-> CountStatus(s, c)]
    /\ physical' = [p \in Places |-> physical[p] + Moved(s, p)]
    /\ ledger' = [p \in Places |-> ledger[p] + Moved(s, p) + Corrected(s, p)]
    /\ lost' = lost \cup sess[s].stale \cup Again(s)
    /\ applied' = [c \in Counts |->
         IF c = sess[s].doc /\ \E p \in Places : lock[p] = s
         THEN applied[c] + 1 ELSE applied[c]]
    /\ End(s)
    /\ UNCHANGED mix

\* A statement raises or the process dies: the transaction is undone.
Fail(s) == ~At(s, "idle") /\ Rollback(s) /\ UNCHANGED mix

-----------------------------------------------------------------------------
(* What happens to the goods meanwhile.                                    *)

Apart == <<mix, lock, Documents, sess, lost, applied>>

\* A sale, or a receipt, of one unit.
Sell(p) ==
    /\ "sell" \in mix /\ Free(p) /\ Enough(p, 1) /\ physical[p] > 0
    /\ level' = [level EXCEPT ![p] =
         IF Enough(p, 2) THEN [level[p] EXCEPT !.onHand = @ - 1] ELSE NoRow]
    /\ physical' = [physical EXCEPT ![p] = @ - 1]
    /\ ledger' = [ledger EXCEPT ![p] = @ - 1]
    /\ UNCHANGED Apart

Receive(p) ==
    /\ "receive" \in mix /\ Free(p) /\ level[p].onHand < MaxStock
    /\ level' = [level EXCEPT ![p].there = TRUE, ![p].onHand = @ + 1]
    /\ physical' = [physical EXCEPT ![p] = @ + 1]
    /\ ledger' = [ledger EXCEPT ![p] = @ + 1]
    /\ UNCHANGED Apart

\* A unit breaks or is stolen, and nothing is recorded.
Shrink(p) ==
    /\ "shrink" \in mix /\ physical[p] > 0
    /\ level[p].onHand - physical[p] < MaxShrink
    /\ physical' = [physical EXCEPT ![p] = @ - 1]
    /\ UNCHANGED <<level, ledger, Apart>>

-----------------------------------------------------------------------------
Request(s, d) ==
    \/ BeginTransfer(s, d) \/ BeginArrive(s, d)
    \/ BeginRelocate(s, d) \/ BeginConfirm(s, d)
    \/ BeginCreate(s, d) \/ BeginStatus(s, d)
    \/ BeginRecord(s, d) \/ BeginApprove(s, d)

Step(s) ==
    \/ Take(s) \/ Pick(s) \/ Put(s) \/ ReadDest(s) \/ WriteDest(s) \/ Value(s)
    \/ Commit(s)

Next ==
    \/ \E s \in Sessions : Step(s) \/ Fail(s) \/ \E d \in Docs : Request(s, d)
    \/ \E p \in Places : Sell(p) \/ Receive(p) \/ Shrink(p)

Spec == Init /\ [][Next]_vars
-----------------------------------------------------------------------------
(* Properties.                                                             *)

\* Every variable keeps its type; above all, no row goes below zero.
TypeOK ==
    /\ mix \in Mixes
    /\ level \in [Places -> Row]
    /\ lock \in [Places -> Sessions \cup {NoSession}]
    /\ transfer \in [Transfers -> TransferStatuses]
    /\ line \in [Lines -> Line]
    /\ count \in [Counts -> Count]
    /\ sess \in [Sessions -> Session]
    /\ physical \in [Places -> Int] /\ ledger \in [Places -> Int]
    /\ lost \subseteq Places
    /\ applied \in [Counts -> Nat]

\* What a place has on hand is what it had and the movements on record made
\* of it: transfers whose goods are on their way, rows that were deleted and
\* inserted again, corrections that would go below zero; only a place that was
\* written from an outdated read, or that two overlapping sessions completed
\* the same transfer to, may differ.
LedgerBalances == \A p \in Places \ lost : level[p].onHand = ledger[p]

\* However approvals, cancellations and recounts of a count overlap, its
\* discrepancy is put on the level at most once.
CountAppliedOnce == \A c \in Counts : applied[c] <= 1

\* An approval removes the error that was found when the goods were counted,
\* and no movement made since: unless the level had already moved between
\* snapshot and count, the approval overwrote a change, or there is less on
\* hand than it would take away.
CountsCorrect ==
    [][\A s \in Sessions :
         LET p == Dest(s) IN
         /\ At(s, "commit") /\ sess[s].kind = "approve" /\ lock[p] = s
         /\ applied' # applied /\ sess'[s].pc = "idle"
         /\ sess[s].count.still /\ sess[s].stale = {}
         /\ sess[s].old[p].onHand + Discrepancy(s) >= 0
         => level'[p].onHand - There(p) = Error(p) - sess[s].count.found]_vars
=============================================================================
