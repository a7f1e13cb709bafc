----------------------------- MODULE StockLevel -----------------------------
(***************************************************************************)
(* The stock ledger of the inventory service: the stock_levels rows of one *)
(* product in one warehouse (one row without batch, one per batch), the    *)
(* repository that changes them (StockRepository) and the stock service's  *)
(* operations, each run by one request inside one database transaction.    *)
(*                                                                         *)
(* A step is one database round trip.  Postgres runs at READ COMMITTED: a  *)
(* row has a committed version and at most one uncommitted one, owned by   *)
(* the transaction that holds the row lock.  The SQLAlchemy session keeps  *)
(* an identity map: an object a handler still refers to is NOT refreshed   *)
(* by a later SELECT ... FOR UPDATE, so its attributes may be older than   *)
(* the row that has just been locked.                                      *)
(***************************************************************************)
EXTENDS Integers, FiniteSets, Functions

CONSTANTS
  Requests,        \* HTTP requests being served, one session each
  Batches,         \* batches of the product
  NoBatch,         \* the key of the row whose batch_id is NULL
  NoOwner,         \* "nobody holds the row lock"
  Kinds,           \* the operations the requests perform
  Fifo,            \* rank of each row by age (created_at)
  DispatchOrders,  \* rankings in which FEFO / LIFO may list the rows
  Expired,         \* batches past their expiration date
  RequiresQc,      \* does the product type put receipts in quarantine?
  InitStock,       \* units on hand in each row at the start
  MaxStock,        \* bound: no request asks for a level above it
  MaxJobs,         \* bound: operations performed in all
  Alone            \* bound: the operations that overlap no other one

Slots == Batches \cup {NoBatch}

FreshKinds == {"receive", "adjust_in", "reserve", "release"}
PreReadKinds == {"return", "issue", "adjust_out", "waste", "adjust",
                 "qc_approve", "qc_reject"}
AllKinds == FreshKinds \cup PreReadKinds \cup {"dispatch"}

ASSUME StockAssumption ==
  /\ NoBatch \notin Batches /\ IsFiniteSet(Batches)
  /\ NoOwner \notin Requests
  /\ Kinds \subseteq AllKinds
  /\ RequiresQc \in BOOLEAN
  /\ InitStock \in [Slots -> Nat]
  /\ Fifo \in [Slots -> Nat] /\ DispatchOrders \subseteq [Slots -> Nat]
  /\ MaxStock \in Nat /\ MaxJobs \in Nat /\ Alone \subseteq AllKinds

QcStatus == {"none", "approved", "pending_qc", "rejected"}
Row == [onHand : Nat, reserved : Nat, qc : QcStatus]
NoRow == [onHand |-> 0, reserved |-> 0, qc |-> "none"]
Exists(row) == row.qc # "none"
Available(row) == row.onHand - row.reserved
AtLeastZero(n) == IF n < 0 THEN 0 ELSE n
Lesser(m, n) == IF m < n THEN m ELSE n

Pcs == {"idle", "run", "read", "write", "insert", "list", "take", "walk",
        "commit"}
Idle == [pc |-> "idle", kind |-> "receive", slot |-> NoBatch, qty |-> 0,
         todo |-> {}, order |-> Fifo, left |-> 0, outrun |-> {}]

VARIABLES
  rows,    \* committed rows
  work,    \* newest version of each row: differs from rows only while locked
  lock,    \* the request that holds the row lock
  snap,    \* identity map: the attributes of the objects a session refers to
  post,    \* movements a transaction has recorded and not yet committed
  kardex,  \* net quantity of the committed movements of each row
  booked,  \* units reserved and not yet released, as their owners count them
  req,     \* progress of each request
  jobs,    \* operations started so far
  spoiled  \* history: rows written by a request that had been outrun on them

vars == <<rows, work, lock, snap, post, kardex, booked, req, jobs, spoiled>>

NoSnap == [s \in Slots |-> NoRow]
NoPost == [s \in Slots |-> 0]

Init ==
  /\ rows = [s \in Slots |-> IF InitStock[s] = 0 THEN NoRow
                ELSE [onHand |-> InitStock[s], reserved |-> 0, qc |-> "approved"]]
  /\ work = rows
  /\ lock = [s \in Slots |-> NoOwner]
  /\ snap = [r \in Requests |-> NoSnap]
  /\ post = [r \in Requests |-> NoPost]
  /\ kardex = InitStock
  /\ booked = 0
  /\ req = [r \in Requests |-> Idle]
  /\ jobs = 0
  /\ spoiled = {}

-----------------------------------------------------------------------------
(* What one transaction sees.                                              *)

Visible(r, s) == IF lock[s] = r THEN work[s] ELSE rows[s]
LockedByOther(r, s) == lock[s] \notin {NoOwner, r}

\* A row lock is waited for only when the row is visible: an uncommitted
\* INSERT of somebody else is not.
\* (Mutants of the code's definitions, which the properties must reject, stand
\* before the definition they change.)  Mutant: SELECT without FOR UPDATE.
LockableUnlocked(r, s) == TRUE

Lockable(r, s) == Exists(Visible(r, s)) => ~LockedByOther(r, s)

\* Attributes Python reads: those of the object the session already holds,
\* and only otherwise those of the row just selected.
Seen(r, s) == IF Exists(snap[r][s]) THEN snap[r][s] ELSE Visible(r, s)

Active == {r \in Requests : req[r].pc # "idle"}
At(r, pc, kinds) == req[r].pc = pc /\ req[r].kind \in kinds
Goto(r, pc) == req' = [req EXCEPT ![r].pc = pc]

\* s comes first among the listed rows a request has not reached yet.
First(r, s) ==
  /\ s \in req[r].todo
  /\ \A p \in req[r].todo : req[r].order[s] <= req[r].order[p]

Write(r, s, row) ==
  /\ lock' = [lock EXCEPT ![s] = r]
  /\ work' = [work EXCEPT ![s] = row]
  /\ snap' = [snap EXCEPT ![r][s] = row]

Record(r, s, n) == post' = [post EXCEPT ![r][s] = @ + n]

TableUnchanged == UNCHANGED <<lock, work, snap>>
Durable == <<rows, kardex, booked, jobs, spoiled>>

\* Mutant: the session is left open, its row locks with it.
RollbackKeepingLocks(r) ==
  /\ req' = [req EXCEPT ![r] = Idle]
  /\ UNCHANGED <<lock, work, snap, post, Durable>>

\* The exception handler of get_db_session: the transaction is undone.
Rollback(r) ==
  /\ work' = [s \in Slots |-> IF lock[s] = r THEN rows[s] ELSE work[s]]
  /\ lock' = [s \in Slots |-> IF lock[s] = r THEN NoOwner ELSE lock[s]]
  /\ snap' = [snap EXCEPT ![r] = NoSnap]
  /\ post' = [post EXCEPT ![r] = NoPost]
  /\ req' = [req EXCEPT ![r] = Idle]
  /\ UNCHANGED Durable

-----------------------------------------------------------------------------
(* A request arrives: the router builds the service and calls it.          *)

\* Units being released by requests under way: each release is of a
\* reservation of its own.
Releasing ==
  SumFunctionOnSet([r \in Active |-> IF req[r].kind = "release" THEN req[r].qty ELSE 0],
                   Active)

InputOk(kind, s, q) ==
  CASE kind \in {"receive", "adjust_in", "return"} ->
         /\ q > 0 /\ work[s].onHand + q <= MaxStock
         /\ kind # "receive" => s = NoBatch   \* only a receipt names a batch
    [] kind \in {"adjust_out", "waste"} -> q > 0 /\ s = NoBatch
    [] kind \in {"issue", "reserve"}  -> q > 0
    [] kind = "dispatch" -> q > 0 /\ s = NoBatch
    [] kind = "release"  -> q > 0 /\ s = NoBatch /\ q <= booked - Releasing
    [] kind = "adjust"   -> q >= 0
    [] OTHER             -> q = 0

FirstPc(kind) ==
  IF kind \in FreshKinds THEN "run" ELSE "read"

Start(r) ==
  /\ req[r].pc = "idle"
  /\ jobs < MaxJobs
  /\ \E kind \in Kinds, s \in Slots, q \in 0..MaxStock :
       /\ InputOk(kind, s, q)
       /\ \A p \in Active : {kind, req[p].kind} \cap Alone = {}
       /\ req' = [req EXCEPT ![r] = [Idle EXCEPT !.pc = FirstPc(kind),
                              !.kind = kind, !.slot = s, !.qty = q]]
  /\ jobs' = jobs + 1
  /\ UNCHANGED <<rows, work, lock, snap, post, kardex, booked, spoiled>>

-----------------------------------------------------------------------------
(* StockRepository.upsert_level: SELECT ... FOR UPDATE, then the new value *)
(* computed from the attributes the session sees.  A row left with nothing *)
(* on hand and nothing reserved is deleted.                                *)

\* Only attributes that changed since they were loaded reach the UPDATE.
Assigned(seen, row, onHand) ==
  IF onHand = seen.onHand THEN row ELSE [row EXCEPT !.onHand = onHand]

UpsertedRow(r, s, delta) ==
  LET onHand == AtLeastZero(Seen(r, s).onHand + delta) IN
  IF onHand = 0 /\ Seen(r, s).reserved = 0
  THEN NoRow
  ELSE Assigned(Seen(r, s), Visible(r, s), onHand)

QcAfterInflow(kind, row) ==
  IF kind = "receive" /\ RequiresQc /\ Exists(row)
  THEN [row EXCEPT !.qc = "pending_qc"] ELSE row

\* The row exists: lock it and write it.
UpsertLevel(r, s, delta) ==
  /\ Exists(Visible(r, s))
  /\ Lockable(r, s)
  /\ Write(r, s, QcAfterInflow(req[r].kind, UpsertedRow(r, s, delta)))

\* No row and nothing to add: upsert_level returns None, and the callers go
\* on to record the movement.
UpsertNothing(r, s, delta) ==
  /\ ~Exists(Visible(r, s))
  /\ delta <= 0
  /\ TableUnchanged

-----------------------------------------------------------------------------
(* receive, adjust_in and return_stock: stock comes in.                    *)

\* return_stock without a unit cost first reads the level for its average
\* cost, and keeps the object.
ReturnRead(r) ==
  /\ At(r, "read", {"return"})
  /\ snap' = [snap EXCEPT ![r][req[r].slot] = Visible(r, req[r].slot)]
  /\ Goto(r, "run")
  /\ UNCHANGED <<work, lock, post, Durable>>

Inflow(r) ==
  LET s == req[r].slot  q == req[r].qty IN
  /\ At(r, "run", {"receive", "adjust_in", "return"})
  /\ \/ /\ UpsertLevel(r, s, q)
        /\ Record(r, s, q)
        /\ Goto(r, "commit")
     \/ /\ ~Exists(Visible(r, s))
        /\ Goto(r, "insert")
        /\ TableUnchanged /\ UNCHANGED post
  /\ UNCHANGED Durable

\* The INSERT of a row the SELECT did not find.  The unique index on
\* (product, warehouse, batch, variant) makes it wait for another INSERT of
\* the same key and fail when that one has committed.
InsertLevel(r) ==
  LET s == req[r].slot
      moved == IF req[r].kind = "adjust" THEN req[r].left ELSE req[r].qty IN
  /\ req[r].pc = "insert"
  /\ ~LockedByOther(r, s)
  /\ IF Exists(rows[s])
     THEN Rollback(r)
     ELSE /\ Write(r, s, QcAfterInflow(req[r].kind,
                 [onHand |-> req[r].qty, reserved |-> 0, qc |-> "approved"]))
          /\ Record(r, s, moved)
          /\ Goto(r, "commit")
          /\ UNCHANGED Durable

-----------------------------------------------------------------------------
(* issue, adjust_out and waste: read the level, compare, lock, subtract.   *)

Withdrawals == {"issue", "adjust_out", "waste"}

WithdrawRead(r) ==
  LET level == Visible(r, req[r].slot) IN
  /\ At(r, "read", Withdrawals)
  /\ IF \/ req[r].kind = "issue" /\ level.qc = "pending_qc"
        \/ level.onHand < req[r].qty
     THEN Rollback(r)
     ELSE /\ snap' = [snap EXCEPT ![r][req[r].slot] = level]
          /\ Goto(r, "write")
          /\ UNCHANGED <<work, lock, post, Durable>>

WithdrawWrite(r) ==
  LET s == req[r].slot  q == req[r].qty IN
  /\ At(r, "write", Withdrawals)
  /\ UpsertLevel(r, s, -q) \/ UpsertNothing(r, s, -q)
  /\ Record(r, s, -q)
  /\ Goto(r, "commit")
  /\ UNCHANGED Durable

-----------------------------------------------------------------------------
(* issue of a product dispatched FEFO or LIFO: _dispatch_multi_batch.      *)

\* issue has read the level without batch for its quarantine check before it
\* hands over to _dispatch_multi_batch.
DispatchRead(r) ==
  LET level == Visible(r, NoBatch) IN
  /\ At(r, "read", {"dispatch"})
  /\ IF level.qc = "pending_qc"
     THEN Rollback(r)
     ELSE /\ snap' = [snap EXCEPT ![r][NoBatch] = level]
          /\ Goto(r, "list")
          /\ UNCHANGED <<work, lock, post, Durable>>

\* Mutant: qc_status is not part of the query.
DispatchableAnyQc(r) == {s \in Slots \ Expired : Visible(r, s).onHand > 0}

Dispatchable(r) ==
  {s \in Slots \ Expired : Visible(r, s).qc = "approved" /\ Visible(r, s).onHand > 0}

DispatchList(r) ==
  LET offered == Dispatchable(r)
      listed(s) == IF s \in offered THEN Seen(r, s) ELSE snap[r][s] IN
  /\ At(r, "list", {"dispatch"})
  /\ IF SumFunctionOnSet([s \in offered |-> Seen(r, s).onHand], offered) < req[r].qty
     THEN Rollback(r)
     ELSE \E order \in DispatchOrders :
            /\ snap' = [snap EXCEPT ![r] = [s \in Slots |-> listed(s)]]
            /\ req' = [req EXCEPT ![r].pc = "take", ![r].left = req[r].qty,
                         ![r].todo = offered, ![r].order = order]
            /\ UNCHANGED <<work, lock, post, Durable>>

\* One level of the list: the quantity comes from the listed object, the row
\* is locked and written as for any other withdrawal.
DispatchTake(r) ==
  /\ At(r, "take", {"dispatch"})
  /\ req[r].left > 0
  /\ \E s \in Slots :
       LET deduct == Lesser(Seen(r, s).onHand, req[r].left) IN
       /\ First(r, s)
       /\ UpsertLevel(r, s, -deduct) \/ UpsertNothing(r, s, -deduct)
       /\ Record(r, s, -deduct)
       /\ req' = [req EXCEPT ![r].todo = @ \ {s}, ![r].left = @ - deduct]
  /\ UNCHANGED Durable

DispatchEnd(r) ==
  /\ At(r, "take", {"dispatch"})
  /\ req[r].left = 0 \/ req[r].todo = {}
  /\ Goto(r, "commit")
  /\ UNCHANGED <<work, lock, snap, post, Durable>>

-----------------------------------------------------------------------------
(* adjust: set the level to a counted quantity, without a lock.            *)

AdjustRead(r) ==
  LET level == Visible(r, req[r].slot) IN
  /\ At(r, "read", {"adjust"})
  /\ snap' = [snap EXCEPT ![r][req[r].slot] = level]
  /\ req' = [req EXCEPT ![r].pc = "list", ![r].left = req[r].qty - level.onHand]
  /\ UNCHANGED <<work, lock, post, Durable>>

\* StockRepository.set_qty selects the level again (the object adjust holds
\* is not refreshed, a row that vanished is None) ...
SetQtyRead(r) ==
  LET s == req[r].slot IN
  /\ At(r, "list", {"adjust"})
  /\ \/ /\ Exists(Visible(r, s))
        /\ snap' = [snap EXCEPT ![r][s] = Seen(r, s)]
        /\ Goto(r, "write")
        /\ UNCHANGED <<work, lock, post, Durable>>
     \/ /\ ~Exists(Visible(r, s)) /\ req[r].qty > 0
        /\ Goto(r, "insert")
        /\ TableUnchanged /\ UNCHANGED <<post, Durable>>
     \/ /\ ~Exists(Visible(r, s)) /\ req[r].qty = 0
        /\ Record(r, s, req[r].left)
        /\ Goto(r, "commit")
        /\ TableUnchanged /\ UNCHANGED Durable

\* Mutant: a row counted as empty is deleted, reservations or not.
SetQtyDeleting(r) ==
  LET s == req[r].slot IN
  /\ At(r, "write", {"adjust"})
  /\ Exists(Visible(r, s)) /\ Lockable(r, s)
  /\ Write(r, s, IF req[r].qty = 0 THEN NoRow
                 ELSE Assigned(snap[r][s], Visible(r, s), req[r].qty))
  /\ Record(r, s, req[r].left)
  /\ Goto(r, "commit")
  /\ UNCHANGED Durable

\* ... and flushes.  An UPDATE that finds its row gone raises
\* StaleDataError; a DELETE that does not find it only warns.
SetQty(r) ==
  LET s == req[r].slot
      seen == snap[r][s]
      emptied == req[r].qty = 0 /\ seen.reserved = 0 IN
  /\ At(r, "write", {"adjust"})
  /\ IF ~Exists(Visible(r, s)) /\ ~emptied
     THEN Rollback(r)
     ELSE /\ \/ /\ Exists(Visible(r, s))
                /\ Lockable(r, s)
                /\ Write(r, s, IF emptied THEN NoRow
                               ELSE Assigned(seen, Visible(r, s), req[r].qty))
             \/ ~Exists(Visible(r, s)) /\ TableUnchanged
          /\ Record(r, s, req[r].left)
          /\ Goto(r, "commit")
          /\ UNCHANGED Durable

-----------------------------------------------------------------------------
(* qc_approve and qc_reject: read the level, then UPDATE its qc_status.    *)

QcKinds == {"qc_approve", "qc_reject"}

QcRead(r) ==
  LET level == Visible(r, req[r].slot) IN
  /\ At(r, "read", QcKinds)
  /\ IF ~Exists(level)
     THEN Rollback(r)
     ELSE /\ snap' = [snap EXCEPT ![r][req[r].slot] = level]
          /\ Goto(r, "write")
          /\ UNCHANGED <<work, lock, post, Durable>>

QcWrite(r) ==
  LET s == req[r].slot
      verdict == IF req[r].kind = "qc_approve" THEN "approved" ELSE "rejected" IN
  /\ At(r, "write", QcKinds)
  /\ IF ~Exists(Visible(r, s))
     THEN Rollback(r)
     ELSE /\ Lockable(r, s)
          /\ Write(r, s, IF snap[r][s].qc = verdict THEN Visible(r, s)
                         ELSE [Visible(r, s) EXCEPT !.qc = verdict])
          /\ Goto(r, "commit")
          /\ UNCHANGED <<post, Durable>>

-----------------------------------------------------------------------------
(* StockRepository.reserve and release_reservation: UPDATE ... WHERE.  The *)
(* condition is tested on the row the statement sees and, after waiting for *)
(* its lock, on the row as committed; a row that does not satisfy it is    *)
(* not waited for.                                                         *)

\* Mutant: WHERE qty_on_hand >= qty.
FitsOnHand(r, s, n) == Exists(Visible(r, s)) /\ Visible(r, s).onHand >= n

Fits(r, s, n) == Exists(Visible(r, s)) /\ Available(Visible(r, s)) >= n

TryReserve(r, s, n) ==
  /\ Fits(r, s, n)
  /\ ~LockedByOther(r, s)
  /\ Write(r, s, [Visible(r, s) EXCEPT !.reserved = @ + n])

\* The batch the caller names, or the row without batch.
Reserve(r) ==
  LET s == req[r].slot  q == req[r].qty IN
  /\ At(r, "run", {"reserve"})
  /\ \/ TryReserve(r, s, q) /\ Goto(r, "commit") /\ UNCHANGED <<post, Durable>>
     \/ ~Fits(r, s, q) /\ s # NoBatch /\ Rollback(r)
     \/ ~Fits(r, s, q) /\ s = NoBatch /\ Goto(r, "list")
        /\ TableUnchanged /\ UNCHANGED <<post, Durable>>

\* Otherwise the batches with something available, oldest first.
ReserveList(r) ==
  LET offered == {s \in Batches : Exists(Visible(r, s)) /\ Available(Visible(r, s)) > 0} IN
  /\ At(r, "list", {"reserve"})
  /\ snap' = [snap EXCEPT ![r] = [s \in Slots |->
                IF s \in offered THEN Visible(r, s) ELSE NoRow]]
  /\ req' = [req EXCEPT ![r].pc = "walk", ![r].left = req[r].qty,
                ![r].todo = offered, ![r].order = Fifo]
  /\ UNCHANGED <<work, lock, post, Durable>>

\* One batch: the chunk comes from the listed object; a batch that no
\* longer has that much available is passed over.
ReserveWalk(r) ==
  /\ At(r, "walk", {"reserve"})
  /\ req[r].left > 0
  /\ \E s \in Slots :
       LET chunk == Lesser(req[r].left, Available(snap[r][s])) IN
       /\ First(r, s)
       /\ \/ /\ TryReserve(r, s, chunk)
             /\ req' = [req EXCEPT ![r].todo = @ \ {s}, ![r].left = @ - chunk]
          \/ /\ ~Fits(r, s, chunk)
             /\ req' = [req EXCEPT ![r].todo = @ \ {s}]
             /\ TableUnchanged
  /\ UNCHANGED <<post, Durable>>

ReserveEnd(r) ==
  /\ At(r, "walk", {"reserve"})
  /\ \/ req[r].left = 0 /\ Goto(r, "commit")
        /\ TableUnchanged /\ UNCHANGED <<post, Durable>>
     \/ req[r].left > 0 /\ req[r].todo = {} /\ Rollback(r)

\* The callers of release_reservation never name a batch, and do not look
\* at how many rows the UPDATE changed.
Release(r) ==
  LET q == req[r].qty  row == Visible(r, NoBatch) IN
  /\ At(r, "run", {"release"})
  /\ \/ /\ row.reserved >= q /\ ~LockedByOther(r, NoBatch)
        /\ Write(r, NoBatch, [row EXCEPT !.reserved = @ - q])
     \/ row.reserved < q /\ TableUnchanged
  /\ Goto(r, "commit")
  /\ UNCHANGED <<post, Durable>>

-----------------------------------------------------------------------------
(* The end of a request: commit, or rollback for whatever reason (a later  *)
(* step of the handler raises, the client goes away, the process dies).    *)

BookedChange(r) ==
  CASE req[r].kind = "reserve" -> req[r].qty
    [] req[r].kind = "release" -> -req[r].qty
    [] OTHER -> 0

\* History: a request that computes a quantity from rows it has read and not
\* locked is outrun on those that somebody else commits meanwhile.
ReadsAhead == Withdrawals \cup {"return", "adjust", "dispatch"}
ReadBy(p) ==
  IF req[p].kind \in ReadsAhead /\ req[p].pc \notin {"idle", "read"}
  THEN {s \in Slots : s = req[p].slot \/ Exists(snap[p][s])} ELSE {}
Changed(r) == {s \in Slots : lock[s] = r}

Commit(r) ==
  /\ req[r].pc = "commit"
  /\ rows' = [s \in Slots |-> IF lock[s] = r THEN work[s] ELSE rows[s]]
  /\ lock' = [s \in Slots |-> IF lock[s] = r THEN NoOwner ELSE lock[s]]
  /\ kardex' = [s \in Slots |-> kardex[s] + post[r][s]]
  /\ booked' = booked + BookedChange(r)
  /\ snap' = [snap EXCEPT ![r] = NoSnap]
  /\ post' = [post EXCEPT ![r] = NoPost]
  /\ req' = [p \in Requests |->
       IF p = r THEN Idle
       ELSE [req[p] EXCEPT !.outrun = @ \cup (ReadBy(p) \cap Changed(r))]]
  /\ spoiled' = spoiled \cup {s \in req[r].outrun : lock[s] = r \/ post[r][s] # 0}
  /\ UNCHANGED <<work, jobs>>

Abort(r) == req[r].pc # "idle" /\ Rollback(r)

\* The owners of the row locks the next statement of a request waits for.
WaitsFor(r) ==
  LET wanted == CASE req[r].pc \in {"take", "walk"} -> {s \in Slots : First(r, s)}
                  [] req[r].pc \in {"run", "write", "insert"} -> {req[r].slot}
                  [] OTHER -> {} IN
  {lock[s] : s \in {s \in wanted : LockedByOther(r, s)}}

\* Postgres' deadlock detector: of requests that wait for each other in a
\* circle, one is rolled back.
DeadlockVictim(r) ==
  /\ \E S \in SUBSET Requests :
       r \in S /\ \A p \in S : WaitsFor(p) \cap S # {}
  /\ Rollback(r)

-----------------------------------------------------------------------------
Step(r) ==
  \/ ReturnRead(r) \/ Inflow(r) \/ InsertLevel(r)
  \/ WithdrawRead(r) \/ WithdrawWrite(r)
  \/ DispatchRead(r) \/ DispatchList(r) \/ DispatchTake(r) \/ DispatchEnd(r)
  \/ AdjustRead(r) \/ SetQtyRead(r) \/ SetQty(r)
  \/ QcRead(r) \/ QcWrite(r)
  \/ Reserve(r) \/ ReserveList(r) \/ ReserveWalk(r) \/ ReserveEnd(r)
  \/ Release(r)
  \/ Commit(r)

Next == \E r \in Requests : Start(r) \/ Step(r) \/ Abort(r) \/ DeadlockVictim(r)

Spec == Init /\ [][Next]_vars

\* The event loop runs every handler whose statement has returned, and the
\* database breaks deadlocks; nothing makes requests arrive or fail.
FairSpec ==
  /\ Spec
  /\ \A r \in Requests : WF_vars(Step(r))
  /\ WF_vars(\E r \in Requests : DeadlockVictim(r))
-----------------------------------------------------------------------------
(* Properties.                                                             *)

Reqs == [pc : Pcs, kind : AllKinds, slot : Slots, qty : Nat,
         todo : SUBSET Slots, order : [Slots -> Nat], left : Int,
         outrun : SUBSET Slots]

\* Every variable keeps its type; in particular no level and no reservation
\* ever becomes negative (upsert_level clamps, release_reservation "refuses
\* to underflow qty_reserved").
TypeOK ==
  /\ rows \in [Slots -> Row] /\ work \in [Slots -> Row]
  /\ lock \in [Slots -> Requests \cup {NoOwner}]
  /\ snap \in [Requests -> [Slots -> Row]]
  /\ post \in [Requests -> [Slots -> Int]]
  /\ kardex \in [Slots -> Int] /\ booked \in Int
  /\ req \in [Requests -> Reqs] /\ jobs \in Nat
  /\ spoiled \subseteq Slots

\* The committed level of every row is the net quantity of the committed
\* movements made for it: stock_levels.qty_on_hand and the kardex of
\* stock_movements, two tables every operation writes, agree.
KardexMatches == \A s \in Slots : rows[s].onHand = kardex[s]

\* Whatever operations overlap, the two tables part only at a row that a
\* request wrote from what it had read before somebody else committed that
\* row: the lock the write takes is never the one that is missing.
KardexPartsOnlyWhenOutrun ==
  \A s \in Slots \ spoiled : rows[s].onHand = kardex[s]

\* Units that owners of reservations still count on are reserved somewhere,
\* unless a request that had been outrun has overwritten a row.
Reserved == SumFunctionOnSet([s \in Slots |-> rows[s].reserved], Slots)
ReservationsBacked == spoiled = {} => Reserved >= booked

\* A reservation that was released frees the units it held: nothing stays
\* reserved that nobody counts on.
ReservationsReleased == Reserved <= booked

\* While a reservation is being taken, whatever other requests do meanwhile,
\* each row it has raised holds the units it reserves: the WHERE of the
\* UPDATE was tested on the row that is now locked.
ReserveCovered ==
  \A s \in Slots : lock[s] # NoOwner /\ req[lock[s]].kind = "reserve"
                     => Available(work[s]) >= 0

\* "QC blocking - reject issue if stock is in quarantine": no commit of an
\* issue takes units out of a row that is in quarantine, unless the row went
\* into quarantine after the issue had read it.
QuarantineHolds ==
  [][\A r \in Requests, s \in Slots :
       /\ At(r, "commit", {"issue", "dispatch"})
       /\ lock[s] = r /\ s \notin req[r].outrun /\ req'[r].pc = "idle"
       /\ rows'[s].onHand < rows[s].onHand
       => rows[s].qc # "pending_qc"]_vars

\* Every request is answered, although dispatches and reservations lock the
\* rows of several batches in different orders.
Served == \A r \in Requests : req[r].pc # "idle" ~> req[r].pc = "idle"
=============================================================================
