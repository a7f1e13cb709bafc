----------------------------- MODULE SalesOrder -----------------------------
(***************************************************************************)
(* The life of sales orders in the inventory service: SalesOrderService,   *)
(* the approval and backorder services it calls, and the reservations it   *)
(* takes and gives back on the stock level of one product in one           *)
(* warehouse.  An order has one line; its backorders are orders too.       *)
(*                                                                         *)
(* A step is one database round trip, as in StockLevel.  Every endpoint    *)
(* first loads the order (svc.get in the router) and keeps the object, so  *)
(* the attributes a service method tests are those of that first SELECT,   *)
(* also after the method's own SELECT ... FOR UPDATE has waited for other  *)
(* transactions to change the row.  What a transaction has written and not *)
(* committed is kept in its request and in "work".                         *)
(***************************************************************************)
EXTENDS Integers, Sequences, FiniteSets, Functions

CONSTANTS
  Requests,   \* HTTP requests being served at the same time
  NoOwner,    \* "nobody holds the row lock"
  Numbers,    \* order numbers: <<n>>, and <<n, k>> for the k-th backorder of <<n>>
  Demand,     \* quantity of each order there is at the start, 0 for the others
  Sent,       \* the order that was shipped before the start, or <<>>
  Kinds,      \* the endpoints that are called
  InitStock,  \* units on hand at the start
  MaxStock,   \* bound: stock is not received beyond it
  MaxJobs     \* bound: requests served in all

AllKinds == {"confirm", "approve", "reject", "resubmit", "pick", "ship",
             "deliver", "return", "cancel", "delete"}

ASSUME OrderAssumption ==
  /\ NoOwner \notin Requests
  /\ IsFiniteSet(Numbers) /\ Numbers \subseteq Seq(Nat) \ {<<>>}
  /\ Demand \in [Numbers -> Nat]
  /\ Sent # <<>> => Sent \in Numbers /\ Demand[Sent] \in 1..InitStock
  /\ Kinds \subseteq AllKinds
  /\ InitStock \in Nat /\ MaxStock \in Nat /\ MaxJobs \in Nat

Statuses == {"draft", "pending_approval", "confirmed", "picking", "shipped",
             "delivered", "returned", "canceled", "rejected"}

\* VALID_TRANSITIONS
Transitions ==
  [draft            |-> {"confirmed", "pending_approval", "canceled"},
   pending_approval |-> {"confirmed", "rejected", "canceled"},
   confirmed        |-> {"picking", "canceled"},
   picking          |-> {"shipped", "canceled"},
   shipped          |-> {"delivered", "returned"},
   delivered        |-> {"returned"},
   returned         |-> {},
   canceled         |-> {},
   rejected         |-> {"pending_approval", "canceled"}]

\* _RESERVED_STATES
ReservedStates == {"confirmed", "picking", "shipped"}

Order == [status : Statuses \cup {"none"}, qty : Nat, shipped : Nat, done : BOOLEAN]
NoOrder == [status |-> "none", qty |-> 0, shipped |-> 0, done |-> FALSE]
Draft(qty) == [NoOrder EXCEPT !.status = "draft", !.qty = qty]
InTransit(qty) == [NoOrder EXCEPT !.status = "shipped", !.qty = qty, !.shipped = qty]
Reservation == [qty : Nat, active : BOOLEAN]

VARIABLES
  orders,     \* committed sales_orders rows, each with its line
  orderLock,  \* the request that holds the row lock of an order
  resv,       \* committed stock_reservations of each order, in order of creation
  level,      \* committed stock_levels row
  work,       \* its newest version: differs from level only while locked
  levelLock,  \* the request that holds its row lock
  sold,       \* units of the committed sale movements of each order
  doubled,    \* units that a delivery of each order deducted a second time
  restocked,  \* units of the committed return movements of each order
  req,        \* progress of each request
  jobs,       \* requests served so far
  raced       \* history: kinds of the requests that overlapped one of the same order

tables == <<orders, resv, level, sold, doubled, restocked>>
locks == <<orderLock, levelLock, work>>
vars == <<tables, locks, req, jobs, raced>>

Pcs == {"idle", "lock", "check", "analyze", "reserve", "select", "release",
        "issue", "restock", "commit"}

\* What a request remembers.  seen: the order as loaded; to: its attributes as
\* assigned since; kids: the backorders it had; child: quantity of the backorder
\* being created; booked, out, again, back: units reserved, sold, deducted a
\* second time and restocked by this transaction; held: the order's reservations
\* as selected, list: those still to release, freed: those released.
Reqs == [pc : Pcs, kind : AllKinds, order : Numbers \cup {<<>>}, seen : Order,
         to : Order, kids : Nat, child : Nat, booked : Nat, out : Nat, again : Nat,
         back : Nat, held : Seq(Reservation), list : SUBSET Nat, freed : SUBSET Nat]
Idle == [pc |-> "idle", kind |-> "confirm", order |-> <<>>, seen |-> NoOrder,
         to |-> NoOrder, kids |-> 0, child |-> 0, booked |-> 0, out |-> 0,
         again |-> 0, back |-> 0, held |-> <<>>, list |-> {}, freed |-> {}]

Init ==
  /\ orders = [n \in Numbers |-> CASE Demand[n] = 0 -> NoOrder
                                   [] n = Sent       -> InTransit(Demand[n])
                                   [] OTHER          -> Draft(Demand[n])]
  /\ orderLock = [n \in Numbers |-> NoOwner]
  /\ resv = [n \in Numbers |-> IF n = Sent
                 THEN <<[qty |-> Demand[n], active |-> TRUE]>> ELSE <<>>]
  /\ level = [onHand |-> InitStock,
              reserved |-> IF Sent = <<>> THEN 0 ELSE Demand[Sent]]
  /\ work = level
  /\ levelLock = NoOwner
  /\ sold = [n \in Numbers |-> 0]
  /\ doubled = [n \in Numbers |-> 0]
  /\ restocked = [n \in Numbers |-> 0]
  /\ req = [r \in Requests |-> Idle]
  /\ jobs = 0
  /\ raced = [n \in Numbers |-> {}]

-----------------------------------------------------------------------------
(* What a transaction sees, and how it ends.                               *)

Existing == {n \in Numbers : orders[n].status # "none"}
Backorders(n) == {m \in Existing : Len(m) = Len(n) + 1 /\ SubSeq(m, 1, Len(n)) = n}
IsBackorder(n) == Len(n) > 1
ActiveResv(n) == {i \in DOMAIN resv[n] : resv[n][i].active}

\* The units of some reservations of an order, and of all that are active.
ResvQty(n, set) == SumFunctionOnSet([i \in DOMAIN resv[n] |-> resv[n][i].qty], set)
ActiveQty(n) == ResvQty(n, ActiveResv(n))

Level(r) == IF levelLock = r THEN work ELSE level
AtLeastZero(n) == IF n < 0 THEN 0 ELSE n
Lesser(m, n) == IF m < n THEN m ELSE n

Active == {r \in Requests : req[r].pc # "idle"}
At(r, pc, kinds) == req[r].pc = pc /\ req[r].kind \in kinds
OrderFree(r) == orderLock[req[r].order] \in {NoOwner, r}
LevelFree(r) == levelLock \in {NoOwner, r}

\* Continue at pc with some of the request's attributes assigned.
Go(r, pc, q) == req' = [req EXCEPT ![r] = [q EXCEPT !.pc = pc]]
LockOrder(r) == orderLock' = [orderLock EXCEPT ![req[r].order] = r]
WriteLevel(r, new) == levelLock' = r /\ work' = new

\* Mutant: the level's row lock outlives the transaction.
UnlockOrderOnly(r) ==
  /\ orderLock' = [n \in Numbers |-> IF orderLock[n] = r THEN NoOwner ELSE orderLock[n]]
  /\ levelLock' = levelLock

Unlock(r) ==
  /\ orderLock' = [n \in Numbers |-> IF orderLock[n] = r THEN NoOwner ELSE orderLock[n]]
  /\ levelLock' = IF levelLock = r THEN NoOwner ELSE levelLock

\* get_db: an exception, the endpoint's own refusals among them.
Rollback(r) ==
  /\ Unlock(r)
  /\ work' = IF levelLock = r THEN level ELSE work
  /\ req' = [req EXCEPT ![r] = Idle]
  /\ UNCHANGED <<tables, jobs, raced>>

\* The number create_backorder gives, from the backorders it has loaded.
ChildNumber(r) == Append(req[r].order, req[r].kids + 1)

\* The unique constraint on the order number.  (Numbers bounds the backorders
\* of an order: a request that asks for one more fails too.)
NumberTaken(r) == ChildNumber(r) \notin Numbers \ Existing

-----------------------------------------------------------------------------
(* The request arrives and the router loads the order.                     *)

Locking == {"confirm", "approve", "deliver", "cancel"}

Target == [confirm |-> "confirmed", approve |-> "confirmed", reject |-> "rejected",
           resubmit |-> "pending_approval", pick |-> "picking", ship |-> "shipped",
           deliver |-> "delivered", return |-> "returned", cancel |-> "canceled"]

\* _assert_transition and the tests that precede it.
Permitted(kind, seen) ==
  CASE kind = "delete"   -> seen.status = "draft"
    [] kind = "approve"  -> seen.status = "pending_approval"
    [] kind = "resubmit" -> seen.status = "rejected"
    [] kind = "deliver"  -> ~seen.done /\ Target[kind] \in Transitions[seen.status]
    [] OTHER             -> Target[kind] \in Transitions[seen.status]

\* All the tests are of attributes loaded here, wherever the code makes them,
\* so a request that fails them is left out: it changes nothing.
Read(r) ==
  /\ req[r].pc = "idle"
  /\ jobs < MaxJobs
  /\ \E kind \in Kinds, n \in Existing :
       LET rivals == {q \in Active : req[q].order = n} IN
       /\ Permitted(kind, orders[n])
       /\ Go(r, IF kind \in Locking THEN "lock" ELSE "check",
             [Idle EXCEPT !.kind = kind, !.order = n, !.seen = orders[n],
                          !.to = orders[n], !.kids = Cardinality(Backorders(n))])
       /\ raced' = IF rivals = {} THEN raced ELSE
            [raced EXCEPT ![n] = @ \cup {kind} \cup {req[q].kind : q \in rivals}]
  /\ jobs' = jobs + 1
  /\ UNCHANGED <<tables, locks>>

\* repo.set_status
SetStatus(r) ==
  [req[r] EXCEPT !.to.status = Target[req[r].kind], !.to.done = @ \/ req[r].kind = "deliver"]

\* Mutant: cancel releases nothing.
LockedCancelKeeps(r) ==
  CASE req[r].kind \in {"confirm", "approve"} -> Go(r, "analyze", req[r])
    [] req[r].kind = "deliver"                -> Go(r, "select", req[r])
    [] req[r].kind = "cancel"                 -> Go(r, "commit", SetStatus(r))

\* Where a method that has locked its order goes on.
Locked(r) ==
  CASE req[r].kind \in {"confirm", "approve"} -> Go(r, "analyze", req[r])
    [] req[r].kind = "deliver"                -> Go(r, "select", req[r])
    [] req[r].kind = "cancel" ->
         IF req[r].seen.status \in ReservedStates THEN Go(r, "select", req[r])
                                                  ELSE Go(r, "commit", SetStatus(r))

\* Mutant: confirm, deliver and cancel read the order without FOR UPDATE.
LoadLockedUnlocked(r) ==
  /\ req[r].pc = "lock"
  /\ Locked(r)
  /\ UNCHANGED <<tables, locks, jobs, raced>>

\* SELECT ... FOR UPDATE (approve: the flush of approved_by) waits for the row
\* and may find it gone; the attributes stay those loaded before.
LoadLocked(r) ==
  /\ req[r].pc = "lock"
  /\ OrderFree(r)
  /\ IF req[r].order \in Existing
     THEN /\ LockOrder(r)
          /\ Locked(r)
          /\ UNCHANGED <<tables, levelLock, work, jobs, raced>>
     ELSE Rollback(r)

-----------------------------------------------------------------------------
(* confirm and approve.                                                    *)

\* The total reaches the tenant's threshold, or it does not.
RequestApproval(r) ==
  /\ At(r, "analyze", {"confirm"})
  /\ Go(r, "commit", [req[r] EXCEPT !.to.status = "pending_approval"])
  /\ UNCHANGED <<tables, locks, jobs, raced>>

\* analyze_and_split and create_backorder.
Analyze(r) ==
  LET available == AtLeastZero(Level(r).onHand - Level(r).reserved)
      take == Lesser(req[r].seen.qty, available)
      short == req[r].seen.qty - take IN
  /\ At(r, "analyze", {"confirm", "approve"})
  /\ IF take = 0 \/ (short > 0 /\ NumberTaken(r))
     THEN Rollback(r)
     ELSE /\ Go(r, "reserve", [req[r] EXCEPT !.to.qty = take, !.child = short])
          /\ UNCHANGED <<tables, locks, jobs, raced>>

Fits(r, qty) == Level(r).onHand - Level(r).reserved >= qty

\* reserve_for_so
Reserve(r) ==
  LET qty == req[r].to.qty IN
  /\ req[r].pc = "reserve"
  /\ LevelFree(r)
  /\ IF Fits(r, qty)
     THEN /\ WriteLevel(r, [Level(r) EXCEPT !.reserved = @ + qty])
          /\ Go(r, "commit", [req[r] EXCEPT !.booked = qty, !.to.status = "confirmed"])
          /\ UNCHANGED <<tables, orderLock, jobs, raced>>
     ELSE Rollback(r)

-----------------------------------------------------------------------------
(* pick, ship, and the operations that only change the status.             *)

Simple(r) ==
  /\ At(r, "check", {"reject", "resubmit", "delete"})
  /\ Go(r, "commit", IF req[r].kind = "delete" THEN [req[r] EXCEPT !.to = NoOrder]
                                               ELSE SetStatus(r))
  /\ UNCHANGED <<tables, locks, jobs, raced>>

\* stock_check adds the order's own reservations back.
Pick(r) ==
  /\ At(r, "check", {"pick"})
  /\ IF level.onHand - level.reserved + ActiveQty(req[r].order) >= req[r].seen.qty
     THEN /\ Go(r, "commit", SetStatus(r))
          /\ UNCHANGED <<tables, locks, jobs, raced>>
     ELSE Rollback(r)

\* Mutant: what was not shipped is dropped.
LeftOverDropped(r, qty) == 0

\* What a shipment of qty leaves for a backorder.
LeftOver(r, qty) ==
  IF IsBackorder(req[r].order) THEN 0 ELSE AtLeastZero(req[r].seen.qty - qty)

\* The quantity is the caller's, and limited only by what is on hand.  The
\* exceptions of create_backorder that ship swallows are the database's: the
\* transaction they have failed in cannot commit.
Ship(r) ==
  /\ At(r, "check", {"ship"})
  /\ \/ /\ \E qty \in 0..level.onHand :
             Go(r, "commit", [SetStatus(r) EXCEPT !.to.shipped = qty,
                  !.child = LeftOver(r, qty),
                  !.to.qty = IF LeftOver(r, qty) > 0 /\ qty > 0 THEN qty ELSE @])
        /\ UNCHANGED <<tables, locks, jobs, raced>>
     \/ Rollback(r)   \* more than there is

-----------------------------------------------------------------------------
(* deliver, cancel and return_order.                                       *)

\* Where a request goes when it has no (more) reservation to release.
AfterRelease(r) ==
  CASE req[r].kind = "deliver" /\ req[r].list # {} -> "issue"
    [] req[r].kind = "return"                      -> "restock"
    [] OTHER                                       -> "commit"

\* SELECT the active reservations.  A delivery that finds none is taken for
\* one of an old order and deducts nothing.
SelectActive(r) ==
  LET list == ActiveResv(req[r].order) IN
  /\ \/ req[r].pc = "select"
     \/ At(r, "check", {"return"})
  /\ Go(r, IF list # {} THEN "release" ELSE AfterRelease(r),
        [SetStatus(r) EXCEPT !.list = list, !.held = resv[req[r].order]])
  /\ UNCHANGED <<tables, locks, jobs, raced>>

\* The WHERE of release_reservation.
Enough(r, qty) == Level(r).reserved >= qty

\* One reservation: the level gives back its quantity, unless that would take
\* qty_reserved below zero, and the reservation is no longer active.
Release(r) ==
  /\ req[r].pc = "release"
  /\ \E i \in req[r].list :
       LET qty == req[r].held[i].qty  rest == req[r].list \ {i} IN
       /\ IF Enough(r, qty)
          THEN LevelFree(r) /\ WriteLevel(r, [Level(r) EXCEPT !.reserved = @ - qty])
          ELSE UNCHANGED <<levelLock, work>>
       /\ Go(r, IF rest # {} THEN "release" ELSE AfterRelease(r),
             [req[r] EXCEPT !.list = rest, !.freed = @ \cup {i}])
  /\ UNCHANGED <<tables, orderLock, jobs, raced>>

\* Mutant: what was ordered is deducted.
IssuedOrdered(r) == req[r].seen.qty

Issued(r) == req[r].seen.shipped

\* stock_service.issue of what was shipped, if anything was.  The release
\* before it holds the level's row; StockLevel models an issue that does not.
\* When its costing fails, after the level was written, deliver catches the
\* exception and deducts the quantity again, down to zero.
Issue(r) ==
  LET qty == Issued(r) IN
  /\ req[r].pc = "issue"
  /\ qty > 0 => LevelFree(r)
  /\ IF qty > Level(r).onHand
     THEN Rollback(r)
     ELSE \E again \in {0, Lesser(qty, Level(r).onHand - qty)} :
            /\ IF qty > 0 THEN WriteLevel(r, [Level(r) EXCEPT !.onHand = @ - qty - again])
                          ELSE UNCHANGED <<levelLock, work>>
            /\ Go(r, "commit", [req[r] EXCEPT !.out = qty, !.again = again])
            /\ UNCHANGED <<tables, orderLock, jobs, raced>>

\* return_order puts back what was shipped.
Restock(r) ==
  LET qty == req[r].seen.shipped IN
  /\ req[r].pc = "restock"
  /\ qty > 0 => LevelFree(r)
  /\ IF qty > 0 THEN WriteLevel(r, [Level(r) EXCEPT !.onHand = @ + qty])
                ELSE UNCHANGED <<levelLock, work>>
  /\ Go(r, "commit", [req[r] EXCEPT !.back = qty])
  /\ UNCHANGED <<tables, orderLock, jobs, raced>>

-----------------------------------------------------------------------------
(* set_status and the end of the transaction.                              *)

\* An UPDATE carries the attributes that differ from what was loaded.
Updated(now, seen, to) ==
  [f \in DOMAIN now |-> IF to[f] = seen[f] THEN now[f] ELSE to[f]]

NewOrders(r) ==
  LET q == req[r]  n == q.order
      row == IF q.kind = "delete" THEN NoOrder ELSE Updated(orders[n], q.seen, q.to) IN
  [m \in Numbers |-> IF m = n THEN row
                     ELSE IF q.child > 0 /\ m = ChildNumber(r) THEN Draft(q.child)
                     ELSE orders[m]]

\* Deleting an order deletes its reservations (ON DELETE CASCADE).
NewResv(r) ==
  LET q == req[r]
      kept == [i \in DOMAIN resv[q.order] |->
                 [resv[q.order][i] EXCEPT !.active = @ /\ i \notin q.freed]] IN
  IF q.kind = "delete" THEN <<>>
  ELSE IF q.booked > 0 THEN Append(kept, [qty |-> q.booked, active |-> TRUE])
  ELSE kept

\* The last flush waits for the order's row, finds it gone (StaleDataError) or
\* inserts the backorder; then everything becomes visible and the locks go.
Commit(r) ==
  LET n == req[r].order IN
  /\ req[r].pc = "commit"
  /\ OrderFree(r)
  /\ IF n \notin Existing \/ (req[r].child > 0 /\ NumberTaken(r))
     THEN Rollback(r)
     ELSE /\ orders' = NewOrders(r)
          /\ resv' = [resv EXCEPT ![n] = NewResv(r)]
          /\ level' = Level(r)
          /\ sold' = [sold EXCEPT ![n] = @ + req[r].out]
          /\ doubled' = [doubled EXCEPT ![n] = @ + req[r].again]
          /\ restocked' = [restocked EXCEPT ![n] = @ + req[r].back]
          /\ req' = [req EXCEPT ![r] = Idle]
          /\ Unlock(r)
          /\ UNCHANGED <<work, jobs, raced>>

\* A statement fails or the client goes away.
Abort(r) == req[r].pc # "idle" /\ Rollback(r)

NeedsLevel(r) ==
  \/ req[r].pc = "reserve"
  \/ req[r].pc \in {"issue", "restock"} /\ req[r].seen.shipped > 0
  \/ req[r].pc = "release" /\ \A i \in req[r].list : Enough(r, req[r].held[i].qty)

WaitsFor(r, q) ==
  /\ q # r
  /\ \/ req[r].pc \in {"lock", "commit"} /\ orderLock[req[r].order] = q
     \/ NeedsLevel(r) /\ levelLock = q

\* deliver locks the order first, return_order the level first.
DeadlockVictim(r) ==
  /\ \E q \in Requests : WaitsFor(r, q) /\ WaitsFor(q, r)
  /\ Rollback(r)

\* Stock comes in from elsewhere (StockLevel's Inflow).
Receive ==
  /\ levelLock = NoOwner
  /\ level.onHand < MaxStock
  /\ level' = [level EXCEPT !.onHand = @ + 1]
  /\ work' = level'
  /\ UNCHANGED <<orders, resv, sold, doubled, restocked, orderLock, levelLock, req, jobs, raced>>

Step(r) ==
  \/ LoadLocked(r) \/ RequestApproval(r) \/ Analyze(r) \/ Reserve(r)
  \/ Simple(r) \/ Pick(r) \/ Ship(r)
  \/ SelectActive(r) \/ Release(r) \/ Issue(r) \/ Restock(r)
  \/ Commit(r)

Next ==
  \/ \E r \in Requests : Read(r) \/ Step(r) \/ DeadlockVictim(r) \/ Abort(r)
  \/ Receive

Spec == Init /\ [][Next]_vars

\* A request goes on while its statements return; Postgres breaks deadlocks.
\* Neither the arrival of requests and stock nor a failure is promised.
Fairness == \A r \in Requests : WF_vars(Step(r)) /\ WF_vars(DeadlockVictim(r))

FairSpec == Spec /\ Fairness

-----------------------------------------------------------------------------
(* Properties.                                                             *)

\* Every variable stays in its domain; quantities are never negative.
TypeOK ==
  /\ orders \in [Numbers -> Order]
  /\ orderLock \in [Numbers -> Requests \cup {NoOwner}]
  /\ resv \in [Numbers -> Seq(Reservation)]
  /\ level \in [onHand : Nat, reserved : Nat] /\ work \in [onHand : Nat, reserved : Nat]
  /\ levelLock \in Requests \cup {NoOwner}
  /\ sold \in [Numbers -> Nat] /\ doubled \in [Numbers -> Nat]
  /\ restocked \in [Numbers -> Nat]
  /\ req \in [Requests -> Reqs]
  /\ jobs \in Nat
  /\ raced \in [Numbers -> SUBSET AllKinds]

\* qty_reserved is the sum of the active reservations, as long as no return or
\* deletion overlapped another request of its order: the methods that take the
\* order's lock first read the reservations that are really there.
LevelMatches ==
  (\A n \in Numbers : raced[n] \cap {"return", "delete"} = {}) =>
    level.reserved = SumFunction([n \in Numbers |-> ActiveQty(n)])

\* An order whose requests never overlapped holds reservations exactly in the
\* states that need them, for all it was confirmed for, whatever the other
\* orders do to the same level.
ReservationsFollowStatus ==
  \A n \in Existing : raced[n] = {} =>
    CASE orders[n].status \in {"confirmed", "picking"} -> ActiveQty(n) = orders[n].qty
      [] orders[n].status = "shipped" -> ActiveQty(n) >= Lesser(orders[n].qty, 1)
      [] OTHER                        -> ActiveQty(n) = 0

\* The sale movements of such an order are what was shipped, and only a
\* delivery makes them; a cancelled order never loses or gains stock.
SoldAsShipped ==
  \A n \in Existing : raced[n] = {} =>
    /\ orders[n].status = "delivered" => sold[n] = orders[n].shipped /\ restocked[n] = 0
    /\ orders[n].status \notin {"delivered", "returned"} => sold[n] = 0 /\ restocked[n] = 0

\* The units the deliveries of an order have taken from the level.
Deducted(n) == sold[n] + doubled[n]

\* Two deliveries may overlap, and a cancel may overlap them: the lock and the
\* reservations let only one deduct stock.  It takes what it sells, and when its
\* costing fails at most as much again.  (A confirmation that overlapped could
\* have reserved again.)
OneDeliveryDeducts ==
  [][\A n \in Numbers :
       Deducted(n)' # Deducted(n) /\ raced[n] \cap {"confirm", "approve"} = {} =>
         Deducted(n) = 0 /\ doubled'[n] <= sold'[n]]_vars

\* What the customer is still promised: the quantity asked for, or what was
\* shipped once the order has left.
Promised(n) == IF orders[n].status \in {"shipped", "delivered", "returned"}
               THEN orders[n].shipped ELSE orders[n].qty

\* Confirming less than was asked for, or shipping less than was confirmed,
\* moves the difference to a new backorder; only a shipment of a backorder
\* itself does not.
NothingDropped ==
  [][\A n \in Existing :
       raced[n] = {} /\ n \in Existing'
         /\ ~(IsBackorder(n) /\ orders'[n].status = "shipped") =>
       LET new == Backorders(n)' \ Backorders(n) IN
       Promised(n)' + SumFunctionOnSet([m \in new |-> orders'[m].qty], new)
         >= Promised(n)]_vars

\* Every request is answered, deadlocks between a delivery and a return of the
\* same order included.
Answered == \A r \in Requests : req[r].pc # "idle" ~> req[r].pc = "idle"

\* What cancel's docstring promises: cancel and ship do not race on the
\* reservations, so that what was shipped is still reserved.
ShippedReserved ==
  \A n \in Existing : orders[n].status = "shipped" => ActiveQty(n) > 0

\* Stock is deducted when an order is delivered, so a return puts back at most
\* what was deducted.
ReturnsSold == \A n \in Numbers : restocked[n] <= sold[n]
=============================================================================
