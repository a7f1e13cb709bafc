-------------------------- MODULE StockLevelProofs --------------------------
(* Theorems about StockLevel and their proofs.                             *)
EXTENDS StockLevel, TLAPS, NaturalsInduction, WellFoundedInduction, FiniteSetTheorems

(***************************************************************************)
(* Type correctness, for every operation.  That a reservation never makes  *)
(* qty_reserved negative rests on the listed batches having something      *)
(* available.                                                              *)
(***************************************************************************)
WalkInv ==
  \A r \in Requests : At(r, "walk", {"reserve"}) =>
    req[r].left >= 0 /\ \A s \in Slots : Available(snap[r][s]) >= 0

TypeInv == TypeOK /\ WalkInv

LEMMA NoRowType == NoRow \in Row
BY DEF NoRow, Row, QcStatus

LEMMA NoSnapType == NoSnap \in [Slots -> Row] /\ \A s \in Slots : NoSnap[s] = NoRow
BY NoRowType DEF NoSnap

LEMMA IdleType ==
  /\ Idle \in Reqs /\ Idle.pc = "idle" /\ Idle.kind = "receive" /\ Idle.outrun = {}
BY StockAssumption DEF Idle, Reqs, Pcs, AllKinds, FreshKinds, Slots

LEMMA VisibleType ==
  ASSUME TypeOK, NEW r \in Requests, NEW s \in Slots
  PROVE  Visible(r, s) \in Row /\ Seen(r, s) \in Row
BY DEF TypeOK, Visible, Seen

LEMMA WriteType ==
  ASSUME TypeOK, NEW r \in Requests, NEW s \in Slots, NEW row \in Row,
         Write(r, s, row)
  PROVE  /\ lock' \in [Slots -> Requests \cup {NoOwner}]
         /\ work' \in [Slots -> Row]
         /\ snap' \in [Requests -> [Slots -> Row]]
BY DEF TypeOK, Write

LEMMA UpsertedRowType ==
  ASSUME TypeOK, NEW r \in Requests, NEW s \in Slots, NEW delta \in Int,
         NEW kind
  PROVE  /\ UpsertedRow(r, s, delta) \in Row
         /\ QcAfterInflow(kind, UpsertedRow(r, s, delta)) \in Row
<1>1. Visible(r, s) \in Row /\ Seen(r, s) \in Row
  BY VisibleType
<1>2. AtLeastZero(Seen(r, s).onHand + delta) \in Nat
  BY <1>1 DEF AtLeastZero, Row
<1>3. UpsertedRow(r, s, delta) \in Row
  BY <1>1, <1>2, NoRowType DEF UpsertedRow, Assigned, Row
<1>4. \A row \in Row : [row EXCEPT !.qc = "pending_qc"] \in Row
  BY DEF Row, QcStatus
<1> QED BY <1>3, <1>4 DEF QcAfterInflow

LEMMA UpsertType ==
  ASSUME TypeOK, NEW r \in Requests, NEW s \in Slots, NEW delta \in Int,
         UpsertLevel(r, s, delta) \/ UpsertNothing(r, s, delta)
  PROVE  /\ lock' \in [Slots -> Requests \cup {NoOwner}]
         /\ work' \in [Slots -> Row]
         /\ snap' \in [Requests -> [Slots -> Row]]
<1>1. CASE UpsertLevel(r, s, delta)
  BY <1>1, WriteType, UpsertedRowType DEF UpsertLevel
<1>2. CASE UpsertNothing(r, s, delta)
  BY <1>2 DEF UpsertNothing, TableUnchanged, TypeOK
<1> QED BY <1>1, <1>2

\* A step of r leaves the walks of the other requests alone.
LEMMA WalkFrame ==
  ASSUME WalkInv, NEW r \in Requests,
         \A p \in Requests \ {r} : req'[p] = req[p] /\ snap'[p] = snap[p],
         ~(req'[r].pc = "walk" /\ req'[r].kind = "reserve")
  PROVE  WalkInv'
BY DEF WalkInv, At

LEMMA RollbackType ==
  ASSUME TypeInv, NEW r \in Requests, Rollback(r)
  PROVE  TypeInv'
<1>1. TypeOK'
  BY NoSnapType, IdleType DEF TypeInv, TypeOK, Rollback, Durable, NoPost
<1>2. WalkInv'
  <2>1. req'[r].pc = "idle"
    BY IdleType DEF TypeInv, TypeOK, Rollback
  <2>2. \A p \in Requests \ {r} : req'[p] = req[p] /\ snap'[p] = snap[p]
    BY DEF TypeInv, TypeOK, Rollback
  <2> QED BY <2>1, <2>2, WalkFrame DEF TypeInv
<1> QED BY <1>1, <1>2 DEF TypeInv

\* What the step of any action has to establish about the request it moves.
LEMMA StepType ==
  ASSUME TypeInv, NEW r \in Requests, NEW q \in Reqs,
         req' = [req EXCEPT ![r] = q],
         \A p \in Requests \ {r} : snap'[p] = snap[p],
         lock' \in [Slots -> Requests \cup {NoOwner}],
         work' \in [Slots -> Row],
         snap' \in [Requests -> [Slots -> Row]],
         post' \in [Requests -> [Slots -> Int]],
         UNCHANGED Durable,
         ~(q.pc = "walk" /\ q.kind = "reserve")
  PROVE  TypeInv'
<1>1. TypeOK'
  BY DEF TypeInv, TypeOK, Durable
<1>2. \A p \in Requests \ {r} : req'[p] = req[p] /\ snap'[p] = snap[p]
  BY DEF TypeInv, TypeOK
<1>3. req'[r] = q
  BY DEF TypeInv, TypeOK
<1>4. WalkInv'
  BY <1>2, <1>3, WalkFrame DEF TypeInv
<1> QED BY <1>1, <1>4 DEF TypeInv

LEMMA RecordType ==
  ASSUME TypeOK, NEW r \in Requests, NEW s \in Slots, NEW n \in Int, Record(r, s, n)
  PROVE  post' \in [Requests -> [Slots -> Int]]
BY DEF TypeOK, Record

LEMMA SnapFrame ==
  ASSUME TypeOK, NEW r \in Requests, NEW s \in Slots, NEW row, NEW delta,
         \/ Write(r, s, row)
         \/ UpsertLevel(r, s, delta) \/ UpsertNothing(r, s, delta)
         \/ TableUnchanged
  PROVE  \A p \in Requests \ {r} : snap'[p] = snap[p]
BY DEF TypeOK, Write, UpsertLevel, UpsertNothing, TableUnchanged

LEMMA GotoType ==
  ASSUME TypeInv, NEW r \in Requests, NEW pc \in Pcs \ {"walk"},
         Goto(r, pc),
         \A p \in Requests \ {r} : snap'[p] = snap[p],
         lock' \in [Slots -> Requests \cup {NoOwner}],
         work' \in [Slots -> Row],
         snap' \in [Requests -> [Slots -> Row]],
         post' \in [Requests -> [Slots -> Int]],
         UNCHANGED Durable
  PROVE  TypeInv'
<1> DEFINE q == [req[r] EXCEPT !.pc = pc]
<1>0. req[r] \in Reqs
  BY DEF TypeInv, TypeOK
<1>1. q \in Reqs /\ q.pc = pc
  BY <1>0 DEF Reqs
<1>2. req' = [req EXCEPT ![r] = q]
  BY DEF Goto
<1> HIDE DEF q
<1> QED BY <1>1, <1>2, StepType

LEMMA UntouchedType ==
  ASSUME TypeOK, TableUnchanged
  PROVE  /\ lock' \in [Slots -> Requests \cup {NoOwner}]
         /\ work' \in [Slots -> Row]
         /\ snap' \in [Requests -> [Slots -> Row]]
         /\ \A p \in Requests : snap'[p] = snap[p]
BY DEF TypeOK, TableUnchanged

\* The fields of a typed request.
LEMMA ReqFields ==
  ASSUME TypeOK, NEW r \in Requests
  PROVE  /\ req[r] \in Reqs /\ req[r].slot \in Slots /\ req[r].qty \in Nat
         /\ req[r].left \in Int /\ req[r].kind \in AllKinds
         /\ req[r].todo \in SUBSET Slots
BY DEF TypeOK, Reqs

LEMMA StartType ==
  ASSUME TypeInv, NEW r \in Requests, Start(r)
  PROVE  TypeInv'
<1> PICK kind \in Kinds, s \in Slots, q \in 0..MaxStock :
         req' = [req EXCEPT ![r] = [Idle EXCEPT !.pc = FirstPc(kind),
                        !.kind = kind, !.slot = s, !.qty = q]]
  BY DEF Start
<1> DEFINE new == [Idle EXCEPT !.pc = FirstPc(kind), !.kind = kind, !.slot = s, !.qty = q]
<1>0. FirstPc(kind) \in {"run", "read"} /\ kind \in AllKinds /\ q \in Nat
  BY StockAssumption DEF FirstPc
<1>1. new \in Reqs /\ new.pc # "walk"
  <2>1. \A x \in Reqs, pc \in {"run", "read"} :
           [x EXCEPT !.pc = pc, !.kind = kind, !.slot = s, !.qty = q] \in Reqs
    BY <1>0 DEF Reqs, Pcs
  <2>2. \A x \in Reqs, pc \in {"run", "read"} :
           [x EXCEPT !.pc = pc, !.kind = kind, !.slot = s, !.qty = q].pc = pc
    BY DEF Reqs
  <2>3. new.pc = FirstPc(kind)
    BY <1>0, <2>2, IdleType
  <2> QED BY <1>0, <2>1, <2>3, IdleType
<1>2. TypeOK'
  BY <1>1 DEF Start, TypeInv, TypeOK
<1>3. WalkInv'
  BY <1>1, WalkFrame DEF Start, TypeInv, TypeOK
<1> QED BY <1>2, <1>3 DEF TypeInv

LEMMA InflowType ==
  ASSUME TypeInv, NEW r \in Requests,
         ReturnRead(r) \/ Inflow(r) \/ InsertLevel(r)
  PROVE  TypeInv'
<1> USE DEF TypeInv
<1> DEFINE s == req[r].slot
           q == req[r].qty
<1>0. s \in Slots /\ q \in Nat /\ q \in Int
  BY ReqFields
<1>1. CASE ReturnRead(r)
  <2>1. Visible(r, s) \in Row
    BY <1>0, VisibleType
  <2>2. snap' \in [Requests -> [Slots -> Row]] /\ \A p \in Requests \ {r} : snap'[p] = snap[p]
    BY <1>0, <1>1, <2>1 DEF ReturnRead, TypeOK
  <2>3. UNCHANGED <<lock, work, post>> /\ UNCHANGED Durable /\ Goto(r, "run")
    BY <1>1 DEF ReturnRead
  <2> QED BY <2>2, <2>3, GotoType DEF TypeOK, Pcs
<1>2. CASE Inflow(r)
  <2>1. CASE UpsertLevel(r, s, q) /\ Record(r, s, q) /\ Goto(r, "commit")
    BY <1>0, <1>2, <2>1, UpsertType, RecordType, SnapFrame, GotoType DEF Inflow, Pcs
  <2>2. CASE Goto(r, "insert") /\ TableUnchanged /\ UNCHANGED post
    <3>1. post' \in [Requests -> [Slots -> Int]] /\ UNCHANGED Durable
      BY <1>2, <2>2 DEF Inflow, TypeOK
    <3> QED BY <2>2, <3>1, UntouchedType, GotoType DEF Pcs
  <2> QED BY <1>2, <2>1, <2>2 DEF Inflow
<1>3. CASE InsertLevel(r)
  <2> DEFINE row == QcAfterInflow(req[r].kind, [onHand |-> q, reserved |-> 0, qc |-> "approved"])
             moved == IF req[r].kind = "adjust" THEN req[r].left ELSE q
  <2>1. row \in Row /\ moved \in Int
    BY <1>0, ReqFields DEF QcAfterInflow, Row, QcStatus
  <2>2. CASE Rollback(r)
    BY <2>2, RollbackType
  <2>3. CASE Write(r, s, row) /\ Record(r, s, moved) /\ Goto(r, "commit") /\ UNCHANGED Durable
    BY <1>0, <2>1, <2>3, WriteType, RecordType, SnapFrame, GotoType DEF Pcs
  <2> QED BY <1>3, <2>2, <2>3 DEF InsertLevel
<1> QED BY <1>1, <1>2, <1>3

LEMMA WithdrawType ==
  ASSUME TypeInv, NEW r \in Requests, WithdrawRead(r) \/ WithdrawWrite(r)
  PROVE  TypeInv'
<1> USE DEF TypeInv
<1> DEFINE s == req[r].slot
           q == req[r].qty
<1>0. s \in Slots /\ q \in Nat /\ -q \in Int
  BY ReqFields
<1>1. CASE WithdrawRead(r)
  <2>1. CASE Rollback(r)
    BY <2>1, RollbackType
  <2>2. CASE /\ snap' = [snap EXCEPT ![r][s] = Visible(r, s)]
             /\ Goto(r, "write") /\ UNCHANGED <<work, lock, post, Durable>>
    BY <1>0, <2>2, VisibleType, GotoType DEF TypeOK, Pcs
  <2> QED BY <1>1, <2>1, <2>2 DEF WithdrawRead
<1>2. CASE WithdrawWrite(r)
  BY <1>0, <1>2, UpsertType, RecordType, SnapFrame, GotoType DEF WithdrawWrite, Pcs
<1> QED BY <1>1, <1>2

LEMMA DispatchType ==
  ASSUME TypeInv, NEW r \in Requests,
         DispatchRead(r) \/ DispatchList(r) \/ DispatchTake(r) \/ DispatchEnd(r)
  PROVE  TypeInv'
<1> USE DEF TypeInv
<1>0. NoBatch \in Slots /\ req[r] \in Reqs
  BY ReqFields DEF Slots
<1>1. CASE DispatchRead(r)
  <2>1. CASE Rollback(r)
    BY <2>1, RollbackType
  <2>2. CASE /\ snap' = [snap EXCEPT ![r][NoBatch] = Visible(r, NoBatch)]
             /\ Goto(r, "list") /\ UNCHANGED <<work, lock, post, Durable>>
    BY <1>0, <2>2, VisibleType, GotoType DEF TypeOK, Pcs
  <2> QED BY <1>1, <2>1, <2>2 DEF DispatchRead
<1>2. CASE DispatchList(r)
  <2> DEFINE listed(s) == IF s \in Dispatchable(r) THEN Seen(r, s) ELSE snap[r][s]
             q(order) == [req[r] EXCEPT !.pc = "take", !.left = req[r].qty,
                            !.todo = Dispatchable(r), !.order = order]
  <2>1. CASE Rollback(r)
    BY <2>1, RollbackType
  <2>2. CASE ~Rollback(r)
    <3>1. PICK order \in DispatchOrders :
            /\ snap' = [snap EXCEPT ![r] = [s \in Slots |-> listed(s)]]
            /\ req' = [req EXCEPT ![r].pc = "take", ![r].left = req[r].qty,
                         ![r].todo = Dispatchable(r), ![r].order = order]
            /\ UNCHANGED <<work, lock, post, Durable>>
      BY <1>2, <2>2 DEF DispatchList
    <3>2. req' = [req EXCEPT ![r] = q(order)]
      BY <3>1
    <3>3. order \in [Slots -> Nat] /\ Dispatchable(r) \in SUBSET Slots /\ req[r].qty \in Int
      BY StockAssumption, ReqFields DEF Dispatchable
    <3>4. q(order) \in Reqs /\ q(order).pc = "take"
      BY <1>0, <3>3 DEF Reqs, Pcs
    <3>5. [s \in Slots |-> listed(s)] \in [Slots -> Row]
      BY VisibleType DEF TypeOK
    <3>6. /\ snap' \in [Requests -> [Slots -> Row]]
          /\ \A p \in Requests \ {r} : snap'[p] = snap[p]
      BY <3>1, <3>5 DEF TypeOK
    <3> HIDE DEF q
    <3> QED BY <3>1, <3>2, <3>4, <3>6, StepType DEF TypeOK
  <2> QED BY <2>1, <2>2
<1>3. CASE DispatchTake(r)
  <2> DEFINE deduct(s) == Lesser(Seen(r, s).onHand, req[r].left)
             q(s) == [req[r] EXCEPT !.todo = @ \ {s}, !.left = @ - deduct(s)]
  <2>1. PICK s \in Slots :
          /\ UpsertLevel(r, s, -deduct(s)) \/ UpsertNothing(r, s, -deduct(s))
          /\ Record(r, s, -deduct(s))
          /\ req' = [req EXCEPT ![r].todo = @ \ {s}, ![r].left = @ - deduct(s)]
    BY <1>3 DEF DispatchTake
  <2>2. deduct(s) \in Int /\ -deduct(s) \in Int
    BY VisibleType, ReqFields DEF Lesser, Row
  <2>3. req' = [req EXCEPT ![r] = q(s)]
    BY <2>1
  <2>4. q(s) \in Reqs /\ q(s).pc = req[r].pc /\ req[r].pc = "take"
    <3> HIDE DEF deduct
    <3>1. \A x \in Reqs, todo \in SUBSET Slots, left \in Int :
            LET y == [x EXCEPT !.todo = todo, !.left = left]
            IN  y \in Reqs /\ y.pc = x.pc
      BY DEF Reqs
    <3>2. req[r].todo \ {s} \in SUBSET Slots /\ req[r].left - deduct(s) \in Int
      BY <2>2, ReqFields
    <3>3. req[r].pc = "take"
      BY <1>3 DEF DispatchTake, At
    <3> QED BY <1>0, <3>1, <3>2, <3>3
  <2>5. UNCHANGED Durable
    BY <1>3 DEF DispatchTake
  <2> HIDE DEF q, deduct
  <2> QED BY <2>1, <2>2, <2>3, <2>4, <2>5, UpsertType, RecordType, SnapFrame, StepType
<1>4. CASE DispatchEnd(r)
  BY <1>4, GotoType DEF DispatchEnd, TypeOK, Pcs
<1> QED BY <1>1, <1>2, <1>3, <1>4

LEMMA AdjustType ==
  ASSUME TypeInv, NEW r \in Requests, AdjustRead(r) \/ SetQtyRead(r) \/ SetQty(r)
  PROVE  TypeInv'
<1> USE DEF TypeInv
<1> DEFINE s == req[r].slot
<1>0. s \in Slots /\ req[r].qty \in Nat /\ req[r].left \in Int /\ req[r] \in Reqs
  BY ReqFields
<1>1. CASE AdjustRead(r)
  <2> DEFINE q == [req[r] EXCEPT !.pc = "list", !.left = req[r].qty - Visible(r, s).onHand]
  <2>1. Visible(r, s) \in Row
    BY <1>0, VisibleType
  <2>2. req[r].qty - Visible(r, s).onHand \in Int
    BY <1>0, <2>1 DEF Row
  <2>3. q \in Reqs /\ q.pc = "list"
    BY <1>0, <2>2 DEF Reqs, Pcs
  <2>4. req' = [req EXCEPT ![r] = q] /\ UNCHANGED <<work, lock, post, Durable>>
    BY <1>1 DEF AdjustRead
  <2>5. snap' = [snap EXCEPT ![r][s] = Visible(r, s)]
    BY <1>1 DEF AdjustRead
  <2> HIDE DEF q
  <2> QED BY <1>0, <2>1, <2>3, <2>4, <2>5, StepType DEF TypeOK
<1>2. CASE SetQtyRead(r)
  <2>1. CASE /\ snap' = [snap EXCEPT ![r][s] = Seen(r, s)]
             /\ Goto(r, "write") /\ UNCHANGED <<work, lock, post, Durable>>
    BY <1>0, <2>1, VisibleType, GotoType DEF TypeOK, Pcs
  <2>2. CASE Goto(r, "insert") /\ TableUnchanged /\ UNCHANGED <<post, Durable>>
    BY <2>2, UntouchedType, GotoType DEF TypeOK, Pcs
  <2>3. CASE /\ Record(r, s, req[r].left) /\ Goto(r, "commit")
             /\ TableUnchanged /\ UNCHANGED Durable
    BY <1>0, <2>3, UntouchedType, RecordType, GotoType DEF Pcs
  <2> QED BY <1>2, <2>1, <2>2, <2>3 DEF SetQtyRead
<1>3. CASE SetQty(r)
  <2> DEFINE row == IF req[r].qty = 0 /\ snap[r][s].reserved = 0 THEN NoRow
                    ELSE Assigned(snap[r][s], Visible(r, s), req[r].qty)
  <2>1. CASE Rollback(r)
    BY <2>1, RollbackType
  <2>3. CASE /\ TableUnchanged /\ Record(r, s, req[r].left)
             /\ Goto(r, "commit") /\ UNCHANGED Durable
    BY <1>0, <2>3, UntouchedType, RecordType, GotoType DEF Pcs
  <2>2. CASE /\ Write(r, s, row) /\ Record(r, s, req[r].left)
             /\ Goto(r, "commit") /\ UNCHANGED Durable
    <3>1. row \in Row
      BY <1>0, VisibleType, NoRowType DEF Assigned, Row
    <3> HIDE DEF row
    <3> QED BY <1>0, <2>2, <3>1, WriteType, RecordType, SnapFrame, GotoType DEF Pcs
  <2> QED BY <1>3, <2>1, <2>2, <2>3 DEF SetQty
<1> QED BY <1>1, <1>2, <1>3

LEMMA QcType ==
  ASSUME TypeInv, NEW r \in Requests, QcRead(r) \/ QcWrite(r)
  PROVE  TypeInv'
<1> USE DEF TypeInv
<1> DEFINE s == req[r].slot
<1>0. s \in Slots
  BY ReqFields
<1>1. CASE Rollback(r)
  BY <1>1, RollbackType
<1>2. CASE QcRead(r) /\ ~Rollback(r)
  <2>1. /\ snap' = [snap EXCEPT ![r][s] = Visible(r, s)]
        /\ Goto(r, "write") /\ UNCHANGED <<work, lock, post, Durable>>
    BY <1>2 DEF QcRead
  <2> QED BY <1>0, <2>1, VisibleType, GotoType DEF TypeOK, Pcs
<1>3. CASE QcWrite(r) /\ ~Rollback(r)
  <2> DEFINE verdict == IF req[r].kind = "qc_approve" THEN "approved" ELSE "rejected"
             row == IF snap[r][s].qc = verdict THEN Visible(r, s)
                    ELSE [Visible(r, s) EXCEPT !.qc = verdict]
  <2>1. Write(r, s, row) /\ Goto(r, "commit") /\ UNCHANGED <<post, Durable>>
    BY <1>3 DEF QcWrite
  <2>2. row \in Row
    BY <1>0, VisibleType DEF Row, QcStatus
  <2> HIDE DEF row
  <2> QED BY <1>0, <2>1, <2>2, WriteType, SnapFrame, GotoType DEF TypeOK, Pcs
<1> QED BY <1>1, <1>2, <1>3

\* A reservation of something non-negative, on a row that fits it.
LEMMA TryReserveType ==
  ASSUME TypeOK, NEW r \in Requests, NEW s \in Slots, NEW n \in Nat, TryReserve(r, s, n)
  PROVE  /\ lock' \in [Slots -> Requests \cup {NoOwner}]
         /\ work' \in [Slots -> Row]
         /\ snap' \in [Requests -> [Slots -> Row]]
         /\ \A p \in Requests \ {r} : snap'[p] = snap[p]
         /\ \A t \in Slots \ {s} : snap'[r][t] = snap[r][t]
         /\ Available(snap'[r][s]) >= 0
<1> DEFINE row == [Visible(r, s) EXCEPT !.reserved = @ + n]
<1>1. Visible(r, s) \in Row /\ Available(Visible(r, s)) >= n
  BY VisibleType DEF TryReserve, Fits
<1>2. row \in Row /\ Available(row) >= 0
  BY <1>1 DEF Row, Available
<1>3. Write(r, s, row)
  BY DEF TryReserve
<1> HIDE DEF row
<1> QED BY <1>2, <1>3, WriteType, SnapFrame DEF Write, TypeOK

LEMMA ReserveType ==
  ASSUME TypeInv, NEW r \in Requests, Reserve(r) \/ ReserveEnd(r) \/ Release(r)
  PROVE  TypeInv'
<1> USE DEF TypeInv
<1> DEFINE s == req[r].slot
           q == req[r].qty
<1>0. s \in Slots /\ NoBatch \in Slots /\ q \in Nat
  BY ReqFields DEF Slots
<1>1. CASE Rollback(r)
  BY <1>1, RollbackType
<1>2. CASE Reserve(r) /\ ~Rollback(r)
  <2>1. CASE TryReserve(r, s, q) /\ Goto(r, "commit") /\ UNCHANGED <<post, Durable>>
    BY <1>0, <2>1, TryReserveType, GotoType DEF TypeOK, Pcs
  <2>2. CASE Goto(r, "list") /\ TableUnchanged /\ UNCHANGED <<post, Durable>>
    BY <2>2, UntouchedType, GotoType DEF TypeOK, Pcs
  <2> QED BY <1>2, <2>1, <2>2 DEF Reserve
<1>3. CASE ReserveEnd(r) /\ ~Rollback(r)
  <2>1. Goto(r, "commit") /\ TableUnchanged /\ UNCHANGED <<post, Durable>>
    BY <1>3 DEF ReserveEnd
  <2> QED BY <2>1, UntouchedType, GotoType DEF TypeOK, Pcs
<1>4. CASE Release(r)
  <2> DEFINE row == [Visible(r, NoBatch) EXCEPT !.reserved = @ - q]
  <2>1. Goto(r, "commit") /\ UNCHANGED <<post, Durable>>
    BY <1>4 DEF Release
  <2>2. CASE Visible(r, NoBatch).reserved >= q /\ Write(r, NoBatch, row)
    <3>1. row \in Row
      BY <1>0, <2>2, VisibleType DEF Row
    <3> HIDE DEF row
    <3> QED BY <1>0, <2>1, <2>2, <3>1, WriteType, SnapFrame, GotoType DEF TypeOK, Pcs
  <2>3. CASE TableUnchanged
    BY <2>1, <2>3, UntouchedType, GotoType DEF TypeOK, Pcs
  <2> QED BY <1>4, <2>2, <2>3 DEF Release
<1> QED BY <1>1, <1>2, <1>3, <1>4

LEMMA ListedType ==
  ASSUME NEW x \in Reqs, NEW left \in Int, NEW todo \in SUBSET Slots
  PROVE  /\ [x EXCEPT !.pc = "walk", !.left = left, !.todo = todo] \in Reqs
         /\ [x EXCEPT !.pc = "walk", !.left = left, !.todo = todo].left = left
BY DEF Reqs, Pcs

\* The walk over the batches keeps WalkInv: what is listed is available, and
\* a batch that was raised still holds what it reserves.
LEMMA WalkType ==
  ASSUME TypeInv, NEW r \in Requests, ReserveList(r) \/ ReserveWalk(r)
  PROVE  TypeInv'
<1> USE DEF TypeInv
<1>1. CASE ReserveList(r)
  <2> DEFINE offered == {s \in Batches : Exists(Visible(r, s)) /\ Available(Visible(r, s)) > 0}
             listed == [s \in Slots |-> IF s \in offered THEN Visible(r, s) ELSE NoRow]
             q0 == [req[r] EXCEPT !.pc = "walk", !.left = req[r].qty, !.todo = offered]
             q == [q0 EXCEPT !.order = Fifo]
  <2>1. snap' = [snap EXCEPT ![r] = listed] /\ req' = [req EXCEPT ![r] = q]
    BY <1>1 DEF ReserveList
  <2>2. UNCHANGED <<work, lock, post, rows, kardex, booked, jobs, spoiled>>
    BY <1>1 DEF ReserveList, Durable
  <2>3. listed \in [Slots -> Row] /\ \A s \in Slots : Available(listed[s]) >= 0
    BY VisibleType, NoRowType DEF Available, NoRow, Row
  <2>4. q \in Reqs /\ q.left >= 0
    <3> HIDE DEF offered
    <3>1. offered \in SUBSET Slots
      BY DEF offered, Slots
    <3>2. req[r].qty \in Nat /\ req[r].qty \in Int /\ req[r] \in Reqs /\ Fifo \in [Slots -> Nat]
      BY ReqFields, StockAssumption
    <3>3. q0 \in Reqs /\ q0.left = req[r].qty
      BY <3>1, <3>2, ListedType, ZenonT(60)
    <3>4. q0.left >= 0
      BY <3>2, <3>3
    <3> HIDE DEF q0
    <3>6. \A x \in Reqs : /\ [x EXCEPT !.order = Fifo] \in Reqs
                           /\ [x EXCEPT !.order = Fifo].left = x.left
      BY <3>2 DEF Reqs
    <3> QED BY <3>3, <3>4, <3>6
  <2> HIDE DEF q, q0, listed
  <2>5. TypeOK'
    BY <2>1, <2>2, <2>3, <2>4 DEF TypeOK
  <2>6. WalkInv'
    BY <2>1, <2>3, <2>4 DEF WalkInv, TypeOK, At
  <2> QED BY <2>5, <2>6
<1>2. CASE ReserveWalk(r)
  <2> DEFINE chunk(s) == Lesser(req[r].left, Available(snap[r][s]))
  <2>1. PICK s \in Slots :
          /\ First(r, s)
          /\ \/ /\ TryReserve(r, s, chunk(s))
                /\ req' = [req EXCEPT ![r].todo = @ \ {s}, ![r].left = @ - chunk(s)]
             \/ /\ req' = [req EXCEPT ![r].todo = @ \ {s}]
                /\ TableUnchanged
    BY <1>2 DEF ReserveWalk
  <2>2. /\ req[r].left \in Int /\ req[r].left >= 0
        /\ \A t \in Slots : Available(snap[r][t]) \in Int /\ Available(snap[r][t]) >= 0
    BY <1>2, ReqFields DEF ReserveWalk, WalkInv, TypeOK, Row, Available
  <2>3. chunk(s) \in Nat /\ req[r].left - chunk(s) >= 0 /\ req[r].left - chunk(s) \in Int
    BY <2>2 DEF Lesser
  <2>4. UNCHANGED <<post, rows, kardex, booked, jobs, spoiled>>
    BY <1>2 DEF ReserveWalk, Durable
  <2> HIDE DEF chunk
  <2>6. req[r].todo \ {s} \in SUBSET Slots /\ req[r] \in Reqs
    BY ReqFields
  <2>7. /\ req' \in [Requests -> Reqs] /\ req'[r].left >= 0
        /\ \A p \in Requests \ {r} : req'[p] = req[p]
    <3> DEFINE q1 == [req[r] EXCEPT !.todo = req[r].todo \ {s}, !.left = req[r].left - chunk(s)]
               q2 == [req[r] EXCEPT !.todo = req[r].todo \ {s}]
    <3>a. \A x \in Reqs, left \in Int :
             [x EXCEPT !.todo = req[r].todo \ {s}, !.left = left] \in Reqs
      BY <2>6 DEF Reqs
    <3>b. \A x \in Reqs, left \in Int :
             [x EXCEPT !.todo = req[r].todo \ {s}, !.left = left].left = left
      BY DEF Reqs
    <3>c. \A x \in Reqs : /\ [x EXCEPT !.todo = req[r].todo \ {s}] \in Reqs
                           /\ [x EXCEPT !.todo = req[r].todo \ {s}].left = x.left
      BY <2>6 DEF Reqs
    <3>1. q1 \in Reqs /\ q1.left = req[r].left - chunk(s)
      BY <2>3, <2>6, <3>a, <3>b
    <3>2. q2 \in Reqs /\ q2.left = req[r].left
      BY <2>6, <3>c
    <3>3. q1.left >= 0 /\ q2.left >= 0
      BY <2>2, <2>3, <3>1, <3>2
    <3>4. req' = [req EXCEPT ![r] = q1] \/ req' = [req EXCEPT ![r] = q2]
      BY <2>1
    <3> HIDE DEF q1, q2
    <3> QED BY <3>1, <3>2, <3>3, <3>4 DEF TypeOK
  <2>8. /\ lock' \in [Slots -> Requests \cup {NoOwner}] /\ work' \in [Slots -> Row]
        /\ snap' \in [Requests -> [Slots -> Row]]
        /\ \A p \in Requests \ {r} : snap'[p] = snap[p]
        /\ \A t \in Slots : Available(snap'[r][t]) >= 0
    <3>1. CASE TryReserve(r, s, chunk(s))
      BY <2>2, <2>3, <3>1, TryReserveType
    <3>2. CASE TableUnchanged
      BY <2>2, <3>2, UntouchedType DEF TableUnchanged
    <3> QED BY <2>1, <3>1, <3>2
  <2>9. TypeOK'
    BY <2>4, <2>7, <2>8 DEF TypeOK
  <2>10. WalkInv'
    BY <2>7, <2>8 DEF WalkInv, At
  <2> QED BY <2>9, <2>10
<1> QED BY <1>1, <1>2

\* A commit of r leaves the other requests what they were, but for their
\* history.
LEMMA CommitReq ==
  ASSUME TypeOK, NEW r \in Requests, Commit(r)
  PROVE  /\ req' \in [Requests -> Reqs] /\ req'[r] = Idle
         /\ \A p \in Requests \ {r} :
              /\ req'[p].pc = req[p].pc /\ req'[p].kind = req[p].kind
              /\ req'[p].slot = req[p].slot /\ req'[p].qty = req[p].qty
              /\ req'[p].left = req[p].left /\ req'[p].todo = req[p].todo
              /\ req'[p].outrun = req[p].outrun \cup (ReadBy(p) \cap Changed(r))
<1> DEFINE Z == Changed(r)
           f == [p \in Requests |->
                   IF p = r THEN Idle
                   ELSE [req[p] EXCEPT !.outrun = req[p].outrun \cup (ReadBy(p) \cap Z)]]
<1>0. req' = f
  BY DEF Commit
<1>1. \A p \in Requests :
        f[p] = IF p = r THEN Idle
               ELSE [req[p] EXCEPT !.outrun = req[p].outrun \cup (ReadBy(p) \cap Z)]
  OBVIOUS
<1>2. \A p \in Requests : ReadBy(p) \subseteq Slots
  BY DEF ReadBy
<1> HIDE DEF Z
<1>3. \A q \in Reqs, more \in SUBSET Slots :
        LET n == [q EXCEPT !.outrun = q.outrun \cup more] IN
        /\ n \in Reqs /\ n.pc = q.pc /\ n.kind = q.kind /\ n.slot = q.slot
        /\ n.qty = q.qty /\ n.left = q.left /\ n.todo = q.todo
        /\ n.outrun = q.outrun \cup more
  BY DEF Reqs
<1>4. \A p \in Requests : req[p] \in Reqs /\ (ReadBy(p) \cap Z) \in SUBSET Slots
  BY <1>2 DEF TypeOK
<1>5. \A p \in Requests \ {r} :
        /\ f[p] \in Reqs /\ f[p].pc = req[p].pc /\ f[p].kind = req[p].kind
        /\ f[p].slot = req[p].slot /\ f[p].qty = req[p].qty
        /\ f[p].left = req[p].left /\ f[p].todo = req[p].todo
        /\ f[p].outrun = req[p].outrun \cup (ReadBy(p) \cap Z)
  <2> SUFFICES ASSUME NEW p \in Requests \ {r}
               PROVE  /\ f[p] \in Reqs /\ f[p].pc = req[p].pc /\ f[p].kind = req[p].kind
                      /\ f[p].slot = req[p].slot /\ f[p].qty = req[p].qty
                      /\ f[p].left = req[p].left /\ f[p].todo = req[p].todo
                      /\ f[p].outrun = req[p].outrun \cup (ReadBy(p) \cap Z)
    OBVIOUS
  <2> DEFINE more == ReadBy(p) \cap Z
  <2>1. f[p] = [req[p] EXCEPT !.outrun = req[p].outrun \cup more]
    BY <1>1
  <2>2. req[p] \in Reqs /\ more \in SUBSET Slots
    BY <1>4
  <2> HIDE DEF f, more
  <2>3. /\ f[p] \in Reqs /\ f[p].pc = req[p].pc /\ f[p].kind = req[p].kind
        /\ f[p].slot = req[p].slot /\ f[p].qty = req[p].qty
        /\ f[p].left = req[p].left /\ f[p].todo = req[p].todo
        /\ f[p].outrun = req[p].outrun \cup more
    BY <1>3, <2>1, <2>2
  <2> QED BY <2>3 DEF more
<1>6. f \in [Requests -> Reqs] /\ f[r] = Idle
  BY <1>1, <1>5, IdleType
<1> HIDE DEF f
<1>7. \A p \in Requests : req'[p] = f[p]
  BY <1>0
<1>8. \A p \in Requests \ {r} :
        /\ req'[p].pc = req[p].pc /\ req'[p].kind = req[p].kind
        /\ req'[p].slot = req[p].slot /\ req'[p].qty = req[p].qty
        /\ req'[p].left = req[p].left /\ req'[p].todo = req[p].todo
        /\ req'[p].outrun = req[p].outrun \cup (ReadBy(p) \cap Z)
  BY <1>5, <1>7
<1>9. req' \in [Requests -> Reqs] /\ req'[r] = Idle
  BY <1>0, <1>6
<1> QED BY <1>8, <1>9 DEF Z

LEMMA CommitTables ==
  ASSUME TypeOK, NEW r \in Requests, Commit(r)
  PROVE  /\ rows' \in [Slots -> Row] /\ lock' \in [Slots -> Requests \cup {NoOwner}]
         /\ kardex' \in [Slots -> Int] /\ UNCHANGED <<work, jobs>>
         /\ booked' = booked + BookedChange(r) /\ booked' \in Int
         /\ snap' = [snap EXCEPT ![r] = NoSnap] /\ snap' \in [Requests -> [Slots -> Row]]
         /\ post' = [post EXCEPT ![r] = NoPost] /\ post' \in [Requests -> [Slots -> Int]]
         /\ \A s \in Slots :
              /\ rows'[s] = (IF lock[s] = r THEN work[s] ELSE rows[s])
              /\ lock'[s] = (IF lock[s] = r THEN NoOwner ELSE lock[s])
              /\ kardex'[s] = kardex[s] + post[r][s]
<1>1. BookedChange(r) \in Int
  BY ReqFields DEF BookedChange
<1>2. /\ rows' = [s \in Slots |-> IF lock[s] = r THEN work[s] ELSE rows[s]]
      /\ lock' = [s \in Slots |-> IF lock[s] = r THEN NoOwner ELSE lock[s]]
      /\ kardex' = [s \in Slots |-> kardex[s] + post[r][s]]
      /\ booked' = booked + BookedChange(r)
      /\ snap' = [snap EXCEPT ![r] = NoSnap]
      /\ post' = [post EXCEPT ![r] = NoPost]
      /\ UNCHANGED <<work, jobs>>
  BY DEF Commit
<1>3. NoPost \in [Slots -> Int]
  BY DEF NoPost
<1>4. post[r] \in [Slots -> Int]
  BY DEF TypeOK
<1> QED BY <1>1, <1>2, <1>3, <1>4, NoSnapType DEF TypeOK

LEMMA CommitType ==
  ASSUME TypeInv, NEW r \in Requests, Commit(r)
  PROVE  TypeInv'
<1> USE DEF TypeInv
<1>2. spoiled' \subseteq Slots
  BY DEF Commit, TypeOK, Reqs
<1>3. TypeOK'
  BY <1>2, CommitReq, CommitTables DEF TypeOK
<1>4. WalkInv'
  <2>1. ASSUME NEW p \in Requests, At(p, "walk", {"reserve"})'
        PROVE  /\ At(p, "walk", {"reserve"}) /\ snap'[p] = snap[p]
               /\ req'[p].left = req[p].left
    <3>1. p # r
      BY <2>1, CommitReq, IdleType DEF At
    <3>2. snap'[p] = snap[p]
      BY <3>1, CommitTables DEF TypeOK
    <3> QED BY <2>1, <3>1, <3>2, CommitReq DEF At
  <2> QED BY <2>1 DEF WalkInv
<1> QED BY <1>3, <1>4

LEMMA TypeStep == TypeInv /\ [Next]_vars => TypeInv'
<1> SUFFICES ASSUME TypeInv, [Next]_vars PROVE TypeInv'
  OBVIOUS
<1>1. CASE UNCHANGED vars
  BY <1>1 DEF TypeInv, TypeOK, WalkInv, At, vars
<1>2. CASE Next
  <2> PICK r \in Requests : Start(r) \/ Step(r) \/ Abort(r) \/ DeadlockVictim(r)
    BY <1>2 DEF Next
  <2>1. CASE Start(r)
    BY <2>1, StartType
  <2>2. CASE Step(r)
    BY <2>2, InflowType, WithdrawType, DispatchType, AdjustType, QcType,
       ReserveType, WalkType, CommitType DEF Step
  <2>3. CASE Abort(r) \/ DeadlockVictim(r)
    BY <2>3, RollbackType DEF Abort, DeadlockVictim
  <2> QED BY <2>1, <2>2, <2>3
<1> QED BY <1>1, <1>2

LEMMA TypeInit == Init => TypeInv
BY StockAssumption, NoRowType, NoSnapType, IdleType
DEF Init, TypeInv, TypeOK, WalkInv, At, NoPost, Row, QcStatus


\* Every variable always has its type, whatever operations run at the same
\* time: no request can make qty_on_hand or qty_reserved negative.
THEOREM TypeCorrect == Spec => []TypeOK
<1>1. TypeInv => TypeOK
  BY DEF TypeInv
<1> QED BY <1>1, TypeInit, TypeStep, PTL DEF Spec

(***************************************************************************)
(* Sums.  SumFunctionOnSet folds a function over a finite set by a         *)
(* function over its subsets that CHOOSE picks: it exists by induction on  *)
(* the cardinality, and what it yields is proved by induction on the       *)
(* subsets, each time by a least counterexample (WFMin).                   *)
(***************************************************************************)
Some(s) == CHOOSE x \in s : TRUE

LEMMA SomeIn == \A s : s # {} => Some(s) \in s
BY DEF Some

\* h adds up f over the subsets of S.
Adds(f, S, h) ==
  h = [s \in SUBSET S |-> IF s = {} THEN 0 ELSE f[Some(s)] + h[s \ {Some(s)}]]
Adder(f, S) == CHOOSE h : Adds(f, S, h)

LEMMA Induct ==
  ASSUME NEW T \in SUBSET Nat, 0 \in T, \A n \in T : n + 1 \in T
  PROVE  T = Nat
<1> DEFINE B == Nat \ T
           R == {p \in Nat \X Nat : p[1] < p[2]}
<1>1. IsWellFoundedOn(R, Nat)
  BY NatLessThanWellFounded DEF OpToRel
<1>2. SUFFICES ASSUME B # {} PROVE FALSE
  OBVIOUS
<1>3. PICK x \in B : \A y \in B : <<y, x>> \notin R
  <2> B \subseteq Nat
    OBVIOUS
  <2> HIDE DEF B, R
  <2> QED BY <1>1, <1>2, WFMin
<1>4. x # 0 /\ x - 1 \in Nat
  BY <1>3
<1>5. x - 1 \in B
  BY <1>3, <1>4
<1>6. <<x - 1, x>> \in R
  BY <1>3, <1>4
<1> QED BY <1>3, <1>5, <1>6

LEMMA AdderExists ==
  ASSUME NEW S, IsFiniteSet(S), NEW f
  PROVE  Adds(f, S, Adder(f, S))
<1> DEFINE D(n) == {s \in SUBSET S : Cardinality(s) <= n}
           E(h, s) == IF s = {} THEN 0 ELSE f[Some(s)] + h[s \ {Some(s)}]
           N == {n \in Nat : \E h : h = [s \in D(n) |-> E(h, s)]}
<1>1. 0 \in N
  <2>1. D(0) = {{}}
    BY FS_Subset, FS_EmptySet, FS_CardinalityType
  <2> DEFINE h == [s \in D(0) |-> 0]
  <2>2. h = [s \in D(0) |-> E(h, s)]
    BY <2>1
  <2> QED BY <2>2
<1>2. ASSUME NEW n \in N PROVE n + 1 \in N
  <2>1. PICK h : h = [s \in D(n) |-> E(h, s)]
    BY <1>2
  <2> DEFINE g == [s \in D(n + 1) |-> E(h, s)]
  <2>2. ASSUME NEW s \in D(n + 1), s # {}
        PROVE  h[s \ {Some(s)}] = g[s \ {Some(s)}]
    <3>1. Some(s) \in s
      BY <2>2, SomeIn
    <3>2. /\ IsFiniteSet(s) /\ Cardinality(s) \in Nat
          /\ Cardinality(s \ {Some(s)}) = Cardinality(s) - 1
      BY <3>1, FS_Subset, FS_RemoveElement, FS_CardinalityType
    <3>3. s \ {Some(s)} \in D(n) /\ s \ {Some(s)} \in D(n + 1)
      BY <3>2
    <3> QED BY <3>3, <2>1
  <2>3. g = [s \in D(n + 1) |-> E(g, s)]
    BY <2>2
  <2> HIDE DEF g
  <2>4. \E k : k = [s \in D(n + 1) |-> E(k, s)]
    <3> WITNESS g
    <3> QED BY <2>3
  <2>5. n + 1 \in Nat
    OBVIOUS
  <2> HIDE DEF D, E
  <2> QED BY <2>4, <2>5
<1>3. N = Nat
  <2>1. N \in SUBSET Nat
    OBVIOUS
  <2> HIDE DEF N
  <2> QED BY <1>1, <1>2, <2>1, Induct
<1>4. Cardinality(S) \in Nat /\ D(Cardinality(S)) = SUBSET S
  BY FS_Subset, FS_CardinalityType
<1>5. \E h : h = [s \in D(Cardinality(S)) |-> E(h, s)]
  BY <1>3, <1>4
<1>6. \E h : Adds(f, S, h)
  BY <1>4, <1>5 DEF Adds
<1> QED BY <1>6 DEF Adder

LEMMA SumIsAdded ==
  ASSUME NEW S, NEW f
  PROVE  SumFunctionOnSet(f, S) = Adder(f, S)[S]
BY DEF SumFunctionOnSet, FoldFunctionOnSet, MapThenFoldSet, Adder, Adds, Some

LEMMA AdderStep ==
  ASSUME NEW S, IsFiniteSet(S), NEW f
  PROVE  /\ Adder(f, S)[{}] = 0
         /\ \A s \in SUBSET S : s # {} =>
              Adder(f, S)[s] = f[Some(s)] + Adder(f, S)[s \ {Some(s)}]
<1> DEFINE h == Adder(f, S)
<1>1. h = [s \in SUBSET S |-> IF s = {} THEN 0 ELSE f[Some(s)] + h[s \ {Some(s)}]]
  BY AdderExists DEF Adds
<1> HIDE DEF h
<1>2. h[{}] = 0 /\ \A s \in SUBSET S : s # {} => h[s] = f[Some(s)] + h[s \ {Some(s)}]
  BY <1>1
<1> QED BY <1>2 DEF h

\* What holds of the empty set, and of a set if it holds of it without one
\* of its members, holds of every subset of S.
LEMMA SubsetInduct ==
  ASSUME NEW S, IsFiniteSet(S), NEW G, {} \in G,
         \A s \in SUBSET S : s # {} /\ s \ {Some(s)} \in G => s \in G
  PROVE  \A s \in SUBSET S : s \in G
<1> DEFINE B == {s \in SUBSET S : s \notin G}
           R == StrictSubsetOrdering(S)
<1>1. SUFFICES ASSUME B # {} PROVE FALSE
  OBVIOUS
<1>2. PICK s \in B : \A t \in B : <<t, s>> \notin R
  <2>1. IsWellFoundedOn(R, SUBSET S)
    BY FS_StrictSubsetOrderingWellFounded, FS_FiniteSubsetsOfFinite
  <2>2. B \subseteq SUBSET S
    OBVIOUS
  <2> HIDE DEF B, R
  <2> QED BY <1>1, <2>1, <2>2, WFMin
<1>3. s # {} /\ Some(s) \in s
  BY SomeIn
<1>4. s \ {Some(s)} \in B
  BY <1>3
<1>5. <<s \ {Some(s)}, s>> \in R
  BY <1>3 DEF StrictSubsetOrdering
<1> QED BY <1>2, <1>4, <1>5

\* The sum of a sum: of integers, it is an integer and adds up termwise.
LEMMA SumPlus ==
  ASSUME NEW S, IsFiniteSet(S), NEW f, NEW g, NEW h,
         \A x \in S : f[x] \in Int /\ g[x] \in Int /\ h[x] = f[x] + g[x]
  PROVE  /\ SumFunctionOnSet(f, S) \in Int /\ SumFunctionOnSet(g, S) \in Int
         /\ SumFunctionOnSet(h, S) = SumFunctionOnSet(f, S) + SumFunctionOnSet(g, S)
<1> DEFINE G == {s \in SUBSET S : /\ Adder(f, S)[s] \in Int /\ Adder(g, S)[s] \in Int
                                  /\ Adder(h, S)[s] = Adder(f, S)[s] + Adder(g, S)[s]}
<1>1. {} \in G
  BY AdderStep
<1>2. ASSUME NEW s \in SUBSET S, s # {}, s \ {Some(s)} \in G PROVE s \in G
  <2> DEFINE t == s \ {Some(s)}
  <2>1. Some(s) \in S
    BY <1>2, SomeIn
  <2>2. /\ Adder(f, S)[s] = f[Some(s)] + Adder(f, S)[t]
        /\ Adder(g, S)[s] = g[Some(s)] + Adder(g, S)[t]
        /\ Adder(h, S)[s] = h[Some(s)] + Adder(h, S)[t]
    <3>1. Adder(f, S)[s] = f[Some(s)] + Adder(f, S)[t]
      BY <1>2, AdderStep
    <3>2. Adder(g, S)[s] = g[Some(s)] + Adder(g, S)[t]
      BY <1>2, AdderStep
    <3>3. Adder(h, S)[s] = h[Some(s)] + Adder(h, S)[t]
      BY <1>2, AdderStep
    <3> QED BY <3>1, <3>2, <3>3
  <2>3. /\ Adder(f, S)[t] \in Int /\ Adder(g, S)[t] \in Int
        /\ Adder(h, S)[t] = Adder(f, S)[t] + Adder(g, S)[t]
    BY <1>2
  <2> HIDE DEF t
  <2>4. /\ Adder(f, S)[s] \in Int /\ Adder(g, S)[s] \in Int
        /\ Adder(h, S)[s] = Adder(f, S)[s] + Adder(g, S)[s]
    BY <2>1, <2>2, <2>3
  <2> QED BY <2>4
<1>3. S \in G
  <2> HIDE DEF G
  <2> QED BY <1>1, <1>2, SubsetInduct
<1> QED BY <1>3, SumIsAdded

\* A function that is zero but at y sums to its value there.
LEMMA SumSingle ==
  ASSUME NEW S, IsFiniteSet(S), NEW f, NEW y \in S, f[y] \in Int,
         \A x \in S \ {y} : f[x] = 0
  PROVE  SumFunctionOnSet(f, S) = f[y]
<1> DEFINE G == {s \in SUBSET S : Adder(f, S)[s] = IF y \in s THEN f[y] ELSE 0}
<1>1. {} \in G
  BY AdderStep
<1>2. ASSUME NEW s \in SUBSET S, s # {}, s \ {Some(s)} \in G PROVE s \in G
  <2>1. Some(s) \in s /\ Adder(f, S)[s] = f[Some(s)] + Adder(f, S)[s \ {Some(s)}]
    BY <1>2, AdderStep, SomeIn
  <2>2. Adder(f, S)[s \ {Some(s)}] = IF y \in s \ {Some(s)} THEN f[y] ELSE 0
    BY <1>2
  <2>3. CASE Some(s) = y
    <3>1. Adder(f, S)[s] = f[y] + 0 /\ y \in s
      BY <2>1, <2>2, <2>3
    <3> QED BY <3>1
  <2>4. CASE Some(s) # y
    <3>1. f[Some(s)] = 0
      BY <1>2, <2>1, <2>4
    <3>2. y \in s <=> y \in s \ {Some(s)}
      BY <2>4
    <3> QED BY <2>1, <2>2, <3>1, <3>2
  <2> QED BY <2>3, <2>4
<1>3. S \in G
  <2> HIDE DEF G
  <2> QED BY <1>1, <1>2, SubsetInduct
<1> QED BY <1>3, SumIsAdded

LEMMA SumZero ==
  ASSUME NEW S, IsFiniteSet(S), NEW f, \A x \in S : f[x] = 0
  PROVE  SumFunctionOnSet(f, S) = 0
<1>1. CASE S = {}
  BY <1>1, SumIsAdded, AdderStep
<1>2. CASE S # {}
  BY <1>2, SumSingle
<1> QED BY <1>1, <1>2

(***************************************************************************)
(* The ledger, whatever operations overlap.  What an open session knows    *)
(* and owes is stated per request and per row, and only for the rows it    *)
(* has not been outrun on: what it has read there is the committed row     *)
(* until it locks it, and what it has recorded is what it changed.         *)
(***************************************************************************)
GoodRow(row) == ~Exists(row) => row.onHand = 0 /\ row.reserved = 0

\* Unlocked rows have one version; a row that is not there holds nothing.
TablesInv ==
  /\ \A s \in Slots : lock[s] = NoOwner => work[s] = rows[s]
  /\ \A s \in Slots : GoodRow(rows[s]) /\ GoodRow(work[s])
  /\ \A r \in Requests, s \in Slots : GoodRow(snap[r][s])

\* Rows are locked from the first write on.
Unlocked(r) ==
  req[r].pc \notin {"take", "walk", "commit"} => \A s \in Slots : lock[s] # r

\* The movements recorded for a row are what the session changed there.
Owed(r) ==
  \A s \in Slots \ req[r].outrun :
    post[r][s] = IF lock[s] = r THEN work[s].onHand - rows[s].onHand ELSE 0

\* Before it locks a row, what a session has read of it is what is committed.
Snapped(r) ==
  /\ \/ req[r].pc \in {"idle", "read"}
     \/ req[r].kind \in FreshKinds /\ req[r].pc \notin {"walk", "commit"}
     => \A s \in Slots : ~Exists(snap[r][s])
  /\ req[r].kind \in ReadsAhead /\ req[r].pc # "commit" =>
       \A s \in Slots \ req[r].outrun :
         lock[s] # r /\ Exists(snap[r][s]) => snap[r][s] = rows[s]
  /\ req[r].pc \in {"idle", "read"} \/ req[r].kind \notin ReadsAhead
     => req[r].outrun = {}

\* What a session has worked out from the rows it has read.
Planned(r) ==
  LET s == req[r].slot IN
  /\ At(r, "write", Withdrawals) => snap[r][s].onHand >= req[r].qty
  /\ At(r, "take", {"dispatch"}) =>
       req[r].left >= 0 /\ \A t \in req[r].todo : Exists(snap[r][t]) /\ lock[t] # r
  /\ req[r].kind = "adjust" /\ req[r].pc \in {"list", "write", "insert"} =>
       s \in req[r].outrun \/ req[r].left = req[r].qty - rows[s].onHand
  /\ At(r, "write", {"adjust"}) => Exists(snap[r][s])
  /\ req[r].pc = "insert" => req[r].kind \in {"receive", "adjust_in", "return", "adjust"}

\* Rows an issue is about to take from, or has taken from.
Released(r) ==
  /\ At(r, "write", {"issue"}) /\ req[r].slot \notin req[r].outrun =>
       rows[req[r].slot].qc # "pending_qc"
  /\ At(r, "take", {"dispatch"}) =>
       \A s \in req[r].todo \ req[r].outrun : rows[s].qc # "pending_qc"
  /\ req[r].kind \in {"issue", "dispatch"} =>
       \A s \in Slots \ req[r].outrun : lock[s] = r => rows[s].qc # "pending_qc"

\* What a session has reserved and not committed, per row and in all.
Delta(r) == [s \in Slots |-> IF lock[s] = r THEN work[s].reserved - rows[s].reserved ELSE 0]
Taken(r) == SumFunctionOnSet(Delta(r), Slots)

Taking(r) ==
  /\ req[r].kind \notin {"reserve", "release"} =>
       \A s \in Slots \ req[r].outrun : Delta(r)[s] = 0
  /\ At(r, "walk", {"reserve"}) => Taken(r) = req[r].qty - req[r].left
  /\ At(r, "commit", {"reserve", "release"}) => Taken(r) >= BookedChange(r)
  /\ req[r].kind = "reserve" => \A s \in Slots : lock[s] = r => Available(work[s]) >= 0

Session(r) ==
  /\ Unlocked(r) /\ Owed(r) /\ Snapped(r) /\ Planned(r) /\ Released(r) /\ Taking(r)

LedgerInv ==
  /\ TypeInv /\ TablesInv
  /\ \A r \in Requests : Session(r)
  /\ KardexPartsOnlyWhenOutrun /\ ReservationsBacked

LEMMA SlotsFinite == IsFiniteSet(Slots)
BY StockAssumption, FS_AddElement DEF Slots

LEMMA DeltaType ==
  ASSUME TypeOK, NEW r \in Requests
  PROVE  \A s \in Slots : Delta(r)[s] \in Int
BY DEF Delta, TypeOK, Row

LEMMA TakenSame ==
  ASSUME NEW p \in Requests, \A s \in Slots : Delta(p)'[s] = Delta(p)[s]
  PROVE  Taken(p)' = Taken(p)
<1>1. Delta(p)' = Delta(p)
  BY DEF Delta
<1> QED BY <1>1 DEF Taken

\* A step that leaves a request, and the rows it has locked, alone.
LEMMA SessionFrame ==
  ASSUME TypeOK, NEW p \in Requests, Session(p), rows' = rows,
         req'[p] = req[p], snap'[p] = snap[p], post'[p] = post[p],
         \A s \in Slots : /\ lock'[s] = p <=> lock[s] = p
                          /\ lock[s] = p => work'[s] = work[s]
  PROVE  Session(p)'
<1>1. \A s \in Slots : Delta(p)'[s] = Delta(p)[s]
  BY DEF Delta
<1>2. Taken(p)' = Taken(p)
  BY <1>1, TakenSame
<1>3. Unlocked(p)' /\ Owed(p)'
  BY DEF Session, Unlocked, Owed
<1>4. Snapped(p)'
  BY DEF Session, Snapped, Exists
<1>5. Planned(p)'
  <2> USE DEF Session, Planned, At
  <2>1. At(p, "take", {"dispatch"})' =>
          req'[p].left >= 0 /\ \A t \in req'[p].todo : Exists(snap'[p][t]) /\ lock'[t] # p
    <3>1. req[p].todo \subseteq Slots
      BY ReqFields
    <3> QED BY <3>1 DEF Exists
  <2>2. At(p, "write", {"adjust"})' => Exists(snap'[p][req'[p].slot])
    BY DEF Exists
  <2> QED BY <2>1, <2>2 DEF Exists
<1>6. Released(p)'
  BY DEF Session, Released, At
<1>7. Taking(p)'
  <2>1. BookedChange(p)' = BookedChange(p)
    BY DEF BookedChange
  <2>2. \A s \in Slots : lock'[s] = p => work'[s] = work[s]
    OBVIOUS
  <2> QED BY <1>1, <1>2, <2>1, <2>2 DEF Session, Taking, At, Available
<1> QED BY <1>3, <1>4, <1>5, <1>6, <1>7 DEF Session

\* The whole invariant, from what a step of r, not a commit, does to r alone.
LEMMA LedgerStep ==
  ASSUME LedgerInv, TypeInv', NEW r \in Requests,
         UNCHANGED <<rows, kardex, booked, spoiled>>, TablesInv', Session(r)',
         \A p \in Requests \ {r} :
           /\ req'[p] = req[p] /\ snap'[p] = snap[p] /\ post'[p] = post[p]
           /\ \A s \in Slots : /\ lock'[s] = p <=> lock[s] = p
                               /\ lock[s] = p => work'[s] = work[s]
  PROVE  LedgerInv'
<1>1. \A p \in Requests : Session(p)'
  BY SessionFrame DEF LedgerInv, TypeInv
<1>2. KardexPartsOnlyWhenOutrun'
  BY DEF LedgerInv, KardexPartsOnlyWhenOutrun
<1>3. ReservationsBacked'
  BY DEF LedgerInv, ReservationsBacked, Reserved
<1> QED BY <1>1, <1>2, <1>3 DEF LedgerInv

\* A written row that is sound keeps the tables sound, and is nobody else's.
LEMMA WriteTables ==
  ASSUME TypeOK, TablesInv, NEW r \in Requests, NEW s \in Slots, NEW row \in Row,
         Write(r, s, row), ~LockedByOther(r, s), GoodRow(row), rows' = rows
  PROVE  /\ TablesInv'
         /\ \A p \in Requests \ {r} :
              /\ snap'[p] = snap[p]
              /\ \A t \in Slots : /\ lock'[t] = p <=> lock[t] = p
                                  /\ lock[t] = p => work'[t] = work[t]
         /\ \A t \in Slots : /\ lock'[t] = (IF t = s THEN r ELSE lock[t])
                             /\ work'[t] = (IF t = s THEN row ELSE work[t])
                             /\ snap'[r][t] = (IF t = s THEN row ELSE snap[r][t])
<1>1. r # NoOwner
  BY StockAssumption
<1>2. \A t \in Slots : /\ lock'[t] = (IF t = s THEN r ELSE lock[t])
                       /\ work'[t] = (IF t = s THEN row ELSE work[t])
                       /\ \A p \in Requests :
                            snap'[p][t] = (IF p = r /\ t = s THEN row ELSE snap[p][t])
  BY DEF Write, TypeOK
<1>3. TablesInv'
  BY <1>1, <1>2 DEF TablesInv, GoodRow, Exists
<1>4. \A p \in Requests \ {r} : snap'[p] = snap[p]
  BY DEF Write, TypeOK
<1>5. \A p \in Requests \ {r} : p # NoOwner
  BY StockAssumption
<1>6. lock[s] \in {r, NoOwner}
  BY DEF LockedByOther
<1> QED BY <1>2, <1>3, <1>4, <1>5, <1>6

\* The fields of a request that Goto keeps.
LEMMA GotoFields ==
  ASSUME TypeOK, NEW r \in Requests, NEW pc, Goto(r, pc)
  PROVE  /\ req'[r].pc = pc /\ req'[r].kind = req[r].kind /\ req'[r].slot = req[r].slot
         /\ req'[r].qty = req[r].qty /\ req'[r].left = req[r].left
         /\ req'[r].todo = req[r].todo /\ req'[r].outrun = req[r].outrun
         /\ \A p \in Requests \ {r} : req'[p] = req[p]
BY DEF TypeOK, Reqs, Goto

LEMMA RecordFields ==
  ASSUME TypeOK, NEW r \in Requests, NEW s \in Slots, NEW n \in Int, Record(r, s, n)
  PROVE  /\ \A t \in Slots : post'[r][t] = IF t = s THEN post[r][t] + n ELSE post[r][t]
         /\ \A p \in Requests \ {r} : post'[p] = post[p]
BY DEF Record, TypeOK

\* What is reserved in a row by the request that has just written it.
LEMMA DeltaWrite ==
  ASSUME TypeOK, NEW r \in Requests, NEW s \in Slots, NEW row \in Row, rows' = rows,
         \A t \in Slots : /\ lock'[t] = (IF t = s THEN r ELSE lock[t])
                          /\ work'[t] = (IF t = s THEN row ELSE work[t])
  PROVE  /\ \A t \in Slots \ {s} : Delta(r)'[t] = Delta(r)[t]
         /\ Delta(r)'[s] = row.reserved - rows[s].reserved
         /\ ~LockedByOther(r, s) /\ (\A t \in Slots : lock[t] = NoOwner => work[t] = rows[t])
              => Visible(r, s).reserved = rows[s].reserved + Delta(r)[s]
BY DEF Delta, Visible, LockedByOther, TypeOK, Row

\* A request that goes on to commit after its last write.
LEMMA WriteSession ==
  ASSUME LedgerInv, NEW r \in Requests, NEW s \in Slots, NEW row \in Row, NEW n \in Int,
         Write(r, s, row), ~LockedByOther(r, s), GoodRow(row), rows' = rows,
         Goto(r, "commit"), req[r].pc # "idle",
         \A t \in Slots : post'[r][t] = IF t = s THEN post[r][t] + n ELSE post[r][t],
         req[r].pc # "read" \/ req[r].kind \notin ReadsAhead,
         s \notin req[r].outrun => row.onHand = Visible(r, s).onHand + n,
         req[r].kind \in {"issue", "dispatch"} /\ s \notin req[r].outrun =>
           rows[s].qc # "pending_qc",
         req[r].kind \notin {"reserve", "release"} /\ s \notin req[r].outrun =>
           row.reserved = Visible(r, s).reserved,
         req[r].kind = "reserve" => Available(row) >= 0,
         req[r].kind \in {"reserve", "release"} =>
           /\ \A t \in Slots : lock[t] # r
           /\ row.reserved - rows[s].reserved >= BookedChange(r)
  PROVE  Session(r)'
<1> USE DEF LedgerInv, TypeInv
<1>0. Session(r) /\ TypeOK /\ TablesInv
  OBVIOUS
<1>1. /\ req'[r].pc = "commit" /\ req'[r].kind = req[r].kind /\ req'[r].slot = req[r].slot
      /\ req'[r].qty = req[r].qty /\ req'[r].outrun = req[r].outrun
  BY GotoFields
<1>2. \A t \in Slots : /\ lock'[t] = (IF t = s THEN r ELSE lock[t])
                       /\ work'[t] = (IF t = s THEN row ELSE work[t])
  BY WriteTables
<1>3. Visible(r, s) = IF lock[s] = r THEN work[s] ELSE rows[s]
  BY DEF Visible
<1>4. Owed(r)'
  <2> SUFFICES ASSUME NEW t \in Slots \ req[r].outrun
               PROVE  post'[r][t] = IF lock'[t] = r THEN work'[t].onHand - rows[t].onHand ELSE 0
    BY <1>1 DEF Owed
  <2>1. post[r][t] = IF lock[t] = r THEN work[t].onHand - rows[t].onHand ELSE 0
    BY DEF Session, Owed
  <2>2. CASE t = s
    BY <1>2, <1>3, <2>1, <2>2 DEF TypeOK, Row
  <2>3. CASE t # s
    BY <1>2, <2>1, <2>3
  <2> QED BY <2>2, <2>3
<1>5. Unlocked(r)' /\ Snapped(r)' /\ Planned(r)'
  BY <1>1, <1>0 DEF Unlocked, Snapped, Planned, At, Session
<1>6. Released(r)'
  BY <1>1, <1>2, <1>0 DEF Released, At, Session
<1>7. Taking(r)'
  <2>0. /\ \A t \in Slots \ {s} : Delta(r)'[t] = Delta(r)[t]
        /\ Delta(r)'[s] = row.reserved - rows[s].reserved
    BY <1>2, DeltaWrite
  <2>1. req[r].kind \notin {"reserve", "release"} =>
          \A t \in Slots \ req[r].outrun : Delta(r)'[t] = 0
    <3> SUFFICES ASSUME req[r].kind \notin {"reserve", "release"},
                        NEW t \in Slots \ req[r].outrun
                 PROVE  Delta(r)'[t] = 0
      OBVIOUS
    <3>1. Delta(r)[t] = 0
      BY DEF Session, Taking
    <3>2. CASE t = s
      <4>1. Visible(r, s).reserved = rows[s].reserved + Delta(r)[s]
        BY <1>2, DeltaWrite DEF TablesInv
      <4> QED BY <2>0, <3>1, <3>2, <4>1 DEF TypeOK, Row
    <3> QED BY <2>0, <3>1, <3>2
  <2>2. req[r].kind \in {"reserve", "release"} => Taken(r)' >= BookedChange(r)
    <3> SUFFICES ASSUME req[r].kind \in {"reserve", "release"}
                 PROVE  Taken(r)' >= BookedChange(r)
      OBVIOUS
    <3>1. \A t \in Slots \ {s} : Delta(r)'[t] = 0
      BY <2>0 DEF Delta
    <3>2. Delta(r)'[s] \in Int
      BY <2>0 DEF TypeOK, Row
    <3>3. Taken(r)' = Delta(r)'[s]
      BY <3>1, <3>2, SumSingle, SlotsFinite DEF Taken
    <3> QED BY <2>0, <3>3
  <2>3. BookedChange(r)' = BookedChange(r)
    BY <1>1 DEF BookedChange
  <2>4. req[r].kind = "reserve" => \A t \in Slots : lock'[t] = r => Available(work'[t]) >= 0
    BY <1>2, <1>0 DEF Session, Taking, Available
  <2> QED BY <1>1, <2>1, <2>2, <2>3, <2>4 DEF Taking, At, Available
<1> QED BY <1>4, <1>5, <1>6, <1>7 DEF Session

\* A request that goes on to commit without a write of its own.
LEMMA RestSession ==
  ASSUME LedgerInv, NEW r \in Requests, NEW s \in Slots, NEW n \in Int,
         UNCHANGED <<lock, work, snap, rows>>, Goto(r, "commit"),
         req[r].pc \notin {"idle", "read"},
         \A t \in Slots : post'[r][t] = IF t = s THEN post[r][t] + n ELSE post[r][t],
         s \notin req[r].outrun => n = 0,
         req[r].kind \in {"reserve", "release"} => Taken(r) >= BookedChange(r)
  PROVE  Session(r)'
<1> USE DEF LedgerInv, TypeInv
<1>0. Session(r) /\ TypeOK
  OBVIOUS
<1>1. /\ req'[r].pc = "commit" /\ req'[r].kind = req[r].kind /\ req'[r].slot = req[r].slot
      /\ req'[r].qty = req[r].qty /\ req'[r].outrun = req[r].outrun
  BY GotoFields
<1>2. \A t \in Slots \ req[r].outrun : post'[r][t] = post[r][t]
  BY DEF TypeOK
<1>3. Owed(r)' /\ Unlocked(r)'
  BY <1>0, <1>1, <1>2 DEF Owed, Unlocked, Session
<1>4. Snapped(r)' /\ Planned(r)' /\ Released(r)'
  BY <1>0, <1>1 DEF Snapped, Planned, Released, At, Session
<1>5. \A t \in Slots : Delta(r)'[t] = Delta(r)[t]
  BY DEF Delta
<1>6. Taken(r)' = Taken(r)
  BY <1>5, TakenSame
<1>7. BookedChange(r)' = BookedChange(r)
  BY <1>1 DEF BookedChange
<1>8. Taking(r)'
  BY <1>0, <1>1, <1>5, <1>6, <1>7 DEF Taking, At, Available, Session
<1> QED BY <1>3, <1>4, <1>8 DEF Session

\* A request that reads, and writes nothing yet.
LEMMA PlanSession ==
  ASSUME LedgerInv, NEW r \in Requests,
         UNCHANGED <<lock, work, post, rows>>,
         req'[r].kind = req[r].kind, req'[r].outrun = req[r].outrun,
         req'[r].pc # "commit", req[r].pc \notin {"take", "walk", "commit"},
         Snapped(r)', Planned(r)',
         At(r, "write", {"issue"})' /\ req'[r].slot \notin req[r].outrun =>
           rows[req'[r].slot].qc # "pending_qc",
         At(r, "take", {"dispatch"})' =>
           \A s \in req'[r].todo \ req[r].outrun : rows[s].qc # "pending_qc",
         At(r, "walk", {"reserve"})' => req'[r].qty = req'[r].left /\ req'[r].qty \in Int
  PROVE  Session(r)'
<1> USE DEF LedgerInv, TypeInv
<1>0. Session(r) /\ TypeOK
  OBVIOUS
<1>1. \A s \in Slots : lock[s] # r
  BY <1>0 DEF Session, Unlocked
<1>2. Owed(r)' /\ Unlocked(r)'
  BY <1>0, <1>1 DEF Owed, Unlocked, Session
<1>3. Released(r)'
  BY <1>1 DEF Released, At
<1>4. \A s \in Slots : Delta(r)'[s] = 0
  BY <1>1 DEF Delta
<1>5. Taken(r)' = 0
  BY <1>4, SumZero, SlotsFinite DEF Taken
<1>6. Taking(r)'
  BY <1>1, <1>4, <1>5 DEF Taking, At
<1> QED BY <1>2, <1>3, <1>6 DEF Session

\* The sessions' view of a row they have not locked yet.
LEMMA SeenFresh ==
  ASSUME LedgerInv, NEW r \in Requests, NEW s \in Slots, lock[s] # r
  PROVE  /\ Visible(r, s) = rows[s]
         /\ req[r].kind \in FreshKinds /\ req[r].pc \notin {"walk", "commit"}
              => Seen(r, s) = rows[s]
         /\ req[r].kind \in ReadsAhead /\ req[r].pc # "commit" /\ s \notin req[r].outrun
              => Seen(r, s) = rows[s]
         /\ Exists(Visible(r, s)) => Exists(Seen(r, s))
BY DEF LedgerInv, Session, Snapped, Visible, Seen

\* upsert_level moves the row it sees by delta, unless it was outrun.
LEMMA UpsertRow ==
  ASSUME LedgerInv, NEW r \in Requests, NEW s \in Slots, NEW delta \in Int,
         lock[s] # r, Exists(Visible(r, s)),
         NEW row, row = QcAfterInflow(req[r].kind, UpsertedRow(r, s, delta))
  PROVE  /\ row \in Row /\ GoodRow(row)
         /\ Seen(r, s) = rows[s] /\ rows[s].onHand + delta >= 0 =>
              /\ row.onHand = Visible(r, s).onHand + delta
              /\ row.reserved = Visible(r, s).reserved
<1> DEFINE u == UpsertedRow(r, s, delta)
<1>0. /\ TypeOK /\ Visible(r, s) = rows[s] /\ rows[s] \in Row /\ Seen(r, s) \in Row
      /\ Exists(rows[s])
  BY SeenFresh, VisibleType DEF LedgerInv, TypeInv, TypeOK
<1>1. u \in Row /\ row \in Row
  BY <1>0, UpsertedRowType
<1>2. GoodRow(u)
  <2>1. CASE u = NoRow
    BY <2>1 DEF GoodRow, NoRow
  <2>2. CASE u # NoRow
    <3>1. \E n : u = Assigned(Seen(r, s), rows[s], n)
      BY <1>0, <2>2 DEF UpsertedRow
    <3> QED BY <1>0, <3>1 DEF Assigned, Exists, GoodRow, Row
  <2> QED BY <2>1, <2>2
<1>3. row.onHand = u.onHand /\ row.reserved = u.reserved /\ GoodRow(row)
  BY <1>1, <1>2 DEF QcAfterInflow, GoodRow, Exists, Row
<1>4. ASSUME Seen(r, s) = rows[s], rows[s].onHand + delta >= 0
      PROVE  u.onHand = rows[s].onHand + delta /\ u.reserved = rows[s].reserved
  <2>1. AtLeastZero(rows[s].onHand + delta) = rows[s].onHand + delta
    BY <1>0, <1>4 DEF AtLeastZero, Row
  <2>2. CASE rows[s].onHand + delta = 0 /\ rows[s].reserved = 0
    BY <1>4, <2>1, <2>2 DEF UpsertedRow, NoRow
  <2>3. CASE ~(rows[s].onHand + delta = 0 /\ rows[s].reserved = 0)
    <3>1. u = Assigned(rows[s], rows[s], rows[s].onHand + delta)
      BY <1>0, <1>4, <2>1, <2>3 DEF UpsertedRow
    <3> QED BY <1>0, <3>1 DEF Assigned, Row
  <2> QED BY <2>2, <2>3
<1> HIDE DEF u
<1> QED BY <1>0, <1>1, <1>3, <1>4

\* What a row written by a request owes to the rest of the session: the new
\* level is the old one moved by what is recorded, reserved units stay (or, in
\* a reservation, fit), and an issue takes from no row in quarantine.
Sound(r, s, row, n) ==
  /\ s \notin req[r].outrun => row.onHand = Visible(r, s).onHand + n
  /\ req[r].kind \in {"issue", "dispatch"} /\ s \notin req[r].outrun =>
       rows[s].qc # "pending_qc"
  /\ req[r].kind \notin {"reserve", "release"} /\ s \notin req[r].outrun =>
       row.reserved = Visible(r, s).reserved
  /\ req[r].kind = "reserve" => Available(row) >= 0
  /\ req[r].kind \in {"reserve", "release"} =>
       /\ \A t \in Slots : lock[t] # r
       /\ row.reserved - rows[s].reserved >= BookedChange(r)

Moved(r, s, n) == Record(r, s, n) \/ (n = 0 /\ UNCHANGED post)
Began(r) == req[r].pc # "idle" /\ (req[r].pc # "read" \/ req[r].kind \notin ReadsAhead)

LEMMA MovedFields ==
  ASSUME TypeOK, NEW r \in Requests, NEW s \in Slots, NEW n \in Int, Moved(r, s, n)
  PROVE  /\ \A t \in Slots : post'[r][t] = IF t = s THEN post[r][t] + n ELSE post[r][t]
         /\ \A p \in Requests \ {r} : post'[p] = post[p]
<1>1. CASE Record(r, s, n)
  BY <1>1, RecordFields
<1>2. CASE n = 0 /\ UNCHANGED post
  <2>1. post[r] \in [Slots -> Int]
    BY DEF TypeOK
  <2>2. \A t \in Slots : post[r][t] \in Int /\ post'[r][t] = post[r][t]
    BY <1>2, <2>1
  <2> QED BY <1>2, <2>2
<1> QED BY <1>1, <1>2 DEF Moved

\* From one written row to the invariant.
LEMMA WriteLedger ==
  ASSUME LedgerInv, TypeInv', NEW r \in Requests, NEW s \in Slots, NEW row, row \in Row,
         NEW n, n \in Int,
         Write(r, s, row), ~LockedByOther(r, s), GoodRow(row), UNCHANGED Durable,
         Goto(r, "commit"), Began(r), Moved(r, s, n), Sound(r, s, row, n)
  PROVE  LedgerInv'
<1>1. UNCHANGED <<rows, kardex, booked, spoiled>>
  BY DEF Durable
<1>2. /\ \A t \in Slots : post'[r][t] = IF t = s THEN post[r][t] + n ELSE post[r][t]
      /\ \A p \in Requests \ {r} : post'[p] = post[p]
  BY MovedFields DEF LedgerInv, TypeInv
<1>3. Session(r)'
  BY <1>1, <1>2, WriteSession DEF Sound, Began
<1>4. /\ TablesInv'
      /\ \A p \in Requests \ {r} :
           /\ snap'[p] = snap[p]
           /\ \A t \in Slots : /\ lock'[t] = p <=> lock[t] = p
                               /\ lock[t] = p => work'[t] = work[t]
  BY <1>1, WriteTables DEF LedgerInv, TypeInv
<1>5. \A p \in Requests \ {r} : req'[p] = req[p]
  BY GotoFields DEF LedgerInv, TypeInv
<1> QED BY <1>1, <1>2, <1>3, <1>4, <1>5, LedgerStep

\* From a step that writes no row to the invariant.
LEMMA QuietLedger ==
  ASSUME LedgerInv, TypeInv', NEW r \in Requests,
         UNCHANGED <<lock, work, rows, kardex, booked, spoiled>>, Session(r)',
         \A p \in Requests \ {r} :
           req'[p] = req[p] /\ snap'[p] = snap[p] /\ post'[p] = post[p],
         \A s \in Slots : GoodRow(snap'[r][s])
  PROVE  LedgerInv'
<1>1. TablesInv'
  BY DEF LedgerInv, TablesInv, GoodRow, Exists
<1> QED BY <1>1, LedgerStep

-----------------------------------------------------------------------------
LEMMA GoodRows ==
  ASSUME LedgerInv, NEW r \in Requests, NEW s \in Slots
  PROVE  /\ GoodRow(Visible(r, s)) /\ GoodRow(Seen(r, s))
         /\ GoodRow(snap[r][s]) /\ GoodRow(rows[s])
BY DEF LedgerInv, TablesInv, Visible, Seen

\* A request at a pc before its first write has locked nothing.
LEMMA NothingLocked ==
  ASSUME LedgerInv, NEW r \in Requests, req[r].pc \notin {"take", "walk", "commit"}
  PROVE  \A s \in Slots : /\ lock[s] # r /\ Visible(r, s) = rows[s]
                          /\ Delta(r)[s] = 0
BY DEF LedgerInv, Session, Unlocked, Visible, Delta

LEMMA RollbackLedger ==
  ASSUME LedgerInv, TypeInv', NEW r \in Requests, Rollback(r)
  PROVE  LedgerInv'
<1> USE DEF LedgerInv, TypeInv
<1>1. r # NoOwner
  BY StockAssumption
<1>2. \A t \in Slots :
        /\ lock'[t] = (IF lock[t] = r THEN NoOwner ELSE lock[t])
        /\ work'[t] = (IF lock[t] = r THEN rows[t] ELSE work[t])
        /\ post'[r][t] = 0 /\ snap'[r][t] = NoRow
  BY DEF Rollback, TypeOK, NoPost, NoSnap
<1>3. /\ UNCHANGED <<rows, kardex, booked, spoiled>> /\ req'[r] = Idle
      /\ \A p \in Requests \ {r} :
           req'[p] = req[p] /\ snap'[p] = snap[p] /\ post'[p] = post[p]
  BY DEF Rollback, TypeOK, Durable
<1>4. ~Exists(NoRow) /\ GoodRow(NoRow)
  BY DEF NoRow, Exists, GoodRow
<1>5. TablesInv'
  <2>1. \A p \in Requests, s \in Slots : GoodRow(snap'[p][s])
    BY <1>2, <1>3, <1>4 DEF TablesInv
  <2>2. \A s \in Slots : /\ lock'[s] = NoOwner => work'[s] = rows'[s]
                         /\ GoodRow(rows'[s]) /\ GoodRow(work'[s])
    BY <1>2, <1>3 DEF TablesInv
  <2> QED BY <2>1, <2>2 DEF TablesInv, GoodRow, Exists
<1>6. \A t \in Slots : lock'[t] # r
  BY <1>1, <1>2
<1>7. Session(r)'
  <2>1. /\ req'[r].pc = "idle" /\ req'[r].kind = "receive" /\ req'[r].outrun = {}
    BY <1>3, IdleType
  <2>2. Unlocked(r)' /\ Owed(r)'
    BY <1>2, <1>6 DEF Unlocked, Owed
  <2>3. Snapped(r)'
    BY <1>2, <1>4, <2>1 DEF Snapped, ReadsAhead, Withdrawals, Exists
  <2>4. Planned(r)' /\ Released(r)'
    BY <2>1 DEF Planned, Released, At
  <2>5. \A t \in Slots : Delta(r)'[t] = 0
    BY <1>6 DEF Delta
  <2>6. Taking(r)'
    BY <2>1, <2>5 DEF Taking, At
  <2> QED BY <2>2, <2>3, <2>4, <2>6 DEF Session
<1>8. \A p \in Requests \ {r}, s \in Slots :
        (lock'[s] = p <=> lock[s] = p) /\ (lock[s] = p => work'[s] = work[s])
  <2>1. \A p \in Requests \ {r} : p # NoOwner
    BY StockAssumption
  <2> QED BY <1>2, <2>1
<1> QED BY <1>3, <1>5, <1>7, <1>8, LedgerStep

\* A request that goes on without touching the table.
LEMMA GotoLedger ==
  ASSUME LedgerInv, TypeInv', NEW r \in Requests, NEW pc,
         Goto(r, pc), UNCHANGED <<lock, work, post>>, UNCHANGED Durable,
         pc \notin {"take", "walk", "commit"},
         req[r].pc \notin {"take", "walk", "commit"},
         \A p \in Requests \ {r} : snap'[p] = snap[p],
         \A s \in Slots : GoodRow(snap'[r][s]),
         Snapped(r)', Planned(r)',
         pc = "write" /\ req[r].kind = "issue" /\ req[r].slot \notin req[r].outrun =>
           rows[req[r].slot].qc # "pending_qc"
  PROVE  LedgerInv'
<1> USE DEF LedgerInv, TypeInv
<1>1. /\ req'[r].pc = pc /\ req'[r].kind = req[r].kind /\ req'[r].slot = req[r].slot
      /\ req'[r].outrun = req[r].outrun /\ \A p \in Requests \ {r} : req'[p] = req[p]
  BY GotoFields
<1>2. UNCHANGED <<rows, kardex, booked, spoiled>>
  BY DEF Durable
<1>3. Session(r)'
  BY <1>1, <1>2, PlanSession DEF At
<1> QED BY <1>1, <1>2, <1>3, QuietLedger

\* A request whose last statement changed no row.
LEMMA RestLedger ==
  ASSUME LedgerInv, TypeInv', NEW r \in Requests, NEW s \in Slots, NEW n \in Int,
         UNCHANGED <<lock, work, snap>>, UNCHANGED Durable, Goto(r, "commit"),
         Moved(r, s, n),
         req[r].pc \notin {"idle", "read"},
         s \notin req[r].outrun => n = 0,
         req[r].kind \in {"reserve", "release"} => Taken(r) >= BookedChange(r)
  PROVE  LedgerInv'
<1> USE DEF LedgerInv, TypeInv
<1>1. UNCHANGED <<rows, kardex, booked, spoiled>>
  BY DEF Durable
<1>2. /\ \A t \in Slots : post'[r][t] = IF t = s THEN post[r][t] + n ELSE post[r][t]
      /\ \A p \in Requests \ {r} : post'[p] = post[p]
  BY MovedFields
<1>3. Session(r)'
  BY <1>1, <1>2, RestSession
<1>4. \A p \in Requests \ {r} : req'[p] = req[p]
  BY GotoFields
<1>5. \A t \in Slots : GoodRow(snap'[r][t])
  BY DEF TablesInv
<1> QED BY <1>1, <1>2, <1>3, <1>4, <1>5, QuietLedger

LEMMA InflowLedger ==
  ASSUME LedgerInv, TypeInv', NEW r \in Requests,
         ReturnRead(r) \/ Inflow(r) \/ InsertLevel(r)
  PROVE  LedgerInv'
<1> DEFINE s == req[r].slot
           q == req[r].qty
<1>0. /\ TypeOK /\ TablesInv /\ Session(r) /\ s \in Slots /\ q \in Nat /\ q \in Int
      /\ req[r].kind \in AllKinds /\ req[r].pc \in {"read", "run", "insert"}
  BY ReqFields DEF LedgerInv, TypeInv, ReturnRead, Inflow, InsertLevel, At
<1>1. \A t \in Slots : lock[t] # r /\ Visible(r, t) = rows[t]
  BY <1>0, NothingLocked
<1>2. \A t \in Slots : GoodRow(snap[r][t])
  BY GoodRows
<1>3. CASE ReturnRead(r)
  <2>1. /\ snap' = [snap EXCEPT ![r][s] = Visible(r, s)] /\ Goto(r, "run")
        /\ UNCHANGED <<work, lock, post>> /\ UNCHANGED Durable
        /\ req[r].kind = "return" /\ req[r].pc = "read"
    BY <1>3 DEF ReturnRead, At
  <2>2. /\ \A p \in Requests \ {r} : snap'[p] = snap[p]
        /\ \A t \in Slots : snap'[r][t] = IF t = s THEN rows[s] ELSE snap[r][t]
    BY <1>0, <1>1, <2>1 DEF TypeOK
  <2>3. /\ req'[r].pc = "run" /\ req'[r].kind = "return" /\ req'[r].outrun = req[r].outrun
    BY <1>0, <2>1, GotoFields
  <2>4. Snapped(r)'
    <3>1. \A t \in Slots : ~Exists(snap[r][t])
      BY <1>0, <2>1 DEF Session, Snapped
    <3>2. rows' = rows
      BY <2>1 DEF Durable
    <3> QED BY <2>2, <2>3, <3>1, <3>2 DEF Snapped, FreshKinds, ReadsAhead, Exists
  <2>5. Planned(r)'
    BY <2>3 DEF Planned, At, Withdrawals
  <2>6. \A t \in Slots : GoodRow(snap'[r][t])
    BY <1>2, <2>2, GoodRows
  <2> QED BY <1>0, <2>1, <2>2, <2>4, <2>5, <2>6, GotoLedger
<1>4. CASE Inflow(r)
  <2>0. /\ req[r].pc = "run" /\ req[r].kind \in {"receive", "adjust_in", "return"}
        /\ UNCHANGED Durable
    BY <1>4 DEF Inflow, At
  <2>1. CASE UpsertLevel(r, s, q) /\ Record(r, s, q) /\ Goto(r, "commit")
    <3> DEFINE row == QcAfterInflow(req[r].kind, UpsertedRow(r, s, q))
    <3>1. Write(r, s, row) /\ Exists(Visible(r, s)) /\ ~LockedByOther(r, s)
      BY <2>1 DEF UpsertLevel, Lockable
    <3>2. s \notin req[r].outrun => Seen(r, s) = rows[s]
      BY <1>0, <1>1, <2>0, SeenFresh DEF FreshKinds, ReadsAhead
    <3>3. rows[s].onHand + q >= 0
      BY <1>0 DEF TypeOK, Row
    <3> HIDE DEF row
    <3>4. /\ row \in Row /\ GoodRow(row)
          /\ s \notin req[r].outrun => /\ row.onHand = Visible(r, s).onHand + q
                                       /\ row.reserved = Visible(r, s).reserved
      BY <1>0, <1>1, <3>1, <3>2, <3>3, UpsertRow DEF row
    <3>5. Began(r) /\ Moved(r, s, q) /\ Sound(r, s, row, q)
      BY <2>0, <2>1, <3>4 DEF Began, Moved, Sound
    <3> HIDE DEF s, q
    <3> QED BY <1>0, <2>0, <2>1, <3>1, <3>4, <3>5, WriteLedger
  <2>2. CASE /\ ~Exists(Visible(r, s)) /\ Goto(r, "insert")
             /\ TableUnchanged /\ UNCHANGED post
    <3>1. /\ req'[r].pc = "insert" /\ req'[r].kind = req[r].kind
          /\ req'[r].outrun = req[r].outrun
      BY <1>0, <2>2, GotoFields
    <3>2. UNCHANGED <<lock, work, snap>> /\ rows' = rows
      BY <2>0, <2>2 DEF TableUnchanged, Durable
    <3>3. Snapped(r)'
      BY <1>0, <2>0, <3>1, <3>2 DEF Session, Snapped, FreshKinds, ReadsAhead
    <3>4. Planned(r)'
      BY <2>0, <3>1 DEF Planned, At
    <3>5. \A t \in Slots : GoodRow(snap'[r][t])
      BY <1>2, <3>2
    <3> QED BY <2>0, <2>2, <3>2, <3>3, <3>4, <3>5, GotoLedger
  <2> QED BY <1>4, <2>1, <2>2 DEF Inflow
<1>5. CASE InsertLevel(r)
  <2> DEFINE row == QcAfterInflow(req[r].kind, [onHand |-> q, reserved |-> 0, qc |-> "approved"])
             moved == IF req[r].kind = "adjust" THEN req[r].left ELSE q
  <2>1. CASE Rollback(r)
    BY <2>1, RollbackLedger
  <2>2. CASE ~Rollback(r)
    <3>1. /\ Write(r, s, row) /\ Record(r, s, moved) /\ Goto(r, "commit")
          /\ UNCHANGED Durable /\ ~LockedByOther(r, s) /\ ~Exists(rows[s])
          /\ req[r].pc = "insert"
      BY <1>5, <2>2 DEF InsertLevel
    <3>2. row \in Row /\ row.onHand = q /\ row.reserved = 0 /\ GoodRow(row)
      BY <1>0 DEF QcAfterInflow, Row, QcStatus, GoodRow, Exists
    <3>3. rows[s].onHand = 0 /\ rows[s].reserved = 0 /\ rows[s].qc = "none"
      BY <1>0, <3>1, GoodRows DEF GoodRow, Exists
    <3>4. moved \in Int /\ (s \notin req[r].outrun => q = 0 + moved)
      <4>1. req[r].left \in Int
        BY <1>0, ReqFields
      <4>2. req[r].kind = "adjust" /\ s \notin req[r].outrun => req[r].left = q - 0
        BY <1>0, <3>1, <3>3 DEF Session, Planned
      <4> QED BY <1>0, <4>1, <4>2
    <3>5. req[r].kind \in {"receive", "adjust_in", "return", "adjust"}
      BY <1>0, <3>1 DEF Session, Planned
    <3> HIDE DEF row, moved
    <3>6. s \notin req[r].outrun => /\ row.onHand = Visible(r, s).onHand + moved
                                    /\ row.reserved = Visible(r, s).reserved
      BY <1>0, <1>1, <3>2, <3>3, <3>4
    <3>7. Began(r) /\ Moved(r, s, moved) /\ Sound(r, s, row, moved)
      BY <3>1, <3>5, <3>6 DEF Began, Moved, Sound
    <3> HIDE DEF s, q
    <3> QED BY <1>0, <3>1, <3>2, <3>4, <3>6, <3>7, WriteLedger
  <2> QED BY <2>1, <2>2
<1> QED BY <1>3, <1>4, <1>5


\* The first read of a session: the row it reads is the committed one.
LEMMA FirstRead ==
  ASSUME LedgerInv, NEW r \in Requests, NEW s \in Slots, req[r].pc = "read",
         snap' = [snap EXCEPT ![r][s] = Visible(r, s)], rows' = rows,
         req'[r].kind = req[r].kind, req'[r].outrun = req[r].outrun,
         req'[r].pc \notin {"idle", "read"}, req[r].kind \notin FreshKinds
  PROVE  /\ Snapped(r)' /\ snap'[r][s] = rows[s] /\ Visible(r, s) = rows[s]
         /\ req[r].outrun = {}
         /\ \A t \in Slots : GoodRow(snap'[r][t])
         /\ \A p \in Requests \ {r} : snap'[p] = snap[p]
<1> USE DEF LedgerInv, TypeInv
<1>1. Visible(r, s) = rows[s]
  BY NothingLocked
<1>2. /\ \A p \in Requests \ {r} : snap'[p] = snap[p]
      /\ \A t \in Slots : snap'[r][t] = IF t = s THEN rows[s] ELSE snap[r][t]
  BY <1>1 DEF TypeOK
<1>3. req[r].outrun = {} /\ \A t \in Slots : ~Exists(snap[r][t])
  BY DEF Session, Snapped
<1>4. Snapped(r)'
  BY <1>2, <1>3 DEF Snapped, Exists
<1>5. \A t \in Slots : GoodRow(snap'[r][t])
  BY <1>2, GoodRows
<1> QED BY <1>1, <1>2, <1>3, <1>4, <1>5

\* A row that has been read and not locked is still what is committed, so it
\* is there if it was there.
LEMMA StillThere ==
  ASSUME LedgerInv, NEW r \in Requests, NEW s \in Slots, req[r].kind \in ReadsAhead,
         req[r].pc # "commit", lock[s] # r, s \notin req[r].outrun
  PROVE  /\ Visible(r, s) = rows[s] /\ Seen(r, s) = rows[s]
         /\ Exists(snap[r][s]) => snap[r][s] = rows[s]
         /\ snap[r][s].onHand <= rows[s].onHand
<1>1. Visible(r, s) = rows[s] /\ Seen(r, s) = rows[s]
  BY SeenFresh
<1>2. Exists(snap[r][s]) => snap[r][s] = rows[s]
  BY DEF LedgerInv, Session, Snapped
<1>3. rows[s] \in Row /\ snap[r][s] \in Row
  BY DEF LedgerInv, TypeInv, TypeOK
<1>4. ~Exists(snap[r][s]) => snap[r][s].onHand = 0
  BY GoodRows DEF GoodRow
<1> QED BY <1>1, <1>2, <1>3, <1>4 DEF Row

LEMMA WithdrawLedger ==
  ASSUME LedgerInv, TypeInv', NEW r \in Requests, WithdrawRead(r) \/ WithdrawWrite(r)
  PROVE  LedgerInv'
<1> DEFINE s == req[r].slot
           q == req[r].qty
<1>0. /\ TypeOK /\ TablesInv /\ Session(r) /\ s \in Slots /\ q \in Nat /\ -q \in Int
      /\ req[r].pc \in {"read", "write"} /\ req[r].kind \in Withdrawals
  BY ReqFields DEF LedgerInv, TypeInv, WithdrawRead, WithdrawWrite, At
<1>1. CASE WithdrawRead(r)
  <2>1. CASE Rollback(r)
    BY <2>1, RollbackLedger
  <2>2. CASE ~Rollback(r)
    <3>1. /\ snap' = [snap EXCEPT ![r][s] = Visible(r, s)] /\ Goto(r, "write")
          /\ UNCHANGED <<work, lock, post>> /\ UNCHANGED Durable /\ req[r].pc = "read"
          /\ ~(Visible(r, s).onHand < q)
          /\ req[r].kind = "issue" => Visible(r, s).qc # "pending_qc"
      BY <1>1, <2>2 DEF WithdrawRead, At
    <3>2. /\ req'[r].pc = "write" /\ req'[r].kind = req[r].kind /\ req'[r].slot = s
          /\ req'[r].qty = q /\ req'[r].outrun = req[r].outrun
      BY <1>0, <3>1, GotoFields
    <3>3. rows' = rows
      BY <3>1 DEF Durable
    <3>4. /\ Snapped(r)' /\ snap'[r][s] = rows[s] /\ Visible(r, s) = rows[s]
          /\ \A t \in Slots : GoodRow(snap'[r][t])
          /\ \A p \in Requests \ {r} : snap'[p] = snap[p]
      BY <1>0, <3>1, <3>2, <3>3, FirstRead DEF FreshKinds, Withdrawals
    <3>5. Planned(r)'
      <4>1. rows[s].onHand >= q
        BY <1>0, <3>1, <3>4 DEF TypeOK, Row
      <4> QED BY <1>0, <3>2, <3>4, <4>1 DEF Planned, At, Withdrawals
    <3> HIDE DEF q
    <3> QED BY <1>0, <3>1, <3>4, <3>5, GotoLedger
  <2> QED BY <2>1, <2>2
<1>2. CASE WithdrawWrite(r)
  <2>0. /\ Record(r, s, -q) /\ Goto(r, "commit") /\ UNCHANGED Durable /\ req[r].pc = "write"
        /\ Moved(r, s, -q) /\ Began(r)
    BY <1>2 DEF WithdrawWrite, At, Moved, Began
  <2>1. lock[s] # r
    BY <1>0, <2>0, NothingLocked
  <2>2. snap[r][s].onHand >= q
    BY <1>0, <2>0 DEF Session, Planned, At
  <2>3. s \notin req[r].outrun =>
          /\ Visible(r, s) = rows[s] /\ Seen(r, s) = rows[s]
          /\ Exists(snap[r][s]) => snap[r][s] = rows[s]
          /\ rows[s].onHand + (-q) >= 0
    <3>1. rows[s] \in Row /\ snap[r][s] \in Row
      BY <1>0 DEF TypeOK
    <3> QED BY <1>0, <2>0, <2>1, <2>2, <3>1, StillThere DEF ReadsAhead, Row
  <2>4. CASE UpsertLevel(r, s, -q)
    <3> DEFINE row == QcAfterInflow(req[r].kind, UpsertedRow(r, s, -q))
    <3>1. Write(r, s, row) /\ Exists(Visible(r, s)) /\ ~LockedByOther(r, s)
      BY <2>4 DEF UpsertLevel, Lockable
    <3> HIDE DEF row
    <3>2. /\ row \in Row /\ GoodRow(row)
          /\ s \notin req[r].outrun => /\ row.onHand = Visible(r, s).onHand + (-q)
                                       /\ row.reserved = Visible(r, s).reserved
      BY <1>0, <2>1, <2>3, <3>1, UpsertRow DEF row
    <3>3. Sound(r, s, row, -q)
      <4>1. req[r].kind = "issue" /\ s \notin req[r].outrun => rows[s].qc # "pending_qc"
        BY <1>0, <2>0 DEF Session, Released, At
      <4> QED BY <1>0, <3>2, <4>1 DEF Sound, Withdrawals
    <3> HIDE DEF s, q
    <3> QED BY <1>0, <2>0, <3>1, <3>2, <3>3, WriteLedger
  <2>5. CASE UpsertNothing(r, s, -q)
    <3>1. UNCHANGED <<lock, work, snap>> /\ ~Exists(Visible(r, s))
      BY <2>5 DEF UpsertNothing, TableUnchanged
    <3>2. s \notin req[r].outrun => -q = 0
      <4>1. s \notin req[r].outrun => rows[s].onHand = 0
        BY <2>3, <3>1, GoodRows, <1>0 DEF GoodRow
      <4> QED BY <1>0, <2>3, <4>1
    <3>3. req[r].kind \notin {"reserve", "release"} /\ req[r].pc \notin {"idle", "read"}
      BY <1>0, <2>0 DEF Withdrawals
    <3> HIDE DEF s, q
    <3> QED BY <1>0, <2>0, <3>1, <3>2, <3>3, RestLedger
  <2> QED BY <1>2, <2>4, <2>5 DEF WithdrawWrite
<1> QED BY <1>1, <1>2

LEMMA QcLedger ==
  ASSUME LedgerInv, TypeInv', NEW r \in Requests, QcRead(r) \/ QcWrite(r)
  PROVE  LedgerInv'
<1> DEFINE s == req[r].slot
<1>0. /\ TypeOK /\ TablesInv /\ Session(r) /\ s \in Slots
      /\ req[r].pc \in {"read", "write"} /\ req[r].kind \in QcKinds
  BY ReqFields DEF LedgerInv, TypeInv, QcRead, QcWrite, At
<1>1. CASE Rollback(r)
  BY <1>1, RollbackLedger
<1>2. CASE QcRead(r) /\ ~Rollback(r)
  <2>1. /\ snap' = [snap EXCEPT ![r][s] = Visible(r, s)] /\ Goto(r, "write")
        /\ UNCHANGED <<work, lock, post>> /\ UNCHANGED Durable /\ req[r].pc = "read"
    BY <1>2 DEF QcRead, At
  <2>2. /\ req'[r].pc = "write" /\ req'[r].kind = req[r].kind
        /\ req'[r].outrun = req[r].outrun
    BY <1>0, <2>1, GotoFields
  <2>3. rows' = rows
    BY <2>1 DEF Durable
  <2>4. /\ Snapped(r)' /\ \A t \in Slots : GoodRow(snap'[r][t])
        /\ \A p \in Requests \ {r} : snap'[p] = snap[p]
    BY <1>0, <2>1, <2>2, <2>3, FirstRead DEF FreshKinds, QcKinds
  <2>5. Planned(r)' /\ req[r].kind # "issue"
    BY <1>0, <2>2 DEF Planned, At, Withdrawals, QcKinds
  <2> QED BY <1>0, <2>1, <2>4, <2>5, GotoLedger
<1>3. CASE QcWrite(r) /\ ~Rollback(r)
  <2> DEFINE verdict == IF req[r].kind = "qc_approve" THEN "approved" ELSE "rejected"
             V == Visible(r, s)
             row == IF snap[r][s].qc = verdict THEN V ELSE [V EXCEPT !.qc = verdict]
  <2>1. /\ Write(r, s, row) /\ Exists(V) /\ ~LockedByOther(r, s) /\ Goto(r, "commit")
        /\ UNCHANGED post /\ UNCHANGED Durable /\ req[r].pc = "write"
    BY <1>3 DEF QcWrite, Lockable, At
  <2>2. V \in Row /\ verdict \in QcStatus /\ verdict # "none"
    BY <1>0, VisibleType DEF QcStatus
  <2> HIDE DEF V, verdict
  <2>3. /\ row \in Row /\ row.onHand = V.onHand /\ row.reserved = V.reserved /\ GoodRow(row)
    BY <2>1, <2>2 DEF Row, Exists, GoodRow
  <2>4. V.onHand + 0 = V.onHand
    BY <2>2 DEF Row
  <2> HIDE DEF row
  <2>5. Began(r) /\ Moved(r, s, 0) /\ Sound(r, s, row, 0)
    BY <1>0, <2>1, <2>3, <2>4 DEF Began, Moved, Sound, V, QcKinds
  <2> HIDE DEF s
  <2> QED BY <1>0, <2>1, <2>3, <2>5, WriteLedger
<1> QED BY <1>1, <1>2, <1>3

LEMMA AdjustLedger ==
  ASSUME LedgerInv, TypeInv', NEW r \in Requests, AdjustRead(r) \/ SetQtyRead(r) \/ SetQty(r)
  PROVE  LedgerInv'
<1> DEFINE s == req[r].slot
           q == req[r].qty
           left == req[r].left
<1>0. /\ TypeOK /\ TablesInv /\ Session(r) /\ s \in Slots /\ q \in Nat /\ left \in Int
      /\ req[r].pc \in {"read", "list", "write"} /\ req[r].kind = "adjust"
  BY ReqFields DEF LedgerInv, TypeInv, AdjustRead, SetQtyRead, SetQty, At
<1>1. /\ lock[s] # r /\ Visible(r, s) = rows[s] /\ rows[s] \in Row
      /\ \A t \in Slots : lock[t] # r
  BY <1>0, NothingLocked DEF TypeOK
<1>2. s \notin req[r].outrun =>
        /\ Seen(r, s) = rows[s]
        /\ Exists(snap[r][s]) => snap[r][s] = rows[s]
  BY <1>0, <1>1, StillThere DEF ReadsAhead
<1>3. CASE AdjustRead(r)
  <2>1. /\ snap' = [snap EXCEPT ![r][s] = Visible(r, s)]
        /\ req' = [req EXCEPT ![r].pc = "list", ![r].left = q - Visible(r, s).onHand]
        /\ UNCHANGED <<work, lock, post>> /\ UNCHANGED Durable /\ req[r].pc = "read"
    BY <1>3 DEF AdjustRead, At
  <2>2. /\ req'[r].pc = "list" /\ req'[r].kind = "adjust" /\ req'[r].slot = s
        /\ req'[r].qty = q /\ req'[r].left = q - Visible(r, s).onHand
        /\ req'[r].outrun = req[r].outrun
        /\ \A p \in Requests \ {r} : req'[p] = req[p]
    BY <1>0, <2>1 DEF TypeOK, Reqs
  <2>3. UNCHANGED <<rows, kardex, booked, spoiled>>
    BY <2>1 DEF Durable
  <2>4. /\ Snapped(r)' /\ \A t \in Slots : GoodRow(snap'[r][t])
        /\ \A p \in Requests \ {r} : snap'[p] = snap[p]
    BY <1>0, <2>1, <2>2, <2>3, FirstRead DEF FreshKinds
  <2>5. Planned(r)'
    BY <1>1, <2>2, <2>3 DEF Planned, At, Withdrawals
  <2>6. Session(r)'
    BY <1>0, <2>1, <2>2, <2>3, <2>4, <2>5, PlanSession DEF At
  <2>7. \A p \in Requests \ {r} : post'[p] = post[p]
    BY <2>1
  <2> QED BY <2>1, <2>2, <2>3, <2>4, <2>6, <2>7, QuietLedger
<1>4. CASE SetQtyRead(r)
  <2>0. req[r].pc = "list" /\ UNCHANGED Durable /\ rows' = rows
    BY <1>4 DEF SetQtyRead, At, Durable
  <2>1. CASE /\ Exists(Visible(r, s)) /\ snap' = [snap EXCEPT ![r][s] = Seen(r, s)]
             /\ Goto(r, "write") /\ UNCHANGED <<work, lock, post, Durable>>
    <3>1. /\ req'[r].pc = "write" /\ req'[r].kind = "adjust" /\ req'[r].slot = s
          /\ req'[r].qty = q /\ req'[r].left = left /\ req'[r].outrun = req[r].outrun
      BY <1>0, <2>1, GotoFields
    <3>2. /\ \A p \in Requests \ {r} : snap'[p] = snap[p]
          /\ \A t \in Slots : snap'[r][t] = IF t = s THEN Seen(r, s) ELSE snap[r][t]
      BY <1>0, <2>1 DEF TypeOK
    <3>3. Exists(Seen(r, s))
      BY <1>0, <1>1, <2>1, SeenFresh
    <3>4. Snapped(r)'
      <4>1. \A t \in Slots \ req[r].outrun :
              lock[t] # r /\ Exists(snap[r][t]) => snap[r][t] = rows[t]
        BY <1>0, <2>0 DEF Session, Snapped, ReadsAhead
      <4>2. ASSUME NEW t \in Slots \ req[r].outrun, Exists(snap'[r][t])
            PROVE  snap'[r][t] = rows'[t]
        <5>1. CASE t = s
          BY <1>0, <1>2, <2>0, <3>2, <4>2, <5>1
        <5>2. CASE t # s
          BY <1>0, <1>1, <2>0, <3>2, <4>1, <4>2, <5>2
        <5> QED BY <5>1, <5>2
      <4> QED BY <3>1, <4>2 DEF Snapped, FreshKinds, ReadsAhead, Exists
    <3>5. Planned(r)'
      BY <1>0, <2>0, <3>1, <3>2, <3>3 DEF Session, Planned, At, Withdrawals, Exists
    <3>6. \A t \in Slots : GoodRow(snap'[r][t])
      BY <1>0, <3>2, GoodRows
    <3> QED BY <1>0, <2>0, <2>1, <3>2, <3>4, <3>5, <3>6, GotoLedger
  <2>2. CASE /\ ~Exists(Visible(r, s)) /\ q > 0 /\ Goto(r, "insert")
             /\ TableUnchanged /\ UNCHANGED <<post, Durable>>
    <3>1. /\ req'[r].pc = "insert" /\ req'[r].kind = "adjust" /\ req'[r].slot = s
          /\ req'[r].qty = q /\ req'[r].left = left /\ req'[r].outrun = req[r].outrun
      BY <1>0, <2>2, GotoFields
    <3>2. UNCHANGED <<lock, work, snap, post>>
      BY <2>2 DEF TableUnchanged
    <3>3. Snapped(r)'
      BY <1>0, <2>0, <3>1, <3>2 DEF Session, Snapped, FreshKinds, Exists
    <3>4. Planned(r)'
      BY <1>0, <2>0, <3>1, <3>2 DEF Session, Planned, At
    <3>5. \A t \in Slots : GoodRow(snap'[r][t])
      BY <3>2, GoodRows
    <3>6. \A p \in Requests \ {r} : snap'[p] = snap[p]
      BY <3>2
    <3> QED BY <1>0, <2>0, <2>2, <3>2, <3>3, <3>4, <3>5, <3>6, GotoLedger
  <2>3. CASE /\ ~Exists(Visible(r, s)) /\ q = 0 /\ Record(r, s, left)
             /\ Goto(r, "commit") /\ TableUnchanged
    <3>1. s \notin req[r].outrun => left = 0
      <4>1. rows[s].onHand = 0
        BY <1>0, <1>1, <2>3, GoodRows DEF GoodRow
      <4>2. s \notin req[r].outrun => left = q - rows[s].onHand
        BY <1>0, <2>0 DEF Session, Planned
      <4> QED BY <2>3, <4>1, <4>2
    <3>2. UNCHANGED <<lock, work, snap>> /\ Moved(r, s, left)
      BY <2>3 DEF TableUnchanged, Moved
    <3> HIDE DEF s, left
    <3> QED BY <1>0, <2>0, <2>3, <3>1, <3>2, RestLedger
  <2> QED BY <1>4, <2>1, <2>2, <2>3 DEF SetQtyRead
<1>5. CASE SetQty(r)
  <2> DEFINE seen == snap[r][s]
             emptied == q = 0 /\ seen.reserved = 0
             row == IF emptied THEN NoRow ELSE Assigned(seen, Visible(r, s), q)
  <2>1. CASE Rollback(r)
    BY <2>1, RollbackLedger
  <2>2. CASE ~Rollback(r)
    <3>1. /\ Record(r, s, left) /\ Goto(r, "commit") /\ UNCHANGED Durable
          /\ Moved(r, s, left) /\ Began(r) /\ req[r].pc = "write"
          /\ \/ Exists(Visible(r, s)) /\ Lockable(r, s) /\ Write(r, s, row)
             \/ ~Exists(Visible(r, s)) /\ TableUnchanged
      BY <1>5, <2>2 DEF SetQty, At, Moved, Began
    <3>2. /\ seen \in Row /\ Exists(seen)
          /\ s \notin req[r].outrun => seen = rows[s] /\ left = q - rows[s].onHand
      BY <1>0, <1>2, <3>1 DEF Session, Planned, At, TypeOK
    <3>3. CASE Exists(Visible(r, s)) /\ Lockable(r, s) /\ Write(r, s, row)
      <4>1. row \in Row /\ GoodRow(row)
        BY <1>0, <1>1, <3>3, NoRowType DEF GoodRow, Exists, Assigned, Row, NoRow
      <4>2. s \notin req[r].outrun => /\ row.onHand = Visible(r, s).onHand + left
                                      /\ row.reserved = Visible(r, s).reserved
        <5> SUFFICES ASSUME s \notin req[r].outrun
                     PROVE  /\ row.onHand = rows[s].onHand + left
                            /\ row.reserved = rows[s].reserved
          BY <1>1
        <5>1. seen = rows[s] /\ left = q - rows[s].onHand
          BY <3>2
        <5>2. rows[s].onHand + left = q
          BY <1>0, <1>1, <5>1 DEF Row
        <5>3. CASE emptied
          BY <5>1, <5>2, <5>3 DEF NoRow
        <5>4. CASE ~emptied
          BY <1>1, <5>1, <5>2, <5>4 DEF Assigned, Row
        <5> QED BY <5>3, <5>4
      <4> HIDE DEF row
      <4>3. Sound(r, s, row, left) /\ ~LockedByOther(r, s)
        BY <1>0, <3>3, <4>2 DEF Sound, Lockable
      <4> HIDE DEF s, left
      <4> QED BY <1>0, <3>1, <3>3, <4>1, <4>3, WriteLedger
    <3>4. CASE ~Exists(Visible(r, s)) /\ TableUnchanged
      <4>1. s \in req[r].outrun
        BY <1>1, <3>2, <3>4
      <4>2. UNCHANGED <<lock, work, snap>>
        BY <3>4 DEF TableUnchanged
      <4> HIDE DEF s, left
      <4> QED BY <1>0, <3>1, <4>1, <4>2, RestLedger
    <3> QED BY <3>1, <3>3, <3>4
  <2> QED BY <2>1, <2>2
<1> QED BY <1>3, <1>4, <1>5

LEMMA DispatchListLedger ==
  ASSUME LedgerInv, TypeInv', NEW r \in Requests, DispatchList(r)
  PROVE  LedgerInv'
<1> DEFINE offered == Dispatchable(r)
           listed(s) == IF s \in offered THEN Seen(r, s) ELSE snap[r][s]
<1>0. /\ TypeOK /\ Session(r) /\ req[r].pc = "list" /\ req[r].kind = "dispatch"
      /\ req[r].qty \in Nat
  BY ReqFields DEF LedgerInv, TypeInv, DispatchList, At
<1>1. CASE Rollback(r)
  BY <1>1, RollbackLedger
<1>2. CASE ~Rollback(r)
  <2>1. PICK order \in DispatchOrders :
          /\ snap' = [snap EXCEPT ![r] = [s \in Slots |-> listed(s)]]
          /\ req' = [req EXCEPT ![r].pc = "take", ![r].left = req[r].qty,
                       ![r].todo = offered, ![r].order = order]
          /\ UNCHANGED <<work, lock, post>> /\ UNCHANGED Durable
    BY <1>2 DEF DispatchList
  <2>2. /\ req'[r].pc = "take" /\ req'[r].left = req[r].qty /\ req'[r].todo = offered
        /\ req'[r].kind = "dispatch" /\ req'[r].outrun = req[r].outrun
        /\ \A p \in Requests \ {r} : req'[p] = req[p]
    BY <1>0, <2>1 DEF TypeOK, Reqs
  <2>3. /\ \A p \in Requests \ {r} : snap'[p] = snap[p]
        /\ \A s \in Slots : snap'[r][s] = listed(s)
    BY <1>0, <2>1 DEF TypeOK
  <2>4. \A s \in Slots : lock[s] # r /\ Visible(r, s) = rows[s]
    BY <1>0, NothingLocked
  <2>5. \A s \in offered : /\ s \in Slots /\ rows[s].qc = "approved"
                           /\ Exists(Seen(r, s)) /\ snap'[r][s] = Seen(r, s)
    <3> TAKE s \in offered
    <3>1. s \in Slots /\ Visible(r, s).qc = "approved"
      BY DEF Dispatchable
    <3>2. Exists(Visible(r, s))
      BY <3>1 DEF Exists
    <3> QED BY <2>3, <2>4, <3>1, <3>2, SeenFresh
  <2>6. UNCHANGED <<rows, kardex, booked, spoiled>>
    BY <2>1 DEF Durable
  <2>7. Snapped(r)'
    <3>1. ASSUME NEW s \in Slots \ req[r].outrun, Exists(snap'[r][s])
          PROVE  snap'[r][s] = rows[s]
      <4>1. Seen(r, s) = rows[s]
        BY <1>0, <2>4, SeenFresh DEF ReadsAhead
      <4>2. Exists(snap[r][s]) => snap[r][s] = rows[s]
        BY <1>0, <2>4 DEF Session, Snapped, ReadsAhead
      <4> QED BY <2>3, <3>1, <4>1, <4>2
    <3> QED BY <2>2, <2>6, <3>1 DEF Snapped, FreshKinds, ReadsAhead, Exists
  <2>8. Planned(r)'
    <3>1. \A t \in offered : Exists(snap'[r][t]) /\ lock'[t] # r
      BY <2>1, <2>4, <2>5
    <3>2. req[r].qty >= 0
      BY <1>0
    <3> QED BY <2>2, <3>1, <3>2 DEF Planned, At, Exists
  <2>9. Session(r)'
    BY <1>0, <2>1, <2>2, <2>5, <2>6, <2>7, <2>8, PlanSession DEF At
  <2>10. \A s \in Slots : GoodRow(snap'[r][s])
    BY <2>3, GoodRows
  <2> QED BY <2>1, <2>2, <2>3, <2>6, <2>9, <2>10, QuietLedger
<1> QED BY <1>1, <1>2

LEMMA DispatchTakeLedger ==
  ASSUME LedgerInv, TypeInv', NEW r \in Requests, DispatchTake(r)
  PROVE  LedgerInv'
<1>0. /\ TypeOK /\ TablesInv /\ Session(r) /\ req[r].pc = "take"
      /\ req[r].kind = "dispatch" /\ req[r].left \in Int /\ req[r].left > 0
      /\ UNCHANGED <<rows, kardex, booked, spoiled>>
  BY ReqFields DEF LedgerInv, TypeInv, DispatchTake, At, Durable
<1>1. PICK s \in Slots :
        /\ First(r, s)
        /\ LET deduct == Lesser(Seen(r, s).onHand, req[r].left) IN
             /\ UpsertLevel(r, s, -deduct) \/ UpsertNothing(r, s, -deduct)
             /\ Record(r, s, -deduct)
             /\ req' = [req EXCEPT ![r].todo = @ \ {s}, ![r].left = @ - deduct]
  BY DEF DispatchTake
<1> DEFINE deduct == Lesser(Seen(r, s).onHand, req[r].left)
           row == QcAfterInflow(req[r].kind, UpsertedRow(r, s, -deduct))
<1>2. /\ UpsertLevel(r, s, -deduct) \/ UpsertNothing(r, s, -deduct)
      /\ Record(r, s, -deduct)
      /\ req' = [req EXCEPT ![r].todo = @ \ {s}, ![r].left = @ - deduct]
  BY <1>1
<1>3. /\ deduct \in Nat /\ -deduct \in Int /\ deduct <= req[r].left
      /\ deduct <= Seen(r, s).onHand /\ Seen(r, s) \in Row
  BY <1>0, VisibleType DEF Lesser, Row
<1> HIDE DEF deduct
<1>4. /\ req'[r].pc = "take" /\ req'[r].left = req[r].left - deduct
      /\ req'[r].todo = req[r].todo \ {s} /\ req'[r].kind = "dispatch"
      /\ req'[r].slot = req[r].slot /\ req'[r].outrun = req[r].outrun
      /\ \A p \in Requests \ {r} : req'[p] = req[p]
  BY <1>0, <1>2 DEF TypeOK, Reqs
<1>5. /\ \A t \in Slots : post'[r][t] = IF t = s THEN post[r][t] + (-deduct) ELSE post[r][t]
      /\ \A p \in Requests \ {r} : post'[p] = post[p]
  BY <1>0, <1>2, <1>3, RecordFields
<1>6. /\ s \in req[r].todo /\ Exists(snap[r][s]) /\ lock[s] # r
      /\ \A t \in req[r].todo : Exists(snap[r][t]) /\ lock[t] # r
  BY <1>0, <1>1 DEF First, Session, Planned, At
<1>7. s \notin req[r].outrun =>
        /\ Visible(r, s) = rows[s] /\ Seen(r, s) = rows[s] /\ Exists(rows[s])
        /\ rows[s].onHand + (-deduct) >= 0
  BY <1>0, <1>3, <1>6, StillThere DEF ReadsAhead, Row
<1>8. req[r].todo \subseteq Slots
  BY <1>0, ReqFields
<1>9. CASE UpsertLevel(r, s, -deduct)
  <2>1. Write(r, s, row) /\ Exists(Visible(r, s)) /\ ~LockedByOther(r, s)
    BY <1>9 DEF UpsertLevel, Lockable
  <2> HIDE DEF row
  <2>2. /\ row \in Row /\ GoodRow(row)
        /\ s \notin req[r].outrun => /\ row.onHand = Visible(r, s).onHand + (-deduct)
                                     /\ row.reserved = Visible(r, s).reserved
    BY <1>3, <1>6, <1>7, <2>1, UpsertRow DEF row
  <2>3. /\ TablesInv'
        /\ \A p \in Requests \ {r} :
             /\ snap'[p] = snap[p]
             /\ \A t \in Slots : /\ lock'[t] = p <=> lock[t] = p
                                 /\ lock[t] = p => work'[t] = work[t]
        /\ \A t \in Slots : /\ lock'[t] = (IF t = s THEN r ELSE lock[t])
                            /\ work'[t] = (IF t = s THEN row ELSE work[t])
                            /\ snap'[r][t] = (IF t = s THEN row ELSE snap[r][t])
    BY <1>0, <2>1, <2>2, WriteTables
  <2>4. Unlocked(r)'
    BY <1>4 DEF Unlocked
  <2>5. Owed(r)'
    <3> SUFFICES ASSUME NEW t \in Slots \ req[r].outrun
                 PROVE  post'[r][t] = IF lock'[t] = r THEN work'[t].onHand - rows[t].onHand ELSE 0
      BY <1>0, <1>4 DEF Owed
    <3>1. post[r][t] = IF lock[t] = r THEN work[t].onHand - rows[t].onHand ELSE 0
      BY <1>0 DEF Session, Owed
    <3>2. CASE t = s
      BY <1>0, <1>3, <1>5, <1>6, <1>7, <2>2, <2>3, <3>1, <3>2 DEF TypeOK, Row
    <3>3. CASE t # s
      BY <1>5, <2>3, <3>1, <3>3
    <3> QED BY <3>2, <3>3
  <2>6. Snapped(r)'
    <3>1. \A t \in Slots \ req[r].outrun :
            lock'[t] # r /\ Exists(snap[r][t]) => snap'[r][t] = rows'[t]
      BY <1>0, <2>3 DEF Session, Snapped, ReadsAhead
    <3>2. \A t \in Slots : lock'[t] # r => snap'[r][t] = snap[r][t]
      BY <2>3
    <3> QED BY <1>4, <3>1, <3>2 DEF Snapped, FreshKinds, ReadsAhead, Exists
  <2>7. Planned(r)'
    <3>1. \A t \in req'[r].todo : Exists(snap'[r][t]) /\ lock'[t] # r
      BY <1>4, <1>6, <1>8, <2>3
    <3>2. req'[r].left >= 0
      BY <1>0, <1>3, <1>4
    <3> QED BY <1>4, <3>1, <3>2 DEF Planned, At, Exists
  <2>8. Released(r)'
    <3>1. /\ \A t \in req[r].todo \ req[r].outrun : rows[t].qc # "pending_qc"
          /\ \A t \in Slots \ req[r].outrun : lock[t] = r => rows[t].qc # "pending_qc"
      BY <1>0 DEF Session, Released, At
    <3> QED BY <1>0, <1>4, <1>6, <2>3, <3>1 DEF Released, At
  <2>9. Taking(r)'
    <3>1. \A t \in Slots \ req[r].outrun : Delta(r)[t] = 0
      BY <1>0 DEF Session, Taking
    <3>2. /\ \A t \in Slots \ {s} : Delta(r)'[t] = Delta(r)[t]
          /\ Delta(r)'[s] = row.reserved - rows[s].reserved
      BY <1>0, <2>2, <2>3, DeltaWrite
    <3>3. s \notin req[r].outrun => Delta(r)'[s] = 0
      BY <1>0, <1>7, <2>2, <3>2 DEF TypeOK, Row
    <3> QED BY <1>4, <3>1, <3>2, <3>3 DEF Taking, At
  <2>10. Session(r)'
    BY <2>4, <2>5, <2>6, <2>7, <2>8, <2>9 DEF Session
  <2> QED BY <1>0, <1>4, <1>5, <2>3, <2>10, LedgerStep
<1>10. CASE UpsertNothing(r, s, -deduct)
  <2>1. UNCHANGED <<lock, work, snap>> /\ s \in req[r].outrun
    BY <1>7, <1>10 DEF UpsertNothing, TableUnchanged
  <2>2. Unlocked(r)' /\ Owed(r)'
    BY <1>0, <1>4, <1>5, <2>1 DEF Unlocked, Owed, Session
  <2>3. Snapped(r)'
    BY <1>0, <1>4, <2>1 DEF Session, Snapped, FreshKinds, ReadsAhead
  <2>4. Planned(r)'
    <3>1. \A t \in req'[r].todo : Exists(snap'[r][t]) /\ lock'[t] # r
      BY <1>4, <1>6, <2>1
    <3>2. req'[r].left >= 0
      BY <1>0, <1>3, <1>4
    <3> QED BY <1>4, <3>1, <3>2 DEF Planned, At, Exists
  <2>5. Released(r)'
    BY <1>0, <1>4, <2>1 DEF Session, Released, At
  <2>6. \A t \in Slots : Delta(r)'[t] = Delta(r)[t]
    BY <1>0, <2>1 DEF Delta
  <2>7. Taking(r)'
    BY <1>0, <1>4, <2>6 DEF Session, Taking, At
  <2>8. Session(r)'
    BY <2>2, <2>3, <2>4, <2>5, <2>7 DEF Session
  <2>9. \A t \in Slots : GoodRow(snap'[r][t])
    BY <2>1, GoodRows
  <2> QED BY <1>0, <1>4, <1>5, <2>1, <2>8, <2>9, QuietLedger
<1> QED BY <1>2, <1>9, <1>10

LEMMA DispatchLedger ==
  ASSUME LedgerInv, TypeInv', NEW r \in Requests,
         DispatchRead(r) \/ DispatchList(r) \/ DispatchTake(r) \/ DispatchEnd(r)
  PROVE  LedgerInv'
<1>0. TypeOK /\ Session(r) /\ NoBatch \in Slots
  BY DEF LedgerInv, TypeInv, Slots
<1>1. CASE DispatchRead(r)
  <2>1. CASE Rollback(r)
    BY <2>1, RollbackLedger
  <2>2. CASE ~Rollback(r)
    <3>1. /\ snap' = [snap EXCEPT ![r][NoBatch] = Visible(r, NoBatch)] /\ Goto(r, "list")
          /\ UNCHANGED <<work, lock, post>> /\ UNCHANGED Durable
          /\ req[r].pc = "read" /\ req[r].kind = "dispatch"
      BY <1>1, <2>2 DEF DispatchRead, At
    <3>2. /\ req'[r].pc = "list" /\ req'[r].kind = "dispatch"
          /\ req'[r].outrun = req[r].outrun
      BY <1>0, <3>1, GotoFields
    <3>3. rows' = rows
      BY <3>1 DEF Durable
    <3>4. /\ Snapped(r)' /\ \A t \in Slots : GoodRow(snap'[r][t])
          /\ \A p \in Requests \ {r} : snap'[p] = snap[p]
      BY <1>0, <3>1, <3>2, <3>3, FirstRead DEF FreshKinds
    <3>5. Planned(r)'
      BY <3>2 DEF Planned, At
    <3> QED BY <3>1, <3>4, <3>5, GotoLedger
  <2> QED BY <2>1, <2>2
<1>2. CASE DispatchList(r)
  BY <1>2, DispatchListLedger
<1>3. CASE DispatchTake(r)
  BY <1>3, DispatchTakeLedger
<1>4. CASE DispatchEnd(r)
  <2>1. /\ UNCHANGED <<lock, work, snap>> /\ UNCHANGED Durable /\ Goto(r, "commit")
        /\ Moved(r, NoBatch, 0) /\ req[r].pc = "take" /\ req[r].kind = "dispatch"
    BY <1>4 DEF DispatchEnd, At, Moved
  <2> QED BY <1>0, <2>1, RestLedger
<1> QED BY <1>1, <1>2, <1>3, <1>4

LEMMA ReserveLedger ==
  ASSUME LedgerInv, TypeInv', NEW r \in Requests, Reserve(r)
  PROVE  LedgerInv'
<1> DEFINE s == req[r].slot
           q == req[r].qty
           row == [Visible(r, s) EXCEPT !.reserved = @ + q]
<1>0. /\ TypeOK /\ Session(r) /\ s \in Slots /\ q \in Nat
      /\ req[r].pc = "run" /\ req[r].kind = "reserve"
  BY ReqFields DEF LedgerInv, TypeInv, Reserve, At
<1>1. CASE TryReserve(r, s, q) /\ Goto(r, "commit") /\ UNCHANGED <<post, Durable>>
  <2>1. /\ Write(r, s, row) /\ ~LockedByOther(r, s) /\ Exists(Visible(r, s))
        /\ Available(Visible(r, s)) >= q
    BY <1>1 DEF TryReserve, Fits
  <2>2. /\ Visible(r, s) \in Row /\ Visible(r, s) = rows[s]
        /\ \A t \in Slots : lock[t] # r
    BY <1>0, VisibleType, NothingLocked
  <2>3. /\ row \in Row /\ GoodRow(row) /\ Available(row) >= 0
        /\ row.onHand = Visible(r, s).onHand + 0
        /\ row.reserved - rows[s].reserved = q
    BY <1>0, <2>1, <2>2 DEF Row, Available, GoodRow, Exists
  <2> HIDE DEF row
  <2>4. Sound(r, s, row, 0)
    BY <1>0, <2>2, <2>3 DEF Sound, BookedChange
  <2>5. Began(r) /\ Moved(r, s, 0)
    BY <1>0, <1>1 DEF Began, Moved
  <2> HIDE DEF s, q
  <2> QED BY <1>0, <1>1, <2>1, <2>3, <2>4, <2>5, WriteLedger
<1>2. CASE Rollback(r)
  BY <1>2, RollbackLedger
<1>3. CASE Goto(r, "list") /\ TableUnchanged /\ UNCHANGED <<post, Durable>>
  <2>1. /\ req'[r].pc = "list" /\ req'[r].kind = "reserve"
        /\ req'[r].outrun = req[r].outrun
    BY <1>0, <1>3, GotoFields
  <2>2. UNCHANGED <<lock, work, snap, post>>
    BY <1>3 DEF TableUnchanged
  <2>3. Snapped(r)'
    BY <1>0, <2>1, <2>2 DEF Session, Snapped, FreshKinds, ReadsAhead, Withdrawals, Exists
  <2>4. Planned(r)'
    BY <2>1 DEF Planned, At
  <2>5. \A t \in Slots : GoodRow(snap'[r][t])
    BY <2>2, GoodRows
  <2>6. \A p \in Requests \ {r} : snap'[p] = snap[p]
    BY <2>2
  <2> QED BY <1>0, <1>3, <2>2, <2>3, <2>4, <2>5, <2>6, GotoLedger
<1> QED BY <1>1, <1>2, <1>3 DEF Reserve

LEMMA ReleaseLedger ==
  ASSUME LedgerInv, TypeInv', NEW r \in Requests, Release(r)
  PROVE  LedgerInv'
<1> DEFINE q == req[r].qty
           V == Visible(r, NoBatch)
           row == [V EXCEPT !.reserved = @ - q]
<1>0. /\ TypeOK /\ Session(r) /\ NoBatch \in Slots /\ q \in Nat
      /\ req[r].pc = "run" /\ req[r].kind = "release"
      /\ Goto(r, "commit") /\ UNCHANGED post /\ UNCHANGED Durable
  BY ReqFields DEF LedgerInv, TypeInv, Release, At, Slots
<1>1. /\ V \in Row /\ V = rows[NoBatch] /\ GoodRow(V)
      /\ \A t \in Slots : lock[t] # r /\ Delta(r)[t] = 0
  BY <1>0, VisibleType, NothingLocked, GoodRows
<1>2. Began(r) /\ Moved(r, NoBatch, 0)
  BY <1>0 DEF Began, Moved
<1> HIDE DEF V
<1>3. CASE V.reserved >= q /\ ~LockedByOther(r, NoBatch) /\ Write(r, NoBatch, row)
  <2>1. /\ row \in Row /\ GoodRow(row) /\ row.onHand = V.onHand + 0
        /\ row.reserved - V.reserved = -q
    BY <1>0, <1>1, <1>3 DEF Row, GoodRow, Exists
  <2> HIDE DEF row
  <2>2. Sound(r, NoBatch, row, 0)
    BY <1>0, <1>1, <2>1 DEF Sound, BookedChange, V
  <2> HIDE DEF q
  <2> QED BY <1>0, <1>2, <1>3, <2>1, <2>2, WriteLedger
<1>4. CASE TableUnchanged
  <2>1. Taken(r) = 0
    BY <1>1, SumZero, SlotsFinite DEF Taken
  <2>2. Taken(r) >= BookedChange(r)
    BY <1>0, <2>1 DEF BookedChange
  <2>3. UNCHANGED <<lock, work, snap>>
    BY <1>4 DEF TableUnchanged
  <2> QED BY <1>0, <1>2, <2>2, <2>3, RestLedger
<1> QED BY <1>3, <1>4 DEF Release, V

\* What a request has reserved so far, in all, after it has raised one row.
LEMMA TakenMore ==
  ASSUME TypeOK, TypeOK', NEW r \in Requests, NEW s \in Slots, NEW n \in Int,
         \A t \in Slots \ {s} : Delta(r)'[t] = Delta(r)[t],
         Delta(r)'[s] = Delta(r)[s] + n
  PROVE  Taken(r) \in Int /\ Taken(r)' = Taken(r) + n
<1> DEFINE f == Delta(r)
           h == Delta(r)'
           g == [t \in Slots |-> IF t = s THEN n ELSE 0]
<1>1. \A t \in Slots : f[t] \in Int
  BY DeltaType
<1>2. \A t \in Slots : g[t] \in Int /\ h[t] = f[t] + g[t]
  <2> TAKE t \in Slots
  <2>1. CASE t = s
    BY <2>1
  <2>2. CASE t # s
    <3>1. g[t] = 0 /\ h[t] = f[t]
      BY <2>2
    <3> QED BY <1>1, <3>1
  <2> QED BY <2>1, <2>2
<1>3. SumFunctionOnSet(g, Slots) = n
  <2>1. g[s] = n /\ \A t \in Slots \ {s} : g[t] = 0
    OBVIOUS
  <2> HIDE DEF g
  <2> QED BY <2>1, SumSingle, SlotsFinite
<1> HIDE DEF f, g, h
<1>4. /\ SumFunctionOnSet(f, Slots) \in Int
      /\ SumFunctionOnSet(h, Slots) = SumFunctionOnSet(f, Slots) + SumFunctionOnSet(g, Slots)
  BY <1>1, <1>2, SumPlus, SlotsFinite
<1>5. Taken(r) = SumFunctionOnSet(f, Slots) /\ Taken(r)' = SumFunctionOnSet(h, Slots)
  BY DEF Taken, f, h
<1> QED BY <1>3, <1>4, <1>5

LEMMA ReserveListLedger ==
  ASSUME LedgerInv, TypeInv', NEW r \in Requests, ReserveList(r)
  PROVE  LedgerInv'
<1> DEFINE offered == {s \in Batches : Exists(Visible(r, s)) /\ Available(Visible(r, s)) > 0}
           listed(s) == IF s \in offered THEN Visible(r, s) ELSE NoRow
<1>0. /\ TypeOK /\ Session(r) /\ req[r].qty \in Nat
      /\ req[r].pc = "list" /\ req[r].kind = "reserve"
  BY ReqFields DEF LedgerInv, TypeInv, ReserveList, At
<1>1. /\ snap' = [snap EXCEPT ![r] = [s \in Slots |-> listed(s)]]
      /\ req' = [req EXCEPT ![r].pc = "walk", ![r].left = req[r].qty,
                    ![r].todo = offered, ![r].order = Fifo]
      /\ UNCHANGED <<work, lock, post>> /\ UNCHANGED Durable
  BY DEF ReserveList
<1>2. /\ \A p \in Requests \ {r} : snap'[p] = snap[p]
      /\ \A s \in Slots : snap'[r][s] = listed(s)
  BY <1>0, <1>1 DEF TypeOK
<1> HIDE DEF offered
<1>3. /\ req'[r].pc = "walk" /\ req'[r].left = req[r].qty /\ req'[r].qty = req[r].qty
      /\ req'[r].kind = "reserve" /\ req'[r].outrun = req[r].outrun
      /\ \A p \in Requests \ {r} : req'[p] = req[p]
  BY <1>0, <1>1 DEF TypeOK, Reqs
<1>4. UNCHANGED <<rows, kardex, booked, spoiled>>
  BY <1>1 DEF Durable
<1>5. Snapped(r)' /\ Planned(r)'
  BY <1>0, <1>3 DEF Session, Snapped, Planned, At, FreshKinds, ReadsAhead, Withdrawals
<1>6. Session(r)'
  <2>1. UNCHANGED <<lock, work, post, rows>>
    BY <1>1, <1>4
  <2>2. /\ req'[r].kind = req[r].kind /\ req'[r].outrun = req[r].outrun
        /\ req'[r].pc # "commit" /\ req[r].pc \notin {"take", "walk", "commit"}
        /\ req'[r].qty = req'[r].left /\ req'[r].qty \in Int
        /\ ~At(r, "write", {"issue"})' /\ ~At(r, "take", {"dispatch"})'
    BY <1>0, <1>3 DEF At
  <2> QED BY <1>5, <2>1, <2>2, PlanSession
<1>7. \A s \in Slots : GoodRow(snap'[r][s])
  BY <1>2, GoodRows DEF GoodRow, NoRow
<1> QED BY <1>1, <1>2, <1>3, <1>4, <1>6, <1>7, QuietLedger

LEMMA ReserveWalkLedger ==
  ASSUME LedgerInv, TypeInv', NEW r \in Requests, ReserveWalk(r)
  PROVE  LedgerInv'
<1>0. /\ TypeOK /\ TypeOK' /\ TablesInv /\ Session(r) /\ req[r].pc = "walk"
      /\ req[r].kind = "reserve" /\ req[r].left \in Int /\ req[r].qty \in Nat
      /\ UNCHANGED <<post, rows, kardex, booked, spoiled>>
      /\ req[r].outrun = {}
  <2>1. /\ TypeOK /\ TypeOK' /\ TablesInv /\ Session(r) /\ req[r].pc = "walk"
        /\ req[r].kind = "reserve" /\ UNCHANGED <<post, rows, kardex, booked, spoiled>>
    BY DEF LedgerInv, TypeInv, ReserveWalk, At, Durable
  <2> QED BY <2>1, ReqFields DEF Session, Snapped, ReadsAhead, Withdrawals
<1> DEFINE chunk(s) == Lesser(req[r].left, Available(snap[r][s]))
<1>1. PICK s \in Slots :
        \/ /\ TryReserve(r, s, chunk(s))
           /\ req' = [req EXCEPT ![r].todo = @ \ {s}, ![r].left = @ - chunk(s)]
        \/ /\ req' = [req EXCEPT ![r].todo = @ \ {s}]
           /\ TableUnchanged
  BY DEF ReserveWalk
<1>2. CASE /\ TryReserve(r, s, chunk(s))
           /\ req' = [req EXCEPT ![r].todo = @ \ {s}, ![r].left = @ - chunk(s)]
  <2> DEFINE n == chunk(s)
             V == Visible(r, s)
             row == [V EXCEPT !.reserved = @ + n]
  <2>1. /\ Write(r, s, row) /\ ~LockedByOther(r, s) /\ Exists(V) /\ Available(V) >= n
        /\ req' = [req EXCEPT ![r].todo = @ \ {s}, ![r].left = @ - n]
    BY <1>2 DEF TryReserve, Fits
  <2>2. n \in Int /\ V \in Row
    BY <1>0, VisibleType DEF TypeOK, Row, Available, Lesser
  <2> HIDE DEF n, V
  <2>3. /\ req'[r].pc = "walk" /\ req'[r].left = req[r].left - n
        /\ req'[r].kind = "reserve" /\ req'[r].qty = req[r].qty /\ req'[r].outrun = {}
        /\ \A p \in Requests \ {r} : req'[p] = req[p]
    BY <1>0, <2>1 DEF TypeOK, Reqs
  <2>4. row \in Row
    <3>1. work'[s] = row
      BY <1>0, <2>1 DEF Write, TypeOK
    <3>2. work' \in [Slots -> Row]
      <4>1. TypeOK'
        BY <1>0
      <4> QED BY <4>1 DEF TypeOK
    <3> HIDE DEF row
    <3> QED BY <3>1, <3>2
  <2>5. /\ GoodRow(row) /\ Available(row) >= 0 /\ row.onHand = V.onHand
        /\ row.reserved = V.reserved + n
    BY <2>1, <2>2 DEF Row, Available, GoodRow, Exists
  <2> HIDE DEF row
  <2>6. /\ TablesInv'
        /\ \A p \in Requests \ {r} :
             /\ snap'[p] = snap[p]
             /\ \A t \in Slots : /\ lock'[t] = p <=> lock[t] = p
                                 /\ lock[t] = p => work'[t] = work[t]
        /\ \A t \in Slots : /\ lock'[t] = (IF t = s THEN r ELSE lock[t])
                            /\ work'[t] = (IF t = s THEN row ELSE work[t])
    BY <1>0, <2>1, <2>4, <2>5, WriteTables
  <2>7. /\ \A t \in Slots \ {s} : Delta(r)'[t] = Delta(r)[t]
        /\ Delta(r)'[s] = Delta(r)[s] + n
    <3>1. /\ \A t \in Slots \ {s} : Delta(r)'[t] = Delta(r)[t]
          /\ Delta(r)'[s] = row.reserved - rows[s].reserved
          /\ V.reserved = rows[s].reserved + Delta(r)[s]
      BY <1>0, <2>1, <2>4, <2>6, DeltaWrite DEF TablesInv, V
    <3>2. Delta(r)[s] \in Int /\ rows[s].reserved \in Int
      BY <1>0, DeltaType DEF TypeOK, Row
    <3> QED BY <2>2, <2>5, <3>1, <3>2
  <2>8. Taken(r) \in Int /\ Taken(r)' = Taken(r) + n
    BY <1>0, <2>2, <2>7, TakenMore
  <2>9. Taking(r)'
    <3>1. Taken(r) = req[r].qty - req[r].left
      BY <1>0 DEF Session, Taking, At
    <3>2. Taken(r)' = req'[r].qty - req'[r].left
      BY <1>0, <2>2, <2>3, <2>8, <3>1
    <3>3. \A t \in Slots : lock'[t] = r => Available(work'[t]) >= 0
      BY <1>0, <2>5, <2>6 DEF Session, Taking
    <3> QED BY <2>3, <3>2, <3>3 DEF Taking, At, Available
  <2>10. Owed(r)'
    <3> SUFFICES ASSUME NEW t \in Slots
                 PROVE  post[r][t] = IF lock'[t] = r THEN work'[t].onHand - rows[t].onHand ELSE 0
      BY <1>0, <2>3 DEF Owed
    <3>1. post[r][t] = IF lock[t] = r THEN work[t].onHand - rows[t].onHand ELSE 0
      BY <1>0 DEF Session, Owed
    <3>2. CASE t = s
      BY <1>0, <2>1, <2>5, <2>6, <3>1, <3>2 DEF V, Visible, LockedByOther, TablesInv, TypeOK, Row
    <3>3. CASE t # s
      BY <2>6, <3>1, <3>3
    <3> QED BY <3>2, <3>3
  <2>11. Unlocked(r)' /\ Snapped(r)' /\ Planned(r)' /\ Released(r)'
    BY <2>3 DEF Unlocked, Snapped, Planned, Released, At, FreshKinds, ReadsAhead, Withdrawals
  <2>12. Session(r)'
    BY <2>9, <2>10, <2>11 DEF Session
  <2>13. \A p \in Requests \ {r} : post'[p] = post[p]
    BY <1>0
  <2> QED BY <1>0, <2>3, <2>6, <2>12, <2>13, LedgerStep
<1>3. CASE req' = [req EXCEPT ![r].todo = @ \ {s}] /\ TableUnchanged
  <2>1. /\ req'[r].pc = "walk" /\ req'[r].left = req[r].left
        /\ req'[r].kind = "reserve" /\ req'[r].qty = req[r].qty /\ req'[r].outrun = {}
        /\ \A p \in Requests \ {r} : req'[p] = req[p]
    BY <1>0, <1>3 DEF TypeOK, Reqs
  <2>2. UNCHANGED <<lock, work, snap>>
    BY <1>3 DEF TableUnchanged
  <2>3. Unlocked(r)' /\ Snapped(r)' /\ Planned(r)' /\ Released(r)'
    BY <2>1 DEF Unlocked, Snapped, Planned, Released, At, FreshKinds, ReadsAhead, Withdrawals
  <2>4. \A t \in Slots : Delta(r)'[t] = Delta(r)[t]
    BY <1>0, <2>2 DEF Delta
  <2>5. Taken(r)' = Taken(r)
    BY <2>4, TakenSame
  <2>6. Owed(r)' /\ Taking(r)'
    BY <1>0, <2>1, <2>2, <2>5 DEF Owed, Taking, Session, At, Available
  <2>7. Session(r)'
    BY <2>3, <2>6 DEF Session
  <2>8. \A t \in Slots : GoodRow(snap'[r][t])
    BY <2>2, GoodRows
  <2>9. \A p \in Requests \ {r} : snap'[p] = snap[p] /\ post'[p] = post[p]
    BY <1>0, <2>2
  <2> QED BY <1>0, <2>1, <2>2, <2>7, <2>8, <2>9, QuietLedger
<1> QED BY <1>1, <1>2, <1>3

LEMMA ReserveEndLedger ==
  ASSUME LedgerInv, TypeInv', NEW r \in Requests, ReserveEnd(r)
  PROVE  LedgerInv'
<1>0. /\ TypeOK /\ Session(r) /\ NoBatch \in Slots /\ req[r].qty \in Nat
      /\ req[r].pc = "walk" /\ req[r].kind = "reserve"
  BY ReqFields DEF LedgerInv, TypeInv, ReserveEnd, At, Slots
<1>1. CASE Rollback(r)
  BY <1>1, RollbackLedger
<1>2. CASE /\ req[r].left = 0 /\ Goto(r, "commit") /\ TableUnchanged
           /\ UNCHANGED <<post, Durable>>
  <2>1. Taken(r) >= BookedChange(r)
    BY <1>0, <1>2 DEF Session, Taking, At, BookedChange
  <2>2. UNCHANGED <<lock, work, snap>> /\ UNCHANGED Durable /\ Moved(r, NoBatch, 0)
    BY <1>2 DEF TableUnchanged, Moved
  <2> QED BY <1>0, <1>2, <2>1, <2>2, RestLedger
<1> QED BY <1>1, <1>2 DEF ReserveEnd

LEMMA StartLedger ==
  ASSUME LedgerInv, TypeInv', NEW r \in Requests, Start(r)
  PROVE  LedgerInv'
<1>0. /\ TypeOK /\ Session(r) /\ req[r].pc = "idle"
      /\ UNCHANGED <<rows, work, lock, snap, post, kardex, booked, spoiled>>
  BY DEF LedgerInv, TypeInv, Start
<1>1. PICK kind \in Kinds, s \in Slots, q \in 0..MaxStock :
        req' = [req EXCEPT ![r] = [Idle EXCEPT !.pc = FirstPc(kind),
                       !.kind = kind, !.slot = s, !.qty = q]]
  BY DEF Start
<1>2. \A x \in Reqs : \A pc, k, t, n :
        LET y == [x EXCEPT !.pc = pc, !.kind = k, !.slot = t, !.qty = n] IN
        y.pc = pc /\ y.kind = k /\ y.outrun = x.outrun
  BY DEF Reqs
<1>3. /\ req'[r].pc \in {"run", "read"} /\ req'[r].outrun = {}
      /\ \A p \in Requests \ {r} : req'[p] = req[p]
  <2>1. req'[r] = [Idle EXCEPT !.pc = FirstPc(kind), !.kind = kind, !.slot = s, !.qty = q]
    BY <1>0, <1>1 DEF TypeOK
  <2>2. FirstPc(kind) \in {"run", "read"}
    BY DEF FirstPc
  <2>3. \A p \in Requests \ {r} : req'[p] = req[p]
    BY <1>0, <1>1 DEF TypeOK
  <2> QED BY <1>2, <2>1, <2>2, <2>3, IdleType
<1>4. /\ \A t \in Slots : lock[t] # r /\ ~Exists(snap[r][t]) /\ Delta(r)[t] = 0
      /\ req[r].outrun = {}
  BY <1>0, NothingLocked DEF Session, Snapped
<1>5. Session(r)'
  <2>1. Unlocked(r)' /\ Owed(r)'
    BY <1>0, <1>3, <1>4 DEF Unlocked, Owed, Session
  <2>2. Snapped(r)'
    BY <1>0, <1>3, <1>4 DEF Snapped, Exists
  <2>3. Planned(r)' /\ Released(r)'
    BY <1>0, <1>3, <1>4 DEF Planned, Released, At
  <2>4. \A t \in Slots : Delta(r)'[t] = 0
    BY <1>0, <1>4 DEF Delta
  <2>5. Taking(r)'
    BY <1>0, <1>3, <1>4, <2>4 DEF Taking, At
  <2> QED BY <2>1, <2>2, <2>3, <2>5 DEF Session
<1>6. \A t \in Slots : GoodRow(snap'[r][t])
  BY <1>0, GoodRows
<1>7. \A p \in Requests \ {r} : snap'[p] = snap[p] /\ post'[p] = post[p]
  BY <1>0
<1> QED BY <1>0, <1>3, <1>5, <1>6, <1>7, QuietLedger

\* A commit of r leaves the other sessions what they knew and owed, save on
\* the rows it outruns them on.
LEMMA OutrunSession ==
  ASSUME LedgerInv, TypeInv', NEW r \in Requests, Commit(r),
         NEW p \in Requests \ {r}
  PROVE  Session(p)'
<1>0. TypeOK /\ Session(p) /\ Unlocked(p) /\ p # NoOwner
  BY StockAssumption DEF LedgerInv, TypeInv, Session
<1>1. /\ req'[p].pc = req[p].pc /\ req'[p].kind = req[p].kind
      /\ req'[p].slot = req[p].slot /\ req'[p].qty = req[p].qty
      /\ req'[p].left = req[p].left /\ req'[p].todo = req[p].todo
      /\ req'[p].outrun = req[p].outrun \cup (ReadBy(p) \cap Changed(r))
  BY <1>0, CommitReq
<1>2. /\ \A s \in Slots : /\ lock'[s] = p <=> lock[s] = p
                          /\ lock[s] # r => rows'[s] = rows[s]
      /\ work' = work /\ snap'[p] = snap[p] /\ post'[p] = post[p]
  BY <1>0, CommitTables DEF TypeOK
<1>3. \A s \in Slots \ req'[p].outrun :
        s \notin req[p].outrun /\ (s \in ReadBy(p) => rows'[s] = rows[s])
  BY <1>1, <1>2 DEF Changed
<1>4. /\ req[p].slot \in Slots /\ req[p].todo \subseteq Slots
  BY <1>0, ReqFields
<1>5. Unlocked(p)' /\ Owed(p)'
  BY <1>0, <1>1, <1>2, <1>3 DEF Session, Unlocked, Owed
<1>6. Snapped(p)'
  <2>1. /\ \/ req[p].pc \in {"idle", "read"}
           \/ req[p].kind \in FreshKinds /\ req[p].pc \notin {"walk", "commit"}
           => \A s \in Slots : ~Exists(snap[p][s])
        /\ req[p].kind \in ReadsAhead /\ req[p].pc # "commit" =>
             \A s \in Slots \ req[p].outrun :
               lock[s] # p /\ Exists(snap[p][s]) => snap[p][s] = rows[s]
        /\ req[p].pc \in {"idle", "read"} \/ req[p].kind \notin ReadsAhead
           => req[p].outrun = {}
    BY <1>0 DEF Session, Snapped
  <2>2. req[p].pc \in {"idle", "read"} \/ req[p].kind \notin ReadsAhead
           => req'[p].outrun = {}
    BY <1>1, <2>1 DEF ReadBy
  <2>3. ASSUME req[p].kind \in ReadsAhead, req[p].pc # "commit",
               NEW s \in Slots \ req'[p].outrun, lock[s] # p, Exists(snap[p][s])
        PROVE  snap[p][s] = rows'[s]
    <3>1. req[p].pc \notin {"idle", "read"}
      BY <2>1, <2>3
    <3>2. s \in ReadBy(p)
      BY <2>3, <3>1 DEF ReadBy
    <3> QED BY <1>3, <2>1, <2>3, <3>2
  <2> QED BY <1>1, <1>2, <2>1, <2>2, <2>3 DEF Snapped, Exists
<1>7. Planned(p)'
  <2>1. At(p, "write", Withdrawals)' => snap'[p][req'[p].slot].onHand >= req'[p].qty
    BY <1>0, <1>1, <1>2 DEF Session, Planned, At
  <2>2. At(p, "take", {"dispatch"})' =>
          /\ req'[p].left >= 0
          /\ \A t \in req'[p].todo : Exists(snap'[p][t]) /\ lock'[t] # p
    BY <1>0, <1>1, <1>2, <1>4 DEF Session, Planned, At
  <2>3. ASSUME req[p].kind = "adjust", req[p].pc \in {"list", "write", "insert"},
               req[p].slot \notin req'[p].outrun
        PROVE  req[p].left = req[p].qty - rows'[req[p].slot].onHand
    <3>1. req[p].slot \in ReadBy(p)
      BY <1>4, <2>3 DEF ReadBy, ReadsAhead
    <3>2. rows'[req[p].slot] = rows[req[p].slot] /\ req[p].slot \notin req[p].outrun
      BY <1>3, <1>4, <2>3, <3>1
    <3> QED BY <1>0, <2>3, <3>2 DEF Session, Planned
  <2>4. /\ At(p, "write", {"adjust"})' => Exists(snap'[p][req'[p].slot])
        /\ req'[p].pc = "insert" =>
             req'[p].kind \in {"receive", "adjust_in", "return", "adjust"}
    BY <1>0, <1>1, <1>2 DEF Session, Planned, At
  <2> QED BY <1>1, <2>1, <2>2, <2>3, <2>4 DEF Planned, Exists
<1>8. Released(p)'
  <2>1. ASSUME At(p, "write", {"issue"}), req[p].slot \notin req'[p].outrun
        PROVE  rows'[req[p].slot].qc # "pending_qc"
    <3>1. req[p].slot \in ReadBy(p)
      BY <1>4, <2>1 DEF ReadBy, ReadsAhead, Withdrawals, At
    <3>2. rows'[req[p].slot] = rows[req[p].slot] /\ req[p].slot \notin req[p].outrun
      BY <1>3, <1>4, <2>1, <3>1
    <3> QED BY <1>0, <2>1, <3>2 DEF Session, Released
  <2>2. ASSUME At(p, "take", {"dispatch"}), NEW s \in req[p].todo \ req'[p].outrun
        PROVE  rows'[s].qc # "pending_qc"
    <3>1. Exists(snap[p][s])
      BY <1>0, <2>2 DEF Session, Planned
    <3>2. s \in ReadBy(p)
      BY <1>4, <2>2, <3>1 DEF ReadBy, ReadsAhead, At
    <3>3. rows'[s] = rows[s] /\ s \notin req[p].outrun
      BY <1>3, <1>4, <2>2, <3>2
    <3> QED BY <1>0, <2>2, <3>3 DEF Session, Released
  <2>3. req[p].kind \in {"issue", "dispatch"} =>
          \A s \in Slots \ req'[p].outrun : lock'[s] = p => rows'[s].qc # "pending_qc"
    BY <1>0, <1>2, <1>3 DEF Session, Released
  <2> QED BY <1>1, <2>1, <2>2, <2>3 DEF Released, At
<1>9. Taking(p)'
  <2>1. \A s \in Slots : Delta(p)'[s] = Delta(p)[s]
    BY <1>0, <1>2 DEF Delta
  <2>2. Taken(p)' = Taken(p)
    BY <2>1, TakenSame
  <2>3. BookedChange(p)' = BookedChange(p)
    BY <1>1 DEF BookedChange
  <2> QED BY <1>0, <1>1, <1>2, <1>3, <2>1, <2>2, <2>3 DEF Session, Taking, At, Available
<1> QED BY <1>5, <1>6, <1>7, <1>8, <1>9 DEF Session

LEMMA CommitLedger ==
  ASSUME LedgerInv, TypeInv', NEW r \in Requests, Commit(r)
  PROVE  LedgerInv'
<1>0. /\ TypeOK /\ TablesInv /\ Session(r) /\ req[r].pc = "commit" /\ r # NoOwner
      /\ spoiled' = spoiled \cup {s \in req[r].outrun : lock[s] = r \/ post[r][s] # 0}
      /\ KardexPartsOnlyWhenOutrun /\ ReservationsBacked
  BY StockAssumption DEF LedgerInv, TypeInv, Commit
<1>1. /\ UNCHANGED <<work, jobs>> /\ booked' = booked + BookedChange(r)
      /\ \A s \in Slots :
           /\ rows'[s] = (IF lock[s] = r THEN work[s] ELSE rows[s])
           /\ lock'[s] = (IF lock[s] = r THEN NoOwner ELSE lock[s])
           /\ kardex'[s] = kardex[s] + post[r][s]
           /\ snap'[r][s] = NoRow /\ post'[r][s] = 0
      /\ \A p \in Requests \ {r} : snap'[p] = snap[p]
  <2>1. /\ snap' = [snap EXCEPT ![r] = NoSnap] /\ post' = [post EXCEPT ![r] = NoPost]
    BY <1>0, CommitTables
  <2>2. \A s \in Slots : snap'[r][s] = NoRow /\ post'[r][s] = 0
    BY <1>0, <2>1 DEF TypeOK, NoSnap, NoPost
  <2>3. \A p \in Requests \ {r} : snap'[p] = snap[p]
    BY <1>0, <2>1 DEF TypeOK
  <2> QED BY <1>0, <2>2, <2>3, CommitTables
<1>2. ~Exists(NoRow) /\ GoodRow(NoRow)
  BY DEF NoRow, Exists, GoodRow
<1>3. TablesInv'
  <2>1. \A p \in Requests, s \in Slots : GoodRow(snap'[p][s])
    BY <1>0, <1>1, <1>2 DEF TablesInv
  <2>2. \A s \in Slots : /\ lock'[s] = NoOwner => work'[s] = rows'[s]
                         /\ GoodRow(rows'[s]) /\ GoodRow(work'[s])
    BY <1>0, <1>1 DEF TablesInv
  <2> QED BY <2>1, <2>2 DEF TablesInv, GoodRow, Exists
<1>4. Session(r)'
  <2>1. /\ req'[r].pc = "idle" /\ req'[r].kind = "receive" /\ req'[r].outrun = {}
    BY <1>0, CommitReq, IdleType
  <2>2. \A t \in Slots : lock'[t] # r
    BY <1>0, <1>1
  <2>3. Unlocked(r)' /\ Owed(r)'
    BY <1>1, <2>2 DEF Unlocked, Owed
  <2>4. Snapped(r)'
    BY <1>1, <1>2, <2>1 DEF Snapped, ReadsAhead, Withdrawals, Exists
  <2>5. Planned(r)' /\ Released(r)'
    BY <2>1 DEF Planned, Released, At
  <2>6. \A t \in Slots : Delta(r)'[t] = 0
    BY <2>2 DEF Delta
  <2>7. Taking(r)'
    BY <2>1, <2>6 DEF Taking, At
  <2> QED BY <2>3, <2>4, <2>5, <2>7 DEF Session
<1>5. \A p \in Requests : Session(p)'
  BY <1>4, OutrunSession
<1>6. KardexPartsOnlyWhenOutrun'
  <2> SUFFICES ASSUME NEW s \in Slots \ spoiled' PROVE rows'[s].onHand = kardex'[s]
    BY DEF KardexPartsOnlyWhenOutrun
  <2>1. rows[s].onHand = kardex[s] /\ rows[s] \in Row /\ work[s] \in Row
    BY <1>0 DEF KardexPartsOnlyWhenOutrun, TypeOK
  <2>2. CASE s \in req[r].outrun
    BY <1>0, <1>1, <2>1, <2>2 DEF Row
  <2>3. CASE s \notin req[r].outrun
    <3>1. post[r][s] = IF lock[s] = r THEN work[s].onHand - rows[s].onHand ELSE 0
      BY <1>0, <2>3 DEF Session, Owed
    <3> QED BY <1>1, <2>1, <3>1 DEF Row
  <2> QED BY <2>2, <2>3
<1>7. ReservationsBacked'
  <2> SUFFICES ASSUME spoiled' = {} PROVE Reserved' >= booked'
    BY DEF ReservationsBacked
  <2>1. /\ spoiled = {} /\ \A s \in req[r].outrun : lock[s] # r
    BY <1>0
  <2>2. Reserved >= booked
    BY <1>0, <2>1 DEF ReservationsBacked
  <2>3. Reserved \in Int /\ Taken(r) \in Int /\ Reserved' = Reserved + Taken(r)
    <3> DEFINE f == [s \in Slots |-> rows[s].reserved]
               g == Delta(r)
               h == [s \in Slots |-> rows'[s].reserved]
    <3>1. \A s \in Slots : f[s] \in Int /\ g[s] \in Int
      BY <1>0, DeltaType DEF TypeOK, Row
    <3>2. \A s \in Slots : h[s] = f[s] + g[s]
      <4> TAKE s \in Slots
      <4>1. f[s] = rows[s].reserved /\ work[s].reserved \in Int /\ f[s] \in Int
        BY <1>0 DEF TypeOK, Row
      <4>2. g[s] = IF lock[s] = r THEN work[s].reserved - rows[s].reserved ELSE 0
        BY DEF Delta
      <4>3. h[s] = IF lock[s] = r THEN work[s].reserved ELSE rows[s].reserved
        BY <1>1
      <4> HIDE DEF f, g, h
      <4> QED BY <4>1, <4>2, <4>3
    <3>3. Reserved = SumFunctionOnSet(f, Slots) /\ Reserved' = SumFunctionOnSet(h, Slots)
      BY DEF Reserved
    <3>4. Taken(r) = SumFunctionOnSet(g, Slots)
      BY DEF Taken
    <3> HIDE DEF f, g, h
    <3>5. /\ SumFunctionOnSet(f, Slots) \in Int /\ SumFunctionOnSet(g, Slots) \in Int
          /\ SumFunctionOnSet(h, Slots) = SumFunctionOnSet(f, Slots) + SumFunctionOnSet(g, Slots)
      BY <3>1, <3>2, SumPlus, SlotsFinite
    <3> QED BY <3>3, <3>4, <3>5
  <2>4. Taken(r) >= BookedChange(r)
    <3>1. CASE req[r].kind \in {"reserve", "release"}
      BY <1>0, <3>1 DEF Session, Taking, At
    <3>2. CASE req[r].kind \notin {"reserve", "release"}
      <4>1. BookedChange(r) = 0
        BY <3>2 DEF BookedChange
      <4>2. \A s \in Slots \ req[r].outrun : Delta(r)[s] = 0
        BY <1>0, <3>2 DEF Session, Taking
      <4>3. \A s \in Slots : Delta(r)[s] = 0
        BY <2>1, <4>2 DEF Delta
      <4>4. Taken(r) = 0
        BY <4>3, SumZero, SlotsFinite DEF Taken
      <4> QED BY <4>1, <4>4
    <3> QED BY <3>1, <3>2
  <2>5. BookedChange(r) \in Int /\ booked \in Int
    BY <1>0, ReqFields DEF BookedChange, TypeOK
  <2> QED BY <1>1, <2>2, <2>3, <2>4, <2>5
<1> QED BY <1>3, <1>5, <1>6, <1>7 DEF LedgerInv

LEMMA LedgerInit == Init => LedgerInv
<1> SUFFICES ASSUME Init PROVE LedgerInv
  OBVIOUS
<1>1. TypeInv
  BY TypeInit
<1>2. /\ \A s \in Slots : /\ rows[s] = IF InitStock[s] = 0 THEN NoRow
                               ELSE [onHand |-> InitStock[s], reserved |-> 0, qc |-> "approved"]
                          /\ work[s] = rows[s] /\ lock[s] = NoOwner
                          /\ kardex[s] = InitStock[s] /\ rows[s].reserved = 0
                          /\ rows[s].onHand = InitStock[s]
      /\ \A r \in Requests, s \in Slots : snap[r][s] = NoRow /\ post[r][s] = 0
      /\ \A r \in Requests : req[r] = Idle
      /\ booked = 0 /\ spoiled = {}
  BY DEF Init, NoSnap, NoPost, NoRow
<1>3. ~Exists(NoRow) /\ GoodRow(NoRow)
  BY DEF NoRow, Exists, GoodRow
<1>4. TablesInv
  <2>1. \A s \in Slots : GoodRow(rows[s])
    <3> TAKE s \in Slots
    <3>1. CASE InitStock[s] = 0
      BY <1>2, <1>3, <3>1
    <3>2. CASE InitStock[s] # 0
      <4>1. rows[s] = [onHand |-> InitStock[s], reserved |-> 0, qc |-> "approved"]
        BY <1>2, <3>2
      <4>2. rows[s].qc = "approved"
        BY <4>1
      <4> QED BY <4>2 DEF GoodRow, Exists
    <3> QED BY <3>1, <3>2
  <2> QED BY <1>2, <1>3, <2>1 DEF TablesInv
<1>5. ASSUME NEW r \in Requests PROVE Session(r)
  <2>1. /\ req[r].pc = "idle" /\ req[r].kind = "receive" /\ req[r].outrun = {}
        /\ \A s \in Slots : lock[s] # r
    BY <1>2, IdleType, StockAssumption
  <2>2. Unlocked(r) /\ Owed(r) /\ Snapped(r)
    BY <1>2, <1>3, <2>1 DEF Unlocked, Owed, Snapped
  <2>3. Planned(r) /\ Released(r)
    BY <2>1 DEF Planned, Released, At
  <2>4. Taking(r)
    BY <2>1 DEF Taking, Delta, At
  <2> QED BY <2>2, <2>3, <2>4 DEF Session
<1>6. KardexPartsOnlyWhenOutrun
  BY <1>2 DEF KardexPartsOnlyWhenOutrun
<1>7. ReservationsBacked
  <2>1. \A s \in Slots : [t \in Slots |-> rows[t].reserved][s] = 0
    BY <1>2
  <2>2. Reserved = 0
    BY <2>1, SumZero, SlotsFinite DEF Reserved
  <2> QED BY <1>2, <2>2 DEF ReservationsBacked
<1> QED BY <1>1, <1>4, <1>5, <1>6, <1>7 DEF LedgerInv

LEMMA LedgerNext == LedgerInv /\ [Next]_vars => LedgerInv'
<1> SUFFICES ASSUME LedgerInv, [Next]_vars PROVE LedgerInv'
  OBVIOUS
<1>1. TypeInv'
  BY TypeStep DEF LedgerInv
<1>2. CASE UNCHANGED vars
  <2>1. UNCHANGED <<rows, work, lock, snap, post, kardex, booked, req, jobs, spoiled>>
    BY <1>2 DEF vars
  <2>2. \A r \in Requests : Session(r)'
    BY <2>1, SessionFrame DEF LedgerInv, TypeInv
  <2>3. TablesInv'
    BY <2>1 DEF LedgerInv, TablesInv, GoodRow, Exists
  <2> QED BY <1>1, <2>1, <2>2, <2>3
      DEF LedgerInv, KardexPartsOnlyWhenOutrun, ReservationsBacked, Reserved
<1>3. ASSUME NEW r \in Requests, Start(r) PROVE LedgerInv'
  BY <1>1, <1>3, StartLedger
<1>4. ASSUME NEW r \in Requests, Rollback(r) PROVE LedgerInv'
  BY <1>1, <1>4, RollbackLedger
<1>5. ASSUME NEW r \in Requests, Step(r) PROVE LedgerInv'
  <2>1. CASE ReturnRead(r) \/ Inflow(r) \/ InsertLevel(r)
    BY <1>1, <2>1, InflowLedger
  <2>2. CASE WithdrawRead(r) \/ WithdrawWrite(r)
    BY <1>1, <2>2, WithdrawLedger
  <2>3. CASE DispatchRead(r) \/ DispatchList(r) \/ DispatchTake(r) \/ DispatchEnd(r)
    BY <1>1, <2>3, DispatchLedger
  <2>4. CASE AdjustRead(r) \/ SetQtyRead(r) \/ SetQty(r)
    BY <1>1, <2>4, AdjustLedger
  <2>5. CASE QcRead(r) \/ QcWrite(r)
    BY <1>1, <2>5, QcLedger
  <2>6. CASE Reserve(r)
    BY <1>1, <2>6, ReserveLedger
  <2>7. CASE ReserveList(r)
    BY <1>1, <2>7, ReserveListLedger
  <2>8. CASE ReserveWalk(r)
    BY <1>1, <2>8, ReserveWalkLedger
  <2>9. CASE ReserveEnd(r)
    BY <1>1, <2>9, ReserveEndLedger
  <2>10. CASE Release(r)
    BY <1>1, <2>10, ReleaseLedger
  <2>11. CASE Commit(r)
    BY <1>1, <2>11, CommitLedger
  <2> QED BY <1>5, <2>1, <2>2, <2>3, <2>4, <2>5, <2>6, <2>7, <2>8, <2>9, <2>10, <2>11
      DEF Step
<1> QED BY <1>2, <1>3, <1>4, <1>5 DEF Next, Abort, DeadlockVictim

LEMMA LedgerAlways == Spec => []LedgerInv
BY LedgerInit, LedgerNext, PTL DEF Spec

\* Whatever operations overlap, of any kind and in any number, the level of a
\* row and the kardex part only where a request wrote what it had computed
\* before somebody else's commit.
THEOREM KardexAgrees == Spec => []KardexPartsOnlyWhenOutrun
<1>1. LedgerInv => KardexPartsOnlyWhenOutrun
  BY DEF LedgerInv
<1> QED BY <1>1, LedgerAlways, PTL

\* As long as no row has been written that way, the units that owners of
\* reservations count on are reserved somewhere.
THEOREM ReservationsKept == Spec => []ReservationsBacked
<1>1. LedgerInv => ReservationsBacked
  BY DEF LedgerInv
<1> QED BY <1>1, LedgerAlways, PTL

\* The WHERE of a reservation's UPDATE is tested on the row it has locked:
\* every row a reservation has raised holds what is reserved in it.
THEOREM ReservationsFit == Spec => []ReserveCovered
<1>1. LedgerInv => ReserveCovered
  <2> SUFFICES ASSUME LedgerInv, NEW s \in Slots, lock[s] # NoOwner,
                      req[lock[s]].kind = "reserve"
               PROVE  Available(work[s]) >= 0
    BY DEF ReserveCovered
  <2>1. lock[s] \in Requests
    BY DEF LedgerInv, TypeInv, TypeOK
  <2> QED BY <2>1 DEF LedgerInv, Session, Taking
<1> QED BY <1>1, LedgerAlways, PTL

\* No commit of an issue takes units out of a row in quarantine that the
\* issue had not been outrun on.
THEOREM QuarantineRespected == Spec => QuarantineHolds
<1> DEFINE Kept == \A r \in Requests, s \in Slots :
                     /\ At(r, "commit", {"issue", "dispatch"})
                     /\ lock[s] = r /\ s \notin req[r].outrun /\ req'[r].pc = "idle"
                     /\ rows'[s].onHand < rows[s].onHand
                     => rows[s].qc # "pending_qc"
<1>1. LedgerInv /\ [Next]_vars => [Kept]_vars
  BY DEF LedgerInv, Session, Released, At
<1> QED BY <1>1, LedgerAlways, PTL DEF Spec, QuarantineHolds
=============================================================================
