------------------------------ MODULE Purchasing ------------------------------
(***************************************************************************)
(* Purchase orders of inventory-service: drafts, their approval, sending,  *)
(* receipt in parts, cancellation, and the consolidation of several drafts *)
(* into one order and back.                                                *)
(*                                                                         *)
(* A session is one READ COMMITTED transaction.  Only a receipt locks the  *)
(* order before it reads it; every other request reads the order, tests    *)
(* its status, and writes it in a later statement that waits for the row   *)
(* and tests nothing again.  The rows that one flush updates are written   *)
(* in the order of their primary keys.                                     *)
(*                                                                         *)
(* An order has one line; a refused request changes nothing and is left    *)
(* out.  Suppliers, warehouses, prices, costs, batches, the audit trail    *)
(* and the stock level (StockLevel) are left out too.                      *)
(***************************************************************************)
EXTENDS Integers, FiniteSets, Functions

CONSTANTS
    Sessions,       \* sessions of requests
    NoSession,
    POs,            \* primary keys that orders may get
    NoPO,
    MaxDrafts,      \* bound: drafts that exist or were deleted
    Qty,            \* [POs -> Nat]: what a draft orders
    Mixes           \* bound: the kinds that happen together, one set chosen at first

Kinds == {"submit", "approve", "reject", "send", "confirm", "cancel", "edit",
          "delete", "consolidate", "deconsolidate", "receive"}

ASSUME PurchasingAssumption ==
    /\ NoSession \notin Sessions
    /\ POs \subseteq Nat /\ IsFiniteSet(POs) /\ NoPO \notin POs
    /\ Qty \in [POs -> Nat \ {0}]
    /\ MaxDrafts \in Nat
    /\ Mixes \subseteq SUBSET Kinds

VARIABLES
    mix,            \* what may happen in this behaviour
    po,             \* the orders as committed
    lock,           \* the session that holds each row
    sess,           \* every session: where it stands, what it read and writes
    stock,          \* what came into stock with each order's number
    overwritten     \* orders written by a request for which statuses had changed,
                    \* and what was reverted because of it

vars == <<mix, po, lock, sess, stock, overwritten>>

Live == {"draft", "pending_approval", "approved", "sent", "confirmed", "partial"}
Settled == {"received", "canceled", "consolidated"}
Statuses == Live \cup Settled \cup {"none", "deleted"}

\* from: consolidated_from_ids; demand: the drafts the order stands, or stood, for;
\* qty, got: qty_ordered and qty_received of its line.
Row == [status : Statuses, parent : POs \cup {NoPO}, from : SUBSET POs,
        demand : SUBSET POs, qty : Nat, got : Nat]
NoRow == [status |-> "none", parent |-> NoPO, from |-> {}, demand |-> {},
          qty |-> 0, got |-> 0]

\* row: the order it is about; todo: the rows it has yet to write; seen: the
\* statuses it read; new: the row it writes when it inserts or receives one.
Idle == [pc |-> "idle", kind |-> "none", row |-> NoPO, todo |-> {},
         seen |-> [p \in POs |-> "none"], new |-> NoRow]
Session == [pc : {"idle", "originals", "write", "children", "receive"},
            kind : Kinds \cup {"none"}, row : POs \cup {NoPO},
            todo : SUBSET POs, seen : [POs -> Statuses], new : Row]

Init ==
    /\ mix \in Mixes
    /\ po = [p \in POs |-> NoRow]
    /\ lock = [p \in POs |-> NoSession]
    /\ sess = [s \in Sessions |-> Idle]
    /\ stock = [p \in POs |-> 0]
    /\ overwritten = {}

At(s, pc) == sess[s].pc = pc
Open == {s \in Sessions : ~At(s, "idle")}
Free(p) == lock[p] = NoSession
Unused(p) == po[p].status = "none" /\ Free(p)
Read(ps) == [p \in POs |-> IF p \in ps THEN po[p].status ELSE "none"]

\* A session ends and gives its rows back.
Released(s) == lock' = [p \in POs |-> IF lock[p] = s THEN NoSession ELSE lock[p]]
End(s) == sess' = [sess EXCEPT ![s] = Idle]

-----------------------------------------------------------------------------
(* What a request does to the status of one order.                         *)

\* Mutant: what has been received can still be canceled.
FromReceivedToo(kind) ==
    CASE kind \in {"submit", "delete"} -> {"draft"}
      [] kind \in {"approve", "reject"} -> {"pending_approval"}
      [] kind = "send" -> {"draft", "approved"}
      [] kind = "confirm" -> {"sent"}
      [] OTHER -> Live \cup {"received"}

From(kind) ==
    CASE kind \in {"submit", "delete"} -> {"draft"}
      [] kind \in {"approve", "reject"} -> {"pending_approval"}
      [] kind = "send" -> {"draft", "approved"}
      [] kind = "confirm" -> {"sent"}
      [] OTHER -> Live

To(kind) ==
    CASE kind = "submit" -> "pending_approval"
      [] kind = "approve" -> "approved"
      [] kind \in {"reject", "deconsolidate"} -> "draft"
      [] kind = "send" -> "sent"
      [] kind = "confirm" -> "confirmed"
      [] kind = "delete" -> "deleted"
      [] kind = "consolidate" -> "consolidated"
      [] OTHER -> "canceled"

Moves == {"submit", "approve", "reject", "send", "confirm", "cancel", "edit", "delete"}

\* create_draft.
Create(p) ==
    /\ Unused(p)
    /\ Cardinality({q \in POs : po[q].status # "none" /\ po[q].from = {}}) < MaxDrafts
    /\ po' = [po EXCEPT ![p] = [NoRow EXCEPT !.status = "draft",
                                  !.qty = Qty[p], !.demand = {p}]]
    /\ UNCHANGED <<mix, lock, sess, stock, overwritten>>

\* The order is read and its status tested.
Load(s, kind, p) ==
    /\ At(s, "idle")
    /\ kind \in mix /\ po[p].status \in From(kind)
    /\ sess' = [sess EXCEPT ![s] =
         [Idle EXCEPT !.pc = "write", !.kind = kind, !.row = p, !.todo = {p},
                      !.seen = Read({p})]]
    /\ UNCHANGED <<mix, po, lock, stock, overwritten>>

-----------------------------------------------------------------------------
(* Consolidation.                                                          *)

\* validate_consolidation, and the new order, which nobody sees before the
\* commit: it orders what the drafts order.
Consolidate(s, drafts, c) ==
    /\ At(s, "idle")
    /\ "consolidate" \in mix
    /\ Cardinality(drafts) >= 2
    /\ \A p \in drafts : po[p].status = "draft"
    /\ Unused(c)
    /\ lock' = [lock EXCEPT ![c] = s]
    /\ sess' = [sess EXCEPT ![s] =
         [Idle EXCEPT !.pc = "write", !.kind = "consolidate", !.row = c,
            !.todo = drafts, !.seen = Read(drafts),
            !.new = [NoRow EXCEPT !.status = "draft", !.from = drafts,
                       !.demand = UNION {po[p].demand : p \in drafts},
                       !.qty = SumFunctionOnSet([p \in drafts |-> po[p].qty], drafts)]]]
    /\ UNCHANGED <<mix, po, stock, overwritten>>

\* Mutant: a consolidation received in part may be reverted.
ReversibleInPart(c) == po[c].status \in {"draft", "partial"}

Reversible(c) == po[c].status = "draft"

Deconsolidate(s, c) ==
    /\ At(s, "idle")
    /\ "deconsolidate" \in mix
    /\ po[c].from # {} /\ Reversible(c)
    /\ sess' = [sess EXCEPT ![s] =
         [Idle EXCEPT !.pc = "originals", !.kind = "deconsolidate", !.row = c,
                      !.seen = Read({c})]]
    /\ UNCHANGED <<mix, po, lock, stock, overwritten>>

\* The originals are read, those that still exist and whatever their status;
\* only what changes is written, be it the status or the parent.
LoadOriginals(s) ==
    LET c == sess[s].row
        found == {p \in po[c].from : po[p].status # "deleted"} IN
    /\ At(s, "originals")
    /\ sess' = [sess EXCEPT
          ![s].pc = "write",
          ![s].todo = {c} \cup {p \in found : po[p].status # "draft" \/ po[p].parent # NoPO},
          ![s].seen = [p \in POs |-> IF p \in found THEN po[p].status ELSE @[p]]]
    /\ UNCHANGED <<mix, po, lock, stock, overwritten>>

-----------------------------------------------------------------------------
(* The statements that write.                                              *)

\* Mutant: the rows of one flush are written in any order.
NextRowAny(s, p) == p \in sess[s].todo

NextRow(s, p) == p \in sess[s].todo /\ \A q \in sess[s].todo : p <= q

\* The UPDATE of a row waits for it.  A row that is gone fails the request,
\* unless it was to be deleted.
Write(s, p) ==
    /\ At(s, "write") /\ NextRow(s, p)
    /\ Free(p)
    /\ IF po[p].status = "deleted" /\ sess[s].kind # "delete"
       THEN Released(s) /\ End(s)
       ELSE /\ lock' = [lock EXCEPT ![p] = s]
            /\ sess' = [sess EXCEPT ![s].todo = @ \ {p},
                  ![s].pc = IF sess[s].kind = "delete" THEN "children" ELSE @]
    /\ UNCHANGED <<mix, po, stock, overwritten>>

Children(p) == {q \in POs : po[q].parent = p}

\* ON DELETE SET NULL: each child's row is waited for.
WriteChild(s, p) ==
    /\ At(s, "children") /\ p \in Children(sess[s].row)
    /\ Free(p)
    /\ lock' = [lock EXCEPT ![p] = s]
    /\ UNCHANGED <<mix, po, sess, stock, overwritten>>

\* Rows of s whose status it writes, and the status it gives them.
Target(s, p) ==
    IF sess[s].kind = "deconsolidate" /\ p = sess[s].row THEN "canceled"
    ELSE To(sess[s].kind)

Moved(s, p) ==
    IF lock[p] # s \/ sess[s].kind = "edit" THEN po[p]
    ELSE CASE sess[s].kind = "consolidate" ->
                IF p = sess[s].row THEN sess[s].new
                ELSE [po[p] EXCEPT !.status = "consolidated", !.parent = sess[s].row]
           [] sess[s].kind = "deconsolidate" /\ p # sess[s].row ->
                [po[p] EXCEPT !.status = IF sess[s].seen[p] = "draft" THEN @ ELSE "draft",
                              !.parent = NoPO]
           [] sess[s].kind = "delete" ->
                IF p = sess[s].row
                THEN [NoRow EXCEPT !.status = "deleted", !.demand = po[p].demand]
                ELSE [po[p] EXCEPT !.parent = NoPO]
           [] OTHER -> [po[p] EXCEPT !.status = Target(s, p)]

\* Another request has changed the status of an order since s read it, and s
\* writes the statuses that followed from what it read.
Outdated(s) ==
    /\ sess[s].kind # "edit"
    /\ \E p \in POs : sess[s].seen[p] \notin {"none", po[p].status}

\* ... or s reverts a consolidation that was brought back that way.
Overwrites(s) ==
    \/ Outdated(s)
    \/ sess[s].kind = "deconsolidate" /\ sess[s].row \in overwritten

Commit(s) ==
    /\ \/ At(s, "write") /\ sess[s].todo = {}
       \/ At(s, "children") /\ \A p \in Children(sess[s].row) : lock[p] = s
    /\ po' = [p \in POs |-> Moved(s, p)]
    /\ overwritten' = overwritten \cup
         (IF Overwrites(s) THEN {p \in POs : lock[p] = s} ELSE {})
    /\ Released(s) /\ End(s)
    /\ UNCHANGED <<mix, stock>>

-----------------------------------------------------------------------------
(* receive_items.                                                          *)

\* Mutant: the order is read without FOR UPDATE.
ForUpdateNever(p) == TRUE

ForUpdate(p) == Free(p)

\* SELECT ... FOR UPDATE waits for the row; then status and quantity are read
\* and tested.
Receive(s, p, n) ==
    /\ At(s, "idle")
    /\ "receive" \in mix
    /\ ForUpdate(p)
    /\ po[p].status \in Live
    /\ n > 0 /\ po[p].got + n <= po[p].qty
    /\ lock' = [lock EXCEPT ![p] = s]
    /\ sess' = [sess EXCEPT ![s] =
         [Idle EXCEPT !.pc = "receive", !.kind = "receive", !.row = p,
            !.new = [NoRow EXCEPT !.got = po[p].got + n, !.qty = n]]]
    /\ UNCHANGED <<mix, po, stock, overwritten>>

ReceiptStatus(p, got) == IF got >= po[p].qty THEN "received" ELSE "partial"

\* Line, stock and status are written, and committed.
ReceiveCommit(s) ==
    LET p == sess[s].row
        new == sess[s].new IN
    /\ At(s, "receive")
    /\ po' = [po EXCEPT ![p].got = new.got, ![p].status = ReceiptStatus(p, new.got)]
    /\ stock' = [stock EXCEPT ![p] = @ + new.qty]
    /\ Released(s) /\ End(s)
    /\ UNCHANGED <<mix, overwritten>>

-----------------------------------------------------------------------------
(* Sessions that fail.                                                     *)

\* Rows a session cannot go on without.
Wanted(s) ==
    CASE At(s, "write") -> {p \in POs : NextRow(s, p)}
      [] At(s, "children") -> Children(sess[s].row)
      [] OTHER -> {}

\* Every session of a deadlock waits for a row another one of it holds.
Deadlocked(ss) ==
    /\ ss # {}
    /\ \A s \in ss : \E p \in Wanted(s) : lock[p] \in ss \ {s}

\* PostgreSQL aborts one of them, and the request fails.
Victim(s) ==
    /\ \E ss \in SUBSET Sessions : s \in ss /\ Deadlocked(ss)
    /\ Released(s) /\ End(s)
    /\ UNCHANGED <<mix, po, stock, overwritten>>

\* A statement raises or the process dies: the transaction is undone.
Fail(s) ==
    /\ ~At(s, "idle")
    /\ Released(s) /\ End(s)
    /\ UNCHANGED <<mix, po, stock, overwritten>>

-----------------------------------------------------------------------------
Step(s) ==
    \/ LoadOriginals(s)
    \/ \E p \in POs : Write(s, p) \/ WriteChild(s, p)
    \/ Commit(s)
    \/ ReceiveCommit(s)
    \/ Victim(s)

Request(s) ==
    \/ \E kind \in Moves, p \in POs : Load(s, kind, p)
    \/ \E drafts \in SUBSET POs, c \in POs : Consolidate(s, drafts, c)
    \/ \E c \in POs : Deconsolidate(s, c)
    \/ \E p \in POs : \E n \in 1 .. po[p].qty : Receive(s, p, n)

Next ==
    \/ \E s \in Sessions : Step(s) \/ Request(s) \/ Fail(s)
    \/ \E p \in POs : Create(p)

Spec == Init /\ [][Next]_vars

-----------------------------------------------------------------------------
(* Properties.                                                             *)

\* Every variable keeps its type, and only a session that is open holds a row.
TypeOK ==
    /\ mix \in Mixes
    /\ po \in [POs -> Row]
    /\ lock \in [POs -> Open \cup {NoSession}]
    /\ sess \in [Sessions -> Session]
    /\ stock \in [POs -> Nat]
    /\ overwritten \subseteq POs

\* What came into stock with an order's number is what its line says, and no
\* more than was ordered, however many receipts overlap; an order that was
\* deleted had received nothing, if it was deleted by the status it had.
ReceivedMatches ==
    \A p \in POs :
        IF po[p].status = "deleted" THEN stock[p] = 0 \/ p \in overwritten
        ELSE stock[p] = po[p].got /\ stock[p] <= po[p].qty

\* Two orders that stand for the same draft do not both receive goods: a
\* consolidation takes its drafts out of reach and gives them back untouched,
\* unless a request wrote over the status of one that stands for that draft.
SuppliedOnce ==
    \A p, q \in POs :
        /\ p # q /\ stock[p] > 0 /\ stock[q] > 0
        => \A d \in po[p].demand \cap po[q].demand :
             \E r \in overwritten : d \in po[r].demand \cup {r}

\* Requests block each other for good only where one deletes an order: the
\* rows of one flush are written in the order of their keys, those that ON
\* DELETE SET NULL reaches are not.
DeadlockNeedsDelete ==
    \A ss \in SUBSET Sessions :
        Deadlocked(ss) => \E s \in ss : sess[s].kind = "delete"

\* What is received or canceled stays so, and what is consolidated leaves that
\* status only as a draft again, unless a request that read another status
\* writes it, or writes a consolidation of it that had been reverted, so that
\* it is reverted a second time.
SettledStays ==
    [][\A p \in POs \ overwritten' :
         /\ po[p].status \in {"received", "canceled"} => po'[p].status = po[p].status
         /\ po[p].status = "consolidated" => po'[p].status \in {"consolidated", "draft"}]_vars
=============================================================================
