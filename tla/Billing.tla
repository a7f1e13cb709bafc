------------------------------- MODULE Billing -------------------------------
(***************************************************************************)
(* How subscription-service is paid and how it lapses: one tenant's        *)
(* subscription, its invoices, the webhook that a payment gateway calls,   *)
(* the hourly expiration sweep and what administrators do.                 *)
(*                                                                         *)
(* A session is one READ COMMITTED transaction; a step is one statement of *)
(* it, or one call to Redis.  Rows are read without a lock and written     *)
(* later, each column only if it was assigned another value than the one   *)
(* read.  The gateway delivers a notification at least once: it repeats    *)
(* one that was not answered, and may repeat one that was.                 *)
(*                                                                         *)
(* Days are abstracted to a clock; plans, modules, amounts, e-mails,       *)
(* caches and electronic invoices are left out.  No code makes a           *)
(* subscription "trialing", and the sweep treats that status as "active".  *)
(***************************************************************************)
EXTENDS Integers, FiniteSets, BillingPromises

CONSTANTS
    NoSession,
    NoTx,
    Invoices,       \* invoices that may come to exist
    NoInvoice,
    Period,         \* the 30 days a payment buys
    MaxTime,        \* bound: the last day
    MaxDeliveries,  \* bound: deliveries of one notification
    MaxAsked,       \* bound: what administrators do, altogether
    MaxFaults,      \* bound: failed sessions, calls to Redis and ledger entries
    Mixes           \* bound: what happens together, one of them chosen at first

SubKinds == {"upgrade", "cancel", "platform_cancel", "reactivate",
             "platform_reactivate"}
InvoiceKinds == {"mark_paid", "refund", "partial_refund"}
Kinds == SubKinds \cup InvoiceKinds

ASSUME BillingAssumption ==
    /\ IsFiniteSet(Sessions)
    /\ Sessions \cap Sweepers = {} /\ NoSession \notin Sessions \cup Sweepers
    /\ NoTx \notin Txs /\ NoInvoice \notin Invoices
    /\ Ref \in [Txs -> Invoices]
    /\ Period \in Nat \ {0} /\ Grace \in Nat
    /\ MaxTime \in Nat /\ MaxDeliveries \in Nat
    /\ MaxAsked \in Nat /\ MaxFaults \in Nat
    /\ Mixes \subseteq SUBSET (Txs \cup Kinds \cup {"sweep"})

VARIABLES
    mix,            \* what may happen in this behaviour
    subLock,        \* the session that holds its row
    inv,            \* the invoices as committed
    invLock,        \* the session that holds each one's row
    marks,          \* transactions marked as seen in Redis
    asked,          \* what administrators did so far
    faults          \* faults so far

vars == <<mix, now, sub, subLock, inv, invLock, marks, unmatched, sess,
          deliveries, asked, faults, answered, credits, voids, byHand,
          unmarked, interrupted>>

Statuses == {"active", "past_due", "expired", "canceled"}
SubRow == [status : Statuses, ends : Nat]
InvStatuses == {"none", "open", "paid", "void"}
InvRow == [status : InvStatuses, tx : Txs \cup {NoTx}]
Pcs == {"idle", "dedup", "find", "inv", "load", "sub", "due", "beyond",
        "forced", "commit"}

\* row, bill: the subscription and the invoice as they were read, then as they
\* are to be written; at: the day a sweep began; raced: another session was
\* open at the same time.
NoRow == [status |-> "active", ends |-> 0]
NoBill == [status |-> "none", tx |-> NoTx]
Idle == [pc |-> "idle", kind |-> "none", tx |-> NoTx, inv |-> NoInvoice,
         row |-> NoRow, bill |-> NoBill, at |-> 0, raced |-> FALSE]
Session == [pc : Pcs, tx : Txs \cup {NoTx}, inv : Invoices \cup {NoInvoice},
            kind : Kinds \cup {"none", "payment", "sweep"},
            row : SubRow, bill : InvRow, at : Nat, raced : BOOLEAN]

Init ==
    /\ mix \in Mixes
    /\ now = 0
    /\ sub = [status |-> "active", ends |-> Period]
    /\ subLock = NoSession
    /\ inv = [i \in Invoices |-> NoBill]
    /\ invLock = [i \in Invoices |-> NoSession]
    /\ marks = {} /\ unmatched = {}
    /\ sess = [s \in All |-> Idle]
    /\ deliveries = [x \in Txs |-> 0]
    /\ asked = 0 /\ faults = 0
    /\ answered = {}
    /\ credits = [x \in Txs |-> 0]
    /\ voids = [i \in Invoices |-> 0]
    /\ byHand = {} /\ unmarked = 0 /\ interrupted = {}

At(s, pc) == sess[s].pc = pc

Database == <<mix, now, sub, inv>>
Locks == <<subLock, invLock>>
Outside == <<marks, unmatched, deliveries, answered>>
History == <<credits, voids, byHand, unmarked, interrupted>>
Counts == <<asked, faults>>

\* A session begins; it and the ones that are open overlap.
Begin(s, new) ==
    /\ At(s, "idle")
    /\ sess' = [p \in All |->
         CASE p = s -> [new EXCEPT !.raced = Open # {}]
           [] p \in Open -> [sess[p] EXCEPT !.raced = TRUE]
           [] OTHER -> sess[p]]

Go(s, pc) == sess' = [sess EXCEPT ![s].pc = pc]

\* A session that ends without having written anything.
End(s) == sess' = [sess EXCEPT ![s] = Idle]

-----------------------------------------------------------------------------
(* process_successful_payment.                                             *)

\* The gateway notifies; the signature is verified.
Deliver(s, x) ==
    /\ s \in Sessions /\ x \in mix
    /\ deliveries[x] < MaxDeliveries
    /\ deliveries' = [deliveries EXCEPT ![x] = @ + 1]
    /\ Begin(s, [Idle EXCEPT !.pc = "dedup", !.kind = "payment", !.tx = x])
    /\ UNCHANGED <<Database, Locks, marks, unmatched, answered, History, Counts>>

\* Mutant: the mark is set whether or not it was there.
MarkedNever(x) == FALSE

Marked(x) == x \in marks

\* SET NX: a transaction that is marked has been seen, and is answered.
Dedup(s) ==
    LET x == sess[s].tx IN
    /\ At(s, "dedup")
    /\ \/ /\ Marked(x)
          /\ answered' = answered \cup {x}
          /\ End(s)
          /\ UNCHANGED marks
       \/ /\ ~Marked(x)
          /\ marks' = marks \cup {x}
          /\ Go(s, "find")
          /\ UNCHANGED answered
    /\ UNCHANGED <<Database, Locks, unmatched, deliveries, History, Counts>>

\* Redis does not answer: the payment is processed all the same.
DedupFails(s) ==
    /\ At(s, "dedup")
    /\ faults < MaxFaults
    /\ faults' = faults + 1
    /\ unmarked' = unmarked + 1
    /\ Go(s, "find")
    /\ UNCHANGED <<Database, Locks, Outside, asked, credits, voids, byHand,
                   interrupted>>

\* The mark lives ten minutes, and no session that long.
MarkExpires(x) ==
    /\ x \in marks
    /\ \A s \in Open : sess[s].tx # x
    /\ marks' = marks \ {x}
    /\ UNCHANGED <<Database, Locks, unmatched, sess, deliveries, answered,
                   History, Counts>>

\* The invoice the reference names, or one that this transaction has paid.
Matching(x) ==
    IF inv[Ref[x]].status # "none" THEN {Ref[x]}
    ELSE {i \in Invoices : inv[i].tx = x}

\* Mutant: only an open invoice takes a payment.
SettledUnlessOpen(bill) == bill.status # "open"

Settled(bill) == bill.status = "paid"

\* No invoice: the payment goes to the ledger (commit included).  A paid one:
\* nothing is done.
Find(s) ==
    LET x == sess[s].tx IN
    /\ At(s, "find")
    /\ \/ /\ Matching(x) = {}
          /\ unmatched' = unmatched \cup {x}
          /\ answered' = answered \cup {x}
          /\ End(s)
       \/ \E i \in Matching(x) :
            /\ Settled(inv[i])
            /\ answered' = answered \cup {x}
            /\ End(s)
            /\ UNCHANGED unmatched
       \/ \E i \in Matching(x) :
            /\ ~Settled(inv[i])
            /\ sess' = [sess EXCEPT ![s].pc = "inv", ![s].inv = i,
                           ![s].bill = [status |-> "paid", tx |-> x]]
            /\ UNCHANGED <<unmatched, answered>>
    /\ UNCHANGED <<Database, Locks, marks, deliveries, History, Counts>>

\* The ledger swallows every exception of its INSERT, and the gateway is told
\* that the payment is settled.
RecordFails(s) ==
    LET x == sess[s].tx IN
    /\ At(s, "find")
    /\ Matching(x) = {}
    /\ faults < MaxFaults
    /\ faults' = faults + 1
    /\ interrupted' = interrupted \cup {x}
    /\ answered' = answered \cup {x}
    /\ End(s)
    /\ UNCHANGED <<Database, Locks, marks, unmatched, deliveries, asked, credits,
                   voids, byHand, unmarked>>

\* The UPDATE of an invoice waits for its row.
WriteInvoice(s) ==
    LET i == sess[s].inv IN
    /\ At(s, "inv")
    /\ invLock[i] = NoSession
    /\ invLock' = [invLock EXCEPT ![i] = s]
    /\ Go(s, IF sess[s].kind = "payment" THEN "load" ELSE "commit")
    /\ UNCHANGED <<Database, subLock, Outside, History, Counts>>

-----------------------------------------------------------------------------
(* The subscription.                                                       *)

\* The status a handler assigns and the end of the period it sets.
Target(s) ==
    CASE sess[s].kind \in {"payment", "reactivate", "platform_reactivate"} ->
           [status |-> "active", ends |-> now + Period]
      [] sess[s].kind = "upgrade" -> [sub EXCEPT !.status = "active"]
      [] OTHER -> [sub EXCEPT !.status = "canceled"]

\* What cancel and reactivate refuse; the platform's endpoints refuse nothing.
Refused(s) ==
    \/ sess[s].kind = "cancel" /\ sub.status = "canceled"
    \/ sess[s].kind = "reactivate" /\ sub.status = "active"

\* The handler reads the subscription and assigns it new attributes.
LoadSub(s) ==
    /\ At(s, "load")
    /\ sess' = IF Refused(s) THEN [sess EXCEPT ![s] = Idle]
               ELSE [sess EXCEPT ![s].pc = "sub", ![s].row = sub]
    /\ UNCHANGED <<Database, Locks, Outside, History, Counts>>

\* Mutant: the period is renewed and the status is forgotten.
StatusWrittenNever(s) == sub.status

\* A status equal to the one read is not part of the UPDATE.
StatusWritten(s) ==
    IF Target(s).status = sess[s].row.status THEN sub.status ELSE Target(s).status

\* The UPDATE of the subscription waits for its row.
WriteSub(s) ==
    /\ At(s, "sub")
    /\ subLock = NoSession
    /\ subLock' = s
    /\ sess' = [sess EXCEPT ![s].pc = "commit",
                  ![s].row = [status |-> StatusWritten(s), ends |-> Target(s).ends]]
    /\ UNCHANGED <<Database, invLock, Outside, History, Counts>>

-----------------------------------------------------------------------------
(* What administrators do.                                                 *)

Ask(s, kind) ==
    /\ s \in Sessions /\ kind \in mix \cap SubKinds
    /\ asked < MaxAsked
    /\ asked' = asked + 1
    /\ Begin(s, [Idle EXCEPT !.pc = "load", !.kind = kind])
    /\ UNCHANGED <<Database, Locks, Outside, History, faults>>

\* mark_invoice_paid tests the status it reads, issue_credit_note does not;
\* a refund of the whole amount makes the invoice void.
AskInvoice(s, kind, i) ==
    /\ s \in Sessions /\ kind \in mix \cap InvoiceKinds
    /\ inv[i].status # "none"
    /\ kind = "mark_paid" => inv[i].status # "paid"
    /\ asked < MaxAsked
    /\ asked' = asked + 1
    /\ Begin(s, [Idle EXCEPT !.kind = kind, !.inv = i,
                   !.pc = IF \/ kind = "partial_refund"
                             \/ kind = "refund" /\ inv[i].status = "void"
                          THEN "commit" ELSE "inv",
                   !.bill = [inv[i] EXCEPT !.status =
                               IF kind = "mark_paid" THEN "paid" ELSE "void"]])
    /\ UNCHANGED <<Database, Locks, Outside, History, faults>>

\* generate_invoice.
Generate(i) ==
    /\ inv[i].status = "none"
    /\ inv' = [inv EXCEPT ![i].status = "open"]
    /\ UNCHANGED <<mix, now, sub, Locks, sess, Outside, History, Counts>>

-----------------------------------------------------------------------------
(* check_expirations.                                                      *)

SweepBegin(s) ==
    /\ s \in Sweepers /\ "sweep" \in mix
    /\ Begin(s, [Idle EXCEPT !.pc = "due", !.kind = "sweep", !.at = now])
    /\ UNCHANGED <<Database, Locks, Outside, History, Counts>>

Ended(s) == sub.ends < sess[s].at
PastGrace(s) == sub.ends < sess[s].at - Grace

\* One SELECT: what it finds is written at once (WriteLapse), and later SELECTs
\* do not find it again.
Select(s, pc, found, status, next) ==
    /\ At(s, pc)
    /\ sess' = [sess EXCEPT
          ![s].pc = IF found THEN "sub" ELSE next,
          ![s].row = IF found THEN [sub EXCEPT !.status = status] ELSE @]
    /\ UNCHANGED <<Database, Locks, Outside, History, Counts>>

SelectDue(s) ==
    Select(s, "due", sub.status = "active" /\ Ended(s) /\ ~PastGrace(s),
           "past_due", "beyond")

SelectBeyond(s) ==
    Select(s, "beyond", sub.status = "past_due" /\ PastGrace(s), "expired", "forced")

\* Mutant: the third SELECT finds nothing.
SelectForcedNever(s) == Select(s, "forced", FALSE, "expired", "commit")

SelectForced(s) ==
    Select(s, "forced", sub.status = "active" /\ PastGrace(s), "expired", "commit")

\* The UPDATE of the status waits for the row and leaves the period alone.
WriteLapse(s) ==
    /\ At(s, "sub") /\ s \in Sweepers
    /\ subLock = NoSession
    /\ subLock' = s
    /\ sess' = [sess EXCEPT ![s].pc = "commit", ![s].row.ends = sub.ends]
    /\ UNCHANGED <<Database, invLock, Outside, History, Counts>>

-----------------------------------------------------------------------------
(* The end of a session.                                                   *)

\* Mutant: the session is left open.
UnlockedNever(s) == UNCHANGED Locks

Unlocked(s) ==
    /\ subLock' = IF subLock = s THEN NoSession ELSE subLock
    /\ invLock' = [i \in Invoices |-> IF invLock[i] = s THEN NoSession ELSE invLock[i]]

Holds(s, i) == invLock[i] = s

\* Of an invoice a refund writes only the status; a payment also the
\* transaction.  The gateway may not get the answer to a payment.
Commit(s) ==
    LET q == sess[s]
        paid == q.kind = "payment"
        voided == q.kind = "refund" /\ Holds(s, q.inv) IN
    /\ At(s, "commit")
    /\ sub' = IF subLock = s THEN q.row ELSE sub
    /\ inv' = [i \in Invoices |->
         IF ~Holds(s, i) THEN inv[i]
         ELSE IF paid THEN q.bill ELSE [inv[i] EXCEPT !.status = q.bill.status]]
    /\ \/ answered' = IF paid THEN answered \cup {q.tx} ELSE answered
       \/ answered' = answered
    /\ credits' = IF paid THEN [credits EXCEPT ![q.tx] = @ + 1] ELSE credits
    /\ voids' = IF voided THEN [voids EXCEPT ![q.inv] = @ + 1] ELSE voids
    /\ byHand' = IF q.kind = "mark_paid" THEN byHand \cup {q.inv} ELSE byHand
    /\ Unlocked(s)
    /\ End(s)
    /\ UNCHANGED <<mix, now, marks, unmatched, deliveries, Counts, unmarked, interrupted>>

\* A statement or a call raises, or the process dies: the transaction is undone,
\* a mark in Redis is not.
Fail(s) ==
    /\ s \in Open
    /\ faults < MaxFaults
    /\ faults' = faults + 1
    /\ interrupted' = interrupted \cup ({sess[s].tx} \cap Txs)
    /\ Unlocked(s)
    /\ End(s)
    /\ UNCHANGED <<Database, Outside, asked, credits, voids, byHand, unmarked>>

Tick ==
    /\ now < MaxTime /\ "sweep" \in mix
    /\ now' = now + 1
    /\ UNCHANGED <<mix, sub, inv, Locks, sess, Outside, History, Counts>>

-----------------------------------------------------------------------------
Step(s) ==
    \/ Dedup(s) \/ Find(s) \/ WriteInvoice(s)
    \/ LoadSub(s) \/ (s \in Sessions /\ WriteSub(s))
    \/ SelectDue(s) \/ SelectBeyond(s) \/ SelectForced(s) \/ WriteLapse(s)
    \/ Commit(s)

Next ==
    \/ \E s \in All : 
         Step(s) \/ SweepBegin(s) \/ DedupFails(s) \/ RecordFails(s) \/ Fail(s)
    \/ \E s \in All, x \in Txs : Deliver(s, x)
    \/ \E s \in All, kind \in Kinds : Ask(s, kind)
    \/ \E s \in All, kind \in Kinds, i \in Invoices : AskInvoice(s, kind, i)
    \/ \E x \in Txs : MarkExpires(x)
    \/ \E i \in Invoices : Generate(i)
    \/ Tick

Spec == Init /\ [][Next]_vars

\* Handlers and sweeps go on with what they have begun, and the loop begins a
\* sweep again and again.
FairSpec ==
    /\ Spec
    /\ WF_vars(\E s \in All : Step(s))
    /\ WF_vars(\E s \in Sweepers : SweepBegin(s))

-----------------------------------------------------------------------------
(* Properties.                                                             *)

\* Every variable keeps its type, and only a session that is open holds a row.
TypeOK ==
    /\ mix \in Mixes /\ now \in Nat
    /\ sub \in SubRow
    /\ subLock \in Open \cup {NoSession}
    /\ inv \in [Invoices -> InvRow]
    /\ invLock \in [Invoices -> Open \cup {NoSession}]
    /\ marks \subseteq Txs /\ unmatched \subseteq Txs
    /\ sess \in [All -> Session]
    /\ deliveries \in [Txs -> Nat] /\ asked \in Nat /\ faults \in Nat
    /\ answered \subseteq Txs /\ interrupted \subseteq Txs
    /\ credits \in [Txs -> Nat] /\ voids \in [Invoices -> Nat]
    /\ byHand \subseteq Invoices /\ unmarked \in Nat
=============================================================================
