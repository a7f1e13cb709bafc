--------------------------- MODULE BillingPromises ---------------------------
(***************************************************************************)
(* What subscription-service promises a tenant, the gateway that notifies  *)
(* it of payments, and whoever reconciles them by hand: the state these    *)
(* can tell, and the properties of it.  Billing is what keeps them.        *)
(***************************************************************************)
EXTENDS Integers

CONSTANTS
    Sessions,       \* sessions of requests
    Sweepers,       \* processes that run the expiration loop
    Txs,            \* transactions at the gateway
    Ref,            \* [Txs -> Invoices]: the invoice a transaction refers to
    Grace           \* GRACE_PERIOD_DAYS

VARIABLES
    now,            \* the day
    sub,            \* the subscription as committed
    unmatched,      \* transactions in the ledger of unmatched payments
    sess,           \* every session: where it stands, what it read, what it writes
    deliveries,     \* times each transaction was delivered
    answered,       \* transactions the gateway got an answer for
    credits,        \* commits that set an invoice paid by each transaction
    voids,          \* commits that made each invoice void
    byHand,         \* invoices somebody marked as paid
    unmarked,       \* deliveries handled without a mark, Redis being down
    interrupted     \* transactions a session of which failed, or could not write
                    \* them to the ledger

All == Sessions \cup Sweepers
Open == {s \in All : sess[s].pc # "idle"}

\* However often the gateway repeats itself, a transaction is credited once;
\* again only after its invoice was refunded, or while Redis was down.
CreditedOnce ==
    \A x \in Txs : credits[x] <= 1 + voids[Ref[x]] + unmarked

\* Whoever else has paid, or been told to have paid, the invoice of x.
Rivalled(x) ==
    \/ Ref[x] \in byHand
    \/ \E y \in Txs \ {x} : Ref[y] = Ref[x] /\ deliveries[y] > 0

\* A payment the gateway was told is settled has been credited or is in the
\* ledger of unmatched payments, unless a session of it failed (its mark then
\* hides the gateway's repetition), the ledger refused it (which no one is
\* told), or its invoice was paid another way.
Accounted(x) == credits[x] > 0 \/ x \in unmatched
NoPaymentLost ==
    \A x \in answered :
        \/ Accounted(x) \/ x \in interrupted \/ Rivalled(x)
        \/ \E s \in Open : sess[s].tx = x

\* "Idempotency: already paid with same gateway_tx_id": a payment that is
\* answered without being credited is one that was credited before, or it is
\* in the ledger for manual reconciliation.
EveryPaymentAccounted ==
    \A x \in answered : Accounted(x) \/ \E s \in Open : sess[s].tx = x

\* A subscription whose period has not ended is past due or expired only if
\* the sessions that read and wrote it overlapped: the sweep does not undo a
\* renewal it could have seen, nor a renewal itself.
NotLapsedEarly ==
    [][\A s \in All :
         /\ sess[s].pc = "commit" /\ sess'[s].pc = "idle" /\ sub' # sub
         /\ sub'.status \in {"past_due", "expired"} /\ sub'.ends >= now
         => sess[s].raced]_sess

\* In the end a subscription past its grace period no longer runs, however
\* many sweeps failed or came too late to see it past due.
LapsesInTheEnd ==
    <>[](sub.ends < now - Grace => sub.status \in {"expired", "canceled"})
=============================================================================
