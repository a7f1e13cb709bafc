------------------------------ MODULE MCBilling ------------------------------
(* Values of the constants of Billing for TLC.                             *)
EXTENDS Billing

CONSTANTS x1, x2, i1

\* Two payments of one invoice.
MCRef == [x \in Txs |-> i1]
\* Payments, refunds and invoices marked by hand; a payment and the sweep; the
\* sweep and what administrators do with the subscription.
MCMixes == {Txs \cup InvoiceKinds, {x1, "sweep", "upgrade"}, {"sweep"} \cup SubKinds}
=============================================================================
