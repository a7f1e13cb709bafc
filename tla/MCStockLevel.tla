---------------------------- MODULE MCStockLevel ----------------------------
(* Values of the constants of StockLevel for TLC.                          *)
EXTENDS StockLevel

CONSTANTS b1, b2

\* Oldest first; the row without batch is listed last by FEFO (no expiration
\* date) and may be listed first by LIFO.
MCFifo == [s \in Slots |-> CASE s = b1 -> 1 [] s = b2 -> 2 [] OTHER -> 0]
MCFefo == [s \in Slots |-> CASE s = b1 -> 1 [] s = b2 -> 2 [] OTHER -> 3]
MCLifo == [s \in Slots |-> 3 - MCFefo[s]]
MCDispatchOrders == {MCFefo, MCLifo}
MCNoDispatch == {MCFefo}
MCOneEach == [s \in Slots |-> 1]

\* waste takes the steps of adjust_out.
MCKinds == AllKinds \ {"waste"}
MCInflowVsIssue == {"receive", "issue"}
=============================================================================
