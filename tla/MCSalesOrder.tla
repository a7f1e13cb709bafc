---------------------------- MODULE MCSalesOrder ----------------------------
(* Small orders over few units, so that confirmations run short.           *)
EXTENDS SalesOrder

CONSTANTS r1, r2

\* Two orders and the backorders they may have.
MCNumbers == {<<1>>, <<2>>, <<1, 1>>, <<1, 2>>, <<2, 1>>}
MCDemand == [n \in MCNumbers |-> CASE n = <<1>> -> 2 [] n = <<2>> -> 1 [] OTHER -> 0]

MCSent == <<2>>
=============================================================================
