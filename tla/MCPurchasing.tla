----------------------------- MODULE MCPurchasing -----------------------------
(* Values of the constants of Purchasing for TLC.                          *)
EXTENDS Purchasing, TLC

\* An odd key orders one piece, an even one two.
MCQty == [p \in POs |-> IF p % 2 = 1 THEN 1 ELSE 2]
\* Consolidation with what races it; the life of an order; all of an order's
\* endings at once; a consolidation that a late answer brings back.
MCMixes == {{"consolidate", "deconsolidate", "receive", "cancel"},
            {"consolidate", "deconsolidate", "delete", "send"},
            {"submit", "approve", "reject", "send", "edit", "receive"},
            {"send", "confirm", "cancel", "receive", "delete"},
            {"consolidate", "deconsolidate", "submit", "reject", "cancel"}}
MCSessions == Permutations(Sessions)
=============================================================================
