----------------------------- MODULE MCWarehouse -----------------------------
(* Values of the constants of Warehouse for TLC.                           *)
EXTENDS Warehouse, TLC

CONSTANTS p1, p2, t1, t2, o1, o2, c1

\* Movements in both directions.
MCFrom == [d \in Moves |-> IF d \in {t1, o1} THEN p1 ELSE p2]
MCTo == [d \in Moves |-> IF d \in {t1, o1} THEN p2 ELSE p1]
MCQty == [d \in Moves |-> 1]
MCCounted == [c \in Counts |-> p2]
MCStock == [p \in Places |-> IF p = p1 THEN 2 ELSE 1]
\* Transfers in one and two phases; with sales; bins, with sales and receipts;
\* a count with sales, receipts, losses, or a transfer.
MCMixes == {{"transfer", "initiate", "arrive"}, {"initiate", "arrive", "sell"},
            {"relocate", "sell"}, {"confirm", "sell", "receive"},
            CountKinds \cup {"sell", "shrink"}, CountKinds \cup {"receive", "shrink"},
            CountKinds \cup {"initiate", "arrive"}}
MCSessions == Permutations(Sessions)
=============================================================================
