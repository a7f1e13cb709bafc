------------------------------ MODULE MCCosting ------------------------------
(* Values of the constants of Costing for TLC.                             *)
EXTENDS Costing, TLC

MCStock == [r \in Rows |-> IF r = NoBatch THEN 2 ELSE 1]
\* One unit came in without a layer.
MCLayer == MapThenSumSet(LAMBDA r : MCStock[r], Rows) - 1
\* Goods bought and sold; valued afterwards; moved without a cost; produced;
\* delivered although they came in without a cost.
MCMixes == {{"receive", "issue"}, {"deliver", "return", "adjust"},
            {"receive", "add", "remove", "adjust"}, {"produce", "emit", "issue", "receive"},
            {"add", "deliver"}}
MCSymmetry == Permutations(Sessions)
=============================================================================
