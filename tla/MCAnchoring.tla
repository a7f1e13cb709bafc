----------------------------- MODULE MCAnchoring -----------------------------
(* Values of the constants of Anchoring for TLC.                           *)
EXTENDS Anchoring

CONSTANTS e1, e2, q1, q2, a1, a2

\* Both requests are about the same entity.
MCSource == [i \in Hashes |-> "entity"]

MCMixes == {{e1, e2}, {q1}, {a1, a2}}
=============================================================================
