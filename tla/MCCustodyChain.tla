---------------------------- MODULE MCCustodyChain ----------------------------
(* A small asset for TLC: two working states, two terminal ones, a         *)
(* workflow in which every typed event type has a transition somewhere,    *)
(* and one transition without an event type, from "loaded" to "open".      *)
EXTENDS CustodyChain, TLC

CONSTANTS r1, r2, r3, w1, w2

\* Wallet w1 is the owner's, so only requests are alike.
MCSymmetry == Permutations(Reqs)

MCStates == {"open", "loaded", "released", "burned"}
MCTerminal == {"released", "burned"}
MCSlugs == {"NOTE", "INSPECTION", "CUSTOM"}
MCInformational == {"NOTE", "INSPECTION"}
MCFlagged == {"INSPECTION"}

MCFlow ==
    [HANDOFF |-> {"open"}, ARRIVED |-> {"open"}, LOADED |-> {"loaded"},
     QC |-> {"open", "burned"}, RELEASED |-> {"released"}, BURN |-> {"burned"}]

MCTargets ==
    [p \in MCStates \X EventTypes |->
        CASE p[1] = "open" /\ p[2] \in DOMAIN MCFlow -> MCFlow[p[2]]
          [] p[1] = "loaded" /\ p[2] \in {"ARRIVED", "QC"} -> MCFlow[p[2]]
          [] p[1] = "loaded" /\ p[2] \notin {"ARRIVED", "QC"} -> {"open"}
          [] OTHER -> {}]

=============================================================================
