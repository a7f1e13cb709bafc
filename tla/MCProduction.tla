----------------------------- MODULE MCProduction -----------------------------
(* Values of the constants of Production for TLC.                          *)
EXTENDS Production, TLC

CONSTANTS r1, r2, raw, spare, good

\* Both runs take raw, of which there is some in a second warehouse, and give
\* good: r1 two of two, r2 takes one raw apart.
MCTake == [r \in Runs |-> raw]
MCGive == [r \in Runs |-> good]
MCProduct == [l \in Levels |-> IF l = good THEN good ELSE raw]
MCNeed == [r \in Runs |-> IF r = r1 THEN 2 ELSE 1]
MCYield == [r \in Runs |-> IF r = r1 THEN 2 ELSE 1]
MCStock == [l \in Levels |-> CASE l = raw -> 3 [] l = spare -> 1 [] OTHER -> 0]
MCRecipes == {[need |-> 1, yield |-> 1]}
\* Everything, one request at a time; and two at a time what happens until the
\* material has left, until the release, while the recipe changes, and later.
MCMixes == {{"release", "edit", "delete", "cancel", "emit", "receive", "close",
             "elsewhere", "recipe", "alone"},
            {"release", "cancel", "emit", "elsewhere"},
            {"release", "edit", "cancel"}, {"release", "delete", "cancel"},
            {"release", "cancel", "recipe"}, {"release", "emit", "receive"}}
MCMultipliers == {-1, 0, 2}
MCSymmetry == Permutations(Sessions)
=============================================================================
