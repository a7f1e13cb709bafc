------------------------- MODULE ProductionPromises -------------------------
(***************************************************************************)
(* What production runs promise those who read the stock: that levels,     *)
(* movements and the runs' own totals tell the same story.  Production is  *)
(* what keeps them so.                                                     *)
(***************************************************************************)
EXTENDS Integers, Functions

CONSTANTS
    Runs,           \* production runs
    Levels,         \* stock levels, one for each product and warehouse
    Take,           \* [Runs -> Levels]: what a run consumes
    InitStock       \* [Levels -> Nat]

VARIABLES
    run,            \* the runs as committed, with the quantities of their recipes
                    \* and the totals of their documents
    level,          \* the levels as committed
    moved,          \* net quantity of the committed movements of each level
    first,          \* what the first emission of each run took
    lost,           \* runs and levels written from what had changed since it was
                    \* read, or by a run of no or negative quantities, and runs
                    \* whose recipe changed after they were released
    excess          \* levels whose reservations an emission missed: it took more
                    \* than the run had left to take, or first took it elsewhere

NeedOf(r) == run[r].need * run[r].mult
YieldOf(r) == run[r].yield * run[r].mult
AtLeastZero(n) == IF n < 0 THEN 0 ELSE n

\* A level agrees with the movements of the runs, whichever warehouse their
\* documents name, unless an emission wrote over a change it had not read or a
\* run of no or negative quantities moved it.
LedgerMatches ==
    \A l \in Levels \ lost : level[l].onHand = InitStock[l] + moved[l]

\* What a run keeps reserved: what it needs from its release to its first
\* emission, and for ever afterwards what that emission did not take.
Held(r) ==
    IF run[r].status \in {"none", "planned", "canceled", "deleted"} THEN 0
    ELSE AtLeastZero(NeedOf(r) - first[r])

\* What is reserved of a level is what its runs hold: neither does a run take
\* another's reservation nor does a canceled one leave any, unless requests
\* overlapped, more was emitted than planned, a run was first emitted from
\* another warehouse, or its recipe was changed after its release.
Users(l) == {r \in Runs : Take[r] = l}
ReservationsFollowRuns ==
    \A l \in Levels \ (lost \cup excess) :
        Users(l) \cap lost = {} =>
            level[l].reserved = SumFunctionOnSet([r \in Users(l) |-> Held(r)], Users(l))

\* A run yields at most what was planned, in however many receipts, unless
\* they overlapped or the recipe changed.
YieldsAsPlanned == \A r \in Runs \ lost : run[r].received <= AtLeastZero(YieldOf(r))
=============================================================================
