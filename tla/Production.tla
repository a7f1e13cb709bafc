------------------------------ MODULE Production ------------------------------
(***************************************************************************)
(* Production runs of inventory-service: a run is planned, released (the   *)
(* material is reserved), emitted (material leaves the stock, in parts or  *)
(* in excess), received (goods enter the stock, in parts), completed and   *)
(* closed; a disassembly takes a product apart the same way.               *)
(*                                                                         *)
(* A session is one READ COMMITTED transaction.  No request locks its run: *)
(* it reads the run and the totals of its emissions and receipts, tests    *)
(* them, and updates the run at the end.  (They are read in one step: a    *)
(* run that changes between the two statements is one that changed after   *)
(* the first.)  The level of a product is read without a lock before an    *)
(* emission, and the object then read is not refreshed by the SELECT ...   *)
(* FOR UPDATE of upsert_level.                                             *)
(*                                                                         *)
(* A run takes one product and gives one.  A product has a level in each   *)
(* warehouse, without batch; an emission or a receipt may name another     *)
(* warehouse than its run's (those of the run do not change).  A recipe    *)
(* may change at any time; its quantities are kept with the run.           *)
(* Multipliers and quantities of a recipe may be edited to nothing or      *)
(* less.  Batches, and two sessions that insert the first row of a level,  *)
(* are in StockLevel.  Costs, layers (consume_fifo may refuse: Fail),      *)
(* resources, document numbers and lineage are left out.                   *)
(***************************************************************************)
EXTENDS Integers, FiniteSets, ProductionPromises

CONSTANTS
    Sessions,       \* sessions of requests
    NoSession,
    NoRun,
    Disassembly,    \* runs that take their product apart
    NoLevel,
    Product,        \* the product of each level; it has one in each warehouse
    Give,           \* [Runs -> Levels]: what a run yields
    Need,           \* [Runs -> Int]: how much a recipe takes, at first
    Yield,          \* [Runs -> Int]: how much it yields, at first
    Recipes,        \* bound: the quantities a recipe may be changed to
    Multipliers,    \* bound: the multipliers a run is edited to
    MaxEmission,    \* bound: units in one emission
    MaxEmitted,     \* bound: units an emission may bring its run to, of either sign
    Mixes           \* bound: what happens together, one set chosen at first (the
                    \* kinds; "elsewhere": documents that name a warehouse;
                    \* "recipe": its changes; "alone": one request at a time)

Kinds == {"edit", "delete", "release", "cancel", "emit", "receive", "close"}
Quantities == [need : Int, yield : Int]

ASSUME ProductionAssumption ==
    /\ NoSession \notin Sessions /\ NoRun \notin Runs /\ NoLevel \notin Levels
    /\ IsFiniteSet(Runs) /\ Disassembly \subseteq Runs
    /\ Take \in [Runs -> Levels] /\ Give \in [Runs -> Levels]
    /\ Need \in [Runs -> Int] /\ Yield \in [Runs -> Int] /\ Recipes \subseteq Quantities
    /\ InitStock \in [Levels -> Nat]
    /\ Multipliers \subseteq Int /\ MaxEmission \in Nat /\ MaxEmitted \in Nat
    /\ Mixes \subseteq SUBSET (Kinds \cup {"elsewhere", "recipe", "alone"})

VARIABLES
    mix,            \* what may happen in this behaviour
    runLock,        \* the session that holds each run's row
    levelLock,      \* the session that holds each level's row
    sess            \* every session: where it stands, what it read and writes

vars == <<mix, run, runLock, level, levelLock, sess, moved, first, lost, excess>>

Statuses == {"none", "planned", "released", "in_progress", "completed",
             "closed", "canceled", "deleted"}
Run == [status : Statuses, mult : Int, need : Int, yield : Int,
        emitted : Int, received : Int]
Blank == [status |-> "none", mult |-> 1, need |-> 1, yield |-> 1,
          emitted |-> 0, received |-> 0]
Row == [there : BOOLEAN, onHand : Nat, reserved : Int]
NoRow == [there |-> FALSE, onHand |-> 0, reserved |-> 0]

\* l: the level the session works on; seen: the run as it was read; snap: the
\* level as it was read; row: the level as it is to be; n: the quantity; all:
\* is_complete.
Idle == [pc |-> "idle", kind |-> "none", r |-> NoRun, l |-> NoLevel, n |-> 0,
         all |-> FALSE, seen |-> Blank, snap |-> NoRow, row |-> NoRow]
Session == [pc : {"idle", "stock", "reserve", "unreserve", "take", "give", "run",
                  "commit"},
            kind : Kinds \cup {"none"}, r : Runs \cup {NoRun},
            l : Levels \cup {NoLevel}, n : Int, all : BOOLEAN, seen : Run,
            snap : Row, row : Row]

Init ==
    /\ mix \in Mixes
    /\ run = [r \in Runs |-> [Blank EXCEPT !.need = Need[r], !.yield = Yield[r]]]
    /\ runLock = [r \in Runs |-> NoSession]
    /\ level = [l \in Levels |-> [there |-> InitStock[l] > 0,
                                  onHand |-> InitStock[l], reserved |-> 0]]
    /\ levelLock = [l \in Levels |-> NoSession]
    /\ sess = [s \in Sessions |-> Idle]
    /\ moved = [l \in Levels |-> 0]
    /\ first = [r \in Runs |-> 0]
    /\ lost = {} /\ excess = {}

At(s, pc) == sess[s].pc = pc
Open == {s \in Sessions : ~At(s, "idle")}
Go(s, pc) == sess' = [sess EXCEPT ![s].pc = pc]

\* What the session works with: the run as it read it.
Needed(s) == sess[s].seen.need * sess[s].seen.mult
Planned(s) == sess[s].seen.yield * sess[s].seen.mult

Database == <<mix, run, level, moved>>
Locks == <<runLock, levelLock>>
History == <<first, lost, excess>>

\* A session ends and gives its rows back.
Unlocked(s) ==
    /\ runLock' = [r \in Runs |-> IF runLock[r] = s THEN NoSession ELSE runLock[r]]
    /\ levelLock' = [l \in Levels |-> IF levelLock[l] = s THEN NoSession ELSE levelLock[l]]
End(s) == sess' = [sess EXCEPT ![s] = Idle]

-----------------------------------------------------------------------------
(* A request reads its run and tests its status.                           *)

\* create_run.
Create(r) ==
    /\ run[r].status = "none"
    /\ run' = [run EXCEPT ![r].status = "planned"]
    /\ UNCHANGED <<mix, level, moved, Locks, sess, History>>

\* update_recipe, whatever the status of the runs that follow it.
UpdateRecipe(r, recipe) ==
    /\ "recipe" \in mix
    /\ run' = [run EXCEPT ![r].need = recipe.need, ![r].yield = recipe.yield]
    /\ lost' = IF run[r].status \in {"none", "planned"} THEN lost ELSE lost \cup {r}
    /\ UNCHANGED <<mix, level, moved, Locks, sess, first, excess>>

From(kind) ==
    CASE kind = "cancel" -> {"planned", "released"}
      [] kind = "emit" -> {"released", "in_progress"}
      [] kind = "receive" -> {"in_progress"}
      [] kind = "close" -> {"completed"}
      [] OTHER -> {"planned"}

Begin(s, kind, r, l, new) ==
    /\ At(s, "idle")
    /\ "alone" \in mix => Open = {}
    /\ kind \in mix /\ run[r].status \in From(kind)
    /\ sess' = [sess EXCEPT ![s] =
                  [new EXCEPT !.kind = kind, !.r = r, !.l = l, !.seen = run[r]]]
    /\ UNCHANGED <<Database, Locks, History>>

\* Mutant: canceling releases a reservation whether or not the run made one.
HoldsReservationAlways(r) == TRUE

HoldsReservation(r) == run[r].status = "released"

Release(s, r) == Begin(s, "release", r, Take[r], [Idle EXCEPT !.pc = "stock"])

Cancel(s, r) ==
    Begin(s, "cancel", r, Take[r],
          [Idle EXCEPT !.pc = IF HoldsReservation(r) THEN "unreserve" ELSE "run"])

\* update_run (a new multiplier, of any sign), delete_run and close_run.
Edit(s, r, mult) ==
    /\ mult # run[r].mult
    /\ Begin(s, "edit", r, Take[r], [Idle EXCEPT !.pc = "run", !.n = mult])
Delete(s, r) == Begin(s, "delete", r, Take[r], [Idle EXCEPT !.pc = "run"])
Close(s, r) == Begin(s, "close", r, Take[r], [Idle EXCEPT !.pc = "run"])

\* A document names a warehouse, or goes to that of its run.
Warehouse(l, own) == l = own \/ ("elsewhere" \in mix /\ Product[l] = Product[own])

\* An emission takes any quantity while something is left to take; that of a
\* disassembly always takes the whole product from the run's own level.
Emit(s, r, l, n) ==
    /\ run[r].emitted + n \in -MaxEmitted .. MaxEmitted
    /\ \/ r \in Disassembly /\ n = NeedOf(r) /\ l = Take[r]
       \/ /\ r \notin Disassembly /\ n \in 1 .. MaxEmission
          /\ run[r].emitted < NeedOf(r) /\ Warehouse(l, Take[r])
    /\ Begin(s, "emit", r, l, [Idle EXCEPT !.pc = "stock", !.n = n])

\* Mutant: what was received before does not count.
PendingAll(r) == YieldOf(r)

Pending(r) == YieldOf(r) - run[r].received

\* A receipt gives at most what is pending, and completes the run if it says
\* so or nothing is; that of a disassembly gives everything (and divides by the
\* multiplier).
Receive(s, r, l, n, all) ==
    /\ \/ r \in Disassembly /\ n = YieldOf(r) /\ all /\ (run[r].need > 0 => run[r].mult # 0)
       \/ r \notin Disassembly /\ n \in 1 .. Pending(r)
    /\ Warehouse(l, Give[r])
    /\ Begin(s, "receive", r, l, [Idle EXCEPT !.pc = "give", !.n = n, !.all = all])

-----------------------------------------------------------------------------
(* The stock.                                                              *)

Free(l) == levelLock[l] = NoSession

\* The level is read without a lock: a release needs it available, an emission
\* on hand, whoever has reserved it.
ReadStock(s) ==
    LET row == level[sess[s].l] IN
    /\ At(s, "stock")
    /\ sess' =
         IF sess[s].kind = "release" /\ row.onHand - row.reserved >= Needed(s)
         THEN [sess EXCEPT ![s].pc = "reserve"]
         ELSE IF sess[s].kind = "emit" /\ row.onHand >= sess[s].n
         THEN [sess EXCEPT ![s].pc = "take", ![s].snap = row]
         ELSE [sess EXCEPT ![s] = Idle]
    /\ UNCHANGED <<Database, Locks, History>>

\* The row of level l, locked and written.
WriteLevel(s, l, row, pc) ==
    /\ Free(l)
    /\ levelLock' = [levelLock EXCEPT ![l] = s]
    /\ sess' = [sess EXCEPT ![s].row = row, ![s].pc = pc]
    /\ UNCHANGED <<Database, runLock, History>>

\* UPDATE ... WHERE qty_on_hand - qty_reserved >= qty; reserve raises if it
\* asked for something and no row is updated.
Reserved(row, n) == IF row.there THEN [row EXCEPT !.reserved = @ + n] ELSE row

Reserve(s) ==
    LET l == sess[s].l row == level[l] IN
    /\ At(s, "reserve")
    /\ IF row.onHand - row.reserved >= Needed(s)
       THEN WriteLevel(s, l, Reserved(row, Needed(s)), "run")
       ELSE End(s) /\ UNCHANGED <<Database, Locks, History>>

\* UPDATE ... WHERE qty_reserved >= qty; nobody looks whether a row was updated.
Releasable(row, n) == row.there /\ row.reserved >= n
Unreserved(row, n) == IF Releasable(row, n) THEN [row EXCEPT !.reserved = @ - n] ELSE row

Unreserve(s) ==
    LET l == sess[s].l row == level[l] IN
    /\ At(s, "unreserve")
    /\ IF Releasable(row, Needed(s))
       THEN WriteLevel(s, l, Unreserved(row, Needed(s)), "run")
       ELSE Go(s, "run") /\ UNCHANGED <<Database, Locks, History>>

\* upsert_level: on hand is what the session read and the change, at least
\* nothing; a row left with nothing on hand and, when it was read, nothing
\* reserved is deleted.
Upserted(row, snap, delta) ==
    LET left == AtLeastZero(snap.onHand + delta) IN
    IF ~row.there
    THEN IF delta > 0 THEN [there |-> TRUE, onHand |-> delta, reserved |-> 0] ELSE row
    ELSE IF left = 0 /\ snap.reserved <= 0 THEN NoRow
    ELSE [row EXCEPT !.onHand = left]

\* The reservation is released by the first emission of a run only; by every
\* emission of a disassembly.
Releases(s) ==
    \/ sess[s].r \in Disassembly
    \/ sess[s].seen.status = "released" \/ sess[s].seen.emitted = 0

\* upsert_level, and release_reservation at the same level.
TakeStock(s) ==
    LET l == sess[s].l n == sess[s].n
        taken == Upserted(level[l], sess[s].snap, -n) IN
    /\ At(s, "take")
    /\ WriteLevel(s, l, IF Releases(s) THEN Unreserved(taken, n) ELSE taken,
         IF sess[s].seen.status = "released" THEN "run" ELSE "commit")

\* Mutant: upsert_level reads the level without a lock.
ForUpdateNever(l) == TRUE

ForUpdate(l) == Free(l)

\* A receipt reads the level for the first time under its lock.
GiveStock(s) ==
    LET l == sess[s].l IN
    /\ At(s, "give")
    /\ ForUpdate(l)
    /\ levelLock' = [levelLock EXCEPT ![l] = s]
    /\ sess' = [sess EXCEPT ![s].pc = "run",
          ![s].row = Upserted(level[l], level[l], sess[s].n)]
    /\ UNCHANGED <<Database, runLock, History>>

-----------------------------------------------------------------------------
(* The run is updated, and the session ends.                               *)

\* The UPDATE waits for the run's row, and fails if it is gone.
WriteRun(s) ==
    LET r == sess[s].r IN
    /\ At(s, "run")
    /\ runLock[r] = NoSession
    /\ IF run[r].status = "deleted" /\ sess[s].kind # "delete"
       THEN Unlocked(s) /\ End(s)
       ELSE /\ runLock' = [runLock EXCEPT ![r] = s]
            /\ Go(s, "commit")
            /\ UNCHANGED levelLock
    /\ UNCHANGED <<Database, History>>

\* What the session writes of its run.
Updated(s) ==
    LET q == sess[s] now == run[q.r] IN
    CASE q.kind = "release" -> [now EXCEPT !.status = "released"]
      [] q.kind = "cancel" -> [now EXCEPT !.status = "canceled"]
      [] q.kind = "delete" -> [Blank EXCEPT !.status = "deleted"]
      [] q.kind = "close" -> [now EXCEPT !.status = "closed"]
      [] q.kind = "edit" -> [now EXCEPT !.mult = q.n]
      [] q.kind = "emit" ->
           [now EXCEPT !.emitted = @ + q.n,
              !.status = IF q.seen.status = "released" THEN "in_progress" ELSE @]
      [] q.kind = "receive" ->
           [now EXCEPT !.received = @ + q.n,
              !.status = IF q.all \/ q.seen.received + q.n >= Planned(s)
                         THEN "completed" ELSE @]

\* The net quantity a session moves in or out of level l.
Movement(s, l) ==
    CASE sess[s].kind = "emit" /\ l = sess[s].l -> -sess[s].n
      [] sess[s].kind = "receive" /\ l = sess[s].l -> sess[s].n
      [] OTHER -> 0

\* The run, or the level, was changed by another session since s read it.
Outdated(s) == run[sess[s].r] # sess[s].seen
Overwritten(s) == sess[s].kind = "emit" /\ level[sess[s].l] # sess[s].snap

\* A run that takes or yields nothing or less moves its stock.
Void(s) ==
    /\ sess[s].kind \in {"release", "emit", "receive"}
    /\ Needed(s) < 1 \/ Planned(s) < 1

\* More is taken than the run had left to take, or its reservation is released
\* in another warehouse than the one it is in.
Exceeds(s) ==
    /\ sess[s].kind = "emit"
    /\ \/ sess[s].seen.emitted + sess[s].n > Needed(s)
       \/ sess[s].l # Take[sess[s].r] /\ Releases(s)

Commit(s) ==
    LET r == sess[s].r l == sess[s].l IN
    /\ At(s, "commit")
    /\ run[r].status # "deleted" \/ sess[s].kind = "delete"
    /\ run' = [run EXCEPT ![r] = Updated(s)]
    /\ level' = [k \in Levels |-> IF levelLock[k] = s THEN sess[s].row ELSE level[k]]
    /\ moved' = [k \in Levels |-> moved[k] + Movement(s, k)]
    /\ first' = IF sess[s].kind = "emit" /\ first[r] = 0
                THEN [first EXCEPT ![r] = sess[s].n] ELSE first
    /\ lost' = lost \cup (IF Outdated(s) \/ Void(s) THEN {r} ELSE {})
                    \cup (IF Overwritten(s) \/ Void(s) THEN {l} ELSE {})
    /\ excess' = IF Exceeds(s) THEN excess \cup {l, Take[r]} ELSE excess
    /\ Unlocked(s) /\ End(s)
    /\ UNCHANGED mix

\* A statement raises or the process dies: the transaction is undone.
Fail(s) ==
    /\ s \in Open
    /\ Unlocked(s) /\ End(s)
    /\ UNCHANGED <<Database, History>>

-----------------------------------------------------------------------------
Request(s, r) ==
    \/ Release(s, r) \/ Cancel(s, r) \/ Delete(s, r) \/ Close(s, r)
    \/ \E mult \in Multipliers : Edit(s, r, mult)
    \/ \E l \in Levels, n \in {NeedOf(r)} \cup 1 .. MaxEmission : Emit(s, r, l, n)
    \/ \E l \in Levels, n \in {YieldOf(r)} \cup 1 .. YieldOf(r), all \in BOOLEAN :
         Receive(s, r, l, n, all)

Step(s) ==
    \/ ReadStock(s) \/ Reserve(s) \/ Unreserve(s) \/ TakeStock(s) \/ GiveStock(s)
    \/ WriteRun(s) \/ Commit(s)

Next ==
    \/ \E s \in Sessions : Step(s) \/ Fail(s) \/ \E r \in Runs : Request(s, r)
    \/ \E r \in Runs : Create(r) \/ \E recipe \in Recipes : UpdateRecipe(r, recipe)

Spec == Init /\ [][Next]_vars

-----------------------------------------------------------------------------
(* Properties.                                                             *)

\* Every variable keeps its type, and only a session that is open holds a row.
TypeOK ==
    /\ mix \in Mixes
    /\ run \in [Runs -> Run] /\ level \in [Levels -> Row]
    /\ runLock \in [Runs -> Open \cup {NoSession}]
    /\ levelLock \in [Levels -> Open \cup {NoSession}]
    /\ sess \in [Sessions -> Session]
    /\ moved \in [Levels -> Int] /\ first \in [Runs -> Int]
    /\ lost \subseteq Runs \cup Levels /\ excess \subseteq Levels
=============================================================================
