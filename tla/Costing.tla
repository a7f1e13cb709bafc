------------------------------- MODULE Costing -------------------------------
(***************************************************************************)
(* The cost layers of inventory-service: every receipt of one product in   *)
(* one warehouse leaves a layer with its cost (stock_layers), what goes    *)
(* out is charged to the oldest layers, and every level (stock_levels, one *)
(* row without batch and one per batch) carries the average cost of what   *)
(* the layers still hold.                                                  *)
(*                                                                         *)
(* A session is one READ COMMITTED transaction, a step one statement.  The *)
(* costs themselves are left out: an average is the quantities left in the *)
(* layers it was computed from, or Blended, which upsert_level makes of    *)
(* what a level had and the cost of what comes in.  A layer is named by    *)
(* the time its transaction began, which is what created_at holds.         *)
(* Reservations, quarantine and dispatch by expiry, which charges nothing, *)
(* are in StockLevel.                                                      *)
(***************************************************************************)
EXTENDS Integers, FiniteSets, FiniteSetsExt

CONSTANTS
    Sessions,       \* sessions of requests
    NoSession,
    Rows,           \* the levels of the product
    NoBatch,        \* the level without batch
    Methods,        \* valuation methods, one chosen at first
    InitStock,      \* [Rows -> Nat]: units on hand at the start ...
    InitLayer,      \* ... and in the layer that is there
    MaxUnits,       \* bound: units in one operation
    MaxStock,       \* bound: units on hand a receipt may bring a level to
    MaxRequests,    \* bound: requests
    Mixes           \* bound: the operations that happen together, one set chosen at first

\* Layer 0 is there from the start; request i may leave layer i.
Layers == 0 .. MaxRequests
\* receive: whatever comes in at a cost it names; add: at none, or none that
\* counts; deliver: an issue for an order that is delivered.
Kinds == {"receive", "add", "produce", "return", "issue", "deliver", "emit", "remove",
          "adjust"}

ASSUME CostingAssumption ==
    /\ NoSession \notin Sessions
    /\ IsFiniteSet(Rows) /\ NoBatch \in Rows
    /\ Methods \subseteq {"fifo", "weighted_average"}
    /\ InitStock \in [Rows -> Nat] /\ InitLayer \in Nat
    /\ MaxUnits \in Nat /\ MaxStock \in Nat /\ MaxRequests \in Nat
    /\ Mixes \subseteq SUBSET Kinds

VARIABLES
    mix,            \* what may happen in this behaviour
    method,         \* valuation_method of the product
    level,          \* the levels as committed
    levelLock,      \* the session that holds each level's row
    layer,          \* what is left in each layer, as committed
    layerLock,      \* the session that holds each layer's row
    sess,           \* every session: where it stands, what it read and writes
    clock,          \* requests begun
    made,           \* what each layer was made with
    charged,        \* what the committed requests charged to each layer
    suspect         \* the averages may be out of date

vars == <<mix, method, level, levelLock, layer, layerLock, sess, clock, made, charged,
          suspect>>

Valuation == [Layers -> Nat]
Nothing == [k \in Layers |-> 0]
Blended == [k \in Layers |-> -1]
Row == [there : BOOLEAN, onHand : Nat, avg : Valuation \cup {Blended}]
NoRow == [there |-> FALSE, onHand |-> 0, avg |-> Nothing]
AtLeastZero(n) == IF n < 0 THEN 0 ELSE n

\* pc: the statement to come; seen: the level as it was read; put: its rows as
\* they will be; picked: the layers it selected; left: its layers as they will
\* be; took: what it charges them; avg: the average it read; todo: the rows its
\* UPDATE has not reached; late: has that average changed since?
Pcs == {"idle", "read", "upsert", "insert", "set", "layer", "select", "consume",
        "again", "average", "list", "update", "done"}
Idle == [pc |-> "idle", kind |-> "none", row |-> NoBatch, n |-> 0, id |-> 0,
         seen |-> NoRow, put |-> [r \in Rows |-> NoRow], picked |-> {},
         left |-> Nothing, took |-> Nothing, avg |-> Nothing, todo |-> {},
         late |-> FALSE]
Session == [pc : Pcs, kind : Kinds \cup {"none"}, row : Rows, n : Nat, id : Layers,
            seen : Row, put : [Rows -> Row], picked : SUBSET Layers,
            left : Valuation, took : Valuation, avg : Valuation,
            todo : SUBSET Rows, late : BOOLEAN]

Init ==
    /\ mix \in Mixes
    /\ method \in Methods
    /\ layer = [k \in Layers |-> IF k = 0 THEN InitLayer ELSE 0]
    /\ level = [r \in Rows |->
                  IF InitStock[r] = 0 THEN NoRow
                  ELSE [there |-> TRUE, onHand |-> InitStock[r], avg |-> layer]]
    /\ levelLock = [r \in Rows |-> NoSession]
    /\ layerLock = [k \in Layers |-> NoSession]
    /\ sess = [s \in Sessions |-> Idle]
    /\ clock = 0
    /\ made = layer /\ charged = Nothing
    /\ suspect = FALSE

-----------------------------------------------------------------------------
(* What a session sees, holds and still has to do.                         *)

At(s, pc) == sess[s].pc = pc
Open == {s \in Sessions : ~At(s, "idle")}

RowSeen(s, r) == IF levelLock[r] = s THEN sess[s].put[r] ELSE level[r]
RowFree(s, r) == levelLock[r] \in {NoSession, s}

LayersSeen(s) == [k \in Layers |-> IF layerLock[k] = s THEN sess[s].left[k] ELSE layer[k]]

\* Mutant: the layers are selected without FOR UPDATE.
LayersFreeAlways(s) == TRUE

LayersFree(s) == \A k \in sess[s].picked : layerLock[k] \in {NoSession, s}

Database == <<mix, method, level, layer, clock, made, charged, suspect>>
Locks == <<levelLock, layerLock>>

\* A session ends and gives its rows back.
Unlocked(s) ==
    /\ levelLock' = [r \in Rows |-> IF levelLock[r] = s THEN NoSession ELSE levelLock[r]]
    /\ layerLock' = [k \in Layers |-> IF layerLock[k] = s THEN NoSession ELSE layerLock[k]]
End(s) == sess' = [sess EXCEPT ![s] = Idle]

\* The request is refused, or a statement raises: the transaction is undone.
Rollback(s) == Unlocked(s) /\ End(s) /\ UNCHANGED Database

\* One statement after another.
Go(s, new) == sess' = [sess EXCEPT ![s] = new]
Goes(s, pc) == Go(s, [sess[s] EXCEPT !.pc = pc])

-----------------------------------------------------------------------------
(* The requests.                                                           *)

FirstPc(kind) == IF kind \in {"receive", "produce", "add"} THEN "upsert" ELSE "read"

\* Mutant: the layers are charged before the level is locked.
AfterLayersFirst(kind, pc) ==
    CASE pc = "read" -> IF kind = "adjust" THEN "set" ELSE "select"
      [] pc = "select" -> "consume"
      [] pc = "consume" -> "upsert"
      [] pc = "average" -> "list"
      [] pc = "list" -> "update"
      [] OTHER -> "average"

\* What each operation does next: first the level, then the layers, then the
\* average.  Production, the removals and an addition without cost leave the
\* engine out.
After(kind, pc) ==
    CASE pc = "read" -> IF kind = "adjust" THEN "set" ELSE "upsert"
      [] pc \in {"upsert", "insert"} /\ kind \in {"receive", "return", "produce"} -> "layer"
      [] pc \in {"upsert", "insert"} /\ kind \in {"issue", "deliver", "emit"} -> "select"
      [] pc = "select" -> "consume"
      [] pc \in {"layer", "consume"} /\ kind \notin {"produce", "emit"} -> "average"
      [] pc = "average" -> "list"
      [] pc = "list" -> "update"
      [] OTHER -> "done"
NextPc(s) == After(sess[s].kind, sess[s].pc)

Inflows == {"receive", "add", "produce", "return"}
Delta(s) == IF sess[s].kind \in Inflows THEN sess[s].n ELSE -sess[s].n

\* A receipt, an issue and an adjustment may name a batch.
Begin(s, kind, r, n) ==
    /\ At(s, "idle")
    /\ clock < MaxRequests
    /\ kind \in mix
    /\ r = NoBatch \/ kind \in {"receive", "issue", "adjust"}
    /\ n = 0 => kind = "adjust"
    /\ kind \in Inflows => level[r].onHand + n <= MaxStock
    /\ Go(s, [Idle EXCEPT !.kind = kind, !.pc = FirstPc(kind), !.row = r, !.n = n,
                          !.id = clock + 1])
    /\ clock' = clock + 1
    /\ UNCHANGED <<mix, method, level, layer, made, charged, suspect, Locks>>

-----------------------------------------------------------------------------
(* The level: StockService and StockRepository.                            *)

\* Whether an average is worth valuing anything at.
Counts(avg) ==
    CASE avg = Nothing -> {FALSE}
      [] avg = Blended -> BOOLEAN
      [] OTHER -> {TRUE}

\* The level is read without a lock: what goes out must be there, and a
\* return without a cost is valued at the average, or comes in without one.
ReadLevel(s) ==
    LET q == sess[s] row == level[q.row] IN
    /\ At(s, "read")
    /\ IF q.kind \in {"issue", "deliver", "emit", "remove"} /\ row.onHand < q.n
       THEN Rollback(s)
       ELSE \E valued \in Counts(row.avg) :
            /\ Go(s, [q EXCEPT !.seen = row, !.pc = NextPc(s),
                 !.kind = IF @ = "return" /\ ~valued THEN "add" ELSE @])
            /\ UNCHANGED <<Database, Locks>>

\* The row r is locked and will be as row says.
WriteRow(s, r, row, pc) ==
    /\ RowFree(s, r)
    /\ levelLock' = [levelLock EXCEPT ![r] = s]
    /\ Go(s, [sess[s] EXCEPT !.put[r] = row, !.pc = pc])
    /\ UNCHANGED <<Database, layerLock>>

\* A row with nothing on hand is deleted; only what changed is written.
Written(s, onHand) ==
    LET row == level[sess[s].row] seen == sess[s].seen IN
    IF onHand = 0 THEN NoRow
    ELSE IF seen.there /\ onHand = seen.onHand THEN row
    ELSE [row EXCEPT !.onHand = onHand]

\* What comes in at a cost is averaged with what is there, at no more than the
\* cost of nothing too; what names no cost leaves the average alone.
Priced(kind, row) ==
    CASE kind \in {"receive", "return"} -> {Blended}
      [] kind = "add" -> {row.avg, Blended}
      [] OTHER -> {row.avg}
AtPrice(row, avg) == IF row.there THEN [row EXCEPT !.avg = avg] ELSE row

\* upsert_level: SELECT ... FOR UPDATE; the attributes are those of the object
\* the session holds, if it has read the level before (one deleted and made
\* again since counts as the same).  What it adds to a level that is not there
\* is inserted, what it takes from one is not missed.
Upsert(s) ==
    LET q == sess[s] row == level[q.row]
        onHand == (IF q.seen.there THEN q.seen ELSE row).onHand
        new == Written(s, AtLeastZero(onHand + Delta(s))) IN
    /\ At(s, "upsert")
    /\ \/ /\ row.there
          /\ \E avg \in Priced(q.kind, row) :
                WriteRow(s, q.row, AtPrice(new, avg), NextPc(s))
       \/ /\ ~row.there
          /\ Goes(s, IF Delta(s) > 0 THEN "insert" ELSE NextPc(s))
          /\ UNCHANGED <<Database, Locks>>

\* The unique index makes an INSERT wait for another one and then fail.
Insert(s) ==
    LET q == sess[s] IN
    /\ At(s, "insert")
    /\ IF RowFree(s, q.row) /\ level[q.row].there
       THEN Rollback(s)
       ELSE \E avg \in Priced(q.kind, NoRow) :
              WriteRow(s, q.row, [there |-> TRUE, onHand |-> q.n, avg |-> avg], NextPc(s))

\* What an adjustment does after it: what it adds is valued at the average, or
\* not at all; what it takes is charged.
AfterSet(delta, avg) ==
    IF delta < 0 THEN {"select"}
    ELSE {IF delta > 0 /\ valued THEN "layer" ELSE "done" : valued \in Counts(avg)}

\* set_qty: no lock (that it reads the level again is left out); the UPDATE
\* fails if the row is gone, the DELETE does not.
SetQty(s) ==
    LET q == sess[s] row == level[q.row] IN
    /\ At(s, "set")
    /\ \/ /\ q.seen.there /\ row.there
          /\ \E pc \in AfterSet(q.n - q.seen.onHand, row.avg) :
                WriteRow(s, q.row, Written(s, q.n), pc)
       \/ /\ q.seen.there /\ ~row.there
          /\ IF q.n > 0 THEN Rollback(s)
             ELSE \E pc \in AfterSet(-q.seen.onHand, Nothing) :
                  Goes(s, pc) /\ UNCHANGED <<Database, Locks>>
       \/ /\ ~q.seen.there
          /\ Goes(s, IF q.n > 0 THEN "insert" ELSE "done")
          /\ UNCHANGED <<Database, Locks>>

-----------------------------------------------------------------------------
(* The layers: LayerRepository.                                            *)

\* create_layer.
Gained(s) == IF sess[s].kind = "adjust" THEN sess[s].n - sess[s].seen.onHand ELSE sess[s].n

CreateLayer(s) ==
    LET q == sess[s] IN
    /\ At(s, "layer")
    /\ layerLock' = [layerLock EXCEPT ![q.id] = s]
    /\ Go(s, [q EXCEPT !.left[q.id] = Gained(s), !.pc = NextPc(s)])
    /\ UNCHANGED <<Database, levelLock>>

\* consume_fifo: SELECT ... WHERE quantity_remaining > 0 ... FOR UPDATE finds
\* the layers that are there when it begins ...
SelectLayers(s) ==
    /\ At(s, "select")
    /\ Go(s, [sess[s] EXCEPT !.picked = {k \in Layers : layer[k] > 0}, !.pc = NextPc(s)])
    /\ UNCHANGED <<Database, Locks>>

\* ... and has them all when their rows are free.  The oldest come first.
Due(s) == IF sess[s].kind = "adjust" THEN sess[s].seen.onHand - sess[s].n ELSE sess[s].n

Total(left, ks) == MapThenSumSet(LAMBDA k : left[k], ks)
Short(s) == Total(layer, sess[s].picked) < Due(s)

Draws(s) ==
    LET ks == sess[s].picked IN
    {d \in [ks -> 0 .. Due(s)] :
        /\ \A k \in ks : d[k] <= layer[k]
        /\ \A j, k \in ks : j < k /\ d[k] > 0 => d[j] = layer[j]
        /\ IF Short(s) THEN \A k \in ks : d[k] = layer[k] ELSE Total(d, ks) = Due(s)}

\* Too little raises: an issue by fifo and an emission fail, the weighted
\* average and an adjustment swallow it and keep what they charged; so does a
\* delivery by fifo, which goes on without the engine.
Strict(s) == sess[s].kind = "emit" \/ (sess[s].kind = "issue" /\ method = "fifo")
Raised(s) == Short(s) /\ sess[s].kind = "deliver" /\ method = "fifo"

ConsumeLayers(s) ==
    LET ks == sess[s].picked IN
    /\ At(s, "consume")
    /\ LayersFree(s)
    /\ IF Short(s) /\ Strict(s)
       THEN Rollback(s)
       ELSE \E drawn \in Draws(s) :
            /\ layerLock' = [k \in Layers |-> IF k \in ks THEN s ELSE layerLock[k]]
            /\ Go(s, [sess[s] EXCEPT !.pc = IF Raised(s) THEN "again" ELSE NextPc(s),
                 !.took = [k \in Layers |-> IF k \in ks THEN drawn[k] ELSE 0],
                 !.left = [k \in Layers |-> IF k \in ks THEN layer[k] - drawn[k] ELSE 0]])
            /\ UNCHANGED <<Database, levelLock>>

\* The delivery's own upsert_level, after the one of the issue that failed.
DeductAgain(s) ==
    LET q == sess[s] row == RowSeen(s, q.row)
        onHand == AtLeastZero(row.onHand - q.n) IN
    /\ At(s, "again")
    /\ IF row.there
       THEN WriteRow(s, q.row, IF onHand = 0 THEN NoRow ELSE [row EXCEPT !.onHand = onHand],
                     "done")
       ELSE Goes(s, "done") /\ UNCHANGED <<Database, Locks>>

-----------------------------------------------------------------------------
(* The average: CostingEngine.                                             *)

\* get_weighted_average_cost.
ReadAverage(s) ==
    /\ At(s, "average")
    /\ Go(s, [sess[s] EXCEPT !.avg = LayersSeen(s), !.pc = NextPc(s)])
    /\ UNCHANGED <<Database, Locks>>

\* Mutant: only the level that was moved gets the average.
CarriersOwn(s) == {r \in {sess[s].row} : RowSeen(s, r).there}

Carriers(s) == {r \in Rows : RowSeen(s, r).there}

\* _update_level_avg_cost: an UPDATE of the rows that are there when it begins,
\* which waits for each of them and passes over one that is gone.
ListRows(s) ==
    /\ At(s, "list")
    /\ Go(s, [sess[s] EXCEPT !.todo = Carriers(s), !.pc = NextPc(s)])
    /\ UNCHANGED <<Database, Locks>>

UpdateRow(s, r) ==
    LET q == sess[s] IN
    /\ At(s, "update")
    /\ r \in q.todo /\ RowFree(s, r)
    /\ Go(s, [q EXCEPT !.todo = @ \ {r},
         !.put[r] = IF RowSeen(s, r).there THEN [RowSeen(s, r) EXCEPT !.avg = q.avg] ELSE NoRow])
    /\ levelLock' = [levelLock EXCEPT ![r] = s]
    /\ UNCHANGED <<Database, layerLock>>

-----------------------------------------------------------------------------
(* The end of a session.                                                   *)

Done(s) == At(s, "done") \/ (At(s, "update") /\ sess[s].todo = {})

\* What it changes that an average depends on: the layers, which rows there are
\* to carry it, or what one of them carries.
Touches(s) ==
    \/ \E k \in Layers : layerLock[k] = s
    \/ \E r \in Rows :
         /\ levelLock[r] = s /\ sess[s].put[r].there
         /\ ~level[r].there \/ sess[s].put[r].avg = Blended

HasAverage(s) == sess[s].pc \in {"list", "update"}

Commit(s) ==
    LET q == sess[s] IN
    /\ Done(s)
    /\ level' = [r \in Rows |-> RowSeen(s, r)]
    /\ layer' = LayersSeen(s)
    /\ charged' = [k \in Layers |-> charged[k] + q.took[k]]
    /\ made' = IF layerLock[q.id] = s THEN [made EXCEPT ![q.id] = q.left[q.id]] ELSE made
    /\ suspect' = IF HasAverage(s) THEN q.late ELSE suspect \/ Touches(s)
    /\ sess' = [t \in Sessions |->
         CASE t = s -> Idle
           [] t # s /\ HasAverage(t) /\ Touches(s) -> [sess[t] EXCEPT !.late = TRUE]
           [] OTHER -> sess[t]]
    /\ Unlocked(s)
    /\ UNCHANGED <<mix, method, clock>>

\* Whom s may be waiting for.
RowsWanted(s) ==
    CASE At(s, "upsert") \/ At(s, "set") \/ At(s, "again") -> {r \in {sess[s].row} : level[r].there}
      [] At(s, "insert") -> {sess[s].row}
      [] At(s, "update") -> sess[s].todo
      [] OTHER -> {}
LayersWanted(s) == IF At(s, "consume") THEN sess[s].picked ELSE {}
Blockers(s) == {levelLock[r] : r \in RowsWanted(s)} \cup {layerLock[k] : k \in LayersWanted(s)}

\* Every session of a deadlock waits for another one of it.
Deadlocked(ss) == ss # {} /\ \A s \in ss : Blockers(s) \cap (ss \ {s}) # {}

\* PostgreSQL aborts one of them.
Victim(s) ==
    /\ \E ss \in SUBSET Open : s \in ss /\ Deadlocked(ss)
    /\ Rollback(s)

\* A statement raises or the process dies.
Fail(s) == s \in Open /\ Rollback(s)

Step(s) ==
    \/ ReadLevel(s) \/ Upsert(s) \/ Insert(s) \/ SetQty(s)
    \/ CreateLayer(s) \/ SelectLayers(s) \/ ConsumeLayers(s) \/ DeductAgain(s)
    \/ ReadAverage(s) \/ ListRows(s) \/ \E r \in Rows : UpdateRow(s, r)
    \/ Commit(s)

Next ==
    \E s \in Sessions :
        \/ Step(s) \/ Victim(s) \/ Fail(s)
        \/ \E kind \in Kinds, r \in Rows, n \in 0 .. MaxUnits : Begin(s, kind, r, n)

Spec == Init /\ [][Next]_vars

-----------------------------------------------------------------------------
(* Properties.                                                             *)

\* Every variable keeps its type: no level and no layer goes below zero.
TypeOK ==
    /\ mix \in Mixes /\ method \in Methods
    /\ level \in [Rows -> Row] /\ layer \in Valuation
    /\ levelLock \in [Rows -> Sessions \cup {NoSession}]
    /\ layerLock \in [Layers -> Sessions \cup {NoSession}]
    /\ sess \in [Sessions -> Session]
    /\ clock \in Layers
    /\ made \in Valuation /\ charged \in Valuation
    /\ suspect \in BOOLEAN

\* What is left in a layer is what came in with it less what the committed
\* requests charged to it, whatever overlaps (consume_fifo's row locks): no
\* unit is charged twice and none is forgotten.
LayersMatch == \A k \in Layers : layer[k] + charged[k] = made[k]

\* Once an operation of the engine has ended that nobody overlapped, every
\* level carries the average of the layers; it does until production charges
\* or makes a layer without the engine, a delivery finds too few layers and
\* goes on without it, units that come in at no cost make a level or blend its
\* average, or two operations overlap.
AveragesMatch == ~suspect => \A r \in Rows : level[r].there => level[r].avg = layer

\* Operations of one level wait for one another and never in a circle; a
\* deadlock takes operations of two levels (each updates the average on both),
\* or one that goes on without its level because it was deleted after its read.
GoesOnWithout(s) ==
    /\ levelLock[sess[s].row] # s
    /\ sess[s].pc \notin {"read", "upsert", "insert", "set"}
DeadlockNeedsTwoLevels ==
    \A ss \in SUBSET Open : Deadlocked(ss) =>
        \/ \E s, t \in ss : sess[s].row # sess[t].row
        \/ \E s \in ss : GoesOnWithout(s)
=============================================================================
