---------------------------- MODULE CostingProofs ----------------------------
(***************************************************************************)
(* What Costing keeps true for any number of sessions, levels and layers:  *)
(* layers and charges agree, levels carry the average of the layers, and   *)
(* sessions on one level do not deadlock.                                  *)
(*                                                                         *)
(* LayersMatch is not inductive: a commit writes what was computed when    *)
(* the layers were locked.  Holds says that this is still what the layers  *)
(* hold (nobody else writes a layer that is locked), that nothing is       *)
(* charged to a layer that is not locked, and that the layers a session    *)
(* has selected are none that is still being made; Ids, that the layer a   *)
(* session makes is its own.  That no layer goes below zero needs Gains.   *)
(***************************************************************************)
EXTENDS Costing, TLAPS

\* Where a session has not touched a layer yet.
Early == {"idle", "read", "upsert", "insert", "set", "layer", "select", "consume"}

Unused(k) == layer[k] = 0 /\ charged[k] = 0 /\ made[k] = 0

Ids ==
    /\ \A s \in Sessions : sess[s].pc # "idle" =>
         sess[s].id > 0 /\ sess[s].id <= clock /\ Unused(sess[s].id)
    /\ \A s, t \in Sessions :
         s # t /\ sess[s].pc # "idle" /\ sess[t].pc # "idle" => sess[s].id # sess[t].id
    /\ \A k \in Layers : k > clock => Unused(k)

Holds ==
    \A s \in Sessions, k \in Layers :
        /\ layerLock[k] = s =>
             /\ sess[s].pc \notin Early
             /\ k = sess[s].id \/ (made[k] > 0 /\ sess[s].left[k] + sess[s].took[k] = layer[k])
        /\ sess[s].took[k] > 0 => layerLock[k] = s /\ k # sess[s].id
        /\ k \in sess[s].picked => made[k] > 0

GainsIn(q) == q.pc = "layer" /\ q.kind = "adjust" => q.n > q.seen.onHand
Gains == \A s \in Sessions : GainsIn(sess[s])

LayerInv == TypeOK /\ Gains /\ Ids /\ Holds /\ LayersMatch

-----------------------------------------------------------------------------
(* Types.                                                                  *)

LEMMA ConstantTypes ==
    /\ NoSession \notin Sessions /\ NoBatch \in Rows
    /\ 0 \in Layers /\ Layers \subseteq Nat
    /\ Nothing \in Valuation /\ NoRow \in Row /\ Idle \in Session
    /\ Idle.pc = "idle" /\ Idle.id = 0 /\ Idle.picked = {}
    /\ \A k \in Layers : Idle.left[k] = 0 /\ Idle.took[k] = 0
<1>1. Nothing \in Valuation /\ 0 \in Layers /\ Layers \subseteq Nat
  BY CostingAssumption DEF Nothing, Valuation, Layers
<1>2. NoRow \in Row
  BY <1>1 DEF NoRow, Row
<1>3. Idle \in Session
  BY <1>1, <1>2, CostingAssumption DEF Idle, Session, Pcs
<1> QED BY <1>1, <1>2, <1>3, CostingAssumption DEF Idle, Nothing

LEMMA SessionFields ==
    ASSUME TypeOK, NEW s \in Sessions
    PROVE  /\ sess[s] \in Session /\ sess[s].pc \in Pcs
           /\ sess[s].kind \in Kinds \cup {"none"}
           /\ sess[s].row \in Rows /\ sess[s].n \in Nat /\ sess[s].id \in Layers
           /\ sess[s].seen \in Row /\ sess[s].seen.onHand \in Nat
           /\ sess[s].put \in [Rows -> Row] /\ sess[s].picked \subseteq Layers
           /\ sess[s].left \in Valuation /\ sess[s].took \in Valuation
           /\ sess[s].avg \in Valuation /\ level[sess[s].row] \in Row
           /\ sess[s].todo \subseteq Rows /\ layer \in Valuation
BY DEF TypeOK, Session, Row

LEMMA AfterType == \A kind, pc : After(kind, pc) \in Pcs /\ After(kind, pc) # "idle"
BY DEF After, Pcs

LEMMA SeenTypes ==
    ASSUME TypeOK, NEW s \in Sessions
    PROVE  /\ \A r \in Rows : RowSeen(s, r) \in Row
           /\ LayersSeen(s) \in Valuation
BY SessionFields DEF RowSeen, LayersSeen, TypeOK, Valuation

\* One session goes on: it takes or keeps rows of levels, and nothing else.
LEMMA Quiet ==
    ASSUME LayerInv, NEW s \in Sessions, NEW q \in Session,
           sess' = [sess EXCEPT ![s] = q],
           q.id = sess[s].id, q.left = sess[s].left, q.took = sess[s].took,
           q.picked = sess[s].picked, q.pc # "idle", sess[s].pc # "idle",
           q.pc \in Early => sess[s].pc \in Early, GainsIn(q),
           levelLock' \in [Rows -> Sessions \cup {NoSession}],
           UNCHANGED <<Database, layerLock>>
    PROVE  LayerInv'
<1>1. \A t \in Sessions : sess'[t] = IF t = s THEN q ELSE sess[t]
  BY DEF LayerInv, TypeOK
<1>2. UNCHANGED <<mix, method, level, layer, clock, made, charged, suspect, layerLock>>
  BY DEF Database
<1>3. TypeOK'
  BY <1>2 DEF LayerInv, TypeOK
<1>4. Gains'
  BY <1>1 DEF LayerInv, Gains
<1>5. Ids'
  BY <1>1, <1>2 DEF LayerInv, Ids, Unused
<1>6. Holds'
  BY <1>1, <1>2 DEF LayerInv, Holds
<1>7. LayersMatch'
  BY <1>2 DEF LayerInv, LayersMatch
<1> QED BY <1>3, <1>4, <1>5, <1>6, <1>7 DEF LayerInv

\* The locks of a session that ends are free, and the others stay.
LEMMA UnlockedLocks ==
    ASSUME LayerInv, NEW s \in Sessions, Unlocked(s)
    PROVE  /\ levelLock' \in [Rows -> Sessions \cup {NoSession}]
           /\ layerLock' \in [Layers -> Sessions \cup {NoSession}]
           /\ \A k \in Layers : layerLock'[k] # s
           /\ \A t \in Sessions, k \in Layers : t # s => (layerLock'[k] = t <=> layerLock[k] = t)
BY ConstantTypes DEF Unlocked, LayerInv, TypeOK

LEMMA Undone ==
    ASSUME LayerInv, NEW s \in Sessions, Rollback(s)
    PROVE  LayerInv'
<1>1. /\ \A t \in Sessions : sess'[t] = IF t = s THEN Idle ELSE sess[t]
      /\ sess' \in [Sessions -> Session]
  BY ConstantTypes DEF LayerInv, TypeOK, Rollback, End
<1>2. UNCHANGED <<mix, method, level, layer, clock, made, charged, suspect>> /\ Unlocked(s)
  BY DEF Rollback, Database
<1>3. TypeOK'
  BY <1>1, <1>2, UnlockedLocks DEF LayerInv, TypeOK
<1>4. Gains'
  BY <1>1, ConstantTypes DEF LayerInv, Gains, GainsIn
<1>5. Ids'
  BY <1>1, <1>2, ConstantTypes DEF LayerInv, Ids, Unused
<1>6. Holds'
  BY <1>1, <1>2, UnlockedLocks, ConstantTypes DEF LayerInv, Holds
<1>7. LayersMatch'
  BY <1>2 DEF LayerInv, LayersMatch
<1> QED BY <1>3, <1>4, <1>5, <1>6, <1>7 DEF LayerInv

-----------------------------------------------------------------------------
(* Initial states and requests.                                            *)

LEMMA LayersInit == Init => LayerInv
<1> SUFFICES ASSUME Init PROVE LayerInv
  OBVIOUS
<1>1. layer \in Valuation /\ layer = made /\ charged = Nothing /\ clock = 0
  BY CostingAssumption DEF Init, Valuation
<1>2. level \in [Rows -> Row]
  BY <1>1, ConstantTypes, CostingAssumption DEF Init, Row
<1>3. TypeOK
  BY <1>1, <1>2, ConstantTypes, CostingAssumption DEF Init, TypeOK
<1>4. Gains
  BY ConstantTypes DEF Init, Gains, GainsIn
<1>5. Ids
  BY <1>1, ConstantTypes DEF Init, Ids, Unused, Nothing
<1>6. Holds
  BY ConstantTypes DEF Init, Holds
<1>7. LayersMatch
  BY <1>1 DEF LayersMatch, Nothing, Valuation
<1> QED BY <1>3, <1>4, <1>5, <1>6, <1>7 DEF LayerInv

LEMMA BeginKeeps ==
    ASSUME LayerInv, NEW s \in Sessions, NEW kind \in Kinds, NEW r \in Rows, NEW n \in Nat,
           Begin(s, kind, r, n)
    PROVE  LayerInv'
<1> DEFINE q == [Idle EXCEPT !.kind = kind, !.pc = FirstPc(kind), !.row = r, !.n = n,
                             !.id = clock + 1]
<1>1. /\ sess' = [sess EXCEPT ![s] = q] /\ clock' = clock + 1 /\ clock < MaxRequests
      /\ sess[s].pc = "idle"
      /\ UNCHANGED <<mix, method, level, layer, made, charged, suspect, levelLock, layerLock>>
  BY DEF Begin, Go, Locks, At
<1>2. clock \in Nat /\ clock + 1 \in Layers
  BY <1>1, CostingAssumption DEF LayerInv, TypeOK, Layers
<1>3. /\ q \in Session /\ q.pc \in {"upsert", "read"} /\ q.id = clock + 1
      /\ q.left = Idle.left /\ q.took = Idle.took /\ q.picked = {}
  BY <1>2, ConstantTypes DEF Session, FirstPc, Pcs
<1> HIDE DEF q
<1>4. \A t \in Sessions : sess'[t] = IF t = s THEN q ELSE sess[t]
  BY <1>1 DEF LayerInv, TypeOK
<1>5. TypeOK'
  BY <1>1, <1>2, <1>3 DEF LayerInv, TypeOK
<1>6. Gains'
  BY <1>3, <1>4 DEF LayerInv, Gains, GainsIn
<1>7. Ids'
  <2>1. Unused(clock + 1)
    BY <1>2 DEF LayerInv, Ids
  <2>2. \A t \in Sessions : sess[t].id \in Nat
    BY SessionFields, ConstantTypes DEF LayerInv
  <2>3. \A k \in Layers : k \in Nat
    BY ConstantTypes
  <2> QED BY <1>1, <1>2, <1>3, <1>4, <2>1, <2>2, <2>3 DEF LayerInv, Ids, Unused
<1>8. Holds'
  <2>1. \A k \in Layers : layerLock[k] # s
    BY <1>1 DEF LayerInv, Holds, Early
  <2> QED BY <1>1, <1>3, <1>4, <2>1, ConstantTypes DEF LayerInv, Holds
<1>9. LayersMatch'
  BY <1>1 DEF LayerInv, LayersMatch
<1> QED BY <1>5, <1>6, <1>7, <1>8, <1>9 DEF LayerInv

-----------------------------------------------------------------------------
(* The statements.                                                         *)

LEMMA ReadLevelKeeps ==
    ASSUME LayerInv, NEW s \in Sessions, ReadLevel(s)
    PROVE  LayerInv'
<1> DEFINE row == level[sess[s].row]
           Kind(valued) == IF sess[s].kind = "return" /\ ~valued THEN "add" ELSE sess[s].kind
           Q(valued) == [sess[s] EXCEPT !.seen = row, !.pc = NextPc(s), !.kind = Kind(valued)]
<1>1. CASE Rollback(s)
  BY <1>1, Undone
<1>2. ASSUME NEW valued \in Counts(row.avg), sess' = [sess EXCEPT ![s] = Q(valued)],
             UNCHANGED <<Database, Locks>>
      PROVE  LayerInv'
  <2> DEFINE kind == Kind(valued)
             q == [sess[s] EXCEPT !.seen = row, !.pc = NextPc(s), !.kind = kind]
  <2>1. sess[s].pc = "read" /\ NextPc(s) \in {"set", "upsert"}
    BY DEF ReadLevel, At, NextPc, After
  <2>2. q \in Session
    <3>1. sess[s] \in Session /\ row \in Row /\ kind \in Kinds \cup {"none"}
      BY SessionFields DEF LayerInv, Kinds
    <3>2. NextPc(s) \in Pcs
      BY <2>1 DEF Pcs
    <3> HIDE DEF row, kind
    <3> QED BY <3>1, <3>2 DEF Session
  <2>3. /\ q.pc = NextPc(s) /\ q.id = sess[s].id /\ q.left = sess[s].left
        /\ q.took = sess[s].took /\ q.picked = sess[s].picked
    BY SessionFields DEF LayerInv, Session
  <2>6. sess' = [sess EXCEPT ![s] = q]
    BY <1>2
  <2> HIDE DEF q
  <2>4. GainsIn(q)
    BY <2>1, <2>3 DEF GainsIn
  <2>5. levelLock' \in [Rows -> Sessions \cup {NoSession}] /\ UNCHANGED <<Database, layerLock>>
    BY <1>2 DEF Locks, LayerInv, TypeOK
  <2> QED BY <2>1, <2>2, <2>3, <2>4, <2>5, <2>6, Quiet DEF Early
<1> QED BY <1>1, <1>2 DEF ReadLevel, Go

\* A level is written, or passed over.
LEMMA WriteRowKeeps ==
    ASSUME LayerInv, NEW s \in Sessions, NEW r \in Rows, NEW row \in Row, NEW pc \in Pcs,
           WriteRow(s, r, row, pc), sess[s].pc # "idle", pc # "idle",
           pc \in Early => sess[s].pc \in Early,
           pc = "layer" /\ sess[s].kind = "adjust" => sess[s].n > sess[s].seen.onHand
    PROVE  LayerInv'
<1> DEFINE q == [sess[s] EXCEPT !.put[r] = row, !.pc = pc]
<1>1. q \in Session
  BY SessionFields DEF LayerInv, Session
<1>2. /\ q.pc = pc /\ q.id = sess[s].id /\ q.left = sess[s].left /\ q.n = sess[s].n
      /\ q.took = sess[s].took /\ q.picked = sess[s].picked
      /\ q.kind = sess[s].kind /\ q.seen = sess[s].seen
  BY SessionFields DEF LayerInv, Session
<1>3. /\ sess' = [sess EXCEPT ![s] = q] /\ UNCHANGED <<Database, layerLock>>
      /\ levelLock' \in [Rows -> Sessions \cup {NoSession}]
  BY DEF WriteRow, Go, LayerInv, TypeOK
<1> HIDE DEF q
<1> QED BY <1>1, <1>2, <1>3, Quiet DEF GainsIn, Early

LEMMA GoesKeeps ==
    ASSUME LayerInv, NEW s \in Sessions, NEW pc \in Pcs, Goes(s, pc),
           sess[s].pc \in Early \ {"idle"}, pc # "idle",
           pc = "layer" => sess[s].kind # "adjust", UNCHANGED <<Database, Locks>>
    PROVE  LayerInv'
<1> DEFINE q == [sess[s] EXCEPT !.pc = pc]
<1>1. q \in Session
  BY SessionFields DEF LayerInv, Session
<1>2. /\ q.pc = pc /\ q.id = sess[s].id /\ q.left = sess[s].left
      /\ q.took = sess[s].took /\ q.picked = sess[s].picked /\ q.kind = sess[s].kind
  BY SessionFields DEF LayerInv, Session
<1>3. /\ sess' = [sess EXCEPT ![s] = q] /\ UNCHANGED <<Database, layerLock>>
      /\ levelLock' \in [Rows -> Sessions \cup {NoSession}]
  BY DEF Goes, Go, Locks, LayerInv, TypeOK
<1> HIDE DEF q
<1> QED BY <1>1, <1>2, <1>3, Quiet DEF GainsIn, Early

LEMMA WrittenType ==
    ASSUME TypeOK, NEW s \in Sessions, NEW n \in Nat
    PROVE  Written(s, n) \in Row
BY SessionFields, ConstantTypes DEF Written, Row

LEMMA PricedTypes ==
    ASSUME NEW kind, NEW row \in Row, NEW avg \in Priced(kind, row), NEW new \in Row
    PROVE  /\ avg \in Valuation \cup {Blended} /\ AtPrice(new, avg) \in Row
           /\ avg \in {row.avg, Blended}
           /\ AtPrice(new, avg).there => AtPrice(new, avg).avg = avg
<1>1. avg \in {row.avg, Blended}
  BY DEF Priced
<1>2. avg \in Valuation \cup {Blended}
  BY <1>1 DEF Row
<1> QED BY <1>1, <1>2 DEF AtPrice, Row

LEMMA UpsertKeeps ==
    ASSUME LayerInv, NEW s \in Sessions, Upsert(s)
    PROVE  LayerInv'
<1> DEFINE q == sess[s] row == level[q.row]
           onHand == (IF q.seen.there THEN q.seen ELSE row).onHand
           new == Written(s, AtLeastZero(onHand + Delta(s)))
<1>1. sess[s].pc = "upsert" /\ NextPc(s) \in Pcs \ {"idle"}
      /\ (NextPc(s) = "layer" => sess[s].kind # "adjust")
  BY AfterType DEF Upsert, At, NextPc, After
<1>2. ASSUME NEW avg \in Priced(q.kind, row), WriteRow(s, q.row, AtPrice(new, avg), NextPc(s))
      PROVE  LayerInv'
  <2>1. onHand \in Nat /\ Delta(s) \in Int
    BY SessionFields DEF LayerInv, Row, Delta
  <2>2. AtLeastZero(onHand + Delta(s)) \in Nat
    BY <2>1 DEF AtLeastZero
  <2>3. new \in Row /\ q.row \in Rows /\ row \in Row
    BY <2>2, WrittenType, SessionFields DEF LayerInv
  <2> HIDE DEF new
  <2>4. AtPrice(new, avg) \in Row
    BY <2>3, PricedTypes
  <2> QED BY <1>1, <1>2, <2>3, <2>4, WriteRowKeeps DEF Early
<1>3. CASE Goes(s, IF Delta(s) > 0 THEN "insert" ELSE NextPc(s)) /\ UNCHANGED <<Database, Locks>>
  BY <1>1, <1>3, GoesKeeps DEF Early, Pcs
<1> QED BY <1>2, <1>3 DEF Upsert

LEMMA InsertKeeps ==
    ASSUME LayerInv, NEW s \in Sessions, Insert(s)
    PROVE  LayerInv'
<1> DEFINE New(avg) == [there |-> TRUE, onHand |-> sess[s].n, avg |-> avg]
<1>1. sess[s].pc = "insert" /\ NextPc(s) \in Pcs \ {"idle"}
      /\ (NextPc(s) = "layer" => sess[s].kind # "adjust")
  BY AfterType DEF Insert, At, NextPc, After
<1>2. ASSUME NEW avg \in Priced(sess[s].kind, NoRow),
             WriteRow(s, sess[s].row, New(avg), NextPc(s))
      PROVE  LayerInv'
  <2>1. New(avg) \in Row /\ sess[s].row \in Rows
    BY SessionFields, ConstantTypes, PricedTypes DEF LayerInv, Row
  <2> QED BY <1>1, <1>2, <2>1, WriteRowKeeps DEF Early
<1> QED BY <1>2, Undone DEF Insert

LEMMA SetQtyKeeps ==
    ASSUME LayerInv, NEW s \in Sessions, SetQty(s)
    PROVE  LayerInv'
<1> DEFINE q == sess[s] row == level[q.row]
<1>1. q.pc = "set" /\ q.n \in Nat /\ q.seen.onHand \in Nat /\ q.row \in Rows
  BY SessionFields DEF SetQty, At, LayerInv
<1>2. ASSUME NEW delta \in Int, NEW avg, NEW pc \in AfterSet(delta, avg)
      PROVE  pc \in {"layer", "select", "done"} /\ (pc = "layer" => delta > 0)
  BY DEF AfterSet
<1>3. ASSUME NEW pc \in AfterSet(q.n - q.seen.onHand, row.avg),
             WriteRow(s, q.row, Written(s, q.n), pc)
      PROVE  LayerInv'
  <2>1. Written(s, q.n) \in Row
    BY <1>1, WrittenType DEF LayerInv
  <2>2. q.n - q.seen.onHand \in Int
    BY <1>1
  <2>3. pc \in Pcs \ {"idle"} /\ (pc = "layer" => q.n - q.seen.onHand > 0)
    BY <1>2, <2>2 DEF Pcs
  <2>4. pc = "layer" => q.n > q.seen.onHand
    BY <1>1, <2>3
  <2> QED BY <1>1, <1>3, <2>1, <2>3, <2>4, WriteRowKeeps DEF Early
<1>4. ASSUME NEW pc \in AfterSet(-q.seen.onHand, Nothing), Goes(s, pc),
             UNCHANGED <<Database, Locks>>
      PROVE  LayerInv'
  <2>1. -q.seen.onHand \in Int /\ ~(-q.seen.onHand > 0)
    BY <1>1
  <2>2. pc \in Pcs \ {"idle", "layer"}
    BY <1>2, <2>1 DEF Pcs
  <2> QED BY <1>1, <1>4, <2>2, GoesKeeps DEF Early
<1>5. CASE Goes(s, IF q.n > 0 THEN "insert" ELSE "done") /\ UNCHANGED <<Database, Locks>>
  BY <1>1, <1>5, GoesKeeps DEF Early, Pcs
<1> QED BY <1>3, <1>4, <1>5, Undone DEF SetQty

LEMMA ReadAverageKeeps ==
    ASSUME LayerInv, NEW s \in Sessions, ReadAverage(s)
    PROVE  LayerInv'
<1> DEFINE q == [sess[s] EXCEPT !.avg = LayersSeen(s), !.pc = NextPc(s)]
<1>1. sess[s].pc = "average" /\ NextPc(s) = "list"
  BY DEF ReadAverage, At, NextPc, After
<1>2. q \in Session
  <2>1. sess[s] \in Session /\ LayersSeen(s) \in Valuation
    BY SessionFields, SeenTypes DEF LayerInv
  <2>2. NextPc(s) \in Pcs
    BY <1>1 DEF Pcs
  <2> QED BY <2>1, <2>2 DEF Session
<1>3. /\ q.pc = "list" /\ q.id = sess[s].id /\ q.left = sess[s].left
      /\ q.took = sess[s].took /\ q.picked = sess[s].picked
  BY <1>1, SessionFields DEF LayerInv, Session
<1>4. /\ sess' = [sess EXCEPT ![s] = q] /\ UNCHANGED <<Database, layerLock>>
      /\ levelLock' \in [Rows -> Sessions \cup {NoSession}]
  BY DEF ReadAverage, Go, Locks, LayerInv, TypeOK
<1> HIDE DEF q
<1> QED BY <1>1, <1>2, <1>3, <1>4, Quiet DEF GainsIn, Early

LEMMA ListRowsKeeps ==
    ASSUME LayerInv, NEW s \in Sessions, ListRows(s)
    PROVE  LayerInv'
<1> DEFINE q == [sess[s] EXCEPT !.todo = Carriers(s), !.pc = NextPc(s)]
<1>1. sess[s].pc = "list" /\ NextPc(s) = "update"
  BY DEF ListRows, At, NextPc, After
<1>2. q \in Session
  <2>1. sess[s] \in Session /\ Carriers(s) \subseteq Rows
    BY SessionFields DEF LayerInv, Carriers
  <2>2. NextPc(s) \in Pcs
    BY <1>1 DEF Pcs
  <2> QED BY <2>1, <2>2 DEF Session
<1>3. /\ q.pc = "update" /\ q.id = sess[s].id /\ q.left = sess[s].left
      /\ q.took = sess[s].took /\ q.picked = sess[s].picked
  BY <1>1, SessionFields DEF LayerInv, Session
<1>4. /\ sess' = [sess EXCEPT ![s] = q] /\ UNCHANGED <<Database, layerLock>>
      /\ levelLock' \in [Rows -> Sessions \cup {NoSession}]
  BY DEF ListRows, Go, Locks, LayerInv, TypeOK
<1> HIDE DEF q
<1> QED BY <1>1, <1>2, <1>3, <1>4, Quiet DEF GainsIn, Early

LEMMA UpdateRowKeeps ==
    ASSUME LayerInv, NEW s \in Sessions, NEW r \in Rows, UpdateRow(s, r)
    PROVE  LayerInv'
<1> DEFINE row == IF RowSeen(s, r).there THEN [RowSeen(s, r) EXCEPT !.avg = sess[s].avg] ELSE NoRow
           q == [sess[s] EXCEPT !.todo = @ \ {r}, !.put[r] = row]
<1>1. sess[s].pc = "update"
  BY DEF UpdateRow, At
<1>2. row \in Row
  BY SessionFields, SeenTypes, ConstantTypes DEF LayerInv, Row
<1> HIDE DEF row
<1>3. q \in Session
  BY <1>2, SessionFields DEF LayerInv, Session
<1>4. /\ q.pc = "update" /\ q.id = sess[s].id /\ q.left = sess[s].left
      /\ q.took = sess[s].took /\ q.picked = sess[s].picked
  BY <1>1, SessionFields DEF LayerInv, Session
<1>5. /\ sess' = [sess EXCEPT ![s] = q] /\ UNCHANGED <<Database, layerLock>>
      /\ levelLock' \in [Rows -> Sessions \cup {NoSession}]
  BY DEF UpdateRow, Go, LayerInv, TypeOK, row
<1> HIDE DEF q
<1> QED BY <1>1, <1>3, <1>4, <1>5, Quiet DEF GainsIn, Early

-----------------------------------------------------------------------------
(* The layers.                                                             *)

LEMMA CreateLayerKeeps ==
    ASSUME LayerInv, NEW s \in Sessions, CreateLayer(s)
    PROVE  LayerInv'
<1> DEFINE id == sess[s].id
           q == [sess[s] EXCEPT !.left[id] = Gained(s), !.pc = NextPc(s)]
<1>1. sess[s].pc = "layer" /\ NextPc(s) \in {"average", "done"}
  BY DEF CreateLayer, At, NextPc, After
<1>2. Gained(s) \in Nat
  BY <1>1, SessionFields DEF LayerInv, Gains, GainsIn, Gained
<1>3. q \in Session
  <2>1. id \in Layers /\ sess[s] \in Session /\ sess[s].left \in [Layers -> Nat]
    BY SessionFields DEF LayerInv, Valuation
  <2>2. [sess[s].left EXCEPT ![id] = Gained(s)] \in [Layers -> Nat]
    BY <1>2, <2>1
  <2>3. q = [sess[s] EXCEPT !.left = [sess[s].left EXCEPT ![id] = Gained(s)], !.pc = NextPc(s)]
    BY <2>1 DEF Session
  <2>4. NextPc(s) \in Pcs
    BY <1>1 DEF Pcs
  <2> HIDE DEF q
  <2> QED BY <2>1, <2>2, <2>3, <2>4 DEF Session, Valuation
<1>4. /\ q.pc = NextPc(s) /\ q.id = id /\ q.took = sess[s].took /\ q.picked = sess[s].picked
  BY SessionFields DEF LayerInv, Session
<1>5. /\ sess' = [sess EXCEPT ![s] = q] /\ layerLock' = [layerLock EXCEPT ![id] = s]
      /\ UNCHANGED <<mix, method, level, levelLock, layer, clock, made, charged, suspect>>
  BY DEF CreateLayer, Go, Database
<1> HIDE DEF q
<1>6. \A t \in Sessions : sess'[t] = IF t = s THEN q ELSE sess[t]
  BY <1>5 DEF LayerInv, TypeOK
<1>7. id \in Layers /\ \A k \in Layers : layerLock'[k] = IF k = id THEN s ELSE layerLock[k]
  BY <1>5, SessionFields DEF LayerInv, TypeOK
<1>8. TypeOK'
  BY <1>3, <1>5, <1>7 DEF LayerInv, TypeOK
<1>9. Gains'
  BY <1>1, <1>4, <1>6 DEF LayerInv, Gains, GainsIn
<1>10. Ids'
  BY <1>1, <1>4, <1>5, <1>6 DEF LayerInv, Ids, Unused
<1>11. Holds'
  <2>1. made[id] = 0 /\ \A k \in Layers : layerLock[k] # s
    BY <1>1, <1>7 DEF LayerInv, Ids, Unused, Holds, Early
  <2>2. \A t \in Sessions : t # s => layerLock[id] # t
    <3> SUFFICES ASSUME NEW t \in Sessions, t # s, layerLock[id] = t PROVE FALSE
      OBVIOUS
    <3>1. sess[t].pc # "idle" /\ (id = sess[t].id \/ made[id] > 0)
      BY <1>7 DEF LayerInv, Holds, Early
    <3> QED BY <1>1, <2>1, <3>1 DEF LayerInv, Ids
  <2>3. \A k \in Layers : ~(sess[s].took[k] > 0)
    BY <2>1 DEF LayerInv, Holds
  <2> SUFFICES ASSUME NEW t \in Sessions, NEW k \in Layers
               PROVE  /\ layerLock'[k] = t =>
                           /\ sess'[t].pc \notin Early
                           /\ \/ k = sess'[t].id
                              \/ made'[k] > 0 /\ sess'[t].left[k] + sess'[t].took[k] = layer'[k]
                      /\ sess'[t].took[k] > 0 => layerLock'[k] = t /\ k # sess'[t].id
                      /\ k \in sess'[t].picked => made'[k] > 0
    BY DEF Holds
  <2>4. CASE t = s
    BY <1>1, <1>4, <1>5, <1>6, <1>7, <2>1, <2>3, <2>4 DEF LayerInv, Holds, Early
  <2>5. CASE t # s
    BY <1>5, <1>6, <1>7, <2>2, <2>5 DEF LayerInv, Holds
  <2> QED BY <2>4, <2>5
<1>12. LayersMatch'
  BY <1>5 DEF LayerInv, LayersMatch
<1> QED BY <1>8, <1>9, <1>10, <1>11, <1>12 DEF LayerInv

LEMMA SelectLayersKeeps ==
    ASSUME LayerInv, NEW s \in Sessions, SelectLayers(s)
    PROVE  LayerInv'
<1> DEFINE ks == {k \in Layers : layer[k] > 0}
           q == [sess[s] EXCEPT !.picked = ks, !.pc = NextPc(s)]
<1>1. sess[s].pc = "select" /\ NextPc(s) = "consume"
  BY DEF SelectLayers, At, NextPc, After
<1>2. q \in Session
  <2>1. sess[s] \in Session /\ ks \subseteq Layers
    BY SessionFields DEF LayerInv
  <2>2. NextPc(s) \in Pcs
    BY <1>1 DEF Pcs
  <2> HIDE DEF ks
  <2> QED BY <2>1, <2>2 DEF Session
<1>3. /\ q.pc = "consume" /\ q.id = sess[s].id /\ q.left = sess[s].left
      /\ q.took = sess[s].took /\ q.picked = ks
  BY <1>1, SessionFields DEF LayerInv, Session
<1>4. /\ sess' = [sess EXCEPT ![s] = q]
      /\ UNCHANGED <<mix, method, level, levelLock, layer, layerLock, clock, made, charged,
                     suspect>>
  BY DEF SelectLayers, Go, Database, Locks
<1>5. \A k \in ks : made[k] > 0
  BY SessionFields DEF LayerInv, LayersMatch, TypeOK, Valuation
<1> HIDE DEF q, ks
<1>6. \A t \in Sessions : sess'[t] = IF t = s THEN q ELSE sess[t]
  BY <1>4 DEF LayerInv, TypeOK
<1>7. TypeOK'
  BY <1>2, <1>4 DEF LayerInv, TypeOK
<1>8. Gains'
  BY <1>3, <1>6 DEF LayerInv, Gains, GainsIn
<1>9. Ids'
  BY <1>1, <1>3, <1>4, <1>6 DEF LayerInv, Ids, Unused
<1>10. Holds'
  <2>1. \A k \in Layers : layerLock[k] # s
    BY <1>1 DEF LayerInv, Holds, Early
  <2> QED BY <1>3, <1>4, <1>5, <1>6, <2>1 DEF LayerInv, Holds
<1>11. LayersMatch'
  BY <1>4 DEF LayerInv, LayersMatch
<1> QED BY <1>7, <1>8, <1>9, <1>10, <1>11 DEF LayerInv

LEMMA ConsumeLayersKeeps ==
    ASSUME LayerInv, NEW s \in Sessions, ConsumeLayers(s)
    PROVE  LayerInv'
<1> DEFINE ks == sess[s].picked
<1> SUFFICES ASSUME NEW drawn \in Draws(s),
                    layerLock' = [k \in Layers |-> IF k \in ks THEN s ELSE layerLock[k]],
                    Go(s, [sess[s] EXCEPT !.pc = IF Raised(s) THEN "again" ELSE NextPc(s),
                         !.took = [k \in Layers |-> IF k \in ks THEN drawn[k] ELSE 0],
                         !.left = [k \in Layers |-> IF k \in ks THEN layer[k] - drawn[k] ELSE 0]]),
                    UNCHANGED <<Database, levelLock>>
             PROVE  LayerInv'
  BY Undone DEF ConsumeLayers
<1> DEFINE took == [k \in Layers |-> IF k \in ks THEN drawn[k] ELSE 0]
           left == [k \in Layers |-> IF k \in ks THEN layer[k] - drawn[k] ELSE 0]
           next == IF Raised(s) THEN "again" ELSE NextPc(s)
           q == [sess[s] EXCEPT !.pc = next, !.took = took, !.left = left]
<1>1. sess[s].pc = "consume" /\ next \in {"average", "done", "again"} /\ LayersFree(s)
  BY DEF ConsumeLayers, At, NextPc, After
<1>2. ks \subseteq Layers /\ layer \in [Layers -> Nat]
  BY SessionFields DEF LayerInv, Valuation
<1>3. \A k \in ks : drawn[k] \in Nat /\ drawn[k] <= layer[k]
  <2>1. drawn \in [ks -> 0 .. Due(s)] /\ \A k \in ks : drawn[k] <= layer[k]
    BY DEF Draws
  <2>2. \A k \in ks : drawn[k] \in 0 .. Due(s)
    BY <2>1
  <2>3. \A m : \A x \in 0 .. m : x \in Nat
    OBVIOUS
  <2> QED BY <2>1, <2>2, <2>3
<1>4. /\ took \in Valuation /\ left \in Valuation
      /\ \A k \in ks : left[k] + took[k] = layer[k]
      /\ \A k \in Layers : took[k] > 0 => k \in ks
  BY <1>2, <1>3 DEF Valuation
<1> HIDE DEF took, left
<1>5. q \in Session
  <2>1. sess[s] \in Session
    BY SessionFields DEF LayerInv
  <2>2. next \in Pcs
    BY <1>1 DEF Pcs
  <2> HIDE DEF next
  <2> QED BY <1>4, <2>1, <2>2 DEF Session
<1>6. /\ q.pc = next /\ q.id = sess[s].id /\ q.took = took /\ q.left = left
      /\ q.picked = ks
  BY SessionFields DEF LayerInv, Session
<1>7. /\ sess' = [sess EXCEPT ![s] = q]
      /\ UNCHANGED <<mix, method, level, levelLock, layer, clock, made, charged, suspect>>
  BY DEF Go, Database, took, left
<1> HIDE DEF q
<1>8. \A t \in Sessions : sess'[t] = IF t = s THEN q ELSE sess[t]
  BY <1>7 DEF LayerInv, TypeOK
<1>9. TypeOK'
  BY <1>5, <1>7 DEF LayerInv, TypeOK
<1>10. Gains'
  BY <1>1, <1>6, <1>8 DEF LayerInv, Gains, GainsIn
<1>11. Ids'
  BY <1>1, <1>6, <1>7, <1>8 DEF LayerInv, Ids, Unused
<1>12. Holds'
  <2>1. \A k \in ks : made[k] > 0 /\ k # sess[s].id
    BY <1>1, <1>2 DEF LayerInv, Holds, Ids, Unused
  <2>2. \A k \in Layers : layerLock[k] # s
    BY <1>1 DEF LayerInv, Holds, Early
  <2>3. \A k \in ks : \A t \in Sessions : layerLock[k] # t
    BY <1>1, <1>2, <2>2, ConstantTypes DEF LayersFree
  <2> SUFFICES ASSUME NEW t \in Sessions, NEW k \in Layers
               PROVE  /\ layerLock'[k] = t =>
                           /\ sess'[t].pc \notin Early
                           /\ \/ k = sess'[t].id
                              \/ made'[k] > 0 /\ sess'[t].left[k] + sess'[t].took[k] = layer'[k]
                      /\ sess'[t].took[k] > 0 => layerLock'[k] = t /\ k # sess'[t].id
                      /\ k \in sess'[t].picked => made'[k] > 0
    BY DEF Holds
  <2>4. CASE t = s
    BY <1>1, <1>4, <1>6, <1>7, <1>8, <2>1, <2>2, <2>4 DEF Early
  <2>5. CASE t # s
    BY <1>7, <1>8, <2>3, <2>5 DEF LayerInv, Holds
  <2> QED BY <2>4, <2>5
<1>13. LayersMatch'
  BY <1>7 DEF LayerInv, LayersMatch
<1> QED BY <1>9, <1>10, <1>11, <1>12, <1>13 DEF LayerInv

LEMMA DeductAgainKeeps ==
    ASSUME LayerInv, NEW s \in Sessions, DeductAgain(s)
    PROVE  LayerInv'
<1> DEFINE r == sess[s].row
           n == AtLeastZero(RowSeen(s, r).onHand - sess[s].n)
           new == IF n = 0 THEN NoRow ELSE [RowSeen(s, r) EXCEPT !.onHand = n]
<1>1. sess[s].pc = "again" /\ "done" \in Pcs /\ "done" \notin Early /\ r \in Rows
  BY SessionFields DEF DeductAgain, At, Pcs, Early, LayerInv
<1>2. CASE WriteRow(s, r, new, "done")
  <2>1. RowSeen(s, r) \in Row /\ sess[s].n \in Nat
    BY <1>1, SeenTypes, SessionFields DEF LayerInv
  <2>2. n \in Nat
    BY <2>1 DEF AtLeastZero, Row
  <2>3. new \in Row
    BY <2>1, <2>2, ConstantTypes DEF Row
  <2> HIDE DEF new
  <2> QED BY <1>1, <1>2, <2>3, WriteRowKeeps
<1>3. CASE Goes(s, "done") /\ UNCHANGED <<Database, Locks>>
  <2> DEFINE q == [sess[s] EXCEPT !.pc = "done"]
  <2>1. /\ q \in Session /\ q.pc = "done" /\ q.id = sess[s].id /\ q.left = sess[s].left
        /\ q.took = sess[s].took /\ q.picked = sess[s].picked
    BY <1>1, SessionFields DEF LayerInv, Session
  <2>2. /\ sess' = [sess EXCEPT ![s] = q] /\ UNCHANGED <<Database, layerLock>>
        /\ levelLock' \in [Rows -> Sessions \cup {NoSession}]
    BY <1>3 DEF Goes, Go, Locks, LayerInv, TypeOK
  <2> HIDE DEF q
  <2> QED BY <1>1, <2>1, <2>2, Quiet DEF GainsIn
<1> QED BY <1>2, <1>3 DEF DeductAgain

-----------------------------------------------------------------------------
(* The end of a session.                                                   *)

\* What a commit makes of one layer.
LEMMA CommitFacts ==
    ASSUME LayerInv, NEW s \in Sessions, Commit(s), NEW k \in Layers
    PROVE  /\ charged'[k] = charged[k] + sess[s].took[k]
           /\ layerLock[k] = s /\ k = sess[s].id =>
                layer'[k] = sess[s].left[k] /\ made'[k] = sess[s].left[k] /\ charged'[k] = 0
           /\ layerLock[k] = s /\ k # sess[s].id =>
                /\ layer'[k] = sess[s].left[k] /\ made'[k] = made[k]
                /\ layer[k] = sess[s].left[k] + sess[s].took[k]
           /\ layerLock[k] # s =>
                layer'[k] = layer[k] /\ made'[k] = made[k] /\ charged'[k] = charged[k]
           /\ sess[s].left[k] \in Nat /\ sess[s].took[k] \in Nat
<1>1. sess[s].left[k] \in Nat /\ sess[s].took[k] \in Nat /\ charged[k] \in Nat
      /\ sess[s].id \in Layers
  BY SessionFields DEF LayerInv, TypeOK, Valuation
<1>2. sess[s].pc \in {"done", "update"}
  BY DEF Commit, Done, At
<1>3. /\ charged'[k] = charged[k] + sess[s].took[k]
      /\ layer'[k] = IF layerLock[k] = s THEN sess[s].left[k] ELSE layer[k]
      /\ made'[k] = IF k = sess[s].id /\ layerLock[k] = s THEN sess[s].left[k] ELSE made[k]
  BY <1>1 DEF Commit, LayersSeen, LayerInv, TypeOK, Valuation
<1>4. ~(sess[s].took[k] > 0) => sess[s].took[k] = 0
  BY <1>1
<1>5. k = sess[s].id => charged[k] = 0
  BY <1>2 DEF LayerInv, Ids, Unused
<1> QED BY <1>1, <1>3, <1>4, <1>5 DEF LayerInv, Holds

LEMMA CommitKeeps ==
    ASSUME LayerInv, NEW s \in Sessions, Commit(s)
    PROVE  LayerInv'
<1>1. sess[s].pc \in {"done", "update"} /\ UNCHANGED <<mix, method, clock>> /\ Unlocked(s)
  BY DEF Commit, Done, At
<1>2. \A t \in Sessions :
         IF t = s THEN sess'[t] = Idle
         ELSE sess'[t] \in {sess[t], [sess[t] EXCEPT !.late = TRUE]}
  BY DEF Commit
<1>3. sess' \in [Sessions -> Session]
  <2>1. \A t \in Sessions : sess'[t] \in Session
    <3> SUFFICES ASSUME NEW t \in Sessions, t # s PROVE sess'[t] \in Session
      BY <1>2, ConstantTypes
    <3>1. sess[t] \in Session
      BY SessionFields DEF LayerInv
    <3>2. [sess[t] EXCEPT !.late = TRUE] \in Session
      BY <3>1 DEF Session
    <3> QED BY <1>2, <3>1, <3>2
  <2> QED BY <2>1 DEF Commit
<1>4. \A t \in Sessions : t # s =>
         /\ sess'[t].pc = sess[t].pc /\ sess'[t].id = sess[t].id
         /\ sess'[t].left = sess[t].left /\ sess'[t].took = sess[t].took
         /\ sess'[t].picked = sess[t].picked /\ sess'[t].kind = sess[t].kind
         /\ sess'[t].n = sess[t].n /\ sess'[t].seen = sess[t].seen
  BY <1>2, SessionFields DEF LayerInv, Session
<1>5. sess'[s] = Idle
  BY <1>2
<1>6. TypeOK'
  <2>1. level' \in [Rows -> Row] /\ layer' \in Valuation
    BY SeenTypes DEF Commit, LayerInv
  <2>2. charged' \in Valuation
    <3>1. \A k \in Layers : charged[k] + sess[s].took[k] \in Nat
      BY SessionFields DEF LayerInv, TypeOK, Valuation
    <3> QED BY <3>1 DEF Commit, Valuation
  <2>3. made' \in Valuation
    BY SessionFields DEF Commit, LayerInv, TypeOK, Valuation
  <2>4. suspect' \in BOOLEAN
    <3>1. sess[s].late \in BOOLEAN
      BY SessionFields, Zenon DEF LayerInv, Session
    <3>2. (suspect \/ Touches(s)) \in BOOLEAN
      OBVIOUS
    <3>3. suspect' = IF HasAverage(s) THEN sess[s].late ELSE suspect \/ Touches(s)
      BY DEF Commit
    <3> QED BY <3>1, <3>2, <3>3, Zenon
  <2> QED BY <1>1, <1>3, <2>1, <2>2, <2>3, <2>4, UnlockedLocks DEF LayerInv, TypeOK
<1>7. Gains'
  BY <1>4, <1>5, ConstantTypes DEF LayerInv, Gains, GainsIn
\* The layers nobody has made yet stay so, but for the one s makes.
<1>8. \A k \in Layers : Unused(k) /\ k # sess[s].id => Unused(k)'
  <2> SUFFICES ASSUME NEW k \in Layers, Unused(k), k # sess[s].id PROVE Unused(k)'
    OBVIOUS
  <2>1. layerLock[k] # s
    BY DEF Unused, LayerInv, Holds
  <2> QED BY <2>1, CommitFacts DEF Unused
<1>9. Ids'
  <2>1. \A t \in Sessions : sess[t].id \in Layers
    BY SessionFields DEF LayerInv
  <2>2. sess[s].id <= clock /\ sess[s].id \in Nat /\ clock \in Nat
    BY <1>1, <2>1, ConstantTypes DEF LayerInv, Ids, TypeOK
  <2>3. \A k \in Layers : k > clock => k # sess[s].id
    BY <2>2
  <2>4. /\ sess'[s].pc = "idle" /\ clock' = clock /\ sess[s].pc # "idle"
        /\ \A t \in Sessions : sess'[t].pc # "idle" =>
             t # s /\ sess'[t].id = sess[t].id /\ sess[t].pc # "idle"
    BY <1>1, <1>4, <1>5, ConstantTypes
  <2>5. \A t \in Sessions : sess'[t].pc # "idle" =>
           /\ sess'[t].id > 0 /\ sess'[t].id <= clock'
           /\ Unused(sess[t].id)'
    <3> SUFFICES ASSUME NEW t \in Sessions, sess'[t].pc # "idle"
                 PROVE  /\ sess'[t].id > 0 /\ sess'[t].id <= clock'
                        /\ Unused(sess[t].id)'
      OBVIOUS
    <3>1. /\ sess[t].id # sess[s].id /\ sess[t].id > 0 /\ sess[t].id <= clock
          /\ Unused(sess[t].id)
      BY <2>4 DEF LayerInv, Ids
    <3>2. Unused(sess[t].id)'
      BY <1>4, <1>8, <2>1, <2>4, <3>1 DEF Unused
    <3> QED BY <2>4, <3>1, <3>2
  <2>6. \A t, u \in Sessions :
           t # u /\ sess'[t].pc # "idle" /\ sess'[u].pc # "idle" => sess'[t].id # sess'[u].id
    BY <2>4 DEF LayerInv, Ids
  <2>7. \A k \in Layers : k > clock' => Unused(k)'
    BY <1>8, <2>3, <2>4 DEF LayerInv, Ids
  <2> QED BY <2>5, <2>6, <2>7 DEF Ids
<1>10. Holds'
  <2> SUFFICES ASSUME NEW t \in Sessions, NEW k \in Layers
               PROVE  /\ layerLock'[k] = t =>
                           /\ sess'[t].pc \notin Early
                           /\ \/ k = sess'[t].id
                              \/ made'[k] > 0 /\ sess'[t].left[k] + sess'[t].took[k] = layer'[k]
                      /\ sess'[t].took[k] > 0 => layerLock'[k] = t /\ k # sess'[t].id
                      /\ k \in sess'[t].picked => made'[k] > 0
    BY DEF Holds
  <2>1. CASE t = s
    BY <1>1, <1>5, <2>1, UnlockedLocks, ConstantTypes
  <2>2. CASE t # s
    <3>1. made[k] > 0 => made'[k] > 0
      <4>1. made[k] > 0 => k # sess[s].id
        BY <1>1 DEF LayerInv, Ids, Unused
      <4> QED BY <4>1, CommitFacts
    <3>2. layerLock[k] = t => layerLock[k] # s /\ layer'[k] = layer[k]
      BY <2>2, CommitFacts
    <3>3. layerLock'[k] = t <=> layerLock[k] = t
      BY <1>1, <2>2, UnlockedLocks
    <3> QED BY <1>4, <2>2, <3>1, <3>2, <3>3 DEF LayerInv, Holds
  <2> QED BY <2>1, <2>2
<1>11. LayersMatch'
  <2> SUFFICES ASSUME NEW k \in Layers PROVE layer'[k] + charged'[k] = made'[k]
    BY DEF LayersMatch
  <2>1. /\ layer[k] + charged[k] = made[k]
        /\ layer[k] \in Nat /\ charged[k] \in Nat /\ made[k] \in Nat
    BY DEF LayerInv, LayersMatch, TypeOK, Valuation
  <2>2. CASE layerLock[k] # s
    BY <2>1, <2>2, CommitFacts
  <2>3. CASE layerLock[k] = s /\ k # sess[s].id
    BY <2>1, <2>3, CommitFacts
  <2>4. CASE layerLock[k] = s /\ k = sess[s].id
    BY <2>4, CommitFacts
  <2> QED BY <2>2, <2>3, <2>4
<1> QED BY <1>6, <1>7, <1>9, <1>10, <1>11 DEF LayerInv

LEMMA LayersStep == LayerInv /\ [Next]_vars => LayerInv'
<1> SUFFICES ASSUME LayerInv, [Next]_vars PROVE LayerInv'
  OBVIOUS
<1>1. CASE UNCHANGED vars
  BY <1>1 DEF vars, LayerInv, TypeOK, Gains, Ids, Unused, Holds, LayersMatch
<1>2. ASSUME NEW s \in Sessions, Step(s)
      PROVE  LayerInv'
  BY <1>2, ReadLevelKeeps, UpsertKeeps, InsertKeeps, SetQtyKeeps, CreateLayerKeeps,
     SelectLayersKeeps, ConsumeLayersKeeps, DeductAgainKeeps, ReadAverageKeeps, ListRowsKeeps,
     UpdateRowKeeps, CommitKeeps DEF Step
<1>3. ASSUME NEW s \in Sessions, Victim(s) \/ Fail(s)
      PROVE  LayerInv'
  BY <1>3, Undone DEF Victim, Fail
<1>4. ASSUME NEW s \in Sessions, NEW kind \in Kinds, NEW r \in Rows, NEW n \in 0 .. MaxUnits,
             Begin(s, kind, r, n)
      PROVE  LayerInv'
  <2>1. n \in Nat
    BY CostingAssumption
  <2> QED BY <1>4, <2>1, BeginKeeps
<1> QED BY <1>1, <1>2, <1>3, <1>4 DEF Next

LEMMA LayersAlways == Spec => []LayerInv
BY LayersInit, LayersStep, PTL DEF Spec

\* Every variable keeps its type; no level and no layer goes below zero.
THEOREM CostingTyped == Spec => []TypeOK
<1>1. LayerInv => TypeOK
  BY DEF LayerInv
<1> QED BY <1>1, LayersAlways, PTL

\* What is left in a layer and what was charged to it are what came in with it
\* (consume_fifo), for any number of requests, levels and layers.
THEOREM LayersCharged == Spec => []LayersMatch
<1>1. LayerInv => LayersMatch
  BY DEF LayerInv
<1> QED BY <1>1, LayersAlways, PTL
-----------------------------------------------------------------------------
(* Averages and deadlocks.  AveragesMatch is not inductive either: Current *)
(* says of a session with an average that is not late that it is what its  *)
(* commit would leave in the layers, and that its UPDATE has written it to *)
(* every level that is there, or still will; Keeps, that any other         *)
(* statement leaves the average of a level that is there, or blends it.    *)

\* Where a session holds no level yet.
Before == {"idle", "read", "upsert", "insert", "set"}

KeepsAverage(s, r) ==
    levelLock[r] = s =>
      /\ sess[s].pc \notin Before
      /\ sess[s].pc # "update" /\ sess[s].put[r].there /\ level[r].there
           => sess[s].put[r].avg \in {level[r].avg, Blended}
Keeps(s) == \A r \in Rows : KeepsAverage(s, r)

Reached(s, r) == levelLock[r] = s /\ sess[s].put[r].avg = sess[s].avg
Current(s) ==
    HasAverage(s) /\ ~sess[s].late =>
      /\ sess[s].avg = LayersSeen(s)
      /\ sess[s].pc = "update" =>
           \A r \in Rows : RowSeen(s, r).there => r \in sess[s].todo \/ Reached(s, r)

AverageInv == (\A s \in Sessions : Keeps(s) /\ Current(s)) /\ AveragesMatch

\* One session goes on, and what is committed stays: the others keep what they
\* have.
LEMMA OthersKeep ==
    ASSUME LayerInv, AverageInv, NEW s \in Sessions, NEW q,
           sess' = [sess EXCEPT ![s] = q], UNCHANGED <<level, layer, suspect>>,
           \A t \in Sessions \ {s}, r \in Rows : levelLock'[r] = t <=> levelLock[r] = t,
           \A t \in Sessions \ {s}, k \in Layers : layerLock'[k] = t <=> layerLock[k] = t,
           Keeps(s)', Current(s)'
    PROVE  AverageInv'
<1>1. \A t \in Sessions \ {s} : sess'[t] = sess[t]
  BY DEF LayerInv, TypeOK
<1>2. ASSUME NEW t \in Sessions \ {s}
      PROVE  Keeps(t)'
  BY <1>1 DEF AverageInv, Keeps, KeepsAverage
<1>3. ASSUME NEW t \in Sessions \ {s}
      PROVE  Current(t)'
  <2>1. LayersSeen(t)' = LayersSeen(t)
    BY <1>1 DEF LayersSeen
  <2>2. \A r \in Rows : RowSeen(t, r)' = RowSeen(t, r) /\ (Reached(t, r)' <=> Reached(t, r))
    BY <1>1 DEF RowSeen, Reached
  <2>3. sess'[t] = sess[t] /\ Current(t)
    BY <1>1 DEF AverageInv
  <2> QED BY <2>1, <2>2, <2>3 DEF Current, HasAverage
<1>4. AveragesMatch'
  BY DEF AverageInv, AveragesMatch
<1> QED BY <1>2, <1>3, <1>4 DEF AverageInv

\* Where it has no average yet, or none any more.
LEMMA NoAverage ==
    ASSUME NEW s \in Sessions, sess'[s].pc \notin {"list", "update"}
    PROVE  Current(s)'
BY DEF Current, HasAverage

LEMMA AverageUndone ==
    ASSUME LayerInv, AverageInv, NEW s \in Sessions, Rollback(s)
    PROVE  AverageInv'
<1>1. /\ sess' = [sess EXCEPT ![s] = Idle] /\ UNCHANGED <<level, layer, suspect>>
      /\ sess'[s] = Idle
  BY DEF Rollback, End, Database, LayerInv, TypeOK
<1>2. /\ \A r \in Rows : levelLock'[r] # s
      /\ \A t \in Sessions \ {s}, r \in Rows : levelLock'[r] = t <=> levelLock[r] = t
      /\ \A t \in Sessions \ {s}, k \in Layers : layerLock'[k] = t <=> layerLock[k] = t
  BY ConstantTypes DEF Rollback, Unlocked
<1>3. Keeps(s)' /\ Current(s)'
  BY <1>1, <1>2, NoAverage, ConstantTypes DEF Keeps, KeepsAverage
<1> QED BY <1>1, <1>2, <1>3, OthersKeep

\* A statement that takes no level: the session keeps those it has.
LEMMA AverageSame ==
    ASSUME LayerInv, AverageInv, NEW s \in Sessions, NEW q \in Session,
           sess' = [sess EXCEPT ![s] = q], UNCHANGED <<level, levelLock, layer, suspect>>,
           \A t \in Sessions \ {s}, k \in Layers : layerLock'[k] = t <=> layerLock[k] = t,
           q.put = sess[s].put, sess[s].pc # "update",
           q.pc \in Before => sess[s].pc \in Before, q.pc \notin {"list", "update"}
    PROVE  AverageInv'
<1>1. sess'[s] = q
  BY DEF LayerInv, TypeOK
<1>2. Keeps(s)' /\ Current(s)'
  BY <1>1, NoAverage DEF AverageInv, Keeps, KeepsAverage
<1> QED BY <1>2, OthersKeep

\* A statement that writes a level that stays there leaves its average, or
\* blends it.
LEMMA AverageWritten ==
    ASSUME LayerInv, AverageInv, NEW s \in Sessions, NEW r \in Rows, NEW row \in Row,
           NEW pc \in Pcs, WriteRow(s, r, row, pc), sess[s].pc \in Before \cup {"again"},
           pc \notin Before \cup {"list", "update"},
           row.there /\ level[r].there => row.avg \in {level[r].avg, Blended}
    PROVE  AverageInv'
<1> DEFINE q == [sess[s] EXCEPT !.put[r] = row, !.pc = pc]
<1>1. /\ sess' = [sess EXCEPT ![s] = q] /\ UNCHANGED <<level, layer, layerLock, suspect>>
      /\ levelLock' = [levelLock EXCEPT ![r] = s] /\ levelLock[r] \in {NoSession, s}
  BY DEF WriteRow, Go, Database, RowFree
<1>2. /\ sess'[s] = q /\ q.pc = pc /\ q.put[r] = row
      /\ \A p \in Rows \ {r} : q.put[p] = sess[s].put[p]
  BY <1>1, SessionFields DEF LayerInv, TypeOK, Session
<1> HIDE DEF q
<1>3. \A p \in Rows : levelLock'[p] = IF p = r THEN s ELSE levelLock[p]
  BY <1>1 DEF LayerInv, TypeOK
<1>4. Keeps(s) /\ sess[s].pc # "update"
  BY DEF AverageInv, Before
<1>5. Keeps(s)'
  BY <1>1, <1>2, <1>3, <1>4 DEF Keeps, KeepsAverage
<1>6. Current(s)'
  BY <1>2, NoAverage
<1>7. \A t \in Sessions \ {s}, p \in Rows : levelLock'[p] = t <=> levelLock[p] = t
  BY <1>1, <1>3, ConstantTypes
<1> QED BY <1>1, <1>5, <1>6, <1>7, OthersKeep

LEMMA AverageGoes ==
    ASSUME LayerInv, AverageInv, NEW s \in Sessions, NEW pc \in Pcs, Goes(s, pc),
           sess[s].pc # "update", pc \notin {"list", "update"},
           pc \in Before => sess[s].pc \in Before, UNCHANGED <<Database, Locks>>
    PROVE  AverageInv'
<1> DEFINE q == [sess[s] EXCEPT !.pc = pc]
<1>1. q \in Session /\ q.pc = pc /\ q.put = sess[s].put
  BY SessionFields DEF LayerInv, Session
<1>2. /\ sess' = [sess EXCEPT ![s] = q]
      /\ UNCHANGED <<level, levelLock, layer, layerLock, suspect>>
  BY DEF Goes, Go, Database, Locks
<1> HIDE DEF q
<1> QED BY <1>1, <1>2, AverageSame

LEMMA AverageReadLevel ==
    ASSUME LayerInv, AverageInv, NEW s \in Sessions, ReadLevel(s)
    PROVE  AverageInv'
<1> DEFINE row == level[sess[s].row]
           Kind(valued) == IF sess[s].kind = "return" /\ ~valued THEN "add" ELSE sess[s].kind
           Q(valued) == [sess[s] EXCEPT !.seen = row, !.pc = NextPc(s), !.kind = Kind(valued)]
<1>1. sess[s].pc = "read" /\ NextPc(s) \in {"set", "upsert"}
  BY DEF ReadLevel, At, NextPc, After
<1>2. CASE Rollback(s)
  BY <1>2, AverageUndone
<1>3. ASSUME NEW valued \in Counts(row.avg), Go(s, Q(valued)), UNCHANGED <<Database, Locks>>
      PROVE  AverageInv'
  <2> DEFINE kind == Kind(valued)
             q == [sess[s] EXCEPT !.seen = row, !.pc = NextPc(s), !.kind = kind]
  <2>1. sess[s] \in Session /\ row \in Row /\ kind \in Kinds \cup {"none"}
    BY SessionFields DEF LayerInv, Kinds
  <2>2. NextPc(s) \in Pcs
    BY <1>1 DEF Pcs
  <2> HIDE DEF row, kind
  <2>3. q \in Session /\ q.put = sess[s].put /\ q.pc = NextPc(s)
    BY <2>1, <2>2 DEF Session
  <2>4. /\ sess' = [sess EXCEPT ![s] = q]
        /\ UNCHANGED <<level, levelLock, layer, layerLock, suspect>>
    BY <1>3 DEF kind, Go, Database, Locks
  <2> HIDE DEF q
  <2>5. q.pc \in Before /\ sess[s].pc \in Before
    BY <1>1, <2>3 DEF Before
  <2>6. q.pc \notin {"list", "update"} /\ sess[s].pc # "update"
    BY <1>1, <2>3
  <2>7. \A t \in Sessions \ {s}, k \in Layers : layerLock'[k] = t <=> layerLock[k] = t
    BY <2>4
  <2> QED BY <2>3, <2>4, <2>5, <2>6, <2>7, AverageSame
<1> QED BY <1>2, <1>3 DEF ReadLevel

LEMMA AverageUpsert ==
    ASSUME LayerInv, AverageInv, NEW s \in Sessions, Upsert(s)
    PROVE  AverageInv'
<1> DEFINE q == sess[s] row == level[q.row]
           onHand == (IF q.seen.there THEN q.seen ELSE row).onHand
           new == Written(s, AtLeastZero(onHand + Delta(s)))
<1>1. sess[s].pc = "upsert" /\ NextPc(s) \in {"layer", "select", "done", "average"}
  BY DEF Upsert, At, NextPc, After
<1>2. ASSUME NEW avg \in Priced(q.kind, row), WriteRow(s, q.row, AtPrice(new, avg), NextPc(s))
      PROVE  AverageInv'
  <2>1. onHand \in Nat /\ Delta(s) \in Int
    BY SessionFields DEF LayerInv, Row, Delta
  <2>2. AtLeastZero(onHand + Delta(s)) \in Nat
    BY <2>1 DEF AtLeastZero
  <2>3. new \in Row /\ q.row \in Rows /\ row \in Row
    BY <2>2, WrittenType, SessionFields DEF LayerInv
  <2> HIDE DEF new
  <2>4. /\ AtPrice(new, avg) \in Row
        /\ AtPrice(new, avg).there => AtPrice(new, avg).avg \in {level[q.row].avg, Blended}
    BY <2>3, PricedTypes
  <2> QED BY <1>1, <1>2, <2>3, <2>4, AverageWritten DEF Before, Pcs
<1>3. CASE Goes(s, IF Delta(s) > 0 THEN "insert" ELSE NextPc(s)) /\ UNCHANGED <<Database, Locks>>
  BY <1>1, <1>3, AverageGoes DEF Before, Pcs
<1> QED BY <1>2, <1>3 DEF Upsert

LEMMA AverageInsert ==
    ASSUME LayerInv, AverageInv, NEW s \in Sessions, Insert(s)
    PROVE  AverageInv'
<1> DEFINE New(avg) == [there |-> TRUE, onHand |-> sess[s].n, avg |-> avg]
<1>1. sess[s].pc = "insert" /\ NextPc(s) \in {"layer", "select", "done", "average"}
  BY DEF Insert, At, NextPc, After
<1>2. CASE Rollback(s)
  BY <1>2, AverageUndone
<1>3. ASSUME NEW avg \in Priced(sess[s].kind, NoRow), ~level[sess[s].row].there,
             WriteRow(s, sess[s].row, New(avg), NextPc(s))
      PROVE  AverageInv'
  <2>1. New(avg) \in Row /\ sess[s].row \in Rows
    BY SessionFields, ConstantTypes, PricedTypes DEF LayerInv, Row
  <2> QED BY <1>1, <1>3, <2>1, AverageWritten DEF Before, Pcs
<1>4. \/ Rollback(s)
      \/ /\ ~level[sess[s].row].there
         /\ \E avg \in Priced(sess[s].kind, NoRow) :
               WriteRow(s, sess[s].row, New(avg), NextPc(s))
  BY DEF Insert, WriteRow
<1> QED BY <1>2, <1>3, <1>4

LEMMA WrittenAverage ==
    ASSUME TypeOK, NEW s \in Sessions, NEW n \in Nat, Written(s, n).there
    PROVE  Written(s, n).avg = level[sess[s].row].avg
BY SessionFields, ConstantTypes DEF Written, Row, NoRow

LEMMA AverageSetQty ==
    ASSUME LayerInv, AverageInv, NEW s \in Sessions, SetQty(s)
    PROVE  AverageInv'
<1> DEFINE q == sess[s] row == level[q.row]
<1>1. q.pc = "set" /\ q.n \in Nat /\ q.row \in Rows
  BY SessionFields DEF SetQty, At, LayerInv
<1>2. \A delta, avg : AfterSet(delta, avg) \subseteq {"layer", "select", "done"}
  BY DEF AfterSet
<1>3. ASSUME NEW pc \in AfterSet(q.n - q.seen.onHand, row.avg),
             WriteRow(s, q.row, Written(s, q.n), pc)
      PROVE  AverageInv'
  <2>1. Written(s, q.n) \in Row
    BY <1>1, WrittenType DEF LayerInv
  <2>2. Written(s, q.n).there => Written(s, q.n).avg = level[q.row].avg
    BY <1>1, WrittenAverage DEF LayerInv
  <2> QED BY <1>1, <1>2, <1>3, <2>1, <2>2, AverageWritten DEF Before, Pcs
<1>4. ASSUME NEW pc \in AfterSet(-q.seen.onHand, Nothing), Goes(s, pc),
             UNCHANGED <<Database, Locks>>
      PROVE  AverageInv'
  BY <1>1, <1>2, <1>4, AverageGoes DEF Before, Pcs
<1>5. CASE Goes(s, IF q.n > 0 THEN "insert" ELSE "done") /\ UNCHANGED <<Database, Locks>>
  BY <1>1, <1>5, AverageGoes DEF Before, Pcs
<1> QED BY <1>3, <1>4, <1>5, AverageUndone DEF SetQty

LEMMA AverageLayers ==
    ASSUME LayerInv, AverageInv, NEW s \in Sessions,
           CreateLayer(s) \/ SelectLayers(s) \/ ConsumeLayers(s), LayerInv'
    PROVE  AverageInv'
<1>1. CASE Rollback(s)
  BY <1>1, AverageUndone
<1>2. CASE ~Rollback(s)
  <2>1. PICK q : /\ sess' = [sess EXCEPT ![s] = q] /\ q.put = sess[s].put
                 /\ q.pc = NextPc(s) \/ q.pc = "again"
    <3>1. CASE CreateLayer(s)
      <4> DEFINE p == [sess[s] EXCEPT !.left[sess[s].id] = Gained(s), !.pc = NextPc(s)]
      <4>1. sess' = [sess EXCEPT ![s] = p]
        BY <3>1 DEF CreateLayer, Go
      <4>2. p.put = sess[s].put /\ p.pc = NextPc(s)
        BY SessionFields DEF LayerInv, Session
      <4> QED BY <4>1, <4>2
    <3>2. CASE SelectLayers(s)
      <4> DEFINE p == [sess[s] EXCEPT !.picked = {k \in Layers : layer[k] > 0}, !.pc = NextPc(s)]
      <4>1. sess' = [sess EXCEPT ![s] = p]
        BY <3>2 DEF SelectLayers, Go
      <4>2. p.put = sess[s].put /\ p.pc = NextPc(s)
        BY SessionFields DEF LayerInv, Session
      <4> QED BY <4>1, <4>2
    <3>3. CASE ConsumeLayers(s)
      <4>1. PICK pc, took, left :
              /\ pc = NextPc(s) \/ pc = "again"
              /\ Go(s, [sess[s] EXCEPT !.pc = pc, !.took = took, !.left = left])
        BY <1>2, <3>3 DEF ConsumeLayers
      <4> DEFINE p == [sess[s] EXCEPT !.pc = pc, !.took = took, !.left = left]
      <4>2. p.put = sess[s].put /\ p.pc = pc
        BY SessionFields DEF LayerInv, Session
      <4> QED BY <4>1, <4>2 DEF Go
    <3> QED BY <3>1, <3>2, <3>3
  <2>2. /\ sess[s].pc \in {"layer", "select", "consume"}
        /\ NextPc(s) \in {"consume", "average", "done"}
    BY DEF CreateLayer, SelectLayers, ConsumeLayers, At, NextPc, After
  <2>3. UNCHANGED <<level, levelLock, layer, suspect>>
    BY <1>2 DEF CreateLayer, SelectLayers, ConsumeLayers, Database, Locks
  <2>4. sess'[s] = q /\ q \in Session
    BY <2>1 DEF LayerInv, TypeOK
  <2>5. \A t \in Sessions \ {s}, k \in Layers : layerLock'[k] = t <=> layerLock[k] = t
    <3>1. CASE CreateLayer(s)
      <4>1. made[sess[s].id] = 0 /\ sess[s].id \in Layers
        BY <2>2, SessionFields DEF LayerInv, Ids, Unused
      <4>2. \A t \in Sessions \ {s} : layerLock[sess[s].id] # t
        <5> SUFFICES ASSUME NEW t \in Sessions \ {s}, layerLock[sess[s].id] = t PROVE FALSE
          OBVIOUS
        <5>1. sess[t].pc # "idle" /\ sess[s].id = sess[t].id
          BY <4>1 DEF LayerInv, Holds, Early
        <5> QED BY <2>2, <5>1 DEF LayerInv, Ids
      <4> QED BY <3>1, <4>1, <4>2 DEF CreateLayer, LayerInv, TypeOK
    <3>2. CASE SelectLayers(s)
      BY <3>2 DEF SelectLayers, Locks
    <3>3. CASE ConsumeLayers(s)
      BY <1>2, <3>3, ConstantTypes DEF ConsumeLayers, LayersFree
    <3> QED BY <3>1, <3>2, <3>3
  <2> QED BY <2>1, <2>2, <2>3, <2>4, <2>5, AverageSame DEF Before
<1> QED BY <1>1, <1>2

\* The row a delivery deducts from again is its own, or as it is committed.
LEMMA AverageAgain ==
    ASSUME LayerInv, AverageInv, NEW s \in Sessions, DeductAgain(s)
    PROVE  AverageInv'
<1> DEFINE r == sess[s].row
           n == AtLeastZero(RowSeen(s, r).onHand - sess[s].n)
           new == IF n = 0 THEN NoRow ELSE [RowSeen(s, r) EXCEPT !.onHand = n]
<1>1. /\ sess[s].pc = "again" /\ "done" \in Pcs /\ r \in Rows
      /\ "done" \notin Before \cup {"list", "update"}
  BY SessionFields DEF DeductAgain, At, Pcs, Before, LayerInv
<1>2. CASE RowSeen(s, r).there /\ WriteRow(s, r, new, "done")
  <2>1. RowSeen(s, r) \in Row /\ sess[s].n \in Nat
    BY <1>1, SeenTypes, SessionFields DEF LayerInv
  <2>2. n \in Nat
    BY <2>1 DEF AtLeastZero, Row
  <2>3. new \in Row /\ (new.there => new.avg = RowSeen(s, r).avg)
    BY <2>1, <2>2, ConstantTypes DEF Row, NoRow
  <2>4. level[r].there => RowSeen(s, r).avg \in {level[r].avg, Blended}
    <3>1. KeepsAverage(s, r)
      BY <1>1 DEF AverageInv, Keeps
    <3> QED BY <1>1, <1>2, <3>1 DEF KeepsAverage, RowSeen
  <2> HIDE DEF new
  <2> QED BY <1>1, <1>2, <2>3, <2>4, AverageWritten
<1>3. CASE Goes(s, "done") /\ UNCHANGED <<Database, Locks>>
  BY <1>1, <1>3, AverageGoes
<1> QED BY <1>2, <1>3 DEF DeductAgain

LEMMA AverageReadAverage ==
    ASSUME LayerInv, AverageInv, NEW s \in Sessions, ReadAverage(s)
    PROVE  AverageInv'
<1> DEFINE q == [sess[s] EXCEPT !.avg = LayersSeen(s), !.pc = NextPc(s)]
<1>1. sess[s].pc = "average" /\ NextPc(s) = "list"
  BY DEF ReadAverage, At, NextPc, After
<1>2. /\ sess' = [sess EXCEPT ![s] = q] /\ sess'[s] = q
      /\ UNCHANGED <<level, levelLock, layer, layerLock, suspect>>
  BY DEF ReadAverage, Go, Database, Locks, LayerInv, TypeOK
<1>3. /\ q.pc = "list" /\ q.avg = LayersSeen(s) /\ q.put = sess[s].put
      /\ q.left = sess[s].left
  BY <1>1, SessionFields DEF LayerInv, Session
<1> HIDE DEF q
<1>4. Keeps(s)'
  BY <1>1, <1>2, <1>3 DEF AverageInv, Keeps, KeepsAverage, Before
<1>5. Current(s)'
  <2>1. LayersSeen(s)' = LayersSeen(s)
    BY <1>2, <1>3 DEF LayersSeen
  <2> QED BY <1>2, <1>3, <2>1 DEF Current
<1> QED BY <1>2, <1>4, <1>5, OthersKeep

LEMMA AverageListRows ==
    ASSUME LayerInv, AverageInv, NEW s \in Sessions, ListRows(s)
    PROVE  AverageInv'
<1> DEFINE q == [sess[s] EXCEPT !.todo = Carriers(s), !.pc = NextPc(s)]
<1>1. sess[s].pc = "list" /\ NextPc(s) = "update"
  BY DEF ListRows, At, NextPc, After
<1>2. /\ sess' = [sess EXCEPT ![s] = q] /\ sess'[s] = q
      /\ UNCHANGED <<level, levelLock, layer, layerLock, suspect>>
  BY DEF ListRows, Go, Database, Locks, LayerInv, TypeOK
<1>3. /\ q.pc = "update" /\ q.avg = sess[s].avg /\ q.put = sess[s].put
      /\ q.left = sess[s].left /\ q.todo = Carriers(s) /\ q.late = sess[s].late
  BY <1>1, SessionFields DEF LayerInv, Session
<1> HIDE DEF q
<1>4. Keeps(s)'
  BY <1>1, <1>2, <1>3 DEF AverageInv, Keeps, KeepsAverage, Before
<1>5. Current(s)'
  <2>1. LayersSeen(s)' = LayersSeen(s)
    BY <1>2, <1>3 DEF LayersSeen
  <2>2. \A r \in Rows : RowSeen(s, r)' = RowSeen(s, r)
    BY <1>2, <1>3 DEF RowSeen
  <2>3. \A r \in Rows : RowSeen(s, r).there => r \in sess'[s].todo
    BY <1>2, <1>3 DEF Carriers
  <2>4. Current(s)
    BY DEF AverageInv
  <2> QED BY <1>1, <1>2, <1>3, <2>1, <2>2, <2>3, <2>4 DEF Current, HasAverage
<1> QED BY <1>2, <1>4, <1>5, OthersKeep

LEMMA AverageUpdateRow ==
    ASSUME LayerInv, AverageInv, NEW s \in Sessions, NEW r \in Rows, UpdateRow(s, r)
    PROVE  AverageInv'
<1> DEFINE row == IF RowSeen(s, r).there THEN [RowSeen(s, r) EXCEPT !.avg = sess[s].avg] ELSE NoRow
           q == [sess[s] EXCEPT !.todo = @ \ {r}, !.put[r] = row]
<1>1. sess[s].pc = "update" /\ levelLock[r] \in {NoSession, s}
  BY DEF UpdateRow, At, RowFree
<1>2. /\ row.there = RowSeen(s, r).there
      /\ row.there => row.avg = sess[s].avg
  BY SeenTypes DEF LayerInv, Row, NoRow
<1>3. /\ sess' = [sess EXCEPT ![s] = q] /\ sess'[s] = q
      /\ UNCHANGED <<level, layer, layerLock, suspect>>
      /\ \A p \in Rows : levelLock'[p] = IF p = r THEN s ELSE levelLock[p]
  BY DEF UpdateRow, Go, Database, LayerInv, TypeOK
<1> HIDE DEF row
<1>4. /\ q.pc = "update" /\ q.avg = sess[s].avg /\ q.late = sess[s].late
      /\ q.left = sess[s].left /\ q.todo = sess[s].todo \ {r}
      /\ \A p \in Rows : q.put[p] = IF p = r THEN row ELSE sess[s].put[p]
  BY <1>1, SessionFields DEF LayerInv, Session
<1> HIDE DEF q
<1>5. Keeps(s)'
  BY <1>3, <1>4 DEF Keeps, KeepsAverage, Before
<1>6. Current(s)'
  <2>1. LayersSeen(s)' = LayersSeen(s)
    BY <1>3, <1>4 DEF LayersSeen
  <2>2. \A p \in Rows : p # r =>
          RowSeen(s, p)' = RowSeen(s, p) /\ (Reached(s, p)' <=> Reached(s, p))
    BY <1>3, <1>4 DEF RowSeen, Reached
  <2>3. RowSeen(s, r)' = row
    BY <1>3, <1>4 DEF RowSeen
  <2>4. row.there => Reached(s, r)'
    BY <1>2, <1>3, <1>4 DEF Reached
  <2>5. Current(s)
    BY DEF AverageInv
  <2> QED BY <1>1, <1>3, <1>4, <2>1, <2>2, <2>3, <2>4, <2>5 DEF Current, HasAverage
<1>7. \A t \in Sessions \ {s}, p \in Rows : levelLock'[p] = t <=> levelLock[p] = t
  BY <1>1, <1>3, ConstantTypes
<1> QED BY <1>3, <1>5, <1>6, <1>7, OthersKeep

\* What a commit that touches nothing leaves as it was.
LEMMA Untouched ==
    ASSUME LayerInv, AverageInv, NEW s \in Sessions, Commit(s), ~Touches(s)
    PROVE  /\ layer' = layer
           /\ \A r \in Rows : level'[r].there => level[r].there
           /\ \A r \in Rows : levelLock[r] = s /\ level'[r].there => level'[r].avg # Blended
<1>1. \A k \in Layers : layerLock[k] # s
  BY DEF Touches
<1>2. layer' = [k \in Layers |-> layer[k]]
  BY <1>1 DEF Commit, LayersSeen
<1>3. \A r \in Rows : level'[r] = IF levelLock[r] = s THEN sess[s].put[r] ELSE level[r]
  BY DEF Commit, RowSeen
<1> QED BY <1>2, <1>3 DEF Touches, LayerInv, TypeOK, Valuation

LEMMA AverageCommit ==
    ASSUME LayerInv, AverageInv, NEW s \in Sessions, Commit(s)
    PROVE  AverageInv'
<1>1. /\ sess[s].pc \in {"done", "update"} /\ Unlocked(s)
      /\ sess[s].pc = "update" => sess[s].todo = {}
  BY DEF Commit, Done, At
<1>2. /\ \A r \in Rows : levelLock'[r] # s
      /\ \A t \in Sessions \ {s}, r \in Rows : levelLock'[r] = t <=> levelLock[r] = t
      /\ \A t \in Sessions \ {s}, k \in Layers : layerLock'[k] = t <=> layerLock[k] = t
  BY <1>1, ConstantTypes DEF Unlocked
<1>3. \A r \in Rows : level'[r] = IF levelLock[r] = s THEN sess[s].put[r] ELSE level[r]
  BY DEF Commit, RowSeen
<1>4. sess'[s] = Idle
  BY DEF Commit
<1>5. \A t \in Sessions \ {s} :
         IF HasAverage(t) /\ Touches(s) THEN sess'[t] = [sess[t] EXCEPT !.late = TRUE]
         ELSE sess'[t] = sess[t]
  BY DEF Commit
<1>6. \A t \in Sessions \ {s} :
         /\ sess'[t].pc = sess[t].pc /\ sess'[t].put = sess[t].put
         /\ sess'[t].avg = sess[t].avg /\ sess'[t].todo = sess[t].todo
         /\ sess'[t].left = sess[t].left
         /\ HasAverage(t) /\ Touches(s) => sess'[t].late
         /\ ~(HasAverage(t) /\ Touches(s)) => sess'[t].late = sess[t].late
  <2> SUFFICES ASSUME NEW t \in Sessions \ {s}
               PROVE  /\ sess'[t].pc = sess[t].pc /\ sess'[t].put = sess[t].put
                      /\ sess'[t].avg = sess[t].avg /\ sess'[t].todo = sess[t].todo
                      /\ sess'[t].left = sess[t].left
                      /\ HasAverage(t) /\ Touches(s) => sess'[t].late
                      /\ ~(HasAverage(t) /\ Touches(s)) => sess'[t].late = sess[t].late
    OBVIOUS
  <2>1. sess[t] \in Session
    BY SessionFields DEF LayerInv
  <2>2. CASE HasAverage(t) /\ Touches(s)
    BY <1>5, <2>1, <2>2 DEF Session
  <2>3. CASE ~(HasAverage(t) /\ Touches(s))
    BY <1>5, <2>3
  <2> QED BY <2>2, <2>3
<1>7. Keeps(s)' /\ Current(s)'
  BY <1>2, <1>4, NoAverage, ConstantTypes DEF Keeps, KeepsAverage
<1>8. ASSUME NEW t \in Sessions \ {s}
      PROVE  Keeps(t)'
  <2>1. Keeps(t)
    BY DEF AverageInv
  <2>2. \A r \in Rows : levelLock[r] = t => level'[r] = level[r]
    BY <1>3
  <2> QED BY <1>2, <1>6, <2>1, <2>2 DEF Keeps, KeepsAverage
<1>9. ASSUME NEW t \in Sessions \ {s}
      PROVE  Current(t)'
  <2> SUFFICES ASSUME HasAverage(t), ~Touches(s), ~sess[t].late PROVE Current(t)'
    BY <1>6 DEF Current, HasAverage
  <2>1. layer' = layer /\ \A r \in Rows : level'[r].there => level[r].there
    BY Untouched
  <2>2. LayersSeen(t)' = LayersSeen(t)
    BY <1>2, <1>6, <2>1 DEF LayersSeen
  <2>3. \A r \in Rows : /\ RowSeen(t, r)'.there => RowSeen(t, r).there
                        /\ Reached(t, r)' <=> Reached(t, r)
    BY <1>2, <1>6, <2>1 DEF RowSeen, Reached
  <2>4. Current(t)
    BY DEF AverageInv
  <2> QED BY <1>6, <2>2, <2>3, <2>4 DEF Current, HasAverage
<1>10. AveragesMatch'
  <2>1. CASE HasAverage(s)
    <3> SUFFICES ASSUME ~sess[s].late, NEW r \in Rows, level'[r].there
                 PROVE  level'[r].avg = layer'
      BY <2>1 DEF AveragesMatch, Commit
    <3>1. layer' = LayersSeen(s) /\ level'[r] = RowSeen(s, r)
      BY DEF Commit
    <3>2. Current(s) /\ sess[s].pc = "update" /\ sess[s].todo = {}
      BY <1>1, <2>1 DEF AverageInv, HasAverage
    <3>3. Reached(s, r) /\ sess[s].avg = LayersSeen(s)
      BY <2>1, <3>1, <3>2 DEF Current
    <3> QED BY <1>3, <3>1, <3>3 DEF Reached
  <2>2. CASE ~HasAverage(s)
    <3> SUFFICES ASSUME ~suspect, ~Touches(s), NEW r \in Rows, level'[r].there
                 PROVE  level'[r].avg = layer'
      BY <2>2 DEF AveragesMatch, Commit
    <3>1. layer' = layer /\ level[r].there
      BY Untouched
    <3>2. level'[r].avg = level[r].avg
      <4>1. sess[s].pc # "update" /\ KeepsAverage(s, r)
        BY <2>2 DEF HasAverage, AverageInv, Keeps
      <4>2. levelLock[r] = s => level'[r].avg # Blended
        BY Untouched
      <4> QED BY <1>3, <3>1, <4>1, <4>2 DEF KeepsAverage
    <3> QED BY <3>1, <3>2 DEF AverageInv, AveragesMatch
  <2> QED BY <2>1, <2>2
<1> QED BY <1>7, <1>8, <1>9, <1>10 DEF AverageInv

LEMMA AverageBegin ==
    ASSUME LayerInv, AverageInv, NEW s \in Sessions, NEW kind \in Kinds, NEW r \in Rows,
           NEW n \in Nat, Begin(s, kind, r, n)
    PROVE  AverageInv'
<1> DEFINE q == [Idle EXCEPT !.kind = kind, !.pc = FirstPc(kind), !.row = r, !.n = n,
                             !.id = clock + 1]
<1>1. /\ sess' = [sess EXCEPT ![s] = q] /\ sess'[s] = q /\ sess[s].pc = "idle"
      /\ UNCHANGED <<level, levelLock, layer, layerLock, suspect>>
  BY DEF Begin, Go, At, Locks, LayerInv, TypeOK
<1>2. q.pc \in {"upsert", "read"}
  BY DEF Idle, FirstPc
<1> HIDE DEF q
<1>3. Keeps(s)' /\ Current(s)'
  BY <1>1, <1>2, NoAverage DEF AverageInv, Keeps, KeepsAverage, Before
<1> QED BY <1>1, <1>3, OthersKeep

LEMMA AverageStep == LayerInv /\ AverageInv /\ [Next]_vars => AverageInv'
<1> SUFFICES ASSUME LayerInv, AverageInv, [Next]_vars PROVE AverageInv'
  OBVIOUS
<1>1. CASE UNCHANGED vars
  BY <1>1 DEF vars, AverageInv, AveragesMatch, Keeps, KeepsAverage, Current, HasAverage,
     LayersSeen, RowSeen, Reached
<1>2. ASSUME NEW s \in Sessions, Step(s)
      PROVE  AverageInv'
  <2>1. LayerInv'
    BY <1>2, LayersStep DEF Next
  <2> QED BY <1>2, <2>1, AverageReadLevel, AverageUpsert, AverageInsert, AverageSetQty,
          AverageLayers, AverageAgain, AverageReadAverage, AverageListRows, AverageUpdateRow, AverageCommit
          DEF Step
<1>3. ASSUME NEW s \in Sessions, Victim(s) \/ Fail(s)
      PROVE  AverageInv'
  BY <1>3, AverageUndone DEF Victim, Fail
<1>4. ASSUME NEW s \in Sessions, NEW kind \in Kinds, NEW r \in Rows, NEW n \in 0 .. MaxUnits,
             Begin(s, kind, r, n)
      PROVE  AverageInv'
  <2>1. n \in Nat
    BY CostingAssumption
  <2> QED BY <1>4, <2>1, AverageBegin
<1> QED BY <1>1, <1>2, <1>3, <1>4 DEF Next

LEMMA AverageInit == Init => AverageInv
<1> SUFFICES ASSUME Init PROVE AverageInv
  OBVIOUS
<1>1. \A s \in Sessions : sess[s].pc = "idle" /\ Keeps(s) /\ Current(s)
  BY ConstantTypes DEF Init, Keeps, KeepsAverage, Current, HasAverage
<1>2. AveragesMatch
  BY DEF Init, AveragesMatch, NoRow
<1> QED BY <1>1, <1>2 DEF AverageInv

\* After an operation of the engine that nobody overlapped every level carries
\* the average of the layers, and keeps it until an operation leaves the engine
\* out (production, a delivery that finds too few layers, units at no cost) or
\* two overlap: for any number of requests, levels and layers.
THEOREM AveragesKept == Spec => []AveragesMatch
<1>1. Init => LayerInv /\ AverageInv
  BY LayersInit, AverageInit
<1>2. LayerInv /\ AverageInv /\ [Next]_vars => (LayerInv /\ AverageInv)'
  BY LayersStep, AverageStep
<1>3. AverageInv => AveragesMatch
  BY DEF AverageInv
<1> QED BY <1>1, <1>2, <1>3, PTL DEF Spec

\* In a circle of sessions on one level one holds the level, so it waits for
\* another row or a layer; but whoever waits for the level holds neither.
LEMMA CirclesNeedTwo == LayerInv /\ AverageInv => DeadlockNeedsTwoLevels
<1> SUFFICES ASSUME LayerInv, AverageInv, NEW ss \in SUBSET Open, Deadlocked(ss),
                    \A s, t \in ss : sess[s].row = sess[t].row,
                    \A s \in ss : ~GoesOnWithout(s)
             PROVE  FALSE
  BY DEF DeadlockNeedsTwoLevels
<1> DEFINE Waits == {"upsert", "insert", "set"}
<1>1. PICK a \in ss : TRUE
  BY DEF Deadlocked
<1> DEFINE row == sess[a].row
<1>2. \A s \in ss : s \in Sessions /\ sess[s].row = row /\ row \in Rows
  BY <1>1, SessionFields DEF Open, LayerInv
<1>3. \A s \in ss : \E t \in ss \ {s} : t \in Blockers(s)
  BY DEF Deadlocked
<1>4. \A s \in ss : sess[s].pc \in Waits \cup {"update", "consume"}
  BY <1>2, <1>3 DEF Blockers, RowsWanted, LayersWanted, At, GoesOnWithout
<1>5. \A s \in ss : sess[s].pc \in Waits => levelLock[row] \in ss \ {s}
  BY <1>2, <1>3 DEF Blockers, RowsWanted, LayersWanted, At
<1>6. \A s \in ss : sess[s].pc \notin Waits => levelLock[row] = s
  BY <1>2, <1>4 DEF GoesOnWithout
<1>7. PICK h \in ss : levelLock[row] = h
  BY <1>1, <1>5, <1>6
<1>8. sess[h].pc \in {"update", "consume"}
  BY <1>2, <1>4, <1>7 DEF AverageInv, Keeps, KeepsAverage, Before
<1>9. \A t \in ss \ {h} : sess[t].pc \in Waits
  BY <1>4, <1>6, <1>7
<1>10. \A t \in ss \ {h} : /\ \A r \in Rows : levelLock[r] # t
                           /\ \A k \in Layers : layerLock[k] # t
  BY <1>2, <1>9 DEF AverageInv, Keeps, KeepsAverage, Before, LayerInv, Holds, Early
<1>11. RowsWanted(h) \subseteq Rows /\ LayersWanted(h) \subseteq Layers
  BY <1>2, SessionFields DEF RowsWanted, LayersWanted, LayerInv
<1> QED BY <1>3, <1>10, <1>11 DEF Blockers

\* Sessions on one level deadlock only if one goes on without the level: for any
\* number of sessions in the circle, levels and layers.
THEOREM DeadlocksNeedTwoLevels == Spec => []DeadlockNeedsTwoLevels
<1>1. Init => LayerInv /\ AverageInv
  BY LayersInit, AverageInit
<1>2. LayerInv /\ AverageInv /\ [Next]_vars => (LayerInv /\ AverageInv)'
  BY LayersStep, AverageStep
<1> QED BY <1>1, <1>2, CirclesNeedTwo, PTL DEF Spec
=============================================================================
