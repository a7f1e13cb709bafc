--------------------------- MODULE WarehouseProofs ---------------------------
(***************************************************************************)
(* What Warehouse keeps true for any number of sessions, places and        *)
(* documents: no row goes below zero, and the discrepancy of a cycle count *)
(* is put on the level at most once.                                       *)
(*                                                                         *)
(* That a row stays a row needs that a session is where its kind of        *)
(* request can be (Place), and that it takes no more than it has read.     *)
(*                                                                         *)
(* No request locks a count, so that CountAppliedOnce rests on the unique  *)
(* key of ira_snapshots alone: a session that is past its INSERT is the    *)
(* only one for its count, and the count has no row there (Approving); a   *)
(* count that was applied has one.  That a count is never created again,   *)
(* which would forget the row, needs Creating.                             *)
(*                                                                         *)
(* That a place has on hand what the movements on record made of it needs  *)
(* what the sessions hold (BalanceInv): a locked row differs from its      *)
(* level by what the movement will say, unless it was read before somebody *)
(* else's commit (Accounted), and a session that will record a movement    *)
(* has written both of its rows (Wrote).                                   *)
(*                                                                         *)
(* That an approval removes the error found needs both, and FoundInv: what *)
(* is known of a count relates snapshot, goods counted and error.          *)
(***************************************************************************)
EXTENDS Warehouse, TLAPS

Place(q) ==
    /\ IF q.pc = "idle" THEN q.doc = NoDoc ELSE q.doc \in Docs
    /\ q.doc \in Counts => q.kind \in CountKinds
    /\ q.pc \in {"take", "pick", "put"} => q.doc \in Moves
    /\ q.pc = "take" => /\ q.kind \in {"transfer", "initiate", "relocate"}
                        /\ q.old[From[q.doc]].onHand >= Qty[q.doc]
    /\ q.pc \in {"dest", "write"} =>
         q.kind \in {"initiate", "arrive", "relocate", "approve"}

TypeInv == TypeOK /\ \A s \in Sessions : Place(sess[s])

-----------------------------------------------------------------------------
(* Types.                                                                  *)

LEMMA ConstantTypes ==
    /\ NoRow \in Row /\ NewCount \in Count /\ Idle \in Session
    /\ NoDoc \notin Docs /\ Counts \subseteq Docs /\ Moves \subseteq Docs
    /\ \A d \in Moves : From[d] \in Places /\ To[d] \in Places /\ Qty[d] \in Nat \ {0}
    /\ \A d \in Counts : Counted[d] \in Places
BY WarehouseAssumption
   DEF NoRow, Row, NewCount, Count, Idle, Session, Docs, TransferStatuses

LEMMA TypesInit == Init => TypeInv
<1> SUFFICES ASSUME Init PROVE TypeInv
  OBVIOUS
<1>1. TypeOK
  BY ConstantTypes, WarehouseAssumption
     DEF Init, TypeOK, Row, Line, NewLine, TransferStatuses
<1>2. \A s \in Sessions : Place(sess[s])
  BY ConstantTypes DEF Init, Idle, Place
<1> QED BY <1>1, <1>2 DEF TypeInv

\* One session changes, and with it perhaps locks.
LEMMA SessionTypes ==
    ASSUME TypeInv, NEW s \in Sessions, NEW q \in Session, Place(q),
           sess' = [sess EXCEPT ![s] = q],
           lock' \in [Places -> Sessions \cup {NoSession}],
           UNCHANGED <<mix, Records>>
    PROVE  TypeInv'
<1>1. sess' \in [Sessions -> Session] /\ \A r \in Sessions : Place(sess'[r])
  BY DEF TypeInv, TypeOK
<1> QED BY <1>1 DEF TypeInv, TypeOK, Records, Documents

LEMMA EndTypes ==
    ASSUME TypeInv, NEW s \in Sessions, End(s)
    PROVE  /\ lock' \in [Places -> Sessions \cup {NoSession}]
           /\ sess' \in [Sessions -> Session]
           /\ \A r \in Sessions : Place(sess'[r])
<1>1. Place(Idle)
  BY ConstantTypes DEF Place, Idle
<1>2. sess' \in [Sessions -> Session] /\ \A r \in Sessions : Place(sess'[r])
  BY <1>1, ConstantTypes DEF End, TypeInv, TypeOK
<1>3. lock' \in [Places -> Sessions \cup {NoSession}]
  BY DEF End, TypeInv, TypeOK
<1> QED BY <1>2, <1>3

LEMMA RollbackTypes ==
    ASSUME TypeInv, NEW s \in Sessions, Rollback(s), UNCHANGED mix
    PROVE  TypeInv'
BY EndTypes DEF Rollback, Records, Documents, TypeInv, TypeOK

\* A request begins.
LEMMA BeginTypes ==
    ASSUME TypeInv, NEW s \in Sessions, NEW kind \in Kinds, NEW d \in Docs,
           NEW new \in Session, Begin(s, kind, d, new),
           Place([new EXCEPT !.kind = kind, !.doc = d])
    PROVE  TypeInv'
<1> DEFINE q == [new EXCEPT !.kind = kind, !.doc = d]
<1>1. q \in Session
  BY DEF Session
<1>2. sess' = [sess EXCEPT ![s] = q] /\ UNCHANGED <<mix, lock, Records>>
  BY DEF Begin
<1>3. lock' \in [Places -> Sessions \cup {NoSession}]
  BY <1>2 DEF TypeInv, TypeOK
<1> HIDE DEF q
<1>4. Place(q)
  BY DEF q
<1> QED BY <1>1, <1>2, <1>3, <1>4, SessionTypes

LEMMA ReadingTypes ==
    ASSUME TypeInv, NEW p \in Places, NEW pc \in {"take"}
    PROVE  /\ Reading(p, pc) \in Session /\ Reading(p, pc).pc = "take"
           /\ Reading(p, pc).old[p] = level[p]
<1>1. level[p] \in Row /\ Idle.old \in [Places -> Row]
  BY ConstantTypes DEF TypeInv, TypeOK, Session
<1>2. [Idle.old EXCEPT ![p] = level[p]] \in [Places -> Row]
  BY <1>1
<1> QED BY <1>1, <1>2, ConstantTypes DEF Reading, Session

LEMMA RequestTypes ==
    ASSUME TypeInv, NEW s \in Sessions, NEW d \in Docs, Request(s, d)
    PROVE  TypeInv'
<1>0. Moves \cap Counts = {} /\ Transfers \subseteq Moves /\ Lines \subseteq Moves
  BY WarehouseAssumption DEF Moves
<1>1. ASSUME d \in Moves, NEW kind \in {"transfer", "initiate", "relocate"},
             Enough(From[d], Qty[d]), Begin(s, kind, d, Reading(From[d], "take"))
      PROVE  TypeInv'
  <2> DEFINE new == Reading(From[d], "take")
             q == [new EXCEPT !.kind = kind, !.doc = d]
  <2>1. /\ new \in Session /\ new.pc = "take"
        /\ new.old[From[d]].onHand >= Qty[d]
    BY <1>1, ReadingTypes, ConstantTypes DEF Enough
  <2> HIDE DEF new
  <2>2. q.pc = "take" /\ q.kind = kind /\ q.doc = d /\ q.old = new.old
    BY <2>1 DEF Session
  <2>3. Place(q)
    <3> HIDE DEF q
    <3> QED BY <1>0, <1>1, <2>1, <2>2, ConstantTypes DEF Place
  <2>4. kind \in Kinds
    BY DEF Kinds
  <2> QED BY <1>1, <2>1, <2>3, <2>4, BeginTypes DEF new
<1>2. CASE BeginTransfer(s, d) \/ BeginRelocate(s, d)
  BY <1>0, <1>1, <1>2 DEF BeginTransfer, BeginRelocate
<1>3. CASE BeginArrive(s, d)
  <2> DEFINE new == [Idle EXCEPT !.pc = "dest", !.seen = transfer[d]]
             q == [new EXCEPT !.kind = "arrive", !.doc = d]
  <2>1. d \in Transfers /\ transfer[d] \in TransferStatuses
    BY <1>3 DEF BeginArrive, TypeInv, TypeOK
  <2>2. new \in Session
    BY <2>1, ConstantTypes DEF Session
  <2>3. q.pc = "dest" /\ q.kind = "arrive" /\ q.doc = d
    BY ConstantTypes DEF Session
  <2>4. Place(q)
    <3> HIDE DEF q
    <3> QED BY <1>0, <2>1, <2>3, ConstantTypes DEF Place
  <2>5. "arrive" \in Kinds
    BY DEF Kinds
  <2> QED BY <1>3, <2>2, <2>4, <2>5, BeginTypes DEF BeginArrive
<1>4. CASE BeginConfirm(s, d)
  <2>1. PICK ends \in SUBSET {"source", "dest"}, pc \in {"pick", "commit"} :
          Begin(s, "confirm", d, [Idle EXCEPT !.ends = ends, !.pc = pc])
    <3>1. PICK ends \in SUBSET {"source", "dest"} :
            LET all == /\ line[d].source \/ "source" \in ends
                       /\ line[d].dest \/ "dest" \in ends
            IN Begin(s, "confirm", d,
                     [Idle EXCEPT !.ends = ends,
                                  !.pc = IF all /\ ~line[d].done THEN "pick" ELSE "commit"])
      BY <1>4 DEF BeginConfirm
    <3>2. \/ Begin(s, "confirm", d, [Idle EXCEPT !.ends = ends, !.pc = "pick"])
          \/ Begin(s, "confirm", d, [Idle EXCEPT !.ends = ends, !.pc = "commit"])
      BY <3>1
    <3> QED BY <3>2
  <2> DEFINE new == [Idle EXCEPT !.ends = ends, !.pc = pc]
             q == [new EXCEPT !.kind = "confirm", !.doc = d]
  <2>2. d \in Lines
    BY <1>4 DEF BeginConfirm
  <2>3. new \in Session
    BY <2>1, ConstantTypes DEF Session
  <2>4. q.pc = pc /\ q.kind = "confirm" /\ q.doc = d
    BY ConstantTypes DEF Session
  <2>5. Place(q)
    <3> HIDE DEF q
    <3> QED BY <1>0, <2>2, <2>4, ConstantTypes DEF Place
  <2>6. "confirm" \in Kinds
    BY DEF Kinds
  <2> QED BY <2>1, <2>3, <2>5, <2>6, BeginTypes
<1>5. ASSUME d \in Counts, NEW kind \in CountKinds, NEW new \in Session,
             new.pc \in {"dest", "value", "commit"}, new.pc = "dest" => kind = "approve",
             Begin(s, kind, d, new)
      PROVE  TypeInv'
  <2> DEFINE q == [new EXCEPT !.kind = kind, !.doc = d]
  <2>1. q.pc = new.pc /\ q.kind = kind /\ q.doc = d
    BY DEF Session
  <2>2. Place(q)
    <3> HIDE DEF q
    <3> QED BY <1>0, <1>5, <2>1, ConstantTypes DEF Place
  <2>3. kind \in Kinds
    BY DEF Kinds
  <2> QED BY <1>5, <2>2, <2>3, BeginTypes
<1>6. /\ count \in [Counts -> Count] /\ level \in [Places -> Row]
      /\ physical \in [Places -> Int]
  BY DEF TypeInv, TypeOK
<1>7. \A x \in Count : /\ [Idle EXCEPT !.pc = "commit", !.count = x] \in Session
                       /\ [Idle EXCEPT !.pc = "commit", !.count = x].pc = "commit"
  BY ConstantTypes DEF Session
<1>8. CASE BeginCreate(s, d)
  <2> DEFINE x == [NewCount EXCEPT !.status = "draft", !.system = level[Counted[d]].onHand]
  <2>1. d \in Counts /\ level[Counted[d]].onHand \in Nat
    BY <1>6, <1>8, ConstantTypes DEF BeginCreate, Row
  <2>2. x \in Count
    BY <2>1, ConstantTypes DEF Count
  <2>3. Begin(s, "create", d, [Idle EXCEPT !.pc = "commit", !.count = x])
    BY <1>8 DEF BeginCreate
  <2> HIDE DEF x
  <2> QED BY <1>5, <1>7, <2>1, <2>2, <2>3 DEF CountKinds
<1>9. CASE BeginStatus(s, d)
  <2>1. /\ [Idle EXCEPT !.pc = "commit"] \in Session
        /\ [Idle EXCEPT !.pc = "commit"].pc = "commit"
    BY ConstantTypes DEF Session
  <2> QED BY <1>5, <1>9, <2>1 DEF BeginStatus, CountKinds
<1>10. CASE BeginRecord(s, d)
  <2> DEFINE x == [count[d] EXCEPT !.counted = There(Counted[d]),
                     !.found = Error(Counted[d]),
                     !.still = level[Counted[d]].onHand = count[d].system]
  <2>1. d \in Counts /\ count[d] \in Count
    BY <1>6, <1>10 DEF BeginRecord
  <2>2. There(Counted[d]) \in Nat /\ Error(Counted[d]) \in Int
    BY <1>6, <2>1, ConstantTypes DEF There, AtLeastZero, Error, Row
  <2>3. (level[Counted[d]].onHand = count[d].system) \in BOOLEAN
    OBVIOUS
  <2>4. x \in Count
    BY <2>1, <2>2, <2>3 DEF Count
  <2>5. Begin(s, "record", d, [Idle EXCEPT !.pc = "commit", !.count = x])
    BY <1>10 DEF BeginRecord
  <2> HIDE DEF x
  <2> QED BY <1>5, <1>7, <2>1, <2>4, <2>5 DEF CountKinds
<1>11. CASE BeginApprove(s, d)
  <2>1. PICK pc \in {"value", "dest"} :
          Begin(s, "approve", d, [Idle EXCEPT !.count = count[d], !.pc = pc])
    <3>1. \/ Begin(s, "approve", d, [Idle EXCEPT !.count = count[d], !.pc = "value"])
          \/ Begin(s, "approve", d, [Idle EXCEPT !.count = count[d], !.pc = "dest"])
      BY <1>11 DEF BeginApprove
    <3> QED BY <3>1
  <2>2. d \in Counts /\ count[d] \in Count
    BY <1>6, <1>11 DEF BeginApprove
  <2>3. /\ [Idle EXCEPT !.count = count[d], !.pc = pc] \in Session
        /\ [Idle EXCEPT !.count = count[d], !.pc = pc].pc = pc
    BY <2>2, ConstantTypes DEF Session
  <2> QED BY <1>5, <2>1, <2>2, <2>3 DEF CountKinds
<1> QED BY <1>2, <1>3, <1>4, <1>8, <1>9, <1>10, <1>11 DEF Request

LEMMA SessionType ==
    ASSUME TypeInv, NEW s \in Sessions
    PROVE  /\ sess[s] \in Session /\ sess[s].doc \in Docs \cup {NoDoc}
           /\ sess[s].kind \in Kinds \cup {"none"} /\ sess[s].count \in Count
           /\ sess[s].old \in [Places -> Row] /\ sess[s].new \in [Places -> Row]
           /\ Place(sess[s])
           /\ sess[s].pc # "idle" => Dest(s) \in Places
           /\ sess[s].doc \in Moves => Source(s) \in Places
<1>1. sess[s] \in Session /\ Place(sess[s])
  BY DEF TypeInv, TypeOK
<1>2. sess[s].pc # "idle" => sess[s].doc \in Docs
  BY <1>1 DEF Place
<1> QED BY <1>1, <1>2, ConstantTypes DEF Session, Dest, Source, Docs

\* A session writes a row and goes on.
LEMMA WriteTypes ==
    ASSUME TypeInv, NEW s \in Sessions, NEW p \in Places, NEW row \in Row,
           NEW stale, NEW pc \in {"put", "dest", "value", "commit"},
           Write(s, p, row, stale, pc), ~At(s, "idle"),
           pc = "put" => sess[s].doc \in Moves,
           pc = "dest" => sess[s].kind \in {"initiate", "relocate"}
    PROVE  TypeInv'
<1> DEFINE x == sess[s]
           q == [x EXCEPT !.new[p] = row, !.pc = pc,
                          !.stale = IF stale THEN @ \cup {p} ELSE @]
<1>1. x \in Session /\ Place(x) /\ x.pc # "idle"
  BY SessionType DEF At
<1>2. x.stale \cup {p} \in SUBSET Places /\ [x.new EXCEPT ![p] = row] \in [Places -> Row]
  BY <1>1 DEF Session
<1> HIDE DEF x
<1>3. q \in Session /\ q.pc = pc /\ q.kind = x.kind /\ q.doc = x.doc /\ q.old = x.old
  <2>1. CASE stale
    BY <1>1, <1>2, <2>1 DEF Session
  <2>2. CASE ~stale
    BY <1>1, <1>2, <2>2 DEF Session
  <2> QED BY <2>1, <2>2
<1>4. sess' = [sess EXCEPT ![s] = q] /\ UNCHANGED <<mix, Records>>
  BY DEF Write, x
<1>5. lock' \in [Places -> Sessions \cup {NoSession}]
  BY DEF Write, TypeInv, TypeOK
<1> HIDE DEF q
<1>6. Place(q)
  BY <1>1, <1>3 DEF Place, x
<1> QED BY <1>3, <1>4, <1>5, <1>6, SessionTypes

LEMMA TakeTypes ==
    ASSUME TypeInv, NEW s \in Sessions, Take(s)
    PROVE  TypeInv'
<1> DEFINE p == Source(s) old == sess[s].old[p]
           next == IF sess[s].kind = "transfer" THEN "put" ELSE "dest"
<1>1. /\ At(s, "take") /\ sess[s].doc \in Moves /\ p \in Places /\ old \in Row
      /\ sess[s].kind \in {"transfer", "initiate", "relocate"}
      /\ old.onHand >= Qty[sess[s].doc] /\ level[p] \in Row /\ ~At(s, "idle")
  <2>1. At(s, "take")
    BY DEF Take
  <2> QED BY <2>1, SessionType DEF At, Place, Source, TypeInv, TypeOK
<1>2. CASE level[p].there
  <2> DEFINE n == old.onHand - Qty[sess[s].doc] row == Left(s, level[p], n)
             stale == level[p].onHand # old.onHand
  <2>1. n \in Nat
    BY <1>1, ConstantTypes DEF Row
  <2> HIDE DEF n
  <2>2. row \in Row
    BY <1>1, <2>1, ConstantTypes DEF Left, Row
  <2>3. Write(s, p, row, stale, next)
    BY <1>2 DEF Take, n
  <2> HIDE DEF row, stale
  <2>4. CASE sess[s].kind = "transfer"
    <3>1. Write(s, p, row, stale, "put")
      BY <2>3, <2>4
    <3> QED BY <1>1, <2>2, <3>1, WriteTypes
  <2>5. CASE sess[s].kind # "transfer"
    <3>1. Write(s, p, row, stale, "dest")
      BY <2>3, <2>5
    <3> QED BY <1>1, <2>2, <2>5, <3>1, WriteTypes
  <2> QED BY <2>4, <2>5
<1>3. CASE ~level[p].there /\ sess[s].kind = "relocate"
  BY <1>3, RollbackTypes DEF Take
<1>4. CASE ~level[p].there /\ sess[s].kind # "relocate"
  <2> DEFINE x == sess[s] q == [x EXCEPT !.pc = next, !.stale = @ \cup {p}]
  <2>1. sess' = [sess EXCEPT ![s] = q] /\ UNCHANGED <<mix, lock, Records>>
    BY <1>4 DEF Take
  <2>2. x \in Session /\ Place(x)
    BY SessionType
  <2>3. next \in {"put", "dest"} /\ (next = "dest" => x.kind = "initiate")
    BY <1>1, <1>4
  <2>4. p \in Places /\ x.doc \in Moves
    BY <1>1
  <2> HIDE DEF x, next, p
  <2>5. q \in Session /\ q.pc = next /\ q.doc = x.doc /\ q.kind = x.kind
    BY <2>2, <2>3, <2>4 DEF Session
  <2>6. lock' \in [Places -> Sessions \cup {NoSession}]
    BY <2>1 DEF TypeInv, TypeOK
  <2> HIDE DEF q
  <2>7. Place(q)
    BY <2>2, <2>3, <2>4, <2>5, ConstantTypes DEF Place
  <2> QED BY <2>1, <2>5, <2>6, <2>7, SessionTypes
<1> QED BY <1>2, <1>3, <1>4

LEMMA MoveTypes ==
    ASSUME TypeInv, NEW s \in Sessions, Pick(s) \/ Put(s)
    PROVE  TypeInv'
<1> DEFINE d == sess[s].doc
<1>1. /\ d \in Moves /\ Source(s) \in Places /\ Dest(s) \in Places /\ ~At(s, "idle")
      /\ level \in [Places -> Row] /\ Qty[d] \in Nat
  BY SessionType, ConstantTypes DEF Pick, Put, At, Place, TypeInv, TypeOK
<1>2. CASE Pick(s)
  <2> DEFINE p == Source(s) row == [level[p] EXCEPT !.onHand = @ - Qty[d]]
  <2>1. CASE Enough(p, Qty[d])
    <3>1. row \in Row
      BY <1>1, <2>1 DEF Enough, Row
    <3>2. Write(s, p, row, FALSE, "put")
      BY <1>2, <2>1 DEF Pick
    <3> HIDE DEF row
    <3> QED BY <1>1, <3>1, <3>2, WriteTypes
  <2>2. CASE ~Enough(p, Qty[d])
    BY <1>2, <2>2, RollbackTypes DEF Pick
  <2> QED BY <2>1, <2>2
<1>3. CASE Put(s)
  <2> DEFINE p == Dest(s)
             row == [level[p] EXCEPT !.there = TRUE, !.onHand = @ + Qty[d]]
  <2>1. row \in Row
    <3>1. level[p] \in Row /\ level[p].onHand + Qty[d] \in Nat
      BY <1>1 DEF Row
    <3> QED BY <3>1 DEF Row
  <2>2. Write(s, p, row, FALSE, "commit")
    BY <1>3 DEF Put
  <2> HIDE DEF row
  <2> QED BY <1>1, <2>1, <2>2, WriteTypes
<1> QED BY <1>2, <1>3

LEMMA ReadDestTypes ==
    ASSUME TypeInv, NEW s \in Sessions, ReadDest(s)
    PROVE  TypeInv'
<1> DEFINE p == Dest(s) x == sess[s]
           q == [x EXCEPT !.old[p] = level[p], !.pc = "write"]
<1>1. At(s, "dest") /\ UNCHANGED mix
  BY DEF ReadDest
<1>2. CASE Rollback(s)
  BY <1>1, <1>2, RollbackTypes
<1>3. CASE sess' = [sess EXCEPT ![s] = q] /\ UNCHANGED <<lock, Records>>
  <2>1. x \in Session /\ Place(x) /\ p \in Places /\ level[p] \in Row /\ x.pc = "dest"
    BY <1>1, SessionType DEF At, TypeInv, TypeOK
  <2>2. [x.old EXCEPT ![p] = level[p]] \in [Places -> Row]
    BY <2>1 DEF Session
  <2> HIDE DEF x, p
  <2>3. q \in Session /\ q.pc = "write" /\ q.doc = x.doc /\ q.kind = x.kind
    BY <2>1, <2>2 DEF Session
  <2>4. lock' \in [Places -> Sessions \cup {NoSession}]
    BY <1>3 DEF TypeInv, TypeOK
  <2> HIDE DEF q
  <2>5. Place(q)
    BY <2>1, <2>3 DEF Place
  <2>6. sess' = [sess EXCEPT ![s] = q] /\ UNCHANGED <<mix, Records>>
    BY <1>1, <1>3 DEF q, x, p
  <2> QED BY <2>3, <2>4, <2>5, <2>6, SessionTypes
<1> QED BY <1>2, <1>3 DEF ReadDest

LEMMA AtLeastZeroNat == \A n \in Int : AtLeastZero(n) \in Nat
BY DEF AtLeastZero

LEMMA WriteDestTypes ==
    ASSUME TypeInv, NEW s \in Sessions, WriteDest(s)
    PROVE  TypeInv'
<1> DEFINE p == Dest(s) q == sess[s] old == q.old[p] now == level[p]
           n == IF q.doc \in Moves THEN Qty[q.doc] ELSE 0
<1>1. /\ p \in Places /\ ~At(s, "idle") /\ old \in Row /\ now \in Row /\ n \in Nat
      /\ q.kind \in {"initiate", "arrive", "relocate", "approve"}
      /\ q.count \in Count
  BY SessionType, ConstantTypes DEF WriteDest, At, Place, TypeInv, TypeOK
<1>2. Written(s) \in Row
  <2>1. Adjusted(s) \in Nat
    <3>1. q.count.counted \in Int /\ q.count.system \in Int /\ old.onHand \in Int
      BY <1>1 DEF Count, Row
    <3>2. old.onHand + Discrepancy(s) \in Int
      BY <3>1 DEF Discrepancy
    <3> QED BY <3>2, AtLeastZeroNat DEF Adjusted
  <2>2. /\ old.onHand + n \in Nat /\ old.inTransit + n \in Nat
        /\ AtLeastZero(old.inTransit - n) \in Nat
    BY <1>1, AtLeastZeroNat DEF Row
  <2>3. CASE q.kind = "initiate"
    <3>1. Written(s) = [now EXCEPT !.there = TRUE, !.inTransit = old.inTransit + n]
      BY <2>3 DEF Written
    <3> QED BY <1>1, <2>2, <3>1 DEF Row
  <2>4. CASE q.kind = "arrive"
    <3>1. Written(s) = [now EXCEPT !.onHand = old.onHand + n,
                                   !.inTransit = AtLeastZero(old.inTransit - n)]
      BY <2>4 DEF Written
    <3> QED BY <1>1, <2>2, <3>1 DEF Row
  <2>5. CASE q.kind = "relocate"
    <3>1. Written(s) = [now EXCEPT !.there = TRUE, !.onHand = old.onHand + n]
      BY <2>5 DEF Written
    <3> QED BY <1>1, <2>2, <3>1 DEF Row
  <2>6. CASE q.kind = "approve"
    <3>1. \/ Written(s) = NoRow
          \/ Written(s) = [now EXCEPT !.there = TRUE, !.onHand = Adjusted(s)]
      BY <2>6 DEF Written
    <3> QED BY <1>1, <2>1, <3>1, ConstantTypes DEF Row
  <2> QED BY <1>1, <2>3, <2>4, <2>5, <2>6
<1>3. CASE Missed(s, p)
  BY <1>3, RollbackTypes DEF WriteDest
<1>4. CASE ~Missed(s, p)
  <2> DEFINE stale == q.kind # "initiate" /\ level[p].onHand # old.onHand
  <2>1. Write(s, p, Written(s), stale, IF q.kind = "approve" THEN "value" ELSE "commit")
    BY <1>4 DEF WriteDest
  <2> HIDE DEF stale
  <2>2. CASE q.kind = "approve"
    <3>1. Write(s, p, Written(s), stale, "value")
      BY <2>1, <2>2
    <3> QED BY <1>1, <1>2, <3>1, WriteTypes
  <2>3. CASE q.kind # "approve"
    <3>1. Write(s, p, Written(s), stale, "commit")
      BY <2>1, <2>3
    <3> QED BY <1>1, <1>2, <3>1, WriteTypes
  <2> QED BY <2>2, <2>3
<1> QED BY <1>3, <1>4

LEMMA ValueTypes ==
    ASSUME TypeInv, NEW s \in Sessions, Value(s)
    PROVE  TypeInv'
<1> DEFINE x == sess[s] q == [x EXCEPT !.pc = "commit"]
<1>1. CASE Valued(s)
  BY <1>1, RollbackTypes DEF Value
<1>2. CASE ~Valued(s)
  <2>1. sess' = [sess EXCEPT ![s] = q] /\ UNCHANGED <<mix, lock, Records>>
    BY <1>2 DEF Value, Go
  <2>2. x \in Session /\ Place(x) /\ x.pc # "idle"
    BY SessionType DEF Value, At
  <2> HIDE DEF x
  <2>3. q \in Session /\ q.pc = "commit" /\ q.doc = x.doc /\ q.kind = x.kind
    BY <2>2 DEF Session
  <2>4. lock' \in [Places -> Sessions \cup {NoSession}]
    BY <2>1 DEF TypeInv, TypeOK
  <2> HIDE DEF q
  <2>5. Place(q)
    BY <2>2, <2>3 DEF Place
  <2> QED BY <2>1, <2>3, <2>4, <2>5, SessionTypes
<1> QED BY <1>1, <1>2

LEMMA CommitTypes ==
    ASSUME TypeInv, NEW s \in Sessions, Commit(s)
    PROVE  TypeInv'
<1> DEFINE q == sess[s]
<1>1. /\ q \in Session /\ Place(q) /\ q.new \in [Places -> Row] /\ q.count \in Count
      /\ q.stale \in SUBSET Places /\ q.ends \in SUBSET {"source", "dest"}
      /\ q.pc = "commit" /\ q.doc \in Docs /\ Dest(s) \in Places
      /\ q.old \in [Places -> Row]
  BY SessionType DEF Commit, At, Session, Place
<1>2. mix' \in Mixes
  BY DEF Commit, TypeInv, TypeOK
<1>3. level' \in [Places -> Row]
  BY <1>1 DEF Commit, TypeInv, TypeOK
<1>4. transfer' \in [Transfers -> TransferStatuses]
  <2>1. \A d \in Transfers : TransferStatus(s, d) \in TransferStatuses
    BY DEF TransferStatus, TransferStatuses, TypeInv, TypeOK
  <2> QED BY <2>1 DEF Commit
<1>5. line' \in [Lines -> Line]
  <2>1. \A d \in Lines : LineStatus(s, d) \in Line
    BY DEF LineStatus, Line, TypeInv, TypeOK
  <2> QED BY <2>1 DEF Commit
<1>6. count' \in [Counts -> Count]
  <2>1. ASSUME NEW c \in Counts PROVE CountStatus(s, c) \in Count
    <3>1. count[c] \in Count /\ (c = q.doc => q.kind \in CountKinds)
      BY <1>1 DEF TypeInv, TypeOK, Place
    <3>2. CASE c # q.doc
      BY <3>1, <3>2 DEF CountStatus
    <3>3. CASE c = q.doc
      <4>1. CASE q.kind = "create"
        BY <1>1, <3>3, <4>1 DEF CountStatus
      <4>2. CASE q.kind = "start"
        <5>1. CountStatus(s, c) = [count[c] EXCEPT !.status = "in_progress"]
          BY <3>3, <4>2 DEF CountStatus
        <5> QED BY <3>1, <5>1 DEF Count
      <4>3. CASE q.kind = "complete"
        <5>1. CountStatus(s, c) = [count[c] EXCEPT !.status = "completed"]
          BY <3>3, <4>3 DEF CountStatus
        <5> QED BY <3>1, <5>1 DEF Count
      <4>4. CASE q.kind = "cancel"
        <5>1. CountStatus(s, c) = [count[c] EXCEPT !.status = "canceled"]
          BY <3>3, <4>4 DEF CountStatus
        <5> QED BY <3>1, <5>1 DEF Count
      <4>5. CASE q.kind = "record"
        <5>1. CountStatus(s, c) = [q.count EXCEPT !.status = count[c].status,
                                                  !.valued = count[c].valued]
          BY <3>3, <4>5 DEF CountStatus
        <5> QED BY <1>1, <3>1, <5>1 DEF Count
      <4>6. CASE q.kind = "approve"
        <5>1. CountStatus(s, c) = [count[c] EXCEPT !.status = "approved", !.valued = TRUE]
          BY <3>3, <4>6 DEF CountStatus
        <5> QED BY <3>1, <5>1 DEF Count
      <4> QED BY <3>1, <3>3, <4>1, <4>2, <4>3, <4>4, <4>5, <4>6 DEF CountKinds, StatusKinds
    <3> QED BY <3>2, <3>3
  <2> QED BY <2>1 DEF Commit
<1>7. \A p \in Places : Moved(s, p) \in Int
  <2>1. q.doc \in Moves => Qty[q.doc] \in Nat
    BY ConstantTypes
  <2> QED BY <2>1 DEF Moved
<1>8. \A p \in Places : Corrected(s, p) \in Int
  <2>1. ASSUME NEW p \in Places, q.kind = "approve", lock[p] = s
        PROVE  Corrected(s, p) \in Int
    <3>1. /\ q.count.counted \in Int /\ q.count.system \in Int
          /\ q.old[p].onHand \in Int /\ level[p].onHand \in Int
          /\ q.old[Dest(s)].onHand \in Int
      BY <1>1 DEF Count, Row, TypeInv, TypeOK
    <3>2. Adjusted(s) \in Int
      <4>1. q.old[Dest(s)].onHand + Discrepancy(s) \in Int
        BY <3>1 DEF Discrepancy
      <4> QED BY <4>1, AtLeastZeroNat DEF Adjusted
    <3> QED BY <2>1, <3>1, <3>2 DEF Corrected
  <2>2. ASSUME NEW p \in Places, ~(q.kind = "approve" /\ lock[p] = s)
        PROVE  Corrected(s, p) \in Int
    BY <2>2 DEF Corrected
  <2> QED BY <2>1, <2>2
<1>9. physical' \in [Places -> Int] /\ ledger' \in [Places -> Int]
  BY <1>7, <1>8 DEF Commit, TypeInv, TypeOK
<1>10. lost' \subseteq Places
  BY <1>1 DEF Commit, Again, TypeInv, TypeOK
<1>11. applied' \in [Counts -> Nat]
  BY DEF Commit, TypeInv, TypeOK
<1> QED BY <1>2, <1>3, <1>4, <1>5, <1>6, <1>9, <1>10, <1>11, EndTypes
        DEF Commit, TypeInv, TypeOK

LEMMA GoodsTypes ==
    ASSUME TypeInv, NEW p \in Places, Sell(p) \/ Receive(p) \/ Shrink(p)
    PROVE  TypeInv'
<1>1. /\ level[p] \in Row /\ level[p].onHand \in Nat /\ level \in [Places -> Row]
      /\ physical \in [Places -> Int] /\ ledger \in [Places -> Int]
  BY DEF TypeInv, TypeOK, Row
<1>2. CASE Sell(p)
  <2> DEFINE row == IF Enough(p, 2) THEN [level[p] EXCEPT !.onHand = @ - 1] ELSE NoRow
  <2>1. level[p].onHand >= 1
    BY <1>2 DEF Sell, Enough
  <2>2. row \in Row
    <3>1. level[p].onHand - 1 \in Nat
      BY <1>1, <2>1
    <3> QED BY <1>1, <3>1, ConstantTypes DEF Row
  <2>3. level' = [level EXCEPT ![p] = row]
    BY <1>2 DEF Sell
  <2> HIDE DEF row
  <2>4. level' \in [Places -> Row]
    BY <1>1, <2>2, <2>3
  <2>5. physical' \in [Places -> Int] /\ ledger' \in [Places -> Int]
    BY <1>1, <1>2 DEF Sell
  <2> QED BY <1>2, <2>4, <2>5 DEF Sell, Apart, Documents, TypeInv, TypeOK
<1>3. CASE Receive(p)
  <2> DEFINE row == [level[p] EXCEPT !.there = TRUE, !.onHand = @ + 1]
  <2>1. row \in Row
    <3>1. level[p].onHand + 1 \in Nat
      BY <1>1
    <3> QED BY <1>1, <3>1 DEF Row
  <2>2. level' = [level EXCEPT ![p] = row]
    BY <1>1, <1>3 DEF Receive, Row
  <2> HIDE DEF row
  <2>3. level' \in [Places -> Row]
    BY <1>1, <2>1, <2>2
  <2>4. physical' \in [Places -> Int] /\ ledger' \in [Places -> Int]
    BY <1>1, <1>3 DEF Receive
  <2> QED BY <1>3, <2>3, <2>4 DEF Receive, Apart, Documents, TypeInv, TypeOK
<1>4. CASE Shrink(p)
  BY <1>1, <1>4 DEF Shrink, Apart, Documents, TypeInv, TypeOK
<1> QED BY <1>2, <1>3, <1>4

LEMMA TypesNext == TypeInv /\ [Next]_vars => TypeInv'
<1> SUFFICES ASSUME TypeInv, [Next]_vars PROVE TypeInv'
  OBVIOUS
<1>1. CASE UNCHANGED vars
  BY <1>1 DEF vars, Documents, TypeInv, TypeOK
<1>2. ASSUME NEW s \in Sessions, Step(s) \/ Fail(s) \/ \E d \in Docs : Request(s, d)
      PROVE  TypeInv'
  BY <1>2, TakeTypes, MoveTypes, ReadDestTypes, WriteDestTypes, ValueTypes, CommitTypes,
     RequestTypes, RollbackTypes DEF Step, Fail
<1> QED BY <1>1, <1>2, GoodsTypes DEF Next

LEMMA TypesAlways == Spec => []TypeInv
BY TypesInit, TypesNext, PTL DEF Spec

-----------------------------------------------------------------------------
(* Cycle counts.                                                           *)

Holds(s) == \E p \in Places : lock[p] = s

Applied(c) ==
    /\ applied[c] <= 1
    /\ applied[c] = 1 => count[c].valued
    /\ count[c].status = "none" => ~count[c].valued

Past(s, c) == sess[s].doc = c /\ sess[s].kind = "approve" /\ sess[s].pc = "commit"

Approving(s, c) ==
    Past(s, c) => ~count[c].valued /\ \A r \in Sessions : Past(r, c) => r = s

Creating(s, c) ==
    IF sess[s].kind = "create"
    THEN /\ count[c].status = "none"
         /\ sess[s].count.status = "draft" /\ ~sess[s].count.valued
         /\ \A r \in Sessions : sess[r].doc = c => r = s
    ELSE count[c].status # "none"

AboutCount(s, c) ==
    /\ sess[s].pc \in {"dest", "write", "value", "commit"}
    /\ sess[s].pc # "commit" \/ Holds(s) => sess[s].kind = "approve"
    /\ Approving(s, c)
    /\ Creating(s, c)

CountInv ==
    /\ \A c \in Counts : Applied(c)
    /\ \A s \in Sessions : At(s, "idle") => ~Holds(s)
    /\ \A s \in Sessions, c \in Counts : sess[s].doc = c => AboutCount(s, c)

LEMMA CountsInit == Init => CountInv
<1> SUFFICES ASSUME Init PROVE CountInv
  OBVIOUS
<1>1. \A s \in Sessions : sess[s].doc = NoDoc /\ ~Holds(s)
  BY WarehouseAssumption DEF Init, Idle, Holds
<1>2. \A c \in Counts : Applied(c) /\ NoDoc # c
  BY ConstantTypes DEF Init, Applied, NewCount
<1> QED BY <1>1, <1>2 DEF CountInv

\* What changes neither counts nor sessions nor locks.
LEMMA CountsStutter ==
    ASSUME CountInv, UNCHANGED <<lock, count, sess, applied>>
    PROVE  CountInv'
BY DEF CountInv, Holds, Applied, Past, Approving, Creating, AboutCount, At

\* A session goes on, perhaps with another row locked, without committing.
LEMMA CountsOnward ==
    ASSUME CountInv, NEW s \in Sessions, UNCHANGED <<count, applied>>,
           \A r \in Sessions : r # s => sess'[r] = sess[r] /\ (Holds(r)' <=> Holds(r)),
           sess'[s].pc # "idle", sess'[s].kind = sess[s].kind,
           sess'[s].doc = sess[s].doc, sess'[s].count = sess[s].count,
           sess[s].doc \in Counts =>
             /\ sess[s].kind = "approve"
             /\ sess'[s].pc \in {"write", "value", "commit"}
             /\ sess'[s].pc = "commit" =>
                  /\ ~count[sess[s].doc].valued
                  /\ \A r \in Sessions : r # s => ~Past(r, sess[s].doc)
    PROVE  CountInv'
<1>1. \A c \in Counts : Applied(c)'
  BY DEF CountInv, Applied
<1>2. \A r \in Sessions : At(r, "idle")' => ~Holds(r)'
  BY DEF CountInv, At
<1>3. ASSUME NEW r \in Sessions, NEW c \in Counts, sess'[r].doc = c
      PROVE  AboutCount(r, c)'
  <2>1. AboutCount(r, c)
    BY <1>3 DEF CountInv
  <2>2. Creating(r, c)'
    BY <2>1 DEF AboutCount, Creating
  <2>3. Approving(r, c)'
    BY <1>3, <2>1 DEF AboutCount, Approving, Past
  <2>4. /\ sess'[r].pc \in {"dest", "write", "value", "commit"}
        /\ sess'[r].pc # "commit" \/ Holds(r)' => sess'[r].kind = "approve"
    BY <1>3, <2>1 DEF AboutCount
  <2> QED BY <2>2, <2>3, <2>4 DEF AboutCount
<1> QED BY <1>1, <1>2, <1>3 DEF CountInv

\* A session ends; what is left of it is Idle.
LEMMA Ended ==
    ASSUME TypeInv, NEW s \in Sessions, End(s)
    PROVE  /\ sess'[s] = Idle /\ ~Holds(s)' /\ \A c \in Counts : Idle.doc # c
           /\ \A r \in Sessions : r # s => sess'[r] = sess[r] /\ (Holds(r)' <=> Holds(r))
BY WarehouseAssumption DEF End, TypeInv, TypeOK, Holds, Idle, Docs

\* ... without having changed a count.
LEMMA CountsRollback ==
    ASSUME TypeInv, CountInv, NEW s \in Sessions, End(s), UNCHANGED <<count, applied>>
    PROVE  CountInv'
<1>1. \A c \in Counts : Applied(c)'
  BY DEF CountInv, Applied
<1>2. \A r \in Sessions : At(r, "idle")' => ~Holds(r)'
  BY Ended DEF CountInv, At
<1>3. ASSUME NEW r \in Sessions, NEW c \in Counts, sess'[r].doc = c
      PROVE  AboutCount(r, c)'
  <2>1. r # s /\ AboutCount(r, c)
    BY <1>3, Ended DEF CountInv
  <2>2. Creating(r, c)'
    BY <2>1, Ended DEF AboutCount, Creating
  <2>3. Approving(r, c)'
    BY <2>1, Ended DEF AboutCount, Approving, Past
  <2> QED BY <2>1, <2>2, <2>3, Ended DEF AboutCount
<1> QED BY <1>1, <1>2, <1>3 DEF CountInv

\* A request begins: what it knows of its document is in new.
LEMMA CountsBegin ==
    ASSUME TypeInv, CountInv, NEW s \in Sessions, NEW kind, NEW d \in Docs,
           NEW new \in Session, Begin(s, kind, d, new), new.pc # "idle",
           d \in Counts =>
             /\ new.pc \in {"dest", "value", "commit"}
             /\ new.pc = "commit" <=> kind # "approve"
             /\ kind # "create" => count[d].status # "none"
             /\ kind = "create" =>
                  /\ count[d].status = "none" /\ Unborn(d)
                  /\ new.count.status = "draft" /\ ~new.count.valued
    PROVE  CountInv'
<1> DEFINE q == [new EXCEPT !.kind = kind, !.doc = d]
<1>1. q.pc = new.pc /\ q.kind = kind /\ q.doc = d /\ q.count = new.count
  BY DEF Session
<1>2. /\ At(s, "idle") /\ sess' = [sess EXCEPT ![s] = q]
      /\ UNCHANGED <<lock, count, applied>>
  BY DEF Begin, Records, Documents
<1> HIDE DEF q
<1>3. /\ sess'[s] = q /\ ~Holds(s)
      /\ \A r \in Sessions : r # s => sess'[r] = sess[r]
      /\ \A r \in Sessions : Holds(r)' <=> Holds(r)
  BY <1>2 DEF CountInv, TypeInv, TypeOK, Holds
<1>4. \A c \in Counts : Applied(c)'
  BY <1>2 DEF CountInv, Applied
<1>5. \A r \in Sessions : At(r, "idle")' => ~Holds(r)'
  BY <1>1, <1>3 DEF CountInv, At
<1>6. ASSUME NEW r \in Sessions, NEW c \in Counts, sess'[r].doc = c
      PROVE  AboutCount(r, c)'
  <2>1. CASE r = s
    <3>1. c = d
      BY <1>1, <1>3, <1>6, <2>1
    <3>2. Approving(r, c)'
      BY <1>1, <1>3, <2>1, <3>1 DEF Approving, Past
    <3>3. CASE kind = "create"
      <4>1. \A u \in Sessions : u # s => sess[u].doc # c
        BY <3>1, <3>3 DEF CountInv, AboutCount, Creating, Unborn
      <4>2. Creating(r, c)'
        BY <1>1, <1>2, <1>3, <2>1, <3>1, <3>3, <4>1 DEF Creating
      <4> QED BY <1>1, <1>3, <2>1, <3>1, <3>2, <4>2 DEF AboutCount
    <3>4. CASE kind # "create"
      <4>1. Creating(r, c)'
        BY <1>1, <1>2, <1>3, <2>1, <3>1, <3>4 DEF Creating
      <4> QED BY <1>1, <1>3, <2>1, <3>1, <3>2, <4>1 DEF AboutCount
    <3> QED BY <3>3, <3>4
  <2>2. CASE r # s
    <3>1. AboutCount(r, c) /\ sess[r].doc = c
      BY <1>3, <1>6, <2>2 DEF CountInv
    <3>2. ~Past(s, c)'
      BY <1>1, <1>3 DEF Past
    <3>3. Approving(r, c)'
      BY <1>2, <1>3, <2>2, <3>1, <3>2 DEF AboutCount, Approving, Past
    <3>4. sess[r].kind = "create" => c # d
      BY <3>1 DEF AboutCount, Creating, Unborn
    <3>5. Creating(r, c)'
      BY <1>1, <1>2, <1>3, <2>2, <3>1, <3>4 DEF AboutCount, Creating
    <3> QED BY <1>3, <2>2, <3>1, <3>3, <3>5 DEF AboutCount
  <2> QED BY <2>1, <2>2
<1> QED BY <1>4, <1>5, <1>6 DEF CountInv

\* A session commits.
LEMMA CountsCommit ==
    ASSUME TypeInv, CountInv, NEW s \in Sessions, Commit(s)
    PROVE  CountInv'
<1> DEFINE q == sess[s]
<1>1. /\ End(s) /\ q.pc = "commit"
      /\ \A c \in Counts : count'[c] = CountStatus(s, c)
      /\ \A c \in Counts : applied'[c] = IF c = q.doc /\ Holds(s) THEN applied[c] + 1
                                         ELSE applied[c]
  BY DEF Commit, At, Holds
<1>2. \A c \in Counts : count[c] \in Count /\ applied[c] \in Nat
  BY DEF TypeInv, TypeOK
<1>3. ASSUME NEW c \in Counts, c # q.doc
      PROVE  count'[c] = count[c] /\ applied'[c] = applied[c]
  BY <1>1, <1>3 DEF CountStatus
<1>4. ASSUME NEW c \in Counts, c = q.doc
      PROVE  /\ AboutCount(s, c) /\ Applied(c)' /\ count'[c].status # "none"
             /\ q.kind # "approve" => count'[c].valued = count[c].valued
  <2>1. AboutCount(s, c) /\ Applied(c) /\ q.kind \in CountKinds /\ q.count \in Count
    BY <1>4, SessionType DEF CountInv, Place
  <2>2. count'[c] = CountStatus(s, c) /\ count[c] \in Count
    BY <1>1, <1>2
  <2>3. CASE q.kind = "approve"
    <3>1. count'[c] = [count[c] EXCEPT !.status = "approved", !.valued = TRUE]
      BY <1>4, <2>2, <2>3 DEF CountStatus
    <3>2. count'[c].status = "approved" /\ count'[c].valued
      BY <2>2, <3>1 DEF Count
    <3>3. applied[c] = 0
      BY <1>1, <1>2, <1>4, <2>1, <2>3 DEF AboutCount, Approving, Past, Applied
    <3> QED BY <1>1, <2>1, <2>3, <3>2, <3>3 DEF Applied
  <2>4. CASE q.kind # "approve"
    <3>1. applied'[c] = applied[c]
      BY <1>1, <2>1, <2>4 DEF AboutCount
    <3>2. CASE q.kind = "create"
      <4>1. count'[c] = q.count
        BY <1>4, <2>2, <3>2 DEF CountStatus
      <4>2. /\ count'[c].status = "draft" /\ ~count'[c].valued
            /\ count[c].status = "none"
        BY <2>1, <3>2, <4>1 DEF AboutCount, Creating
      <4>3. count'[c].valued = count[c].valued
        BY <2>1, <2>2, <4>1, <4>2 DEF Applied, Count
      <4> QED BY <2>1, <2>4, <3>1, <4>2, <4>3 DEF Applied
    <3>3. CASE q.kind # "create"
      <4>1. count'[c].status # "none" /\ count'[c].valued = count[c].valued
        <5>1. count[c].status # "none"
          BY <2>1, <3>3 DEF AboutCount, Creating
        <5>2. CASE q.kind = "start"
          <6>1. count'[c] = [count[c] EXCEPT !.status = "in_progress"]
            BY <1>4, <2>2, <5>2 DEF CountStatus
          <6> QED BY <2>2, <6>1 DEF Count
        <5>3. CASE q.kind = "complete"
          <6>1. count'[c] = [count[c] EXCEPT !.status = "completed"]
            BY <1>4, <2>2, <5>3 DEF CountStatus
          <6> QED BY <2>2, <6>1 DEF Count
        <5>4. CASE q.kind = "cancel"
          <6>1. count'[c] = [count[c] EXCEPT !.status = "canceled"]
            BY <1>4, <2>2, <5>4 DEF CountStatus
          <6> QED BY <2>2, <6>1 DEF Count
        <5>5. CASE q.kind = "record"
          <6>1. count'[c] = [q.count EXCEPT !.status = count[c].status,
                                            !.valued = count[c].valued]
            BY <1>4, <2>2, <5>5 DEF CountStatus
          <6> QED BY <2>1, <5>1, <6>1 DEF Count
        <5> QED BY <2>1, <2>4, <3>3, <5>2, <5>3, <5>4, <5>5 DEF CountKinds, StatusKinds
      <4> QED BY <2>1, <2>4, <3>1, <4>1 DEF Applied
    <3> QED BY <3>2, <3>3
  <2> QED BY <2>3, <2>4
<1>5. \A c \in Counts : Applied(c)'
  <2>1. ASSUME NEW c \in Counts, c # q.doc PROVE Applied(c)'
    BY <1>3, <2>1 DEF CountInv, Applied
  <2> QED BY <1>4, <2>1
<1>6. \A r \in Sessions : At(r, "idle")' => ~Holds(r)'
  BY <1>1, Ended DEF CountInv, At
<1>7. ASSUME NEW r \in Sessions, NEW c \in Counts, sess'[r].doc = c
      PROVE  AboutCount(r, c)'
  <2>1. r # s /\ AboutCount(r, c) /\ sess'[r] = sess[r] /\ sess[r].doc = c
    BY <1>1, <1>7, Ended DEF CountInv
  <2>2. CASE c # q.doc
    <3>1. Creating(r, c)' /\ Approving(r, c)'
      BY <1>1, <1>3, <2>1, <2>2, Ended DEF AboutCount, Creating, Approving, Past
    <3> QED BY <1>1, <2>1, <3>1, Ended DEF AboutCount
  <2>3. CASE c = q.doc
    <3>1. sess[r].kind # "create"
      BY <2>1, <2>3 DEF AboutCount, Creating
    <3>2. Creating(r, c)'
      BY <1>4, <2>1, <2>3, <3>1 DEF Creating
    <3>3. Approving(r, c)'
      <4>1. Past(r, c) => q.kind # "approve"
        BY <1>1, <2>1, <2>3 DEF AboutCount, Approving, Past
      <4>2. \A u \in Sessions : Past(u, c)' => Past(u, c)
        BY <1>1, Ended DEF Past
      <4> QED BY <1>4, <2>1, <2>3, <4>1, <4>2 DEF AboutCount, Approving, Past
    <3> QED BY <1>1, <2>1, <3>2, <3>3, Ended DEF AboutCount
  <2> QED BY <2>2, <2>3
<1> QED BY <1>5, <1>6, <1>7 DEF CountInv

LEMMA CountsRequest ==
    ASSUME TypeInv, CountInv, NEW s \in Sessions, NEW d \in Docs, Request(s, d)
    PROVE  CountInv'
<1>0. /\ Moves \cap Counts = {} /\ Transfers \subseteq Moves /\ Lines \subseteq Moves
      /\ Idle \in Session
  BY WarehouseAssumption, ConstantTypes DEF Moves
<1>1. ASSUME d \in Moves, NEW kind, NEW new \in Session, new.pc # "idle",
             Begin(s, kind, d, new)
      PROVE  CountInv'
  BY <1>0, <1>1, CountsBegin
<1>2. CASE BeginTransfer(s, d) \/ BeginRelocate(s, d)
  <2>1. d \in Moves /\ \E kind : Begin(s, kind, d, Reading(From[d], "take"))
    BY <1>0, <1>2 DEF BeginTransfer, BeginRelocate
  <2>2. /\ Reading(From[d], "take") \in Session
        /\ Reading(From[d], "take").pc # "idle"
    BY <2>1, ReadingTypes, ConstantTypes
  <2> QED BY <1>1, <2>1, <2>2
<1>3. CASE BeginArrive(s, d)
  <2> DEFINE new == [Idle EXCEPT !.pc = "dest", !.seen = transfer[d]]
  <2>1. d \in Transfers /\ transfer[d] \in TransferStatuses
    BY <1>3 DEF BeginArrive, TypeInv, TypeOK
  <2>2. new \in Session /\ new.pc = "dest" /\ Begin(s, "arrive", d, new)
    BY <1>0, <1>3, <2>1 DEF Session, BeginArrive
  <2> QED BY <1>0, <1>1, <2>1, <2>2
<1>4. CASE BeginConfirm(s, d)
  <2>1. PICK ends \in SUBSET {"source", "dest"} :
          LET all == /\ line[d].source \/ "source" \in ends
                     /\ line[d].dest \/ "dest" \in ends
          IN Begin(s, "confirm", d,
                   [Idle EXCEPT !.ends = ends,
                                !.pc = IF all /\ ~line[d].done THEN "pick" ELSE "commit"])
    BY <1>4 DEF BeginConfirm
  <2>2. \E pc \in {"pick", "commit"} :
          Begin(s, "confirm", d, [Idle EXCEPT !.ends = ends, !.pc = pc])
    <3>1. \/ Begin(s, "confirm", d, [Idle EXCEPT !.ends = ends, !.pc = "pick"])
          \/ Begin(s, "confirm", d, [Idle EXCEPT !.ends = ends, !.pc = "commit"])
      BY <2>1
    <3> QED BY <3>1
  <2>3. \A pc \in {"pick", "commit"} :
          /\ [Idle EXCEPT !.ends = ends, !.pc = pc] \in Session
          /\ [Idle EXCEPT !.ends = ends, !.pc = pc].pc = pc
    BY <1>0 DEF Session
  <2>4. d \in Moves
    BY <1>0, <1>4 DEF BeginConfirm
  <2> QED BY <1>1, <2>2, <2>3, <2>4
<1>5. CASE BeginCreate(s, d)
  <2> DEFINE x == [NewCount EXCEPT !.status = "draft", !.system = level[Counted[d]].onHand]
             new == [Idle EXCEPT !.pc = "commit", !.count = x]
  <2>1. d \in Counts /\ level[Counted[d]].onHand \in Nat
    BY <1>5, ConstantTypes DEF BeginCreate, TypeInv, TypeOK, Row
  <2>2. x \in Count /\ x.status = "draft" /\ ~x.valued
    BY <2>1, ConstantTypes DEF Count, NewCount
  <2>3. Begin(s, "create", d, new) /\ count[d].status = "none" /\ Unborn(d)
    BY <1>5 DEF BeginCreate
  <2> HIDE DEF x
  <2>4. new \in Session /\ new.pc = "commit" /\ new.count = x
    BY <1>0, <2>2 DEF Session
  <2> HIDE DEF new
  <2> QED BY <2>1, <2>2, <2>3, <2>4, CountsBegin
<1>6. CASE BeginStatus(s, d)
  <2> DEFINE new == [Idle EXCEPT !.pc = "commit"]
  <2>1. PICK kind \in StatusKinds :
          count[d].status \in Allowed(kind) /\ Begin(s, kind, d, new)
    BY <1>6 DEF BeginStatus
  <2>2. count[d].status # "none" /\ kind \notin {"create", "approve"}
    BY <2>1 DEF Allowed, StatusKinds
  <2>3. new \in Session /\ new.pc = "commit"
    BY <1>0 DEF Session
  <2> HIDE DEF new
  <2> QED BY <2>1, <2>2, <2>3, CountsBegin
<1>7. CASE BeginRecord(s, d)
  <2> DEFINE x == [count[d] EXCEPT !.counted = There(Counted[d]),
                     !.found = Error(Counted[d]),
                     !.still = level[Counted[d]].onHand = count[d].system]
             new == [Idle EXCEPT !.pc = "commit", !.count = x]
  <2>1. /\ d \in Counts /\ count[d] \in Count /\ count[d].status # "none"
        /\ There(Counted[d]) \in Nat /\ Error(Counted[d]) \in Int
    BY <1>7, AtLeastZeroNat, ConstantTypes
       DEF BeginRecord, There, Error, AtLeastZero, Row, TypeInv, TypeOK
  <2>2. (level[Counted[d]].onHand = count[d].system) \in BOOLEAN
    OBVIOUS
  <2>3. x \in Count
    BY <2>1, <2>2 DEF Count
  <2>4. Begin(s, "record", d, new)
    BY <1>7 DEF BeginRecord
  <2> HIDE DEF x
  <2>5. new \in Session /\ new.pc = "commit"
    BY <1>0, <2>3 DEF Session
  <2> HIDE DEF new
  <2> QED BY <2>1, <2>4, <2>5, CountsBegin
<1>8. CASE BeginApprove(s, d)
  <2> DEFINE new(pc) == [Idle EXCEPT !.count = count[d], !.pc = pc]
  <2>1. /\ d \in Counts /\ count[d] \in Count /\ count[d].status # "none"
        /\ Begin(s, "approve", d, new("value")) \/ Begin(s, "approve", d, new("dest"))
    BY <1>8 DEF BeginApprove, TypeInv, TypeOK
  <2>2. /\ new("value") \in Session /\ new("value").pc = "value"
        /\ new("dest") \in Session /\ new("dest").pc = "dest"
    BY <1>0, <2>1 DEF Session
  <2> HIDE DEF new
  <2>3. CASE Begin(s, "approve", d, new("value"))
    BY <2>1, <2>2, <2>3, CountsBegin
  <2>4. CASE Begin(s, "approve", d, new("dest"))
    BY <2>1, <2>2, <2>4, CountsBegin
  <2> QED BY <2>1, <2>3, <2>4
<1> QED BY <1>2, <1>3, <1>4, <1>5, <1>6, <1>7, <1>8 DEF Request

\* A session writes a row: only an approval does so about a count.
LEMMA CountsWrite ==
    ASSUME TypeInv, CountInv, NEW s \in Sessions, NEW p \in Places, NEW row, NEW stale,
           NEW pc \in {"put", "dest", "value", "commit"}, Write(s, p, row, stale, pc),
           Free(p), ~At(s, "idle"),
           sess[s].doc \in Counts => sess[s].kind = "approve" /\ pc = "value"
    PROVE  CountInv'
<1>1. /\ sess'[s].pc = pc /\ sess'[s].kind = sess[s].kind
      /\ sess'[s].doc = sess[s].doc /\ sess'[s].count = sess[s].count
      /\ \A r \in Sessions : r # s => sess'[r] = sess[r]
  BY DEF Write, TypeInv, TypeOK, Session
<1>2. \A r \in Sessions : r # s => (Holds(r)' <=> Holds(r))
  BY WarehouseAssumption DEF Write, Free, Holds, TypeInv, TypeOK
<1>3. UNCHANGED <<count, applied>>
  BY DEF Write, Records, Documents
<1> QED BY <1>1, <1>2, <1>3, CountsOnward

LEMMA CountsStep ==
    ASSUME TypeInv, CountInv, NEW s \in Sessions, Step(s) \/ Fail(s)
    PROVE  CountInv'
<1> DEFINE q == sess[s]
<1>0. /\ Moves \cap Counts = {} /\ NoDoc \notin Counts
      /\ q \in Session /\ Place(q) /\ sess \in [Sessions -> Session]
  BY WarehouseAssumption, ConstantTypes, SessionType DEF TypeInv, TypeOK
<1>1. Rollback(s) => CountInv'
  BY CountsRollback DEF Rollback, Records, Documents
<1>2. CASE Take(s)
  <2>1. q.doc \notin Counts /\ q.pc = "take" /\ Source(s) \in Places /\ Free(Source(s))
    BY <1>0, <1>2, SessionType DEF Take, At, Place
  <2>2. ASSUME NEW row, NEW stale, NEW pc \in {"put", "dest"},
               Write(s, Source(s), row, stale, pc)
        PROVE  CountInv'
    BY <2>1, <2>2, CountsWrite DEF At
  <2>3. ASSUME NEW pc \in {"put", "dest"}, NEW p, UNCHANGED <<lock, Records>>,
               sess' = [sess EXCEPT ![s].pc = pc, ![s].stale = @ \cup {p}]
        PROVE  CountInv'
    <3>1. /\ sess'[s].pc = pc /\ sess'[s].kind = q.kind
          /\ sess'[s].doc = q.doc /\ sess'[s].count = q.count
          /\ \A r \in Sessions : r # s => sess'[r] = sess[r]
      BY <1>0, <2>3 DEF Session
    <3>2. \A r \in Sessions : Holds(r)' <=> Holds(r)
      BY <2>3 DEF Holds
    <3>3. UNCHANGED <<count, applied>>
      BY <2>3 DEF Records, Documents
    <3> QED BY <2>1, <3>1, <3>2, <3>3, CountsOnward
  <2>4. CASE q.kind = "transfer"
    BY <1>1, <1>2, <2>2, <2>3, <2>4 DEF Take
  <2>5. CASE q.kind # "transfer"
    BY <1>1, <1>2, <2>2, <2>3, <2>5 DEF Take
  <2> QED BY <2>4, <2>5
<1>3. CASE Pick(s) \/ Put(s)
  <2>1. /\ q.doc \notin Counts /\ ~At(s, "idle")
        /\ Source(s) \in Places /\ Dest(s) \in Places
    BY <1>0, <1>3, SessionType DEF Pick, Put, At, Place
  <2>2. CASE Pick(s)
    BY <1>1, <2>1, <2>2, CountsWrite DEF Pick
  <2>3. CASE Put(s)
    BY <2>1, <2>3, CountsWrite DEF Put
  <2> QED BY <1>3, <2>2, <2>3
<1>4. CASE ReadDest(s)
  <2>1. q.doc \in Counts => q.kind = "approve"
    BY <1>0, <1>4 DEF ReadDest, At, CountInv, AboutCount
  <2>2. ASSUME NEW p, NEW row, UNCHANGED <<lock, Records>>,
               sess' = [sess EXCEPT ![s].old[p] = row, ![s].pc = "write"]
        PROVE  CountInv'
    <3>1. /\ sess'[s].pc = "write" /\ sess'[s].kind = q.kind
          /\ sess'[s].doc = q.doc /\ sess'[s].count = q.count
          /\ \A r \in Sessions : r # s => sess'[r] = sess[r]
      BY <1>0, <2>2 DEF Session
    <3>2. \A r \in Sessions : Holds(r)' <=> Holds(r)
      BY <2>2 DEF Holds
    <3>3. UNCHANGED <<count, applied>>
      BY <2>2 DEF Records, Documents
    <3> QED BY <2>1, <3>1, <3>2, <3>3, CountsOnward
  <2> QED BY <1>1, <1>4, <2>2 DEF ReadDest
<1>5. CASE WriteDest(s)
  <2>1. /\ q.doc \in Counts => q.kind = "approve"
        /\ Dest(s) \in Places /\ ~At(s, "idle") /\ Free(Dest(s))
    BY <1>0, <1>5, SessionType DEF WriteDest, At, CountInv, AboutCount
  <2>2. CASE Missed(s, Dest(s))
    BY <1>1, <1>5, <2>2 DEF WriteDest
  <2>3. CASE ~Missed(s, Dest(s)) /\ q.kind = "approve"
    <3>1. \E row, stale : Write(s, Dest(s), row, stale, "value")
      BY <1>5, <2>3 DEF WriteDest
    <3> QED BY <2>1, <2>3, <3>1, CountsWrite
  <2>4. CASE ~Missed(s, Dest(s)) /\ q.kind # "approve"
    <3>1. \E row, stale : Write(s, Dest(s), row, stale, "commit")
      BY <1>5, <2>4 DEF WriteDest
    <3> QED BY <2>1, <2>4, <3>1, CountsWrite
  <2> QED BY <2>2, <2>3, <2>4
<1>6. CASE Value(s)
  <2>1. /\ q.doc \in Counts => q.kind = "approve"
        /\ \A r \in Sessions : r # s => ~Past(r, q.doc)
    BY <1>0, <1>6 DEF Value, At, CountInv, AboutCount, Past
  <2>2. CASE Valued(s)
    BY <1>1, <1>6, <2>2 DEF Value
  <2>3. CASE ~Valued(s)
    <3>1. /\ sess'[s].pc = "commit" /\ sess'[s].kind = q.kind
          /\ sess'[s].doc = q.doc /\ sess'[s].count = q.count
          /\ \A r \in Sessions : r # s => sess'[r] = sess[r]
      BY <1>0, <1>6, <2>3 DEF Value, Go, Session
    <3>2. UNCHANGED <<lock, count, applied>> /\ ~count[q.doc].valued
      BY <1>6, <2>3 DEF Value, Valued, Records, Documents
    <3>3. \A r \in Sessions : Holds(r)' <=> Holds(r)
      BY <3>2 DEF Holds
    <3> QED BY <2>1, <3>1, <3>2, <3>3, CountsOnward
  <2> QED BY <2>2, <2>3
<1>7. CASE Commit(s)
  BY <1>7, CountsCommit
<1>8. CASE Fail(s)
  BY <1>1, <1>8 DEF Fail
<1> QED BY <1>2, <1>3, <1>4, <1>5, <1>6, <1>7, <1>8 DEF Step

LEMMA CountsNext == TypeInv /\ CountInv /\ [Next]_vars => CountInv'
<1> SUFFICES ASSUME TypeInv, CountInv, [Next]_vars PROVE CountInv'
  OBVIOUS
<1>1. CASE UNCHANGED vars
  BY <1>1, CountsStutter DEF vars, Documents
<1>2. ASSUME NEW p \in Places, Sell(p) \/ Receive(p) \/ Shrink(p)
      PROVE  CountInv'
  BY <1>2, CountsStutter DEF Sell, Receive, Shrink, Apart, Documents
<1> QED BY <1>1, <1>2, CountsRequest, CountsStep DEF Next

-----------------------------------------------------------------------------
(* The ledger.  A row that a session has written, and holds, is the level as *)
(* it still is, changed by what the session's movement will put on record:   *)
(* the goods it gives, the goods it gets, or the correction of a count; or   *)
(* the row had changed since it was read, and is on the session's list.      *)

MoveKinds == {"transfer", "initiate", "arrive", "relocate", "confirm"}

Gives(s, p) ==
    /\ sess[s].doc \in Moves /\ p = Source(s)
    /\ sess[s].kind \in {"transfer", "initiate", "relocate", "confirm"}
    /\ sess[s].pc \notin {"idle", "take", "pick"}
    /\ p \in sess[s].stale \/ sess[s].new[p].onHand = level[p].onHand - Qty[sess[s].doc]

Gets(s, p) ==
    /\ sess[s].doc \in Moves /\ p = Dest(s)
    /\ sess[s].kind \in MoveKinds /\ sess[s].pc = "commit"
    /\ \/ p \in sess[s].stale
       \/ sess[s].new[p].onHand = level[p].onHand
            + IF sess[s].kind = "initiate" THEN 0 ELSE Qty[sess[s].doc]

Corrects(s, p) ==
    /\ sess[s].doc \in Counts /\ p = Dest(s)
    /\ sess[s].kind = "approve" /\ sess[s].pc \in {"value", "commit"}
    /\ \/ p \in sess[s].stale
       \/ /\ sess[s].old[p].onHand = level[p].onHand
          /\ sess[s].new[p].onHand = Adjusted(s)

\* What a session holds is accounted for, ...
Accounted(s) ==
    \A p \in Places : lock[p] = s => Gives(s, p) \/ Gets(s, p) \/ Corrects(s, p)

\* ... it has written what its movement will say it has moved, ...
Wrote(s) ==
    /\ sess[s].kind \in {"transfer", "initiate", "relocate"} /\ ~At(s, "take")
         => lock[Source(s)] = s \/ Source(s) \in sess[s].stale
    /\ sess[s].kind \in {"transfer", "arrive", "relocate"} /\ At(s, "commit")
         => lock[Dest(s)] = s

\* ... and it is of a kind that can be where it is.
Fits(q) ==
    IF q.pc = "idle" THEN q.kind = "none"
    ELSE /\ q.kind \in MoveKinds <=> q.doc \in Moves
         /\ q.kind = "arrive" => q.seen = "in_transit"
         /\ q.pc = "take" => q.kind \in {"transfer", "initiate", "relocate"}
         /\ q.pc = "pick" => q.kind = "confirm"
         /\ q.pc = "put" => q.kind \in {"transfer", "confirm"}
         /\ q.pc = "value" => q.kind = "approve"

WorkInv(s) == Accounted(s) /\ Wrote(s) /\ Fits(sess[s])

BalanceInv == LedgerBalances /\ \A s \in Sessions : WorkInv(s)

\* The steps of others leave a session, its rows and their levels alone.
LEMMA WorkOther ==
    ASSUME NEW r \in Sessions, WorkInv(r), sess'[r] = sess[r],
           \A p \in Places : lock'[p] = r <=> lock[p] = r,
           \A p \in Places : lock[p] = r => level'[p] = level[p],
           Source(r) \in Places \/ sess[r].doc \notin Moves,
           Dest(r) \in Places \/ At(r, "idle")
    PROVE  WorkInv(r)'
<1>1. /\ Dest(r)' = Dest(r) /\ Source(r)' = Source(r) /\ Adjusted(r)' = Adjusted(r)
      /\ At(r, "idle")' <=> At(r, "idle")
  BY DEF Dest, Source, Adjusted, Discrepancy, At
<1>2. Accounted(r)'
  <2> SUFFICES ASSUME NEW p \in Places, lock'[p] = r
               PROVE  (Gives(r, p) \/ Gets(r, p) \/ Corrects(r, p))'
    BY DEF Accounted
  <2>1. lock[p] = r /\ level'[p] = level[p]
    OBVIOUS
  <2>2. Gives(r, p) \/ Gets(r, p) \/ Corrects(r, p)
    BY <2>1 DEF WorkInv, Accounted
  <2>3. Gives(r, p) => Gives(r, p)'
    BY <1>1, <2>1 DEF Gives
  <2>4. Gets(r, p) => Gets(r, p)'
    BY <1>1, <2>1 DEF Gets
  <2>5. Corrects(r, p) => Corrects(r, p)'
    BY <1>1, <2>1 DEF Corrects
  <2> QED BY <2>2, <2>3, <2>4, <2>5
<1>3. Wrote(r)'
  BY <1>1 DEF WorkInv, Wrote, At, Fits, MoveKinds
<1>4. Fits(sess[r])'
  BY DEF WorkInv
<1> QED BY <1>2, <1>3, <1>4 DEF WorkInv

LEMMA EndsOfMove ==
    ASSUME TypeInv, NEW r \in Sessions
    PROVE  /\ Source(r) \in Places \/ sess[r].doc \notin Moves
           /\ Dest(r) \in Places \/ At(r, "idle")
BY SessionType DEF At

\* An idle session holds no row.
LEMMA IdleHolds ==
    ASSUME NEW s \in Sessions, WorkInv(s), At(s, "idle") \/ At(s, "take") \/ At(s, "pick")
    PROVE  \A p \in Places : lock[p] # s
BY DEF WorkInv, Accounted, Gives, Gets, Corrects, At

LEMMA WorkEnd ==
    ASSUME TypeInv, NEW s \in Sessions, End(s),
           \A r \in Sessions : WorkInv(r),
           \A p \in Places : lock[p] # s => level'[p] = level[p]
    PROVE  \A r \in Sessions : WorkInv(r)'
<1>1. ASSUME NEW r \in Sessions, r # s
      PROVE  WorkInv(r)'
  <2>1. sess'[r] = sess[r]
    BY <1>1, Ended
  <2>2. \A p \in Places : (lock'[p] = r <=> lock[p] = r) /\ NoSession # r
    BY <1>1, WarehouseAssumption DEF End
  <2> QED BY <1>1, <2>1, <2>2, WorkOther, EndsOfMove
<1>2. WorkInv(s)'
  <2>1. sess'[s] = Idle /\ \A p \in Places : lock'[p] # s
    BY Ended DEF Holds
  <2>2. Idle.pc = "idle" /\ Idle.kind = "none"
    BY DEF Idle
  <2> QED BY <2>1, <2>2 DEF WorkInv, Accounted, Wrote, Fits
<1> QED BY <1>1, <1>2

LEMMA BalanceRollback ==
    ASSUME TypeInv, BalanceInv, NEW s \in Sessions, Rollback(s)
    PROVE  BalanceInv'
<1>1. UNCHANGED <<level, ledger, lost>>
  BY DEF Rollback, Records
<1>2. \A r \in Sessions : WorkInv(r)'
  BY <1>1, WorkEnd DEF Rollback, BalanceInv
<1> QED BY <1>1, <1>2 DEF BalanceInv, LedgerBalances

\* A session begins, holding nothing.
LEMMA BalanceBegin ==
    ASSUME TypeInv, BalanceInv, NEW s \in Sessions, NEW kind, NEW d \in Docs,
           NEW new \in Session, Begin(s, kind, d, new), new.pc # "idle",
           kind \in MoveKinds <=> d \in Moves,
           kind = "arrive" => new.seen = "in_transit" /\ new.pc = "dest",
           kind \in {"transfer", "initiate", "relocate"} <=> new.pc = "take",
           new.pc = "pick" => kind = "confirm", new.pc # "put",
           new.pc = "value" => kind = "approve"
    PROVE  BalanceInv'
<1> DEFINE q == [new EXCEPT !.kind = kind, !.doc = d]
<1>1. q.pc = new.pc /\ q.kind = kind /\ q.doc = d /\ q.seen = new.seen
  BY DEF Session
<1>2. /\ At(s, "idle") /\ sess' = [sess EXCEPT ![s] = q]
      /\ UNCHANGED <<lock, level, ledger, lost>>
  BY DEF Begin, Records
<1> HIDE DEF q
<1>3. sess'[s] = q /\ \A r \in Sessions : r # s => sess'[r] = sess[r]
  BY <1>2 DEF TypeInv, TypeOK
<1>4. ASSUME NEW r \in Sessions, r # s
      PROVE  WorkInv(r)'
  BY <1>2, <1>3, <1>4, WorkOther, EndsOfMove DEF BalanceInv
<1>5. \A p \in Places : lock'[p] # s
  BY <1>2, IdleHolds DEF BalanceInv
<1>6. Fits(q)
  BY <1>1 DEF Fits
<1>7. Wrote(s)'
  BY <1>1, <1>3 DEF Wrote, At
<1>8. WorkInv(s)'
  BY <1>3, <1>5, <1>6, <1>7 DEF WorkInv, Accounted
<1> QED BY <1>2, <1>4, <1>8 DEF BalanceInv, LedgerBalances

LEMMA BalanceRequest ==
    ASSUME TypeInv, BalanceInv, NEW s \in Sessions, NEW d \in Docs, Request(s, d)
    PROVE  BalanceInv'
<1>0. /\ Moves \cap Counts = {} /\ Transfers \subseteq Moves /\ Lines \subseteq Moves
      /\ Idle \in Session
  BY WarehouseAssumption, ConstantTypes DEF Moves
<1>1. CASE BeginTransfer(s, d) \/ BeginRelocate(s, d)
  <2>1. /\ d \in Moves
        /\ \E kind \in {"transfer", "initiate", "relocate"} :
             Begin(s, kind, d, Reading(From[d], "take"))
    BY <1>0, <1>1 DEF BeginTransfer, BeginRelocate
  <2>2. /\ Reading(From[d], "take") \in Session
        /\ Reading(From[d], "take").pc = "take"
    BY <2>1, ReadingTypes, ConstantTypes
  <2> QED BY <2>1, <2>2, BalanceBegin DEF MoveKinds
<1>2. CASE BeginArrive(s, d)
  <2> DEFINE new == [Idle EXCEPT !.pc = "dest", !.seen = transfer[d]]
  <2>1. d \in Transfers /\ transfer[d] = "in_transit"
    BY <1>2 DEF BeginArrive, Completable
  <2>2. /\ new \in Session /\ new.pc = "dest" /\ new.seen = "in_transit"
        /\ Begin(s, "arrive", d, new)
    BY <1>0, <1>2, <2>1 DEF Session, BeginArrive, TransferStatuses
  <2> HIDE DEF new
  <2> QED BY <1>0, <2>1, <2>2, BalanceBegin DEF MoveKinds
<1>3. CASE BeginConfirm(s, d)
  <2>1. PICK ends \in SUBSET {"source", "dest"} :
          LET all == /\ line[d].source \/ "source" \in ends
                     /\ line[d].dest \/ "dest" \in ends
          IN Begin(s, "confirm", d,
                   [Idle EXCEPT !.ends = ends,
                                !.pc = IF all /\ ~line[d].done THEN "pick" ELSE "commit"])
    BY <1>3 DEF BeginConfirm
  <2>2. \E pc \in {"pick", "commit"} :
          Begin(s, "confirm", d, [Idle EXCEPT !.ends = ends, !.pc = pc])
    <3>1. \/ Begin(s, "confirm", d, [Idle EXCEPT !.ends = ends, !.pc = "pick"])
          \/ Begin(s, "confirm", d, [Idle EXCEPT !.ends = ends, !.pc = "commit"])
      BY <2>1
    <3> QED BY <3>1
  <2>3. \A pc \in {"pick", "commit"} :
          /\ [Idle EXCEPT !.ends = ends, !.pc = pc] \in Session
          /\ [Idle EXCEPT !.ends = ends, !.pc = pc].pc = pc
    BY <1>0 DEF Session
  <2>4. d \in Moves
    BY <1>0, <1>3 DEF BeginConfirm
  <2> QED BY <2>2, <2>3, <2>4, BalanceBegin DEF MoveKinds
<1>4. ASSUME NEW kind \in CountKinds, NEW new \in Session, d \in Counts,
             Begin(s, kind, d, new), new.pc \in {"commit", "value", "dest"},
             new.pc = "value" => kind = "approve"
      PROVE  BalanceInv'
  <2>1. kind \notin MoveKinds /\ d \notin Moves
    BY <1>0, <1>4 DEF CountKinds, StatusKinds, MoveKinds
  <2>2. kind # "arrive" /\ kind \notin {"transfer", "initiate", "relocate"}
    BY <2>1 DEF MoveKinds
  <2> QED BY <1>4, <2>1, <2>2, BalanceBegin
<1>5. \A x \in Count : /\ [Idle EXCEPT !.pc = "commit", !.count = x] \in Session
                       /\ [Idle EXCEPT !.pc = "commit", !.count = x].pc = "commit"
  BY ConstantTypes DEF Session
<1>6. CASE BeginCreate(s, d)
  <2> DEFINE x == [NewCount EXCEPT !.status = "draft", !.system = level[Counted[d]].onHand]
  <2>1. d \in Counts /\ level[Counted[d]].onHand \in Nat
    BY <1>6, ConstantTypes DEF BeginCreate, TypeInv, TypeOK, Row
  <2>2. x \in Count
    BY <2>1, ConstantTypes DEF Count
  <2>3. Begin(s, "create", d, [Idle EXCEPT !.pc = "commit", !.count = x])
    BY <1>6 DEF BeginCreate
  <2> HIDE DEF x
  <2> QED BY <1>4, <1>5, <2>1, <2>2, <2>3 DEF CountKinds
<1>7. CASE BeginStatus(s, d)
  <2>1. /\ [Idle EXCEPT !.pc = "commit"] \in Session
        /\ [Idle EXCEPT !.pc = "commit"].pc = "commit"
    BY <1>0 DEF Session
  <2> QED BY <1>4, <1>7, <2>1 DEF BeginStatus, CountKinds
<1>8. CASE BeginRecord(s, d)
  <2> DEFINE x == [count[d] EXCEPT !.counted = There(Counted[d]),
                     !.found = Error(Counted[d]),
                     !.still = level[Counted[d]].onHand = count[d].system]
  <2>1. /\ d \in Counts /\ count[d] \in Count
        /\ There(Counted[d]) \in Nat /\ Error(Counted[d]) \in Int
    BY <1>8, AtLeastZeroNat, ConstantTypes
       DEF BeginRecord, There, Error, AtLeastZero, Row, TypeInv, TypeOK
  <2>2. (level[Counted[d]].onHand = count[d].system) \in BOOLEAN
    OBVIOUS
  <2>3. x \in Count
    BY <2>1, <2>2 DEF Count
  <2>4. Begin(s, "record", d, [Idle EXCEPT !.pc = "commit", !.count = x])
    BY <1>8 DEF BeginRecord
  <2> HIDE DEF x
  <2> QED BY <1>4, <1>5, <2>1, <2>3, <2>4 DEF CountKinds
<1>9. CASE BeginApprove(s, d)
  <2> DEFINE new(pc) == [Idle EXCEPT !.count = count[d], !.pc = pc]
  <2>1. /\ d \in Counts /\ count[d] \in Count
        /\ Begin(s, "approve", d, new("value")) \/ Begin(s, "approve", d, new("dest"))
    BY <1>9 DEF BeginApprove, TypeInv, TypeOK
  <2>2. /\ new("value") \in Session /\ new("value").pc = "value"
        /\ new("dest") \in Session /\ new("dest").pc = "dest"
    BY <1>0, <2>1 DEF Session
  <2> HIDE DEF new
  <2> QED BY <1>4, <2>1, <2>2 DEF CountKinds
<1> QED BY <1>1, <1>2, <1>3, <1>6, <1>7, <1>8, <1>9 DEF Request

\* What Write leaves of a session, and what it changes.
Rewrites(s, p, row, stale, pc) ==
    /\ sess'[s].pc = pc /\ sess'[s].kind = sess[s].kind
    /\ sess'[s].doc = sess[s].doc /\ sess'[s].seen = sess[s].seen
    /\ sess'[s].old = sess[s].old /\ sess'[s].count = sess[s].count
    /\ sess'[s].new[p] = row
    /\ p \in sess'[s].stale <=> stale \/ p \in sess[s].stale
    /\ \A x \in Places : x # p =>
         /\ sess'[s].new[x] = sess[s].new[x]
         /\ x \in sess'[s].stale <=> x \in sess[s].stale
    /\ lock'[p] = s /\ \A x \in Places : x # p => lock'[x] = lock[x]
    /\ \A r \in Sessions : r # s => sess'[r] = sess[r]
    /\ Dest(s)' = Dest(s) /\ Source(s)' = Source(s) /\ Adjusted(s)' = Adjusted(s)
    /\ UNCHANGED <<level, ledger, lost>>

LEMMA WriteFacts ==
    ASSUME TypeInv, NEW s \in Sessions, NEW p \in Places, NEW row,
           NEW stale \in BOOLEAN, NEW pc \in {"put", "dest", "value", "commit"},
           Write(s, p, row, stale, pc)
    PROVE  Rewrites(s, p, row, stale, pc)
<1> DEFINE x == sess[s]
           t == IF stale THEN x.stale \cup {p} ELSE x.stale
           q == [x EXCEPT !.new = [@ EXCEPT ![p] = row], !.pc = pc, !.stale = t]
<1>1. x \in Session /\ sess \in [Sessions -> Session]
  BY DEF TypeInv, TypeOK
<1>2. /\ sess' = [sess EXCEPT ![s].new[p] = row, ![s].pc = pc, ![s].stale = t]
      /\ lock' = [lock EXCEPT ![p] = s] /\ UNCHANGED <<level, ledger, lost>>
  BY DEF Write, Records
<1>3. /\ sess'[s] = q /\ \A r \in Sessions : r # s => sess'[r] = sess[r]
      /\ lock'[p] = s /\ \A y \in Places : y # p => lock'[y] = lock[y]
  <2>1. /\ lock'[p] = s /\ \A y \in Places : y # p => lock'[y] = lock[y]
    BY <1>2 DEF TypeInv, TypeOK
  <2> HIDE DEF t
  <2>2. sess'[s] = q /\ \A r \in Sessions : r # s => sess'[r] = sess[r]
    BY <1>1, <1>2
  <2> QED BY <2>1, <2>2
<1>4. /\ q.pc = pc /\ q.kind = x.kind /\ q.doc = x.doc /\ q.seen = x.seen
      /\ q.old = x.old /\ q.count = x.count /\ q.stale = t
      /\ q.new = [x.new EXCEPT ![p] = row] /\ x.new \in [Places -> Row]
  <2> HIDE DEF t
  <2> QED BY <1>1 DEF Session
<1>5. Dest(s)' = Dest(s) /\ Source(s)' = Source(s) /\ Adjusted(s)' = Adjusted(s)
  BY <1>3, <1>4 DEF Dest, Source, Adjusted, Discrepancy
<1>6. /\ p \in t <=> stale \/ p \in x.stale
      /\ \A y \in Places : y # p => (y \in t <=> y \in x.stale)
  OBVIOUS
<1>7. /\ q.new[p] = row
      /\ \A y \in Places : y # p => q.new[y] = x.new[y]
  BY <1>4
<1> HIDE DEF q, t, x
<1>8. /\ sess'[s].pc = pc /\ sess'[s].kind = x.kind
      /\ sess'[s].doc = x.doc /\ sess'[s].seen = x.seen
      /\ sess'[s].old = x.old /\ sess'[s].count = x.count
      /\ sess'[s].new = q.new /\ sess'[s].stale = t
  BY <1>3, <1>4
<1> QED BY <1>2, <1>3, <1>5, <1>6, <1>7, <1>8 DEF x, Rewrites

\* A session writes a row nobody holds, and the row is accounted for.
LEMMA BalanceWrite ==
    ASSUME TypeInv, BalanceInv, NEW s \in Sessions, NEW p \in Places, NEW row,
           NEW stale \in BOOLEAN, NEW pc \in {"put", "dest", "value", "commit"},
           Write(s, p, row, stale, pc), Free(p), ~At(s, "idle"),
           (Gives(s, p) \/ Gets(s, p) \/ Corrects(s, p))',
           pc = "put" => sess[s].kind \in {"transfer", "confirm"},
           sess[s].kind \in {"transfer", "initiate", "relocate"} =>
             p = Source(s) \/ ~At(s, "take"),
           sess[s].kind \in {"transfer", "arrive", "relocate"} /\ pc = "commit" =>
             p = Dest(s),
           sess[s].pc = "pick" => sess[s].kind = "confirm",
           pc = "value" => sess[s].kind = "approve",
           sess[s].pc \in {"take", "pick", "put", "dest", "write"}
    PROVE  BalanceInv'
<1>0. Rewrites(s, p, row, stale, pc)
  BY WriteFacts
<1>1. ASSUME NEW r \in Sessions, r # s
      PROVE  WorkInv(r)'
  <2>1. \A y \in Places : lock'[y] = r <=> lock[y] = r
    BY <1>1, <1>0, WarehouseAssumption DEF Free, Rewrites
  <2>2. sess'[r] = sess[r] /\ UNCHANGED level
    BY <1>0, <1>1 DEF Rewrites
  <2> QED BY <2>1, <2>2, WorkOther, EndsOfMove DEF BalanceInv
<1>2. WorkInv(s) /\ sess[s].pc # "idle"
  BY DEF BalanceInv, At
<1>3. ASSUME NEW y \in Places, y # p, lock'[y] = s
      PROVE  (Gives(s, y) \/ Gets(s, y) \/ Corrects(s, y))'
  <2>1. lock[y] = s
    BY <1>0, <1>3 DEF Rewrites
  <2>2. Gives(s, y)
    BY <1>2, <2>1 DEF WorkInv, Accounted, Gets, Corrects
  <2>3. Gives(s, y)'
    BY <1>0, <1>3, <2>2 DEF Gives, Rewrites
  <2> QED BY <2>3
<1>4. Accounted(s)'
  BY <1>3 DEF Accounted
<1>5. Fits(sess[s])'
  BY <1>0, <1>2 DEF WorkInv, Fits, Rewrites
<1>6. Wrote(s)'
  <2>1. ASSUME sess[s].kind \in {"transfer", "initiate", "relocate"}
        PROVE  lock'[Source(s)] = s \/ Source(s) \in sess'[s].stale
    <3>1. CASE p = Source(s)
      BY <1>0, <3>1 DEF Rewrites
    <3>2. CASE p # Source(s)
      <4>1. Source(s) \in Places
        BY <1>2, <2>1, EndsOfMove DEF WorkInv, Fits, MoveKinds
      <4>2. lock[Source(s)] = s \/ Source(s) \in sess[s].stale
        BY <1>2, <2>1, <3>2 DEF WorkInv, Wrote
      <4> QED BY <1>0, <3>2, <4>1, <4>2 DEF Rewrites
    <3> QED BY <3>1, <3>2
  <2> QED BY <1>0, <2>1 DEF Wrote, At, Rewrites
<1>7. WorkInv(s)'
  BY <1>4, <1>5, <1>6 DEF WorkInv
<1> QED BY <1>0, <1>1, <1>7 DEF BalanceInv, LedgerBalances, Rewrites

\* A session goes on without writing; what it reads is not of a row it holds.
LEMMA BalanceOnward ==
    ASSUME TypeInv, BalanceInv, NEW s \in Sessions, UNCHANGED <<lock, level, ledger, lost>>,
           \A r \in Sessions : r # s => sess'[r] = sess[r],
           sess'[s].kind = sess[s].kind, sess'[s].doc = sess[s].doc,
           sess'[s].seen = sess[s].seen, sess'[s].count = sess[s].count,
           sess'[s].new = sess[s].new, sess[s].stale \subseteq sess'[s].stale,
           sess'[s].pc \notin {"idle", "take", "pick", "value"}, ~At(s, "idle"),
           ~At(s, "commit"), At(s, "value") => sess'[s].pc = "commit",
           sess'[s].pc = "put" => sess[s].kind \in {"transfer", "confirm"},
           At(s, "take") => Source(s) \in sess'[s].stale,
           sess'[s].pc = "commit" => At(s, "value") /\ sess[s].kind = "approve",
           sess'[s].old = sess[s].old \/ At(s, "dest")
    PROVE  BalanceInv'
<1>1. \A r \in Sessions : r # s => WorkInv(r)'
  BY WorkOther, EndsOfMove DEF BalanceInv
<1>2. WorkInv(s) /\ sess[s].pc # "idle"
  BY DEF BalanceInv, At
<1>3. Dest(s)' = Dest(s) /\ Source(s)' = Source(s)
  BY DEF Dest, Source
<1>4. Accounted(s)'
  <2> SUFFICES ASSUME NEW y \in Places, lock[y] = s
               PROVE  (Gives(s, y) \/ Gets(s, y) \/ Corrects(s, y))'
    BY DEF Accounted
  <2>1. Gives(s, y) \/ Gets(s, y) \/ Corrects(s, y)
    BY <1>2 DEF WorkInv, Accounted
  <2>2. CASE Gives(s, y)
    <3>1. Gives(s, y)'
      BY <1>3, <2>2 DEF Gives
    <3> QED BY <3>1
  <2>3. CASE Gets(s, y)
    <3>1. Gets(s, y)'
      BY <1>3, <2>3 DEF Gets, At
    <3> QED BY <3>1
  <2>4. CASE Corrects(s, y)
    <3>1. sess'[s].old = sess[s].old
      BY <2>4 DEF Corrects, At
    <3>2. Adjusted(s)' = Adjusted(s)
      BY <1>3, <3>1 DEF Adjusted, Discrepancy
    <3>3. Corrects(s, y)'
      BY <1>3, <2>4, <3>1, <3>2 DEF Corrects, At
    <3> QED BY <3>3
  <2> QED BY <2>1, <2>2, <2>3, <2>4
<1>5. Fits(sess[s])'
  BY <1>2 DEF WorkInv, Fits
<1>6. Wrote(s)'
  BY <1>2, <1>3 DEF WorkInv, Wrote, At
<1> QED BY <1>1, <1>4, <1>5, <1>6 DEF BalanceInv, LedgerBalances, WorkInv

LEMMA BalanceTake ==
    ASSUME TypeInv, BalanceInv, NEW s \in Sessions, Take(s)
    PROVE  BalanceInv'
<1>0. PICK p \in Places : p = Source(s)
  BY SessionType DEF Take, At, Place
<1> DEFINE old == sess[s].old[p] d == sess[s].doc
           n == old.onHand - Qty[d]
           next == IF sess[s].kind = "transfer" THEN "put" ELSE "dest"
<1>1. /\ At(s, "take") /\ Free(p) /\ d \in Moves /\ p \in Places /\ old \in Row
      /\ sess[s].kind \in {"transfer", "initiate", "relocate"}
      /\ level[p] \in Row /\ ~At(s, "idle") /\ n \in Nat /\ Qty[d] \in Nat
  <2>1. At(s, "take") /\ Free(p)
    BY <1>0 DEF Take
  <2>2. /\ d \in Moves /\ p \in Places /\ old \in Row
        /\ sess[s].kind \in {"transfer", "initiate", "relocate"}
        /\ old.onHand >= Qty[d] /\ level[p] \in Row
    BY <1>0, <2>1, SessionType DEF At, Place, Source, TypeInv, TypeOK
  <2> QED BY <2>1, <2>2, ConstantTypes DEF At, Row
<1>2. CASE level[p].there
  <2> DEFINE row == Left(s, level[p], n) stale == level[p].onHand # old.onHand
  <2>1. Write(s, p, row, stale, next)
    BY <1>0, <1>2 DEF Take
  <2>2. row.onHand = n /\ stale \in BOOLEAN /\ next \in {"put", "dest"}
    BY <1>1 DEF Left, NoRow, Row
  <2>3. next = "put" => sess[s].kind = "transfer"
    OBVIOUS
  <2>4. ~stale => row.onHand = level[p].onHand - Qty[d]
    BY <2>2
  <2> HIDE DEF row, stale, next, n, old
  <2>5. Rewrites(s, p, row, stale, next)
    BY <2>1, <2>2, WriteFacts
  <2>6. Gives(s, p)'
    BY <1>0, <1>1, <2>2, <2>4, <2>5 DEF Gives, Rewrites
  <2>7. sess[s].pc = "take"
    BY <1>1 DEF At
  <2> QED BY <1>0, <1>1, <2>1, <2>2, <2>3, <2>6, <2>7, BalanceWrite
<1>3. CASE ~level[p].there /\ sess[s].kind = "relocate"
  BY <1>0, <1>3, BalanceRollback DEF Take
<1>4. CASE ~level[p].there /\ sess[s].kind # "relocate"
  <2> DEFINE x == sess[s] q == [x EXCEPT !.pc = next, !.stale = @ \cup {p}]
  <2>1. sess' = [sess EXCEPT ![s] = q] /\ UNCHANGED <<lock, level, ledger, lost>>
    BY <1>0, <1>4 DEF Take, Records
  <2>2. x \in Session /\ next \in {"put", "dest"}
        /\ (next = "put" => x.kind = "transfer")
    BY SessionType
  <2> HIDE DEF x, next
  <2>3. /\ q.pc = next /\ q.doc = x.doc /\ q.kind = x.kind /\ q.seen = x.seen
        /\ q.count = x.count /\ q.new = x.new /\ q.old = x.old /\ q.stale = x.stale \cup {p}
    BY <2>2 DEF Session
  <2> HIDE DEF q
  <2>4. sess'[s] = q /\ \A r \in Sessions : r # s => sess'[r] = sess[r]
    BY <2>1 DEF TypeInv, TypeOK
  <2> QED BY <1>0, <1>1, <2>1, <2>2, <2>3, <2>4, BalanceOnward DEF x, At
<1> QED BY <1>2, <1>3, <1>4

LEMMA BalanceMove ==
    ASSUME TypeInv, BalanceInv, NEW s \in Sessions, Pick(s) \/ Put(s)
    PROVE  BalanceInv'
<1> DEFINE d == sess[s].doc
<1>1. /\ d \in Moves /\ Source(s) \in Places /\ Dest(s) \in Places /\ ~At(s, "idle")
      /\ level \in [Places -> Row] /\ Qty[d] \in Nat
  BY SessionType, ConstantTypes DEF Pick, Put, At, Place, TypeInv, TypeOK
<1>2. Fits(sess[s])
  BY DEF BalanceInv, WorkInv
<1>3. CASE Pick(s)
  <2>0. PICK p \in Places : p = Source(s)
    BY <1>1
  <2> DEFINE row == [level[p] EXCEPT !.onHand = @ - Qty[d]]
  <2>1. CASE Enough(p, Qty[d])
    <3>1. row.onHand = level[p].onHand - Qty[d]
      BY <1>1 DEF Row
    <3>2. Write(s, p, row, FALSE, "put") /\ Free(p) /\ sess[s].pc = "pick"
      BY <1>3, <2>0, <2>1 DEF Pick, At
    <3>3. sess[s].kind = "confirm"
      BY <1>2, <3>2 DEF Fits
    <3> HIDE DEF row
    <3>4. Rewrites(s, p, row, FALSE, "put")
      BY <3>2, WriteFacts
    <3>5. Gives(s, p)'
      BY <1>1, <2>0, <3>1, <3>3, <3>4 DEF Gives, Rewrites
    <3> QED BY <1>1, <2>0, <3>2, <3>3, <3>5, BalanceWrite
  <2>2. CASE ~Enough(p, Qty[d])
    BY <1>3, <2>0, <2>2, BalanceRollback DEF Pick
  <2> QED BY <2>1, <2>2
<1>4. CASE Put(s)
  <2>0. PICK p \in Places : p = Dest(s)
    BY <1>1
  <2> DEFINE row == [level[p] EXCEPT !.there = TRUE, !.onHand = @ + Qty[d]]
  <2>1. row.onHand = level[p].onHand + Qty[d]
    BY <1>1 DEF Row
  <2>2. Write(s, p, row, FALSE, "commit") /\ Free(p) /\ sess[s].pc = "put"
    BY <1>4, <2>0 DEF Put, At
  <2>3. sess[s].kind \in {"transfer", "confirm"}
    BY <1>2, <2>2 DEF Fits
  <2> HIDE DEF row
  <2>4. Rewrites(s, p, row, FALSE, "commit")
    BY <2>2, WriteFacts
  <2>5. Gets(s, p)'
    BY <1>1, <2>0, <2>1, <2>3, <2>4 DEF Gets, MoveKinds, Rewrites
  <2>6. ~At(s, "take")
    BY <2>2 DEF At
  <2> QED BY <1>1, <2>0, <2>2, <2>3, <2>5, <2>6, BalanceWrite
<1> QED BY <1>3, <1>4

LEMMA BalanceReadDest ==
    ASSUME TypeInv, BalanceInv, NEW s \in Sessions, ReadDest(s)
    PROVE  BalanceInv'
<1> DEFINE p == Dest(s) x == sess[s]
           q == [x EXCEPT !.old[p] = level[p], !.pc = "write"]
<1>1. At(s, "dest")
  BY DEF ReadDest
<1>2. CASE Rollback(s)
  BY <1>2, BalanceRollback
<1>3. CASE sess' = [sess EXCEPT ![s] = q] /\ UNCHANGED <<lock, Records>>
  <2>1. x \in Session
    BY SessionType
  <2> HIDE DEF x, p
  <2>2. /\ q.pc = "write" /\ q.doc = x.doc /\ q.kind = x.kind /\ q.seen = x.seen
        /\ q.count = x.count /\ q.new = x.new /\ q.stale = x.stale
    BY <2>1 DEF Session
  <2> HIDE DEF q
  <2>3. sess'[s] = q /\ \A r \in Sessions : r # s => sess'[r] = sess[r]
    BY <1>3 DEF TypeInv, TypeOK
  <2>4. UNCHANGED <<lock, level, ledger, lost>>
    BY <1>3 DEF Records
  <2> QED BY <1>1, <2>2, <2>3, <2>4, BalanceOnward DEF x, At
<1> QED BY <1>2, <1>3 DEF ReadDest

LEMMA BalanceWriteDest ==
    ASSUME TypeInv, BalanceInv, NEW s \in Sessions, WriteDest(s)
    PROVE  BalanceInv'
<1>0. PICK p \in Places : p = Dest(s)
  BY SessionType DEF WriteDest, At
<1> DEFINE q == sess[s] old == q.old[p] now == level[p]
           n == IF q.doc \in Moves THEN Qty[q.doc] ELSE 0
           row == Written(s)
           stale == q.kind # "initiate" /\ level[p].onHand # old.onHand
<1>1. /\ p \in Places /\ ~At(s, "idle") /\ old \in Row /\ now \in Row /\ n \in Nat
      /\ q.kind \in {"initiate", "arrive", "relocate", "approve"} /\ q.pc = "write"
      /\ q.doc \in Docs
  BY SessionType, ConstantTypes DEF WriteDest, At, Place, TypeInv, TypeOK
<1>2. CASE Missed(s, p)
  BY <1>0, <1>2, BalanceRollback DEF WriteDest
<1>3. CASE ~Missed(s, p)
  <2>1. Write(s, p, row, stale, IF q.kind = "approve" THEN "value" ELSE "commit") /\ Free(p)
    BY <1>0, <1>3 DEF WriteDest
  <2>2. Fits(q) /\ stale \in BOOLEAN
    BY DEF BalanceInv, WorkInv
  <2>3. CASE q.kind = "approve"
    <3>1. Write(s, p, row, stale, "value")
      BY <2>1, <2>3
    <3>2. q.doc \in Counts
      BY <1>1, <2>2, <2>3 DEF Fits, MoveKinds, Docs
    <3>3. row.onHand = Adjusted(s)
      <4>1. row = IF Adjusted(s) = 0 THEN NoRow
                  ELSE [now EXCEPT !.there = TRUE, !.onHand = Adjusted(s)]
        BY <1>0, <2>3 DEF Written
      <4> QED BY <1>1, <4>1 DEF NoRow, Row
    <3>4. ~stale => old.onHand = level[p].onHand
      BY <2>3
    <3> HIDE DEF row, stale
    <3>5. Rewrites(s, p, row, stale, "value")
      BY <2>2, <3>1, WriteFacts
    <3>6. Corrects(s, p)'
      BY <1>0, <2>2, <2>3, <3>2, <3>3, <3>4, <3>5 DEF Corrects, Rewrites
    <3>7. ~At(s, "take")
      BY <1>1 DEF At
    <3> QED BY <1>0, <1>1, <2>1, <2>2, <2>3, <3>1, <3>6, <3>7, BalanceWrite
  <2>4. CASE q.kind # "approve"
    <3>1. Write(s, p, row, stale, "commit")
      BY <2>1, <2>4
    <3>2. q.doc \in Moves /\ q.kind \in MoveKinds
      BY <1>1, <2>2, <2>4 DEF Fits, MoveKinds
    <3>3. stale \/ row.onHand = level[p].onHand + IF q.kind = "initiate" THEN 0 ELSE n
      <4>1. CASE q.kind = "initiate"
        <5>1. row = [now EXCEPT !.there = TRUE, !.inTransit = old.inTransit + n]
          BY <1>0, <4>1 DEF Written
        <5> QED BY <1>1, <4>1, <5>1 DEF Row
      <4>2. CASE q.kind = "arrive"
        <5>1. row = [now EXCEPT !.onHand = old.onHand + n,
                                !.inTransit = AtLeastZero(old.inTransit - n)]
          BY <1>0, <4>2 DEF Written
        <5> QED BY <1>1, <4>2, <5>1 DEF Row
      <4>3. CASE q.kind = "relocate"
        <5>1. row = [now EXCEPT !.there = TRUE, !.onHand = old.onHand + n]
          BY <1>0, <4>3 DEF Written
        <5> QED BY <1>1, <4>3, <5>1 DEF Row
      <4> QED BY <1>1, <2>4, <4>1, <4>2, <4>3
    <3> HIDE DEF row, stale
    <3>4. Rewrites(s, p, row, stale, "commit")
      BY <2>2, <3>1, WriteFacts
    <3>5. Gets(s, p)'
      BY <1>0, <2>2, <3>2, <3>3, <3>4 DEF Gets, Rewrites
    <3>6. ~At(s, "take")
      BY <1>1 DEF At
    <3> QED BY <1>0, <1>1, <2>1, <2>2, <3>1, <3>5, <3>6, BalanceWrite
  <2> QED BY <2>3, <2>4
<1> QED BY <1>2, <1>3

LEMMA BalanceValue ==
    ASSUME TypeInv, BalanceInv, NEW s \in Sessions, Value(s)
    PROVE  BalanceInv'
<1> DEFINE x == sess[s] q == [x EXCEPT !.pc = "commit"]
<1>1. CASE Valued(s)
  BY <1>1, BalanceRollback DEF Value
<1>2. CASE ~Valued(s)
  <2>1. sess' = [sess EXCEPT ![s] = q] /\ UNCHANGED <<lock, Records>> /\ x.pc = "value"
    BY <1>2 DEF Value, Go, At
  <2>2. x \in Session /\ x.kind = "approve"
    BY <2>1, SessionType DEF BalanceInv, WorkInv, Fits
  <2> HIDE DEF x
  <2>3. /\ q.pc = "commit" /\ q.doc = x.doc /\ q.kind = x.kind /\ q.seen = x.seen
        /\ q.count = x.count /\ q.new = x.new /\ q.stale = x.stale /\ q.old = x.old
    BY <2>2 DEF Session
  <2> HIDE DEF q
  <2>4. sess'[s] = q /\ \A r \in Sessions : r # s => sess'[r] = sess[r]
    BY <2>1 DEF TypeInv, TypeOK
  <2>5. UNCHANGED <<lock, level, ledger, lost>>
    BY <2>1 DEF Records
  <2> QED BY <2>1, <2>2, <2>3, <2>4, <2>5, BalanceOnward DEF x, At
<1> QED BY <1>1, <1>2

\* What a session that commits puts on record is what it has done to the rows.
LEMMA BalanceCommit ==
    ASSUME TypeInv, BalanceInv, NEW s \in Sessions, Commit(s)
    PROVE  BalanceInv'
<1> DEFINE q == sess[s]
<1>1. /\ q.pc = "commit" /\ q.doc \in Docs /\ q.old \in [Places -> Row]
      /\ q.new \in [Places -> Row] /\ Dest(s) \in Places /\ q.count \in Count
      /\ q.kind \in Kinds \cup {"none"}
  BY SessionType DEF Commit, At, Place
<1>2. \A r \in Sessions : WorkInv(r)'
  BY WorkEnd DEF Commit, BalanceInv, TypeInv, TypeOK
<1>3. WorkInv(s)
  BY DEF BalanceInv
<1>4. ASSUME NEW p \in Places, p \notin lost'
      PROVE  level'[p].onHand = ledger'[p]
  <2>1. /\ p \notin lost /\ p \notin q.stale /\ p \notin Again(s)
        /\ level[p].onHand = ledger[p]
    BY <1>4 DEF Commit, BalanceInv, LedgerBalances
  <2>2. /\ ledger'[p] = ledger[p] + Moved(s, p) + Corrected(s, p)
        /\ level'[p] = IF lock[p] = s THEN q.new[p] ELSE level[p]
    BY DEF Commit
  <2>3. /\ level[p].onHand \in Nat /\ q.old[p].onHand \in Nat /\ ledger[p] \in Int
        /\ q.new[p].onHand \in Nat
    BY <1>1 DEF TypeInv, TypeOK, Row
  <2>4. CASE q.doc \in Moves
    <3> DEFINE n == Qty[q.doc]
    <3>1. /\ n \in Nat /\ q.doc \notin Counts /\ From[q.doc] # To[q.doc]
          /\ q.kind \in MoveKinds /\ Source(s) = From[q.doc] /\ Dest(s) = To[q.doc]
      BY <1>1, <1>3, <2>4, WarehouseAssumption, ConstantTypes
         DEF WorkInv, Fits, Source, Dest
    <3>2. Corrected(s, p) = 0
      BY <3>1 DEF Corrected, MoveKinds
    <3>3. CASE p = From[q.doc]
      <4>1. CASE q.kind = "arrive"
        <5>1. Moved(s, p) = 0
          BY <2>4, <3>1, <3>3, <4>1 DEF Moved
        <5>2. lock[p] # s
          BY <1>3, <3>1, <3>3, <4>1 DEF WorkInv, Accounted, Gives, Gets, Corrects
        <5> QED BY <2>1, <2>2, <2>3, <3>2, <5>1, <5>2
      <4>2. CASE q.kind # "arrive" /\ lock[p] = s
        <5>1. Moved(s, p) = -n
          BY <2>4, <3>1, <3>3, <4>2 DEF Moved, MoveKinds
        <5>2. q.new[p].onHand = level[p].onHand - n
          BY <1>3, <2>1, <3>1, <3>3, <4>2 DEF WorkInv, Accounted, Gives, Gets, Corrects
        <5> QED BY <2>1, <2>2, <2>3, <3>1, <3>2, <4>2, <5>1, <5>2
      <4>3. CASE q.kind # "arrive" /\ lock[p] # s
        <5>1. q.kind = "confirm"
          BY <1>1, <1>3, <2>1, <3>1, <3>3, <4>3 DEF WorkInv, Wrote, At, MoveKinds
        <5>2. Moved(s, p) = 0
          BY <4>3, <5>1 DEF Moved
        <5> QED BY <2>1, <2>2, <2>3, <3>2, <4>3, <5>2
      <4> QED BY <4>1, <4>2, <4>3
    <3>4. CASE p = To[q.doc]
      <4>1. CASE q.kind = "arrive" /\ transfer[q.doc] # "in_transit"
        <5>1. p \in Again(s)
          BY <1>1, <1>3, <3>1, <3>4, <4>1 DEF Again, WorkInv, Fits
        <5> QED BY <2>1, <5>1
      <4>2. CASE q.kind = "initiate"
        <5>1. Moved(s, p) = 0
          BY <3>1, <3>4, <4>2 DEF Moved
        <5>2. lock[p] = s => q.new[p].onHand = level[p].onHand
          BY <1>3, <2>1, <2>3, <3>1, <3>4, <4>2 DEF WorkInv, Accounted, Gives, Gets, Corrects
        <5> QED BY <2>1, <2>2, <2>3, <3>2, <5>1, <5>2
      <4>3. CASE /\ lock[p] = s /\ q.kind # "initiate"
                 /\ q.kind = "arrive" => transfer[q.doc] = "in_transit"
        <5>1. Moved(s, p) = n
          BY <2>4, <3>1, <3>4, <4>3 DEF Moved, MoveKinds
        <5>2. q.new[p].onHand = level[p].onHand + n
          BY <1>3, <2>1, <3>1, <3>4, <4>3 DEF WorkInv, Accounted, Gives, Gets, Corrects
        <5> QED BY <2>1, <2>2, <2>3, <3>1, <3>2, <4>3, <5>1, <5>2
      <4>4. CASE lock[p] # s /\ q.kind # "initiate"
        <5>1. q.kind = "confirm"
          BY <1>1, <1>3, <3>1, <3>4, <4>4 DEF WorkInv, Wrote, At, MoveKinds
        <5>2. Moved(s, p) = 0
          BY <4>4, <5>1 DEF Moved
        <5> QED BY <2>1, <2>2, <2>3, <3>2, <4>4, <5>2
      <4> QED BY <4>1, <4>2, <4>3, <4>4
    <3>5. CASE p # From[q.doc] /\ p # To[q.doc]
      <4>1. lock[p] # s
        BY <1>3, <3>1, <3>5 DEF WorkInv, Accounted, Gives, Gets, Corrects
      <4>2. Moved(s, p) = 0
        BY <3>5 DEF Moved
      <4> QED BY <2>1, <2>2, <2>3, <3>2, <4>1, <4>2
    <3> QED BY <3>3, <3>4, <3>5
  <2>5. CASE q.doc \notin Moves
    <3>1. q.kind \notin MoveKinds
      BY <1>1, <1>3, <2>5 DEF WorkInv, Fits
    <3>2. Moved(s, p) = 0
      BY <2>5 DEF Moved
    <3>3. CASE lock[p] # s
      <4>1. Corrected(s, p) = 0
        BY <3>3 DEF Corrected
      <4> QED BY <2>1, <2>2, <2>3, <3>2, <3>3, <4>1
    <3>4. CASE lock[p] = s
      <4>1. /\ p = Dest(s) /\ q.kind = "approve"
            /\ q.old[p].onHand = level[p].onHand /\ q.new[p].onHand = Adjusted(s)
        BY <1>3, <2>1, <2>5, <3>4 DEF WorkInv, Accounted, Gives, Gets, Corrects
      <4>2. Corrected(s, p) = Adjusted(s) - level[p].onHand
        BY <3>4, <4>1 DEF Corrected
      <4> QED BY <2>1, <2>2, <2>3, <3>2, <3>4, <4>1, <4>2
    <3> QED BY <3>3, <3>4
  <2> QED BY <2>4, <2>5
<1> QED BY <1>2, <1>4 DEF BalanceInv, LedgerBalances

LEMMA BalanceGoods ==
    ASSUME TypeInv, BalanceInv, NEW p \in Places, Sell(p) \/ Receive(p) \/ Shrink(p)
    PROVE  BalanceInv'
<1>1. UNCHANGED <<lock, sess, lost>>
  BY DEF Sell, Receive, Shrink, Apart
<1>2. /\ level \in [Places -> Row] /\ ledger \in [Places -> Int]
      /\ \A r \in Sessions : NoSession # r
  BY WarehouseAssumption DEF TypeInv, TypeOK
<1>3. \A x \in Places : lock[x] # NoSession => level'[x] = level[x]
  BY <1>2 DEF Sell, Receive, Shrink, Free
<1>4. \A r \in Sessions : WorkInv(r)'
  BY <1>1, <1>2, <1>3, WorkOther, EndsOfMove DEF BalanceInv
<1>5. ASSUME NEW x \in Places, level[x].onHand = ledger[x]
      PROVE  level'[x].onHand = ledger'[x]
  <2>1. CASE Sell(p)
    <3>1. level[p].onHand \in Nat /\ level[p].onHand >= 1
      BY <1>2, <2>1 DEF Sell, Enough, Row
    <3>2. level'[p].onHand = level[p].onHand - 1
      <4>1. CASE Enough(p, 2)
        BY <1>2, <2>1, <4>1 DEF Sell, Row
      <4>2. CASE ~Enough(p, 2)
        <5>1. level'[p] = NoRow /\ level[p].onHand = 1
          BY <1>2, <2>1, <3>1, <4>2 DEF Sell, Enough
        <5> QED BY <5>1 DEF NoRow
      <4> QED BY <4>1, <4>2
    <3>3. /\ ledger'[p] = ledger[p] - 1
          /\ \A y \in Places : y # p => level'[y] = level[y] /\ ledger'[y] = ledger[y]
      BY <1>2, <2>1 DEF Sell
    <3> QED BY <1>5, <3>2, <3>3
  <2>2. CASE Receive(p)
    <3>1. level'[p].onHand = level[p].onHand + 1
      BY <1>2, <2>2 DEF Receive, Row
    <3>2. /\ ledger'[p] = ledger[p] + 1
          /\ \A y \in Places : y # p => level'[y] = level[y] /\ ledger'[y] = ledger[y]
      BY <1>2, <2>2 DEF Receive
    <3> QED BY <1>5, <3>1, <3>2
  <2>3. CASE Shrink(p)
    BY <1>5, <2>3 DEF Shrink
  <2> QED BY <2>1, <2>2, <2>3
<1> QED BY <1>1, <1>4, <1>5 DEF BalanceInv, LedgerBalances

LEMMA BalanceNext == TypeInv /\ BalanceInv /\ [Next]_vars => BalanceInv'
<1> SUFFICES ASSUME TypeInv, BalanceInv, [Next]_vars PROVE BalanceInv'
  OBVIOUS
<1>1. CASE UNCHANGED vars
  <2>1. UNCHANGED <<level, lock, sess, ledger, lost>>
    BY <1>1 DEF vars
  <2>2. \A r \in Sessions : WorkInv(r)'
    BY <2>1, WorkOther, EndsOfMove DEF BalanceInv
  <2> QED BY <2>1, <2>2 DEF BalanceInv, LedgerBalances
<1>2. ASSUME NEW s \in Sessions, Step(s) \/ Fail(s)
      PROVE  BalanceInv'
  BY <1>2, BalanceTake, BalanceMove, BalanceReadDest, BalanceWriteDest, BalanceValue,
     BalanceCommit, BalanceRollback DEF Step, Fail
<1> QED BY <1>1, <1>2, BalanceRequest, BalanceGoods DEF Next

LEMMA BalanceInit == Init => BalanceInv
<1> SUFFICES ASSUME Init PROVE BalanceInv
  OBVIOUS
<1>1. \A s \in Sessions : sess[s] = Idle /\ \A p \in Places : lock[p] # s
  BY WarehouseAssumption DEF Init
<1>2. Idle.pc = "idle" /\ Idle.kind = "none"
  BY DEF Idle
<1>3. \A s \in Sessions : WorkInv(s)
  BY <1>1, <1>2 DEF WorkInv, Accounted, Wrote, Fits
<1>4. LedgerBalances
  BY DEF Init, LedgerBalances
<1> QED BY <1>3, <1>4 DEF BalanceInv

-----------------------------------------------------------------------------
(* What a count found.  If the level was still the snapshot when the goods *)
(* were counted, the discrepancy is the error found, with its sign changed; *)
(* Corrects says that an approval adds it to the level as it still is.     *)

Found(item) == item.still => item.found = item.system - item.counted

FoundInv ==
    /\ \A c \in Counts : Found(count[c])
    /\ \A s \in Sessions : Found(sess[s].count)

LEMMA NothingFound == Found(NewCount) /\ Idle.count = NewCount /\ ~NewCount.still
BY DEF Found, NewCount, Idle

\* No count is written, and what the sessions know of theirs stays or is
\* forgotten.
LEMMA FoundFrame ==
    ASSUME FoundInv, UNCHANGED count,
           \A t \in Sessions : sess'[t].count \in {sess[t].count, NewCount}
    PROVE  FoundInv'
BY NothingFound DEF FoundInv, Found

LEMMA FoundRollback ==
    ASSUME TypeInv, FoundInv, NEW s \in Sessions, End(s), UNCHANGED count
    PROVE  FoundInv'
BY Ended, NothingFound, FoundFrame

LEMMA FoundBegin ==
    ASSUME TypeInv, FoundInv, NEW s \in Sessions, NEW kind, NEW d, NEW new \in Session,
           Begin(s, kind, d, new), Found(new.count)
    PROVE  FoundInv'
<1>1. /\ sess' = [sess EXCEPT ![s] = [new EXCEPT !.kind = kind, !.doc = d]]
      /\ UNCHANGED count
  BY DEF Begin, Records, Documents
<1>2. [new EXCEPT !.kind = kind, !.doc = d].count = new.count
  BY DEF Session
<1>3. \A t \in Sessions : sess'[t].count = IF t = s THEN new.count ELSE sess[t].count
  BY <1>1, <1>2 DEF TypeInv, TypeOK
<1> QED BY <1>1, <1>3 DEF FoundInv, Found

LEMMA FoundRequest ==
    ASSUME TypeInv, FoundInv, NEW s \in Sessions, NEW d \in Docs, Request(s, d)
    PROVE  FoundInv'
<1>0. Idle \in Session /\ Transfers \subseteq Moves /\ Lines \subseteq Moves
  BY ConstantTypes DEF Moves
<1>1. ASSUME NEW kind, NEW new \in Session, new.count = NewCount, Begin(s, kind, d, new)
      PROVE  FoundInv'
  BY <1>1, NothingFound, FoundBegin
<1>2. CASE BeginTransfer(s, d) \/ BeginRelocate(s, d)
  <2>1. d \in Moves /\ \E kind : Begin(s, kind, d, Reading(From[d], "take"))
    BY <1>0, <1>2 DEF BeginTransfer, BeginRelocate
  <2>2. Reading(From[d], "take") \in Session
    BY <2>1, ReadingTypes, ConstantTypes
  <2>3. Reading(From[d], "take").count = NewCount
    BY <1>0, NothingFound DEF Reading, Session
  <2> QED BY <1>1, <2>1, <2>2, <2>3
<1>3. CASE BeginArrive(s, d)
  <2> DEFINE new == [Idle EXCEPT !.pc = "dest", !.seen = transfer[d]]
  <2>1. transfer[d] \in TransferStatuses
    BY <1>3 DEF BeginArrive, TypeInv, TypeOK
  <2>2. new \in Session /\ new.count = NewCount /\ Begin(s, "arrive", d, new)
    BY <1>0, <1>3, <2>1, NothingFound DEF Session, BeginArrive
  <2> QED BY <1>1, <2>2
<1>4. CASE BeginConfirm(s, d)
  <2>1. \E ends \in SUBSET {"source", "dest"}, pc \in {"pick", "commit"} :
          Begin(s, "confirm", d, [Idle EXCEPT !.ends = ends, !.pc = pc])
    BY <1>4 DEF BeginConfirm
  <2>2. \A ends \in SUBSET {"source", "dest"}, pc \in {"pick", "commit"} :
          /\ [Idle EXCEPT !.ends = ends, !.pc = pc] \in Session
          /\ [Idle EXCEPT !.ends = ends, !.pc = pc].count = NewCount
    BY <1>0, NothingFound DEF Session
  <2> QED BY <1>1, <2>1, <2>2
<1>5. CASE BeginCreate(s, d)
  <2> DEFINE x == [NewCount EXCEPT !.status = "draft", !.system = level[Counted[d]].onHand]
             new == [Idle EXCEPT !.pc = "commit", !.count = x]
  <2>1. d \in Counts /\ level[Counted[d]].onHand \in Nat
    BY <1>5, ConstantTypes DEF BeginCreate, TypeInv, TypeOK, Row
  <2>2. x \in Count /\ ~x.still
    BY <2>1, ConstantTypes, NothingFound DEF Count
  <2>3. Begin(s, "create", d, new)
    BY <1>5 DEF BeginCreate
  <2> HIDE DEF x
  <2>4. new \in Session /\ new.count = x
    BY <1>0, <2>2 DEF Session
  <2> HIDE DEF new
  <2>5. Found(new.count)
    BY <2>2, <2>4 DEF Found
  <2> QED BY <2>3, <2>4, <2>5, FoundBegin
<1>6. CASE BeginStatus(s, d)
  <2> DEFINE new == [Idle EXCEPT !.pc = "commit"]
  <2>1. PICK kind \in StatusKinds : Begin(s, kind, d, new)
    BY <1>6 DEF BeginStatus
  <2>2. new \in Session /\ new.count = NewCount
    BY <1>0, NothingFound DEF Session
  <2> HIDE DEF new
  <2> QED BY <1>1, <2>1, <2>2
<1>7. CASE BeginRecord(s, d)
  <2> DEFINE still == level[Counted[d]].onHand = count[d].system
             x == [count[d] EXCEPT !.counted = There(Counted[d]),
                     !.found = Error(Counted[d]), !.still = still]
             new == [Idle EXCEPT !.pc = "commit", !.count = x]
  <2>1. /\ d \in Counts /\ count[d] \in Count
        /\ There(Counted[d]) \in Nat /\ level[Counted[d]].onHand \in Nat
    BY <1>7, AtLeastZeroNat, ConstantTypes
       DEF BeginRecord, There, AtLeastZero, Row, TypeInv, TypeOK
  <2>2. Error(Counted[d]) \in Int
    BY <2>1 DEF Error
  <2>3. still \in BOOLEAN
    OBVIOUS
  <2>4. /\ x \in Count /\ x.counted = There(Counted[d]) /\ x.system = count[d].system
        /\ x.found = level[Counted[d]].onHand - There(Counted[d])
        /\ x.still => level[Counted[d]].onHand = count[d].system
    BY <2>1, <2>2, <2>3 DEF Count, Error
  <2>5. Begin(s, "record", d, new)
    BY <1>7 DEF BeginRecord
  <2> HIDE DEF x
  <2>6. new \in Session /\ new.count = x
    BY <1>0, <2>4 DEF Session
  <2> HIDE DEF new
  <2>7. Found(new.count)
    BY <2>1, <2>4, <2>6 DEF Found
  <2> QED BY <2>5, <2>6, <2>7, FoundBegin
<1>8. CASE BeginApprove(s, d)
  <2> DEFINE new(pc) == [Idle EXCEPT !.count = count[d], !.pc = pc]
  <2>1. /\ d \in Counts /\ count[d] \in Count
        /\ \E pc \in {"value", "dest"} : Begin(s, "approve", d, new(pc))
    BY <1>8 DEF BeginApprove, TypeInv, TypeOK
  <2>2. \A pc \in {"value", "dest"} : new(pc) \in Session /\ new(pc).count = count[d]
    BY <1>0, <2>1 DEF Session
  <2> HIDE DEF new
  <2>3. \A pc \in {"value", "dest"} : Found(new(pc).count)
    BY <2>1, <2>2 DEF FoundInv
  <2> QED BY <2>1, <2>2, <2>3, FoundBegin
<1> QED BY <1>2, <1>3, <1>4, <1>5, <1>6, <1>7, <1>8 DEF Request

\* A commit writes what the session was begun with, or only a status.
LEMMA FoundCommit ==
    ASSUME TypeInv, FoundInv, NEW s \in Sessions, Commit(s)
    PROVE  FoundInv'
<1> DEFINE q == sess[s]
<1>1. /\ End(s) /\ \A c \in Counts : count'[c] = CountStatus(s, c)
  BY DEF Commit
<1>2. ASSUME NEW c \in Counts PROVE Found(count'[c])
  <2>1. count[c] \in Count /\ q.count \in Count /\ Found(count[c]) /\ Found(q.count)
    BY SessionType DEF TypeInv, TypeOK, FoundInv
  <2>2. \E base \in {count[c], q.count} :
          /\ count'[c].still = base.still /\ count'[c].found = base.found
          /\ count'[c].system = base.system /\ count'[c].counted = base.counted
    <3>1. CASE c # q.doc
      BY <1>1, <3>1 DEF CountStatus
    <3>2. CASE c = q.doc
      <4>1. q.kind \in CountKinds
        BY <3>2, SessionType DEF TypeInv, Place
      <4>2. CASE q.kind = "create"
        BY <1>1, <3>2, <4>2 DEF CountStatus
      <4>3. CASE q.kind \in StatusKinds
        <5>1. PICK status : count'[c] = [count[c] EXCEPT !.status = status]
          BY <1>1, <3>2, <4>3 DEF CountStatus, StatusKinds
        <5> QED BY <2>1, <5>1 DEF Count
      <4>4. CASE q.kind = "record"
        <5>1. count'[c] = [q.count EXCEPT !.status = count[c].status, !.valued = count[c].valued]
          BY <1>1, <3>2, <4>4 DEF CountStatus
        <5> QED BY <2>1, <5>1 DEF Count
      <4>5. CASE q.kind = "approve"
        <5>1. count'[c] = [count[c] EXCEPT !.status = "approved", !.valued = TRUE]
          BY <1>1, <3>2, <4>5 DEF CountStatus
        <5> QED BY <2>1, <5>1 DEF Count
      <4> QED BY <4>1, <4>2, <4>3, <4>4, <4>5 DEF CountKinds
    <3> QED BY <3>1, <3>2
  <2> QED BY <2>1, <2>2 DEF Found
<1>3. ASSUME NEW t \in Sessions PROVE Found(sess'[t].count)
  BY <1>1, Ended, NothingFound DEF FoundInv
<1> QED BY <1>2, <1>3 DEF FoundInv

LEMMA FoundStep ==
    ASSUME TypeInv, FoundInv, NEW s \in Sessions, Step(s) \/ Fail(s)
    PROVE  FoundInv'
<1>1. CASE Rollback(s)
  BY <1>1, FoundRollback DEF Rollback, Records, Documents
<1>2. CASE Commit(s)
  BY <1>2, FoundCommit
<1>3. CASE ~Rollback(s) /\ ~Commit(s)
  <2>1. UNCHANGED count
    BY <1>3 DEF Step, Fail, Take, Pick, Put, ReadDest, WriteDest, Value, Write, Records, Documents
  <2>2. \A t \in Sessions : sess'[t].count = sess[t].count
    <3>1. sess \in [Sessions -> Session]
      BY DEF TypeInv, TypeOK
    <3>2. ASSUME NEW p, NEW row, NEW stale, NEW pc, Write(s, p, row, stale, pc)
          PROVE  \A t \in Sessions : sess'[t].count = sess[t].count
      BY <3>1, <3>2 DEF Write, Session
    <3>3. CASE Take(s)
      BY <1>3, <3>1, <3>2, <3>3 DEF Take, Session
    <3>4. CASE Pick(s) \/ Put(s) \/ WriteDest(s)
      BY <1>3, <3>2, <3>4 DEF Pick, Put, WriteDest
    <3>5. CASE ReadDest(s)
      <4>1. sess' = [sess EXCEPT ![s].old[Dest(s)] = level[Dest(s)], ![s].pc = "write"]
        BY <1>3, <3>5 DEF ReadDest
      <4>2. sess[s] \in Session
        BY <3>1
      <4> QED BY <3>1, <4>1, <4>2 DEF Session
    <3>6. CASE Value(s)
      BY <1>3, <3>1, <3>6 DEF Value, Go, Session
    <3> QED BY <1>3, <3>3, <3>4, <3>5, <3>6 DEF Step, Fail
  <2> QED BY <2>1, <2>2, FoundFrame
<1> QED BY <1>1, <1>2, <1>3

LEMMA FoundNext == TypeInv /\ FoundInv /\ [Next]_vars => FoundInv'
<1> SUFFICES ASSUME TypeInv, FoundInv, [Next]_vars PROVE FoundInv'
  OBVIOUS
<1>1. CASE UNCHANGED vars
  BY <1>1, FoundFrame DEF vars
<1>2. ASSUME NEW p \in Places, Sell(p) \/ Receive(p) \/ Shrink(p)
      PROVE  FoundInv'
  BY <1>2, FoundFrame DEF Sell, Receive, Shrink, Apart, Documents
<1> QED BY <1>1, <1>2, FoundRequest, FoundStep DEF Next

LEMMA FoundInit == Init => FoundInv
BY NothingFound DEF Init, FoundInv

\* Only a commit applies a count, and only of its own session.
LEMMA Applies ==
    ASSUME TypeInv, [Next]_vars, applied' # applied, NEW s \in Sessions,
           At(s, "commit"), sess'[s].pc = "idle"
    PROVE  Commit(s)
<1>1. PICK t \in Sessions : Commit(t)
  <2>1. ~UNCHANGED vars /\ \A t \in Sessions : ~Rollback(t)
    BY DEF vars, Rollback, Records
  <2>2. \A t \in Sessions : \A d \in Docs : ~Request(t, d)
    <3>1. \A t, kind, d, new : ~Begin(t, kind, d, new)
      BY DEF Begin, Records
    <3> QED BY <3>1 DEF Request, BeginTransfer, BeginArrive, BeginRelocate, BeginConfirm, BeginCreate,
            BeginStatus, BeginRecord, BeginApprove
  <2>3. \A t \in Sessions : ~Fail(t) /\ (Step(t) => Commit(t))
    BY <2>1 DEF Fail, Step, Take, Pick, Put, ReadDest, WriteDest, Value, Write, Records
  <2>4. \A p \in Places : ~Sell(p) /\ ~Receive(p) /\ ~Shrink(p)
    BY DEF Sell, Receive, Shrink, Apart
  <2> QED BY <2>1, <2>2, <2>3, <2>4 DEF Next
<1>2. t = s
  BY <1>1, Ended DEF Commit, At
<1> QED BY <1>1, <1>2

LEMMA CountsCorrected ==
    TypeInv /\ BalanceInv /\ FoundInv /\ [Next]_vars =>
      \A s \in Sessions :
         LET p == Dest(s) IN
         /\ At(s, "commit") /\ sess[s].kind = "approve" /\ lock[p] = s
         /\ applied' # applied /\ sess'[s].pc = "idle"
         /\ sess[s].count.still /\ sess[s].stale = {}
         /\ sess[s].old[p].onHand + Discrepancy(s) >= 0
         => level'[p].onHand - There(p) = Error(p) - sess[s].count.found
<1> SUFFICES ASSUME TypeInv, BalanceInv, FoundInv, [Next]_vars, NEW s \in Sessions,
                    At(s, "commit"), sess[s].kind = "approve", lock[Dest(s)] = s,
                    applied' # applied, sess'[s].pc = "idle",
                    sess[s].count.still, sess[s].stale = {},
                    sess[s].old[Dest(s)].onHand + Discrepancy(s) >= 0
             PROVE  level'[Dest(s)].onHand - There(Dest(s)) = Error(Dest(s)) - sess[s].count.found
  OBVIOUS
<1> DEFINE q == sess[s] p == Dest(s)
<1>1. Commit(s)
  BY Applies
<1>2. /\ q \in Session /\ p \in Places /\ level[p] \in Row /\ physical[p] \in Int
  BY SessionType, EndsOfMove DEF TypeInv, TypeOK, At
<1>3. Corrects(s, p)
  BY <1>2 DEF BalanceInv, WorkInv, Accounted, Gives, Gets, MoveKinds
<1>4. level'[p].onHand = Adjusted(s) /\ q.old[p].onHand = level[p].onHand
  BY <1>1, <1>2, <1>3 DEF Commit, Corrects
<1>5. q.count \in Count /\ Found(q.count)
  BY <1>2 DEF Session, FoundInv
<1>6. /\ q.count.found = q.count.system - q.count.counted
      /\ q.count.system \in Int /\ q.count.counted \in Int /\ level[p].onHand \in Int
  BY <1>2, <1>5 DEF Found, Count, Row
<1>7. There(p) \in Int
  BY <1>2, AtLeastZeroNat DEF There
<1>8. Adjusted(s) = level[p].onHand + (q.count.counted - q.count.system)
  BY <1>4, <1>6 DEF Adjusted, AtLeastZero, Discrepancy
<1> QED BY <1>4, <1>6, <1>7, <1>8 DEF Error

\* Every variable keeps its type; a row never goes below zero.
THEOREM WarehouseTyped == Spec => []TypeOK
<1>1. TypeInv => TypeOK
  BY DEF TypeInv
<1> QED BY <1>1, TypesAlways, PTL

\* However approvals, recounts, cancellations and everything else overlap,
\* the discrepancy of a count is put on the level at most once.
THEOREM CountAppliedAtMostOnce == Spec => []CountAppliedOnce
<1>1. CountInv => CountAppliedOnce
  BY DEF CountInv, Applied, CountAppliedOnce
<1> QED BY <1>1, CountsInit, CountsNext, TypesAlways, PTL DEF Spec

\* However transfers, relocations, movement orders and counts overlap with
\* each other and with sales and receipts, a place has on hand what its
\* movements add up to, unless it was written from an outdated read or two
\* sessions completed one transfer to it.
THEOREM LedgerAlwaysBalances == Spec => []LedgerBalances
<1>1. BalanceInv => LedgerBalances
  BY DEF BalanceInv
<1> QED BY <1>1, BalanceInit, BalanceNext, TypesAlways, PTL DEF Spec

\* An approval removes the error that was found when the goods were counted and
\* no movement made since, whatever overlaps: unless the level had moved between
\* snapshot and count, the approval overwrote a change, or less is on hand than
\* it would take away.
THEOREM CountsAlwaysCorrect == Spec => CountsCorrect
<1>1. Init => BalanceInv /\ FoundInv
  BY BalanceInit, FoundInit
<1>2. TypeInv /\ BalanceInv /\ FoundInv /\ [Next]_vars => (BalanceInv /\ FoundInv)'
  BY BalanceNext, FoundNext
<1> QED BY <1>1, <1>2, TypesAlways, CountsCorrected, PTL DEF Spec, CountsCorrect
=============================================================================
