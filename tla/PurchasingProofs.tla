--------------------------- MODULE PurchasingProofs ---------------------------
(***************************************************************************)
(* What Purchasing keeps true for any number of orders and requests.       *)
(*                                                                         *)
(* Statuses (Inv).  What is received or canceled stays so unless a request *)
(* writes over a status it has not read.  The hard case is the reversal of *)
(* a consolidation, which makes drafts of its originals whatever they have *)
(* become: SettledStays needs that they are still consolidated, and into   *)
(* this order (FamilyInv).  About says what a session has read and which   *)
(* rows it holds.                                                          *)
(*                                                                         *)
(* Quantities, demands and the order of the rows (Sound).  What an order   *)
(* received shows in its status unless that was written over (Amounts), so *)
(* that a draft that is consolidated, and an original that is given back,  *)
(* has received nothing.  Of the orders that stand for one draft a single  *)
(* one can have received something or still may (Apart).  A session has    *)
(* written what comes before the rows it has yet to write (Ascends).       *)
(***************************************************************************)
EXTENDS Purchasing, ProductionPromises, TLAPS, NaturalsInduction, WellFoundedInduction, FiniteSetTheorems

AnyRow(x) ==
    x \in [status : Statuses, parent : POs \cup {NoPO}, from : SUBSET POs,
           demand : SUBSET POs, qty : {x.qty}, got : {x.got}]

AnySession(q) ==
    /\ q \in [pc : {"idle", "originals", "write", "children", "receive"},
              kind : Kinds \cup {"none"}, row : POs \cup {NoPO}, todo : SUBSET POs,
              seen : [POs -> Statuses], new : {q.new}]
    /\ AnyRow(q.new)

Proper(p) ==
    /\ AnyRow(po[p])
    /\ p \notin po[p].from
    /\ po[p].status = "deleted" => po[p].parent = NoPO

Shape ==
    /\ po = [p \in POs |-> po[p]]
    /\ \A p \in POs : Proper(p)
    /\ lock \in [POs -> Sessions \cup {NoSession}]
    /\ sess = [s \in Sessions |-> sess[s]] /\ \A s \in Sessions : AnySession(sess[s])

Alive(p) == po[p].status \notin {"none", "deleted", "canceled"}

FamilyInv ==
    \A c, p \in POs \ overwritten :
        Alive(c) /\ p \in po[c].from => po[p].status = "consolidated" /\ po[p].parent = c

\* The rows a session may hold, or has yet to write.
Reach(s, p) ==
    LET q == sess[s] IN
    \/ p = q.row
    \/ q.kind = "delete" /\ po[p].parent = q.row
    \/ q.kind = "consolidate" /\ p \in q.new.from
    \/ q.kind = "deconsolidate" /\ (p \in po[q.row].from \/ po[q.row].status = "deleted")

RowsHeld(s, p) ==
    /\ Reach(s, p)
    /\ po[p].status # "deleted" \/ (sess[s].kind = "delete" /\ p = sess[s].row)

Consolidating(s) ==
    LET q == sess[s] IN
    /\ lock[q.row] = s /\ po[q.row].status = "none" /\ q.row \notin q.new.from
    /\ q.new.status = "draft"
    /\ \A p \in q.new.from : q.seen[p] = "draft" /\ (p \in q.todo \/ lock[p] = s)

Reaching(s) ==
    \A p \in sess[s].todo : p = sess[s].row \/ (sess[s].kind # "delete" /\ Reach(s, p))

About(s) ==
    LET q == sess[s] IN
    /\ q.pc = "idle" => \A p \in POs : lock[p] # s
    /\ q.pc # "idle" =>
         /\ q.row \in POs
         /\ \A p \in POs : lock[p] = s => RowsHeld(s, p)
         /\ Reaching(s)
    /\ q.pc = "originals" => q.kind = "deconsolidate"
    /\ q.pc = "write" => /\ q.kind \in Moves \cup {"consolidate", "deconsolidate"}
                         /\ q.row \in q.todo \/ lock[q.row] = s
    /\ q.pc = "children" => (q.kind = "delete" /\ lock[q.row] = s)
    /\ q.pc \notin {"idle", "receive"} /\ q.kind # "consolidate" =>
         q.seen[q.row] \in From(q.kind) /\ po[q.row].status # "none"
    /\ q.pc = "write" /\ q.kind = "consolidate" => Consolidating(s)
    /\ q.pc = "receive" => /\ q.kind = "receive" /\ lock[q.row] = s
                           /\ po[q.row].status \in Live

Inv == Shape /\ FamilyInv /\ \A s \in Sessions : About(s)

-----------------------------------------------------------------------------
(* What the quantities, the order of the rows and the demands need.        *)

\* What came in is what the line says; only an order whose status was written
\* over can have received something and look as if it had not.
Amounts(p) ==
    /\ po[p].qty \in Nat /\ po[p].got \in Nat /\ stock[p] \in Nat
    /\ po[p].status = "none" => po[p].got = 0
    /\ po[p].status # "deleted" => stock[p] = po[p].got /\ po[p].got <= po[p].qty
    /\ p \notin overwritten /\ stock[p] > 0 =>
         po[p].status \in {"partial", "received", "canceled"}

\* An order stands for drafts that exist or existed, and for what its
\* originals stand for.
Known(p) ==
    /\ \A q \in po[p].from \cup po[p].demand : po[q].status # "none"
    /\ po[p].status = "none" => po[p].demand = {}
    /\ \A q \in po[p].from : po[q].demand \subseteq po[p].demand

\* Nothing that stands for the draft d was written over.
Clean(d) == \A r \in overwritten : d \notin po[r].demand /\ d # r

\* An order that has received something, or still may.
Holder(p) ==
    po[p].status \notin {"none", "consolidated", "deleted", "canceled"} \/ stock[p] > 0

\* Of the orders that stand for d, one has received something or still may,
\* and no two were consolidated into the same order.
Apart(d) ==
    \A p, q \in POs :
        p # q /\ d \in po[p].demand /\ d \in po[q].demand =>
            /\ ~(Holder(p) /\ Holder(q))
            /\ \A c \in POs : ~(p \in po[c].from /\ q \in po[c].from)

\* The row a session is about to write agrees with what is there.
Carries(s) ==
    LET q == sess[s] IN
    /\ q.new.qty \in Nat /\ q.new.got \in Nat
    /\ q.pc = "write" /\ q.kind = "consolidate" =>
         /\ q.new.got = 0
         /\ q.new.demand = UNION {po[p].demand : p \in q.new.from}
         /\ \A p \in q.new.from : po[p].status # "none"
    /\ q.pc = "receive" => /\ q.new.got = po[q.row].got + q.new.qty
                           /\ q.new.got <= po[q.row].qty
    /\ q.pc \in {"originals", "write"} /\ q.kind = "deconsolidate" =>
         q.seen[q.row] = "draft"

\* The rows a session has written come before those it has yet to write, but
\* for the one it inserts, which nobody else knows.
Ascends(s) ==
    LET q == sess[s] IN
    /\ q.pc = "originals" => \A p \in POs : lock[p] # s
    /\ q.pc = "write" => \A p \in q.todo : po[p].status # "none"
    /\ q.pc = "write" /\ q.kind # "delete" =>
         \A p \in POs, r \in q.todo : lock[p] = s => po[p].status = "none" \/ p < r

Fine(s) == Carries(s) /\ Ascends(s)

Sound ==
    /\ mix \in Mixes /\ overwritten \subseteq POs
    /\ stock = [p \in POs |-> stock[p]]
    /\ \A p \in POs : Amounts(p) /\ Known(p)
    /\ \A d \in POs : Clean(d) => Apart(d)
    /\ \A s \in Sessions : Fine(s)

-----------------------------------------------------------------------------
(***************************************************************************)
(* Sums.  SumFunctionOnSet folds a function over a finite set by a         *)
(* function over its subsets that CHOOSE picks: it exists by induction on  *)
(* the cardinality, and what it yields is proved by induction on the       *)
(* subsets, each time by a least counterexample (WFMin).                   *)
(***************************************************************************)
Some(s) == CHOOSE x \in s : TRUE

LEMMA SomeIn == \A s : s # {} => Some(s) \in s
BY DEF Some

\* h adds up f over the subsets of S.
Adds(f, S, h) ==
  h = [s \in SUBSET S |-> IF s = {} THEN 0 ELSE f[Some(s)] + h[s \ {Some(s)}]]
Adder(f, S) == CHOOSE h : Adds(f, S, h)

LEMMA Induct ==
  ASSUME NEW T \in SUBSET Nat, 0 \in T, \A n \in T : n + 1 \in T
  PROVE  T = Nat
<1> DEFINE B == Nat \ T
           R == {p \in Nat \X Nat : p[1] < p[2]}
<1>1. IsWellFoundedOn(R, Nat)
  BY NatLessThanWellFounded DEF OpToRel
<1>2. SUFFICES ASSUME B # {} PROVE FALSE
  OBVIOUS
<1>3. PICK x \in B : \A y \in B : <<y, x>> \notin R
  <2> B \subseteq Nat
    OBVIOUS
  <2> HIDE DEF B, R
  <2> QED BY <1>1, <1>2, WFMin
<1>4. x # 0 /\ x - 1 \in Nat
  BY <1>3
<1>5. x - 1 \in B
  BY <1>3, <1>4
<1>6. <<x - 1, x>> \in R
  BY <1>3, <1>4
<1> QED BY <1>3, <1>5, <1>6

LEMMA AdderExists ==
  ASSUME NEW S, IsFiniteSet(S), NEW f
  PROVE  Adds(f, S, Adder(f, S))
<1> DEFINE D(n) == {s \in SUBSET S : Cardinality(s) <= n}
           E(h, s) == IF s = {} THEN 0 ELSE f[Some(s)] + h[s \ {Some(s)}]
           N == {n \in Nat : \E h : h = [s \in D(n) |-> E(h, s)]}
<1>1. 0 \in N
  <2>1. D(0) = {{}}
    BY FS_Subset, FS_EmptySet, FS_CardinalityType
  <2> DEFINE h == [s \in D(0) |-> 0]
  <2>2. h = [s \in D(0) |-> E(h, s)]
    BY <2>1
  <2> QED BY <2>2
<1>2. ASSUME NEW n \in N PROVE n + 1 \in N
  <2>1. PICK h : h = [s \in D(n) |-> E(h, s)]
    BY <1>2
  <2> DEFINE g == [s \in D(n + 1) |-> E(h, s)]
  <2>2. ASSUME NEW s \in D(n + 1), s # {}
        PROVE  h[s \ {Some(s)}] = g[s \ {Some(s)}]
    <3>1. Some(s) \in s
      BY <2>2, SomeIn
    <3>2. /\ IsFiniteSet(s) /\ Cardinality(s) \in Nat
          /\ Cardinality(s \ {Some(s)}) = Cardinality(s) - 1
      BY <3>1, FS_Subset, FS_RemoveElement, FS_CardinalityType
    <3>3. s \ {Some(s)} \in D(n) /\ s \ {Some(s)} \in D(n + 1)
      BY <3>2
    <3> QED BY <3>3, <2>1
  <2>3. g = [s \in D(n + 1) |-> E(g, s)]
    BY <2>2
  <2> HIDE DEF g
  <2>4. \E k : k = [s \in D(n + 1) |-> E(k, s)]
    <3> WITNESS g
    <3> QED BY <2>3
  <2>5. n + 1 \in Nat
    OBVIOUS
  <2> HIDE DEF D, E
  <2> QED BY <2>4, <2>5
<1>3. N = Nat
  <2>1. N \in SUBSET Nat
    OBVIOUS
  <2> HIDE DEF N
  <2> QED BY <1>1, <1>2, <2>1, Induct
<1>4. Cardinality(S) \in Nat /\ D(Cardinality(S)) = SUBSET S
  BY FS_Subset, FS_CardinalityType
<1>5. \E h : h = [s \in D(Cardinality(S)) |-> E(h, s)]
  BY <1>3, <1>4
<1>6. \E h : Adds(f, S, h)
  BY <1>4, <1>5 DEF Adds
<1> QED BY <1>6 DEF Adder

LEMMA SumIsAdded ==
  ASSUME NEW S, NEW f
  PROVE  SumFunctionOnSet(f, S) = Adder(f, S)[S]
BY DEF SumFunctionOnSet, FoldFunctionOnSet, MapThenFoldSet, Adder, Adds, Some

LEMMA AdderStep ==
  ASSUME NEW S, IsFiniteSet(S), NEW f
  PROVE  /\ Adder(f, S)[{}] = 0
         /\ \A s \in SUBSET S : s # {} =>
              Adder(f, S)[s] = f[Some(s)] + Adder(f, S)[s \ {Some(s)}]
<1> DEFINE h == Adder(f, S)
<1>1. h = [s \in SUBSET S |-> IF s = {} THEN 0 ELSE f[Some(s)] + h[s \ {Some(s)}]]
  BY AdderExists DEF Adds
<1> HIDE DEF h
<1>2. h[{}] = 0 /\ \A s \in SUBSET S : s # {} => h[s] = f[Some(s)] + h[s \ {Some(s)}]
  BY <1>1
<1> QED BY <1>2 DEF h

\* What holds of the empty set, and of a set if it holds of it without one
\* of its members, holds of every subset of S.
LEMMA SubsetInduct ==
  ASSUME NEW S, IsFiniteSet(S), NEW G, {} \in G,
         \A s \in SUBSET S : s # {} /\ s \ {Some(s)} \in G => s \in G
  PROVE  \A s \in SUBSET S : s \in G
<1> DEFINE B == {s \in SUBSET S : s \notin G}
           R == StrictSubsetOrdering(S)
<1>1. SUFFICES ASSUME B # {} PROVE FALSE
  OBVIOUS
<1>2. PICK s \in B : \A t \in B : <<t, s>> \notin R
  <2>1. IsWellFoundedOn(R, SUBSET S)
    BY FS_StrictSubsetOrderingWellFounded, FS_FiniteSubsetsOfFinite
  <2>2. B \subseteq SUBSET S
    OBVIOUS
  <2> HIDE DEF B, R
  <2> QED BY <1>1, <2>1, <2>2, WFMin
<1>3. s # {} /\ Some(s) \in s
  BY SomeIn
<1>4. s \ {Some(s)} \in B
  BY <1>3
<1>5. <<s \ {Some(s)}, s>> \in R
  BY <1>3 DEF StrictSubsetOrdering
<1> QED BY <1>2, <1>4, <1>5

LEMMA SumNat ==
  ASSUME NEW S, IsFiniteSet(S), NEW f, \A x \in S : f[x] \in Nat
  PROVE  SumFunctionOnSet(f, S) \in Nat
<1> DEFINE G == {s \in SUBSET S : Adder(f, S)[s] \in Nat}
<1>1. {} \in G
  BY AdderStep
<1>2. ASSUME NEW s \in SUBSET S, s # {}, s \ {Some(s)} \in G PROVE s \in G
  <2>1. Some(s) \in S /\ Adder(f, S)[s] = f[Some(s)] + Adder(f, S)[s \ {Some(s)}]
    BY <1>2, AdderStep, SomeIn
  <2>2. Adder(f, S)[s \ {Some(s)}] \in Nat /\ f[Some(s)] \in Nat
    BY <1>2, <2>1
  <2>3. Adder(f, S)[s] \in Nat
    BY <2>1, <2>2
  <2> QED BY <2>3
<1>3. S \in G
  <2> HIDE DEF G
  <2> QED BY <1>1, <1>2, SubsetInduct
<1> QED BY <1>3, SumIsAdded

\* A set of natural numbers that is finite has a greatest member.
LEMMA Greatest ==
  ASSUME NEW S \in SUBSET Nat, IsFiniteSet(S), S # {}
  PROVE  \E m \in S : \A x \in S : x <= m
<1> DEFINE G == {s \in SUBSET S : s # {} => \E m \in s : \A x \in s : x <= m}
<1>1. ASSUME NEW s \in SUBSET S, s # {}, s \ {Some(s)} \in G PROVE s \in G
  <2>1. PICK y \in s : y = Some(s)
    BY <1>1, SomeIn
  <2>2. CASE s \ {y} = {}
    <3>1. \A x \in s : x <= y
      BY <2>2
    <3> QED BY <3>1
  <2>3. CASE s \ {y} # {}
    <3>1. PICK m \in s : \A x \in s \ {y} : x <= m
      BY <1>1, <2>1, <2>3
    <3>2. CASE y <= m
      <4>1. \A x \in s : x <= m
        BY <3>1, <3>2
      <4> QED BY <4>1
    <3>3. CASE m <= y
      <4>1. \A x \in s : x <= y
        BY <3>1, <3>3
      <4> QED BY <4>1
    <3> QED BY <3>2, <3>3
  <2> QED BY <2>2, <2>3
<1>2. {} \in G
  OBVIOUS
<1>3. S \in G
  <2> HIDE DEF G
  <2> QED BY <1>1, <1>2, SubsetInduct
<1> QED BY <1>3

-----------------------------------------------------------------------------
LEMMA RowShapes ==
    /\ AnyRow(NoRow) /\ AnySession(Idle) /\ NoPO \notin POs
    /\ \A s \in Sessions : Inv => AnySession(sess[s])
    /\ \A p \in POs : Inv => AnyRow(po[p])
    /\ \A p \in POs : Inv => p \notin po[p].from
    /\ \A p \in POs : Inv => (po[p].status = "deleted" => po[p].parent = NoPO)
<1>1. AnyRow(NoRow) /\ AnySession(Idle) /\ NoPO \notin POs
  BY PurchasingAssumption DEF AnyRow, AnySession, NoRow, Idle, Statuses
<1>2. \A s \in Sessions : Inv => AnySession(sess[s])
  BY DEF Inv, Shape
<1>3. ASSUME Inv, NEW p \in POs
      PROVE  /\ AnyRow(po[p]) /\ p \notin po[p].from
             /\ po[p].status = "deleted" => po[p].parent = NoPO
  BY <1>3 DEF Inv, Shape, Proper
<1> QED BY <1>1, <1>2, <1>3

LEMMA InvInit == Init => Inv
<1> SUFFICES ASSUME Init PROVE Inv
  OBVIOUS
<1>1. Shape
  <2>1. NoRow.from = {} /\ NoRow.parent = NoPO
    BY DEF NoRow
  <2> QED BY <2>1, RowShapes DEF Init, Shape, Proper
<1>2. FamilyInv
  BY DEF Init, FamilyInv, Alive, NoRow
<1>3. \A s \in Sessions : About(s)
  BY PurchasingAssumption DEF Init, About, Idle
<1> QED BY <1>1, <1>2, <1>3 DEF Inv

\* What a step of s, or of nobody, may do to the orders the others have read
\* and hold.
Gentle(s, p) ==
    /\ lock[p] \in Sessions \ {s} => po'[p] = po[p]
    /\ po'[p].status = "none" => po[p].status = "none"
    /\ po[p].status = "deleted" => po'[p].status = "deleted"
    /\ \/ po'[p].from = po[p].from \/ po[p].status = "none"
       \/ po'[p].status = "deleted"

Careful(s) == \A p \in POs : Gentle(s, p)

LEMMA Others ==
    ASSUME Inv, NEW s, Careful(s),
           \A r \in Sessions : r # s => sess'[r] = sess[r],
           \A r \in Sessions, p \in POs : r # s => (lock'[p] = r <=> lock[p] = r)
    PROVE  \A r \in Sessions : r # s => About(r)'
<1> SUFFICES ASSUME NEW r \in Sessions, r # s PROVE About(r)'
  OBVIOUS
<1> DEFINE q == sess[r]
<1>0. About(r) /\ sess'[r] = q /\ AnySession(q)
  BY DEF Inv, Shape
<1>1. \A p \in POs : lock[p] = r => po'[p] = po[p]
  BY DEF Careful, Gentle
<1>2. q.kind = "deconsolidate" /\ q.pc \notin {"idle", "receive"} =>
        po[q.row].status # "none" /\ q.row \in POs
  BY <1>0 DEF About
<1>3. ASSUME NEW p \in POs, Reach(r, p), q.pc \notin {"idle", "receive"},
             q.kind = "delete" => lock[p] = r \/ p = q.row
      PROVE  Reach(r, p)'
  <2>1. CASE q.kind = "delete"
    BY <1>0, <1>1, <1>3, <2>1 DEF Reach
  <2>2. CASE q.kind = "deconsolidate"
    BY <1>0, <1>2, <1>3, <2>2 DEF Reach, Careful, Gentle
  <2>3. CASE q.kind \notin {"delete", "deconsolidate"}
    BY <1>0, <1>3, <2>3 DEF Reach
  <2> QED BY <2>1, <2>2, <2>3
<1>4. CASE q.pc = "idle"
  BY <1>0, <1>4 DEF About
<1>5. CASE q.pc = "receive"
  BY <1>0, <1>1, <1>5 DEF About, RowsHeld, Reach, Reaching
<1>6. CASE q.pc \notin {"idle", "receive"}
  <2>1. q.row \in POs /\ q.todo \subseteq POs
    BY <1>0, <1>6 DEF About, AnySession
  <2>2. \A p \in POs : lock'[p] = r => RowsHeld(r, p)'
    BY <1>0, <1>1, <1>3, <1>6 DEF About, RowsHeld
  <2>3. Reaching(r)'
    BY <1>0, <1>3, <1>6, <2>1 DEF About, Reaching
  <2>4. q.kind # "consolidate" => q.seen[q.row] \in From(q.kind) /\ po'[q.row].status # "none"
    BY <1>0, <1>6, <2>1 DEF About, Careful, Gentle
  <2>5. q.pc = "write" /\ q.kind = "consolidate" => Consolidating(r)'
    <3>1. q.new.from \subseteq POs
      BY <1>0 DEF AnySession, AnyRow
    <3> QED BY <1>0, <1>1, <2>1, <3>1 DEF About, Consolidating
  <2> QED BY <1>0, <1>6, <2>1, <2>2, <2>3, <2>4, <2>5 DEF About
<1> QED BY <1>4, <1>5, <1>6

LEMMA Still == \A s : UNCHANGED po => Careful(s)
BY DEF Careful, Gentle

LEMMA FamilyStill ==
    ASSUME FamilyInv, UNCHANGED <<po, overwritten>>
    PROVE  FamilyInv'
BY DEF FamilyInv, Alive

-----------------------------------------------------------------------------
(* A session that changes no order.                                        *)

\* A session ends: it holds nothing any more.
LEMMA Ended ==
    ASSUME Inv, NEW s \in Sessions, Released(s), End(s)
    PROVE  /\ About(s)' /\ Fine(s)'
           /\ lock' \in [POs -> Sessions \cup {NoSession}]
           /\ sess' = [r \in Sessions |-> sess'[r]]
           /\ \A r \in Sessions : AnySession(sess'[r]) /\ (r # s => sess'[r] = sess[r])
           /\ \A r \in Sessions, p \in POs : r # s => (lock'[p] = r <=> lock[p] = r)
<1>1. /\ sess' = [sess EXCEPT ![s] = Idle] /\ sess = [r \in Sessions |-> sess[r]]
      /\ lock \in [POs -> Sessions \cup {NoSession}]
      /\ \A r \in Sessions : AnySession(sess[r])
  BY DEF End, Inv, Shape
<1>2. sess'[s] = Idle /\ \A r \in Sessions : r # s => sess'[r] = sess[r]
  BY <1>1
<1>3. \A p \in POs : lock'[p] = IF lock[p] = s THEN NoSession ELSE lock[p]
  BY DEF Released
<1>4. About(s)'
  <2>1. Idle.pc = "idle"
    BY DEF Idle
  <2>2. \A p \in POs : lock'[p] # s
    BY <1>3, PurchasingAssumption
  <2> QED BY <1>2, <2>1, <2>2 DEF About
<1>4a. Fine(s)'
  <2>1. Idle.pc = "idle" /\ Idle.new.qty = 0 /\ Idle.new.got = 0
    BY DEF Idle, NoRow
  <2> QED BY <1>2, <2>1 DEF Fine, Carries, Ascends
<1>5. lock' \in [POs -> Sessions \cup {NoSession}]
  BY <1>1 DEF Released
<1>6. \A r \in Sessions, p \in POs : r # s => (lock'[p] = r <=> lock[p] = r)
  BY <1>3, PurchasingAssumption
<1>7. sess' = [r \in Sessions |-> sess'[r]]
  BY <1>1
<1>8. \A r \in Sessions : AnySession(sess'[r])
  BY <1>1, <1>2, RowShapes
<1> QED BY <1>2, <1>4, <1>4a, <1>5, <1>6, <1>7, <1>8

LEMMA Quit ==
    ASSUME Inv, Sound, NEW s \in Sessions, Released(s), End(s), UNCHANGED <<po, overwritten>>
    PROVE  Inv' /\ Fine(s)'
<1>1. Shape'
  BY Ended DEF Inv, Shape, Proper, AnyRow
<1>2. \A r \in Sessions : About(r)'
  BY Ended, Others, Still
<1> QED BY <1>1, <1>2, Ended, FamilyStill DEF Inv

\* A session becomes q, and holds perhaps another row.
LEMMA Becomes ==
    ASSUME Inv, NEW s \in Sessions, NEW q, AnySession(q), sess' = [sess EXCEPT ![s] = q],
           lock' \in [POs -> Sessions \cup {NoSession}],
           \A p \in POs : lock'[p] # lock[p] => lock'[p] = s /\ lock[p] = NoSession,
           UNCHANGED <<po, overwritten>>, About(s)'
    PROVE  Inv'
<1>1. sess'[s] = q /\ \A r \in Sessions : r # s => sess'[r] = sess[r]
  BY DEF Inv, Shape
<1>2. \A r \in Sessions, p \in POs : r # s => (lock'[p] = r <=> lock[p] = r)
  BY PurchasingAssumption
<1>3. \A r \in Sessions : About(r)'
  BY <1>1, <1>2, Others, Still
<1>4. sess' = [r \in Sessions |-> sess'[r]]
  BY DEF Inv, Shape
<1>5. \A r \in Sessions : AnySession(sess'[r])
  BY <1>1 DEF Inv, Shape
<1>6. Shape'
  BY <1>4, <1>5 DEF Inv, Shape, Proper, AnyRow
<1> QED BY <1>3, <1>6, FamilyStill DEF Inv

LEMMA ReadSeen ==
    ASSUME Inv, NEW ps \in SUBSET POs
    PROVE  /\ Read(ps) \in [POs -> Statuses]
           /\ \A p \in ps : Read(ps)[p] = po[p].status
BY RowShapes DEF Read, AnyRow, Statuses

LEMMA LoadKeeps ==
    ASSUME Inv, Sound, NEW s \in Sessions, NEW kind \in Moves, NEW p \in POs, Load(s, kind, p)
    PROVE  Inv' /\ Fine(s)'
<1> DEFINE q == [Idle EXCEPT !.pc = "write", !.kind = kind, !.row = p, !.todo = {p},
                             !.seen = Read({p})]
<1>1. /\ At(s, "idle") /\ po[p].status \in From(kind) /\ sess' = [sess EXCEPT ![s] = q]
      /\ UNCHANGED <<po, lock, overwritten>>
  BY DEF Load
<1>2. kind \in Kinds /\ Read({p}) \in [POs -> Statuses] /\ Read({p})[p] = po[p].status
  BY ReadSeen DEF Moves, Kinds
<1>3. /\ AnySession(q) /\ q.pc = "write" /\ q.kind = kind /\ q.row = p
      /\ q.todo = {p} /\ q.seen = Read({p}) /\ q.new.qty = 0 /\ q.new.got = 0
  BY <1>2, RowShapes DEF AnySession, Idle, NoRow
<1> HIDE DEF q
<1>4. sess'[s] = q /\ \A r \in POs : lock'[r] # s
  BY <1>1 DEF Inv, Shape, About, At
<1>5. po'[p].status # "none" /\ kind \notin {"consolidate", "deconsolidate"}
  BY <1>1 DEF From, Live, Moves
<1>6. About(s)'
  BY <1>1, <1>2, <1>3, <1>4, <1>5 DEF About, Reaching
<1>7. Fine(s)'
  BY <1>1, <1>3, <1>4, <1>5 DEF Fine, Carries, Ascends
<1> QED BY <1>1, <1>3, <1>6, <1>7, Becomes DEF Inv, Shape

\* A row, or a session, stays one when it is given the values of others.
LEMMA SameRow ==
    ASSUME NEW Q, NEW G,
           NEW x \in [status : Statuses, parent : POs \cup {NoPO}, from : SUBSET POs,
                      demand : SUBSET POs, qty : Q, got : G]
    PROVE  AnyRow(x)
BY DEF AnyRow

LEMMA SameSession ==
    ASSUME NEW N,
           NEW q \in [pc : {"idle", "originals", "write", "children", "receive"},
                      kind : Kinds \cup {"none"}, row : POs \cup {NoPO}, todo : SUBSET POs,
                      seen : [POs -> Statuses], new : N],
           AnyRow(q.new)
    PROVE  AnySession(q)
BY DEF AnySession

LEMMA ConsolidateKeeps ==
    ASSUME Inv, Sound, NEW s \in Sessions, NEW drafts \in SUBSET POs, NEW c \in POs,
           Consolidate(s, drafts, c)
    PROVE  Inv' /\ Fine(s)'
<1> DEFINE d == UNION {po[p].demand : p \in drafts}
           n == SumFunctionOnSet([p \in drafts |-> po[p].qty], drafts)
           x == [NoRow EXCEPT !.status = "draft", !.from = drafts, !.demand = d, !.qty = n]
           q == [Idle EXCEPT !.pc = "write", !.kind = "consolidate", !.row = c,
                             !.todo = drafts, !.seen = Read(drafts), !.new = x]
<1>1. /\ At(s, "idle") /\ \A p \in drafts : po[p].status = "draft"
      /\ po[c].status = "none" /\ lock[c] = NoSession
      /\ lock' = [lock EXCEPT ![c] = s] /\ sess' = [sess EXCEPT ![s] = q]
      /\ UNCHANGED <<po, overwritten>>
  BY DEF Consolidate, Unused, Free
<1>2. d \in SUBSET POs
  BY RowShapes DEF AnyRow
<1>2a. n \in Nat
  <2>1. IsFiniteSet(drafts) /\ \A p \in drafts : po[p].qty \in Nat
    BY PurchasingAssumption, FS_Subset DEF Sound, Amounts
  <2> QED BY <2>1, SumNat
<1>2b. d = UNION {po[p].demand : p \in drafts}
  OBVIOUS
<1> HIDE DEF d, n
<1>3. "draft" \in Statuses /\ "consolidate" \in Kinds
  BY DEF Statuses, Live, Kinds
<1>4. /\ AnyRow(x) /\ x.from = drafts /\ x.status = "draft"
      /\ x.qty = n /\ x.got = 0 /\ x.demand = d
  <2> DEFINE R == [status : Statuses, parent : POs \cup {NoPO}, from : SUBSET POs,
                   demand : SUBSET POs, qty : {0, n}, got : {0}]
  <2>1. NoRow \in R /\ NoRow.got = 0
    BY DEF NoRow, Statuses
  <2>2. /\ x \in R /\ x.from = drafts /\ x.status = "draft"
        /\ x.qty = n /\ x.got = 0 /\ x.demand = d
    BY <1>2, <1>3, <2>1
  <2> HIDE DEF x
  <2> QED BY <2>2, SameRow
<1> HIDE DEF x
<1>5. Read(drafts) \in [POs -> Statuses] /\ \A p \in drafts : Read(drafts)[p] = "draft"
  BY <1>1, ReadSeen
<1>6. /\ AnySession(q) /\ q.pc = "write" /\ q.kind = "consolidate" /\ q.row = c
      /\ q.todo = drafts /\ q.seen = Read(drafts) /\ q.new = x
  <2> DEFINE S == [pc : {"idle", "originals", "write", "children", "receive"},
                   kind : Kinds \cup {"none"}, row : POs \cup {NoPO}, todo : SUBSET POs,
                   seen : [POs -> Statuses], new : {NoRow, x}]
  <2>1. Idle \in S
    BY DEF Idle, Statuses
  <2>2. /\ q \in S /\ q.pc = "write" /\ q.kind = "consolidate" /\ q.row = c
        /\ q.todo = drafts /\ q.seen = Read(drafts) /\ q.new = x
    BY <1>3, <1>5, <2>1
  <2> HIDE DEF q
  <2> QED BY <1>4, <2>2, SameSession
<1> HIDE DEF q
<1>7. /\ sess'[s] = q /\ \A p \in POs : lock[p] # s
      /\ lock'[c] = s /\ \A p \in POs : p # c => lock'[p] = lock[p]
      /\ lock' \in [POs -> Sessions \cup {NoSession}]
  BY <1>1 DEF Inv, Shape, About, At
<1>8. c \notin drafts
  BY <1>1
<1>9. Consolidating(s)'
  BY <1>1, <1>4, <1>5, <1>6, <1>7, <1>8 DEF Consolidating
<1>10. About(s)'
  BY <1>1, <1>4, <1>6, <1>7, <1>9 DEF About, Reaching, RowsHeld, Reach
<1>11. Carries(s)'
  BY <1>1, <1>2a, <1>2b, <1>4, <1>6, <1>7 DEF Carries
<1>12. Ascends(s)'
  BY <1>1, <1>6, <1>7 DEF Ascends
<1> QED BY <1>1, <1>6, <1>7, <1>10, <1>11, <1>12, Becomes DEF Fine

LEMMA DeconsolidateKeeps ==
    ASSUME Inv, Sound, NEW s \in Sessions, NEW c \in POs, Deconsolidate(s, c)
    PROVE  Inv' /\ Fine(s)'
<1> DEFINE q == [Idle EXCEPT !.pc = "originals", !.kind = "deconsolidate", !.row = c,
                             !.seen = Read({c})]
<1>1. /\ At(s, "idle") /\ po[c].status = "draft" /\ sess' = [sess EXCEPT ![s] = q]
      /\ UNCHANGED <<po, lock, overwritten>>
  BY DEF Deconsolidate, Reversible
<1>2. Read({c}) \in [POs -> Statuses] /\ Read({c})[c] = "draft"
  BY <1>1, ReadSeen
<1>3. /\ AnySession(q) /\ q.pc = "originals" /\ q.kind = "deconsolidate" /\ q.row = c
      /\ q.todo = {} /\ q.seen = Read({c}) /\ q.new.qty = 0 /\ q.new.got = 0
  BY <1>2, RowShapes DEF AnySession, Idle, Kinds, NoRow
<1> HIDE DEF q
<1>4. sess'[s] = q /\ \A r \in POs : lock'[r] # s
  BY <1>1 DEF Inv, Shape, About, At
<1>5. "draft" \in From("deconsolidate")
  BY DEF From, Live
<1>6. About(s)'
  BY <1>1, <1>2, <1>3, <1>4, <1>5 DEF About, Reaching
<1>7. Fine(s)'
  BY <1>2, <1>3, <1>4 DEF Fine, Carries, Ascends
<1> QED BY <1>1, <1>3, <1>6, <1>7, Becomes DEF Inv, Shape

LEMMA ReceiveKeeps ==
    ASSUME Inv, Sound, NEW s \in Sessions, NEW p \in POs, NEW n \in Nat, Receive(s, p, n)
    PROVE  Inv' /\ Fine(s)'
<1> DEFINE x == [NoRow EXCEPT !.got = po[p].got + n, !.qty = n]
           q == [Idle EXCEPT !.pc = "receive", !.kind = "receive", !.row = p, !.new = x]
<1>1. /\ At(s, "idle") /\ po[p].status \in Live /\ lock[p] = NoSession
      /\ lock' = [lock EXCEPT ![p] = s] /\ sess' = [sess EXCEPT ![s] = q]
      /\ UNCHANGED <<po, overwritten>> /\ po[p].got + n <= po[p].qty
  BY DEF Receive, ForUpdate, Free
<1>2. "none" \in Statuses /\ "receive" \in Kinds
  BY DEF Statuses, Kinds
<1>3. AnyRow(x) /\ x.got = po[p].got + n /\ x.qty = n
  <2> DEFINE R == [status : Statuses, parent : POs \cup {NoPO}, from : SUBSET POs,
                   demand : SUBSET POs, qty : {0, n}, got : {0, po[p].got + n}]
  <2>1. NoRow \in R
    BY DEF NoRow, Statuses
  <2>2. x \in R /\ x.got = po[p].got + n /\ x.qty = n
    BY <2>1
  <2> HIDE DEF x
  <2> QED BY <2>2, SameRow
<1> HIDE DEF x
<1>4. /\ AnySession(q) /\ q.pc = "receive" /\ q.kind = "receive" /\ q.row = p
      /\ q.todo = {} /\ q.new = x
  <2> DEFINE S == [pc : {"idle", "originals", "write", "children", "receive"},
                   kind : Kinds \cup {"none"}, row : POs \cup {NoPO}, todo : SUBSET POs,
                   seen : [POs -> Statuses], new : {NoRow, x}]
  <2>1. Idle \in S /\ Idle.todo = {}
    BY DEF Idle, Statuses
  <2>2. /\ q \in S /\ q.pc = "receive" /\ q.kind = "receive" /\ q.row = p
        /\ q.todo = {} /\ q.new = x
    BY <1>2, <2>1
  <2> HIDE DEF q
  <2> QED BY <1>3, <2>2, SameSession
<1> HIDE DEF q
<1>5. AnySession(q)
  BY <1>4
<1>6. /\ sess'[s] = q /\ \A r \in POs : lock[r] # s
      /\ lock'[p] = s /\ \A r \in POs : r # p => lock'[r] = lock[r]
      /\ lock' \in [POs -> Sessions \cup {NoSession}]
  BY <1>1 DEF Inv, Shape, About, At
<1>7. About(s)'
  BY <1>1, <1>4, <1>6 DEF About, Reaching, RowsHeld, Reach, Live
<1>8. po[p].got \in Nat
  BY DEF Sound, Amounts
<1>9. Fine(s)'
  BY <1>1, <1>3, <1>4, <1>6, <1>8 DEF Fine, Carries, Ascends
<1> QED BY <1>1, <1>5, <1>6, <1>7, <1>9, Becomes

LEMMA LoadOriginalsKeeps ==
    ASSUME Inv, Sound, NEW s \in Sessions, LoadOriginals(s)
    PROVE  Inv' /\ Fine(s)'
<1> DEFINE c == sess[s].row
           found == {p \in po[c].from : po[p].status # "deleted"}
           t == {c} \cup {p \in found : po[p].status # "draft" \/ po[p].parent # NoPO}
           sn == [p \in POs |-> IF p \in found THEN po[p].status ELSE sess[s].seen[p]]
           q == [sess[s] EXCEPT !.pc = "write", !.todo = t, !.seen = sn]
<1>1. /\ sess[s].pc = "originals" /\ sess' = [sess EXCEPT ![s] = q]
      /\ UNCHANGED <<po, lock, overwritten>>
  BY DEF LoadOriginals, At, Inv, Shape
<1>2. /\ sess[s].kind = "deconsolidate" /\ c \in POs /\ sess[s].seen[c] \in From("deconsolidate")
      /\ po[c].status # "none" /\ AnySession(sess[s]) /\ AnyRow(po[c]) /\ c \notin po[c].from
  BY <1>1, RowShapes DEF Inv, About
<1>3. found \subseteq POs /\ t \in SUBSET POs
  BY <1>2 DEF AnyRow
<1>4. sn \in [POs -> Statuses]
  <2> SUFFICES ASSUME NEW p \in POs
               PROVE  (IF p \in found THEN po[p].status ELSE sess[s].seen[p]) \in Statuses
    OBVIOUS
  <2> QED BY <1>2, RowShapes DEF AnyRow, AnySession
<1>5. sn[c] = sess[s].seen[c]
  BY <1>2
<1> HIDE DEF t, sn
<1>6. /\ AnySession(q) /\ q.pc = "write" /\ q.kind = "deconsolidate" /\ q.row = c
      /\ q.todo = t /\ q.seen = sn /\ q.new = sess[s].new
  BY <1>2, <1>3, <1>4 DEF AnySession
<1> HIDE DEF q
<1>7. sess'[s] = q
  BY <1>1 DEF Inv, Shape
<1>8. Reaching(s)'
  BY <1>1, <1>6, <1>7 DEF Reaching, Reach, t
<1>9. \A p \in POs : lock'[p] = s => RowsHeld(s, p)'
  BY <1>1, <1>2, <1>6, <1>7 DEF Inv, About, RowsHeld, Reach
<1>10. c \in t
  BY DEF t
<1>11. About(s)'
  BY <1>1, <1>2, <1>5, <1>6, <1>7, <1>8, <1>9, <1>10 DEF About
<1>12. Carries(s)'
  <2>1. Carries(s)
    BY DEF Sound, Fine
  <2> QED BY <1>1, <1>2, <1>5, <1>6, <1>7, <2>1 DEF Carries
<1>13. Ascends(s)'
  <2>1. \A p \in POs : lock[p] # s
    BY <1>1 DEF Sound, Fine, Ascends
  <2>2. \A p \in t : po[p].status # "none"
    BY <1>2 DEF t, Sound, Known
  <2> QED BY <1>1, <1>6, <1>7, <2>1, <2>2 DEF Ascends
<1> QED BY <1>1, <1>6, <1>11, <1>12, <1>13, Becomes DEF Inv, Shape, Fine

LEMMA WriteKeeps ==
    ASSUME Inv, Sound, NEW s \in Sessions, NEW p \in POs, Write(s, p)
    PROVE  Inv' /\ Fine(s)'
<1> DEFINE old == sess[s]
           pc == IF old.kind = "delete" THEN "children" ELSE old.pc
           q == [old EXCEPT !.todo = old.todo \ {p}, !.pc = pc]
<1>1. /\ old.pc = "write" /\ p \in old.todo /\ lock[p] = NoSession
      /\ UNCHANGED <<po, overwritten>>
  BY DEF Write, At, NextRow, Free
<1>2. AnySession(old) /\ About(s)
  BY DEF Inv, Shape
<1>3. CASE po[p].status = "deleted" /\ old.kind # "delete"
  BY <1>1, <1>3, Quit DEF Write
<1>4. CASE ~(po[p].status = "deleted" /\ old.kind # "delete")
  <2>1. lock' = [lock EXCEPT ![p] = s] /\ sess' = [sess EXCEPT ![s] = q]
    BY <1>4 DEF Write, Inv, Shape
  <2>2. /\ AnySession(q) /\ q.pc = pc /\ q.kind = old.kind /\ q.row = old.row
        /\ q.todo = old.todo \ {p} /\ q.seen = old.seen /\ q.new = old.new
    BY <1>1, <1>2 DEF AnySession
  <2> HIDE DEF q
  <2>3. /\ sess'[s] = q /\ lock'[p] = s /\ \A r \in POs : r # p => lock'[r] = lock[r]
        /\ lock' \in [POs -> Sessions \cup {NoSession}]
    BY <2>1 DEF Inv, Shape
  <2>4. /\ old.row \in POs /\ Reaching(s) /\ \A r \in POs : lock[r] = s => RowsHeld(s, r)
        /\ old.kind \in Moves \cup {"consolidate", "deconsolidate"}
    BY <1>1, <1>2 DEF About
  <2>5. RowsHeld(s, p)
    BY <1>1, <1>4, <2>4 DEF Reaching, RowsHeld, Reach
  <2>6. \A r \in POs : lock'[r] = s => RowsHeld(s, r)'
    BY <1>1, <2>2, <2>3, <2>4, <2>5 DEF RowsHeld, Reach
  <2>7. Reaching(s)'
    BY <1>1, <2>2, <2>3, <2>4 DEF Reaching, Reach
  <2>8. q.kind # "consolidate" => q.seen[q.row] \in From(q.kind) /\ po[q.row].status # "none"
    BY <1>1, <1>2, <2>2 DEF About
  <2>9. q.row \in q.todo \/ lock'[q.row] = s
    BY <1>1, <1>2, <2>2, <2>3, <2>4 DEF About
  <2>10. q.kind = "consolidate" => Consolidating(s)'
    <3>1. old.new.from \subseteq POs
      BY <1>2 DEF AnySession, AnyRow
    <3> QED BY <1>1, <1>2, <2>2, <2>3, <2>4, <3>1 DEF About, Consolidating
  <2>11. q.kind = "delete" => lock'[q.row] = s
    BY <1>1, <2>2, <2>3, <2>4 DEF Reaching
  <2>12. q.pc = "write" \/ (q.pc = "children" /\ q.kind = "delete")
    BY <1>1, <2>2
  <2>13. About(s)'
    BY <1>1, <2>2, <2>3, <2>4, <2>6, <2>7, <2>8, <2>9, <2>10, <2>11, <2>12 DEF About
  <2>14. Fine(s) /\ old.todo \subseteq POs
    BY <1>2 DEF Sound, AnySession
  <2>15. Carries(s)'
    BY <1>1, <2>2, <2>3, <2>4, <2>14 DEF Fine, Carries, Moves
  <2>16. \A r \in q.todo : q.kind # "delete" => p < r
    <3>1. \A r \in old.todo : p <= r
      BY DEF Write, NextRow
    <3>2. \A r \in q.todo : r \in old.todo /\ r # p /\ r \in POs
      BY <2>2, <2>14
    <3>3. p \in Nat /\ \A r \in POs : r \in Nat
      BY PurchasingAssumption
    <3>4. ASSUME NEW r \in q.todo PROVE p < r
      <4>1. p <= r /\ r # p /\ r \in Nat /\ p \in Nat
        BY <3>1, <3>2, <3>3
      <4> QED BY <4>1
    <3> QED BY <3>4
  <2>17. Ascends(s)'
    BY <1>1, <2>2, <2>3, <2>12, <2>14, <2>16 DEF Fine, Ascends
  <2> QED BY <1>1, <2>1, <2>2, <2>3, <2>13, <2>15, <2>17, Becomes DEF Fine
<1> QED BY <1>3, <1>4

LEMMA WriteChildKeeps ==
    ASSUME Inv, Sound, NEW s \in Sessions, NEW p \in POs, WriteChild(s, p)
    PROVE  Inv' /\ Fine(s)'
<1> DEFINE q == sess[s]
<1>1. /\ q.pc = "children" /\ po[p].parent = q.row /\ lock[p] = NoSession
      /\ lock' = [lock EXCEPT ![p] = s] /\ UNCHANGED <<po, sess, overwritten>>
  BY DEF WriteChild, At, Children, Free
<1>2. /\ AnySession(q) /\ About(s) /\ sess' = [sess EXCEPT ![s] = q]
      /\ q.row \in POs /\ q.kind = "delete"
  BY <1>1 DEF Inv, Shape, About
<1>3. /\ lock'[p] = s /\ \A r \in POs : r # p => lock'[r] = lock[r]
      /\ lock' \in [POs -> Sessions \cup {NoSession}]
  BY <1>1 DEF Inv, Shape
<1>4. RowsHeld(s, p)
  <2>1. po[p].status # "deleted"
    BY <1>1, <1>2, RowShapes
  <2> QED BY <1>1, <1>2, <2>1 DEF RowsHeld, Reach
<1>5. \A r \in POs : lock'[r] = s => RowsHeld(s, r)'
  BY <1>1, <1>2, <1>3, <1>4 DEF About, RowsHeld, Reach
<1>6. Reaching(s)'
  BY <1>1, <1>2 DEF About, Reaching, Reach
<1>7. About(s)'
  BY <1>1, <1>2, <1>3, <1>5, <1>6 DEF About
<1>8. Fine(s)'
  BY <1>1, <1>2 DEF Sound, Fine, Carries, Ascends
<1> QED BY <1>1, <1>2, <1>3, <1>7, <1>8, Becomes

\* A new draft: nobody holds its row, and it stands for itself alone.
LEMMA CreateKeeps ==
    ASSUME Inv, NEW p \in POs, Create(p)
    PROVE  Inv'
<1> DEFINE x == [NoRow EXCEPT !.status = "draft", !.qty = Qty[p], !.demand = {p}]
<1>1. /\ po[p].status = "none" /\ lock[p] = NoSession /\ po' = [po EXCEPT ![p] = x]
      /\ UNCHANGED <<lock, sess, overwritten>>
  BY DEF Create, Unused, Free
<1>2. AnyRow(x) /\ x.from = {} /\ x.status = "draft"
  <2> DEFINE R == [status : Statuses, parent : POs \cup {NoPO}, from : SUBSET POs,
                   demand : SUBSET POs, qty : {0, Qty[p]}, got : {0}]
  <2>1. NoRow \in R /\ NoRow.from = {} /\ "draft" \in Statuses
    BY DEF NoRow, Statuses, Live
  <2>2. x \in R /\ x.from = {} /\ x.status = "draft"
    BY <2>1
  <2> HIDE DEF x
  <2> QED BY <2>2, SameRow
<1> HIDE DEF x
<1>3. po'[p] = x /\ \A r \in POs : r # p => po'[r] = po[r]
  BY <1>1 DEF Inv, Shape
<1>4. Shape'
  BY <1>1, <1>2, <1>3 DEF Inv, Shape, Proper, AnyRow, AnySession
<1>5. FamilyInv'
  BY <1>1, <1>2, <1>3 DEF Inv, FamilyInv, Alive
<1>6. Careful(NoSession)
  BY <1>1, <1>2, <1>3, PurchasingAssumption DEF Careful, Gentle
<1>7. \A r \in Sessions : About(r)'
  BY <1>1, <1>6, Others, PurchasingAssumption
<1> QED BY <1>4, <1>5, <1>7 DEF Inv

-----------------------------------------------------------------------------
(* The commits, which change orders.                                       *)

Settles(p) ==
    /\ po[p].status \in {"received", "canceled"} => po'[p].status = po[p].status
    /\ po[p].status = "consolidated" => po'[p].status \in {"consolidated", "draft"}

\* What a commit may make of an order it does not write over.
Kin(p) ==
    /\ Alive(p)' => \/ Alive(p) /\ po'[p].from = po[p].from
                    \/ \A r \in po'[p].from \ overwritten' :
                         po'[r].status = "consolidated" /\ po'[r].parent = p
    /\ po[p].status = "consolidated" => po'[p] = po[p] \/ \A c \in POs : Alive(c)' => po[p].parent # c
    /\ Settles(p)

LEMMA FamilyMoves ==
    ASSUME FamilyInv, overwritten \subseteq overwritten',
           \A p \in POs \ overwritten' : Kin(p)
    PROVE  FamilyInv'
<1> SUFFICES ASSUME NEW c \in POs \ overwritten', NEW p \in POs \ overwritten',
                    Alive(c)', p \in po'[c].from
             PROVE  po'[p].status = "consolidated" /\ po'[p].parent = c
  BY DEF FamilyInv
<1>1. CASE Alive(c) /\ po'[c].from = po[c].from
  <2>1. po[p].status = "consolidated" /\ po[p].parent = c
    BY <1>1 DEF FamilyInv
  <2> QED BY <2>1 DEF Kin
<1> QED BY <1>1 DEF Kin

LEMMA ReceiveCommitKeeps ==
    ASSUME Inv, NEW s \in Sessions, ReceiveCommit(s)
    PROVE  Inv' /\ \A p \in POs : Settles(p)
<1> DEFINE p == sess[s].row
           st == ReceiptStatus(p, sess[s].new.got)
           x == [po[p] EXCEPT !.got = sess[s].new.got, !.status = st]
<1>1. /\ sess[s].pc = "receive" /\ Released(s) /\ End(s) /\ UNCHANGED overwritten
      /\ po' = [po EXCEPT ![p] = x]
  BY DEF ReceiveCommit, At, Inv, Shape
<1>2. p \in POs /\ lock[p] = s /\ po[p].status \in Live
  BY <1>1 DEF Inv, About
<1>3. AnyRow(po[p]) /\ p \notin po[p].from
  BY <1>2, RowShapes
<1>4. st \in {"received", "partial"}
  BY DEF ReceiptStatus
<1> HIDE DEF st
<1>5. AnyRow(x) /\ x.from = po[p].from /\ x.status = st
  <2> DEFINE R == [status : Statuses, parent : POs \cup {NoPO}, from : SUBSET POs,
                   demand : SUBSET POs, qty : {po[p].qty}, got : {po[p].got, sess[s].new.got}]
  <2>1. po[p] \in R /\ st \in Statuses
    BY <1>3, <1>4 DEF AnyRow, Statuses, Live, Settled
  <2>2. x \in R /\ x.from = po[p].from /\ x.status = st
    BY <2>1
  <2> HIDE DEF x
  <2> QED BY <2>2, SameRow
<1> HIDE DEF x
<1>6. po'[p] = x /\ \A r \in POs : r # p => po'[r] = po[r]
  BY <1>1, <1>2 DEF Inv, Shape
<1>7. \A r \in POs : Proper(r)'
  <2> SUFFICES ASSUME NEW r \in POs PROVE Proper(r)'
    OBVIOUS
  <2>1. CASE r = p
    BY <1>3, <1>4, <1>5, <1>6, <2>1 DEF Proper, AnyRow
  <2>2. CASE r # p
    BY <1>6, <2>2, RowShapes DEF Proper, AnyRow
  <2> QED BY <2>1, <2>2
<1>8. \A r \in POs : Settles(r)
  BY <1>2, <1>6 DEF Settles, Live
<1>9. \A r \in POs : Kin(r)
  <2> SUFFICES ASSUME NEW r \in POs PROVE Kin(r)
    OBVIOUS
  <2>1. CASE r = p
    BY <1>2, <1>5, <1>6, <1>8, <2>1 DEF Kin, Alive, Live
  <2>2. CASE r # p
    BY <1>6, <1>8, <2>2 DEF Kin, Alive
  <2> QED BY <2>1, <2>2
<1>10. Careful(s)
  BY <1>2, <1>4, <1>5, <1>6, PurchasingAssumption DEF Careful, Gentle, Live
<1>11. FamilyInv'
  BY <1>1, <1>9, FamilyMoves DEF Inv
<1>12. Shape'
  <2>1. po' = [r \in POs |-> po'[r]]
    BY <1>1 DEF Inv, Shape
  <2> QED BY <1>1, <1>7, <2>1, Ended DEF Shape
<1>13. \A r \in Sessions : About(r)'
  BY <1>1, <1>10, Ended, Others
<1> QED BY <1>8, <1>11, <1>12, <1>13 DEF Inv

\* What is known of a session that commits.
Commits(s) ==
    LET q == sess[s] IN
    /\ q.row \in POs /\ lock[q.row] = s
    /\ \A p \in POs : po'[p] = Moved(s, p)
    /\ \A p \in POs : lock[p] = s => RowsHeld(s, p)
    /\ q.kind \in Moves \cup {"consolidate", "deconsolidate"}
    /\ q.kind # "consolidate" => q.seen[q.row] \in From(q.kind) /\ po[q.row].status # "none"
    /\ q.kind = "consolidate" => Consolidating(s) /\ q.todo = {}
    /\ overwritten \subseteq overwritten'
    /\ Overwrites(s) => \A p \in POs : lock[p] = s => p \in overwritten'
    /\ ~Overwrites(s) => overwritten' = overwritten

LEMMA CommitFacts ==
    ASSUME Inv, NEW s \in Sessions, Commit(s)
    PROVE  Commits(s)
<1> DEFINE q == sess[s]
<1>1. About(s)
  BY DEF Inv
<1>2. \A p \in POs : po'[p] = Moved(s, p)
  BY DEF Commit
<1>3. overwritten' = overwritten \cup (IF Overwrites(s) THEN {p \in POs : lock[p] = s} ELSE {})
  BY DEF Commit
<1>4. \/ q.pc = "write" /\ q.todo = {}
      \/ q.pc = "children"
  BY DEF Commit, At
<1>5. q.row \in POs /\ lock[q.row] = s /\ \A p \in POs : lock[p] = s => RowsHeld(s, p)
  BY <1>1, <1>4 DEF About
<1>6. q.kind \in Moves \cup {"consolidate", "deconsolidate"}
  BY <1>1, <1>4 DEF About, Moves
<1>7. q.kind # "consolidate" => q.seen[q.row] \in From(q.kind) /\ po[q.row].status # "none"
  BY <1>1, <1>4 DEF About
<1>8. q.kind = "consolidate" => Consolidating(s) /\ q.todo = {}
  BY <1>1, <1>4 DEF About
<1> QED BY <1>2, <1>3, <1>5, <1>6, <1>7, <1>8 DEF Commits

\* A row that a request does not write.
LEMMA Unmoved ==
    ASSUME Inv, NEW s, NEW p \in POs, po'[p] = po[p]
    PROVE  Proper(p)' /\ Gentle(s, p) /\ Kin(p)
<1>1. Proper(p)
  BY DEF Inv, Shape
<1> QED BY <1>1 DEF Proper, AnyRow, Gentle, Kin, Alive, Settles

\* A row whose status, and perhaps parent, a request writes.
Restate(p, st, pa) == po'[p] = [po[p] EXCEPT !.status = st, !.parent = pa]

LEMMA Restated ==
    ASSUME Inv, NEW p \in POs, NEW st \in Statuses \ {"deleted"},
           NEW pa \in POs \cup {NoPO},
           Restate(p, st, pa)
    PROVE  Proper(p)' /\ po'[p].status = st /\ po'[p].parent = pa /\ po'[p].from = po[p].from
<1>1. Proper(p)
  BY DEF Inv, Shape
<1> DEFINE x == [po[p] EXCEPT !.status = st, !.parent = pa]
           R == [status : Statuses, parent : POs \cup {NoPO}, from : SUBSET POs,
                 demand : SUBSET POs, qty : {po[p].qty}, got : {po[p].got}]
<1>2. po[p] \in R
  BY <1>1 DEF Proper, AnyRow
<1>3. x \in R /\ x.status = st /\ x.parent = pa /\ x.from = po[p].from
  BY <1>2
<1> HIDE DEF x
<1>4. AnyRow(x)
  BY <1>3, SameRow
<1>5. po'[p] = x
  BY DEF Restate, x
<1> QED BY <1>1, <1>3, <1>4, <1>5 DEF Proper, AnyRow

LEMMA SeenNow ==
    ASSUME NEW s, NEW p \in POs, ~Overwrites(s), sess[s].kind # "edit",
           sess[s].seen[p] # "none"
    PROVE  po[p].status = sess[s].seen[p]
BY DEF Overwrites, Outdated

Written(s, p) ==
    Proper(p)' /\ Gentle(s, p) /\ (p \notin overwritten' => Kin(p))

LEMMA MoveRow ==
    ASSUME Inv, NEW s \in Sessions, Commits(s), NEW p \in POs, lock[p] = s,
           sess[s].kind \in Moves \ {"edit", "delete"}
    PROVE  Written(s, p)
<1> DEFINE kind == sess[s].kind
<1>0. PICK st : st = To(kind)
  OBVIOUS
<1>1. p = sess[s].row /\ po[p].status \notin {"none", "deleted"}
  BY DEF Commits, RowsHeld, Reach, Moves
<1>2. st \in {"draft", "pending_approval", "approved", "sent", "confirmed", "canceled"}
  BY <1>0 DEF To, Moves
<1>3. po'[p] = [po[p] EXCEPT !.status = st]
  BY <1>0 DEF Commits, Moved, Target, Moves
<1>4. Proper(p)
  BY DEF Inv, Shape
<1>5. Restate(p, st, po[p].parent)
  <2>1. po[p] \in [status : Statuses, parent : POs \cup {NoPO}, from : SUBSET POs,
                   demand : SUBSET POs, qty : {po[p].qty}, got : {po[p].got}]
    BY <1>4 DEF Proper, AnyRow
  <2> QED BY <1>3, <2>1 DEF Restate
<1>6. /\ st \in Statuses \ {"none", "deleted"} /\ po[p].parent \in POs \cup {NoPO}
  BY <1>2, <1>4 DEF Statuses, Live, Settled, Proper, AnyRow
<1>7. Proper(p)' /\ po'[p].status = st /\ po'[p].from = po[p].from
  BY <1>5, <1>6, Restated
<1>8. Gentle(s, p)
  BY <1>1, <1>2, <1>7, PurchasingAssumption DEF Gentle
<1>9. ASSUME p \notin overwritten' PROVE Kin(p)
  <2>1. ~Overwrites(s)
    BY <1>9 DEF Commits
  <2>2. sess[s].seen[p] \in From(kind) /\ kind # "edit"
    BY <1>1 DEF Commits, Moves
  <2>3. From(kind) \subseteq Live
    BY DEF From, Live, Moves
  <2>4. po[p].status \in Live
    BY <2>1, <2>2, <2>3, SeenNow DEF Live
  <2> QED BY <1>7, <2>4 DEF Kin, Alive, Settles, Live
<1> QED BY <1>7, <1>8, <1>9 DEF Written

LEMMA DeleteRow ==
    ASSUME Inv, NEW s \in Sessions, Commits(s), NEW p \in POs, lock[p] = s,
           sess[s].kind = "delete"
    PROVE  Written(s, p)
<1>0. PICK row \in POs : row = sess[s].row
  BY DEF Commits
<1> DEFINE gone == [NoRow EXCEPT !.status = "deleted", !.demand = po[row].demand]
<1>1. /\ row \in POs /\ lock[row] = s /\ po[row].status # "none"
      /\ sess[s].seen[row] = "draft"
  BY <1>0 DEF Commits, From
<1>2. AnyRow(gone) /\ gone.status = "deleted" /\ gone.from = {} /\ gone.parent = NoPO
  <2>1. po[row].demand \in SUBSET POs
    BY RowShapes DEF AnyRow
  <2> QED BY <2>1 DEF AnyRow, NoRow, Statuses
<1>3. po'[row] = gone
  BY <1>0, <1>1 DEF Commits, Moved
<1> HIDE DEF gone
<1>4. Proper(p)
  BY DEF Inv, Shape
<1>5. CASE p = row
  <2>1. Proper(p)' /\ po'[p].status = "deleted"
    BY <1>2, <1>3, <1>5 DEF Proper, AnyRow
  <2>2. Gentle(s, p)
    BY <2>1, PurchasingAssumption DEF Gentle
  <2>3. ASSUME p \notin overwritten' PROVE Kin(p)
    <3>1. ~Overwrites(s)
      BY <1>0, <2>3 DEF Commits
    <3>2. po[p].status = "draft"
      BY <1>1, <1>5, <3>1, SeenNow
    <3> QED BY <2>1, <3>2 DEF Kin, Alive, Settles
  <2> QED BY <2>1, <2>2, <2>3 DEF Written
<1>6. CASE p # row
  <2>1. po[p].parent = row /\ po[p].status # "deleted"
    BY <1>0, <1>6 DEF Commits, RowsHeld, Reach
  <2>2. po'[p] = [po[p] EXCEPT !.parent = NoPO]
    BY <1>0, <1>6 DEF Commits, Moved
  <2> DEFINE x == [po[p] EXCEPT !.parent = NoPO]
             R == [status : Statuses, parent : POs \cup {NoPO}, from : SUBSET POs,
                   demand : SUBSET POs, qty : {po[p].qty}, got : {po[p].got}]
  <2>3. po[p] \in R
    BY <1>4 DEF Proper, AnyRow
  <2>4. /\ x \in R /\ x.parent = NoPO /\ x.status = po[p].status
        /\ x.from = po[p].from
    BY <2>3
  <2>5. po'[p] = x
    BY <2>2
  <2> HIDE DEF x
  <2>6. AnyRow(x)
    BY <2>4, SameRow
  <2>7. Proper(p)' /\ po'[p].status = po[p].status /\ po'[p].from = po[p].from
    BY <1>4, <2>4, <2>5, <2>6 DEF Proper, AnyRow
  <2>8. Gentle(s, p)
    BY <2>7, PurchasingAssumption DEF Gentle
  <2>9. \A c \in POs : Alive(c)' => po[p].parent # c
    BY <1>2, <1>3, <2>1 DEF Alive
  <2>10. Kin(p)
    BY <2>7, <2>9 DEF Kin, Alive, Settles
  <2> QED BY <2>7, <2>8, <2>10 DEF Written
<1> QED BY <1>5, <1>6

LEMMA ConsolidateRow ==
    ASSUME Inv, NEW s \in Sessions, Commits(s), NEW p \in POs, lock[p] = s,
           sess[s].kind = "consolidate"
    PROVE  Written(s, p)
<1> DEFINE new == sess[s].new
<1>0. PICK row \in POs : row = sess[s].row
  BY DEF Commits
<1>1. /\ row \in POs /\ lock[row] = s /\ po[row].status = "none" /\ row \notin new.from
      /\ new.status = "draft"
      /\ \A r \in new.from : sess[s].seen[r] = "draft" /\ lock[r] = s
  BY <1>0 DEF Commits, Consolidating
<1>2. AnyRow(new) /\ Proper(p)
  BY DEF Inv, Shape, AnySession
<1>3. CASE p = row
  <2>1. po'[p] = new
    BY <1>0, <1>3 DEF Commits, Moved
  <2>2. Proper(p)'
    BY <1>1, <1>2, <1>3, <2>1 DEF Proper, AnyRow
  <2>3. Gentle(s, p)
    BY <1>1, <1>3, <2>1, PurchasingAssumption DEF Gentle
  <2>4. \A r \in new.from : po'[r].status = "consolidated" /\ po'[r].parent = p
    <3> SUFFICES ASSUME NEW r \in new.from
                 PROVE  po'[r].status = "consolidated" /\ po'[r].parent = p
      OBVIOUS
    <3>1. r \in POs /\ lock[r] = s /\ r # row
      BY <1>1, <1>2 DEF AnyRow
    <3>2. Restate(r, "consolidated", row)
      BY <1>0, <3>1 DEF Commits, Moved, Restate
    <3>3. "consolidated" \in Statuses \ {"none", "deleted"}
      BY DEF Statuses, Settled
    <3>4. po'[r].status = "consolidated" /\ po'[r].parent = row
      BY <3>1, <3>2, <3>3, Restated
    <3> QED BY <1>3, <3>4
  <2>5. Kin(p)
    BY <1>1, <1>3, <2>1, <2>4 DEF Kin, Settles
  <2> QED BY <2>2, <2>3, <2>5 DEF Written
<1>4. CASE p # row
  <2>1. p \in new.from /\ po[p].status # "deleted"
    BY <1>0, <1>4 DEF Commits, RowsHeld, Reach
  <2>2. Restate(p, "consolidated", row)
    BY <1>0, <1>4 DEF Commits, Moved, Restate
  <2>3. "consolidated" \in Statuses \ {"none", "deleted"}
    BY DEF Statuses, Settled
  <2>4. Proper(p)' /\ po'[p].status = "consolidated" /\ po'[p].from = po[p].from
    BY <1>1, <2>2, <2>3, Restated
  <2>5. Gentle(s, p)
    BY <2>1, <2>4, PurchasingAssumption DEF Gentle
  <2>6. ASSUME p \notin overwritten' PROVE Kin(p)
    <3>1. ~Overwrites(s)
      BY <2>6 DEF Commits
    <3>2. po[p].status = "draft"
      BY <1>1, <2>1, <3>1, SeenNow
    <3> QED BY <2>4, <3>2 DEF Kin, Alive, Settles
  <2> QED BY <2>4, <2>5, <2>6 DEF Written
<1> QED BY <1>3, <1>4

LEMMA DeconsolidateRow ==
    ASSUME Inv, NEW s \in Sessions, Commits(s), NEW p \in POs, lock[p] = s,
           sess[s].kind = "deconsolidate"
    PROVE  Written(s, p)
<1>0. PICK row \in POs : row = sess[s].row
  BY DEF Commits
<1>1. /\ row \in POs /\ lock[row] = s /\ sess[s].seen[row] \in Live
      /\ po[row].status \notin {"none", "deleted"}
  BY <1>0 DEF Commits, From, RowsHeld
<1>2. Proper(p) /\ po[p].status # "deleted"
  BY <1>0 DEF Inv, Shape, Commits, RowsHeld
<1>3. {"canceled", "draft"} \subseteq Statuses \ {"none", "deleted"}
  BY DEF Statuses, Live, Settled
<1>4. po'[row] = [po[row] EXCEPT !.status = "canceled"]
  BY <1>0, <1>1 DEF Commits, Moved, Target
<1>5. /\ Proper(row)' /\ po'[row].status = "canceled" /\ po'[row].from = po[row].from
  <2>1. Proper(row)
    BY <1>1 DEF Inv, Shape
  <2>2. po[row] \in [status : Statuses, parent : POs \cup {NoPO}, from : SUBSET POs,
                   demand : SUBSET POs, qty : {po[row].qty}, got : {po[row].got}]
    BY <2>1 DEF Proper, AnyRow
  <2>3. Restate(row, "canceled", po[row].parent) /\ po[row].parent \in POs \cup {NoPO}
    BY <1>4, <2>2 DEF Restate
  <2> QED BY <1>1, <1>3, <2>3, Restated
<1>6. ASSUME ~Overwrites(s) PROVE po[row].status \in Live /\ row \notin overwritten
  BY <1>0, <1>1, <1>6, SeenNow DEF Overwrites, Live
<1>7. CASE p = row
  <2>1. Gentle(s, p)
    BY <1>1, <1>5, <1>7, PurchasingAssumption DEF Gentle
  <2>2. ASSUME p \notin overwritten' PROVE Kin(p)
    <3>1. ~Overwrites(s)
      BY <2>2 DEF Commits
    <3> QED BY <1>5, <1>6, <1>7, <3>1 DEF Kin, Alive, Settles, Live
  <2> QED BY <1>5, <1>7, <2>1, <2>2 DEF Written
<1>8. CASE p # row
  <2>1. p \in po[row].from
    BY <1>0, <1>1, <1>8 DEF Commits, RowsHeld, Reach
  <2>2. PICK st : st = IF sess[s].seen[p] = "draft" THEN po[p].status ELSE "draft"
    OBVIOUS
  <2>6. Restate(p, st, NoPO)
    BY <1>0, <1>8, <2>2 DEF Commits, Moved, Restate
  <2>7. st \in Statuses \ {"deleted"} /\ (st = "none" => po[p].status = "none")
    BY <1>2, <1>3, <2>2 DEF Proper, AnyRow
  <2>3. Proper(p)' /\ po'[p].status = st /\ po'[p].from = po[p].from
    BY <2>6, <2>7, Restated
  <2>4. Gentle(s, p)
    BY <1>2, <2>3, <2>7, PurchasingAssumption DEF Gentle
  <2>5. ASSUME p \notin overwritten' PROVE Kin(p)
    <3>1. ~Overwrites(s) /\ p \notin overwritten
      BY <2>5 DEF Commits
    <3>2. Alive(row) /\ row \in POs \ overwritten
      BY <1>1, <1>6, <3>1 DEF Alive, Live
    <3>3. po[p].status = "consolidated" /\ po[p].parent = row
      BY <2>1, <3>1, <3>2 DEF Inv, FamilyInv
    <3>4. ~Alive(row)'
      BY <1>5 DEF Alive
    <3>5. \A c \in POs : Alive(c)' => po[p].parent # c
      BY <3>3, <3>4
    <3>6. st = "draft"
      BY <2>2, <3>1, <1>0, SeenNow
    <3> QED BY <2>3, <3>3, <3>5, <3>6 DEF Kin, Alive, Settles
  <2> QED BY <2>3, <2>4, <2>5 DEF Written
<1> QED BY <1>7, <1>8

LEMMA CommitWritten ==
    ASSUME Inv, NEW s \in Sessions, Commit(s)
    PROVE  \A p \in POs : Written(s, p)
<1>1. Commits(s)
  BY CommitFacts
<1>2. ASSUME NEW p \in POs PROVE Written(s, p)
  <2>1. CASE lock[p] # s \/ sess[s].kind = "edit"
    <3>1. po'[p] = Moved(s, p)
      BY <1>1 DEF Commits
    <3>2. Moved(s, p) = po[p]
      BY <2>1 DEF Moved
    <3> QED BY <3>1, <3>2, Unmoved DEF Written
  <2>2. CASE lock[p] = s /\ sess[s].kind \in Moves \ {"edit", "delete"}
    BY <1>1, <2>2, MoveRow
  <2>3. CASE lock[p] = s /\ sess[s].kind = "delete"
    BY <1>1, <2>3, DeleteRow
  <2>4. CASE lock[p] = s /\ sess[s].kind = "consolidate"
    BY <1>1, <2>4, ConsolidateRow
  <2>5. CASE lock[p] = s /\ sess[s].kind = "deconsolidate"
    BY <1>1, <2>5, DeconsolidateRow
  <2> QED BY <1>1, <2>1, <2>2, <2>3, <2>4, <2>5 DEF Commits
<1> QED BY <1>2

LEMMA CommitKeeps ==
    ASSUME Inv, NEW s \in Sessions, Commit(s)
    PROVE  Inv' /\ \A p \in POs \ overwritten' : Settles(p)
<1>1. Commits(s)
  BY CommitFacts
<1>2. \A p \in POs : Written(s, p)
  BY CommitWritten
<1>3. Released(s) /\ End(s)
  BY DEF Commit
<1>4. Careful(s)
  BY <1>2 DEF Careful, Written
<1>5. FamilyInv'
  BY <1>1, <1>2, FamilyMoves DEF Inv, Commits, Written
<1>6. Shape'
  <2>1. po' = [p \in POs |-> po'[p]]
    BY DEF Commit
  <2> QED BY <1>2, <1>3, <2>1, Ended DEF Shape, Written
<1>7. \A r \in Sessions : About(r)'
  BY <1>3, <1>4, Ended, Others
<1>8. \A p \in POs \ overwritten' : Settles(p)
  BY <1>2 DEF Written, Kin
<1> QED BY <1>5, <1>6, <1>7, <1>8 DEF Inv

-----------------------------------------------------------------------------
(* What a commit makes of an order, its quantities included.               *)

Fresh == {"draft", "pending_approval", "approved", "sent", "confirmed"}

Kept(p) ==
    /\ po'[p].qty = po[p].qty /\ po'[p].got = po[p].got
    /\ po'[p].from = po[p].from /\ po'[p].demand = po[p].demand

\* A consolidation that nobody wrote over gives p back.
Reverts(s, p) ==
    LET c == sess[s].row IN
    /\ c \in POs \ overwritten' /\ p \in po[c].from
    /\ po[c].status = "draft" /\ po'[c].status = "canceled"

Eases(s, p) ==
    LET old == po[p].status
        new == po'[p].status IN
    \/ new = old
    \/ new = "canceled"
    \/ old \in Fresh /\ new \in Fresh /\ sess[s].kind \notin {"consolidate", "deconsolidate"}
    \/ old = "draft" /\ new = "consolidated"
    \/ old = "consolidated" /\ new = "draft" /\ Reverts(s, p)

Inserted(s, p) ==
    /\ sess[s].pc = "write" /\ sess[s].kind = "consolidate" /\ p = sess[s].row
    /\ po[p].status = "none" /\ po'[p] = sess[s].new
    /\ \A r \in sess[s].new.from :
         /\ lock[r] = s /\ po[r].status # "none" /\ po'[r].status = "consolidated"
         /\ r \notin overwritten' => po[r].status = "draft"

Deleted(s, p) ==
    /\ lock[p] = s
    /\ po'[p] = [NoRow EXCEPT !.status = "deleted", !.demand = po[p].demand]
    /\ po[p].status # "none"
    /\ p \notin overwritten' => po[p].status = "draft"

Rewritten(s, p) ==
    /\ lock[p] = s /\ Kept(p)
    /\ po[p].status # "deleted" /\ po'[p].status # "deleted"
    /\ po[p].status = "none" <=> po'[p].status = "none"
    /\ p \notin overwritten' => Eases(s, p)

Turns(s, p) ==
    po'[p] = po[p] \/ Inserted(s, p) \/ Deleted(s, p) \/ Rewritten(s, p)

LEMMA RestatedKept ==
    ASSUME Inv, NEW p \in POs, NEW st \in Statuses, NEW pa \in POs \cup {NoPO},
           Restate(p, st, pa)
    PROVE  Kept(p) /\ po'[p].status = st
<1> DEFINE x == [po[p] EXCEPT !.status = st, !.parent = pa]
           R == [status : Statuses, parent : POs \cup {NoPO}, from : SUBSET POs,
                 demand : SUBSET POs, qty : {po[p].qty}, got : {po[p].got}]
<1>1. po[p] \in R
  BY DEF Inv, Shape, Proper, AnyRow
<1>2. /\ x.status = st /\ x.from = po[p].from /\ x.demand = po[p].demand
      /\ x.qty = po[p].qty /\ x.got = po[p].got
  BY <1>1
<1> HIDE DEF x
<1>3. po'[p] = x
  BY DEF Restate, x
<1> QED BY <1>2, <1>3 DEF Kept

LEMMA MoveTurns ==
    ASSUME Inv, NEW s \in Sessions, Commits(s), NEW p \in POs, lock[p] = s,
           sess[s].kind \in Moves \ {"edit", "delete"}
    PROVE  Rewritten(s, p)
<1> DEFINE kind == sess[s].kind
<1>0. PICK st : st = To(kind)
  OBVIOUS
<1>1. p = sess[s].row /\ po[p].status \notin {"none", "deleted"}
  BY DEF Commits, RowsHeld, Reach, Moves
<1>2. st \in {"draft", "pending_approval", "approved", "sent", "confirmed", "canceled"}
  BY <1>0 DEF To, Moves
<1>3. po'[p] = [po[p] EXCEPT !.status = st]
  BY <1>0 DEF Commits, Moved, Target, Moves
<1>4. /\ po[p] \in [status : Statuses, parent : POs \cup {NoPO}, from : SUBSET POs,
                    demand : SUBSET POs, qty : {po[p].qty}, got : {po[p].got}]
      /\ po[p].parent \in POs \cup {NoPO}
  BY DEF Inv, Shape, Proper, AnyRow
<1>5. Restate(p, st, po[p].parent)
  BY <1>3, <1>4 DEF Restate
<1>6. st \in Statuses \ {"none", "deleted"}
  BY <1>2 DEF Statuses, Live, Settled
<1>7. Kept(p) /\ po'[p].status = st
  BY <1>4, <1>5, <1>6, RestatedKept
<1>8. ASSUME p \notin overwritten' PROVE Eases(s, p)
  <2>1. ~Overwrites(s)
    BY <1>8 DEF Commits
  <2>2. sess[s].seen[p] \in From(kind) /\ kind \notin {"edit", "consolidate", "deconsolidate"}
    BY <1>1 DEF Commits, Moves
  <2>3. From(kind) \subseteq Live
    BY DEF From, Live, Moves
  <2>4. po[p].status = sess[s].seen[p]
    BY <2>1, <2>2, <2>3, SeenNow DEF Live
  <2>5. CASE kind = "cancel"
    BY <1>0, <1>7, <2>5 DEF Eases, To
  <2>6. CASE kind # "cancel"
    <3>1. From(kind) \subseteq Fresh /\ st \in Fresh
      BY <1>0, <2>6 DEF From, To, Fresh, Moves
    <3> QED BY <1>7, <2>2, <2>4, <3>1 DEF Eases
  <2> QED BY <2>5, <2>6
<1>9. po'[p].status \notin {"none", "deleted"}
  BY <1>2, <1>7
<1> QED BY <1>1, <1>7, <1>8, <1>9 DEF Rewritten

LEMMA DeleteTurns ==
    ASSUME Inv, NEW s \in Sessions, Commits(s), NEW p \in POs, lock[p] = s,
           sess[s].kind = "delete"
    PROVE  Deleted(s, p) \/ Rewritten(s, p)
<1>0. PICK row \in POs : row = sess[s].row
  BY DEF Commits
<1>1. /\ lock[row] = s /\ po[row].status # "none" /\ sess[s].seen[row] = "draft"
  BY <1>0 DEF Commits, From
<1>2. CASE p = row
  <2>1. po'[p] = [NoRow EXCEPT !.status = "deleted", !.demand = po[p].demand]
    BY <1>0, <1>2 DEF Commits, Moved
  <2>2. ASSUME p \notin overwritten' PROVE po[p].status = "draft"
    <3>1. ~Overwrites(s)
      BY <2>2 DEF Commits
    <3> QED BY <1>1, <1>2, <3>1, SeenNow
  <2> QED BY <1>1, <1>2, <2>1, <2>2 DEF Deleted
<1>3. CASE p # row
  <2>1. /\ po[p].parent = row /\ po[p].status # "deleted"
        /\ po'[p] = [po[p] EXCEPT !.parent = NoPO]
    BY <1>0, <1>3 DEF Commits, RowsHeld, Reach, Moved
  <2>2. po[p] \in [status : Statuses, parent : POs \cup {NoPO}, from : SUBSET POs,
                    demand : SUBSET POs, qty : {po[p].qty}, got : {po[p].got}]
    BY DEF Inv, Shape, Proper, AnyRow
  <2>3. Restate(p, po[p].status, NoPO) /\ po[p].status \in Statuses
    BY <2>1, <2>2 DEF Restate
  <2>4. Kept(p) /\ po'[p].status = po[p].status
    BY <2>3, RestatedKept
  <2> QED BY <2>1, <2>4 DEF Rewritten, Eases
<1> QED BY <1>2, <1>3

LEMMA ConsolidateTurns ==
    ASSUME Inv, Sound, NEW s \in Sessions, Commit(s), Commits(s), NEW p \in POs, lock[p] = s,
           sess[s].kind = "consolidate"
    PROVE  Inserted(s, p) \/ Rewritten(s, p)
<1> DEFINE new == sess[s].new
<1>0. PICK row \in POs : row = sess[s].row
  BY DEF Commits
<1>1. /\ lock[row] = s /\ po[row].status = "none" /\ row \notin new.from
      /\ \A r \in new.from : sess[s].seen[r] = "draft" /\ lock[r] = s
  BY <1>0 DEF Commits, Consolidating
<1>2. new.from \subseteq POs
  BY DEF Inv, Shape, AnySession, AnyRow
<1>2a. sess[s].pc = "write"
  BY DEF Inv, About, Commit, At
<1>3. \A r \in new.from : po[r].status # "none"
  BY <1>2a DEF Sound, Fine, Carries
<1>4. ASSUME NEW r \in new.from
      PROVE  Kept(r) /\ po'[r].status = "consolidated"
  <2>1. r \in POs /\ r # row
    BY <1>1, <1>2
  <2>2. Restate(r, "consolidated", row) /\ "consolidated" \in Statuses
    BY <1>0, <1>1, <2>1 DEF Commits, Moved, Restate, Statuses, Settled
  <2> QED BY <2>1, <2>2, RestatedKept
<1>5. ASSUME NEW r \in new.from, r \notin overwritten' PROVE po[r].status = "draft"
  <2>1. ~Overwrites(s)
    BY <1>1, <1>2, <1>5 DEF Commits
  <2> QED BY <1>1, <1>2, <2>1, SeenNow
<1>6. CASE p = row
  <2>1. po'[p] = new
    BY <1>0, <1>6 DEF Commits, Moved
  <2> QED BY <1>0, <1>1, <1>2a, <1>3, <1>4, <1>5, <1>6, <2>1 DEF Inserted
<1>7. CASE p # row
  <2>1. p \in new.from /\ po[p].status # "deleted"
    BY <1>0, <1>7 DEF Commits, RowsHeld, Reach
  <2> QED BY <1>3, <1>4, <1>5, <2>1 DEF Rewritten, Eases
<1> QED BY <1>6, <1>7

LEMMA DeconsolidateTurns ==
    ASSUME Inv, Sound, NEW s \in Sessions, Commit(s), Commits(s), NEW p \in POs, lock[p] = s,
           sess[s].kind = "deconsolidate"
    PROVE  Rewritten(s, p)
<1>0. PICK row \in POs : row = sess[s].row
  BY DEF Commits
<1>1. /\ lock[row] = s /\ sess[s].seen[row] = "draft" /\ po[row].status \notin {"none", "deleted"}
  <2>1. sess[s].pc = "write"
    BY DEF Inv, About, Commit, At
  <2> QED BY <1>0, <2>1 DEF Commits, RowsHeld, Sound, Fine, Carries
<1>2. /\ po[row] \in [status : Statuses, parent : POs \cup {NoPO}, from : SUBSET POs,
                      demand : SUBSET POs, qty : {po[row].qty}, got : {po[row].got}]
      /\ po[row].parent \in POs \cup {NoPO}
  BY DEF Inv, Shape, Proper, AnyRow
<1>3. Kept(row) /\ po'[row].status = "canceled"
  <2>1. po'[row] = [po[row] EXCEPT !.status = "canceled"]
    BY <1>0, <1>1 DEF Commits, Moved, Target
  <2>2. Restate(row, "canceled", po[row].parent) /\ "canceled" \in Statuses
    BY <1>2, <2>1 DEF Restate, Statuses, Settled
  <2> QED BY <1>2, <2>2, RestatedKept
<1>4. CASE p = row
  BY <1>1, <1>3, <1>4 DEF Rewritten, Eases
<1>5. CASE p # row
  <2>1. p \in po[row].from /\ po[p].status # "deleted"
    BY <1>0, <1>1, <1>5 DEF Commits, RowsHeld, Reach
  <2>2. po[p].status # "none"
    BY <2>1 DEF Sound, Known
  <2>6. PICK st : st = IF sess[s].seen[p] = "draft" THEN po[p].status ELSE "draft"
    OBVIOUS
  <2>3. Restate(p, st, NoPO) /\ st \in Statuses \ {"none", "deleted"}
    <3>1. po[p].status \in Statuses /\ "draft" \in Statuses
      BY DEF Inv, Shape, Proper, AnyRow, Statuses, Live
    <3> QED BY <1>0, <1>5, <2>1, <2>2, <2>6, <3>1 DEF Commits, Moved, Restate
  <2>4. Kept(p) /\ po'[p].status = st
    BY <2>3, RestatedKept
  <2>5. ASSUME p \notin overwritten' PROVE Eases(s, p)
    <3>1. ~Overwrites(s) /\ overwritten' = overwritten
      BY <2>5 DEF Commits
    <3>2. po[row].status = "draft" /\ row \notin overwritten'
      BY <1>0, <1>1, <3>1, SeenNow DEF Overwrites
    <3>3. Alive(row)
      BY <3>2 DEF Alive
    <3>4. po[p].status = "consolidated"
      BY <2>1, <2>5, <3>1, <3>2, <3>3 DEF Inv, FamilyInv
    <3>5. Reverts(s, p)
      BY <1>0, <1>3, <2>1, <3>2 DEF Reverts
    <3> QED BY <2>4, <2>6, <3>4, <3>5 DEF Eases
  <2> QED BY <2>1, <2>2, <2>3, <2>4, <2>5 DEF Rewritten
<1> QED BY <1>4, <1>5

LEMMA CommitTurns ==
    ASSUME Inv, Sound, NEW s \in Sessions, Commit(s), NEW p \in POs
    PROVE  Turns(s, p)
<1>1. Commits(s)
  BY CommitFacts
<1>2. CASE lock[p] # s \/ sess[s].kind = "edit"
  BY <1>1, <1>2 DEF Commits, Moved, Turns
<1>3. CASE lock[p] = s /\ sess[s].kind \in Moves \ {"edit", "delete"}
  BY <1>1, <1>3, MoveTurns DEF Turns
<1>4. CASE lock[p] = s /\ sess[s].kind = "delete"
  BY <1>1, <1>4, DeleteTurns DEF Turns
<1>5. CASE lock[p] = s /\ sess[s].kind = "consolidate"
  BY <1>1, <1>5, ConsolidateTurns DEF Turns
<1>6. CASE lock[p] = s /\ sess[s].kind = "deconsolidate"
  BY <1>1, <1>6, DeconsolidateTurns DEF Turns
<1> QED BY <1>1, <1>2, <1>3, <1>4, <1>5, <1>6 DEF Commits

-----------------------------------------------------------------------------
(* Quantities and demands.                                                 *)

\* A demand is written once.
Lasting(p) == po[p].status # "none" => po'[p].demand = po[p].demand

LEMMA OthersFine ==
    ASSUME Inv, Sound, NEW s, Careful(s), \A p \in POs : Lasting(p),
           \A r \in Sessions : r # s => sess'[r] = sess[r],
           \A r \in Sessions, p \in POs : r # s => (lock'[p] = r <=> lock[p] = r)
    PROVE  \A r \in Sessions : r # s => Fine(r)'
<1> SUFFICES ASSUME NEW r \in Sessions, r # s PROVE Fine(r)'
  OBVIOUS
<1> DEFINE q == sess[r]
<1>1. Fine(r) /\ About(r) /\ sess'[r] = q /\ AnySession(q)
  BY DEF Inv, Shape, Sound
<1>2. \A p \in POs : lock[p] = r => po'[p] = po[p]
  BY DEF Careful, Gentle
<1>3. \A p \in POs : po[p].status # "none" => po'[p].status # "none" /\ po'[p].demand = po[p].demand
  BY DEF Careful, Gentle, Lasting
<1>4. q.new.from \subseteq POs /\ q.todo \subseteq POs
  BY <1>1 DEF AnySession, AnyRow
<1>5. ASSUME q.pc = "write", q.kind = "consolidate"
      PROVE  /\ q.new.demand = UNION {po'[p].demand : p \in q.new.from}
             /\ \A p \in q.new.from : po'[p].status # "none"
  <2>1. /\ q.new.demand = UNION {po[p].demand : p \in q.new.from}
        /\ \A p \in q.new.from : po[p].status # "none"
    BY <1>1, <1>5 DEF Fine, Carries
  <2>2. \A p \in q.new.from : po'[p].demand = po[p].demand /\ po'[p].status # "none"
    BY <1>3, <1>4, <2>1
  <2> QED BY <2>1, <2>2
<1>6. q.pc = "receive" => q.row \in POs /\ po'[q.row] = po[q.row]
  BY <1>1, <1>2 DEF About
<1>7. Carries(r)'
  BY <1>1, <1>5, <1>6 DEF Fine, Carries
<1>8. Ascends(r)'
  BY <1>1, <1>2, <1>3, <1>4 DEF Fine, Ascends
<1> QED BY <1>7, <1>8 DEF Fine

\* A session that changes no order.
Quiet(s) ==
    /\ UNCHANGED <<mix, po, stock, overwritten>>
    /\ \A r \in Sessions : r # s => sess'[r] = sess[r]
    /\ \A r \in Sessions, p \in POs : r # s => (lock'[p] = r <=> lock[p] = r)

LEMMA QuietSound ==
    ASSUME Inv, Sound, NEW s, Quiet(s), s \in Sessions => Fine(s)'
    PROVE  Sound'
<1>1. \A r \in Sessions : r # s => Fine(r)'
  <2>1. Careful(s) /\ \A p \in POs : Lasting(p)
    BY Still DEF Quiet, Lasting
  <2> QED BY <2>1, OthersFine DEF Quiet
<1>2. \A p \in POs : (Amounts(p) /\ Known(p))'
  BY DEF Quiet, Sound, Amounts, Known
<1>3. \A d \in POs : (Clean(d) => Apart(d))'
  <2> SUFFICES ASSUME NEW d \in POs, Clean(d)' PROVE Apart(d)'
    OBVIOUS
  <2>1. Clean(d)
    BY DEF Quiet, Clean
  <2>2. Apart(d)
    BY <2>1 DEF Sound
  <2> QED BY <2>2 DEF Quiet, Apart, Holder
<1> QED BY <1>1, <1>2, <1>3 DEF Quiet, Sound

\* What came in with an order is what its line says, after any commit.
LEMMA TurnsAmounts ==
    ASSUME Inv, Sound, NEW s \in Sessions, NEW p \in POs, Turns(s, p),
           UNCHANGED stock, overwritten \subseteq overwritten'
    PROVE  Amounts(p)'
<1>1. Amounts(p)
  BY DEF Sound
<1>2. CASE po'[p] = po[p]
  BY <1>1, <1>2 DEF Amounts
<1>3. CASE Inserted(s, p)
  <2>1. stock[p] = 0
    BY <1>1, <1>3 DEF Amounts, Inserted
  <2>2. sess[s].new.qty \in Nat /\ sess[s].new.got = 0
    BY <1>3 DEF Inserted, Sound, Fine, Carries
  <2> QED BY <1>3, <2>1, <2>2 DEF Amounts, Inserted
<1>4. CASE Deleted(s, p)
  <2>1. po'[p].status = "deleted" /\ po'[p].qty = 0 /\ po'[p].got = 0
    BY <1>4 DEF Deleted, NoRow
  <2>2. p \notin overwritten' => stock[p] = 0
    BY <1>1, <1>4 DEF Deleted, Amounts
  <2> QED BY <1>1, <2>1, <2>2 DEF Amounts
<1>5. CASE Rewritten(s, p)
  <2>1. ASSUME p \notin overwritten', stock[p] > 0
        PROVE  po'[p].status \in {"partial", "received", "canceled"}
    <3>1. po[p].status \in {"partial", "received", "canceled"}
      BY <1>1, <2>1 DEF Amounts
    <3> QED BY <1>5, <2>1, <3>1 DEF Rewritten, Eases, Fresh
  <2> QED BY <1>1, <1>5, <2>1 DEF Rewritten, Kept, Amounts
<1> QED BY <1>2, <1>3, <1>4, <1>5 DEF Turns

\* What an order may become.
Grows(p) ==
    /\ po[p].status # "none" => po'[p].status # "none" /\ po'[p].demand = po[p].demand
    /\ po'[p].from = {} \/ po'[p].from = po[p].from \/ po[p].status = "none"

LEMMA TurnsGrow ==
    ASSUME Inv, Sound, NEW s \in Sessions, NEW p \in POs, Turns(s, p)
    PROVE  Grows(p)
<1>1. CASE Inserted(s, p)
  BY <1>1 DEF Inserted, Grows
<1>2. CASE Deleted(s, p)
  <2>1. po'[p].status = "deleted" /\ po'[p].from = {} /\ po'[p].demand = po[p].demand
    BY <1>2 DEF Deleted, NoRow
  <2> QED BY <2>1 DEF Grows
<1> QED BY <1>1, <1>2 DEF Turns, Rewritten, Kept, Grows

\* Fewer drafts stay clean.
LEMMA CleanBefore ==
    ASSUME Sound, \A p \in POs : Grows(p), overwritten \subseteq overwritten',
           overwritten' \subseteq POs, NEW d \in POs, Clean(d)'
    PROVE  Clean(d) /\ \A p \in overwritten' : d \notin po'[p].demand
<1> SUFFICES ASSUME NEW r \in overwritten PROVE d \notin po[r].demand /\ d # r
  BY DEF Clean
<1>1. r \in POs /\ r \in overwritten'
  OBVIOUS
<1>2. d \notin po'[r].demand /\ d # r
  BY <1>1 DEF Clean
<1>3. po[r].status = "none" => po[r].demand = {}
  BY <1>1 DEF Sound, Known
<1> QED BY <1>1, <1>2, <1>3 DEF Grows

\* An order that received something, or still may, after a commit that did not
\* write over it, did so before, or was inserted, or given back.
LEMMA TurnsHolder ==
    ASSUME Inv, Sound, NEW s \in Sessions, NEW p \in POs, Turns(s, p), UNCHANGED stock,
           p \notin overwritten', Holder(p)'
    PROVE  \/ Holder(p)
           \/ Inserted(s, p)
           \/ po[p].status = "consolidated" /\ Reverts(s, p)
<1>1. CASE po'[p] = po[p]
  BY <1>1 DEF Holder
<1>2. CASE Deleted(s, p)
  BY <1>2 DEF Deleted, Holder, NoRow
<1>3. CASE Rewritten(s, p)
  BY <1>3 DEF Rewritten, Eases, Holder, Fresh
<1> QED BY <1>1, <1>2, <1>3 DEF Turns

\* The demand of the order that is inserted is its originals'.
LEMMA InsertedDemand ==
    ASSUME Inv, Sound, NEW s \in Sessions, NEW p \in POs, Inserted(s, p)
    PROVE  /\ po'[p].from \subseteq POs
           /\ po'[p].demand = UNION {po[q].demand : q \in po'[p].from}
<1>1. AnySession(sess[s]) /\ po'[p] = sess[s].new
  BY DEF Inv, Shape, Inserted
<1> QED BY <1>1 DEF Inserted, Sound, Fine, Carries, AnySession, AnyRow

LEMMA TurnsKnown ==
    ASSUME Inv, Sound, NEW s \in Sessions, \A p \in POs : Turns(s, p), NEW p \in POs
    PROVE  Known(p)'
<1>1. \A q \in POs : Grows(q) /\ Known(q) /\ po[q].from \subseteq POs /\ po[q].demand \subseteq POs
  BY TurnsGrow, RowShapes DEF Sound, AnyRow
<1>2. CASE Inserted(s, p)
  <2> DEFINE F == po'[p].from
  <2>1. F \subseteq POs /\ po'[p].demand = UNION {po[q].demand : q \in F}
    BY <1>2, InsertedDemand
  <2>2. \A q \in F : po[q].status # "none"
    BY <1>2 DEF Inserted
  <2>3. ASSUME NEW q \in F
        PROVE  po'[q].status # "none" /\ po'[q].demand = po[q].demand
    BY <1>1, <2>1, <2>2 DEF Grows
  <2>4. ASSUME NEW d \in po'[p].demand PROVE po'[d].status # "none"
    <3>1. PICK q \in F : d \in po[q].demand
      BY <2>1
    <3>2. q \in POs /\ d \in POs /\ po[d].status # "none"
      BY <1>1, <2>1, <3>1 DEF Known
    <3> QED BY <1>1, <3>2 DEF Grows
  <2>5. po'[p].status # "none"
    BY <1>2 DEF Inserted, Inv, About, Consolidating
  <2> QED BY <2>1, <2>3, <2>4, <2>5 DEF Known
<1>3. CASE ~Inserted(s, p)
  <2>1. /\ po'[p].demand = po[p].demand
        /\ po'[p].from = {} \/ po'[p].from = po[p].from
        /\ po'[p].status = "none" => po[p].status = "none"
    <3>1. CASE Deleted(s, p)
      BY <3>1 DEF Deleted, NoRow
    <3> QED BY <1>3, <3>1 DEF Turns, Rewritten, Kept
  <2>2. \A q \in po[p].from \cup po[p].demand :
          /\ q \in POs /\ po'[q].status # "none" /\ po'[q].demand = po[q].demand
    BY <1>1 DEF Grows, Known
  <2> QED BY <1>1, <2>1, <2>2 DEF Known
<1> QED BY <1>2, <1>3

\* Orders that stand for the same draft stay apart.
LEMMA TurnsApart ==
    ASSUME Inv, Sound, NEW s \in Sessions, \A p \in POs : Turns(s, p), UNCHANGED stock,
           overwritten \subseteq overwritten', overwritten' \subseteq POs,
           NEW d \in POs, Clean(d)'
    PROVE  Apart(d)'
<1>1. \A p \in POs : Grows(p) /\ Known(p) /\ po[p].from \subseteq POs
  BY TurnsGrow, RowShapes DEF Sound, AnyRow
<1>2. Clean(d) /\ \A p \in overwritten' : d \notin po'[p].demand
  BY <1>1, CleanBefore
<1>3. Apart(d)
  BY <1>2 DEF Sound
<1>4. ASSUME NEW p \in POs, NEW q \in POs, p # q, d \in po[p].demand, d \in po[q].demand
      PROVE  ~(Holder(p) /\ Holder(q)) /\ \A c \in POs : ~(p \in po[c].from /\ q \in po[c].from)
  BY <1>3, <1>4 DEF Apart
<1>5. ASSUME NEW p \in POs, d \in po'[p].demand, ~Inserted(s, p)
      PROVE  d \in po[p].demand
  BY <1>5 DEF Turns, Deleted, Rewritten, Kept, NoRow
\* An original of an order that is inserted was a draft.
<1>6. ASSUME NEW c \in POs, Inserted(s, c), NEW q \in po'[c].from, d \in po[q].demand
      PROVE  q \in POs /\ Holder(q) /\ ~Holder(q)'
  <2>1. q \in POs /\ po[q].status # "none" /\ po'[q].status = "consolidated"
    BY <1>6, InsertedDemand DEF Inserted
  <2>2. q \notin overwritten'
    BY <1>1, <1>2, <1>6, <2>1 DEF Grows
  <2>3. po[q].status = "draft"
    BY <1>6, <2>2 DEF Inserted
  <2>4. stock[q] = 0
    <3>1. Amounts(q) /\ q \notin overwritten
      BY <2>1, <2>2 DEF Sound
    <3> QED BY <2>3, <3>1 DEF Amounts
  <2> QED BY <2>1, <2>3, <2>4 DEF Holder
\* An order that is inserted stands alone.
<1>7. ASSUME NEW p \in POs, NEW q \in POs, p # q, Inserted(s, p),
             d \in po'[p].demand, d \in po'[q].demand
      PROVE  ~Holder(q)'
  <2>1. SUFFICES ASSUME Holder(q)' PROVE FALSE
    OBVIOUS
  <2>2. PICK r \in po'[p].from : d \in po[r].demand
    BY <1>7, InsertedDemand
  <2>3. r \in POs /\ Holder(r) /\ ~Holder(r)'
    BY <1>7, <2>2, <1>6
  <2>4. ~Inserted(s, q) /\ d \in po[q].demand
    BY <1>5, <1>7 DEF Inserted
  <2>5. q \notin overwritten' /\ q # r
    BY <1>2, <1>7, <2>1, <2>3
  <2>6. Holder(q) \/ (po[q].status = "consolidated" /\ Reverts(s, q))
    BY <2>1, <2>4, <2>5, TurnsHolder
  <2>7. ~Reverts(s, q)
    BY <1>7 DEF Reverts, Inserted
  <2> QED BY <1>4, <2>2, <2>3, <2>4, <2>5, <2>6, <2>7
\* An order that is given back takes the place of the one it came from.
<1>8. ASSUME NEW p \in POs, Reverts(s, p), d \in po[p].demand
      PROVE  \E c \in POs : /\ p \in po[c].from /\ c = sess[s].row /\ d \in po[c].demand
                            /\ Holder(c) /\ ~Holder(c)'
  <2>1. PICK c \in POs : c = sess[s].row
    BY <1>8 DEF Reverts
  <2>2. /\ c \notin overwritten' /\ p \in po[c].from /\ po[c].status = "draft"
        /\ po'[c].status = "canceled"
    BY <1>8, <2>1 DEF Reverts
  <2>3. d \in po[c].demand
    BY <1>1, <1>8, <2>2 DEF Known
  <2>4. Amounts(c) /\ c \notin overwritten
    BY <2>2 DEF Sound
  <2>5. stock[c] = 0
    BY <2>2, <2>4 DEF Amounts
  <2> QED BY <2>1, <2>2, <2>3, <2>5 DEF Holder
<1>9. ASSUME NEW p \in POs, NEW q \in POs, p # q, d \in po'[p].demand, d \in po'[q].demand,
             Holder(p)', Holder(q)'
      PROVE  FALSE
  <2>1. ~Inserted(s, p) /\ ~Inserted(s, q)
    BY <1>7, <1>9
  <2>2. d \in po[p].demand /\ d \in po[q].demand
    BY <1>5, <1>9, <2>1
  <2>3. /\ Holder(p) \/ (po[p].status = "consolidated" /\ Reverts(s, p))
        /\ Holder(q) \/ (po[q].status = "consolidated" /\ Reverts(s, q))
    BY <1>2, <1>9, <2>1, TurnsHolder
  <2>4. CASE Holder(p) /\ Holder(q)
    BY <1>4, <1>9, <2>2, <2>4
  <2>5. CASE Reverts(s, p) /\ Reverts(s, q)
    <3>1. p \in po[sess[s].row].from /\ q \in po[sess[s].row].from /\ sess[s].row \in POs
      BY <2>5 DEF Reverts
    <3> QED BY <1>4, <1>9, <2>2, <3>1
  <2>6. CASE Reverts(s, p) /\ Holder(q)
    BY <1>4, <1>8, <1>9, <2>2, <2>6
  <2>7. CASE Holder(p) /\ Reverts(s, q)
    BY <1>4, <1>8, <1>9, <2>2, <2>7
  <2> QED BY <2>3, <2>4, <2>5, <2>6, <2>7
<1>10. ASSUME NEW p \in POs, NEW q \in POs, p # q, d \in po'[p].demand, d \in po'[q].demand,
              NEW c \in POs, p \in po'[c].from, q \in po'[c].from
       PROVE  FALSE
  <2>1. CASE Inserted(s, c)
    <3>1. po[p].status # "none" /\ po[q].status # "none"
      BY <1>10, <2>1 DEF Inserted
    <3>2. d \in po[p].demand /\ d \in po[q].demand
      BY <1>1, <1>10, <3>1 DEF Grows
    <3> QED BY <1>4, <1>6, <1>10, <2>1, <3>2
  <2>2. CASE ~Inserted(s, c)
    <3>1. p \in po[c].from /\ q \in po[c].from
      BY <1>10, <2>2 DEF Turns, Deleted, Rewritten, Kept, NoRow
    <3>2. po[p].status # "none" /\ po[q].status # "none"
      BY <1>1, <3>1 DEF Known
    <3>3. d \in po[p].demand /\ d \in po[q].demand
      BY <1>1, <1>10, <3>2 DEF Grows
    <3> QED BY <1>4, <1>10, <3>1, <3>3
  <2> QED BY <2>1, <2>2
<1> QED BY <1>9, <1>10 DEF Apart

LEMMA CommitSound ==
    ASSUME Inv, Sound, NEW s \in Sessions, Commit(s)
    PROVE  Sound'
<1>1. \A p \in POs : Turns(s, p)
  BY CommitTurns
<1>2. /\ UNCHANGED <<mix, stock>> /\ Released(s) /\ End(s)
      /\ overwritten \subseteq overwritten'
  BY DEF Commit
<1>3. overwritten' \subseteq POs
  BY DEF Commit, Sound
<1>4. \A p \in POs : Written(s, p)
  BY CommitWritten
<1>5. Careful(s) /\ \A p \in POs : Lasting(p)
  BY <1>1, <1>4, TurnsGrow DEF Careful, Written, Lasting, Grows
<1>6. \A r \in Sessions : Fine(r)'
  BY <1>2, <1>5, Ended, OthersFine
<1>7. \A p \in POs : Amounts(p)' /\ Known(p)'
  BY <1>1, <1>2, TurnsAmounts, TurnsKnown
<1>8. \A d \in POs : (Clean(d) => Apart(d))'
  BY <1>1, <1>2, <1>3, TurnsApart
<1> QED BY <1>2, <1>3, <1>6, <1>7, <1>8 DEF Sound

LEMMA ReceiptSound ==
    ASSUME Inv, Sound, NEW s \in Sessions, ReceiveCommit(s)
    PROVE  Sound'
<1> DEFINE n == sess[s].new
<1>0. PICK p \in POs : p = sess[s].row /\ lock[p] = s /\ po[p].status \in Live
  BY DEF ReceiveCommit, At, Inv, About
<1>1. /\ po' = [po EXCEPT ![p].got = n.got, ![p].status = ReceiptStatus(p, n.got)]
      /\ stock' = [stock EXCEPT ![p] = @ + n.qty]
      /\ Released(s) /\ End(s) /\ UNCHANGED <<mix, overwritten>>
  BY <1>0 DEF ReceiveCommit
<1>2. n.qty \in Nat /\ n.got \in Nat /\ n.got = po[p].got + n.qty /\ n.got <= po[p].qty
  BY <1>0 DEF ReceiveCommit, At, Sound, Fine, Carries
<1>3. /\ po'[p].qty = po[p].qty /\ po'[p].got = n.got /\ po'[p].from = po[p].from
      /\ po'[p].demand = po[p].demand /\ po'[p].status \in {"received", "partial"}
      /\ \A r \in POs : r # p => po'[r] = po[r]
  <2>1. po[p] \in [status : Statuses, parent : POs \cup {NoPO}, from : SUBSET POs,
                   demand : SUBSET POs, qty : {po[p].qty}, got : {po[p].got}]
    BY DEF Inv, Shape, Proper, AnyRow
  <2>2. po = [r \in POs |-> po[r]]
    BY DEF Inv, Shape
  <2> QED BY <1>1, <2>1, <2>2 DEF ReceiptStatus
<1>4. /\ stock' = [r \in POs |-> stock'[r]] /\ stock'[p] = stock[p] + n.qty
      /\ \A r \in POs : r # p => stock'[r] = stock[r]
  BY <1>1 DEF Sound
<1>5. \A r \in POs : Amounts(r) /\ Known(r) /\ po[r].from \subseteq POs /\ po[r].demand \subseteq POs
  BY RowShapes DEF Sound, AnyRow
<1>6. \A r \in POs : Amounts(r)'
  <2> HIDE DEF n
  <2>1. /\ stock[p] = po[p].got /\ po[p].got \in Nat /\ po[p].qty \in Nat
    BY <1>0, <1>5 DEF Amounts, Live
  <2>2. Amounts(p)'
    BY <1>2, <1>3, <1>4, <2>1 DEF Amounts
  <2>3. ASSUME NEW r \in POs, r # p PROVE Amounts(r)'
    <3>1. po'[r] = po[r] /\ stock'[r] = stock[r] /\ overwritten' = overwritten /\ Amounts(r)
      BY <1>1, <1>3, <1>4, <1>5, <2>3
    <3> QED BY <3>1 DEF Amounts
  <2> QED BY <2>2, <2>3
<1>7. \A r \in POs : /\ po'[r].from = po[r].from /\ po'[r].demand = po[r].demand
                     /\ po[r].status = "none" <=> po'[r].status = "none"
                     /\ Holder(r)' => Holder(r)
  <2>1. po[p].status \notin {"none", "deleted", "canceled", "consolidated"}
    BY <1>0 DEF Live
  <2>2. \A r \in POs : r # p => (Holder(r)' => Holder(r))
    BY <1>3, <1>4 DEF Holder
  <2>3. Holder(p)
    BY <2>1 DEF Holder
  <2> QED BY <1>3, <2>1, <2>2, <2>3
<1>8. \A r \in POs : Known(r)'
  BY <1>5, <1>7 DEF Known
<1>9. \A d \in POs : (Clean(d) => Apart(d))'
  <2> SUFFICES ASSUME NEW d \in POs, Clean(d)' PROVE Apart(d)'
    OBVIOUS
  <2>1. Clean(d)
    BY <1>1, <1>7 DEF Sound, Clean
  <2>2. Apart(d)
    BY <2>1 DEF Sound
  <2> QED BY <1>7, <2>2 DEF Apart
<1>10. Careful(s)
  BY <1>0, <1>3, PurchasingAssumption DEF Careful, Gentle, Live
<1>11. \A r \in Sessions : Fine(r)'
  <2>1. \A r \in POs : Lasting(r)
    BY <1>7 DEF Lasting
  <2> QED BY <1>1, <1>10, <2>1, Ended, OthersFine
<1> QED BY <1>1, <1>4, <1>6, <1>8, <1>9, <1>11 DEF Sound

LEMMA CreateSound ==
    ASSUME Inv, Sound, NEW p \in POs, Create(p)
    PROVE  Sound'
<1>1. /\ po[p].status = "none" /\ lock[p] = NoSession
      /\ po' = [po EXCEPT ![p] = [NoRow EXCEPT !.status = "draft", !.qty = Qty[p],
                                    !.demand = {p}]]
      /\ UNCHANGED <<mix, lock, sess, stock, overwritten>>
  BY DEF Create, Unused, Free
<1>2. /\ po'[p].status = "draft" /\ po'[p].qty = Qty[p] /\ po'[p].got = 0
      /\ po'[p].from = {} /\ po'[p].demand = {p}
      /\ \A r \in POs : r # p => po'[r] = po[r]
  <2>1. po = [r \in POs |-> po[r]]
    BY DEF Inv, Shape
  <2> QED BY <1>1, <2>1 DEF NoRow
<1>3. Qty[p] \in Nat
  BY PurchasingAssumption
<1>4. \A r \in POs : Amounts(r) /\ Known(r) /\ po[r].from \subseteq POs /\ po[r].demand \subseteq POs
  BY RowShapes DEF Sound, AnyRow
<1>5. \A r \in POs : Amounts(r)'
  <2>1. Amounts(p)'
    BY <1>1, <1>2, <1>3, <1>4 DEF Amounts
  <2>2. \A r \in POs : r # p => Amounts(r)'
    BY <1>1, <1>2, <1>4 DEF Amounts
  <2> QED BY <2>1, <2>2
<1>6. \A r \in POs : p \notin po[r].from /\ p \notin po[r].demand
  BY <1>1, <1>4 DEF Known
<1>7. \A r \in POs : Known(r)'
  <2>1. Known(p)'
    BY <1>2 DEF Known
  <2>2. \A r \in POs : r # p => Known(r)'
    BY <1>2, <1>4, <1>6 DEF Known
  <2> QED BY <2>1, <2>2
<1>8. \A d \in POs : (Clean(d) => Apart(d))'
  <2> SUFFICES ASSUME NEW d \in POs, Clean(d)' PROVE Apart(d)'
    OBVIOUS
  <2>1. CASE d = p
    BY <1>2, <1>6, <2>1 DEF Apart
  <2>2. CASE d # p
    <3>1. Clean(d)
      <4> SUFFICES ASSUME NEW r \in overwritten PROVE d \notin po[r].demand /\ d # r
        BY DEF Clean
      <4>1. r \in POs /\ d \notin po'[r].demand /\ d # r
        BY <1>1 DEF Clean, Sound
      <4>2. po[p].demand = {}
        BY <1>1, <1>4 DEF Known
      <4> QED BY <1>2, <4>1, <4>2
    <3>2. Apart(d)
      BY <3>1 DEF Sound
    <3>3. \A r \in POs : d \in po'[r].demand => r # p
      BY <1>2, <2>2
    <3>4. \A r \in POs : r # p => po'[r] = po[r] /\ (Holder(r)' => Holder(r))
      BY <1>1, <1>2 DEF Holder
    <3> QED BY <1>2, <3>2, <3>3, <3>4 DEF Apart
  <2> QED BY <2>1, <2>2
<1>9. Careful(NoSession)
  BY <1>1, <1>2, PurchasingAssumption DEF Careful, Gentle
<1>10. \A r \in POs : Lasting(r)
  BY <1>1, <1>2 DEF Lasting
<1>11. \A r \in Sessions : Fine(r)'
  BY <1>1, <1>9, <1>10, OthersFine, PurchasingAssumption
<1> QED BY <1>1, <1>5, <1>7, <1>8, <1>11 DEF Sound

LEMMA InitSound == Init => Sound
<1> SUFFICES ASSUME Init PROVE Sound
  OBVIOUS
<1>1. \A p \in POs : po[p] = NoRow /\ stock[p] = 0
  BY DEF Init
<1>2. /\ NoRow.status = "none" /\ NoRow.from = {} /\ NoRow.demand = {}
      /\ NoRow.qty = 0 /\ NoRow.got = 0
  BY DEF NoRow
<1>3. \A p \in POs : Amounts(p) /\ Known(p)
  BY <1>1, <1>2 DEF Amounts, Known
<1>4. \A d \in POs : Apart(d)
  BY <1>1, <1>2 DEF Apart
<1>5. \A s \in Sessions : Fine(s)
  <2>1. Idle.pc = "idle" /\ Idle.new = NoRow
    BY DEF Idle
  <2>2. \A s \in Sessions : sess[s] = Idle
    BY DEF Init
  <2> QED BY <1>2, <2>1, <2>2 DEF Fine, Carries, Ascends
<1> QED BY <1>3, <1>4, <1>5 DEF Init, Sound

-----------------------------------------------------------------------------
\* A session takes a row that is free, and its own record changes.
LEMMA QuietTake ==
    ASSUME Inv, NEW s \in Sessions, NEW p \in POs, lock[p] = NoSession,
           lock' = [lock EXCEPT ![p] = s],
           \A r \in Sessions : r # s => sess'[r] = sess[r],
           UNCHANGED <<mix, po, stock, overwritten>>
    PROVE  Quiet(s)
<1>1. \A x \in POs : lock'[x] = IF x = p THEN s ELSE lock[x]
  BY DEF Inv, Shape
<1>2. \A r \in Sessions, x \in POs : r # s => (lock'[x] = r <=> lock[x] = r)
  BY <1>1, PurchasingAssumption
<1> QED BY <1>2 DEF Quiet

\* A session that changes no order, and what becomes of it.
LEMMA StepQuiet ==
    ASSUME Inv, Sound, NEW s \in Sessions,
           \/ LoadOriginals(s) \/ Victim(s) \/ Fail(s) \/ Request(s)
           \/ \E p \in POs : Write(s, p) \/ WriteChild(s, p)
    PROVE  Inv' /\ Fine(s)' /\ Quiet(s)
<1>1. /\ lock \in [POs -> Sessions \cup {NoSession}] /\ sess = [r \in Sessions |-> sess[r]]
      /\ s # NoSession
  BY PurchasingAssumption DEF Inv, Shape
<1>2. ASSUME Released(s) /\ End(s), UNCHANGED <<mix, po, stock, overwritten>>
      PROVE  Inv' /\ Fine(s)' /\ Quiet(s)
  BY <1>2, Quit, Ended DEF Quiet
<1>3. CASE LoadOriginals(s)
  BY <1>1, <1>3, LoadOriginalsKeeps DEF LoadOriginals, Quiet
<1>4. CASE Victim(s) \/ Fail(s)
  BY <1>2, <1>4 DEF Victim, Fail
<1>5. ASSUME NEW p \in POs, Write(s, p) PROVE Inv' /\ Fine(s)' /\ Quiet(s)
  <2>1. CASE po[p].status = "deleted" /\ sess[s].kind # "delete"
    BY <1>2, <1>5, <2>1 DEF Write
  <2>2. CASE ~(po[p].status = "deleted" /\ sess[s].kind # "delete")
    <3>1. /\ lock[p] = NoSession /\ lock' = [lock EXCEPT ![p] = s]
          /\ \A r \in Sessions : r # s => sess'[r] = sess[r]
          /\ UNCHANGED <<mix, po, stock, overwritten>>
      BY <1>1, <1>5, <2>2 DEF Write, Free
    <3>2. Inv' /\ Fine(s)'
      BY <1>5, WriteKeeps
    <3> QED BY <3>1, <3>2, QuietTake
  <2> QED BY <2>1, <2>2
<1>6. ASSUME NEW p \in POs, WriteChild(s, p) PROVE Inv' /\ Fine(s)' /\ Quiet(s)
  <2>1. /\ lock[p] = NoSession /\ lock' = [lock EXCEPT ![p] = s]
        /\ \A r \in Sessions : r # s => sess'[r] = sess[r]
        /\ UNCHANGED <<mix, po, stock, overwritten>>
    BY <1>6 DEF WriteChild, Free
  <2>2. Inv' /\ Fine(s)'
    BY <1>6, WriteChildKeeps
  <2> QED BY <2>1, <2>2, QuietTake
<1>7. ASSUME NEW kind \in Moves, NEW p \in POs, Load(s, kind, p)
      PROVE  Inv' /\ Fine(s)' /\ Quiet(s)
  BY <1>1, <1>7, LoadKeeps DEF Load, Quiet
<1>8. ASSUME NEW drafts \in SUBSET POs, NEW c \in POs, Consolidate(s, drafts, c)
      PROVE  Inv' /\ Fine(s)' /\ Quiet(s)
  <2>1. /\ lock[c] = NoSession /\ lock' = [lock EXCEPT ![c] = s]
        /\ \A r \in Sessions : r # s => sess'[r] = sess[r]
        /\ UNCHANGED <<mix, po, stock, overwritten>>
    BY <1>1, <1>8 DEF Consolidate, Unused, Free
  <2>2. Inv' /\ Fine(s)'
    BY <1>8, ConsolidateKeeps
  <2> QED BY <2>1, <2>2, QuietTake
<1>9. ASSUME NEW c \in POs, Deconsolidate(s, c) PROVE Inv' /\ Fine(s)' /\ Quiet(s)
  BY <1>1, <1>9, DeconsolidateKeeps DEF Deconsolidate, Quiet
<1>10. ASSUME NEW p \in POs, NEW n \in 1 .. po[p].qty, Receive(s, p, n)
       PROVE  Inv' /\ Fine(s)' /\ Quiet(s)
  <2>1. n \in Nat
    BY DEF Sound, Amounts
  <2>2. /\ lock[p] = NoSession /\ lock' = [lock EXCEPT ![p] = s]
        /\ \A r \in Sessions : r # s => sess'[r] = sess[r]
        /\ UNCHANGED <<mix, po, stock, overwritten>>
    BY <1>1, <1>10 DEF Receive, ForUpdate, Free
  <2>3. Inv' /\ Fine(s)'
    BY <1>10, <2>1, ReceiveKeeps
  <2> QED BY <2>2, <2>3, QuietTake
<1> QED BY <1>3, <1>4, <1>5, <1>6, <1>7, <1>8, <1>9, <1>10 DEF Request

LEMMA StepKeeps ==
    ASSUME Inv, Sound, NEW s \in Sessions, Step(s) \/ Request(s) \/ Fail(s)
    PROVE  Inv' /\ Sound' /\ \A p \in POs \ overwritten' : Settles(p)
<1>1. CASE Commit(s)
  BY <1>1, CommitKeeps, CommitSound
<1>2. CASE ReceiveCommit(s)
  BY <1>2, ReceiveCommitKeeps, ReceiptSound
<1>3. CASE ~Commit(s) /\ ~ReceiveCommit(s)
  <2>1. Inv' /\ Fine(s)' /\ Quiet(s)
    BY <1>3, StepQuiet DEF Step
  <2>2. Sound'
    BY <2>1, QuietSound
  <2> QED BY <2>1, <2>2 DEF Quiet, Settles
<1> QED BY <1>1, <1>2, <1>3

LEMMA NextKeeps ==
    ASSUME Inv, Sound, [Next]_vars
    PROVE  Inv' /\ Sound' /\ \A p \in POs \ overwritten' : Settles(p)
<1>1. ASSUME NEW p \in POs, Create(p) PROVE Inv' /\ Sound' /\ \A r \in POs : Settles(r)
  <2>1. po[p].status = "none" /\ \A r \in POs : r # p => po'[r] = po[r]
    BY <1>1 DEF Create, Unused, Inv, Shape
  <2> QED BY <1>1, <2>1, CreateKeeps, CreateSound DEF Settles
<1>2. ASSUME UNCHANGED vars PROVE Inv' /\ Sound' /\ \A p \in POs : Settles(p)
  <2>1. UNCHANGED <<mix, po, lock, sess, stock, overwritten>>
    BY <1>2 DEF vars
  <2>2. Shape'
    BY <2>1 DEF Inv, Shape, Proper, AnyRow, AnySession
  <2>3. \A s \in Sessions : About(s)'
    BY <2>1, Others, Still, PurchasingAssumption
  <2>4. Sound'
    BY <2>1, QuietSound, PurchasingAssumption DEF Quiet
  <2> QED BY <2>1, <2>2, <2>3, <2>4, FamilyStill DEF Inv, Settles
<1> QED BY <1>1, <1>2, StepKeeps DEF Next

PurchasingInv == Inv /\ Sound

\* The invariant, for any number of sessions and orders.
LEMMA PurchasingInvariant == Spec => []PurchasingInv
<1>1. Init => PurchasingInv
  BY InvInit, InitSound DEF PurchasingInv
<1>2. PurchasingInv /\ [Next]_vars => PurchasingInv'
  BY NextKeeps DEF PurchasingInv
<1> QED BY <1>1, <1>2, PTL DEF Spec

-----------------------------------------------------------------------------
(* The properties.                                                         *)

\* Every variable keeps its type, and only an open session holds a row.
THEOREM PurchasingTyped == Spec => []TypeOK
<1>1. ASSUME PurchasingInv PROVE TypeOK
  <2>1. \A p \in POs : po[p] \in Row
    BY <1>1, RowShapes DEF PurchasingInv, Sound, Amounts, AnyRow, Row
  <2>2. ASSUME NEW s \in Sessions PROVE sess[s] \in Session
    <3>1. AnySession(sess[s]) /\ sess[s].new.qty \in Nat /\ sess[s].new.got \in Nat
      BY <1>1, RowShapes DEF PurchasingInv, Sound, Fine, Carries
    <3>2. sess[s].new \in Row
      BY <3>1 DEF AnySession, AnyRow, Row
    <3> QED BY <3>1, <3>2 DEF AnySession, Session
  <2>3. ASSUME NEW p \in POs PROVE lock[p] \in Open \cup {NoSession}
    BY <1>1 DEF PurchasingInv, Inv, Shape, About, Open, At
  <2>4. po \in [POs -> Row] /\ sess \in [Sessions -> Session]
    BY <1>1, <2>1, <2>2 DEF PurchasingInv, Inv, Shape
  <2>5. lock \in [POs -> Open \cup {NoSession}]
    BY <1>1, <2>3 DEF PurchasingInv, Inv, Shape
  <2>6. stock \in [POs -> Nat] /\ overwritten \subseteq POs /\ mix \in Mixes
    BY <1>1 DEF PurchasingInv, Sound, Amounts
  <2> QED BY <2>4, <2>5, <2>6 DEF TypeOK
<1> QED BY <1>1, PurchasingInvariant, PTL

\* What came into stock with an order's number is what its line says, however
\* many receipts overlap, and an order that was deleted had received nothing,
\* unless a request wrote over its status.
THEOREM ReceivedAsRecorded == Spec => []ReceivedMatches
<1>1. ASSUME PurchasingInv PROVE ReceivedMatches
  BY <1>1 DEF PurchasingInv, Sound, Amounts, ReceivedMatches
<1> QED BY <1>1, PurchasingInvariant, PTL

\* Two orders that stand for the same draft do not both receive goods, unless
\* a request wrote over the status of one that stands for it.
THEOREM SuppliedAtMostOnce == Spec => []SuppliedOnce
<1>1. ASSUME PurchasingInv PROVE SuppliedOnce
  <2> SUFFICES ASSUME NEW p \in POs, NEW q \in POs, p # q, stock[p] > 0, stock[q] > 0,
                      NEW d \in po[p].demand \cap po[q].demand
               PROVE  \E r \in overwritten : d \in po[r].demand \cup {r}
    BY DEF SuppliedOnce
  <2>1. Holder(p) /\ Holder(q)
    BY DEF Holder
  <2>2. d \in POs
    BY <1>1, RowShapes DEF PurchasingInv, AnyRow
  <2>3. ~Clean(d)
    BY <1>1, <2>1, <2>2 DEF PurchasingInv, Sound, Apart
  <2> QED BY <2>3 DEF Clean
<1> QED BY <1>1, PurchasingInvariant, PTL

\* The rows of a flush are written in the order of their keys: sessions that
\* wait for each other's rows in a circle include one that deletes an order.
THEOREM DeadlocksNeedDelete == Spec => []DeadlockNeedsDelete
<1>1. ASSUME PurchasingInv PROVE DeadlockNeedsDelete
  <2> SUFFICES ASSUME NEW ss \in SUBSET Sessions, Deadlocked(ss),
                      \A s \in ss : sess[s].kind # "delete"
               PROVE  FALSE
    BY DEF DeadlockNeedsDelete
  <2>1. ASSUME NEW s \in ss
        PROVE  /\ At(s, "write") /\ About(s) /\ Ascends(s)
               /\ sess[s].todo \subseteq POs /\ Wanted(s) = {p \in POs : NextRow(s, p)}
    <3>1. Wanted(s) # {} /\ About(s) /\ Ascends(s) /\ AnySession(sess[s])
      BY <1>1 DEF Deadlocked, PurchasingInv, Inv, Shape, Sound, Fine
    <3>2. ~At(s, "children")
      BY <3>1 DEF About, At
    <3>3. At(s, "write")
      BY <3>1, <3>2 DEF Wanted
    <3>4. Wanted(s) = {p \in POs : NextRow(s, p)}
      BY <3>2, <3>3 DEF Wanted
    <3> QED BY <3>1, <3>3, <3>4 DEF AnySession
  <2> DEFINE W == {p \in POs : \E s \in ss : NextRow(s, p) /\ lock[p] \in ss \ {s}}
  <2>2. W # {}
    <3>1. PICK s \in ss : TRUE
      BY DEF Deadlocked
    <3>2. PICK p \in Wanted(s) : lock[p] \in ss \ {s}
      BY <3>1 DEF Deadlocked
    <3> QED BY <2>1, <3>2
  <2>3. W \in SUBSET Nat /\ IsFiniteSet(W)
    BY PurchasingAssumption, FS_Subset
  <2>4. PICK p \in W : \A r \in W : r <= p
    <3> HIDE DEF W
    <3> QED BY <2>2, <2>3, Greatest
  <2>5. PICK s \in ss : NextRow(s, p) /\ lock[p] \in ss \ {s}
    OBVIOUS
  <2>6. PICK t \in ss : lock[p] = t
    BY <2>5
  <2>7. PICK r \in Wanted(t) : lock[r] \in ss \ {t}
    BY DEF Deadlocked
  <2>8. r \in W /\ r \in sess[t].todo
    BY <2>1, <2>7 DEF NextRow
  <2>9. po[p].status # "none"
    BY <2>1, <2>5 DEF Ascends, NextRow, At
  <2>10. p < r
    BY <2>1, <2>6, <2>8, <2>9 DEF Ascends, At
  <2>11. p \in Nat /\ r \in Nat /\ r <= p
    BY <2>3, <2>4, <2>8
  <2> QED BY <2>10, <2>11
<1> QED BY <1>1, PurchasingInvariant, PTL

\* Whatever overlaps, the consolidations that nobody wrote over and that are
\* still alive hold their originals: an order leaves "received", "canceled" or
\* "consolidated" only as SettledStays allows.
THEOREM SettledForGood == Spec => SettledStays
<1>1. PurchasingInv /\ [Next]_vars =>
        [\A p \in POs \ overwritten' :
           /\ po[p].status \in {"received", "canceled"} => po'[p].status = po[p].status
           /\ po[p].status = "consolidated" => po'[p].status \in {"consolidated", "draft"}]_vars
  BY NextKeeps DEF PurchasingInv, Settles
<1> QED BY <1>1, PurchasingInvariant, PTL DEF Spec, SettledStays

-----------------------------------------------------------------------------
(***************************************************************************)
(* Production.  The other documents that move stock in and out are the     *)
(* production runs: P is Production over variables of its own, with the    *)
(* sessions of Purchasing.                                                 *)
(*                                                                         *)
(* The invariant (RunInv) says of a session what it asked for and which    *)
(* row it writes to the level it holds (Asked, Writes); of a run that no   *)
(* request wrote over, how its totals go with its status (RunAgrees); and  *)
(* of a cancellation that found nothing to release, that the run is no     *)
(* longer released or the books were wrong already (StillReleased).  With  *)
(* these the three properties are inductive: a commit that loses nothing   *)
(* of its run finds it as it was read (FoundRun), and an emission that     *)
(* loses nothing of its level finds what it takes there (FoundLevel).      *)
(***************************************************************************)
CONSTANTS NoRun, NoLevel, Disassembly, Product, Give, Need, Yield, Recipes, Multipliers,
          MaxEmission, MaxEmitted, RunMixes
VARIABLES runMix, runLock, levelLock, runSess

P == INSTANCE Production WITH Mixes <- RunMixes, mix <- runMix, sess <- runSess

\* The library's operators, as Production knows them.
LEMMA RunsFinite ==
  ASSUME P!ProductionAssumption
  PROVE  IsFiniteSet(Runs)
BY DEF P!ProductionAssumption, P!IsFiniteSet, IsFiniteSet

LEMMA SumsAgree == \A f, S : P!SumFunctionOnSet(f, S) = SumFunctionOnSet(f, S)
BY DEF P!SumFunctionOnSet, P!FoldFunctionOnSet, P!MapThenFoldSet,
       SumFunctionOnSet, FoldFunctionOnSet, MapThenFoldSet

\* What holds of a set if it holds of all smaller ones holds of every subset
\* of S.
LEMMA SmallerInduct ==
  ASSUME NEW S, IsFiniteSet(S), NEW G,
         \A s \in SUBSET S :
           (\A t \in SUBSET S : t \subseteq s /\ t # s => t \in G) => s \in G
  PROVE  \A s \in SUBSET S : s \in G
<1> DEFINE B == {s \in SUBSET S : s \notin G}
           R == StrictSubsetOrdering(S)
<1>1. SUFFICES ASSUME B # {} PROVE FALSE
  OBVIOUS
<1>2. PICK s \in B : \A t \in B : <<t, s>> \notin R
  <2>1. IsWellFoundedOn(R, SUBSET S)
    BY FS_StrictSubsetOrderingWellFounded, FS_FiniteSubsetsOfFinite
  <2>2. B \subseteq SUBSET S
    OBVIOUS
  <2> HIDE DEF B, R
  <2> QED BY <1>1, <2>1, <2>2, WFMin
<1>3. PICK t \in SUBSET S : t \subseteq s /\ t # s /\ t \notin G
  BY <1>2
<1>4. <<t, s>> \in R
  BY <1>3 DEF StrictSubsetOrdering
<1> QED BY <1>2, <1>3, <1>4

\* The sum over a subset is the same, whichever set it is computed in.
LEMMA SumWithin ==
  ASSUME NEW S, IsFiniteSet(S), NEW f, NEW T \in SUBSET S
  PROVE  SumFunctionOnSet(f, T) = Adder(f, S)[T]
<1> DEFINE G == {s \in SUBSET T : Adder(f, T)[s] = Adder(f, S)[s]}
<1>1. IsFiniteSet(T)
  BY FS_Subset
<1>2. ASSUME NEW s \in SUBSET T,
             \A t \in SUBSET T : t \subseteq s /\ t # s => t \in G
      PROVE  s \in G
  <2>1. CASE s = {}
    BY <1>1, <2>1, AdderStep
  <2>2. CASE s # {}
    <3>1. Some(s) \in s
      BY <2>2, SomeIn
    <3>2. Adder(f, T)[s \ {Some(s)}] = Adder(f, S)[s \ {Some(s)}]
      BY <1>2, <3>1
    <3>3. Adder(f, T)[s] = f[Some(s)] + Adder(f, T)[s \ {Some(s)}]
      BY <1>1, <2>2, AdderStep
    <3>4. Adder(f, S)[s] = f[Some(s)] + Adder(f, S)[s \ {Some(s)}]
      BY <2>2, AdderStep
    <3> QED BY <3>2, <3>3, <3>4
  <2> QED BY <2>1, <2>2
<1>3. T \in G
  <2> HIDE DEF G
  <2> QED BY <1>1, <1>2, SmallerInduct
<1> QED BY <1>3, SumIsAdded

\* A sum is the value of any one member and the sum of the others.
LEMMA SumSplit ==
  ASSUME NEW S, IsFiniteSet(S), NEW f, \A y \in S : f[y] \in Nat, NEW x \in S
  PROVE  SumFunctionOnSet(f, S) = f[x] + SumFunctionOnSet(f, S \ {x})
<1> DEFINE h == Adder(f, S)
           G == {s \in SUBSET S : h[s] \in Nat /\ \A y \in s : h[s] = f[y] + h[s \ {y}]}
<1>1. /\ h[{}] = 0
      /\ \A s \in SUBSET S : s # {} => h[s] = f[Some(s)] + h[s \ {Some(s)}]
  BY AdderStep
<1> HIDE DEF h
<1>2. ASSUME NEW s \in SUBSET S,
             \A t \in SUBSET S : t \subseteq s /\ t # s => t \in G
      PROVE  s \in G
  <2>1. CASE s = {}
    BY <1>1, <2>1
  <2>2. CASE s # {}
    <3> PICK c \in s : c = Some(s)
      BY <2>2, SomeIn
    <3>1. h[s] = f[c] + h[s \ {c}]
      BY <1>1, <2>2
    <3>2. s \ {c} \in G /\ f[c] \in Nat
      BY <1>2
    <3>3. h[s] \in Nat
      BY <3>1, <3>2
    <3>4. ASSUME NEW y \in s, y # c PROVE h[s] = f[y] + h[s \ {y}]
      <4>1. s \ {y} \in G
        BY <1>2
      <4>2. (s \ {c}) \ {y} = (s \ {y}) \ {c}
        OBVIOUS
      <4>3. h[s \ {c}] = f[y] + h[(s \ {c}) \ {y}]
        BY <3>2, <3>4
      <4>4. h[s \ {y}] = f[c] + h[(s \ {y}) \ {c}]
        BY <3>4, <4>1
      <4>5. PICK n \in Nat : n = h[(s \ {c}) \ {y}]
        BY <1>2
      <4>6. h[s] = f[c] + (f[y] + n) /\ h[s \ {y}] = f[c] + n
        BY <3>1, <4>2, <4>3, <4>4, <4>5
      <4>7. f[y] \in Nat /\ f[c] \in Nat
        OBVIOUS
      <4> HIDE DEF G
      <4> QED BY <4>6, <4>7
    <3> QED BY <3>1, <3>3, <3>4
  <2> QED BY <2>1, <2>2
<1>3. S \in G
  <2> HIDE DEF G
  <2> QED BY <1>2, SmallerInduct
<1>4. h[S] = f[x] + h[S \ {x}]
  BY <1>3
<1>5. SumFunctionOnSet(f, S) = h[S] /\ SumFunctionOnSet(f, S \ {x}) = h[S \ {x}]
  BY SumWithin DEF h
<1> QED BY <1>4, <1>5

\* Functions that agree on a set have the same sum.
LEMMA SumSame ==
  ASSUME NEW S, IsFiniteSet(S), NEW f, NEW g, \A x \in S : f[x] = g[x]
  PROVE  SumFunctionOnSet(f, S) = SumFunctionOnSet(g, S)
<1> DEFINE G == {s \in SUBSET S : Adder(f, S)[s] = Adder(g, S)[s]}
<1>1. ASSUME NEW s \in SUBSET S,
             \A t \in SUBSET S : t \subseteq s /\ t # s => t \in G
      PROVE  s \in G
  <2>1. CASE s = {}
    BY <2>1, AdderStep
  <2>2. CASE s # {}
    <3>1. Some(s) \in s
      BY <2>2, SomeIn
    <3>2. Adder(f, S)[s] = f[Some(s)] + Adder(f, S)[s \ {Some(s)}]
      BY <2>2, AdderStep
    <3>3. Adder(g, S)[s] = g[Some(s)] + Adder(g, S)[s \ {Some(s)}]
      BY <2>2, AdderStep
    <3>4. Adder(f, S)[s \ {Some(s)}] = Adder(g, S)[s \ {Some(s)}]
      BY <1>1, <3>1
    <3> QED BY <3>1, <3>2, <3>3, <3>4
  <2> QED BY <2>1, <2>2
<1>2. S \in G
  <2> HIDE DEF G
  <2> QED BY <1>1, SmallerInduct
<1> QED BY <1>2, SumIsAdded

\* Sums that are nothing, and sums of which one member changes.
LEMMA SumZero ==
  ASSUME NEW S, IsFiniteSet(S), NEW f, \A x \in S : f[x] = 0
  PROVE  SumFunctionOnSet(f, S) = 0
<1> DEFINE G == {s \in SUBSET S : Adder(f, S)[s] = 0}
<1>1. ASSUME NEW s \in SUBSET S,
             \A t \in SUBSET S : t \subseteq s /\ t # s => t \in G
      PROVE  s \in G
  <2>1. CASE s = {}
    BY <2>1, AdderStep
  <2>2. CASE s # {}
    <3>1. Some(s) \in s /\ Adder(f, S)[s] = f[Some(s)] + Adder(f, S)[s \ {Some(s)}]
      BY <2>2, AdderStep, SomeIn
    <3>2. Adder(f, S)[s \ {Some(s)}] = 0 /\ f[Some(s)] = 0
      BY <1>1, <3>1
    <3>3. Adder(f, S)[s] = 0
      BY <3>1, <3>2
    <3> QED BY <3>3
  <2> QED BY <2>1, <2>2
<1>2. S \in G
  <2> HIDE DEF G
  <2> QED BY <1>1, SmallerInduct
<1> QED BY <1>2, SumIsAdded

LEMMA SumChange ==
  ASSUME NEW S, IsFiniteSet(S), NEW x \in S, NEW f, NEW g,
         \A y \in S : f[y] \in Nat /\ g[y] \in Nat, \A y \in S \ {x} : f[y] = g[y]
  PROVE  SumFunctionOnSet(g, S) = SumFunctionOnSet(f, S) - f[x] + g[x]
<1>1. /\ SumFunctionOnSet(f, S) = f[x] + SumFunctionOnSet(f, S \ {x})
      /\ SumFunctionOnSet(g, S) = g[x] + SumFunctionOnSet(g, S \ {x})
  BY SumSplit
<1>2. IsFiniteSet(S \ {x})
  BY FS_Subset
<1>3. SumFunctionOnSet(f, S \ {x}) = SumFunctionOnSet(g, S \ {x})
  BY <1>2, SumSame
<1>4. SumFunctionOnSet(g, S \ {x}) \in Nat
  BY <1>2, SumNat
<1> QED BY <1>1, <1>3, <1>4

\* A sum holds each of its terms.
LEMMA SumHolds ==
  ASSUME NEW S, IsFiniteSet(S), NEW f, \A y \in S : f[y] \in Nat, NEW x \in S
  PROVE  SumFunctionOnSet(f, S) >= f[x]
<1>1. SumFunctionOnSet(f, S) = f[x] + SumFunctionOnSet(f, S \ {x})
  BY SumSplit
<1>2. SumFunctionOnSet(f, S \ {x}) \in Nat
  <2>1. IsFiniteSet(S \ {x})
    BY FS_Subset
  <2> QED BY <2>1, SumNat
<1> QED BY <1>1, <1>2


\* The transaction's part of the invariant: what a session has read, what it was
\* asked for, and the steps its kind goes through.
Asked(s) ==
    LET q == runSess[s] IN
    q.pc # "idle" =>
        /\ q.kind \in P!Kinds /\ q.r \in Runs /\ q.l \in Levels
        /\ q.kind \in {"release", "cancel"} => q.l = Take[q.r]
        /\ q.seen.status \in P!From(q.kind)
        /\ q.pc = "stock" => q.kind \in {"release", "emit"}
        /\ q.pc = "reserve" => q.kind = "release"
        /\ q.pc = "unreserve" => q.kind = "cancel" /\ q.seen.status = "released"
        /\ q.pc = "take" => q.kind = "emit"
        /\ q.pc = "give" => q.kind = "receive"
        /\ q.kind = "emit" /\ q.pc # "stock" => q.snap.onHand >= q.n
        /\ q.kind = "emit" /\ q.r \notin Disassembly => q.n >= 1
        /\ q.kind = "emit" /\ q.r \in Disassembly => q.n = P!Needed(s) /\ q.l = Take[q.r]
        /\ q.kind = "receive" =>
              /\ q.r \in Disassembly => q.all = TRUE /\ q.n = P!Planned(s)
              /\ q.r \notin Disassembly =>
                    q.n >= 1 /\ q.seen.received + q.n <= P!Planned(s)

\* The row a session writes to the level it holds, from that level as it is.
RowFor(s, l) ==
    LET q == runSess[s] row == level[l] taken == P!Upserted(row, q.snap, -q.n) IN
    CASE q.kind = "release" -> P!Reserved(row, P!Needed(s))
      [] q.kind = "cancel" -> P!Unreserved(row, P!Needed(s))
      [] q.kind = "receive" -> P!Upserted(row, row, q.n)
      [] OTHER -> IF P!Releases(s) THEN P!Unreserved(taken, q.n) ELSE taken

\* A session holds the level its kind writes, from the write to its end.
Writes(s) ==
    LET q == runSess[s] IN
    /\ \A r \in Runs : runLock[r] = s => q.pc = "commit"
    /\ q.pc \in {"run", "commit"} /\ q.kind \in {"release", "emit", "receive"} =>
          levelLock[q.l] = s
    /\ \A l \in Levels : levelLock[l] = s =>
          /\ q.pc \in {"run", "commit"}
          /\ q.kind \in {"release", "cancel", "emit", "receive"}
          /\ l = q.l
          /\ q.row = RowFor(s, l)
          /\ q.kind = "release" => level[l].onHand - level[l].reserved >= P!Needed(s)
          /\ q.kind = "cancel" =>
                q.seen.status = "released" /\ P!Releasable(level[l], P!Needed(s))

RowsAgree == \A l \in Levels : ~level[l].there => level[l] = P!NoRow

\* A run that no request wrote over; one that was released takes and yields
\* something.
RunAgrees(r) ==
    r \notin lost =>
       /\ run[r].status \in {"none", "planned", "released", "canceled", "deleted"} =>
             run[r].emitted = 0 /\ run[r].received = 0 /\ first[r] = 0
       /\ run[r].status \in {"in_progress", "completed", "closed"} =>
             run[r].emitted > 0 /\ first[r] > 0
       /\ run[r].status \in {"released", "in_progress", "completed", "closed"} =>
             P!NeedOf(r) >= 1 /\ P!YieldOf(r) >= 1
       /\ r \in Disassembly /\ run[r].status = "in_progress" => run[r].received = 0

PastRelease(r) == run[r].status \notin {"none", "planned", "released"}
Accounted(l) == l \notin lost \cup excess /\ P!Users(l) \cap lost = {}

\* A request that read a released run finds it so, or past its release; and a
\* cancellation finds nothing to release only if the books were wrong already.
StillReleased(s) ==
    LET q == runSess[s] IN
    q.pc # "idle" /\ q.seen.status = "released" /\ q.r \notin lost =>
        /\ run[q.r] = q.seen \/ PastRelease(q.r)
        /\ q.kind = "cancel" /\ q.pc \in {"run", "commit"}
              /\ levelLock[Take[q.r]] # s /\ Accounted(Take[q.r]) => PastRelease(q.r)

RunInv ==
    /\ P!TypeOK /\ RowsAgree
    /\ \A s \in Sessions : Asked(s) /\ Writes(s) /\ StillReleased(s)
    /\ \A r \in Runs : RunAgrees(r)
    /\ P!LedgerMatches /\ P!ReservationsFollowRuns /\ P!YieldsAsPlanned

LEMMA Products ==
  \A a, b \in Nat : a * b \in Nat /\ (a >= 1 /\ b >= 1 => a * b >= 1)
BY SMT

LEMMA RunAmounts ==
  ASSUME P!ProductionAssumption, P!TypeOK
  PROVE  /\ \A r \in Runs : P!NeedOf(r) \in Int /\ P!YieldOf(r) \in Int
         /\ \A s \in Sessions : P!Needed(s) \in Int /\ P!Planned(s) \in Int
         /\ \A s \in Sessions : run[runSess[s].r] = runSess[s].seen =>
               /\ P!NeedOf(runSess[s].r) = P!Needed(s)
               /\ P!YieldOf(runSess[s].r) = P!Planned(s)
<1>1. \A a, b \in Int : a * b \in Int
  OBVIOUS
<1>2. /\ \A r \in Runs : run[r].mult \in Int /\ run[r].need \in Int /\ run[r].yield \in Int
      /\ \A s \in Sessions : /\ runSess[s].seen.mult \in Int /\ runSess[s].seen.need \in Int
                              /\ runSess[s].seen.yield \in Int
  BY DEF P!TypeOK, P!Session, P!Run
<1> QED BY <1>1, <1>2 DEF P!NeedOf, P!YieldOf, P!Needed, P!Planned

\* The rows a session writes are rows.
LEMMA RowTypes ==
  ASSUME NEW row \in P!Row, NEW snap \in P!Row, NEW n \in Int
  PROVE  /\ P!Reserved(row, n) \in P!Row /\ P!Unreserved(row, n) \in P!Row
         /\ P!Upserted(row, snap, n) \in P!Row /\ P!NoRow \in P!Row
<1>1. \A m \in Int : [row EXCEPT !.reserved = m] \in P!Row
  BY DEF P!Row
<1>2. row.reserved + n \in Int /\ row.reserved - n \in Int /\ snap.onHand + n \in Int
  BY DEF P!Row
<1>3. P!Reserved(row, n) \in P!Row /\ P!Unreserved(row, n) \in P!Row
  BY <1>1, <1>2 DEF P!Reserved, P!Unreserved
<1>4. P!AtLeastZero(snap.onHand + n) \in Nat
  BY <1>2 DEF P!AtLeastZero
<1>5. P!NoRow \in P!Row
  BY DEF P!NoRow, P!Row
<1>6. \A m \in Nat : [row EXCEPT !.onHand = m] \in P!Row
  BY DEF P!Row
<1>7. n > 0 => [there |-> TRUE, onHand |-> n, reserved |-> 0] \in P!Row
  BY DEF P!Row
<1> QED BY <1>3, <1>4, <1>5, <1>6, <1>7 DEF P!Upserted

LEMMA OpenAfter ==
  ASSUME P!TypeOK, NEW s \in Sessions, runSess' = [runSess EXCEPT ![s] = runSess'[s]]
  PROVE  P!Open' = IF runSess'[s].pc = "idle" THEN P!Open \ {s} ELSE P!Open \cup {s}
<1>1. \A t \in Sessions \ {s} : runSess'[t] = runSess[t]
  BY DEF P!TypeOK
<1> QED BY <1>1 DEF P!Open, P!At

\* A step that changes nothing but its own session and its own locks keeps what
\* holds of the tables and of the other sessions.
LEMMA SessionStep ==
  ASSUME P!ProductionAssumption, RunInv, NEW s \in Sessions,
         runSess' = [runSess EXCEPT ![s] = runSess'[s]], runSess'[s] \in P!Session,
         runLock' \in [Runs -> P!Open' \cup {NoSession}],
         levelLock' \in [Levels -> P!Open' \cup {NoSession}],
         \A l \in Levels, t \in Sessions \ {s} : levelLock'[l] = t <=> levelLock[l] = t,
         \A r \in Runs, t \in Sessions \ {s} : runLock'[r] = t <=> runLock[r] = t,
         UNCHANGED <<P!Database, P!History>>,
         Asked(s)', Writes(s)', StillReleased(s)'
  PROVE  RunInv'
<1>0. P!TypeOK /\ UNCHANGED <<runMix, run, level, moved, first, lost, excess>>
  BY DEF RunInv, P!Database, P!History
<1>1. P!TypeOK'
  BY <1>0 DEF P!TypeOK
<1>2. \A t \in Sessions \ {s} : runSess'[t] = runSess[t]
  BY <1>0 DEF P!TypeOK
<1>3. RowsAgree' /\ P!LedgerMatches' /\ P!ReservationsFollowRuns' /\ P!YieldsAsPlanned'
  <2>1. RowsAgree' /\ P!LedgerMatches' /\ P!YieldsAsPlanned'
    BY <1>0 DEF RunInv, RowsAgree, P!LedgerMatches, P!YieldsAsPlanned, P!YieldOf
  <2>2. \A l : P!Users(l)' = P!Users(l)
    BY DEF P!Users
  <2>3. \A r : P!Held(r)' = P!Held(r)
    BY <1>0 DEF P!Held, P!NeedOf
  <2>4. P!ReservationsFollowRuns'
    BY <1>0, <2>2, <2>3 DEF RunInv, P!ReservationsFollowRuns
  <2> QED BY <2>1, <2>4
<1>4. ASSUME NEW r \in Runs PROVE RunAgrees(r)'
  BY <1>0 DEF RunInv, RunAgrees, P!NeedOf, P!YieldOf
<1>5. ASSUME NEW t \in Sessions \ {s} PROVE Asked(t)' /\ Writes(t)' /\ StillReleased(t)'
  <2>0. runSess'[t] = runSess[t] /\ Asked(t) /\ Writes(t) /\ StillReleased(t)
    BY <1>2 DEF RunInv
  <2>1. P!Planned(t)' = P!Planned(t) /\ P!Needed(t)' = P!Needed(t)
    BY <2>0 DEF P!Planned, P!Needed
  <2>2. Asked(t)'
    BY <2>0, <2>1 DEF Asked
  <2>3. \A l : RowFor(t, l)' = RowFor(t, l)
    BY <1>0, <2>0, <2>1 DEF RowFor, P!Releases
  <2>4. runSess[t].pc # "idle" =>
           runSess[t].r \in Runs /\ Take[runSess[t].r] \in Levels /\ runSess[t].l \in Levels
    BY <2>0 DEF Asked, P!ProductionAssumption
  <2>5. Writes(t)'
    BY <1>0, <2>0, <2>1, <2>3, <2>4 DEF Writes
  <2>6. StillReleased(t)'
    BY <1>0, <2>0, <2>4 DEF StillReleased, PastRelease, Accounted, P!Users
  <2> QED BY <2>2, <2>5, <2>6
<1> QED BY <1>1, <1>3, <1>4, <1>5 DEF RunInv

\* A session that ends without a commit.
LEMMA EndStep ==
  ASSUME P!ProductionAssumption, RunInv, NEW s \in Sessions, P!End(s), P!Unlocked(s),
         UNCHANGED <<P!Database, P!History>>
  PROVE  RunInv'
<1>0. P!TypeOK
  BY DEF RunInv
<1>1. runSess'[s] = P!Idle /\ runSess' = [runSess EXCEPT ![s] = runSess'[s]]
  BY <1>0 DEF P!End, P!TypeOK
<1>2. runSess'[s] \in P!Session
  <2>1. P!Blank \in P!Run /\ P!NoRow \in P!Row
    BY DEF P!Blank, P!Run, P!NoRow, P!Row, P!Statuses
  <2> QED BY <1>1, <2>1 DEF P!Idle, P!Session
<1>3. P!Open' = P!Open \ {s}
  BY <1>0, <1>1, OpenAfter DEF P!Idle
<1>4. runLock' \in [Runs -> P!Open' \cup {NoSession}]
  BY <1>0, <1>3 DEF P!Unlocked, P!TypeOK
<1>5. levelLock' \in [Levels -> P!Open' \cup {NoSession}]
  BY <1>0, <1>3 DEF P!Unlocked, P!TypeOK
<1>6. s # NoSession /\ \A t \in Sessions : t # NoSession
  BY DEF P!ProductionAssumption
<1>7. \A l \in Levels, t \in Sessions \ {s} : levelLock'[l] = t <=> levelLock[l] = t
  BY <1>6 DEF P!Unlocked
<1>11. \A r \in Runs : runLock'[r] # s /\ \A t \in Sessions \ {s} : runLock'[r] = t <=> runLock[r] = t
  BY <1>6 DEF P!Unlocked
<1>8. Asked(s)' /\ StillReleased(s)'
  BY <1>1 DEF Asked, StillReleased, P!Idle
<1>9. \A l \in Levels : levelLock'[l] # s
  BY <1>6 DEF P!Unlocked
<1>10. Writes(s)'
  BY <1>1, <1>9, <1>11 DEF Writes, P!Idle
<1> QED BY <1>1, <1>2, <1>4, <1>5, <1>7, <1>8, <1>10, <1>11, SessionStep

\* A request that has read its run keeps the invariant if it asks for what its
\* kind may ask, and nothing needs releasing when it cancels at once.
LEMMA RequestStep ==
  ASSUME P!ProductionAssumption, RunInv, NEW s \in Sessions, NEW r \in Runs, P!At(s, "idle"),
         runSess' = [runSess EXCEPT ![s] = runSess'[s]], runSess'[s] \in P!Session,
         runSess'[s].r = r, runSess'[s].seen = run[r],
         runSess'[s].pc \in {"stock", "unreserve", "give", "run"}, Asked(s)',
         runSess'[s].pc = "run" =>
            /\ runSess'[s].kind \in {"cancel", "edit", "delete", "close"}
            /\ runSess'[s].kind = "cancel" => run[r].status # "released",
         UNCHANGED <<P!Database, P!Locks, P!History>>
  PROVE  RunInv'
<1>0. P!TypeOK /\ UNCHANGED <<run, level, runLock, levelLock, lost, excess>>
  BY DEF RunInv, P!Database, P!Locks, P!History
<1>1. P!Open' = P!Open \cup {s} /\ s \notin P!Open
  BY <1>0, OpenAfter DEF P!Open, P!At
<1>2. /\ runLock' \in [Runs -> P!Open' \cup {NoSession}]
      /\ levelLock' \in [Levels -> P!Open' \cup {NoSession}]
  BY <1>0, <1>1 DEF P!TypeOK
<1>3. (\A l \in Levels : levelLock'[l] # s) /\ (\A x \in Runs : runLock'[x] # s)
  <2>1. s # NoSession
    BY DEF P!ProductionAssumption
  <2> QED BY <1>0, <1>1, <2>1 DEF P!TypeOK
<1>4. Writes(s)'
  BY <1>3 DEF Writes
<1>5. StillReleased(s)'
  BY <1>0 DEF StillReleased
<1> QED BY <1>0, <1>2, <1>4, <1>5, SessionStep

LEMMA Requests ==
  ASSUME P!ProductionAssumption, RunInv, NEW s \in Sessions, NEW r \in Runs, P!Request(s, r)
  PROVE  RunInv'
<1>0. P!TypeOK /\ run[r] \in P!Run /\ runSess \in [Sessions -> P!Session]
  BY DEF RunInv, P!TypeOK
<1>1. /\ P!Idle \in P!Session /\ P!Blank \in P!Run /\ P!NoRow \in P!Row
      /\ P!Idle.n = 0 /\ P!Idle.all = FALSE /\ P!Idle.snap = P!NoRow /\ P!Idle.row = P!NoRow
      /\ P!NoRow.onHand = 0
  BY DEF P!Idle, P!Session, P!Blank, P!NoRow, P!Run, P!Row, P!Statuses
<1>2. P!NeedOf(r) \in Int /\ P!YieldOf(r) \in Int /\ Take[r] \in Levels
  BY <1>0, RunAmounts DEF P!ProductionAssumption
<1>3. ASSUME NEW kind \in P!Kinds, NEW l \in Levels, NEW new \in P!Session,
             P!Begin(s, kind, r, l, new),
             new.pc \in {"stock", "unreserve", "give", "run"},
             kind \in {"release", "cancel"} => l = Take[r],
             new.pc = "stock" => kind \in {"release", "emit"},
             new.pc = "unreserve" => kind = "cancel" /\ run[r].status = "released",
             new.pc = "give" => kind = "receive",
             new.pc = "run" => /\ kind \in {"cancel", "edit", "delete", "close"}
                               /\ kind = "cancel" => run[r].status # "released",
             kind = "emit" => new.pc = "stock",
             kind = "emit" /\ r \notin Disassembly => new.n >= 1,
             kind = "emit" /\ r \in Disassembly => new.n = P!NeedOf(r) /\ l = Take[r],
             kind = "receive" => /\ r \in Disassembly => new.all = TRUE /\ new.n = P!YieldOf(r)
                                 /\ r \notin Disassembly =>
                                       new.n >= 1 /\ run[r].received + new.n <= P!YieldOf(r)
      PROVE  RunInv'
  <2>0. /\ P!At(s, "idle") /\ run[r].status \in P!From(kind)
        /\ runSess' = [runSess EXCEPT ![s] =
                          [new EXCEPT !.kind = kind, !.r = r, !.l = l, !.seen = run[r]]]
        /\ UNCHANGED <<P!Database, P!Locks, P!History>>
    BY <1>3 DEF P!Begin
  <2>1. runSess'[s] = [new EXCEPT !.kind = kind, !.r = r, !.l = l, !.seen = run[r]]
    BY <1>0, <2>0
  <2>2. runSess'[s] \in P!Session
    <3>1. PICK seen : seen = run[r] /\ seen \in P!Run
      BY <1>0
    <3>2. [new EXCEPT !.kind = kind, !.r = r, !.l = l, !.seen = seen] \in P!Session
      BY <1>3, <3>1 DEF P!Session
    <3> QED BY <2>1, <3>1, <3>2
  <2>3. runSess' = [runSess EXCEPT ![s] = runSess'[s]]
    BY <1>0, <2>0, <2>1
  <2>4. /\ runSess'[s].pc = new.pc /\ runSess'[s].kind = kind /\ runSess'[s].r = r
        /\ runSess'[s].l = l /\ runSess'[s].n = new.n /\ runSess'[s].all = new.all
        /\ runSess'[s].seen = run[r]
    BY <2>1 DEF P!Session
  <2>5. P!Planned(s)' = P!YieldOf(r) /\ P!Needed(s)' = P!NeedOf(r)
    BY <2>4 DEF P!Planned, P!YieldOf, P!Needed, P!NeedOf
  <2>6. Asked(s)'
    BY <2>0, <2>4, <2>5, <1>0, <1>3 DEF Asked
  <2> QED BY <1>3, <2>0, <2>2, <2>3, <2>4, <2>6, RequestStep
<1>5. ASSUME NEW pc \in {"stock", "unreserve", "give", "run"}, NEW n \in Int
      PROVE  LET new == [P!Idle EXCEPT !.pc = pc, !.n = n] IN
             new \in P!Session /\ new.pc = pc /\ new.n = n
  BY <1>1 DEF P!Idle, P!Session
<1>6. ASSUME NEW pc \in {"stock", "unreserve", "give", "run"}
      PROVE  LET new == [P!Idle EXCEPT !.pc = pc] IN new \in P!Session /\ new.pc = pc
  BY <1>1 DEF P!Idle, P!Session
<1>7. P!Release(s, r) => RunInv'
  <2> DEFINE new == [P!Idle EXCEPT !.pc = "stock"]
  <2>1. new \in P!Session /\ new.pc = "stock" /\ "release" \in P!Kinds
    BY <1>6 DEF P!Kinds
  <2>2. P!Release(s, r) => P!Begin(s, "release", r, Take[r], new)
    BY DEF P!Release
  <2> HIDE DEF new
  <2> QED BY <2>1, <2>2, <1>2, <1>3
<1>8. P!Cancel(s, r) => RunInv'
  <2> DEFINE new == [P!Idle EXCEPT !.pc = IF P!HoldsReservation(r) THEN "unreserve" ELSE "run"]
  <2>1. new \in P!Session /\ new.pc \in {"unreserve", "run"} /\ "cancel" \in P!Kinds
    BY <1>6 DEF P!Kinds
  <2>2. /\ new.pc = "unreserve" => run[r].status = "released"
        /\ new.pc = "run" => run[r].status # "released"
    BY <1>6 DEF P!HoldsReservation
  <2>3. P!Cancel(s, r) => P!Begin(s, "cancel", r, Take[r], new)
    BY DEF P!Cancel
  <2> HIDE DEF new
  <2> QED BY <2>1, <2>2, <2>3, <1>2, <1>3
<1>9. P!Delete(s, r) \/ P!Close(s, r) => RunInv'
  <2> DEFINE new == [P!Idle EXCEPT !.pc = "run"]
  <2>1. new \in P!Session /\ new.pc = "run" /\ "delete" \in P!Kinds /\ "close" \in P!Kinds
    BY <1>6 DEF P!Kinds
  <2>2. /\ P!Delete(s, r) => P!Begin(s, "delete", r, Take[r], new)
        /\ P!Close(s, r) => P!Begin(s, "close", r, Take[r], new)
    BY DEF P!Delete, P!Close
  <2> HIDE DEF new
  <2> QED BY <2>1, <2>2, <1>2, <1>3
<1>10. ASSUME NEW mult \in Multipliers, P!Edit(s, r, mult) PROVE RunInv'
  <2> DEFINE new == [P!Idle EXCEPT !.pc = "run", !.n = mult]
  <2>1. mult \in Int /\ "edit" \in P!Kinds
    BY DEF P!Kinds, P!ProductionAssumption
  <2>2. new \in P!Session /\ new.pc = "run" /\ new.n = mult
    BY <2>1, <1>5
  <2>3. P!Begin(s, "edit", r, Take[r], new)
    BY <1>10 DEF P!Edit
  <2> HIDE DEF new
  <2> QED BY <2>1, <2>2, <2>3, <1>2, <1>3
<1>11. ASSUME NEW l \in Levels, NEW n \in {P!NeedOf(r)} \cup 1 .. MaxEmission, P!Emit(s, r, l, n)
       PROVE  RunInv'
  <2> DEFINE new == [P!Idle EXCEPT !.pc = "stock", !.n = n]
  <2>1. n \in Int /\ "emit" \in P!Kinds
    BY <1>2 DEF P!Kinds, P!ProductionAssumption
  <2>2. new \in P!Session /\ new.pc = "stock" /\ new.n = n
    BY <2>1, <1>5
  <2>3. /\ P!Begin(s, "emit", r, l, new)
        /\ r \in Disassembly => n = P!NeedOf(r) /\ l = Take[r]
        /\ r \notin Disassembly => n >= 1
    BY <1>11 DEF P!Emit, P!ProductionAssumption
  <2> HIDE DEF new
  <2> QED BY <2>1, <2>2, <2>3, <1>3
<1>12. ASSUME NEW l \in Levels, NEW n \in {P!YieldOf(r)} \cup 1 .. P!YieldOf(r), NEW all \in BOOLEAN,
              P!Receive(s, r, l, n, all)
       PROVE  RunInv'
  <2> DEFINE new == [P!Idle EXCEPT !.pc = "give", !.n = n, !.all = all]
  <2>1. n \in Int /\ "receive" \in P!Kinds
    BY <1>2 DEF P!Kinds
  <2>2. new \in P!Session /\ new.pc = "give" /\ new.n = n /\ new.all = all
    BY <2>1, <1>1 DEF P!Idle, P!Session
  <2>3. /\ r \in Disassembly => new.all = TRUE /\ new.n = P!YieldOf(r)
        /\ r \notin Disassembly => new.n >= 1 /\ run[r].received + new.n <= P!YieldOf(r)
    BY <1>0, <1>2, <1>12, <2>1, <2>2 DEF P!Receive, P!Pending, P!Run
  <2>4. P!Begin(s, "receive", r, l, new)
    BY <1>12 DEF P!Receive
  <2> HIDE DEF new
  <2> QED BY <2>1, <2>2, <2>3, <2>4, <1>3
<1> QED BY <1>7, <1>8, <1>9, <1>10, <1>11, <1>12 DEF P!Request

\* What the session steps share.
LEMMA InTransaction ==
  ASSUME P!ProductionAssumption, RunInv, NEW s \in Sessions, runSess[s].pc # "idle"
  PROVE  /\ P!TypeOK /\ Asked(s) /\ Writes(s) /\ StillReleased(s)
         /\ runSess[s] \in P!Session /\ runSess[s].r \in Runs /\ runSess[s].seen \in P!Run
         /\ runSess[s].n \in Int /\ runSess[s].snap \in P!Row /\ runSess[s].row \in P!Row
         /\ Take[runSess[s].r] \in Levels /\ runSess[s].l \in Levels
         /\ level[Take[runSess[s].r]] \in P!Row /\ level[runSess[s].l] \in P!Row
         /\ P!Needed(s) \in Int /\ P!Planned(s) \in Int
         /\ NoSession \notin Sessions /\ runSess \in [Sessions -> P!Session]
<1>1. P!TypeOK /\ Asked(s) /\ Writes(s) /\ StillReleased(s)
  BY DEF RunInv
<1>2. runSess[s] \in P!Session /\ runSess[s].r \in Runs /\ runSess[s].l \in Levels
  BY <1>1 DEF P!TypeOK, Asked
<1>3. Take[runSess[s].r] \in Levels /\ NoSession \notin Sessions
  BY <1>2 DEF P!ProductionAssumption
<1>4. level[Take[runSess[s].r]] \in P!Row /\ level[runSess[s].l] \in P!Row
  BY <1>1, <1>2, <1>3 DEF P!TypeOK
<1>5. P!Needed(s) \in Int /\ P!Planned(s) \in Int
  BY <1>1, RunAmounts
<1>6. /\ runSess[s].seen \in P!Run /\ runSess[s].n \in Int /\ runSess[s].snap \in P!Row
      /\ runSess[s].row \in P!Row
  BY <1>2 DEF P!Session
<1> QED BY <1>1, <1>2, <1>3, <1>4, <1>5, <1>6 DEF P!TypeOK

\* A session that ends holding nothing, or undoes what it holds.
LEMMA EndsUnlocked ==
  ASSUME P!ProductionAssumption, RunInv, NEW s \in Sessions, P!End(s),
         runSess[s].pc \notin {"idle", "run", "commit"}, UNCHANGED <<P!Database, P!Locks, P!History>>
  PROVE  RunInv'
<1>1. P!TypeOK /\ Writes(s)
  BY InTransaction
<1>2. /\ \A l \in Levels : levelLock[l] # s
      /\ \A r \in Runs : runLock[r] # s
  BY <1>1 DEF Writes
<1>3. P!Unlocked(s)
  BY <1>1, <1>2 DEF P!Locks, P!Unlocked, P!TypeOK
<1> QED BY <1>3, EndStep

\* A session that goes on without a lock: what it asked for is as it was.
LEMMA GoesOn ==
  ASSUME P!ProductionAssumption, RunInv, NEW s \in Sessions,
         runSess[s].pc \notin {"idle", "run", "commit"},
         runSess' = [runSess EXCEPT ![s] = runSess'[s]], runSess'[s] \in P!Session,
         runSess'[s].kind = runSess[s].kind, runSess'[s].r = runSess[s].r,
         runSess'[s].l = runSess[s].l,
         runSess'[s].seen = runSess[s].seen, runSess'[s].pc # "idle",
         Asked(s)', UNCHANGED <<P!Database, P!Locks, P!History>>,
         runSess'[s].pc \in {"run", "commit"} =>
             /\ runSess[s].kind = "cancel"
             /\ runSess[s].seen.status = "released" /\ runSess[s].r \notin lost
                  /\ Accounted(Take[runSess[s].r]) => PastRelease(runSess[s].r)
  PROVE  RunInv'
<1>0. /\ P!TypeOK /\ Writes(s) /\ StillReleased(s)
      /\ UNCHANGED <<run, runLock, levelLock, lost, excess>>
  BY InTransaction DEF P!Database, P!Locks, P!History
<1>1. /\ \A l \in Levels : levelLock'[l] # s
      /\ \A r \in Runs : runLock'[r] # s
  BY <1>0 DEF Writes
<1>2. P!Open' = P!Open
  BY <1>0, OpenAfter DEF P!Open, P!At
<1>3. Writes(s)'
  BY <1>1 DEF Writes
<1>4. StillReleased(s)'
  BY <1>0 DEF StillReleased, Accounted, PastRelease, P!Users
<1>5. /\ runLock' \in [Runs -> P!Open' \cup {NoSession}]
      /\ levelLock' \in [Levels -> P!Open' \cup {NoSession}]
  BY <1>0, <1>2 DEF P!TypeOK
<1> QED BY <1>0, <1>3, <1>4, <1>5, SessionStep

LEMMA ReadStockStep ==
  ASSUME P!ProductionAssumption, RunInv, NEW s \in Sessions, P!ReadStock(s)
  PROVE  RunInv'
<1>0. P!At(s, "stock") /\ runSess[s].pc = "stock" /\ UNCHANGED <<P!Database, P!Locks, P!History>>
  BY DEF P!ReadStock, P!At
<1>1. /\ Asked(s) /\ runSess[s] \in P!Session /\ level[runSess[s].l] \in P!Row
      /\ runSess \in [Sessions -> P!Session]
  BY <1>0, InTransaction
<1>2. CASE /\ runSess[s].kind = "release"
           /\ runSess' = [runSess EXCEPT ![s].pc = "reserve"]
  <2>1. runSess'[s] = [runSess[s] EXCEPT !.pc = "reserve"]
    BY <1>1, <1>2
  <2>2. /\ runSess'[s] \in P!Session /\ runSess'[s].kind = "release" /\ runSess'[s].r = runSess[s].r
        /\ runSess'[s].l = runSess[s].l /\ runSess'[s].n = runSess[s].n
        /\ runSess'[s].seen = runSess[s].seen /\ runSess'[s].pc = "reserve"
    BY <1>1, <1>2, <2>1 DEF P!Session
  <2>3. Asked(s)'
    BY <1>0, <1>1, <1>2, <2>2 DEF Asked
  <2>4. runSess' = [runSess EXCEPT ![s] = runSess'[s]]
    BY <1>1, <1>2, <2>1
  <2> QED BY <1>0, <1>2, <2>2, <2>3, <2>4, GoesOn
<1>3. CASE /\ runSess[s].kind = "emit" /\ level[runSess[s].l].onHand >= runSess[s].n
           /\ runSess' = [runSess EXCEPT ![s].pc = "take", ![s].snap = level[runSess[s].l]]
  <2>1. runSess'[s] = [runSess[s] EXCEPT !.pc = "take", !.snap = level[runSess[s].l]]
    BY <1>1, <1>3
  <2>2. /\ runSess'[s] \in P!Session /\ runSess'[s].kind = "emit" /\ runSess'[s].r = runSess[s].r
        /\ runSess'[s].l = runSess[s].l
        /\ runSess'[s].seen = runSess[s].seen /\ runSess'[s].pc = "take" /\ runSess'[s].n = runSess[s].n
        /\ runSess'[s].snap = level[runSess[s].l]
    BY <1>1, <1>3, <2>1 DEF P!Session
  <2>5. P!Needed(s)' = P!Needed(s) /\ P!Planned(s)' = P!Planned(s)
    BY <2>2 DEF P!Needed, P!Planned
  <2>3. Asked(s)'
    BY <1>0, <1>1, <1>3, <2>2, <2>5 DEF Asked
  <2>4. runSess' = [runSess EXCEPT ![s] = runSess'[s]]
    BY <1>1, <1>3, <2>1
  <2> QED BY <1>0, <1>3, <2>2, <2>3, <2>4, GoesOn
<1>4. CASE runSess' = [runSess EXCEPT ![s] = P!Idle]
  BY <1>0, <1>4, EndsUnlocked DEF P!End
<1> QED BY <1>2, <1>3, <1>4 DEF P!ReadStock

LEMMA UnreserveSkips ==
  ASSUME P!ProductionAssumption, RunInv, NEW s \in Sessions, P!At(s, "unreserve"),
         ~P!Releasable(level[runSess[s].l], P!Needed(s)), P!Go(s, "run"),
         UNCHANGED <<P!Database, P!Locks, P!History>>
  PROVE  RunInv'
<1>0. runSess[s].pc = "unreserve"
  BY DEF P!At
<1> DEFINE r == runSess[s].r
           l == Take[r]
<1>1. /\ P!TypeOK /\ Asked(s) /\ StillReleased(s) /\ runSess[s] \in P!Session /\ r \in Runs
      /\ l \in Levels /\ level[l] \in P!Row /\ P!Needed(s) \in Int
      /\ runSess \in [Sessions -> P!Session]
  BY <1>0, InTransaction
<1>2. runSess'[s] = [runSess[s] EXCEPT !.pc = "run"] /\ runSess' = [runSess EXCEPT ![s] = runSess'[s]]
  BY <1>1 DEF P!Go
<1>3. /\ runSess'[s] \in P!Session /\ runSess'[s].kind = runSess[s].kind /\ runSess'[s].r = runSess[s].r
      /\ runSess'[s].l = runSess[s].l
      /\ runSess'[s].seen = runSess[s].seen /\ runSess'[s].pc = "run"
  BY <1>1, <1>2 DEF P!Session
<1>4. runSess[s].kind = "cancel" /\ runSess[s].seen.status = "released" /\ runSess[s].l = l
  BY <1>0, <1>1 DEF Asked
<1>5. Asked(s)'
  BY <1>0, <1>1, <1>3, <1>4 DEF Asked
<1>6. r \notin lost /\ Accounted(l) => PastRelease(r)
  <2>1. SUFFICES ASSUME r \notin lost, Accounted(l), ~PastRelease(r) PROVE FALSE
    OBVIOUS
  <2>2. run[r] = runSess[s].seen
    BY <1>0, <1>1, <1>4, <2>1 DEF StillReleased
  <2>3. RunAgrees(r)
    BY <1>1 DEF RunInv
  <2>4. run[r].status = "released" /\ first[r] = 0 /\ P!NeedOf(r) >= 1
    BY <2>1, <2>2, <2>3, <1>4 DEF RunAgrees
  <2>5. P!NeedOf(r) = P!Needed(s)
    BY <1>1, <2>2, RunAmounts
  <2>6. P!Held(r) = P!Needed(s) /\ P!Needed(s) >= 1
    BY <2>4, <2>5, <1>1 DEF P!Held, P!AtLeastZero
  <2>7. \A x \in Runs : P!Held(x) \in Nat
    <3>1. ASSUME NEW x \in Runs PROVE P!Held(x) \in Nat
      <4>1. P!NeedOf(x) \in Int /\ first[x] \in Int
        BY <1>1, RunAmounts DEF P!TypeOK
      <4> QED BY <4>1 DEF P!Held, P!AtLeastZero
    <3> QED BY <3>1
  <2>8. level[l].reserved = SumFunctionOnSet([x \in P!Users(l) |-> P!Held(x)], P!Users(l))
    BY <1>1, <2>1, SumsAgree DEF RunInv, P!ReservationsFollowRuns, Accounted
  <2>9. r \in P!Users(l) /\ IsFiniteSet(P!Users(l)) /\ P!Users(l) \subseteq Runs
    BY <1>1, FS_Subset, RunsFinite DEF P!Users
  <2>10. level[l].reserved >= P!Held(r)
    BY <2>7, <2>8, <2>9, SumHolds
  <2>11. level[l].there
    <3>1. level[l].reserved >= 1
      BY <1>1, <2>6, <2>10 DEF P!Row
    <3> QED BY <1>1, <3>1 DEF RunInv, RowsAgree, P!NoRow
  <2> QED BY <1>4, <2>6, <2>10, <2>11 DEF P!Releasable
<1> QED BY <1>0, <1>2, <1>3, <1>4, <1>5, <1>6, GoesOn

LEMMA RowForSame ==
  ASSUME NEW s, NEW l, level' = level,
         runSess'[s].kind = runSess[s].kind, runSess'[s].n = runSess[s].n,
         runSess'[s].snap = runSess[s].snap,
         P!Needed(s)' = P!Needed(s), P!Releases(s)' = P!Releases(s)
  PROVE  RowFor(s, l)' = RowFor(s, l)
BY DEF RowFor

\* A session locks the level its kind writes, with the row it is to have.
LEMMA WriteStep ==
  ASSUME P!ProductionAssumption, RunInv, NEW s \in Sessions, NEW l \in Levels,
         runSess[s].pc \in {"reserve", "unreserve", "take", "give"}, P!Free(l),
         levelLock' = [levelLock EXCEPT ![l] = s],
         runSess' = [runSess EXCEPT ![s] = runSess'[s]],
         runSess'[s] = [runSess[s] EXCEPT !.row = RowFor(s, l), !.pc = runSess'[s].pc],
         runSess'[s].pc \in {"run", "commit"}, RowFor(s, l) \in P!Row,
         runSess[s].kind \in {"release", "cancel", "emit", "receive"},
         l = runSess[s].l,
         runSess[s].kind = "release" => level[l].onHand - level[l].reserved >= P!Needed(s),
         runSess[s].kind = "cancel" => P!Releasable(level[l], P!Needed(s)),
         UNCHANGED <<P!Database, runLock, P!History>>
  PROVE  RunInv'
<1>0. /\ UNCHANGED <<run, level, runLock, lost, excess>>
      /\ P!TypeOK /\ Asked(s) /\ Writes(s) /\ StillReleased(s) /\ runSess[s] \in P!Session
      /\ NoSession \notin Sessions
  BY InTransaction DEF P!Database, P!History
<1>1. /\ runSess'[s].kind = runSess[s].kind /\ runSess'[s].r = runSess[s].r /\ runSess'[s].n = runSess[s].n
      /\ runSess'[s].l = runSess[s].l
      /\ runSess'[s].all = runSess[s].all /\ runSess'[s].seen = runSess[s].seen
      /\ runSess'[s].snap = runSess[s].snap /\ runSess'[s].row = RowFor(s, l)
      /\ runSess'[s] \in P!Session
  BY <1>0 DEF P!Session
<1>2. P!Needed(s)' = P!Needed(s) /\ P!Planned(s)' = P!Planned(s) /\ P!Releases(s)' = P!Releases(s)
  BY <1>1 DEF P!Needed, P!Planned, P!Releases
<1>3. RowFor(s, l)' = RowFor(s, l)
  BY <1>0, <1>1, <1>2, RowForSame
<1>4. Asked(s)'
  BY <1>0, <1>1, <1>2 DEF Asked
<1>5. /\ levelLock'[l] = s /\ levelLock[l] = NoSession
      /\ \A k \in Levels \ {l} : levelLock'[k] = levelLock[k] /\ levelLock[k] # s
      /\ \A r \in Runs : runLock[r] # s
  BY <1>0 DEF P!Free, P!TypeOK, Writes
<1>6. runSess[s].kind = "cancel" => runSess[s].seen.status = "released"
  BY <1>0 DEF Asked
<1>7. Writes(s)'
  BY <1>0, <1>1, <1>2, <1>3, <1>5, <1>6 DEF Writes
<1>8. StillReleased(s)'
  <2>1. runSess'[s].kind = "cancel" => levelLock'[Take[runSess'[s].r]] = s
    BY <1>0, <1>1, <1>5 DEF Asked
  <2>2. runSess[s].seen.status = "released" /\ runSess[s].r \notin lost =>
           run[runSess[s].r] = runSess[s].seen \/ PastRelease(runSess[s].r)
    BY <1>0 DEF StillReleased
  <2>3. runSess'[s].seen.status = "released" /\ runSess'[s].r \notin lost' =>
           run'[runSess'[s].r] = runSess'[s].seen \/ PastRelease(runSess[s].r)'
    BY <1>0, <1>1, <2>2 DEF PastRelease
  <2> QED BY <2>1, <2>3 DEF StillReleased
<1>9. P!Open' = P!Open /\ s \in P!Open
  BY <1>0, OpenAfter DEF P!Open, P!At
<1>10. /\ runLock' \in [Runs -> P!Open' \cup {NoSession}]
       /\ levelLock' \in [Levels -> P!Open' \cup {NoSession}]
  BY <1>0, <1>9 DEF P!TypeOK
<1>11. /\ \A k \in Levels, t \in Sessions \ {s} : levelLock'[k] = t <=> levelLock[k] = t
       /\ \A r \in Runs, t \in Sessions \ {s} : runLock'[r] = t <=> runLock[r] = t
  BY <1>0, <1>5
<1> QED BY <1>1, <1>4, <1>7, <1>8, <1>10, <1>11, SessionStep DEF P!Database, P!History

LEMMA RowForType ==
  ASSUME P!ProductionAssumption, RunInv, NEW s \in Sessions, runSess[s].pc # "idle",
         NEW l \in Levels
  PROVE  RowFor(s, l) \in P!Row
<1>1. /\ level[l] \in P!Row /\ P!Needed(s) \in Int /\ runSess[s].n \in Int /\ runSess[s].snap \in P!Row
  BY InTransaction DEF P!TypeOK
<1>2. -runSess[s].n \in Int
  BY <1>1
<1>3. /\ P!Reserved(level[l], P!Needed(s)) \in P!Row
      /\ P!Unreserved(level[l], P!Needed(s)) \in P!Row
      /\ P!Upserted(level[l], level[l], runSess[s].n) \in P!Row
      /\ P!Upserted(level[l], runSess[s].snap, -runSess[s].n) \in P!Row
  BY <1>1, <1>2, RowTypes
<1>4. P!Unreserved(P!Upserted(level[l], runSess[s].snap, -runSess[s].n), runSess[s].n) \in P!Row
  BY <1>1, <1>3, RowTypes
<1> QED BY <1>3, <1>4 DEF RowFor

LEMMA ReserveStep ==
  ASSUME P!ProductionAssumption, RunInv, NEW s \in Sessions, P!Reserve(s)
  PROVE  RunInv'
<1> DEFINE l == runSess[s].l
<1>0. runSess[s].pc = "reserve"
  BY DEF P!Reserve, P!At
<1>1. /\ Asked(s) /\ runSess[s] \in P!Session /\ l \in Levels /\ runSess \in [Sessions -> P!Session]
      /\ runSess[s].kind = "release"
  BY <1>0, InTransaction DEF Asked
<1>2. CASE level[l].onHand - level[l].reserved >= P!Needed(s)
  <2>1. RowFor(s, l) = P!Reserved(level[l], P!Needed(s))
    BY <1>1 DEF RowFor
  <2>2. P!WriteLevel(s, l, RowFor(s, l), "run")
    BY <1>2, <2>1 DEF P!Reserve
  <2>3. /\ runSess'[s] = [runSess[s] EXCEPT !.row = RowFor(s, l), !.pc = runSess'[s].pc]
        /\ runSess' = [runSess EXCEPT ![s] = runSess'[s]] /\ runSess'[s].pc = "run"
    BY <1>1, <2>2 DEF P!WriteLevel, P!Session
  <2>4. /\ P!Free(l) /\ levelLock' = [levelLock EXCEPT ![l] = s]
        /\ UNCHANGED <<P!Database, runLock, P!History>>
    BY <2>2 DEF P!WriteLevel
  <2>5. RowFor(s, l) \in P!Row
    BY <1>0, <1>1, RowForType
  <2> HIDE DEF l
  <2> QED BY <1>0, <1>1, <1>2, <2>3, <2>4, <2>5, WriteStep DEF l
<1>3. CASE ~(level[l].onHand - level[l].reserved >= P!Needed(s))
  BY <1>0, <1>3, EndsUnlocked DEF P!Reserve
<1> QED BY <1>2, <1>3

LEMMA UnreserveStep ==
  ASSUME P!ProductionAssumption, RunInv, NEW s \in Sessions, P!Unreserve(s)
  PROVE  RunInv'
<1> DEFINE l == runSess[s].l
<1>0. P!At(s, "unreserve") /\ runSess[s].pc = "unreserve"
  BY DEF P!Unreserve, P!At
<1>1. /\ Asked(s) /\ runSess[s] \in P!Session /\ l \in Levels /\ runSess \in [Sessions -> P!Session]
      /\ runSess[s].kind = "cancel"
  BY <1>0, InTransaction DEF Asked
<1>2. CASE P!Releasable(level[l], P!Needed(s))
  <2>1. RowFor(s, l) = P!Unreserved(level[l], P!Needed(s))
    BY <1>1 DEF RowFor
  <2>2. P!WriteLevel(s, l, RowFor(s, l), "run")
    BY <1>2, <2>1 DEF P!Unreserve
  <2>3. /\ runSess'[s] = [runSess[s] EXCEPT !.row = RowFor(s, l), !.pc = runSess'[s].pc]
        /\ runSess' = [runSess EXCEPT ![s] = runSess'[s]] /\ runSess'[s].pc = "run"
    BY <1>1, <2>2 DEF P!WriteLevel, P!Session
  <2>4. /\ P!Free(l) /\ levelLock' = [levelLock EXCEPT ![l] = s]
        /\ UNCHANGED <<P!Database, runLock, P!History>>
    BY <2>2 DEF P!WriteLevel
  <2>5. RowFor(s, l) \in P!Row
    BY <1>0, <1>1, RowForType
  <2> HIDE DEF l
  <2> QED BY <1>0, <1>1, <1>2, <2>3, <2>4, <2>5, WriteStep DEF l
<1>3. CASE ~P!Releasable(level[l], P!Needed(s))
  BY <1>0, <1>3, UnreserveSkips DEF P!Unreserve
<1> QED BY <1>2, <1>3

LEMMA TakeStockStep ==
  ASSUME P!ProductionAssumption, RunInv, NEW s \in Sessions, P!TakeStock(s)
  PROVE  RunInv'
<1> DEFINE l == runSess[s].l
<1>0. P!At(s, "take") /\ runSess[s].pc = "take"
  BY DEF P!TakeStock, P!At
<1>1. /\ Asked(s) /\ runSess[s] \in P!Session /\ l \in Levels /\ runSess \in [Sessions -> P!Session]
      /\ runSess[s].kind = "emit"
  BY <1>0, InTransaction DEF Asked
<1>2. PICK pc \in {"run", "commit"} : P!WriteLevel(s, l, RowFor(s, l), pc)
  BY <1>1 DEF P!TakeStock, RowFor
<1>3. /\ runSess'[s] = [runSess[s] EXCEPT !.row = RowFor(s, l), !.pc = runSess'[s].pc]
      /\ runSess' = [runSess EXCEPT ![s] = runSess'[s]] /\ runSess'[s].pc \in {"run", "commit"}
  BY <1>1, <1>2 DEF P!WriteLevel, P!Session
<1>4. /\ P!Free(l) /\ levelLock' = [levelLock EXCEPT ![l] = s]
      /\ UNCHANGED <<P!Database, runLock, P!History>>
  BY <1>2 DEF P!WriteLevel
<1>5. RowFor(s, l) \in P!Row
  BY <1>0, <1>1, RowForType
<1> HIDE DEF l
<1> QED BY <1>0, <1>1, <1>3, <1>4, <1>5, WriteStep DEF l

LEMMA GiveStockStep ==
  ASSUME P!ProductionAssumption, RunInv, NEW s \in Sessions, P!GiveStock(s)
  PROVE  RunInv'
<1> DEFINE l == runSess[s].l
<1>0. P!At(s, "give") /\ runSess[s].pc = "give"
  BY DEF P!GiveStock, P!At
<1>1. /\ Asked(s) /\ runSess[s] \in P!Session /\ l \in Levels /\ runSess \in [Sessions -> P!Session]
      /\ runSess[s].kind = "receive"
  BY <1>0, InTransaction DEF Asked
<1>2. RowFor(s, l) = P!Upserted(level[l], level[l], runSess[s].n)
  BY <1>1 DEF RowFor
<1>3. runSess' = [runSess EXCEPT ![s].pc = "run", ![s].row = RowFor(s, l)]
  BY <1>2 DEF P!GiveStock
<1>4. /\ runSess'[s] = [runSess[s] EXCEPT !.row = RowFor(s, l), !.pc = runSess'[s].pc]
      /\ runSess' = [runSess EXCEPT ![s] = runSess'[s]] /\ runSess'[s].pc = "run"
  BY <1>1, <1>3 DEF P!Session
<1>5. /\ P!Free(l) /\ levelLock' = [levelLock EXCEPT ![l] = s]
      /\ UNCHANGED <<P!Database, runLock, P!History>>
  BY DEF P!GiveStock, P!ForUpdate
<1>6. RowFor(s, l) \in P!Row
  BY <1>0, <1>1, RowForType
<1> HIDE DEF l
<1> QED BY <1>0, <1>1, <1>4, <1>5, <1>6, WriteStep DEF l

LEMMA WriteRunStep ==
  ASSUME P!ProductionAssumption, RunInv, NEW s \in Sessions, P!WriteRun(s)
  PROVE  RunInv'
<1> DEFINE r == runSess[s].r
<1>0. runSess[s].pc = "run" /\ UNCHANGED <<P!Database, P!History>>
  BY DEF P!WriteRun, P!At
<1>1. CASE P!Unlocked(s) /\ P!End(s)
  BY <1>0, <1>1, EndStep
<1>2. CASE runLock[r] = NoSession /\ runLock' = [runLock EXCEPT ![r] = s]
           /\ P!Go(s, "commit") /\ UNCHANGED levelLock
  <2>0. /\ UNCHANGED <<run, level, levelLock, lost, excess>>
        /\ P!TypeOK /\ Asked(s) /\ Writes(s) /\ StillReleased(s) /\ runSess[s] \in P!Session
        /\ NoSession \notin Sessions /\ r \in Runs /\ runSess \in [Sessions -> P!Session]
    BY <1>0, <1>2, InTransaction DEF P!Database, P!History
  <2>1. runSess'[s] = [runSess[s] EXCEPT !.pc = "commit"] /\ runSess' = [runSess EXCEPT ![s] = runSess'[s]]
    BY <1>2, <2>0 DEF P!Go
  <2>2. /\ runSess'[s].kind = runSess[s].kind /\ runSess'[s].r = runSess[s].r /\ runSess'[s].n = runSess[s].n
        /\ runSess'[s].l = runSess[s].l
        /\ runSess'[s].all = runSess[s].all /\ runSess'[s].seen = runSess[s].seen
        /\ runSess'[s].snap = runSess[s].snap /\ runSess'[s].row = runSess[s].row
        /\ runSess'[s] \in P!Session /\ runSess'[s].pc = "commit"
    BY <2>0, <2>1 DEF P!Session
  <2>3. P!Needed(s)' = P!Needed(s) /\ P!Planned(s)' = P!Planned(s) /\ P!Releases(s)' = P!Releases(s)
    BY <2>2 DEF P!Needed, P!Planned, P!Releases
  <2>4. Asked(s)'
    BY <1>0, <2>0, <2>2, <2>3 DEF Asked
  <2>5. \A l : RowFor(s, l)' = RowFor(s, l)
    BY <2>0, <2>2, <2>3 DEF RowFor
  <2>6. Writes(s)'
    BY <1>0, <2>0, <2>2, <2>3, <2>5 DEF Writes
  <2>7. StillReleased(s)'
    BY <1>0, <2>0, <2>2 DEF StillReleased, PastRelease, Accounted, P!Users
  <2>8. P!Open' = P!Open /\ s \in P!Open
    BY <1>0, <2>0, <2>1, <2>2, OpenAfter DEF P!Open, P!At
  <2>9. /\ runLock' \in [Runs -> P!Open' \cup {NoSession}]
        /\ levelLock' \in [Levels -> P!Open' \cup {NoSession}]
        /\ \A x \in Runs, t \in Sessions \ {s} : runLock'[x] = t <=> runLock[x] = t
    BY <1>2, <2>0, <2>8 DEF P!TypeOK
  <2> QED BY <1>0, <2>0, <2>1, <2>2, <2>4, <2>6, <2>7, <2>9, SessionStep
<1> QED BY <1>1, <1>2 DEF P!WriteRun

LEMMA FailStep ==
  ASSUME P!ProductionAssumption, RunInv, NEW s \in Sessions, P!Fail(s)
  PROVE  RunInv'
BY EndStep DEF P!Fail

-----------------------------------------------------------------------------
(* A commit.                                                               *)

\* A session that is about to commit.
Committing(s) ==
  /\ s \in Sessions /\ RunInv /\ runSess[s].pc = "commit" /\ P!Commit(s)

LEMMA UpdatedIs ==
  ASSUME P!ProductionAssumption, RunInv, NEW s \in Sessions, runSess[s].pc = "commit"
  PROVE  LET q == runSess[s] now == run[q.r] new == P!Updated(s) IN
         /\ new \in P!Run
         /\ q.kind = "delete" => new = [P!Blank EXCEPT !.status = "deleted"]
         /\ q.kind # "delete" =>
               /\ new.mult = IF q.kind = "edit" THEN q.n ELSE now.mult
               /\ new.need = now.need /\ new.yield = now.yield
               /\ new.emitted = now.emitted + IF q.kind = "emit" THEN q.n ELSE 0
               /\ new.received = now.received + IF q.kind = "receive" THEN q.n ELSE 0
         /\ q.kind = "release" => new.status = "released"
         /\ q.kind = "cancel" => new.status = "canceled"
         /\ q.kind = "close" => new.status = "closed"
         /\ q.kind = "edit" => new.status = now.status
         /\ q.kind = "emit" =>
               new.status = IF q.seen.status = "released" THEN "in_progress" ELSE now.status
         /\ q.kind = "receive" =>
               /\ new.status \in {now.status, "completed"}
               /\ q.all = TRUE => new.status = "completed"
<1> DEFINE q == runSess[s]
           now == run[q.r]
           new == P!Updated(s)
<1>1. /\ now \in P!Run /\ q.n \in Int /\ q.kind \in P!Kinds
  BY InTransaction DEF P!TypeOK, Asked
<1>2. /\ now.mult \in Int /\ now.emitted \in Int /\ now.received \in Int
      /\ now.status \in P!Statuses /\ now.emitted + q.n \in Int /\ now.received + q.n \in Int
      /\ now.need \in Int /\ now.yield \in Int
      /\ {"released", "canceled", "closed", "in_progress", "completed", "deleted"} \subseteq P!Statuses
  BY <1>1 DEF P!Run, P!Statuses
<1>3. CASE q.kind = "delete"
  <2>1. new = [P!Blank EXCEPT !.status = "deleted"]
    BY <1>3 DEF P!Updated
  <2>2. [P!Blank EXCEPT !.status = "deleted"] \in P!Run
    BY DEF P!Blank, P!Run, P!Statuses
  <2> QED BY <1>3, <2>1, <2>2
<1>4. CASE q.kind = "release"
  <2>1. new = [now EXCEPT !.status = "released"]
    BY <1>4 DEF P!Updated
  <2> QED BY <1>1, <1>2, <1>4, <2>1 DEF P!Run
<1>5. CASE q.kind = "cancel"
  <2>1. new = [now EXCEPT !.status = "canceled"]
    BY <1>5 DEF P!Updated
  <2> QED BY <1>1, <1>2, <1>5, <2>1 DEF P!Run
<1>6. CASE q.kind = "close"
  <2>1. new = [now EXCEPT !.status = "closed"]
    BY <1>6 DEF P!Updated
  <2> QED BY <1>1, <1>2, <1>6, <2>1 DEF P!Run
<1>7. CASE q.kind = "edit"
  <2>1. new = [now EXCEPT !.mult = q.n]
    BY <1>7 DEF P!Updated
  <2> QED BY <1>1, <1>2, <1>7, <2>1 DEF P!Run
<1>8. CASE q.kind = "emit"
  <2> DEFINE st == IF q.seen.status = "released" THEN "in_progress" ELSE now.status
  <2>1. new = [now EXCEPT !.emitted = now.emitted + q.n, !.status = st]
    BY <1>8 DEF P!Updated
  <2>2. st \in P!Statuses
    BY <1>2
  <2> HIDE DEF st, new
  <2>3. /\ new \in P!Run /\ new.need = now.need /\ new.yield = now.yield /\ new.mult = now.mult /\ new.received = now.received
        /\ new.emitted = now.emitted + q.n /\ new.status = st
    BY <1>1, <1>2, <2>1, <2>2 DEF P!Run
  <2> QED BY <1>1, <1>2, <1>8, <2>3 DEF st, new
<1>9. CASE q.kind = "receive"
  <2> DEFINE st == IF q.all \/ q.seen.received + q.n >= P!Planned(s)
                   THEN "completed" ELSE now.status
  <2>1. new = [now EXCEPT !.received = now.received + q.n, !.status = st]
    BY <1>9 DEF P!Updated
  <2>2. /\ st \in {now.status, "completed"}
        /\ q.all = TRUE => st = "completed"
    OBVIOUS
  <2> HIDE DEF st, new
  <2>3. /\ new \in P!Run /\ new.need = now.need /\ new.yield = now.yield /\ new.mult = now.mult /\ new.emitted = now.emitted
        /\ new.received = now.received + q.n /\ new.status = st
    BY <1>1, <1>2, <2>1, <2>2 DEF P!Run
  <2> QED BY <1>1, <1>2, <1>9, <2>2, <2>3 DEF new
<1> QED BY <1>1, <1>3, <1>4, <1>5, <1>6, <1>7, <1>8, <1>9 DEF P!Kinds

\* What a commit does to the tables, and what its session had locked.
LEMMA Committed ==
  ASSUME P!ProductionAssumption, NEW s, Committing(s)
  PROVE  /\ s \in Sessions /\ runSess[s].r \in Runs
         /\ run' = [run EXCEPT ![runSess[s].r] = P!Updated(s)]
         /\ run'[runSess[s].r] = P!Updated(s) /\ P!Updated(s) \in P!Run
         /\ \A x \in Runs \ {runSess[s].r} : run'[x] = run[x]
         /\ \A k \in Levels :
               /\ level'[k] = IF levelLock[k] = s THEN RowFor(s, k) ELSE level[k]
               /\ levelLock[k] = s => RowFor(s, k) \in P!Row
               /\ moved'[k] = moved[k] + P!Movement(s, k)
         /\ level' \in [Levels -> P!Row]
         /\ lost' = lost \cup (IF P!Outdated(s) \/ P!Void(s) THEN {runSess[s].r} ELSE {})
                         \cup (IF P!Overwritten(s) \/ P!Void(s) THEN {runSess[s].l} ELSE {})
         /\ excess' = IF P!Exceeds(s) THEN excess \cup {runSess[s].l, Take[runSess[s].r]} ELSE excess
         /\ P!Unlocked(s) /\ P!End(s) /\ UNCHANGED runMix
<1>1. s \in Sessions /\ runSess[s].pc = "commit" /\ P!Commit(s) /\ RunInv
  BY DEF Committing
<1>2. runSess[s].r \in Runs /\ P!Updated(s) \in P!Run /\ P!TypeOK /\ Writes(s) /\ runSess[s].row \in P!Row
  BY <1>1, InTransaction, UpdatedIs
<1>3. run' = [run EXCEPT ![runSess[s].r] = P!Updated(s)]
  BY <1>1 DEF P!Commit
<1>4. /\ run'[runSess[s].r] = P!Updated(s)
      /\ \A x \in Runs \ {runSess[s].r} : run'[x] = run[x]
  BY <1>2, <1>3 DEF P!TypeOK
<1>5. level' = [k \in Levels |-> IF levelLock[k] = s THEN runSess[s].row ELSE level[k]]
  BY <1>1 DEF P!Commit
<1>6. \A k \in Levels : levelLock[k] = s => runSess[s].row = RowFor(s, k)
  BY <1>2 DEF Writes
<1>7. \A k \in Levels :
         /\ level'[k] = IF levelLock[k] = s THEN RowFor(s, k) ELSE level[k]
         /\ levelLock[k] = s => RowFor(s, k) \in P!Row
  BY <1>2, <1>5, <1>6
<1>8. level' \in [Levels -> P!Row]
  BY <1>2, <1>5 DEF P!TypeOK
<1>9. \A k \in Levels : moved'[k] = moved[k] + P!Movement(s, k)
  BY <1>1 DEF P!Commit
<1> QED BY <1>1, <1>2, <1>3, <1>4, <1>7, <1>8, <1>9 DEF P!Commit

LEMMA CommitType ==
  ASSUME P!ProductionAssumption, NEW s, Committing(s)
  PROVE  P!TypeOK'
<1>1. /\ s \in Sessions /\ runSess[s].pc = "commit" /\ P!Commit(s) /\ RunInv
  BY DEF Committing
<1>2. /\ P!TypeOK /\ runSess[s].r \in Runs /\ runSess[s].n \in Int /\ Take[runSess[s].r] \in Levels /\ runSess[s].l \in Levels
  BY <1>1, InTransaction
<1>3. run' \in [Runs -> P!Run] /\ level' \in [Levels -> P!Row] /\ runMix' \in RunMixes
  BY <1>2, Committed DEF P!TypeOK
<1>4. runSess' = [runSess EXCEPT ![s] = P!Idle] /\ P!Idle \in P!Session
  <2>1. P!Blank \in P!Run /\ P!NoRow \in P!Row
    BY DEF P!Blank, P!Run, P!NoRow, P!Row, P!Statuses
  <2> QED BY <2>1, Committed DEF P!End, P!Idle, P!Session
<1>5. runSess' \in [Sessions -> P!Session] /\ runSess'[s] = P!Idle
  BY <1>1, <1>2, <1>4 DEF P!TypeOK
<1>6. P!Open' = P!Open \ {s}
  BY <1>1, <1>2, <1>4, <1>5, OpenAfter DEF P!Idle
<1>7. /\ runLock' \in [Runs -> P!Open' \cup {NoSession}]
      /\ levelLock' \in [Levels -> P!Open' \cup {NoSession}]
  BY <1>2, <1>6, Committed DEF P!Unlocked, P!TypeOK
<1>8. moved' \in [Levels -> Int]
  <2>1. \A k \in Levels : P!Movement(s, k) \in Int
    BY <1>2 DEF P!Movement
  <2>2. moved' = [k \in Levels |-> moved[k] + P!Movement(s, k)]
    BY <1>1 DEF P!Commit
  <2> QED BY <1>2, <2>1, <2>2 DEF P!TypeOK
<1>9. first' \in [Runs -> Int]
  BY <1>1, <1>2 DEF P!Commit, P!TypeOK
<1>10. lost' \subseteq Runs \cup Levels /\ excess' \subseteq Levels
  BY <1>2, Committed DEF P!TypeOK
<1> QED BY <1>3, <1>5, <1>7, <1>8, <1>9, <1>10 DEF P!TypeOK

LEMMA CommitOthers ==
  ASSUME P!ProductionAssumption, NEW s, Committing(s), NEW t \in Sessions
  PROVE  Asked(t)' /\ Writes(t)' /\ StillReleased(t)'
<1>1. /\ s \in Sessions /\ runSess[s].pc = "commit" /\ P!Commit(s) /\ RunInv
  BY DEF Committing
<1>2. /\ P!TypeOK /\ runSess[s].r \in Runs /\ NoSession \notin Sessions /\ Asked(s)
      /\ RunAgrees(runSess[s].r)
  BY <1>1, InTransaction DEF RunInv
<1>3. runSess' = [runSess EXCEPT ![s] = P!Idle] /\ runSess'[s] = P!Idle
  BY <1>1, <1>2, Committed DEF P!End, P!TypeOK
<1>4. CASE t = s
  <2>1. \A l \in Levels : levelLock'[l] # s
    BY <1>1, <1>2, Committed DEF P!Unlocked
  <2>2. \A r \in Runs : runLock'[r] # s
    BY <1>1, <1>2, Committed DEF P!Unlocked
  <2> QED BY <1>3, <1>4, <2>1, <2>2 DEF Asked, Writes, StillReleased, P!Idle
<1>5. CASE t # s
  <2>1. runSess'[t] = runSess[t] /\ Asked(t) /\ Writes(t) /\ StillReleased(t)
    BY <1>1, <1>2, <1>3, <1>5 DEF P!TypeOK, RunInv
  <2>2. P!Planned(t)' = P!Planned(t) /\ P!Needed(t)' = P!Needed(t) /\ P!Releases(t)' = P!Releases(t)
    BY <2>1 DEF P!Planned, P!Needed, P!Releases
  <2>3. Asked(t)'
    BY <2>1, <2>2 DEF Asked
  <2>4. /\ \A l \in Levels : levelLock'[l] = t <=> levelLock[l] = t
        /\ \A r \in Runs : runLock'[r] = t <=> runLock[r] = t
    BY <1>2, <1>5, Committed DEF P!Unlocked
  <2>5. ASSUME NEW l \in Levels, levelLock[l] = t
        PROVE  level'[l] = level[l] /\ RowFor(t, l)' = RowFor(t, l)
    <3>1. level'[l] = level[l]
      BY <1>5, <2>5, Committed
    <3>2. RowFor(t, l)' = RowFor(t, l)
      BY <2>1, <2>2, <3>1 DEF RowFor
    <3> QED BY <3>1, <3>2
  <2>6. runSess[t].pc # "idle" =>
           runSess[t].r \in Runs /\ Take[runSess[t].r] \in Levels /\ runSess[t].l \in Levels
    BY <2>1 DEF Asked, P!ProductionAssumption
  <2>7. Writes(t)'
    BY <2>1, <2>2, <2>4, <2>5, <2>6 DEF Writes
  <2>8. StillReleased(t)'
    <3>0. PICK r : r = runSess[t].r /\ r = runSess'[t].r
      BY <2>1
    <3> DEFINE seen == runSess[t].seen
               Cancels == runSess[t].kind = "cancel" /\ runSess[t].pc \in {"run", "commit"}
    <3>1. SUFFICES ASSUME runSess[t].pc # "idle", seen.status = "released", r \notin lost'
          PROVE  /\ run'[r] = seen \/ PastRelease(r)'
                 /\ Cancels /\ levelLock'[Take[r]] # t /\ Accounted(Take[r])' => PastRelease(r)'
      BY <2>1, <3>0 DEF StillReleased
    <3>2. r \notin lost /\ r \in Runs /\ lost \subseteq lost' /\ excess \subseteq excess'
      BY <2>6, <3>0, <3>1, Committed
    <3>3. Accounted(Take[r])' => Accounted(Take[r])
      BY <3>2 DEF Accounted, P!Users
    <3>4. /\ run[r] = seen \/ PastRelease(r)
          /\ Cancels /\ levelLock[Take[r]] # t /\ Accounted(Take[r]) => PastRelease(r)
      BY <2>1, <3>0, <3>1, <3>2 DEF StillReleased
    <3>5. CASE r # runSess[s].r
      <4>1. run'[r] = run[r]
        BY <3>2, <3>5, Committed
      <4>2. PastRelease(r)' <=> PastRelease(r)
        BY <4>1 DEF PastRelease
      <4> QED BY <2>4, <2>6, <3>0, <3>1, <3>3, <3>4, <4>1, <4>2
    <3>6. CASE r = runSess[s].r
      <4>1. run[r] = runSess[s].seen
        BY <3>1, <3>6, Committed DEF P!Outdated
      <4>2. run[r].status \notin {"none", "planned"}
        BY <3>1, <3>4 DEF PastRelease
      <4>3. runSess[s].seen.status \in P!From(runSess[s].kind) /\ runSess[s].kind \in P!Kinds
        BY <1>1, <1>2 DEF Asked
      <4>4. /\ runSess[s].kind \in {"cancel", "emit", "receive", "close"}
            /\ runSess[s].kind = "emit" => run[r].status \in {"released", "in_progress"}
            /\ runSess[s].kind = "receive" => run[r].status = "in_progress"
        BY <4>1, <4>2, <4>3 DEF P!From, P!Kinds
      <4>5. P!Updated(s).status \notin {"none", "planned", "released"}
        BY <1>1, <3>6, <4>1, <4>4, UpdatedIs
      <4>6. run'[r] = P!Updated(s)
        BY <3>6, Committed
      <4>7. PastRelease(r)'
        BY <4>5, <4>6 DEF PastRelease
      <4> QED BY <4>7
    <3> QED BY <3>5, <3>6
  <2> QED BY <2>3, <2>7, <2>8
<1> QED BY <1>4, <1>5

\* What a commit that lost nothing of its run found: the run as it was read,
\* which takes and yields something if it moves its stock.
LEMMA FoundRun ==
  ASSUME P!ProductionAssumption, NEW s, Committing(s), runSess[s].r \notin lost'
  PROVE  /\ runSess[s].r \notin lost /\ run[runSess[s].r] = runSess[s].seen
         /\ RunAgrees(runSess[s].r) /\ runSess[s].seen \in P!Run
         /\ run[runSess[s].r].status \in P!From(runSess[s].kind)
         /\ runSess[s].kind \in P!Kinds
         /\ P!NeedOf(runSess[s].r) = P!Needed(s) /\ P!YieldOf(runSess[s].r) = P!Planned(s)
         /\ runSess[s].kind \in {"release", "emit", "receive"} =>
               P!Needed(s) >= 1 /\ P!Planned(s) >= 1
<1>1. s \in Sessions /\ RunInv /\ runSess[s].pc = "commit"
  BY DEF Committing
<1>2. /\ P!TypeOK /\ Asked(s) /\ runSess[s].r \in Runs /\ runSess[s].seen \in P!Run
      /\ RunAgrees(runSess[s].r) /\ P!Needed(s) \in Int /\ P!Planned(s) \in Int
  BY <1>1, InTransaction DEF RunInv
<1>3. /\ runSess[s].r \notin lost /\ run[runSess[s].r] = runSess[s].seen /\ ~P!Void(s)
  BY Committed DEF P!Outdated
<1>4. P!NeedOf(runSess[s].r) = P!Needed(s) /\ P!YieldOf(runSess[s].r) = P!Planned(s)
  BY <1>1, <1>2, <1>3, RunAmounts
<1>5. runSess[s].kind \in {"release", "emit", "receive"} =>
         P!Needed(s) >= 1 /\ P!Planned(s) >= 1
  BY <1>2, <1>3 DEF P!Void
<1> QED BY <1>1, <1>2, <1>3, <1>4, <1>5 DEF Asked

\* A commit that lost nothing of its level moves something there, and an emission
\* found the level as it was read, with what it takes.
LEMMA MovesSomething ==
  ASSUME P!ProductionAssumption, NEW s, Committing(s), runSess[s].kind \in {"emit", "receive"},
         runSess[s].l \notin lost'
  PROVE  runSess[s].n \in Nat /\ runSess[s].n >= 1
<1>1. s \in Sessions /\ RunInv /\ runSess[s].pc = "commit"
  BY DEF Committing
<1>2. Asked(s) /\ runSess[s].n \in Int /\ P!Needed(s) \in Int /\ P!Planned(s) \in Int
  BY <1>1, InTransaction
<1>3. P!Needed(s) >= 1 /\ P!Planned(s) >= 1
  BY <1>2, Committed DEF P!Void
<1>4. runSess[s].n >= 1
  BY <1>1, <1>2, <1>3 DEF Asked
<1> QED BY <1>2, <1>4

LEMMA FoundLevel ==
  ASSUME P!ProductionAssumption, NEW s, Committing(s), runSess[s].kind = "emit",
         runSess[s].l \notin lost'
  PROVE  LET l == runSess[s].l n == runSess[s].n left == level[l].onHand - n
             taken == [level[l] EXCEPT !.onHand = left] IN
         /\ runSess[s].snap = level[l] /\ level[l] \in P!Row /\ n \in Nat /\ n >= 1
         /\ left \in Nat /\ P!AtLeastZero(left) = left
         /\ level[l].there
         /\ level'[l] = IF left = 0 /\ level[l].reserved <= 0
                        THEN IF P!Releases(s) THEN P!Unreserved(P!NoRow, n) ELSE P!NoRow
                        ELSE IF P!Releases(s) THEN P!Unreserved(taken, n) ELSE taken
<1> DEFINE l == runSess[s].l
           n == runSess[s].n
           left == level[l].onHand - n
           taken == [level[l] EXCEPT !.onHand = left]
<1>1. s \in Sessions /\ RunInv /\ runSess[s].pc = "commit"
  BY DEF Committing
<1>2. /\ Asked(s) /\ Writes(s) /\ l \in Levels /\ level[l] \in P!Row /\ RowsAgree
  BY <1>1, InTransaction DEF RunInv
<1>3. level[l] = runSess[s].snap
  BY Committed DEF P!Overwritten
<1>4. n \in Nat /\ n >= 1 /\ runSess[s].snap.onHand >= n
  BY <1>1, <1>2, MovesSomething DEF Asked
<1>5. level[l].onHand \in Nat /\ level[l].onHand >= n
  BY <1>2, <1>3, <1>4 DEF P!Row
<1>6. left \in Nat /\ P!AtLeastZero(left) = left /\ level[l].onHand + (-n) = left
  BY <1>4, <1>5 DEF P!AtLeastZero
<1>7. level[l].there
  BY <1>2, <1>4, <1>5 DEF RowsAgree, P!NoRow
<1>8. levelLock[l] = s
  BY <1>1, <1>2 DEF Writes
<1>9. level'[l] = RowFor(s, l)
  BY <1>2, <1>8, Committed
<1>10. P!Upserted(level[l], level[l], -n) = IF left = 0 /\ level[l].reserved <= 0
                                            THEN P!NoRow ELSE taken
  BY <1>6, <1>7 DEF P!Upserted
<1>11. RowFor(s, l) = IF P!Releases(s) THEN P!Unreserved(P!Upserted(level[l], level[l], -n), n)
                      ELSE P!Upserted(level[l], level[l], -n)
  BY <1>3 DEF RowFor
<1> QED BY <1>2, <1>3, <1>4, <1>6, <1>7, <1>9, <1>10, <1>11

\* What the level a session holds becomes: on hand by what the session moves.
LEMMA WrittenRow ==
  ASSUME P!ProductionAssumption, NEW s, Committing(s), NEW l \in Levels, levelLock[l] = s
  PROVE  /\ runSess[s].kind \in {"release", "cancel", "emit", "receive"}
         /\ l = runSess[s].l
         /\ runSess[s].kind \in {"release", "cancel"} =>
               l = Take[runSess[s].r] /\ level'[l].onHand = level[l].onHand
               /\ level'[l].there = level[l].there
         /\ runSess[s].kind = "release" /\ runSess[s].r \notin lost' =>
               level'[l].reserved = level[l].reserved + P!Needed(s)
         /\ runSess[s].kind = "cancel" =>
               /\ level'[l].reserved = level[l].reserved - P!Needed(s)
               /\ runSess[s].seen.status = "released"
         /\ runSess[s].kind = "receive" /\ l \notin lost' =>
               level'[l].onHand = level[l].onHand + runSess[s].n
               /\ level'[l].reserved = level[l].reserved
<1>1. s \in Sessions /\ RunInv /\ runSess[s].pc = "commit"
  BY DEF Committing
<1>2. /\ Writes(s) /\ Asked(s) /\ level[l] \in P!Row /\ level'[l] = RowFor(s, l) /\ RowsAgree
      /\ P!Needed(s) \in Int
  BY <1>1, InTransaction, Committed DEF P!TypeOK, RunInv
<1>3. /\ runSess[s].kind \in {"release", "cancel", "emit", "receive"}
      /\ l = runSess[s].l
      /\ runSess[s].kind \in {"release", "cancel"} => l = Take[runSess[s].r]
      /\ runSess[s].kind = "release" => level[l].onHand - level[l].reserved >= P!Needed(s)
      /\ runSess[s].kind = "cancel" =>
            P!Releasable(level[l], P!Needed(s)) /\ runSess[s].seen.status = "released"
  BY <1>1, <1>2 DEF Writes, Asked
<1>4. runSess[s].kind = "release" => level'[l] = P!Reserved(level[l], P!Needed(s))
  BY <1>2 DEF RowFor
<1>5. runSess[s].kind = "cancel" => level'[l] = [level[l] EXCEPT !.reserved = @ - P!Needed(s)]
  BY <1>2, <1>3 DEF RowFor, P!Unreserved
<1>6. runSess[s].kind = "receive" => level'[l] = P!Upserted(level[l], level[l], runSess[s].n)
  BY <1>2 DEF RowFor
<1>7. runSess[s].kind = "release" =>
         /\ level'[l].onHand = level[l].onHand /\ level'[l].there = level[l].there
         /\ level[l].there => level'[l].reserved = level[l].reserved + P!Needed(s)
  BY <1>2, <1>4 DEF P!Row, P!Reserved
<1>8. runSess[s].kind = "release" /\ runSess[s].r \notin lost' => level[l].there
  <2>1. SUFFICES ASSUME runSess[s].kind = "release", P!Needed(s) >= 1 PROVE level[l].there
    BY FoundRun
  <2> QED BY <1>2, <1>3, <2>1 DEF RowsAgree, P!NoRow
<1>9. runSess[s].kind = "cancel" =>
         level'[l].onHand = level[l].onHand /\ level'[l].there = level[l].there
         /\ level'[l].reserved = level[l].reserved - P!Needed(s)
  BY <1>2, <1>5 DEF P!Row
<1>10. ASSUME runSess[s].kind = "receive", l \notin lost'
       PROVE  /\ level'[l].onHand = level[l].onHand + runSess[s].n
              /\ level'[l].reserved = level[l].reserved
  <2>1. runSess[s].n \in Nat /\ runSess[s].n >= 1
    BY <1>3, <1>10, MovesSomething
  <2>2. CASE ~level[l].there
    <3>1. level[l].onHand = 0 /\ level[l].reserved = 0
      BY <1>2, <2>2 DEF RowsAgree, P!NoRow
    <3>2. level'[l] = [there |-> TRUE, onHand |-> runSess[s].n, reserved |-> 0]
      BY <1>6, <1>10, <2>1, <2>2 DEF P!Upserted
    <3> QED BY <2>1, <3>1, <3>2
  <2>3. CASE level[l].there
    <3> DEFINE left == level[l].onHand + runSess[s].n
    <3>1. left \in Nat /\ left # 0 /\ P!AtLeastZero(left) = left
      BY <1>2, <2>1 DEF P!Row, P!AtLeastZero
    <3>2. level'[l] = [level[l] EXCEPT !.onHand = left]
      BY <1>6, <1>10, <2>3, <3>1 DEF P!Upserted
    <3> QED BY <1>2, <3>2 DEF P!Row
  <2> QED BY <2>2, <2>3
<1> HIDE DEF Committing
<1> QED BY <1>3, <1>7, <1>8, <1>9, <1>10

LEMMA CommitRows ==
  ASSUME P!ProductionAssumption, NEW s, Committing(s)
  PROVE  RowsAgree'
<1>1. s \in Sessions /\ RunInv /\ runSess[s].pc = "commit"
  BY DEF Committing
<1>2. SUFFICES ASSUME NEW l \in Levels, ~level'[l].there PROVE level'[l] = P!NoRow
  BY DEF RowsAgree
<1>3. /\ level[l] \in P!Row
      /\ ~level[l].there => level[l] = P!NoRow
      /\ P!Needed(s) \in Int /\ runSess[s].snap \in P!Row /\ runSess[s].n \in Int
  BY <1>1, InTransaction DEF RunInv, RowsAgree, P!TypeOK
<1>4. ~P!NoRow.there
  BY DEF P!NoRow
<1>5. ASSUME NEW row \in P!Row, ~row.there => row = P!NoRow, NEW snap \in P!Row, NEW n \in Int
      PROVE  /\ ~P!Reserved(row, n).there => P!Reserved(row, n) = P!NoRow
             /\ ~P!Unreserved(row, n).there => P!Unreserved(row, n) = P!NoRow
             /\ ~P!Upserted(row, snap, n).there => P!Upserted(row, snap, n) = P!NoRow
  <2>1. CASE ~row.there
    BY <1>5, <2>1 DEF P!Reserved, P!Unreserved, P!Releasable, P!Upserted
  <2>2. CASE row.there
    <3>1. P!Reserved(row, n).there
      BY <2>2 DEF P!Reserved, P!Row
    <3>2. P!Unreserved(row, n).there
      BY <2>2 DEF P!Unreserved, P!Row
    <3>3. P!Upserted(row, snap, n) = P!NoRow \/ P!Upserted(row, snap, n).there
      BY <2>2 DEF P!Upserted, P!Row
    <3> QED BY <1>4, <3>1, <3>2, <3>3
  <2> QED BY <2>1, <2>2
<1>6. CASE levelLock[l] # s
  BY <1>2, <1>3, <1>6, Committed
<1>7. CASE levelLock[l] = s
  <2>1. level'[l] = RowFor(s, l)
    BY <1>7, Committed
  <2>2. -runSess[s].n \in Int
    BY <1>3
  <2> DEFINE taken == P!Upserted(level[l], runSess[s].snap, -runSess[s].n)
  <2>3. taken \in P!Row
    BY <1>3, <2>2, RowTypes
  <2>4. ~taken.there => taken = P!NoRow
    BY <1>3, <1>5, <2>2
  <2> HIDE DEF taken
  <2>5. ~P!Unreserved(taken, runSess[s].n).there => P!Unreserved(taken, runSess[s].n) = P!NoRow
    BY <1>3, <1>5, <2>3, <2>4
  <2>6. /\ ~P!Reserved(level[l], P!Needed(s)).there => P!Reserved(level[l], P!Needed(s)) = P!NoRow
        /\ ~P!Unreserved(level[l], P!Needed(s)).there => P!Unreserved(level[l], P!Needed(s)) = P!NoRow
        /\ ~P!Upserted(level[l], level[l], runSess[s].n).there =>
              P!Upserted(level[l], level[l], runSess[s].n) = P!NoRow
    BY <1>3, <1>5
  <2>7. level'[l] \in {P!Reserved(level[l], P!Needed(s)), P!Unreserved(level[l], P!Needed(s)),
                       P!Upserted(level[l], level[l], runSess[s].n), taken,
                       P!Unreserved(taken, runSess[s].n)}
    BY <2>1 DEF RowFor, taken
  <2> QED BY <1>2, <2>4, <2>5, <2>6, <2>7
<1> QED BY <1>6, <1>7

LEMMA CommitLedger ==
  ASSUME P!ProductionAssumption, NEW s, Committing(s)
  PROVE  P!LedgerMatches'
<1>1. s \in Sessions /\ RunInv /\ runSess[s].pc = "commit"
  BY DEF Committing
<1>2. SUFFICES ASSUME NEW l \in Levels, l \notin lost'
               PROVE  level'[l].onHand = InitStock[l] + moved'[l]
  BY DEF P!LedgerMatches
<1>3. /\ level[l].onHand = InitStock[l] + moved[l]
      /\ level[l].onHand \in Nat /\ InitStock[l] \in Int /\ moved[l] \in Int
      /\ runSess[s].n \in Int /\ Writes(s)
      /\ moved'[l] = moved[l] + P!Movement(s, l)
  <2>1. P!TypeOK /\ runSess[s].n \in Int /\ Writes(s) /\ l \notin lost
    BY <1>1, <1>2, InTransaction, Committed
  <2> QED BY <1>1, <1>2, <2>1, Committed
          DEF RunInv, P!LedgerMatches, P!TypeOK, P!Row, P!ProductionAssumption
<1>4. CASE levelLock[l] # s
  <2>1. P!Movement(s, l) = 0
    BY <1>1, <1>3, <1>4 DEF P!Movement, Writes
  <2>2. level'[l] = level[l]
    BY <1>4, Committed
  <2> QED BY <1>3, <2>1, <2>2
<1>5. CASE levelLock[l] = s /\ runSess[s].kind = "emit"
  <2>1. l = runSess[s].l
    BY <1>5, WrittenRow
  <2>2. P!Movement(s, l) = -runSess[s].n
    BY <1>5, <2>1 DEF P!Movement
  <2>3. level'[l].onHand = level[l].onHand - runSess[s].n
    <3> DEFINE left == level[l].onHand - runSess[s].n
               taken == [level[l] EXCEPT !.onHand = left]
    <3>1. /\ level[l] \in P!Row /\ left \in Nat
          /\ \/ level'[l] \in {taken, P!Unreserved(taken, runSess[s].n)}
             \/ left = 0 /\ level'[l] \in {P!NoRow, P!Unreserved(P!NoRow, runSess[s].n)}
      BY <1>2, <1>5, <2>1, FoundLevel
    <3>2. taken.onHand = left /\ P!Unreserved(taken, runSess[s].n).onHand = left
      BY <3>1 DEF P!Row, P!Unreserved
    <3>3. P!NoRow.onHand = 0 /\ P!Unreserved(P!NoRow, runSess[s].n).onHand = 0
      BY DEF P!NoRow, P!Unreserved, P!Releasable
    <3> HIDE DEF left, taken
    <3>4. level'[l].onHand = left
      BY <3>1, <3>2, <3>3
    <3> QED BY <3>4 DEF left
  <2> QED BY <1>3, <2>2, <2>3
<1>6. CASE levelLock[l] = s /\ runSess[s].kind # "emit"
  <2>1. runSess[s].kind \in {"release", "cancel", "receive"} /\ l = runSess[s].l
    BY <1>6, WrittenRow
  <2>2. CASE runSess[s].kind \in {"release", "cancel"}
    <3>1. P!Movement(s, l) = 0
      BY <2>2 DEF P!Movement
    <3>2. level'[l].onHand = level[l].onHand
      BY <1>6, <2>2, WrittenRow
    <3> QED BY <1>3, <3>1, <3>2
  <2>3. CASE runSess[s].kind = "receive"
    <3>1. P!Movement(s, l) = runSess[s].n
      BY <2>1, <2>3 DEF P!Movement
    <3>2. level'[l].onHand = level[l].onHand + runSess[s].n
      BY <1>2, <1>6, <2>3, WrittenRow
    <3> QED BY <1>3, <3>1, <3>2
  <2> QED BY <2>1, <2>2, <2>3
<1> QED BY <1>4, <1>5, <1>6

LEMMA AtLeast ==
  \A a \in Int : /\ P!AtLeastZero(a) \in Nat /\ P!AtLeastZero(a) >= a
                 /\ a >= 0 => P!AtLeastZero(a) = a
BY DEF P!AtLeastZero

LEMMA CommitRuns ==
  ASSUME P!ProductionAssumption, NEW s, Committing(s), NEW x \in Runs
  PROVE  /\ RunAgrees(x)'
         /\ x \notin lost' => run'[x].received <= P!AtLeastZero(P!YieldOf(x)')
<1>0. PICK r : r = runSess[s].r
  OBVIOUS
<1> DEFINE new == P!Updated(s)
<1>1. /\ s \in Sessions /\ RunInv /\ runSess[s].pc = "commit" /\ P!Commit(s)
      /\ lost \subseteq lost'
  BY Committed DEF Committing
<1>2. /\ P!TypeOK /\ Asked(s) /\ r \in Runs /\ runSess[s].n \in Int /\ RunAgrees(r)
      /\ run[r] \in P!Run /\ new \in P!Run
  BY <1>0, <1>1, InTransaction, UpdatedIs DEF RunInv, P!TypeOK
<1>3. first' = IF runSess[s].kind = "emit" /\ first[r] = 0
               THEN [first EXCEPT ![r] = runSess[s].n] ELSE first
  BY <1>0, <1>1 DEF P!Commit
<1>6. /\ runSess[s].kind # "delete" =>
            /\ new.mult = IF runSess[s].kind = "edit" THEN runSess[s].n ELSE run[r].mult
            /\ new.need = run[r].need /\ new.yield = run[r].yield
            /\ new.emitted = run[r].emitted + IF runSess[s].kind = "emit" THEN runSess[s].n ELSE 0
            /\ new.received = run[r].received + IF runSess[s].kind = "receive" THEN runSess[s].n ELSE 0
      /\ runSess[s].kind = "release" => new.status = "released"
      /\ runSess[s].kind = "cancel" => new.status = "canceled"
      /\ runSess[s].kind = "close" => new.status = "closed"
      /\ runSess[s].kind = "edit" => new.status = run[r].status
      /\ runSess[s].kind = "emit" =>
            new.status = IF runSess[s].seen.status = "released" THEN "in_progress" ELSE run[r].status
      /\ runSess[s].kind = "receive" =>
            /\ new.status \in {run[r].status, "completed"}
            /\ runSess[s].all = TRUE => new.status = "completed"
  BY <1>0, <1>1, UpdatedIs
<1>4. CASE x # r
  <2>1. run'[x] = run[x] /\ first'[x] = first[x]
    BY <1>0, <1>2, <1>3, <1>4, Committed DEF P!TypeOK
  <2>2. RunAgrees(x) /\ (x \notin lost => run[x].received <= P!AtLeastZero(P!YieldOf(x)))
    BY <1>1 DEF RunInv, P!YieldsAsPlanned
  <2>3. P!YieldOf(x)' = P!YieldOf(x) /\ P!NeedOf(x)' = P!NeedOf(x)
    BY <2>1 DEF P!YieldOf, P!NeedOf
  <2> QED BY <1>1, <2>1, <2>2, <2>3 DEF RunAgrees
<1>5. CASE x = r
  <2>1. run'[r] = new
    BY <1>0, Committed
  <2>3. SUFFICES ASSUME r \notin lost'
                 PROVE  RunAgrees(r)' /\ new.received <= P!AtLeastZero(P!YieldOf(r)')
    BY <1>5, <2>1 DEF RunAgrees
  <2>4. /\ r \notin lost /\ run[r] = runSess[s].seen /\ run[r].status \in P!From(runSess[s].kind)
        /\ runSess[s].kind \in P!Kinds /\ P!YieldOf(r) = P!Planned(s) /\ P!NeedOf(r) = P!Needed(s)
        /\ runSess[s].kind \in {"release", "emit", "receive"} =>
              P!NeedOf(r) >= 1 /\ P!YieldOf(r) >= 1
    BY <1>0, <2>3, FoundRun
  <2>5. /\ run[r].status \in {"none", "planned", "released", "canceled", "deleted"} =>
              run[r].emitted = 0 /\ run[r].received = 0 /\ first[r] = 0
        /\ run[r].status \in {"in_progress", "completed", "closed"} =>
              run[r].emitted > 0 /\ first[r] > 0
        /\ run[r].status \in {"released", "in_progress", "completed", "closed"} =>
              P!NeedOf(r) >= 1 /\ P!YieldOf(r) >= 1
        /\ r \in Disassembly /\ run[r].status = "in_progress" => run[r].received = 0
    BY <1>2, <2>4 DEF RunAgrees
  <2>6. /\ run[r].emitted \in Int /\ run[r].received \in Int /\ first[r] \in Int
        /\ run[r].received <= P!AtLeastZero(P!YieldOf(r)) /\ P!YieldOf(r) \in Int
    BY <1>1, <1>2, <2>4, RunAmounts DEF RunInv, P!YieldsAsPlanned, P!TypeOK, P!Run
  <2>7. P!YieldOf(r)' = new.yield * new.mult /\ P!NeedOf(r)' = new.need * new.mult
    BY <2>1 DEF P!YieldOf, P!NeedOf
  <2>8. P!YieldOf(r)' \in Int
    <3>1. \A a, b \in Int : a * b \in Int
      OBVIOUS
    <3>2. new.yield \in Int /\ new.mult \in Int
      BY <1>2 DEF P!Run
    <3> QED BY <2>7, <3>1, <3>2
  <2>13. runSess[s].kind \notin {"edit", "delete"} =>
            P!YieldOf(r)' = P!YieldOf(r) /\ P!NeedOf(r)' = P!NeedOf(r)
    <3> HIDE DEF new
    <3> QED BY <1>6, <2>7 DEF P!YieldOf, P!NeedOf
  <2>9. CASE runSess[s].kind = "delete"
    <3>1. /\ new.status = "deleted" /\ new.emitted = 0 /\ new.received = 0
      BY <1>1, <2>9, <1>0, UpdatedIs DEF P!Blank
    <3>2. first'[r] = 0
      BY <1>2, <1>3, <2>4, <2>5, <2>9 DEF P!From
    <3>3. new.received <= P!AtLeastZero(P!YieldOf(r)')
      BY <2>8, <3>1, AtLeast
    <3> QED BY <2>1, <3>1, <3>2, <3>3 DEF RunAgrees
  <2>10. CASE runSess[s].kind \in {"release", "cancel", "edit", "close"}
    <3>1. /\ new.emitted = run[r].emitted /\ new.received = run[r].received
          /\ runSess[s].kind = "release" => new.status = "released"
          /\ runSess[s].kind = "cancel" => new.status = "canceled"
          /\ runSess[s].kind = "close" => new.status = "closed"
          /\ runSess[s].kind = "edit" => new.status = run[r].status
      <4> HIDE DEF new
      <4> QED BY <1>6, <2>6, <2>10
    <3>2. first'[r] = first[r]
      BY <1>3, <2>10
    <3>3. /\ runSess[s].kind \in {"release", "edit"} => run[r].status = "planned"
          /\ runSess[s].kind = "cancel" => run[r].status \in {"planned", "released"}
          /\ runSess[s].kind = "close" => run[r].status = "completed"
      BY <2>4 DEF P!From
    <3>4. new.received <= P!AtLeastZero(P!YieldOf(r)')
      <4>1. CASE runSess[s].kind = "close"
        BY <2>6, <2>13, <3>1, <4>1
      <4>2. CASE runSess[s].kind # "close"
        <5>1. new.received = 0
          BY <2>5, <2>10, <3>1, <3>3, <4>2
        <5> QED BY <2>8, <5>1, AtLeast
      <4> QED BY <4>1, <4>2
    <3>6. new.status \in {"released", "in_progress", "completed", "closed"} =>
             P!NeedOf(r)' >= 1 /\ P!YieldOf(r)' >= 1
      BY <2>4, <2>5, <2>10, <2>13, <3>1, <3>3
    <3>5. RunAgrees(r)'
      BY <2>1, <2>5, <2>10, <3>1, <3>2, <3>3, <3>6 DEF RunAgrees
    <3> QED BY <3>4, <3>5
  <2>11. CASE runSess[s].kind = "emit"
    <3>1. runSess[s].n >= 1 /\ run[r].status \in {"released", "in_progress"}
      BY <1>0, <1>1, <1>2, <2>4, <2>11 DEF Asked, P!From
    <3>2. /\ new.emitted = run[r].emitted + runSess[s].n /\ new.received = run[r].received
          /\ new.status = "in_progress"
      <4> HIDE DEF new
      <4> QED BY <1>6, <2>4, <2>6, <2>11, <3>1
    <3>3. first'[r] = IF first[r] = 0 THEN runSess[s].n ELSE first[r]
      BY <1>2, <1>3, <2>11 DEF P!TypeOK
    <3>4. new.received <= P!AtLeastZero(P!YieldOf(r)')
      BY <2>6, <2>11, <2>13, <3>2
    <3>5. new.emitted > 0 /\ first'[r] > 0
      BY <1>2, <2>5, <2>6, <3>1, <3>2, <3>3
    <3>6. r \in Disassembly => new.received = 0
      BY <2>5, <3>1, <3>2
    <3>7. RunAgrees(r)'
      BY <2>1, <2>4, <2>11, <2>13, <3>2, <3>5, <3>6 DEF RunAgrees
    <3> QED BY <3>4, <3>7
  <2>12. CASE runSess[s].kind = "receive"
    <3>1. /\ run[r].status = "in_progress"
          /\ r \in Disassembly => runSess[s].all = TRUE /\ runSess[s].n = P!YieldOf(r)
          /\ r \notin Disassembly => run[r].received + runSess[s].n <= P!YieldOf(r)
      BY <1>0, <1>1, <1>2, <2>4, <2>12 DEF Asked, P!From
    <3>2. /\ new.received = run[r].received + runSess[s].n /\ new.emitted = run[r].emitted
          /\ new.status \in {"in_progress", "completed"}
          /\ runSess[s].all = TRUE => new.status = "completed"
      <4> HIDE DEF new
      <4> QED BY <1>6, <2>6, <2>12, <3>1
    <3>3. first'[r] = first[r]
      BY <1>3, <2>12
    <3>4. P!YieldOf(r)' = P!YieldOf(r)
      BY <2>12, <2>13
    <3>5. new.received <= P!AtLeastZero(P!YieldOf(r)')
      <4>1. CASE r \in Disassembly
        BY <1>2, <2>5, <2>6, <3>1, <3>2, <3>4, <4>1, AtLeast
      <4>2. CASE r \notin Disassembly
        <5>1. new.received <= P!YieldOf(r) /\ new.received \in Int
          BY <1>2, <2>6, <3>1, <3>2, <4>2
        <5>2. P!AtLeastZero(P!YieldOf(r)) \in Nat /\ P!AtLeastZero(P!YieldOf(r)) >= P!YieldOf(r)
          BY <2>6, AtLeast
        <5> QED BY <2>6, <3>4, <5>1, <5>2
      <4> QED BY <4>1, <4>2
    <3>6. RunAgrees(r)'
      BY <2>1, <2>4, <2>5, <2>12, <2>13, <3>1, <3>2, <3>3 DEF RunAgrees
    <3> QED BY <3>5, <3>6
  <2> QED BY <2>4, <2>9, <2>10, <2>11, <2>12 DEF P!Kinds
<1> QED BY <1>4, <1>5

\* An emission that releases nothing leaves what is reserved as it was.
LEMMA EmptiedRow ==
  ASSUME P!ProductionAssumption, NEW s, Committing(s), runSess[s].kind = "emit",
         runSess[s].l \notin lost', ~P!Releases(s), level[runSess[s].l].reserved >= 0
  PROVE  level'[runSess[s].l].reserved = level[runSess[s].l].reserved
<1>1. PICK l : l = runSess[s].l
  OBVIOUS
<1>2. PICK left : left = level[l].onHand - runSess[s].n
  OBVIOUS
<1> DEFINE taken == [level[l] EXCEPT !.onHand = left]
<1>3. /\ level[l] \in P!Row /\ left \in Nat
      /\ level'[l] = IF left = 0 /\ level[l].reserved <= 0 THEN P!NoRow ELSE taken
  BY <1>1, <1>2, FoundLevel
<1>4. taken.reserved = level[l].reserved /\ P!NoRow.reserved = 0 /\ level[l].reserved \in Int
  BY <1>3 DEF P!Row, P!NoRow
<1> HIDE DEF taken
<1> QED BY <1>1, <1>3, <1>4

\* A commit reserves of the material of its run what the run then holds, less
\* what it held.
LEMMA CommitHolds ==
  ASSUME P!ProductionAssumption, NEW s, Committing(s), NEW r, r = runSess[s].r, NEW l, l = Take[r],
         r \notin lost', l \notin lost', l \notin excess',
         Accounted(l), level[l].reserved >= P!Held(r)
  PROVE  /\ P!Held(r)' \in Nat
         /\ level'[l].reserved = level[l].reserved - P!Held(r) + P!Held(r)'
<1> DEFINE new == P!Updated(s)
<1>2. /\ s \in Sessions /\ RunInv /\ runSess[s].pc = "commit" /\ P!Commit(s)
  BY DEF Committing
<1>3. /\ P!TypeOK /\ Asked(s) /\ Writes(s) /\ StillReleased(s) /\ r \in Runs /\ l \in Levels
      /\ runSess[s].n \in Int /\ run[r] \in P!Run /\ new \in P!Run /\ P!Needed(s) \in Int
      /\ level[l] \in P!Row /\ first[r] \in Int
  BY <1>2, InTransaction, UpdatedIs DEF P!TypeOK
<1>4. /\ r \notin lost /\ run[r] = runSess[s].seen /\ run[r].status \in P!From(runSess[s].kind)
      /\ runSess[s].kind \in P!Kinds /\ P!NeedOf(r) = P!Needed(s) /\ RunAgrees(r)
      /\ runSess[s].kind \in {"release", "emit", "receive"} => P!Needed(s) >= 1
  BY FoundRun
<1>5. run'[r] = new
  BY Committed
<1>6. first' = IF runSess[s].kind = "emit" /\ first[r] = 0
               THEN [first EXCEPT ![r] = runSess[s].n] ELSE first
  BY <1>2 DEF P!Commit
<1>7. /\ P!Held(r) = IF run[r].status \in {"none", "planned", "canceled", "deleted"} THEN 0
                   ELSE P!AtLeastZero(P!Needed(s) - first[r])
      /\ P!Held(r)' = IF new.status \in {"none", "planned", "canceled", "deleted"} THEN 0
                    ELSE P!AtLeastZero(P!NeedOf(r)' - first'[r])
  BY <1>4, <1>5 DEF P!Held
<1>11. runSess[s].kind \notin {"edit", "delete"} => P!NeedOf(r)' = P!Needed(s)
  <2>1. runSess[s].kind \notin {"edit", "delete"} => new.mult = run[r].mult /\ new.need = run[r].need
    BY <1>2, UpdatedIs
  <2> HIDE DEF new
  <2> QED BY <1>4, <1>5, <2>1 DEF P!NeedOf
<1>8. /\ run[r].status \in {"planned", "released"} => first[r] = 0
      /\ run[r].status = "released" => P!Needed(s) >= 1
  BY <1>4 DEF RunAgrees
<1>9. level[l].reserved \in Int /\ level[l].onHand \in Nat /\ level[l].reserved >= P!Held(r)
  BY <1>3 DEF P!Row
<1>10. levelLock[l] # s => level'[l] = level[l]
  BY <1>3, Committed
<1>12. CASE runSess[s].kind = "release"
  <2>1. run[r].status = "planned" /\ levelLock[l] = s
    BY <1>2, <1>3, <1>4, <1>12 DEF P!From, Writes, Asked
  <2>2. new.status = "released"
    BY <1>2, <1>12, UpdatedIs
  <2>3. level'[l].reserved = level[l].reserved + P!Needed(s)
    BY <1>3, <1>12, <2>1, WrittenRow
  <2>4. first'[r] = 0
    BY <1>6, <1>8, <1>12, <2>1
  <2>5. P!Held(r) = 0 /\ P!Held(r)' = P!Needed(s)
    BY <1>3, <1>4, <1>7, <1>11, <1>12, <2>1, <2>2, <2>4 DEF P!AtLeastZero
  <2> QED BY <1>3, <1>4, <1>9, <1>12, <2>3, <2>5
<1>13. CASE runSess[s].kind = "cancel"
  <2>1. run[r].status \in {"planned", "released"}
    BY <1>4, <1>13 DEF P!From
  <2>2. new.status = "canceled"
    BY <1>2, <1>13, UpdatedIs
  <2>3. P!Held(r)' = 0
    BY <1>7, <2>2
  <2>4. CASE levelLock[l] = s
    <3>1. /\ level'[l].reserved = level[l].reserved - P!Needed(s)
          /\ runSess[s].seen.status = "released"
      BY <1>3, <1>13, <2>4, WrittenRow
    <3>2. P!Held(r) = P!Needed(s)
      BY <1>3, <1>4, <1>7, <1>8, <3>1 DEF P!AtLeastZero
    <3> QED BY <1>3, <1>9, <2>3, <3>1, <3>2
  <2>5. CASE levelLock[l] # s
    <3>1. run[r].status # "released"
      <4>1. SUFFICES ASSUME run[r].status = "released" PROVE FALSE
        OBVIOUS
      <4>2. PastRelease(r)
        BY <1>2, <1>3, <1>4, <1>13, <2>5, <4>1 DEF StillReleased
      <4> QED BY <4>1, <4>2 DEF PastRelease
    <3>2. P!Held(r) = 0
      BY <1>7, <2>1, <3>1
    <3> QED BY <1>9, <1>10, <2>3, <2>5, <3>2
  <2> QED BY <2>4, <2>5
<1>14. CASE runSess[s].kind \in {"edit", "delete"}
  <2>1. run[r].status = "planned" /\ levelLock[l] # s
    BY <1>3, <1>4, <1>14 DEF P!From, Writes
  <2>2. new.status \in {"planned", "deleted"}
    BY <1>2, <1>14, <2>1, UpdatedIs DEF P!Blank
  <2>3. P!Held(r) = 0 /\ P!Held(r)' = 0
    BY <1>7, <2>1, <2>2
  <2> QED BY <1>9, <1>10, <2>1, <2>3
<1>15. CASE runSess[s].kind \in {"close", "receive"}
  <2>1. run[r].status \in {"completed", "in_progress"}
    BY <1>4, <1>15 DEF P!From
  <2>2. new.status \in {"closed", "in_progress", "completed"}
    BY <1>2, <1>15, <2>1, UpdatedIs, <1>4 DEF P!From
  <2>3. first'[r] = first[r]
    BY <1>6, <1>15
  <2>4. P!Held(r)' = P!Held(r) /\ P!Held(r) \in Nat
    BY <1>3, <1>7, <1>11, <1>15, <2>1, <2>2, <2>3 DEF P!AtLeastZero
  <2>5. level'[l].reserved = level[l].reserved
    <3>1. CASE levelLock[l] = s
      BY <1>3, <1>15, <3>1, WrittenRow
    <3>2. CASE levelLock[l] # s
      BY <1>10, <3>2
    <3> QED BY <3>1, <3>2
  <2> QED BY <1>9, <2>4, <2>5
<1>16. CASE runSess[s].kind = "emit"
  <2>1. /\ run[r].status \in {"released", "in_progress"}
        /\ r \in Disassembly => runSess[s].n = P!Needed(s)
        /\ P!Needed(s) >= 1 /\ runSess[s].n >= 1
    BY <1>2, <1>3, <1>4, <1>16 DEF P!From, Asked
  <2>2. new.status = "in_progress"
    BY <1>2, <1>4, <1>16, <2>1, UpdatedIs
  <2>3. /\ run[r].emitted + runSess[s].n <= P!Needed(s) /\ run[r].emitted \in Int
        /\ runSess[s].l = l \/ ~P!Releases(s)
    <3>1. ~P!Exceeds(s)
      BY Committed
    <3>2. run[r].emitted \in Int
      BY <1>3 DEF P!Run
    <3> QED BY <1>3, <1>4, <1>16, <3>1, <3>2 DEF P!Exceeds
  <2>4. PICK n : n = runSess[s].n
    OBVIOUS
  <2>7. CASE run[r].status = "released"
    <3>1. run[r].emitted = 0 /\ first[r] = 0 /\ P!Releases(s) /\ runSess[s].l = l
      BY <1>4, <2>3, <2>7 DEF RunAgrees, P!Releases
    <3> DEFINE left == level[l].onHand - n
               taken == [level[l] EXCEPT !.onHand = left]
    <3>2. n <= P!Needed(s) /\ n >= 1 /\ n \in Int
      BY <1>3, <2>1, <2>3, <2>4, <3>1
    <3>3. first'[r] = n
      BY <1>3, <1>6, <1>16, <2>4, <3>1 DEF P!TypeOK
    <3>4. P!Held(r) = P!Needed(s)
      BY <1>3, <1>7, <2>1, <2>7, <3>1 DEF P!AtLeastZero
    <3>5. P!Held(r)' = P!Needed(s) - n
      BY <1>3, <1>7, <1>11, <1>16, <2>2, <3>2, <3>3 DEF P!AtLeastZero
    <3>6. level[l].reserved >= n /\ level[l].reserved > 0
      BY <1>3, <1>9, <3>2, <3>4
    <3>9. /\ left \in Nat /\ level[l].there
          /\ level'[l] = IF left = 0 /\ level[l].reserved <= 0
                         THEN P!Unreserved(P!NoRow, n) ELSE P!Unreserved(taken, n)
      BY <1>16, <2>4, <3>1, FoundLevel
    <3>10. taken \in P!Row /\ taken.reserved = level[l].reserved /\ taken.there
      BY <1>3, <3>9 DEF P!Row
    <3>11. level'[l] = P!Unreserved(taken, n)
      BY <1>9, <3>6, <3>9
    <3> HIDE DEF taken, left
    <3>7. level'[l] = [taken EXCEPT !.reserved = @ - n]
      BY <3>6, <3>10, <3>11 DEF P!Unreserved, P!Releasable
    <3>8. level'[l].reserved = level[l].reserved - n
      BY <3>7, <3>10 DEF P!Row
    <3> QED BY <1>3, <1>9, <3>2, <3>4, <3>5, <3>8
  <2>8. CASE run[r].status = "in_progress"
    <3>1. run[r].emitted > 0 /\ first[r] > 0
      BY <1>3, <1>4, <2>8 DEF RunAgrees, P!Run
    <3>2. ~P!Releases(s)
      <4>1. r \notin Disassembly
        BY <1>3, <2>1, <2>3, <3>1
      <4> QED BY <1>4, <2>8, <3>1, <4>1 DEF P!Releases
    <3>3. first'[r] = first[r]
      BY <1>3, <1>6, <3>1
    <3>4. P!Held(r)' = P!Held(r) /\ P!Held(r) \in Nat
      BY <1>3, <1>7, <1>11, <1>16, <2>2, <2>8, <3>3 DEF P!AtLeastZero
    <3>5. level'[l].reserved = level[l].reserved
      <4>1. CASE runSess[s].l # l
        <5>1. levelLock[l] # s
          BY <1>3, <4>1 DEF Writes
        <5> QED BY <1>10, <5>1
      <4>2. CASE runSess[s].l = l
        <5>1. level[l].reserved >= 0
          BY <1>9, <3>4
        <5> QED BY <1>9, <1>16, <3>2, <4>2, <5>1, EmptiedRow
      <4> QED BY <4>1, <4>2
    <3> QED BY <1>9, <3>4, <3>5
  <2> QED BY <2>1, <2>7, <2>8
<1> QED BY <1>4, <1>12, <1>13, <1>14, <1>15, <1>16 DEF P!Kinds

LEMMA HeldType ==
  ASSUME P!ProductionAssumption, P!TypeOK
  PROVE  \A r \in Runs : P!Held(r) \in Nat
<1>1. ASSUME NEW r \in Runs PROVE P!Held(r) \in Nat
  <2>1. P!NeedOf(r) \in Int /\ first[r] \in Int
    BY RunAmounts DEF P!TypeOK
  <2> QED BY <2>1 DEF P!Held, P!AtLeastZero
<1> QED BY <1>1

LEMMA CommitReserved ==
  ASSUME P!ProductionAssumption, NEW s, Committing(s)
  PROVE  P!ReservationsFollowRuns'
<1>0. PICK r : r = runSess[s].r
  OBVIOUS
<1>1. /\ s \in Sessions /\ RunInv /\ runSess[s].pc = "commit" /\ P!Commit(s)
  BY DEF Committing
<1>2. /\ P!TypeOK /\ r \in Runs /\ lost \subseteq lost' /\ excess \subseteq excess'
      /\ P!ReservationsFollowRuns
  BY <1>0, <1>1, InTransaction, Committed DEF RunInv
<1>3. SUFFICES ASSUME NEW l \in Levels, l \notin lost', l \notin excess',
                      P!Users(l) \cap lost' = {}
      PROVE  level'[l].reserved =
                SumFunctionOnSet([x \in P!Users(l) |-> P!Held(x)'], P!Users(l))
  BY SumsAgree DEF P!ReservationsFollowRuns, P!Users
<1>4. /\ P!Users(l) \subseteq Runs /\ IsFiniteSet(P!Users(l))
  BY FS_Subset, RunsFinite DEF P!Users
<1>5. Accounted(l)
  BY <1>2, <1>3 DEF Accounted
<1> DEFINE f == [x \in P!Users(l) |-> P!Held(x)]
           g == [x \in P!Users(l) |-> P!Held(x)']
<1>6. level[l].reserved = SumFunctionOnSet(f, P!Users(l))
  BY <1>2, <1>5, SumsAgree DEF P!ReservationsFollowRuns, Accounted
<1>7. \A x \in P!Users(l) : f[x] \in Nat
  BY <1>2, <1>4, HeldType
<1>8. \A x \in P!Users(l) \ {r} : g[x] = f[x]
  <2>1. ASSUME NEW x \in P!Users(l), x # r PROVE P!Held(x)' = P!Held(x)
    <3>1. run'[x] = run[x]
      BY <1>0, <1>4, <2>1, Committed
    <3>2. first'[x] = first[x]
      BY <1>0, <1>1, <1>2, <1>4, <2>1 DEF P!Commit, P!TypeOK
    <3> QED BY <3>1, <3>2 DEF P!Held, P!NeedOf
  <2> QED BY <2>1
<1>9. CASE r \in P!Users(l)
  <2>1. l = Take[r] /\ r \notin lost'
    BY <1>3, <1>9 DEF P!Users
  <2>2. level[l].reserved >= P!Held(r)
    <3> HIDE DEF f
    <3>1. SumFunctionOnSet(f, P!Users(l)) >= f[r]
      BY <1>4, <1>7, <1>9, SumHolds
    <3>2. f[r] = P!Held(r)
      BY <1>9 DEF f
    <3> QED BY <1>6, <3>1, <3>2
  <2>3. /\ P!Held(r)' \in Nat
        /\ level'[l].reserved = level[l].reserved - P!Held(r) + P!Held(r)'
    BY <1>0, <1>3, <1>5, <2>1, <2>2, CommitHolds
  <2>4. P!Held(r)' = g[r] /\ P!Held(r) = f[r]
    BY <1>9
  <2>5. \A x \in P!Users(l) : f[x] \in Nat /\ g[x] \in Nat
    BY <1>7, <1>8, <2>3, <2>4
  <2> HIDE DEF f, g
  <2>6. SumFunctionOnSet(g, P!Users(l)) = SumFunctionOnSet(f, P!Users(l)) - f[r] + g[r]
    BY <1>4, <1>8, <1>9, <2>5, SumChange
  <2>7. level'[l].reserved = SumFunctionOnSet(g, P!Users(l))
    BY <1>6, <2>3, <2>4, <2>6
  <2> QED BY <2>7 DEF g
<1>10. CASE r \notin P!Users(l)
  <2>1. \A x \in P!Users(l) : g[x] = f[x]
    BY <1>8, <1>10
  <2>2. level'[l].reserved = level[l].reserved
    <3>1. CASE levelLock[l] # s
      BY <3>1, Committed
    <3>2. CASE levelLock[l] = s
      <4>1. runSess[s].kind \in {"emit", "receive"} /\ runSess[s].l = l
        BY <1>0, <1>2, <1>10, <3>2, WrittenRow DEF P!Users
      <4>2. CASE runSess[s].kind = "receive"
        BY <1>3, <3>2, <4>2, WrittenRow
      <4>3. CASE runSess[s].kind = "emit"
        <5>1. ~P!Exceeds(s) /\ Take[r] # l
          BY <1>0, <1>2, <1>3, <1>10, <4>1, Committed DEF P!Users
        <5>2. ~P!Releases(s)
          BY <1>0, <4>1, <4>3, <5>1 DEF P!Exceeds
        <5>3. level[l].reserved >= 0
          <6> HIDE DEF f
          <6> QED BY <1>4, <1>6, <1>7, SumNat
        <5> QED BY <1>3, <4>1, <4>3, <5>2, <5>3, EmptiedRow
      <4> QED BY <4>1, <4>2, <4>3
    <3> QED BY <3>1, <3>2
  <2> HIDE DEF f, g
  <2>3. SumFunctionOnSet(f, P!Users(l)) = SumFunctionOnSet(g, P!Users(l))
    BY <1>4, <2>1, SumSame
  <2>4. level'[l].reserved = SumFunctionOnSet(g, P!Users(l))
    BY <1>6, <2>2, <2>3
  <2> QED BY <2>4 DEF g
<1> QED BY <1>9, <1>10

LEMMA CommitStep ==
  ASSUME P!ProductionAssumption, RunInv, NEW s \in Sessions, P!Commit(s)
  PROVE  RunInv'
<1>1. Committing(s)
  BY DEF Committing, P!Commit, P!At
<1>2. \A x \in Runs : RunAgrees(x)' /\ (x \notin lost' => run'[x].received <= P!AtLeastZero(P!YieldOf(x)'))
  BY <1>1, CommitRuns
<1>3. P!YieldsAsPlanned'
  BY <1>2 DEF P!YieldsAsPlanned
<1>4. \A t \in Sessions : Asked(t)' /\ Writes(t)' /\ StillReleased(t)'
  BY <1>1, CommitOthers
<1>5. P!TypeOK' /\ RowsAgree' /\ P!LedgerMatches' /\ P!ReservationsFollowRuns'
  BY <1>1, CommitType, CommitRows, CommitLedger, CommitReserved
<1> QED BY <1>2, <1>3, <1>4, <1>5 DEF RunInv

-----------------------------------------------------------------------------
(* The specification.                                                      *)

\* A run no request works with changes otherwise than by a commit: it is still
\* to be released, or it is lost.
LEMMA RunChanges ==
  ASSUME P!ProductionAssumption, RunInv, NEW r \in Runs, NEW q \in P!Run,
         run' = [run EXCEPT ![r] = q],
         q.emitted = run[r].emitted, q.received = run[r].received,
         lost \subseteq lost', lost' \subseteq lost \cup {r},
         \/ r \in lost'
         \/ run[r].status \in {"none", "planned"} /\ q.status \in {"none", "planned"},
         UNCHANGED <<runMix, level, moved, runLock, levelLock, runSess, first, excess>>
  PROVE  RunInv'
<1>1. P!TypeOK /\ run'[r] = q /\ \A x \in Runs \ {r} : run'[x] = run[x]
  BY DEF RunInv, P!TypeOK
<1>4. P!Open' = P!Open
  BY DEF P!Open, P!At
<1>5. P!TypeOK'
  BY <1>1, <1>4 DEF P!TypeOK
<1>6. RowsAgree' /\ P!LedgerMatches'
  BY DEF RunInv, RowsAgree, P!LedgerMatches
<1>7. ASSUME NEW x \in Runs, x \notin lost'
      PROVE  P!Held(x)' = P!Held(x) /\ RunAgrees(x)' /\ run'[x].received <= P!AtLeastZero(P!YieldOf(x)')
  <2>1. RunAgrees(x) /\ run[x].received <= P!AtLeastZero(P!YieldOf(x)) /\ x \notin lost
    BY <1>7 DEF RunInv, P!YieldsAsPlanned
  <2>2. CASE x # r
    <3>1. run'[x] = run[x] /\ first'[x] = first[x]
      BY <1>1, <2>2
    <3>2. P!NeedOf(x)' = P!NeedOf(x) /\ P!YieldOf(x)' = P!YieldOf(x)
      BY <3>1 DEF P!NeedOf, P!YieldOf
    <3> QED BY <2>1, <3>1, <3>2 DEF P!Held, RunAgrees
  <2>3. CASE x = r
    <3>1. run[x].status \in {"none", "planned"} /\ run'[x].status \in {"none", "planned"}
      BY <1>1, <1>7, <2>3
    <3>2. P!Held(x) = 0 /\ P!Held(x)' = 0
      BY <3>1 DEF P!Held
    <3>3. run[x].emitted = 0 /\ run[x].received = 0 /\ first[x] = 0
      BY <2>1, <3>1 DEF RunAgrees
    <3>4. run'[x].emitted = 0 /\ run'[x].received = 0 /\ first'[x] = 0
      BY <1>1, <2>3, <3>3
    <3>5. RunAgrees(x)'
      BY <3>1, <3>4 DEF RunAgrees
    <3>6. 0 <= P!AtLeastZero(P!YieldOf(x)')
      <4>1. run'[x].yield \in Int /\ run'[x].mult \in Int
        BY <1>5 DEF P!TypeOK, P!Run
      <4>2. P!YieldOf(x)' \in Int
        BY <4>1 DEF P!YieldOf
      <4> QED BY <4>2, AtLeast
    <3> QED BY <3>2, <3>4, <3>5, <3>6
  <2> QED BY <2>2, <2>3
<1>8. P!ReservationsFollowRuns'
  <2>1. P!ReservationsFollowRuns /\ \A l : P!Users(l)' = P!Users(l) /\ P!Users(l) \subseteq Runs
    BY DEF RunInv, P!Users
  <2>2. ASSUME NEW l \in Levels \ (lost' \cup excess'), P!Users(l) \cap lost' = {}
        PROVE  level'[l].reserved = P!SumFunctionOnSet([x \in P!Users(l) |-> P!Held(x)'], P!Users(l))
    <3>1. \A x \in P!Users(l) : P!Held(x)' = P!Held(x)
      BY <1>7, <2>1, <2>2
    <3>2. [x \in P!Users(l) |-> P!Held(x)'] = [x \in P!Users(l) |-> P!Held(x)]
      BY <3>1
    <3>3. l \in Levels \ (lost \cup excess) /\ P!Users(l) \cap lost = {}
      BY <2>2
    <3> QED BY <2>1, <3>2, <3>3 DEF P!ReservationsFollowRuns
  <2> QED BY <2>1, <2>2 DEF P!ReservationsFollowRuns
<1>9. ASSUME NEW t \in Sessions PROVE Asked(t)' /\ Writes(t)' /\ StillReleased(t)'
  <2>1. Asked(t) /\ Writes(t) /\ StillReleased(t)
    BY DEF RunInv
  <2>2. P!Planned(t)' = P!Planned(t) /\ P!Needed(t)' = P!Needed(t) /\ P!Releases(t)' = P!Releases(t)
    BY DEF P!Planned, P!Needed, P!Releases
  <2>3. \A l : RowFor(t, l)' = RowFor(t, l)
    BY <2>2 DEF RowFor
  <2>4. Asked(t)'
    BY <2>1, <2>2 DEF Asked
  <2>5. Writes(t)'
    BY <2>1, <2>2, <2>3 DEF Writes
  <2>6. StillReleased(t)'
    <3>1. runSess[t].pc # "idle" => runSess[t].r \in Runs
      BY <2>1 DEF Asked
    <3>2. PICK x : x = runSess[t].r
      OBVIOUS
    <3>3. CASE x = r
      <4>1. ~(runSess[t].pc # "idle" /\ runSess[t].seen.status = "released" /\ runSess[t].r \notin lost')
        BY <2>1, <3>2, <3>3 DEF StillReleased, PastRelease
      <4> QED BY <4>1 DEF StillReleased
    <3>4. CASE x # r
      <4>1. runSess[t].pc # "idle" => run'[x] = run[x]
        BY <1>1, <3>1, <3>2, <3>4
      <4>2. Accounted(Take[x])' => Accounted(Take[x])
        BY DEF Accounted, P!Users
      <4>3. runSess[t].pc # "idle" => (PastRelease(x)' <=> PastRelease(x))
        BY <4>1 DEF PastRelease
      <4> QED BY <2>1, <3>2, <4>1, <4>2, <4>3 DEF StillReleased
    <3> QED BY <3>3, <3>4
  <2> QED BY <2>4, <2>5, <2>6
<1>10. \A x \in Runs : RunAgrees(x)'
  BY <1>7 DEF RunAgrees
<1> QED BY <1>5, <1>6, <1>7, <1>8, <1>9, <1>10 DEF RunInv, P!YieldsAsPlanned

LEMMA CreateStep ==
  ASSUME P!ProductionAssumption, RunInv, NEW r \in Runs, P!Create(r)
  PROVE  RunInv'
<1> DEFINE q == [run[r] EXCEPT !.status = "planned"]
<1>1. P!TypeOK /\ run[r] \in P!Run
  BY DEF RunInv, P!TypeOK
<1>2. /\ q \in P!Run /\ q.status = "planned"
      /\ q.emitted = run[r].emitted /\ q.received = run[r].received
  BY <1>1 DEF P!Run, P!Statuses
<1>3. /\ run' = [run EXCEPT ![r] = q] /\ run[r].status = "none" /\ lost' = lost
      /\ UNCHANGED <<runMix, level, moved, runLock, levelLock, runSess, first, excess>>
  BY <1>1 DEF P!Create, P!TypeOK, P!Locks, P!History
<1> HIDE DEF q
<1> QED BY <1>2, <1>3, RunChanges

LEMMA UpdateRecipeStep ==
  ASSUME P!ProductionAssumption, RunInv, NEW r \in Runs, NEW recipe \in Recipes,
         P!UpdateRecipe(r, recipe)
  PROVE  RunInv'
<1> DEFINE q == [run[r] EXCEPT !.need = recipe.need, !.yield = recipe.yield]
<1>1. P!TypeOK /\ run[r] \in P!Run
  BY DEF RunInv, P!TypeOK
<1>2. recipe.need \in Int /\ recipe.yield \in Int
  BY DEF P!ProductionAssumption, P!Quantities
<1>3. /\ q \in P!Run /\ q.status = run[r].status
      /\ q.emitted = run[r].emitted /\ q.received = run[r].received
  BY <1>1, <1>2 DEF P!Run
<1>4. /\ run' = [run EXCEPT ![r] = q]
      /\ lost' = IF run[r].status \in {"none", "planned"} THEN lost ELSE lost \cup {r}
      /\ UNCHANGED <<runMix, level, moved, runLock, levelLock, runSess, first, excess>>
  BY <1>1 DEF P!UpdateRecipe, P!TypeOK, P!Locks
<1> HIDE DEF q
<1>5. /\ lost \subseteq lost' /\ lost' \subseteq lost \cup {r}
      /\ \/ r \in lost'
         \/ run[r].status \in {"none", "planned"} /\ q.status \in {"none", "planned"}
  BY <1>3, <1>4
<1> QED BY <1>3, <1>4, <1>5, RunChanges

LEMMA InitHolds ==
  ASSUME P!ProductionAssumption, P!Init
  PROVE  RunInv
<1>0. Need \in [Runs -> Int] /\ Yield \in [Runs -> Int]
  BY DEF P!ProductionAssumption
<1> DEFINE none(r) == [P!Blank EXCEPT !.need = Need[r], !.yield = Yield[r]]
<1>1. /\ \A r \in Runs : /\ none(r) \in P!Run /\ none(r).status = "none"
                         /\ none(r).emitted = 0 /\ none(r).received = 0
      /\ P!Blank \in P!Run /\ P!NoRow \in P!Row
  <2>1. P!Blank \in P!Run /\ P!Blank.status = "none" /\ P!Blank.emitted = 0 /\ P!Blank.received = 0
    BY DEF P!Blank, P!Run, P!Statuses
  <2>2. \A need, yield \in Int :
          LET q == [P!Blank EXCEPT !.need = need, !.yield = yield] IN
          q \in P!Run /\ q.status = "none" /\ q.emitted = 0 /\ q.received = 0
    BY <2>1 DEF P!Run
  <2>3. P!NoRow \in P!Row
    BY DEF P!NoRow, P!Row
  <2> QED BY <1>0, <2>1, <2>2, <2>3
<1>2. /\ run = [r \in Runs |-> none(r)]
      /\ runLock = [r \in Runs |-> NoSession] /\ levelLock = [l \in Levels |-> NoSession]
      /\ level = [l \in Levels |-> [there |-> InitStock[l] > 0,
                                    onHand |-> InitStock[l], reserved |-> 0]]
      /\ runSess = [s \in Sessions |-> P!Idle] /\ moved = [l \in Levels |-> 0]
      /\ first = [r \in Runs |-> 0] /\ lost = {} /\ excess = {} /\ runMix \in RunMixes
  BY DEF P!Init
<1> HIDE DEF none
<1>3. P!Idle \in P!Session
  BY <1>1 DEF P!Idle, P!Session
<1>4. \A l \in Levels : InitStock[l] \in Nat
  BY DEF P!ProductionAssumption
<1>5. level \in [Levels -> P!Row]
  <2>1. ASSUME NEW l \in Levels
        PROVE  [there |-> InitStock[l] > 0, onHand |-> InitStock[l], reserved |-> 0] \in P!Row
    BY <1>4 DEF P!Row
  <2> QED BY <1>2, <2>1
<1>6. P!TypeOK
  <2>1. run \in [Runs -> P!Run] /\ runSess \in [Sessions -> P!Session]
    BY <1>1, <1>2, <1>3
  <2>2. moved \in [Levels -> Int] /\ first \in [Runs -> Int]
    BY <1>2
  <2> QED BY <1>2, <1>5, <2>1, <2>2 DEF P!TypeOK
<1>7. RowsAgree /\ P!LedgerMatches
  <2>1. ASSUME NEW l \in Levels, ~level[l].there PROVE level[l] = P!NoRow
    <3>1. level[l] = [there |-> InitStock[l] > 0, onHand |-> InitStock[l], reserved |-> 0]
      BY <1>2
    <3>2. \/ (InitStock[l] > 0) = TRUE
          \/ InitStock[l] = 0 /\ (InitStock[l] > 0) = FALSE
      BY <1>4
    <3>3. CASE (InitStock[l] > 0) = TRUE
      <4>1. level[l] = [there |-> TRUE, onHand |-> InitStock[l], reserved |-> 0]
        BY <3>1, <3>3, Zenon
      <4> QED BY <2>1, <4>1
    <3>4. CASE InitStock[l] = 0 /\ (InitStock[l] > 0) = FALSE
      <4>1. level[l] = [there |-> FALSE, onHand |-> InitStock[l], reserved |-> 0]
        BY <3>1, <3>4, Zenon
      <4> QED BY <3>4, <4>1 DEF P!NoRow
    <3> QED BY <3>2, <3>3, <3>4
  <2>2. P!LedgerMatches
    BY <1>2, <1>4 DEF P!LedgerMatches
  <2> QED BY <2>1, <2>2 DEF RowsAgree
<1>8. ASSUME NEW r \in Runs PROVE RunAgrees(r) /\ P!Held(r) = 0 /\ run[r].received <= P!AtLeastZero(P!YieldOf(r))
  <2>1. run[r] = none(r) /\ first[r] = 0
    BY <1>2
  <2>2. 0 <= P!AtLeastZero(P!YieldOf(r))
    BY <1>6, RunAmounts, AtLeast
  <2> QED BY <1>1, <2>1, <2>2 DEF RunAgrees, P!Held
<1>9. P!ReservationsFollowRuns
  <2>1. ASSUME NEW l \in Levels
        PROVE  SumFunctionOnSet([r \in P!Users(l) |-> P!Held(r)], P!Users(l)) = 0
    <3>1. P!Users(l) \subseteq Runs /\ IsFiniteSet(P!Users(l))
      BY FS_Subset, RunsFinite DEF P!Users
    <3> DEFINE f == [r \in P!Users(l) |-> P!Held(r)]
    <3>2. \A r \in P!Users(l) : f[r] = 0
      BY <1>8, <3>1
    <3> HIDE DEF f
    <3>3. SumFunctionOnSet(f, P!Users(l)) = 0
      BY <3>1, <3>2, SumZero
    <3> QED BY <3>3 DEF f
  <2> QED BY <1>2, <2>1, SumsAgree DEF P!ReservationsFollowRuns
<1>10. ASSUME NEW s \in Sessions PROVE Asked(s) /\ Writes(s) /\ StillReleased(s)
  <2>1. runSess[s].pc = "idle" /\ s # NoSession
    BY <1>2 DEF P!Idle, P!ProductionAssumption
  <2> QED BY <1>2, <2>1 DEF Asked, Writes, StillReleased
<1> QED BY <1>6, <1>7, <1>8, <1>9, <1>10 DEF RunInv, P!YieldsAsPlanned

LEMMA StutterStep ==
  ASSUME RunInv, UNCHANGED P!vars
  PROVE  RunInv'
<1>1. /\ UNCHANGED <<runMix, run, runLock, level, levelLock, runSess, moved, first, lost, excess>>
  BY DEF P!vars
<1>2. P!Open' = P!Open
  BY <1>1 DEF P!Open, P!At
<1>3. P!TypeOK' /\ RowsAgree' /\ P!LedgerMatches' /\ P!YieldsAsPlanned'
  BY <1>1, <1>2 DEF RunInv, P!TypeOK, RowsAgree, P!LedgerMatches, P!YieldsAsPlanned, P!YieldOf
<1>4. \A r \in Runs : RunAgrees(r)' /\ P!Held(r)' = P!Held(r)
  BY <1>1 DEF RunInv, RunAgrees, P!Held, P!NeedOf, P!YieldOf
<1>5. P!ReservationsFollowRuns'
  <2>1. P!ReservationsFollowRuns /\ \A l : P!Users(l)' = P!Users(l) /\ P!Users(l) \subseteq Runs
    BY DEF RunInv, P!Users
  <2> QED BY <1>1, <1>4, <2>1 DEF P!ReservationsFollowRuns
<1>6. ASSUME NEW t \in Sessions PROVE Asked(t)' /\ Writes(t)' /\ StillReleased(t)'
  <2>1. Asked(t) /\ Writes(t) /\ StillReleased(t)
    BY DEF RunInv
  <2>2. P!Planned(t)' = P!Planned(t) /\ P!Needed(t)' = P!Needed(t) /\ P!Releases(t)' = P!Releases(t)
    BY <1>1 DEF P!Planned, P!Needed, P!Releases
  <2>3. \A l : RowFor(t, l)' = RowFor(t, l)
    BY <1>1, <2>2 DEF RowFor
  <2>4. Asked(t)'
    BY <1>1, <2>1, <2>2 DEF Asked
  <2>5. Writes(t)'
    BY <1>1, <2>1, <2>2, <2>3 DEF Writes
  <2>6. StillReleased(t)'
    BY <1>1, <2>1 DEF StillReleased, PastRelease, Accounted, P!Users
  <2> QED BY <2>4, <2>5, <2>6
<1> QED BY <1>3, <1>4, <1>5, <1>6 DEF RunInv

LEMMA NextStep ==
  ASSUME P!ProductionAssumption, RunInv, [P!Next]_P!vars
  PROVE  RunInv'
<1>1. ASSUME NEW s \in Sessions, P!Step(s) PROVE RunInv'
  BY <1>1, ReadStockStep, ReserveStep, UnreserveStep, TakeStockStep, GiveStockStep,
     WriteRunStep, CommitStep DEF P!Step
<1>2. ASSUME NEW s \in Sessions, P!Fail(s) PROVE RunInv'
  BY <1>2, FailStep
<1>3. ASSUME NEW s \in Sessions, NEW r \in Runs, P!Request(s, r) PROVE RunInv'
  BY <1>3, Requests
<1>4. ASSUME NEW r \in Runs, P!Create(r) PROVE RunInv'
  BY <1>4, CreateStep
<1>5. ASSUME NEW r \in Runs, NEW recipe \in Recipes, P!UpdateRecipe(r, recipe) PROVE RunInv'
  BY <1>5, UpdateRecipeStep
<1>6. CASE UNCHANGED P!vars
  BY <1>6, StutterStep
<1> QED BY <1>1, <1>2, <1>3, <1>4, <1>5, <1>6 DEF P!Next

LEMMA Invariant ==
  ASSUME P!ProductionAssumption
  PROVE  P!Spec => []RunInv
<1>1. P!Init => RunInv
  BY InitHolds
<1>2. RunInv /\ [P!Next]_P!vars => RunInv'
  BY NextStep
<1> QED BY <1>1, <1>2, PTL DEF P!Spec

\* Every variable of a production run's tables and
\* sessions keeps its type, and a row is held by an open session only.
THEOREM ProductionType ==
  ASSUME P!ProductionAssumption
  PROVE  P!Spec => []P!TypeOK
<1>1. RunInv => P!TypeOK
  BY DEF RunInv
<1> QED BY <1>1, Invariant, PTL

\* The run ProductionMixed checks LedgerMatches: a level agrees with the
\* movements of the runs, whichever warehouse their documents name, unless an
\* emission wrote over a change it had not read or a run of no or negative
\* quantities moved it.
THEOREM ProductionLedger ==
  ASSUME P!ProductionAssumption
  PROVE  P!Spec => []LedgerMatches
<1>1. RunInv => P!LedgerMatches
  BY DEF RunInv
<1>2. P!LedgerMatches => LedgerMatches
  BY DEF LedgerMatches, P!LedgerMatches
<1> QED BY <1>1, <1>2, Invariant, PTL

\* The run ProductionMixed checks ReservationsFollowRuns: what is reserved of a
\* level is what its runs hold, however they are released, emitted and canceled,
\* unless requests overlapped, more was emitted than planned, a run was first
\* emitted from another warehouse, or its recipe was changed after its release.
THEOREM ProductionReservations ==
  ASSUME P!ProductionAssumption
  PROVE  P!Spec => []ReservationsFollowRuns
<1>1. RunInv => P!ReservationsFollowRuns
  BY DEF RunInv
<1>2. P!ReservationsFollowRuns => ReservationsFollowRuns
  <2>1. \A r : Held(r) = P!Held(r)
    BY DEF Held, P!Held, NeedOf, P!NeedOf, AtLeastZero, P!AtLeastZero
  <2>2. \A l : Users(l) = P!Users(l)
    BY DEF Users, P!Users
  <2>3. ASSUME P!ReservationsFollowRuns, NEW l \in Levels \ (lost \cup excess), Users(l) \cap lost = {}
        PROVE  level[l].reserved = SumFunctionOnSet([r \in Users(l) |-> Held(r)], Users(l))
    <3>1. level[l].reserved = P!SumFunctionOnSet([r \in P!Users(l) |-> P!Held(r)], P!Users(l))
      BY <2>2, <2>3 DEF P!ReservationsFollowRuns
    <3>2. [r \in P!Users(l) |-> P!Held(r)] = [r \in Users(l) |-> Held(r)]
      BY <2>1, <2>2
    <3> QED BY <2>2, <3>1, <3>2, SumsAgree
  <2> QED BY <2>3 DEF ReservationsFollowRuns
<1> QED BY <1>1, <1>2, Invariant, PTL

\* The run ProductionMixed checks YieldsAsPlanned: a run yields at most what was
\* planned, in however many receipts, unless they overlapped or the recipe
\* changed.
THEOREM ProductionYields ==
  ASSUME P!ProductionAssumption
  PROVE  P!Spec => []YieldsAsPlanned
<1>1. RunInv => P!YieldsAsPlanned
  BY DEF RunInv
<1>2. P!YieldsAsPlanned => YieldsAsPlanned
  BY DEF YieldsAsPlanned, P!YieldsAsPlanned, YieldOf, P!YieldOf, AtLeastZero, P!AtLeastZero
<1> QED BY <1>1, <1>2, Invariant, PTL
=============================================================================
