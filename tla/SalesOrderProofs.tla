-------------------------- MODULE SalesOrderProofs --------------------------
(* Theorems about SalesOrder and their proofs.                             *)
EXTENDS SalesOrder, FiniteSetTheorems, NaturalsInduction, WellFoundedInduction, TLAPS

(***************************************************************************)
(* Sums.  SumFunctionOnSet folds a function over a finite set by a         *)
(* function over its subsets that CHOOSE picks: it exists by induction on  *)
(* the cardinality, and what it yields is proved by induction on the       *)
(* subsets, each time by a least counterexample (WFMin).                   *)
(***************************************************************************)
Some(s) == CHOOSE x \in s : TRUE

LEMMA SomeIn == \A s : s # {} => Some(s) \in s
BY DEF Some

\* h adds up f over the subsets of S.
Adds(f, S, h) ==
  h = [s \in SUBSET S |-> IF s = {} THEN 0 ELSE f[Some(s)] + h[s \ {Some(s)}]]
Adder(f, S) == CHOOSE h : Adds(f, S, h)

LEMMA Induct ==
  ASSUME NEW T \in SUBSET Nat, 0 \in T, \A n \in T : n + 1 \in T
  PROVE  T = Nat
<1> DEFINE B == Nat \ T
           R == {p \in Nat \X Nat : p[1] < p[2]}
<1>1. IsWellFoundedOn(R, Nat)
  BY NatLessThanWellFounded DEF OpToRel
<1>2. SUFFICES ASSUME B # {} PROVE FALSE
  OBVIOUS
<1>3. PICK x \in B : \A y \in B : <<y, x>> \notin R
  <2> B \subseteq Nat
    OBVIOUS
  <2> HIDE DEF B, R
  <2> QED BY <1>1, <1>2, WFMin
<1>4. x # 0 /\ x - 1 \in Nat
  BY <1>3
<1>5. x - 1 \in B
  BY <1>3, <1>4
<1>6. <<x - 1, x>> \in R
  BY <1>3, <1>4
<1> QED BY <1>3, <1>5, <1>6

LEMMA AdderExists ==
  ASSUME NEW S, IsFiniteSet(S), NEW f
  PROVE  Adds(f, S, Adder(f, S))
<1> DEFINE D(n) == {s \in SUBSET S : Cardinality(s) <= n}
           E(h, s) == IF s = {} THEN 0 ELSE f[Some(s)] + h[s \ {Some(s)}]
           N == {n \in Nat : \E h : h = [s \in D(n) |-> E(h, s)]}
<1>1. 0 \in N
  <2>1. D(0) = {{}}
    BY FS_Subset, FS_EmptySet, FS_CardinalityType
  <2> DEFINE h == [s \in D(0) |-> 0]
  <2>2. h = [s \in D(0) |-> E(h, s)]
    BY <2>1
  <2> QED BY <2>2
<1>2. ASSUME NEW n \in N PROVE n + 1 \in N
  <2>1. PICK h : h = [s \in D(n) |-> E(h, s)]
    BY <1>2
  <2> DEFINE g == [s \in D(n + 1) |-> E(h, s)]
  <2>2. ASSUME NEW s \in D(n + 1), s # {}
        PROVE  h[s \ {Some(s)}] = g[s \ {Some(s)}]
    <3>1. Some(s) \in s
      BY <2>2, SomeIn
    <3>2. /\ IsFiniteSet(s) /\ Cardinality(s) \in Nat
          /\ Cardinality(s \ {Some(s)}) = Cardinality(s) - 1
      BY <3>1, FS_Subset, FS_RemoveElement, FS_CardinalityType
    <3>3. s \ {Some(s)} \in D(n) /\ s \ {Some(s)} \in D(n + 1)
      BY <3>2
    <3> QED BY <3>3, <2>1
  <2>3. g = [s \in D(n + 1) |-> E(g, s)]
    BY <2>2
  <2> HIDE DEF g
  <2>4. \E k : k = [s \in D(n + 1) |-> E(k, s)]
    <3> WITNESS g
    <3> QED BY <2>3
  <2>5. n + 1 \in Nat
    OBVIOUS
  <2> HIDE DEF D, E
  <2> QED BY <2>4, <2>5
<1>3. N = Nat
  <2>1. N \in SUBSET Nat
    OBVIOUS
  <2> HIDE DEF N
  <2> QED BY <1>1, <1>2, <2>1, Induct
<1>4. Cardinality(S) \in Nat /\ D(Cardinality(S)) = SUBSET S
  BY FS_Subset, FS_CardinalityType
<1>5. \E h : h = [s \in D(Cardinality(S)) |-> E(h, s)]
  BY <1>3, <1>4
<1>6. \E h : Adds(f, S, h)
  BY <1>4, <1>5 DEF Adds
<1> QED BY <1>6 DEF Adder

LEMMA SumIsAdded ==
  ASSUME NEW S, NEW f
  PROVE  SumFunctionOnSet(f, S) = Adder(f, S)[S]
BY DEF SumFunctionOnSet, FoldFunctionOnSet, MapThenFoldSet, Adder, Adds, Some

LEMMA AdderStep ==
  ASSUME NEW S, IsFiniteSet(S), NEW f
  PROVE  /\ Adder(f, S)[{}] = 0
         /\ \A s \in SUBSET S : s # {} =>
              Adder(f, S)[s] = f[Some(s)] + Adder(f, S)[s \ {Some(s)}]
<1> DEFINE h == Adder(f, S)
<1>1. h = [s \in SUBSET S |-> IF s = {} THEN 0 ELSE f[Some(s)] + h[s \ {Some(s)}]]
  BY AdderExists DEF Adds
<1> HIDE DEF h
<1>2. h[{}] = 0 /\ \A s \in SUBSET S : s # {} => h[s] = f[Some(s)] + h[s \ {Some(s)}]
  BY <1>1
<1> QED BY <1>2 DEF h

\* What holds of a set if it holds of all smaller ones holds of every subset
\* of S.
LEMMA SubsetInduct ==
  ASSUME NEW S, IsFiniteSet(S), NEW G,
         \A s \in SUBSET S :
           (\A t \in SUBSET S : t \subseteq s /\ t # s => t \in G) => s \in G
  PROVE  \A s \in SUBSET S : s \in G
<1> DEFINE B == {s \in SUBSET S : s \notin G}
           R == StrictSubsetOrdering(S)
<1>1. SUFFICES ASSUME B # {} PROVE FALSE
  OBVIOUS
<1>2. PICK s \in B : \A t \in B : <<t, s>> \notin R
  <2>1. IsWellFoundedOn(R, SUBSET S)
    BY FS_StrictSubsetOrderingWellFounded, FS_FiniteSubsetsOfFinite
  <2>2. B \subseteq SUBSET S
    OBVIOUS
  <2> HIDE DEF B, R
  <2> QED BY <1>1, <2>1, <2>2, WFMin
<1>3. PICK t \in SUBSET S : t \subseteq s /\ t # s /\ t \notin G
  BY <1>2
<1>4. <<t, s>> \in R
  BY <1>3 DEF StrictSubsetOrdering
<1> QED BY <1>2, <1>3, <1>4

\* The sum over a subset is the same, whichever set it is computed in.
LEMMA SumWithin ==
  ASSUME NEW S, IsFiniteSet(S), NEW f, NEW T \in SUBSET S
  PROVE  SumFunctionOnSet(f, T) = Adder(f, S)[T]
<1> DEFINE G == {s \in SUBSET T : Adder(f, T)[s] = Adder(f, S)[s]}
<1>1. IsFiniteSet(T)
  BY FS_Subset
<1>2. ASSUME NEW s \in SUBSET T,
             \A t \in SUBSET T : t \subseteq s /\ t # s => t \in G
      PROVE  s \in G
  <2>1. CASE s = {}
    BY <1>1, <2>1, AdderStep
  <2>2. CASE s # {}
    <3>1. Some(s) \in s
      BY <2>2, SomeIn
    <3>2. Adder(f, T)[s \ {Some(s)}] = Adder(f, S)[s \ {Some(s)}]
      BY <1>2, <3>1
    <3>3. Adder(f, T)[s] = f[Some(s)] + Adder(f, T)[s \ {Some(s)}]
      BY <1>1, <2>2, AdderStep
    <3>4. Adder(f, S)[s] = f[Some(s)] + Adder(f, S)[s \ {Some(s)}]
      BY <2>2, AdderStep
    <3> QED BY <3>2, <3>3, <3>4
  <2> QED BY <2>1, <2>2
<1>3. T \in G
  <2> HIDE DEF G
  <2> QED BY <1>1, <1>2, SubsetInduct
<1> QED BY <1>3, SumIsAdded

LEMMA SumEmpty == \A f : SumFunctionOnSet(f, {}) = 0
BY FS_EmptySet, SumIsAdded, AdderStep

\* A sum of natural numbers is one.
LEMMA SumNat ==
  ASSUME NEW S, IsFiniteSet(S), NEW f, \A x \in S : f[x] \in Nat
  PROVE  SumFunctionOnSet(f, S) \in Nat
<1> DEFINE G == {s \in SUBSET S : Adder(f, S)[s] \in Nat}
<1>1. ASSUME NEW s \in SUBSET S,
             \A t \in SUBSET S : t \subseteq s /\ t # s => t \in G
      PROVE  s \in G
  <2>1. CASE s = {}
    BY <2>1, AdderStep
  <2>2. CASE s # {}
    <3>1. Some(s) \in s /\ Adder(f, S)[s] = f[Some(s)] + Adder(f, S)[s \ {Some(s)}]
      BY <2>2, AdderStep, SomeIn
    <3>2. Adder(f, S)[s \ {Some(s)}] \in Nat /\ f[Some(s)] \in Nat
      BY <1>1, <3>1
    <3>3. Adder(f, S)[s] \in Nat
      BY <3>1, <3>2
    <3> QED BY <3>3
  <2> QED BY <2>1, <2>2
<1>2. S \in G
  <2> HIDE DEF G
  <2> QED BY <1>1, SubsetInduct
<1> QED BY <1>2, SumIsAdded

\* A sum is the value of any one member and the sum of the others.
LEMMA SumSplit ==
  ASSUME NEW S, IsFiniteSet(S), NEW f, \A y \in S : f[y] \in Nat, NEW x \in S
  PROVE  SumFunctionOnSet(f, S) = f[x] + SumFunctionOnSet(f, S \ {x})
<1> DEFINE h == Adder(f, S)
           G == {s \in SUBSET S : h[s] \in Nat /\ \A y \in s : h[s] = f[y] + h[s \ {y}]}
<1>1. /\ h[{}] = 0
      /\ \A s \in SUBSET S : s # {} => h[s] = f[Some(s)] + h[s \ {Some(s)}]
  BY AdderStep
<1> HIDE DEF h
<1>2. ASSUME NEW s \in SUBSET S,
             \A t \in SUBSET S : t \subseteq s /\ t # s => t \in G
      PROVE  s \in G
  <2>1. CASE s = {}
    BY <1>1, <2>1
  <2>2. CASE s # {}
    <3> PICK c \in s : c = Some(s)
      BY <2>2, SomeIn
    <3>1. h[s] = f[c] + h[s \ {c}]
      BY <1>1, <2>2
    <3>2. s \ {c} \in G /\ f[c] \in Nat
      BY <1>2
    <3>3. h[s] \in Nat
      BY <3>1, <3>2
    <3>4. ASSUME NEW y \in s, y # c PROVE h[s] = f[y] + h[s \ {y}]
      <4>1. s \ {y} \in G
        BY <1>2
      <4>2. (s \ {c}) \ {y} = (s \ {y}) \ {c}
        OBVIOUS
      <4>3. h[s \ {c}] = f[y] + h[(s \ {c}) \ {y}]
        BY <3>2, <3>4
      <4>4. h[s \ {y}] = f[c] + h[(s \ {y}) \ {c}]
        BY <3>4, <4>1
      <4>5. PICK n \in Nat : n = h[(s \ {c}) \ {y}]
        BY <1>2
      <4>6. h[s] = f[c] + (f[y] + n) /\ h[s \ {y}] = f[c] + n
        BY <3>1, <4>2, <4>3, <4>4, <4>5
      <4>7. f[y] \in Nat /\ f[c] \in Nat
        OBVIOUS
      <4> HIDE DEF G
      <4> QED BY <4>6, <4>7
    <3> QED BY <3>1, <3>3, <3>4
  <2> QED BY <2>1, <2>2
<1>3. S \in G
  <2> HIDE DEF G
  <2> QED BY <1>2, SubsetInduct
<1>4. h[S] = f[x] + h[S \ {x}]
  BY <1>3
<1>5. SumFunctionOnSet(f, S) = h[S] /\ SumFunctionOnSet(f, S \ {x}) = h[S \ {x}]
  BY SumWithin DEF h
<1> QED BY <1>4, <1>5

\* Functions that agree on a set have the same sum.
LEMMA SumSame ==
  ASSUME NEW S, IsFiniteSet(S), NEW f, NEW g, \A x \in S : f[x] = g[x]
  PROVE  SumFunctionOnSet(f, S) = SumFunctionOnSet(g, S)
<1> DEFINE G == {s \in SUBSET S : Adder(f, S)[s] = Adder(g, S)[s]}
<1>1. ASSUME NEW s \in SUBSET S,
             \A t \in SUBSET S : t \subseteq s /\ t # s => t \in G
      PROVE  s \in G
  <2>1. CASE s = {}
    BY <2>1, AdderStep
  <2>2. CASE s # {}
    <3>1. Some(s) \in s
      BY <2>2, SomeIn
    <3>2. Adder(f, S)[s] = f[Some(s)] + Adder(f, S)[s \ {Some(s)}]
      BY <2>2, AdderStep
    <3>3. Adder(g, S)[s] = g[Some(s)] + Adder(g, S)[s \ {Some(s)}]
      BY <2>2, AdderStep
    <3>4. Adder(f, S)[s \ {Some(s)}] = Adder(g, S)[s \ {Some(s)}]
      BY <1>1, <3>1
    <3> QED BY <3>1, <3>2, <3>3, <3>4
  <2> QED BY <2>1, <2>2
<1>2. S \in G
  <2> HIDE DEF G
  <2> QED BY <1>1, SubsetInduct
<1> QED BY <1>2, SumIsAdded

\* Sums that are nothing, and sums of which one member changes.
LEMMA SumZero ==
  ASSUME NEW S, IsFiniteSet(S), NEW f, \A x \in S : f[x] = 0
  PROVE  SumFunctionOnSet(f, S) = 0
<1> DEFINE G == {s \in SUBSET S : Adder(f, S)[s] = 0}
<1>1. ASSUME NEW s \in SUBSET S,
             \A t \in SUBSET S : t \subseteq s /\ t # s => t \in G
      PROVE  s \in G
  <2>1. CASE s = {}
    BY <2>1, AdderStep
  <2>2. CASE s # {}
    <3>1. Some(s) \in s /\ Adder(f, S)[s] = f[Some(s)] + Adder(f, S)[s \ {Some(s)}]
      BY <2>2, AdderStep, SomeIn
    <3>2. Adder(f, S)[s \ {Some(s)}] = 0 /\ f[Some(s)] = 0
      BY <1>1, <3>1
    <3>3. Adder(f, S)[s] = 0
      BY <3>1, <3>2
    <3> QED BY <3>3
  <2> QED BY <2>1, <2>2
<1>2. S \in G
  <2> HIDE DEF G
  <2> QED BY <1>1, SubsetInduct
<1> QED BY <1>2, SumIsAdded

LEMMA SumChange ==
  ASSUME NEW S, IsFiniteSet(S), NEW x \in S, NEW f, NEW g,
         \A y \in S : f[y] \in Nat /\ g[y] \in Nat, \A y \in S \ {x} : f[y] = g[y]
  PROVE  SumFunctionOnSet(g, S) = SumFunctionOnSet(f, S) - f[x] + g[x]
<1>1. /\ SumFunctionOnSet(f, S) = f[x] + SumFunctionOnSet(f, S \ {x})
      /\ SumFunctionOnSet(g, S) = g[x] + SumFunctionOnSet(g, S \ {x})
  BY SumSplit
<1>2. IsFiniteSet(S \ {x})
  BY FS_Subset
<1>3. SumFunctionOnSet(f, S \ {x}) = SumFunctionOnSet(g, S \ {x})
  BY <1>2, SumSame
<1>4. SumFunctionOnSet(g, S \ {x}) \in Nat
  BY <1>2, SumNat
<1> QED BY <1>1, <1>3, <1>4

\* A sum with one member more.
LEMMA SumAppend ==
  ASSUME NEW old, IsFiniteSet(old), NEW new, NEW x \in new, old = new \ {x},
         NEW f, NEW g, NEW b \in Nat, f[x] = b,
         \A i \in old : f[i] = g[i] /\ g[i] \in Nat
  PROVE  SumFunctionOnSet(f, new) = SumFunctionOnSet(g, old) + b
<1>1. IsFiniteSet(new)
  <2>1. new = old \cup {x}
    OBVIOUS
  <2> QED BY <2>1, FS_AddElement
<1>2. \A i \in new : f[i] \in Nat
  OBVIOUS
<1>3. SumFunctionOnSet(f, new) = f[x] + SumFunctionOnSet(f, old)
  BY <1>1, <1>2, SumSplit
<1>4. SumFunctionOnSet(f, old) = SumFunctionOnSet(g, old)
  BY SumSame
<1>5. SumFunctionOnSet(g, old) \in Nat
  BY SumNat
<1> QED BY <1>1, <1>3, <1>4, <1>5

(***************************************************************************)
(* Type correctness.                                                       *)
(***************************************************************************)
\* The requests that come to each point of the code.
KindsAt ==
  [idle |-> AllKinds, lock |-> Locking, check |-> AllKinds \ Locking,
   analyze |-> {"confirm", "approve"}, reserve |-> {"confirm", "approve"},
   select |-> {"deliver", "cancel"}, release |-> {"deliver", "cancel", "return"},
   issue |-> {"deliver"}, restock |-> {"return"}, commit |-> AllKinds]

WellFormed(q) == /\ q.pc # "idle" => q.order \in Numbers
                 /\ q.kind \in KindsAt[q.pc]
                 /\ q.list \subseteq DOMAIN q.held

ReqInv == \A r \in Requests : WellFormed(req[r])

TypeInv == TypeOK /\ ReqInv

LEMMA OrderType ==
  /\ NoOrder \in Order
  /\ \A qty \in Nat : Draft(qty) \in Order /\ InTransit(qty) \in Order
BY DEF NoOrder, Order, Draft, InTransit, Statuses

LEMMA IdleType == Idle \in Reqs /\ Idle.pc = "idle" /\ WellFormed(Idle)
BY OrderType DEF Idle, Reqs, Pcs, AllKinds, WellFormed, KindsAt

\* What an action has to establish about the request it moves.
LEMMA StepType ==
  ASSUME TypeInv, NEW r \in Requests, NEW q \in Reqs,
         req' = [req EXCEPT ![r] = q],
         WellFormed(q),
         orderLock' \in [Numbers -> Requests \cup {NoOwner}],
         levelLock' \in Requests \cup {NoOwner},
         work' \in [onHand : Nat, reserved : Nat],
         UNCHANGED tables, jobs' \in Nat, raced' \in [Numbers -> SUBSET AllKinds]
  PROVE  TypeInv'
<1>1. TypeOK'
  BY DEF TypeInv, TypeOK, tables
<1>2. ReqInv'
  BY DEF TypeInv, TypeOK, ReqInv
<1> QED BY <1>1, <1>2 DEF TypeInv

LEMMA UnlockType ==
  ASSUME TypeInv, NEW r \in Requests, Unlock(r)
  PROVE  /\ orderLock' \in [Numbers -> Requests \cup {NoOwner}]
         /\ levelLock' \in Requests \cup {NoOwner}
BY DEF TypeInv, TypeOK, Unlock

LEMMA RollbackType ==
  ASSUME TypeInv, NEW r \in Requests, Rollback(r)
  PROVE  TypeInv'
<1>1. work' \in [onHand : Nat, reserved : Nat]
  BY DEF TypeInv, TypeOK, Rollback
<1>2. jobs' \in Nat /\ raced' \in [Numbers -> SUBSET AllKinds]
  BY DEF TypeInv, TypeOK, Rollback
<1> QED BY <1>1, <1>2, IdleType, StepType, UnlockType DEF Rollback

\* A request that goes on with its own attributes changed.
LEMMA GoType ==
  ASSUME TypeInv, NEW r \in Requests, NEW pc \in Pcs, NEW q \in Reqs, Go(r, pc, q),
         req[r].pc # "idle", q.order = req[r].order, q.list \subseteq DOMAIN q.held,
         q.kind \in KindsAt[pc],
         orderLock' \in [Numbers -> Requests \cup {NoOwner}],
         levelLock' \in Requests \cup {NoOwner},
         work' \in [onHand : Nat, reserved : Nat],
         UNCHANGED <<tables, jobs, raced>>
  PROVE  TypeInv'
<1> DEFINE to == [q EXCEPT !.pc = pc]
<1>1. to \in Reqs /\ to.order = q.order /\ to.list = q.list /\ to.held = q.held
      /\ to.pc = pc /\ to.kind = q.kind
  BY DEF Reqs
<1>2. req[r].order \in Numbers /\ jobs \in Nat /\ raced \in [Numbers -> SUBSET AllKinds]
  BY DEF TypeInv, ReqInv, WellFormed, TypeOK
<1>3. req' = [req EXCEPT ![r] = to]
  BY DEF Go
<1> HIDE DEF to
<1> QED BY <1>1, <1>2, <1>3, StepType DEF WellFormed

LEMMA LevelType ==
  ASSUME TypeInv, NEW r \in Requests
  PROVE  Level(r) \in [onHand : Nat, reserved : Nat]
BY DEF TypeInv, TypeOK, Level

LEMMA LockOrderType ==
  ASSUME TypeInv, NEW r \in Requests, req[r].pc # "idle", LockOrder(r)
  PROVE  orderLock' \in [Numbers -> Requests \cup {NoOwner}]
BY DEF TypeInv, TypeOK, ReqInv, WellFormed, LockOrder

LEMMA SetStatusType ==
  ASSUME TypeInv, NEW r \in Requests, req[r].kind # "delete"
  PROVE  /\ SetStatus(r) \in Reqs
         /\ SetStatus(r).order = req[r].order
         /\ SetStatus(r).kind = req[r].kind
         /\ SetStatus(r).list = req[r].list /\ SetStatus(r).held = req[r].held
<1>1. req[r] \in Reqs
  BY DEF TypeInv, TypeOK
<1>2. Target[req[r].kind] \in Statuses
  BY <1>1 DEF Reqs, AllKinds, Target, Statuses
<1> QED BY <1>1, <1>2 DEF SetStatus, Reqs, Order

LEMMA ReadType ==
  ASSUME TypeInv, NEW r \in Requests, Read(r)
  PROVE  TypeInv'
<1>1. PICK kind \in Kinds, n \in Existing :
        /\ Permitted(kind, orders[n])
        /\ Go(r, IF kind \in Locking THEN "lock" ELSE "check",
              [Idle EXCEPT !.kind = kind, !.order = n, !.seen = orders[n],
                           !.to = orders[n], !.kids = Cardinality(Backorders(n))])
        /\ raced' = IF {q \in Active : req[q].order = n} = {} THEN raced ELSE
             [raced EXCEPT ![n] = @ \cup {kind}
                                    \cup {req[q].kind : q \in {q \in Active : req[q].order = n}}]
  BY DEF Read
<1>2. jobs' = jobs + 1 /\ UNCHANGED <<tables, locks>>
  BY DEF Read
<1>3. n \in Numbers /\ orders[n] \in Order /\ kind \in AllKinds
  BY OrderAssumption DEF Existing, TypeInv, TypeOK
<1>4. Cardinality(Backorders(n)) \in Nat
  BY OrderAssumption, FS_Subset, FS_CardinalityType DEF Backorders, Existing
<1> DEFINE q == [Idle EXCEPT !.kind = kind, !.order = n, !.seen = orders[n],
                             !.to = orders[n], !.kids = Cardinality(Backorders(n)),
                             !.pc = IF kind \in Locking THEN "lock" ELSE "check"]
<1>5. q \in Reqs /\ WellFormed(q)
  <2>1. q \in Reqs
    BY <1>3, <1>4, IdleType DEF Reqs, Pcs
  <2>2. q.order = n /\ q.kind = kind /\ q.list = {}
        /\ q.pc = IF kind \in Locking THEN "lock" ELSE "check"
    BY DEF Idle
  <2> QED BY <1>3, <2>1, <2>2 DEF WellFormed, KindsAt
<1>6. req' = [req EXCEPT ![r] = q]
  BY <1>1 DEF Go
<1>7. raced' \in [Numbers -> SUBSET AllKinds]
  <2>1. {req[p].kind : p \in {p \in Active : req[p].order = n}} \subseteq AllKinds
    BY DEF Active, TypeInv, TypeOK, Reqs
  <2> QED BY <1>1, <1>3, <2>1 DEF TypeInv, TypeOK
<1>8. jobs' \in Nat
  BY <1>2 DEF TypeInv, TypeOK
<1> HIDE DEF q
<1> QED BY <1>2, <1>5, <1>6, <1>7, <1>8, StepType DEF locks, TypeInv, TypeOK

LEMMA LoadLockedType ==
  ASSUME TypeInv, NEW r \in Requests, LoadLocked(r)
  PROVE  TypeInv'
<1>1. CASE req[r].order \notin Existing
  BY <1>1, RollbackType DEF LoadLocked
<1>2. CASE req[r].order \in Existing
  <2>1. req[r] \in Reqs /\ req[r].pc # "idle" /\ req[r].list \subseteq DOMAIN req[r].held
        /\ req[r].kind \in Locking
    BY DEF LoadLocked, TypeInv, TypeOK, ReqInv, WellFormed, KindsAt
  <2>2. orderLock' \in [Numbers -> Requests \cup {NoOwner}]
    BY <1>2, <2>1, LockOrderType DEF LoadLocked
  <2>3. levelLock' \in Requests \cup {NoOwner} /\ work' \in [onHand : Nat, reserved : Nat]
        /\ UNCHANGED <<tables, jobs, raced>>
    BY <1>2 DEF LoadLocked, TypeInv, TypeOK
  <2>4. Locked(r)
    BY <1>2 DEF LoadLocked
  <2>5. CASE req[r].kind \in {"confirm", "approve"}
    BY <2>1, <2>2, <2>3, <2>4, <2>5, GoType DEF Locked, Pcs, KindsAt
  <2>6. CASE req[r].kind = "deliver"
    BY <2>1, <2>2, <2>3, <2>4, <2>6, GoType DEF Locked, Pcs, KindsAt
  <2>7. CASE req[r].kind = "cancel"
    <3>1. \/ Go(r, "select", req[r])
          \/ Go(r, "commit", SetStatus(r))
      BY <2>4, <2>7 DEF Locked
    <3> QED BY <2>1, <2>2, <2>3, <2>7, <3>1, SetStatusType, GoType DEF Pcs, KindsAt, AllKinds
  <2> QED BY <2>1, <2>5, <2>6, <2>7 DEF Locking
<1> QED BY <1>1, <1>2

\* What is known of a request that moves.
LEMMA ReqType ==
  ASSUME TypeInv, NEW r \in Requests
  PROVE  /\ req[r] \in Reqs
         /\ req[r].list \subseteq DOMAIN req[r].held
         /\ req[r].kind \in KindsAt[req[r].pc]
         /\ req[r].pc # "idle" => req[r].order \in Numbers
BY DEF TypeInv, TypeOK, ReqInv, WellFormed

\* Assignments to the attributes of the order a request holds.
LEMMA ToType ==
  ASSUME NEW q \in Reqs, NEW to \in Order
  PROVE  /\ [q EXCEPT !.to = to] \in Reqs
         /\ [q EXCEPT !.to = to].order = q.order
         /\ [q EXCEPT !.to = to].kind = q.kind
         /\ [q EXCEPT !.to = to].list = q.list
         /\ [q EXCEPT !.to = to].held = q.held
BY DEF Reqs

LEMMA StatusType ==
  ASSUME NEW o \in Order, NEW status \in Statuses
  PROVE  [o EXCEPT !.status = status] \in Order
BY DEF Order

LEMMA QtyType ==
  ASSUME NEW o \in Order, NEW qty \in Nat
  PROVE  /\ [o EXCEPT !.qty = qty] \in Order
         /\ [o EXCEPT !.shipped = qty] \in Order
BY DEF Order

\* A request that goes on and leaves the locks alone, or locks the level.
LEMMA StayType ==
  ASSUME TypeInv, NEW r \in Requests, NEW pc \in Pcs, NEW q \in Reqs, Go(r, pc, q),
         req[r].pc # "idle", q.order = req[r].order, q.list \subseteq DOMAIN q.held,
         q.kind \in KindsAt[pc], UNCHANGED <<tables, locks, jobs, raced>>
  PROVE  TypeInv'
<1>1. orderLock' \in [Numbers -> Requests \cup {NoOwner}]
      /\ levelLock' \in Requests \cup {NoOwner} /\ work' \in [onHand : Nat, reserved : Nat]
  BY DEF TypeInv, TypeOK, locks
<1> QED BY <1>1, GoType

LEMMA WriteType ==
  ASSUME TypeInv, NEW r \in Requests, NEW pc \in Pcs, NEW q \in Reqs, Go(r, pc, q),
         req[r].pc # "idle", q.order = req[r].order, q.list \subseteq DOMAIN q.held,
         q.kind \in KindsAt[pc], UNCHANGED <<tables, orderLock, jobs, raced>>,
         NEW new \in [onHand : Nat, reserved : Nat], WriteLevel(r, new)
  PROVE  TypeInv'
<1>1. orderLock' \in [Numbers -> Requests \cup {NoOwner}]
      /\ levelLock' \in Requests \cup {NoOwner} /\ work' \in [onHand : Nat, reserved : Nat]
  BY DEF TypeInv, TypeOK, WriteLevel
<1> QED BY <1>1, GoType

LEMMA RequestApprovalType ==
  ASSUME TypeInv, NEW r \in Requests, RequestApproval(r)
  PROVE  TypeInv'
<1> DEFINE to == [req[r].to EXCEPT !.status = "pending_approval"]
           q == [req[r] EXCEPT !.to = to]
<1>1. req[r].pc = "analyze" /\ req[r].kind = "confirm"
  BY DEF RequestApproval, At
<1>2. q \in Reqs /\ q.order = req[r].order /\ q.list = req[r].list
      /\ q.held = req[r].held /\ q.kind = req[r].kind
  <2>1. req[r].to \in Order
    BY ReqType DEF Reqs
  <2>2. to \in Order
    BY <2>1, StatusType DEF Statuses
  <2> QED BY <2>2, ReqType, ToType
<1>3. Go(r, "commit", q) /\ UNCHANGED <<tables, locks, jobs, raced>>
  BY DEF RequestApproval
<1> HIDE DEF q, to
<1> QED BY <1>1, <1>2, <1>3, ReqType, StayType DEF Pcs, KindsAt, AllKinds

LEMMA AnalyzeType ==
  ASSUME TypeInv, NEW r \in Requests, Analyze(r)
  PROVE  TypeInv'
<1> DEFINE available == AtLeastZero(Level(r).onHand - Level(r).reserved)
           take == Lesser(req[r].seen.qty, available)
           short == req[r].seen.qty - take
           q == [req[r] EXCEPT !.to.qty = take, !.child = short]
<1>1. req[r].pc = "analyze" /\ req[r].kind \in {"confirm", "approve"}
  BY DEF Analyze, At
<1>2. CASE take = 0 \/ (short > 0 /\ NumberTaken(r))
  BY <1>2, RollbackType DEF Analyze
<1>3. CASE ~(take = 0 \/ (short > 0 /\ NumberTaken(r)))
  <2>1. take \in Nat /\ short \in Nat
    <3>1. available \in Nat
      BY LevelType DEF AtLeastZero
    <3>2. req[r].seen.qty \in Nat
      BY ReqType DEF Reqs, Order
    <3> QED BY <3>1, <3>2 DEF Lesser
  <2>2. q \in Reqs /\ q.order = req[r].order /\ q.list = req[r].list
        /\ q.held = req[r].held /\ q.kind = req[r].kind
    <3>1. req[r].to \in Order
      BY ReqType DEF Reqs
    <3> DEFINE t == [req[r].to EXCEPT !.qty = take]
    <3>2. t \in Order
      BY <2>1, <3>1 DEF Order
    <3>3. q = [req[r] EXCEPT !.to = t, !.child = short]
      BY ReqType DEF Reqs
    <3> HIDE DEF t, take, short
    <3> QED BY <2>1, <3>2, <3>3, ReqType DEF Reqs
  <2>3. Go(r, "reserve", q) /\ UNCHANGED <<tables, locks, jobs, raced>>
    BY <1>3 DEF Analyze
  <2> HIDE DEF q
  <2> QED BY <1>1, <2>2, <2>3, ReqType, StayType DEF Pcs, KindsAt, AllKinds
<1> QED BY <1>2, <1>3

LEMMA ReserveType ==
  ASSUME TypeInv, NEW r \in Requests, Reserve(r)
  PROVE  TypeInv'
<1> DEFINE qty == req[r].to.qty
           to == [req[r].to EXCEPT !.status = "confirmed"]
           q == [req[r] EXCEPT !.booked = qty, !.to = to]
           new == [Level(r) EXCEPT !.reserved = @ + qty]
<1>1. CASE Fits(r, qty)
  <2>1. req[r].pc = "reserve" /\ qty \in Nat
    BY ReqType DEF Reserve, Reqs, Order
  <2>2. q \in Reqs /\ q.order = req[r].order /\ q.list = req[r].list
        /\ q.held = req[r].held /\ q.kind = req[r].kind
    <3>1. to \in Order
      BY ReqType, StatusType DEF Reqs, Statuses
    <3> HIDE DEF to
    <3> QED BY <2>1, <3>1, ReqType DEF Reqs
  <2>3. new \in [onHand : Nat, reserved : Nat]
    BY <2>1, LevelType
  <2>4. Go(r, "commit", q) /\ WriteLevel(r, new) /\ UNCHANGED <<tables, orderLock, jobs, raced>>
    BY <1>1 DEF Reserve
  <2> HIDE DEF q, to, new
  <2> QED BY <2>1, <2>2, <2>3, <2>4, ReqType, WriteType DEF Pcs, KindsAt, AllKinds
<1>2. CASE ~Fits(r, qty)
  BY <1>2, RollbackType DEF Reserve
<1> QED BY <1>1, <1>2

LEMMA SimpleType ==
  ASSUME TypeInv, NEW r \in Requests, Simple(r)
  PROVE  TypeInv'
<1>1. req[r].pc = "check" /\ UNCHANGED <<tables, locks, jobs, raced>>
  BY DEF Simple, At
<1>2. CASE req[r].kind = "delete"
  <2> DEFINE q == [req[r] EXCEPT !.to = NoOrder]
  <2>1. q \in Reqs /\ q.order = req[r].order /\ q.list = req[r].list
        /\ q.held = req[r].held /\ q.kind = req[r].kind
    BY ReqType, OrderType DEF Reqs
  <2>2. Go(r, "commit", q)
    BY <1>2 DEF Simple
  <2> HIDE DEF q
  <2> QED BY <1>1, <2>1, <2>2, ReqType, StayType DEF Pcs, KindsAt, AllKinds
<1>3. CASE req[r].kind # "delete"
  <2>1. Go(r, "commit", SetStatus(r))
    BY <1>3 DEF Simple
  <2> QED BY <1>1, <1>3, <2>1, ReqType, SetStatusType, StayType DEF Pcs, KindsAt, AllKinds
<1> QED BY <1>2, <1>3

LEMMA PickType ==
  ASSUME TypeInv, NEW r \in Requests, Pick(r)
  PROVE  TypeInv'
<1>1. req[r].pc = "check" /\ req[r].kind = "pick"
  BY DEF Pick, At
<1>2. \/ Go(r, "commit", SetStatus(r)) /\ UNCHANGED <<tables, locks, jobs, raced>>
      \/ Rollback(r)
  BY DEF Pick
<1> QED BY <1>1, <1>2, ReqType, SetStatusType, StayType, RollbackType DEF Pcs, KindsAt, AllKinds

LEMMA ShipType ==
  ASSUME TypeInv, NEW r \in Requests, Ship(r)
  PROVE  TypeInv'
<1>1. req[r].pc = "check" /\ req[r].kind = "ship"
  BY DEF Ship, At
<1>2. CASE Rollback(r)
  BY <1>2, RollbackType
<1>3. CASE ~Rollback(r)
  <2>1. PICK qty \in 0..level.onHand :
          Go(r, "commit", [SetStatus(r) EXCEPT !.to.shipped = qty,
               !.child = LeftOver(r, qty),
               !.to.qty = IF LeftOver(r, qty) > 0 /\ qty > 0 THEN qty ELSE @])
    BY <1>3 DEF Ship
  <2>2. UNCHANGED <<tables, locks, jobs, raced>>
    BY <1>3 DEF Ship
  <2> DEFINE q == [SetStatus(r) EXCEPT !.to.shipped = qty,
                     !.child = LeftOver(r, qty),
                     !.to.qty = IF LeftOver(r, qty) > 0 /\ qty > 0 THEN qty ELSE @]
  <2>3. qty \in Nat /\ LeftOver(r, qty) \in Nat
    BY ReqType DEF LeftOver, AtLeastZero, Reqs, Order, TypeInv, TypeOK
  <2>4. SetStatus(r) \in Reqs /\ SetStatus(r).to \in Order
    BY <1>1, SetStatusType DEF Reqs
  <2>5. q \in Reqs
    BY <2>3, <2>4 DEF Reqs, Order
  <2>6. q.order = req[r].order /\ q.list = req[r].list
        /\ q.held = req[r].held /\ q.kind = req[r].kind
    BY <1>1, <2>4, SetStatusType DEF Reqs
  <2>7. Go(r, "commit", q)
    BY <2>1
  <2> HIDE DEF q
  <2> QED BY <1>1, <2>2, <2>5, <2>6, <2>7, ReqType, StayType DEF Pcs, KindsAt, AllKinds
<1> QED BY <1>2, <1>3

LEMMA SelectActiveType ==
  ASSUME TypeInv, NEW r \in Requests, SelectActive(r)
  PROVE  TypeInv'
<1> DEFINE n == req[r].order
           list == ActiveResv(n)
           q == [SetStatus(r) EXCEPT !.list = list, !.held = resv[n]]
           pc == IF list # {} THEN "release" ELSE AfterRelease(r)
<1>1. req[r].pc \in {"select", "check"} /\ req[r].kind \in {"deliver", "cancel", "return"}
  BY ReqType DEF SelectActive, At, KindsAt
<1>2. resv[n] \in Seq(Reservation)
  BY <1>1, ReqType DEF TypeInv, TypeOK
<1>3. list \in SUBSET Nat /\ list \subseteq DOMAIN resv[n]
  BY <1>2 DEF ActiveResv
<1>4. q \in Reqs /\ q.order = n /\ q.list = list /\ q.held = resv[n] /\ q.kind = req[r].kind
  <2>1. SetStatus(r) \in Reqs /\ SetStatus(r).order = n /\ SetStatus(r).kind = req[r].kind
    BY <1>1, SetStatusType
  <2> HIDE DEF n, list
  <2> QED BY <1>2, <1>3, <2>1 DEF Reqs
<1>5. Go(r, pc, q) /\ UNCHANGED <<tables, locks, jobs, raced>>
  BY DEF SelectActive
<1>6. CASE list # {}
  <2> HIDE DEF q, n, list
  <2> QED BY <1>1, <1>3, <1>4, <1>5, <1>6, StayType DEF Pcs, KindsAt, n
<1>7. CASE list = {}
  <2>1. pc \in {"issue", "restock", "commit"} /\ req[r].kind \in KindsAt[pc]
    BY <1>1, <1>7 DEF AfterRelease, KindsAt, AllKinds
  <2> HIDE DEF q, list, pc
  <2> QED BY <1>1, <1>3, <1>4, <1>5, <2>1, StayType DEF Pcs
<1> QED BY <1>6, <1>7

LEMMA ReleaseType ==
  ASSUME TypeInv, NEW r \in Requests, Release(r)
  PROVE  TypeInv'
<1>1. req[r].pc = "release" /\ req[r].kind \in {"deliver", "cancel", "return"}
  BY ReqType DEF Release, KindsAt
<1>2. PICK i \in req[r].list :
        /\ IF Enough(r, req[r].held[i].qty)
           THEN WriteLevel(r, [Level(r) EXCEPT !.reserved = @ - req[r].held[i].qty])
           ELSE UNCHANGED <<levelLock, work>>
        /\ Go(r, IF req[r].list \ {i} # {} THEN "release" ELSE AfterRelease(r),
              [req[r] EXCEPT !.list = req[r].list \ {i}, !.freed = @ \cup {i}])
  BY DEF Release
<1>3. UNCHANGED <<tables, orderLock, jobs, raced>>
  BY DEF Release
<1> DEFINE qty == req[r].held[i].qty
           q == [req[r] EXCEPT !.list = req[r].list \ {i}, !.freed = @ \cup {i}]
           pc == IF req[r].list \ {i} # {} THEN "release" ELSE AfterRelease(r)
           new == [Level(r) EXCEPT !.reserved = @ - qty]
<1>4. qty \in Nat
  <2>1. req[r].held \in Seq(Reservation) /\ i \in DOMAIN req[r].held
    BY ReqType DEF Reqs
  <2>2. req[r].held[i] \in Reservation
    BY <2>1
  <2> QED BY <2>2 DEF Reservation
<1>5. q \in Reqs /\ q.order = req[r].order /\ q.kind = req[r].kind
      /\ q.held = req[r].held /\ q.list \subseteq DOMAIN q.held
  BY ReqType DEF Reqs
<1>6. pc \in Pcs /\ req[r].kind \in KindsAt[pc]
  BY <1>1 DEF AfterRelease, KindsAt, AllKinds, Pcs
<1>7. Go(r, pc, q)
  BY <1>2
<1>8. CASE Enough(r, qty)
  <2>1. new \in [onHand : Nat, reserved : Nat]
    BY <1>4, <1>8, LevelType DEF Enough
  <2>2. WriteLevel(r, new)
    BY <1>2, <1>8
  <2> HIDE DEF q, pc, new
  <2> QED BY <1>1, <1>3, <1>5, <1>6, <1>7, <2>1, <2>2, WriteType
<1>9. CASE ~Enough(r, qty)
  <2>1. UNCHANGED locks
    BY <1>2, <1>3, <1>9 DEF locks
  <2> HIDE DEF q, pc, new
  <2> QED BY <1>1, <1>3, <1>5, <1>6, <1>7, <2>1, StayType
<1> QED BY <1>8, <1>9

LEMMA IssueType ==
  ASSUME TypeInv, NEW r \in Requests, Issue(r)
  PROVE  TypeInv'
<1> DEFINE qty == Issued(r)
<1>1. CASE qty > Level(r).onHand
  BY <1>1, RollbackType DEF Issue
<1>2. CASE ~(qty > Level(r).onHand)
  <2>1. req[r].pc = "issue" /\ qty \in Nat
    BY ReqType DEF Issue, Issued, Reqs, Order
  <2>2. PICK again \in {0, Lesser(qty, Level(r).onHand - qty)} :
          /\ IF qty > 0 THEN WriteLevel(r, [Level(r) EXCEPT !.onHand = @ - qty - again])
                        ELSE UNCHANGED <<levelLock, work>>
          /\ Go(r, "commit", [req[r] EXCEPT !.out = qty, !.again = again])
          /\ UNCHANGED <<tables, orderLock, jobs, raced>>
    BY <1>2 DEF Issue
  <2> DEFINE q == [req[r] EXCEPT !.out = qty, !.again = again]
             new == [Level(r) EXCEPT !.onHand = @ - qty - again]
  <2>3. Level(r).onHand \in Nat /\ Level(r).onHand - qty \in Nat
    BY <1>2, <2>1, LevelType
  <2>4. again \in Nat /\ again <= Level(r).onHand - qty
    BY <2>1, <2>3 DEF Lesser
  <2>5. q \in Reqs /\ q.order = req[r].order /\ q.list = req[r].list
        /\ q.held = req[r].held /\ q.kind = req[r].kind
    BY <2>1, <2>4, ReqType DEF Reqs
  <2>6. new \in [onHand : Nat, reserved : Nat]
    BY <2>1, <2>3, <2>4, LevelType
  <2>7. /\ Go(r, "commit", q) /\ UNCHANGED <<tables, orderLock, jobs, raced>>
        /\ WriteLevel(r, new) \/ UNCHANGED locks
    BY <2>2 DEF locks
  <2> HIDE DEF q, new, qty
  <2> QED BY <2>1, <2>5, <2>6, <2>7, ReqType, WriteType, StayType DEF Pcs, KindsAt, AllKinds
<1> QED BY <1>1, <1>2

LEMMA RestockType ==
  ASSUME TypeInv, NEW r \in Requests, Restock(r)
  PROVE  TypeInv'
<1> DEFINE qty == req[r].seen.shipped
           q == [req[r] EXCEPT !.back = qty]
           new == [Level(r) EXCEPT !.onHand = @ + qty]
<1>1. req[r].pc = "restock" /\ qty \in Nat
  BY ReqType DEF Restock, Reqs, Order
<1>2. q \in Reqs /\ q.order = req[r].order /\ q.list = req[r].list
      /\ q.held = req[r].held /\ q.kind = req[r].kind
  BY <1>1, ReqType DEF Reqs
<1>3. Go(r, "commit", q) /\ UNCHANGED <<tables, orderLock, jobs, raced>>
  BY DEF Restock
<1>4. CASE qty > 0
  <2>1. new \in [onHand : Nat, reserved : Nat] /\ WriteLevel(r, new)
    BY <1>1, <1>4, LevelType DEF Restock
  <2> HIDE DEF q, new
  <2> QED BY <1>1, <1>2, <1>3, <2>1, ReqType, WriteType DEF Pcs, KindsAt, AllKinds
<1>5. CASE ~(qty > 0)
  <2>1. UNCHANGED locks
    BY <1>3, <1>5 DEF Restock, locks
  <2> HIDE DEF q, new
  <2> QED BY <1>1, <1>2, <1>3, <2>1, ReqType, StayType DEF Pcs, KindsAt, AllKinds
<1> QED BY <1>4, <1>5

LEMMA UpdatedType ==
  ASSUME NEW now \in Order, NEW seen \in Order, NEW to \in Order
  PROVE  Updated(now, seen, to) \in Order
BY DEF Updated, Order

LEMMA SequenceType ==
  /\ <<>> \in Seq(Reservation)
  /\ \A x \in Reservation : <<x>> \in Seq(Reservation)
  /\ \A s \in Seq(Reservation), x \in Reservation : Append(s, x) \in Seq(Reservation)
<1> HIDE DEF Reservation
<1> QED OBVIOUS

LEMMA CommitType ==
  ASSUME TypeInv, NEW r \in Requests, Commit(r)
  PROVE  TypeInv'
<1> DEFINE n == req[r].order
<1>1. CASE n \notin Existing \/ (req[r].child > 0 /\ NumberTaken(r))
  BY <1>1, RollbackType DEF Commit
<1>2. CASE ~(n \notin Existing \/ (req[r].child > 0 /\ NumberTaken(r)))
  <2>1. n \in Numbers /\ req[r] \in Reqs
    BY <1>2, ReqType DEF Existing
  <2>2. orders' = NewOrders(r) /\ resv' = [resv EXCEPT ![n] = NewResv(r)] /\ level' = Level(r)
        /\ sold' = [sold EXCEPT ![n] = @ + req[r].out]
        /\ doubled' = [doubled EXCEPT ![n] = @ + req[r].again]
        /\ restocked' = [restocked EXCEPT ![n] = @ + req[r].back]
        /\ req' = [req EXCEPT ![r] = Idle] /\ Unlock(r) /\ UNCHANGED <<work, jobs, raced>>
    BY <1>2 DEF Commit
  <2>3. orders' \in [Numbers -> Order]
    <3>1. Updated(orders[n], req[r].seen, req[r].to) \in Order
      BY <2>1, UpdatedType DEF TypeInv, TypeOK, Reqs
    <3>2. Draft(req[r].child) \in Order /\ NoOrder \in Order
      BY <2>1, OrderType DEF Reqs
    <3> QED BY <2>2, <3>1, <3>2 DEF NewOrders, TypeInv, TypeOK
  <2>4. resv' \in [Numbers -> Seq(Reservation)]
    <3> DEFINE kept == [i \in DOMAIN resv[n] |->
                          [resv[n][i] EXCEPT !.active = @ /\ i \notin req[r].freed]]
    <3>1. resv[n] \in Seq(Reservation)
      BY <2>1 DEF TypeInv, TypeOK
    <3>2. kept \in Seq(Reservation)
      <4>1. \A i \in 1..Len(resv[n]) : resv[n][i] \in Reservation
        BY <3>1
      <4>2. \A i \in 1..Len(resv[n]) :
              [resv[n][i] EXCEPT !.active = @ /\ i \notin req[r].freed] \in Reservation
        BY <4>1 DEF Reservation
      <4>3. DOMAIN resv[n] = 1..Len(resv[n]) /\ Len(resv[n]) \in Nat
        BY <3>1
      <4> QED BY <4>2, <4>3
    <3>3. req[r].booked \in Nat
      BY <2>1 DEF Reqs
    <3>4. [qty |-> req[r].booked, active |-> TRUE] \in Reservation
      BY <3>3 DEF Reservation
    <3>5. NewResv(r) \in {<<>>, kept, Append(kept, [qty |-> req[r].booked, active |-> TRUE])}
      BY DEF NewResv
    <3> HIDE DEF kept
    <3>6. NewResv(r) \in Seq(Reservation)
      BY <3>2, <3>4, <3>5, SequenceType
    <3> QED BY <2>1, <2>2, <3>6 DEF TypeInv, TypeOK
  <2>5. /\ sold' \in [Numbers -> Nat] /\ doubled' \in [Numbers -> Nat]
        /\ restocked' \in [Numbers -> Nat]
    <3>1. req[r].out \in Nat /\ req[r].again \in Nat /\ req[r].back \in Nat
      BY <2>1 DEF Reqs
    <3>2. /\ sold \in [Numbers -> Nat] /\ doubled \in [Numbers -> Nat]
          /\ restocked \in [Numbers -> Nat]
      BY DEF TypeInv, TypeOK
    <3> QED BY <2>1, <2>2, <3>1, <3>2
  <2>6. req' \in [Requests -> Reqs] /\ ReqInv'
    BY <2>2, IdleType DEF TypeInv, TypeOK, ReqInv
  <2>7. level' \in [onHand : Nat, reserved : Nat]
    BY <2>2, LevelType
  <2> QED BY <2>2, <2>3, <2>4, <2>5, <2>6, <2>7, UnlockType DEF TypeInv, TypeOK
<1> QED BY <1>1, <1>2

LEMMA ReceiveType ==
  ASSUME TypeInv, Receive
  PROVE  TypeInv'
<1>1. level' \in [onHand : Nat, reserved : Nat] /\ work' = level'
  <2>1. level \in [onHand : Nat, reserved : Nat]
    BY DEF TypeInv, TypeOK
  <2>2. level' = [level EXCEPT !.onHand = @ + 1] /\ work' = level'
    BY DEF Receive
  <2> QED BY <2>1, <2>2
<1>2. UNCHANGED <<orders, resv, sold, doubled, restocked, orderLock, levelLock, req, jobs, raced>>
  BY DEF Receive
<1> QED BY <1>1, <1>2 DEF TypeInv, TypeOK, ReqInv

LEMMA InitType == Init => TypeInv
<1> SUFFICES ASSUME Init PROVE TypeInv
  OBVIOUS
<1>1. orders \in [Numbers -> Order]
  BY OrderType, OrderAssumption DEF Init
<1>2. resv \in [Numbers -> Seq(Reservation)]
  <2>1. Sent \in Numbers => [qty |-> Demand[Sent], active |-> TRUE] \in Reservation
    BY OrderAssumption DEF Reservation
  <2>2. \A n \in Numbers : resv[n] \in Seq(Reservation)
    BY <2>1, SequenceType DEF Init
  <2> QED BY <2>2 DEF Init
<1>3. level \in [onHand : Nat, reserved : Nat]
  BY OrderAssumption DEF Init
<1>4. req \in [Requests -> Reqs] /\ ReqInv
  BY IdleType DEF Init, ReqInv
<1>5. /\ orderLock \in [Numbers -> Requests \cup {NoOwner}]
      /\ work = level /\ levelLock \in Requests \cup {NoOwner}
      /\ sold \in [Numbers -> Nat] /\ doubled \in [Numbers -> Nat]
      /\ restocked \in [Numbers -> Nat]
      /\ jobs \in Nat /\ raced \in [Numbers -> SUBSET AllKinds]
  BY DEF Init
<1> QED BY <1>1, <1>2, <1>3, <1>4, <1>5 DEF TypeInv, TypeOK

LEMMA NextType == TypeInv /\ [Next]_vars => TypeInv'
<1> SUFFICES ASSUME TypeInv, [Next]_vars PROVE TypeInv'
  OBVIOUS
<1>1. CASE Receive
  BY <1>1, ReceiveType
<1>2. CASE UNCHANGED vars
  BY <1>2 DEF vars, tables, locks, TypeInv, TypeOK, ReqInv
<1>3. ASSUME NEW r \in Requests,
             Read(r) \/ Step(r) \/ DeadlockVictim(r) \/ Abort(r)
      PROVE  TypeInv'
  <2>1. CASE Read(r)
    BY <2>1, ReadType
  <2>2. CASE Step(r)
    BY <2>2, LoadLockedType, RequestApprovalType, AnalyzeType, ReserveType, SimpleType,
       PickType, ShipType, SelectActiveType, ReleaseType, IssueType, RestockType,
       CommitType DEF Step
  <2>3. CASE DeadlockVictim(r) \/ Abort(r)
    BY <2>3, RollbackType DEF DeadlockVictim, Abort
  <2> QED BY <1>3, <2>1, <2>2, <2>3
<1> QED BY <1>1, <1>2, <1>3 DEF Next

\* Whatever the interleaving of any number of requests over any orders, no
\* quantity on hand, reserved, sold or restocked is ever negative.
THEOREM TypeCorrect == Spec => []TypeOK
<1>1. TypeInv => TypeOK
  BY DEF TypeInv
<1> QED BY <1>1, InitType, NextType, PTL DEF Spec

(***************************************************************************)
(* Stock is deducted once.  An order that was never confirmed by two       *)
(* overlapping requests is "clean": its reservations are made by the only  *)
(* confirmation it ever has.                                               *)
(***************************************************************************)
Clean(n) == raced[n] \cap {"confirm", "approve"} = {}

\* The states an order with reservations, current or past, can be in.
Booking == ReservedStates \cup {"delivered", "returned", "canceled"}

\* What a request remembers agrees with the point it has reached.
Claim(q) ==
  q.pc # "idle" =>
    /\ q.seen.status \in Statuses /\ Permitted(q.kind, q.seen)
    /\ q.kind # "delete" =>
         \/ q.to.status \in {q.seen.status, Target[q.kind]}
         \/ q.kind = "confirm" /\ q.to.status = "pending_approval"
    /\ q.booked # 0 => q.kind \in {"confirm", "approve"} /\ q.pc = "commit"
                         /\ q.to.status = "confirmed"
    /\ q.out # 0 => q.kind = "deliver" /\ q.pc = "commit" /\ q.freed # {}
    /\ q.kind = "deliver" /\ q.pc \in {"lock", "select"} => q.list = {} /\ q.freed = {}
    /\ q.kind = "deliver" /\ q.pc \in {"issue", "commit"} => q.list = {}
    /\ q.pc = "issue" => q.freed # {}

\* A delivery releases the reservations there are: it holds the order's lock,
\* which every transaction that changes them waits for.
Taken(q) == q.pc # "idle" /\ q.kind = "deliver" =>
              q.list \cup q.freed \in {{}, ActiveResv(q.order)}

Claims == \A r \in Requests : Claim(req[r]) /\ Taken(req[r])

OrderHeld == \A r \in Requests :
  req[r].pc \notin {"idle", "lock"} /\ req[r].kind \in Locking =>
    orderLock[req[r].order] = r

Overlap == \A r, q \in Active :
  r # q /\ req[r].order = req[q].order => req[r].kind \in raced[req[r].order]

\* Once a clean order has had reservations it never is a draft again, nor is
\* it one for a request under way.
Booked == \A n \in Numbers : Clean(n) /\ resv[n] # <<>> =>
            /\ orders[n].status \in Booking
            /\ \A r \in Active : req[r].order = n => req[r].seen.status \in Booking

SoldOut == \A n \in Numbers : Clean(n) /\ sold[n] # 0 =>
             resv[n] # <<>> /\ ActiveResv(n) = {}

Gone == \A n \in Numbers : n \notin Existing => resv[n] = <<>>

OnceInv == TypeInv /\ Claims /\ OrderHeld /\ Overlap /\ Booked /\ SoldOut /\ Gone

\* What the status a request has seen says of the request.
LEMMA PermittedKinds ==
  ASSUME NEW kind \in AllKinds, NEW seen \in Order, seen.status \in Statuses,
         Permitted(kind, seen)
  PROVE  /\ kind \in {"confirm", "approve", "delete"} => seen.status \notin Booking
         /\ seen.status \in Booking => kind \notin {"confirm", "approve", "delete"}
                                         /\ Target[kind] \in Booking
BY DEF AllKinds, Permitted, Transitions, Target, Booking, ReservedStates, Statuses, Order

\* A request goes on, and changes nothing that is committed.
LEMMA QuietStep ==
  ASSUME OnceInv, TypeInv', NEW r \in Requests, NEW q,
         req' = [req EXCEPT ![r] = q], req[r].pc # "idle", q.pc # "idle",
         q.order = req[r].order, q.kind = req[r].kind, q.seen = req[r].seen,
         Claim(q), Taken(q),
         UNCHANGED tables, UNCHANGED raced,
         q.kind \in Locking /\ q.pc # "lock" => orderLock'[q.order] = r,
         \A p \in Requests \ {r} : \A n \in Numbers :
           orderLock[n] = p => orderLock'[n] = p
  PROVE  OnceInv'
<1>1. /\ req \in [Requests -> Reqs] /\ req'[r] = q
      /\ \A p \in Requests \ {r} : req'[p] = req[p]
      /\ \A p \in Requests : req[p].pc # "idle" => req[p].order \in Numbers
  BY DEF OnceInv, TypeInv, TypeOK, ReqInv, WellFormed
<1>2. /\ Active' = Active
      /\ \A p \in Requests : req'[p].order = req[p].order /\ req'[p].kind = req[p].kind
                               /\ req'[p].seen = req[p].seen
  BY <1>1 DEF Active
<1>3. UNCHANGED <<orders, resv, sold>>
  BY DEF tables
<1>4. Claims'
  BY <1>1, <1>3 DEF OnceInv, Claims, Claim, Taken, ActiveResv
<1>5. OrderHeld'
  BY <1>1 DEF OnceInv, OrderHeld
<1>6. Overlap'
  BY <1>2 DEF OnceInv, Overlap
<1>7. Booked'
  BY <1>2, <1>3 DEF OnceInv, Booked, Clean
<1>8. SoldOut' /\ Gone'
  BY <1>3 DEF OnceInv, SoldOut, Gone, Clean, ActiveResv, Existing
<1> QED BY <1>4, <1>5, <1>6, <1>7, <1>8 DEF OnceInv

LEMMA RollbackStep ==
  ASSUME OnceInv, NEW r \in Requests, Rollback(r)
  PROVE  OnceInv'
<1>1. /\ req' = [req EXCEPT ![r] = Idle] /\ UNCHANGED <<tables, raced>>
      /\ \A n \in Numbers : orderLock[n] # r => orderLock'[n] = orderLock[n]
  BY DEF Rollback, Unlock
<1>2. /\ req'[r] = Idle /\ Idle.pc = "idle"
      /\ \A p \in Requests \ {r} : req'[p] = req[p]
      /\ \A p \in Requests : req[p].pc # "idle" => req[p].order \in Numbers
  BY <1>1, IdleType DEF OnceInv, TypeInv, TypeOK, ReqInv, WellFormed
<1>3. /\ Active' = Active \ {r}
      /\ \A p \in Active' : req'[p] = req[p]
  BY <1>2 DEF Active
<1>4. UNCHANGED <<orders, resv, sold>>
  BY <1>1 DEF tables
<1>5. Claims'
  BY <1>2, <1>4 DEF OnceInv, Claims, Claim, Taken, ActiveResv
<1>6. OrderHeld'
  BY <1>1, <1>2 DEF OnceInv, OrderHeld
<1>7. Overlap'
  BY <1>1, <1>3 DEF OnceInv, Overlap
<1>8. Booked'
  BY <1>1, <1>3, <1>4 DEF OnceInv, Booked, Clean
<1>9. SoldOut' /\ Gone'
  BY <1>1, <1>4 DEF OnceInv, SoldOut, Gone, Clean, ActiveResv, Existing
<1>10. TypeInv'
  BY RollbackType DEF OnceInv
<1> QED BY <1>5, <1>6, <1>7, <1>8, <1>9, <1>10 DEF OnceInv

LEMMA ReadStep ==
  ASSUME OnceInv, NEW r \in Requests, Read(r)
  PROVE  OnceInv'
<1>1. PICK kind \in Kinds, n \in Existing :
        /\ Permitted(kind, orders[n])
        /\ Go(r, IF kind \in Locking THEN "lock" ELSE "check",
              [Idle EXCEPT !.kind = kind, !.order = n, !.seen = orders[n],
                           !.to = orders[n], !.kids = Cardinality(Backorders(n))])
        /\ raced' = IF {q \in Active : req[q].order = n} = {} THEN raced ELSE
             [raced EXCEPT ![n] = @ \cup {kind}
                                    \cup {req[q].kind : q \in {q \in Active : req[q].order = n}}]
  BY DEF Read
<1>2. req[r].pc = "idle" /\ UNCHANGED <<tables, locks>>
  BY DEF Read
<1>3. n \in Numbers /\ orders[n] \in Order /\ kind \in AllKinds /\ orders[n].status \in Statuses
  BY OrderAssumption DEF Existing, OnceInv, TypeInv, TypeOK, Order
<1>4. PICK q :
        /\ q.order = n /\ q.kind = kind /\ q.seen = orders[n] /\ q.to = orders[n]
        /\ q.pc = IF kind \in Locking THEN "lock" ELSE "check"
        /\ q.booked = 0 /\ q.out = 0 /\ q.list = {} /\ q.freed = {}
        /\ req' = [req EXCEPT ![r] = q]
  <2> DEFINE w == [Idle EXCEPT !.kind = kind, !.order = n, !.seen = orders[n],
                               !.to = orders[n], !.kids = Cardinality(Backorders(n)),
                               !.pc = IF kind \in Locking THEN "lock" ELSE "check"]
  <2>1. /\ w.order = n /\ w.kind = kind /\ w.seen = orders[n] /\ w.to = orders[n]
        /\ w.pc = IF kind \in Locking THEN "lock" ELSE "check"
        /\ w.booked = 0 /\ w.out = 0 /\ w.list = {} /\ w.freed = {}
    BY DEF Idle
  <2>2. req' = [req EXCEPT ![r] = w]
    BY <1>1 DEF Go
  <2> HIDE DEF w
  <2> QED BY <2>1, <2>2
<1>6. /\ req \in [Requests -> Reqs] /\ req'[r] = q /\ raced \in [Numbers -> SUBSET AllKinds]
      /\ \A p \in Requests \ {r} : req'[p] = req[p]
  BY <1>4 DEF OnceInv, TypeInv, TypeOK
<1>7. /\ Active' = Active \cup {r} /\ r \notin Active
      /\ \A p \in Active : req'[p] = req[p]
  BY <1>2, <1>4, <1>6 DEF Active
<1>8. UNCHANGED <<orders, resv, sold, orderLock>>
  BY <1>2 DEF tables, locks
<1>9. Claims'
  <2>1. q.pc \in {"lock", "check"} /\ (q.kind = "deliver" => q.pc = "lock")
    BY <1>4 DEF Locking
  <2>2. Claim(q)
    BY <1>1, <1>3, <1>4, <2>1 DEF Claim
  <2>3. Taken(q)'
    BY <1>4 DEF Taken
  <2> QED BY <1>6, <1>8, <2>2, <2>3 DEF OnceInv, Claims, Claim, Taken, ActiveResv
<1>10. OrderHeld'
  BY <1>4, <1>6, <1>8 DEF OnceInv, OrderHeld
<1>11. \A m \in Numbers : raced[m] \subseteq raced'[m]
  BY <1>1, <1>3, <1>6
<1>12. Overlap'
  <2> SUFFICES ASSUME NEW p \in Active', NEW s \in Active', p # s,
                      req'[p].order = req'[s].order
               PROVE  req'[p].kind \in raced'[req'[p].order]
    BY DEF Overlap
  <2>1. CASE p # r /\ s # r
    <3>1. req[p].order \in Numbers
      BY <1>7, <2>1 DEF Active, OnceInv, TypeInv, ReqInv, WellFormed
    <3> QED BY <1>7, <1>11, <2>1, <3>1 DEF OnceInv, Overlap
  <2>2. CASE p = r \/ s = r
    <3> DEFINE rivals == {a \in Active : req[a].order = n}
    <3>1. req'[p].order = n
      BY <1>4, <1>6, <2>2
    <3>2. (p \in rivals \/ s \in rivals) /\ rivals # {}
      BY <1>4, <1>6, <1>7, <2>2
    <3>3. raced' = [raced EXCEPT ![n] = @ \cup {kind} \cup {req[a].kind : a \in rivals}]
      BY <1>1, <3>2
    <3>4. req'[p].kind \in {kind} \cup {req[a].kind : a \in rivals}
      BY <1>4, <1>6, <1>7, <2>2, <3>1
    <3> HIDE DEF rivals
    <3> QED BY <1>3, <1>6, <3>1, <3>3, <3>4
  <2> QED BY <2>1, <2>2
<1>13. \A m \in Numbers : Clean(m)' => Clean(m)
  BY <1>11 DEF Clean
<1>14. Booked'
  BY <1>4, <1>6, <1>7, <1>8, <1>13 DEF OnceInv, Booked
<1>15. SoldOut' /\ Gone'
  BY <1>8, <1>13 DEF OnceInv, SoldOut, Gone, ActiveResv, Existing
<1>16. TypeInv'
  BY ReadType DEF OnceInv
<1> QED BY <1>9, <1>10, <1>12, <1>14, <1>15, <1>16 DEF OnceInv

LEMMA LoadLockedStep ==
  ASSUME OnceInv, NEW r \in Requests, LoadLocked(r)
  PROVE  OnceInv'
<1>1. CASE req[r].order \notin Existing
  BY <1>1, RollbackStep DEF LoadLocked
<1>2. CASE req[r].order \in Existing
  <2>1. /\ req[r].pc = "lock" /\ OrderFree(r) /\ LockOrder(r) /\ Locked(r)
        /\ UNCHANGED <<tables, raced>>
    BY <1>2 DEF LoadLocked
  <2>2. req[r] \in Reqs /\ req[r].order \in Numbers /\ req[r].kind \in Locking
        /\ Claim(req[r]) /\ Taken(req[r])
    BY <2>1, ReqType DEF OnceInv, Claims, KindsAt
  <2>3. TypeInv'
    BY LoadLockedType DEF OnceInv
  <2>4. /\ orderLock'[req[r].order] = r
        /\ \A p \in Requests \ {r} : \A n \in Numbers :
             orderLock[n] = p => orderLock'[n] = p
    <3>1. orderLock \in [Numbers -> Requests \cup {NoOwner}]
      BY DEF OnceInv, TypeInv, TypeOK
    <3> QED BY <2>1, <2>2, <3>1, OrderAssumption DEF LockOrder, OrderFree
  <2>5. ASSUME NEW pc \in {"analyze", "select", "commit"},
               Go(r, pc, req[r]),
               pc = "commit" => req[r].kind \notin {"deliver"}
        PROVE  OnceInv'
    <3> DEFINE q == [req[r] EXCEPT !.pc = pc]
    <3>1. /\ q.pc = pc /\ q.order = req[r].order /\ q.kind = req[r].kind
          /\ q.seen = req[r].seen /\ q.to = req[r].to /\ q.booked = req[r].booked
          /\ q.out = req[r].out /\ q.list = req[r].list /\ q.freed = req[r].freed
      BY <2>2 DEF Reqs
    <3>2. req' = [req EXCEPT ![r] = q]
      BY <2>5 DEF Go
    <3> HIDE DEF q
    <3>3. Claim(q) /\ Taken(q)
      BY <2>1, <2>2, <2>5, <3>1 DEF Claim, Taken
    <3> QED BY <2>1, <2>2, <2>3, <2>4, <3>1, <3>2, <3>3, QuietStep
  <2>6. CASE req[r].kind \in {"confirm", "approve"}
    BY <2>1, <2>5, <2>6 DEF Locked
  <2>7. CASE req[r].kind = "deliver"
    BY <2>1, <2>5, <2>7 DEF Locked
  <2>8. CASE req[r].kind = "cancel"
    <3>1. CASE Go(r, "select", req[r])
      BY <2>5, <3>1
    <3>2. CASE Go(r, "commit", SetStatus(r))
      <4> DEFINE q == [SetStatus(r) EXCEPT !.pc = "commit"]
      <4>1. /\ q.pc = "commit" /\ q.order = req[r].order /\ q.kind = req[r].kind
            /\ q.seen = req[r].seen /\ q.to.status = Target[req[r].kind]
            /\ q.booked = req[r].booked /\ q.out = req[r].out
        BY <2>2 DEF SetStatus, Reqs, Order
      <4>2. req' = [req EXCEPT ![r] = q]
        BY <3>2 DEF Go
      <4> HIDE DEF q
      <4>3. Claim(q) /\ Taken(q)
        BY <2>1, <2>2, <2>8, <4>1 DEF Claim, Taken
      <4> QED BY <2>1, <2>2, <2>3, <2>4, <4>1, <4>2, <4>3, QuietStep
    <3> QED BY <2>1, <2>8, <3>1, <3>2 DEF Locked
  <2> QED BY <2>2, <2>6, <2>7, <2>8 DEF Locking
<1> QED BY <1>1, <1>2

\* A request goes on, and touches no order's lock.
LEMMA OwnStep ==
  ASSUME OnceInv, TypeInv', NEW r \in Requests, NEW q,
         req' = [req EXCEPT ![r] = q],
         req[r].pc \notin {"idle", "lock"}, q.pc \notin {"idle", "lock"},
         q.order = req[r].order, q.kind = req[r].kind, q.seen = req[r].seen,
         Claim(q), Taken(q), UNCHANGED <<tables, orderLock, raced>>
  PROVE  OnceInv'
<1>1. q.kind \in Locking => orderLock'[q.order] = r
  BY DEF OnceInv, OrderHeld
<1> QED BY <1>1, QuietStep

\* What is known of a request under way.
LEMMA ReqClaim ==
  ASSUME OnceInv, NEW r \in Requests
  PROVE  /\ req[r] \in Reqs /\ req[r].kind \in KindsAt[req[r].pc]
         /\ Claim(req[r]) /\ Taken(req[r])
BY ReqType DEF OnceInv, Claims

LEMMA RequestApprovalStep ==
  ASSUME OnceInv, NEW r \in Requests, RequestApproval(r)
  PROVE  OnceInv'
<1> DEFINE q == [req[r] EXCEPT !.to = [req[r].to EXCEPT !.status = "pending_approval"],
                               !.pc = "commit"]
<1>1. req[r].pc = "analyze" /\ req[r].kind = "confirm" /\ UNCHANGED <<tables, locks, raced>>
  BY DEF RequestApproval, At
<1>2. /\ q.pc = "commit" /\ q.order = req[r].order /\ q.kind = req[r].kind
      /\ q.seen = req[r].seen /\ q.to.status = "pending_approval"
      /\ q.booked = req[r].booked /\ q.out = req[r].out
  BY ReqClaim DEF Reqs, Order
<1>3. req' = [req EXCEPT ![r] = q]
  BY DEF RequestApproval, Go
<1>4. TypeInv'
  BY RequestApprovalType DEF OnceInv
<1> HIDE DEF q
<1>5. Claim(q) /\ Taken(q)
  BY <1>1, <1>2, ReqClaim DEF Claim, Taken
<1> QED BY <1>1, <1>2, <1>3, <1>4, <1>5, OwnStep DEF locks

LEMMA AnalyzeStep ==
  ASSUME OnceInv, NEW r \in Requests, Analyze(r)
  PROVE  OnceInv'
<1>1. CASE Rollback(r)
  BY <1>1, RollbackStep
<1>2. CASE ~Rollback(r)
  <2> DEFINE take == Lesser(req[r].seen.qty,
                            AtLeastZero(Level(r).onHand - Level(r).reserved))
             q == [req[r] EXCEPT !.to = [req[r].to EXCEPT !.qty = take],
                                 !.child = req[r].seen.qty - take, !.pc = "reserve"]
  <2>1. /\ req[r].pc = "analyze" /\ req[r].kind \in {"confirm", "approve"}
        /\ UNCHANGED <<tables, locks, raced>>
    BY <1>2 DEF Analyze, At
  <2>2. /\ q.pc = "reserve" /\ q.order = req[r].order /\ q.kind = req[r].kind
        /\ q.seen = req[r].seen /\ q.to.status = req[r].to.status
        /\ q.booked = req[r].booked /\ q.out = req[r].out
    BY ReqClaim DEF Reqs, Order
  <2>3. req' = [req EXCEPT ![r] = q]
    BY <1>2 DEF Analyze, Go
  <2>4. TypeInv'
    BY AnalyzeType DEF OnceInv
  <2> HIDE DEF q
  <2>5. Claim(q) /\ Taken(q)
    BY <2>1, <2>2, ReqClaim DEF Claim, Taken
  <2> QED BY <2>1, <2>2, <2>3, <2>4, <2>5, OwnStep DEF locks
<1> QED BY <1>1, <1>2

LEMMA ReserveStep ==
  ASSUME OnceInv, NEW r \in Requests, Reserve(r)
  PROVE  OnceInv'
<1>1. CASE Rollback(r)
  BY <1>1, RollbackStep
<1>2. CASE ~Rollback(r)
  <2> DEFINE q == [req[r] EXCEPT !.booked = req[r].to.qty,
                                 !.to = [req[r].to EXCEPT !.status = "confirmed"],
                                 !.pc = "commit"]
  <2>1. /\ req[r].pc = "reserve" /\ req[r].kind \in {"confirm", "approve"}
        /\ UNCHANGED <<tables, orderLock, raced>>
    BY <1>2, ReqClaim DEF Reserve, KindsAt
  <2>2. /\ q.pc = "commit" /\ q.order = req[r].order /\ q.kind = req[r].kind
        /\ q.seen = req[r].seen /\ q.to.status = "confirmed" /\ q.out = req[r].out
    BY ReqClaim DEF Reqs, Order
  <2>3. req' = [req EXCEPT ![r] = q]
    BY <1>2 DEF Reserve, Go
  <2>4. TypeInv'
    BY ReserveType DEF OnceInv
  <2> HIDE DEF q
  <2>5. Claim(q) /\ Taken(q)
    BY <2>1, <2>2, ReqClaim DEF Claim, Taken, Target
  <2> QED BY <2>1, <2>2, <2>3, <2>4, <2>5, OwnStep
<1> QED BY <1>1, <1>2

\* The status is set and nothing else happens before the commit.
LEMMA StatusStep ==
  ASSUME OnceInv, TypeInv', NEW r \in Requests, req[r].pc = "check",
         Go(r, "commit", SetStatus(r)), UNCHANGED <<tables, locks, raced>>
  PROVE  OnceInv'
<1> DEFINE q == [SetStatus(r) EXCEPT !.pc = "commit"]
<1>1. /\ q.pc = "commit" /\ q.order = req[r].order /\ q.kind = req[r].kind
      /\ q.seen = req[r].seen /\ q.to.status = Target[req[r].kind]
      /\ q.booked = req[r].booked /\ q.out = req[r].out
  BY ReqClaim DEF SetStatus, Reqs, Order
<1>2. req' = [req EXCEPT ![r] = q]
  BY DEF Go
<1> HIDE DEF q
<1>3. req[r].kind \notin Locking
  BY ReqClaim DEF KindsAt
<1>4. Claim(q) /\ Taken(q)
  BY <1>1, <1>3, ReqClaim DEF Claim, Taken, Locking
<1> QED BY <1>1, <1>2, <1>4, OwnStep DEF locks

LEMMA SimpleStep ==
  ASSUME OnceInv, NEW r \in Requests, Simple(r)
  PROVE  OnceInv'
<1>1. TypeInv' /\ req[r].pc = "check" /\ UNCHANGED <<tables, locks, raced>>
  BY SimpleType DEF OnceInv, Simple, At
<1>2. CASE req[r].kind = "delete"
  <2> DEFINE q == [req[r] EXCEPT !.to = NoOrder, !.pc = "commit"]
  <2>1. /\ q.pc = "commit" /\ q.order = req[r].order /\ q.kind = req[r].kind
        /\ q.seen = req[r].seen /\ q.booked = req[r].booked /\ q.out = req[r].out
    BY ReqClaim DEF Reqs
  <2>2. req' = [req EXCEPT ![r] = q]
    BY <1>2 DEF Simple, Go
  <2> HIDE DEF q
  <2>3. Claim(q) /\ Taken(q)
    BY <1>1, <1>2, <2>1, ReqClaim DEF Claim, Taken
  <2> QED BY <1>1, <2>1, <2>2, <2>3, OwnStep DEF locks
<1>3. CASE req[r].kind # "delete"
  BY <1>1, <1>3, StatusStep DEF Simple
<1> QED BY <1>2, <1>3

LEMMA PickStep ==
  ASSUME OnceInv, NEW r \in Requests, Pick(r)
  PROVE  OnceInv'
<1>1. \/ Rollback(r)
      \/ Go(r, "commit", SetStatus(r)) /\ UNCHANGED <<tables, locks, raced>>
  BY DEF Pick
<1>2. TypeInv' /\ req[r].pc = "check"
  BY PickType DEF OnceInv, Pick, At
<1> QED BY <1>1, <1>2, RollbackStep, StatusStep

LEMMA ShipStep ==
  ASSUME OnceInv, NEW r \in Requests, Ship(r)
  PROVE  OnceInv'
<1>1. CASE Rollback(r)
  BY <1>1, RollbackStep
<1>2. CASE ~Rollback(r)
  <2>1. PICK qty \in 0..level.onHand :
          Go(r, "commit", [SetStatus(r) EXCEPT !.to.shipped = qty,
               !.child = LeftOver(r, qty),
               !.to.qty = IF LeftOver(r, qty) > 0 /\ qty > 0 THEN qty ELSE @])
    BY <1>2 DEF Ship
  <2>2. /\ req[r].pc = "check" /\ req[r].kind = "ship" /\ TypeInv'
        /\ UNCHANGED <<tables, locks, raced>>
    BY <1>2, ShipType DEF OnceInv, Ship, At
  <2> DEFINE q == [SetStatus(r) EXCEPT !.to.shipped = qty,
                     !.child = LeftOver(r, qty),
                     !.to.qty = IF LeftOver(r, qty) > 0 /\ qty > 0 THEN qty ELSE @,
                     !.pc = "commit"]
  <2>3. /\ q.pc = "commit" /\ q.order = req[r].order /\ q.kind = req[r].kind
        /\ q.seen = req[r].seen /\ q.to.status = Target[req[r].kind]
        /\ q.booked = req[r].booked /\ q.out = req[r].out
    <3> DEFINE s == SetStatus(r)
    <3>1. /\ s.order = req[r].order /\ s.kind = req[r].kind /\ s.seen = req[r].seen
          /\ s.to.status = Target[req[r].kind]
          /\ s.booked = req[r].booked /\ s.out = req[r].out
      BY ReqClaim DEF SetStatus, Reqs, Order
    <3>2. s \in Reqs
      BY <2>2, SetStatusType DEF OnceInv
    <3> HIDE DEF s
    <3> QED BY <3>1, <3>2 DEF Reqs, Order, s
  <2>4. req' = [req EXCEPT ![r] = q]
    BY <2>1 DEF Go
  <2> HIDE DEF q
  <2>5. Claim(q) /\ Taken(q)
    BY <2>2, <2>3, ReqClaim DEF Claim, Taken
  <2> QED BY <2>2, <2>3, <2>4, <2>5, OwnStep DEF locks
<1> QED BY <1>1, <1>2

LEMMA SelectActiveStep ==
  ASSUME OnceInv, NEW r \in Requests, SelectActive(r)
  PROVE  OnceInv'
<1> DEFINE n == req[r].order
           list == ActiveResv(n)
           pc == IF list # {} THEN "release" ELSE AfterRelease(r)
           q == [SetStatus(r) EXCEPT !.list = list, !.held = resv[n], !.pc = pc]
<1>1. /\ req[r].pc \in {"select", "check"} /\ req[r].kind \in {"deliver", "cancel", "return"}
      /\ req[r].kind = "deliver" => req[r].pc = "select"
      /\ UNCHANGED <<tables, locks, raced>>
  BY ReqClaim DEF SelectActive, At, KindsAt
<1>2. /\ q.pc = pc /\ q.order = n /\ q.kind = req[r].kind
      /\ q.seen = req[r].seen /\ q.to.status = Target[req[r].kind]
      /\ q.booked = req[r].booked /\ q.out = req[r].out
      /\ q.list = list /\ q.freed = req[r].freed
  <2> HIDE DEF pc, list
  <2> QED BY ReqClaim DEF SetStatus, Reqs, Order
<1>3. req' = [req EXCEPT ![r] = q]
  BY DEF SelectActive, Go
<1>4. TypeInv'
  BY SelectActiveType DEF OnceInv
<1>5. pc \in {"release", "restock", "commit"} /\ (list # {} => pc = "release")
  BY <1>1, ReqClaim DEF AfterRelease, Claim
<1> HIDE DEF q, pc
<1>6. Claim(q)
  BY <1>1, <1>2, <1>5, ReqClaim DEF Claim
<1>7. Taken(q)
  BY <1>1, <1>2, ReqClaim DEF Claim, Taken
<1> QED BY <1>1, <1>2, <1>3, <1>4, <1>5, <1>6, <1>7, OwnStep DEF locks

LEMMA ReleaseStep ==
  ASSUME OnceInv, NEW r \in Requests, Release(r)
  PROVE  OnceInv'
<1>1. PICK i \in req[r].list :
        Go(r, IF req[r].list \ {i} # {} THEN "release" ELSE AfterRelease(r),
           [req[r] EXCEPT !.list = req[r].list \ {i}, !.freed = @ \cup {i}])
  BY DEF Release
<1>2. /\ req[r].pc = "release" /\ req[r].kind \in {"deliver", "cancel", "return"}
      /\ UNCHANGED <<tables, orderLock, raced>>
  BY ReqClaim DEF Release, KindsAt
<1> DEFINE rest == req[r].list \ {i}
           pc == IF rest # {} THEN "release" ELSE AfterRelease(r)
           q == [req[r] EXCEPT !.list = rest, !.freed = @ \cup {i}, !.pc = pc]
<1>3. /\ q.pc = pc /\ q.order = req[r].order /\ q.kind = req[r].kind
      /\ q.seen = req[r].seen /\ q.to = req[r].to
      /\ q.booked = req[r].booked /\ q.out = req[r].out
      /\ q.list = rest /\ q.freed = req[r].freed \cup {i}
  <2> HIDE DEF pc, rest
  <2> QED BY ReqClaim DEF Reqs
<1>4. req' = [req EXCEPT ![r] = q]
  BY <1>1 DEF Go
<1>5. TypeInv'
  BY ReleaseType DEF OnceInv
<1>6. /\ pc \in {"release", "issue", "restock", "commit"}
      /\ req[r].kind = "deliver" => pc \in {"release", "issue"}
      /\ pc # "release" => rest = {}
  BY <1>2 DEF AfterRelease
<1> HIDE DEF q, pc
<1>7. Claim(q)
  BY <1>2, <1>3, <1>6, ReqClaim DEF Claim
<1>8. Taken(q)
  <2>1. q.list \cup q.freed = req[r].list \cup req[r].freed
    BY <1>3
  <2> QED BY <1>2, <1>3, <2>1, ReqClaim DEF Taken
<1> QED BY <1>2, <1>3, <1>4, <1>5, <1>6, <1>7, <1>8, OwnStep

\* What a delivery deducts a second time is at most what it deducts.
LEMMA IssueAgain ==
  ASSUME TypeInv, NEW r \in Requests, Issue(r), ~Rollback(r)
  PROVE  \E again \in Nat :
           /\ again <= Issued(r)
           /\ req' = [req EXCEPT ![r] = [[req[r] EXCEPT !.out = Issued(r), !.again = again]
                                           EXCEPT !.pc = "commit"]]
<1>1. ~(Issued(r) > Level(r).onHand)
  BY DEF Issue
<1>2. PICK again \in {0, Lesser(Issued(r), Level(r).onHand - Issued(r))} :
        Go(r, "commit", [req[r] EXCEPT !.out = Issued(r), !.again = again])
  BY <1>1 DEF Issue
<1>3. Issued(r) \in Nat /\ Level(r).onHand \in Nat
  <2>1. req[r].pc # "idle"
    BY DEF Issue
  <2> QED BY <2>1, ReqType, LevelType DEF Issued, Reqs, Order
<1>4. again \in Nat /\ again <= Issued(r)
  BY <1>1, <1>3 DEF Lesser
<1>5. req' = [req EXCEPT ![r] = [[req[r] EXCEPT !.out = Issued(r), !.again = again]
                                    EXCEPT !.pc = "commit"]]
  BY <1>2 DEF Go
<1> QED BY <1>4, <1>5

LEMMA IssueStep ==
  ASSUME OnceInv, NEW r \in Requests, Issue(r)
  PROVE  OnceInv'
<1>1. CASE Rollback(r)
  BY <1>1, RollbackStep
<1>2. CASE ~Rollback(r)
  <2>0. PICK again \in Nat :
          req' = [req EXCEPT ![r] = [[req[r] EXCEPT !.out = Issued(r), !.again = again]
                                       EXCEPT !.pc = "commit"]]
    BY <1>2, IssueAgain DEF OnceInv
  <2> DEFINE q == [[req[r] EXCEPT !.out = Issued(r), !.again = again] EXCEPT !.pc = "commit"]
  <2>1. /\ req[r].pc = "issue" /\ req[r].kind = "deliver"
        /\ UNCHANGED <<tables, orderLock, raced>>
    BY <1>2, ReqClaim DEF Issue, KindsAt
  <2>2. /\ q.pc = "commit" /\ q.order = req[r].order /\ q.kind = req[r].kind
        /\ q.seen = req[r].seen /\ q.to = req[r].to /\ q.booked = req[r].booked
        /\ q.list = req[r].list /\ q.freed = req[r].freed
    BY ReqClaim DEF Reqs
  <2>3. req' = [req EXCEPT ![r] = q]
    BY <2>0
  <2>4. TypeInv'
    BY IssueType DEF OnceInv
  <2> HIDE DEF q
  <2>5. Claim(q) /\ Taken(q)
    BY <2>1, <2>2, ReqClaim DEF Claim, Taken
  <2> QED BY <2>1, <2>2, <2>3, <2>4, <2>5, OwnStep
<1> QED BY <1>1, <1>2

LEMMA RestockStep ==
  ASSUME OnceInv, NEW r \in Requests, Restock(r)
  PROVE  OnceInv'
<1> DEFINE q == [req[r] EXCEPT !.back = req[r].seen.shipped, !.pc = "commit"]
<1>1. /\ req[r].pc = "restock" /\ req[r].kind = "return"
      /\ UNCHANGED <<tables, orderLock, raced>>
  BY ReqClaim DEF Restock, KindsAt
<1>2. /\ q.pc = "commit" /\ q.order = req[r].order /\ q.kind = req[r].kind
      /\ q.seen = req[r].seen /\ q.to = req[r].to
      /\ q.booked = req[r].booked /\ q.out = req[r].out
  BY ReqClaim DEF Reqs
<1>3. req' = [req EXCEPT ![r] = q]
  BY DEF Restock, Go
<1>4. TypeInv'
  BY RestockType DEF OnceInv
<1> HIDE DEF q
<1>5. Claim(q) /\ Taken(q)
  BY <1>1, <1>2, ReqClaim DEF Claim, Taken
<1> QED BY <1>1, <1>2, <1>3, <1>4, <1>5, OwnStep

\* What a commit of order n writes.
LEMMA CommitWrites ==
  ASSUME OnceInv, NEW r \in Requests, Commit(r), ~Rollback(r), NEW n, n = req[r].order
  PROVE  /\ n \in Existing /\ n \in Numbers /\ req[r].pc = "commit" /\ OrderFree(r)
         /\ req[r].child > 0 => ChildNumber(r) \notin Existing
         /\ orders' = NewOrders(r) /\ resv' = [resv EXCEPT ![n] = NewResv(r)]
         /\ sold' = [sold EXCEPT ![n] = @ + req[r].out]
         /\ req' = [req EXCEPT ![r] = Idle] /\ Unlock(r) /\ UNCHANGED raced
BY DEF Commit, NumberTaken, Existing

\* What a release leaves of a sequence of reservations.
LEMMA KeptResv ==
  ASSUME NEW s \in Seq(Reservation), NEW freed
  PROVE  LET kept == [i \in DOMAIN s |-> [s[i] EXCEPT !.active = @ /\ i \notin freed]] IN
         /\ kept = <<>> <=> s = <<>>
         /\ {i \in DOMAIN kept : kept[i].active} = {i \in DOMAIN s : s[i].active} \ freed
<1> DEFINE kept == [i \in DOMAIN s |-> [s[i] EXCEPT !.active = @ /\ i \notin freed]]
<1>1. DOMAIN s = 1..Len(s) /\ Len(s) \in Nat /\ DOMAIN kept = DOMAIN s
  OBVIOUS
<1>2. kept = <<>> <=> s = <<>>
  BY <1>1
<1>3. ASSUME NEW i \in DOMAIN s
      PROVE  kept[i].active <=> s[i].active /\ i \notin freed
  <2>1. s[i] \in Reservation
    BY <1>1
  <2>2. kept[i] = [s[i] EXCEPT !.active = @ /\ i \notin freed]
    OBVIOUS
  <2> HIDE DEF kept
  <2> QED BY <2>1, <2>2 DEF Reservation
<1> HIDE DEF kept
<1>4. {i \in DOMAIN kept : kept[i].active} = {i \in DOMAIN s : s[i].active} \ freed
  BY <1>1, <1>3
<1> QED BY <1>2, <1>4 DEF kept

\* The reservations of the order after a commit that deletes nothing.
LEMMA CommitResv ==
  ASSUME OnceInv, NEW r \in Requests, Commit(r), ~Rollback(r), NEW n, n = req[r].order,
         req[r].kind # "delete", req[r].booked = 0
  PROVE  /\ resv'[n] = <<>> <=> resv[n] = <<>>
         /\ ActiveResv(n)' = ActiveResv(n) \ req[r].freed
<1> DEFINE kept == [i \in DOMAIN resv[n] |->
                      [resv[n][i] EXCEPT !.active = @ /\ i \notin req[r].freed]]
<1>1. n \in Numbers /\ resv' = [resv EXCEPT ![n] = NewResv(r)]
  BY CommitWrites
<1>2. resv \in [Numbers -> Seq(Reservation)]
  BY DEF OnceInv, TypeInv, TypeOK
<1>3. NewResv(r) = kept
  BY DEF NewResv
<1>4. resv[n] \in Seq(Reservation)
  BY <1>1, <1>2
<1>5. {i \in DOMAIN kept : kept[i].active} = ActiveResv(n) \ req[r].freed
  BY <1>4, KeptResv DEF ActiveResv
<1>6. kept = <<>> <=> resv[n] = <<>>
  BY <1>4, KeptResv
<1> HIDE DEF kept
<1>7. resv'[n] = kept
  BY <1>1, <1>2, <1>3
<1> QED BY <1>5, <1>6, <1>7 DEF ActiveResv

\* The status of the order after a commit that deletes nothing.
LEMMA CommitStatus ==
  ASSUME OnceInv, NEW r \in Requests, Commit(r), ~Rollback(r), NEW n, n = req[r].order,
         req[r].kind # "delete"
  PROVE  orders'[n].status = IF req[r].to.status = req[r].seen.status
                             THEN orders[n].status ELSE req[r].to.status
<1>1. n \in Numbers /\ orders[n] \in Order /\ orders' = NewOrders(r)
  BY CommitWrites DEF OnceInv, TypeInv, TypeOK
<1>2. orders'[n] = Updated(orders[n], req[r].seen, req[r].to)
  BY <1>1 DEF NewOrders
<1>3. "status" \in DOMAIN orders[n]
  BY <1>1 DEF Order
<1> QED BY <1>2, <1>3 DEF Updated

\* A deduction comes with the release of every active reservation.
LEMMA CommitDeducts ==
  ASSUME OnceInv, NEW r \in Requests, Commit(r), ~Rollback(r), NEW n, n = req[r].order,
         req[r].out # 0
  PROVE  /\ req[r].kind = "deliver" /\ req[r].booked = 0
         /\ req[r].freed = ActiveResv(n) /\ req[r].freed # {}
<1>1. req[r].pc = "commit" /\ Claim(req[r]) /\ Taken(req[r])
  BY CommitWrites, ReqClaim
<1>2. req[r].kind = "deliver" /\ req[r].freed # {} /\ req[r].list = {}
  BY <1>1 DEF Claim
<1>3. req[r].booked = 0
  BY <1>1, <1>2 DEF Claim
<1> QED BY <1>1, <1>2, <1>3 DEF Taken

LEMMA CommitStep ==
  ASSUME OnceInv, NEW r \in Requests, Commit(r)
  PROVE  OnceInv'
<1>1. CASE Rollback(r)
  BY <1>1, RollbackStep
<1>2. CASE ~Rollback(r)
  <2> PICK n : n = req[r].order
    OBVIOUS
  <2>1. /\ n \in Existing /\ n \in Numbers /\ req[r].pc = "commit" /\ OrderFree(r)
        /\ req[r].child > 0 => ChildNumber(r) \notin Existing
        /\ orders' = NewOrders(r) /\ resv' = [resv EXCEPT ![n] = NewResv(r)]
        /\ sold' = [sold EXCEPT ![n] = @ + req[r].out]
        /\ req' = [req EXCEPT ![r] = Idle] /\ Unlock(r) /\ UNCHANGED raced
    BY <1>2, CommitWrites
  <2>2. /\ req \in [Requests -> Reqs] /\ orders \in [Numbers -> Order]
        /\ resv \in [Numbers -> Seq(Reservation)] /\ sold \in [Numbers -> Nat]
    BY DEF OnceInv, TypeInv, TypeOK
  <2>3. /\ req'[r] = Idle /\ Idle.pc = "idle"
        /\ \A p \in Requests \ {r} : req'[p] = req[p]
        /\ Active' = Active \ {r} /\ r \in Active
    BY <2>1, <2>2, IdleType DEF Active
  <2>4. /\ req[r].kind \in AllKinds /\ req[r].seen \in Order /\ Claim(req[r])
        /\ req[r].seen.status \in Statuses /\ Permitted(req[r].kind, req[r].seen)
    BY <2>1, ReqClaim DEF Claim, Reqs
  <2>5. \A m \in Numbers \ {n} : resv'[m] = resv[m] /\ sold'[m] = sold[m]
                                   /\ ActiveResv(m)' = ActiveResv(m)
    BY <2>1, <2>2 DEF ActiveResv
  <2>6. \A m \in Existing \ {n} : orders'[m] = orders[m]
    BY <2>1 DEF NewOrders, Existing
  <2>7. Claims'
    <3> SUFFICES ASSUME NEW p \in Requests, p # r, req[p].pc # "idle",
                        req[p].kind = "deliver"
                 PROVE  Taken(req[p])'
      BY <2>3 DEF OnceInv, Claims, Claim, Taken
    <3>1. req[p].order \in Numbers /\ Claim(req[p]) /\ Taken(req[p])
      BY ReqType, ReqClaim DEF OnceInv
    <3>2. CASE req[p].order # n
      BY <2>3, <2>5, <3>1, <3>2 DEF Taken, ActiveResv
    <3>3. CASE req[p].order = n
      <4>1. req[p].pc = "lock"
        BY <2>1, <3>3, OrderAssumption DEF OnceInv, OrderHeld, OrderFree, Locking
      <4>2. req[p].list = {} /\ req[p].freed = {}
        BY <3>1, <4>1 DEF Claim
      <4> QED BY <2>3, <4>2 DEF Taken
    <3> QED BY <3>2, <3>3
  <2>8. OrderHeld'
    <3>1. \A m \in Numbers : orderLock[m] # r => orderLock'[m] = orderLock[m]
      BY <2>1 DEF Unlock
    <3> QED BY <2>3, <3>1, ReqType DEF OnceInv, OrderHeld
  <2>9. Overlap'
    BY <2>1, <2>3 DEF OnceInv, Overlap, Active
  <2>10. Booked'
    <3> SUFFICES ASSUME NEW m \in Numbers, Clean(m), resv'[m] # <<>>
                 PROVE  /\ orders'[m].status \in Booking
                        /\ \A p \in Active' : req'[p].order = m =>
                                                req'[p].seen.status \in Booking
      BY <2>1 DEF Booked, Clean
    <3>1. \A p \in Active' : p \in Active \ {r} /\ req'[p] = req[p]
      BY <2>3 DEF Active
    <3>2. CASE m # n
      <4>1. resv[m] # <<>> /\ m \in Existing
        BY <2>5, <3>2 DEF OnceInv, Gone
      <4> QED BY <2>6, <3>1, <3>2, <4>1 DEF OnceInv, Booked
    <3>3. CASE m = n
      <4>1. req[r].kind # "delete"
        <5>1. req[r].kind = "delete" => NewResv(r) = <<>>
          BY DEF NewResv
        <5> QED BY <2>1, <2>2, <3>3, <5>1
      <4>2. orders'[n].status = IF req[r].to.status = req[r].seen.status
                                THEN orders[n].status ELSE req[r].to.status
        BY <1>2, <4>1, CommitStatus
      <4>3. CASE req[r].booked # 0
        <5>1. req[r].kind \in {"confirm", "approve"} /\ req[r].to.status = "confirmed"
          BY <2>1, <2>4, <4>3 DEF Claim
        <5>2. req[r].seen.status \notin Booking
          BY <2>4, <5>1, PermittedKinds
        <5>3. orders'[n].status \in Booking
          BY <4>2, <5>1, <5>2 DEF Booking, ReservedStates
        <5>4. \A p \in Active \ {r} : req[p].order # n
          BY <2>3, <3>3, <5>1 DEF OnceInv, Overlap, Clean
        <5> QED BY <3>1, <3>3, <5>3, <5>4
      <4>4. CASE req[r].booked = 0
        <5>1. resv[n] # <<>>
          BY <1>2, <3>3, <4>1, <4>4, CommitResv
        <5>2. /\ orders[n].status \in Booking
              /\ \A p \in Active : req[p].order = n => req[p].seen.status \in Booking
          BY <2>1, <3>3, <5>1 DEF OnceInv, Booked
        <5>3. req[r].kind \notin {"confirm", "approve", "delete"}
              /\ Target[req[r].kind] \in Booking
          BY <2>3, <2>4, <5>2, PermittedKinds
        <5>4. req[r].to.status \in {req[r].seen.status, Target[req[r].kind]}
          BY <2>1, <2>4, <5>3 DEF Claim
        <5>5. orders'[n].status \in Booking
          BY <4>2, <5>2, <5>3, <5>4
        <5> QED BY <3>1, <3>3, <5>2, <5>5
      <4> QED BY <4>3, <4>4
    <3> QED BY <3>2, <3>3
  <2>11. SoldOut'
    <3> SUFFICES ASSUME NEW m \in Numbers, Clean(m), sold'[m] # 0
                 PROVE  resv'[m] # <<>> /\ ActiveResv(m)' = {}
      BY <2>1 DEF SoldOut, Clean
    <3>1. CASE m # n
      BY <2>5, <3>1 DEF OnceInv, SoldOut
    <3>2. CASE m = n
      <4>1. CASE req[r].out # 0
        <5>1. /\ req[r].kind = "deliver" /\ req[r].booked = 0
              /\ req[r].freed = ActiveResv(n) /\ req[r].freed # {}
          BY <1>2, <4>1, CommitDeducts
        <5>2. resv[n] # <<>>
          BY <5>1 DEF ActiveResv
        <5> QED BY <1>2, <3>2, <5>1, <5>2, CommitResv
      <4>2. CASE req[r].out = 0
        <5>1. sold[n] # 0
          BY <2>1, <2>2, <3>2, <4>2
        <5>2. resv[n] # <<>> /\ ActiveResv(n) = {}
          BY <2>1, <3>2, <5>1 DEF OnceInv, SoldOut
        <5>3. req[r].seen.status \in Booking
          BY <2>1, <2>3, <3>2, <5>2 DEF OnceInv, Booked
        <5>4. req[r].kind \notin {"confirm", "approve", "delete"}
          BY <2>4, <5>3, PermittedKinds
        <5>5. req[r].booked = 0
          BY <2>1, <2>4, <5>4 DEF Claim
        <5> QED BY <1>2, <3>2, <5>2, <5>4, <5>5, CommitResv
      <4> QED BY <4>1, <4>2
    <3> QED BY <3>1, <3>2
  <2>12. Gone'
    <3> SUFFICES ASSUME NEW m \in Numbers, m \notin Existing'
                 PROVE  resv'[m] = <<>>
      BY DEF Gone
    <3>1. CASE m # n
      <4>1. m \notin Existing
        BY <2>6, <3>1 DEF Existing
      <4> QED BY <2>5, <3>1, <4>1 DEF OnceInv, Gone
    <3>2. CASE m = n
      <4>1. req[r].kind = "delete"
        <5> SUFFICES ASSUME req[r].kind # "delete" PROVE FALSE
          OBVIOUS
        <5>1. orders'[n].status = IF req[r].to.status = req[r].seen.status
                                  THEN orders[n].status ELSE req[r].to.status
          BY <1>2, CommitStatus
        <5>2. Target[req[r].kind] # "none"
          BY <2>4 DEF Target, AllKinds
        <5>3. req[r].to.status # "none"
          BY <2>1, <2>4, <5>2 DEF Claim, Statuses
        <5> QED BY <2>1, <3>2, <5>1, <5>3 DEF Existing
      <4>2. NewResv(r) = <<>>
        BY <4>1 DEF NewResv
      <4> QED BY <2>1, <2>2, <3>2, <4>2
    <3> QED BY <3>1, <3>2
  <2> QED BY <2>7, <2>8, <2>9, <2>10, <2>11, <2>12, CommitType DEF OnceInv
<1> QED BY <1>1, <1>2

LEMMA OnceInit == Init => OnceInv
<1> SUFFICES ASSUME Init PROVE OnceInv
  OBVIOUS
<1>1. \A r \in Requests : req[r].pc = "idle"
  BY IdleType DEF Init
<1>2. Claims /\ OrderHeld /\ Overlap
  BY <1>1 DEF Claims, Claim, Taken, OrderHeld, Overlap, Active
<1>3. \A n \in Numbers : resv[n] # <<>> => orders[n].status = "shipped"
  <2> SUFFICES ASSUME NEW n \in Numbers, resv[n] # <<>> PROVE orders[n].status = "shipped"
    OBVIOUS
  <2>1. n = Sent /\ Sent # <<>>
    BY OrderAssumption DEF Init
  <2>2. Demand[n] # 0
    BY <2>1, OrderAssumption
  <2>3. orders[n] = InTransit(Demand[n])
    BY <2>1, <2>2 DEF Init
  <2> QED BY <2>3 DEF InTransit, NoOrder
<1>4. Booked
  BY <1>1, <1>3 DEF Booked, Booking, ReservedStates, Active
<1>5. SoldOut
  BY DEF Init, SoldOut
<1>6. Gone
  BY <1>3 DEF Gone, Existing
<1> QED BY <1>2, <1>4, <1>5, <1>6, InitType DEF OnceInv

LEMMA OnceNext == OnceInv /\ [Next]_vars => OnceInv'
<1> SUFFICES ASSUME OnceInv, [Next]_vars PROVE OnceInv'
  OBVIOUS
<1>1. ASSUME UNCHANGED <<orders, resv, sold, orderLock, req, raced>>, TypeInv'
      PROVE  OnceInv'
  BY <1>1 DEF OnceInv, Claims, Claim, Taken, OrderHeld, Overlap, Booked, SoldOut, Gone,
     Active, Existing, ActiveResv, Clean
<1>2. CASE Receive \/ UNCHANGED vars
  BY <1>1, <1>2, NextType DEF Receive, vars, tables, locks, OnceInv
<1>3. ASSUME NEW r \in Requests,
             Read(r) \/ Step(r) \/ DeadlockVictim(r) \/ Abort(r)
      PROVE  OnceInv'
  <2>1. CASE Read(r)
    BY <2>1, ReadStep
  <2>2. CASE Step(r)
    BY <2>2, LoadLockedStep, RequestApprovalStep, AnalyzeStep, ReserveStep, SimpleStep,
       PickStep, ShipStep, SelectActiveStep, ReleaseStep, IssueStep, RestockStep,
       CommitStep DEF Step
  <2>3. CASE DeadlockVictim(r) \/ Abort(r)
    BY <2>3, RollbackStep DEF DeadlockVictim, Abort
  <2> QED BY <1>3, <2>1, <2>2, <2>3
<1> QED BY <1>2, <1>3 DEF Next

\* Only a commit changes what an order has sold.
LEMMA SoldByCommit ==
  ASSUME OnceInv, [Next]_vars, NEW n \in Numbers, sold'[n] # sold[n]
  PROVE  \E r \in Requests : Commit(r) /\ ~Rollback(r) /\ n = req[r].order /\ req[r].out # 0
<1>1. sold' # sold
  OBVIOUS
<1>2. PICK r \in Requests : Commit(r) /\ ~Rollback(r)
  BY <1>1 DEF Next, Step, vars, tables, Receive, Read, LoadLocked, RequestApproval, Analyze,
     Reserve, Simple, Pick, Ship, SelectActive, Release, Issue, Restock, Commit,
     DeadlockVictim, Abort, Rollback
<1>3. /\ sold' = [sold EXCEPT ![req[r].order] = @ + req[r].out]
      /\ req[r].order \in Numbers
  BY <1>2, CommitWrites
<1>4. sold \in [Numbers -> Nat]
  BY DEF OnceInv, TypeInv, TypeOK
<1> QED BY <1>2, <1>3, <1>4

LEMMA DoubledByCommit ==
  ASSUME OnceInv, [Next]_vars, NEW n \in Numbers, doubled'[n] # doubled[n]
  PROVE  \E r \in Requests : Commit(r) /\ ~Rollback(r) /\ n = req[r].order /\ req[r].again # 0
<1>1. doubled' # doubled
  OBVIOUS
<1>2. PICK r \in Requests : Commit(r) /\ ~Rollback(r)
  BY <1>1 DEF Next, Step, vars, tables, Receive, Read, LoadLocked, RequestApproval, Analyze,
     Reserve, Simple, Pick, Ship, SelectActive, Release, Issue, Restock, Commit,
     DeadlockVictim, Abort, Rollback
<1>3. /\ doubled' = [doubled EXCEPT ![req[r].order] = @ + req[r].again]
      /\ doubled \in [Numbers -> Nat] /\ req[r].again \in Nat
  BY <1>2 DEF Commit, OnceInv, TypeInv, TypeOK, Reqs
<1> QED BY <1>2, <1>3

\* What was deducted a second time is at most what was sold.
AgainInv ==
  /\ \A r \in Requests : req[r].again <= req[r].out
  /\ \A n \in Numbers : doubled[n] <= sold[n]

\* A request goes on, and neither sells nor deducts.
Calm(r) ==
  /\ UNCHANGED <<sold, doubled>>
  /\ \A p \in Requests : req'[p].out = req[p].out /\ req'[p].again = req[p].again

LEMMA CalmStep ==
  ASSUME AgainInv, NEW r \in Requests, Calm(r)
  PROVE  AgainInv'
BY DEF AgainInv, Calm

LEMMA GoCalm ==
  ASSUME TypeInv, NEW r \in Requests, NEW pc, NEW q, Go(r, pc, q), UNCHANGED tables,
         [q EXCEPT !.pc = pc].out = req[r].out, [q EXCEPT !.pc = pc].again = req[r].again
  PROVE  Calm(r)
<1> DEFINE p == [q EXCEPT !.pc = pc]
<1>1. req \in [Requests -> Reqs] /\ req' = [req EXCEPT ![r] = p]
  BY DEF TypeInv, TypeOK, Go
<1>2. p.out = req[r].out /\ p.again = req[r].again /\ UNCHANGED <<sold, doubled>>
  BY DEF tables
<1> HIDE DEF p
<1> QED BY <1>1, <1>2 DEF Calm

LEMMA RollbackAgain ==
  ASSUME TypeInv, AgainInv, NEW r \in Requests, Rollback(r)
  PROVE  AgainInv'
<1>1. req' = [req EXCEPT ![r] = Idle] /\ UNCHANGED <<sold, doubled>>
  BY DEF Rollback, tables
<1>2. req \in [Requests -> Reqs] /\ Idle.again <= Idle.out
  BY DEF TypeInv, TypeOK, Idle
<1>3. \A p \in Requests : req'[p].again <= req'[p].out
  BY <1>1, <1>2 DEF AgainInv
<1> QED BY <1>1, <1>3 DEF AgainInv

LEMMA AgainNext == TypeInv /\ TypeInv' /\ AgainInv /\ [Next]_vars => AgainInv'
<1> SUFFICES ASSUME TypeInv, TypeInv', AgainInv, [Next]_vars PROVE AgainInv'
  OBVIOUS
<1>1. ASSUME UNCHANGED <<sold, doubled, req>> PROVE AgainInv'
  BY <1>1 DEF AgainInv
<1>2. CASE UNCHANGED vars \/ Receive
  BY <1>1, <1>2 DEF vars, tables, Receive
<1>3. ASSUME NEW r \in Requests, ~Rollback(r), Read(r) \/ Step(r)
      PROVE  AgainInv'
  <2>1. req \in [Requests -> Reqs] /\ req[r] \in Reqs
    BY DEF TypeInv, TypeOK
  <2>2. CASE Read(r)
    <3>1. UNCHANGED <<sold, doubled>> /\ req[r].pc = "idle"
      BY <2>2 DEF Read, tables
    <3>0. PICK pc, kind, n, k :
            Go(r, pc, [Idle EXCEPT !.kind = kind, !.order = n, !.seen = orders[n],
                                   !.to = orders[n], !.kids = k])
      BY <2>2 DEF Read
    <3> DEFINE q == [[Idle EXCEPT !.kind = kind, !.order = n, !.seen = orders[n],
                                  !.to = orders[n], !.kids = k] EXCEPT !.pc = pc]
    <3>2. req' = [req EXCEPT ![r] = q] /\ q.out = 0 /\ q.again = 0
      BY <3>0 DEF Go, Idle
    <3> HIDE DEF q
    <3>3. \A p \in Requests : req'[p].again <= req'[p].out
      BY <2>1, <3>2 DEF AgainInv
    <3> QED BY <3>1, <3>3 DEF AgainInv
  <2>0. \A pc \in Pcs :
          /\ [req[r] EXCEPT !.pc = pc].out = req[r].out
          /\ [req[r] EXCEPT !.pc = pc].again = req[r].again
          /\ [SetStatus(r) EXCEPT !.pc = pc].out = req[r].out
          /\ [SetStatus(r) EXCEPT !.pc = pc].again = req[r].again
    BY <2>1 DEF SetStatus, Reqs
  <2>3. CASE LoadLocked(r)
    <3>1. UNCHANGED tables /\ Locked(r) /\ req[r].kind \in Locking
      BY <1>3, <2>3, ReqType DEF LoadLocked, KindsAt
    <3>2. \E pc \in Pcs : Go(r, pc, req[r]) \/ Go(r, pc, SetStatus(r))
      BY <3>1 DEF Locked, Locking, Pcs
    <3> QED BY <2>0, <3>1, <3>2, GoCalm, CalmStep
  <2>4. CASE RequestApproval(r)
    <3> DEFINE q == [req[r] EXCEPT !.to.status = "pending_approval"]
    <3>1. UNCHANGED tables /\ Go(r, "commit", q)
      BY <2>4 DEF RequestApproval
    <3>2. [q EXCEPT !.pc = "commit"].out = req[r].out /\ [q EXCEPT !.pc = "commit"].again = req[r].again
      BY <2>1 DEF Reqs
    <3> QED BY <3>1, <3>2, GoCalm, CalmStep
  <2>13. CASE Simple(r)
    <3> DEFINE q == [req[r] EXCEPT !.to = NoOrder]
    <3>1. UNCHANGED tables /\ (Go(r, "commit", q) \/ Go(r, "commit", SetStatus(r)))
      BY <2>13 DEF Simple
    <3>2. [q EXCEPT !.pc = "commit"].out = req[r].out /\ [q EXCEPT !.pc = "commit"].again = req[r].again
      BY <2>1 DEF Reqs
    <3> QED BY <2>0, <3>1, <3>2, GoCalm, CalmStep DEF Pcs
  <2>14. CASE Pick(r)
    <3>1. UNCHANGED tables /\ Go(r, "commit", SetStatus(r))
      BY <1>3, <2>14 DEF Pick
    <3> QED BY <2>0, <3>1, GoCalm, CalmStep DEF Pcs
  <2>5. CASE Analyze(r)
    <3>1. PICK take, short :
            UNCHANGED tables /\ Go(r, "reserve", [req[r] EXCEPT !.to.qty = take, !.child = short])
      BY <1>3, <2>5 DEF Analyze
    <3> DEFINE q == [req[r] EXCEPT !.to.qty = take, !.child = short]
    <3>2. [q EXCEPT !.pc = "reserve"].out = req[r].out
          /\ [q EXCEPT !.pc = "reserve"].again = req[r].again
      BY <2>1 DEF Reqs
    <3> QED BY <3>1, <3>2, GoCalm, CalmStep
  <2>6. CASE Reserve(r)
    <3>1. PICK qty : /\ UNCHANGED tables
                     /\ Go(r, "commit", [req[r] EXCEPT !.booked = qty, !.to.status = "confirmed"])
      BY <1>3, <2>6 DEF Reserve, tables
    <3> DEFINE q == [req[r] EXCEPT !.booked = qty, !.to.status = "confirmed"]
    <3>2. [q EXCEPT !.pc = "commit"].out = req[r].out /\ [q EXCEPT !.pc = "commit"].again = req[r].again
      BY <2>1 DEF Reqs
    <3> QED BY <3>1, <3>2, GoCalm, CalmStep
  <2>7. CASE Ship(r)
    <3>1. UNCHANGED tables
      BY <1>3, <2>7 DEF Ship
    <3>2. PICK qty \in 0..level.onHand :
            Go(r, "commit", [SetStatus(r) EXCEPT !.to.shipped = qty,
                 !.child = LeftOver(r, qty),
                 !.to.qty = IF LeftOver(r, qty) > 0 /\ qty > 0 THEN qty ELSE @])
      BY <1>3, <2>7 DEF Ship
    <3> DEFINE q == [SetStatus(r) EXCEPT !.to.shipped = qty,
                       !.child = LeftOver(r, qty),
                       !.to.qty = IF LeftOver(r, qty) > 0 /\ qty > 0 THEN qty ELSE @]
    <3>3. SetStatus(r) \in Reqs /\ SetStatus(r).out = req[r].out
          /\ SetStatus(r).again = req[r].again
      <4>1. req[r].kind # "delete"
        BY <2>7 DEF Ship, At
      <4> QED BY <2>1, <4>1, SetStatusType DEF SetStatus, Reqs
    <3>4. [q EXCEPT !.pc = "commit"].out = req[r].out /\ [q EXCEPT !.pc = "commit"].again = req[r].again
      BY <3>3 DEF Reqs
    <3>5. Go(r, "commit", q)
      BY <3>2
    <3> HIDE DEF q
    <3> QED BY <3>1, <3>4, <3>5, GoCalm, CalmStep
  <2>8. CASE SelectActive(r)
    <3>1. PICK pc, list, held :
            /\ UNCHANGED tables
            /\ Go(r, pc, [SetStatus(r) EXCEPT !.list = list, !.held = held])
      BY <2>8 DEF SelectActive
    <3> DEFINE q == [SetStatus(r) EXCEPT !.list = list, !.held = held]
    <3>2. SetStatus(r) \in Reqs /\ SetStatus(r).out = req[r].out
          /\ SetStatus(r).again = req[r].again
      <4>1. req[r].kind # "delete"
        BY <2>8, ReqType DEF SelectActive, At, KindsAt
      <4> QED BY <2>1, <4>1, SetStatusType DEF SetStatus, Reqs
    <3>3. [q EXCEPT !.pc = pc].out = req[r].out /\ [q EXCEPT !.pc = pc].again = req[r].again
      BY <3>2 DEF Reqs
    <3> QED BY <3>1, <3>3, GoCalm, CalmStep
  <2>9. CASE Release(r)
    <3>1. PICK pc, rest, i :
            /\ UNCHANGED tables
            /\ Go(r, pc, [req[r] EXCEPT !.list = rest, !.freed = @ \cup {i}])
      BY <2>9 DEF Release, tables
    <3> DEFINE q == [req[r] EXCEPT !.list = rest, !.freed = @ \cup {i}]
    <3>2. [q EXCEPT !.pc = pc].out = req[r].out /\ [q EXCEPT !.pc = pc].again = req[r].again
      BY <2>1 DEF Reqs
    <3> QED BY <3>1, <3>2, GoCalm, CalmStep
  <2>10. CASE Restock(r)
    <3>1. PICK qty : UNCHANGED tables /\ Go(r, "commit", [req[r] EXCEPT !.back = qty])
      BY <2>10 DEF Restock, tables
    <3> DEFINE q == [req[r] EXCEPT !.back = qty]
    <3>2. [q EXCEPT !.pc = "commit"].out = req[r].out /\ [q EXCEPT !.pc = "commit"].again = req[r].again
      BY <2>1 DEF Reqs
    <3> QED BY <3>1, <3>2, GoCalm, CalmStep
  <2>11. CASE Issue(r)
    <3>1. PICK again \in Nat :
            /\ again <= Issued(r)
            /\ req' = [req EXCEPT ![r] = [[req[r] EXCEPT !.out = Issued(r), !.again = again]
                                            EXCEPT !.pc = "commit"]]
      BY <1>3, <2>11, IssueAgain
    <3>2. UNCHANGED <<sold, doubled>>
      BY <1>3, <2>11 DEF Issue, tables
    <3>3. \A p \in Requests : req'[p].again <= req'[p].out
      BY <2>1, <3>1 DEF AgainInv, Reqs
    <3> QED BY <3>2, <3>3 DEF AgainInv
  <2>12. CASE Commit(r)
    <3>1. /\ sold' = [sold EXCEPT ![req[r].order] = @ + req[r].out]
          /\ doubled' = [doubled EXCEPT ![req[r].order] = @ + req[r].again]
          /\ req' = [req EXCEPT ![r] = Idle]
      BY <1>3, <2>12 DEF Commit
    <3>2. /\ sold \in [Numbers -> Nat] /\ doubled \in [Numbers -> Nat]
          /\ req[r].out \in Nat /\ req[r].again \in Nat
      BY <2>1 DEF TypeInv, TypeOK, Reqs
    <3>3. \A n \in Numbers : doubled'[n] <= sold'[n]
      BY <3>1, <3>2 DEF AgainInv
    <3>4. \A p \in Requests : req'[p].again <= req'[p].out
      BY <2>1, <3>1 DEF AgainInv, Idle
    <3> QED BY <3>3, <3>4 DEF AgainInv
  <2> QED BY <1>3, <2>2, <2>3, <2>4, <2>5, <2>6, <2>7, <2>8, <2>9, <2>10, <2>11, <2>12,
            <2>13, <2>14 DEF Step
<1>4. ASSUME NEW r \in Requests, DeadlockVictim(r) \/ Abort(r) \/ Rollback(r)
      PROVE  AgainInv'
  BY <1>4, RollbackAgain DEF DeadlockVictim, Abort
<1> QED BY <1>2, <1>3, <1>4 DEF Next

\* An order whose confirmation did not overlap another request has its stock
\* deducted by at most one delivery, however many deliveries, cancellations,
\* shipments and returns of it overlap, and that delivery deducts at most twice
\* what it sells.
THEOREM OnlyOneDeliveryDeducts == Spec => OneDeliveryDeducts
<1> DEFINE Deducts(n) ==
      Deducted(n)' # Deducted(n) /\ raced[n] \cap {"confirm", "approve"} = {} =>
        Deducted(n) = 0 /\ doubled'[n] <= sold'[n]
<1>1. OnceInv /\ OnceInv' /\ AgainInv /\ AgainInv' /\ [Next]_vars
        => [\A n \in Numbers : Deducts(n)]_vars
  <2> SUFFICES ASSUME OnceInv, OnceInv', AgainInv, AgainInv', [Next]_vars, NEW n \in Numbers,
                      Deducted(n)' # Deducted(n), Clean(n)
               PROVE  Deducted(n) = 0 /\ doubled'[n] <= sold'[n]
    BY DEF Clean
  <2>1. /\ sold[n] \in Nat /\ doubled[n] \in Nat /\ doubled[n] <= sold[n]
        /\ doubled'[n] <= sold'[n]
    BY DEF OnceInv, TypeInv, TypeOK, AgainInv
  <2>2. sold'[n] # sold[n]
    <3> SUFFICES ASSUME sold'[n] = sold[n] PROVE FALSE
      OBVIOUS
    <3>1. doubled'[n] # doubled[n]
      BY DEF Deducted
    <3>2. PICK r \in Requests : Commit(r) /\ ~Rollback(r) /\ n = req[r].order
                                 /\ req[r].again # 0
      BY <3>1, DoubledByCommit
    <3>3. req[r].out \in Nat /\ req[r].again \in Nat /\ req[r].again <= req[r].out
      BY DEF OnceInv, TypeInv, TypeOK, AgainInv, Reqs
    <3>4. sold' = [sold EXCEPT ![n] = @ + req[r].out] /\ sold \in [Numbers -> Nat]
      BY <3>2, CommitWrites DEF OnceInv, TypeInv, TypeOK
    <3> QED BY <2>1, <3>2, <3>3, <3>4
  <2>3. PICK r \in Requests : Commit(r) /\ ~Rollback(r) /\ n = req[r].order /\ req[r].out # 0
    BY <2>2, SoldByCommit
  <2>4. ActiveResv(n) # {}
    BY <2>3, CommitDeducts
  <2>5. sold[n] = 0
    BY <2>4 DEF OnceInv, SoldOut
  <2> QED BY <2>1, <2>5 DEF Deducted
<1>2. Init => AgainInv
  BY DEF Init, AgainInv, Idle
<1>3. OnceInv => TypeInv
  BY DEF OnceInv
<1> QED BY <1>1, <1>2, <1>3, OnceInit, OnceNext, AgainNext, PTL
        DEF Spec, OneDeliveryDeducts

(***************************************************************************)
(* What a request has written into its order, by the point it has reached. *)
(***************************************************************************)
Rest(q) == <<q.child, q.booked, q.out, q.back>>

\* Nothing but the loaded row.
Bare(q) == q.to = q.seen /\ Rest(q) = <<0, 0, 0, 0>>

\* What is confirmed and what becomes a backorder is what was asked for.
Halves(q) ==
  /\ q.to.shipped = q.seen.shipped
  /\ q.to.qty > 0 /\ q.to.qty + q.child = q.seen.qty
  /\ q.out = 0 /\ q.back = 0

\* Only the status changes.
Moved(q) ==
  /\ q.to.status = Target[q.kind]
  /\ q.to.qty = q.seen.qty /\ q.to.shipped = q.seen.shipped
  /\ q.child = 0 /\ q.booked = 0

Written(q) ==
  CASE q.kind \in {"confirm", "approve"} ->
         /\ Halves(q)
         /\ \/ q.to.status = "confirmed" /\ q.booked = q.to.qty
            \/ q.to.status = "pending_approval" /\ q.booked = 0 /\ q.child = 0
    [] q.kind = "ship" ->
         /\ q.to.status = "shipped" /\ q.to.qty > 0
         /\ q.booked = 0 /\ q.out = 0 /\ q.back = 0
         /\ q.child = IF IsBackorder(q.order) THEN 0
                      ELSE AtLeastZero(q.seen.qty - q.to.shipped)
    [] q.kind = "delete" -> q.to = NoOrder /\ Rest(q) = <<0, 0, 0, 0>>
    [] OTHER ->
         /\ Moved(q)
         /\ q.out = IF q.kind = "deliver" /\ q.freed # {} THEN q.seen.shipped ELSE 0
         /\ q.kind # "return" => q.back = 0

Story(q) ==
  CASE q.pc = "idle" -> q = Idle
    [] q.pc \in {"lock", "check", "analyze", "select"} -> Bare(q)
    [] q.pc = "reserve" -> Halves(q) /\ q.booked = 0 /\ q.to.status = q.seen.status
    [] q.pc \in {"release", "issue", "restock"} -> Moved(q) /\ q.out = 0 /\ q.back = 0
    [] q.pc = "commit" -> Written(q)

\* A request that has selected the reservations of its order.
Frees(q) ==
  /\ q.kind \in {"deliver", "cancel", "return"}
  /\ q.pc \in {"release", "issue", "restock", "commit"}
  /\ q.kind = "cancel" => q.seen.status \in ReservedStates

Course(q) ==
  /\ ~Frees(q) => q.list = {} /\ q.freed = {}
  /\ q.pc = "release" <=> q.list # {}
  /\ q.pc = "select" /\ q.kind = "cancel" => q.seen.status \in ReservedStates

Told(q) == Story(q) /\ Course(q) /\ (q.pc # "idle" => q.seen.qty > 0)

\* No order asks for nothing.
StoryInv ==
  /\ \A r \in Requests : Told(req[r])
  /\ \A n \in Existing : orders[n].qty > 0

\* A request goes on: what it loaded stays.
Goes(r, q) ==
  /\ q \in Reqs /\ req' = [req EXCEPT ![r] = q]
  /\ q.order = req[r].order /\ q.kind = req[r].kind /\ q.seen = req[r].seen

LEMMA GoesOn ==
  ASSUME TypeInv, TypeInv', NEW r \in Requests, NEW q, req' = [req EXCEPT ![r] = q]
  PROVE  /\ q \in Reqs /\ req'[r] = q
         /\ \A p \in Requests \ {r} : req'[p] = req[p]
BY DEF TypeInv, TypeOK

LEMMA ToldIdle == Told(Idle)
BY DEF Told, Story, Course, Frees, Idle

LEMMA StoryStep ==
  ASSUME StoryInv, TypeInv, TypeInv', NEW r \in Requests, NEW q,
         req' = [req EXCEPT ![r] = q], Told(q), UNCHANGED orders
  PROVE  StoryInv'
<1>1. \A p \in Requests : Told(req'[p])
  BY GoesOn DEF StoryInv
<1>2. \A n \in Existing' : orders'[n].qty > 0
  BY DEF StoryInv, Existing
<1> QED BY <1>1, <1>2 DEF StoryInv

LEMMA RollbackStory ==
  ASSUME StoryInv, TypeInv, TypeInv', NEW r \in Requests, Rollback(r)
  PROVE  StoryInv'
BY ToldIdle, StoryStep DEF Rollback, tables

\* What set_status makes of a request.
LEMMA SetStatusMove ==
  ASSUME TypeInv, StoryInv, NEW r \in Requests, req[r].kind # "delete",
         req[r].pc \in {"lock", "check", "select"}
  PROVE  /\ SetStatus(r) \in Reqs
         /\ SetStatus(r).order = req[r].order /\ SetStatus(r).kind = req[r].kind
         /\ SetStatus(r).seen = req[r].seen
         /\ SetStatus(r).list = req[r].list /\ SetStatus(r).freed = req[r].freed
         /\ SetStatus(r).held = req[r].held
         /\ SetStatus(r).out = 0 /\ SetStatus(r).back = 0
         /\ Moved(SetStatus(r))
<1>1. req[r] \in Reqs /\ Told(req[r]) /\ SetStatus(r) \in Reqs
  BY ReqType, SetStatusType DEF StoryInv
<1>2. Bare(req[r])
  BY <1>1 DEF Told, Story
<1>3. /\ req[r].to = req[r].seen /\ req[r].child = 0 /\ req[r].booked = 0
      /\ req[r].out = 0 /\ req[r].back = 0
  BY <1>2 DEF Bare, Rest
<1>4. req[r].seen \in Order
  BY <1>1 DEF Reqs
<1> QED BY <1>1, <1>3, <1>4 DEF SetStatus, Moved, Reqs, Order

LEMMA StatusMove ==
  ASSUME TypeInv, StoryInv, NEW r \in Requests, req[r].kind # "delete",
         req[r].pc \in {"lock", "check"}, Go(r, "commit", SetStatus(r))
  PROVE  \E q : /\ Goes(r, q) /\ q.pc = "commit" /\ q.out = 0 /\ q.back = 0
                /\ q.list = {} /\ q.freed = {} /\ Moved(q)
<1> DEFINE s == SetStatus(r)
           q == [s EXCEPT !.pc = "commit"]
<1>1. /\ s \in Reqs /\ s.order = req[r].order /\ s.kind = req[r].kind
      /\ s.seen = req[r].seen /\ s.list = req[r].list /\ s.freed = req[r].freed
      /\ s.out = 0 /\ s.back = 0 /\ Moved(s)
  BY SetStatusMove
<1>2. req' = [req EXCEPT ![r] = q]
  BY DEF Go
<1>3. Told(req[r]) /\ req[r].list = {} /\ req[r].freed = {}
  BY DEF StoryInv, Told, Course, Frees
<1> HIDE DEF s
<1>4. /\ q \in Reqs /\ q.pc = "commit" /\ q.order = s.order /\ q.kind = s.kind
      /\ q.seen = s.seen /\ q.list = s.list /\ q.freed = s.freed
      /\ q.out = s.out /\ q.back = s.back /\ q.to = s.to /\ q.child = s.child
      /\ q.booked = s.booked
  BY <1>1 DEF Reqs, Pcs
<1>5. Moved(q)
  BY <1>1, <1>4 DEF Moved
<1> HIDE DEF q
<1>6. Goes(r, q)
  BY <1>1, <1>2, <1>4 DEF Goes
<1> WITNESS q
<1> QED BY <1>1, <1>3, <1>4, <1>5, <1>6

LEMMA StatusStory ==
  ASSUME OnceInv, TypeInv', StoryInv, NEW r \in Requests,
         req[r].kind \in {"reject", "resubmit", "pick", "cancel"},
         req[r].pc \in {"lock", "check"}, Go(r, "commit", SetStatus(r)),
         req[r].kind = "cancel" => req[r].seen.status \notin ReservedStates,
         UNCHANGED orders
  PROVE  StoryInv'
<1>1. PICK q : /\ Goes(r, q) /\ q.pc = "commit" /\ q.out = 0 /\ q.back = 0
               /\ q.list = {} /\ q.freed = {} /\ Moved(q)
  BY StatusMove DEF OnceInv
<1>2. Told(req[r])
  BY DEF StoryInv
<1>3. Story(q)
  BY <1>1 DEF Goes, Story, Written
<1>4. Course(q)
  BY <1>1 DEF Goes, Course, Frees
<1>5. q.seen.qty > 0
  BY <1>1, <1>2 DEF Goes, Told
<1> QED BY <1>1, <1>3, <1>4, <1>5, StoryStep DEF Goes, Told, OnceInv

LEMMA ReadStory ==
  ASSUME OnceInv, TypeInv', StoryInv, NEW r \in Requests, Read(r)
  PROVE  StoryInv'
<1>1. PICK kind \in Kinds, n \in Existing :
        Go(r, IF kind \in Locking THEN "lock" ELSE "check",
           [Idle EXCEPT !.kind = kind, !.order = n, !.seen = orders[n],
                        !.to = orders[n], !.kids = Cardinality(Backorders(n))])
  BY DEF Read
<1> DEFINE q == [Idle EXCEPT !.kind = kind, !.order = n, !.seen = orders[n],
                             !.to = orders[n], !.kids = Cardinality(Backorders(n)),
                             !.pc = IF kind \in Locking THEN "lock" ELSE "check"]
<1>2. /\ q.pc \in {"lock", "check"} /\ q.to = orders[n] /\ q.seen = orders[n]
      /\ Rest(q) = <<0, 0, 0, 0>> /\ q.list = {} /\ q.freed = {}
  BY DEF Idle, Rest
<1>3. req' = [req EXCEPT ![r] = q] /\ UNCHANGED orders
  BY <1>1 DEF Go, Read, tables
<1> HIDE DEF q
<1>4. orders[n].qty > 0
  BY DEF StoryInv
<1>5. Told(q)
  BY <1>2, <1>4 DEF Told, Story, Bare, Course, Frees
<1> QED BY <1>3, <1>5, StoryStep DEF OnceInv

LEMMA LoadLockedStory ==
  ASSUME OnceInv, TypeInv', StoryInv, NEW r \in Requests, LoadLocked(r)
  PROVE  StoryInv'
<1>1. CASE req[r].order \notin Existing
  BY <1>1, RollbackStory DEF LoadLocked, OnceInv
<1>2. CASE req[r].order \in Existing
  <2>1. /\ req[r].pc = "lock" /\ Locked(r) /\ UNCHANGED <<tables, raced>>
        /\ req[r].kind \in Locking /\ UNCHANGED orders
    BY <1>2, ReqClaim DEF LoadLocked, KindsAt, tables
  <2>2. ASSUME NEW pc \in {"analyze", "select"}, Go(r, pc, req[r]),
               pc = "select" /\ req[r].kind = "cancel"
                 => req[r].seen.status \in ReservedStates
        PROVE  StoryInv'
    <3> DEFINE q == [req[r] EXCEPT !.pc = pc]
    <3>1. /\ q.pc = pc /\ q.kind = req[r].kind /\ q.to = req[r].to
          /\ q.seen = req[r].seen /\ Rest(q) = Rest(req[r])
          /\ q.list = req[r].list /\ q.freed = req[r].freed
      BY ReqClaim DEF Reqs, Rest
    <3>2. req' = [req EXCEPT ![r] = q]
      BY <2>2 DEF Go
    <3> HIDE DEF q
    <3>3. Told(req[r])
      BY DEF StoryInv
    <3>4. Story(q)
      BY <2>1, <3>1, <3>3 DEF Told, Story, Bare
    <3>5. Course(q) /\ q.seen.qty > 0
      BY <2>1, <2>2, <3>1, <3>3 DEF Told, Course, Frees
    <3> QED BY <2>1, <3>2, <3>4, <3>5, StoryStep DEF Told, OnceInv
  <2>3. CASE Go(r, "commit", SetStatus(r)) /\ req[r].kind = "cancel"
              /\ req[r].seen.status \notin ReservedStates
    BY <2>1, <2>3, StatusStory
  <2> QED BY <2>1, <2>2, <2>3 DEF Locked, Locking
<1> QED BY <1>1, <1>2

LEMMA RequestApprovalStory ==
  ASSUME OnceInv, TypeInv', StoryInv, NEW r \in Requests, RequestApproval(r)
  PROVE  StoryInv'
<1> DEFINE q == [req[r] EXCEPT !.to = [req[r].to EXCEPT !.status = "pending_approval"],
                               !.pc = "commit"]
<1>1. req[r].pc = "analyze" /\ req[r].kind = "confirm" /\ UNCHANGED orders
  BY DEF RequestApproval, At, tables
<1>2. /\ q.pc = "commit" /\ q.kind = req[r].kind /\ q.seen = req[r].seen
      /\ q.to.status = "pending_approval" /\ q.to.qty = req[r].to.qty
      /\ q.to.shipped = req[r].to.shipped /\ Rest(q) = Rest(req[r])
      /\ q.list = req[r].list /\ q.freed = req[r].freed
  BY ReqClaim DEF Reqs, Order, Rest
<1>3. req' = [req EXCEPT ![r] = q]
  BY DEF RequestApproval, Go
<1> HIDE DEF q
<1>4. Told(req[r]) /\ req[r] \in Reqs
  BY ReqClaim DEF StoryInv
<1>5. /\ req[r].to = req[r].seen /\ Rest(q) = <<0, 0, 0, 0>> /\ q.seen.qty > 0
      /\ q.list = {} /\ q.freed = {} /\ q.seen.qty \in Nat
  BY <1>1, <1>2, <1>4 DEF Told, Story, Bare, Course, Frees, Reqs, Order
<1>6. q.to.qty + q.child = q.seen.qty /\ q.to.qty > 0
  BY <1>2, <1>5 DEF Rest
<1>7. Story(q)
  BY <1>1, <1>2, <1>5, <1>6 DEF Story, Written, Halves, Rest
<1>8. Course(q)
  BY <1>1, <1>2, <1>5 DEF Course, Frees
<1> QED BY <1>1, <1>3, <1>5, <1>7, <1>8, StoryStep DEF Told, OnceInv

LEMMA AnalyzeStory ==
  ASSUME OnceInv, TypeInv', StoryInv, NEW r \in Requests, Analyze(r)
  PROVE  StoryInv'
<1>1. CASE Rollback(r)
  BY <1>1, RollbackStory DEF OnceInv
<1>2. CASE ~Rollback(r)
  <2> PICK take : take = Lesser(req[r].seen.qty,
                                AtLeastZero(Level(r).onHand - Level(r).reserved))
    OBVIOUS
  <2> DEFINE q == [req[r] EXCEPT !.to = [req[r].to EXCEPT !.qty = take],
                                 !.child = req[r].seen.qty - take, !.pc = "reserve"]
  <2>1. /\ req[r].pc = "analyze" /\ req[r].kind \in {"confirm", "approve"}
        /\ UNCHANGED orders /\ take # 0
    BY <1>2 DEF Analyze, At, tables
  <2>2. req' = [req EXCEPT ![r] = q]
    BY <1>2 DEF Analyze, Go
  <2>3. Told(req[r]) /\ req[r] \in Reqs /\ req[r].seen.qty \in Nat
        /\ Level(r).onHand \in Nat /\ Level(r).reserved \in Nat
    BY ReqClaim, LevelType DEF StoryInv, Reqs, Order, OnceInv
  <2>4. take \in 0..req[r].seen.qty
    BY <2>3 DEF Lesser, AtLeastZero
  <2>5. /\ q.pc = "reserve" /\ q.kind = req[r].kind /\ q.seen = req[r].seen
        /\ q.to.status = req[r].to.status /\ q.to.qty = take
        /\ q.to.shipped = req[r].to.shipped /\ q.child = req[r].seen.qty - take
        /\ q.booked = req[r].booked /\ q.out = req[r].out /\ q.back = req[r].back
        /\ q.list = req[r].list /\ q.freed = req[r].freed
    BY <2>3 DEF Reqs, Order
  <2> HIDE DEF q
  <2>6. /\ req[r].to = req[r].seen /\ Rest(req[r]) = <<0, 0, 0, 0>> /\ q.seen.qty > 0
        /\ q.list = {} /\ q.freed = {}
    BY <2>1, <2>3, <2>5 DEF Told, Story, Bare, Course, Frees
  <2>7. q.to.qty + q.child = q.seen.qty /\ q.to.qty > 0
    BY <2>1, <2>3, <2>4, <2>5
  <2>8. Story(q)
    BY <2>1, <2>5, <2>6, <2>7 DEF Story, Halves, Rest
  <2>9. Course(q)
    BY <2>1, <2>5, <2>6 DEF Course, Frees
  <2> QED BY <2>1, <2>2, <2>6, <2>8, <2>9, StoryStep DEF Told, OnceInv
<1> QED BY <1>1, <1>2

LEMMA ReserveStory ==
  ASSUME OnceInv, TypeInv', StoryInv, NEW r \in Requests, Reserve(r)
  PROVE  StoryInv'
<1>1. CASE Rollback(r)
  BY <1>1, RollbackStory DEF OnceInv
<1>2. CASE ~Rollback(r)
  <2> DEFINE q == [req[r] EXCEPT !.booked = req[r].to.qty,
                                 !.to = [req[r].to EXCEPT !.status = "confirmed"],
                                 !.pc = "commit"]
  <2>1. /\ req[r].pc = "reserve" /\ req[r].kind \in {"confirm", "approve"}
        /\ UNCHANGED orders
    BY <1>2, ReqClaim DEF Reserve, KindsAt, tables
  <2>2. /\ q.pc = "commit" /\ q.kind = req[r].kind /\ q.seen = req[r].seen
        /\ q.to.status = "confirmed" /\ q.to.qty = req[r].to.qty
        /\ q.to.shipped = req[r].to.shipped /\ q.booked = req[r].to.qty
        /\ q.child = req[r].child /\ q.out = req[r].out /\ q.back = req[r].back
        /\ q.list = req[r].list /\ q.freed = req[r].freed
    BY ReqClaim DEF Reqs, Order
  <2>3. req' = [req EXCEPT ![r] = q]
    BY <1>2 DEF Reserve, Go
  <2> HIDE DEF q
  <2>4. Told(req[r])
    BY DEF StoryInv
  <2>5. Halves(req[r]) /\ q.seen.qty > 0 /\ q.list = {} /\ q.freed = {}
    BY <2>1, <2>2, <2>4 DEF Told, Story, Course, Frees
  <2>6. Story(q)
    BY <2>1, <2>2, <2>5 DEF Story, Written, Halves
  <2>7. Course(q)
    BY <2>1, <2>2, <2>5 DEF Course, Frees
  <2> QED BY <2>1, <2>3, <2>5, <2>6, <2>7, StoryStep DEF Told, OnceInv
<1> QED BY <1>1, <1>2

LEMMA SimpleStory ==
  ASSUME OnceInv, TypeInv', StoryInv, NEW r \in Requests, Simple(r)
  PROVE  StoryInv'
<1>1. /\ req[r].pc = "check" /\ req[r].kind \in {"reject", "resubmit", "delete"}
      /\ UNCHANGED orders
  BY DEF Simple, At, tables
<1>2. CASE req[r].kind = "delete"
  <2> DEFINE q == [req[r] EXCEPT !.to = NoOrder, !.pc = "commit"]
  <2>1. /\ q.pc = "commit" /\ q.kind = req[r].kind /\ q.seen = req[r].seen
        /\ q.to = NoOrder /\ Rest(q) = Rest(req[r])
        /\ q.list = req[r].list /\ q.freed = req[r].freed
    BY ReqClaim DEF Reqs, Rest
  <2>2. req' = [req EXCEPT ![r] = q]
    BY <1>2 DEF Simple, Go
  <2> HIDE DEF q
  <2>3. Told(req[r])
    BY DEF StoryInv
  <2>4. Rest(q) = <<0, 0, 0, 0>> /\ q.seen.qty > 0 /\ q.list = {} /\ q.freed = {}
    BY <1>1, <2>1, <2>3 DEF Told, Story, Bare, Course, Frees
  <2>5. Story(q)
    BY <1>2, <2>1, <2>4 DEF Story, Written
  <2>6. Course(q)
    BY <2>1, <2>4, <1>1 DEF Course, Frees
  <2> QED BY <1>1, <2>2, <2>4, <2>5, <2>6, StoryStep DEF Told, OnceInv
<1>3. CASE req[r].kind # "delete"
  BY <1>1, <1>3, StatusStory DEF Simple
<1> QED BY <1>2, <1>3

LEMMA PickStory ==
  ASSUME OnceInv, TypeInv', StoryInv, NEW r \in Requests, Pick(r)
  PROVE  StoryInv'
<1>1. \/ Rollback(r)
      \/ Go(r, "commit", SetStatus(r)) /\ UNCHANGED <<tables, locks, raced>>
  BY DEF Pick
<1>2. req[r].pc = "check" /\ req[r].kind = "pick"
  BY DEF Pick, At
<1> QED BY <1>1, <1>2, RollbackStory, StatusStory DEF OnceInv, tables

LEMMA ShipStory ==
  ASSUME OnceInv, TypeInv', StoryInv, NEW r \in Requests, Ship(r)
  PROVE  StoryInv'
<1>1. CASE Rollback(r)
  BY <1>1, RollbackStory DEF OnceInv
<1>2. CASE ~Rollback(r)
  <2>1. PICK qty \in 0..level.onHand :
          Go(r, "commit", [SetStatus(r) EXCEPT !.to.shipped = qty,
               !.child = LeftOver(r, qty),
               !.to.qty = IF LeftOver(r, qty) > 0 /\ qty > 0 THEN qty ELSE @])
    BY <1>2 DEF Ship
  <2>2. /\ req[r].pc = "check" /\ req[r].kind = "ship" /\ UNCHANGED orders
    BY <1>2 DEF Ship, At, tables
  <2> PICK left : left = LeftOver(r, qty)
    OBVIOUS
  <2> DEFINE s == SetStatus(r)
             q == [s EXCEPT !.to.shipped = qty, !.child = left,
                     !.to.qty = IF left > 0 /\ qty > 0 THEN qty ELSE @,
                     !.pc = "commit"]
  <2>3. /\ s \in Reqs /\ s.order = req[r].order /\ s.kind = req[r].kind
        /\ s.seen = req[r].seen /\ s.list = req[r].list /\ s.freed = req[r].freed
        /\ s.out = 0 /\ s.back = 0 /\ Moved(s)
    BY <2>2, SetStatusMove DEF OnceInv
  <2>4. req' = [req EXCEPT ![r] = q]
    BY <2>1 DEF Go
  <2> HIDE DEF s
  <2>5. /\ q.pc = "commit" /\ q.order = s.order /\ q.kind = s.kind
        /\ q.seen = s.seen /\ q.list = s.list /\ q.freed = s.freed
        /\ q.out = s.out /\ q.back = s.back /\ q.child = left /\ q.booked = s.booked
        /\ q.to.status = s.to.status /\ q.to.shipped = qty
        /\ q.to.qty = IF left > 0 /\ qty > 0 THEN qty ELSE s.to.qty
    BY <2>3 DEF Reqs, Order
  <2> HIDE DEF q
  <2>6. Told(req[r])
    BY DEF StoryInv
  <2>7. q.list = {} /\ q.freed = {} /\ q.seen.qty > 0
    BY <2>2, <2>3, <2>5, <2>6 DEF Told, Course, Frees
  <2>8. q.to.qty > 0
    BY <2>3, <2>5, <2>7 DEF Moved
  <2>9. Story(q)
    BY <2>2, <2>3, <2>5, <2>8 DEF Story, Written, Moved, Target, LeftOver
  <2>10. Course(q)
    BY <2>2, <2>3, <2>5, <2>7 DEF Course, Frees
  <2> QED BY <2>2, <2>4, <2>7, <2>9, <2>10, StoryStep DEF Told, OnceInv
<1> QED BY <1>1, <1>2

\* A request selects the active reservations of its order, or goes on without.
LEMMA SelectMove ==
  ASSUME OnceInv, TypeInv', StoryInv, NEW r \in Requests, SelectActive(r)
  PROVE  \E q : /\ Goes(r, q) /\ Frees(q) /\ Told(q)
                /\ q.list = ActiveResv(q.order) /\ q.freed = {}
                /\ q.held = resv[q.order]
<1> PICK n, list : n = req[r].order /\ list = ActiveResv(n)
  OBVIOUS
<1> PICK pc : pc = IF list # {} THEN "release" ELSE AfterRelease(r)
  OBVIOUS
<1> DEFINE s == SetStatus(r)
           q == [s EXCEPT !.list = list, !.held = resv[n], !.pc = pc]
<1>1. /\ req[r].pc \in {"select", "check"} /\ req[r].kind \in {"deliver", "cancel", "return"}
      /\ req[r].kind \in {"deliver", "cancel"} => req[r].pc = "select"
  BY ReqClaim DEF SelectActive, At, KindsAt, Locking
<1>2. /\ s \in Reqs /\ s.order = req[r].order /\ s.kind = req[r].kind
      /\ s.seen = req[r].seen /\ s.list = req[r].list /\ s.freed = req[r].freed
      /\ s.out = 0 /\ s.back = 0 /\ Moved(s)
  BY <1>1, SetStatusMove DEF OnceInv
<1>3. req' = [req EXCEPT ![r] = q]
  BY DEF SelectActive, Go
<1> HIDE DEF s
<1>4. /\ q.pc = pc /\ q.order = s.order /\ q.kind = s.kind /\ q.seen = s.seen
      /\ q.list = list /\ q.freed = s.freed /\ q.held = resv[n]
      /\ q.out = s.out /\ q.back = s.back /\ q.to = s.to /\ q.child = s.child
      /\ q.booked = s.booked
  BY <1>2 DEF Reqs
<1> HIDE DEF q
<1>5. Told(req[r]) /\ req[r].list = {} /\ req[r].freed = {}
  BY <1>1 DEF StoryInv, Told, Course, Frees
<1>6. /\ pc \in {"release", "restock", "commit"}
      /\ pc = "release" <=> list # {}
      /\ pc = "restock" => req[r].kind = "return"
      /\ pc = "commit" => req[r].kind \in {"deliver", "cancel"}
  BY <1>1, <1>5 DEF AfterRelease
<1>7. Moved(q)
  BY <1>2, <1>4 DEF Moved
<1>8. Story(q)
  BY <1>1, <1>2, <1>4, <1>5, <1>6, <1>7 DEF Story, Written
<1>9. Frees(q)
  BY <1>1, <1>2, <1>4, <1>5, <1>6 DEF Frees, Told, Course
<1>10. Course(q) /\ q.seen.qty > 0
  BY <1>1, <1>2, <1>4, <1>5, <1>6, <1>9 DEF Course, Told
<1>11. Goes(r, q)
  BY <1>2, <1>3, <1>4, GoesOn DEF Goes, OnceInv
<1> WITNESS q
<1> QED BY <1>2, <1>4, <1>5, <1>8, <1>9, <1>10, <1>11 DEF Told

\* A request releases one reservation.
LEMMA ReleaseMove ==
  ASSUME OnceInv, TypeInv', StoryInv, NEW r \in Requests, Release(r)
  PROVE  \E q, i : /\ Goes(r, q) /\ Frees(q) /\ Told(q) /\ Frees(req[r])
                   /\ i \in req[r].list /\ q.list = req[r].list \ {i}
                   /\ q.freed = req[r].freed \cup {i} /\ q.held = req[r].held
                   /\ IF Enough(r, req[r].held[i].qty)
                      THEN LevelFree(r) /\ WriteLevel(r,
                             [Level(r) EXCEPT !.reserved = @ - req[r].held[i].qty])
                      ELSE UNCHANGED <<levelLock, work>>
<1>1. PICK i \in req[r].list :
        /\ Go(r, IF req[r].list \ {i} # {} THEN "release" ELSE AfterRelease(r),
              [req[r] EXCEPT !.list = req[r].list \ {i}, !.freed = @ \cup {i}])
        /\ IF Enough(r, req[r].held[i].qty)
           THEN LevelFree(r) /\ WriteLevel(r,
                  [Level(r) EXCEPT !.reserved = @ - req[r].held[i].qty])
           ELSE UNCHANGED <<levelLock, work>>
  BY DEF Release
<1>2. /\ req[r].pc = "release" /\ req[r].kind \in {"deliver", "cancel", "return"}
      /\ Told(req[r])
  BY ReqClaim DEF Release, KindsAt, StoryInv
<1> PICK rest, pc : /\ rest = req[r].list \ {i}
                    /\ pc = IF rest # {} THEN "release" ELSE AfterRelease(r)
  OBVIOUS
<1> DEFINE q == [req[r] EXCEPT !.list = rest, !.freed = @ \cup {i}, !.pc = pc]
<1>3. /\ q.pc = pc /\ q.order = req[r].order /\ q.kind = req[r].kind
      /\ q.seen = req[r].seen /\ q.to = req[r].to /\ q.held = req[r].held
      /\ q.child = req[r].child /\ q.booked = req[r].booked
      /\ q.out = req[r].out /\ q.back = req[r].back
      /\ q.list = rest /\ q.freed = req[r].freed \cup {i}
  BY ReqClaim DEF Reqs
<1>4. req' = [req EXCEPT ![r] = q]
  BY <1>1 DEF Go
<1> HIDE DEF q
<1>5. /\ pc \in {"release", "issue", "restock", "commit"}
      /\ pc = "release" <=> rest # {}
      /\ pc = "commit" => req[r].kind = "cancel"
  BY <1>1, <1>2 DEF AfterRelease
<1>6. Moved(req[r]) /\ req[r].out = 0 /\ req[r].back = 0 /\ Frees(req[r])
      /\ req[r].seen.qty > 0
  BY <1>2 DEF Told, Story, Course
<1>7. Story(q)
  <2>1. Moved(q) /\ q.out = 0 /\ q.back = 0
    BY <1>3, <1>6 DEF Moved
  <2> QED BY <1>3, <1>5, <2>1 DEF Story, Written
<1>8. Frees(q)
  BY <1>3, <1>5, <1>6 DEF Frees
<1>9. Course(q)
  BY <1>3, <1>5, <1>8 DEF Course
<1>10. Goes(r, q)
  BY <1>3, <1>4, GoesOn DEF Goes, OnceInv
<1> WITNESS q, i
<1> QED BY <1>1, <1>3, <1>6, <1>7, <1>8, <1>9, <1>10 DEF Told

\* The stock of a delivery, or of a return, is moved.
LEMMA IssueMove ==
  ASSUME OnceInv, TypeInv', StoryInv, NEW r \in Requests, Issue(r), ~Rollback(r)
  PROVE  \E q : /\ Goes(r, q) /\ Frees(q) /\ Told(q) /\ Frees(req[r])
                /\ q.list = req[r].list /\ q.freed = req[r].freed /\ q.held = req[r].held
<1>0. PICK again \in Nat :
        req' = [req EXCEPT ![r] = [[req[r] EXCEPT !.out = Issued(r), !.again = again]
                                     EXCEPT !.pc = "commit"]]
  BY IssueAgain DEF OnceInv
<1> DEFINE q == [[req[r] EXCEPT !.out = Issued(r), !.again = again] EXCEPT !.pc = "commit"]
<1>1. /\ req[r].pc = "issue" /\ req[r].kind = "deliver" /\ Told(req[r])
      /\ req[r].freed # {}
  BY ReqClaim DEF Issue, KindsAt, StoryInv, Claim
<1>2. /\ q.pc = "commit" /\ q.order = req[r].order /\ q.kind = req[r].kind
      /\ q.seen = req[r].seen /\ q.to = req[r].to /\ q.held = req[r].held
      /\ q.child = req[r].child /\ q.booked = req[r].booked
      /\ q.out = req[r].seen.shipped /\ q.back = req[r].back
      /\ q.list = req[r].list /\ q.freed = req[r].freed
  BY ReqClaim DEF Reqs, Issued
<1>3. req' = [req EXCEPT ![r] = q]
  BY <1>0
<1> HIDE DEF q
<1>4. Moved(req[r]) /\ req[r].back = 0 /\ Frees(req[r]) /\ req[r].seen.qty > 0
  BY <1>1 DEF Told, Story, Frees
<1>5. Moved(q) /\ Frees(q)
  BY <1>1, <1>2, <1>4 DEF Moved, Frees
<1>6. Story(q)
  BY <1>1, <1>2, <1>4, <1>5 DEF Story, Written
<1>7. Course(q)
  BY <1>1, <1>2, <1>5 DEF Course, Told
<1>8. Goes(r, q)
  BY <1>2, <1>3, GoesOn DEF Goes, OnceInv
<1> WITNESS q
<1> QED BY <1>2, <1>4, <1>5, <1>6, <1>7, <1>8 DEF Told

LEMMA RestockMove ==
  ASSUME OnceInv, TypeInv', StoryInv, NEW r \in Requests, Restock(r)
  PROVE  \E q : /\ Goes(r, q) /\ Frees(q) /\ Told(q) /\ Frees(req[r])
                /\ q.list = req[r].list /\ q.freed = req[r].freed /\ q.held = req[r].held
<1> DEFINE q == [req[r] EXCEPT !.back = req[r].seen.shipped, !.pc = "commit"]
<1>1. req[r].pc = "restock" /\ req[r].kind = "return" /\ Told(req[r])
  BY ReqClaim DEF Restock, KindsAt, StoryInv
<1>2. /\ q.pc = "commit" /\ q.order = req[r].order /\ q.kind = req[r].kind
      /\ q.seen = req[r].seen /\ q.to = req[r].to /\ q.held = req[r].held
      /\ q.child = req[r].child /\ q.booked = req[r].booked
      /\ q.out = req[r].out /\ q.list = req[r].list /\ q.freed = req[r].freed
  BY ReqClaim DEF Reqs
<1>3. req' = [req EXCEPT ![r] = q]
  BY DEF Restock, Go
<1> HIDE DEF q
<1>4. Moved(req[r]) /\ req[r].out = 0 /\ Frees(req[r]) /\ req[r].seen.qty > 0
  BY <1>1 DEF Told, Story, Frees
<1>5. Moved(q) /\ Frees(q)
  BY <1>1, <1>2, <1>4 DEF Moved, Frees
<1>6. Story(q)
  BY <1>1, <1>2, <1>4, <1>5 DEF Story, Written
<1>7. Course(q)
  BY <1>1, <1>2, <1>5 DEF Course, Told
<1>8. Goes(r, q)
  BY <1>2, <1>3, GoesOn DEF Goes, OnceInv
<1> WITNESS q
<1> QED BY <1>2, <1>4, <1>5, <1>6, <1>7, <1>8 DEF Told

\* What a commit makes of the order.
LEMMA CommitOrders ==
  ASSUME OnceInv, NEW r \in Requests, Commit(r), ~Rollback(r), NEW n, n = req[r].order
  PROVE  /\ n \in Existing /\ orders \in [Numbers -> Order]
         /\ req[r].kind = "delete" => orders'[n] = NoOrder
         /\ req[r].kind # "delete" => orders'[n] = Updated(orders[n], req[r].seen, req[r].to)
         /\ \A m \in Numbers \ {n} :
              orders'[m] = IF req[r].child > 0 /\ m = ChildNumber(r)
                           THEN Draft(req[r].child) ELSE orders[m]
         /\ req[r].child > 0 => ChildNumber(r) \in Numbers \ Existing
<1>1. n \in Existing /\ n \in Numbers /\ orders' = NewOrders(r)
  BY CommitWrites
<1>2. req[r].child > 0 => ChildNumber(r) \in Numbers \ Existing
  BY DEF Commit, NumberTaken
<1> QED BY <1>1, <1>2 DEF NewOrders, OnceInv, TypeInv, TypeOK

LEMMA UpdatedFields ==
  ASSUME NEW now \in Order, NEW seen, NEW to
  PROVE  LET new == Updated(now, seen, to) IN
         /\ new.status = IF to.status = seen.status THEN now.status ELSE to.status
         /\ new.qty = IF to.qty = seen.qty THEN now.qty ELSE to.qty
         /\ new.shipped = IF to.shipped = seen.shipped THEN now.shipped ELSE to.shipped
BY DEF Updated, Order

LEMMA CommitStory ==
  ASSUME OnceInv, TypeInv', StoryInv, NEW r \in Requests, Commit(r)
  PROVE  StoryInv'
<1>1. CASE Rollback(r)
  BY <1>1, RollbackStory DEF OnceInv
<1>2. CASE ~Rollback(r)
  <2> PICK n : n = req[r].order
    OBVIOUS
  <2>1. req' = [req EXCEPT ![r] = Idle] /\ req[r].pc = "commit" /\ Told(req[r])
        /\ req[r] \in Reqs /\ n \in Numbers
    BY <1>2, CommitWrites, ReqClaim DEF StoryInv
  <2>2. \A p \in Requests : Told(req'[p])
    BY <2>1, ToldIdle, GoesOn DEF StoryInv, OnceInv
  <2>3. ASSUME NEW m \in Existing' PROVE orders'[m].qty > 0
    <3>1. m \in Numbers /\ orders'[m].status # "none"
      BY DEF Existing
    <3>2. CASE m = n
      <4>1. req[r].kind # "delete"
        BY <1>2, <3>1, <3>2, CommitOrders DEF NoOrder
      <4>2. orders'[n] = Updated(orders[n], req[r].seen, req[r].to) /\ orders[n] \in Order
            /\ orders[n].qty > 0
        BY <1>2, <2>1, <4>1, CommitOrders DEF StoryInv
      <4>3. orders'[n].qty = IF req[r].to.qty = req[r].seen.qty THEN orders[n].qty
                                                                ELSE req[r].to.qty
        BY <4>2, UpdatedFields
      <4>4. req[r].to.qty > 0
        BY <2>1, <4>1 DEF Told, Story, Written, Halves, Moved
      <4> QED BY <3>2, <4>2, <4>3, <4>4
    <3>3. CASE m # n
      <4>1. CASE req[r].child > 0 /\ m = ChildNumber(r)
        <5>1. orders'[m] = Draft(req[r].child)
          BY <1>2, <3>1, <3>3, <4>1, CommitOrders
        <5> QED BY <4>1, <5>1 DEF Draft, NoOrder
      <4>2. CASE ~(req[r].child > 0 /\ m = ChildNumber(r))
        <5>1. orders'[m] = orders[m]
          BY <1>2, <3>1, <3>3, <4>2, CommitOrders
        <5> QED BY <3>1, <5>1 DEF StoryInv, Existing
      <4> QED BY <4>1, <4>2
    <3> QED BY <3>2, <3>3
  <2> QED BY <2>2, <2>3 DEF StoryInv
<1> QED BY <1>1, <1>2

LEMMA StoryInit == Init => StoryInv
<1> SUFFICES ASSUME Init PROVE StoryInv
  OBVIOUS
<1>1. \A r \in Requests : Told(req[r])
  BY ToldIdle DEF Init
<1>2. ASSUME NEW n \in Existing PROVE orders[n].qty > 0
  <2>1. /\ n \in Numbers /\ orders[n] # NoOrder /\ Demand[n] \in Nat
    BY OrderAssumption DEF Existing, NoOrder
  <2>2. Demand[n] # 0
    <3>1. n = Sent => Demand[n] # 0
      BY <2>1, OrderAssumption
    <3>2. Demand[n] = 0 => orders[n] = NoOrder
      BY <2>1, <3>1 DEF Init
    <3> QED BY <2>1, <3>2
  <2>3. orders[n] = InTransit(Demand[n]) \/ orders[n] = Draft(Demand[n])
    BY <2>1, <2>2 DEF Init
  <2>4. orders[n].qty = Demand[n]
    BY <2>3 DEF InTransit, Draft, NoOrder
  <2> QED BY <2>1, <2>2, <2>4
<1> QED BY <1>1, <1>2 DEF StoryInv

LEMMA StoryNext == OnceInv /\ StoryInv /\ [Next]_vars => StoryInv'
<1> SUFFICES ASSUME OnceInv, StoryInv, [Next]_vars PROVE StoryInv'
  OBVIOUS
<1>1. TypeInv'
  BY NextType DEF OnceInv
<1>2. CASE Receive \/ UNCHANGED vars
  <2>1. UNCHANGED <<orders, req>>
    BY <1>2 DEF Receive, vars, tables
  <2> QED BY <2>1 DEF StoryInv, Existing
<1>3. ASSUME NEW r \in Requests,
             Read(r) \/ Step(r) \/ DeadlockVictim(r) \/ Abort(r)
      PROVE  StoryInv'
  <2>1. CASE SelectActive(r)
    BY <1>1, <2>1, SelectMove, StoryStep DEF Goes, SelectActive, tables, OnceInv
  <2>2. CASE Release(r)
    BY <1>1, <2>2, ReleaseMove, StoryStep DEF Goes, Release, tables, OnceInv
  <2>3. CASE (Issue(r) \/ DeadlockVictim(r) \/ Abort(r)) /\ Rollback(r)
    BY <1>1, <2>3, RollbackStory DEF OnceInv
  <2>4. CASE Issue(r) /\ ~Rollback(r)
    BY <1>1, <2>4, IssueMove, StoryStep DEF Goes, Issue, tables, OnceInv
  <2>5. CASE Restock(r)
    BY <1>1, <2>5, RestockMove, StoryStep DEF Goes, Restock, tables, OnceInv
  <2> QED BY <1>1, <1>3, <2>1, <2>2, <2>3, <2>4, <2>5, ReadStory, LoadLockedStory,
     RequestApprovalStory, AnalyzeStory, ReserveStory, SimpleStory, PickStory, ShipStory,
     CommitStory DEF Step, DeadlockVictim, Abort
<1> QED BY <1>2, <1>3 DEF Next

(***************************************************************************)
(* What a request knows: the row it has loaded is the row there is, and    *)
(* the reservations it has selected are those there are, as long as it     *)
(* holds the order's lock or no other request of the order has overlapped. *)
(***************************************************************************)
Alone(r) == req[r].pc # "idle" /\ req[r].kind \notin raced[req[r].order]

Fresh == \A r \in Requests : Alone(r) => req[r].seen = orders[req[r].order]

Selected(q) ==
  /\ q.list \cup q.freed = ActiveResv(q.order) /\ q.list \cap q.freed = {}
  /\ q.held = resv[q.order]

Sure(r) == Frees(req[r]) /\ (req[r].kind = "return" => Alone(r))
Keen == \A r \in Requests : Sure(r) => Selected(req[r])

\* A draft has never had a reservation.
Unbooked == \A n \in Numbers : orders[n].status = "draft" => resv[n] = <<>>

ViewInv == Fresh /\ Keen /\ Unbooked

LEMMA ViewStep ==
  ASSUME ViewInv, NEW r \in Requests, UNCHANGED <<tables, raced>>,
         \A p \in Requests \ {r} : req'[p] = req[p],
         req'[r].pc # "idle" => /\ req[r].pc # "idle" /\ req'[r].seen = req[r].seen
                                /\ req'[r].kind = req[r].kind
                                /\ req'[r].order = req[r].order,
         Sure(r)' => Selected(req'[r])
  PROVE  ViewInv'
<1>1. UNCHANGED <<orders, resv>>
  BY DEF tables
<1>2. \A p \in Requests : Alone(p)' => Alone(p)
  BY DEF Alone
<1>3. Fresh'
  BY <1>1, <1>2 DEF ViewInv, Fresh, Alone
<1>4. \A q : Selected(q)' <=> Selected(q)
  BY <1>1 DEF Selected, ActiveResv
<1>5. ASSUME NEW p \in Requests, Sure(p)' PROVE Selected(req[p])'
  <2>1. CASE p = r
    <3>1. Selected(req'[r])
      BY <1>5, <2>1
    <3> QED BY <1>1, <2>1, <3>1 DEF Selected, ActiveResv
  <2>2. CASE p # r
    <3>1. req'[p] = req[p] /\ Sure(p)
      BY <1>2, <1>5, <2>2 DEF Sure
    <3> QED BY <1>1, <3>1 DEF ViewInv, Keen, Selected, ActiveResv
  <2> QED BY <2>1, <2>2
<1>6. Keen'
  BY <1>5 DEF Keen
<1>7. Unbooked'
  BY <1>1 DEF ViewInv, Unbooked
<1> QED BY <1>3, <1>6, <1>7 DEF ViewInv

LEMMA RollbackView ==
  ASSUME ViewInv, TypeInv, TypeInv', NEW r \in Requests, Rollback(r)
  PROVE  ViewInv'
<1>1. req'[r].pc = "idle" /\ \A p \in Requests \ {r} : req'[p] = req[p]
  BY GoesOn, IdleType DEF Rollback
<1> QED BY <1>1, ViewStep DEF Rollback, Sure, Frees

\* A request that only goes on.
LEMMA GoView ==
  ASSUME OnceInv, TypeInv', ViewInv, NEW r \in Requests, NEW q, Goes(r, q),
         req[r].pc # "idle", UNCHANGED <<tables, raced>>,
         Frees(q) /\ (q.kind = "return" => Alone(r)) => Selected(q)
  PROVE  ViewInv'
<1>1. req'[r] = q /\ \A p \in Requests \ {r} : req'[p] = req[p]
  BY GoesOn DEF Goes, OnceInv
<1>2. Alone(r)' => Alone(r)
  BY <1>1 DEF Goes, Alone
<1>3. Sure(r)' => Frees(q) /\ (q.kind = "return" => Alone(r))
  BY <1>1, <1>2 DEF Sure
<1> QED BY <1>1, <1>3, ViewStep DEF Goes

LEMMA LoadLockedView ==
  ASSUME OnceInv, TypeInv', ViewInv, NEW r \in Requests, LoadLocked(r)
  PROVE  ViewInv'
<1>1. CASE req[r].order \notin Existing
  BY <1>1, RollbackView DEF LoadLocked, OnceInv
<1>2. CASE req[r].order \in Existing
  <2>1. /\ req[r].pc = "lock" /\ Locked(r) /\ UNCHANGED <<tables, raced>>
        /\ req[r].kind \in Locking
    BY <1>2, ReqClaim DEF LoadLocked, KindsAt
  <2>2. ASSUME NEW pc \in {"analyze", "select"}, Go(r, pc, req[r])
        PROVE  ViewInv'
    <3> DEFINE q == [req[r] EXCEPT !.pc = pc]
    <3>1. req' = [req EXCEPT ![r] = q]
      BY <2>2 DEF Go
    <3>2. /\ q.pc = pc /\ q.kind = req[r].kind /\ q.seen = req[r].seen
          /\ q.order = req[r].order
      BY ReqClaim DEF Reqs
    <3> HIDE DEF q
    <3>3. Goes(r, q) /\ ~Frees(q)
      BY <3>1, <3>2, GoesOn DEF Goes, Frees, OnceInv
    <3> QED BY <2>1, <3>3, GoView
  <2>3. CASE Go(r, "commit", SetStatus(r)) /\ req[r].kind = "cancel"
              /\ req[r].seen.status \notin ReservedStates
    <3> DEFINE q == [SetStatus(r) EXCEPT !.pc = "commit"]
    <3>1. req' = [req EXCEPT ![r] = q]
      BY <2>3 DEF Go
    <3>2. /\ q.kind = req[r].kind /\ q.seen = req[r].seen /\ q.order = req[r].order
      BY ReqClaim DEF Reqs, SetStatus
    <3> HIDE DEF q
    <3>3. Goes(r, q) /\ ~Frees(q)
      BY <2>3, <3>1, <3>2, GoesOn DEF Goes, Frees, OnceInv
    <3> QED BY <2>1, <3>3, GoView
  <2> QED BY <2>1, <2>2, <2>3 DEF Locked, Locking
<1> QED BY <1>1, <1>2

\* Those that select no reservations.
LEMMA PlainMove ==
  ASSUME OnceInv, TypeInv', NEW r \in Requests, ~Rollback(r),
         \/ RequestApproval(r) \/ Analyze(r) \/ Reserve(r)
         \/ Simple(r) \/ Pick(r) \/ Ship(r)
  PROVE  \E q : Goes(r, q) /\ ~Frees(q)
<1>1. req[r] \in Reqs /\ req[r].to \in Order
  BY ReqClaim DEF Reqs
<1>2. ASSUME NEW q, req' = [req EXCEPT ![r] = q], q.kind = req[r].kind,
             q.seen = req[r].seen, q.order = req[r].order,
             req[r].kind \notin {"deliver", "cancel", "return"}
      PROVE  Goes(r, q) /\ ~Frees(q)
  BY <1>2, GoesOn DEF Goes, Frees, OnceInv
<1>3. CASE RequestApproval(r)
  <2> DEFINE q == [req[r] EXCEPT !.to.status = "pending_approval", !.pc = "commit"]
  <2>1. /\ req' = [req EXCEPT ![r] = q] /\ req[r].kind = "confirm"
        /\ q.kind = req[r].kind /\ q.seen = req[r].seen /\ q.order = req[r].order
    BY <1>1, <1>3 DEF RequestApproval, Go, At, Reqs
  <2> HIDE DEF q
  <2> QED BY <1>2, <2>1
<1>4. CASE Analyze(r)
  <2> PICK take : take = Lesser(req[r].seen.qty,
                                AtLeastZero(Level(r).onHand - Level(r).reserved))
    OBVIOUS
  <2> DEFINE q == [req[r] EXCEPT !.to.qty = take, !.child = req[r].seen.qty - take,
                                 !.pc = "reserve"]
  <2>1. req' = [req EXCEPT ![r] = q] /\ req[r].kind \in {"confirm", "approve"}
    BY <1>4 DEF Analyze, Go, At
  <2>2. q.kind = req[r].kind /\ q.seen = req[r].seen /\ q.order = req[r].order
    BY <1>1 DEF Reqs
  <2> HIDE DEF q
  <2> QED BY <1>2, <2>1, <2>2
<1>5. CASE Reserve(r)
  <2> DEFINE q == [req[r] EXCEPT !.booked = req[r].to.qty, !.to.status = "confirmed",
                                 !.pc = "commit"]
  <2>1. req' = [req EXCEPT ![r] = q] /\ req[r].kind \in {"confirm", "approve"}
    BY <1>5, ReqClaim DEF Reserve, Go, KindsAt
  <2>2. q.kind = req[r].kind /\ q.seen = req[r].seen /\ q.order = req[r].order
    BY <1>1 DEF Reqs
  <2> HIDE DEF q
  <2> QED BY <1>2, <2>1, <2>2
<1>6. CASE (Simple(r) \/ Pick(r)) /\ Go(r, "commit", SetStatus(r))
  <2> DEFINE q == [SetStatus(r) EXCEPT !.pc = "commit"]
  <2>1. /\ req' = [req EXCEPT ![r] = q]
        /\ req[r].kind \notin {"deliver", "cancel", "return"}
    BY <1>6 DEF Simple, Pick, Go, At
  <2>2. q.kind = req[r].kind /\ q.seen = req[r].seen /\ q.order = req[r].order
    BY <1>1 DEF Reqs, SetStatus
  <2> HIDE DEF q
  <2> QED BY <1>2, <2>1, <2>2
<1>7. CASE Simple(r) /\ req[r].kind = "delete"
  <2> DEFINE q == [req[r] EXCEPT !.to = NoOrder, !.pc = "commit"]
  <2>1. req' = [req EXCEPT ![r] = q]
    BY <1>7 DEF Simple, Go
  <2>2. q.kind = req[r].kind /\ q.seen = req[r].seen /\ q.order = req[r].order
    BY <1>1 DEF Reqs
  <2> HIDE DEF q
  <2> QED BY <1>2, <1>7, <2>1, <2>2
<1>8. CASE Ship(r)
  <2>1. PICK qty \in 0..level.onHand :
          Go(r, "commit", [SetStatus(r) EXCEPT !.to.shipped = qty,
               !.child = LeftOver(r, qty),
               !.to.qty = IF LeftOver(r, qty) > 0 /\ qty > 0 THEN qty ELSE @])
    BY <1>8 DEF Ship
  <2> PICK left : left = LeftOver(r, qty)
    OBVIOUS
  <2> DEFINE q == [SetStatus(r) EXCEPT !.to.shipped = qty, !.child = left,
                     !.to.qty = IF left > 0 /\ qty > 0 THEN qty ELSE @,
                     !.pc = "commit"]
  <2>2. req' = [req EXCEPT ![r] = q] /\ req[r].kind = "ship"
    BY <1>8, <2>1 DEF Go, Ship, At
  <2>3. q.kind = req[r].kind /\ q.seen = req[r].seen /\ q.order = req[r].order
    BY <1>1 DEF Reqs, SetStatus
  <2> HIDE DEF q
  <2> QED BY <1>2, <2>2, <2>3
<1>9. Pick(r) => Go(r, "commit", SetStatus(r))
  BY DEF Pick
<1>10. Simple(r) => req[r].kind = "delete" \/ Go(r, "commit", SetStatus(r))
  BY DEF Simple
<1> QED BY <1>3, <1>4, <1>5, <1>6, <1>7, <1>8, <1>9, <1>10

LEMMA FreesView ==
  ASSUME OnceInv, TypeInv', StoryInv, ViewInv, NEW r \in Requests, ~Rollback(r),
         SelectActive(r) \/ Release(r) \/ Issue(r) \/ Restock(r)
  PROVE  ViewInv'
<1>1. req[r].pc # "idle" /\ UNCHANGED <<tables, raced>>
  BY ReqClaim DEF SelectActive, Release, Issue, Restock, At
<1>2. Sure(r) => Selected(req[r])
  BY DEF ViewInv, Keen
<1>3. CASE SelectActive(r)
  <2>1. PICK q : /\ Goes(r, q) /\ q.list = ActiveResv(q.order) /\ q.freed = {}
                 /\ q.held = resv[q.order]
    BY <1>3, SelectMove
  <2>2. Selected(q)
    BY <2>1 DEF Selected
  <2> QED BY <1>1, <2>1, <2>2, GoView
<1>4. CASE Release(r)
  <2>1. PICK q, i : /\ Goes(r, q) /\ Frees(req[r])
                    /\ i \in req[r].list /\ q.list = req[r].list \ {i}
                    /\ q.freed = req[r].freed \cup {i} /\ q.held = req[r].held
    BY <1>4, ReleaseMove
  <2>2. q.kind = req[r].kind /\ q.order = req[r].order
    BY <2>1 DEF Goes
  <2>3. Selected(req[r]) => Selected(q)
    BY <2>1, <2>2 DEF Selected
  <2> QED BY <1>1, <1>2, <2>1, <2>2, <2>3, GoView DEF Sure
<1>5. CASE Issue(r) \/ Restock(r)
  <2>1. PICK q : /\ Goes(r, q) /\ Frees(req[r])
                 /\ q.list = req[r].list /\ q.freed = req[r].freed
                 /\ q.held = req[r].held
    BY <1>5, IssueMove, RestockMove
  <2>2. q.kind = req[r].kind /\ q.order = req[r].order
    BY <2>1 DEF Goes
  <2>3. Selected(req[r]) => Selected(q)
    BY <2>1, <2>2 DEF Selected
  <2> QED BY <1>1, <1>2, <2>1, <2>2, <2>3, GoView DEF Sure
<1> QED BY <1>3, <1>4, <1>5

\* The request that arrives, and the orders it overlaps others of.
LEMMA ReadMove ==
  ASSUME OnceInv, NEW r \in Requests, Read(r)
  PROVE  \E q :
           /\ q.order \in Existing /\ req[r].pc = "idle" /\ UNCHANGED <<tables, locks>>
           /\ req' = [req EXCEPT ![r] = q] /\ q \in Reqs
           /\ q.seen = orders[q.order] /\ q.pc \in {"lock", "check"}
           /\ q.kind \in AllKinds /\ q.booked = 0 /\ q.freed = {}
           /\ \A m \in Numbers : raced[m] \subseteq raced'[m]
           /\ \A p \in Active : req[p].order = q.order =>
                q.kind \in raced'[q.order] /\ req[p].kind \in raced'[q.order]
<1>1. PICK kind \in Kinds, n \in Existing :
        /\ Go(r, IF kind \in Locking THEN "lock" ELSE "check",
              [Idle EXCEPT !.kind = kind, !.order = n, !.seen = orders[n],
                           !.to = orders[n], !.kids = Cardinality(Backorders(n))])
        /\ raced' = IF {q \in Active : req[q].order = n} = {} THEN raced ELSE
             [raced EXCEPT ![n] = @ \cup {kind}
                                    \cup {req[q].kind : q \in {q \in Active : req[q].order = n}}]
  BY DEF Read
<1> DEFINE q == [Idle EXCEPT !.kind = kind, !.order = n, !.seen = orders[n],
                             !.to = orders[n], !.kids = Cardinality(Backorders(n)),
                             !.pc = IF kind \in Locking THEN "lock" ELSE "check"]
           rivals == {p \in Active : req[p].order = n}
<1>2. /\ q.pc \in {"lock", "check"} /\ q.order = n /\ q.seen = orders[n]
      /\ q.kind = kind /\ kind \in AllKinds /\ q.booked = 0 /\ q.freed = {}
  BY OrderAssumption DEF Idle
<1>3. req' = [req EXCEPT ![r] = q]
  BY <1>1 DEF Go
<1>4. q \in Reqs
  BY <1>3, ReadType, GoesOn DEF OnceInv
<1> HIDE DEF q
<1>5. raced \in [Numbers -> SUBSET AllKinds] /\ n \in Numbers
  BY DEF OnceInv, TypeInv, TypeOK, Existing
<1>6. raced' = IF rivals = {} THEN raced ELSE
        [raced EXCEPT ![n] = @ \cup {kind} \cup {req[p].kind : p \in rivals}]
  BY <1>1
<1>7. ASSUME NEW p \in Active, req[p].order = n
      PROVE  kind \in raced'[n] /\ req[p].kind \in raced'[n]
  <2>1. p \in rivals
    BY <1>7
  <2>2. req[p].kind \in {req[s].kind : s \in rivals}
    BY <2>1
  <2> HIDE DEF rivals
  <2>3. raced'[n] = raced[n] \cup {kind} \cup {req[s].kind : s \in rivals}
    BY <1>5, <1>6, <2>1
  <2> QED BY <2>2, <2>3
<1> HIDE DEF rivals
<1>8. \A m \in Numbers : raced[m] \subseteq raced'[m]
  BY <1>5, <1>6
<1>9. req[r].pc = "idle" /\ UNCHANGED <<tables, locks>>
  BY DEF Read
<1> WITNESS q
<1> QED BY <1>2, <1>3, <1>4, <1>7, <1>8, <1>9

LEMMA ReadView ==
  ASSUME OnceInv, TypeInv', ViewInv, NEW r \in Requests, Read(r)
  PROVE  ViewInv'
<1>1. PICK q :
        /\ q.order \in Existing /\ req[r].pc = "idle" /\ UNCHANGED <<tables, locks>>
        /\ req' = [req EXCEPT ![r] = q] /\ q \in Reqs
        /\ q.seen = orders[q.order] /\ q.pc \in {"lock", "check"}
        /\ \A m \in Numbers : raced[m] \subseteq raced'[m]
  BY ReadMove
<1>2. req'[r] = q /\ \A p \in Requests \ {r} : req'[p] = req[p]
  BY <1>1, GoesOn DEF OnceInv
<1>3. \A p \in Requests : req[p].pc # "idle" => req[p].order \in Numbers
  BY ReqType DEF OnceInv
<1>4. UNCHANGED <<orders, resv>>
  BY <1>1 DEF tables
<1>5. \A p \in Requests \ {r} : Alone(p)' => Alone(p)
  BY <1>1, <1>2, <1>3 DEF Alone
<1>6. Fresh'
  BY <1>1, <1>2, <1>4, <1>5 DEF ViewInv, Fresh
<1>7. ASSUME NEW p \in Requests, Sure(p)' PROVE Selected(req[p])'
  <2>1. p # r
    BY <1>1, <1>2, <1>7 DEF Sure, Frees
  <2>2. req'[p] = req[p] /\ Sure(p)
    BY <1>2, <1>5, <1>7, <2>1 DEF Sure
  <2> QED BY <1>4, <2>2 DEF ViewInv, Keen, Selected, ActiveResv
<1>8. Unbooked'
  BY <1>4 DEF ViewInv, Unbooked
<1> QED BY <1>6, <1>7, <1>8 DEF ViewInv, Keen

\* A commit of an order leaves the other orders that exist alone, ...
LEMMA CommitOthers ==
  ASSUME OnceInv, NEW r \in Requests, Commit(r), ~Rollback(r),
         NEW m \in Numbers, m # req[r].order
  PROVE  /\ resv'[m] = resv[m] /\ sold'[m] = sold[m] /\ restocked'[m] = restocked[m]
         /\ m \in Existing => orders'[m] = orders[m]
<1>1. /\ resv' = [resv EXCEPT ![req[r].order] = NewResv(r)]
      /\ sold' = [sold EXCEPT ![req[r].order] = @ + req[r].out]
      /\ req[r].child > 0 => ChildNumber(r) \notin Existing
  BY CommitWrites
<1>2. restocked' = [restocked EXCEPT ![req[r].order] = @ + req[r].back]
  BY DEF Commit
<1>3. resv \in [Numbers -> Seq(Reservation)] /\ sold \in [Numbers -> Nat]
      /\ restocked \in [Numbers -> Nat]
  BY DEF OnceInv, TypeInv, TypeOK
<1>4. m \in Existing => orders'[m] = orders[m]
  BY <1>1, CommitOrders
<1> QED BY <1>1, <1>2, <1>3, <1>4

\* ... and a request that is alone, or holds its order's lock, works on
\* another order.
LEMMA CommitApart ==
  ASSUME OnceInv, NEW r \in Requests, Commit(r), ~Rollback(r),
         NEW p \in Requests, p # r, Alone(p) \/ Sure(p)
  PROVE  req[p].order # req[r].order /\ req[p].order \in Numbers
<1>1. req[r].pc = "commit" /\ OrderFree(r)
  BY CommitWrites
<1>2. req[p].pc # "idle"
  BY DEF Alone, Sure, Frees
<1>3. req[p].order \in Numbers
  BY <1>2, ReqType DEF OnceInv
<1>4. CASE Alone(p)
  <2>1. p \in Active /\ r \in Active
    BY <1>1, <1>2 DEF Active
  <2> QED BY <1>3, <1>4, <2>1 DEF OnceInv, Overlap, Alone
<1>5. CASE Sure(p) /\ ~Alone(p)
  <2>1. orderLock[req[p].order] = p
    BY <1>5 DEF Sure, Frees, OnceInv, OrderHeld, Locking
  <2> QED BY <1>1, <1>3, <2>1, OrderAssumption DEF OrderFree
<1> QED BY <1>3, <1>4, <1>5

\* What a commit makes of the reservations of its order.
LEMMA CommitDraft ==
  ASSUME OnceInv, StoryInv, ViewInv, NEW r \in Requests, Commit(r), ~Rollback(r),
         NEW n, n = req[r].order, orders'[n].status = "draft"
  PROVE  resv'[n] = <<>>
<1>1. /\ req[r].pc = "commit" /\ Told(req[r]) /\ Claim(req[r]) /\ req[r] \in Reqs
      /\ n \in Numbers /\ orders[n] \in Order
  BY CommitWrites, ReqClaim DEF StoryInv, OnceInv, TypeInv, TypeOK
<1>2. req[r].kind # "delete"
  BY CommitOrders DEF NoOrder
<1>3. orders'[n].status = IF req[r].to.status = req[r].seen.status
                          THEN orders[n].status ELSE req[r].to.status
  BY <1>2, CommitStatus
<1>4. /\ req[r].to.status # "draft"
      /\ req[r].booked # 0 => req[r].to.status = "confirmed" /\ req[r].kind \in {"confirm", "approve"}
  <2>1. Written(req[r]) /\ req[r].kind \in AllKinds
    BY <1>1 DEF Told, Story, Reqs
  <2>2. Target[req[r].kind] # "draft"
    BY <1>2, <2>1 DEF Target, AllKinds
  <2> QED BY <1>2, <2>1, <2>2 DEF Written, Moved, Halves
<1>5. orders[n].status = "draft" /\ req[r].to.status = req[r].seen.status
  BY <1>3, <1>4
<1>6. req[r].booked = 0
  <2>1. Permitted(req[r].kind, req[r].seen) /\ req[r].seen.status \in Statuses
    BY <1>1 DEF Claim
  <2> QED BY <1>4, <1>5, <2>1 DEF Permitted, Target, Transitions
<1>7. resv[n] = <<>>
  BY <1>1, <1>5 DEF ViewInv, Unbooked
<1> QED BY <1>2, <1>6, <1>7, CommitResv

LEMMA CommitView ==
  ASSUME OnceInv, TypeInv', StoryInv, ViewInv, NEW r \in Requests, Commit(r)
  PROVE  ViewInv'
<1>1. CASE Rollback(r)
  BY <1>1, RollbackView DEF OnceInv
<1>2. CASE ~Rollback(r)
  <2>1. req' = [req EXCEPT ![r] = Idle] /\ UNCHANGED raced
    BY <1>2, CommitWrites
  <2>2. req'[r].pc = "idle" /\ \A p \in Requests \ {r} : req'[p] = req[p]
    BY <2>1, GoesOn, IdleType DEF OnceInv
  <2>3. \A p \in Requests : (Alone(p)' => p # r /\ Alone(p)) /\ (Sure(p)' => p # r /\ Sure(p))
    BY <2>1, <2>2 DEF Alone, Sure, Frees
  <2>4. ASSUME NEW p \in Requests, Alone(p)'
        PROVE  req'[p].seen = orders'[req'[p].order]
    <3>1. /\ p # r /\ Alone(p) /\ req'[p] = req[p]
          /\ req[p].order # req[r].order /\ req[p].order \in Numbers
      BY <1>2, <2>2, <2>3, <2>4, CommitApart
    <3>2. req[p].seen = orders[req[p].order] /\ req[p].seen.status \in Statuses
      BY <3>1, ReqClaim DEF ViewInv, Fresh, Claim, Alone
    <3>3. req[p].order \in Existing
      BY <3>1, <3>2 DEF Existing, Statuses
    <3> QED BY <1>2, <3>1, <3>2, <3>3, CommitOthers
  <2>5. ASSUME NEW p \in Requests, Sure(p)' PROVE Selected(req[p])'
    <3>1. /\ p # r /\ Sure(p) /\ req'[p] = req[p]
          /\ req[p].order # req[r].order /\ req[p].order \in Numbers
      BY <1>2, <2>2, <2>3, <2>5, CommitApart
    <3>2. resv'[req[p].order] = resv[req[p].order]
      BY <1>2, <3>1, CommitOthers
    <3> QED BY <3>1, <3>2 DEF ViewInv, Keen, Selected, ActiveResv
  <2>6. ASSUME NEW m \in Numbers, orders'[m].status = "draft" PROVE resv'[m] = <<>>
    <3>1. CASE m = req[r].order
      BY <1>2, <2>6, <3>1, CommitDraft
    <3>2. CASE m # req[r].order
      <4>1. /\ resv'[m] = resv[m]
            /\ m \in Existing => orders'[m] = orders[m]
        BY <1>2, <3>2, CommitOthers
      <4> QED BY <2>6, <4>1 DEF ViewInv, Unbooked, OnceInv, Gone
    <3> QED BY <3>1, <3>2
  <2> QED BY <2>4, <2>5, <2>6 DEF ViewInv, Fresh, Keen, Unbooked
<1> QED BY <1>1, <1>2

LEMMA ViewInit == Init => ViewInv
<1> SUFFICES ASSUME Init PROVE ViewInv
  OBVIOUS
<1>1. \A r \in Requests : req[r].pc = "idle"
  BY IdleType DEF Init
<1>2. Fresh /\ Keen
  BY <1>1 DEF Fresh, Keen, Alone, Sure, Frees
<1>3. OnceInv
  BY OnceInit
<1>4. ASSUME NEW n \in Numbers, orders[n].status = "draft" PROVE resv[n] = <<>>
  BY <1>3, <1>4 DEF OnceInv, Booked, Clean, Init, Booking, ReservedStates
<1> QED BY <1>2, <1>4 DEF ViewInv, Unbooked

LEMMA ViewNext == OnceInv /\ StoryInv /\ ViewInv /\ [Next]_vars => ViewInv'
<1> SUFFICES ASSUME OnceInv, StoryInv, ViewInv, [Next]_vars PROVE ViewInv'
  OBVIOUS
<1>1. TypeInv'
  BY NextType DEF OnceInv
<1>2. CASE Receive \/ UNCHANGED vars
  <2>1. UNCHANGED <<orders, resv, raced, req>>
    BY <1>2 DEF Receive, vars, tables
  <2> QED BY <2>1 DEF ViewInv, Fresh, Keen, Unbooked, Alone, Sure, Selected, ActiveResv
<1>3. ASSUME NEW r \in Requests,
             Read(r) \/ Step(r) \/ DeadlockVictim(r) \/ Abort(r)
      PROVE  ViewInv'
  <2>1. CASE Rollback(r)
    BY <1>1, <2>1, RollbackView DEF OnceInv
  <2>2. CASE ~Rollback(r)
    <3>1. CASE SelectActive(r) \/ Release(r) \/ Issue(r) \/ Restock(r)
      BY <1>1, <2>2, <3>1, FreesView
    <3>2. CASE \/ RequestApproval(r) \/ Analyze(r) \/ Reserve(r)
               \/ Simple(r) \/ Pick(r) \/ Ship(r)
      <4>1. PICK q : Goes(r, q) /\ ~Frees(q)
        BY <1>1, <2>2, <3>2, PlainMove
      <4>2. UNCHANGED <<tables, raced>> /\ req[r].pc # "idle"
        BY <2>2, <3>2 DEF RequestApproval, Analyze, Reserve, Simple, Pick, Ship, At
      <4> QED BY <1>1, <4>1, <4>2, GoView
    <3> QED BY <1>1, <1>3, <2>2, <3>1, <3>2, ReadView, LoadLockedView, CommitView
        DEF Step, DeadlockVictim, Abort
  <2> QED BY <2>1, <2>2
<1> QED BY <1>2, <1>3 DEF Next

(***************************************************************************)
(* Units reserved, and what a commit makes of them.                        *)
(***************************************************************************)
Qtys(s) == [i \in DOMAIN s |-> s[i].qty]

LEMMA ResvFinite ==
  ASSUME NEW s \in Seq(Reservation)
  PROVE  IsFiniteSet(DOMAIN s) /\ \A i \in DOMAIN s : Qtys(s)[i] \in Nat
<1>1. DOMAIN s = 1..Len(s) /\ Len(s) \in Nat
  OBVIOUS
<1>2. IsFiniteSet(DOMAIN s)
  BY <1>1, FS_Interval
<1>3. \A i \in DOMAIN s : s[i] \in Reservation
  BY <1>1
<1> QED BY <1>2, <1>3 DEF Qtys, Reservation

LEMMA ResvQtyNat ==
  ASSUME TypeInv, NEW n \in Numbers, NEW set \in SUBSET (DOMAIN resv[n])
  PROVE  ResvQty(n, set) \in Nat /\ ResvQty(n, {}) = 0
<1>1. resv[n] \in Seq(Reservation)
  BY DEF TypeInv, TypeOK
<1>2. IsFiniteSet(set) /\ \A i \in set : Qtys(resv[n])[i] \in Nat
  BY <1>1, ResvFinite, FS_Subset
<1>3. SumFunctionOnSet(Qtys(resv[n]), set) \in Nat
  BY <1>2, SumNat
<1> QED BY <1>3, SumEmpty DEF ResvQty, Qtys

LEMMA ResvQtySplit ==
  ASSUME TypeInv, NEW n \in Numbers, NEW set \in SUBSET (DOMAIN resv[n]), NEW i \in set
  PROVE  /\ ResvQty(n, set) = resv[n][i].qty + ResvQty(n, set \ {i})
         /\ resv[n][i].qty \in Nat
<1>1. resv[n] \in Seq(Reservation)
  BY DEF TypeInv, TypeOK
<1>2. IsFiniteSet(set) /\ \A j \in set : Qtys(resv[n])[j] \in Nat
  BY <1>1, ResvFinite, FS_Subset
<1>3. SumFunctionOnSet(Qtys(resv[n]), set)
        = Qtys(resv[n])[i] + SumFunctionOnSet(Qtys(resv[n]), set \ {i})
  BY <1>2, SumSplit
<1>4. Qtys(resv[n])[i] = resv[n][i].qty
  BY DEF Qtys
<1> QED BY <1>2, <1>3, <1>4 DEF ResvQty, Qtys

LEMMA ActiveQtyNat ==
  ASSUME TypeInv, NEW n \in Numbers
  PROVE  /\ ActiveQty(n) \in Nat
         /\ ActiveResv(n) = {} => ActiveQty(n) = 0
BY ResvQtyNat DEF ActiveQty, ActiveResv

LEMMA KeptQtys ==
  ASSUME NEW s \in Seq(Reservation), NEW freed
  PROVE  LET kept == [i \in DOMAIN s |-> [s[i] EXCEPT !.active = @ /\ i \notin freed]] IN
         Qtys(kept) = Qtys(s)
<1> DEFINE kept == [i \in DOMAIN s |-> [s[i] EXCEPT !.active = @ /\ i \notin freed]]
<1>1. DOMAIN kept = DOMAIN s
  OBVIOUS
<1>2. ASSUME NEW i \in DOMAIN s PROVE kept[i].qty = s[i].qty
  <2>1. s[i] \in Reservation
    OBVIOUS
  <2>2. kept[i] = [s[i] EXCEPT !.active = @ /\ i \notin freed]
    OBVIOUS
  <2> HIDE DEF kept
  <2> QED BY <2>1, <2>2 DEF Reservation
<1> HIDE DEF kept
<1>3. Qtys(kept) = Qtys(s)
  BY <1>1, <1>2 DEF Qtys
<1> QED BY <1>3 DEF kept

\* Reservations are released, or kept, ...
LEMMA CommitQty ==
  ASSUME OnceInv, TypeInv', NEW r \in Requests, Commit(r), ~Rollback(r),
         NEW n, n = req[r].order, req[r].kind # "delete", req[r].booked = 0
  PROVE  ActiveQty(n)' = ResvQty(n, ActiveResv(n) \ req[r].freed)
<1> DEFINE kept == [i \in DOMAIN resv[n] |->
                      [resv[n][i] EXCEPT !.active = @ /\ i \notin req[r].freed]]
<1>1. n \in Numbers /\ resv' = [resv EXCEPT ![n] = NewResv(r)]
  BY CommitWrites
<1>2. resv \in [Numbers -> Seq(Reservation)] /\ resv[n] \in Seq(Reservation)
  BY <1>1 DEF OnceInv, TypeInv, TypeOK
<1>3. NewResv(r) = kept
  BY DEF NewResv
<1>4. Qtys(kept) = Qtys(resv[n])
  BY <1>2, KeptQtys
<1> HIDE DEF kept
<1>5. resv'[n] = kept
  BY <1>1, <1>2, <1>3
<1>6. Qtys(resv'[n]) = Qtys(resv[n])
  BY <1>4, <1>5
<1>7. ActiveResv(n)' = ActiveResv(n) \ req[r].freed
  BY CommitResv
<1>8. ActiveQty(n)' = SumFunctionOnSet(Qtys(resv'[n]), ActiveResv(n)')
  BY DEF ActiveQty, ResvQty, Qtys
<1> QED BY <1>6, <1>7, <1>8 DEF ResvQty, Qtys

\* ... or one is made.
LEMMA AppendQtys ==
  ASSUME NEW s \in Seq(Reservation), NEW b \in Nat, NEW t,
         t = Append(s, [qty |-> b, active |-> TRUE])
  PROVE  SumFunctionOnSet(Qtys(t), {i \in DOMAIN t : t[i].active})
           = SumFunctionOnSet(Qtys(s), {i \in DOMAIN s : s[i].active}) + b
<1> PICK x : x = Len(s) + 1
  OBVIOUS
<1>0. PICK old, new, f, g :
      /\ old = {i \in DOMAIN s : s[i].active} /\ new = {i \in DOMAIN t : t[i].active}
      /\ f = Qtys(t) /\ g = Qtys(s)
  OBVIOUS
<1>1. /\ DOMAIN s = 1..Len(s) /\ DOMAIN t = 1..x /\ Len(s) \in Nat
      /\ t[x] = [qty |-> b, active |-> TRUE] /\ x \in DOMAIN t
      /\ \A i \in DOMAIN s : t[i] = s[i]
  OBVIOUS
<1>2. old = new \ {x} /\ x \in new /\ old \subseteq DOMAIN s
  BY <1>0, <1>1
<1>3. f[x] = b /\ \A i \in DOMAIN s : f[i] = g[i]
  BY <1>0, <1>1 DEF Qtys
<1>4. IsFiniteSet(old) /\ \A i \in old : g[i] \in Nat
  BY <1>0, <1>2, ResvFinite, FS_Subset
<1>5. SumFunctionOnSet(f, new) = SumFunctionOnSet(g, old) + b
  <2>1. \A i \in old : f[i] = g[i] /\ g[i] \in Nat
    BY <1>2, <1>3, <1>4
  <2> QED BY <1>2, <1>3, <1>4, <2>1, SumAppend
<1> QED BY <1>0, <1>5

LEMMA CommitBooks ==
  ASSUME OnceInv, TypeInv', NEW r \in Requests, Commit(r), ~Rollback(r),
         NEW n, n = req[r].order, req[r].kind # "delete", req[r].booked > 0,
         req[r].freed = {}
  PROVE  ActiveQty(n)' = ActiveQty(n) + req[r].booked
<1> DEFINE kept == [i \in DOMAIN resv[n] |->
                      [resv[n][i] EXCEPT !.active = @ /\ i \notin req[r].freed]]
<1>1. n \in Numbers /\ resv' = [resv EXCEPT ![n] = NewResv(r)]
  BY CommitWrites
<1>0. PICK s, b : s = resv[n] /\ b = req[r].booked
  OBVIOUS
<1>2. resv \in [Numbers -> Seq(Reservation)] /\ s \in Seq(Reservation) /\ b \in Nat
  BY <1>0, <1>1, ReqClaim DEF OnceInv, TypeInv, TypeOK, Reqs
<1>3. NewResv(r) = Append(kept, [qty |-> b, active |-> TRUE])
  BY <1>0 DEF NewResv
<1>4. kept = s
  <2>1. ASSUME NEW i \in DOMAIN s PROVE kept[i] = s[i]
    <3>1. s[i] \in Reservation
      BY <1>2
    <3>2. kept[i] = [s[i] EXCEPT !.active = @ /\ i \notin {}]
      BY <1>0
    <3> HIDE DEF kept
    <3> QED BY <3>1, <3>2 DEF Reservation
  <2>2. DOMAIN kept = DOMAIN s /\ s = [i \in DOMAIN s |-> s[i]]
    BY <1>0, <1>2
  <2> QED BY <1>0, <2>1, <2>2
<1> HIDE DEF kept
<1>t. PICK t : t = Append(s, [qty |-> b, active |-> TRUE])
  OBVIOUS
<1>5. resv'[n] = t
  BY <1>1, <1>2, <1>3, <1>4, <1>t
<1>6. /\ ActiveQty(n) = SumFunctionOnSet(Qtys(s), {i \in DOMAIN s : s[i].active})
      /\ ActiveQty(n)' = SumFunctionOnSet(Qtys(t), {i \in DOMAIN t : t[i].active})
  BY <1>0, <1>5 DEF ActiveQty, ActiveResv, ResvQty, Qtys
<1>7. SumFunctionOnSet(Qtys(t), {i \in DOMAIN t : t[i].active})
        = SumFunctionOnSet(Qtys(s), {i \in DOMAIN s : s[i].active}) + b
  BY <1>2, <1>t, AppendQtys
<1> QED BY <1>0, <1>6, <1>7

(***************************************************************************)
(* An order whose requests never overlapped: what is reserved for it and   *)
(* what was sold follow its status.                                        *)
(***************************************************************************)
Solo(n) == raced[n] = {}
Unsold(n) == sold[n] = 0 /\ restocked[n] = 0

Follows(n) ==
  /\ orders[n].status \in {"confirmed", "picking"} => ActiveQty(n) = orders[n].qty
  /\ orders[n].status = "shipped" => ActiveQty(n) > 0
  /\ orders[n].status \notin ReservedStates => ActiveQty(n) = 0
  /\ orders[n].status = "delivered" => sold[n] = orders[n].shipped /\ restocked[n] = 0
  /\ orders[n].status \notin {"delivered", "returned"} => Unsold(n)

SoloInv == \A n \in Numbers : Solo(n) => Follows(n)

LEMMA SoloKept ==
  ASSUME SoloInv, UNCHANGED <<orders, resv, sold, restocked>>,
         \A m \in Numbers : raced[m] \subseteq raced'[m]
  PROVE  SoloInv'
BY DEF SoloInv, Solo, Follows, Unsold, ActiveQty, ActiveResv, ResvQty

\* What a commit writes into an order that only this request was serving.
LEMMA CommitAlone ==
  ASSUME OnceInv, StoryInv, ViewInv, NEW r \in Requests, Commit(r), ~Rollback(r),
         NEW n, n = req[r].order, Solo(n)
  PROVE  /\ n \in Existing /\ n \in Numbers /\ orders[n] \in Order
         /\ orders[n].status \in Statuses
         /\ req[r].pc = "commit" /\ req[r].seen = orders[n] /\ req[r] \in Reqs
         /\ Permitted(req[r].kind, orders[n]) /\ Written(req[r])
         /\ Frees(req[r]) => req[r].freed = ActiveResv(n)
         /\ ~Frees(req[r]) => req[r].freed = {}
         /\ req[r].kind = "delete" => orders'[n] = NoOrder /\ resv'[n] = <<>>
         /\ req[r].kind # "delete" =>
              /\ orders'[n].status = req[r].to.status
              /\ orders'[n].qty = req[r].to.qty /\ orders'[n].shipped = req[r].to.shipped
         /\ sold'[n] = sold[n] + req[r].out /\ restocked'[n] = restocked[n] + req[r].back
         /\ sold[n] \in Nat /\ restocked[n] \in Nat
<1>1. /\ n \in Existing /\ n \in Numbers /\ req[r].pc = "commit"
      /\ resv' = [resv EXCEPT ![n] = NewResv(r)]
      /\ sold' = [sold EXCEPT ![n] = @ + req[r].out]
  BY CommitWrites
<1>2. restocked' = [restocked EXCEPT ![n] = @ + req[r].back]
  BY DEF Commit
<1>3. /\ orders \in [Numbers -> Order] /\ sold \in [Numbers -> Nat]
      /\ restocked \in [Numbers -> Nat] /\ resv \in [Numbers -> Seq(Reservation)]
  BY DEF OnceInv, TypeInv, TypeOK
<1>4. orders[n] \in Order /\ orders[n].status \in Statuses
  BY <1>1, <1>3 DEF Existing, Order
<1>5. req[r] \in Reqs /\ Claim(req[r]) /\ Told(req[r])
  BY ReqClaim DEF StoryInv
<1>6. Alone(r)
  BY <1>1 DEF Alone, Solo
<1>7. req[r].seen = orders[n]
  BY <1>6 DEF ViewInv, Fresh
<1>8. Permitted(req[r].kind, orders[n]) /\ Written(req[r])
  BY <1>1, <1>5, <1>7 DEF Claim, Told, Story
<1>9. /\ Frees(req[r]) => req[r].freed = ActiveResv(n)
      /\ ~Frees(req[r]) => req[r].freed = {}
  <2>1. Course(req[r])
    BY <1>5 DEF Told
  <2>2. req[r].list = {}
    BY <1>1, <2>1 DEF Course
  <2>3. Frees(req[r]) => Selected(req[r])
    BY <1>6 DEF ViewInv, Keen, Sure
  <2> QED BY <2>1, <2>2, <2>3 DEF Course, Selected
<1>10. req[r].kind = "delete" => orders'[n] = NoOrder /\ resv'[n] = <<>>
  BY <1>1, <1>3, CommitOrders DEF NewResv
<1>11. ASSUME req[r].kind # "delete"
       PROVE  /\ orders'[n].status = req[r].to.status
              /\ orders'[n].qty = req[r].to.qty /\ orders'[n].shipped = req[r].to.shipped
  <2>1. orders'[n] = Updated(orders[n], orders[n], req[r].to)
    BY <1>7, <1>11, CommitOrders
  <2> QED BY <1>4, <2>1, UpdatedFields
<1>12. sold'[n] = sold[n] + req[r].out /\ restocked'[n] = restocked[n] + req[r].back
  BY <1>1, <1>2, <1>3
<1> QED BY <1>1, <1>3, <1>4, <1>5, <1>7, <1>8, <1>9, <1>10, <1>11, <1>12

LEMMA OwnSolo ==
  ASSUME OnceInv, TypeInv', StoryInv, ViewInv, SoloInv,
         NEW r \in Requests, Commit(r), ~Rollback(r), NEW n, n = req[r].order, Solo(n)
  PROVE  Follows(n)'
<1>0. PICK o, q : o = orders[n] /\ q = req[r]
  OBVIOUS
<1>1. /\ n \in Existing /\ n \in Numbers /\ o \in Order /\ o.status \in Statuses
      /\ q.pc = "commit" /\ q.seen = o /\ q \in Reqs /\ Permitted(q.kind, o) /\ Written(q)
      /\ Frees(q) => q.freed = ActiveResv(n)
      /\ ~Frees(q) => q.freed = {}
      /\ q.kind = "delete" => orders'[n] = NoOrder /\ resv'[n] = <<>>
      /\ q.kind # "delete" =>
           /\ orders'[n].status = q.to.status
           /\ orders'[n].qty = q.to.qty /\ orders'[n].shipped = q.to.shipped
      /\ sold'[n] = sold[n] + q.out /\ restocked'[n] = restocked[n] + q.back
      /\ sold[n] \in Nat /\ restocked[n] \in Nat
  BY <1>0, CommitAlone
<1>2. /\ o.status \in {"confirmed", "picking"} => ActiveQty(n) = o.qty
      /\ o.status = "shipped" => ActiveQty(n) > 0
      /\ o.status \notin ReservedStates => ActiveQty(n) = 0
      /\ o.status \notin {"delivered", "returned"} => sold[n] = 0 /\ restocked[n] = 0
  BY <1>0, <1>1 DEF SoloInv, Follows, Unsold
<1>3. ActiveQty(n) \in Nat /\ (ActiveResv(n) = {} => ActiveQty(n) = 0) /\ o.qty > 0
  BY <1>0, <1>1, ActiveQtyNat DEF OnceInv, StoryInv
<1>4. q.kind # "delete" /\ q.booked = 0 =>
        ActiveQty(n)' = IF Frees(q) THEN 0 ELSE ActiveQty(n)
  <2>1. q.kind # "delete" /\ q.booked = 0 =>
          ActiveQty(n)' = ResvQty(n, ActiveResv(n) \ q.freed)
    BY <1>0, CommitQty
  <2>2. Frees(q) => ActiveResv(n) \ q.freed = {}
    BY <1>1
  <2>3. ~Frees(q) => ActiveResv(n) \ q.freed = ActiveResv(n)
    BY <1>1
  <2>4. ResvQty(n, {}) = 0
    BY <1>1, ResvQtyNat DEF OnceInv
  <2> QED BY <2>1, <2>2, <2>3, <2>4 DEF ActiveQty
<1>5. ASSUME q.out = 0, q.back = 0, o.status \notin {"delivered", "returned"}
       PROVE  sold'[n] = 0 /\ restocked'[n] = 0
  <2>1. sold'[n] = sold[n] + q.out /\ restocked'[n] = restocked[n] + q.back
    BY <1>1
  <2>2. sold[n] = 0 /\ restocked[n] = 0
    BY <1>2, <1>5
  <2> QED BY <1>5, <2>1, <2>2
<1>6. CASE q.kind = "delete"
  <2>1. ActiveQty(n)' = 0
    <3>1. ActiveResv(n)' = {}
      BY <1>1, <1>6 DEF ActiveResv
    <3> QED BY <3>1, SumEmpty DEF ActiveQty, ResvQty
  <2>2. o.status = "draft" /\ q.out = 0 /\ q.back = 0
    BY <1>1, <1>6 DEF Permitted, Written, Rest
  <2>3. orders'[n].status = "none" /\ sold'[n] = 0 /\ restocked'[n] = 0
    BY <1>1, <1>6, <1>5, <2>2 DEF NoOrder
  <2> QED BY <2>1, <2>3 DEF Follows, Unsold, ReservedStates
<1>7. CASE q.kind \in {"confirm", "approve"}
  <2>1. o.status \in {"draft", "pending_approval"}
    BY <1>1, <1>7 DEF Permitted, Transitions, Target, Statuses
  <2>2. Halves(q) /\ q.out = 0 /\ q.back = 0 /\ ~Frees(q)
    BY <1>1, <1>7 DEF Written, Halves, Frees
  <2>3. CASE q.to.status = "confirmed" /\ q.booked = q.to.qty
    <3>1. q.booked > 0
      BY <2>2, <2>3 DEF Halves
    <3>2. ActiveQty(n)' = ActiveQty(n) + q.booked
      BY <1>0, <1>1, <1>7, <2>2, <3>1, CommitBooks
    <3>3. ActiveQty(n)' = q.to.qty
      <4>1. q.booked \in Nat /\ ActiveQty(n) = 0
        BY <1>1, <1>2, <2>1 DEF Reqs, ReservedStates
      <4> QED BY <2>3, <3>2, <4>1
    <3>4. /\ orders'[n].status = "confirmed" /\ orders'[n].qty = q.to.qty
          /\ sold'[n] = 0 /\ restocked'[n] = 0
      BY <1>1, <1>7, <1>5, <2>1, <2>2, <2>3
    <3> QED BY <3>3, <3>4 DEF Follows, Unsold, ReservedStates
  <2>4. CASE q.to.status = "pending_approval" /\ q.booked = 0
    <3>1. ActiveQty(n)' = 0
      BY <1>2, <1>4, <1>7, <2>1, <2>2, <2>4 DEF ReservedStates
    <3>2. orders'[n].status = "pending_approval" /\ sold'[n] = 0 /\ restocked'[n] = 0
      BY <1>1, <1>7, <1>5, <2>1, <2>2, <2>4
    <3> QED BY <3>1, <3>2 DEF Follows, Unsold, ReservedStates
  <2> QED BY <1>1, <1>7, <2>3, <2>4 DEF Written
<1>8. CASE q.kind = "ship"
  <2>1. /\ q.to.status = "shipped" /\ q.booked = 0 /\ q.out = 0 /\ q.back = 0 /\ ~Frees(q)
        /\ o.status = "picking"
    BY <1>1, <1>8 DEF Written, Frees, Permitted, Transitions, Target, Statuses
  <2> QED BY <1>1, <1>2, <1>3, <1>4, <1>8, <2>1 DEF Follows, Unsold, ReservedStates
<1>9. CASE q.kind \in {"reject", "resubmit", "pick"}
  <2>1. /\ q.to.status = Target[q.kind] /\ q.to.qty = o.qty /\ q.booked = 0
        /\ q.out = 0 /\ q.back = 0 /\ ~Frees(q)
    BY <1>1, <1>9 DEF Written, Moved, Frees
  <2>2. /\ q.kind = "reject" => o.status = "pending_approval" /\ q.to.status = "rejected"
        /\ q.kind = "resubmit" => o.status = "rejected" /\ q.to.status = "pending_approval"
        /\ q.kind = "pick" => o.status = "confirmed" /\ q.to.status = "picking"
    BY <1>1, <2>1 DEF Permitted, Transitions, Target, Statuses
  <2>3. ActiveQty(n)' = ActiveQty(n) /\ orders'[n].qty = o.qty
        /\ orders'[n].status = q.to.status /\ sold'[n] = 0 /\ restocked'[n] = 0
    BY <1>1, <1>4, <1>9, <1>5, <2>1, <2>2
  <2> QED BY <1>2, <1>9, <2>2, <2>3 DEF Follows, Unsold, ReservedStates
<1>10. CASE q.kind = "cancel"
  <2>1. /\ q.to.status = "canceled" /\ q.booked = 0 /\ q.out = 0 /\ q.back = 0
        /\ o.status \notin {"delivered", "returned"}
        /\ ~Frees(q) => o.status \notin ReservedStates
    BY <1>1, <1>10 DEF Written, Moved, Frees, Permitted, Transitions, Target, Statuses
  <2> QED BY <1>1, <1>2, <1>4, <1>10, <2>1 DEF Follows, Unsold, ReservedStates
<1>11. CASE q.kind = "deliver"
  <2>1. /\ q.to.status = "delivered" /\ q.to.shipped = o.shipped /\ q.booked = 0
        /\ q.back = 0 /\ o.status = "shipped" /\ Frees(q)
        /\ q.freed # {} => q.out = o.shipped
    BY <1>1, <1>11 DEF Written, Moved, Frees, Permitted, Transitions, Target, Statuses
  <2>2. q.freed # {}
    <3>1. ActiveQty(n) # 0
      BY <1>2, <1>3, <2>1
    <3> QED BY <1>1, <1>3, <2>1, <3>1
  <2>3. o.shipped \in Nat
    BY <1>1 DEF Order
  <2> QED BY <1>1, <1>2, <1>4, <1>11, <2>1, <2>2, <2>3 DEF Follows, Unsold, ReservedStates
<1>12. CASE q.kind = "return"
  <2>1. q.to.status = "returned" /\ q.booked = 0 /\ Frees(q)
    BY <1>1, <1>12 DEF Written, Moved, Frees, Target
  <2> QED BY <1>1, <1>4, <1>12, <2>1 DEF Follows, Unsold, ReservedStates
<1> QED BY <1>1, <1>6, <1>7, <1>8, <1>9, <1>10, <1>11, <1>12 DEF Reqs, AllKinds

LEMMA CommitSolo ==
  ASSUME OnceInv, TypeInv', StoryInv, ViewInv, SoloInv,
         NEW r \in Requests, Commit(r), ~Rollback(r)
  PROVE  SoloInv'
<1> SUFFICES ASSUME NEW m \in Numbers, Solo(m)' PROVE Follows(m)'
  BY DEF SoloInv
<1>1. Solo(m)
  BY CommitWrites DEF Solo
<1>2. CASE m = req[r].order
  BY <1>1, <1>2, OwnSolo
<1>3. CASE m # req[r].order
  <2>1. /\ resv'[m] = resv[m] /\ sold'[m] = sold[m] /\ restocked'[m] = restocked[m]
        /\ m \in Existing => orders'[m] = orders[m]
    BY <1>3, CommitOthers
  <2>2. ActiveQty(m)' = ActiveQty(m)
    BY <2>1 DEF ActiveQty, ActiveResv, ResvQty
  <2>3. Follows(m)
    BY <1>1 DEF SoloInv
  <2>4. CASE m \in Existing
    BY <2>1, <2>2, <2>3, <2>4 DEF Follows, Unsold
  <2>5. CASE m \notin Existing
    <3>1. orders[m].status = "none" /\ resv[m] = <<>>
      BY <2>5 DEF Existing, OnceInv, Gone
    <3>2. ActiveQty(m) = 0 /\ Unsold(m)
      BY <2>3, <3>1 DEF Follows, ReservedStates
    <3>3. orders'[m].status \in {"none", "draft"}
      <4>1. orders'[m] \in {orders[m], Draft(req[r].child)}
        BY <1>3, CommitOrders
      <4> QED BY <3>1, <4>1 DEF Draft, NoOrder
    <3> QED BY <2>1, <2>2, <3>2, <3>3 DEF Follows, Unsold, ReservedStates
  <2> QED BY <2>4, <2>5
<1> QED BY <1>2, <1>3

LEMMA InitQty ==
  ASSUME Init, NEW n \in Numbers
  PROVE  ActiveQty(n) = IF n = Sent THEN Demand[Sent] ELSE 0
<1>1. TypeInv
  BY InitType
<1>2. CASE n # Sent
  <2>1. ActiveResv(n) = {}
    BY <1>2 DEF Init, ActiveResv
  <2> QED BY <1>1, <1>2, <2>1, ActiveQtyNat
<1>3. CASE n = Sent
  <2>1. resv[n] = <<[qty |-> Demand[Sent], active |-> TRUE]>> /\ Demand[Sent] \in Nat
    BY <1>3, OrderAssumption DEF Init
  <2>2. ActiveResv(n) = {1} /\ {1} \in SUBSET (DOMAIN resv[n]) /\ resv[n][1].qty = Demand[Sent]
    BY <2>1 DEF ActiveResv
  <2>3. ResvQty(n, {1}) = resv[n][1].qty + ResvQty(n, {1} \ {1}) /\ ResvQty(n, {}) = 0
    BY <1>1, <2>2, ResvQtySplit, ResvQtyNat
  <2>4. {1} \ {1} = {}
    OBVIOUS
  <2>5. ActiveQty(n) = ResvQty(n, {1})
    BY <2>2 DEF ActiveQty
  <2> QED BY <1>3, <2>1, <2>2, <2>3, <2>4, <2>5
<1> QED BY <1>2, <1>3

LEMMA SoloInit == Init => SoloInv
<1> SUFFICES ASSUME Init, NEW n \in Numbers PROVE Follows(n)
  BY DEF SoloInv
<1>1. sold[n] = 0 /\ restocked[n] = 0
  BY DEF Init
<1>2. n = Sent => Demand[n] # 0
  BY OrderAssumption
<1>3. orders[n] = IF Demand[n] = 0 THEN NoOrder
                  ELSE IF n = Sent THEN InTransit(Demand[n]) ELSE Draft(Demand[n])
  BY <1>2 DEF Init
<1>4. orders[n].status = IF Demand[n] = 0 THEN "none"
                         ELSE IF n = Sent THEN "shipped" ELSE "draft"
  BY <1>3 DEF NoOrder, Draft, InTransit
<1>5. CASE orders[n].status \in {"none", "draft"}
  <2>1. n # Sent
    BY <1>2, <1>5, <1>4
  <2> QED BY <1>1, <1>5, <2>1, InitQty DEF Follows, Unsold, ReservedStates
<1>6. CASE orders[n].status = "shipped"
  <2>1. n = Sent
    BY <1>6, <1>4
  <2>2. Demand[Sent] \in Nat /\ Demand[Sent] > 0
    BY <2>1, OrderAssumption
  <2> QED BY <1>1, <1>6, <2>1, <2>2, InitQty DEF Follows, Unsold, ReservedStates
<1> QED BY <1>5, <1>6, <1>4

\* What a step that commits nothing leaves alone.
LEMMA OnlyCommits ==
  ASSUME OnceInv, [Next]_vars, \A r \in Requests : Commit(r) => Rollback(r)
  PROVE  /\ UNCHANGED <<orders, resv, sold, restocked>>
         /\ \A m \in Numbers : raced[m] \subseteq raced'[m]
<1>1. CASE Receive \/ UNCHANGED vars
  BY <1>1 DEF Receive, vars, tables
<1>2. ASSUME NEW r \in Requests,
             Read(r) \/ Step(r) \/ DeadlockVictim(r) \/ Abort(r)
      PROVE  UNCHANGED tables /\ \A m \in Numbers : raced[m] \subseteq raced'[m]
  <2>1. CASE Rollback(r)
    BY <2>1 DEF Rollback
  <2>2. CASE Read(r)
    BY <2>2, ReadMove
  <2>3. CASE ~Rollback(r) /\ ~Read(r)
    BY <1>2, <2>3 DEF Step, LoadLocked, RequestApproval, Analyze, Reserve, Simple, Pick, Ship,
       SelectActive, Release, Issue, Restock, DeadlockVictim, Abort
  <2> QED BY <2>1, <2>2, <2>3
<1>3. CASE Next
  <2>1. CASE Receive
    BY <1>1, <2>1
  <2>2. CASE ~Receive
    <3>1. UNCHANGED tables /\ \A m \in Numbers : raced[m] \subseteq raced'[m]
      BY <1>2, <1>3, <2>2 DEF Next
    <3> QED BY <3>1 DEF tables
  <2> QED BY <2>1, <2>2
<1> QED BY <1>1, <1>3

LEMMA SoloNext ==
  OnceInv /\ StoryInv /\ ViewInv /\ SoloInv /\ [Next]_vars => SoloInv'
<1> SUFFICES ASSUME OnceInv, StoryInv, ViewInv, SoloInv, [Next]_vars PROVE SoloInv'
  OBVIOUS
<1>1. TypeInv'
  BY NextType DEF OnceInv
<1>2. CASE \E r \in Requests : Commit(r) /\ ~Rollback(r)
  BY <1>1, <1>2, CommitSolo
<1>3. CASE \A r \in Requests : Commit(r) => Rollback(r)
  BY <1>3, OnlyCommits, SoloKept
<1> QED BY <1>2, <1>3

LEMMA OrdersInvariant == Spec => [](OnceInv /\ StoryInv /\ ViewInv /\ SoloInv)
<1>1. Init => OnceInv /\ StoryInv /\ ViewInv /\ SoloInv
  BY OnceInit, StoryInit, ViewInit, SoloInit
<1>2. OnceInv /\ StoryInv /\ ViewInv /\ SoloInv /\ [Next]_vars
        => (OnceInv /\ StoryInv /\ ViewInv /\ SoloInv)'
  BY OnceNext, StoryNext, ViewNext, SoloNext
<1> QED BY <1>1, <1>2, PTL DEF Spec

\* As long as no two requests of an order overlapped, what is reserved for it
\* is what its status needs: all it was confirmed for until it is shipped,
\* something until it is delivered, and nothing before or after.
THEOREM ReservedAsNeeded == Spec => []ReservationsFollowStatus
<1>1. TypeInv /\ StoryInv /\ SoloInv => ReservationsFollowStatus
  <2> SUFFICES ASSUME TypeInv, StoryInv, SoloInv, NEW n \in Existing, raced[n] = {}
               PROVE  CASE orders[n].status \in {"confirmed", "picking"} ->
                             ActiveQty(n) = orders[n].qty
                        [] orders[n].status = "shipped" ->
                             ActiveQty(n) >= Lesser(orders[n].qty, 1)
                        [] OTHER -> ActiveQty(n) = 0
    BY DEF ReservationsFollowStatus
  <2>1. n \in Numbers /\ orders[n].qty \in Nat /\ orders[n].qty > 0
    BY DEF Existing, TypeInv, TypeOK, Order, StoryInv
  <2>2. Follows(n) /\ ActiveQty(n) \in Nat
    BY <2>1, ActiveQtyNat DEF SoloInv, Solo
  <2>3. Lesser(orders[n].qty, 1) = 1
    BY <2>1 DEF Lesser
  <2> QED BY <2>2, <2>3 DEF Follows, ReservedStates
<1> QED BY <1>1, OrdersInvariant, PTL DEF OnceInv

\* The stock that left for such an order is what was shipped, once and at its
\* delivery; an order that was cancelled or rejected moved none.
THEOREM SoldWhatWasShipped == Spec => []SoldAsShipped
<1>1. SoloInv => SoldAsShipped
  BY DEF SoloInv, Solo, Follows, Unsold, SoldAsShipped, Existing
<1> QED BY <1>1, OrdersInvariant, PTL

(***************************************************************************)
(* What an order gives up, a backorder takes over.                         *)
(***************************************************************************)
LEMMA ChildOf ==
  ASSUME NEW n \in Seq(Nat), NEW k \in Nat
  PROVE  Len(Append(n, k)) = Len(n) + 1 /\ SubSeq(Append(n, k), 1, Len(n)) = n
OBVIOUS

\* The backorders a step makes.
NewOnes(n) == Backorders(n)' \ Backorders(n)
NewQty(n) == SumFunctionOnSet([m \in NewOnes(n) |-> orders'[m].qty], NewOnes(n))

LEMMA NewQtyNat ==
  ASSUME TypeInv', NEW n
  PROVE  /\ IsFiniteSet(NewOnes(n)) /\ NewQty(n) \in Nat
         /\ \A m \in NewOnes(n) : NewQty(n) >= orders'[m].qty
<1>0. PICK new, f : new = NewOnes(n) /\ f = [m \in new |-> orders'[m].qty]
  OBVIOUS
<1>1. new \subseteq Numbers
  BY <1>0 DEF NewOnes, Backorders, Existing
<1>2. IsFiniteSet(new)
  BY <1>1, OrderAssumption, FS_Subset
<1>3. \A m \in new : f[m] \in Nat /\ f[m] = orders'[m].qty
  BY <1>0, <1>1 DEF TypeInv, TypeOK, Order
<1>4. SumFunctionOnSet(f, new) \in Nat
  BY <1>2, <1>3, SumNat
<1>5. ASSUME NEW m \in new PROVE SumFunctionOnSet(f, new) >= f[m]
  <2>1. SumFunctionOnSet(f, new) = f[m] + SumFunctionOnSet(f, new \ {m})
    BY <1>2, <1>3, SumSplit
  <2>2. IsFiniteSet(new \ {m}) /\ \A x \in new \ {m} : f[x] \in Nat
    BY <1>2, <1>3, FS_Subset
  <2>3. SumFunctionOnSet(f, new \ {m}) \in Nat
    BY <2>2, SumNat
  <2> QED BY <1>3, <2>1, <2>3
<1>6. NewQty(n) = SumFunctionOnSet(f, new)
  BY <1>0 DEF NewQty
<1> QED BY <1>0, <1>2, <1>3, <1>4, <1>5, <1>6

\* The backorder a commit makes is a new backorder of its order.
LEMMA CommitChild ==
  ASSUME OnceInv, TypeInv', NEW r \in Requests, Commit(r), ~Rollback(r),
         NEW n, n = req[r].order
  PROVE  NewQty(n) \in Nat /\ NewQty(n) >= req[r].child
<1>1. req[r] \in Reqs /\ n \in Numbers
  BY ReqClaim, CommitWrites
<1>2. req[r].child \in Nat /\ req[r].kids \in Nat
  BY <1>1 DEF Reqs
<1>3. CASE req[r].child = 0
  BY <1>3, NewQtyNat
<1>4. CASE req[r].child > 0
  <2>0. PICK m : m = ChildNumber(r)
    OBVIOUS
  <2>1. m \in Numbers \ Existing
    BY <1>4, <2>0, CommitOrders
  <2>2. n \in Seq(Nat) /\ Len(n) \in Nat /\ m = Append(n, req[r].kids + 1)
    BY <1>1, <2>0, OrderAssumption DEF ChildNumber
  <2>3. Len(m) = Len(n) + 1 /\ SubSeq(m, 1, Len(n)) = n
    BY <1>2, <2>2, ChildOf
  <2>4. m # n
    BY <2>2, <2>3
  <2>5. orders'[m] = Draft(req[r].child)
    BY <1>4, <2>0, <2>1, <2>4, CommitOrders
  <2>6. orders'[m].status = "draft" /\ orders'[m].qty = req[r].child
    BY <2>5 DEF Draft, NoOrder
  <2>7. m \in NewOnes(n)
    BY <2>1, <2>3, <2>6 DEF NewOnes, Backorders, Existing
  <2>8. NewQty(n) >= orders'[m].qty
    BY <2>7, NewQtyNat
  <2> QED BY <2>6, <2>8, NewQtyNat
<1> QED BY <1>2, <1>3, <1>4

LEMMA OwnPromise ==
  ASSUME OnceInv, TypeInv', StoryInv, ViewInv,
         NEW r \in Requests, Commit(r), ~Rollback(r), NEW n, n = req[r].order, Solo(n),
         n \in Existing', ~(IsBackorder(n) /\ orders'[n].status = "shipped")
  PROVE  Promised(n)' + NewQty(n) >= Promised(n)
<1>0. PICK o, q, more : o = orders[n] /\ q = req[r] /\ more = NewQty(n)
  OBVIOUS
<1>1. /\ o \in Order /\ o.status \in Statuses
      /\ q.seen = o /\ q \in Reqs /\ Permitted(q.kind, o) /\ Written(q)
      /\ q.kind = "delete" => orders'[n] = NoOrder
      /\ q.kind # "delete" =>
           /\ orders'[n].status = q.to.status
           /\ orders'[n].qty = q.to.qty /\ orders'[n].shipped = q.to.shipped
  BY <1>0, CommitAlone
<1>2. q.kind # "delete"
  BY <1>1 DEF Existing, NoOrder
<1>3. more \in Nat /\ more >= q.child
  BY <1>0, CommitChild
<1>4. /\ o.qty \in Nat /\ o.shipped \in Nat /\ q.to.qty \in Nat /\ q.to.shipped \in Nat
      /\ q.child \in Nat
  BY <1>1 DEF Reqs, Order
<1>5. /\ Promised(n) = IF o.status \in {"shipped", "delivered", "returned"}
                       THEN o.shipped ELSE o.qty
      /\ Promised(n)' = IF q.to.status \in {"shipped", "delivered", "returned"}
                        THEN q.to.shipped ELSE q.to.qty
  BY <1>0, <1>1, <1>2 DEF Promised
<1>6. CASE q.kind \in {"confirm", "approve"}
  <2>1. o.status \in {"draft", "pending_approval"}
    BY <1>1, <1>6 DEF Permitted, Transitions, Target, Statuses
  <2>2. q.to.qty + q.child = o.qty /\ q.to.status \in {"confirmed", "pending_approval"}
    BY <1>1, <1>6 DEF Written, Halves
  <2>3. Promised(n) = o.qty /\ Promised(n)' = q.to.qty
    BY <1>5, <2>1, <2>2
  <2> QED BY <1>0, <1>3, <1>4, <2>2, <2>3
<1>7. CASE q.kind = "ship"
  <2>1. o.status = "picking"
    BY <1>1, <1>7 DEF Permitted, Transitions, Target, Statuses
  <2>2. q.to.status = "shipped" /\ ~IsBackorder(n)
    BY <1>1, <1>7 DEF Written
  <2>3. q.child = AtLeastZero(o.qty - q.to.shipped)
    BY <1>0, <1>1, <1>7, <2>2 DEF Written
  <2>4. Promised(n) = o.qty /\ Promised(n)' = q.to.shipped
    BY <1>5, <2>1, <2>2
  <2> QED BY <1>0, <1>3, <1>4, <2>3, <2>4 DEF AtLeastZero
<1>8. CASE q.kind \in {"reject", "resubmit", "pick", "cancel", "deliver", "return"}
  <2>1. q.to.status = Target[q.kind] /\ q.to.qty = o.qty /\ q.to.shipped = o.shipped
    BY <1>1, <1>8 DEF Written, Moved
  <2>2. /\ q.kind \in {"deliver", "return"} => o.status \in {"shipped", "delivered"}
        /\ q.kind \notin {"deliver", "return"} => o.status \notin {"shipped", "delivered", "returned"}
    BY <1>1, <1>8 DEF Permitted, Transitions, Target, Statuses
  <2>3. q.to.status \in {"shipped", "delivered", "returned"}
          <=> q.kind \in {"deliver", "return"}
    BY <1>8, <2>1 DEF Target
  <2>4. Promised(n)' = Promised(n) /\ Promised(n) \in Nat
    BY <1>4, <1>5, <1>8, <2>1, <2>2, <2>3
  <2> QED BY <1>0, <1>3, <2>4
<1> QED BY <1>1, <1>2, <1>6, <1>7, <1>8 DEF Reqs, AllKinds

LEMMA PromiseKept ==
  ASSUME OnceInv, StoryInv, ViewInv, [Next]_vars, NEW n \in Existing, Solo(n), n \in Existing',
         ~(IsBackorder(n) /\ orders'[n].status = "shipped")
  PROVE  Promised(n)' + NewQty(n) >= Promised(n)
<1>1. TypeInv' /\ n \in Numbers
  BY NextType DEF OnceInv, Existing
<1>2. ASSUME orders'[n] = orders[n] PROVE Promised(n)' + NewQty(n) >= Promised(n)
  <2>1. Promised(n)' = Promised(n) /\ Promised(n) \in Nat
    BY <1>1, <1>2 DEF Promised, OnceInv, TypeInv, TypeOK, Order
  <2> QED BY <1>1, <2>1, NewQtyNat
<1>3. CASE \A r \in Requests : Commit(r) => Rollback(r)
  BY <1>2, <1>3, OnlyCommits
<1>4. ASSUME NEW r \in Requests, Commit(r), ~Rollback(r)
      PROVE  Promised(n)' + NewQty(n) >= Promised(n)
  <2>1. CASE n = req[r].order
    BY <1>1, <1>4, <2>1, OwnPromise
  <2>2. CASE n # req[r].order
    BY <1>1, <1>2, <1>4, <2>2, CommitOthers
  <2> QED BY <2>1, <2>2
<1> QED BY <1>3, <1>4

\* Whatever a step does to an order whose requests never overlapped, what the
\* customer is no longer promised on it is on a backorder made by the same step.
THEOREM BackordersTakeOver == Spec => NothingDropped
<1>1. OnceInv /\ StoryInv /\ ViewInv /\ [Next]_vars =>
        [\A n \in Existing :
           raced[n] = {} /\ n \in Existing'
             /\ ~(IsBackorder(n) /\ orders'[n].status = "shipped") =>
           LET new == Backorders(n)' \ Backorders(n) IN
           Promised(n)' + SumFunctionOnSet([m \in new |-> orders'[m].qty], new)
             >= Promised(n)]_vars
  BY PromiseKept DEF Solo, NewQty, NewOnes
<1> QED BY <1>1, OrdersInvariant, PTL DEF Spec, NothingDropped

(***************************************************************************)
(* The stock level.  qty_reserved is what is reserved in all; a request    *)
(* that has the level's row has written what it will have committed: it    *)
(* adds what it reserves, or it has taken off what it released.            *)
(***************************************************************************)
Steady == \A n \in Numbers : raced[n] \cap {"return", "delete"} = {}

Total == SumFunction([n \in Numbers |-> ActiveQty(n)])

Holds(r) ==
  LET q == req[r] IN
  IF Frees(q)
  THEN work.reserved = level.reserved - ActiveQty(q.order) + ResvQty(q.order, q.list)
  ELSE q.booked > 0 /\ work.reserved = level.reserved + q.booked

LevelOf(r) ==
  /\ levelLock = r => Holds(r)
  /\ req[r].booked > 0 \/ req[r].freed # {} => levelLock = r

LevelInv == Steady => level.reserved = Total /\ \A r \in Requests : LevelOf(r)

\* What is reserved for an order is part of what is reserved in all.
LEMMA TotalParts ==
  ASSUME TypeInv
  PROVE  Total \in Nat /\ \A n \in Numbers : Total >= ActiveQty(n)
<1>0. PICK f : f = [n \in Numbers |-> ActiveQty(n)]
  OBVIOUS
<1>1. \A n \in Numbers : f[n] \in Nat /\ f[n] = ActiveQty(n)
  BY <1>0, ActiveQtyNat
<1>2. Total = SumFunctionOnSet(f, Numbers)
  BY <1>0 DEF Total, SumFunction
<1>3. SumFunctionOnSet(f, Numbers) \in Nat
  BY <1>1, OrderAssumption, SumNat
<1>4. ASSUME NEW n \in Numbers PROVE SumFunctionOnSet(f, Numbers) >= f[n]
  <2>1. SumFunctionOnSet(f, Numbers) = f[n] + SumFunctionOnSet(f, Numbers \ {n})
    BY <1>1, OrderAssumption, SumSplit
  <2>2. IsFiniteSet(Numbers \ {n})
    BY OrderAssumption, FS_Subset
  <2>3. SumFunctionOnSet(f, Numbers \ {n}) \in Nat
    BY <1>1, <2>2, SumNat
  <2> QED BY <1>1, <2>1, <2>3
<1> QED BY <1>1, <1>2, <1>3, <1>4

\* One order's reservations change.
LEMMA TotalChange ==
  ASSUME TypeInv, NEW n \in Numbers, ActiveQty(n)' \in Nat,
         \A m \in Numbers \ {n} : ActiveQty(m)' = ActiveQty(m)
  PROVE  Total' = Total - ActiveQty(n) + ActiveQty(n)'
<1>0. PICK f : f = [m \in Numbers |-> ActiveQty(m)]
  OBVIOUS
<1>1. PICK g : g = [m \in Numbers |-> ActiveQty(m)']
  OBVIOUS
<1>2. \A m \in Numbers : f[m] \in Nat /\ f[m] = ActiveQty(m)
  BY <1>0, ActiveQtyNat
<1>3. \A m \in Numbers : g[m] \in Nat /\ g[m] = ActiveQty(m)'
  BY <1>1, <1>2
<1>4. \A m \in Numbers \ {n} : f[m] = g[m]
  BY <1>2, <1>3
<1>5. SumFunctionOnSet(g, Numbers) = SumFunctionOnSet(f, Numbers) - f[n] + g[n]
  <2>1. IsFiniteSet(Numbers) /\ \A y \in Numbers : f[y] \in Nat /\ g[y] \in Nat
    BY <1>2, <1>3, OrderAssumption
  <2> QED BY <1>4, <2>1, SumChange
<1>6. Total = SumFunctionOnSet(f, Numbers)
  BY <1>0 DEF Total, SumFunction
<1>7. Total' = SumFunctionOnSet(g, Numbers)
  BY <1>1 DEF Total, SumFunction
<1> QED BY <1>2, <1>3, <1>5, <1>6, <1>7

LEMMA SameQtys ==
  ASSUME UNCHANGED resv
  PROVE  /\ \A n : ActiveQty(n)' = ActiveQty(n)
         /\ \A n, set : ResvQty(n, set)' = ResvQty(n, set)
         /\ Total' = Total
BY DEF ActiveQty, ActiveResv, ResvQty, Total

\* A step of r that commits nothing owes only what it says of r.
LEMMA LevelStep ==
  ASSUME LevelInv, NEW r \in Requests, UNCHANGED <<tables, raced>>,
         \A p \in Requests \ {r} : req'[p] = req[p],
         \A p \in Requests \ {r} :
           (levelLock' = p <=> levelLock = p) /\ (levelLock = p => work' = work),
         Steady => LevelOf(r)'
  PROVE  LevelInv'
<1> SUFFICES ASSUME Steady' PROVE level'.reserved = Total' /\ \A p \in Requests : LevelOf(p)'
  BY DEF LevelInv
<1>1. UNCHANGED <<resv, level>> /\ Steady
  BY DEF tables, Steady
<1>2. level'.reserved = Total'
  BY <1>1, SameQtys DEF LevelInv
<1>3. ASSUME NEW p \in Requests \ {r} PROVE LevelOf(p)'
  <2>1. LevelOf(p) /\ req'[p] = req[p] /\ (levelLock' = p <=> levelLock = p)
        /\ (levelLock = p => work' = work)
    BY <1>1, <1>3 DEF LevelInv
  <2>2. levelLock = p => (Holds(p)' <=> Holds(p))
    BY <1>1, <2>1, SameQtys DEF Holds
  <2> QED BY <2>1, <2>2 DEF LevelOf
<1> QED BY <1>1, <1>2, <1>3

LEMMA RollbackLevel ==
  ASSUME LevelInv, TypeInv, TypeInv', NEW r \in Requests, Rollback(r)
  PROVE  LevelInv'
<1>1. req'[r] = Idle /\ \A p \in Requests \ {r} : req'[p] = req[p]
  BY GoesOn DEF Rollback
<1>2. /\ levelLock' = IF levelLock = r THEN NoOwner ELSE levelLock
      /\ work' = IF levelLock = r THEN level ELSE work
      /\ UNCHANGED <<tables, raced>>
  BY DEF Rollback, Unlock
<1>3. levelLock' # r
  BY <1>2, OrderAssumption
<1>4. LevelOf(r)'
  BY <1>1, <1>3 DEF LevelOf, Idle
<1> QED BY <1>1, <1>2, <1>4, OrderAssumption, LevelStep

\* The request that arrives has not touched the level.
LEMMA ReadLevel ==
  ASSUME OnceInv, TypeInv', StoryInv, LevelInv, NEW r \in Requests, Read(r)
  PROVE  LevelInv'
<1>1. PICK q :
        /\ req[r].pc = "idle" /\ UNCHANGED <<tables, locks>>
        /\ req' = [req EXCEPT ![r] = q] /\ q.pc \in {"lock", "check"}
        /\ q.booked = 0 /\ q.freed = {}
        /\ \A m \in Numbers : raced[m] \subseteq raced'[m]
  BY ReadMove
<1>2. req'[r] = q /\ \A p \in Requests \ {r} : req'[p] = req[p]
  BY <1>1, GoesOn DEF OnceInv
<1> SUFFICES ASSUME Steady' PROVE level'.reserved = Total' /\ \A p \in Requests : LevelOf(p)'
  BY DEF LevelInv
<1>3. Steady
  BY <1>1 DEF Steady
<1>4. UNCHANGED <<resv, level, levelLock, work>>
  BY <1>1 DEF tables, locks
<1>5. level'.reserved = Total'
  BY <1>3, <1>4, SameQtys DEF LevelInv
<1>6. levelLock # r
  <2>1. req[r] = Idle
    BY <1>1 DEF StoryInv, Told, Story
  <2>2. ~Frees(req[r]) /\ ~(req[r].booked > 0)
    BY <2>1 DEF Frees, Idle
  <2> QED BY <1>3, <2>2 DEF LevelInv, LevelOf, Holds
<1>7. LevelOf(r)'
  BY <1>1, <1>2, <1>4, <1>6 DEF LevelOf
<1>8. ASSUME NEW p \in Requests \ {r} PROVE LevelOf(p)'
  <2>1. LevelOf(p) /\ req'[p] = req[p]
    BY <1>2, <1>3, <1>8 DEF LevelInv
  <2>2. Holds(p)' <=> Holds(p)
    BY <1>4, <2>1, SameQtys DEF Holds
  <2> QED BY <1>4, <2>1, <2>2 DEF LevelOf
<1> QED BY <1>5, <1>7, <1>8

\* A request that has not selected or reserved yet does not hold the level.
LEMMA NotYet ==
  ASSUME LevelInv, Steady, NEW r \in Requests, ~Frees(req[r]), req[r].booked = 0
  PROVE  levelLock # r
BY DEF LevelInv, LevelOf, Holds

\* A request that goes on without touching the level.
LEMMA OffLevel ==
  ASSUME OnceInv, TypeInv', StoryInv, LevelInv, NEW r \in Requests,
         req[r].pc \in {"lock", "check", "analyze", "select"},
         \A p \in Requests \ {r} : req'[p] = req[p],
         req'[r].booked = 0, req'[r].freed = {},
         UNCHANGED <<tables, raced, levelLock, work>>
  PROVE  LevelInv'
<1>1. ~Frees(req[r]) /\ req[r].booked = 0
  BY DEF StoryInv, Told, Story, Bare, Rest, Frees
<1>2. ASSUME Steady PROVE LevelOf(r)'
  BY <1>1, <1>2, NotYet DEF LevelOf
<1> QED BY <1>2, LevelStep

LEMMA LoadLockedLevel ==
  ASSUME OnceInv, TypeInv', StoryInv, LevelInv, NEW r \in Requests, LoadLocked(r)
  PROVE  LevelInv'
<1>1. CASE req[r].order \notin Existing
  BY <1>1, RollbackLevel DEF LoadLocked, OnceInv
<1>2. CASE req[r].order \in Existing
  <2>1. /\ req[r].pc = "lock" /\ Locked(r) /\ UNCHANGED <<tables, raced, levelLock, work>>
        /\ req[r].kind \in Locking
    BY <1>2, ReqClaim DEF LoadLocked, KindsAt
  <2>2. req[r].booked = 0 /\ req[r].freed = {} /\ req[r] \in Reqs
    BY <2>1, ReqClaim DEF StoryInv, Told, Story, Bare, Rest, Course, Frees
  <2>3. ASSUME NEW pc, NEW q, Go(r, pc, q), q \in Reqs, q.booked = 0, q.freed = {}
        PROVE  LevelInv'
    <3> DEFINE s == [q EXCEPT !.pc = pc]
    <3>1. req' = [req EXCEPT ![r] = s] /\ s.booked = 0 /\ s.freed = {}
      BY <2>3 DEF Go, Reqs
    <3> HIDE DEF s
    <3>2. req'[r] = s /\ \A p \in Requests \ {r} : req'[p] = req[p]
      BY <3>1, GoesOn DEF OnceInv
    <3> QED BY <2>1, <3>1, <3>2, OffLevel
  <2>4. SetStatus(r) \in Reqs /\ SetStatus(r).booked = 0 /\ SetStatus(r).freed = {}
    BY <2>1, <2>2, SetStatusMove DEF Locking, Moved, OnceInv
  <2>5. \E pc \in Pcs : Go(r, pc, req[r]) \/ Go(r, pc, SetStatus(r))
    BY <2>1 DEF Locked, Pcs, Locking
  <2> QED BY <2>2, <2>3, <2>4, <2>5
<1> QED BY <1>1, <1>2

LEMMA PlainLevel ==
  ASSUME OnceInv, TypeInv', StoryInv, LevelInv, NEW r \in Requests, ~Rollback(r),
         RequestApproval(r) \/ Analyze(r) \/ Simple(r) \/ Pick(r) \/ Ship(r)
  PROVE  LevelInv'
<1>1. /\ req[r].pc \in {"analyze", "check"} /\ UNCHANGED <<tables, locks, raced>>
  BY DEF RequestApproval, Analyze, Simple, Pick, Ship, At
<1>2. req[r].booked = 0 /\ req[r].freed = {} /\ req[r] \in Reqs
  BY <1>1, ReqClaim DEF StoryInv, Told, Story, Bare, Rest, Course, Frees
<1>3. ASSUME NEW q, req' = [req EXCEPT ![r] = q], q.booked = 0, q.freed = {}
      PROVE  LevelInv'
  <2>1. req'[r] = q /\ \A p \in Requests \ {r} : req'[p] = req[p]
    BY <1>3, GoesOn DEF OnceInv
  <2> QED BY <1>1, <1>3, <2>1, OffLevel DEF locks
<1>4. CASE RequestApproval(r)
  <2> DEFINE q == [req[r] EXCEPT !.to.status = "pending_approval", !.pc = "commit"]
  <2>1. req' = [req EXCEPT ![r] = q] /\ q.booked = 0 /\ q.freed = {}
    BY <1>2, <1>4 DEF RequestApproval, Go, Reqs
  <2> HIDE DEF q
  <2> QED BY <1>3, <2>1
<1>5. CASE Analyze(r)
  <2> PICK take : take = Lesser(req[r].seen.qty,
                                AtLeastZero(Level(r).onHand - Level(r).reserved))
    OBVIOUS
  <2> DEFINE q == [req[r] EXCEPT !.to.qty = take, !.child = req[r].seen.qty - take,
                                 !.pc = "reserve"]
  <2>1. req' = [req EXCEPT ![r] = q]
    BY <1>5 DEF Analyze, Go
  <2>2. q.booked = 0 /\ q.freed = {}
    BY <1>2 DEF Reqs
  <2> HIDE DEF q
  <2> QED BY <1>3, <2>1, <2>2
<1>6. CASE (Simple(r) \/ Pick(r)) /\ Go(r, "commit", SetStatus(r))
  <2> DEFINE q == [SetStatus(r) EXCEPT !.pc = "commit"]
  <2>1. req' = [req EXCEPT ![r] = q]
    BY <1>6 DEF Go
  <2>2. q.booked = 0 /\ q.freed = {}
    BY <1>2 DEF Reqs, SetStatus
  <2> HIDE DEF q
  <2> QED BY <1>3, <2>1, <2>2
<1>7. CASE Simple(r) /\ req[r].kind = "delete"
  <2> DEFINE q == [req[r] EXCEPT !.to = NoOrder, !.pc = "commit"]
  <2>1. req' = [req EXCEPT ![r] = q]
    BY <1>7 DEF Simple, Go
  <2>2. q.booked = 0 /\ q.freed = {}
    BY <1>2 DEF Reqs
  <2> HIDE DEF q
  <2> QED BY <1>3, <2>1, <2>2
<1>8. CASE Ship(r)
  <2>1. PICK qty \in 0..level.onHand :
          Go(r, "commit", [SetStatus(r) EXCEPT !.to.shipped = qty,
               !.child = LeftOver(r, qty),
               !.to.qty = IF LeftOver(r, qty) > 0 /\ qty > 0 THEN qty ELSE @])
    BY <1>8 DEF Ship
  <2> PICK left : left = LeftOver(r, qty)
    OBVIOUS
  <2> DEFINE q == [SetStatus(r) EXCEPT !.to.shipped = qty, !.child = left,
                     !.to.qty = IF left > 0 /\ qty > 0 THEN qty ELSE @,
                     !.pc = "commit"]
  <2>2. req' = [req EXCEPT ![r] = q]
    BY <1>8, <2>1 DEF Go
  <2>3. q.booked = 0 /\ q.freed = {}
    BY <1>2 DEF Reqs, SetStatus
  <2> HIDE DEF q
  <2> QED BY <1>3, <2>2, <2>3
<1>9. Pick(r) => Go(r, "commit", SetStatus(r))
  BY DEF Pick
<1>10. Simple(r) => req[r].kind = "delete" \/ Go(r, "commit", SetStatus(r))
  BY DEF Simple
<1> QED BY <1>4, <1>5, <1>6, <1>7, <1>8, <1>9, <1>10

LEMMA ReserveLevel ==
  ASSUME OnceInv, TypeInv', StoryInv, LevelInv, NEW r \in Requests, Reserve(r), ~Rollback(r)
  PROVE  LevelInv'
<1> PICK qty : qty = req[r].to.qty
  OBVIOUS
<1> DEFINE q == [req[r] EXCEPT !.booked = qty, !.to.status = "confirmed", !.pc = "commit"]
<1>1. /\ req[r].pc = "reserve" /\ LevelFree(r) /\ UNCHANGED <<tables, raced>>
      /\ WriteLevel(r, [Level(r) EXCEPT !.reserved = @ + qty])
      /\ req' = [req EXCEPT ![r] = q]
  BY DEF Reserve, Go
<1>2. /\ q.booked = qty /\ q.pc = "commit" /\ q.kind = req[r].kind /\ q.freed = req[r].freed
      /\ req[r].kind \in {"confirm", "approve"}
  BY <1>1, ReqClaim DEF Reqs, KindsAt
<1>3. ~Frees(req[r]) /\ ~Frees(q) /\ req[r].booked = 0 /\ req[r].freed = {} /\ qty > 0
  BY <1>1, <1>2 DEF StoryInv, Told, Story, Halves, Course, Frees
<1> HIDE DEF q
<1>4. req'[r] = q /\ \A p \in Requests \ {r} : req'[p] = req[p]
  BY <1>1, GoesOn DEF OnceInv
<1>5. ASSUME Steady PROVE LevelOf(r)'
  <2>1. levelLock # r
    BY <1>3, <1>5, NotYet
  <2>2. level \in [onHand : Nat, reserved : Nat] /\ Level(r) = level
    BY <2>1 DEF Level, OnceInv, TypeInv, TypeOK
  <2>3. levelLock' = r /\ work'.reserved = level.reserved + qty /\ level' = level
    BY <1>1, <2>2 DEF WriteLevel, tables
  <2>4. Holds(r)'
    BY <1>2, <1>3, <1>4, <2>3 DEF Holds, Frees
  <2> QED BY <2>3, <2>4 DEF LevelOf
<1>6. \A p \in Requests \ {r} : levelLock' # p /\ levelLock # p
  BY <1>1, OrderAssumption DEF WriteLevel, LevelFree
<1> QED BY <1>1, <1>4, <1>5, <1>6, LevelStep

\* As long as no return has overlapped, what a request has selected are its
\* order's reservations.
LEMMA SteadySure ==
  ASSUME OnceInv, ViewInv, Steady, NEW r \in Requests, Frees(req[r])
  PROVE  /\ req[r].order \in Numbers /\ Sure(r) /\ Selected(req[r])
         /\ req[r].list \cup req[r].freed = ActiveResv(req[r].order)
         /\ req[r].held = resv[req[r].order]
<1>1. req[r].order \in Numbers /\ req[r].pc # "idle"
  BY ReqType DEF Frees, OnceInv
<1>2. req[r].kind = "return" => Alone(r)
  BY <1>1 DEF Steady, Alone
<1> QED BY <1>1, <1>2 DEF Sure, ViewInv, Keen, Selected

LEMMA SelectLevel ==
  ASSUME OnceInv, TypeInv', StoryInv, LevelInv, NEW r \in Requests, SelectActive(r)
  PROVE  LevelInv'
<1>1. PICK q : Goes(r, q) /\ Frees(q) /\ Told(q) /\ q.freed = {}
  BY SelectMove
<1>2. req'[r] = q /\ \A p \in Requests \ {r} : req'[p] = req[p]
  BY <1>1, GoesOn DEF Goes, OnceInv
<1>3. q.booked = 0
  BY <1>1 DEF Told, Story, Frees, Written, Moved
<1>4. req[r].pc \in {"select", "check"} /\ UNCHANGED <<tables, locks, raced>>
  BY DEF SelectActive, At
<1> QED BY <1>1, <1>2, <1>3, <1>4, OffLevel DEF locks

\* What a request that releases reservations has to have taken off.
LEMMA FreesLevel ==
  ASSUME OnceInv, TypeInv', StoryInv, ViewInv, LevelInv, NEW r \in Requests,
         NEW q, Goes(r, q), Frees(q), Told(q), UNCHANGED <<tables, raced>>,
         \A p \in Requests \ {r} :
           (levelLock' = p <=> levelLock = p) /\ (levelLock = p => work' = work),
         Steady /\ levelLock' = r =>
           work'.reserved = level.reserved - ActiveQty(q.order) + ResvQty(q.order, q.list),
         Steady /\ q.freed # {} => levelLock' = r
  PROVE  LevelInv'
<1>1. req'[r] = q /\ \A p \in Requests \ {r} : req'[p] = req[p]
  BY GoesOn DEF Goes, OnceInv
<1>2. q.booked = 0
  BY DEF Told, Story, Frees, Written, Moved
<1>3. UNCHANGED <<resv, level>>
  BY DEF tables
<1>4. ASSUME Steady PROVE LevelOf(r)'
  <2>1. levelLock' = r => Holds(r)'
    BY <1>1, <1>3, <1>4, SameQtys DEF Holds, Frees
  <2> QED BY <1>1, <1>2, <1>4, <2>1 DEF LevelOf
<1> QED BY <1>1, <1>4, LevelStep

LEMMA ReleaseLevel ==
  ASSUME OnceInv, TypeInv', StoryInv, ViewInv, LevelInv, NEW r \in Requests, Release(r)
  PROVE  LevelInv'
<1>1. PICK q, i : /\ Goes(r, q) /\ Frees(q) /\ Told(q) /\ Frees(req[r])
                  /\ i \in req[r].list /\ q.list = req[r].list \ {i}
                  /\ q.freed = req[r].freed \cup {i}
                  /\ IF Enough(r, req[r].held[i].qty)
                     THEN LevelFree(r) /\ WriteLevel(r,
                            [Level(r) EXCEPT !.reserved = @ - req[r].held[i].qty])
                     ELSE UNCHANGED <<levelLock, work>>
  BY ReleaseMove
<1>2. UNCHANGED <<tables, raced>> /\ req[r].pc = "release"
  BY DEF Release
<1>3. q.order = req[r].order
  BY <1>1 DEF Goes
<1>4. ASSUME Steady
      PROVE  /\ levelLock' = r
             /\ work'.reserved = level.reserved - ActiveQty(q.order) + ResvQty(q.order, q.list)
  <2>0. PICK n, list, qty : n = q.order /\ list = req[r].list /\ qty = req[r].held[i].qty
    OBVIOUS
  <2>1. /\ n \in Numbers /\ list \cup req[r].freed = ActiveResv(n)
        /\ req[r].held = resv[n]
    BY <1>1, <1>3, <1>4, <2>0, SteadySure
  <2>2. /\ list \in SUBSET (DOMAIN resv[n]) /\ i \in list
        /\ q.list = list \ {i} /\ list \ {i} \in SUBSET (DOMAIN resv[n])
    BY <1>1, <2>0, <2>1 DEF ActiveResv
  <2>3. /\ ResvQty(n, list) = qty + ResvQty(n, list \ {i}) /\ qty \in Nat
        /\ ResvQty(n, list \ {i}) \in Nat
    <3>1. qty = resv[n][i].qty
      BY <2>0, <2>1
    <3>2. ResvQty(n, list) = resv[n][i].qty + ResvQty(n, list \ {i})
          /\ resv[n][i].qty \in Nat
      BY <2>1, <2>2, ResvQtySplit DEF OnceInv
    <3>3. ResvQty(n, list \ {i}) \in Nat
      BY <2>1, <2>2, ResvQtyNat DEF OnceInv
    <3> QED BY <3>1, <3>2, <3>3
  <2>4. ActiveQty(n) \in Nat /\ level.reserved \in Nat /\ level.reserved >= ActiveQty(n)
        /\ Level(r) \in [onHand : Nat, reserved : Nat]
    BY <1>4, <2>1, ActiveQtyNat, TotalParts, LevelType DEF OnceInv, LevelInv, TypeInv, TypeOK
  <2>5. Level(r).reserved = level.reserved - ActiveQty(n) + ResvQty(n, list)
    <3>1. CASE levelLock = r
      <4>1. Holds(r)
        BY <1>4, <3>1 DEF LevelInv, LevelOf
      <4> QED BY <1>1, <1>3, <2>0, <3>1, <4>1 DEF Holds, Level
    <3>2. CASE levelLock # r
      <4>1. req[r].freed = {}
        BY <1>4, <3>2 DEF LevelInv, LevelOf
      <4>2. list = ActiveResv(n)
        BY <2>1, <4>1
      <4>3. Level(r) = level
        BY <3>2 DEF Level
      <4>4. ActiveQty(n) = ResvQty(n, list)
        BY <4>2 DEF ActiveQty
      <4> QED BY <2>4, <4>3, <4>4
    <3> QED BY <3>1, <3>2
  <2>6. Level(r).reserved >= qty
    BY <2>3, <2>4, <2>5
  <2>7. levelLock' = r /\ work' = [Level(r) EXCEPT !.reserved = @ - qty]
    BY <1>1, <2>0, <2>6 DEF Enough, WriteLevel
  <2>8. work'.reserved = Level(r).reserved - qty
    BY <2>4, <2>7
  <2>9. work'.reserved = level.reserved - ActiveQty(n) + ResvQty(n, list \ {i})
    BY <2>3, <2>4, <2>5, <2>8
  <2> QED BY <2>0, <2>2, <2>7, <2>9
<1>5. \A p \in Requests \ {r} :
        (levelLock' = p <=> levelLock = p) /\ (levelLock = p => work' = work)
  BY <1>1, OrderAssumption DEF WriteLevel, LevelFree
<1> QED BY <1>1, <1>2, <1>4, <1>5, FreesLevel

\* Deducting stock and putting it back leave what is reserved alone.
LEMMA OnHandLevel ==
  ASSUME OnceInv, TypeInv', StoryInv, ViewInv, LevelInv, NEW r \in Requests,
         Issue(r) \/ Restock(r), ~Rollback(r)
  PROVE  LevelInv'
<1>1. PICK q : /\ Goes(r, q) /\ Frees(q) /\ Told(q) /\ Frees(req[r])
               /\ q.list = req[r].list /\ q.freed = req[r].freed
  BY IssueMove, RestockMove
<1>2. UNCHANGED <<tables, raced>> /\ req[r].pc \in {"issue", "restock"}
  BY DEF Issue, Restock
<1>3. q.order = req[r].order /\ req[r].list = {}
  BY <1>1, <1>2 DEF Goes, StoryInv, Told, Course
<1>4. Level(r) \in [onHand : Nat, reserved : Nat]
  BY LevelType DEF OnceInv
<1>5. \/ UNCHANGED <<levelLock, work>>
      \/ LevelFree(r) /\ levelLock' = r /\ work'.reserved = Level(r).reserved
  <2>1. CASE Issue(r)
    BY <1>4, <2>1 DEF Issue, WriteLevel
  <2>2. CASE Restock(r)
    BY <1>4, <2>2 DEF Restock, WriteLevel
  <2> QED BY <2>1, <2>2
<1>6. ASSUME Steady, levelLock' = r
      PROVE  work'.reserved = level.reserved - ActiveQty(q.order) + ResvQty(q.order, q.list)
  <2>1. CASE levelLock = r
    <3>1. Holds(r)
      BY <1>6, <2>1 DEF LevelInv, LevelOf
    <3>2. work'.reserved = work.reserved
      BY <1>5, <2>1 DEF Level
    <3> QED BY <1>1, <1>3, <3>1, <3>2 DEF Holds
  <2>2. CASE levelLock # r
    <3>1. work'.reserved = level.reserved
      BY <1>5, <1>6, <2>2 DEF Level
    <3>2. req[r].freed = {}
      BY <1>6, <2>2 DEF LevelInv, LevelOf
    <3>3. ActiveResv(q.order) = {} /\ q.order \in Numbers
      BY <1>1, <1>3, <1>6, <3>2, SteadySure
    <3>4. ActiveQty(q.order) = 0 /\ ResvQty(q.order, q.list) = 0
      <4>1. ResvQty(q.order, {}) = 0
        BY <3>3, ResvQtyNat DEF OnceInv
      <4> QED BY <1>1, <1>3, <3>3, <4>1 DEF ActiveQty
    <3>5. level.reserved \in Nat
      BY DEF OnceInv, TypeInv, TypeOK
    <3> QED BY <3>1, <3>4, <3>5
  <2> QED BY <2>1, <2>2
<1>7. Steady /\ q.freed # {} => levelLock' = r
  BY <1>1, <1>5 DEF LevelInv, LevelOf
<1>8. \A p \in Requests \ {r} :
        (levelLock' = p <=> levelLock = p) /\ (levelLock = p => work' = work)
  BY <1>5, OrderAssumption DEF LevelFree
<1> QED BY <1>1, <1>2, <1>6, <1>7, <1>8, FreesLevel

\* A commit makes the level what its order's reservations have become.
LEMMA OwnLevel ==
  ASSUME OnceInv, TypeInv', StoryInv, ViewInv, LevelInv, Steady,
         NEW r \in Requests, Commit(r), ~Rollback(r), NEW n, n = req[r].order
  PROVE  /\ ActiveQty(n)' \in Nat
         /\ Level(r).reserved = level.reserved - ActiveQty(n) + ActiveQty(n)'
<1>0. PICK q : q = req[r]
  OBVIOUS
<1>1. /\ n \in Existing /\ n \in Numbers /\ q.pc = "commit" /\ Told(q) /\ Written(q)
      /\ q \in Reqs /\ q.list = {} /\ Claim(q) /\ Course(q)
  BY <1>0, CommitWrites, ReqClaim DEF StoryInv, Told, Story, Course
<1>2. ActiveQty(n) \in Nat /\ level.reserved \in Nat
  BY <1>1, ActiveQtyNat DEF OnceInv, TypeInv, TypeOK
<1>3. LevelOf(r)
  BY DEF LevelInv
<1>4. CASE Frees(q)
  <2>1. q.kind # "delete" /\ q.booked = 0
    BY <1>1, <1>4 DEF Frees, Written, Moved
  <2>2. q.freed = ActiveResv(n)
    BY <1>0, <1>1, <1>4, SteadySure
  <2>3. ActiveQty(n)' = ResvQty(n, {}) /\ ResvQty(n, {}) = 0
    <3>1. ActiveResv(n) \ q.freed = {}
      BY <2>2
    <3>2. ActiveQty(n)' = ResvQty(n, ActiveResv(n) \ q.freed)
      BY <1>0, <2>1, CommitQty
    <3>3. ResvQty(n, {}) = 0
      BY <1>1, ResvQtyNat DEF OnceInv
    <3> QED BY <3>1, <3>2, <3>3
  <2>4. CASE levelLock = r
    <3>1. Holds(r) /\ Level(r) = work
      BY <1>3, <2>4 DEF LevelOf, Level
    <3>2. work.reserved = level.reserved - ActiveQty(n) + ResvQty(n, {})
      BY <1>0, <1>1, <1>4, <3>1 DEF Holds
    <3> QED BY <2>3, <3>1, <3>2
  <2>5. CASE levelLock # r
    <3>1. q.freed = {} /\ Level(r) = level
      BY <1>0, <1>3, <2>5 DEF LevelOf, Level
    <3>2. ActiveQty(n) = 0
      BY <1>1, <2>2, <3>1, ActiveQtyNat DEF OnceInv
    <3> QED BY <1>2, <2>3, <3>1, <3>2
  <2> QED BY <2>4, <2>5
<1>5. CASE ~Frees(q)
  <2>1. q.freed = {}
    BY <1>1, <1>5 DEF Course
  <2>2. CASE q.kind = "delete"
    <3>1. q.booked = 0 /\ Level(r) = level
      <4>1. q.booked = 0
        BY <1>1, <2>2 DEF Written, Rest
      <4> QED BY <1>0, <1>5, <4>1, NotYet DEF Level
    <3>2. q.seen = orders[n]
      BY <1>0, <1>1, <2>2 DEF ViewInv, Fresh, Alone, Steady
    <3>3. orders[n].status = "draft"
      BY <1>1, <2>2, <3>2 DEF Claim, Permitted
    <3>4. resv[n] = <<>>
      BY <1>1, <3>3 DEF ViewInv, Unbooked
    <3>5. resv'[n] = <<>>
      <4>1. resv' = [resv EXCEPT ![n] = NewResv(r)] /\ resv \in [Numbers -> Seq(Reservation)]
        BY CommitWrites DEF OnceInv, TypeInv, TypeOK
      <4> QED BY <1>0, <1>1, <2>2, <4>1 DEF NewResv
    <3>6. ActiveQty(n) = 0 /\ ActiveQty(n)' = 0
      <4>1. ActiveResv(n) = {} /\ ActiveResv(n)' = {}
        BY <3>4, <3>5 DEF ActiveResv
      <4> QED BY <4>1, SumEmpty DEF ActiveQty, ResvQty
    <3> QED BY <1>2, <3>1, <3>6
  <2>3. CASE q.kind # "delete" /\ q.booked > 0
    <3>1. levelLock = r /\ Holds(r) /\ Level(r) = work
      BY <1>0, <1>3, <2>3 DEF LevelOf, Level
    <3>2. work.reserved = level.reserved + q.booked
      BY <1>0, <1>5, <3>1 DEF Holds
    <3>3. ActiveQty(n)' = ActiveQty(n) + q.booked /\ q.booked \in Nat
      BY <1>0, <1>1, <2>1, <2>3, CommitBooks DEF Reqs
    <3> QED BY <1>2, <3>1, <3>2, <3>3
  <2>4. CASE q.kind # "delete" /\ q.booked = 0
    <3>1. Level(r) = level
      BY <1>0, <1>5, <2>4, NotYet DEF Level
    <3>2. ActiveQty(n)' = ActiveQty(n)
      <4>1. ActiveResv(n) \ q.freed = ActiveResv(n)
        BY <2>1
      <4>2. ActiveQty(n)' = ResvQty(n, ActiveResv(n) \ q.freed)
        BY <1>0, <2>4, CommitQty
      <4> QED BY <4>1, <4>2 DEF ActiveQty
    <3> QED BY <1>2, <3>1, <3>2
  <2>5. q.booked = 0 \/ q.booked > 0
    BY <1>1 DEF Reqs
  <2> QED BY <2>2, <2>3, <2>4, <2>5
<1> QED BY <1>4, <1>5

LEMMA CommitLevel ==
  ASSUME OnceInv, TypeInv', StoryInv, ViewInv, LevelInv,
         NEW r \in Requests, Commit(r), ~Rollback(r)
  PROVE  LevelInv'
<1> PICK n : n = req[r].order
  OBVIOUS
<1>1. /\ n \in Numbers /\ UNCHANGED raced /\ req' = [req EXCEPT ![r] = Idle] /\ Unlock(r)
      /\ level' = Level(r) /\ UNCHANGED work
  BY CommitWrites DEF Commit
<1>2. req'[r] = Idle /\ \A p \in Requests \ {r} : req'[p] = req[p]
  BY <1>1, GoesOn DEF OnceInv
<1> SUFFICES ASSUME Steady' PROVE level'.reserved = Total' /\ \A p \in Requests : LevelOf(p)'
  BY DEF LevelInv
<1>3. Steady
  BY <1>1 DEF Steady
<1>4. \A m \in Numbers \ {n} : resv'[m] = resv[m]
  BY CommitOthers
<1>5. level'.reserved = Total'
  <2>1. \A m \in Numbers \ {n} : ActiveQty(m)' = ActiveQty(m)
    BY <1>4 DEF ActiveQty, ActiveResv, ResvQty
  <2>2. /\ ActiveQty(n)' \in Nat
        /\ Level(r).reserved = level.reserved - ActiveQty(n) + ActiveQty(n)'
    BY <1>3, OwnLevel
  <2>3. Total' = Total - ActiveQty(n) + ActiveQty(n)'
    BY <1>1, <2>1, <2>2, TotalChange DEF OnceInv
  <2>4. level.reserved = Total
    BY <1>3 DEF LevelInv
  <2> QED BY <1>1, <2>2, <2>3, <2>4
<1>6. LevelOf(r)'
  <2>1. levelLock' # r
    BY <1>1, OrderAssumption DEF Unlock
  <2> QED BY <1>2, <2>1 DEF LevelOf, Idle
<1>7. ASSUME NEW p \in Requests \ {r} PROVE LevelOf(p)'
  <2>1. LevelOf(p) /\ req'[p] = req[p]
    BY <1>2, <1>3, <1>7 DEF LevelInv
  <2>2. levelLock' = p <=> levelLock = p
    BY <1>1, <1>7, OrderAssumption DEF Unlock
  <2>3. ASSUME levelLock = p PROVE Holds(p)'
    <3>1. Holds(p) /\ level' = level /\ work' = work
      BY <1>1, <1>7, <2>1, <2>3 DEF LevelOf, Level
    <3>2. CASE Frees(req[p])
      <4>1. req[p].order \in Numbers \ {n}
        BY <1>3, <1>7, <3>2, SteadySure, CommitApart
      <4>2. /\ ActiveQty(req[p].order)' = ActiveQty(req[p].order)
            /\ ResvQty(req[p].order, req[p].list)' = ResvQty(req[p].order, req[p].list)
        <5>1. PICK m, list : m = req[p].order /\ list = req[p].list
          OBVIOUS
        <5>2. resv'[m] = resv[m]
          BY <1>4, <4>1, <5>1
        <5>3. m = req'[p].order /\ list = req'[p].list
          BY <2>1, <5>1
        <5> QED BY <5>1, <5>2, <5>3 DEF ActiveQty, ActiveResv, ResvQty
      <4> QED BY <2>1, <3>1, <3>2, <4>2 DEF Holds
    <3>3. CASE ~Frees(req[p])
      BY <2>1, <3>1, <3>3 DEF Holds
    <3> QED BY <3>2, <3>3
  <2> QED BY <2>1, <2>2, <2>3 DEF LevelOf
<1> QED BY <1>5, <1>6, <1>7

LEMMA LevelInit == Init => LevelInv
<1> SUFFICES ASSUME Init PROVE LevelInv
  OBVIOUS
<1>0. PICK f : f = [n \in Numbers |-> ActiveQty(n)]
  OBVIOUS
<1>1. Total = SumFunctionOnSet(f, Numbers)
  BY <1>0 DEF Total, SumFunction
<1>2. \A n \in Numbers : f[n] = IF n = Sent THEN Demand[Sent] ELSE 0
  BY <1>0, InitQty
<1>3. level.reserved = Total
  <2>1. CASE Sent = <<>>
    <3>1. \A n \in Numbers : f[n] = 0
      BY <1>2, <2>1, OrderAssumption
    <3>2. SumFunctionOnSet(f, Numbers) = 0
      BY <3>1, OrderAssumption, SumZero
    <3> QED BY <1>1, <2>1, <3>2 DEF Init
  <2>2. CASE Sent # <<>>
    <3>1. Sent \in Numbers /\ Demand[Sent] \in Nat /\ IsFiniteSet(Numbers)
      BY <2>2, OrderAssumption
    <3>2. IsFiniteSet(Numbers \ {Sent}) /\ \A n \in Numbers \ {Sent} : f[n] = 0
      BY <1>2, <3>1, FS_Subset
    <3>3. SumFunctionOnSet(f, Numbers \ {Sent}) = 0
      BY <3>2, SumZero
    <3>4. \A n \in Numbers : f[n] \in Nat
      BY <1>2, <3>1
    <3>5. SumFunctionOnSet(f, Numbers) = f[Sent] + SumFunctionOnSet(f, Numbers \ {Sent})
      BY <3>1, <3>4, SumSplit
    <3> QED BY <1>1, <1>2, <2>2, <3>1, <3>3, <3>5 DEF Init
  <2> QED BY <2>1, <2>2
<1>4. ASSUME NEW r \in Requests PROVE LevelOf(r)
  BY <1>4, OrderAssumption DEF Init, LevelOf, Idle
<1> QED BY <1>3, <1>4 DEF LevelInv

LEMMA LevelNext ==
  OnceInv /\ StoryInv /\ ViewInv /\ LevelInv /\ [Next]_vars => LevelInv'
<1> SUFFICES ASSUME OnceInv, StoryInv, ViewInv, LevelInv, [Next]_vars PROVE LevelInv'
  OBVIOUS
<1>1. TypeInv'
  BY NextType DEF OnceInv
<1>2. ASSUME UNCHANGED <<resv, req, levelLock, raced>>, level'.reserved = level.reserved,
             levelLock = NoOwner \/ UNCHANGED <<level, work>>
      PROVE  LevelInv'
  <2>1. ASSUME NEW p \in Requests, LevelOf(p) PROVE LevelOf(p)'
    <3>1. levelLock = p => (Holds(p)' <=> Holds(p))
      BY <1>2, OrderAssumption, SameQtys DEF Holds
    <3> QED BY <1>2, <2>1, <3>1 DEF LevelOf
  <2> QED BY <1>2, <2>1, SameQtys DEF LevelInv, Steady
<1>3. CASE Receive \/ UNCHANGED vars
  <2>1. CASE Receive
    <3>1. level'.reserved = level.reserved
      BY <2>1 DEF Receive, OnceInv, TypeInv, TypeOK
    <3> QED BY <1>2, <2>1, <3>1 DEF Receive
  <2>2. CASE UNCHANGED vars
    BY <1>2, <2>2 DEF vars, tables, locks
  <2> QED BY <1>3, <2>1, <2>2
<1>4. ASSUME NEW r \in Requests,
             Read(r) \/ Step(r) \/ DeadlockVictim(r) \/ Abort(r)
      PROVE  LevelInv'
  <2>1. CASE Rollback(r)
    BY <1>1, <2>1, RollbackLevel DEF OnceInv
  <2>2. CASE ~Rollback(r)
    BY <1>1, <1>4, <2>2, ReadLevel, LoadLockedLevel, PlainLevel, ReserveLevel, SelectLevel,
       ReleaseLevel, OnHandLevel, CommitLevel DEF Step, DeadlockVictim, Abort
  <2> QED BY <2>1, <2>2
<1> QED BY <1>3, <1>4 DEF Next

\* As long as no return or deletion overlapped another request of its order,
\* the units reserved on the stock level are those of the active reservations,
\* however confirmations, deliveries, cancellations, failures and deadlocks of
\* all orders interleave.
THEOREM LevelKept == Spec => []LevelMatches
<1>1. LevelInv => LevelMatches
  BY DEF LevelInv, Steady, Total, LevelMatches
<1> QED BY <1>1, OnceInit, StoryInit, ViewInit, LevelInit, OnceNext, StoryNext, ViewNext,
        LevelNext, PTL DEF Spec
=============================================================================
