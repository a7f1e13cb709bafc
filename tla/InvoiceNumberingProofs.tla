------------------------ MODULE InvoiceNumberingProofs ------------------------
(***************************************************************************)
(* What is kept true for any number of requests, payments and gates in     *)
(* InvoiceNumbering and, as the named instances B and G over variables of  *)
(* their own, in Billing and ModuleGate.                                   *)
(*                                                                         *)
(* Numbering.  A number is given while the row is locked, so what protects *)
(* it is the relation between the lock, the request's draft and the        *)
(* committed counter (HoldInv), the floor a healed or well-created counter *)
(* never falls under (FloorInv), for a resolution created with its counter *)
(* in place, that nobody ever heals it (CountInv), and, for a request that *)
(* no replacement came between, that both its look-ups found the same      *)
(* resolution (RouteInv).                                                  *)
(***************************************************************************)
EXTENDS InvoiceNumbering, BillingPromises, ModulePromises, FiniteSetTheorems, TLAPS

\* What a request holds of the rows, and what it has written there.
HoldAt(r) ==
    /\ req[r].pc \in {"read", "heal", "increment"} => req[r].res \in Resolutions
    /\ req[r].pc \notin {"adapter", "done"} => req[r].number = 0
    /\ req[r].pc = "adapter" /\ req[r].number # 0 => Holds(r)
    /\ \A res \in Resolutions :
          lock[res] = r =>
            /\ req[r].res = res
            /\ \/ req[r].pc = "increment" /\ req[r].draft = From[res] - 1
               \/ /\ req[r].pc = "adapter"
                  /\ req[r].number = req[r].draft
                  /\ req[r].draft \in From[res]..To[res]

HoldInv == \A r \in Reqs : HoldAt(r)

\* The floor of the resolution res, as request r knows it.
FloorAt(r, res) ==
    req[r].res = res =>
        /\ req[r].pc \in {"read", "increment"} /\ req[r].seen >= From[res] - 1
              => current[res] >= From[res] - 1
        /\ req[r].pc = "heal" => req[r].seen < From[res] - 1
        /\ req[r].pc = "increment" =>
              req[r].seen >= From[res] - 1 \/ lock[res] = r

FloorInv == \A r \in Reqs, res \in Resolutions : FloorAt(r, res)

CountInv ==
    \A res \in Initialised :
        /\ current[res] >= Start[res]
        /\ \A r \in Reqs :
              req[r].res = res =>
                /\ req[r].pc = "read" => req[r].seen >= Start[res]
                /\ req[r].pc # "heal"
                /\ lock[res] = r =>
                      req[r].pc = "adapter" /\ req[r].draft = current[res] + 1

\* Every number given lies in the range of the resolution it is counted in.
CountedInRange == \A i \in invoices : i.number \in From[i.res]..To[i.res]

RouteInv ==
    /\ \A r \in Reqs :
          /\ req[r].number # 0 => req[r].routed \in Resolutions
          /\ req[r].pc \in {"read", "heal", "increment"} => req[r].routed \in Resolutions
          /\ r \notin outdated =>
                /\ req[r].pc = "read" => req[r].routed = active
                /\ req[r].pc \in {"heal", "increment"} \/ req[r].number # 0
                      => req[r].routed = req[r].res
    /\ \A i \in invoices : i.by \notin outdated => i.bears = i.res

RangeInv == TypeOK /\ HoldInv /\ FloorInv /\ CountedInRange

NumberInv == RangeInv /\ CountInv /\ Consecutive

-----------------------------------------------------------------------------
(* Types.                                                                  *)

\* A step that gives a request a well-typed value keeps the requests typed.
LEMMA MoveType ==
    ASSUME TypeOK, NEW r \in Reqs, NEW q \in Request, Move(r, q)
    PROVE  /\ req' \in [Reqs -> Request]
           /\ req'[r] = q
           /\ \A p \in Reqs : p # r => req'[p] = req[p]
BY DEF TypeOK, Move

\* Ending a request frees what it held and nothing else.
LEMMA UnlockedFact ==
    ASSUME TypeOK, NEW r \in Reqs
    PROVE  /\ Unlocked(r) \in [Resolutions -> Reqs \cup {NoReq}]
           /\ \A res \in Resolutions : Unlocked(r)[res] # r
           /\ \A res \in Resolutions, p \in Reqs :
                 p # r => (Unlocked(r)[res] = p <=> lock[res] = p)
BY NoneAssumption DEF TypeOK, Unlocked

\* A counter value is a natural number.
LEMMA CounterType ==
    ASSUME TypeOK, NEW r \in Reqs, req[r].res \in Resolutions
    PROVE  Counter(r) \in Nat
<1>1. req[r].draft \in Nat
  BY DEF TypeOK, Request
<1> QED BY <1>1 DEF TypeOK, Counter

LEMMA InitNumber == Init => NumberInv
<1> SUFFICES ASSUME Init PROVE NumberInv
  OBVIOUS
<1>1. Idle \in Request
  BY DEF Idle, Request, Pcs
<1>2. TypeOK
  BY <1>1, RangeAssumption DEF Init, TypeOK
<1>3. \A r \in Reqs : req[r] = Idle
  BY DEF Init
<1>4. \A res \in Resolutions, r \in Reqs : lock[res] # r
  BY NoneAssumption DEF Init
<1>5. HoldInv /\ FloorInv
  BY <1>3, <1>4, NoneAssumption DEF HoldInv, HoldAt, FloorInv, FloorAt, Idle
<1>6. CountedInRange
  BY DEF Init, CountedInRange
<1>7. CountInv
  BY <1>3, NoneAssumption, RangeAssumption DEF CountInv, Initialised, Init, Idle
<1>8. Consecutive
  BY RangeAssumption DEF Consecutive, Initialised, Init
<1> QED BY <1>2, <1>5, <1>6, <1>7, <1>8 DEF NumberInv, RangeInv

-----------------------------------------------------------------------------
(* The statements of a request, one lemma each.                            *)

LEMMA ArriveStep ==
    ASSUME NumberInv, NEW r \in Reqs, Arrive(r)
    PROVE  NumberInv'
<1> DEFINE q == [req[r] EXCEPT !.pc = "route"]
<1>1. TypeOK /\ req[r] \in Request /\ req[r].pc = "idle"
  BY DEF NumberInv, RangeInv, TypeOK, Arrive, At
<1>2. q \in Request /\ q.pc = "route" /\ q.number = req[r].number /\ q.res = req[r].res
  BY <1>1 DEF Request, Pcs
<1>3. UNCHANGED <<created, active, current, lock, invoices, outdated>>
  BY DEF Arrive
<1>4. /\ req' \in [Reqs -> Request] /\ req'[r] = q
      /\ \A p \in Reqs : p # r => req'[p] = req[p]
  BY <1>1, <1>2, MoveType DEF Arrive
<1> HIDE DEF q
<1>5. TypeOK'
  BY <1>1, <1>3, <1>4 DEF TypeOK
<1>6. \A res \in Resolutions : lock[res] # r
  BY <1>1 DEF NumberInv, RangeInv, HoldInv, HoldAt
<1>7. HoldInv'
  BY <1>1, <1>2, <1>3, <1>4, <1>6 DEF NumberInv, RangeInv, HoldInv, HoldAt, Holds
<1>8. FloorInv'
  BY <1>2, <1>3, <1>4 DEF NumberInv, RangeInv, FloorInv, FloorAt
<1>9. CountInv'
  BY <1>2, <1>3, <1>4, <1>6 DEF NumberInv, CountInv, Initialised
<1>10. CountedInRange' /\ Consecutive'
  BY <1>3 DEF NumberInv, RangeInv, CountedInRange, Consecutive, Initialised
<1> QED BY <1>5, <1>7, <1>8, <1>9, <1>10 DEF NumberInv, RangeInv

LEMMA RouteStep ==
    ASSUME NumberInv, NEW r \in Reqs, Route(r)
    PROVE  NumberInv'
<1>1. TypeOK /\ req[r] \in Request /\ req[r].pc = "route" /\ req[r].number = 0
  BY DEF NumberInv, RangeInv, HoldInv, HoldAt, TypeOK, Route, At
<1>2. UNCHANGED <<created, active, current, lock, invoices, outdated>>
  BY DEF Route
<1>3. \A res \in Resolutions : lock[res] # r
  BY <1>1 DEF NumberInv, RangeInv, HoldInv, HoldAt
<1>4. PICK q \in Request :
         /\ Move(r, q) /\ q.number = 0
         /\ \/ q.pc = "adapter"
            \/ /\ active \in Resolutions /\ q.pc = "read"
               /\ q.res = active /\ q.seen = current[active]
  <2>1. CASE active = NoRes
    <3> DEFINE q == [req[r] EXCEPT !.pc = "adapter"]
    <3>1. q \in Request /\ q.pc = "adapter" /\ q.number = 0
      BY <1>1 DEF Request, Pcs
    <3>2. Move(r, q)
      BY <2>1 DEF Route
    <3> QED BY <3>1, <3>2
  <2>2. CASE active # NoRes
    <3> DEFINE q == [req[r] EXCEPT !.pc = "read", !.routed = active,
                                   !.res = active, !.seen = current[active]]
    <3>1. active \in Resolutions /\ current[active] \in Nat
      BY <1>1, <2>2 DEF TypeOK
    <3>2. /\ q \in Request /\ q.number = 0 /\ q.pc = "read"
          /\ q.res = active /\ q.seen = current[active]
      BY <1>1, <3>1 DEF Request, Pcs
    <3>3. Move(r, q)
      BY <2>2 DEF Route
    <3> QED BY <3>1, <3>2, <3>3
  <2> QED BY <2>1, <2>2
<1>5. /\ req' \in [Reqs -> Request] /\ req'[r] = q
      /\ \A p \in Reqs : p # r => req'[p] = req[p]
  BY <1>1, <1>4, MoveType
<1>6. TypeOK'
  BY <1>1, <1>2, <1>5 DEF TypeOK
<1>7. HoldInv'
  BY <1>2, <1>3, <1>4, <1>5 DEF NumberInv, RangeInv, HoldInv, HoldAt, Holds
<1>8. FloorInv'
  BY <1>2, <1>4, <1>5 DEF NumberInv, RangeInv, FloorInv, FloorAt
<1>9. CountInv'
  BY <1>2, <1>3, <1>4, <1>5 DEF NumberInv, CountInv, Initialised
<1>10. CountedInRange' /\ Consecutive'
  BY <1>2 DEF NumberInv, RangeInv, CountedInRange, Consecutive, Initialised
<1> QED BY <1>6, <1>7, <1>8, <1>9, <1>10 DEF NumberInv, RangeInv

LEMMA ReadStep ==
    ASSUME NumberInv, NEW r \in Reqs, ReadResolution(r)
    PROVE  NumberInv'
<1>1. /\ TypeOK /\ req[r] \in Request /\ req[r].pc = "read" /\ req[r].number = 0
      /\ req[r].res \in Resolutions
  BY DEF NumberInv, RangeInv, HoldInv, HoldAt, TypeOK, ReadResolution, At
<1>2. UNCHANGED <<created, active, current, lock, invoices, outdated>>
  BY DEF ReadResolution
<1>3. \A res \in Resolutions : lock[res] # r
  BY <1>1 DEF NumberInv, RangeInv, HoldInv, HoldAt
<1>4. PICK q \in Request :
         /\ Move(r, q) /\ q.number = 0
         /\ \/ q.pc = "adapter"
            \/ /\ active \in Resolutions /\ q.res = active /\ q.seen = Loaded(r)
               /\ q.pc = IF Loaded(r) < From[active] - 1 THEN "heal" ELSE "increment"
  <2>1. CASE ~Usable(r)
    <3> DEFINE q == [req[r] EXCEPT !.pc = "adapter"]
    <3>1. q \in Request /\ q.pc = "adapter" /\ q.number = 0
      BY <1>1 DEF Request, Pcs
    <3>2. Move(r, q)
      BY <2>1 DEF ReadResolution
    <3> QED BY <3>1, <3>2
  <2>2. CASE Usable(r)
    <3> DEFINE pc == IF Loaded(r) < From[active] - 1 THEN "heal" ELSE "increment"
               q == [req[r] EXCEPT !.res = active, !.seen = Loaded(r), !.pc = pc]
    <3>1. active \in Resolutions
      BY <1>1, <2>2 DEF TypeOK, Usable
    <3>2. Loaded(r) \in Nat
      BY <1>1, <3>1 DEF TypeOK, Loaded, Request
    <3>3. pc \in Pcs
      BY DEF Pcs
    <3>4. Move(r, q)
      BY <2>2 DEF ReadResolution
    <3> HIDE DEF pc
    <3>5. q \in Request /\ q.number = 0 /\ q.pc = pc /\ q.res = active /\ q.seen = Loaded(r)
      BY <1>1, <3>1, <3>2, <3>3 DEF Request
    <3> QED BY <3>1, <3>4, <3>5 DEF pc
  <2> QED BY <2>1, <2>2
<1>5. /\ req' \in [Reqs -> Request] /\ req'[r] = q
      /\ \A p \in Reqs : p # r => req'[p] = req[p]
  BY <1>1, <1>4, MoveType
<1>6. TypeOK'
  BY <1>1, <1>2, <1>5 DEF TypeOK
<1>7. HoldInv'
  BY <1>2, <1>3, <1>4, <1>5 DEF NumberInv, RangeInv, HoldInv, HoldAt, Holds
<1>8. active \in Resolutions => Loaded(r) \in Nat /\ current[active] \in Nat
                                 /\ From[active] \in Nat
  BY <1>1, RangeAssumption DEF TypeOK, Loaded, Request
<1>9. FloorInv'
  <2>1. active \in Resolutions /\ Loaded(r) >= From[active] - 1
           => current[active] >= From[active] - 1
    BY <1>1, <1>8 DEF NumberInv, RangeInv, FloorInv, FloorAt, Loaded
  <2>2. ASSUME NEW p \in Reqs, NEW res \in Resolutions, p # r
        PROVE  FloorAt(p, res)'
    BY <1>2, <1>5, <2>2 DEF NumberInv, RangeInv, FloorInv, FloorAt
  <2>3. ASSUME NEW res \in Resolutions
        PROVE  FloorAt(r, res)'
    BY <1>2, <1>4, <1>5, <1>8, <2>1 DEF FloorAt
  <2> QED BY <2>2, <2>3 DEF FloorInv
<1>10. CountInv'
  <2>1. active \in Initialised => Loaded(r) >= Start[active] /\ Start[active] \in Nat
                                   /\ Start[active] >= From[active] - 1
    BY <1>1, RangeAssumption DEF NumberInv, CountInv, Loaded, Initialised
  <2> QED BY <1>2, <1>3, <1>4, <1>5, <1>8, <2>1 DEF NumberInv, CountInv, Initialised
<1>11. CountedInRange' /\ Consecutive'
  BY <1>2 DEF NumberInv, RangeInv, CountedInRange, Consecutive, Initialised
<1> QED BY <1>6, <1>7, <1>9, <1>10, <1>11 DEF NumberInv, RangeInv

LEMMA HealStep ==
    ASSUME NumberInv, NEW r \in Reqs, SelfHeal(r)
    PROVE  NumberInv'
<1> DEFINE q == [req[r] EXCEPT !.pc = "increment", !.draft = From[req[r].res] - 1]
           it == req[r].res
<1>1. /\ TypeOK /\ req[r] \in Request /\ req[r].pc = "heal" /\ req[r].number = 0
      /\ it \in Resolutions
  BY DEF NumberInv, RangeInv, HoldInv, HoldAt, TypeOK, SelfHeal, At
<1>2. /\ UNCHANGED <<created, active, current, invoices, outdated>>
      /\ lock[it] = NoReq /\ lock' = [lock EXCEPT ![it] = r] /\ Move(r, q)
  BY DEF SelfHeal
<1>3. From[it] - 1 \in Nat
  BY <1>1, RangeAssumption
<1>4. /\ q \in Request /\ q.pc = "increment" /\ q.number = 0 /\ q.res = it
      /\ q.draft = From[it] - 1 /\ q.seen = req[r].seen
  BY <1>1, <1>3 DEF Request, Pcs
<1>5. it \notin Initialised
  BY <1>1 DEF NumberInv, CountInv, it
<1> HIDE DEF q, it
<1>6. /\ req' \in [Reqs -> Request] /\ req'[r] = q
      /\ \A p \in Reqs : p # r => req'[p] = req[p]
  BY <1>1, <1>2, <1>4, MoveType
<1>7. /\ lock' \in [Resolutions -> Reqs \cup {NoReq}] /\ lock'[it] = r
      /\ \A res \in Resolutions : res # it => lock'[res] = lock[res]
  BY <1>1, <1>2 DEF TypeOK
<1>8. \A res \in Resolutions : lock[res] # r
  BY <1>1 DEF NumberInv, RangeInv, HoldInv, HoldAt
<1>9. TypeOK'
  BY <1>1, <1>2, <1>6, <1>7 DEF TypeOK
<1>10. HoldInv'
  BY <1>1, <1>2, <1>4, <1>6, <1>7, <1>8, NoneAssumption
     DEF NumberInv, RangeInv, HoldInv, HoldAt, Holds
<1>11. FloorInv'
  <2>1. ASSUME NEW p \in Reqs, NEW res \in Resolutions, p # r
        PROVE  FloorAt(p, res)'
    BY <1>2, <1>6, <1>7, <2>1, NoneAssumption DEF NumberInv, RangeInv, FloorInv, FloorAt
  <2>2. ASSUME NEW res \in Resolutions
        PROVE  FloorAt(r, res)'
    <3>1. req[r].seen < From[it] - 1 /\ req[r].seen \in Nat
      BY <1>1 DEF NumberInv, RangeInv, FloorInv, FloorAt, it, Request
    <3> QED BY <1>1, <1>2, <1>3, <1>4, <1>6, <1>7, <3>1 DEF FloorAt
  <2> QED BY <2>1, <2>2 DEF FloorInv
<1>12. CountInv'
  BY <1>2, <1>4, <1>5, <1>6, <1>7, <1>8 DEF NumberInv, CountInv, Initialised
<1>13. CountedInRange' /\ Consecutive'
  BY <1>2 DEF NumberInv, RangeInv, CountedInRange, Consecutive, Initialised
<1> QED BY <1>9, <1>10, <1>11, <1>12, <1>13 DEF NumberInv, RangeInv

LEMMA IncrementStep ==
    ASSUME NumberInv, NEW r \in Reqs, Increment(r)
    PROVE  NumberInv'
<1> DEFINE it == req[r].res
           next == Counter(r) + 1
<1>1. /\ TypeOK /\ req[r] \in Request /\ req[r].pc = "increment" /\ req[r].number = 0
      /\ it \in Resolutions /\ UNCHANGED <<created, active, current, invoices, outdated>>
  BY DEF NumberInv, RangeInv, HoldInv, HoldAt, TypeOK, Increment, At
<1>2. Counter(r) \in Nat /\ From[it] \in Nat /\ To[it] \in Nat
  BY <1>1, CounterType, RangeAssumption
<1>3. CASE Counter(r) >= To[it]
  <2> DEFINE q == [req[r] EXCEPT !.pc = "adapter"]
  <2>1. Move(r, q) /\ lock' = lock
    BY <1>2, <1>3 DEF Increment
  <2>2. q \in Request /\ q.pc = "adapter" /\ q.number = 0 /\ q.res = it
    BY <1>1 DEF Request, Pcs
  <2> HIDE DEF q
  <2>3. /\ req' \in [Reqs -> Request] /\ req'[r] = q
        /\ \A p \in Reqs : p # r => req'[p] = req[p]
    BY <1>1, <2>1, <2>2, MoveType
  <2>4. \A res \in Resolutions : lock[res] # r
    <3> SUFFICES ASSUME NEW res \in Resolutions, lock[res] = r PROVE FALSE
      OBVIOUS
    <3>1. res = it /\ req[r].draft = From[it] - 1
      BY <1>1 DEF NumberInv, RangeInv, HoldInv, HoldAt
    <3>2. Counter(r) = From[it] - 1
      BY <1>1, <3>1, NoneAssumption DEF Counter, Holds
    <3> QED BY <1>1, <1>3, <3>2, RangeAssumption
  <2>5. TypeOK'
    BY <1>1, <2>1, <2>3 DEF TypeOK
  <2>6. HoldInv'
    BY <2>1, <2>2, <2>3, <2>4 DEF NumberInv, RangeInv, HoldInv, HoldAt, Holds
  <2>7. FloorInv'
    BY <1>1, <2>1, <2>2, <2>3 DEF NumberInv, RangeInv, FloorInv, FloorAt
  <2>8. CountInv'
    BY <1>1, <2>1, <2>2, <2>3, <2>4 DEF NumberInv, CountInv, Initialised
  <2>9. CountedInRange' /\ Consecutive'
    BY <1>1 DEF NumberInv, RangeInv, CountedInRange, Consecutive, Initialised
  <2> QED BY <2>5, <2>6, <2>7, <2>8, <2>9 DEF NumberInv, RangeInv
<1>4. CASE Counter(r) < To[it]
  <2> DEFINE q == [req[r] EXCEPT !.pc = "adapter", !.draft = next, !.number = next]
  <2>1. Move(r, q) /\ lock' = [lock EXCEPT ![it] = r] /\ lock[it] \in {r, NoReq}
    BY <1>2, <1>4 DEF Increment
  <2>2. /\ q \in Request /\ q.pc = "adapter" /\ q.res = it
        /\ q.number = next /\ q.draft = next
    <3>1. next \in Nat
      BY <1>2
    <3> HIDE DEF next
    <3> QED BY <1>1, <3>1 DEF Request, Pcs
  <2> HIDE DEF q
  <2>3. /\ req' \in [Reqs -> Request] /\ req'[r] = q
        /\ \A p \in Reqs : p # r => req'[p] = req[p]
    BY <1>1, <2>1, <2>2, MoveType
  <2>4. /\ lock' \in [Resolutions -> Reqs \cup {NoReq}] /\ lock'[it] = r
        /\ \A res \in Resolutions : res # it => lock'[res] = lock[res]
        /\ \A res \in Resolutions, p \in Reqs : p # r => (lock'[res] = p <=> lock[res] = p)
    BY <1>1, <2>1, NoneAssumption DEF TypeOK
  <2>5. \A res \in Resolutions : lock[res] = r => res = it
    BY <1>1 DEF NumberInv, RangeInv, HoldInv, HoldAt
  <2>6. Counter(r) >= From[it] - 1
    <3>1. CASE lock[it] = r
      <4>1. Counter(r) = From[it] - 1
        BY <1>1, <3>1, NoneAssumption DEF NumberInv, RangeInv, HoldInv, HoldAt, Counter, Holds
      <4> QED BY <1>2, <4>1
    <3>2. CASE lock[it] # r
      <4>1. Counter(r) = current[it]
        BY <3>2 DEF Counter, Holds
      <4> QED BY <1>1, <3>2, <4>1 DEF NumberInv, RangeInv, FloorInv, FloorAt
    <3> QED BY <3>1, <3>2
  <2>7. next \in From[it]..To[it]
    BY <1>2, <1>4, <2>6
  <2>8. TypeOK'
    BY <1>1, <2>3, <2>4 DEF TypeOK
  <2>9. HoldInv'
    <3>1. it # NoRes
      BY <1>1, NoneAssumption
    <3> HIDE DEF next, it
    <3>2. HoldAt(r)'
      BY <2>2, <2>3, <2>4, <2>5, <2>7, <3>1 DEF HoldAt, Holds
    <3>3. ASSUME NEW p \in Reqs, p # r PROVE HoldAt(p)'
      <4>1. HoldAt(p) /\ req'[p] = req[p]
        BY <2>3, <3>3 DEF NumberInv, RangeInv, HoldInv
      <4> QED BY <1>1, <2>4, <3>3, <4>1 DEF HoldAt, Holds, TypeOK, Request
    <3> QED BY <3>2, <3>3 DEF HoldInv
  <2>10. FloorInv'
    BY <1>1, <2>2, <2>3, <2>4 DEF NumberInv, RangeInv, FloorInv, FloorAt
  <2>11. it \in Initialised => next = current[it] + 1
    <3>1. it \in Initialised => lock[it] # r
      BY <1>1 DEF NumberInv, CountInv
    <3> QED BY <3>1 DEF Counter, Holds
  <2> HIDE DEF next, it
  <2>12. CountInv'
    BY <1>1, <2>2, <2>3, <2>4, <2>5, <2>11 DEF NumberInv, CountInv, Initialised
  <2>13. CountedInRange' /\ Consecutive'
    BY <1>1 DEF NumberInv, RangeInv, CountedInRange, Consecutive, Initialised
  <2> QED BY <2>8, <2>9, <2>10, <2>12, <2>13 DEF NumberInv, RangeInv
<1> QED BY <1>2, <1>3, <1>4

\* A request that ends without writing keeps the invariant.
LEMMA EndStep ==
    ASSUME NumberInv, NEW r \in Reqs, req[r].pc \notin {"idle", "done"},
           lock' = Unlocked(r), Move(r, [req[r] EXCEPT !.pc = "done"]),
           UNCHANGED <<created, active>>,
           \A res \in Resolutions : lock[res] # r => current'[res] = current[res],
           \A res \in Resolutions :
              lock[res] = r => \/ current'[res] = current[res]
                               \/ current'[res] >= From[res]
                                  /\ (res \in Initialised => current'[res] >= Start[res]),
           current' \in [Resolutions -> Nat]
    PROVE  HoldInv' /\ FloorInv' /\ CountInv'
           /\ req' \in [Reqs -> Request]
           /\ lock' \in [Resolutions -> Reqs \cup {NoReq}]
<1> DEFINE q == [req[r] EXCEPT !.pc = "done"]
<1>1. TypeOK /\ req[r] \in Request
  BY DEF NumberInv, RangeInv, TypeOK
<1>2. q \in Request /\ q.pc = "done" /\ q.res = req[r].res
  BY <1>1 DEF Request, Pcs
<1> HIDE DEF q
<1>3. /\ req' \in [Reqs -> Request] /\ req'[r] = q
      /\ \A p \in Reqs : p # r => req'[p] = req[p]
  BY <1>1, <1>2, MoveType DEF q
<1>4. /\ lock' \in [Resolutions -> Reqs \cup {NoReq}]
      /\ \A res \in Resolutions : lock'[res] # r
      /\ \A res \in Resolutions, p \in Reqs : p # r => (lock'[res] = p <=> lock[res] = p)
  BY <1>1, UnlockedFact
<1>5. HoldInv'
  <2>1. HoldAt(r)'
    BY <1>2, <1>3, <1>4 DEF HoldAt
  <2>2. ASSUME NEW p \in Reqs, p # r PROVE HoldAt(p)'
    <3>1. HoldAt(p) /\ req'[p] = req[p]
      BY <1>3, <2>2 DEF NumberInv, RangeInv, HoldInv
    <3> QED BY <1>1, <1>4, <2>2, <3>1 DEF HoldAt, Holds, TypeOK, Request
  <2> QED BY <2>1, <2>2 DEF HoldInv
<1>6. FloorInv'
  <2> SUFFICES ASSUME NEW p \in Reqs, NEW res \in Resolutions
               PROVE  FloorAt(p, res)'
    BY DEF FloorInv
  <2>1. CASE p = r
    BY <1>2, <1>3, <2>1 DEF FloorAt
  <2>2. CASE p # r
    <3>1. FloorAt(p, res)
      BY DEF NumberInv, RangeInv, FloorInv
    <3>2. From[res] \in Nat /\ current'[res] \in Nat
      BY RangeAssumption
    <3>3. current[res] >= From[res] - 1 => current'[res] >= From[res] - 1
      BY <3>2
    <3> QED BY <1>3, <1>4, <2>2, <3>1, <3>3 DEF FloorAt
  <2> QED BY <2>1, <2>2
<1>7. CountInv'
  BY <1>2, <1>3, <1>4 DEF NumberInv, CountInv, Initialised
<1> QED BY <1>3, <1>4, <1>5, <1>6, <1>7

LEMMA RollbackStep ==
    ASSUME NumberInv, NEW r \in Reqs, Rollback(r)
    PROVE  NumberInv'
<1>1. HoldInv' /\ FloorInv' /\ CountInv' /\ req' \in [Reqs -> Request]
      /\ lock' \in [Resolutions -> Reqs \cup {NoReq}]
  BY EndStep DEF Rollback, NumberInv, RangeInv, TypeOK
<1>2. CountedInRange' /\ Consecutive'
  BY DEF Rollback, NumberInv, RangeInv, CountedInRange, Consecutive, Initialised
<1>3. TypeOK'
  BY <1>1 DEF Rollback, NumberInv, RangeInv, TypeOK
<1> QED BY <1>1, <1>2, <1>3 DEF NumberInv, RangeInv

LEMMA CommitStep ==
    ASSUME NumberInv, RouteInv, NEW r \in Reqs, Commit(r)
    PROVE  NumberInv'
<1> DEFINE it == req[r].res
           n == req[r].number
<1>1. /\ TypeOK /\ req[r] \in Request /\ req[r].pc = "adapter"
      /\ UNCHANGED <<created, active, outdated>>
      /\ lock' = Unlocked(r) /\ Move(r, [req[r] EXCEPT !.pc = "done"])
      /\ current' = IF Holds(r) THEN [current EXCEPT ![it] = req[r].draft] ELSE current
      /\ invoices' = IF n = 0 THEN invoices ELSE invoices \cup {Numbered(r)}
  BY DEF Commit, At, NumberInv, RangeInv, TypeOK
<1>2. CASE ~Holds(r)
  <2>1. n = 0 /\ current' = current /\ invoices' = invoices
    BY <1>1, <1>2 DEF NumberInv, RangeInv, HoldInv, HoldAt
  <2>2. HoldInv' /\ FloorInv' /\ CountInv' /\ req' \in [Reqs -> Request]
        /\ lock' \in [Resolutions -> Reqs \cup {NoReq}]
    BY <1>1, <2>1, EndStep DEF TypeOK
  <2>3. TypeOK'
    BY <1>1, <2>1, <2>2 DEF TypeOK
  <2>4. CountedInRange' /\ Consecutive'
    BY <2>1 DEF NumberInv, RangeInv, CountedInRange, Consecutive, Initialised
  <2> QED BY <2>2, <2>3, <2>4 DEF NumberInv, RangeInv
<1>3. CASE Holds(r)
  <2>1. it \in Resolutions /\ lock[it] = r
    BY <1>1, <1>3 DEF Holds, Request
  <2>2. n = req[r].draft /\ n \in From[it]..To[it]
    BY <1>1, <2>1 DEF NumberInv, RangeInv, HoldInv, HoldAt
  <2>3. From[it] >= 1 /\ From[it] \in Nat /\ To[it] \in Nat /\ n \in Nat
    BY <1>1, <2>1, RangeAssumption DEF Request
  <2>4. /\ current' = [current EXCEPT ![it] = n]
        /\ invoices' = invoices \cup {Numbered(r)}
    BY <1>1, <1>3, <2>2, <2>3
  <2>5. Numbered(r) \in Invoice /\ Numbered(r).res = it /\ Numbered(r).number = n
    <3>1. n # 0 /\ req[r].routed \in Resolutions
      BY <2>2, <2>3 DEF RouteInv
    <3> QED BY <2>1, <2>3, <3>1 DEF Numbered, Invoice
  <2> HIDE DEF it, n
  <2>6. /\ current' \in [Resolutions -> Nat] /\ current'[it] = n
        /\ \A res \in Resolutions : res # it => current'[res] = current[res]
    BY <1>1, <2>1, <2>3, <2>4 DEF TypeOK
  <2>7. it \in Initialised => n = current[it] + 1 /\ current[it] >= Start[it]
                              /\ current[it] \in Nat /\ Start[it] \in Nat
    BY <1>1, <2>1, <2>2, RangeAssumption DEF NumberInv, CountInv, it, TypeOK
  <2>8. \A res \in Resolutions : lock[res] = r => res = it
    BY <1>1 DEF NumberInv, RangeInv, HoldInv, HoldAt, it
  <2>9. HoldInv' /\ FloorInv' /\ CountInv' /\ req' \in [Reqs -> Request]
        /\ lock' \in [Resolutions -> Reqs \cup {NoReq}]
    <3>1. \A res \in Resolutions : lock[res] # r => current'[res] = current[res]
      BY <2>1, <2>6
    <3>2. current'[it] >= From[it] /\ (it \in Initialised => current'[it] >= Start[it])
      BY <2>2, <2>3, <2>6, <2>7
    <3> QED BY <1>1, <2>6, <2>8, <3>1, <3>2, EndStep
  <2>10. TypeOK'
    BY <1>1, <2>4, <2>5, <2>6, <2>9 DEF TypeOK
  <2>11. CountedInRange'
    BY <2>2, <2>4, <2>5 DEF NumberInv, RangeInv, CountedInRange
  <2>12. Consecutive'
    <3> SUFFICES ASSUME NEW res \in Initialised
                 PROVE  /\ \A k \in (Start[res] + 1)..current'[res] :
                              \E i \in invoices' : i.res = res /\ i.number = k
                        /\ \A i \in invoices' :
                              i.res = res => i.number \in (Start[res] + 1)..current'[res]
                        /\ \A i, j \in invoices' :
                              i.res = res /\ j.res = res /\ i.number = j.number => i = j
      BY DEF Consecutive, Initialised
    <3>1. /\ \A k \in (Start[res] + 1)..current[res] :
                \E i \in invoices : i.res = res /\ i.number = k
          /\ \A i \in invoices :
                i.res = res => i.number \in (Start[res] + 1)..current[res]
          /\ \A i, j \in invoices :
                i.res = res /\ j.res = res /\ i.number = j.number => i = j
      BY DEF NumberInv, Consecutive
    <3>2. CASE res # it
      BY <2>4, <2>5, <2>6, <3>1, <3>2 DEF Initialised
    <3>3. CASE res = it
      <4>1. n = current[res] + 1 /\ current'[res] = n
            /\ current[res] \in Nat /\ Start[res] \in Nat /\ current[res] >= Start[res]
        BY <2>6, <2>7, <3>3
      <4>2. \A k \in (Start[res] + 1)..n : k \in (Start[res] + 1)..current[res] \/ k = n
        BY <4>1
      <4>3. \A k \in (Start[res] + 1)..current[res] :
               k \in (Start[res] + 1)..n /\ k # n
        BY <4>1
      <4>4. n \in (Start[res] + 1)..n
        BY <4>1
      <4>5. \A k \in (Start[res] + 1)..n : \E i \in invoices' : i.res = res /\ i.number = k
        BY <2>4, <2>5, <3>1, <3>3, <4>2
      <4>6. \A i \in invoices' : i.res = res => i.number \in (Start[res] + 1)..n
        BY <2>4, <2>5, <3>1, <4>3, <4>4
      <4>7. \A i, j \in invoices' :
               i.res = res /\ j.res = res /\ i.number = j.number => i = j
        BY <2>4, <2>5, <3>1, <4>3
      <4> QED BY <4>1, <4>5, <4>6, <4>7
    <3> QED BY <3>2, <3>3
  <2> QED BY <2>9, <2>10, <2>11, <2>12 DEF NumberInv, RangeInv
<1> QED BY <1>2, <1>3

-----------------------------------------------------------------------------
(* The whole system.                                                       *)

LEMMA NextNumber == NumberInv /\ RouteInv /\ [Next]_vars => NumberInv'
<1> SUFFICES ASSUME NumberInv, RouteInv, [Next]_vars PROVE NumberInv'
  OBVIOUS
<1>1. ASSUME NEW r \in Reqs, Arrive(r) \/ Step(r) \/ Rollback(r) PROVE NumberInv'
  BY <1>1, ArriveStep, RouteStep, ReadStep, HealStep, IncrementStep, CommitStep,
     RollbackStep DEF Step
<1>2. ASSUME UNCHANGED <<current, lock, req, invoices>>,
             created' \subseteq Resolutions, active' \in created' \cup {NoRes},
             outdated' \subseteq Reqs
      PROVE  NumberInv'
  <2>1. TypeOK'
    BY <1>2 DEF NumberInv, RangeInv, TypeOK
  <2>2. HoldInv' /\ FloorInv'
    BY <1>2 DEF NumberInv, RangeInv, HoldInv, HoldAt, Holds, FloorInv, FloorAt
  <2>3. CountInv' /\ CountedInRange' /\ Consecutive'
    BY <1>2 DEF NumberInv, RangeInv, CountInv, CountedInRange, Consecutive, Initialised
  <2> QED BY <2>1, <2>2, <2>3 DEF NumberInv, RangeInv
<1>3. /\ created \subseteq Resolutions /\ active \in created \cup {NoRes}
      /\ outdated \subseteq Reqs /\ Between \subseteq Reqs
  BY DEF NumberInv, RangeInv, TypeOK, Between
<1>4. ASSUME NEW res \in Resolutions, CreateResolution(res) PROVE NumberInv'
  BY <1>2, <1>3, <1>4 DEF CreateResolution
<1>5. CASE DeactivateResolution
  BY <1>2, <1>3, <1>5 DEF DeactivateResolution
<1>6. CASE UNCHANGED vars
  BY <1>2, <1>3, <1>6 DEF vars
<1> QED BY <1>1, <1>4, <1>5, <1>6 DEF Next

\* What the two look-ups of a request found, from step to step.
LEMMA NextRoute == NumberInv /\ RouteInv /\ [Next]_vars => RouteInv'
<1> SUFFICES ASSUME NumberInv, RouteInv, [Next]_vars PROVE RouteInv'
  OBVIOUS
<1>1. /\ TypeOK /\ \A r \in Reqs : req[r] \in Request
      /\ \A r \in Reqs : req[r].pc \notin {"adapter", "done"} => req[r].number = 0
      /\ \A i \in invoices : i.by \in Reqs
  BY DEF NumberInv, RangeInv, HoldInv, HoldAt, TypeOK, Invoice
<1>2. ASSUME NEW r \in Reqs, NEW q \in Request, Move(r, q),
             UNCHANGED <<active, invoices, outdated>>,
             q.number # 0 => q.routed \in Resolutions,
             q.pc \in {"read", "heal", "increment"} => q.routed \in Resolutions,
             r \notin outdated /\ q.pc = "read" => q.routed = active,
             r \notin outdated /\ (q.pc \in {"heal", "increment"} \/ q.number # 0)
               => q.routed = q.res
      PROVE  RouteInv'
  <2>1. req'[r] = q /\ \A p \in Reqs : p # r => req'[p] = req[p]
    BY <1>1, <1>2, MoveType
  <2> QED BY <1>2, <2>1 DEF RouteInv
<1>3. ASSUME NEW r \in Reqs, Arrive(r) PROVE RouteInv'
  <2> DEFINE q == [req[r] EXCEPT !.pc = "route"]
  <2>1. q \in Request /\ q.pc = "route" /\ q.number = 0
    BY <1>1, <1>3 DEF Arrive, At, Request, Pcs
  <2>2. Move(r, q) /\ UNCHANGED <<active, invoices, outdated>>
    BY <1>3 DEF Arrive
  <2> HIDE DEF q
  <2> QED BY <1>2, <2>1, <2>2
<1>4. ASSUME NEW r \in Reqs, Route(r) PROVE RouteInv'
  <2>1. UNCHANGED <<active, invoices, outdated>> /\ req[r].number = 0
    BY <1>1, <1>4 DEF Route, At
  <2>2. CASE active = NoRes
    <3> DEFINE q == [req[r] EXCEPT !.pc = "adapter"]
    <3>1. q \in Request /\ q.pc = "adapter" /\ q.number = 0
      BY <1>1, <2>1 DEF Request, Pcs
    <3>2. Move(r, q)
      BY <1>4, <2>2 DEF Route
    <3> HIDE DEF q
    <3> QED BY <1>2, <2>1, <3>1, <3>2
  <2>3. CASE active # NoRes
    <3> DEFINE q == [req[r] EXCEPT !.pc = "read", !.routed = active,
                                   !.res = active, !.seen = current[active]]
    <3>1. active \in Resolutions /\ current[active] \in Nat
      BY <1>1, <2>3 DEF TypeOK
    <3>2. q \in Request /\ q.pc = "read" /\ q.number = 0 /\ q.routed = active
      BY <1>1, <2>1, <3>1 DEF Request, Pcs
    <3>3. Move(r, q)
      BY <1>4, <2>3 DEF Route
    <3> HIDE DEF q
    <3> QED BY <1>2, <2>1, <3>1, <3>2, <3>3
  <2> QED BY <2>2, <2>3
<1>5. ASSUME NEW r \in Reqs, ReadResolution(r) PROVE RouteInv'
  <2>1. /\ UNCHANGED <<active, invoices, outdated>>
        /\ req[r].pc = "read" /\ req[r].number = 0
    BY <1>1, <1>5 DEF ReadResolution, At
  <2>2. /\ req[r].routed \in Resolutions
        /\ r \notin outdated => req[r].routed = active
    BY <2>1 DEF RouteInv
  <2>3. CASE ~Usable(r)
    <3> DEFINE q == [req[r] EXCEPT !.pc = "adapter"]
    <3>1. q \in Request /\ q.pc = "adapter" /\ q.number = 0
      BY <1>1, <2>1 DEF Request, Pcs
    <3>2. Move(r, q)
      BY <1>5, <2>3 DEF ReadResolution
    <3> HIDE DEF q
    <3> QED BY <1>2, <2>1, <3>1, <3>2
  <2>4. CASE Usable(r)
    <3> DEFINE pc == IF Loaded(r) < From[active] - 1 THEN "heal" ELSE "increment"
               q == [req[r] EXCEPT !.res = active, !.seen = Loaded(r), !.pc = pc]
    <3>1. active \in Resolutions
      BY <1>1, <2>4 DEF TypeOK, Usable
    <3>2. Loaded(r) \in Nat
      BY <1>1, <3>1 DEF TypeOK, Loaded, Request
    <3>3. pc \in Pcs /\ pc # "read"
      BY DEF Pcs
    <3>4. Move(r, q)
      BY <1>5, <2>4 DEF ReadResolution
    <3> HIDE DEF pc
    <3>5. /\ q \in Request /\ q.number = 0 /\ q.pc = pc /\ q.res = active
          /\ q.routed = req[r].routed
      BY <1>1, <2>1, <3>1, <3>2, <3>3 DEF Request
    <3> HIDE DEF q
    <3> QED BY <1>2, <2>1, <2>2, <3>3, <3>4, <3>5
  <2> QED BY <2>3, <2>4
<1>6. ASSUME NEW r \in Reqs, SelfHeal(r) PROVE RouteInv'
  <2> DEFINE q == [req[r] EXCEPT !.pc = "increment", !.draft = From[req[r].res] - 1]
  <2>1. /\ Move(r, q) /\ UNCHANGED <<active, invoices, outdated>>
        /\ req[r].pc = "heal" /\ req[r].number = 0
    BY <1>1, <1>6 DEF SelfHeal, At
  <2>2. req[r].res \in Resolutions
    BY <2>1 DEF NumberInv, RangeInv, HoldInv, HoldAt
  <2>3. From[req[r].res] - 1 \in Nat
    BY <2>2, RangeAssumption
  <2>4. /\ q \in Request /\ q.pc = "increment" /\ q.number = 0
        /\ q.routed = req[r].routed /\ q.res = req[r].res
    BY <1>1, <2>1, <2>3 DEF Request, Pcs
  <2> HIDE DEF q
  <2> QED BY <1>2, <2>1, <2>4 DEF RouteInv
<1>7. ASSUME NEW r \in Reqs, Increment(r) PROVE RouteInv'
  <2>1. /\ UNCHANGED <<active, invoices, outdated>>
        /\ req[r].pc = "increment" /\ req[r].number = 0
    BY <1>1, <1>7 DEF Increment, At
  <2>2. req[r].res \in Resolutions
    BY <2>1 DEF NumberInv, RangeInv, HoldInv, HoldAt
  <2>3. Counter(r) \in Nat
    BY <1>1, <2>2, CounterType
  <2>4. /\ req[r].routed \in Resolutions
        /\ r \notin outdated => req[r].routed = req[r].res
    BY <2>1 DEF RouteInv
  <2>5. CASE Move(r, [req[r] EXCEPT !.pc = "adapter"])
    <3> DEFINE q == [req[r] EXCEPT !.pc = "adapter"]
    <3>1. q \in Request /\ q.pc = "adapter" /\ q.number = 0
      BY <1>1, <2>1 DEF Request, Pcs
    <3>2. Move(r, q)
      BY <2>5
    <3> HIDE DEF q
    <3> QED BY <1>2, <2>1, <3>1, <3>2
  <2>6. CASE Move(r, [req[r] EXCEPT !.pc = "adapter", !.draft = Counter(r) + 1,
                                    !.number = Counter(r) + 1])
    <3> DEFINE n == Counter(r) + 1
               q == [req[r] EXCEPT !.pc = "adapter", !.draft = n, !.number = n]
    <3>1. Move(r, q) /\ n \in Nat
      BY <2>3, <2>6
    <3> HIDE DEF n
    <3>2. /\ q \in Request /\ q.pc = "adapter"
          /\ q.routed = req[r].routed /\ q.res = req[r].res
      BY <1>1, <3>1 DEF Request, Pcs
    <3> HIDE DEF q
    <3> QED BY <1>2, <2>1, <2>4, <3>1, <3>2
  <2> QED BY <1>7, <2>5, <2>6 DEF Increment
<1>8. ASSUME NEW r \in Reqs, Commit(r) \/ Rollback(r) PROVE RouteInv'
  <2> DEFINE q == [req[r] EXCEPT !.pc = "done"]
  <2>1. Move(r, q) /\ UNCHANGED <<active, outdated>>
    BY <1>8 DEF Commit, Rollback
  <2>2. /\ q \in Request /\ q.pc = "done" /\ q.number = req[r].number
        /\ q.routed = req[r].routed /\ q.res = req[r].res
    BY <1>1 DEF Request, Pcs
  <2> HIDE DEF q
  <2>3. req'[r] = q /\ \A p \in Reqs : p # r => req'[p] = req[p]
    BY <1>1, <2>1, <2>2, MoveType
  <2>4. \A i \in invoices' :
           i \in invoices \/ (i = Numbered(r) /\ req[r].number # 0)
    BY <1>8 DEF Commit, Rollback
  <2>5. \A i \in invoices' : i.by \notin outdated => i.bears = i.res
    BY <2>4 DEF RouteInv, Numbered
  <2> QED BY <2>1, <2>2, <2>3, <2>5 DEF RouteInv
<1>9. ASSUME UNCHANGED <<req, invoices>>, outdated' = outdated \cup Between
      PROVE  RouteInv'
  BY <1>9 DEF RouteInv, Between, At
<1>10. CASE UNCHANGED vars
  BY <1>10 DEF RouteInv, vars
<1> QED BY <1>3, <1>4, <1>5, <1>6, <1>7, <1>8, <1>9, <1>10
        DEF Next, Step, CreateResolution, DeactivateResolution

LEMMA InitRoute == Init => RouteInv
BY DEF Init, RouteInv, Idle

\* Every variable keeps its type; the active resolution is one that exists.
THEOREM NumberingTypes == Spec => []TypeOK
<1>1. NumberInv => TypeOK
  BY DEF NumberInv, RangeInv
<1> QED BY InitNumber, InitRoute, NextNumber, NextRoute, <1>1, PTL DEF Spec

\* Every number lies in the range of the resolution it is counted in, however
\* that resolution's counter was created and however many requests heal it; and
\* the range sent with the document is one its number lies in, unless the active
\* resolution was replaced or deactivated between the request's two look-ups.
THEOREM NumbersInRange == Spec => []InRange
<1>1. ASSUME NumberInv, RouteInv PROVE InRange
  <2> SUFFICES ASSUME NEW i \in invoices
               PROVE  /\ i.number \in From[i.res]..To[i.res]
                      /\ i.by \notin outdated => i.number \in From[i.bears]..To[i.bears]
    BY DEF InRange
  <2>1. i.number \in From[i.res]..To[i.res]
    BY <1>1 DEF NumberInv, RangeInv, CountedInRange
  <2>2. i.by \notin outdated => i.bears = i.res
    BY <1>1 DEF RouteInv
  <2> QED BY <2>1, <2>2
<1> QED BY InitNumber, InitRoute, NextNumber, NextRoute, <1>1, PTL DEF Spec

\* The numbers of a resolution created with its counter in place are given
\* once each and without a gap.
THEOREM NumbersConsecutive == Spec => []Consecutive
<1>1. NumberInv => Consecutive
  BY DEF NumberInv
<1> QED BY InitNumber, InitRoute, NextNumber, NextRoute, <1>1, PTL DEF Spec

\* If every resolution is created that way, no number is ever given twice.
THEOREM NumbersNeverRepeat ==
    ASSUME Initialised = Resolutions
    PROVE  Spec => []NumbersUnique
<1>1. ASSUME NumberInv PROVE NumbersUnique
  <2>1. \A i \in invoices : i.res \in Resolutions
    BY <1>1 DEF NumberInv, RangeInv, TypeOK, Invoice
  <2> QED BY <1>1, <2>1 DEF NumberInv, Consecutive, NumbersUnique
<1> QED BY InitNumber, InitRoute, NextNumber, NextRoute, <1>1, PTL DEF Spec

-----------------------------------------------------------------------------
(* The numbering implements the book of pages.                             *)

\* A document is numbered by a request that has ended.
AuthorInv == \A i \in invoices : req[i.by].pc = "done"

LEMMA NextAuthor == TypeOK /\ AuthorInv /\ [Next]_vars => AuthorInv'
<1> SUFFICES ASSUME TypeOK, AuthorInv, [Next]_vars PROVE AuthorInv'
  OBVIOUS
<1>1. /\ \A i \in invoices : i.by \in Reqs
      /\ \A r \in Reqs : req[r] \in Request
  BY DEF TypeOK, Invoice
<1>2. ASSUME NEW r \in Reqs, NEW q, req[r].pc # "done", Move(r, q), UNCHANGED invoices
      PROVE  AuthorInv'
  BY <1>1, <1>2 DEF AuthorInv, Move, TypeOK
<1>3. ASSUME NEW r \in Reqs, Commit(r) PROVE AuthorInv'
  <2>1. /\ req[r].pc = "adapter" /\ Move(r, [req[r] EXCEPT !.pc = "done"])
        /\ invoices' \subseteq invoices \cup {Numbered(r)}
    BY <1>3 DEF Commit, At
  <2>2. /\ [req[r] EXCEPT !.pc = "done"].pc = "done"
        /\ Numbered(r).by = r
    BY <1>1 DEF Request, Numbered
  <2> QED BY <1>1, <2>1, <2>2 DEF AuthorInv, Move, TypeOK
<1>4. ASSUME NEW r \in Reqs, Arrive(r) \/ Route(r) \/ ReadResolution(r) \/ SelfHeal(r)
                             \/ Increment(r) \/ Rollback(r)
      PROVE  AuthorInv'
  <2>1. req[r].pc # "done" /\ UNCHANGED invoices /\ \E q : Move(r, q)
    BY <1>4 DEF Arrive, Route, ReadResolution, SelfHeal, Increment, Rollback, At
  <2> QED BY <1>2, <2>1
<1>5. CASE UNCHANGED <<req, invoices>>
  BY <1>5 DEF AuthorInv
<1> QED BY <1>3, <1>4, <1>5 DEF Next, Step, CreateResolution, DeactivateResolution, vars

\* A commit that holds the row gives the next page of its resolution.
LEMMA CommitIssues ==
    ASSUME NumberInv, AuthorInv, NEW r \in Reqs, Commit(r)
    PROVE  [Book!Next]_(Book!book)
<1> DEFINE it == req[r].res
           n == req[r].number
           page(i) == [by |-> i.by, res |-> i.res, number |-> i.number]
           old == {page(i) : i \in {j \in invoices : j.res \in Initialised}}
           new == {page(i) : i \in {j \in invoices' : j.res \in Initialised}}
<1>1. /\ TypeOK /\ req[r] \in Request /\ req[r].pc = "adapter"
      /\ current' = IF Holds(r) THEN [current EXCEPT ![it] = req[r].draft] ELSE current
      /\ invoices' = IF n = 0 THEN invoices ELSE invoices \cup {Numbered(r)}
  BY DEF Commit, At, NumberInv, RangeInv, TypeOK
<1>2. CASE ~Holds(r)
  <2>1. current' = current /\ invoices' = invoices
    BY <1>1, <1>2 DEF NumberInv, RangeInv, HoldInv, HoldAt
  <2> QED BY <2>1 DEF Book!book, InBook, Initialised
<1>3. CASE Holds(r)
  <2>1. it \in Resolutions /\ lock[it] = r
    BY <1>1, <1>3 DEF Holds, Request
  <2>2. n = req[r].draft /\ n \in From[it]..To[it]
    BY <1>1, <2>1 DEF NumberInv, RangeInv, HoldInv, HoldAt
  <2>3. From[it] >= 1 /\ From[it] \in Nat /\ To[it] \in Nat /\ n \in Nat
    BY <1>1, <2>1, RangeAssumption DEF Request
  <2>4. /\ current' = [current EXCEPT ![it] = n]
        /\ invoices' = invoices \cup {Numbered(r)}
    BY <1>1, <1>3, <2>2, <2>3
  <2>5. /\ Numbered(r).by = r /\ Numbered(r).res = it /\ Numbered(r).number = n
        /\ page(Numbered(r)) = [by |-> r, res |-> it, number |-> n]
    BY DEF Numbered
  <2>6. current \in [Resolutions -> Nat] /\ Initialised \subseteq Resolutions
    BY <1>1 DEF TypeOK, Initialised
  <2>7. it \in Initialised => n = current[it] + 1
    BY <1>1, <2>1, <2>2 DEF NumberInv, CountInv
  <2>8. \A i \in invoices : i.by # r
    BY <1>1 DEF AuthorInv
  <2> HIDE DEF it, n
  <2>9. CASE it \notin Initialised
    <3>1. InBook(current)' = InBook(current)
      BY <2>4, <2>6, <2>9 DEF InBook, Initialised
    <3>2. new = old
      BY <2>4, <2>5, <2>9 DEF Initialised
    <3> QED BY <3>1, <3>2 DEF Book!book
  <2>10. CASE it \in Initialised
    <3>1. PICK s \in Initialised : s = it
      BY <2>10
    <3>2. InBook(current)[s] = current[s] /\ InBook(To)[s] = To[s]
      BY DEF InBook
    <3>3. InBook(current)[s] < InBook(To)[s]
      BY <2>2, <2>3, <2>6, <2>7, <3>1, <3>2
    <3>4. InBook(current)' = [InBook(current) EXCEPT ![s] = @ + 1]
      BY <2>4, <2>6, <2>7, <3>1 DEF InBook, Initialised
    <3>5. new = old \cup {[by |-> r, res |-> s, number |-> InBook(current)[s] + 1]}
      BY <2>4, <2>5, <2>7, <3>1, <3>2 DEF Initialised
    <3>6. Book!Issue(r, s)
      BY <2>8, <3>3, <3>4, <3>5 DEF Book!Issue
    <3> QED BY <3>6 DEF Book!Next
  <2> QED BY <2>9, <2>10
<1> QED BY <1>2, <1>3

LEMMA StepIssues == NumberInv /\ AuthorInv /\ [Next]_vars => [Book!Next]_(Book!book)
<1> SUFFICES ASSUME NumberInv, AuthorInv, [Next]_vars PROVE [Book!Next]_(Book!book)
  OBVIOUS
<1>1. ASSUME UNCHANGED <<current, invoices>> PROVE [Book!Next]_(Book!book)
  <2>1. current' = current /\ invoices' = invoices
    BY <1>1
  <2> QED BY <2>1 DEF Book!book, InBook, Initialised
<1>2. ASSUME NEW r \in Reqs, Commit(r) PROVE [Book!Next]_(Book!book)
  BY <1>2, CommitIssues
<1>3. CASE ~\E r \in Reqs : Commit(r)
  <2>1. UNCHANGED <<current, invoices>>
    BY <1>3 DEF Next, Step, Arrive, Route, ReadResolution, SelfHeal, Increment,
       Rollback, CreateResolution, DeactivateResolution, vars
  <2> QED BY <1>1, <2>1
<1> QED BY <1>2, <1>3

\* The numbering of invoices implements the book: of everything requests do to
\* each other, only pages given out one by one are seen.
THEOREM NumberingImplementsBook == Spec => BookSpec
<1>1. Init => Book!Init /\ AuthorInv
  BY DEF Init, Book!Init, InBook, Initialised, AuthorInv
<1>2. NumberInv => TypeOK
  BY DEF NumberInv, RangeInv
<1> QED BY InitNumber, InitRoute, NextNumber, NextRoute, NextAuthor, StepIssues, <1>1, <1>2, PTL
        DEF Spec, BookSpec, Book!Spec

-----------------------------------------------------------------------------
(***************************************************************************)
(* Billing.  What happens to the invoices once they have a number is       *)
(* the matter of subscription-service: B is Billing over variables of its  *)
(* own.                                                                    *)
(*                                                                         *)
(* The invariant (BillInv) says where a session of each kind can stand and *)
(* what it holds there (OfPayment, OfAdministrator, OfSweep, Holding);     *)
(* that a session which overlapped no other is the only one and still      *)
(* sees what it read (Fresh); which transaction an invoice carries and who *)
(* paid it (InvoiceInv); and of a transaction how often it was credited    *)
(* together with how often it still may be (CountedWith): at most one of   *)
(* its sessions has its mark, the others found Redis down, and none finds  *)
(* a paid invoice unpaid but after a refund.                               *)
(***************************************************************************)
CONSTANTS NoSession, NoTx, Invoices, NoInvoice, Period, MaxTime, MaxDeliveries, MaxAsked,
          MaxFaults, Mixes
VARIABLES mix, subLock, inv, invLock, marks, asked, faults

B == INSTANCE Billing

\* The library's operator, as Billing knows it.
LEMMA SessionsFinite ==
  ASSUME B!BillingAssumption
  PROVE  IsFiniteSet(Sessions)
BY DEF B!BillingAssumption, B!IsFiniteSet, IsFiniteSet

\* Sessions of a payment beyond its deduplication, and those of them that will
\* credit it unless they fail.
Past(x) == {s \in B!All : sess[s].tx = x /\ sess[s].pc \notin {"idle", "dedup"}}
Crediting(s) == sess[s].pc \in {"inv", "load", "sub", "commit"}

\* Where a session of each kind can be, what it holds there, and what it writes.
OfPayment(s) ==
    LET q == sess[s] IN
    q.kind = "payment" =>
        /\ s \in Sessions /\ q.tx \in Txs
        /\ q.pc \in {"dedup", "find", "inv", "load", "sub", "commit"}
        /\ q.pc \notin {"dedup", "find"} =>
              /\ q.inv = Ref[q.tx] /\ q.bill = [status |-> "paid", tx |-> q.tx]
              /\ inv[q.inv].status # "none"
        /\ q.pc \in {"load", "sub", "commit"} => invLock[q.inv] = s
        /\ deliveries[q.tx] > 0

OfAdministrator(s) ==
    LET q == sess[s] IN
    /\ q.kind \in B!SubKinds => s \in Sessions /\ q.pc \in {"load", "sub", "commit"}
    /\ q.kind \in B!InvoiceKinds =>
          /\ s \in Sessions /\ q.pc \in {"inv", "commit"} /\ q.inv \in Invoices
          /\ q.pc = "inv" => q.kind # "partial_refund"
          /\ q.bill.status = IF q.kind = "mark_paid" THEN "paid" ELSE "void"
          /\ inv[q.inv].status # "none"

OfSweep(s) ==
    LET q == sess[s] IN
    /\ q.kind = "sweep" =>
          s \in Sweepers /\ q.pc \in {"due", "beyond", "forced", "sub", "commit"}
    /\ q.kind = "none" => q = B!Idle
    /\ q.kind # "payment" => q.tx = NoTx
    /\ q.pc = "idle" => q.kind = "none"

Holding(s) ==
    /\ subLock = s => sess[s].pc = "commit" /\ sess[s].kind \notin B!InvoiceKinds
    /\ \A i \in Invoices : invLock[i] = s =>
          /\ sess[s].inv = i /\ sess[s].kind \in {"mark_paid", "refund", "payment"}
          /\ sess[s].pc \in {"load", "sub", "commit"}

\* A session that overlapped no other still sees what it read: a handler writes
\* no lapse, and a sweep writes one only of a period that ended before it began.
Fresh(s) ==
    LET q == sess[s] IN
    q.pc # "idle" /\ q.raced = FALSE =>
        /\ B!Open = {s}
        /\ q.kind # "sweep" =>
              /\ q.pc = "sub" => q.row = sub
              /\ q.pc = "commit" /\ subLock = s =>
                    q.row.status \notin {"past_due", "expired"}
        /\ q.kind = "sweep" =>
              /\ q.at <= now
              /\ q.pc = "sub" => q.row.ends = sub.ends /\ q.row.ends < q.at
              /\ q.pc = "commit" /\ subLock = s => q.row.ends < q.at

SessionInv(s) ==
    OfPayment(s) /\ OfAdministrator(s) /\ OfSweep(s) /\ Holding(s) /\ Fresh(s)

\* An invoice carries the transaction that refers to it, and is paid by hand or
\* by a transaction that was credited.
InvoiceInv(i) ==
    /\ inv[i].tx # NoTx => i = Ref[inv[i].tx] /\ inv[i].status # "none"
    /\ inv[i].status = "paid" =>
          i \in byHand \/ \E y \in Txs : Ref[y] = i /\ credits[y] > 0

\* What may still be credited to x but for the session m that marked it, which
\* finds the invoice unpaid or ends.
Owed(x, m) ==
    IF (m \in Past(x) /\ Crediting(m)) \/ inv[Ref[x]].status # "paid" THEN 1 ELSE 0

CountedWith(x, m) ==
    /\ m # NoSession => m \in Past(x) /\ x \in marks
    /\ credits[x] + Cardinality(Past(x) \ {m}) + Owed(x, m)
          <= 1 + voids[Ref[x]] + unmarked

\* A payment that is marked or was answered has been seen through, or a session
\* is about to.
SeenThrough(x) ==
    \/ B!Accounted(x) \/ x \in interrupted \/ B!Rivalled(x) \/ Past(x) # {}

PaymentInv(x) ==
    /\ \E m \in B!All \cup {NoSession} : CountedWith(x, m)
    /\ x \in marks \cup answered => SeenThrough(x)
    /\ credits[x] > 0 => deliveries[x] > 0

BillInv ==
    /\ B!TypeOK
    /\ \A s \in B!All : SessionInv(s)
    /\ \A i \in Invoices : InvoiceInv(i)
    /\ \A x \in Txs : PaymentInv(x)

\* The statuses and the sets the type invariant is built from, for one session.
LEMMA BillingTypes ==
  ASSUME B!TypeOK, NEW s \in B!All
  PROVE  /\ sess[s] \in B!Session
         /\ sess[s].pc \in B!Pcs /\ sess[s].tx \in Txs \cup {NoTx}
         /\ sess[s].kind \in B!Kinds \cup {"none", "payment", "sweep"}
         /\ sess[s].row \in B!SubRow /\ sess[s].bill \in B!InvRow
         /\ sess[s].row.ends \in Nat /\ sess[s].at \in Nat /\ sess[s].raced \in BOOLEAN
         /\ sess[s].inv \in Invoices \cup {NoInvoice}
         /\ sub.status \in B!Statuses /\ sub.ends \in Nat
BY DEF B!TypeOK, B!Session, B!SubRow

\* Only payments are beyond a deduplication, and they are few.
LEMMA PastPayments ==
  ASSUME B!BillingAssumption, BillInv, NEW x \in Txs
  PROVE  /\ IsFiniteSet(Past(x)) /\ Past(x) \subseteq Sessions
         /\ \A s \in Past(x) : s \in B!All /\ sess[s].kind = "payment" /\ NoSession # s
<1>1. ASSUME NEW s \in Past(x) PROVE s \in Sessions /\ s \in B!All /\ sess[s].kind = "payment"
  <2>1. s \in B!All /\ sess[s].tx = x /\ x # NoTx
    BY <1>1 DEF Past, B!BillingAssumption
  <2>2. OfSweep(s) /\ OfPayment(s)
    BY <2>1 DEF BillInv, SessionInv
  <2> QED BY <2>1, <2>2 DEF OfSweep, OfPayment
<1>2. NoSession \notin B!All
  BY DEF B!BillingAssumption, B!All
<1> QED BY <1>1, <1>2, FS_Subset, SessionsFinite

\* What is left to be counted of x only shrinks if its sessions do, none of them
\* finds the invoice paid and goes on, and the invoice is unpaid again only by a refund.
LEMMA KeepsCount ==
  ASSUME B!BillingAssumption, BillInv, B!TypeOK', NEW x \in Txs,
         Past(x)' \subseteq Past(x),
         credits'[x] = credits[x], voids'[Ref[x]] >= voids[Ref[x]], unmarked' >= unmarked,
         Past(x)' # {} /\ x \in marks => x \in marks',
         \A p \in Past(x)' : Crediting(p)' => Crediting(p) \/ inv[Ref[x]].status # "paid",
         inv'[Ref[x]].status # "paid" =>
            inv[Ref[x]].status # "paid" \/ voids'[Ref[x]] >= voids[Ref[x]] + 1
  PROVE  \E m \in B!All \cup {NoSession} : CountedWith(x, m)'
<1>1. PICK m \in B!All \cup {NoSession} : CountedWith(x, m)
  BY DEF BillInv, PaymentInv
<1>2. PICK n : n = IF m \in Past(x)' THEN m ELSE NoSession
  OBVIOUS
<1>3. /\ IsFiniteSet(Past(x)) /\ NoSession \notin Past(x)
      /\ IsFiniteSet(Past(x) \ {m}) /\ Cardinality(Past(x) \ {m}) \in Nat
  BY PastPayments, FS_Subset, FS_CardinalityType
<1>4. Past(x)' \ {n} \subseteq Past(x) \ {m}
  BY <1>2, <1>3
<1>6. /\ Cardinality(Past(x)' \ {n}) \in Nat
      /\ Cardinality(Past(x)' \ {n}) <= Cardinality(Past(x) \ {m})
  BY <1>3, <1>4, FS_Subset, FS_CardinalityType
<1>7. n # NoSession => n \in Past(x)' /\ x \in marks'
  BY <1>1, <1>2 DEF CountedWith
<1>8. Owed(x, n)' <= Owed(x, m) \/ voids'[Ref[x]] >= voids[Ref[x]] + 1
  <2>1. CASE n \in Past(x)' /\ Crediting(n)'
    <3>1. n = m /\ m \in Past(x)
      BY <1>2, <1>3, <2>1
    <3> QED BY <2>1, <3>1 DEF Owed
  <2>2. CASE ~(n \in Past(x)' /\ Crediting(n)')
    BY <2>2 DEF Owed
  <2> QED BY <2>1, <2>2
<1>9. Owed(x, n)' \in {0, 1} /\ Owed(x, m) \in {0, 1}
  BY DEF Owed
<1>10. /\ credits[x] \in Nat /\ voids[Ref[x]] \in Nat /\ unmarked \in Nat
       /\ voids'[Ref[x]] \in Nat /\ unmarked' \in Nat
  BY DEF BillInv, B!TypeOK, B!BillingAssumption
<1>11. credits[x] + Cardinality(Past(x) \ {m}) + Owed(x, m) <= 1 + voids[Ref[x]] + unmarked
  BY <1>1 DEF CountedWith
<1> DEFINE a == Cardinality(Past(x)' \ {n})
           b == Cardinality(Past(x) \ {m})
           o == Owed(x, n)'
           p == Owed(x, m)
<1>12. credits'[x] + a + o <= 1 + voids'[Ref[x]] + unmarked'
  <2>1. /\ a \in Nat /\ b \in Nat /\ a <= b /\ o \in {0, 1} /\ p \in {0, 1}
        /\ o <= p \/ voids'[Ref[x]] >= voids[Ref[x]] + 1
        /\ credits[x] + b + p <= 1 + voids[Ref[x]] + unmarked
    BY <1>3, <1>6, <1>8, <1>9, <1>11
  <2> HIDE DEF a, b, o, p
  <2> QED BY <1>10, <2>1
<1>13. n \in B!All \cup {NoSession}
  BY <1>1, <1>2
<1> QED BY <1>7, <1>12, <1>13 DEF CountedWith

\* What has been seen through stays so, unless its last session goes.
LEMMA KeepsSeen ==
  ASSUME NEW x \in Txs, BillInv, B!TypeOK', SeenThrough(x),
         credits'[x] >= credits[x], unmatched \subseteq unmatched',
         interrupted \subseteq interrupted', byHand \subseteq byHand',
         \A y \in Txs : deliveries'[y] >= deliveries[y],
         Past(x) # {} => Past(x)' # {}
  PROVE  SeenThrough(x)'
<1>1. B!Accounted(x) => B!Accounted(x)'
  BY DEF BillInv, B!TypeOK, B!Accounted
<1>2. B!Rivalled(x) => B!Rivalled(x)'
  BY DEF BillInv, B!TypeOK, B!Rivalled
<1> QED BY <1>1, <1>2 DEF SeenThrough

\* A step that only moves sessions on, or begins one, leaves invoices and payments
\* as they are.
LEMMA QuietStep ==
  ASSUME B!BillingAssumption, BillInv, B!TypeOK',
         UNCHANGED <<inv, marks, unmatched, answered, credits, voids, byHand, unmarked,
                     interrupted>>,
         \A y \in Txs : deliveries'[y] >= deliveries[y],
         \A x \in Txs : /\ Past(x)' = Past(x)
                        /\ \A p \in Past(x) : Crediting(p)' =>
                              Crediting(p) \/ inv[Ref[x]].status # "paid"
  PROVE  /\ \A i \in Invoices : InvoiceInv(i)'
         /\ \A x \in Txs : PaymentInv(x)'
<1>1. ASSUME NEW i \in Invoices PROVE InvoiceInv(i)'
  BY DEF BillInv, InvoiceInv
<1>2. ASSUME NEW x \in Txs PROVE PaymentInv(x)'
  <2>1. /\ voids[Ref[x]] \in Nat /\ unmarked \in Nat /\ credits[x] \in Nat
        /\ deliveries[x] \in Nat /\ deliveries'[x] \in Nat
    BY DEF BillInv, B!TypeOK, B!BillingAssumption
  <2>2. /\ Past(x)' = Past(x)
        /\ \A p \in Past(x)' : Crediting(p)' => Crediting(p) \/ inv[Ref[x]].status # "paid"
        /\ credits'[x] = credits[x] /\ voids' = voids /\ unmarked' = unmarked
        /\ marks' = marks /\ inv' = inv
    OBVIOUS
  <2>3. \E m \in B!All \cup {NoSession} : CountedWith(x, m)'
    <3>1. voids'[Ref[x]] >= voids[Ref[x]] /\ unmarked' >= unmarked
      BY <2>1
    <3> QED BY <2>2, <3>1, KeepsCount
  <2>4. x \in marks \cup answered => SeenThrough(x)'
    BY <2>1, KeepsSeen DEF BillInv, PaymentInv
  <2>5. credits'[x] > 0 => deliveries'[x] > 0
    BY <2>1 DEF BillInv, PaymentInv
  <2> QED BY <2>3, <2>4, <2>5 DEF PaymentInv
<1> QED BY <1>1, <1>2

\* A session that is not the step's, if the step's was open: it keeps what is said
\* of it.  One that overlaps none has no such step beside it.
LEMMA OthersKeep ==
  ASSUME B!BillingAssumption, B!TypeOK, B!TypeOK', NEW s \in B!All, NEW p \in B!All, p # s,
         SessionInv(p), s \in B!Open, sess'[p] = sess[p],
         \A i \in Invoices : inv[i].status # "none" => inv'[i].status # "none",
         \A i \in Invoices : invLock'[i] = p <=> invLock[i] = p,
         subLock' = p => subLock = p,
         \A y \in Txs : deliveries'[y] >= deliveries[y]
  PROVE  SessionInv(p)'
<1>1. OfPayment(p)'
  <2>1. SUFFICES ASSUME sess[p].kind = "payment" PROVE OfPayment(p)'
    BY DEF OfPayment
  <2>2. /\ p \in Sessions /\ sess[p].tx \in Txs
        /\ deliveries[sess[p].tx] > 0 /\ deliveries'[sess[p].tx] >= deliveries[sess[p].tx]
        /\ deliveries'[sess[p].tx] \in Nat /\ deliveries[sess[p].tx] \in Nat
        /\ Ref[sess[p].tx] \in Invoices
    BY <2>1 DEF SessionInv, OfPayment, B!TypeOK, B!BillingAssumption
  <2> QED BY <2>1, <2>2 DEF SessionInv, OfPayment
<1>2. OfAdministrator(p)'
  BY DEF SessionInv, OfAdministrator
<1>3. OfSweep(p)'
  BY DEF SessionInv, OfSweep
<1>4. Holding(p)'
  BY DEF SessionInv, Holding
<1>5. Fresh(p)'
  <2>1. sess[p].pc = "idle" \/ sess[p].raced # FALSE
    BY DEF SessionInv, Fresh
  <2> QED BY <2>1 DEF Fresh
<1> QED BY <1>1, <1>2, <1>3, <1>4, <1>5 DEF SessionInv

\* When a session begins, the open ones are no longer alone.
NoLongerAlone(p) ==
    /\ p \in B!Open => sess'[p] = [sess[p] EXCEPT !.raced = TRUE]
    /\ p \notin B!Open => sess'[p] = sess[p]

LEMMA OthersKeepBegin ==
  ASSUME B!BillingAssumption, B!TypeOK, B!TypeOK', NEW s \in B!All, NEW p \in B!All, p # s,
         SessionInv(p), NoLongerAlone(p),
         UNCHANGED <<inv, invLock, subLock>>,
         \A y \in Txs : deliveries'[y] >= deliveries[y]
  PROVE  SessionInv(p)'
<1>1. sess[p] \in B!Session
  BY BillingTypes
<1>2. /\ sess'[p].pc = sess[p].pc /\ sess'[p].kind = sess[p].kind /\ sess'[p].tx = sess[p].tx
      /\ sess'[p].inv = sess[p].inv /\ sess'[p].bill = sess[p].bill
      /\ sess'[p].row = sess[p].row /\ sess'[p].at = sess[p].at
  BY <1>1 DEF B!Session, NoLongerAlone
<1>3. sess'[p].pc = "idle" \/ sess'[p].raced = TRUE
  BY <1>1 DEF B!Session, B!Open, NoLongerAlone
<1>4. OfPayment(p)'
  <2>1. SUFFICES ASSUME sess[p].kind = "payment" PROVE OfPayment(p)'
    BY <1>2 DEF OfPayment
  <2>2. /\ p \in Sessions /\ sess[p].tx \in Txs
        /\ deliveries[sess[p].tx] > 0 /\ deliveries'[sess[p].tx] >= deliveries[sess[p].tx]
        /\ deliveries'[sess[p].tx] \in Nat /\ deliveries[sess[p].tx] \in Nat
    BY <2>1 DEF SessionInv, OfPayment, B!TypeOK
  <2> QED BY <1>2, <2>1, <2>2 DEF SessionInv, OfPayment
<1>5. OfAdministrator(p)'
  BY <1>2 DEF SessionInv, OfAdministrator
<1>6. OfSweep(p)'
  <2>1. p \in B!Open => sess[p].kind # "none"
    BY DEF SessionInv, OfSweep, B!Open, B!Idle
  <2>2. p \notin B!Open => sess'[p] = sess[p]
    BY DEF NoLongerAlone
  <2> QED BY <1>2, <2>1, <2>2 DEF SessionInv, OfSweep
<1>7. Holding(p)'
  BY <1>2 DEF SessionInv, Holding
<1>8. Fresh(p)'
  BY <1>3 DEF Fresh
<1> QED BY <1>4, <1>5, <1>6, <1>7, <1>8 DEF SessionInv

\* Whether others are open is a flag of the session.
LEMMA RacedType ==
  ASSUME NEW q \in B!Session, NEW b \in BOOLEAN
  PROVE  [q EXCEPT !.raced = b] \in B!Session
BY DEF B!Session

\* What a session that begins finds: nothing is held in its name, and if it is alone
\* it is the only one.
LEMMA Begins ==
  ASSUME B!BillingAssumption, BillInv, NEW s \in B!All, sess[s].pc = "idle", NEW new \in B!Session,
         new.pc # "idle", B!Begin(s, new)
  PROVE  /\ sess' \in [B!All -> B!Session] /\ B!Open' = B!Open \cup {s}
         /\ sess'[s] = [new EXCEPT !.raced = B!Open # {}]
         /\ sess'[s].raced = FALSE => B!Open' = {s}
         /\ \A p \in B!All \ {s} : NoLongerAlone(p)
         /\ \A p \in B!All \ {s} : sess'[p].tx = sess[p].tx /\ sess'[p].pc = sess[p].pc
         /\ subLock # s /\ \A i \in Invoices : invLock[i] # s
<1>1. B!TypeOK /\ s \notin B!Open /\ s # NoSession
  BY DEF BillInv, B!Open, B!BillingAssumption, B!All
<1> DEFINE first == [new EXCEPT !.raced = B!Open # {}]
           other(p) == [sess[p] EXCEPT !.raced = TRUE]
<1>2. sess' = [p \in B!All |-> CASE p = s -> first
                             [] p \in B!Open -> other(p)
                             [] OTHER -> sess[p]]
  BY DEF B!Begin
<1>3. first \in B!Session
  <2>1. (B!Open # {}) \in BOOLEAN
    OBVIOUS
  <2> QED BY <2>1, RacedType, Zenon
<1>4. \A p \in B!Open : p \in B!All /\ other(p) \in B!Session
  BY <1>1, BillingTypes, RacedType DEF B!Open
<1>5. sess' \in [B!All -> B!Session]
  <2>1. \A p \in B!All : sess[p] \in B!Session
    BY <1>1, BillingTypes
  <2> HIDE DEF first, other
  <2> QED BY <1>1, <1>2, <1>3, <1>4, <2>1
<1>6. sess'[s] = [new EXCEPT !.raced = B!Open # {}]
  <2> HIDE DEF first, other
  <2>1. sess'[s] = first
    BY <1>1, <1>2
  <2> QED BY <2>1 DEF first
<1>7. ASSUME NEW p \in B!All \ {s}
      PROVE  /\ NoLongerAlone(p)
             /\ sess'[p].tx = sess[p].tx /\ sess'[p].pc = sess[p].pc
  <2>1. /\ p \in B!Open => sess'[p] = [sess[p] EXCEPT !.raced = TRUE]
        /\ p \notin B!Open => sess'[p] = sess[p]
    BY <1>1 DEF B!Begin
  <2>2. sess[p] \in B!Session
    BY <1>1, BillingTypes
  <2> QED BY <2>1, <2>2 DEF B!Session, NoLongerAlone
<1>8. sess'[s].pc = new.pc /\ sess'[s].raced = (B!Open # {})
  BY <1>6 DEF B!Session
<1>9. B!Open' = B!Open \cup {s}
  BY <1>7, <1>8 DEF B!Open
<1>10. sess'[s].raced = FALSE => B!Open' = {s}
  BY <1>8, <1>9
<1>11. subLock # s /\ \A i \in Invoices : invLock[i] # s
  BY <1>1 DEF B!TypeOK
<1> QED BY <1>5, <1>6, <1>7, <1>9, <1>10, <1>11

\* What is left to say of a request or a sweep that begins: that its kind may stand
\* where it does.
LEMMA BeginStep ==
  ASSUME B!BillingAssumption, BillInv, NEW s \in B!All, NEW new \in B!Session,
         sess[s].pc = "idle", B!Begin(s, new),
         new.pc \notin {"idle", "sub"}, new.tx = NoTx \/ new.pc = "dedup",
         new.kind = "sweep" => new.at <= now,
         UNCHANGED <<mix, now, sub, inv, B!Locks, marks, unmatched, answered, B!History, faults>>,
         deliveries' \in [Txs -> Nat], \A y \in Txs : deliveries'[y] >= deliveries[y],
         asked' \in Nat,
         OfPayment(s)', OfAdministrator(s)', OfSweep(s)'
  PROVE  BillInv'
<1> USE DEF B!Locks, B!History
<1>1. B!TypeOK /\ SessionInv(s) /\ s # NoSession
  BY DEF BillInv, B!BillingAssumption, B!All
<1>2. /\ sess' \in [B!All -> B!Session] /\ B!Open' = B!Open \cup {s}
      /\ sess'[s] = [new EXCEPT !.raced = B!Open # {}]
      /\ sess'[s].raced = FALSE => B!Open' = {s}
      /\ subLock # s /\ \A i \in Invoices : invLock[i] # s
  BY Begins
<1>3. \A p \in B!All \ {s} : NoLongerAlone(p)
  BY Begins
<1>4. \A p \in B!All \ {s} : sess'[p].tx = sess[p].tx /\ sess'[p].pc = sess[p].pc
  BY Begins
<1>5. B!TypeOK'
  BY <1>1, <1>2 DEF B!TypeOK
<1>6. /\ sess'[s].pc = new.pc /\ sess'[s].kind = new.kind /\ sess'[s].tx = new.tx
      /\ sess'[s].at = new.at
  BY <1>2 DEF B!Session
<1>7. SessionInv(s)'
  <2>1. Holding(s)'
    BY <1>2 DEF Holding
  <2>2. Fresh(s)'
    BY <1>2, <1>6 DEF Fresh
  <2> QED BY <2>1, <2>2 DEF SessionInv
<1>8. ASSUME NEW p \in B!All, p # s PROVE SessionInv(p)'
  <2>1. SessionInv(p)
    BY DEF BillInv
  <2>2. UNCHANGED <<inv, invLock, subLock>>
    OBVIOUS
  <2>3. NoLongerAlone(p)
    BY <1>3, <1>8
  <2> QED BY <1>1, <1>5, <1>8, <2>1, <2>2, <2>3, OthersKeepBegin
<1>9. ASSUME NEW x \in Txs
      PROVE  Past(x)' = Past(x) /\ \A p \in Past(x) : Crediting(p)' => Crediting(p)
  <2>1. s \notin Past(x)
    BY DEF Past
  <2>2. ~(sess'[s].tx = x /\ sess'[s].pc \notin {"idle", "dedup"})
    BY <1>6 DEF B!BillingAssumption
  <2> QED BY <1>4, <2>1, <2>2 DEF Past, Crediting
<1>10. /\ \A i \in Invoices : InvoiceInv(i)'
      /\ \A x \in Txs : PaymentInv(x)'
  <2>1. UNCHANGED <<inv, marks, unmatched, answered, credits, voids, byHand, unmarked,
                     interrupted>>
    OBVIOUS
  <2> HIDE DEF B!Locks, B!History
  <2> QED BY <1>5, <1>9, <2>1, QuietStep
<1> QED BY <1>5, <1>7, <1>8, <1>10 DEF BillInv

LEMMA IdleType ==
  ASSUME B!BillingAssumption
  PROVE  B!Idle \in B!Session
BY DEF B!Idle, B!Session, B!NoRow, B!NoBill, B!SubRow, B!InvRow, B!Statuses, B!InvStatuses, B!Pcs

LEMMA DeliverStep ==
  ASSUME B!BillingAssumption, BillInv, NEW s \in B!All, NEW x \in Txs, B!Deliver(s, x)
  PROVE  BillInv'
<1> DEFINE new == [B!Idle EXCEPT !.pc = "dedup", !.kind = "payment", !.tx = x]
<1>1. new \in B!Session /\ new.pc = "dedup" /\ new.kind = "payment" /\ new.tx = x
  BY IdleType DEF B!Session, B!Pcs, B!Idle
<1>2. /\ sess[s].pc = "idle" /\ B!Begin(s, new) /\ s \in Sessions
      /\ UNCHANGED <<mix, now, sub, inv, B!Locks, marks, unmatched, answered, B!History, faults>>
      /\ asked' = asked /\ deliveries' = [deliveries EXCEPT ![x] = @ + 1]
  BY DEF B!Deliver, B!Begin, B!At, B!Database, B!Locks, B!History, B!Counts
<1> HIDE DEF new
<1>3. /\ asked \in Nat /\ deliveries \in [Txs -> Nat]
  BY DEF BillInv, B!TypeOK
<1>4. /\ deliveries' \in [Txs -> Nat] /\ \A y \in Txs : deliveries'[y] >= deliveries[y]
      /\ deliveries'[x] > 0
  BY <1>2, <1>3
<1>5. sess'[s] = [new EXCEPT !.raced = B!Open # {}]
  BY <1>1, <1>2, Begins
<1>6. sess'[s].pc = "dedup" /\ sess'[s].kind = "payment" /\ sess'[s].tx = x
  BY <1>1, <1>5 DEF B!Session
<1>7. OfPayment(s)' /\ OfAdministrator(s)' /\ OfSweep(s)'
  BY <1>2, <1>4, <1>6 DEF OfPayment, OfAdministrator, OfSweep, B!SubKinds, B!InvoiceKinds
<1> QED BY <1>1, <1>2, <1>3, <1>4, <1>7, BeginStep

LEMMA AskStep ==
  ASSUME B!BillingAssumption, BillInv, NEW s \in B!All, NEW kind \in B!Kinds, B!Ask(s, kind)
  PROVE  BillInv'
<1> DEFINE new == [B!Idle EXCEPT !.pc = "load", !.kind = kind]
<1>1. /\ new \in B!Session /\ new.pc = "load" /\ new.kind = kind /\ new.tx = NoTx
      /\ kind \in B!SubKinds /\ kind \notin B!InvoiceKinds /\ kind \notin {"payment", "sweep", "none"}
  BY IdleType DEF B!Session, B!Pcs, B!Idle, B!Ask, B!SubKinds, B!InvoiceKinds
<1>2. /\ sess[s].pc = "idle" /\ B!Begin(s, new) /\ s \in Sessions
      /\ UNCHANGED <<mix, now, sub, inv, B!Locks, marks, unmatched, answered, B!History, faults>>
      /\ asked' = asked + 1 /\ deliveries' = deliveries
  BY DEF B!Ask, B!Begin, B!At, B!Database, B!Locks, B!History, B!Outside
<1> HIDE DEF new
<1>3. /\ asked' \in Nat /\ deliveries' \in [Txs -> Nat]
      /\ \A y \in Txs : deliveries'[y] >= deliveries[y]
  BY <1>2 DEF BillInv, B!TypeOK
<1>4. sess'[s] = [new EXCEPT !.raced = B!Open # {}]
  BY <1>1, <1>2, Begins
<1>5. sess'[s].pc = "load" /\ sess'[s].kind = kind /\ sess'[s].tx = NoTx
  BY <1>1, <1>4 DEF B!Session
<1>6. OfPayment(s)' /\ OfAdministrator(s)' /\ OfSweep(s)'
  BY <1>1, <1>2, <1>5 DEF OfPayment, OfAdministrator, OfSweep
<1> QED BY <1>1, <1>2, <1>3, <1>6, BeginStep

LEMMA AskInvoiceStep ==
  ASSUME B!BillingAssumption, BillInv, NEW s \in B!All, NEW kind \in B!Kinds, NEW i \in Invoices,
         B!AskInvoice(s, kind, i)
  PROVE  BillInv'
<1>1. PICK b, pc :
         /\ b = [inv[i] EXCEPT !.status = IF kind = "mark_paid" THEN "paid" ELSE "void"]
         /\ pc = IF \/ kind = "partial_refund"
                    \/ kind = "refund" /\ inv[i].status = "void"
                 THEN "commit" ELSE "inv"
  OBVIOUS
<1>2. /\ b \in B!InvRow /\ b.status = IF kind = "mark_paid" THEN "paid" ELSE "void"
      /\ pc \in {"inv", "commit"}
  BY <1>1 DEF BillInv, B!TypeOK, B!InvRow, B!InvStatuses
<1> DEFINE new == [B!Idle EXCEPT !.kind = kind, !.inv = i, !.pc = pc, !.bill = b]
<1>3. /\ new \in B!Session /\ new.pc = pc /\ new.kind = kind /\ new.tx = NoTx
      /\ new.inv = i /\ new.bill = b
      /\ kind \in B!InvoiceKinds /\ kind \notin B!SubKinds /\ kind \notin {"payment", "sweep", "none"}
  BY <1>2, IdleType DEF B!Session, B!Pcs, B!Idle, B!AskInvoice, B!SubKinds, B!InvoiceKinds
<1>4. /\ sess[s].pc = "idle" /\ B!Begin(s, new) /\ s \in Sessions
      /\ UNCHANGED <<mix, now, sub, inv, B!Locks, marks, unmatched, answered, B!History, faults>>
      /\ asked' = asked + 1 /\ deliveries' = deliveries /\ inv[i].status # "none"
  <2> DEFINE request ==
        [B!Idle EXCEPT !.kind = kind, !.inv = i,
                     !.pc = IF \/ kind = "partial_refund"
                               \/ kind = "refund" /\ inv[i].status = "void"
                            THEN "commit" ELSE "inv",
                     !.bill = [inv[i] EXCEPT !.status =
                                 IF kind = "mark_paid" THEN "paid" ELSE "void"]]
  <2>1. new = request
    BY <1>1
  <2>2. /\ B!Begin(s, request) /\ s \in Sessions /\ asked' = asked + 1 /\ inv[i].status # "none"
        /\ UNCHANGED <<B!Database, B!Locks, B!Outside, B!History, faults>>
    BY DEF B!AskInvoice
  <2> HIDE DEF new, request
  <2>3. B!Begin(s, new)
    BY <2>1, <2>2
  <2>4. sess[s].pc = "idle"
    BY <2>2 DEF B!Begin, B!At
  <2> QED BY <2>2, <2>3, <2>4 DEF B!Database, B!Outside
<1> HIDE DEF new
<1>5. /\ asked' \in Nat /\ deliveries' \in [Txs -> Nat]
      /\ \A y \in Txs : deliveries'[y] >= deliveries[y]
  BY <1>4 DEF BillInv, B!TypeOK
<1>6. sess'[s] = [new EXCEPT !.raced = B!Open # {}]
  BY <1>2, <1>3, <1>4, Begins
<1>7. /\ sess'[s].pc = pc /\ sess'[s].kind = kind /\ sess'[s].tx = NoTx
      /\ sess'[s].inv = i /\ sess'[s].bill = b
  BY <1>3, <1>6 DEF B!Session
<1>8. OfPayment(s)' /\ OfAdministrator(s)' /\ OfSweep(s)'
  <2>1. pc = "inv" => kind # "partial_refund"
    BY <1>1
  <2> QED BY <1>2, <1>3, <1>4, <1>7, <2>1 DEF OfPayment, OfAdministrator, OfSweep
<1> QED BY <1>2, <1>3, <1>4, <1>5, <1>8, BeginStep

LEMMA SweepBeginStep ==
  ASSUME B!BillingAssumption, BillInv, NEW s \in B!All, B!SweepBegin(s)
  PROVE  BillInv'
<1>1. PICK d \in Nat : d = now
  BY DEF BillInv, B!TypeOK
<1> DEFINE new == [B!Idle EXCEPT !.pc = "due", !.kind = "sweep", !.at = d]
<1>2. /\ new \in B!Session /\ new.pc = "due" /\ new.kind = "sweep" /\ new.tx = NoTx /\ new.at = d
  BY IdleType DEF B!Session, B!Pcs, B!Idle
<1>3. /\ sess[s].pc = "idle" /\ B!Begin(s, new) /\ s \in Sweepers
      /\ UNCHANGED <<mix, now, sub, inv, B!Locks, marks, unmatched, answered, B!History, faults>>
      /\ asked' = asked /\ deliveries' = deliveries
  <2> DEFINE sweep == [B!Idle EXCEPT !.pc = "due", !.kind = "sweep", !.at = now]
  <2>1. new = sweep
    BY <1>1
  <2>2. /\ B!Begin(s, sweep) /\ s \in Sweepers
        /\ UNCHANGED <<B!Database, B!Locks, B!Outside, B!History, B!Counts>>
    BY DEF B!SweepBegin
  <2> HIDE DEF new, sweep
  <2>3. B!Begin(s, new)
    BY <2>1, <2>2
  <2>4. sess[s].pc = "idle"
    BY <2>2 DEF B!Begin, B!At
  <2> QED BY <2>2, <2>3, <2>4 DEF B!Database, B!Outside, B!Counts
<1> HIDE DEF new
<1>4. /\ asked' \in Nat /\ deliveries' \in [Txs -> Nat]
      /\ \A y \in Txs : deliveries'[y] >= deliveries[y]
  BY <1>3 DEF BillInv, B!TypeOK
<1>5. sess'[s] = [new EXCEPT !.raced = B!Open # {}]
  BY <1>2, <1>3, Begins
<1>6. sess'[s].pc = "due" /\ sess'[s].kind = "sweep" /\ sess'[s].tx = NoTx
  BY <1>2, <1>5 DEF B!Session
<1>7. OfPayment(s)' /\ OfAdministrator(s)' /\ OfSweep(s)'
  BY <1>3, <1>6 DEF OfPayment, OfAdministrator, OfSweep, B!SubKinds, B!InvoiceKinds
<1>8. new.kind = "sweep" => new.at <= now
  BY <1>1, <1>2
<1> QED BY <1>2, <1>3, <1>4, <1>7, <1>8, BeginStep

\* A step of an open session that touches no invoice and no payment: what is left to
\* say is where the session then stands.
LEMMA MoveStep ==
  ASSUME B!BillingAssumption, BillInv, B!TypeOK', NEW s \in B!All, s \in B!Open, sess[s].pc # "dedup",
         \A p \in B!All \ {s} : sess'[p] = sess[p],
         sess'[s].tx = sess[s].tx,
         sess'[s].pc \notin {"idle", "dedup"} \/ sess[s].tx = NoTx,
         Crediting(s)' => \/ Crediting(s) \/ sess[s].tx = NoTx
                          \/ inv[Ref[sess[s].tx]].status # "paid",
         UNCHANGED <<inv, marks, unmatched, answered, credits, voids, byHand, unmarked,
                     interrupted, deliveries>>,
         subLock' \in {subLock, s},
         \A i \in Invoices : \A p \in B!All \ {s} : invLock'[i] = p <=> invLock[i] = p,
         SessionInv(s)'
  PROVE  BillInv'
<1>1. ASSUME NEW p \in B!All, p # s PROVE SessionInv(p)'
  <2>1. /\ SessionInv(p) /\ B!TypeOK /\ sess'[p] = sess[p]
        /\ \A y \in Txs : deliveries'[y] >= deliveries[y]
    BY <1>1 DEF BillInv, B!TypeOK
  <2> QED BY <1>1, <2>1, OthersKeep
<1>2. ASSUME NEW x \in Txs
      PROVE  /\ Past(x)' = Past(x)
             /\ \A p \in Past(x) : Crediting(p)' => Crediting(p) \/ inv[Ref[x]].status # "paid"
  <2>1. x # NoTx
    BY DEF B!BillingAssumption
  <2>2. s \in Past(x)' <=> s \in Past(x)
    BY <2>1 DEF Past, B!Open
  <2>3. \A p \in B!All \ {s} : p \in Past(x)' <=> p \in Past(x)
    BY DEF Past
  <2>4. Past(x)' = Past(x)
    BY <2>2, <2>3 DEF Past
  <2>5. ASSUME NEW p \in Past(x), Crediting(p)'
        PROVE  Crediting(p) \/ inv[Ref[x]].status # "paid"
    BY <2>1, <2>5 DEF Past, Crediting
  <2> QED BY <2>4, <2>5
<1>3. /\ \A i \in Invoices : InvoiceInv(i)'
      /\ \A x \in Txs : PaymentInv(x)'
  <2>1. UNCHANGED <<inv, marks, unmatched, answered, credits, voids, byHand, unmarked,
                     interrupted>>
    OBVIOUS
  <2>2. \A y \in Txs : deliveries'[y] >= deliveries[y]
    BY DEF BillInv, B!TypeOK
  <2> QED BY <1>2, <2>1, <2>2, QuietStep
<1> QED BY <1>1, <1>3 DEF BillInv

LEMMA WriteInvoiceStep ==
  ASSUME B!BillingAssumption, BillInv, NEW s \in B!All, B!WriteInvoice(s)
  PROVE  BillInv'
<1>1. PICK i : i = sess[s].inv
  OBVIOUS
<1>2. /\ B!TypeOK /\ SessionInv(s) /\ sess[s] \in B!Session /\ s # NoSession
  BY BillingTypes DEF BillInv, B!BillingAssumption, B!All
<1>3. PICK pc : pc = IF sess[s].kind = "payment" THEN "load" ELSE "commit"
  OBVIOUS
<1>4. /\ sess[s].pc = "inv" /\ invLock[i] = NoSession
      /\ invLock' = [invLock EXCEPT ![i] = s] /\ sess' = [sess EXCEPT ![s].pc = pc]
      /\ UNCHANGED <<mix, now, sub, inv, subLock, marks, unmatched, deliveries, answered,
                     credits, voids, byHand, unmarked, interrupted, asked, faults>>
  BY <1>1, <1>3 DEF B!WriteInvoice, B!At, B!Go, B!Database, B!Outside, B!History, B!Counts
<1>5. /\ sess'[s] = [sess[s] EXCEPT !.pc = pc] /\ sess'[s] \in B!Session
      /\ \A p \in B!All \ {s} : sess'[p] = sess[p]
      /\ sess'[s].pc = pc /\ sess'[s].kind = sess[s].kind /\ sess'[s].tx = sess[s].tx
      /\ sess'[s].inv = i /\ sess'[s].bill = sess[s].bill /\ sess'[s].raced = sess[s].raced
      /\ pc \in {"load", "commit"}
  BY <1>1, <1>2, <1>3, <1>4 DEF B!TypeOK, B!Session, B!Pcs
<1>6. /\ i \in Invoices /\ sess[s].kind \in {"payment"} \cup B!InvoiceKinds
      /\ sess[s].kind # "partial_refund"
  <2>1. /\ sess[s].kind \in {"payment"} \cup B!InvoiceKinds
        /\ sess[s].kind # "partial_refund"
    BY <1>2, <1>4 DEF SessionInv, OfAdministrator, OfSweep, B!Session, B!Kinds, B!InvoiceKinds, B!Idle
  <2>2. sess[s].kind = "payment" => sess[s].inv = Ref[sess[s].tx] /\ sess[s].tx \in Txs
    BY <1>2, <1>4 DEF SessionInv, OfPayment
  <2>3. sess[s].kind \in B!InvoiceKinds => sess[s].inv \in Invoices
    BY <1>2 DEF SessionInv, OfAdministrator
  <2> QED BY <1>1, <2>1, <2>2, <2>3 DEF B!BillingAssumption
<1>7. B!Open' = B!Open /\ s \in B!Open
  BY <1>4, <1>5 DEF B!Open
<1>8. B!TypeOK'
  BY <1>2, <1>4, <1>5, <1>7 DEF B!TypeOK
<1>9. SessionInv(s)'
  <2>1. OfPayment(s)'
    BY <1>1, <1>2, <1>3, <1>4, <1>5, <1>6 DEF SessionInv, OfPayment, B!TypeOK
  <2>2. OfAdministrator(s)'
    BY <1>1, <1>2, <1>3, <1>4, <1>5, <1>6
    DEF SessionInv, OfAdministrator, B!SubKinds, B!InvoiceKinds
  <2>3. OfSweep(s)'
    BY <1>2, <1>5, <1>6 DEF SessionInv, OfSweep, B!InvoiceKinds
  <2>4. Holding(s)'
    BY <1>1, <1>2, <1>4, <1>5, <1>6 DEF SessionInv, Holding, B!TypeOK, B!InvoiceKinds
  <2>5. subLock # s
    BY <1>2, <1>4 DEF SessionInv, Holding
  <2>6. Fresh(s)'
    BY <1>2, <1>4, <1>5, <1>6, <1>7, <2>5 DEF SessionInv, Fresh, B!InvoiceKinds
  <2> QED BY <2>1, <2>2, <2>3, <2>4, <2>6 DEF SessionInv
<1>10. Crediting(s)
  BY <1>4 DEF Crediting
<1>11. \A j \in Invoices : \A p \in B!All \ {s} : invLock'[j] = p <=> invLock[j] = p
  BY <1>2, <1>4, <1>6 DEF B!TypeOK, B!BillingAssumption, B!All
<1> QED BY <1>4, <1>5, <1>7, <1>8, <1>9, <1>10, <1>11, MoveStep

LEMMA LoadSubStep ==
  ASSUME B!BillingAssumption, BillInv, NEW s \in B!All, B!LoadSub(s)
  PROVE  BillInv'
<1>1. /\ B!TypeOK /\ SessionInv(s) /\ sess[s] \in B!Session /\ s # NoSession /\ sub \in B!SubRow
  BY BillingTypes DEF BillInv, B!BillingAssumption, B!All, B!TypeOK
<1>2. /\ sess[s].pc = "load"
      /\ UNCHANGED <<mix, now, sub, inv, subLock, invLock, marks, unmatched, deliveries,
                     answered, credits, voids, byHand, unmarked, interrupted, asked, faults>>
  BY DEF B!LoadSub, B!At, B!Database, B!Locks, B!Outside, B!History, B!Counts
<1>3. sess[s].kind \in {"payment"} \cup B!SubKinds
  BY <1>1, <1>2 DEF SessionInv, OfPayment, OfAdministrator, OfSweep, B!Session, B!Kinds, B!Idle
<1>4. s \in B!Open /\ subLock # s
  BY <1>1, <1>2 DEF B!Open, SessionInv, Holding
<1>5. CASE B!Refused(s)
  <2>1. sess' = [sess EXCEPT ![s] = B!Idle]
    BY <1>5 DEF B!LoadSub
  <2>2. /\ sess'[s] = B!Idle /\ \A p \in B!All \ {s} : sess'[p] = sess[p]
        /\ sess' \in [B!All -> B!Session]
    BY <1>1, <2>1, IdleType DEF B!TypeOK
  <2>3. sess[s].tx = NoTx /\ sess[s].kind \in B!SubKinds
    BY <1>1, <1>5 DEF B!Refused, SessionInv, OfSweep, B!SubKinds
  <2>4. \A i \in Invoices : invLock[i] # s
    BY <1>1, <2>3 DEF SessionInv, Holding, B!SubKinds, B!InvoiceKinds
  <2>5. B!Open' = B!Open \ {s}
    BY <2>2 DEF B!Open, B!Idle
  <2>6. B!TypeOK'
    <3>1. /\ subLock \in (B!Open \ {s}) \cup {NoSession}
          /\ invLock \in [Invoices -> (B!Open \ {s}) \cup {NoSession}]
      BY <1>1, <1>4, <2>4 DEF B!TypeOK
    <3> QED BY <1>1, <1>2, <2>2, <2>5, <3>1 DEF B!TypeOK
  <2>7. SessionInv(s)'
    BY <1>2, <1>4, <2>2, <2>4 DEF SessionInv, OfPayment, OfAdministrator, OfSweep, Holding,
       Fresh, B!Idle, B!SubKinds, B!InvoiceKinds
  <2>8. Crediting(s)
    BY <1>2 DEF Crediting
  <2> QED BY <1>2, <1>4, <2>2, <2>3, <2>6, <2>7, <2>8, MoveStep DEF B!Idle
<1>6. CASE ~B!Refused(s)
  <2>1. sess' = [sess EXCEPT ![s].pc = "sub", ![s].row = sub]
    BY <1>6 DEF B!LoadSub
  <2>2. /\ sess'[s] \in B!Session /\ \A p \in B!All \ {s} : sess'[p] = sess[p]
        /\ sess' \in [B!All -> B!Session]
        /\ sess'[s].pc = "sub" /\ sess'[s].kind = sess[s].kind /\ sess'[s].tx = sess[s].tx
        /\ sess'[s].inv = sess[s].inv /\ sess'[s].bill = sess[s].bill
        /\ sess'[s].raced = sess[s].raced /\ sess'[s].row = sub
    BY <1>1, <2>1 DEF B!TypeOK, B!Session, B!Pcs
  <2>3. B!Open' = B!Open
    BY <1>2, <2>2 DEF B!Open
  <2>4. B!TypeOK'
    BY <1>1, <1>2, <2>2, <2>3 DEF B!TypeOK
  <2>5. SessionInv(s)'
    <3>1. OfPayment(s)'
      BY <1>1, <1>2, <2>2 DEF SessionInv, OfPayment
    <3>2. OfAdministrator(s)'
      BY <1>1, <1>2, <1>3, <2>2 DEF SessionInv, OfAdministrator, B!SubKinds, B!InvoiceKinds
    <3>3. OfSweep(s)' /\ Holding(s)'
      BY <1>1, <1>2, <1>3, <1>4, <2>2 DEF SessionInv, OfSweep, Holding, B!SubKinds
    <3>4. Fresh(s)'
      BY <1>1, <1>2, <1>3, <2>2, <2>3 DEF SessionInv, Fresh, B!SubKinds
    <3> QED BY <3>1, <3>2, <3>3, <3>4 DEF SessionInv
  <2>6. Crediting(s)
    BY <1>2 DEF Crediting
  <2> QED BY <1>2, <1>4, <2>2, <2>4, <2>5, <2>6, MoveStep
<1> QED BY <1>5, <1>6

\* What a handler writes to the subscription is active or canceled, unless somebody
\* wrote the subscription after it read it.
LEMMA WriteSubStep ==
  ASSUME B!BillingAssumption, BillInv, NEW s \in Sessions, B!WriteSub(s)
  PROVE  BillInv'
<1>1. /\ B!TypeOK /\ SessionInv(s) /\ sess[s] \in B!Session /\ s # NoSession /\ sub \in B!SubRow
      /\ s \in B!All /\ now \in Nat /\ Period \in Nat
  BY BillingTypes DEF BillInv, B!BillingAssumption, B!All, B!TypeOK
<1>2. PICK target : target = B!Target(s)
  OBVIOUS
<1>3. PICK status : status = B!StatusWritten(s)
  OBVIOUS
<1>4. /\ sess[s].pc = "sub" /\ subLock = NoSession /\ subLock' = s
      /\ sess' = [sess EXCEPT ![s].pc = "commit",
                    ![s].row = [status |-> status, ends |-> target.ends]]
      /\ UNCHANGED <<mix, now, sub, inv, invLock, marks, unmatched, deliveries,
                     answered, credits, voids, byHand, unmarked, interrupted, asked, faults>>
  BY <1>2, <1>3 DEF B!WriteSub, B!At, B!Database, B!Outside, B!History, B!Counts
<1>5. /\ target.status \in {"active", "canceled"} /\ target.ends \in Nat
  <2>1. [sub EXCEPT !.status = "active"].ends \in Nat
    BY <1>1 DEF B!SubRow
  <2>2. CASE sess[s].kind \in {"payment", "reactivate", "platform_reactivate"}
    BY <1>1, <1>2, <2>2 DEF B!Target
  <2>3. CASE sess[s].kind = "upgrade"
    BY <1>1, <1>2, <2>3 DEF B!Target, B!SubRow
  <2>4. CASE sess[s].kind \notin {"payment", "reactivate", "platform_reactivate", "upgrade"}
    BY <1>1, <1>2, <2>4 DEF B!Target, B!SubRow
  <2> QED BY <2>2, <2>3, <2>4
<1>6. /\ status \in B!Statuses
      /\ sess[s].row = sub => status = target.status
  BY <1>1, <1>2, <1>3, <1>5 DEF B!StatusWritten, B!SubRow, B!Statuses
<1>7. sess[s].kind \in {"payment"} \cup B!SubKinds
  <2>1. s \notin Sweepers
    BY DEF B!BillingAssumption
  <2> QED BY <1>1, <1>4, <2>1 DEF SessionInv, OfPayment, OfAdministrator, OfSweep, B!Session, B!Kinds, B!Idle
<1>8. /\ sess'[s] \in B!Session /\ \A p \in B!All \ {s} : sess'[p] = sess[p]
      /\ sess' \in [B!All -> B!Session]
      /\ sess'[s].pc = "commit" /\ sess'[s].kind = sess[s].kind /\ sess'[s].tx = sess[s].tx
      /\ sess'[s].inv = sess[s].inv /\ sess'[s].bill = sess[s].bill
      /\ sess'[s].raced = sess[s].raced /\ sess'[s].row.status = status
  BY <1>1, <1>4, <1>5, <1>6 DEF B!TypeOK, B!Session, B!Pcs, B!SubRow
<1>9. B!Open' = B!Open /\ s \in B!Open
  BY <1>4, <1>8 DEF B!Open
<1>10. B!TypeOK'
  BY <1>1, <1>4, <1>8, <1>9 DEF B!TypeOK
<1>11. SessionInv(s)'
  <2>1. OfPayment(s)'
    BY <1>1, <1>4, <1>8 DEF SessionInv, OfPayment
  <2>2. OfAdministrator(s)'
    BY <1>1, <1>4, <1>7, <1>8 DEF SessionInv, OfAdministrator, B!SubKinds, B!InvoiceKinds
  <2>3. OfSweep(s)' /\ Holding(s)'
    BY <1>1, <1>4, <1>7, <1>8 DEF SessionInv, OfSweep, Holding, B!SubKinds, B!InvoiceKinds
  <2>4. Fresh(s)'
    BY <1>1, <1>4, <1>5, <1>6, <1>7, <1>8, <1>9 DEF SessionInv, Fresh, B!SubKinds
  <2> QED BY <2>1, <2>2, <2>3, <2>4 DEF SessionInv
<1>12. Crediting(s)
  BY <1>4 DEF Crediting
<1> QED BY <1>1, <1>4, <1>8, <1>9, <1>10, <1>11, <1>12, MoveStep

\* The sweep's SELECTs: a lapse that was found ended before the sweep began.
LEMMA SelectStep ==
  ASSUME B!BillingAssumption, BillInv, NEW s \in B!All, NEW pc \in {"due", "beyond", "forced"},
         NEW found \in BOOLEAN, NEW status \in B!Statuses, NEW next \in {"beyond", "forced", "commit"},
         found = TRUE => B!Ended(s), B!Select(s, pc, found, status, next)
  PROVE  BillInv'
<1>1. /\ B!TypeOK /\ SessionInv(s) /\ sess[s] \in B!Session /\ s # NoSession /\ sub \in B!SubRow
  BY BillingTypes DEF BillInv, B!BillingAssumption, B!All, B!TypeOK
<1>2. PICK to, read : /\ to = IF found THEN "sub" ELSE next
                     /\ read = IF found THEN [sub EXCEPT !.status = status] ELSE sess[s].row
  OBVIOUS
<1>3. /\ sess[s].pc = pc /\ sess' = [sess EXCEPT ![s].pc = to, ![s].row = read]
      /\ UNCHANGED <<mix, now, sub, inv, subLock, invLock, marks, unmatched, deliveries,
                     answered, credits, voids, byHand, unmarked, interrupted, asked, faults>>
  BY <1>1, <1>2 DEF B!Select, B!At, B!Database, B!Locks, B!Outside, B!History, B!Counts
<1>4. /\ read \in B!SubRow /\ to \in B!Pcs \ {"idle", "dedup"}
      /\ found = TRUE => read.ends = sub.ends
  BY <1>1, <1>2 DEF B!SubRow, B!Session, B!Pcs
<1>5. /\ sess'[s] \in B!Session /\ \A p \in B!All \ {s} : sess'[p] = sess[p]
      /\ sess' \in [B!All -> B!Session]
      /\ sess'[s].pc = to /\ sess'[s].kind = sess[s].kind /\ sess'[s].tx = sess[s].tx
      /\ sess'[s].inv = sess[s].inv /\ sess'[s].at = sess[s].at
      /\ sess'[s].raced = sess[s].raced /\ sess'[s].row = read
  BY <1>1, <1>3, <1>4 DEF B!TypeOK, B!Session
<1>6. B!Open' = B!Open /\ s \in B!Open
  BY <1>3, <1>4, <1>5 DEF B!Open
<1>7. B!TypeOK'
  BY <1>1, <1>3, <1>5, <1>6 DEF B!TypeOK
<1>8. sess[s].kind = "sweep" /\ sess[s].tx = NoTx /\ s \in Sweepers
  BY <1>1, <1>3 DEF SessionInv, OfPayment, OfAdministrator, OfSweep, B!Session, B!Kinds, B!Idle
<1>9. subLock # s
  BY <1>1, <1>3 DEF SessionInv, Holding
<1>10. to = "sub" => found = TRUE
  BY <1>2
<1>11. SessionInv(s)'
  <2>1. OfPayment(s)' /\ OfAdministrator(s)'
    BY <1>5, <1>8 DEF OfPayment, OfAdministrator, B!SubKinds, B!InvoiceKinds
  <2>2. OfSweep(s)'
    BY <1>2, <1>5, <1>8 DEF OfSweep
  <2>3. Holding(s)'
    BY <1>1, <1>3, <1>5, <1>9 DEF SessionInv, Holding
  <2>4. Fresh(s)'
    BY <1>1, <1>3, <1>4, <1>5, <1>6, <1>8, <1>9, <1>10 DEF SessionInv, Fresh, B!Ended
  <2> QED BY <2>1, <2>2, <2>3, <2>4 DEF SessionInv
<1> QED BY <1>3, <1>4, <1>5, <1>6, <1>7, <1>8, <1>11, MoveStep

LEMMA SelectSteps ==
  ASSUME B!BillingAssumption, BillInv, NEW s \in B!All, B!SelectDue(s) \/ B!SelectBeyond(s) \/ B!SelectForced(s)
  PROVE  BillInv'
<1>1. /\ B!PastGrace(s) => B!Ended(s)
      /\ {"active", "past_due", "expired"} \subseteq B!Statuses
  BY BillingTypes DEF BillInv, B!PastGrace, B!Ended, B!BillingAssumption, B!Statuses
<1>2. CASE B!SelectDue(s)
  BY <1>1, <1>2, SelectStep DEF B!SelectDue
<1>3. CASE B!SelectBeyond(s)
  BY <1>1, <1>3, SelectStep DEF B!SelectBeyond
<1>4. CASE B!SelectForced(s)
  BY <1>1, <1>4, SelectStep DEF B!SelectForced
<1> QED BY <1>2, <1>3, <1>4

LEMMA WriteLapseStep ==
  ASSUME B!BillingAssumption, BillInv, NEW s \in B!All, B!WriteLapse(s)
  PROVE  BillInv'
<1>1. /\ B!TypeOK /\ SessionInv(s) /\ sess[s] \in B!Session /\ s # NoSession /\ sub \in B!SubRow
  BY BillingTypes DEF BillInv, B!BillingAssumption, B!All, B!TypeOK
<1>2. PICK ends \in Nat : ends = sub.ends
  BY <1>1 DEF B!SubRow
<1>3. /\ sess[s].pc = "sub" /\ subLock' = s /\ s \in Sweepers
      /\ sess' = [sess EXCEPT ![s].pc = "commit", ![s].row.ends = ends]
      /\ UNCHANGED <<mix, now, sub, inv, invLock, marks, unmatched, deliveries,
                     answered, credits, voids, byHand, unmarked, interrupted, asked, faults>>
  BY <1>2 DEF B!WriteLapse, B!At, B!Database, B!Outside, B!History, B!Counts
<1>4. sess[s].kind = "sweep" /\ sess[s].tx = NoTx
  BY <1>1, <1>3 DEF SessionInv, OfPayment, OfAdministrator, OfSweep, B!Session, B!Kinds, B!Idle,
     B!BillingAssumption
<1>5. /\ sess'[s] \in B!Session /\ \A p \in B!All \ {s} : sess'[p] = sess[p]
      /\ sess' \in [B!All -> B!Session]
      /\ sess'[s].pc = "commit" /\ sess'[s].kind = sess[s].kind /\ sess'[s].tx = sess[s].tx
      /\ sess'[s].inv = sess[s].inv /\ sess'[s].at = sess[s].at
      /\ sess'[s].raced = sess[s].raced /\ sess'[s].row.ends = ends
  BY <1>1, <1>2, <1>3 DEF B!TypeOK, B!Session, B!Pcs, B!SubRow
<1>6. B!Open' = B!Open /\ s \in B!Open
  BY <1>3, <1>5 DEF B!Open
<1>7. B!TypeOK'
  BY <1>1, <1>3, <1>5, <1>6 DEF B!TypeOK
<1>8. SessionInv(s)'
  <2>1. OfPayment(s)' /\ OfAdministrator(s)' /\ OfSweep(s)'
    BY <1>3, <1>4, <1>5 DEF OfPayment, OfAdministrator, OfSweep, B!SubKinds, B!InvoiceKinds
  <2>2. Holding(s)'
    BY <1>1, <1>3, <1>4, <1>5 DEF SessionInv, Holding, B!InvoiceKinds
  <2>3. Fresh(s)'
    BY <1>1, <1>2, <1>3, <1>4, <1>5, <1>6 DEF SessionInv, Fresh
  <2> QED BY <2>1, <2>2, <2>3 DEF SessionInv
<1>9. Crediting(s)
  BY <1>3 DEF Crediting
<1> QED BY <1>3, <1>5, <1>6, <1>7, <1>8, <1>9, MoveStep

\* A step that only takes or settles a payment: the others keep what is said of them.
LEMMA OthersAlso ==
  ASSUME B!BillingAssumption, BillInv, B!TypeOK', NEW s \in B!All, s \in B!Open,
         \A p \in B!All \ {s} : sess'[p] = sess[p], UNCHANGED deliveries,
         \A i \in Invoices : inv[i].status # "none" => inv'[i].status # "none",
         \A p \in B!All \ {s} : (subLock' = p => subLock = p) /\
             \A i \in Invoices : invLock'[i] = p <=> invLock[i] = p
  PROVE  \A p \in B!All \ {s} : SessionInv(p)'
<1>1. ASSUME NEW p \in B!All \ {s} PROVE SessionInv(p)'
  <2>1. /\ p \in B!All /\ p # s /\ SessionInv(p) /\ B!TypeOK /\ sess'[p] = sess[p]
        /\ subLock' = p => subLock = p
        /\ \A i \in Invoices : invLock'[i] = p <=> invLock[i] = p
        /\ \A y \in Txs : deliveries'[y] >= deliveries[y]
    BY <1>1 DEF BillInv, B!TypeOK
  <2> QED BY <2>1, OthersKeep
<1> QED BY <1>1

\* A session that has gone says nothing.
LEMMA GoneSession ==
  ASSUME NEW s, sess'[s] = B!Idle, subLock' # s, \A i \in Invoices : invLock'[i] # s
  PROVE  SessionInv(s)'
BY DEF SessionInv, OfPayment, OfAdministrator, OfSweep, Holding, Fresh, B!Idle, B!SubKinds,
   B!InvoiceKinds

\* What x needs besides what KeepsCount and KeepsSeen say.
LEMMA KeepsPayment ==
  ASSUME BillInv, B!TypeOK', NEW x \in Txs, UNCHANGED <<credits, deliveries>>,
         \E m \in B!All \cup {NoSession} : CountedWith(x, m)',
         x \in marks' \cup answered' => SeenThrough(x)'
  PROVE  PaymentInv(x)'
BY DEF BillInv, PaymentInv

LEMMA DedupTakes ==
  ASSUME B!BillingAssumption, BillInv, B!TypeOK', NEW s \in B!All, NEW x \in Txs,
         sess[s].pc = "dedup", sess[s].tx = x,
         sess' = [sess EXCEPT ![s].pc = "find"],
         UNCHANGED <<now, sub, inv, subLock, invLock, unmatched, deliveries, answered,
                     credits, voids, byHand, interrupted>>,
         \/ x \notin marks /\ marks' = marks \cup {x} /\ unmarked' = unmarked
         \/ marks' = marks /\ unmarked' = unmarked + 1
  PROVE  BillInv'
<1>1. /\ B!TypeOK /\ SessionInv(s) /\ sess[s] \in B!Session /\ s # NoSession /\ s \in B!Open
  BY BillingTypes DEF BillInv, B!BillingAssumption, B!All, B!Open
<1>2. /\ sess[s].kind = "payment" /\ s \in Sessions
  BY <1>1 DEF SessionInv, OfSweep, OfPayment, B!BillingAssumption
<1>3. /\ \A p \in B!All \ {s} : sess'[p] = sess[p]
      /\ sess'[s].pc = "find" /\ sess'[s].kind = "payment" /\ sess'[s].tx = x
      /\ sess'[s].raced = sess[s].raced /\ sess'[s].inv = sess[s].inv
  BY <1>1, <1>2 DEF B!TypeOK, B!Session
<1>4. B!Open' = B!Open
  BY <1>1, <1>3 DEF B!Open
<1>5. SessionInv(s)'
  <2>1. OfPayment(s)'
    BY <1>1, <1>2, <1>3 DEF SessionInv, OfPayment
  <2>2. OfAdministrator(s)' /\ OfSweep(s)'
    BY <1>2, <1>3 DEF OfAdministrator, OfSweep, B!SubKinds, B!InvoiceKinds
  <2>3. Holding(s)'
    BY <1>1, <1>3, <1>2 DEF SessionInv, Holding
  <2>4. Fresh(s)'
    BY <1>1, <1>3, <1>4 DEF SessionInv, Fresh
  <2> QED BY <2>1, <2>2, <2>3, <2>4 DEF SessionInv
<1>6. \A p \in B!All : SessionInv(p)'
  <2>1. \A p \in B!All \ {s} : SessionInv(p)'
    BY <1>1, <1>3, OthersAlso
  <2> QED BY <1>5, <2>1
<1>7. \A i \in Invoices : InvoiceInv(i)'
  BY DEF BillInv, InvoiceInv
<1>8. Past(x)' = Past(x) \cup {s} /\ s \notin Past(x)
  <2>1. \A p \in B!All \ {s} : p \in Past(x)' <=> p \in Past(x)
    BY <1>3 DEF Past
  <2>2. s \in Past(x)' /\ s \notin Past(x)
    BY <1>3 DEF Past
  <2> QED BY <2>1, <2>2 DEF Past
<1>9. \A y \in Txs \ {x} : Past(y)' = Past(y)
  BY <1>3 DEF Past
<1>10. \A p \in B!All : Crediting(p)' <=> Crediting(p)
  BY <1>1, <1>3 DEF Crediting
<1>11. /\ IsFiniteSet(Past(x)) /\ NoSession \notin Past(x)
  BY PastPayments
<1>12. /\ credits[x] \in Nat /\ voids[Ref[x]] \in Nat /\ unmarked \in Nat
  BY <1>1 DEF B!TypeOK, B!BillingAssumption
<1>13. PICK m \in B!All \cup {NoSession} : CountedWith(x, m)
  BY DEF BillInv, PaymentInv
<1>14. \E n \in B!All \cup {NoSession} : CountedWith(x, n)'
  <2>1. CASE x \notin marks /\ marks' = marks \cup {x} /\ unmarked' = unmarked
    <3>1. m = NoSession /\ Past(x) \ {m} = Past(x)' \ {s}
      BY <1>8, <1>11, <1>13, <2>1 DEF CountedWith
    <3>2. Owed(x, s)' = Owed(x, m)
      BY <1>3, <1>11, <3>1 DEF Owed, Crediting
    <3>3. CountedWith(x, s)'
      <4>1. credits[x] + Cardinality(Past(x) \ {m}) + Owed(x, m) <= 1 + voids[Ref[x]] + unmarked
        BY <1>13 DEF CountedWith
      <4>2. credits'[x] + Cardinality(Past(x)' \ {s}) + Owed(x, s)'
               <= 1 + voids'[Ref[x]] + unmarked'
        BY <2>1, <3>1, <3>2, <4>1
      <4> QED BY <1>8, <2>1, <4>2 DEF CountedWith
    <3> QED BY <3>3
  <2>2. CASE marks' = marks /\ unmarked' = unmarked + 1
    <3>1. m # s /\ Past(x)' \ {m} = (Past(x) \ {m}) \cup {s}
      BY <1>1, <1>8, <1>13 DEF CountedWith
    <3>2. Cardinality(Past(x) \ {m}) \in Nat /\ IsFiniteSet(Past(x) \ {m})
      BY <1>11, FS_Subset, FS_CardinalityType
    <3>3. Cardinality(Past(x)' \ {m}) = Cardinality(Past(x) \ {m}) + 1
      BY <1>8, <3>1, <3>2, FS_AddElement
    <3>4. Owed(x, m)' = Owed(x, m) /\ Owed(x, m) \in {0, 1}
      <4>1. m \in Past(x)' <=> m \in Past(x)
        BY <1>8, <3>1
      <4>2. m \in Past(x) => (Crediting(m)' <=> Crediting(m))
        BY <1>10 DEF Past
      <4> QED BY <4>1, <4>2 DEF Owed
    <3>5. credits[x] + Cardinality(Past(x) \ {m}) + Owed(x, m) <= 1 + voids[Ref[x]] + unmarked
      BY <1>13 DEF CountedWith
    <3>6. m # NoSession => m \in Past(x)' /\ x \in marks'
      BY <1>8, <1>13, <2>2 DEF CountedWith
    <3>7. credits'[x] + Cardinality(Past(x)' \ {m}) + Owed(x, m)'
             <= 1 + voids'[Ref[x]] + unmarked'
      BY <1>12, <2>2, <3>2, <3>3, <3>4, <3>5
    <3> QED BY <3>6, <3>7 DEF CountedWith
  <2> QED BY <2>1, <2>2
<1>15. ASSUME NEW y \in Txs \ {x} PROVE \E n \in B!All \cup {NoSession} : CountedWith(y, n)'
  <2>1. PICK n \in B!All \cup {NoSession} : CountedWith(y, n)
    BY DEF BillInv, PaymentInv
  <2>2. PICK c : c = Cardinality(Past(y) \ {n})
    OBVIOUS
  <2>3. Owed(y, n)' = Owed(y, n) /\ Past(y)' = Past(y) /\ unmarked' \in {unmarked, unmarked + 1}
    BY <1>9, <1>10, <2>1 DEF Owed, Past
  <2>4. /\ credits[y] \in Nat /\ voids[Ref[y]] \in Nat /\ Owed(y, n) \in {0, 1}
        /\ Cardinality(Past(y) \ {n}) \in Nat
    BY <1>1, PastPayments, FS_Subset, FS_CardinalityType DEF B!TypeOK, B!BillingAssumption, Owed
  <2>5. /\ n # NoSession => n \in Past(y)' /\ y \in marks'
        /\ credits[y] + Cardinality(Past(y) \ {n}) + Owed(y, n) <= 1 + voids[Ref[y]] + unmarked
    BY <2>1, <2>3 DEF CountedWith
  <2>6. credits'[y] + Cardinality(Past(y)' \ {n}) + Owed(y, n)'
           <= 1 + voids'[Ref[y]] + unmarked'
    BY <1>12, <2>3, <2>4, <2>5
  <2> QED BY <2>5, <2>6 DEF CountedWith
<1>16. ASSUME NEW y \in Txs PROVE y \in marks' \cup answered' => SeenThrough(y)'
  <2>1. CASE y = x
    BY <1>8, <2>1 DEF SeenThrough
  <2>2. CASE y # x
    <3>1. /\ y \in marks' \cup answered' => SeenThrough(y)
          /\ Past(y)' = Past(y)
      BY <1>9, <2>2 DEF BillInv, PaymentInv
    <3>2. /\ credits'[y] >= credits[y] /\ \A z \in Txs : deliveries'[z] >= deliveries[z]
      BY <1>1 DEF B!TypeOK
    <3> QED BY <3>1, <3>2, KeepsSeen
  <2> QED BY <2>1, <2>2
<1>17. \A y \in Txs : PaymentInv(y)'
  BY <1>14, <1>15, <1>16, KeepsPayment
<1> QED BY <1>6, <1>7, <1>17 DEF BillInv

\* A session ends without having written: its payment has been seen through without
\* it, or it is recorded why not.
LEMMA GoneStep ==
  ASSUME B!BillingAssumption, BillInv, NEW s \in B!All, s \in B!Open,
         sess' = [sess EXCEPT ![s] = B!Idle], B!Unlocked(s),
         UNCHANGED <<mix, now, sub, inv, marks, deliveries, asked, credits, voids, byHand,
                     unmarked>>,
         faults' \in Nat, answered' \subseteq answered \cup ({sess[s].tx} \cap Txs),
         unmatched \subseteq unmatched', unmatched' \subseteq Txs,
         interrupted \subseteq interrupted', interrupted' \subseteq Txs,
         \A x \in Txs : sess[s].tx = x /\ x \in marks \cup answered' => SeenThrough(x)'
  PROVE  BillInv'
<1>1. /\ B!TypeOK /\ SessionInv(s) /\ s # NoSession
  BY DEF BillInv, B!BillingAssumption, B!All
<1>2. /\ sess'[s] = B!Idle /\ \A p \in B!All \ {s} : sess'[p] = sess[p]
      /\ sess' \in [B!All -> B!Session]
  BY <1>1, IdleType DEF B!TypeOK
<1>3. B!Open' = B!Open \ {s}
  BY <1>2 DEF B!Open, B!Idle
<1>4. /\ subLock' \in (B!Open \ {s}) \cup {NoSession}
      /\ invLock' \in [Invoices -> (B!Open \ {s}) \cup {NoSession}]
      /\ \A p \in B!All \ {s} : (subLock' = p => subLock = p) /\
             \A i \in Invoices : invLock'[i] = p <=> invLock[i] = p
      /\ subLock' # s /\ \A i \in Invoices : invLock'[i] # s
  <2>1. NoSession \notin B!All
    BY DEF B!BillingAssumption, B!All
  <2>2. /\ subLock' = IF subLock = s THEN NoSession ELSE subLock
        /\ invLock' = [i \in Invoices |-> IF invLock[i] = s THEN NoSession ELSE invLock[i]]
    BY DEF B!Unlocked
  <2>3. subLock \in B!Open \cup {NoSession} /\ invLock \in [Invoices -> B!Open \cup {NoSession}]
    BY <1>1 DEF B!TypeOK
  <2> QED BY <1>1, <2>1, <2>2, <2>3
<1>5. B!TypeOK'
  BY <1>1, <1>2, <1>3, <1>4 DEF B!TypeOK
<1>6. \A p \in B!All : SessionInv(p)'
  <2>1. \A p \in B!All \ {s} : SessionInv(p)'
    BY <1>2, <1>4, <1>5, OthersAlso
  <2>2. SessionInv(s)'
    BY <1>2, <1>4, GoneSession
  <2> QED BY <2>1, <2>2
<1>7. \A i \in Invoices : InvoiceInv(i)'
  BY DEF BillInv, InvoiceInv
<1>8. ASSUME NEW x \in Txs PROVE PaymentInv(x)'
  <2>1. /\ Past(x)' \subseteq Past(x) /\ s \notin Past(x)'
        /\ \A p \in Past(x) \ {s} : p \in Past(x)'
        /\ \A p \in Past(x)' : Crediting(p)' => Crediting(p) \/ inv[Ref[x]].status # "paid"
    <3>1. s \notin Past(x)'
      BY <1>2 DEF Past, B!Idle
    <3>2. \A p \in B!All \ {s} : (p \in Past(x)' <=> p \in Past(x)) /\ (Crediting(p)' <=> Crediting(p))
      BY <1>2 DEF Past, Crediting
    <3> QED BY <3>1, <3>2 DEF Past
  <2>2. /\ credits'[x] = credits[x] /\ voids'[Ref[x]] >= voids[Ref[x]] /\ unmarked' >= unmarked
        /\ credits'[x] >= credits[x] /\ \A y \in Txs : deliveries'[y] >= deliveries[y]
    BY <1>1 DEF B!TypeOK, B!BillingAssumption
  <2>3. \E m \in B!All \cup {NoSession} : CountedWith(x, m)'
    BY <1>5, <2>1, <2>2, KeepsCount
  <2>4. x \in marks' \cup answered' => SeenThrough(x)'
    <3>1. CASE sess[s].tx = x
      BY <3>1
    <3>2. CASE sess[s].tx # x
      <4>1. x \in marks' \cup answered' => SeenThrough(x)
        BY <3>2 DEF BillInv, PaymentInv
      <4>2. Past(x) # {} => Past(x)' # {}
        BY <2>1, <3>2 DEF Past
      <4> QED BY <1>5, <2>2, <4>1, <4>2, KeepsSeen
    <3> QED BY <3>1, <3>2
  <2> QED BY <1>5, <2>3, <2>4, KeepsPayment
<1> QED BY <1>5, <1>6, <1>7, <1>8 DEF BillInv

\* Before it has written, a payment holds nothing.
LEMMA HoldsNothing ==
  ASSUME BillInv, NEW s \in B!All, sess[s].pc \in {"dedup", "find"}, UNCHANGED <<subLock, invLock>>
  PROVE  B!Unlocked(s)
<1>1. subLock # s /\ \A i \in Invoices : invLock[i] # s
  BY DEF BillInv, SessionInv, Holding
<1>2. invLock \in [Invoices -> B!Open \cup {NoSession}]
  BY DEF BillInv, B!TypeOK
<1> QED BY <1>1, <1>2 DEF B!Unlocked

\* Only payments are deduplicated and matched.
LEMMA PaymentAt ==
  ASSUME BillInv, NEW s \in B!All, sess[s].pc \in {"dedup", "find"}
  PROVE  /\ sess[s].kind = "payment" /\ sess[s].tx \in Txs /\ s \in Sessions
         /\ sess[s] \in B!Session /\ s \in B!Open /\ SessionInv(s) /\ B!TypeOK
<1>1. sess[s] \in B!Session /\ SessionInv(s) /\ B!TypeOK
  BY BillingTypes DEF BillInv
<1>2. sess[s].kind = "payment"
  BY <1>1 DEF SessionInv, OfAdministrator, OfSweep, B!Session, B!Kinds, B!Idle
<1> QED BY <1>1, <1>2 DEF SessionInv, OfPayment, B!Open

LEMMA DedupStep ==
  ASSUME B!BillingAssumption, BillInv, NEW s \in B!All, B!Dedup(s)
  PROVE  BillInv'
<1>1. PICK x : x = sess[s].tx
  OBVIOUS
<1>2. /\ sess[s].pc = "dedup"
      /\ UNCHANGED <<mix, now, sub, inv, subLock, invLock, unmatched, deliveries,
                     credits, voids, byHand, unmarked, interrupted, asked, faults>>
  BY DEF B!Dedup, B!At, B!Database, B!Locks, B!History, B!Counts
<1>3. /\ sess[s].kind = "payment" /\ x \in Txs /\ s \in Sessions
      /\ sess[s] \in B!Session /\ s \in B!Open /\ SessionInv(s) /\ B!TypeOK
  BY <1>1, <1>2, PaymentAt
<1>4. sess[s].tx = x
  BY <1>1
<1>5. CASE x \notin marks
  <2>1. marks' = marks \cup {x} /\ sess' = [sess EXCEPT ![s].pc = "find"] /\ answered' = answered
    BY <1>1, <1>5 DEF B!Dedup, B!Marked, B!Go
  <2>2. B!TypeOK'
    <3>1. sess' \in [B!All -> B!Session]
      BY <1>3, <2>1 DEF B!TypeOK, B!Session, B!Pcs
    <3>2. B!Open' = B!Open
      BY <1>2, <1>3, <2>1 DEF B!Open, B!TypeOK, B!Session
    <3> QED BY <1>2, <1>3, <2>1, <3>1, <3>2 DEF B!TypeOK
  <2> QED BY <1>2, <1>3, <1>4, <1>5, <2>1, <2>2, DedupTakes
<1>6. CASE x \in marks
  <2>1. marks' = marks /\ sess' = [sess EXCEPT ![s] = B!Idle] /\ answered' = answered \cup {x}
    BY <1>1, <1>6 DEF B!Dedup, B!Marked, B!End
  <2>2. B!Unlocked(s)
    BY <1>2, HoldsNothing
  <2>3. SeenThrough(x)'
    <3>1. SeenThrough(x)
      BY <1>3, <1>6 DEF BillInv, PaymentInv
    <3>2. Past(x)' = Past(x)
      BY <1>2, <1>3, <2>1 DEF Past, B!TypeOK, B!Idle
    <3> QED BY <1>2, <3>1, <3>2 DEF SeenThrough, B!Accounted, B!Rivalled
  <2>4. /\ faults' \in Nat /\ answered' \subseteq answered \cup ({sess[s].tx} \cap Txs)
        /\ unmatched' \subseteq Txs /\ interrupted' \subseteq Txs
    BY <1>2, <1>3, <1>4, <2>1 DEF B!TypeOK
  <2> QED BY <1>2, <1>3, <1>4, <2>1, <2>2, <2>3, <2>4, GoneStep
<1> QED BY <1>5, <1>6

LEMMA DedupFailsStep ==
  ASSUME B!BillingAssumption, BillInv, NEW s \in B!All, B!DedupFails(s)
  PROVE  BillInv'
<1>1. PICK x : x = sess[s].tx
  OBVIOUS
<1>2. /\ sess[s].pc = "dedup" /\ sess' = [sess EXCEPT ![s].pc = "find"]
      /\ faults' = faults + 1 /\ unmarked' = unmarked + 1 /\ marks' = marks
      /\ UNCHANGED <<mix, now, sub, inv, subLock, invLock, unmatched, deliveries, answered,
                     credits, voids, byHand, interrupted, asked>>
  BY DEF B!DedupFails, B!At, B!Go, B!Database, B!Locks, B!Outside
<1>3. /\ x \in Txs /\ sess[s] \in B!Session /\ B!TypeOK /\ sess[s].tx = x
  BY <1>1, <1>2, PaymentAt
<1>4. B!TypeOK'
  <2>1. sess' \in [B!All -> B!Session]
    BY <1>2, <1>3 DEF B!TypeOK, B!Session, B!Pcs
  <2>2. B!Open' = B!Open
    BY <1>2, <1>3 DEF B!Open, B!TypeOK, B!Session
  <2> QED BY <1>2, <1>3, <2>1, <2>2 DEF B!TypeOK
<1> QED BY <1>2, <1>3, <1>4, DedupTakes

\* The invoice a payment finds is the one its reference names.
LEMMA MatchingRef ==
  ASSUME B!BillingAssumption, BillInv, NEW x \in Txs, NEW i \in B!Matching(x)
  PROVE  i = Ref[x] /\ i \in Invoices /\ inv[i].status # "none"
<1>1. Ref[x] \in Invoices /\ x # NoTx
  BY DEF B!BillingAssumption
<1>2. CASE inv[Ref[x]].status # "none"
  BY <1>1, <1>2 DEF B!Matching
<1>3. CASE inv[Ref[x]].status = "none"
  <2>1. i \in Invoices /\ inv[i].tx = x
    BY <1>3 DEF B!Matching
  <2> QED BY <1>1, <2>1 DEF BillInv, InvoiceInv
<1> QED BY <1>2, <1>3

LEMMA FindStep ==
  ASSUME B!BillingAssumption, BillInv, NEW s \in B!All, B!Find(s)
  PROVE  BillInv'
<1>1. PICK x : x = sess[s].tx
  OBVIOUS
<1>2. /\ sess[s].pc = "find"
      /\ UNCHANGED <<mix, now, sub, inv, subLock, invLock, marks, deliveries,
                     credits, voids, byHand, unmarked, interrupted, asked, faults>>
  BY DEF B!Find, B!At, B!Database, B!Locks, B!History, B!Counts
<1>3. /\ sess[s].kind = "payment" /\ x \in Txs /\ s \in Sessions /\ sess[s].tx = x
      /\ sess[s] \in B!Session /\ s \in B!Open /\ SessionInv(s) /\ B!TypeOK
  BY <1>1, <1>2, PaymentAt
<1>4. B!Unlocked(s)
  BY <1>2, HoldsNothing
<1>5. faults' \in Nat /\ interrupted' \subseteq Txs
  BY <1>2, <1>3 DEF B!TypeOK
<1>6. CASE /\ unmatched' = unmatched \cup {x} /\ answered' = answered \cup {x}
           /\ sess' = [sess EXCEPT ![s] = B!Idle]
  <2>1. SeenThrough(x)'
    BY <1>6 DEF SeenThrough, B!Accounted
  <2>2. /\ answered' \subseteq answered \cup ({sess[s].tx} \cap Txs)
        /\ unmatched \subseteq unmatched' /\ unmatched' \subseteq Txs
    BY <1>3, <1>6 DEF B!TypeOK
  <2> QED BY <1>2, <1>3, <1>4, <1>5, <1>6, <2>1, <2>2, GoneStep
<1>7. ASSUME NEW i \in B!Matching(x), B!Settled(inv[i]),
             answered' = answered \cup {x}, sess' = [sess EXCEPT ![s] = B!Idle],
             unmatched' = unmatched
      PROVE  BillInv'
  <2>1. i = Ref[x] /\ inv[i].status = "paid" /\ i \in Invoices
    BY <1>3, <1>7, MatchingRef DEF B!Settled
  <2>2. i \in byHand \/ \E y \in Txs : Ref[y] = i /\ credits[y] > 0
    BY <2>1 DEF BillInv, InvoiceInv
  <2>3. B!Accounted(x) \/ B!Rivalled(x)
    <3>1. CASE i \in byHand
      BY <2>1, <3>1 DEF B!Rivalled
    <3>2. ASSUME NEW y \in Txs, Ref[y] = i, credits[y] > 0 PROVE B!Accounted(x) \/ B!Rivalled(x)
      <4>1. deliveries[y] > 0
        BY <3>2 DEF BillInv, PaymentInv
      <4> QED BY <2>1, <3>2, <4>1 DEF B!Accounted, B!Rivalled
    <3> QED BY <2>2, <3>1, <3>2
  <2>4. SeenThrough(x)'
    BY <1>2, <1>7, <2>3 DEF SeenThrough, B!Accounted, B!Rivalled
  <2>5. /\ answered' \subseteq answered \cup ({sess[s].tx} \cap Txs)
        /\ unmatched' \subseteq Txs
    BY <1>3, <1>7 DEF B!TypeOK
  <2> QED BY <1>2, <1>3, <1>4, <1>5, <1>7, <2>4, <2>5, GoneStep
<1>8. ASSUME NEW i \in B!Matching(x), ~B!Settled(inv[i]),
             sess' = [sess EXCEPT ![s].pc = "inv", ![s].inv = i,
                        ![s].bill = [status |-> "paid", tx |-> x]],
             unmatched' = unmatched, answered' = answered
      PROVE  BillInv'
  <2>1. /\ i = Ref[x] /\ inv[i].status \notin {"paid", "none"} /\ i \in Invoices
    BY <1>3, <1>8, MatchingRef DEF B!Settled
  <2>2. [status |-> "paid", tx |-> x] \in B!InvRow
    BY <1>3 DEF B!InvRow, B!InvStatuses
  <2>3. /\ sess'[s] \in B!Session /\ \A p \in B!All \ {s} : sess'[p] = sess[p]
        /\ sess' \in [B!All -> B!Session]
        /\ sess'[s].pc = "inv" /\ sess'[s].kind = sess[s].kind /\ sess'[s].tx = sess[s].tx
        /\ sess'[s].inv = i /\ sess'[s].bill = [status |-> "paid", tx |-> x]
        /\ sess'[s].raced = sess[s].raced
    BY <1>3, <1>8, <2>1, <2>2 DEF B!TypeOK, B!Session, B!Pcs
  <2>4. B!Open' = B!Open
    BY <1>3, <2>3 DEF B!Open
  <2>5. B!TypeOK'
    BY <1>2, <1>3, <1>8, <2>3, <2>4 DEF B!TypeOK
  <2>6. subLock # s /\ \A j \in Invoices : invLock[j] # s
    BY <1>2, <1>3 DEF SessionInv, Holding
  <2>7. SessionInv(s)'
    <3>1. OfPayment(s)'
      BY <1>2, <1>3, <2>1, <2>3 DEF SessionInv, OfPayment
    <3>2. OfAdministrator(s)' /\ OfSweep(s)'
      BY <1>3, <2>3 DEF OfAdministrator, OfSweep, B!SubKinds, B!InvoiceKinds
    <3>3. Holding(s)'
      BY <1>2, <2>6 DEF Holding
    <3>4. Fresh(s)'
      BY <1>2, <1>3, <2>3, <2>4 DEF SessionInv, Fresh
    <3> QED BY <3>1, <3>2, <3>3, <3>4 DEF SessionInv
  <2>8. inv[Ref[sess[s].tx]].status # "paid"
    BY <1>3, <2>1
  <2> QED BY <1>2, <1>3, <1>8, <2>3, <2>5, <2>7, <2>8, MoveStep
<1> QED
  <2>1. \/ /\ unmatched' = unmatched \cup {x} /\ answered' = answered \cup {x}
           /\ sess' = [sess EXCEPT ![s] = B!Idle]
        \/ \E i \in B!Matching(x) :
             /\ B!Settled(inv[i]) /\ answered' = answered \cup {x}
             /\ sess' = [sess EXCEPT ![s] = B!Idle] /\ unmatched' = unmatched
        \/ \E i \in B!Matching(x) :
             /\ ~B!Settled(inv[i])
             /\ sess' = [sess EXCEPT ![s].pc = "inv", ![s].inv = i,
                           ![s].bill = [status |-> "paid", tx |-> x]]
             /\ unmatched' = unmatched /\ answered' = answered
    BY <1>1 DEF B!Find, B!End
  <2> QED BY <1>6, <1>7, <1>8, <2>1

LEMMA RecordFailsStep ==
  ASSUME B!BillingAssumption, BillInv, NEW s \in B!All, B!RecordFails(s)
  PROVE  BillInv'
<1>1. PICK x : x = sess[s].tx
  OBVIOUS
<1>2. /\ sess[s].pc = "find" /\ sess' = [sess EXCEPT ![s] = B!Idle]
      /\ faults' = faults + 1 /\ interrupted' = interrupted \cup {x}
      /\ answered' = answered \cup {x}
      /\ UNCHANGED <<mix, now, sub, inv, subLock, invLock, marks, unmatched, deliveries,
                     credits, voids, byHand, unmarked, asked>>
  BY <1>1 DEF B!RecordFails, B!At, B!End, B!Database, B!Locks
<1>3. /\ sess[s].kind = "payment" /\ x \in Txs /\ s \in Sessions /\ sess[s].tx = x
      /\ sess[s] \in B!Session /\ s \in B!Open /\ SessionInv(s) /\ B!TypeOK
  BY <1>1, <1>2, PaymentAt
<1>4. B!Unlocked(s)
  BY <1>2, HoldsNothing
<1>5. SeenThrough(x)'
  BY <1>2 DEF SeenThrough
<1>6. /\ answered' \subseteq answered \cup ({sess[s].tx} \cap Txs)
      /\ unmatched' \subseteq Txs /\ interrupted' \subseteq Txs /\ faults' \in Nat
  BY <1>2, <1>3 DEF B!TypeOK
<1> QED BY <1>2, <1>3, <1>4, <1>5, <1>6, GoneStep

LEMMA FailStep ==
  ASSUME B!BillingAssumption, BillInv, NEW s \in B!All, B!Fail(s)
  PROVE  BillInv'
<1>1. /\ s \in B!Open /\ faults' = faults + 1 /\ B!Unlocked(s)
      /\ interrupted' = interrupted \cup ({sess[s].tx} \cap Txs)
      /\ sess' = [sess EXCEPT ![s] = B!Idle]
      /\ UNCHANGED <<mix, now, sub, inv, marks, unmatched, deliveries, answered, asked,
                     credits, voids, byHand, unmarked>>
  BY DEF B!Fail, B!End, B!Database, B!Outside
<1>2. /\ faults' \in Nat /\ answered' \subseteq answered \cup ({sess[s].tx} \cap Txs)
      /\ unmatched' \subseteq Txs /\ interrupted' \subseteq Txs
  BY <1>1 DEF BillInv, B!TypeOK
<1>3. \A x \in Txs : sess[s].tx = x => SeenThrough(x)'
  BY <1>1 DEF SeenThrough
<1> QED BY <1>1, <1>2, <1>3, GoneStep

\* A commit writes what the session holds and goes.
LEMMA CommitWrites ==
  ASSUME B!BillingAssumption, BillInv, NEW s \in B!All, B!Commit(s)
  PROVE  /\ s \in B!Open /\ B!Unlocked(s) /\ B!TypeOK'
         /\ sess'[s] = B!Idle /\ \A p \in B!All \ {s} : sess'[p] = sess[p]
         /\ UNCHANGED <<deliveries, marks, unmatched, interrupted, unmarked>>
         /\ answered \subseteq answered' /\ byHand \subseteq byHand'
         /\ answered' \subseteq answered \cup {sess[s].tx}
         /\ \A i \in Invoices : invLock[i] # s => inv'[i] = inv[i]
         /\ \A i \in Invoices : voids'[i] >= voids[i]
         /\ \A x \in Txs : credits'[x] >= credits[x]
<1>1. /\ B!TypeOK /\ SessionInv(s) /\ s # NoSession /\ sess[s] \in B!Session
  BY BillingTypes DEF BillInv, B!BillingAssumption, B!All
<1>2. PICK q \in B!Session : q = sess[s]
  BY <1>1
<1>3. /\ q.pc = "commit" /\ sess' = [sess EXCEPT ![s] = B!Idle] /\ B!Unlocked(s)
      /\ sub' = IF subLock = s THEN q.row ELSE sub
      /\ inv' = [i \in Invoices |->
           IF invLock[i] # s THEN inv[i]
           ELSE IF q.kind = "payment" THEN q.bill ELSE [inv[i] EXCEPT !.status = q.bill.status]]
      /\ answered' \in {answered, IF q.kind = "payment" THEN answered \cup {q.tx} ELSE answered}
      /\ credits' = IF q.kind = "payment" THEN [credits EXCEPT ![q.tx] = @ + 1] ELSE credits
      /\ voids' = IF q.kind = "refund" /\ invLock[q.inv] = s
                  THEN [voids EXCEPT ![q.inv] = @ + 1] ELSE voids
      /\ byHand' = IF q.kind = "mark_paid" THEN byHand \cup {q.inv} ELSE byHand
      /\ UNCHANGED <<mix, now, marks, unmatched, deliveries, asked, faults, unmarked, interrupted>>
  BY <1>2 DEF B!Commit, B!At, B!Holds, B!End, B!Counts
<1>4. /\ sess'[s] = B!Idle /\ \A p \in B!All \ {s} : sess'[p] = sess[p]
      /\ sess' \in [B!All -> B!Session]
  BY <1>1, <1>3, IdleType DEF B!TypeOK
<1>5. s \in B!Open /\ B!Open' = B!Open \ {s}
  BY <1>2, <1>3, <1>4 DEF B!Open, B!Idle
<1>6. /\ q.kind = "payment" => q.tx \in Txs
      /\ q.kind = "mark_paid" => q.inv \in Invoices
      /\ q.kind = "refund" => q.inv \in Invoices
  BY <1>1, <1>2 DEF SessionInv, OfPayment, OfAdministrator, B!InvoiceKinds
<1>7. q.row \in B!SubRow /\ q.bill \in B!InvRow /\ q.bill.status \in B!InvStatuses
  BY DEF B!Session, B!InvRow
<1>8. B!TypeOK'
  <2>1. NoSession \notin B!All
    BY DEF B!BillingAssumption, B!All
  <2>2. /\ subLock' = IF subLock = s THEN NoSession ELSE subLock
        /\ invLock' = [i \in Invoices |-> IF invLock[i] = s THEN NoSession ELSE invLock[i]]
    BY <1>3 DEF B!Unlocked
  <2>3. /\ subLock' \in (B!Open \ {s}) \cup {NoSession}
        /\ invLock' \in [Invoices -> (B!Open \ {s}) \cup {NoSession}]
    BY <1>1, <2>2 DEF B!TypeOK
  <2>4. inv' \in [Invoices -> B!InvRow]
    <3>1. inv \in [Invoices -> B!InvRow]
      BY <1>1 DEF B!TypeOK
    <3>2. \A i \in Invoices : [inv[i] EXCEPT !.status = q.bill.status] \in B!InvRow
      BY <1>7, <3>1 DEF B!InvRow
    <3> QED BY <1>3, <1>7, <3>1, <3>2
  <2>5. /\ sub' \in B!SubRow /\ answered' \subseteq Txs
        /\ credits' \in [Txs -> Nat] /\ voids' \in [Invoices -> Nat] /\ byHand' \subseteq Invoices
    BY <1>1, <1>3, <1>6, <1>7 DEF B!TypeOK
  <2> QED BY <1>1, <1>3, <1>4, <1>5, <2>3, <2>4, <2>5 DEF B!TypeOK
<1>9. /\ answered \subseteq answered' /\ answered' \subseteq answered \cup {q.tx}
      /\ byHand \subseteq byHand'
  BY <1>3
<1>10. \A i \in Invoices : invLock[i] # s => inv'[i] = inv[i]
  BY <1>1, <1>3 DEF B!TypeOK
<1>11. /\ \A i \in Invoices : voids'[i] >= voids[i]
       /\ \A x \in Txs : credits'[x] >= credits[x]
  BY <1>1, <1>3 DEF B!TypeOK
<1> QED BY <1>2, <1>3, <1>4, <1>5, <1>8, <1>9, <1>10, <1>11

\* What becomes of the invoice a commit holds.
LEMMA CommitSettles ==
  ASSUME B!BillingAssumption, BillInv, NEW s \in B!All, B!Commit(s), NEW i \in Invoices, invLock[i] = s
  PROVE  \/ /\ sess[s].kind = "payment" /\ sess[s].tx \in Txs /\ i = Ref[sess[s].tx]
            /\ inv'[i] = [status |-> "paid", tx |-> sess[s].tx] /\ voids' = voids
         \/ /\ sess[s].kind = "mark_paid" /\ i \in byHand' /\ voids' = voids
            /\ inv'[i].status = "paid" /\ inv'[i].tx = inv[i].tx
         \/ /\ sess[s].kind = "refund" /\ voids'[i] = voids[i] + 1
            /\ inv'[i].status = "void" /\ inv'[i].tx = inv[i].tx
<1>1. /\ B!TypeOK /\ SessionInv(s) /\ sess[s] \in B!Session /\ inv[i] \in B!InvRow
      /\ voids \in [Invoices -> Nat]
  BY BillingTypes DEF BillInv, B!TypeOK
<1>2. PICK q \in B!Session : q = sess[s]
  BY <1>1
<1>3. /\ q.inv = i /\ q.kind \in {"mark_paid", "refund", "payment"} /\ q.pc = "commit"
      /\ inv'[i] = IF q.kind = "payment" THEN q.bill ELSE [inv[i] EXCEPT !.status = q.bill.status]
      /\ voids' = IF q.kind = "refund" /\ invLock[q.inv] = s
                  THEN [voids EXCEPT ![q.inv] = @ + 1] ELSE voids
      /\ byHand' = IF q.kind = "mark_paid" THEN byHand \cup {q.inv} ELSE byHand
  BY <1>1, <1>2 DEF SessionInv, Holding, B!Commit, B!At, B!Holds
<1>4. CASE q.kind = "payment"
  <2>1. q.tx \in Txs /\ q.inv = Ref[q.tx] /\ q.bill = [status |-> "paid", tx |-> q.tx]
    BY <1>1, <1>2, <1>3, <1>4 DEF SessionInv, OfPayment
  <2> QED BY <1>2, <1>3, <1>4, <2>1
<1>5. CASE q.kind = "mark_paid"
  <2>1. q.bill.status = "paid"
    BY <1>1, <1>2, <1>5 DEF SessionInv, OfAdministrator, B!InvoiceKinds
  <2> QED BY <1>1, <1>2, <1>3, <1>5, <2>1 DEF B!InvRow
<1>6. CASE q.kind = "refund"
  <2>1. q.bill.status = "void"
    BY <1>1, <1>2, <1>6 DEF SessionInv, OfAdministrator, B!InvoiceKinds
  <2>2. inv'[i].status = "void" /\ inv'[i].tx = inv[i].tx
    BY <1>1, <1>3, <1>6, <2>1 DEF B!InvRow
  <2>3. voids'[i] = voids[i] + 1
    BY <1>1, <1>3, <1>6
  <2> QED BY <1>2, <1>6, <2>2, <2>3
<1> QED BY <1>3, <1>4, <1>5, <1>6

\* A payment that commits counts once more and is one session less.
LEMMA CommitCounts ==
  ASSUME B!BillingAssumption, BillInv, NEW s \in B!All, NEW x \in Txs, B!Commit(s),
         sess[s].kind = "payment", sess[s].tx = x
  PROVE  PaymentInv(x)'
<1>1. /\ B!TypeOK /\ SessionInv(s) /\ sess[s].pc = "commit" /\ s # NoSession
      /\ Ref[x] \in Invoices /\ credits \in [Txs -> Nat]
  BY DEF BillInv, B!Commit, B!At, B!BillingAssumption, B!All, B!TypeOK
<1>2. /\ s \in B!Open /\ B!TypeOK'
      /\ sess'[s] = B!Idle /\ \A p \in B!All \ {s} : sess'[p] = sess[p]
      /\ UNCHANGED <<deliveries, marks, unmarked>>
  BY CommitWrites
<1>3. invLock[Ref[x]] = s /\ deliveries[x] > 0
  BY <1>1 DEF SessionInv, OfPayment
<1>4. inv'[Ref[x]].status = "paid" /\ voids' = voids
  <2>1. inv'[Ref[x]] = [status |-> "paid", tx |-> x] /\ voids' = voids
    BY <1>1, <1>3, CommitSettles
  <2> QED BY <2>1
<1>5. credits'[x] = credits[x] + 1
  BY <1>1 DEF B!Commit
<1>6. s \in Past(x) /\ Past(x)' = Past(x) \ {s}
  <2>1. s \in Past(x) /\ s \notin Past(x)'
    BY <1>1, <1>2 DEF Past, B!Idle
  <2>2. \A p \in B!All \ {s} : p \in Past(x)' <=> p \in Past(x)
    BY <1>2 DEF Past
  <2> QED BY <2>1, <2>2 DEF Past
<1>7. IsFiniteSet(Past(x)) /\ NoSession \notin Past(x)
  BY PastPayments
<1>8. PICK m \in B!All \cup {NoSession} : CountedWith(x, m)
  BY DEF BillInv, PaymentInv
<1>9. /\ credits[x] \in Nat /\ voids[Ref[x]] \in Nat /\ unmarked \in Nat
      /\ Cardinality(Past(x) \ {m}) \in Nat /\ IsFiniteSet(Past(x) \ {m})
      /\ credits[x] + Cardinality(Past(x) \ {m}) + Owed(x, m) <= 1 + voids[Ref[x]] + unmarked
  BY <1>1, <1>7, <1>8, FS_Subset, FS_CardinalityType DEF B!TypeOK, CountedWith
<1>10. \E n \in B!All \cup {NoSession} : CountedWith(x, n)'
  <2>1. CASE m = s
    <3>1. Owed(x, m) = 1
      BY <1>1, <1>6, <2>1 DEF Owed, Crediting
    <3>2. Owed(x, NoSession)' = 0
      BY <1>4, <1>6, <1>7 DEF Owed
    <3>3. Past(x)' \ {NoSession} = Past(x) \ {m}
      BY <1>6, <1>7, <2>1
    <3>4. credits'[x] + Cardinality(Past(x)' \ {NoSession}) + Owed(x, NoSession)'
             <= 1 + voids'[Ref[x]] + unmarked'
      <4>1. PICK c : c = Cardinality(Past(x) \ {m})
        OBVIOUS
      <4>2. Cardinality(Past(x)' \ {NoSession}) = c
        BY <3>3, <4>1
      <4>3. c \in Nat /\ credits[x] + c + 1 <= 1 + voids[Ref[x]] + unmarked
        BY <1>9, <3>1, <4>1
      <4>4. voids'[Ref[x]] = voids[Ref[x]] /\ unmarked' = unmarked
        BY <1>2, <1>4
      <4> QED BY <1>5, <1>9, <3>2, <4>2, <4>3, <4>4
    <3> QED BY <3>4 DEF CountedWith
  <2>2. CASE m # s
    <3>1. Past(x)' \ {m} = (Past(x) \ {m}) \ {s} /\ s \in Past(x) \ {m}
      BY <1>6, <2>2
    <3>2. Cardinality(Past(x)' \ {m}) = Cardinality(Past(x) \ {m}) - 1
      <4>1. Cardinality((Past(x) \ {m}) \ {s}) = Cardinality(Past(x) \ {m}) - 1
        BY <1>9, <3>1, FS_RemoveElement
      <4> QED BY <3>1, <4>1
    <3>3. Owed(x, m)' <= Owed(x, m) /\ Owed(x, m)' \in {0, 1} /\ Owed(x, m) \in {0, 1}
      <4>1. m \in Past(x)' => m \in Past(x) /\ (Crediting(m)' <=> Crediting(m))
        BY <1>2, <1>6, <2>2 DEF Past, Crediting
      <4> QED BY <1>4, <4>1 DEF Owed
    <3>4. credits'[x] + Cardinality(Past(x)' \ {m}) + Owed(x, m)'
             <= 1 + voids'[Ref[x]] + unmarked'
      BY <1>2, <1>4, <1>5, <1>9, <3>2, <3>3
    <3>5. m # NoSession => m \in Past(x)' /\ x \in marks'
      BY <1>2, <1>6, <1>8, <2>2 DEF CountedWith
    <3> QED BY <3>4, <3>5 DEF CountedWith
  <2> QED BY <2>1, <2>2
<1>11. credits'[x] > 0 /\ deliveries'[x] > 0
  BY <1>2, <1>3, <1>5, <1>9
<1>12. SeenThrough(x)'
  BY <1>11 DEF SeenThrough, B!Accounted
<1> QED BY <1>10, <1>11, <1>12 DEF PaymentInv

\* A commit leaves a payment that is not its own as it is: an invoice is unpaid again
\* only by a refund.
LEMMA CommitLeaves ==
  ASSUME B!BillingAssumption, BillInv, NEW s \in B!All, NEW x \in Txs, B!Commit(s), sess[s].tx # x
  PROVE  PaymentInv(x)'
<1>1. /\ B!TypeOK /\ SessionInv(s) /\ Ref[x] \in Invoices /\ credits \in [Txs -> Nat]
  BY DEF BillInv, B!BillingAssumption, B!TypeOK
<1>2. /\ B!TypeOK' /\ sess'[s] = B!Idle /\ \A p \in B!All \ {s} : sess'[p] = sess[p]
      /\ UNCHANGED <<deliveries, marks, unmatched, interrupted, unmarked>>
      /\ byHand \subseteq byHand' /\ answered' \subseteq answered \cup {sess[s].tx}
      /\ \A i \in Invoices : invLock[i] # s => inv'[i] = inv[i]
      /\ \A i \in Invoices : voids'[i] >= voids[i]
  BY CommitWrites
<1>3. credits'[x] = credits[x]
  BY <1>1 DEF B!Commit
<1>4. /\ Past(x)' = Past(x)
      /\ \A p \in Past(x)' : Crediting(p)' => Crediting(p) \/ inv[Ref[x]].status # "paid"
  <2>1. s \notin Past(x) /\ s \notin Past(x)'
    BY <1>2 DEF Past, B!Idle
  <2>2. \A p \in B!All \ {s} : (p \in Past(x)' <=> p \in Past(x)) /\ (Crediting(p)' <=> Crediting(p))
    BY <1>2 DEF Past, Crediting
  <2> QED BY <2>1, <2>2 DEF Past
<1>5. inv'[Ref[x]].status # "paid" =>
         inv[Ref[x]].status # "paid" \/ voids'[Ref[x]] >= voids[Ref[x]] + 1
  <2>1. CASE invLock[Ref[x]] # s
    BY <1>1, <1>2, <2>1
  <2>2. CASE invLock[Ref[x]] = s
    <3>1. inv'[Ref[x]].status = "paid" \/ voids'[Ref[x]] = voids[Ref[x]] + 1
      <4>1. \/ inv'[Ref[x]] = [status |-> "paid", tx |-> sess[s].tx]
            \/ inv'[Ref[x]].status = "paid"
            \/ voids'[Ref[x]] = voids[Ref[x]] + 1
        BY <1>1, <2>2, CommitSettles
      <4> QED BY <4>1
    <3>2. voids[Ref[x]] \in Nat
      BY <1>1 DEF B!TypeOK
    <3> QED BY <3>1, <3>2
  <2> QED BY <2>1, <2>2
<1>6. \E m \in B!All \cup {NoSession} : CountedWith(x, m)'
  <2>1. voids'[Ref[x]] >= voids[Ref[x]] /\ unmarked' >= unmarked
    BY <1>1, <1>2 DEF B!TypeOK
  <2> QED BY <1>2, <1>3, <1>4, <1>5, <2>1, KeepsCount
<1>7. x \in marks' \cup answered' => SeenThrough(x)'
  <2>1. x \in marks' \cup answered' => SeenThrough(x)
    BY <1>2 DEF BillInv, PaymentInv
  <2>2. credits'[x] >= credits[x] /\ \A y \in Txs : deliveries'[y] >= deliveries[y]
    BY <1>1, <1>2, <1>3 DEF B!TypeOK
  <2> QED BY <1>2, <1>4, <2>1, <2>2, KeepsSeen
<1>8. credits'[x] > 0 => deliveries'[x] > 0
  BY <1>2, <1>3 DEF BillInv, PaymentInv
<1> QED BY <1>6, <1>7, <1>8 DEF PaymentInv

LEMMA SettleStep ==
  ASSUME B!BillingAssumption, BillInv, NEW s \in B!All, B!Commit(s)
  PROVE  BillInv'
<1>1. B!TypeOK /\ SessionInv(s) /\ s # NoSession /\ sess[s] \in B!Session /\ sess[s].pc = "commit"
  BY BillingTypes DEF BillInv, B!BillingAssumption, B!All, B!Commit, B!At
<1>2. /\ s \in B!Open /\ B!Unlocked(s) /\ B!TypeOK'
      /\ sess'[s] = B!Idle /\ \A p \in B!All \ {s} : sess'[p] = sess[p]
      /\ deliveries' = deliveries /\ byHand \subseteq byHand'
      /\ \A i \in Invoices : invLock[i] # s => inv'[i] = inv[i]
      /\ \A x \in Txs : credits'[x] >= credits[x]
  BY CommitWrites
<1>3. \A i \in Invoices : inv[i].status # "none" => inv'[i].status # "none"
  <2>1. ASSUME NEW i \in Invoices, inv[i].status # "none" PROVE inv'[i].status # "none"
    <3>1. CASE invLock[i] = s
      <4>1. \/ inv'[i] = [status |-> "paid", tx |-> sess[s].tx]
            \/ inv'[i].status \in {"paid", "void"}
        BY <3>1, CommitSettles
      <4> QED BY <4>1
    <3>2. CASE invLock[i] # s
      BY <1>2, <2>1, <3>2
    <3> QED BY <3>1, <3>2
  <2> QED BY <2>1
<1>4. /\ \A p \in B!All \ {s} : (subLock' = p => subLock = p) /\
             \A i \in Invoices : invLock'[i] = p <=> invLock[i] = p
      /\ subLock' # s /\ \A i \in Invoices : invLock'[i] # s
  <2>1. NoSession \notin B!All
    BY DEF B!BillingAssumption, B!All
  <2>2. /\ subLock' = IF subLock = s THEN NoSession ELSE subLock
        /\ invLock' = [i \in Invoices |-> IF invLock[i] = s THEN NoSession ELSE invLock[i]]
    BY <1>2 DEF B!Unlocked
  <2> QED BY <1>1, <2>1, <2>2 DEF B!TypeOK
<1>5. \A p \in B!All : SessionInv(p)'
  <2>1. \A p \in B!All \ {s} : SessionInv(p)'
    BY <1>2, <1>3, <1>4, OthersAlso
  <2>2. SessionInv(s)'
    BY <1>2, <1>4, GoneSession
  <2> QED BY <2>1, <2>2
<1>6. ASSUME NEW i \in Invoices PROVE InvoiceInv(i)'
  <2>1. InvoiceInv(i)
    BY DEF BillInv
  <2>2. \A y \in Txs : credits[y] > 0 => credits'[y] > 0
    BY <1>1, <1>2 DEF B!TypeOK
  <2>3. CASE invLock[i] # s
    BY <1>2, <2>1, <2>2, <2>3 DEF InvoiceInv
  <2>4. CASE invLock[i] = s
    <3>1. SUFFICES ASSUME NEW x \in Txs, x = sess[s].tx, sess[s].kind = "payment", i = Ref[x],
                          inv'[i] = [status |-> "paid", tx |-> x]
                   PROVE  InvoiceInv(i)'
      <4>1. CASE sess[s].kind = "mark_paid"
        <5>1. /\ i \in byHand' /\ inv'[i].status = "paid" /\ inv'[i].tx = inv[i].tx
          BY <2>4, <4>1, CommitSettles
        <5> QED BY <2>1, <5>1 DEF InvoiceInv
      <4>2. CASE sess[s].kind = "refund"
        <5>1. inv'[i].status = "void" /\ inv'[i].tx = inv[i].tx
          BY <2>4, <4>2, CommitSettles
        <5> QED BY <2>1, <5>1 DEF InvoiceInv
      <4> QED BY <2>4, <4>1, <4>2, CommitSettles
    <3>2. credits'[x] > 0
      <4>1. credits \in [Txs -> Nat]
        BY <1>1 DEF B!TypeOK
      <4>2. credits' = [credits EXCEPT ![x] = @ + 1]
        BY <3>1 DEF B!Commit
      <4> QED BY <4>1, <4>2
    <3> QED BY <3>1, <3>2 DEF InvoiceInv
  <2> QED BY <2>3, <2>4
<1>7. ASSUME NEW x \in Txs PROVE PaymentInv(x)'
  <2>1. CASE sess[s].tx = x
    <3>1. sess[s].kind = "payment"
      BY <1>1, <2>1 DEF SessionInv, OfSweep, B!BillingAssumption
    <3> QED BY <2>1, <3>1, CommitCounts
  <2>2. CASE sess[s].tx # x
    BY <2>2, CommitLeaves
  <2> QED BY <2>1, <2>2
<1> QED BY <1>2, <1>5, <1>6, <1>7 DEF BillInv

\* A step of no session.
LEMMA NoSessionMoves ==
  ASSUME B!BillingAssumption, BillInv, B!TypeOK', UNCHANGED <<sess, sub, subLock, invLock, deliveries>>, now' >= now,
         \A i \in Invoices : inv[i].status # "none" => inv'[i].status # "none"
  PROVE  \A p \in B!All : SessionInv(p)'
<1>1. ASSUME NEW p \in B!All PROVE SessionInv(p)'
  <2>1. SessionInv(p) /\ B!Open' = B!Open /\ B!TypeOK /\ sess[p] \in B!Session
    BY BillingTypes DEF BillInv, B!Open
  <2>2. OfPayment(p)'
    BY <2>1 DEF SessionInv, OfPayment, B!BillingAssumption
  <2>3. OfAdministrator(p)' /\ OfSweep(p)' /\ Holding(p)'
    BY <2>1 DEF SessionInv, OfAdministrator, OfSweep, Holding
  <2>4. Fresh(p)'
    <3>1. now \in Nat /\ now' \in Nat /\ sess[p].at \in Nat
      BY <2>1, BillingTypes DEF B!TypeOK
    <3> QED BY <2>1, <3>1 DEF SessionInv, Fresh
  <2> QED BY <2>2, <2>3, <2>4 DEF SessionInv
<1> QED BY <1>1

LEMMA NoPaymentMoves ==
  ASSUME B!BillingAssumption, BillInv, B!TypeOK',
         UNCHANGED <<sess, unmatched, deliveries, answered, credits, voids, byHand, unmarked,
                     interrupted>>,
         marks' \subseteq marks, \A x \in marks \ marks' : Past(x) = {},
         \A i \in Invoices : inv'[i].status # "paid" => inv[i].status # "paid"
  PROVE  \A x \in Txs : PaymentInv(x)'
<1>1. ASSUME NEW x \in Txs PROVE PaymentInv(x)'
  <2>1. /\ Past(x)' = Past(x) /\ \A p : Crediting(p)' <=> Crediting(p)
        /\ Ref[x] \in Invoices /\ B!TypeOK
    BY DEF Past, Crediting, B!BillingAssumption, BillInv
  <2>2. /\ voids'[Ref[x]] >= voids[Ref[x]] /\ unmarked' >= unmarked /\ credits'[x] >= credits[x]
        /\ \A y \in Txs : deliveries'[y] >= deliveries[y]
    BY <2>1 DEF B!TypeOK
  <2>3. \E m \in B!All \cup {NoSession} : CountedWith(x, m)'
    BY <2>1, <2>2, KeepsCount
  <2>4. x \in marks' \cup answered' => SeenThrough(x)'
    <3>1. x \in marks' \cup answered' => SeenThrough(x)
      BY DEF BillInv, PaymentInv
    <3> QED BY <2>1, <2>2, <3>1, KeepsSeen
  <2> QED BY <2>3, <2>4, KeepsPayment
<1> QED BY <1>1

LEMMA MarkExpiresStep ==
  ASSUME B!BillingAssumption, BillInv, NEW x \in Txs, B!MarkExpires(x)
  PROVE  BillInv'
<1>1. /\ marks' = marks \ {x} /\ \A s \in B!Open : sess[s].tx # x
      /\ UNCHANGED <<mix, now, sub, inv, subLock, invLock, unmatched, sess, deliveries, answered,
                     credits, voids, byHand, unmarked, interrupted, asked, faults>>
  BY DEF B!MarkExpires, B!Database, B!Locks, B!History, B!Counts
<1>2. B!Open' = B!Open
  BY <1>1 DEF B!Open
<1>3. B!TypeOK' /\ now' >= now
  BY <1>1, <1>2 DEF BillInv, B!TypeOK
<1>4. Past(x) = {}
  BY <1>1 DEF Past, B!Open
<1>5. \A p \in B!All : SessionInv(p)'
  BY <1>1, <1>3, NoSessionMoves
<1>6. \A i \in Invoices : InvoiceInv(i)'
  BY <1>1 DEF BillInv, InvoiceInv
<1>7. \A y \in Txs : PaymentInv(y)'
  BY <1>1, <1>3, <1>4, NoPaymentMoves
<1> QED BY <1>3, <1>5, <1>6, <1>7 DEF BillInv

LEMMA GenerateStep ==
  ASSUME B!BillingAssumption, BillInv, NEW i \in Invoices, B!Generate(i)
  PROVE  BillInv'
<1>1. /\ inv[i].status = "none" /\ inv' = [inv EXCEPT ![i].status = "open"]
      /\ UNCHANGED <<mix, now, sub, subLock, invLock, sess, marks, unmatched, deliveries, answered,
                     credits, voids, byHand, unmarked, interrupted, asked, faults>>
  BY DEF B!Generate, B!Outside, B!Locks, B!History, B!Counts
<1>2. inv \in [Invoices -> B!InvRow] /\ B!Open' = B!Open
  BY <1>1 DEF BillInv, B!TypeOK, B!Open
<1>3. /\ inv' \in [Invoices -> B!InvRow] /\ inv'[i].status = "open" /\ inv'[i].tx = inv[i].tx
      /\ \A j \in Invoices \ {i} : inv'[j] = inv[j]
  BY <1>1, <1>2 DEF B!InvRow, B!InvStatuses
<1>4. B!TypeOK' /\ now' >= now
  BY <1>1, <1>2, <1>3 DEF BillInv, B!TypeOK
<1>5. \A p \in B!All : SessionInv(p)'
  BY <1>1, <1>3, <1>4, NoSessionMoves
<1>6. \A j \in Invoices : InvoiceInv(j)'
  BY <1>1, <1>3 DEF BillInv, InvoiceInv
<1>7. \A x \in Txs : PaymentInv(x)'
  BY <1>1, <1>3, <1>4, NoPaymentMoves
<1> QED BY <1>4, <1>5, <1>6, <1>7 DEF BillInv

LEMMA TickStep ==
  ASSUME B!BillingAssumption, BillInv, B!Tick \/ UNCHANGED B!vars
  PROVE  BillInv'
<1>1. /\ now' \in {now, now + 1}
      /\ UNCHANGED <<mix, sub, inv, subLock, invLock, sess, marks, unmatched, deliveries, answered,
                     credits, voids, byHand, unmarked, interrupted, asked, faults>>
  BY DEF B!Tick, B!vars, B!Outside, B!Locks, B!History, B!Counts
<1>2. B!Open' = B!Open
  BY <1>1 DEF B!Open
<1>3. B!TypeOK' /\ now' >= now
  BY <1>1, <1>2 DEF BillInv, B!TypeOK
<1>4. \A p \in B!All : SessionInv(p)'
  BY <1>1, <1>3, NoSessionMoves
<1>5. \A j \in Invoices : InvoiceInv(j)'
  BY <1>1 DEF BillInv, InvoiceInv
<1>6. \A x \in Txs : PaymentInv(x)'
  BY <1>1, <1>3, NoPaymentMoves
<1> QED BY <1>3, <1>4, <1>5, <1>6 DEF BillInv

LEMMA BillInit ==
  ASSUME B!BillingAssumption, B!Init
  PROVE  BillInv
<1> USE DEF B!Init
<1>1. \A s \in B!All : sess[s] = B!Idle
  OBVIOUS
<1>2. B!Open = {}
  BY <1>1 DEF B!Open, B!Idle
<1>3. B!TypeOK
  BY <1>2, IdleType DEF B!TypeOK, B!SubRow, B!Statuses, B!InvRow, B!InvStatuses, B!NoBill, B!BillingAssumption
<1>4. ASSUME NEW s \in B!All PROVE SessionInv(s)
  <2>1. s # NoSession
    BY DEF B!BillingAssumption, B!All
  <2> QED BY <1>1, <2>1 DEF SessionInv, OfPayment, OfAdministrator, OfSweep, Holding, Fresh,
             B!Idle, B!SubKinds, B!InvoiceKinds
<1>5. ASSUME NEW i \in Invoices PROVE InvoiceInv(i)
  BY DEF InvoiceInv, B!NoBill
<1>6. ASSUME NEW x \in Txs PROVE PaymentInv(x)
  <2>1. Past(x) = {}
    BY <1>1 DEF Past, B!Idle
  <2>2. Cardinality(Past(x) \ {NoSession}) = 0
    BY <2>1, FS_EmptySet
  <2>3. Owed(x, NoSession) \in {0, 1} /\ credits[x] = 0 /\ voids[Ref[x]] = 0
    BY DEF Owed, B!BillingAssumption
  <2>4. CountedWith(x, NoSession)
    BY <2>2, <2>3 DEF CountedWith
  <2> QED BY <2>3, <2>4 DEF PaymentInv
<1> QED BY <1>3, <1>4, <1>5, <1>6 DEF BillInv

LEMMA BillNext ==
  ASSUME B!BillingAssumption, BillInv, [B!Next]_B!vars
  PROVE  BillInv'
<1>1. ASSUME NEW s \in B!All, B!Step(s) PROVE BillInv'
  <2>1. CASE s \in Sessions /\ B!WriteSub(s)
    BY <2>1, WriteSubStep
  <2> QED BY <1>1, <2>1, DedupStep, FindStep, WriteInvoiceStep, LoadSubStep, SelectSteps,
             WriteLapseStep, SettleStep DEF B!Step
<1>2. ASSUME NEW s \in B!All, B!SweepBegin(s) \/ B!DedupFails(s) \/ B!RecordFails(s) \/ B!Fail(s)
      PROVE  BillInv'
  BY <1>2, SweepBeginStep, DedupFailsStep, RecordFailsStep, FailStep
<1>3. ASSUME NEW s \in B!All, NEW x \in Txs, B!Deliver(s, x) PROVE BillInv'
  BY <1>3, DeliverStep
<1>4. ASSUME NEW s \in B!All, NEW kind \in B!Kinds, B!Ask(s, kind) PROVE BillInv'
  BY <1>4, AskStep
<1>5. ASSUME NEW s \in B!All, NEW kind \in B!Kinds, NEW i \in Invoices, B!AskInvoice(s, kind, i)
      PROVE  BillInv'
  BY <1>5, AskInvoiceStep
<1>6. ASSUME NEW x \in Txs, B!MarkExpires(x) PROVE BillInv'
  BY <1>6, MarkExpiresStep
<1>7. ASSUME NEW i \in Invoices, B!Generate(i) PROVE BillInv'
  BY <1>7, GenerateStep
<1>8. CASE B!Tick \/ UNCHANGED B!vars
  BY <1>8, TickStep
<1> QED BY <1>1, <1>2, <1>3, <1>4, <1>5, <1>6, <1>7, <1>8 DEF B!Next

LEMMA BillInvariant ==
  ASSUME B!BillingAssumption
  PROVE  B!Spec => []BillInv
<1>1. B!Init => BillInv
  BY BillInit
<1>2. BillInv /\ [B!Next]_B!vars => BillInv'
  BY BillNext
<1> QED BY <1>1, <1>2, PTL DEF B!Spec

\* Only commits write the subscription.
LEMMA OnlyCommitsWrite ==
  ASSUME [B!Next]_B!vars, sub' # sub
  PROVE  \E t \in B!All : B!Commit(t)
BY DEF B!Next, B!Step, B!vars, B!Dedup, B!Find, B!WriteInvoice, B!LoadSub, B!WriteSub, B!SelectDue, B!SelectBeyond,
   B!SelectForced, B!Select, B!WriteLapse, B!SweepBegin, B!DedupFails, B!RecordFails, B!Fail, B!Deliver, B!Ask, B!AskInvoice,
   B!MarkExpires, B!Generate, B!Tick, B!Database

\* A lapse that is committed by a session alone ended before its sweep began.
LEMMA LapseRaced ==
  ASSUME B!BillingAssumption, BillInv, [B!Next]_B!vars, NEW s \in B!All,
         sess[s].pc = "commit", sess'[s].pc = "idle", sub' # sub,
         sub'.status \in {"past_due", "expired"}, sub'.ends >= now
  PROVE  sess[s].raced # FALSE
<1>1. SUFFICES ASSUME sess[s].raced = FALSE PROVE FALSE
  OBVIOUS
<1>2. PICK t \in B!All : B!Commit(t)
  BY OnlyCommitsWrite
<1>3. t = s
  <2>1. \A p \in B!All \ {t} : sess'[p] = sess[p]
    BY <1>2, CommitWrites
  <2> QED BY <2>1
<1>4. subLock = s /\ sub' = sess[s].row
  BY <1>2, <1>3 DEF B!Commit
<1>5. Fresh(s) /\ sess[s] \in B!Session /\ now \in Nat /\ B!TypeOK
  BY BillingTypes DEF BillInv, SessionInv, B!TypeOK
<1>6. sess[s].kind = "sweep" /\ sess[s].at <= now /\ sess[s].row.ends < sess[s].at
  BY <1>1, <1>4, <1>5 DEF Fresh
<1>7. sess[s].row.ends \in Nat /\ sess[s].at \in Nat
  BY <1>5, BillingTypes
<1> QED BY <1>4, <1>5, <1>6, <1>7

\* Every variable keeps its type, and only a session that is open holds a row.
THEOREM BillingType ==
  ASSUME B!BillingAssumption
  PROVE  B!Spec => []B!TypeOK
<1>1. BillInv => B!TypeOK
  BY DEF BillInv
<1> QED BY <1>1, BillInvariant, PTL

\* The run BillingMixed checks CreditedOnce: however often the gateway repeats itself, a
\* transaction is credited once; again only after its invoice was refunded, or while
\* Redis was down.
THEOREM PaymentsCreditedOnce ==
  ASSUME B!BillingAssumption
  PROVE  B!Spec => []CreditedOnce
<1>1. BillInv => B!CreditedOnce
  <2>1. ASSUME BillInv, NEW x \in Txs PROVE credits[x] <= 1 + voids[Ref[x]] + unmarked
    <3>1. PICK m \in B!All \cup {NoSession} : CountedWith(x, m)
      BY <2>1 DEF BillInv, PaymentInv
    <3>2. Cardinality(Past(x) \ {m}) \in Nat
      BY <2>1, PastPayments, FS_Subset, FS_CardinalityType
    <3>3. /\ Owed(x, m) \in {0, 1} /\ credits[x] \in Nat /\ unmarked \in Nat
          /\ voids[Ref[x]] \in Nat
      BY <2>1 DEF BillInv, B!TypeOK, B!BillingAssumption, Owed
    <3> QED BY <3>1, <3>2, <3>3 DEF CountedWith
  <2> QED BY <2>1 DEF B!CreditedOnce
<1>2. B!CreditedOnce => CreditedOnce
  BY DEF CreditedOnce, B!CreditedOnce
<1> QED BY <1>1, <1>2, BillInvariant, PTL

\* The run BillingMixed checks NoPaymentLost: a payment the gateway was told is settled has
\* been credited or is in the ledger of unmatched payments, unless a session of it failed,
\* the ledger refused it, or its invoice was paid another way.
THEOREM PaymentsNotLost ==
  ASSUME B!BillingAssumption
  PROVE  B!Spec => []NoPaymentLost
<1>1. BillInv => B!NoPaymentLost
  <2>1. ASSUME BillInv, NEW x \in answered
        PROVE  \/ B!Accounted(x) \/ x \in interrupted \/ B!Rivalled(x)
               \/ \E s \in B!Open : sess[s].tx = x
    <3>1. SeenThrough(x)
      BY <2>1 DEF BillInv, B!TypeOK, PaymentInv
    <3>2. Past(x) # {} => \E s \in B!Open : sess[s].tx = x
      BY DEF Past, B!Open
    <3> QED BY <3>1, <3>2 DEF SeenThrough
  <2> QED BY <2>1 DEF B!NoPaymentLost
<1>2. B!NoPaymentLost => NoPaymentLost
  BY DEF NoPaymentLost, B!NoPaymentLost, Accounted, B!Accounted, Rivalled, B!Rivalled, Open, B!Open, All, B!All
<1> QED BY <1>1, <1>2, BillInvariant, PTL

\* The run BillingMixed checks NotLapsedEarly: a subscription whose period has not ended
\* becomes past due or expired only if the sessions that read and wrote it overlapped.
THEOREM LapsesNotEarly ==
  ASSUME B!BillingAssumption
  PROVE  B!Spec => NotLapsedEarly
<1>1. BillInv /\ [B!Next]_B!vars =>
        [\A s \in All :
           /\ sess[s].pc = "commit" /\ sess'[s].pc = "idle" /\ sub' # sub
           /\ sub'.status \in {"past_due", "expired"} /\ sub'.ends >= now
           => sess[s].raced]_sess
  <2>1. ASSUME BillInv, [B!Next]_B!vars, NEW s \in B!All, sess[s].pc = "commit", sess'[s].pc = "idle", sub' # sub,
               sub'.status \in {"past_due", "expired"}, sub'.ends >= now
        PROVE  sess[s].raced
    <3>1. sess[s].raced # FALSE
      BY <2>1, LapseRaced DEF B!At
    <3>2. sess[s].raced \in BOOLEAN
      BY <2>1, BillingTypes DEF BillInv
    <3> QED BY <3>1, <3>2
  <2> QED BY <2>1 DEF All, B!All
<1> QED BY <1>1, BillInvariant, PTL DEF B!Spec, NotLapsedEarly

-----------------------------------------------------------------------------
(***************************************************************************)
(* Modules.  Which modules a tenant may use is decided by other sessions   *)
(* of subscription-service, and by the gates of the services that ask it:  *)
(* G is ModuleGate over variables of its own.                              *)
(*                                                                         *)
(* The invariant (ModuleInv) says that a session still holds the records   *)
(* it has answered for, and that a key it has deleted stays deleted until  *)
(* a gate caches it again (DeskInv); how old an answer is, cached or on    *)
(* its way, counted from when the record said so (CacheInv, GateInv,       *)
(* Given): an answer spends at most Delay ticks with a gate and TTL ticks  *)
(* in Redis, and is never renewed by being read; and that it agrees with   *)
(* the record unless the record's last change was outrun (Undisturbed).    *)
(***************************************************************************)
CONSTANTS MaxChanges, MaxGateFaults, GateMixes
VARIABLES gateMix, rowLock, tenantSub, period, changes

G == INSTANCE ModuleGate WITH
         mix <- gateMix, lock <- rowLock, sub <- tenantSub,
         MaxFaults <- MaxGateFaults, Mixes <- GateMixes

\* A session goes through its records in order.  What it answers is what it has
\* written, to records it still holds; and a key it has deleted stays deleted until
\* a gate caches it again.
Answering(s) == desk[s].kind \in {"activate", "deactivate", "bootstrap"}
WrittenUpTo(s) ==
    IF desk[s].pc \in {"drop", "commit"} THEN desk[s].pos ELSE desk[s].pos - 1

DeskInv(s) ==
    LET q == desk[s] IN
    /\ q.pc \in {"read", "write", "drop"} => q.pos \in 1 .. Len(q.todo)
    /\ q.pc # "idle" /\ q.kind \in G!Direct =>
          /\ Len(q.todo) = 1
          /\ q.pc \in {"read", "write"} => \A m \in G!Slugs : rowLock[m] # s
    /\ q.pc # "idle" /\ Answering(s) =>
          /\ q.pc = "commit" => q.pos = Len(q.todo)
          /\ \A i \in 1 .. WrittenUpTo(s) :
                rowLock[q.todo[i]] = s /\ q.new[q.todo[i]] = q.answer[q.todo[i]]
    /\ \A m \in q.dropped \ q.crossed : cache[m].left = 0

\* The ages of the two states of a record.
AgeInv(m) ==
    /\ row[m] = "on" => sinceOn[m] = 0
    /\ row[m] # "on" => sinceOff[m] = 0

\* An answer of m that was given at most n ticks ago.
Given(m, on, failed, n) ==
    /\ on = TRUE => failed = FALSE /\ sinceOn[m] <= n
    /\ on = FALSE /\ failed = FALSE => sinceOff[m] <= n
    /\ failed = TRUE => sinceFailed[m] <= n

\* It agrees with the record unless the record's last change was outrun.
Undisturbed(m, on, failed) ==
    m \notin disturbed /\ failed = FALSE => (on = TRUE <=> row[m] = "on")

\* How long an entry has been cached tells how old its answer is.
CacheInv(m) ==
    LET e == cache[m] IN
    e.left > 0 => Given(m, e.on, e.failed, TTL - e.left + Delay) /\ Undisturbed(m, e.on, e.failed)

\* What a gate has been told about the modules it asked for so far.
GateInv(g) ==
    LET q == gate[g] IN
    q.pc # "idle" =>
        /\ q.kind \in G!GateKinds /\ q.pos <= Len(G!Needs[q.kind])
        /\ q.pc \in {"get", "ask"} => q.failed = FALSE
        /\ q.pos = 2 => sinceOn["inventory"] <= TTL + Delay + q.age
        /\ q.pc = "set" =>
              Given(G!Now(g), q.on, q.failed, q.age) /\ Undisturbed(G!Now(g), q.on, q.failed)

ModuleInv ==
    /\ G!TypeOK
    /\ \A s \in Sessions : DeskInv(s)
    /\ \A m \in G!Slugs : AgeInv(m) /\ CacheInv(m)
    /\ \A g \in Gates : GateInv(g)

LEMMA NeedsFacts ==
    /\ G!GateKinds = {"inventory", "production", "einvoicing", "compliance"}
    /\ \A k \in G!GateKinds : /\ G!Needs[k] \in Seq(G!Slugs) /\ Len(G!Needs[k]) \in {1, 2}
                              /\ \A i \in 1 .. Len(G!Needs[k]) : G!Needs[k][i] \in G!Slugs
                              /\ G!SlugsOf(k) = {G!Needs[k][i] : i \in 1 .. Len(G!Needs[k])}
    /\ \A k \in G!GateKinds : k # "production" => Len(G!Needs[k]) = 1
    /\ G!Needs["production"][1] = "inventory"
    /\ Len(G!Needs["production"]) = 2
    /\ G!SlugsOf("production") = {"inventory", G!Needs["production"][2]}
    /\ \A k \in G!GateKinds : k # "production" => G!SlugsOf(k) = {G!Needs[k][1]}
<1>1. G!GateKinds = {"inventory", "production", "einvoicing", "compliance"}
  BY DEF G!GateKinds, G!Needs
<1>2. /\ G!Needs["inventory"] = <<"inventory">> /\ G!Needs["production"] = <<"inventory", "production">>
      /\ G!Needs["einvoicing"] = <<"electronic-invoicing">> /\ G!Needs["compliance"] = <<"compliance">>
  BY DEF G!Needs
<1>a. /\ <<"inventory">> \in Seq(G!Slugs) /\ <<"electronic-invoicing">> \in Seq(G!Slugs)
      /\ <<"compliance">> \in Seq(G!Slugs) /\ <<"inventory", "production">> \in Seq(G!Slugs)
  BY DEF G!Slugs
<1>b. /\ Len(<<"inventory">>) = 1 /\ Len(<<"electronic-invoicing">>) = 1
      /\ Len(<<"compliance">>) = 1 /\ Len(<<"inventory", "production">>) = 2
  OBVIOUS
<1>3. \A k \in G!GateKinds : G!Needs[k] \in Seq(G!Slugs) /\ Len(G!Needs[k]) \in {1, 2}
  <2> SUFFICES ASSUME NEW k \in G!GateKinds PROVE G!Needs[k] \in Seq(G!Slugs) /\ Len(G!Needs[k]) \in {1, 2}
    OBVIOUS
  <2>1. CASE k = "inventory"
    BY <2>1, <1>2, <1>a, <1>b
  <2>2. CASE k = "production"
    BY <2>2, <1>2, <1>a, <1>b
  <2>3. CASE k = "einvoicing"
    BY <2>3, <1>2, <1>a, <1>b
  <2>4. CASE k = "compliance"
    BY <2>4, <1>2, <1>a, <1>b
  <2> QED BY <1>1, <2>1, <2>2, <2>3, <2>4
<1>4. \A k \in G!GateKinds : \A i \in 1 .. Len(G!Needs[k]) : G!Needs[k][i] \in G!Slugs
  BY <1>3
<1>5. \A k \in G!GateKinds : G!SlugsOf(k) = {G!Needs[k][i] : i \in 1 .. Len(G!Needs[k])}
  BY <1>3 DEF G!SlugsOf, G!ToSet
<1>6. \A k \in G!GateKinds : k # "production" => Len(G!Needs[k]) = 1
  BY <1>1, <1>2
<1>7. G!Needs["production"][1] = "inventory" /\ Len(G!Needs["production"]) = 2
  BY <1>2
<1>8. G!SlugsOf("production") = {G!Needs["production"][i] : i \in {1, 2}}
  <2>1. 1 .. Len(G!Needs["production"]) = {1, 2}
    BY <1>7
  <2> QED BY <2>1, <1>5, <1>1
<1>9. ASSUME NEW k \in G!GateKinds, k # "production" PROVE G!SlugsOf(k) = {G!Needs[k][1]}
  <2>1. Len(G!Needs[k]) = 1
    BY <1>6, <1>9
  <2>2. \A n : n = 1 => 1 .. n = {1}
    OBVIOUS
  <2>3. 1 .. Len(G!Needs[k]) = {1}
    BY <2>1, <2>2, Zenon
  <2> QED BY <2>3, <1>5
<1> QED BY <1>1, <1>3, <1>4, <1>5, <1>6, <1>7, <1>8, <1>9

LEMMA SlugsFinite == \A S \in SUBSET G!Slugs : IsFiniteSet(S)
<1>1. IsFiniteSet({})
  BY FS_EmptySet
<1>2. IsFiniteSet({} \cup {"inventory"})
  BY <1>1, FS_AddElement
<1>3. IsFiniteSet(({} \cup {"inventory"}) \cup {"production"})
  BY <1>2, FS_AddElement
<1>4. IsFiniteSet((({} \cup {"inventory"}) \cup {"production"}) \cup {"electronic-invoicing"})
  BY <1>3, FS_AddElement
<1>5. IsFiniteSet(((({} \cup {"inventory"}) \cup {"production"}) \cup {"electronic-invoicing"}) \cup {"compliance"})
  BY <1>4, FS_AddElement
<1>6. G!Slugs = ((({} \cup {"inventory"}) \cup {"production"}) \cup {"electronic-invoicing"}) \cup {"compliance"}
  BY DEF G!Slugs
<1>7. IsFiniteSet(G!Slugs)
  BY <1>5, <1>6
<1> QED BY <1>7, FS_Subset

LEMMA OrdersOfSlugs == \A S \in SUBSET G!Slugs : \A f \in G!SetToSeqs(S) : f \in Seq(G!Slugs)
<1> SUFFICES ASSUME NEW S \in SUBSET G!Slugs, NEW f \in G!SetToSeqs(S) PROVE f \in Seq(G!Slugs)
  OBVIOUS
<1>1. G!Cardinality(S) \in Nat
  <2>1. G!Cardinality(S) = Cardinality(S)
    BY DEF G!Cardinality, Cardinality
  <2> QED BY <2>1, SlugsFinite, FS_CardinalityType
<1>2. f \in [1 .. G!Cardinality(S) -> S]
  BY DEF G!SetToSeqs
<1>3. f \in [1 .. G!Cardinality(S) -> G!Slugs]
  BY <1>2
<1> QED BY <1>1, <1>3

LEMMA RelevantAreSlugs == G!Relevant \subseteq G!Slugs /\ G!Bootstrapped \in Seq(G!Slugs) /\ Len(G!Bootstrapped) = 2
<1>1. G!Bootstrapped \in Seq(G!Slugs) /\ Len(G!Bootstrapped) = 2
  BY DEF G!Bootstrapped, G!Slugs
<1>2. G!ToSet(G!Bootstrapped) \subseteq G!Slugs
  <2>1. DOMAIN G!Bootstrapped = {1, 2} /\ \A i \in {1, 2} : G!Bootstrapped[i] \in G!Slugs
    BY <1>1 DEF G!Bootstrapped, G!Slugs
  <2>2. G!ToSet(G!Bootstrapped) = {G!Bootstrapped[i] : i \in DOMAIN G!Bootstrapped}
    BY Zenon DEF G!ToSet
  <2> QED BY <2>1, <2>2
<1>3. \A k \in G!GateKinds : G!SlugsOf(k) \subseteq G!Slugs
  BY NeedsFacts
<1>4. UNION {G!SlugsOf(k) : k \in gateMix \cap G!GateKinds} \subseteq G!Slugs
  BY <1>3
<1>5. (IF "bootstrap" \in gateMix THEN G!ToSet(G!Bootstrapped) ELSE {}) \subseteq G!Slugs
  BY <1>2
<1>6. G!Relevant \subseteq G!Slugs
  <2> SUFFICES ASSUME NEW x \in G!Relevant PROVE x \in G!Slugs
    OBVIOUS
  <2>1. x \in UNION {G!SlugsOf(k) : k \in gateMix \cap G!GateKinds} \/ x \in G!ToSet(G!Bootstrapped)
    BY DEF G!Relevant
  <2> QED BY <2>1, <1>2, <1>4
<1> QED BY <1>1, <1>6

LEMMA HorizonFacts ==
    ASSUME G!ModuleGateAssumption
    PROVE  /\ G!Horizon \in Nat /\ G!Horizon > 0 /\ TTL \in Nat /\ TTL > 0 /\ Delay \in Nat
           /\ \A n \in 0 .. G!Horizon : G!Later(n) \in 0 .. G!Horizon /\ G!Later(n) <= n + 1
<1>1. G!Horizon \in Nat /\ G!Horizon > 0 /\ TTL \in Nat /\ TTL > 0 /\ Delay \in Nat
  BY DEF G!ModuleGateAssumption, G!Horizon
<1>2. \A n \in 0 .. G!Horizon : G!Later(n) \in 0 .. G!Horizon /\ G!Later(n) <= n + 1
  BY <1>1 DEF G!Later
<1> QED BY <1>1, <1>2

LEMMA IdleFacts ==
    /\ G!Idle \in G!Session /\ G!Idle.pc = "idle" /\ G!Idle.dropped = {} /\ G!Idle.pos = 1
    /\ \A r \in G!Session : G!Advance(r) \in G!Session
    /\ G!Away.pc = "idle" /\ G!Away.failed = FALSE /\ G!Away.pos = 1 /\ G!Away.age = 0
<1>1. <<>> \in Seq(G!Slugs)
  OBVIOUS
<1>2. [m \in G!Slugs |-> "none"] \in [G!Slugs -> G!States]
  BY DEF G!States
<1>3. G!Idle \in G!Session
  BY <1>1, <1>2 DEF G!Idle, G!Session
<1>4. ASSUME NEW r \in G!Session PROVE G!Advance(r) \in G!Session
  <2>1. r.pos + 1 \in Nat /\ r.pos \in Nat
    BY DEF G!Session
  <2>2. CASE r.pos < Len(r.todo)
    <3>1. PICK c \in {"write", "read"} : c = IF r.kind \in {"onboard", "lapse"} THEN "write" ELSE "read"
      OBVIOUS
    <3>2. G!Advance(r) = [r EXCEPT !.pos = r.pos + 1, !.pc = c]
      BY <2>2, <3>1 DEF G!Advance
    <3>3. [r EXCEPT !.pos = r.pos + 1, !.pc = c] \in G!Session
      BY <2>1 DEF G!Session
    <3> QED BY <3>2, <3>3
  <2>3. CASE ~ r.pos < Len(r.todo)
    <3>1. G!Advance(r) = [r EXCEPT !.pc = "commit"]
      BY <2>3 DEF G!Advance
    <3>2. [r EXCEPT !.pc = "commit"] \in G!Session
      BY DEF G!Session
    <3> QED BY <3>1, <3>2
  <2> QED BY <2>2, <2>3
<1> QED BY <1>3, <1>4 DEF G!Idle, G!Away

LEMMA AwayTyped ==
    ASSUME G!ModuleGateAssumption
    PROVE  G!Away \in G!Gate
BY HorizonFacts DEF G!Away, G!Gate


(* An answer stays as old as it was, or gets older by a tick. *)
LEMMA GivenLater ==
    ASSUME NEW m \in G!Slugs, NEW on \in BOOLEAN, NEW failed \in BOOLEAN, NEW n \in Int, NEW d \in {0, 1},
           sinceOn[m] \in Int, sinceOff[m] \in Int, sinceFailed[m] \in Int,
           sinceOn'[m] \in Int, sinceOff'[m] \in Int, sinceFailed'[m] \in Int,
           sinceOn'[m] <= sinceOn[m] + d, sinceOff'[m] <= sinceOff[m] + d,
           sinceFailed'[m] <= sinceFailed[m] + d, Given(m, on, failed, n)
    PROVE  Given(m, on, failed, n + d)'
BY DEF Given

LEMMA GivenMore ==
    ASSUME NEW m \in G!Slugs, NEW on \in BOOLEAN, NEW failed \in BOOLEAN, NEW n \in Int, NEW k \in Int,
           sinceOn[m] \in Int, sinceOff[m] \in Int, sinceFailed[m] \in Int,
           n <= k, Given(m, on, failed, n)
    PROVE  Given(m, on, failed, k)
BY DEF Given

(* What a state with the type and the ages of its records contains. *)
LEMMA Types ==
    ASSUME G!ModuleGateAssumption, G!TypeOK
    PROVE  /\ \A m \in G!Slugs : /\ sinceOn[m] \in 0 .. G!Horizon /\ sinceOff[m] \in 0 .. G!Horizon
                                 /\ sinceFailed[m] \in 0 .. G!Horizon /\ cache[m] \in G!Entry /\ row[m] \in G!States
                                 /\ rowLock[m] \in Sessions \cup {NoSession}
                                 /\ cache[m].left \in 0 .. TTL /\ cache[m].on \in BOOLEAN
                                 /\ cache[m].failed \in BOOLEAN
           /\ \A s \in Sessions : desk[s] \in G!Session
           /\ \A g \in Gates : /\ gate[g] \in G!Gate /\ gate[g].age \in 0 .. Delay /\ gate[g].on \in BOOLEAN
                               /\ gate[g].failed \in BOOLEAN /\ gate[g].pos \in {1, 2}
                               /\ gate[g].pc \in {"idle", "get", "ask", "set"}
<1>1. \A m \in G!Slugs : /\ sinceOn[m] \in 0 .. G!Horizon /\ sinceOff[m] \in 0 .. G!Horizon
                         /\ sinceFailed[m] \in 0 .. G!Horizon /\ cache[m] \in G!Entry /\ row[m] \in G!States
                         /\ rowLock[m] \in Sessions \cup {NoSession}
  BY DEF G!TypeOK
<1>2. \A e \in G!Entry : e.left \in 0 .. TTL /\ e.on \in BOOLEAN /\ e.failed \in BOOLEAN
  BY DEF G!Entry
<1>3. \A s \in Sessions : desk[s] \in G!Session
  BY DEF G!TypeOK
<1>4. \A g \in Gates : gate[g] \in G!Gate
  BY DEF G!TypeOK
<1>5. \A q \in G!Gate : q.age \in 0 .. Delay /\ q.on \in BOOLEAN /\ q.failed \in BOOLEAN
                      /\ q.pos \in {1, 2} /\ q.pc \in {"idle", "get", "ask", "set"}
  BY DEF G!Gate
<1> QED BY <1>1, <1>2, <1>3, <1>4, <1>5

(* A session as a record of its own. *)
LEMMA SessionFields ==
    \A q \in G!Session :
        /\ q.pc \in {"idle", "read", "write", "drop", "commit"} /\ q.kind \in G!Kinds \cup {"none"}
        /\ q.todo \in Seq(G!Slugs) /\ Len(q.todo) \in Nat /\ q.pos \in Nat /\ q.sub \in G!Subs \cup {"same"}
        /\ q.seen \in [G!Slugs -> G!States] /\ q.new \in [G!Slugs -> G!States] /\ q.answer \in [G!Slugs -> G!States]
        /\ q.dropped \subseteq G!Slugs /\ q.crossed \subseteq G!Slugs
        /\ \A i \in 1 .. Len(q.todo) : q.todo[i] \in G!Slugs
<1> SUFFICES ASSUME NEW q \in G!Session
             PROVE  /\ q.pc \in {"idle", "read", "write", "drop", "commit"} /\ q.kind \in G!Kinds \cup {"none"}
                    /\ q.todo \in Seq(G!Slugs) /\ Len(q.todo) \in Nat /\ q.pos \in Nat /\ q.sub \in G!Subs \cup {"same"}
                    /\ q.seen \in [G!Slugs -> G!States] /\ q.new \in [G!Slugs -> G!States] /\ q.answer \in [G!Slugs -> G!States]
                    /\ q.dropped \subseteq G!Slugs /\ q.crossed \subseteq G!Slugs
                    /\ \A i \in 1 .. Len(q.todo) : q.todo[i] \in G!Slugs
  OBVIOUS
<1>1. /\ q.pc \in {"idle", "read", "write", "drop", "commit"} /\ q.kind \in G!Kinds \cup {"none"}
      /\ q.todo \in Seq(G!Slugs) /\ q.pos \in Nat /\ q.sub \in G!Subs \cup {"same"}
      /\ q.seen \in [G!Slugs -> G!States] /\ q.new \in [G!Slugs -> G!States] /\ q.answer \in [G!Slugs -> G!States]
      /\ q.dropped \in SUBSET G!Slugs /\ q.crossed \in SUBSET G!Slugs
  BY Zenon DEF G!Session
<1>2. Len(q.todo) \in Nat /\ \A i \in 1 .. Len(q.todo) : q.todo[i] \in G!Slugs
  BY <1>1
<1> QED BY <1>1, <1>2


LEMMA ModuleInit == G!ModuleGateAssumption /\ G!Init => ModuleInv
<1> SUFFICES ASSUME G!ModuleGateAssumption, G!Init PROVE ModuleInv
  OBVIOUS
<1> USE DEF G!ModuleGateAssumption
<1>1. G!TypeOK
  <2>1. /\ gateMix \in GateMixes /\ rowLock = [m \in G!Slugs |-> NoSession] /\ period = "running" /\ disturbed = {}
        /\ row \in [G!Slugs -> {"none", "on"}] /\ changes = 0 /\ outages = 0
        /\ desk = [s \in Sessions |-> G!Idle] /\ cache = [m \in G!Slugs |-> G!NoEntry] /\ gate = [g \in Gates |-> G!Away]
        /\ sinceOn = [m \in G!Slugs |-> IF row[m] = "on" THEN 0 ELSE G!Horizon]
        /\ sinceOff = [m \in G!Slugs |-> IF row[m] = "on" THEN G!Horizon ELSE 0]
        /\ sinceFailed = [m \in G!Slugs |-> G!Horizon]
    BY DEF G!Init
  <2>2. row \in [G!Slugs -> G!States] /\ rowLock \in [G!Slugs -> Sessions \cup {NoSession}]
    BY <2>1 DEF G!States
  <2>3. \A m \in G!Slugs : rowLock[m] = NoSession
    BY <2>1
  <2>4. tenantSub \in {"none"} \/ tenantSub \in {"active", "past_due"} \/ tenantSub \in {"active"}
    BY DEF G!Init
  <2>5. tenantSub \in G!Subs
    BY <2>4 DEF G!Subs
  <2>6. period \in G!ToSet(G!Periods)
    <3>1. G!Periods[1] = "running" /\ 1 \in DOMAIN G!Periods
      BY DEF G!Periods
    <3> QED BY <2>1, <3>1 DEF G!ToSet
  <2>7. G!NoEntry \in G!Entry
    BY HorizonFacts DEF G!NoEntry, G!Entry
  <2>8. desk \in [Sessions -> G!Session] /\ cache \in [G!Slugs -> G!Entry] /\ gate \in [Gates -> G!Gate]
    BY <2>1, <2>7, IdleFacts, AwayTyped
  <2>9. /\ sinceOn \in [G!Slugs -> 0 .. G!Horizon] /\ sinceOff \in [G!Slugs -> 0 .. G!Horizon]
        /\ sinceFailed \in [G!Slugs -> 0 .. G!Horizon]
    BY <2>1, HorizonFacts
  <2>10. changes \in Nat /\ outages \in Nat /\ disturbed \subseteq G!Slugs
    BY <2>1
  <2> QED BY <2>1, <2>2, <2>3, <2>5, <2>6, <2>8, <2>9, <2>10 DEF G!TypeOK
<1>2. ASSUME NEW s \in Sessions PROVE DeskInv(s)
  <2>1. desk[s] = G!Idle
    BY DEF G!Init
  <2> QED BY <2>1, IdleFacts DEF DeskInv
<1>3. ASSUME NEW m \in G!Slugs PROVE AgeInv(m) /\ CacheInv(m)
  <2>1. cache[m].left = 0
    BY DEF G!Init, G!NoEntry
  <2>2. sinceOn[m] = (IF row[m] = "on" THEN 0 ELSE G!Horizon) /\ sinceOff[m] = (IF row[m] = "on" THEN G!Horizon ELSE 0)
    BY DEF G!Init
  <2> QED BY <2>1, <2>2 DEF AgeInv, CacheInv
<1>4. ASSUME NEW g \in Gates PROVE GateInv(g)
  <2>1. gate[g] = G!Away
    BY DEF G!Init
  <2> QED BY <2>1, IdleFacts DEF GateInv
<1> QED BY <1>1, <1>2, <1>3, <1>4 DEF ModuleInv

(* What is known about the gate g stays true when the records stay and failed *)
(* questions get no older.                                                    *)
LEMMA GateKept ==
    ASSUME NEW g \in Gates, G!ModuleGateAssumption, G!TypeOK, GateInv(g), gate'[g] = gate[g],
           UNCHANGED <<row, sinceOn, sinceOff, disturbed>>,
           \A m \in G!Slugs : sinceFailed'[m] = sinceFailed[m] \/ sinceFailed'[m] = 0
    PROVE  GateInv(g)'
<1> USE DEF GateInv
<1>1. gate[g].age \in 0 .. Delay /\ Delay \in Nat /\ gate[g].pos \in {1, 2}
  BY Types, HorizonFacts
<1>2. CASE gate[g].pc = "idle"
  BY <1>2
<1>3. CASE gate[g].pc # "idle"
  <2>1. gate[g].kind \in G!GateKinds /\ gate[g].pos <= Len(G!Needs[gate[g].kind])
    BY <1>3
  <2>2. PICK m : m = G!Now(g)
    OBVIOUS
  <2>3. m \in G!Slugs
    <3>1. PICK k, n : k = gate[g].kind /\ n = gate[g].pos
      OBVIOUS
    <3>2. k \in G!GateKinds /\ n \in 1 .. Len(G!Needs[k])
      <4>1. Len(G!Needs[k]) \in {1, 2} /\ n <= Len(G!Needs[k]) /\ n \in {1, 2} /\ k \in G!GateKinds
        BY <2>1, <3>1, <1>1, NeedsFacts
      <4> QED BY <4>1
    <3>3. G!Needs[k][n] \in G!Slugs
      BY <3>2, NeedsFacts, Zenon
    <3> QED BY <3>3, <3>1, <2>2 DEF G!Now
  <2>4. G!Now(g)' = m
    <3>1. G!Now(g)' = G!Needs[gate'[g].kind][gate'[g].pos]
      BY DEF G!Now
    <3>2. m = G!Needs[gate[g].kind][gate[g].pos]
      BY <2>2 DEF G!Now
    <3> QED BY <3>1, <3>2
  <2>5. sinceFailed[m] \in 0 .. G!Horizon /\ G!Horizon \in Nat
    BY <2>3, HorizonFacts, Types
  <2>6. ASSUME Given(m, gate[g].on, gate[g].failed, gate[g].age)
        PROVE  Given(m, gate[g].on, gate[g].failed, gate[g].age)'
    BY <2>6, <2>3, <2>5, <1>1 DEF Given
  <2>7. ASSUME Undisturbed(m, gate[g].on, gate[g].failed)
        PROVE  Undisturbed(m, gate[g].on, gate[g].failed)'
    BY <2>7 DEF Undisturbed
  <2> QED BY <1>3, <2>2, <2>4, <2>6, <2>7
<1> QED BY <1>2, <1>3

(* A session stays as it is while others take and release their own records. *)
LEMMA SessionKept ==
    ASSUME NEW u \in Sessions, DeskInv(u), desk[u] \in G!Session, desk'[u] = desk[u],
           \A m \in G!Slugs : rowLock'[m] = u <=> rowLock[m] = u,
           \A m \in desk[u].dropped \ desk[u].crossed : cache'[m].left = 0
    PROVE  DeskInv(u)'
<1>3. desk[u].todo \in Seq(G!Slugs) /\ desk[u].pos \in Nat /\ Len(desk[u].todo) \in Nat
      /\ \A i \in 1 .. Len(desk[u].todo) : desk[u].todo[i] \in G!Slugs
  BY SessionFields
<1>4. WrittenUpTo(u)' = WrittenUpTo(u) /\ (Answering(u)' <=> Answering(u))
  BY DEF WrittenUpTo, Answering
<1>5. ASSUME desk[u].pc # "idle", Answering(u), NEW i \in 1 .. WrittenUpTo(u)
      PROVE  desk[u].todo[i] \in G!Slugs
  <2>1. desk[u].pc \in {"read", "write", "drop"} => desk[u].pos \in 1 .. Len(desk[u].todo)
    BY DEF DeskInv
  <2>2. desk[u].pc = "commit" => desk[u].pos = Len(desk[u].todo)
    BY <1>5 DEF DeskInv
  <2>3. desk[u].pc \in {"idle", "read", "write", "drop", "commit"}
    BY SessionFields
  <2>4. i \in 1 .. Len(desk[u].todo)
    BY <2>1, <2>2, <2>3, <1>3, <1>5 DEF WrittenUpTo
  <2> QED BY <2>4, <1>3
<1>6. desk[u].pc # "idle" /\ Answering(u) =>
      \A i \in 1 .. WrittenUpTo(u) : rowLock'[desk[u].todo[i]] = u
  BY <1>5 DEF DeskInv
<1>7. desk[u].pc # "idle" /\ desk[u].kind \in G!Direct =>
      (desk[u].pc \in {"read", "write"} => \A m \in G!Slugs : rowLock'[m] # u)
  BY DEF DeskInv
<1> QED BY <1>4, <1>6, <1>7 DEF DeskInv

(* The session s moves to q, taking or releasing records; keys are deleted.  *)
LEMMA SessionMoves ==
    ASSUME G!ModuleGateAssumption, ModuleInv, NEW s \in Sessions, NEW q \in G!Session,
           desk' = [desk EXCEPT ![s] = q],
           rowLock' \in [G!Slugs -> Sessions \cup {NoSession}],
           \A m \in G!Slugs : \/ rowLock'[m] = rowLock[m]
                              \/ rowLock'[m] \in {s, NoSession} /\ rowLock[m] \in {s, NoSession},
           \A m \in G!Slugs : rowLock'[m] = s => q.pc # "idle",
           UNCHANGED <<gateMix, row, tenantSub, period, sinceOn, sinceOff, disturbed, gate, sinceFailed>>,
           cache' \in [G!Slugs -> G!Entry],
           \A m \in G!Slugs : cache'[m] = cache[m] \/ cache'[m].left = 0,
           changes' \in Nat, outages' \in Nat, DeskInv(s)'
    PROVE  ModuleInv'
<1>0. G!TypeOK /\ NoSession \notin Sessions
  BY DEF ModuleInv, G!ModuleGateAssumption
<1>t. /\ desk \in [Sessions -> G!Session] /\ gateMix \in GateMixes /\ row \in [G!Slugs -> G!States] /\ tenantSub \in G!Subs
      /\ period \in G!ToSet(G!Periods) /\ gate \in [Gates -> G!Gate] /\ sinceOn \in [G!Slugs -> 0 .. G!Horizon]
      /\ sinceOff \in [G!Slugs -> 0 .. G!Horizon] /\ sinceFailed \in [G!Slugs -> 0 .. G!Horizon] /\ disturbed \subseteq G!Slugs
      /\ \A m \in G!Slugs : rowLock[m] = NoSession \/ desk[rowLock[m]].pc # "idle"
      /\ rowLock \in [G!Slugs -> Sessions \cup {NoSession}]
  BY <1>0 DEF G!TypeOK
<1>s. desk'[s] = q /\ \A u \in Sessions \ {s} : desk'[u] = desk[u]
  BY <1>t
<1>1. G!TypeOK'
  <2>1. desk' \in [Sessions -> G!Session]
    BY <1>t
  <2>2. ASSUME NEW m \in G!Slugs PROVE rowLock'[m] = NoSession \/ desk'[rowLock'[m]].pc # "idle"
    <3>1. CASE rowLock'[m] = s
      BY <3>1, <1>s
    <3>2. CASE rowLock'[m] # s /\ rowLock'[m] # NoSession
      <4>1. rowLock'[m] = rowLock[m] /\ rowLock[m] \in Sessions \ {s}
        BY <3>2, <1>t
      <4> QED BY <4>1, <3>2, <1>s, <1>t
    <3> QED BY <3>1, <3>2
  <2> QED BY <2>1, <2>2, <1>t DEF G!TypeOK
<1>2. ASSUME NEW u \in Sessions PROVE DeskInv(u)'
  <2>1. CASE u = s
    BY <2>1
  <2>2. CASE u # s
    <3>1. desk'[u] = desk[u] /\ desk[u] \in G!Session /\ DeskInv(u)
      BY <2>2, <1>s, <1>t DEF ModuleInv
    <3>2. \A m \in G!Slugs : rowLock'[m] = u <=> rowLock[m] = u
      BY <2>2, <1>0
    <3>3. \A m \in desk[u].dropped \ desk[u].crossed : cache'[m].left = 0
      BY <3>1, SessionFields DEF DeskInv
    <3> QED BY <3>1, <3>2, <3>3, SessionKept
  <2> QED BY <2>1, <2>2
<1>3. ASSUME NEW m \in G!Slugs PROVE AgeInv(m)' /\ CacheInv(m)'
  <2>1. AgeInv(m) /\ CacheInv(m)
    BY DEF ModuleInv
  <2>2. AgeInv(m)'
    BY <2>1 DEF AgeInv
  <2>3. CASE cache'[m].left = 0
    BY <2>2, <2>3 DEF CacheInv
  <2>4. CASE cache'[m] = cache[m]
    <3>1. PICK e : e = cache[m]
      OBVIOUS
    <3>2. e = cache'[m] /\ (e.left > 0 => Given(m, e.on, e.failed, TTL - e.left + Delay) /\ Undisturbed(m, e.on, e.failed))
      BY <2>1, <2>4, <3>1 DEF CacheInv
    <3>3. (Given(m, e.on, e.failed, TTL - e.left + Delay) <=> Given(m, e.on, e.failed, TTL - e.left + Delay)')
          /\ (Undisturbed(m, e.on, e.failed) <=> Undisturbed(m, e.on, e.failed)')
      BY DEF Given, Undisturbed
    <3> QED BY <2>2, <3>2, <3>3 DEF CacheInv
  <2> QED BY <2>2, <2>3, <2>4
<1>4. ASSUME NEW g \in Gates PROVE GateInv(g)'
  <2>1. GateInv(g)
    BY DEF ModuleInv
  <2> QED BY <2>1, <1>0, GateKept
<1> QED BY <1>1, <1>2, <1>3, <1>4 DEF ModuleInv


(* The gate g moves to q: nothing else changes but questions that failed.    *)
LEMMA GateMoves ==
    ASSUME G!ModuleGateAssumption, ModuleInv, NEW g \in Gates, NEW q \in G!Gate,
           gate' = [gate EXCEPT ![g] = q],
           UNCHANGED <<gateMix, row, rowLock, tenantSub, period, desk, changes, sinceOn, sinceOff, disturbed, cache>>,
           sinceFailed' \in [G!Slugs -> 0 .. G!Horizon],
           \A m \in G!Slugs : sinceFailed'[m] = sinceFailed[m] \/ sinceFailed'[m] = 0,
           outages' \in Nat, GateInv(g)'
    PROVE  ModuleInv'
<1>0. G!TypeOK
  BY DEF ModuleInv
<1>t. /\ desk \in [Sessions -> G!Session] /\ gateMix \in GateMixes /\ row \in [G!Slugs -> G!States] /\ tenantSub \in G!Subs
      /\ period \in G!ToSet(G!Periods) /\ gate \in [Gates -> G!Gate] /\ sinceOn \in [G!Slugs -> 0 .. G!Horizon]
      /\ sinceOff \in [G!Slugs -> 0 .. G!Horizon] /\ sinceFailed \in [G!Slugs -> 0 .. G!Horizon] /\ disturbed \subseteq G!Slugs
      /\ \A m \in G!Slugs : rowLock[m] = NoSession \/ desk[rowLock[m]].pc # "idle"
      /\ rowLock \in [G!Slugs -> Sessions \cup {NoSession}] /\ cache \in [G!Slugs -> G!Entry] /\ changes \in Nat
  BY <1>0 DEF G!TypeOK
<1>1. G!TypeOK'
  <2>1. gate' \in [Gates -> G!Gate]
    BY <1>t
  <2> QED BY <2>1, <1>t DEF G!TypeOK
<1>2. ASSUME NEW u \in Sessions PROVE DeskInv(u)'
  <2>1. DeskInv(u)
    BY DEF ModuleInv
  <2> QED BY <2>1 DEF DeskInv, WrittenUpTo, Answering
<1>3. ASSUME NEW m \in G!Slugs PROVE AgeInv(m)' /\ CacheInv(m)'
  <2>1. AgeInv(m) /\ CacheInv(m)
    BY DEF ModuleInv
  <2>2. AgeInv(m)'
    BY <2>1 DEF AgeInv
  <2>3. PICK e : e = cache[m]
    OBVIOUS
  <2>4. e = cache'[m] /\ e \in G!Entry
        /\ (e.left > 0 => Given(m, e.on, e.failed, TTL - e.left + Delay) /\ Undisturbed(m, e.on, e.failed))
    BY <2>1, <2>3, <1>t DEF CacheInv
  <2>5. Undisturbed(m, e.on, e.failed) => Undisturbed(m, e.on, e.failed)'
    BY DEF Undisturbed
  <2>6. e.left \in 0 .. TTL /\ TTL \in Nat /\ Delay \in Nat
    BY <2>3, Types, <1>0, HorizonFacts
  <2>7. ASSUME Given(m, e.on, e.failed, TTL - e.left + Delay)
        PROVE  Given(m, e.on, e.failed, TTL - e.left + Delay)'
    <3>1. PICK n : n = TTL - e.left + Delay
      OBVIOUS
    <3>2. n \in Int /\ n >= 0
      BY <3>1, <2>6
    <3>3. Given(m, e.on, e.failed, n)'
      BY <2>7, <3>1, <3>2 DEF Given
    <3> QED BY <3>1, <3>3
  <2> QED BY <2>2, <2>4, <2>5, <2>7 DEF CacheInv
<1>4. ASSUME NEW h \in Gates PROVE GateInv(h)'
  <2>1. CASE h = g
    BY <2>1
  <2>2. CASE h # g
    <3>1. gate'[h] = gate[h] /\ GateInv(h)
      BY <2>2, <1>t DEF ModuleInv
    <3> QED BY <3>1, <1>0, GateKept
  <2> QED BY <2>1, <2>2
<1> QED BY <1>1, <1>2, <1>3, <1>4 DEF ModuleInv


LEMMA TypesNow ==
    ASSUME G!ModuleGateAssumption, ModuleInv
    PROVE  /\ G!TypeOK /\ NoSession \notin Sessions /\ desk \in [Sessions -> G!Session]
           /\ rowLock \in [G!Slugs -> Sessions \cup {NoSession}] /\ cache \in [G!Slugs -> G!Entry] /\ gate \in [Gates -> G!Gate]
           /\ row \in [G!Slugs -> G!States] /\ tenantSub \in G!Subs /\ changes \in Nat /\ outages \in Nat
           /\ \A s \in Sessions : desk[s].pc = "idle" => \A m \in G!Slugs : rowLock[m] # s
           /\ \A s \in Sessions : DeskInv(s) /\ desk[s] \in G!Session
           /\ sinceFailed \in [G!Slugs -> 0 .. G!Horizon]
<1>1. G!TypeOK /\ NoSession \notin Sessions /\ \A s \in Sessions : DeskInv(s)
  BY DEF ModuleInv, G!ModuleGateAssumption
<1>2. /\ desk \in [Sessions -> G!Session] /\ rowLock \in [G!Slugs -> Sessions \cup {NoSession}]
      /\ cache \in [G!Slugs -> G!Entry] /\ gate \in [Gates -> G!Gate] /\ row \in [G!Slugs -> G!States] /\ tenantSub \in G!Subs
      /\ changes \in Nat /\ outages \in Nat /\ sinceFailed \in [G!Slugs -> 0 .. G!Horizon]
      /\ \A m \in G!Slugs : rowLock[m] = NoSession \/ desk[rowLock[m]].pc # "idle"
  BY <1>1 DEF G!TypeOK
<1> QED BY <1>1, <1>2

LEMMA SessionBegins ==
    ASSUME G!ModuleGateAssumption, ModuleInv, NEW s \in Sessions, NEW kind \in G!Kinds, NEW new \in G!Session,
           G!Begin(s, kind, new), new.dropped = {}, new.pos = 1,
           (new.pc \in {"read", "write"} /\ Len(new.todo) >= 1) \/ new.pc = "commit",
           kind \in {"activate", "deactivate", "bootstrap"} \cup G!Direct => new.pc = "read",
           kind \in G!Direct => Len(new.todo) = 1
    PROVE  ModuleInv'
<1>1. PICK q : q = [new EXCEPT !.kind = kind]
  OBVIOUS
<1>2. q \in G!Session
  BY <1>1 DEF G!Session
<1>3. /\ q.kind = kind /\ q.pc = new.pc /\ q.todo = new.todo /\ q.pos = 1 /\ q.dropped = {}
  BY <1>1 DEF G!Session
<1>4. /\ desk[s].pc = "idle" /\ desk' = [desk EXCEPT ![s] = q] /\ changes' = changes + 1
      /\ UNCHANGED <<gateMix, rowLock, row, tenantSub, sinceOn, sinceOff, disturbed, period, cache, gate, sinceFailed, outages>>
  BY <1>1 DEF G!Begin, G!At, G!Records, G!Since, G!Counter
<1>5. \A m \in G!Slugs : rowLock'[m] # s
  BY <1>4, TypesNow
<1>6. desk'[s] = q
  BY <1>4, TypesNow
<1>7. DeskInv(s)'
  <2>0. Len(q.todo) \in Nat
    BY <1>2, SessionFields
  <2>1. q.pc \in {"read", "write", "drop"} => q.pos \in 1 .. Len(q.todo)
    BY <1>3, <2>0
  <2>2. q.pc # "idle" /\ q.kind \in G!Direct => Len(q.todo) = 1 /\ (q.pc \in {"read", "write"} => \A m \in G!Slugs : rowLock'[m] # s)
    BY <1>3, <1>5
  <2>3. q.kind \in {"activate", "deactivate", "bootstrap"} => q.pc = "read" /\ q.pos - 1 = 0
    BY <1>3
  <2>4. \A m \in q.dropped \ q.crossed : cache'[m].left = 0
    BY <1>3
  <2>5. 1 .. 0 = {}
    OBVIOUS
  <2>6. Answering(s)' => WrittenUpTo(s)' = 0 /\ q.pc = "read"
    BY <1>6, <2>3 DEF Answering, WrittenUpTo
  <2> QED BY <1>6, <2>1, <2>2, <2>4, <2>5, <2>6 DEF DeskInv
<1>8. /\ rowLock' \in [G!Slugs -> Sessions \cup {NoSession}] /\ cache' \in [G!Slugs -> G!Entry]
      /\ \A m \in G!Slugs : rowLock'[m] = rowLock[m] /\ cache'[m] = cache[m]
      /\ changes' \in Nat /\ outages' \in Nat
  BY <1>4, TypesNow
<1>9. \A m \in G!Slugs : rowLock'[m] = s => q.pc # "idle"
  BY <1>5
<1> QED BY <1>2, <1>4, <1>7, <1>8, <1>9, SessionMoves

LEMMA ListingFacts ==
    \A todo \in Seq(G!Slugs) : /\ G!Listing(todo) \in G!Session /\ G!Listing(todo).dropped = {} /\ G!Listing(todo).pos = 1
                               /\ G!Listing(todo).todo = todo
                               /\ G!Listing(todo).pc = IF todo = <<>> THEN "commit" ELSE "read"
                               /\ [G!Listing(todo) EXCEPT !.sub = "active"] \in G!Session
                               /\ [G!Listing(todo) EXCEPT !.sub = "active"].dropped = {}
                               /\ [G!Listing(todo) EXCEPT !.sub = "active"].pos = 1
                               /\ [G!Listing(todo) EXCEPT !.sub = "active"].todo = todo
                               /\ [G!Listing(todo) EXCEPT !.sub = "active"].pc = IF todo = <<>> THEN "commit" ELSE "read"
<1> SUFFICES ASSUME NEW todo \in Seq(G!Slugs)
             PROVE  /\ G!Listing(todo) \in G!Session /\ G!Listing(todo).dropped = {} /\ G!Listing(todo).pos = 1
                    /\ G!Listing(todo).todo = todo
                    /\ G!Listing(todo).pc = IF todo = <<>> THEN "commit" ELSE "read"
                    /\ [G!Listing(todo) EXCEPT !.sub = "active"] \in G!Session
                    /\ [G!Listing(todo) EXCEPT !.sub = "active"].dropped = {}
                    /\ [G!Listing(todo) EXCEPT !.sub = "active"].pos = 1
                    /\ [G!Listing(todo) EXCEPT !.sub = "active"].todo = todo
                    /\ [G!Listing(todo) EXCEPT !.sub = "active"].pc = IF todo = <<>> THEN "commit" ELSE "read"
  OBVIOUS
<1>1. PICK c \in {"commit", "read"} : c = IF todo = <<>> THEN "commit" ELSE "read"
  OBVIOUS
<1>2. G!Listing(todo) = [G!Idle EXCEPT !.pc = c, !.todo = todo]
  BY <1>1 DEF G!Listing
<1>3. G!Idle \in G!Session /\ G!Idle.dropped = {} /\ G!Idle.pos = 1
  BY IdleFacts
<1>4. PICK r : r = G!Listing(todo)
  OBVIOUS
<1>5. r \in G!Session /\ r.dropped = {} /\ r.pos = 1 /\ r.todo = todo /\ r.pc = c
  BY <1>2, <1>3, <1>4 DEF G!Session
<1>6. PICK u : u = [r EXCEPT !.sub = "active"]
  OBVIOUS
<1>7. u \in G!Session /\ u.dropped = {} /\ u.pos = 1 /\ u.todo = todo /\ u.pc = c
  BY <1>5, <1>6 DEF G!Session, G!Subs
<1> QED BY <1>1, <1>4, <1>5, <1>6, <1>7

LEMMA AdministratorAsks ==
    ASSUME G!ModuleGateAssumption, ModuleInv, NEW s \in Sessions, NEW kind \in G!Direct, NEW m \in G!Slugs, G!Ask(s, kind, m)
    PROVE  ModuleInv'
<1>1. <<m>> \in Seq(G!Slugs) /\ Len(<<m>>) = 1 /\ <<m>> # <<>>
  OBVIOUS
<1>2. PICK new : new = G!Listing(<<m>>)
  OBVIOUS
<1>3. new \in G!Session /\ new.dropped = {} /\ new.pos = 1 /\ new.todo = <<m>> /\ new.pc = "read"
  BY <1>1, <1>2, ListingFacts
<1>4. G!Begin(s, kind, new) /\ kind \in G!Kinds
  BY <1>2 DEF G!Ask, G!Kinds
<1>5. Len(new.todo) = 1 /\ Len(new.todo) >= 1 /\ new.pc \in {"read", "write"}
  BY <1>1, <1>3
<1> QED BY <1>3, <1>4, <1>5, SessionBegins

LEMMA BootstrapStep ==
    ASSUME G!ModuleGateAssumption, ModuleInv, NEW s \in Sessions, G!Bootstrap(s)
    PROVE  ModuleInv'
<1>1. G!Bootstrapped \in Seq(G!Slugs) /\ Len(G!Bootstrapped) = 2 /\ G!Bootstrapped # <<>>
  BY RelevantAreSlugs DEF G!Bootstrapped
<1>2. PICK new : new = G!Listing(G!Bootstrapped)
  OBVIOUS
<1>3. new \in G!Session /\ new.dropped = {} /\ new.pos = 1 /\ new.todo = G!Bootstrapped /\ new.pc = "read"
  BY <1>1, <1>2, ListingFacts
<1>4. G!Begin(s, "bootstrap", new) /\ "bootstrap" \in G!Kinds /\ "bootstrap" \notin G!Direct
  BY <1>2 DEF G!Bootstrap, G!Kinds, G!Direct
<1>5. Len(new.todo) >= 1
  BY <1>1, <1>3
<1> QED BY <1>3, <1>4, <1>5, SessionBegins

LEMMA OnboardStep ==
    ASSUME G!ModuleGateAssumption, ModuleInv, NEW s \in Sessions, G!Onboard(s)
    PROVE  ModuleInv'
<1>1. PICK todo \in G!SetToSeqs(G!Relevant) : G!Begin(s, "onboard", [G!Listing(todo) EXCEPT !.sub = "active"])
  BY DEF G!Onboard
<1>2. todo \in Seq(G!Slugs)
  BY OrdersOfSlugs, RelevantAreSlugs
<1>3. PICK new : new = [G!Listing(todo) EXCEPT !.sub = "active"]
  OBVIOUS
<1>4. /\ new \in G!Session /\ new.dropped = {} /\ new.pos = 1 /\ new.todo = todo
      /\ new.pc = IF todo = <<>> THEN "commit" ELSE "read"
  BY <1>2, <1>3, ListingFacts
<1>5. G!Begin(s, "onboard", new) /\ "onboard" \in G!Kinds /\ "onboard" \notin {"activate", "deactivate", "bootstrap"} \cup G!Direct
  BY <1>1, <1>3 DEF G!Kinds, G!Direct
<1>6. todo # <<>> => Len(todo) >= 1
  BY <1>2
<1>7. (new.pc \in {"read", "write"} /\ Len(new.todo) >= 1) \/ new.pc = "commit"
  BY <1>4, <1>6
<1> QED BY <1>4, <1>5, <1>7, SessionBegins

LEMMA LapseStep ==
    ASSUME G!ModuleGateAssumption, ModuleInv, NEW s \in Sessions, G!Lapse(s)
    PROVE  ModuleInv'
<1>0. "lapse" \in G!Kinds /\ "lapse" \notin {"activate", "deactivate", "bootstrap"} \cup G!Direct
  BY DEF G!Kinds, G!Direct
<1>t. row \in [G!Slugs -> G!States] /\ G!Idle \in G!Session /\ G!Idle.dropped = {} /\ G!Idle.pos = 1 /\ {"past_due", "expired"} \subseteq G!Subs
  BY TypesNow, IdleFacts DEF G!Subs
<1>1. ASSUME NEW todo \in G!SetToSeqs({m \in G!Slugs : row[m] = "on"}),
             G!Begin(s, "lapse", [G!Idle EXCEPT !.pc = IF todo = <<>> THEN "commit" ELSE "write",
                                            !.todo = todo, !.seen = row, !.sub = "expired"])
      PROVE  ModuleInv'
  <2>1. todo \in Seq(G!Slugs)
    BY OrdersOfSlugs
  <2>2. PICK c \in {"commit", "write"} : c = IF todo = <<>> THEN "commit" ELSE "write"
    OBVIOUS
  <2>3. PICK new : new = [G!Idle EXCEPT !.pc = c, !.todo = todo, !.seen = row, !.sub = "expired"]
    OBVIOUS
  <2>4. new \in G!Session /\ new.dropped = {} /\ new.pos = 1 /\ new.todo = todo /\ new.pc = c
    BY <1>t, <2>1, <2>3 DEF G!Session
  <2>5. G!Begin(s, "lapse", new)
    BY <1>1, <2>2, <2>3
  <2>6. todo # <<>> => Len(todo) >= 1
    BY <2>1
  <2>7. (new.pc \in {"read", "write"} /\ Len(new.todo) >= 1) \/ new.pc = "commit"
    BY <2>2, <2>4, <2>6
  <2> QED BY <1>0, <2>4, <2>5, <2>7, SessionBegins
<1>2. ASSUME G!Begin(s, "lapse", [G!Idle EXCEPT !.pc = "commit", !.sub = IF period = "grace" THEN "past_due" ELSE "expired"])
      PROVE  ModuleInv'
  <2>1. PICK b \in G!Subs : b = IF period = "grace" THEN "past_due" ELSE "expired"
    BY <1>t
  <2>2. PICK new : new = [G!Idle EXCEPT !.pc = "commit", !.sub = b]
    OBVIOUS
  <2>3. new \in G!Session /\ new.dropped = {} /\ new.pos = 1 /\ new.pc = "commit"
    BY <1>t, <2>2 DEF G!Session
  <2>4. G!Begin(s, "lapse", new)
    BY <1>2, <2>1, <2>2
  <2> QED BY <1>0, <2>3, <2>4, SessionBegins
<1> QED BY <1>1, <1>2 DEF G!Lapse


LEMMA AdvanceFacts ==
    ASSUME NEW r \in G!Session, r.pos \in 1 .. Len(r.todo), NEW q, q = G!Advance(r)
    PROVE  /\ q \in G!Session /\ q.todo = r.todo /\ q.kind = r.kind /\ q.new = r.new /\ q.answer = r.answer
           /\ q.dropped = r.dropped /\ q.crossed = r.crossed
           /\ \/ q.pc \in {"read", "write"} /\ q.pos = r.pos + 1 /\ q.pos \in 1 .. Len(r.todo) /\ Len(r.todo) > 1
              \/ q.pc = "commit" /\ q.pos = r.pos /\ q.pos = Len(r.todo)
<1>1. r.pos \in Nat /\ Len(r.todo) \in Nat
  BY SessionFields
<1>2. q \in G!Session
  BY IdleFacts
<1>3. CASE r.pos < Len(r.todo)
  <2>1. PICK c \in {"write", "read"} : c = IF r.kind \in {"onboard", "lapse"} THEN "write" ELSE "read"
    OBVIOUS
  <2>2. q = [r EXCEPT !.pos = r.pos + 1, !.pc = c]
    BY <1>3, <2>1 DEF G!Advance
  <2>3. /\ q.todo = r.todo /\ q.kind = r.kind /\ q.new = r.new /\ q.answer = r.answer
        /\ q.dropped = r.dropped /\ q.crossed = r.crossed /\ q.pc = c /\ q.pos = r.pos + 1
    BY <2>2 DEF G!Session
  <2>4. r.pos + 1 \in 1 .. Len(r.todo) /\ Len(r.todo) > 1
    BY <1>1, <1>3
  <2> QED BY <1>2, <2>1, <2>3, <2>4
<1>4. CASE ~ r.pos < Len(r.todo)
  <2>1. q = [r EXCEPT !.pc = "commit"]
    BY <1>4 DEF G!Advance
  <2>2. /\ q.todo = r.todo /\ q.kind = r.kind /\ q.new = r.new /\ q.answer = r.answer
        /\ q.dropped = r.dropped /\ q.crossed = r.crossed /\ q.pc = "commit" /\ q.pos = r.pos
    BY <2>1 DEF G!Session
  <2>3. r.pos = Len(r.todo)
    BY <1>1, <1>4
  <2> QED BY <1>2, <2>2, <2>3
<1> QED BY <1>3, <1>4

(* Where the session s stands, before its step.                              *)
LEMMA Standing ==
    ASSUME G!ModuleGateAssumption, ModuleInv, NEW s \in Sessions
    PROVE  /\ desk[s] \in G!Session
           /\ desk[s].pc \in {"read", "write", "drop"} =>
                 /\ desk[s].pos \in 1 .. Len(desk[s].todo) /\ Len(desk[s].todo) \in Nat
                 /\ G!Current(s) \in G!Slugs /\ G!Current(s) = desk[s].todo[desk[s].pos]
           /\ desk[s].pc # "idle" /\ desk[s].kind \in G!Direct =>
                 /\ Len(desk[s].todo) = 1
                 /\ desk[s].pc \in {"read", "write"} => \A m \in G!Slugs : rowLock[m] # s
           /\ desk[s].pc # "idle" /\ desk[s].kind \in {"activate", "deactivate", "bootstrap"} =>
                 /\ desk[s].pc = "commit" => desk[s].pos = Len(desk[s].todo)
                 /\ \A i \in 1 .. (IF desk[s].pc \in {"drop", "commit"} THEN desk[s].pos ELSE desk[s].pos - 1) :
                       rowLock[desk[s].todo[i]] = s /\ desk[s].new[desk[s].todo[i]] = desk[s].answer[desk[s].todo[i]]
           /\ \A m \in desk[s].dropped \ desk[s].crossed : m \in G!Slugs /\ cache[m].left = 0
<1>1. desk[s] \in G!Session /\ DeskInv(s)
  BY TypesNow
<1>2. /\ desk[s].todo \in Seq(G!Slugs) /\ desk[s].pos \in Nat /\ Len(desk[s].todo) \in Nat /\ desk[s].dropped \subseteq G!Slugs
      /\ \A i \in 1 .. Len(desk[s].todo) : desk[s].todo[i] \in G!Slugs
  BY <1>1, SessionFields
<1>3. desk[s].pc \in {"read", "write", "drop"} => desk[s].pos \in 1 .. Len(desk[s].todo)
  BY <1>1 DEF DeskInv
<1>4. desk[s].pc # "idle" /\ desk[s].kind \in G!Direct =>
         Len(desk[s].todo) = 1 /\ (desk[s].pc \in {"read", "write"} => \A m \in G!Slugs : rowLock[m] # s)
  BY <1>1 DEF DeskInv
<1>5. desk[s].pc # "idle" /\ desk[s].kind \in {"activate", "deactivate", "bootstrap"} =>
         /\ desk[s].pc = "commit" => desk[s].pos = Len(desk[s].todo)
         /\ \A i \in 1 .. (IF desk[s].pc \in {"drop", "commit"} THEN desk[s].pos ELSE desk[s].pos - 1) :
               rowLock[desk[s].todo[i]] = s /\ desk[s].new[desk[s].todo[i]] = desk[s].answer[desk[s].todo[i]]
  BY <1>1 DEF DeskInv, WrittenUpTo, Answering
<1>6. \A m \in desk[s].dropped \ desk[s].crossed : cache[m].left = 0
  BY <1>1 DEF DeskInv
<1> QED BY <1>1, <1>2, <1>3, <1>4, <1>5, <1>6 DEF G!Current

(* The same, for the record q it moves to.                                   *)
LEMMA StandingNext ==
    ASSUME G!ModuleGateAssumption, ModuleInv, NEW s \in Sessions, NEW q \in G!Session, desk'[s] = q,
           q.pc \in {"read", "write", "drop"} => q.pos \in 1 .. Len(q.todo),
           q.pc # "idle" /\ q.kind \in G!Direct =>
              Len(q.todo) = 1 /\ (q.pc \in {"read", "write"} => \A m \in G!Slugs : rowLock'[m] # s),
           q.pc # "idle" /\ q.kind \in {"activate", "deactivate", "bootstrap"} =>
              /\ q.pc = "commit" => q.pos = Len(q.todo)
              /\ \A i \in 1 .. (IF q.pc \in {"drop", "commit"} THEN q.pos ELSE q.pos - 1) :
                    rowLock'[q.todo[i]] = s /\ q.new[q.todo[i]] = q.answer[q.todo[i]],
           \A m \in q.dropped \ q.crossed : cache'[m].left = 0
    PROVE  DeskInv(s)'
BY DEF DeskInv, WrittenUpTo, Answering


(* A session that keeps its records, and no key is deleted.                  *)
LEMMA KeepsRecords ==
    ASSUME G!ModuleGateAssumption, ModuleInv, NEW s \in Sessions, NEW q \in G!Session,
           desk' = [desk EXCEPT ![s] = q], q.pc = "idle" => \A m \in G!Slugs : rowLock[m] # s,
           UNCHANGED <<gateMix, rowLock, row, tenantSub, period, sinceOn, sinceOff, disturbed, gate, sinceFailed, cache>>,
           changes' \in Nat, outages' \in Nat, DeskInv(s)'
    PROVE  ModuleInv'
<1>1. /\ rowLock' \in [G!Slugs -> Sessions \cup {NoSession}] /\ cache' \in [G!Slugs -> G!Entry]
      /\ \A m \in G!Slugs : rowLock'[m] = rowLock[m] /\ cache'[m] = cache[m]
  BY TypesNow
<1>2. \A m \in G!Slugs : rowLock'[m] = s => q.pc # "idle"
  BY <1>1
<1> QED BY <1>1, <1>2, SessionMoves

LEMMA IdleSession ==
    ASSUME G!ModuleGateAssumption, ModuleInv, NEW s \in Sessions, desk'[s] = G!Idle
    PROVE  DeskInv(s)'
<1>1. G!Idle \in G!Session /\ G!Idle.pc = "idle" /\ G!Idle.dropped = {}
  BY IdleFacts
<1> QED BY <1>1 DEF DeskInv

LEMMA SessionReads ==
    ASSUME G!ModuleGateAssumption, ModuleInv, NEW s \in Sessions, G!Read(s)
    PROVE  ModuleInv'
<1> PICK p : p = desk[s]
  OBVIOUS
<1>0. /\ p \in G!Session /\ p.pc = "read" /\ p.pos \in 1 .. Len(p.todo) /\ Len(p.todo) \in Nat /\ p.pos \in Nat
      /\ G!Current(s) \in G!Slugs /\ G!Current(s) = p.todo[p.pos]
      /\ p.kind \in G!Direct => Len(p.todo) = 1 /\ \A m \in G!Slugs : rowLock[m] # s
      /\ p.kind \in {"activate", "deactivate", "bootstrap"} =>
            \A i \in 1 .. (p.pos - 1) : rowLock[p.todo[i]] = s /\ p.new[p.todo[i]] = p.answer[p.todo[i]]
      /\ \A m \in p.dropped \ p.crossed : cache[m].left = 0
  BY Standing, SessionFields DEF G!Read, G!At
<1>u. UNCHANGED <<gateMix, rowLock, row, tenantSub, period, sinceOn, sinceOff, disturbed, gate, sinceFailed, cache, changes, outages>>
  BY DEF G!Read, G!Records, G!Since, G!Counter
<1>n. changes' \in Nat /\ outages' \in Nat /\ row \in [G!Slugs -> G!States] /\ desk \in [Sessions -> G!Session]
  BY <1>u, TypesNow
<1> PICK v : v = [p.seen EXCEPT ![G!Current(s)] = row[G!Current(s)]]
  OBVIOUS
<1>v. v \in [G!Slugs -> G!States]
  BY <1>0, <1>n, SessionFields
<1>1. CASE p.kind = "deactivate" /\ row[G!Current(s)] = "none"
  <2>1. desk' = [desk EXCEPT ![s] = G!Idle]
    BY <1>1 DEF G!Read
  <2>2. desk'[s] = G!Idle /\ G!Idle \in G!Session
    BY <2>1, <1>n, IdleFacts
  <2>3. \A m \in G!Slugs : rowLock[m] # s
    BY <1>0, <1>1 DEF G!Direct
  <2> QED BY <2>1, <2>2, <2>3, <1>u, <1>n, IdleSession, KeepsRecords
<1>2. CASE /\ ~(p.kind = "deactivate" /\ row[G!Current(s)] = "none")
           /\ p.kind = "onboard" /\ ~G!AtEnd(s)
  <2> PICK q : q = [p EXCEPT !.seen = v, !.pos = p.pos + 1]
    OBVIOUS
  <2>a. q = [desk[s] EXCEPT !.seen = [desk[s].seen EXCEPT ![G!Current(s)] = row[G!Current(s)]], !.pos = desk[s].pos + 1]
    OBVIOUS
  <2>b. ~(desk[s].kind = "deactivate" /\ row[G!Current(s)] = "none") /\ desk[s].kind = "onboard" /\ ~G!AtEnd(s)
    BY <1>2
  <2>1. desk' = [desk EXCEPT ![s] = q]
    BY <2>a, <2>b, Zenon DEF G!Read
  <2>c. p.pos + 1 \in Nat
    BY <1>0
  <2>2. q \in G!Session /\ q.pc = "read" /\ q.kind = "onboard" /\ q.todo = p.todo /\ q.dropped = p.dropped
        /\ q.crossed = p.crossed /\ q.pos = p.pos + 1
    BY <1>0, <1>v, <1>2, <2>c DEF G!Session
  <2>3. q.pos \in 1 .. Len(q.todo)
    BY <1>0, <1>2, <2>2 DEF G!AtEnd
  <2>4. desk'[s] = q
    BY <2>1, <1>n
  <2>5. "onboard" \notin {"activate", "deactivate", "bootstrap"} \cup G!Direct
    BY DEF G!Direct
  <2>6. \A m \in q.dropped \ q.crossed : cache'[m].left = 0
    BY <2>2, <1>0, <1>u
  <2>i. q.kind \notin G!Direct /\ q.kind \notin {"activate", "deactivate", "bootstrap"}
    BY <2>2, <2>5
  <2>7. DeskInv(s)'
    BY <2>2, <2>3, <2>4, <2>i, <2>6, StandingNext
  <2>8. q.pc # "idle"
    BY <2>2
  <2> QED BY <2>1, <2>2, <2>7, <2>8, <1>u, <1>n, KeepsRecords
<1>3. CASE /\ ~(p.kind = "deactivate" /\ row[G!Current(s)] = "none")
           /\ ~(p.kind = "onboard" /\ ~G!AtEnd(s))
  <2> PICK n \in Nat : n = IF p.kind = "onboard" THEN 1 ELSE p.pos
    BY <1>0
  <2> PICK q : q = [p EXCEPT !.seen = v, !.pc = "write", !.pos = n]
    OBVIOUS
  <2>a. q = [desk[s] EXCEPT !.seen = [desk[s].seen EXCEPT ![G!Current(s)] = row[G!Current(s)]], !.pc = "write",
                            !.pos = IF desk[s].kind = "onboard" THEN 1 ELSE desk[s].pos]
    OBVIOUS
  <2>b. ~(desk[s].kind = "deactivate" /\ row[G!Current(s)] = "none") /\ ~(desk[s].kind = "onboard" /\ ~G!AtEnd(s))
    BY <1>3
  <2>1. desk' = [desk EXCEPT ![s] = q]
    BY <2>a, <2>b, Zenon DEF G!Read
  <2>2. q \in G!Session /\ q.pc = "write" /\ q.kind = p.kind /\ q.todo = p.todo /\ q.dropped = p.dropped
        /\ q.crossed = p.crossed /\ q.pos = n /\ q.new = p.new /\ q.answer = p.answer
    BY <1>0, <1>v, <1>3 DEF G!Session
  <2>3. q.pos \in 1 .. Len(q.todo)
    BY <1>0, <2>2
  <2>4. desk'[s] = q
    BY <2>1, <1>n
  <2>5. q.kind \in G!Direct => Len(q.todo) = 1 /\ \A m \in G!Slugs : rowLock'[m] # s
    BY <2>2, <1>0, <1>u
  <2>6. \A m \in q.dropped \ q.crossed : cache'[m].left = 0
    BY <2>2, <1>0, <1>u
  <2>7. q.kind \in {"activate", "deactivate", "bootstrap"} =>
            \A i \in 1 .. (q.pos - 1) : rowLock'[q.todo[i]] = s /\ q.new[q.todo[i]] = q.answer[q.todo[i]]
    BY <2>2, <1>0, <1>u
  <2>8. DeskInv(s)'
    BY <2>2, <2>3, <2>4, <2>5, <2>6, <2>7, StandingNext
  <2>9. q.pc # "idle"
    BY <2>2
  <2> QED BY <2>1, <2>2, <2>8, <2>9, <1>u, <1>n, KeepsRecords
<1> QED BY <1>1, <1>2, <1>3

(* The session s goes on after its record p, which it has written or left.   *)
LEMMA GoesOn ==
    ASSUME G!ModuleGateAssumption, ModuleInv, NEW s \in Sessions, NEW r \in G!Session, NEW q, q = G!Advance(r),
           desk' = [desk EXCEPT ![s] = q], r.pos \in 1 .. Len(r.todo),
           r.kind \in G!Direct => Len(r.todo) = 1,
           r.kind \in {"activate", "deactivate", "bootstrap"} =>
               \A i \in 1 .. r.pos : rowLock'[r.todo[i]] = s /\ r.new[r.todo[i]] = r.answer[r.todo[i]],
           \A m \in r.dropped \ r.crossed : cache'[m].left = 0
    PROVE  q \in G!Session /\ q.pc # "idle" /\ DeskInv(s)'
<1>0. r.pos \in Nat /\ Len(r.todo) \in Nat /\ desk'[s] = q
  BY SessionFields, TypesNow
<1>1. /\ q \in G!Session /\ q.todo = r.todo /\ q.kind = r.kind /\ q.new = r.new /\ q.answer = r.answer
      /\ q.dropped = r.dropped /\ q.crossed = r.crossed
      /\ \/ q.pc \in {"read", "write"} /\ q.pos = r.pos + 1 /\ q.pos \in 1 .. Len(r.todo) /\ Len(r.todo) > 1
         \/ q.pc = "commit" /\ q.pos = r.pos /\ q.pos = Len(r.todo)
  BY AdvanceFacts
<1>a. q.pos \in 1 .. Len(q.todo)
  BY <1>1, <1>0
<1>2. q.pc # "idle" /\ (q.pc \in {"read", "write", "drop"} => q.pos \in 1 .. Len(q.todo))
  BY <1>1, <1>a
<1>b. q.kind \in G!Direct => Len(r.todo) = 1
  BY <1>1
<1>c. Len(r.todo) = 1 => q.pc = "commit"
  BY <1>1, <1>0
<1>3. q.kind \in G!Direct => Len(q.todo) = 1 /\ (q.pc \in {"read", "write"} => \A m \in G!Slugs : rowLock'[m] # s)
  BY <1>1, <1>b, <1>c
<1>4. q.kind \in {"activate", "deactivate", "bootstrap"} =>
           /\ q.pc = "commit" => q.pos = Len(q.todo)
           /\ \A i \in 1 .. (IF q.pc \in {"drop", "commit"} THEN q.pos ELSE q.pos - 1) :
                 rowLock'[q.todo[i]] = s /\ q.new[q.todo[i]] = q.answer[q.todo[i]]
  <2>1. (IF q.pc \in {"drop", "commit"} THEN q.pos ELSE q.pos - 1) = r.pos
    BY <1>0, <1>1
  <2> QED BY <2>1, <1>1
<1>5. \A m \in q.dropped \ q.crossed : cache'[m].left = 0
  BY <1>1
<1> QED BY <1>0, <1>1, <1>2, <1>3, <1>4, <1>5, StandingNext

LEMMA SkipStep ==
    ASSUME G!ModuleGateAssumption, ModuleInv, NEW s \in Sessions, G!Skip(s)
    PROVE  ModuleInv'
<1> PICK r : r = desk[s]
  OBVIOUS
<1> PICK q : q = G!Advance(r)
  OBVIOUS
<1>0. /\ r \in G!Session /\ r.pc = "write" /\ r.pos \in 1 .. Len(r.todo) /\ r.kind = "onboard"
      /\ \A m \in r.dropped \ r.crossed : cache[m].left = 0
  BY Standing DEF G!Skip, G!Skips, G!At
<1>1. desk' = [desk EXCEPT ![s] = q]
  BY DEF G!Skip
<1>u. UNCHANGED <<gateMix, rowLock, row, tenantSub, period, sinceOn, sinceOff, disturbed, gate, sinceFailed, cache, changes, outages>>
  BY DEF G!Skip, G!Records, G!Since, G!Counter
<1>2. "onboard" \notin {"activate", "deactivate", "bootstrap"} \cup G!Direct
  BY DEF G!Direct
<1>3. \A m \in r.dropped \ r.crossed : cache'[m].left = 0
  BY <1>0, <1>u
<1>4. q \in G!Session /\ q.pc # "idle" /\ DeskInv(s)'
  BY <1>0, <1>1, <1>2, <1>3, GoesOn
<1>5. changes' \in Nat /\ outages' \in Nat
  BY <1>u, TypesNow
<1> QED BY <1>1, <1>4, <1>5, <1>u, KeepsRecords

LEMMA DropFailsStep ==
    ASSUME G!ModuleGateAssumption, ModuleInv, NEW s \in Sessions, G!DropFails(s)
    PROVE  ModuleInv'
<1> PICK r : r = desk[s]
  OBVIOUS
<1> PICK q : q = G!Advance(r)
  OBVIOUS
<1>0. /\ r \in G!Session /\ r.pc = "drop" /\ r.pos \in 1 .. Len(r.todo)
      /\ r.kind \in G!Direct => Len(r.todo) = 1
      /\ r.kind \in {"activate", "deactivate", "bootstrap"} =>
            \A i \in 1 .. r.pos : rowLock[r.todo[i]] = s /\ r.new[r.todo[i]] = r.answer[r.todo[i]]
      /\ \A m \in r.dropped \ r.crossed : cache[m].left = 0
  BY Standing DEF G!DropFails, G!At
<1>1. desk' = [desk EXCEPT ![s] = q]
  BY DEF G!DropFails
<1>u. /\ UNCHANGED <<gateMix, rowLock, row, tenantSub, period, sinceOn, sinceOff, disturbed, gate, sinceFailed, cache, changes>>
      /\ outages' = outages + 1
  BY DEF G!DropFails, G!Records, G!Since, G!Counter
<1>3. /\ \A m \in r.dropped \ r.crossed : cache'[m].left = 0
      /\ r.kind \in {"activate", "deactivate", "bootstrap"} =>
            \A i \in 1 .. r.pos : rowLock'[r.todo[i]] = s /\ r.new[r.todo[i]] = r.answer[r.todo[i]]
  BY <1>0, <1>u
<1>a. r.kind \in G!Direct => Len(r.todo) = 1
  BY <1>0
<1>b. r \in G!Session /\ r.pos \in 1 .. Len(r.todo)
  BY <1>0
<1>4. q \in G!Session /\ q.pc # "idle" /\ DeskInv(s)'
  BY <1>a, <1>b, <1>1, <1>3, GoesOn, Zenon
<1>5. changes' \in Nat /\ outages' \in Nat
  BY <1>u, TypesNow
<1> QED BY <1>1, <1>4, <1>5, <1>u, KeepsRecords

LEMMA DropStep ==
    ASSUME G!ModuleGateAssumption, ModuleInv, NEW s \in Sessions, G!Drop(s)
    PROVE  ModuleInv'
<1>kp. PICK p : p = desk[s]
  OBVIOUS
<1>km. PICK m : m = G!Current(s)
  OBVIOUS
<1>kr. PICK r : r = [p EXCEPT !.dropped = p.dropped \cup {m}, !.crossed = p.crossed \ {m}]
  OBVIOUS
<1>kq. PICK q : q = G!Advance(r)
  OBVIOUS
<1>0. /\ p \in G!Session /\ p.pc = "drop" /\ p.pos \in 1 .. Len(p.todo) /\ m \in G!Slugs
      /\ p.kind \in G!Direct => Len(p.todo) = 1
      /\ p.kind \in {"activate", "deactivate", "bootstrap"} =>
            \A i \in 1 .. p.pos : rowLock[p.todo[i]] = s /\ p.new[p.todo[i]] = p.answer[p.todo[i]]
      /\ \A x \in p.dropped \ p.crossed : x \in G!Slugs /\ cache[x].left = 0
      /\ p.dropped \subseteq G!Slugs /\ p.crossed \subseteq G!Slugs
  BY <1>kp, <1>km, Standing, SessionFields DEF G!Drop, G!At
<1>r. /\ r \in G!Session /\ r.pos = p.pos /\ r.todo = p.todo /\ r.kind = p.kind /\ r.new = p.new /\ r.answer = p.answer
      /\ r.dropped = p.dropped \cup {m} /\ r.crossed = p.crossed \ {m}
  BY <1>0, <1>kr DEF G!Session
<1>a. r = [desk[s] EXCEPT !.dropped = desk[s].dropped \cup {G!Current(s)}, !.crossed = desk[s].crossed \ {G!Current(s)}]
  BY <1>kp, <1>km, <1>kr
<1>1. desk' = [desk EXCEPT ![s] = q]
  BY <1>a, <1>kq, Zenon DEF G!Drop
<1>u. /\ UNCHANGED <<gateMix, rowLock, row, tenantSub, period, sinceOn, sinceOff, disturbed, gate, sinceFailed, changes, outages>>
      /\ cache' = [cache EXCEPT ![m] = G!NoEntry]
  BY <1>km DEF G!Drop, G!Records, G!Since, G!Without
<1>e. G!NoEntry \in G!Entry /\ G!NoEntry.left = 0
  BY HorizonFacts DEF G!NoEntry, G!Entry
<1>c. /\ cache' \in [G!Slugs -> G!Entry] /\ rowLock' \in [G!Slugs -> Sessions \cup {NoSession}] /\ changes' \in Nat /\ outages' \in Nat
      /\ \A x \in G!Slugs : (cache'[x] = cache[x] \/ cache'[x].left = 0) /\ rowLock'[x] = rowLock[x]
      /\ cache'[m].left = 0
  BY <1>0, <1>u, <1>e, TypesNow
<1>3. \A x \in r.dropped \ r.crossed : cache'[x].left = 0
  <2> SUFFICES ASSUME NEW x \in r.dropped \ r.crossed, x # m PROVE cache'[x].left = 0
    BY <1>c
  <2>1. x \in p.dropped \ p.crossed
    BY <1>r
  <2> QED BY <2>1, <1>0, <1>c
<1>4. r.kind \in {"activate", "deactivate", "bootstrap"} =>
            \A i \in 1 .. r.pos : rowLock'[r.todo[i]] = s /\ r.new[r.todo[i]] = r.answer[r.todo[i]]
  BY <1>0, <1>r, <1>u
<1>5. r.pos \in 1 .. Len(r.todo) /\ (r.kind \in G!Direct => Len(r.todo) = 1)
  BY <1>0, <1>r
<1>b. r \in G!Session /\ r.pos \in 1 .. Len(r.todo)
  BY <1>r, <1>5
<1>d. r.kind \in G!Direct => Len(r.todo) = 1
  BY <1>5
<1>6. q \in G!Session /\ q.pc # "idle" /\ DeskInv(s)'
  BY <1>b, <1>d, <1>1, <1>3, <1>4, <1>kq, GoesOn, Zenon
<1> QED BY <1>1, <1>6, <1>u, <1>c, SessionMoves


(* A session that gives up releases the records it holds.                    *)
LEMMA SessionGivesUp ==
    ASSUME G!ModuleGateAssumption, ModuleInv, NEW s \in Sessions, G!Rollback(s)
    PROVE  ModuleInv'
<1>u. /\ UNCHANGED <<gateMix, row, tenantSub, period, sinceOn, sinceOff, disturbed, gate, sinceFailed, cache, changes, outages>>
      /\ desk' = [desk EXCEPT ![s] = G!Idle] /\ rowLock' = [m \in G!Slugs |-> IF rowLock[m] = s THEN NoSession ELSE rowLock[m]]
  BY DEF G!Rollback, G!Release, G!Records, G!Since, G!Counter
<1>1. /\ cache' \in [G!Slugs -> G!Entry] /\ changes' \in Nat /\ outages' \in Nat /\ desk'[s] = G!Idle
      /\ rowLock' \in [G!Slugs -> Sessions \cup {NoSession}] /\ G!Idle \in G!Session
      /\ \A m \in G!Slugs : cache'[m] = cache[m]
  BY <1>u, TypesNow, IdleFacts
<1>2. \A m \in G!Slugs : \/ rowLock'[m] = rowLock[m]
                         \/ rowLock'[m] \in {s, NoSession} /\ rowLock[m] \in {s, NoSession}
  BY <1>u
<1>3. \A m \in G!Slugs : rowLock'[m] # s
  BY <1>u, TypesNow
<1>4. DeskInv(s)'
  BY <1>1, IdleSession
<1> QED BY <1>u, <1>1, <1>2, <1>3, <1>4, SessionMoves

LEMMA DuplicateStep ==
    ASSUME G!ModuleGateAssumption, ModuleInv, NEW s \in Sessions, G!Duplicate(s) \/ G!Victim(s)
    PROVE  ModuleInv'
BY SessionGivesUp DEF G!Duplicate, G!Victim

LEMMA WriteStep ==
    ASSUME G!ModuleGateAssumption, ModuleInv, NEW s \in Sessions, G!Write(s)
    PROVE  ModuleInv'
<1>kp. PICK p : p = desk[s]
  OBVIOUS
<1>km. PICK m : m = G!Current(s)
  OBVIOUS
<1>kv. PICK v : v = G!Stored(s, m)
  OBVIOUS
<1>ka. PICK a : a = G!Answer(s, m)
  OBVIOUS
<1>kr. PICK r : r = [p EXCEPT !.new[m] = v, !.answer[m] = a]
  OBVIOUS
<1>0. /\ p \in G!Session /\ p.pc = "write" /\ p.pos \in 1 .. Len(p.todo) /\ m \in G!Slugs /\ m = p.todo[p.pos]
      /\ p.kind \in G!Direct => Len(p.todo) = 1
      /\ p.kind \in {"activate", "deactivate", "bootstrap"} =>
            \A i \in 1 .. (p.pos - 1) : rowLock[p.todo[i]] = s /\ p.new[p.todo[i]] = p.answer[p.todo[i]]
      /\ \A x \in p.dropped \ p.crossed : x \in G!Slugs /\ cache[x].left = 0
  BY <1>kp, <1>km, Standing DEF G!Write, G!At
<1>n. /\ row \in [G!Slugs -> G!States] /\ p.seen \in [G!Slugs -> G!States] /\ p.new \in [G!Slugs -> G!States]
      /\ p.answer \in [G!Slugs -> G!States] /\ p.pos \in Nat /\ Len(p.todo) \in Nat
      /\ \A i \in 1 .. Len(p.todo) : p.todo[i] \in G!Slugs
  BY <1>0, SessionFields, TypesNow
<1>w. \A k : G!Wanted(k) \in G!States
  BY DEF G!Wanted, G!States
<1>v. v \in G!States /\ a \in G!States
  <2>1. v \in G!States
    BY <1>n, <1>0, <1>w, <1>kv DEF G!Stored
  <2>2. a \in G!States
    BY <2>1, <1>w, <1>kv, <1>ka DEF G!Answer
  <2> QED BY <2>1, <2>2
<1>a. p.kind \in {"activate", "deactivate", "bootstrap"} => a = v
  BY <1>kp, <1>kv, <1>ka DEF G!Answer
<1>r. /\ r \in G!Session /\ r.pc = "write" /\ r.pos = p.pos /\ r.todo = p.todo /\ r.kind = p.kind
      /\ r.new = [p.new EXCEPT ![m] = v] /\ r.answer = [p.answer EXCEPT ![m] = a]
      /\ r.dropped = p.dropped /\ r.crossed = p.crossed
  BY <1>0, <1>n, <1>v, <1>kr DEF G!Session
<1>b. r = [desk[s] EXCEPT !.new[G!Current(s)] = G!Stored(s, G!Current(s)), !.answer[G!Current(s)] = G!Answer(s, G!Current(s))]
  BY <1>kp, <1>km, <1>kv, <1>ka, <1>kr
<1>kq. PICK q : q = IF G!Drops(p.kind) THEN [r EXCEPT !.pc = "drop"] ELSE G!Advance(r)
  OBVIOUS
<1>1. desk' = [desk EXCEPT ![s] = q]
  BY <1>b, <1>kp, <1>kq DEF G!Write
<1>u. /\ UNCHANGED <<gateMix, row, tenantSub, period, sinceOn, sinceOff, disturbed, gate, sinceFailed, cache, changes, outages>>
      /\ rowLock' = [rowLock EXCEPT ![m] = s] /\ rowLock[m] \in {NoSession, s}
  BY <1>km DEF G!Write, G!Records, G!Since, G!Counter, G!Free
<1>c. /\ cache' \in [G!Slugs -> G!Entry] /\ rowLock' \in [G!Slugs -> Sessions \cup {NoSession}] /\ changes' \in Nat /\ outages' \in Nat
      /\ \A x \in G!Slugs : cache'[x] = cache[x]
      /\ rowLock'[m] = s /\ \A x \in G!Slugs : x # m => rowLock'[x] = rowLock[x]
      /\ desk'[s] = q
  BY <1>0, <1>u, <1>1, TypesNow
<1>d. \A x \in G!Slugs : rowLock'[x] = rowLock[x] \/ (rowLock'[x] \in {s, NoSession} /\ rowLock[x] \in {s, NoSession})
  BY <1>c, <1>u
<1>e. \A x \in r.dropped \ r.crossed : cache'[x].left = 0
  BY <1>0, <1>r, <1>c
<1>f. r.kind \in {"activate", "deactivate", "bootstrap"} =>
            \A i \in 1 .. r.pos : rowLock'[r.todo[i]] = s /\ r.new[r.todo[i]] = r.answer[r.todo[i]]
  <2> SUFFICES ASSUME p.kind \in {"activate", "deactivate", "bootstrap"}, NEW i \in 1 .. p.pos
               PROVE  rowLock'[p.todo[i]] = s /\ r.new[p.todo[i]] = r.answer[p.todo[i]]
    BY <1>r
  <2>0. p.todo[i] \in G!Slugs
    BY <1>0, <1>n
  <2>1. CASE p.todo[i] = m
    BY <2>1, <1>a, <1>c, <1>r, <1>n, <1>0
  <2>2. CASE p.todo[i] # m
    <3>1. i \in 1 .. (p.pos - 1)
      BY <2>2, <1>0, <1>n
    <3>2. rowLock[p.todo[i]] = s /\ p.new[p.todo[i]] = p.answer[p.todo[i]]
      BY <3>1, <1>0
    <3>3. rowLock'[p.todo[i]] = s
      BY <3>2, <2>0, <2>2, <1>c
    <3>4. r.new[p.todo[i]] = p.new[p.todo[i]] /\ r.answer[p.todo[i]] = p.answer[p.todo[i]]
      BY <2>0, <2>2, <1>r, <1>n
    <3> QED BY <3>2, <3>3, <3>4
  <2> QED BY <2>1, <2>2
<1>g. r.pos \in 1 .. Len(r.todo) /\ (r.kind \in G!Direct => Len(r.todo) = 1)
  BY <1>0, <1>r
<1>2. CASE G!Drops(p.kind)
  <2>1. q = [r EXCEPT !.pc = "drop"]
    BY <1>2, <1>kq
  <2>2. /\ q \in G!Session /\ q.pc = "drop" /\ q.pos = r.pos /\ q.todo = r.todo /\ q.kind = r.kind /\ q.new = r.new
        /\ q.answer = r.answer /\ q.dropped = r.dropped /\ q.crossed = r.crossed
    BY <2>1, <1>r DEF G!Session
  <2>3. q.kind \in {"activate", "deactivate", "bootstrap"} =>
           \A i \in 1 .. q.pos : rowLock'[q.todo[i]] = s /\ q.new[q.todo[i]] = q.answer[q.todo[i]]
    BY <2>2, <1>f
  <2>4. q.kind \in G!Direct => Len(q.todo) = 1
    BY <2>2, <1>g
  <2>5. q.pos \in 1 .. Len(q.todo) /\ \A x \in q.dropped \ q.crossed : cache'[x].left = 0
    BY <2>2, <1>g, <1>e
  <2>6. DeskInv(s)'
    BY <2>2, <2>3, <2>4, <2>5, <1>c, StandingNext
  <2>7. q.pc # "idle"
    BY <2>2
  <2> QED BY <1>1, <2>2, <2>6, <2>7, <1>u, <1>c, <1>d, SessionMoves
<1>3. CASE ~G!Drops(p.kind)
  <2>1. q = G!Advance(r)
    BY <1>3, <1>kq
  <2>2. r.kind \in G!Direct => Len(r.todo) = 1
    BY <1>g
  <2>4. r \in G!Session /\ r.pos \in 1 .. Len(r.todo)
    BY <1>r, <1>g
  <2>3. q \in G!Session /\ q.pc # "idle" /\ DeskInv(s)'
    BY <2>1, <2>2, <2>4, <1>1, <1>e, <1>f, GoesOn, Zenon
  <2> QED BY <1>1, <2>3, <1>u, <1>c, <1>d, SessionMoves
<1> QED BY <1>2, <1>3


LEMMA ElapseStep ==
    ASSUME G!ModuleGateAssumption, ModuleInv, G!Elapse
    PROVE  ModuleInv'
<1>u. /\ UNCHANGED <<gateMix, rowLock, row, tenantSub, desk, sinceOn, sinceOff, disturbed, gate, sinceFailed, cache, changes, outages>>
      /\ period' = G!Periods[IF period = "running" THEN 2 ELSE 3]
  BY DEF G!Elapse, G!Records, G!Since, G!Counter, G!Desk
<1>1. G!Periods[2] \in G!ToSet(G!Periods) /\ G!Periods[3] \in G!ToSet(G!Periods)
  <2>1. G!Periods \in Seq({"running", "grace", "over"}) /\ Len(G!Periods) = 3
    BY DEF G!Periods
  <2> QED BY <2>1 DEF G!ToSet
<1>2. period' \in G!ToSet(G!Periods)
  BY <1>u, <1>1
<1>3. G!TypeOK'
  BY <1>u, <1>2 DEF ModuleInv, G!TypeOK
<1>4. ASSUME NEW s \in Sessions PROVE DeskInv(s)'
  <2>1. DeskInv(s)
    BY DEF ModuleInv
  <2> QED BY <2>1, <1>u DEF DeskInv, WrittenUpTo, Answering
<1>5. ASSUME NEW m \in G!Slugs PROVE AgeInv(m)' /\ CacheInv(m)'
  <2>1. AgeInv(m) /\ CacheInv(m)
    BY DEF ModuleInv
  <2> QED BY <2>1, <1>u DEF AgeInv, CacheInv, Given, Undisturbed
<1>6. ASSUME NEW g \in Gates PROVE GateInv(g)'
  <2>1. GateInv(g)
    BY DEF ModuleInv
  <2> QED BY <2>1, <1>u DEF GateInv, Given, Undisturbed, G!Now
<1> QED BY <1>3, <1>4, <1>5, <1>6 DEF ModuleInv

LEMMA SessionCommits ==
    ASSUME G!ModuleGateAssumption, ModuleInv, NEW s \in Sessions, G!Commit(s)
    PROVE  ModuleInv'
<1>p. PICK p : p = desk[s]
  OBVIOUS
<1>0. p \in G!Session /\ p.pc = "commit" /\ p.new \in [G!Slugs -> G!States] /\ p.sub \in G!Subs \cup {"same"}
      /\ \A m \in p.dropped \ p.crossed : cache[m].left = 0
  BY <1>p, Standing, SessionFields DEF G!Commit, G!At
<1>c. PICK C : C = G!Changed(s)
  OBVIOUS
<1>d. /\ \A m \in G!Slugs : m \in C <=> rowLock[m] = s /\ p.new[m] # row[m]
      /\ C \subseteq G!Slugs
  BY <1>p, <1>c DEF G!Changed, G!Written
<1>u. /\ UNCHANGED <<gateMix, period, changes, outages, cache, gate, sinceFailed>>
      /\ desk' = [desk EXCEPT ![s] = G!Idle] /\ rowLock' = [m \in G!Slugs |-> IF rowLock[m] = s THEN NoSession ELSE rowLock[m]]
      /\ row' = [m \in G!Slugs |-> IF m \in G!Written(s) THEN p.new[m] ELSE row[m]]
      /\ tenantSub' = IF p.sub = "same" THEN tenantSub ELSE p.sub
      /\ sinceOn' = [m \in G!Slugs |-> IF row'[m] = "on" THEN 0 ELSE sinceOn[m]]
      /\ sinceOff' = [m \in G!Slugs |-> IF row'[m] = "on" THEN sinceOff[m] ELSE 0]
      /\ disturbed' = (disturbed \ C) \cup {m \in C : m \notin p.dropped \/ m \in p.crossed \/ G!UnderWay(m)}
  BY <1>p, <1>c DEF G!Commit, G!Release, G!Counter
<1>t. /\ G!TypeOK /\ G!Horizon \in Nat /\ tenantSub \in G!Subs /\ row \in [G!Slugs -> G!States] /\ desk \in [Sessions -> G!Session]
      /\ rowLock \in [G!Slugs -> Sessions \cup {NoSession}] /\ NoSession \notin Sessions
      /\ sinceOn \in [G!Slugs -> 0 .. G!Horizon] /\ sinceOff \in [G!Slugs -> 0 .. G!Horizon]
      /\ sinceFailed \in [G!Slugs -> 0 .. G!Horizon] /\ disturbed \subseteq G!Slugs
      /\ \A m \in G!Slugs : rowLock[m] = NoSession \/ desk[rowLock[m]].pc # "idle"
  BY TypesNow, HorizonFacts DEF G!TypeOK
<1>r. \A m \in G!Slugs : /\ row'[m] \in G!States
                         /\ m \notin C => row'[m] = row[m]
                         /\ sinceOn'[m] = (IF row'[m] = "on" THEN 0 ELSE sinceOn[m])
                         /\ sinceOff'[m] = (IF row'[m] = "on" THEN sinceOff[m] ELSE 0)
  <2> SUFFICES ASSUME NEW m \in G!Slugs
               PROVE  /\ row'[m] \in G!States
                      /\ m \notin C => row'[m] = row[m]
                      /\ sinceOn'[m] = (IF row'[m] = "on" THEN 0 ELSE sinceOn[m])
                      /\ sinceOff'[m] = (IF row'[m] = "on" THEN sinceOff[m] ELSE 0)
    OBVIOUS
  <2>1. row'[m] = IF rowLock[m] = s THEN p.new[m] ELSE row[m]
    BY <1>u DEF G!Written
  <2> QED BY <2>1, <1>u, <1>d, <1>0, <1>t
<1>s. /\ desk' \in [Sessions -> G!Session] /\ desk'[s] = G!Idle /\ \A u \in Sessions \ {s} : desk'[u] = desk[u]
      /\ rowLock' \in [G!Slugs -> Sessions \cup {NoSession}] /\ \A m \in G!Slugs : rowLock'[m] # s
      /\ \A u \in Sessions \ {s} : \A m \in G!Slugs : rowLock'[m] = u <=> rowLock[m] = u
  BY <1>u, <1>t, IdleFacts
<1>m. \A m \in G!Slugs : /\ sinceOn'[m] \in 0 .. G!Horizon /\ sinceOff'[m] \in 0 .. G!Horizon
                         /\ sinceOn'[m] <= sinceOn[m] /\ sinceOff'[m] <= sinceOff[m]
                         /\ sinceOn[m] \in Int /\ sinceOff[m] \in Int /\ sinceFailed[m] \in Int
                         /\ sinceOn'[m] \in Int /\ sinceOff'[m] \in Int /\ sinceFailed'[m] = sinceFailed[m]
  BY <1>u, <1>r, <1>t
<1>1. G!TypeOK'
  <2>1. /\ row' \in [G!Slugs -> G!States] /\ sinceOn' \in [G!Slugs -> 0 .. G!Horizon] /\ sinceOff' \in [G!Slugs -> 0 .. G!Horizon]
    BY <1>u, <1>r, <1>m
  <2>2. tenantSub' \in G!Subs
    BY <1>u, <1>t, <1>0
  <2>3. disturbed' \subseteq G!Slugs
    BY <1>u, <1>t, <1>d
  <2>4. ASSUME NEW m \in G!Slugs PROVE rowLock'[m] = NoSession \/ desk'[rowLock'[m]].pc # "idle"
    BY <1>u, <1>t, <1>s
  <2>5. /\ gateMix' \in GateMixes /\ period' \in G!ToSet(G!Periods) /\ changes' \in Nat /\ outages' \in Nat
        /\ cache' \in [G!Slugs -> G!Entry] /\ gate' \in [Gates -> G!Gate] /\ sinceFailed' \in [G!Slugs -> 0 .. G!Horizon]
    BY <1>u, <1>t DEF G!TypeOK
  <2> QED BY <2>1, <2>2, <2>3, <2>4, <2>5, <1>s DEF G!TypeOK
<1>2. ASSUME NEW u \in Sessions PROVE DeskInv(u)'
  <2>1. CASE u = s
    BY <2>1, <1>s, IdleSession
  <2>2. CASE u # s
    <3>1. DeskInv(u) /\ desk[u] \in G!Session
      BY TypesNow
    <3>2. \A m \in desk[u].dropped \ desk[u].crossed : cache'[m].left = 0
      BY <3>1, <1>u DEF DeskInv
    <3>3. desk'[u] = desk[u] /\ \A m \in G!Slugs : rowLock'[m] = u <=> rowLock[m] = u
      BY <2>2, <1>s
    <3> QED BY <3>1, <3>2, <3>3, SessionKept
  <2> QED BY <2>1, <2>2
<1>3. ASSUME NEW m \in G!Slugs, NEW on \in BOOLEAN, NEW failed \in BOOLEAN, NEW n \in Int, n >= 0, Given(m, on, failed, n)
      PROVE  Given(m, on, failed, n)'
  BY <1>3, <1>m DEF Given
<1>4. ASSUME NEW m \in G!Slugs, NEW on, NEW failed, Undisturbed(m, on, failed),
             m \in C => m \notin p.dropped \/ m \in p.crossed \/ G!UnderWay(m)
      PROVE  Undisturbed(m, on, failed)'
  <2>1. m \notin disturbed' => m \notin C /\ m \notin disturbed
    BY <1>4, <1>u
  <2> QED BY <2>1, <1>4, <1>r DEF Undisturbed
<1>5. ASSUME NEW m \in G!Slugs PROVE AgeInv(m)' /\ CacheInv(m)'
  <2>1. AgeInv(m)'
    BY <1>r DEF AgeInv
  <2>2. PICK e : e = cache[m]
    OBVIOUS
  <2>3. /\ cache'[m] = e /\ e.left \in 0 .. TTL /\ e.on \in BOOLEAN /\ e.failed \in BOOLEAN /\ TTL \in Nat /\ Delay \in Nat
        /\ e.left > 0 => Given(m, e.on, e.failed, TTL - e.left + Delay) /\ Undisturbed(m, e.on, e.failed)
    BY <2>2, <1>u, <1>t, Types, HorizonFacts DEF ModuleInv, CacheInv
  <2>4. CASE e.left > 0
    <3>1. PICK n : n = TTL - e.left + Delay
      OBVIOUS
    <3>2. n \in Int /\ n >= 0
      BY <2>3, <3>1
    <3>3. Given(m, e.on, e.failed, n)'
      BY <3>1, <3>2, <2>3, <2>4, <1>3
    <3>4. m \in C => m \notin p.dropped \/ m \in p.crossed \/ G!UnderWay(m)
      BY <2>2, <2>3, <2>4, <1>0
    <3>5. Undisturbed(m, e.on, e.failed)'
      BY <3>4, <2>3, <2>4, <1>4
    <3> QED BY <2>1, <2>3, <3>1, <3>3, <3>5 DEF CacheInv
  <2>5. CASE ~(e.left > 0)
    BY <2>1, <2>3, <2>5 DEF CacheInv
  <2> QED BY <2>4, <2>5
<1>6. ASSUME NEW g \in Gates PROVE GateInv(g)'
  <2>1. PICK q : q = gate[g]
    OBVIOUS
  <2>2. PICK m : m = G!Now(g)
    OBVIOUS
  <2>3. /\ gate'[g] = q /\ q.age \in 0 .. Delay /\ q.on \in BOOLEAN /\ q.failed \in BOOLEAN /\ q.pos \in {1, 2}
        /\ Delay \in Nat /\ TTL \in Nat /\ m = G!Needs[q.kind][q.pos] /\ m = G!Now(g)'
    BY <2>1, <2>2, <1>u, <1>t, Types, HorizonFacts DEF G!Now
  <2>4. CASE q.pc = "idle"
    BY <2>3, <2>4 DEF GateInv
  <2>5. CASE q.pc # "idle"
    <3>1. /\ q.kind \in G!GateKinds /\ q.pos <= Len(G!Needs[q.kind])
          /\ q.pc \in {"get", "ask"} => q.failed = FALSE
          /\ q.pos = 2 => sinceOn["inventory"] <= TTL + Delay + q.age
          /\ q.pc = "set" => Given(m, q.on, q.failed, q.age) /\ Undisturbed(m, q.on, q.failed)
      BY <2>1, <2>2, <2>5 DEF ModuleInv, GateInv
    <3>2. m \in G!Slugs /\ "inventory" \in G!Slugs
      <4>1. q.pos \in 1 .. Len(G!Needs[q.kind])
        BY <3>1, <2>3, NeedsFacts
      <4>a. \A i \in 1 .. Len(G!Needs[q.kind]) : G!Needs[q.kind][i] \in G!Slugs
        BY <3>1, NeedsFacts
      <4>2. m \in G!Slugs
        BY <4>1, <4>a, <2>3
      <4> QED BY <4>2 DEF G!Slugs
    <3>3. q.pos = 2 => sinceOn'["inventory"] <= TTL + Delay + q.age
      BY <3>1, <3>2, <2>3, <1>m
    <3>4. q.pc = "set" => Given(m, q.on, q.failed, q.age)'
      <4>1. q.age \in Int /\ q.age >= 0
        BY <2>3
      <4> QED BY <4>1, <3>1, <3>2, <2>3, <1>3
    <3>5. q.pc = "set" => G!UnderWay(m)
      BY <2>1, <2>3 DEF G!UnderWay
    <3>6. q.pc = "set" => Undisturbed(m, q.on, q.failed)'
      BY <3>1, <3>2, <3>5, <1>4
    <3> QED BY <2>3, <3>1, <3>3, <3>4, <3>6 DEF GateInv
  <2> QED BY <2>4, <2>5
<1> QED BY <1>1, <1>2, <1>5, <1>6 DEF ModuleInv


(* The gate g, before its step.                                              *)
LEMMA AtGate ==
    ASSUME G!ModuleGateAssumption, ModuleInv, NEW g \in Gates, gate[g].pc # "idle"
    PROVE  /\ gate[g] \in G!Gate /\ gate[g].kind \in G!GateKinds /\ gate[g].pos \in 1 .. Len(G!Needs[gate[g].kind])
           /\ Len(G!Needs[gate[g].kind]) \in {1, 2} /\ G!Needs[gate[g].kind] \in Seq(G!Slugs)
           /\ gate[g].pc \in {"get", "ask", "set"} /\ gate[g].pos \in {1, 2}
           /\ gate[g].age \in 0 .. Delay /\ gate[g].on \in BOOLEAN /\ gate[g].failed \in BOOLEAN
           /\ G!Now(g) \in G!Slugs /\ G!Now(g) = G!Needs[gate[g].kind][gate[g].pos]
           /\ gate[g].pc \in {"get", "ask"} => gate[g].failed = FALSE
           /\ gate[g].pos = 2 => sinceOn["inventory"] <= TTL + Delay + gate[g].age
           /\ gate[g].pc = "set" => /\ Given(G!Now(g), gate[g].on, gate[g].failed, gate[g].age)
                                    /\ Undisturbed(G!Now(g), gate[g].on, gate[g].failed)
           /\ Len(G!Needs[gate[g].kind]) = 2 => gate[g].kind = "production"
<1>1. /\ gate[g] \in G!Gate /\ gate[g].pc \in {"get", "ask", "set"} /\ gate[g].pos \in {1, 2}
      /\ gate[g].age \in 0 .. Delay /\ gate[g].on \in BOOLEAN /\ gate[g].failed \in BOOLEAN
  BY Types, TypesNow
<1>2. GateInv(g)
  BY DEF ModuleInv
<1>3. gate[g].kind \in G!GateKinds /\ gate[g].pos <= Len(G!Needs[gate[g].kind])
  BY <1>2 DEF GateInv
<1>4. /\ Len(G!Needs[gate[g].kind]) \in {1, 2} /\ G!Needs[gate[g].kind] \in Seq(G!Slugs)
      /\ Len(G!Needs[gate[g].kind]) = 2 => gate[g].kind = "production"
  BY <1>3, NeedsFacts
<1>5. gate[g].pos \in 1 .. Len(G!Needs[gate[g].kind])
  BY <1>1, <1>3, <1>4
<1>6. G!Now(g) \in G!Slugs /\ G!Now(g) = G!Needs[gate[g].kind][gate[g].pos]
  BY <1>3, <1>5, NeedsFacts DEF G!Now
<1>7. /\ gate[g].pc \in {"get", "ask"} => gate[g].failed = FALSE
      /\ gate[g].pos = 2 => sinceOn["inventory"] <= TTL + Delay + gate[g].age
      /\ gate[g].pc = "set" => /\ Given(G!Now(g), gate[g].on, gate[g].failed, gate[g].age)
                               /\ Undisturbed(G!Now(g), gate[g].on, gate[g].failed)
  BY <1>2 DEF GateInv
<1> QED BY <1>1, <1>3, <1>4, <1>5, <1>6, <1>7

(* A gate that only moves: records, answers and failures are as before.      *)
LEMMA GateOnly ==
    ASSUME G!ModuleGateAssumption, ModuleInv, NEW g \in Gates, NEW q \in G!Gate,
           gate' = [gate EXCEPT ![g] = q],
           UNCHANGED <<gateMix, row, rowLock, tenantSub, period, desk, changes, sinceOn, sinceOff, disturbed, cache, sinceFailed>>,
           outages' \in Nat, GateInv(g)'
    PROVE  ModuleInv'
BY GateMoves, TypesNow

LEMMA AwayGate ==
    ASSUME G!ModuleGateAssumption, NEW g \in Gates, gate'[g] = G!Away
    PROVE  GateInv(g)'
BY IdleFacts DEF GateInv

(* A gate that decides leaves, or turns to its second module, "production",   *)
(* after a recent answer that the first one is on.                            *)
LEMMA Deciding ==
    ASSUME G!ModuleGateAssumption, ModuleInv, NEW g \in Gates, NEW on \in BOOLEAN, gate[g].pc # "idle", G!Decide(g, on),
           on = TRUE => sinceOn[G!Now(g)] <= TTL + Delay, UNCHANGED sinceOn
    PROVE  \E q \in G!Gate : gate' = [gate EXCEPT ![g] = q] /\ GateInv(g)'
<1>0. gate \in [Gates -> G!Gate] /\ G!Away \in G!Gate /\ TTL \in Nat /\ Delay \in Nat
  BY TypesNow, AwayTyped, HorizonFacts
<1>1. CASE on = FALSE \/ gate[g].pos = Len(G!Needs[gate[g].kind])
  <2>1. gate' = [gate EXCEPT ![g] = G!Away]
    BY <1>1 DEF G!Decide, G!Leave
  <2>2. gate'[g] = G!Away
    BY <2>1, <1>0
  <2> QED BY <2>1, <2>2, <1>0, AwayGate
<1>2. CASE on = TRUE /\ gate[g].pos # Len(G!Needs[gate[g].kind])
  <2>1. PICK k : k = gate[g].kind
    OBVIOUS
  <2>2. gate[g].pos = 1 /\ Len(G!Needs[k]) = 2 /\ k = "production" /\ k \in G!GateKinds
    <3>1. PICK n : n = Len(G!Needs[k])
      OBVIOUS
    <3>2. k \in G!GateKinds /\ n \in {1, 2} /\ gate[g].pos \in 1 .. n /\ gate[g].pos # n /\ (n = 2 => k = "production")
      BY <2>1, <3>1, <1>2, AtGate
    <3>3. n = 2 /\ gate[g].pos = 1
      BY <3>2
    <3> QED BY <3>1, <3>2, <3>3
  <2>3. G!Now(g) = "inventory"
    BY <2>1, <2>2, NeedsFacts, AtGate
  <2>4. PICK q : q = [G!Away EXCEPT !.pc = "get", !.pos = 2, !.kind = k]
    OBVIOUS
  <2>5. q \in G!Gate /\ q.pc = "get" /\ q.pos = 2 /\ q.kind = k /\ q.failed = FALSE /\ q.age = 0
    BY <2>2, <2>4, <1>0 DEF G!Away, G!Gate
  <2>6. gate[g].pos + 1 = 2
    BY <2>2
  <2>7. gate' = [gate EXCEPT ![g] = q]
    BY <1>2, <2>1, <2>4, <2>6 DEF G!Decide
  <2>8. gate'[g] = q
    BY <2>7, <1>0
  <2>9. sinceOn'["inventory"] <= TTL + Delay + q.age
    <3>1. sinceOn'["inventory"] <= TTL + Delay
      BY <1>2, <2>3
    <3>2. TTL + Delay + q.age = TTL + Delay
      BY <1>0, <2>5
    <3> QED BY <3>1, <3>2
  <2>10. q.pos <= Len(G!Needs[q.kind])
    <3>1. Len(G!Needs[q.kind]) = 2 /\ q.pos = 2
      BY <2>2, <2>5
    <3> QED BY <3>1
  <2>11. GateInv(g)'
    BY <2>2, <2>5, <2>8, <2>9, <2>10 DEF GateInv
  <2> QED BY <2>5, <2>7, <2>11
<1> QED BY <1>1, <1>2

LEMMA GateArrives ==
    ASSUME G!ModuleGateAssumption, ModuleInv, NEW g \in Gates, NEW kind \in G!GateKinds, G!Arrive(g, kind)
    PROVE  ModuleInv'
<1>1. PICK q : q = [G!Away EXCEPT !.pc = "get", !.kind = kind]
  OBVIOUS
<1>2. /\ gate' = [gate EXCEPT ![g] = q]
      /\ UNCHANGED <<gateMix, row, rowLock, tenantSub, period, desk, changes, sinceOn, sinceOff, disturbed, cache, sinceFailed, outages>>
  BY <1>1 DEF G!Arrive, G!Desk, G!Records, G!Since
<1>3. q \in G!Gate /\ q.pc = "get" /\ q.pos = 1 /\ q.kind = kind /\ q.failed = FALSE
  BY <1>1, AwayTyped, IdleFacts DEF G!Away, G!Gate
<1>4. gate'[g] = q /\ outages' \in Nat
  BY <1>2, TypesNow
<1>5. q.pos <= Len(G!Needs[q.kind])
  <2>1. PICK n : n = Len(G!Needs[kind])
    OBVIOUS
  <2>2. n \in {1, 2} /\ n = Len(G!Needs[q.kind])
    BY <2>1, <1>3, NeedsFacts
  <2>a. n \in {1, 2}
    BY <2>2
  <2>3. 1 <= n
    BY <2>a
  <2>4. q.pos = 1 /\ Len(G!Needs[q.kind]) = n
    BY <2>2, <1>3
  <2> QED BY <2>3, <2>4, Zenon
<1>6. GateInv(g)'
  BY <1>3, <1>4, <1>5 DEF GateInv
<1> QED BY <1>2, <1>3, <1>4, <1>6, GateOnly

LEMMA MissStep ==
    ASSUME G!ModuleGateAssumption, ModuleInv, NEW g \in Gates, gate[g].pc = "get",
           gate' = [gate EXCEPT ![g].pc = "ask"], outages' \in Nat,
           UNCHANGED <<gateMix, row, rowLock, tenantSub, period, desk, changes, sinceOn, sinceOff, disturbed, cache, sinceFailed>>
    PROVE  ModuleInv'
<1>0. gate[g].pc # "idle"
  OBVIOUS
<1>o. PICK o : o = gate[g]
  OBVIOUS
<1>1. PICK q : q = [o EXCEPT !.pc = "ask"]
  OBVIOUS
<1>2. gate' = [gate EXCEPT ![g] = q]
  BY <1>o, <1>1
<1>a. /\ o \in G!Gate /\ o.failed = FALSE /\ o.kind \in G!GateKinds /\ o.pos \in 1 .. Len(G!Needs[o.kind])
      /\ o.pos = 2 => sinceOn["inventory"] <= TTL + Delay + o.age
  BY <1>0, <1>o, AtGate
<1>3. q \in G!Gate /\ q.pc = "ask" /\ q.pos = o.pos /\ q.kind = o.kind /\ q.failed = o.failed /\ q.age = o.age
  BY <1>1, <1>a DEF G!Gate
<1>4. gate'[g] = q
  BY <1>2, TypesNow
<1>b. o.pos <= Len(G!Needs[o.kind])
  BY <1>a, NeedsFacts
<1>5. /\ q.kind \in G!GateKinds /\ q.pos <= Len(G!Needs[q.kind]) /\ q.failed = FALSE
      /\ q.pos = 2 => sinceOn'["inventory"] <= TTL + Delay + q.age
  BY <1>3, <1>a, <1>b
<1>6. GateInv(g)'
  BY <1>3, <1>4, <1>5 DEF GateInv
<1> QED BY <1>2, <1>3, <1>6, GateOnly


LEMMA AnsweredStep ==
    ASSUME G!ModuleGateAssumption, ModuleInv, NEW g \in Gates, G!Answered(g)
    PROVE  ModuleInv'
<1>o. PICK o : o = gate[g]
  OBVIOUS
<1>m. PICK m : m = G!Now(g)
  OBVIOUS
<1>b. PICK b \in BOOLEAN : b = (row[m] = "on")
  OBVIOUS
<1>1. PICK q : q = [o EXCEPT !.pc = "set", !.on = b]
  OBVIOUS
<1>2. /\ gate' = [gate EXCEPT ![g] = q] /\ o.pc = "ask"
      /\ UNCHANGED <<gateMix, row, rowLock, tenantSub, period, desk, changes, sinceOn, sinceOff, disturbed, cache, sinceFailed, outages>>
  BY <1>o, <1>m, <1>b, <1>1 DEF G!Answered, G!Desk, G!Records, G!Since
<1>a. /\ o \in G!Gate /\ o.failed = FALSE /\ o.kind \in G!GateKinds /\ o.pos \in 1 .. Len(G!Needs[o.kind])
      /\ o.pos = 2 => sinceOn["inventory"] <= TTL + Delay + o.age
      /\ m \in G!Slugs /\ m = G!Needs[o.kind][o.pos] /\ o.age \in 0 .. Delay /\ Delay \in Nat
  BY <1>o, <1>m, <1>2, AtGate, HorizonFacts
<1>3. q \in G!Gate /\ q.pc = "set" /\ q.pos = o.pos /\ q.kind = o.kind /\ q.failed = FALSE /\ q.age = o.age /\ q.on = b
  BY <1>1, <1>a DEF G!Gate
<1>4. gate'[g] = q /\ outages' \in Nat
  BY <1>2, TypesNow
<1>5. q.pos <= Len(G!Needs[q.kind])
  <2>1. o.pos <= Len(G!Needs[o.kind])
    BY <1>a, NeedsFacts
  <2> QED BY <2>1, <1>3
<1>6. m = G!Now(g)'
  BY <1>a, <1>3, <1>4 DEF G!Now
<1>7. row[m] = "on" => sinceOn[m] = 0
  BY <1>a DEF ModuleInv, AgeInv
<1>8. row[m] # "on" => sinceOff[m] = 0
  BY <1>a DEF ModuleInv, AgeInv
<1>9. Given(m, b, FALSE, q.age)'
  <2>1. PICK k : k = q.age
    OBVIOUS
  <2>2. k \in Nat
    BY <1>3, <1>a, <2>1
  <2>3. b = TRUE => sinceOn'[m] = 0
    BY <1>2, <1>b, <1>7
  <2>4. b = FALSE => sinceOff'[m] = 0
    BY <1>2, <1>b, <1>8
  <2>5. Given(m, b, FALSE, k)'
    BY <2>2, <2>3, <2>4 DEF Given
  <2> QED BY <2>1, <2>5
<1>10. Undisturbed(m, b, FALSE)'
  BY <1>2, <1>b DEF Undisturbed
<1>11. q.kind \in G!GateKinds /\ (q.pos = 2 => sinceOn'["inventory"] <= TTL + Delay + q.age)
  BY <1>2, <1>3, <1>a
<1>12. GateInv(g)'
  BY <1>3, <1>4, <1>5, <1>6, <1>9, <1>10, <1>11 DEF GateInv
<1> QED BY <1>2, <1>3, <1>4, <1>12, GateOnly

LEMMA HitStep ==
    ASSUME G!ModuleGateAssumption, ModuleInv, NEW g \in Gates, G!Hit(g)
    PROVE  ModuleInv'
<1>m. PICK m : m = G!Now(g)
  OBVIOUS
<1>e. PICK e : e = cache[m]
  OBVIOUS
<1>1. /\ gate[g].pc = "get" /\ e.left > 0 /\ G!Decide(g, e.on)
      /\ UNCHANGED <<gateMix, row, rowLock, tenantSub, period, desk, changes, sinceOn, sinceOff, disturbed, cache, sinceFailed, outages>>
  BY <1>m, <1>e DEF G!Hit, G!Live, G!Desk, G!Records, G!Since
<1>2. gate[g].pc # "idle" /\ m \in G!Slugs
  BY <1>1, <1>m, AtGate
<1>3. e.on \in BOOLEAN /\ e.left \in 0 .. TTL /\ sinceOn[m] \in 0 .. G!Horizon /\ TTL \in Nat /\ Delay \in Nat /\ G!Horizon \in Nat
  BY <1>2, <1>e, Types, TypesNow, HorizonFacts
<1>4. e.on = TRUE => sinceOn[m] <= TTL - e.left + Delay
  BY <1>1, <1>2, <1>e DEF ModuleInv, CacheInv, Given
<1>5. e.on = TRUE => sinceOn[G!Now(g)] <= TTL + Delay
  BY <1>1, <1>3, <1>4, <1>m
<1>6. PICK q \in G!Gate : gate' = [gate EXCEPT ![g] = q] /\ GateInv(g)'
  BY <1>1, <1>2, <1>3, <1>5, Deciding
<1>7. outages' \in Nat
  BY <1>1, TypesNow
<1> QED BY <1>1, <1>6, <1>7, GateOnly

LEMMA LeavesFaulty ==
    ASSUME G!ModuleGateAssumption, ModuleInv, NEW g \in Gates, NEW q \in G!Gate, gate' = [gate EXCEPT ![g] = q],
           gate[g].pc # "idle", G!Fault(g), GateInv(g)'
    PROVE  ModuleInv'
<1>1. /\ outages' = outages + 1 /\ sinceFailed' = [sinceFailed EXCEPT ![G!Now(g)] = 0]
      /\ UNCHANGED <<gateMix, row, rowLock, tenantSub, period, desk, changes, sinceOn, sinceOff, disturbed, cache>>
  BY DEF G!Fault, G!Desk, G!Records, G!Since
<1>2. G!Now(g) \in G!Slugs /\ G!Horizon \in Nat /\ outages \in Nat /\ sinceFailed \in [G!Slugs -> 0 .. G!Horizon]
  BY AtGate, HorizonFacts, TypesNow
<1>3. sinceFailed' \in [G!Slugs -> 0 .. G!Horizon] /\ outages' \in Nat
  BY <1>1, <1>2
<1>4. \A m \in G!Slugs : sinceFailed'[m] = sinceFailed[m] \/ sinceFailed'[m] = 0
  BY <1>1, <1>2
<1> QED BY <1>1, <1>3, <1>4, GateMoves

LEMMA UnansweredStep ==
    ASSUME G!ModuleGateAssumption, ModuleInv, NEW g \in Gates, G!Unanswered(g)
    PROVE  ModuleInv'
<1>1. gate' = [gate EXCEPT ![g] = G!Away] /\ gate[g].pc = "ask" /\ G!Fault(g)
  BY DEF G!Unanswered, G!Leave
<1>2. gate'[g] = G!Away /\ G!Away \in G!Gate
  BY <1>1, TypesNow, AwayTyped
<1>3. GateInv(g)' /\ gate[g].pc # "idle"
  BY <1>1, <1>2, AwayGate
<1> QED BY <1>1, <1>2, <1>3, LeavesFaulty

LEMMA FailedStep ==
    ASSUME G!ModuleGateAssumption, ModuleInv, NEW g \in Gates, G!Failed(g)
    PROVE  ModuleInv'
<1>o. PICK o : o = gate[g]
  OBVIOUS
<1>m. PICK m : m = G!Now(g)
  OBVIOUS
<1>1. PICK q : q = [o EXCEPT !.pc = "set", !.on = FALSE, !.failed = TRUE]
  OBVIOUS
<1>2. gate' = [gate EXCEPT ![g] = q] /\ o.pc = "ask" /\ G!Fault(g)
  BY <1>o, <1>1 DEF G!Failed
<1>f. sinceFailed' = [sinceFailed EXCEPT ![m] = 0] /\ UNCHANGED sinceOn
  BY <1>2, <1>m DEF G!Fault, G!Records, G!Since
<1>a. /\ o \in G!Gate /\ o.kind \in G!GateKinds /\ o.pos \in 1 .. Len(G!Needs[o.kind])
      /\ o.pos = 2 => sinceOn["inventory"] <= TTL + Delay + o.age
      /\ m \in G!Slugs /\ m = G!Needs[o.kind][o.pos] /\ o.age \in 0 .. Delay /\ Delay \in Nat
  BY <1>o, <1>m, <1>2, AtGate, HorizonFacts
<1>3. q \in G!Gate /\ q.pc = "set" /\ q.pos = o.pos /\ q.kind = o.kind /\ q.failed = TRUE /\ q.age = o.age /\ q.on = FALSE
  BY <1>1, <1>a DEF G!Gate
<1>4. gate'[g] = q
  BY <1>2, TypesNow
<1>5. q.pos <= Len(G!Needs[q.kind])
  <2>1. o.pos <= Len(G!Needs[o.kind])
    BY <1>a, NeedsFacts
  <2> QED BY <2>1, <1>3
<1>6. m = G!Now(g)'
  BY <1>a, <1>3, <1>4 DEF G!Now
<1>7. sinceFailed'[m] = 0
  BY <1>f, <1>a, TypesNow
<1>9. Given(m, FALSE, TRUE, q.age)'
  BY <1>3, <1>a, <1>7 DEF Given
<1>10. Undisturbed(m, FALSE, TRUE)'
  BY DEF Undisturbed
<1>11. q.kind \in G!GateKinds /\ (q.pos = 2 => sinceOn'["inventory"] <= TTL + Delay + q.age)
  BY <1>f, <1>3, <1>a
<1>12. GateInv(g)'
  BY <1>3, <1>4, <1>5, <1>6, <1>9, <1>10, <1>11 DEF GateInv
<1>13. gate[g].pc # "idle"
  BY <1>2, <1>o
<1> QED BY <1>2, <1>3, <1>12, <1>13, LeavesFaulty

LEMMA RedisFailsStep ==
    ASSUME G!ModuleGateAssumption, ModuleInv, NEW g \in Gates, G!RedisFails(g)
    PROVE  ModuleInv'
<1>1. /\ gate[g].pc \in {"get", "set"} /\ gate[g].pc # "idle" /\ outages' = outages + 1
      /\ UNCHANGED <<gateMix, row, rowLock, tenantSub, period, desk, changes, sinceOn, sinceOff, disturbed, cache, sinceFailed>>
  BY DEF G!RedisFails, G!Desk, G!Records, G!Since
<1>2. outages' \in Nat
  BY <1>1, TypesNow
<1>3. CASE gate[g].kind # "compliance"
  <2>1. gate' = [gate EXCEPT ![g] = G!Away]
    BY <1>3 DEF G!RedisFails, G!Leave
  <2>2. gate'[g] = G!Away /\ G!Away \in G!Gate
    BY <2>1, TypesNow, AwayTyped
  <2> QED BY <2>1, <2>2, <1>1, <1>2, AwayGate, GateOnly
<1>4. CASE gate[g].kind = "compliance" /\ gate[g].pc = "get"
  <2>1. gate' = [gate EXCEPT ![g].pc = "ask"]
    BY <1>4 DEF G!RedisFails
  <2> QED BY <2>1, <1>1, <1>2, <1>4, MissStep
<1>5. CASE gate[g].kind = "compliance" /\ gate[g].pc = "set"
  <2>0. "compliance" # "production" /\ "get" # "set"
    OBVIOUS
  <2>1. G!Decide(g, gate[g].on)
    BY <1>5, <2>0 DEF G!RedisFails
  <2>2. gate[g].pos = Len(G!Needs[gate[g].kind])
    <3>1. Len(G!Needs[gate[g].kind]) = 1 /\ gate[g].pos \in 1 .. Len(G!Needs[gate[g].kind])
      BY <1>1, <1>5, <2>0, AtGate, NeedsFacts
    <3> QED BY <3>1
  <2>3. gate' = [gate EXCEPT ![g] = G!Away]
    BY <2>1, <2>2 DEF G!Decide, G!Leave
  <2>4. gate'[g] = G!Away /\ G!Away \in G!Gate
    BY <2>3, TypesNow, AwayTyped
  <2> QED BY <2>3, <2>4, <1>1, <1>2, AwayGate, GateOnly
<1> QED BY <1>1, <1>3, <1>4, <1>5


LEMMA SetStep ==
    ASSUME G!ModuleGateAssumption, ModuleInv, NEW g \in Gates, G!Set(g)
    PROVE  ModuleInv'
<1>o. PICK o : o = gate[g]
  OBVIOUS
<1>m. PICK m : m = G!Now(g)
  OBVIOUS
<1>e. PICK e : e = [left |-> TTL, on |-> o.on, failed |-> o.failed]
  OBVIOUS
<1>1. /\ o.pc = "set" /\ cache' = [cache EXCEPT ![m] = e] /\ G!Decide(g, o.on)
      /\ desk' = [u \in Sessions |-> IF m \in desk[u].dropped THEN [desk[u] EXCEPT !.crossed = desk[u].crossed \cup {m}]
                                     ELSE desk[u]]
      /\ UNCHANGED <<gateMix, row, rowLock, tenantSub, period, changes, sinceOn, sinceOff, disturbed, sinceFailed, outages>>
  BY <1>o, <1>m, <1>e DEF G!Set, G!Records, G!Since
<1>2. /\ m \in G!Slugs /\ o.age \in 0 .. Delay /\ o.on \in BOOLEAN /\ o.failed \in BOOLEAN
      /\ Given(m, o.on, o.failed, o.age) /\ Undisturbed(m, o.on, o.failed)
      /\ TTL \in Nat /\ TTL > 0 /\ Delay \in Nat /\ G!Horizon \in Nat
  BY <1>o, <1>m, <1>1, AtGate, HorizonFacts
<1>t. /\ G!TypeOK /\ desk \in [Sessions -> G!Session] /\ cache \in [G!Slugs -> G!Entry] /\ gate \in [Gates -> G!Gate]
      /\ rowLock \in [G!Slugs -> Sessions \cup {NoSession}]
      /\ \A x \in G!Slugs : rowLock[x] = NoSession \/ desk[rowLock[x]].pc # "idle"
      /\ \A x \in G!Slugs : sinceOn[x] \in 0 .. G!Horizon /\ sinceOff[x] \in 0 .. G!Horizon /\ sinceFailed[x] \in 0 .. G!Horizon
  BY TypesNow, Types DEF G!TypeOK
<1>3. e \in G!Entry /\ e.left = TTL /\ e.on = o.on /\ e.failed = o.failed
  BY <1>e, <1>2 DEF G!Entry
<1>c. cache' \in [G!Slugs -> G!Entry] /\ cache'[m] = e /\ \A x \in G!Slugs : x # m => cache'[x] = cache[x]
  BY <1>1, <1>2, <1>3, <1>t
<1>4. o.on = TRUE => sinceOn[G!Now(g)] <= TTL + Delay
  <2>1. o.on = TRUE => sinceOn[m] <= o.age
    BY <1>2 DEF Given
  <2>2. sinceOn[m] \in 0 .. G!Horizon
    BY <1>2, <1>t
  <2>3. o.on = TRUE => sinceOn[m] <= TTL + Delay
    BY <2>1, <2>2, <1>2
  <2> QED BY <2>3, <1>m
<1>5. PICK q \in G!Gate : gate' = [gate EXCEPT ![g] = q] /\ GateInv(g)'
  <2>1. gate[g].pc # "idle" /\ UNCHANGED sinceOn
    BY <1>o, <1>1
  <2> QED BY <2>1, <1>1, <1>2, <1>4, Deciding
<1>6. gate' \in [Gates -> G!Gate] /\ \A h \in Gates \ {g} : gate'[h] = gate[h]
  BY <1>5, <1>t
<1>s. ASSUME NEW u \in Sessions
      PROVE  /\ desk'[u] \in G!Session /\ desk'[u].pc = desk[u].pc /\ desk'[u].kind = desk[u].kind
             /\ desk'[u].todo = desk[u].todo /\ desk'[u].pos = desk[u].pos /\ desk'[u].new = desk[u].new
             /\ desk'[u].answer = desk[u].answer /\ desk'[u].dropped = desk[u].dropped
             /\ desk'[u].crossed = IF m \in desk[u].dropped THEN desk[u].crossed \cup {m} ELSE desk[u].crossed
  <2>1. PICK p \in G!Session : p = desk[u]
    BY <1>t
  <2>2. PICK r : r = [p EXCEPT !.crossed = p.crossed \cup {m}]
    OBVIOUS
  <2>3. /\ r \in G!Session /\ r.pc = p.pc /\ r.kind = p.kind /\ r.todo = p.todo /\ r.pos = p.pos /\ r.new = p.new
        /\ r.answer = p.answer /\ r.dropped = p.dropped /\ r.crossed = p.crossed \cup {m}
    BY <2>2, <1>2 DEF G!Session
  <2>4. desk'[u] = IF m \in p.dropped THEN r ELSE p
    BY <1>1, <2>1, <2>2
  <2>5. CASE m \in p.dropped
    BY <2>1, <2>3, <2>4, <2>5
  <2>6. CASE m \notin p.dropped
    BY <2>1, <2>4, <2>6
  <2> QED BY <2>5, <2>6
<1>7. G!TypeOK'
  <2>1. desk' \in [Sessions -> G!Session]
    BY <1>1, <1>s
  <2>2. ASSUME NEW x \in G!Slugs PROVE rowLock'[x] = NoSession \/ desk'[rowLock'[x]].pc # "idle"
    <3>1. rowLock'[x] = rowLock[x] /\ rowLock[x] \in Sessions \cup {NoSession}
      BY <1>1, <1>t
    <3> QED BY <3>1, <1>t, <1>s
  <2>3. /\ gateMix' \in GateMixes /\ row' \in [G!Slugs -> G!States] /\ rowLock' \in [G!Slugs -> Sessions \cup {NoSession}] /\ tenantSub' \in G!Subs
        /\ period' \in G!ToSet(G!Periods) /\ sinceOn' \in [G!Slugs -> 0 .. G!Horizon] /\ sinceOff' \in [G!Slugs -> 0 .. G!Horizon]
        /\ sinceFailed' \in [G!Slugs -> 0 .. G!Horizon] /\ disturbed' \subseteq G!Slugs /\ changes' \in Nat /\ outages' \in Nat
    BY <1>1, <1>t DEF G!TypeOK
  <2> QED BY <2>1, <2>2, <2>3, <1>6, <1>c DEF G!TypeOK
<1>8. ASSUME NEW u \in Sessions PROVE DeskInv(u)'
  <2>1. PICK p : p = desk'[u]
    OBVIOUS
  <2>2. /\ p \in G!Session /\ p.pc = desk[u].pc /\ p.kind = desk[u].kind /\ p.todo = desk[u].todo /\ p.pos = desk[u].pos
        /\ p.new = desk[u].new /\ p.answer = desk[u].answer /\ p.dropped = desk[u].dropped
        /\ p.crossed = IF m \in desk[u].dropped THEN desk[u].crossed \cup {m} ELSE desk[u].crossed
    BY <2>1, <1>s
  <2>3. p.pc \in {"read", "write", "drop"} => p.pos \in 1 .. Len(p.todo)
    BY <2>2, Standing
  <2>4. p.pc # "idle" /\ p.kind \in G!Direct =>
           Len(p.todo) = 1 /\ (p.pc \in {"read", "write"} => \A x \in G!Slugs : rowLock'[x] # u)
    BY <2>2, <1>1, Standing
  <2>5. p.pc # "idle" /\ p.kind \in {"activate", "deactivate", "bootstrap"} =>
           /\ p.pc = "commit" => p.pos = Len(p.todo)
           /\ \A i \in 1 .. (IF p.pc \in {"drop", "commit"} THEN p.pos ELSE p.pos - 1) :
                 rowLock'[p.todo[i]] = u /\ p.new[p.todo[i]] = p.answer[p.todo[i]]
    BY <2>2, <1>1, Standing
  <2>6. \A x \in p.dropped \ p.crossed : cache'[x].left = 0
    <3> SUFFICES ASSUME NEW x \in p.dropped \ p.crossed PROVE cache'[x].left = 0
      OBVIOUS
    <3>1. x # m /\ x \in desk[u].dropped \ desk[u].crossed
      BY <2>2
    <3>2. x \in G!Slugs /\ cache[x].left = 0
      BY <3>1, Standing
    <3> QED BY <3>1, <3>2, <1>c
  <2> QED BY <2>1, <2>2, <2>3, <2>4, <2>5, <2>6, StandingNext
<1>9. ASSUME NEW x \in G!Slugs PROVE AgeInv(x)' /\ CacheInv(x)'
  <2>1. AgeInv(x) /\ CacheInv(x)
    BY DEF ModuleInv
  <2>2. AgeInv(x)'
    BY <2>1, <1>1 DEF AgeInv
  <2>3. CASE x # m
    <3>1. PICK f : f = cache[x]
      OBVIOUS
    <3>2. cache'[x] = f /\ (f.left > 0 => Given(x, f.on, f.failed, TTL - f.left + Delay) /\ Undisturbed(x, f.on, f.failed))
      BY <2>1, <2>3, <3>1, <1>c DEF CacheInv
    <3>3. /\ Given(x, f.on, f.failed, TTL - f.left + Delay) => Given(x, f.on, f.failed, TTL - f.left + Delay)'
          /\ Undisturbed(x, f.on, f.failed) => Undisturbed(x, f.on, f.failed)'
      BY <1>1 DEF Given, Undisturbed
    <3> QED BY <2>2, <3>2, <3>3 DEF CacheInv
  <2>4. CASE x = m
    <3>1. Given(m, o.on, o.failed, Delay)
      <4>1. o.age \in Int /\ Delay \in Int /\ o.age <= Delay
        BY <1>2
      <4> QED BY <4>1, <1>2, <1>t, GivenMore
    <3>2. Given(m, o.on, o.failed, Delay)' /\ Undisturbed(m, o.on, o.failed)'
      BY <3>1, <1>1, <1>2 DEF Given, Undisturbed
    <3>3. TTL - e.left + Delay = Delay
      BY <1>2, <1>3
    <3> QED BY <2>2, <2>4, <3>2, <3>3, <1>3, <1>c DEF CacheInv
  <2> QED BY <2>3, <2>4
<1>10. ASSUME NEW h \in Gates PROVE GateInv(h)'
  <2>1. CASE h = g
    BY <2>1, <1>5
  <2>2. CASE h # g
    <3>1. gate'[h] = gate[h] /\ GateInv(h)
      BY <2>2, <1>6 DEF ModuleInv
    <3> QED BY <3>1, <1>1, <1>t, GateKept
  <2> QED BY <2>1, <2>2
<1> QED BY <1>7, <1>8, <1>9, <1>10 DEF ModuleInv

LEMMA GateTimePasses ==
    ASSUME G!ModuleGateAssumption, ModuleInv, G!Tick
    PROVE  ModuleInv'
<1>1. /\ gate' = [g \in Gates |-> IF gate[g].pc = "idle" THEN gate[g] ELSE [gate[g] EXCEPT !.age = gate[g].age + 1]]
      /\ cache' = [m \in G!Slugs |-> G!Aged(cache[m])]
      /\ sinceOn' = [m \in G!Slugs |-> IF row[m] = "on" THEN 0 ELSE G!Later(sinceOn[m])]
      /\ sinceOff' = [m \in G!Slugs |-> IF row[m] = "on" THEN G!Later(sinceOff[m]) ELSE 0]
      /\ sinceFailed' = [m \in G!Slugs |-> G!Later(sinceFailed[m])]
      /\ \A g \in Gates : gate[g].pc # "idle" => gate[g].age < Delay
      /\ UNCHANGED <<gateMix, rowLock, desk, changes, row, tenantSub, period, disturbed, outages>>
  BY DEF G!Tick, G!Desk
<1>t. /\ G!TypeOK /\ desk \in [Sessions -> G!Session] /\ cache \in [G!Slugs -> G!Entry] /\ gate \in [Gates -> G!Gate]
      /\ G!Horizon \in Nat /\ TTL \in Nat /\ TTL > 0 /\ Delay \in Nat
  BY TypesNow, HorizonFacts
<1>m. \A m \in G!Slugs : /\ sinceOn'[m] \in 0 .. G!Horizon /\ sinceOff'[m] \in 0 .. G!Horizon /\ sinceFailed'[m] \in 0 .. G!Horizon
                         /\ sinceOn'[m] <= sinceOn[m] + 1 /\ sinceOff'[m] <= sinceOff[m] + 1
                         /\ sinceFailed'[m] <= sinceFailed[m] + 1
                         /\ sinceOn[m] \in Int /\ sinceOff[m] \in Int /\ sinceFailed[m] \in Int
                         /\ sinceOn'[m] \in Int /\ sinceOff'[m] \in Int /\ sinceFailed'[m] \in Int
  <2> SUFFICES ASSUME NEW m \in G!Slugs
               PROVE  /\ sinceOn'[m] \in 0 .. G!Horizon /\ sinceOff'[m] \in 0 .. G!Horizon /\ sinceFailed'[m] \in 0 .. G!Horizon
                      /\ sinceOn'[m] <= sinceOn[m] + 1 /\ sinceOff'[m] <= sinceOff[m] + 1
                      /\ sinceFailed'[m] <= sinceFailed[m] + 1
                      /\ sinceOn[m] \in Int /\ sinceOff[m] \in Int /\ sinceFailed[m] \in Int
                      /\ sinceOn'[m] \in Int /\ sinceOff'[m] \in Int /\ sinceFailed'[m] \in Int
    OBVIOUS
  <2>1. sinceOn[m] \in 0 .. G!Horizon /\ sinceOff[m] \in 0 .. G!Horizon /\ sinceFailed[m] \in 0 .. G!Horizon
    BY <1>t, Types
  <2>2. \A n \in 0 .. G!Horizon : G!Later(n) \in 0 .. G!Horizon /\ G!Later(n) <= n + 1
    BY HorizonFacts
  <2>3. /\ sinceOn'[m] = (IF row[m] = "on" THEN 0 ELSE G!Later(sinceOn[m]))
        /\ sinceOff'[m] = (IF row[m] = "on" THEN G!Later(sinceOff[m]) ELSE 0)
        /\ sinceFailed'[m] = G!Later(sinceFailed[m])
    BY <1>1
  <2>4. sinceOn'[m] \in 0 .. G!Horizon /\ sinceOff'[m] \in 0 .. G!Horizon /\ sinceFailed'[m] \in 0 .. G!Horizon
    BY <2>1, <2>2, <2>3, <1>t
  <2>5. sinceOn'[m] <= sinceOn[m] + 1 /\ sinceOff'[m] <= sinceOff[m] + 1 /\ sinceFailed'[m] <= sinceFailed[m] + 1
    BY <2>1, <2>2, <2>3, <1>t
  <2> QED BY <2>1, <2>4, <2>5, <1>t
<1>c. \A m \in G!Slugs : /\ cache'[m] \in G!Entry /\ (cache[m].left = 0 => cache'[m].left = 0)
                         /\ \/ cache'[m].left = 0
                            \/ /\ cache'[m].left = cache[m].left - 1 /\ cache[m].left > 0
                               /\ cache'[m].on = cache[m].on /\ cache'[m].failed = cache[m].failed
  <2> SUFFICES ASSUME NEW m \in G!Slugs
               PROVE  /\ cache'[m] \in G!Entry /\ (cache[m].left = 0 => cache'[m].left = 0)
                      /\ \/ cache'[m].left = 0
                         \/ /\ cache'[m].left = cache[m].left - 1 /\ cache[m].left > 0
                            /\ cache'[m].on = cache[m].on /\ cache'[m].failed = cache[m].failed
    OBVIOUS
  <2>1. PICK e \in G!Entry : e = cache[m]
    BY <1>t
  <2>2. PICK f : f = cache'[m]
    OBVIOUS
  <2>3. f = G!Aged(e) /\ e.left \in 0 .. TTL
    BY <1>1, <1>t, <2>1, <2>2 DEF G!Entry
  <2>4. CASE e.left <= 1
    <3>1. f = G!NoEntry
      BY <2>3, <2>4 DEF G!Aged
    <3>2. f \in G!Entry /\ f.left = 0
      BY <3>1, <1>t DEF G!NoEntry, G!Entry
    <3> QED BY <3>2, <2>1, <2>2
  <2>5. CASE e.left > 1
    <3>1. f = [e EXCEPT !.left = e.left - 1]
      BY <2>3, <2>5, <1>t DEF G!Aged
    <3>2. e.left - 1 \in 0 .. TTL
      BY <2>3, <2>5, <1>t
    <3>3. f \in G!Entry /\ f.left = e.left - 1 /\ f.on = e.on /\ f.failed = e.failed
      BY <3>1, <3>2 DEF G!Entry
    <3>4. e.left # 0 /\ e.left > 0
      BY <2>3, <2>5, <1>t
    <3> QED BY <3>3, <3>4, <2>1, <2>2
  <2> QED BY <2>3, <2>4, <2>5, <1>t
<1>g. ASSUME NEW g \in Gates
      PROVE  /\ gate'[g] \in G!Gate /\ gate'[g].pc = gate[g].pc /\ gate'[g].kind = gate[g].kind /\ gate'[g].pos = gate[g].pos
             /\ gate'[g].on = gate[g].on /\ gate'[g].failed = gate[g].failed
             /\ gate[g].pc # "idle" => gate'[g].age = gate[g].age + 1
  <2>1. PICK o \in G!Gate : o = gate[g]
    BY <1>t
  <2>2. PICK q : q = gate'[g]
    OBVIOUS
  <2>3. q = IF o.pc = "idle" THEN o ELSE [o EXCEPT !.age = o.age + 1]
    BY <1>1, <2>1, <2>2
  <2>4. CASE o.pc = "idle"
    BY <2>1, <2>2, <2>3, <2>4
  <2>5. CASE o.pc # "idle"
    <3>1. o.age + 1 \in 0 .. Delay
      <4>1. o.age \in 0 .. Delay /\ o.age < Delay
        BY <1>1, <2>1, <2>5 DEF G!Gate
      <4> QED BY <4>1, <1>t
    <3>2. q \in G!Gate /\ q.pc = o.pc /\ q.kind = o.kind /\ q.pos = o.pos /\ q.on = o.on /\ q.failed = o.failed /\ q.age = o.age + 1
      BY <2>3, <2>5, <3>1 DEF G!Gate
    <3> QED BY <3>2, <2>1, <2>2
  <2> QED BY <2>4, <2>5
<1>2. G!TypeOK'
  <2>a. cache' \in [G!Slugs -> G!Entry]
    <3>1. \A m \in G!Slugs : cache'[m] \in G!Entry
      BY <1>c
    <3>2. cache' = [m \in G!Slugs |-> G!Aged(cache[m])]
      BY <1>1
    <3>3. \A m \in G!Slugs : G!Aged(cache[m]) \in G!Entry
      BY <3>1, <3>2
    <3> QED BY <3>2, <3>3
  <2>b. gate' \in [Gates -> G!Gate]
    BY <1>1, <1>g
  <2>c. sinceOn' \in [G!Slugs -> 0 .. G!Horizon] /\ sinceOff' \in [G!Slugs -> 0 .. G!Horizon]
    BY <1>1, <1>m
  <2>d. sinceFailed' \in [G!Slugs -> 0 .. G!Horizon]
    BY <1>1, <1>m
  <2>1. /\ cache' \in [G!Slugs -> G!Entry] /\ gate' \in [Gates -> G!Gate] /\ sinceOn' \in [G!Slugs -> 0 .. G!Horizon]
        /\ sinceOff' \in [G!Slugs -> 0 .. G!Horizon] /\ sinceFailed' \in [G!Slugs -> 0 .. G!Horizon]
    BY <2>a, <2>b, <2>c, <2>d
  <2>2. /\ gateMix' \in GateMixes /\ row' \in [G!Slugs -> G!States] /\ rowLock' \in [G!Slugs -> Sessions \cup {NoSession}] /\ tenantSub' \in G!Subs
        /\ \A m \in G!Slugs : rowLock'[m] = NoSession \/ desk'[rowLock'[m]].pc # "idle"
        /\ period' \in G!ToSet(G!Periods) /\ desk' \in [Sessions -> G!Session]
        /\ disturbed' \subseteq G!Slugs /\ changes' \in Nat /\ outages' \in Nat
    BY <1>1, <1>t DEF G!TypeOK
  <2> QED BY <2>1, <2>2 DEF G!TypeOK
<1>3. ASSUME NEW u \in Sessions PROVE DeskInv(u)'
  <2>1. DeskInv(u) /\ desk[u] \in G!Session /\ desk'[u] = desk[u] /\ \A m \in G!Slugs : rowLock'[m] = rowLock[m]
    BY <1>1, TypesNow
  <2>2. \A m \in desk[u].dropped \ desk[u].crossed : cache'[m].left = 0
    BY <1>c, Standing
  <2> QED BY <2>1, <2>2, SessionKept
<1>4. ASSUME NEW m \in G!Slugs PROVE AgeInv(m)' /\ CacheInv(m)'
  <2>1. AgeInv(m)'
    BY <1>1 DEF AgeInv
  <2>2. PICK e : e = cache[m]
    OBVIOUS
  <2>3. PICK f : f = cache'[m]
    OBVIOUS
  <2>4. CASE f.left = 0
    BY <2>1, <2>3, <2>4 DEF CacheInv
  <2>5. CASE f.left # 0
    <3>1. f.left = e.left - 1 /\ e.left > 0 /\ f.on = e.on /\ f.failed = e.failed
      BY <2>2, <2>3, <2>5, <1>c
    <3>2. e.left \in 0 .. TTL /\ e.on \in BOOLEAN /\ e.failed \in BOOLEAN
      BY <2>2, <1>t, Types
    <3>3. Given(m, e.on, e.failed, TTL - e.left + Delay) /\ Undisturbed(m, e.on, e.failed)
      BY <2>2, <3>1 DEF ModuleInv, CacheInv
    <3>4. PICK n : n = TTL - e.left + Delay
      OBVIOUS
    <3>5. n \in Int /\ n + 1 = TTL - f.left + Delay
      BY <3>1, <3>2, <3>4, <1>t
    <3>6. Given(m, e.on, e.failed, n + 1)'
      BY <3>2, <3>3, <3>4, <3>5, <1>m, GivenLater
    <3>7. Undisturbed(m, e.on, e.failed)'
      BY <3>3, <1>1 DEF Undisturbed
    <3>8. Given(m, f.on, f.failed, TTL - f.left + Delay)' /\ Undisturbed(m, f.on, f.failed)'
      BY <3>1, <3>5, <3>6, <3>7
    <3> QED BY <2>1, <2>3, <3>8 DEF CacheInv
  <2> QED BY <2>4, <2>5
<1>5. ASSUME NEW g \in Gates PROVE GateInv(g)'
  <2>1. PICK o : o = gate[g]
    OBVIOUS
  <2>2. PICK q : q = gate'[g]
    OBVIOUS
  <2>3. q.pc = o.pc /\ q.kind = o.kind /\ q.pos = o.pos /\ q.on = o.on /\ q.failed = o.failed /\ (o.pc # "idle" => q.age = o.age + 1)
    BY <2>1, <2>2, <1>g
  <2>4. CASE o.pc = "idle"
    BY <2>2, <2>3, <2>4 DEF GateInv
  <2>5. CASE o.pc # "idle"
    <3>1. PICK m : m = G!Now(g)
      OBVIOUS
    <3>2. /\ o.kind \in G!GateKinds /\ o.pos \in 1 .. Len(G!Needs[o.kind]) /\ o.on \in BOOLEAN /\ o.failed \in BOOLEAN
          /\ o.age \in 0 .. Delay /\ m \in G!Slugs /\ m = G!Needs[o.kind][o.pos]
          /\ o.pc \in {"get", "ask"} => o.failed = FALSE
          /\ o.pos = 2 => sinceOn["inventory"] <= TTL + Delay + o.age
          /\ o.pc = "set" => Given(m, o.on, o.failed, o.age) /\ Undisturbed(m, o.on, o.failed)
      BY <2>1, <2>5, <3>1, AtGate
    <3>3. m = G!Now(g)'
      BY <2>2, <2>3, <3>2 DEF G!Now
    <3>4. q.pos <= Len(G!Needs[q.kind])
      <4>1. o.pos <= Len(G!Needs[o.kind])
        BY <3>2, NeedsFacts
      <4> QED BY <4>1, <2>3
    <3>5. q.pos = 2 => sinceOn'["inventory"] <= TTL + Delay + q.age
      <4>1. "inventory" \in G!Slugs
        BY DEF G!Slugs
      <4>2. sinceOn'["inventory"] <= sinceOn["inventory"] + 1 /\ sinceOn["inventory"] \in Int /\ sinceOn'["inventory"] \in Int
        BY <4>1, <1>m
      <4> QED BY <4>2, <3>2, <2>3, <2>5, <1>t
    <3>6. q.pc = "set" => Given(m, q.on, q.failed, q.age)'
      <4>1. PICK n : n = o.age
        OBVIOUS
      <4>2. n \in Int /\ q.age = n + 1
        BY <4>1, <3>2, <2>3, <2>5
      <4>3. Given(m, o.on, o.failed, n) => Given(m, o.on, o.failed, n + 1)'
        BY <4>2, <3>2, <1>m, GivenLater
      <4> QED BY <4>1, <4>2, <4>3, <3>2, <2>3
    <3>7. q.pc = "set" => Undisturbed(m, q.on, q.failed)'
      BY <3>2, <2>3, <1>1 DEF Undisturbed
    <3> QED BY <2>2, <2>3, <3>2, <3>3, <3>4, <3>5, <3>6, <3>7 DEF GateInv
  <2> QED BY <2>4, <2>5
<1> QED BY <1>2, <1>3, <1>4, <1>5 DEF ModuleInv


LEMMA ModuleNext == G!ModuleGateAssumption /\ ModuleInv /\ G!Next => ModuleInv'
<1> SUFFICES ASSUME G!ModuleGateAssumption, ModuleInv, G!Next PROVE ModuleInv'
  OBVIOUS
<1>1. ASSUME NEW s \in Sessions, G!SessionStep(s) \/ G!DropFails(s) PROVE ModuleInv'
  BY <1>1, SessionReads, WriteStep, SkipStep, DuplicateStep, DropStep, SessionCommits, DropFailsStep DEF G!SessionStep
<1>2. ASSUME NEW s \in Sessions, G!Bootstrap(s) \/ G!Onboard(s) \/ G!Lapse(s) PROVE ModuleInv'
  BY <1>2, BootstrapStep, OnboardStep, LapseStep
<1>3. ASSUME NEW s \in Sessions, NEW kind \in G!Direct, NEW m \in G!Slugs, G!Ask(s, kind, m) PROVE ModuleInv'
  BY <1>3, AdministratorAsks
<1>4. ASSUME NEW g \in Gates, G!GateStep(g) \/ G!Failed(g) \/ G!Unanswered(g) \/ G!RedisFails(g) PROVE ModuleInv'
  <2>1. ASSUME G!Miss(g) PROVE ModuleInv'
    <3>1. /\ gate[g].pc = "get" /\ gate' = [gate EXCEPT ![g].pc = "ask"]
          /\ UNCHANGED <<gateMix, row, rowLock, tenantSub, period, desk, changes, sinceOn, sinceOff, disturbed, cache, sinceFailed, outages>>
      BY <2>1 DEF G!Miss, G!Desk, G!Records, G!Since
    <3>2. outages' \in Nat
      BY <3>1, TypesNow
    <3> QED BY <3>1, <3>2, MissStep
  <2> QED BY <1>4, <2>1, HitStep, AnsweredStep, SetStep, FailedStep, UnansweredStep, RedisFailsStep DEF G!GateStep
<1>5. ASSUME NEW g \in Gates, NEW kind \in G!GateKinds, G!Arrive(g, kind) PROVE ModuleInv'
  BY <1>5, GateArrives
<1> QED BY <1>1, <1>2, <1>3, <1>4, <1>5, GateTimePasses, ElapseStep DEF G!Next

LEMMA Stuttering == G!ModuleGateAssumption /\ ModuleInv /\ UNCHANGED G!vars => ModuleInv'
<1> SUFFICES ASSUME G!ModuleGateAssumption, ModuleInv, UNCHANGED G!vars PROVE ModuleInv'
  OBVIOUS
<1>u. UNCHANGED <<gateMix, row, rowLock, tenantSub, period, desk, cache, gate, sinceOn, sinceOff, sinceFailed, disturbed, changes, outages>>
  BY DEF G!vars
<1>3. G!TypeOK'
  BY <1>u DEF ModuleInv, G!TypeOK
<1>4. ASSUME NEW s \in Sessions PROVE DeskInv(s)'
  <2>1. DeskInv(s)
    BY DEF ModuleInv
  <2> QED BY <2>1, <1>u DEF DeskInv, WrittenUpTo, Answering
<1>5. ASSUME NEW m \in G!Slugs PROVE AgeInv(m)' /\ CacheInv(m)'
  <2>1. AgeInv(m) /\ CacheInv(m)
    BY DEF ModuleInv
  <2> QED BY <2>1, <1>u DEF AgeInv, CacheInv, Given, Undisturbed
<1>6. ASSUME NEW g \in Gates PROVE GateInv(g)'
  <2>1. GateInv(g)
    BY DEF ModuleInv
  <2> QED BY <2>1, <1>u DEF GateInv, Given, Undisturbed, G!Now
<1> QED BY <1>3, <1>4, <1>5, <1>6 DEF ModuleInv

LEMMA ModuleInvariant ==
    ASSUME G!ModuleGateAssumption
    PROVE  G!Spec => []ModuleInv
<1>1. G!Init => ModuleInv
  BY ModuleInit
<1>2. ModuleInv /\ [G!Next]_G!vars => ModuleInv'
  BY ModuleNext, Stuttering
<1> QED BY <1>1, <1>2, PTL DEF G!Spec

\* Type correctness: the records, the sessions with what they still have to
\* touch, the cached keys, the gates and the counters keep their shapes.
THEOREM ModuleGateType ==
    ASSUME G!ModuleGateAssumption
    PROVE  G!Spec => []G!TypeOK
<1>1. ModuleInv => G!TypeOK
  BY DEF ModuleInv
<1> QED BY <1>1, ModuleInvariant, PTL

\* Whatever the interleaving, an entry in the cache contradicts the committed
\* record of its module only if it was cached around the last change of that
\* record, after the deletion of the key, or the deletion itself failed.
THEOREM AnswersStaleOnlyWhenOutrun ==
    ASSUME G!ModuleGateAssumption
    PROVE  G!Spec => []StaleOnlyWhenOutrun
<1>1. ModuleInv => G!StaleOnlyWhenOutrun
  <2> SUFFICES ASSUME ModuleInv, NEW m \in G!Slugs \ disturbed, G!Live(m), ~cache[m].failed PROVE G!Agrees(m)
    BY DEF G!StaleOnlyWhenOutrun
  <2>1. cache[m].on \in BOOLEAN /\ cache[m].failed \in BOOLEAN
    BY Types, TypesNow
  <2>2. cache[m].failed = FALSE
    BY <2>1
  <2>3. Undisturbed(m, cache[m].on, cache[m].failed)
    BY DEF ModuleInv, CacheInv, G!Live
  <2>4. cache[m].on = TRUE <=> row[m] = "on"
    BY <2>2, <2>3 DEF Undisturbed
  <2> QED BY <2>1, <2>4 DEF G!Agrees
<1>2. G!StaleOnlyWhenOutrun => StaleOnlyWhenOutrun
  BY DEF StaleOnlyWhenOutrun, G!StaleOnlyWhenOutrun, Slugs, G!Slugs, Live, G!Live, Agrees, G!Agrees
<1> QED BY <1>1, <1>2, ModuleInvariant, PTL

(* Only its commit takes a session that has written everything away.         *)
LEMMA OnlyCommits ==
    ASSUME G!ModuleGateAssumption, ModuleInv, G!Next, NEW s \in Sessions, desk[s].pc = "commit", desk'[s].pc = "idle"
    PROVE  G!Commit(s)
<1>0. desk \in [Sessions -> G!Session]
  BY TypesNow
<1>1. ASSUME NEW t \in Sessions, NEW r, desk' = [desk EXCEPT ![t] = r], desk[t].pc # "commit"
      PROVE  FALSE
  <2>1. t # s
    BY <1>1
  <2>2. desk'[s] = desk[s]
    BY <2>1, <1>0, <1>1
  <2> QED BY <2>2
<1>2. ASSUME UNCHANGED desk PROVE FALSE
  BY <1>2
<1>3. ASSUME NEW t \in Sessions, G!SessionStep(t) \/ G!DropFails(t) PROVE G!Commit(s)
  <2>1. ASSUME G!Read(t) PROVE FALSE
    <3>1. desk[t].pc = "read" /\ \E r : desk' = [desk EXCEPT ![t] = r]
      BY <2>1 DEF G!Read, G!At
    <3> QED BY <3>1, <1>1
  <2>2. ASSUME G!Write(t) PROVE FALSE
    <3>1. desk[t].pc = "write" /\ \E r : desk' = [desk EXCEPT ![t] = r]
      BY <2>2 DEF G!Write, G!At
    <3> QED BY <3>1, <1>1
  <2>3. ASSUME G!Skip(t) PROVE FALSE
    <3>1. desk[t].pc = "write" /\ \E r : desk' = [desk EXCEPT ![t] = r]
      BY <2>3 DEF G!Skip, G!At
    <3> QED BY <3>1, <1>1
  <2>4. ASSUME G!Duplicate(t) \/ G!Victim(t) PROVE FALSE
    <3>1. desk[t].pc = "write" /\ \E r : desk' = [desk EXCEPT ![t] = r]
      BY <2>4 DEF G!Duplicate, G!Victim, G!Awaits, G!Rollback, G!At
    <3> QED BY <3>1, <1>1
  <2>5. ASSUME G!Drop(t) \/ G!DropFails(t) PROVE FALSE
    <3>1. desk[t].pc = "drop" /\ \E r : desk' = [desk EXCEPT ![t] = r]
      BY <2>5 DEF G!Drop, G!DropFails, G!At
    <3> QED BY <3>1, <1>1
  <2>6. ASSUME G!Commit(t) PROVE G!Commit(s)
    <3>1. CASE t = s
      BY <3>1, <2>6
    <3>2. CASE t # s
      <4>1. desk' = [desk EXCEPT ![t] = G!Idle]
        BY <2>6 DEF G!Commit
      <4>2. desk'[s] = desk[s]
        BY <4>1, <3>2, <1>0
      <4> QED BY <4>2
    <3> QED BY <3>1, <3>2
  <2> QED BY <1>3, <2>1, <2>2, <2>3, <2>4, <2>5, <2>6 DEF G!SessionStep
<1>4. ASSUME NEW t \in Sessions, G!Bootstrap(t) \/ G!Onboard(t) \/ G!Lapse(t) PROVE FALSE
  <2>1. ASSUME NEW kind, NEW new, G!Begin(t, kind, new) PROVE FALSE
    <3>1. desk[t].pc = "idle" /\ \E r : desk' = [desk EXCEPT ![t] = r]
      BY <2>1 DEF G!Begin, G!At
    <3> QED BY <3>1, <1>1
  <2> QED BY <1>4, <2>1 DEF G!Bootstrap, G!Onboard, G!Lapse
<1>5. ASSUME NEW t \in Sessions, NEW kind \in G!Direct, NEW m \in G!Slugs, G!Ask(t, kind, m) PROVE FALSE
  <2>1. desk[t].pc = "idle" /\ \E r : desk' = [desk EXCEPT ![t] = r]
    BY <1>5 DEF G!Ask, G!Begin, G!At
  <2> QED BY <2>1, <1>1
<1>6. ASSUME NEW g \in Gates, G!GateStep(g) \/ G!Failed(g) \/ G!Unanswered(g) \/ G!RedisFails(g) PROVE FALSE
  <2>1. ASSUME G!Set(g) PROVE FALSE
    <3>1. desk'[s] = IF G!Now(g) \in desk[s].dropped THEN [desk[s] EXCEPT !.crossed = desk[s].crossed \cup {G!Now(g)}] ELSE desk[s]
      BY <2>1 DEF G!Set
    <3>2. PICK p \in G!Session : p = desk[s]
      BY <1>0
    <3>3. [p EXCEPT !.crossed = p.crossed \cup {G!Now(g)}].pc = p.pc
      BY DEF G!Session
    <3> QED BY <3>1, <3>2, <3>3
  <2>2. ASSUME G!Hit(g) \/ G!Miss(g) \/ G!Answered(g) \/ G!Failed(g) \/ G!Unanswered(g) \/ G!RedisFails(g) PROVE FALSE
    <3>1. UNCHANGED desk
      BY <2>2 DEF G!Hit, G!Miss, G!Answered, G!Failed, G!Unanswered, G!RedisFails, G!Fault, G!Desk
    <3> QED BY <3>1, <1>2
  <2> QED BY <1>6, <2>1, <2>2 DEF G!GateStep
<1>7. ASSUME NEW g \in Gates, NEW kind \in G!GateKinds, G!Arrive(g, kind) PROVE FALSE
  <2>1. UNCHANGED desk
    BY <1>7 DEF G!Arrive, G!Desk
  <2> QED BY <2>1, <1>2
<1>8. ASSUME G!Tick \/ G!Elapse PROVE FALSE
  <2>1. UNCHANGED desk
    BY <1>8 DEF G!Tick, G!Elapse, G!Desk
  <2> QED BY <2>1, <1>2
<1> QED BY <1>3, <1>4, <1>5, <1>6, <1>7, <1>8 DEF G!Next

\* What an activation, a deactivation or the bootstrap answers its caller is
\* what the record says once its commit is in, for each module it touched.
THEOREM AnswersAreCommitted ==
    ASSUME G!ModuleGateAssumption
    PROVE  G!Spec => AnsweredAsCommitted
<1> DEFINE A == \A s \in DOMAIN desk :
         /\ desk[s].pc = "commit" /\ desk'[s].pc = "idle"
         /\ desk[s].kind \in {"activate", "deactivate", "bootstrap"}
         => \A m \in ToSet(desk[s].todo) : row'[m] = desk[s].answer[m]
<1>1. ModuleInv /\ G!Next => A
  <2> SUFFICES ASSUME ModuleInv, G!Next PROVE A
    OBVIOUS
  <2>a. DOMAIN desk = Sessions
    BY DEF ModuleInv, G!TypeOK
  <2>b. \A q : ToSet(q) = G!ToSet(q)
    BY DEF ToSet, G!ToSet
  <2> SUFFICES ASSUME NEW s \in Sessions, desk[s].pc = "commit", desk'[s].pc = "idle",
                      desk[s].kind \in {"activate", "deactivate", "bootstrap"}, NEW m \in G!ToSet(desk[s].todo)
               PROVE  row'[m] = desk[s].answer[m]
    BY <2>a, <2>b
  <2>1. G!Commit(s)
    BY OnlyCommits
  <2>2. PICK p : p = desk[s]
    OBVIOUS
  <2>3. /\ p.todo \in Seq(G!Slugs) /\ Len(p.todo) \in Nat /\ \A i \in 1 .. Len(p.todo) : p.todo[i] \in G!Slugs
    BY <2>2, TypesNow, SessionFields
  <2>4. PICK i \in 1 .. Len(p.todo) : m = p.todo[i]
    BY <2>2, <2>3 DEF G!ToSet
  <2>5. p.pos = Len(p.todo) /\ \A j \in 1 .. p.pos : rowLock[p.todo[j]] = s /\ p.new[p.todo[j]] = p.answer[p.todo[j]]
    BY <2>2, Standing
  <2>6. rowLock[m] = s /\ p.new[m] = p.answer[m] /\ m \in G!Slugs
    BY <2>3, <2>4, <2>5
  <2>7. row' = [x \in G!Slugs |-> IF x \in G!Written(s) THEN p.new[x] ELSE row[x]]
    BY <2>1, <2>2 DEF G!Commit
  <2>8. m \in G!Written(s)
    BY <2>6 DEF G!Written
  <2> QED BY <2>2, <2>6, <2>7, <2>8
<1>2. ModuleInv /\ [G!Next]_G!vars => [A]_desk
  BY <1>1 DEF G!vars
<1> QED BY <1>2, ModuleInvariant, PTL DEF G!Spec, AnsweredAsCommitted


(* What is granted at the last module, or refused at any, was so a short while *)
(* ago.                                                                       *)
LEMMA RecentlyDecided ==
    ASSUME G!ModuleGateAssumption, ModuleInv, NEW g \in Gates, gate[g].pc \in {"get", "set"},
           gate[g].pc = "get" => G!Live(G!Now(g)),
           G!Granted(g) = TRUE => gate[g].pos = Len(G!Needs[gate[g].kind]),
           NEW kind, kind = gate[g].kind
    PROVE  IF G!Granted(g) THEN \A m \in G!SlugsOf(kind) : G!Recent(sinceOn[m], kind)
           ELSE \E m \in G!SlugsOf(kind) : G!Recent(sinceOff[m], kind) \/ G!Recent(sinceFailed[m], kind)
<1>p. PICK p : p = gate[g].pos
  OBVIOUS
<1>m. PICK m : m = G!Now(g)
  OBVIOUS
<1>l. PICK l : l = Len(G!Needs[kind])
  OBVIOUS
<1>0. /\ kind \in G!GateKinds /\ p \in 1 .. l /\ l \in {1, 2} /\ m \in G!Slugs /\ m = G!Needs[kind][p]
      /\ p = 2 => sinceOn["inventory"] <= TTL + Delay + gate[g].age
      /\ gate[g].pc = "set" => Given(m, gate[g].on, gate[g].failed, gate[g].age)
      /\ gate[g].age \in 0 .. Delay /\ gate[g].on \in BOOLEAN /\ gate[g].failed \in BOOLEAN
      /\ l = 2 => kind = "production"
  BY <1>p, <1>m, <1>l, AtGate
<1>t. /\ TTL \in Nat /\ Delay \in Nat /\ G!Horizon \in Nat /\ G!TypeOK
      /\ cache[m].left \in 0 .. TTL /\ cache[m].on \in BOOLEAN /\ cache[m].failed \in BOOLEAN
      /\ "inventory" \in G!Slugs
      /\ \A x \in G!Slugs : sinceOn[x] \in Int /\ sinceOff[x] \in Int /\ sinceFailed[x] \in Int
  <2>1. TTL \in Nat /\ Delay \in Nat /\ G!Horizon \in Nat /\ G!TypeOK
    BY HorizonFacts, TypesNow
  <2>2. cache[m].left \in 0 .. TTL /\ cache[m].on \in BOOLEAN /\ cache[m].failed \in BOOLEAN
    BY <2>1, <1>0, Types
  <2>3. \A x \in G!Slugs : sinceOn[x] \in 0 .. G!Horizon /\ sinceOff[x] \in 0 .. G!Horizon /\ sinceFailed[x] \in 0 .. G!Horizon
    BY <2>1, Types
  <2>4. \A x \in G!Slugs : sinceOn[x] \in Int /\ sinceOff[x] \in Int /\ sinceFailed[x] \in Int
    BY <2>3, <2>1
  <2> QED BY <2>1, <2>2, <2>4 DEF G!Slugs
<1>b. PICK b : b = TTL + Delay * l
  OBVIOUS
<1>c. b \in Int /\ TTL + Delay <= b /\ (l = 2 => TTL + Delay + Delay <= b)
  <2>1. CASE l = 1
    BY <2>1, <1>b, <1>t
  <2>2. CASE l = 2
    BY <2>2, <1>b, <1>t
  <2> QED BY <2>1, <2>2, <1>0
<1>r. \A n : G!Recent(n, kind) <=> n <= b
  BY <1>b, <1>l DEF G!Recent
<1>1. \E on \in BOOLEAN, failed \in BOOLEAN, n \in Int :
         Given(m, on, failed, n) /\ n <= TTL + Delay /\ G!Granted(g) = on
  <2>1. CASE gate[g].pc = "get"
    <3>1. Given(m, cache[m].on, cache[m].failed, TTL - cache[m].left + Delay)
      BY <2>1, <1>0, <1>m DEF ModuleInv, CacheInv, G!Live
    <3>2. G!Granted(g) = cache[m].on
      BY <2>1, <1>m DEF G!Granted
    <3>3. TTL - cache[m].left + Delay \in Int /\ TTL - cache[m].left + Delay <= TTL + Delay
      BY <1>t
    <3> QED BY <3>1, <3>2, <3>3, <1>t
  <2>2. CASE gate[g].pc = "set"
    <3>1. Given(m, gate[g].on, gate[g].failed, gate[g].age) /\ gate[g].age \in Int /\ gate[g].age <= TTL + Delay
      BY <2>2, <1>0, <1>t
    <3>2. "get" # "set"
      OBVIOUS
    <3>3. G!Granted(g) = gate[g].on
      BY <2>2, <3>2 DEF G!Granted
    <3> QED BY <3>1, <3>3, <1>0
  <2> QED BY <2>1, <2>2
<1>2. PICK on \in BOOLEAN, failed \in BOOLEAN, n \in Int :
         Given(m, on, failed, n) /\ n <= TTL + Delay /\ G!Granted(g) = on
  BY <1>1
<1>3. CASE on = TRUE
  <2>1. sinceOn[m] <= b
    <3>1. sinceOn[m] <= n
      BY <1>2, <1>3 DEF Given
    <3> QED BY <3>1, <1>2, <1>c, <1>t, <1>0
  <2>2. p = l
    BY <1>2, <1>3, <1>p, <1>l
  <2>3. CASE l = 1
    <3>1. kind # "production"
      BY <2>3, <1>l, NeedsFacts
    <3>2. G!SlugsOf(kind) = {m}
      BY <3>1, <2>2, <2>3, <1>0, NeedsFacts
    <3> QED BY <3>2, <2>1, <1>2, <1>3, <1>r
  <2>4. CASE l = 2
    <3>1. kind = "production" /\ p = 2
      BY <2>2, <2>4, <1>0
    <3>2. G!SlugsOf(kind) = {"inventory", m}
      BY <3>1, <1>0, NeedsFacts
    <3>3. sinceOn["inventory"] <= b
      BY <3>1, <2>4, <1>0, <1>c, <1>t
    <3> QED BY <3>2, <3>3, <2>1, <1>2, <1>3, <1>r
  <2> QED BY <2>3, <2>4, <1>0
<1>4. CASE on = FALSE
  <2>1. m \in G!SlugsOf(kind)
    <3>1. kind \in G!GateKinds /\ m = G!Needs[kind][p] /\ p \in 1 .. Len(G!Needs[kind])
      BY <1>0, <1>l, NeedsFacts
    <3>2. G!SlugsOf(kind) = {G!Needs[kind][i] : i \in 1 .. Len(G!Needs[kind])}
      BY <3>1, NeedsFacts
    <3> QED BY <3>1, <3>2
  <2>2. sinceOff[m] <= n \/ sinceFailed[m] <= n
    BY <1>2, <1>4 DEF Given
  <2>3. sinceOff[m] <= b \/ sinceFailed[m] <= b
    BY <2>2, <1>2, <1>c, <1>t, <1>0
  <2> QED BY <2>1, <2>3, <1>2, <1>4, <1>r
<1> QED BY <1>2, <1>3, <1>4

(* A gate that decides looked at a live answer or got one, and it grants only at *)
(* its last module.                                                          *)
LEMMA HowDecided ==
    ASSUME G!ModuleGateAssumption, ModuleInv, G!Next, NEW g \in Gates, G!Decides(g)
    PROVE  /\ gate[g].pc = "get" => G!Live(G!Now(g))
           /\ G!Granted(g) = TRUE => gate[g].pos = Len(G!Needs[gate[g].kind])
<1> DEFINE P == /\ gate[g].pc = "get" => G!Live(G!Now(g))
                /\ G!Granted(g) = TRUE => gate[g].pos = Len(G!Needs[gate[g].kind])
<1>0. /\ gate \in [Gates -> G!Gate] /\ outages \in Nat /\ gate[g].pc \in {"get", "set"} /\ gate'[g].pc = "idle"
      /\ gate[g].kind = "compliance" \/ outages' = outages
      /\ gate[g].on \in BOOLEAN /\ gate[g].pc # "idle"
  BY TypesNow, Types DEF G!Decides
<1>1. ASSUME UNCHANGED gate PROVE FALSE
  BY <1>0, <1>1
<1>2. ASSUME NEW h \in Gates, NEW r, gate' = [gate EXCEPT ![h] = r], h # g PROVE FALSE
  <2>1. gate'[g] = gate[g]
    BY <1>2, <1>0
  <2> QED BY <2>1, <1>0
<1>3. ASSUME NEW h \in Gates, NEW on, G!Decide(h, on) PROVE \E r : gate' = [gate EXCEPT ![h] = r]
  BY <1>3 DEF G!Decide, G!Leave
<1>4. ASSUME NEW on \in BOOLEAN, G!Decide(g, on), on = TRUE PROVE gate[g].pos = Len(G!Needs[gate[g].kind])
  <2> SUFFICES ASSUME gate[g].pos # Len(G!Needs[gate[g].kind]) PROVE FALSE
    OBVIOUS
  <2>1. PICK r : r = [G!Away EXCEPT !.pc = "get", !.pos = gate[g].pos + 1, !.kind = gate[g].kind]
    OBVIOUS
  <2>2. gate' = [gate EXCEPT ![g] = r]
    BY <1>4, <2>1 DEF G!Decide
  <2>3. r.pc = "get"
    BY <2>1 DEF G!Away
  <2>4. gate'[g] = r
    BY <2>2, <1>0
  <2> QED BY <2>3, <2>4, <1>0
<1>5. ASSUME NEW t \in Sessions, G!SessionStep(t) \/ G!DropFails(t) PROVE FALSE
  <2>1. UNCHANGED gate
    BY <1>5 DEF G!SessionStep, G!Read, G!Write, G!Skip, G!Duplicate, G!Victim, G!Rollback, G!Drop, G!Commit, G!DropFails, G!Counter
  <2> QED BY <2>1, <1>1
<1>6. ASSUME NEW t \in Sessions, G!Bootstrap(t) \/ G!Onboard(t) \/ G!Lapse(t) PROVE FALSE
  <2>1. UNCHANGED gate
    BY <1>6 DEF G!Bootstrap, G!Onboard, G!Lapse, G!Begin, G!Counter
  <2> QED BY <2>1, <1>1
<1>7. ASSUME NEW t \in Sessions, NEW kind \in G!Direct, NEW m \in G!Slugs, G!Ask(t, kind, m) PROVE FALSE
  <2>1. UNCHANGED gate
    BY <1>7 DEF G!Ask, G!Begin, G!Counter
  <2> QED BY <2>1, <1>1
<1>8. ASSUME NEW h \in Gates, G!Hit(h) PROVE P
  <2>1. G!Decide(h, cache[G!Now(h)].on) /\ G!Live(G!Now(h)) /\ gate[h].pc = "get"
    BY <1>8 DEF G!Hit
  <2>2. h = g
    BY <2>1, <1>2, <1>3
  <2>3. G!Granted(g) = cache[G!Now(g)].on
    BY <2>1, <2>2 DEF G!Granted
  <2>4. cache[G!Now(g)].on \in BOOLEAN
    BY <1>0, AtGate, Types, TypesNow
  <2> QED BY <2>1, <2>2, <2>3, <2>4, <1>4
<1>9. ASSUME NEW h \in Gates, G!Set(h) PROVE P
  <2>1. G!Decide(h, gate[h].on) /\ gate[h].pc = "set"
    BY <1>9 DEF G!Set
  <2>2. h = g
    BY <2>1, <1>2, <1>3
  <2>3. "get" # "set"
    OBVIOUS
  <2>4. G!Granted(g) = gate[g].on /\ gate[g].pc # "get"
    BY <2>1, <2>2, <2>3 DEF G!Granted
  <2> QED BY <2>1, <2>2, <2>4, <1>0, <1>4
<1>10. ASSUME NEW h \in Gates, G!Miss(h) PROVE FALSE
  <2>1. PICK r : r = [gate[h] EXCEPT !.pc = "ask"]
    OBVIOUS
  <2>2. gate' = [gate EXCEPT ![h] = r]
    BY <1>10, <2>1 DEF G!Miss
  <2>3. gate[h] \in G!Gate
    BY <1>0
  <2>4. r.pc = "ask"
    BY <2>1, <2>3 DEF G!Gate
  <2>5. h = g
    BY <2>2, <1>2
  <2>6. gate'[g] = r
    BY <2>2, <2>5, <1>0
  <2> QED BY <2>4, <2>6, <1>0
<1>11. ASSUME NEW h \in Gates, G!Answered(h) \/ G!Failed(h) \/ G!Unanswered(h) PROVE FALSE
  <2>1. gate[h].pc = "ask" /\ \E r : gate' = [gate EXCEPT ![h] = r]
    BY <1>11 DEF G!Answered, G!Failed, G!Unanswered, G!Leave
  <2>2. h # g
    BY <2>1, <1>0
  <2> QED BY <2>1, <2>2, <1>2
<1>12. ASSUME NEW h \in Gates, G!RedisFails(h) PROVE P
  <2>1. outages' = outages + 1
    BY <1>12 DEF G!RedisFails
  <2>2. gate[g].kind = "compliance"
    BY <2>1, <1>0
  <2>3. \E r : gate' = [gate EXCEPT ![h] = r]
    BY <1>12, <1>3 DEF G!RedisFails, G!Leave
  <2>4. h = g
    BY <2>3, <1>2
  <2>5. CASE gate[g].pc = "get"
    <3>1. PICK r : r = [gate[g] EXCEPT !.pc = "ask"]
      OBVIOUS
    <3>2. gate' = [gate EXCEPT ![g] = r]
      BY <1>12, <2>2, <2>4, <2>5, <3>1 DEF G!RedisFails
    <3>3. gate[g] \in G!Gate
      BY <1>0
    <3>4. r.pc = "ask"
      BY <3>1, <3>3 DEF G!Gate
    <3>5. gate'[g] = r
      BY <3>2, <1>0
    <3> QED BY <3>4, <3>5, <1>0
  <2>6. CASE gate[g].pc = "set"
    <3>1. "get" # "set"
      OBVIOUS
    <3>2. G!Decide(g, gate[g].on)
      BY <1>12, <2>2, <2>4, <2>6, <3>1 DEF G!RedisFails
    <3>3. G!Granted(g) = gate[g].on /\ gate[g].pc # "get"
      BY <2>6, <3>1 DEF G!Granted
    <3> QED BY <3>2, <3>3, <1>0, <1>4
  <2> QED BY <2>5, <2>6, <1>0
<1>13. ASSUME NEW h \in Gates, NEW kind \in G!GateKinds, G!Arrive(h, kind) PROVE FALSE
  <2>1. gate[h].pc = "idle" /\ \E r : gate' = [gate EXCEPT ![h] = r]
    BY <1>13 DEF G!Arrive
  <2>2. h # g
    BY <2>1, <1>0
  <2> QED BY <2>1, <2>2, <1>2
<1>14. ASSUME G!Tick PROVE FALSE
  <2>1. PICK o \in G!Gate : o = gate[g]
    BY <1>0
  <2>2. gate'[g] = [o EXCEPT !.age = o.age + 1]
    BY <1>14, <2>1, <1>0 DEF G!Tick
  <2>3. [o EXCEPT !.age = o.age + 1].pc = o.pc
    BY DEF G!Gate
  <2> QED BY <2>1, <2>2, <2>3, <1>0
<1>15. ASSUME G!Elapse PROVE FALSE
  <2>1. UNCHANGED gate
    BY <1>15 DEF G!Elapse, G!Counter
  <2> QED BY <2>1, <1>1
<1>16. P
  BY <1>5, <1>6, <1>7, <1>8, <1>9, <1>10, <1>11, <1>12, <1>13, <1>14, <1>15 DEF G!Next, G!GateStep
<1> QED BY <1>16

\* A gate lets a request through only if each module it needs was on at most
\* TTL and a Delay per module earlier, and turns it away only if one of them was
\* off, or was not answered for, as recently: an entry is never renewed by a read.
THEOREM DecisionsAreRecent ==
    ASSUME G!ModuleGateAssumption
    PROVE  G!Spec => DecidedOnRecentState
<1> DEFINE A == \A g \in Gates : G!Decides(g) =>
         LET kind == gate[g].kind IN
         IF G!Granted(g) THEN \A m \in G!SlugsOf(kind) : G!Recent(sinceOn[m], kind)
         ELSE \E m \in G!SlugsOf(kind) : G!Recent(sinceOff[m], kind) \/ G!Recent(sinceFailed[m], kind)
<1>1. ModuleInv /\ G!Next => A
  <2> SUFFICES ASSUME ModuleInv, G!Next, NEW g \in Gates, G!Decides(g)
               PROVE  LET kind == gate[g].kind IN
                      IF G!Granted(g) THEN \A m \in G!SlugsOf(kind) : G!Recent(sinceOn[m], kind)
                      ELSE \E m \in G!SlugsOf(kind) : G!Recent(sinceOff[m], kind) \/ G!Recent(sinceFailed[m], kind)
    OBVIOUS
  <2>1. gate[g].pc \in {"get", "set"}
    BY DEF G!Decides
  <2>2. /\ gate[g].pc = "get" => G!Live(G!Now(g))
        /\ G!Granted(g) = TRUE => gate[g].pos = Len(G!Needs[gate[g].kind])
    BY HowDecided
  <2> QED BY <2>1, <2>2, RecentlyDecided
<1>2. ModuleInv /\ UNCHANGED G!vars => A
  <2> SUFFICES ASSUME ModuleInv, UNCHANGED G!vars, NEW g \in Gates, G!Decides(g) PROVE FALSE
    OBVIOUS
  <2>1. gate' = gate
    BY DEF G!vars
  <2>2. gate[g].pc \in {"get", "set"} /\ gate'[g].pc = "idle"
    BY DEF G!Decides
  <2> QED BY <2>1, <2>2
<1> DEFINE D == \A g \in Gates : Decides(g) =>
         LET kind == gate[g].kind IN
         IF Granted(g) THEN \A m \in SlugsOf(kind) : Recent(sinceOn[m], kind)
         ELSE \E m \in SlugsOf(kind) : Recent(sinceOff[m], kind) \/ Recent(sinceFailed[m], kind)
<1>3. A => D
  <2>1. /\ \A g : Decides(g) <=> G!Decides(g)
        /\ \A g : Granted(g) = G!Granted(g)
    BY DEF Decides, G!Decides, Granted, G!Granted, Now, G!Now, Needs, G!Needs
  <2>2. /\ \A k : SlugsOf(k) = G!SlugsOf(k)
        /\ \A n, k : Recent(n, k) <=> G!Recent(n, k)
    BY DEF SlugsOf, G!SlugsOf, ToSet, G!ToSet, Recent, G!Recent, Needs, G!Needs
  <2> HIDE DEF A, D
  <2> QED BY <2>1, <2>2 DEF A, D
<1>4. ModuleInv /\ [G!Next]_G!vars => [D]_gate
  BY <1>1, <1>2, <1>3 DEF G!vars
<1> QED BY <1>4, ModuleInvariant, PTL DEF G!Spec, DecidedOnRecentState
=============================================================================
