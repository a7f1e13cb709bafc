-------------------------- MODULE CustodyChainProofs --------------------------
(***************************************************************************)
(* What CustodyChain keeps true for any number of requests, any allowlist  *)
(* and any workflow.                                                       *)
(*                                                                         *)
(* LockedLinked is not inductive: it needs that the row agrees with the    *)
(* event committed last (SpineInv), that a request under the lock has the  *)
(* row's present value in hand (LockInv), and that a request writes one    *)
(* event, when it ends (OnceInv).  TerminalSealed adds that a request that *)
(* has passed the workflow check read an open state, or keeps the state it *)
(* read (GoalInv), that what a request has read is what some event left    *)
(* (ReadInv), that the event before a change of state left an open one     *)
(* (OpenInv), and that between a terminal state and an open one a note     *)
(* that had read the asset before intervened (ReopenInv).                  *)
(***************************************************************************)
EXTENDS CustodyChain, TLAPS

\* The request has loaded the asset and has not ended.
Loading(q) == q.pc \in {"custodian", "record"} \/ (q.pc = "wallet" /\ q.typed)

\* The request has passed the check of the workflow engine.
Cleared(q) == q.pc = "record" \/ (q.pc = "wallet" /\ q.typed)

SpineInv ==
    /\ Len(events) >= 1 /\ events[1].id = Genesis
    /\ asset = [head |-> events[Len(events)].id,
                state |-> events[Len(events)].state,
                custodian |-> events[Len(events)].custodian]

LockInv ==
    \A r \in Reqs :
        /\ Loading(req[r]) /\ Locks(req[r]) => lock = r
        /\ lock = r => req[r].snap = asset

OnceInv ==
    \A i \in 1..Len(events) :
        /\ events[i].id \in Reqs => req[events[i].id].pc = "done"
        /\ \A j \in 1..Len(events) : events[i].id = events[j].id => i = j

\* What the workflow engine lets through.
GoodGoal(q) ==
    /\ \/ q.slug \in Informational /\ q.goal = q.snap.state
       \/ q.snap.state \notin Terminal
    /\ Locks(q) \/ q.goal = q.snap.state

GoalInv == \A r \in Reqs : Cleared(req[r]) => GoodGoal(req[r])

\* The request read what the h-th event left.
ReadAt(q, h) == q.snap.head = events[h].id /\ q.snap.state = events[h].state

ReadInv ==
    \A r \in Reqs : Loading(req[r]) => \E h \in 1..Len(events) : ReadAt(req[r], h)

OpenInv ==
    \A j \in 2..Len(events) :
        \/ events[j].id \in Reqs /\ req[events[j].id].slug \in Informational
        \/ events[j - 1].state \notin Terminal

ReopenInv ==
    \A i, m \in 1..Len(events) :
        i <= m /\ events[i].state \in Terminal /\ events[m].state \notin Terminal
        => \E k \in (i + 1)..m : Overtaken(i, k)

ChainInv == TypeOK /\ SpineInv /\ LockInv /\ OnceInv /\ LockedLinked

SealInv == ChainInv /\ GoalInv /\ ReadInv /\ OpenInv /\ ReopenInv

-----------------------------------------------------------------------------
(* Records and sequences.                                                  *)

\* A closed request is a request.
LEMMA ClosedRequest ==
    ASSUME NEW q \in Request
    PROVE  [q EXCEPT !.pc = "done", !.to = NoWallet,
                     !.snap = NewAsset, !.goal = Initial] \in Request
BY WorkflowAssumption DEF Request, Row, NewAsset, Pcs

\* Moving a request on keeps it a request.
LEMMA MovedRequest ==
    ASSUME NEW q \in Request, NEW pc \in Pcs
    PROVE  [q EXCEPT !.pc = pc] \in Request
BY DEF Request

\* The event a request writes is an event.
LEMMA NewEventType ==
    ASSUME NEW r \in Reqs, NEW q \in Request
    PROVE  NewEvent(r, q) \in Event
<1>1. q.snap \in Row /\ q.to \in Wallets \cup {NoWallet} /\ q.goal \in States
  BY DEF Request
<1>2. q.snap.head \in Reqs \cup {Genesis} /\ q.snap.custodian \in Wallets
  BY <1>1 DEF Row
<1> QED BY <1>1, <1>2 DEF NewEvent, Event

\* The first elements of a sequence are untouched by an append.
LEMMA Appended ==
    ASSUME NEW S, NEW s \in Seq(S), NEW e \in S
    PROVE  /\ Append(s, e) \in Seq(S)
           /\ Len(Append(s, e)) = Len(s) + 1
           /\ \A i \in 1..Len(s) : Append(s, e)[i] = s[i]
           /\ Append(s, e)[Len(s) + 1] = e
           /\ Len(s) \in Nat
OBVIOUS

-----------------------------------------------------------------------------
(* Types.                                                                  *)

\* Every value Targets and Resolved yield is a workflow state.
LEMMA ResolvedType ==
    ASSUME NEW q \in Request
    PROVE  Resolved(q) \subseteq States
<1>1. q.snap \in Row /\ q.slug \in EventTypes
  BY DEF Request
<1>2. q.snap.state \in States
  BY <1>1 DEF Row
<1>3. Targets[q.snap.state, q.slug] \subseteq States
  BY <1>1, <1>2, WorkflowAssumption
<1> QED BY <1>2, <1>3 DEF Resolved

LEMMA InitType == Init => TypeOK
<1> SUFFICES ASSUME Init PROVE TypeOK
  OBVIOUS
<1>1. NewAsset \in Row /\ Created \in Event
  BY WorkflowAssumption DEF NewAsset, Created, Row, Event
<1>2. Idle \in Request
  BY <1>1, WorkflowAssumption DEF Idle, Request, Pcs, EventTypes, TypedSlugs
<1>3. active \subseteq Wallets
  BY WorkflowAssumption DEF Init
<1>4. events \in Seq(Event)
  BY <1>1 DEF Init
<1> QED BY <1>1, <1>2, <1>3, <1>4 DEF Init, TypeOK

\* Closing a request preserves the types of what it changes.
LEMMA CloseType ==
    ASSUME TypeOK, NEW r \in Reqs, Close(r)
    PROVE  req' \in [Reqs -> Request] /\ lock' \in Reqs \cup {NoReq}
<1>1. req[r] \in Request
  BY DEF TypeOK
<1> DEFINE q == [req[r] EXCEPT !.pc = "done", !.to = NoWallet,
                               !.snap = NewAsset, !.goal = Initial]
<1>2. q \in Request
  BY <1>1, ClosedRequest
<1>3. req' = [req EXCEPT ![r] = q]
  BY DEF Close, TypeOK
<1>4. lock' \in Reqs \cup {NoReq}
  BY DEF Close, TypeOK
<1> HIDE DEF q
<1>5. req' \in [Reqs -> Request]
  BY <1>2, <1>3 DEF TypeOK
<1> QED BY <1>4, <1>5

LEMMA GotoType ==
    ASSUME TypeOK, NEW r \in Reqs, NEW pc \in Pcs, Goto(r, pc)
    PROVE  req' \in [Reqs -> Request] /\ lock' \in Reqs \cup {NoReq}
<1>1. [req[r] EXCEPT !.pc = pc] \in Request
  BY MovedRequest DEF TypeOK
<1>2. req' = [req EXCEPT ![r] = [req[r] EXCEPT !.pc = pc]]
  BY DEF Goto, TypeOK
<1> QED BY <1>1, <1>2 DEF TypeOK, Goto

LEMMA BeginType ==
    ASSUME TypeOK, NEW r \in Reqs, NEW typed \in BOOLEAN, NEW slug \in EventTypes,
           NEW to \in Wallets \cup {NoWallet}, Begin(r, typed, slug, to)
    PROVE  TypeOK'
<1> DEFINE pc == IF ~typed /\ to # NoWallet /\ slug # "RELEASED"
                 THEN "wallet" ELSE "load"
           q == [req[r] EXCEPT !.typed = typed, !.slug = slug, !.to = to, !.pc = pc]
<1>1. pc \in Pcs
  BY DEF Pcs
<1>2. req' = [req EXCEPT ![r] = q]
  BY DEF Begin, TypeOK
<1> HIDE DEF pc
<1>3. q \in Request
  BY <1>1 DEF TypeOK, Request
<1>4. UNCHANGED <<asset, lock, events, active>>
  BY DEF Begin
<1> HIDE DEF q
<1> QED BY <1>2, <1>3, <1>4 DEF TypeOK

\* Which requests an endpoint may open.
LEMMA EndpointBegins ==
    ASSUME NEW r \in Reqs, Endpoint(r)
    PROVE  \E typed \in BOOLEAN, slug \in EventTypes, to \in Wallets \cup {NoWallet} :
              Begin(r, typed, slug, to)
BY DEF Endpoint, Handoff, Arrived, Loaded, Qc, Release, Burn, RecordEvent,
       EventTypes, TypedSlugs

LEMMA StepType ==
    ASSUME TypeOK, NEW r \in Reqs, Step(r)
    PROVE  TypeOK'
<1>1. CASE AssertWallet(r)
  <2>1. \E pc \in Pcs : Goto(r, pc) \/ Close(r)
    BY <1>1 DEF AssertWallet, Pcs
  <2>2. req' \in [Reqs -> Request] /\ lock' \in Reqs \cup {NoReq}
    BY <2>1, GotoType, CloseType
  <2> QED BY <1>1, <2>2 DEF AssertWallet, TypeOK
<1>2. CASE LoadAsset(r)
  <2> DEFINE q == [req[r] EXCEPT !.pc = "custodian", !.snap = asset]
  <2>1. q \in Request
    BY DEF TypeOK, Request, Pcs
  <2>2. req' = [req EXCEPT ![r] = q]
    BY <1>2 DEF LoadAsset, TypeOK
  <2>3. lock' \in Reqs \cup {NoReq} /\ UNCHANGED <<asset, events, active>>
    BY <1>2 DEF LoadAsset, TypeOK
  <2> HIDE DEF q
  <2> QED BY <2>1, <2>2, <2>3 DEF TypeOK
<1>3. CASE AssertCustodian(r)
  <2>1. CASE Close(r)
    BY <1>3, <2>1, CloseType DEF AssertCustodian, TypeOK
  <2>2. CASE ~Close(r)
    <3>1. PICK s \in Resolved(req[r]) :
             req' = [req EXCEPT ![r].goal = s,
                                ![r].pc = IF req[r].typed /\ req[r].slug = "HANDOFF"
                                          THEN "wallet" ELSE "record"]
      BY <1>3, <2>2 DEF AssertCustodian
    <3> DEFINE pc == IF req[r].typed /\ req[r].slug = "HANDOFF"
                     THEN "wallet" ELSE "record"
               q == [req[r] EXCEPT !.goal = s, !.pc = pc]
    <3>2. s \in States
      BY ResolvedType DEF TypeOK
    <3>3. req' = [req EXCEPT ![r] = q]
      BY <3>1 DEF TypeOK
    <3>4. pc \in Pcs
      BY DEF Pcs
    <3> HIDE DEF pc
    <3>5. q \in Request
      BY <3>2, <3>4 DEF TypeOK, Request
    <3> HIDE DEF q
    <3>6. UNCHANGED <<asset, events, active, lock>>
      BY <1>3, <2>2 DEF AssertCustodian
    <3> QED BY <3>3, <3>5, <3>6 DEF TypeOK
  <2> QED BY <2>1, <2>2
<1>4. CASE CreateEvent(r)
  <2> DEFINE e == NewEvent(r, req[r])
  <2>1. e \in Event
    BY NewEventType DEF TypeOK
  <2>2. /\ events' = Append(events, e)
        /\ asset' = [head |-> r, state |-> e.state, custodian |-> e.custodian]
        /\ active' = active /\ Close(r)
    BY <1>4 DEF CreateEvent
  <2> HIDE DEF e
  <2>3. events' \in Seq(Event)
    BY <2>1, <2>2, Appended DEF TypeOK
  <2>4. asset' \in Row
    BY <2>1, <2>2 DEF Row, Event
  <2>5. req' \in [Reqs -> Request] /\ lock' \in Reqs \cup {NoReq}
    BY <2>2, CloseType
  <2> QED BY <2>2, <2>3, <2>4, <2>5 DEF TypeOK
<1> QED BY <1>1, <1>2, <1>3, <1>4 DEF Step

LEMMA NextType == TypeOK /\ [Next]_vars => TypeOK'
<1> SUFFICES ASSUME TypeOK, [Next]_vars PROVE TypeOK'
  OBVIOUS
<1>1. ASSUME NEW r \in Reqs, Endpoint(r) PROVE TypeOK'
  BY <1>1, EndpointBegins, BeginType
<1>2. ASSUME NEW r \in Reqs, Step(r) PROVE TypeOK'
  BY <1>2, StepType
<1>3. ASSUME NEW r \in Reqs, Abort(r) PROVE TypeOK'
  BY <1>3, CloseType DEF Abort, TypeOK
<1>4. ASSUME NEW w \in Wallets, UpdateWallet(w) PROVE TypeOK'
  BY <1>4 DEF UpdateWallet, TypeOK
<1>5. CASE UNCHANGED vars
  BY <1>5 DEF vars, TypeOK
<1> QED BY <1>1, <1>2, <1>3, <1>4, <1>5 DEF Next

\* Every variable keeps its type: the custodian of the asset is always a
\* wallet, and its state always one of the workflow's.
THEOREM TypeCorrect == Spec => []TypeOK
BY InitType, NextType, PTL DEF Spec

-----------------------------------------------------------------------------
(* The chain.                                                              *)

\* A step of request r leaves every other request alone, and ends no request
\* that had ended before.
Only(r) ==
    /\ req[r].pc # "done"
    /\ \A p \in Reqs : p # r => req'[p] = req[p]

LEMMA InitSeal == Init => SealInv
<1> SUFFICES ASSUME Init PROVE SealInv
  OBVIOUS
<1>1. TypeOK
  BY InitType
<1>2. events = <<Created>> /\ Len(events) = 1 /\ events[1] = Created
  BY DEF Init
<1>3. SpineInv
  BY <1>2 DEF SpineInv, Init, Created, NewAsset
<1>4. \A r \in Reqs : req[r] = Idle /\ lock # r
  BY NoneAssumption DEF Init
<1>5. LockInv /\ GoalInv /\ ReadInv
  BY <1>4 DEF LockInv, GoalInv, ReadInv, Loading, Cleared, Idle
<1>6. OnceInv
  BY <1>2, NoneAssumption DEF OnceInv, Created
<1>7. LockedLinked /\ OpenInv /\ ReopenInv
  BY <1>2 DEF LockedLinked, OpenInv, ReopenInv
<1> QED BY <1>1, <1>3, <1>5, <1>6, <1>7 DEF SealInv, ChainInv

\* A step that records no event keeps what is true of the events.
LEMMA QuietStep ==
    ASSUME SealInv, NEW r \in Reqs, Only(r), events' = events, asset' = asset
    PROVE  SpineInv' /\ OnceInv' /\ LockedLinked' /\ OpenInv' /\ ReopenInv'
<1>1. \A i \in 1..Len(events) :
         events[i].id \in Reqs =>
            events[i].id # r /\ req'[events[i].id] = req[events[i].id]
  BY DEF SealInv, ChainInv, OnceInv, Only
<1>2. SpineInv'
  BY DEF SealInv, ChainInv, SpineInv
<1>3. OnceInv'
  BY <1>1 DEF SealInv, ChainInv, OnceInv
<1>4. Len(events) \in Nat
  BY DEF SealInv, ChainInv, TypeOK
<1>5. \A i \in 2..Len(events) : Locked(events[i])' => Locked(events[i])
  BY <1>1, <1>4 DEF Locked, Locks
<1>6. LockedLinked'
  BY <1>5 DEF SealInv, ChainInv, LockedLinked
<1>7. OpenInv'
  BY <1>1, <1>4 DEF SealInv, OpenInv
<1>8. \A k \in 1..Len(events) : Locked(events[k])' <=> Locked(events[k])
  BY <1>1, <1>4 DEF Locked, Locks
<1>9. ReopenInv'
  BY <1>4, <1>8 DEF SealInv, ReopenInv, Overtaken
<1> QED BY <1>2, <1>3, <1>6, <1>7, <1>9

\* What closing a request does to it and to the lock.
LEMMA ClosedEffect ==
    ASSUME TypeOK, NEW r \in Reqs, Close(r)
    PROVE  /\ req'[r].pc = "done"
           /\ req'[r].typed = req[r].typed /\ req'[r].slug = req[r].slug
           /\ \A p \in Reqs : p # r => req'[p] = req[p]
           /\ lock' = IF lock = r THEN NoReq ELSE lock
<1>1. req[r] \in Request
  BY DEF TypeOK
<1> DEFINE q == [req[r] EXCEPT !.pc = "done", !.to = NoWallet,
                               !.snap = NewAsset, !.goal = Initial]
<1>2. req' = [req EXCEPT ![r] = q]
  BY DEF Close, TypeOK
<1>3. q.pc = "done" /\ q.typed = req[r].typed /\ q.slug = req[r].slug
  BY <1>1 DEF Request
<1>4. lock' = IF lock = r THEN NoReq ELSE lock
  BY DEF Close
<1> HIDE DEF q
<1> QED BY <1>2, <1>3, <1>4 DEF TypeOK

\* A request that closes without an event keeps the invariant.
LEMMA CloseSeal ==
    ASSUME SealInv, NEW r \in Reqs, Close(r), req[r].pc # "done",
           events' = events, asset' = asset
    PROVE  SpineInv' /\ OnceInv' /\ LockedLinked' /\ OpenInv' /\ ReopenInv'
           /\ LockInv' /\ GoalInv' /\ ReadInv'
<1>1. /\ req'[r].pc = "done"
      /\ \A p \in Reqs : p # r => req'[p] = req[p]
      /\ lock' = IF lock = r THEN NoReq ELSE lock
  BY ClosedEffect DEF SealInv, ChainInv
<1>2. Only(r)
  BY <1>1 DEF Only
<1>3. LockInv'
  <2> SUFFICES ASSUME NEW p \in Reqs
               PROVE  /\ Loading(req[p])' /\ Locks(req[p])' => lock' = p
                      /\ lock' = p => req'[p].snap = asset'
    BY DEF LockInv
  <2>1. CASE p = r
    BY <1>1, <2>1, NoneAssumption DEF Loading
  <2>2. CASE p # r
    BY <1>1, <2>2, NoneAssumption DEF SealInv, ChainInv, LockInv, Loading, Locks
  <2> QED BY <2>1, <2>2
<1>4. GoalInv' /\ ReadInv'
  BY <1>1 DEF SealInv, GoalInv, GoodGoal, ReadInv, ReadAt, Locks, Cleared, Loading
<1> QED BY <1>2, <1>3, <1>4, QuietStep

\* A request that moves on with its lock and its snapshot keeps the invariant,
\* provided it does not begin to rely on either.
LEMMA MoveSeal ==
    ASSUME SealInv, NEW r \in Reqs, Only(r), UNCHANGED <<asset, lock, events>>,
           req'[r].snap = req[r].snap,
           Loading(req'[r]) => Loading(req[r]),
           Loading(req'[r]) /\ Locks(req'[r]) => lock = r,
           Cleared(req'[r]) => GoodGoal(req'[r])
    PROVE  SpineInv' /\ OnceInv' /\ LockedLinked' /\ OpenInv' /\ ReopenInv'
           /\ LockInv' /\ GoalInv' /\ ReadInv'
<1>1. LockInv'
  BY DEF SealInv, ChainInv, LockInv, Only, Loading, Locks
<1>2. GoalInv'
  BY DEF SealInv, GoalInv, GoodGoal, Locks, Only, Cleared
<1>3. ReadInv'
  BY DEF SealInv, ReadInv, ReadAt, Only, Loading
<1> QED BY <1>1, <1>2, <1>3, QuietStep

LEMMA BeginSeal ==
    ASSUME SealInv, NEW r \in Reqs, NEW typed \in BOOLEAN, NEW slug \in EventTypes,
           NEW to \in Wallets \cup {NoWallet}, Begin(r, typed, slug, to)
    PROVE  SpineInv' /\ OnceInv' /\ LockedLinked' /\ OpenInv' /\ ReopenInv'
           /\ LockInv' /\ GoalInv' /\ ReadInv'
<1>1. req[r] \in Request /\ req[r].pc = "idle"
  BY DEF SealInv, ChainInv, TypeOK, Begin, At
<1> DEFINE pc == IF ~typed /\ to # NoWallet /\ slug # "RELEASED"
                 THEN "wallet" ELSE "load"
           q == [req[r] EXCEPT !.typed = typed, !.slug = slug, !.to = to, !.pc = pc]
<1>2. req' = [req EXCEPT ![r] = q]
  BY DEF Begin, SealInv, ChainInv, TypeOK
<1>3. UNCHANGED <<asset, lock, events>>
  BY DEF Begin
<1>4. q.typed = typed /\ q.pc = pc /\ q.snap = req[r].snap
  BY <1>1 DEF Request
<1>5. ~Loading(q) /\ ~Cleared(q)
  BY <1>4 DEF Loading, Cleared
<1> HIDE DEF q
<1>6. req'[r] = q /\ \A p \in Reqs : p # r => req'[p] = req[p]
  BY <1>2 DEF SealInv, ChainInv, TypeOK
<1>7. Only(r)
  BY <1>1, <1>6 DEF Only
<1> QED BY <1>3, <1>4, <1>5, <1>6, <1>7, MoveSeal

LEMMA WalletSeal ==
    ASSUME SealInv, NEW r \in Reqs, AssertWallet(r)
    PROVE  SpineInv' /\ OnceInv' /\ LockedLinked' /\ OpenInv' /\ ReopenInv'
           /\ LockInv' /\ GoalInv' /\ ReadInv'
<1>1. req[r] \in Request /\ req[r].pc = "wallet" /\ UNCHANGED <<asset, events>>
  BY DEF AssertWallet, At, SealInv, ChainInv, TypeOK
<1>2. CASE Close(r)
  BY <1>1, <1>2, CloseSeal
<1>3. CASE ~Close(r)
  <2> DEFINE pc == IF req[r].typed THEN "record" ELSE "load"
             q == [req[r] EXCEPT !.pc = pc]
  <2>1. Goto(r, pc)
    BY <1>3 DEF AssertWallet
  <2>2. req' = [req EXCEPT ![r] = q] /\ lock' = lock
    BY <2>1 DEF Goto, SealInv, ChainInv, TypeOK
  <2>3. /\ q.typed = req[r].typed /\ q.slug = req[r].slug
        /\ q.snap = req[r].snap /\ q.goal = req[r].goal /\ q.pc = pc
    BY <1>1 DEF Request
  <2> HIDE DEF q
  <2>4. req'[r] = q /\ \A p \in Reqs : p # r => req'[p] = req[p]
    BY <2>2 DEF SealInv, ChainInv, TypeOK
  <2>5. Only(r)
    BY <1>1, <2>4 DEF Only
  <2>6. Loading(q) => Loading(req[r])
    BY <1>1, <2>3 DEF Loading
  <2>7. Cleared(q) => Cleared(req[r])
    BY <1>1, <2>3 DEF Cleared
  <2>8. Locks(q) = Locks(req[r])
    BY <2>3 DEF Locks
  <2>9. Loading(req[r]) /\ Locks(req[r]) => lock = r
    BY DEF SealInv, ChainInv, LockInv
  <2>10. Cleared(q) => GoodGoal(q)
    BY <2>3, <2>7 DEF SealInv, GoalInv, GoodGoal, Locks
  <2> QED BY <1>1, <2>2, <2>3, <2>4, <2>5, <2>6, <2>7, <2>8, <2>9, <2>10, MoveSeal
<1> QED BY <1>2, <1>3

LEMMA LoadSeal ==
    ASSUME SealInv, NEW r \in Reqs, LoadAsset(r)
    PROVE  SpineInv' /\ OnceInv' /\ LockedLinked' /\ OpenInv' /\ ReopenInv'
           /\ LockInv' /\ GoalInv' /\ ReadInv'
<1>1. /\ req[r] \in Request /\ req[r].pc = "load" /\ UNCHANGED <<asset, events>>
      /\ Locks(req[r]) => lock = NoReq
      /\ lock' = IF Locks(req[r]) THEN r ELSE lock
  BY DEF LoadAsset, At, SealInv, ChainInv, TypeOK
<1> DEFINE q == [req[r] EXCEPT !.pc = "custodian", !.snap = asset]
<1>2. req' = [req EXCEPT ![r] = q]
  BY DEF LoadAsset, SealInv, ChainInv, TypeOK
<1>3. /\ q.typed = req[r].typed /\ q.slug = req[r].slug
      /\ q.snap = asset /\ q.pc = "custodian"
  BY <1>1 DEF Request
<1> HIDE DEF q
<1>4. req'[r] = q /\ \A p \in Reqs : p # r => req'[p] = req[p]
  BY <1>2 DEF SealInv, ChainInv, TypeOK
<1>5. Only(r)
  BY <1>1, <1>4 DEF Only
<1>6. Locks(q) = Locks(req[r])
  BY <1>3 DEF Locks
<1>7. LockInv'
  <2> SUFFICES ASSUME NEW p \in Reqs
               PROVE  /\ Loading(req[p])' /\ Locks(req[p])' => lock' = p
                      /\ lock' = p => req'[p].snap = asset'
    BY DEF LockInv
  <2>1. CASE p = r
    BY <1>1, <1>3, <1>4, <1>6, <2>1 DEF Locks
  <2>2. CASE p # r
    <3>1. Loading(req[p]) /\ Locks(req[p]) => lock = p
      BY DEF SealInv, ChainInv, LockInv
    <3>2. lock = p => req[p].snap = asset
      BY DEF SealInv, ChainInv, LockInv
    <3>3. req'[p] = req[p]
      BY <1>4, <2>2
    <3> QED BY <1>1, <2>2, <3>1, <3>2, <3>3, NoneAssumption DEF Loading, Locks
  <2> QED BY <2>1, <2>2
<1>8. GoalInv'
  BY <1>3, <1>4 DEF SealInv, GoalInv, GoodGoal, Locks, Cleared
<1>9. ReadAt(q, Len(events)) /\ Len(events) \in 1..Len(events)
  BY <1>3 DEF SealInv, ChainInv, SpineInv, TypeOK, ReadAt
<1>10. ReadInv'
  BY <1>1, <1>4, <1>9 DEF SealInv, ReadInv, ReadAt, Loading
<1> QED BY <1>1, <1>5, <1>7, <1>8, <1>10, QuietStep

LEMMA CustodianSeal ==
    ASSUME SealInv, NEW r \in Reqs, AssertCustodian(r)
    PROVE  SpineInv' /\ OnceInv' /\ LockedLinked' /\ OpenInv' /\ ReopenInv'
           /\ LockInv' /\ GoalInv' /\ ReadInv'
<1>1. req[r] \in Request /\ req[r].pc = "custodian" /\ UNCHANGED <<asset, events>>
  BY DEF AssertCustodian, At, SealInv, ChainInv, TypeOK
<1>2. CASE Close(r)
  BY <1>1, <1>2, CloseSeal
<1>3. CASE ~Close(r)
  <2>1. PICK s \in Resolved(req[r]) :
           req' = [req EXCEPT ![r].goal = s,
                              ![r].pc = IF req[r].typed /\ req[r].slug = "HANDOFF"
                                        THEN "wallet" ELSE "record"]
    BY <1>3 DEF AssertCustodian
  <2> DEFINE pc == IF req[r].typed /\ req[r].slug = "HANDOFF"
                   THEN "wallet" ELSE "record"
             q == [req[r] EXCEPT !.goal = s, !.pc = pc]
  <2>2. req' = [req EXCEPT ![r] = q] /\ lock' = lock
    BY <1>3, <2>1 DEF AssertCustodian, SealInv, ChainInv, TypeOK
  <2>3. /\ q.typed = req[r].typed /\ q.slug = req[r].slug
        /\ q.snap = req[r].snap /\ q.goal = s
    BY <1>1 DEF Request
  <2> HIDE DEF q
  <2>4. req'[r] = q /\ \A p \in Reqs : p # r => req'[p] = req[p]
    BY <2>2 DEF SealInv, ChainInv, TypeOK
  <2>5. Only(r)
    BY <1>1, <2>4 DEF Only
  <2>6. Loading(req[r])
    BY <1>1 DEF Loading
  <2>7. Locks(q) => lock = r
    BY <2>3, <2>6 DEF SealInv, ChainInv, LockInv, Locks
  <2>8. CASE ~req[r].typed /\ req[r].slug \in Informational
    <3>1. s = req[r].snap.state
      BY <2>1, <2>8 DEF Resolved
    <3>2. GoodGoal(q)
      BY <2>3, <2>8, <3>1 DEF GoodGoal
    <3> QED BY <1>1, <2>2, <2>3, <2>4, <2>5, <2>6, <2>7, <3>2, MoveSeal
  <2>9. CASE ~(~req[r].typed /\ req[r].slug \in Informational)
    <3>1. req[r].snap.state \notin Terminal
      BY <2>1, <2>9 DEF Resolved
    <3>2. Locks(q)
      BY <1>1, <2>3, <2>9 DEF Locks, Request
    <3>3. GoodGoal(q)
      BY <2>3, <3>1, <3>2 DEF GoodGoal
    <3> QED BY <1>1, <2>2, <2>3, <2>4, <2>5, <2>6, <2>7, <3>3, MoveSeal
  <2> QED BY <2>8, <2>9
<1> QED BY <1>2, <1>3

LEMMA CreateSeal ==
    ASSUME SealInv, NEW r \in Reqs, CreateEvent(r)
    PROVE  SpineInv' /\ OnceInv' /\ LockedLinked' /\ OpenInv' /\ ReopenInv'
           /\ LockInv' /\ GoalInv' /\ ReadInv'
<1> DEFINE e == NewEvent(r, req[r])
           n == Len(events)
<1>1. /\ TypeOK /\ req[r] \in Request /\ req[r].pc = "record"
      /\ lock \in {r, NoReq}
      /\ events' = Append(events, e)
      /\ asset' = [head |-> r, state |-> e.state, custodian |-> e.custodian]
      /\ Close(r)
  BY DEF CreateEvent, At, SealInv, ChainInv, TypeOK
<1>2. e \in Event /\ events \in Seq(Event)
  BY <1>1, NewEventType DEF TypeOK
<1>3. /\ e.id = r /\ e.prev = req[r].snap.head /\ e.from = req[r].snap.custodian
      /\ e.state = req[r].goal
  BY DEF NewEvent
<1> HIDE DEF e
<1>4. /\ n \in Nat /\ Len(events') = n + 1 /\ events'[n + 1] = e
      /\ \A i \in 1..n : events'[i] = events[i]
  BY <1>1, <1>2, Appended
<1>5. n >= 1
  BY DEF SealInv, ChainInv, SpineInv
<1> HIDE DEF n
<1>6. SpineInv'
  <2>1. events'[1] = events[1] /\ events[1].id = Genesis
    BY <1>4, <1>5 DEF SealInv, ChainInv, SpineInv
  <2> QED BY <1>1, <1>3, <1>4, <1>5, <2>1 DEF SpineInv
<1>7. /\ req'[r].pc = "done"
      /\ req'[r].typed = req[r].typed /\ req'[r].slug = req[r].slug
      /\ \A p \in Reqs : p # r => req'[p] = req[p]
      /\ lock' = NoReq
  BY <1>1, ClosedEffect
<1>8. \A p \in Reqs : p # r => ~(Loading(req[p]) /\ Locks(req[p]))
  BY <1>1, NoneAssumption DEF SealInv, ChainInv, LockInv
<1>9. LockInv'
  BY <1>7, <1>8, NoneAssumption DEF LockInv, Loading, Locks
<1>10. GoalInv'
  BY <1>7 DEF SealInv, GoalInv, GoodGoal, Locks, Cleared
<1>11. \A i \in 1..n : events[i].id # r
  BY <1>1 DEF SealInv, ChainInv, OnceInv, n
<1>12. OnceInv'
  <2>1. \A i \in 1..n : events[i].id \in Reqs => req'[events[i].id].pc = "done"
    BY <1>7, <1>11 DEF SealInv, ChainInv, OnceInv, n
  <2>2. \A i, j \in 1..n : events[i].id = events[j].id => i = j
    BY DEF SealInv, ChainInv, OnceInv, n
  <2>3. \A i \in 1..(n + 1) : i \in 1..n \/ i = n + 1
    BY <1>4
  <2> QED BY <1>3, <1>4, <1>7, <1>11, <2>1, <2>2, <2>3 DEF OnceInv
<1>13. asset.head = events[n].id /\ asset.state = events[n].state
       /\ asset.custodian = events[n].custodian
  BY DEF SealInv, ChainInv, SpineInv, n
<1>14. Locks(req[r]) => req[r].snap = asset
  BY <1>1 DEF SealInv, ChainInv, LockInv, Loading
<1>15. \A i \in 2..(n + 1) : (i \in 2..n /\ i - 1 \in 1..n /\ i \in 1..n) \/ i = n + 1
  BY <1>4
<1>16. LockedLinked'
  <2> SUFFICES ASSUME NEW i \in 2..(n + 1), Locked(events[i])'
               PROVE  /\ events'[i].prev = events'[i - 1].id
                      /\ events'[i].from = events'[i - 1].custodian
    BY <1>4 DEF LockedLinked
  <2>1. CASE i = n + 1
    <3>1. Locks(req[r])
      BY <1>3, <1>4, <1>7, <2>1 DEF Locked, Locks
    <3>2. events'[i - 1] = events[n]
      BY <1>4, <1>5, <2>1
    <3> QED BY <1>3, <1>4, <1>13, <1>14, <2>1, <3>1, <3>2
  <2>2. CASE i # n + 1
    <3>1. i \in 2..n /\ i - 1 \in 1..n /\ i \in 1..n
      BY <1>15, <2>2
    <3>2. events'[i] = events[i] /\ events'[i - 1] = events[i - 1]
      BY <1>4, <3>1
    <3>3. Locked(events[i])
      BY <1>7, <1>11, <3>1, <3>2 DEF Locked, Locks
    <3> QED BY <3>1, <3>2, <3>3 DEF SealInv, ChainInv, LockedLinked, n
  <2> QED BY <2>1, <2>2
<1>17. Cleared(req[r]) /\ Loading(req[r])
  BY <1>1 DEF Cleared, Loading
<1>18. GoodGoal(req[r])
  BY <1>17 DEF SealInv, GoalInv
<1>19. OpenInv'
  <2> SUFFICES ASSUME NEW i \in 2..(n + 1)
               PROVE  \/ /\ events'[i].id \in Reqs
                         /\ req'[events'[i].id].slug \in Informational
                      \/ events'[i - 1].state \notin Terminal
    BY <1>4 DEF OpenInv
  <2>1. CASE i = n + 1
    <3>1. events'[i - 1] = events[n]
      BY <1>4, <1>5, <2>1
    <3>2. req[r].slug \notin Informational =>
             Locks(req[r]) /\ req[r].snap.state \notin Terminal
      BY <1>18 DEF GoodGoal, Locks
    <3>3. req[r].slug \in Informational \/ events[n].state \notin Terminal
      BY <1>13, <1>14, <3>2
    <3> QED BY <1>3, <1>4, <1>7, <2>1, <3>1, <3>3
  <2>2. CASE i # n + 1
    <3>1. i \in 2..n /\ i - 1 \in 1..n /\ i \in 1..n
      BY <1>15, <2>2
    <3>2. events'[i] = events[i] /\ events'[i - 1] = events[i - 1]
      BY <1>4, <3>1
    <3>3. \/ events[i].id \in Reqs /\ req[events[i].id].slug \in Informational
          \/ events[i - 1].state \notin Terminal
      BY <3>1 DEF SealInv, OpenInv, n
    <3> QED BY <1>7, <1>11, <3>1, <3>2, <3>3
  <2> QED BY <2>1, <2>2
<1>20. \A k \in 1..n : Locked(events[k])' <=> Locked(events[k])
  BY <1>4, <1>7, <1>11 DEF Locked, Locks
<1>21. ASSUME NEW i \in 1..n, NEW k \in (i + 1)..n, Overtaken(i, k)
       PROVE  Overtaken(i, k)'
  <2>1. k \in 1..n /\ \A h \in 1..(i - 1) : h \in 1..n
    BY <1>4
  <2> QED BY <1>4, <1>20, <1>21, <2>1 DEF Overtaken
<1>22. ReopenInv'
  <2> SUFFICES ASSUME NEW i \in 1..(n + 1), NEW m \in 1..(n + 1), i <= m,
                      events'[i].state \in Terminal, events'[m].state \notin Terminal
               PROVE  \E k \in (i + 1)..m : Overtaken(i, k)'
    BY <1>4 DEF ReopenInv
  <2>1. i # m
    OBVIOUS
  <2>2. i \in 1..n /\ events'[i] = events[i]
    BY <1>4, <2>1
  <2>3. ASSUME NEW h \in 1..n, i <= h, h <= m, events[h].state \notin Terminal
        PROVE  \E k \in (i + 1)..m : Overtaken(i, k)'
    <3>1. PICK k \in (i + 1)..h : Overtaken(i, k)
      BY <2>2, <2>3 DEF SealInv, ReopenInv, n
    <3>2. k \in (i + 1)..n /\ k \in (i + 1)..m
      BY <1>4, <2>3
    <3> QED BY <1>21, <2>2, <3>1, <3>2
  <2>4. CASE m # n + 1
    <3>1. m \in 1..n /\ events'[m] = events[m]
      BY <1>4, <2>4
    <3> QED BY <2>3, <3>1
  <2>5. CASE m = n + 1 /\ events[n].state \notin Terminal
    <3>1. n \in 1..n /\ i <= n /\ n <= m
      BY <1>4, <1>5, <2>2, <2>5
    <3> QED BY <2>3, <2>5, <3>1
  <2>6. CASE m = n + 1 /\ events[n].state \in Terminal
    <3>1. req[r].goal \notin Terminal
      BY <1>3, <1>4, <2>6
    <3>2. ~Locks(req[r])
      BY <1>13, <1>14, <1>18, <2>6, <3>1 DEF GoodGoal
    <3>3. PICK h \in 1..n : ReadAt(req[r], h)
      BY <1>17 DEF SealInv, ReadInv, n
    <3>4. events[h].state \notin Terminal
      BY <1>18, <3>1, <3>2, <3>3 DEF GoodGoal, ReadAt
    <3>5. CASE i <= h
      BY <1>4, <2>3, <2>6, <3>4, <3>5
    <3>6. CASE ~(i <= h)
      <4>1. h \in 1..(i - 1) /\ events'[h] = events[h]
        BY <1>4, <2>2, <3>6
      <4>2. ~Locked(events[m])'
        BY <1>3, <1>4, <1>7, <2>6, <3>2 DEF Locked, Locks
      <4>3. events'[m].prev = events'[h].id
        BY <1>3, <1>4, <2>6, <3>3, <4>1 DEF ReadAt
      <4>4. Overtaken(i, m)'
        BY <4>1, <4>2, <4>3 DEF Overtaken
      <4>5. m \in (i + 1)..m
        BY <2>1
      <4> QED BY <4>4, <4>5
    <3> QED BY <3>5, <3>6
  <2> QED BY <2>4, <2>5, <2>6
<1>23. ReadInv'
  <2> SUFFICES ASSUME NEW p \in Reqs, Loading(req[p])'
               PROVE  \E h \in 1..(n + 1) : ReadAt(req[p], h)'
    BY <1>4 DEF ReadInv
  <2>1. p # r
    BY <1>7 DEF Loading
  <2>2. PICK h \in 1..n : ReadAt(req[p], h)
    BY <1>7, <2>1 DEF SealInv, ReadInv, Loading, n
  <2>3. h \in 1..(n + 1) /\ events'[h] = events[h]
    BY <1>4
  <2> QED BY <1>7, <2>1, <2>2, <2>3 DEF ReadAt
<1> QED BY <1>6, <1>9, <1>10, <1>12, <1>16, <1>19, <1>22, <1>23

LEMMA NextSeal == SealInv /\ [Next]_vars => SealInv'
<1> SUFFICES ASSUME SealInv, [Next]_vars PROVE SealInv'
  OBVIOUS
<1>1. TypeOK'
  BY NextType DEF SealInv, ChainInv
<1> DEFINE Goal == SpineInv' /\ OnceInv' /\ LockedLinked' /\ OpenInv' /\ ReopenInv'
                     /\ LockInv' /\ GoalInv' /\ ReadInv'
<1>2. ASSUME NEW r \in Reqs, Endpoint(r) PROVE Goal
  BY <1>2, EndpointBegins, BeginSeal
<1>3. ASSUME NEW r \in Reqs, Step(r) PROVE Goal
  BY <1>3, WalletSeal, LoadSeal, CustodianSeal, CreateSeal DEF Step
<1>4. ASSUME NEW r \in Reqs, Abort(r) PROVE Goal
  <2>1. Close(r) /\ req[r].pc # "done" /\ events' = events /\ asset' = asset
    BY <1>4 DEF Abort
  <2> QED BY <2>1, CloseSeal
<1>5. ASSUME UNCHANGED <<asset, lock, events, req>> PROVE Goal
  BY <1>5 DEF SealInv, ChainInv, SpineInv, OnceInv, LockedLinked, OpenInv,
              ReopenInv, Overtaken, LockInv, GoalInv, GoodGoal, ReadInv, ReadAt,
              Locked, Locks, Loading, Cleared
<1>6. ASSUME NEW w \in Wallets, UpdateWallet(w) PROVE UNCHANGED <<asset, lock, events, req>>
  BY <1>6 DEF UpdateWallet
<1>7. Goal
  BY <1>2, <1>3, <1>4, <1>5, <1>6 DEF Next, vars
<1> QED BY <1>1, <1>7 DEF SealInv, ChainInv

-----------------------------------------------------------------------------
\* Every event recorded under the row lock is chained to the event committed
\* just before it and hands on the custody that event left, whatever mix of
\* requests, notes and allowlist changes runs beside it.
THEOREM LockedEventsLinked == Spec => []LockedLinked
<1>1. SealInv => LockedLinked
  BY DEF SealInv, ChainInv
<1> QED BY InitSeal, NextSeal, <1>1, PTL DEF Spec

\* Once an event has brought the asset to a terminal state, no event but an
\* informational one follows it at any distance, unless a note that had read
\* the asset before that event, outside the lock, was recorded in between.
THEOREM TerminalStatesSeal == Spec => []TerminalSealed
<1>1. ASSUME SealInv PROVE TerminalSealed
  <2> SUFFICES ASSUME NEW i \in 1..Len(events), NEW j \in 1..Len(events), i < j,
                      events[i].state \in Terminal,
                      ~(/\ events[j].id \in Reqs
                        /\ req[events[j].id].slug \in Informational)
               PROVE  \E k \in (i + 1)..(j - 1) : Overtaken(i, k)
    BY DEF TerminalSealed
  <2>1. Len(events) \in Nat
    BY <1>1 DEF SealInv, ChainInv, TypeOK
  <2>2. j \in 2..Len(events) /\ j - 1 \in 1..Len(events) /\ i <= j - 1
    BY <2>1
  <2>3. events[j - 1].state \notin Terminal
    BY <1>1, <2>2 DEF SealInv, OpenInv
  <2> QED BY <1>1, <2>2, <2>3 DEF SealInv, ReopenInv
<1> QED BY InitSeal, NextSeal, <1>1, PTL DEF Spec

\* No two events recorded under the lock follow the same event.
THEOREM NoLockedFork == Spec => []LockedNeverFork
<1>1. ASSUME SealInv PROVE LockedNeverFork
  <2> SUFFICES ASSUME NEW i \in 2..Len(events), NEW j \in 2..Len(events),
                      Locked(events[i]), Locked(events[j]), i # j,
                      events[i].prev = events[j].prev
               PROVE  FALSE
    BY DEF LockedNeverFork
  <2>1. events[i].prev = events[i - 1].id /\ events[j].prev = events[j - 1].id
    BY <1>1 DEF SealInv, ChainInv, LockedLinked
  <2>2. Len(events) \in Nat
    BY <1>1 DEF SealInv, ChainInv, TypeOK
  <2>3. i - 1 \in 1..Len(events) /\ j - 1 \in 1..Len(events) /\ i - 1 # j - 1
    BY <2>2
  <2> QED BY <1>1, <2>1, <2>3 DEF SealInv, ChainInv, OnceInv
<1> QED BY InitSeal, NextSeal, <1>1, PTL DEF Spec

\* A tenant whose informational event types all need an administrator or a
\* reason records every event under the lock: its events form a single chain.
THEOREM ChainWithoutNotes ==
    ASSUME Informational \subseteq Flagged
    PROVE  Spec => []ChainLinear
<1>1. ASSUME SealInv PROVE ChainLinear
  <2> SUFFICES ASSUME NEW i \in 2..Len(events)
               PROVE  events[i].prev = events[i - 1].id
    BY DEF ChainLinear
  <2>1. Len(events) \in Nat /\ i \in 1..Len(events) /\ 1 \in 1..Len(events) /\ i # 1
    BY <1>1 DEF SealInv, ChainInv, TypeOK
  <2>2. events[i] \in Event
    BY <1>1, <2>1 DEF SealInv, ChainInv, TypeOK
  <2>3. CASE events[i].id \in Reqs
    BY <1>1, <2>3 DEF SealInv, ChainInv, LockedLinked, Locked, Locks
  <2>4. CASE events[i].id = Genesis
    <3>1. events[1].id = Genesis
      BY <1>1 DEF SealInv, ChainInv, SpineInv
    <3>2. i = 1
      BY <1>1, <2>1, <2>4, <3>1 DEF SealInv, ChainInv, OnceInv
    <3> QED BY <2>1, <3>2
  <2> QED BY <2>2, <2>3, <2>4 DEF Event
<1> QED BY InitSeal, NextSeal, <1>1, PTL DEF Spec
=============================================================================
