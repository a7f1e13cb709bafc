----------------------------- MODULE CustodyChain -----------------------------
(***************************************************************************)
(* The custody of one asset in trace-service: the requests that record an  *)
(* event against it (services/custody_service.py), the row lock some of    *)
(* them take, and the hash chain the events form.                          *)
(*                                                                         *)
(* A request is one database transaction.  The typed endpoints and every   *)
(* state-changing event type load the asset FOR UPDATE; an informational   *)
(* event type that needs neither an administrator nor a reason loads it    *)
(* without the lock, and yet writes back all the columns the others write. *)
(*                                                                         *)
(* One request writes one event, so the request's name stands for the      *)
(* event's hash (unique by uq_custody_events_hash).  What a hash is        *)
(* computed from, custody_mode, the parent link of an informational event, *)
(* the evidence and quantity records and the cNFT columns are left out.    *)
(* The row lock is released at commit, so the insert, the update and the   *)
(* commit are one step: a request that stops before it leaves no trace.    *)
(***************************************************************************)
EXTENDS Integers, Sequences

CONSTANTS
    Reqs,           \* the requests, each of them served once
    Genesis,        \* the CREATED event the asset starts with
    NoReq,          \* the row lock is free
    Wallets,        \* every public key a request may name
    NoWallet,
    Owner,          \* the custodian the asset is created with
    States,         \* the tenant's workflow states
    Initial,
    Terminal,
    Slugs,          \* the event types the generic endpoint is called with
    Informational,  \* WorkflowEventType.is_informational
    Flagged,        \* event types that need an administrator or a reason
    Targets         \* [state, event type]: the states its transitions lead to,
                    \* those of find_transition_for_event's fallback included

TypedSlugs == {"HANDOFF", "ARRIVED", "LOADED", "QC", "RELEASED", "BURN"}

\* A state stands for the event type MOVE_TO_<state> of the generic endpoint.
EventTypes == Slugs \cup TypedSlugs \cup States

ASSUME NoneAssumption ==
    /\ NoReq \notin Reqs \cup {Genesis}
    /\ Genesis \notin Reqs
    /\ NoWallet \notin Wallets

ASSUME WorkflowAssumption ==
    /\ Owner \in Wallets
    /\ Initial \in States
    /\ Terminal \subseteq States
    /\ Informational \subseteq Slugs
    /\ Informational \cap TypedSlugs = {}
    /\ Informational \cap States = {}
    /\ Targets \in [States \X EventTypes -> SUBSET States]

VARIABLES
    asset,      \* the committed row: last event hash, state, custodian
    lock,       \* the request that holds the row FOR UPDATE
    events,     \* the asset's committed events, in commit order
    active,     \* the wallets in the tenant's active allowlist
    req         \* every request: where it stands and what it has read

vars == <<asset, lock, events, active, req>>

-----------------------------------------------------------------------------
Row == [head : Reqs \cup {Genesis}, state : States, custodian : Wallets]

Event == [id : Reqs \cup {Genesis},
          prev : Reqs \cup {Genesis, NoReq},
          from : Wallets \cup {NoWallet},
          to : Wallets \cup {NoWallet},
          state : States,
          custodian : Wallets]

Pcs == {"idle", "wallet", "load", "custodian", "record", "done"}

Request == [pc : Pcs,
            typed : BOOLEAN,
            slug : EventTypes,
            to : Wallets \cup {NoWallet},
            snap : Row,
            goal : States]

NewAsset == [head |-> Genesis, state |-> Initial, custodian |-> Owner]

Created == [id |-> Genesis, prev |-> NoReq, from |-> NoWallet, to |-> Owner,
            state |-> Initial, custodian |-> Owner]

Idle == [pc |-> "idle", typed |-> TRUE, slug |-> "HANDOFF", to |-> NoWallet,
         snap |-> NewAsset, goal |-> Initial]

Init ==
    /\ asset = NewAsset
    /\ lock = NoReq
    /\ events = <<Created>>
    /\ active \in {Wallets, {Owner}}
    /\ req = [r \in Reqs |-> Idle]

-----------------------------------------------------------------------------
At(r, pc) == req[r].pc = pc

\* Whether the request loads the asset FOR UPDATE: needs_lock in record_event.
Locks(q) == q.typed \/ q.slug \notin Informational \ Flagged

\* The transaction is over: the lock, if the request had it, is free again, and
\* of what the request read nothing is kept.
Close(r) ==
    /\ req' = [req EXCEPT ![r].pc = "done", ![r].to = NoWallet,
                          ![r].snap = NewAsset, ![r].goal = Initial]
    /\ lock' = IF lock = r THEN NoReq ELSE lock

Goto(r, pc) ==
    /\ req' = [req EXCEPT ![r].pc = pc]
    /\ UNCHANGED lock

-----------------------------------------------------------------------------
(* The endpoints.  A request the static checks refuse (a disabled event    *)
(* type, a missing administrator key, reason or note) never begins.        *)

Begin(r, typed, slug, to) ==
    /\ At(r, "idle")
    /\ req' = [req EXCEPT ![r].typed = typed, ![r].slug = slug, ![r].to = to,
                          ![r].pc = IF ~typed /\ to # NoWallet /\ slug # "RELEASED"
                                    THEN "wallet" ELSE "load"]
    /\ UNCHANGED <<asset, lock, events, active>>

Handoff(r) == \E w \in Wallets : Begin(r, TRUE, "HANDOFF", w)
Arrived(r) == Begin(r, TRUE, "ARRIVED", NoWallet)
Loaded(r) == Begin(r, TRUE, "LOADED", NoWallet)
Qc(r) == Begin(r, TRUE, "QC", NoWallet)
Release(r) == \E w \in Wallets : Begin(r, TRUE, "RELEASED", w)
Burn(r) == Begin(r, TRUE, "BURN", NoWallet)

RecordEvent(r) ==
    \E slug \in Slugs \cup States, w \in Wallets \cup {NoWallet} :
        Begin(r, FALSE, slug, w)

-----------------------------------------------------------------------------
(* The statements of a request.                                            *)

\* _assert_active_wallet on the wallet the request names.
AssertWallet(r) ==
    /\ At(r, "wallet")
    /\ IF req[r].to \in active
       THEN Goto(r, IF req[r].typed THEN "record" ELSE "load")
       ELSE Close(r)
    /\ UNCHANGED <<asset, events, active>>

\* Mutant of LoadAsset: every event type loads the asset as a note does.
LoadAssetUnlocked(r) ==
    /\ At(r, "load")
    /\ req' = [req EXCEPT ![r].pc = "custodian", ![r].snap = asset]
    /\ UNCHANGED <<asset, lock, events, active>>

\* _get_asset_locked waits for the row's lock; _get_asset_or_404 does not.
LoadAsset(r) ==
    /\ At(r, "load")
    /\ Locks(req[r]) => lock = NoReq
    /\ lock' = IF Locks(req[r]) THEN r ELSE lock
    /\ req' = [req EXCEPT ![r].pc = "custodian", ![r].snap = asset]
    /\ UNCHANGED <<asset, events, active>>

\* Mutant of Resolved: a terminal state is treated as one without transitions.
ResolvedPastTerminal(q) ==
    LET here == q.snap.state IN
    IF ~q.typed /\ q.slug \in Informational THEN {here}
    ELSE IF q.typed \/ Targets[here, q.slug] # {} THEN Targets[here, q.slug]
    ELSE IF q.slug \in States THEN {q.slug}
    ELSE {here}

\* The states the event may lead to from the state that was read; none: refused.
\* A transition is looked for first, for MOVE_TO_<state> too: one without an
\* event type serves any event and need not lead to the state that is named.
Resolved(q) ==
    LET here == q.snap.state IN
    IF ~q.typed /\ q.slug \in Informational THEN {here}
    ELSE IF here \in Terminal THEN {}
    ELSE IF q.typed \/ Targets[here, q.slug] # {} THEN Targets[here, q.slug]
    ELSE IF q.slug \in States THEN {q.slug}
    ELSE {here}

\* _assert_current_wallet_active, and the transition of the workflow engine.
AssertCustodian(r) ==
    /\ At(r, "custodian")
    /\ \/ /\ req[r].snap.custodian \in active
          /\ \E s \in Resolved(req[r]) :
                req' = [req EXCEPT ![r].goal = s,
                                   ![r].pc = IF req[r].typed /\ req[r].slug = "HANDOFF"
                                             THEN "wallet" ELSE "record"]
          /\ UNCHANGED lock
       \/ /\ req[r].snap.custodian \notin active \/ Resolved(req[r]) = {}
          /\ Close(r)
    /\ UNCHANGED <<asset, events, active>>

\* The event _create_event inserts, chained to the head that was read.
NewEvent(r, q) ==
    [id |-> r,
     prev |-> q.snap.head,
     from |-> q.snap.custodian,
     to |-> IF q.typed /\ q.slug = "ARRIVED" THEN q.snap.custodian ELSE q.to,
     state |-> q.goal,
     custodian |-> IF q.to # NoWallet THEN q.to ELSE q.snap.custodian]

\* The insert, update_after_event (which waits for the row) and the commit.
CreateEvent(r) ==
    /\ At(r, "record")
    /\ lock \in {r, NoReq}
    /\ LET e == NewEvent(r, req[r]) IN
          /\ events' = Append(events, e)
          /\ asset' = [head |-> r, state |-> e.state, custodian |-> e.custodian]
    /\ Close(r)
    /\ UNCHANGED active

\* The client goes away or the process dies: the session rolls back.
Abort(r) ==
    /\ req[r].pc \notin {"idle", "done"}
    /\ Close(r)
    /\ UNCHANGED <<asset, events, active>>

\* An administrator revokes, restores or registers a wallet meanwhile.
UpdateWallet(w) ==
    /\ active' = IF w \in active THEN active \ {w} ELSE active \cup {w}
    /\ UNCHANGED <<asset, lock, events, req>>

-----------------------------------------------------------------------------
Step(r) ==
    \/ AssertWallet(r)
    \/ LoadAsset(r)
    \/ AssertCustodian(r)
    \/ CreateEvent(r)

Endpoint(r) ==
    \/ Handoff(r)
    \/ Arrived(r)
    \/ Loaded(r)
    \/ Qc(r)
    \/ Release(r)
    \/ Burn(r)
    \/ RecordEvent(r)

Next ==
    \/ \E r \in Reqs : Endpoint(r) \/ Step(r) \/ Abort(r)
    \/ \E w \in Wallets : UpdateWallet(w)

Spec == Init /\ [][Next]_vars

-----------------------------------------------------------------------------
TypeOK ==
    /\ asset \in Row
    /\ lock \in Reqs \cup {NoReq}
    /\ events \in Seq(Event)
    /\ active \subseteq Wallets
    /\ req \in [Reqs -> Request]

Locked(e) == e.id \in Reqs /\ Locks(req[e.id])

\* An event recorded under the row lock is chained to the event committed just
\* before it, and hands on the custody that event left: no other writer, not
\* even an unlocked note that was overtaken, comes between them.
LockedLinked ==
    \A i \in 2..Len(events) :
        Locked(events[i]) =>
            /\ events[i].prev = events[i - 1].id
            /\ events[i].from = events[i - 1].custodian

\* The k-th event was recorded outside the row lock, by a request that had read
\* the asset before the i-th event was committed.
Overtaken(i, k) ==
    /\ ~Locked(events[k])
    /\ \E h \in 1..(i - 1) : events[k].prev = events[h].id

\* Once the asset has reached a terminal state of its workflow nothing but
\* informational events follows, at any distance (find_transition_for_event
\* raises there), and one thing alone reopens it: a note that had read the asset
\* before and writes the state it read back, outside the lock.
TerminalSealed ==
    \A i, j \in 1..Len(events) :
        /\ i < j
        /\ events[i].state \in Terminal
        /\ ~(events[j].id \in Reqs /\ req[events[j].id].slug \in Informational)
        => \E k \in (i + 1)..(j - 1) : Overtaken(i, k)

\* Two requests that wrote their events under the lock never fork the chain:
\* their events follow different ones, however many unlocked notes intervene.
LockedNeverFork ==
    \A i, j \in 2..Len(events) :
        Locked(events[i]) /\ Locked(events[j]) /\ i # j =>
            events[i].prev # events[j].prev

\* With no event recorded outside the lock the events form one chain.
ChainLinear ==
    \A i \in 2..Len(events) : events[i].prev = events[i - 1].id

\* "Informational events: do NOT change asset state" (domain/types.py): the
\* commit of such an event, naming no wallet, leaves state and custodian alone.
NotesChangeNothing ==
    [][\A r \in Reqs :
          At(r, "record") /\ req'[r].pc = "done" /\ asset'.head = r
            /\ req[r].slug \in Informational /\ req[r].to = NoWallet
          => asset'.state = asset.state /\ asset'.custodian = asset.custodian]_vars
=============================================================================
