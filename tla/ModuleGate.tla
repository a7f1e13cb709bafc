----------------------------- MODULE ModuleGate -----------------------------
(***************************************************************************)
(* Which modules a tenant may use: the activation records of               *)
(* subscription-service, what changes them (administrators, the bootstrap  *)
(* of a new tenant, onboarding, the expiration sweep), and the gates of    *)
(* inventory-service and trace-service, which ask for a record over HTTP   *)
(* and keep the answer in Redis for a while.                               *)
(*                                                                         *)
(* A session is one READ COMMITTED transaction without autoflush, and it   *)
(* is committed after its handler has returned, so after the handler has   *)
(* deleted the cached answers.  An UPDATE sets is_active only if it was    *)
(* assigned another value than the one read, and waits for the row.        *)
(*                                                                         *)
(* One tenant.  Each module is cached by the one service whose gate asks   *)
(* for it: deleting its key in the other databases does nothing.  "logistics" *)
(* is activated like the others but no gate asks for it.                   *)
(***************************************************************************)
EXTENDS ModulePromises

CONSTANTS
    Sessions,       \* sessions of subscription-service
    NoSession,
    MaxChanges,     \* bound: sessions of subscription-service, altogether
    MaxFaults,      \* bound: failed answers and calls to Redis
    Mixes           \* bound: the kinds that happen together, one set chosen at first

\* _DEFAULT_BOOTSTRAP_MODULES.
Bootstrapped == <<"inventory", "compliance">>

Direct == {"activate", "deactivate", "toggle_on", "toggle_off"}
Kinds == Direct \cup {"bootstrap", "onboard", "lapse"}

ASSUME ModuleGateAssumption ==
    /\ NoSession \notin Sessions
    /\ TTL \in Nat \ {0} /\ Delay \in Nat
    /\ MaxChanges \in Nat /\ MaxFaults \in Nat
    /\ Mixes \subseteq SUBSET (Kinds \cup GateKinds \cup {"fault"})

VARIABLES
    mix,            \* what may happen in this behaviour
    lock,           \* the session that holds each record, or its unique key
    sub,            \* the tenant's subscription
    period,         \* how long ago its period has ended
    changes         \* sessions so far

vars == <<mix, row, lock, sub, period, desk, cache, gate, sinceOn,
          sinceOff, sinceFailed, disturbed, changes, outages>>

States == {"none", "on", "off"}
Subs == {"none", "active", "past_due", "expired"}
Periods == <<"running", "grace", "over">>
Relevant == (UNION {SlugsOf(k) : k \in mix \cap GateKinds})
            \cup (IF "bootstrap" \in mix THEN ToSet(Bootstrapped) ELSE {})

\* Nothing older than this is told apart.
Horizon == TTL + 2 * Delay + 1
Later(n) == IF n < Horizon THEN n + 1 ELSE n

\* left: ticks until Redis drops the answer; failed: the answer was none.
NoEntry == [left |-> 0, on |-> FALSE, failed |-> FALSE]
Entry == [left : 0 .. TTL, on : BOOLEAN, failed : BOOLEAN]

\* sub: what it makes of the subscription; dropped: modules whose cached answer was deleted; crossed: those of them a
\* gate has cached again since.
Idle == [pc |-> "idle", kind |-> "none", todo |-> <<>>, pos |-> 1, sub |-> "same",
         seen |-> [m \in Slugs |-> "none"], new |-> [m \in Slugs |-> "none"],
         answer |-> [m \in Slugs |-> "none"], dropped |-> {}, crossed |-> {}]
Session == [pc : {"idle", "read", "write", "drop", "commit"},
            kind : Kinds \cup {"none"}, todo : Seq(Slugs), pos : Nat,
            sub : Subs \cup {"same"}, seen : [Slugs -> States], new : [Slugs -> States],
            answer : [Slugs -> States], dropped : SUBSET Slugs,
            crossed : SUBSET Slugs]

\* age: ticks since the gate turned to the module at pos; on, failed: the answer.
Away == [pc |-> "idle", kind |-> "none", pos |-> 1, age |-> 0,
         on |-> FALSE, failed |-> FALSE]
Gate == [pc : {"idle", "get", "ask", "set"}, kind : GateKinds \cup {"none"},
         pos : {1, 2}, age : 0 .. Delay, on : BOOLEAN, failed : BOOLEAN]

Init ==
    /\ mix \in Mixes
    /\ row \in {r \in [Slugs -> {"none", "on"}] : \A m \in Slugs \ Relevant : r[m] = "none"}
    /\ lock = [m \in Slugs |-> NoSession]
    /\ sub \in CASE "onboard" \in mix -> {"none"}
                  [] "lapse" \in mix -> {"active", "past_due"}
                  [] OTHER -> {"active"}
    /\ period = "running"
    /\ desk = [s \in Sessions |-> Idle]
    /\ cache = [m \in Slugs |-> NoEntry]
    /\ gate = [g \in Gates |-> Away]
    /\ sinceOn = [m \in Slugs |-> IF row[m] = "on" THEN 0 ELSE Horizon]
    /\ sinceOff = [m \in Slugs |-> IF row[m] = "on" THEN Horizon ELSE 0]
    /\ sinceFailed = [m \in Slugs |-> Horizon]
    /\ disturbed = {}
    /\ changes = 0 /\ outages = 0

Since == <<sinceOn, sinceOff>>
Records == <<row, sub, Since, disturbed>>
Desk == <<lock, desk, changes>>
Counter == <<cache, gate, sinceFailed>>

-----------------------------------------------------------------------------
(* subscription-service.                                                   *)

Faulty == "fault" \in mix /\ outages < MaxFaults

At(s, pc) == desk[s].pc = pc
Current(s) == desk[s].todo[desk[s].pos]
Wanted(kind) == IF kind \in {"deactivate", "toggle_off", "lapse"} THEN "off" ELSE "on"
AtEnd(s) == desk[s].pos = Len(desk[s].todo)

Begin(s, kind, new) ==
    /\ At(s, "idle") /\ kind \in mix /\ changes < MaxChanges
    /\ desk' = [desk EXCEPT ![s] = [new EXCEPT !.kind = kind]]
    /\ changes' = changes + 1
    /\ UNCHANGED <<mix, lock, Records, period, Counter, outages>>

Listing(todo) == [Idle EXCEPT !.pc = IF todo = <<>> THEN "commit" ELSE "read", !.todo = todo]

\* activate_module, deactivate_module and toggle_tenant_module.
Ask(s, kind, m) == kind \in Direct /\ m \in Relevant /\ Begin(s, kind, Listing(<<m>>))

\* bootstrap_tenant_modules, as user-service calls it for a new tenant.
Bootstrap(s) == Begin(s, "bootstrap", Listing(Bootstrapped))

\* onboard_tenant: only a tenant without subscription.  A second one at the
\* same time would fail on the subscription's key and is left out.
Onboard(s) ==
    /\ sub = "none" /\ \A t \in Sessions : desk[t].kind # "onboard"
    /\ \E todo \in SetToSeqs(Relevant) : Begin(s, "onboard", [Listing(todo) EXCEPT !.sub = "active"])

\* check_expirations: what is past due beyond the grace period takes its
\* modules along, those that are active when they are selected; what nobody has
\* seen in its grace period expires alone.
Lapse(s) ==
    \/ /\ sub = "past_due" /\ period = "over"
       /\ \E todo \in SetToSeqs({m \in Slugs : row[m] = "on"}) :
            Begin(s, "lapse", [Idle EXCEPT !.pc = IF todo = <<>> THEN "commit" ELSE "write",
                                           !.todo = todo, !.seen = row, !.sub = "expired"])
    \/ /\ sub = "active" /\ period # "running"
       /\ Begin(s, "lapse", [Idle EXCEPT !.pc = "commit",
                              !.sub = IF period = "grace" THEN "past_due" ELSE "expired"])

\* onboard_tenant reads all its records before it writes one.
Read(s) ==
    /\ At(s, "read")
    /\ LET seen == [desk[s].seen EXCEPT ![Current(s)] = row[Current(s)]]
           missing == desk[s].kind = "deactivate" /\ row[Current(s)] = "none"
       IN desk' = [desk EXCEPT ![s] =
            IF missing THEN Idle
            ELSE IF desk[s].kind = "onboard" /\ ~AtEnd(s)
            THEN [desk[s] EXCEPT !.seen = seen, !.pos = @ + 1]
            ELSE [desk[s] EXCEPT !.seen = seen, !.pc = "write",
                                 !.pos = IF desk[s].kind = "onboard" THEN 1 ELSE @]]
    /\ UNCHANGED <<mix, lock, changes, Records, period, Counter, outages>>

\* The session goes on to the next record or, after the last one, to the end.
Advance(r) == IF r.pos < Len(r.todo)
              THEN [r EXCEPT !.pos = @ + 1,
                             !.pc = IF r.kind \in {"onboard", "lapse"} THEN "write" ELSE "read"]
              ELSE [r EXCEPT !.pc = "commit"]

Release(s) == lock' = [m \in Slugs |-> IF lock[m] = s THEN NoSession ELSE lock[m]]
Rollback(s) ==
    /\ desk' = [desk EXCEPT ![s] = Idle]
    /\ Release(s)
    /\ UNCHANGED <<mix, changes, Records, period, Counter, outages>>

Free(s, m) == lock[m] \in {NoSession, s}
Skips(s) == desk[s].kind = "onboard" /\ desk[s].seen[Current(s)] = "on"

\* What the row will say: is_active is in the UPDATE only if it differs from
\* what was read.
Stored(s, m) == IF desk[s].seen[m] = Wanted(desk[s].kind)
                THEN row[m] ELSE Wanted(desk[s].kind)

\* Mutant: the handler answers without reading the record again.
AnswerUnread(s, m) == Wanted(desk[s].kind)

\* ModuleRepository refreshes its record after the flush, the platform's
\* endpoint answers what it was asked for.
Answer(s, m) == IF desk[s].kind \in {"activate", "deactivate", "bootstrap"}
                THEN Stored(s, m) ELSE Wanted(desk[s].kind)

Drops(kind) == kind \in Direct \cup {"bootstrap"}

Write(s) ==
    /\ At(s, "write") /\ ~Skips(s)
    /\ LET m == Current(s)
           done == [desk[s] EXCEPT !.new[m] = Stored(s, m), !.answer[m] = Answer(s, m)]
       IN /\ Free(s, m)
          /\ desk[s].seen[m] = "none" => row[m] = "none"
          /\ lock' = [lock EXCEPT ![m] = s]
          /\ desk' = [desk EXCEPT ![s] = IF Drops(desk[s].kind)
                                         THEN [done EXCEPT !.pc = "drop"]
                                         ELSE Advance(done)]
    /\ UNCHANGED <<mix, changes, Records, period, Counter, outages>>

Skip(s) ==
    /\ At(s, "write") /\ Skips(s)
    /\ desk' = [desk EXCEPT ![s] = Advance(@)]
    /\ UNCHANGED <<mix, lock, changes, Records, period, Counter, outages>>

\* Somebody else has inserted the record since: uq_tenant_module.
Duplicate(s) ==
    /\ At(s, "write") /\ Free(s, Current(s))
    /\ desk[s].seen[Current(s)] = "none" /\ row[Current(s)] # "none"
    /\ Rollback(s)

\* Two sessions wait for each other: PostgreSQL ends one of them.
Awaits(s, t) == At(s, "write") /\ ~Skips(s) /\ lock[Current(s)] = t
Victim(s) ==
    /\ \E t \in Sessions \ {s} : Awaits(s, t) /\ Awaits(t, s)
    /\ Rollback(s)

\* Mutant: the key that is deleted is not the one the gates read.
WithoutNone(m) == cache

Without(m) == [cache EXCEPT ![m] = NoEntry]

\* _invalidate_module_cache, before the commit.
Drop(s) ==
    /\ At(s, "drop")
    /\ cache' = Without(Current(s))
    /\ desk' = [desk EXCEPT ![s] =
         Advance([desk[s] EXCEPT !.dropped = @ \cup {Current(s)}, !.crossed = @ \ {Current(s)}])]
    /\ UNCHANGED <<mix, lock, changes, Records, period, gate, sinceFailed, outages>>

\* Redis does not answer: logged, and the handler goes on.
DropFails(s) ==
    /\ At(s, "drop") /\ Faulty
    /\ desk' = [desk EXCEPT ![s] = Advance(@)]
    /\ outages' = outages + 1
    /\ UNCHANGED <<mix, lock, changes, Records, period, Counter>>

Written(s) == {m \in Slugs : lock[m] = s}
Changed(s) == {m \in Written(s) : desk[s].new[m] # row[m]}

\* A gate that has asked, and not cached the answer yet.
UnderWay(m) == \E g \in Gates : gate[g].pc = "set" /\ Needs[gate[g].kind][gate[g].pos] = m

Commit(s) ==
    /\ At(s, "commit")
    /\ row' = [m \in Slugs |-> IF m \in Written(s) THEN desk[s].new[m] ELSE row[m]]
    /\ sub' = IF desk[s].sub = "same" THEN sub ELSE desk[s].sub
    /\ sinceOn' = [m \in Slugs |-> IF row'[m] = "on" THEN 0 ELSE sinceOn[m]]
    /\ sinceOff' = [m \in Slugs |-> IF row'[m] = "on" THEN sinceOff[m] ELSE 0]
    /\ disturbed' = (disturbed \ Changed(s)) \cup
         {m \in Changed(s) : m \notin desk[s].dropped \/ m \in desk[s].crossed \/ UnderWay(m)}
    /\ desk' = [desk EXCEPT ![s] = Idle]
    /\ Release(s)
    /\ UNCHANGED <<mix, changes, period, Counter, outages>>

-----------------------------------------------------------------------------
(* The gates.                                                              *)

Arrive(g, kind) ==
    /\ gate[g].pc = "idle" /\ kind \in mix \cap GateKinds
    /\ gate' = [gate EXCEPT ![g] = [Away EXCEPT !.pc = "get", !.kind = kind]]
    /\ UNCHANGED <<mix, Desk, Records, period, cache, sinceFailed, outages>>

Leave(g) == gate' = [gate EXCEPT ![g] = Away]

\* A module that is off ends the request; after one that is on the gate turns
\* to the next one.
Decide(g, on) ==
    IF ~on \/ gate[g].pos = Len(Needs[gate[g].kind]) THEN Leave(g)
    ELSE gate' = [gate EXCEPT ![g] = [Away EXCEPT !.pc = "get", !.pos = gate[g].pos + 1,
                                                 !.kind = gate[g].kind]]

Hit(g) ==
    /\ gate[g].pc = "get" /\ Live(Now(g))
    /\ Decide(g, cache[Now(g)].on)
    /\ UNCHANGED <<mix, Desk, Records, period, cache, sinceFailed, outages>>

Miss(g) ==
    /\ gate[g].pc = "get" /\ ~Live(Now(g))
    /\ gate' = [gate EXCEPT ![g].pc = "ask"]
    /\ UNCHANGED <<mix, Desk, Records, period, cache, sinceFailed, outages>>

\* get_module_status reads the record as committed.
Answered(g) ==
    /\ gate[g].pc = "ask"
    /\ gate' = [gate EXCEPT ![g] = [@ EXCEPT !.pc = "set", !.on = (row[Now(g)] = "on")]]
    /\ UNCHANGED <<mix, Desk, Records, period, cache, sinceFailed, outages>>

Fault(g) ==
    /\ Faulty /\ outages' = outages + 1
    /\ sinceFailed' = [sinceFailed EXCEPT ![Now(g)] = 0]
    /\ UNCHANGED <<mix, Desk, Records, period, cache>>

\* Any answer but 200 is taken for "off" and cached, by inventory-service.
Failed(g) ==
    /\ gate[g].pc = "ask" /\ gate[g].kind # "compliance"
    /\ gate' = [gate EXCEPT ![g] = [@ EXCEPT !.pc = "set", !.on = FALSE, !.failed = TRUE]]
    /\ Fault(g)

\* No answer, or for trace-service any but 200: nothing is cached.  The request
\* fails, or (einvoicing, compliance) goes on as if the module were off.
Unanswered(g) ==
    /\ gate[g].pc = "ask"
    /\ Leave(g)
    /\ Fault(g)

Set(g) ==
    /\ gate[g].pc = "set"
    /\ cache' = [cache EXCEPT ![Now(g)] =
                   [left |-> TTL, on |-> gate[g].on, failed |-> gate[g].failed]]
    /\ Decide(g, gate[g].on)
    /\ desk' = [s \in Sessions |-> IF Now(g) \in desk[s].dropped
                  THEN [desk[s] EXCEPT !.crossed = @ \cup {Now(g)}] ELSE desk[s]]
    /\ UNCHANGED <<mix, lock, changes, Records, period, sinceFailed, outages>>

\* Redis does not answer: trace-service asks, or answers, without it; in
\* inventory-service the request fails.
RedisFails(g) ==
    /\ gate[g].pc \in {"get", "set"}
    /\ Faulty /\ outages' = outages + 1
    /\ IF gate[g].kind # "compliance" THEN Leave(g)
       ELSE IF gate[g].pc = "get" THEN gate' = [gate EXCEPT ![g].pc = "ask"]
       ELSE Decide(g, gate[g].on)
    /\ UNCHANGED <<mix, Desk, Records, period, cache, sinceFailed>>

-----------------------------------------------------------------------------
(* Time.                                                                   *)

\* Mutant: only refusals expire.
AgedRefusals(e) == IF e.on \/ e.left = 0 THEN e ELSE [e EXCEPT !.left = @ - 1]

\* Mutant: only grants expire.
AgedGrants(e) == IF ~e.on \/ e.left = 0 THEN e ELSE [e EXCEPT !.left = @ - 1]

Aged(e) == IF e.left <= 1 THEN NoEntry ELSE [e EXCEPT !.left = @ - 1]

\* No call takes longer than its timeout allows.
Tick ==
    /\ \A g \in Gates : gate[g].pc # "idle" => gate[g].age < Delay
    /\ gate' = [g \in Gates |-> IF gate[g].pc = "idle" THEN gate[g]
                                ELSE [gate[g] EXCEPT !.age = @ + 1]]
    /\ cache' = [m \in Slugs |-> Aged(cache[m])]
    /\ sinceOn' = [m \in Slugs |-> IF row[m] = "on" THEN 0 ELSE Later(sinceOn[m])]
    /\ sinceOff' = [m \in Slugs |-> IF row[m] = "on" THEN Later(sinceOff[m]) ELSE 0]
    /\ sinceFailed' = [m \in Slugs |-> Later(sinceFailed[m])]
    /\ UNCHANGED <<mix, Desk, row, sub, period, disturbed, outages>>

\* The period of the subscription ends, and then its grace period.
Elapse ==
    /\ "lapse" \in mix /\ sub # "none" /\ period # "over"
    /\ period' = Periods[IF period = "running" THEN 2 ELSE 3]
    /\ UNCHANGED <<mix, Desk, Records, Counter, outages>>

-----------------------------------------------------------------------------
SessionStep(s) == Read(s) \/ Write(s) \/ Skip(s) \/ Duplicate(s) \/ Victim(s)
                          \/ Drop(s) \/ Commit(s)
GateStep(g) == Hit(g) \/ Miss(g) \/ Answered(g) \/ Set(g)

Next ==
    \/ \E s \in Sessions : SessionStep(s) \/ DropFails(s)
    \/ \E s \in Sessions : Bootstrap(s) \/ Onboard(s) \/ Lapse(s)
    \/ \E s \in Sessions, kind \in Direct, m \in Slugs : Ask(s, kind, m)
    \/ \E g \in Gates : GateStep(g) \/ Failed(g) \/ Unanswered(g) \/ RedisFails(g)
    \/ \E g \in Gates, kind \in GateKinds : Arrive(g, kind)
    \/ Tick \/ Elapse

Spec == Init /\ [][Next]_vars

\* Requests go on with what they have begun, and time passes.
FairSpec ==
    /\ Spec
    /\ \A s \in Sessions : WF_vars(SessionStep(s))
    /\ \A g \in Gates : WF_vars(GateStep(g))
    /\ WF_vars(Tick)

-----------------------------------------------------------------------------
(* Properties.                                                             *)

\* Every variable keeps its type, and only a session that is open holds a record.
TypeOK ==
    /\ mix \in Mixes /\ row \in [Slugs -> States]
    /\ lock \in [Slugs -> Sessions \cup {NoSession}]
    /\ \A m \in Slugs : lock[m] = NoSession \/ desk[lock[m]].pc # "idle"
    /\ sub \in Subs /\ period \in ToSet(Periods)
    /\ desk \in [Sessions -> Session] /\ cache \in [Slugs -> Entry]
    /\ gate \in [Gates -> Gate]
    /\ sinceOn \in [Slugs -> 0 .. Horizon] /\ sinceOff \in [Slugs -> 0 .. Horizon]
    /\ sinceFailed \in [Slugs -> 0 .. Horizon] /\ disturbed \subseteq Slugs
    /\ changes \in Nat /\ outages \in Nat

\* "Deactivate modules for expired tenants."
ExpiredHasNoModules == sub = "expired" => \A m \in Slugs : row[m] # "on"
=============================================================================
