--------------------------- MODULE ModulePromises ---------------------------
(***************************************************************************)
(* What the records of a tenant's modules and the answers that the other   *)
(* services keep of them promise: the state both sides see, and the        *)
(* properties that relate it.  ModuleGate is what keeps them.              *)
(***************************************************************************)
EXTENDS Integers, Sequences, SequencesExt

CONSTANTS
    Gates,          \* requests that pass a gate, one after the other
    TTL,            \* MODULE_CACHE_TTL, in ticks
    Delay           \* bound: ticks from a look-up in Redis to the answer cached

VARIABLES
    row,            \* the activation records as committed
    desk,           \* the sessions: where they stand, what they read and write
    cache,          \* the answers kept in Redis
    gate,           \* the requests at the gates
    sinceOn,        \* ticks since each module was last on, as committed
    sinceOff,       \* ticks since it was last off
    sinceFailed,    \* ticks since a question for it last failed
    disturbed,      \* modules whose last change may have been outrun by a gate
    outages         \* failed answers and calls to Redis so far

Slugs == {"inventory", "production", "electronic-invoicing", "compliance"}

\* The modules a gate asks for, in its order.
Needs == [inventory |-> <<"inventory">>,
          production |-> <<"inventory", "production">>,
          einvoicing |-> <<"electronic-invoicing">>,
          compliance |-> <<"compliance">>]
GateKinds == DOMAIN Needs
SlugsOf(kind) == ToSet(Needs[kind])
Now(g) == Needs[gate[g].kind][gate[g].pos]
Live(m) == cache[m].left > 0

Agrees(m) == cache[m].on = (row[m] = "on")

\* A cached answer that differs from the record, and is not a failure taken for
\* an answer, was cached by a gate whose question overlapped the last change:
\* after its key was deleted, and before that was committed.  Or the key was not
\* deleted at all.
StaleOnlyWhenOutrun ==
    \A m \in Slugs \ disturbed : Live(m) /\ ~cache[m].failed => Agrees(m)

Recent(n, kind) == n <= TTL + Delay * Len(Needs[kind])

\* The request ends with a decision, on what was cached or answered.
Decides(g) == /\ gate[g].pc \in {"get", "set"} /\ gate'[g].pc = "idle"
              /\ gate[g].kind = "compliance" \/ outages' = outages
Granted(g) == IF gate[g].pc = "get" THEN cache[Now(g)].on ELSE gate[g].on

\* However changes, gates and failures interleave, a request passes only if each
\* of its modules was on a short while ago, and is refused only if one of them was
\* off, or could not be asked for, a short while ago: stale answers do not feed
\* on themselves.
DecidedOnRecentState ==
    [][\A g \in Gates : Decides(g) =>
         LET kind == gate[g].kind IN
         IF Granted(g) THEN \A m \in SlugsOf(kind) : Recent(sinceOn[m], kind)
         ELSE \E m \in SlugsOf(kind) : Recent(sinceOff[m], kind) \/ Recent(sinceFailed[m], kind)]_gate

\* What activate_module, deactivate_module and the bootstrap answer is what
\* their commit leaves in the record, even if somebody else has changed it since
\* they read it.
AnsweredAsCommitted ==
    [][\A s \in DOMAIN desk :
         /\ desk[s].pc = "commit" /\ desk'[s].pc = "idle"
         /\ desk[s].kind \in {"activate", "deactivate", "bootstrap"}
         => \A m \in ToSet(desk[s].todo) : row'[m] = desk[s].answer[m]]_desk

\* Once nothing changes any more, the cached answers come to agree with the
\* records and stay so, however often they are asked for.
FreshInTheEnd == <>[](\A m \in Slugs : Live(m) => Agrees(m))

\* "Flush the cache in every consumer service so the change takes effect
\* immediately instead of waiting for the TTL to expire."
TakesEffectAtOnce == \A m \in Slugs : Live(m) => Agrees(m)
=============================================================================
