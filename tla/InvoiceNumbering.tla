--------------------------- MODULE InvoiceNumbering ---------------------------
(***************************************************************************)
(* How integration-service numbers invoices and credit notes: the counters *)
(* of a tenant's invoice resolutions for one provider                      *)
(* (services/resolution_service.py) and the internal endpoints that take   *)
(* the next number, call the provider and commit (routers/internal.py).    *)
(*                                                                         *)
(* A request is one READ COMMITTED transaction that spans the call to the  *)
(* provider.  It selects the active resolution twice: the router's look-up *)
(* is the resolution whose prefix and range are sent with the document,    *)
(* get_next_number's the one whose counter gives the number.  The second   *)
(* SELECT leaves the attributes of an object the session already holds as  *)
(* they were.  The counter is raised by an UPDATE that locks the row until *)
(* the transaction ends.  Replacing or deactivating a resolution is a      *)
(* short transaction of its own, one step here, which waits for the row.   *)
(*                                                                         *)
(* Dates are abstracted to the set Expired, and the fallback from the      *)
(* provider's specific resolution to its legacy one to a single provider.  *)
(***************************************************************************)
EXTENDS Integers, FiniteSets

CONSTANTS
    Reqs,           \* the requests for a number, each of them served once
    NoReq,          \* the row is not locked
    Resolutions,    \* the resolutions that may come to exist
    NoRes,
    From,           \* [Resolutions -> Nat]: range_from
    To,             \* [Resolutions -> Nat]: range_to
    Start,          \* [Resolutions -> Nat]: current_number when it is created
    Expired         \* the resolutions whose valid_to is past

ASSUME NoneAssumption ==
    /\ NoReq \notin Reqs
    /\ NoRes \notin Resolutions

ASSUME RangeAssumption ==
    /\ From \in [Resolutions -> Nat]
    /\ To \in [Resolutions -> Nat]
    /\ Start \in [Resolutions -> Nat]
    /\ \A res \in Resolutions : From[res] >= 1 /\ From[res] <= To[res]
    /\ \A res \in Resolutions : Start[res] <= To[res]

VARIABLES
    created,    \* the resolutions that exist
    active,     \* the active one; a partial unique index allows one at most
    current,    \* the committed current_number of each
    lock,       \* the request whose UPDATE holds the row
    req,        \* every request: where it stands and what it has read
    invoices,   \* the numbered documents of the requests that committed
    outdated    \* history: requests between whose look-ups the active
                \* resolution was replaced or deactivated

vars == <<created, active, current, lock, req, invoices, outdated>>

-----------------------------------------------------------------------------
Pcs == {"idle", "route", "read", "heal", "increment", "adapter", "done"}

\* routed: what the router looked up; res and seen: the resolution the number is
\* taken from and the counter that was loaded with it; draft: the counter as
\* this transaction has written it; number: 0 for none.
Request == [pc : Pcs, routed : Resolutions \cup {NoRes},
            res : Resolutions \cup {NoRes}, seen : Nat, draft : Nat, number : Nat]

\* bears: the resolution whose prefix and range the document names.
Invoice == [by : Reqs, res : Resolutions, bears : Resolutions, number : Nat]

Idle == [pc |-> "idle", routed |-> NoRes, res |-> NoRes, seen |-> 0, draft |-> 0,
         number |-> 0]

Init ==
    /\ created = {}
    /\ active = NoRes
    /\ current = Start
    /\ lock = [res \in Resolutions |-> NoReq]
    /\ req = [r \in Reqs |-> Idle]
    /\ invoices = {}
    /\ outdated = {}

At(r, pc) == req[r].pc = pc

Move(r, q) == req' = [req EXCEPT ![r] = q]

\* Whether this request's UPDATE holds the row of the resolution it works on.
Holds(r) == req[r].res # NoRes /\ lock[req[r].res] = r

Unlocked(r) == [res \in Resolutions |-> IF lock[res] = r THEN NoReq ELSE lock[res]]

-----------------------------------------------------------------------------
(* Resolutions.                                                            *)

\* The UPDATE that deactivates waits for a request that holds the row.
Deactivatable == active # NoRes => lock[active] = NoReq

\* The requests that have made the first of their two look-ups.
Between == {r \in Reqs : At(r, "read")}

\* create_resolution: the active one steps back, the new one is inserted.
CreateResolution(res) ==
    /\ res \notin created
    /\ Deactivatable
    /\ created' = created \cup {res}
    /\ active' = res
    /\ outdated' = outdated \cup Between
    /\ UNCHANGED <<current, lock, req, invoices>>

DeactivateResolution ==
    /\ active # NoRes
    /\ Deactivatable
    /\ active' = NoRes
    /\ outdated' = outdated \cup Between
    /\ UNCHANGED <<created, current, lock, req, invoices>>

-----------------------------------------------------------------------------
(* A request for an invoice or a credit note.                              *)

Arrive(r) ==
    /\ At(r, "idle")
    /\ Move(r, [req[r] EXCEPT !.pc = "route"])
    /\ UNCHANGED <<created, active, current, lock, invoices, outdated>>

\* The router's own look-up: with no resolution the document goes unnumbered.
Route(r) ==
    /\ At(r, "route")
    /\ \/ /\ active = NoRes
          /\ Move(r, [req[r] EXCEPT !.pc = "adapter"])
       \/ /\ active # NoRes
          /\ Move(r, [req[r] EXCEPT !.pc = "read", !.routed = active,
                                    !.res = active, !.seen = current[active]])
    /\ UNCHANGED <<created, active, current, lock, invoices, outdated>>

\* The counter get_next_number sees: a resolution already loaded is not read anew.
Loaded(r) == IF req[r].res = active THEN req[r].seen ELSE current[active]

\* The checks of get_next_number.  An error in them is logged and swallowed.
Usable(r) ==
    /\ active # NoRes
    /\ active \notin Expired
    /\ Loaded(r) < To[active]

ReadResolution(r) ==
    /\ At(r, "read")
    /\ \/ /\ ~Usable(r)
          /\ Move(r, [req[r] EXCEPT !.pc = "adapter"])
       \/ /\ Usable(r)
          /\ Move(r, [req[r] EXCEPT !.res = active, !.seen = Loaded(r),
                        !.pc = IF Loaded(r) < From[active] - 1
                               THEN "heal" ELSE "increment"])
    /\ UNCHANGED <<created, active, current, lock, invoices, outdated>>

\* A row created with too low a counter is brought to range_from - 1: whatever
\* the counter has become since it was read.
SelfHeal(r) ==
    LET res == req[r].res IN
    /\ At(r, "heal")
    /\ lock[res] = NoReq
    /\ lock' = [lock EXCEPT ![res] = r]
    /\ Move(r, [req[r] EXCEPT !.pc = "increment", !.draft = From[res] - 1])
    /\ UNCHANGED <<created, active, current, invoices, outdated>>

\* The counter the increment starts from: one's own write, or what is committed.
Counter(r) == IF Holds(r) THEN req[r].draft ELSE current[req[r].res]

\* Mutant of Increment: the new value is computed from the counter that was read.
IncrementAsRead(r) ==
    LET res == req[r].res
        next == (IF Holds(r) THEN req[r].draft ELSE req[r].seen) + 1 IN
    /\ At(r, "increment")
    /\ lock[res] \in {r, NoReq}
    /\ lock' = [lock EXCEPT ![res] = r]
    /\ Move(r, [req[r] EXCEPT !.pc = "adapter", !.draft = next, !.number = next])
    /\ UNCHANGED <<created, active, current, invoices, outdated>>

\* Mutant of Increment: no range guard in the UPDATE's WHERE.
IncrementUnguarded(r) ==
    LET res == req[r].res
        next == Counter(r) + 1 IN
    /\ At(r, "increment")
    /\ lock[res] \in {r, NoReq}
    /\ lock' = [lock EXCEPT ![res] = r]
    /\ Move(r, [req[r] EXCEPT !.pc = "adapter", !.draft = next, !.number = next])
    /\ UNCHANGED <<created, active, current, invoices, outdated>>

\* UPDATE ... SET current_number = current_number + 1 WHERE it is below range_to.
\* A row that does not qualify is not waited for.
Increment(r) ==
    LET res == req[r].res
        next == Counter(r) + 1 IN
    /\ At(r, "increment")
    /\ \/ /\ Counter(r) < To[res]
          /\ lock[res] \in {r, NoReq}
          /\ lock' = [lock EXCEPT ![res] = r]
          /\ Move(r, [req[r] EXCEPT !.pc = "adapter", !.draft = next, !.number = next])
       \/ /\ Counter(r) >= To[res]
          /\ Move(r, [req[r] EXCEPT !.pc = "adapter"])
          /\ UNCHANGED lock
    /\ UNCHANGED <<created, active, current, invoices, outdated>>

\* The document as it goes to the provider: body["resolution"] is still the
\* router's, whatever resolution the number was taken from.
Numbered(r) == [by |-> r, res |-> req[r].res, bears |-> req[r].routed,
                number |-> req[r].number]

\* The provider accepts the document and the session commits.
Commit(r) ==
    LET res == req[r].res IN
    /\ At(r, "adapter")
    /\ current' = IF Holds(r) THEN [current EXCEPT ![res] = req[r].draft] ELSE current
    /\ invoices' = IF req[r].number = 0 THEN invoices ELSE invoices \cup {Numbered(r)}
    /\ lock' = Unlocked(r)
    /\ Move(r, [req[r] EXCEPT !.pc = "done"])
    /\ UNCHANGED <<created, active, outdated>>

\* The provider fails, the client goes away or the process dies: the counter
\* goes back to what it was, and so does the number.
Rollback(r) ==
    /\ req[r].pc \notin {"idle", "done"}
    /\ lock' = Unlocked(r)
    /\ Move(r, [req[r] EXCEPT !.pc = "done"])
    /\ UNCHANGED <<created, active, current, invoices, outdated>>

-----------------------------------------------------------------------------
Step(r) ==
    \/ Route(r)
    \/ ReadResolution(r)
    \/ SelfHeal(r)
    \/ Increment(r)
    \/ Commit(r)

Next ==
    \/ \E r \in Reqs : Arrive(r) \/ Step(r) \/ Rollback(r)
    \/ \E res \in Resolutions : CreateResolution(res)
    \/ DeactivateResolution

Spec == Init /\ [][Next]_vars

-----------------------------------------------------------------------------
TypeOK ==
    /\ created \subseteq Resolutions
    /\ active \in created \cup {NoRes}
    /\ current \in [Resolutions -> Nat]
    /\ lock \in [Resolutions -> Reqs \cup {NoReq}]
    /\ req \in [Reqs -> Request]
    /\ invoices \subseteq Invoice
    /\ outdated \subseteq Reqs

\* "Atomically increment and return the next invoice number": no two documents
\* bear the same number of the same resolution.
NumbersUnique ==
    \A i, j \in invoices : i.res = j.res /\ i.number = j.number => i = j

\* Resolutions created after the initialization fix, with their counter at
\* range_from - 1 or above.
Initialised == {res \in Resolutions : Start[res] >= From[res] - 1}

\* The numbers of such a resolution are consecutive, each of them given once,
\* and the counter is the last one: a rolled-back request leaves no gap.
Consecutive ==
    \A res \in Initialised :
        /\ \A n \in (Start[res] + 1)..current[res] :
              \E i \in invoices : i.res = res /\ i.number = n
        /\ \A i \in invoices : i.res = res => i.number \in (Start[res] + 1)..current[res]
        /\ \A i, j \in invoices :
              i.res = res /\ j.res = res /\ i.number = j.number => i = j

\* Such resolutions are books whose pages are given out one by one: whatever
\* requests, replacements and rollbacks do, each commit either gives the next
\* number to a document that has none, or nothing is seen of it.
InBook(f) == [res \in Initialised |-> f[res]]
Book == INSTANCE InvoiceBook WITH
            Documents <- Reqs, Series <- Initialised,
            Before <- InBook(Start), Last <- InBook(To),
            page <- InBook(current),
            issued <- {[by |-> i.by, res |-> i.res, number |-> i.number] :
                          i \in {j \in invoices : j.res \in Initialised}}
BookSpec == Book!Spec

\* No number is given outside the range of the resolution it is counted in, even
\* when the counter was created at zero and healed by several requests at once;
\* and the range the document names is one its number lies in, unless the active
\* resolution was replaced between the request's two look-ups.
InRange ==
    \A i \in invoices :
        /\ i.number \in From[i.res]..To[i.res]
        /\ i.by \notin outdated => i.number \in From[i.bears]..To[i.bears]
=============================================================================
