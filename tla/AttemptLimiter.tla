--------------------------- MODULE AttemptLimiter ---------------------------
(***************************************************************************)
(* internal/auth.AttemptLimiter and the handler of POST /auth that asks it *)
(* before it checks a credential and tells it afterwards.  Allowed, Failed *)
(* and Succeeded are critical sections of AttemptLimiter.mu; between the   *)
(* first and the other two any number of handlers may run.                 *)
(***************************************************************************)
EXTENDS Lists

CONSTANTS Clients,        \* client identifiers anybody presents
          Configured,     \* the ones of the ClientStore
          Allowance,      \* cfg.AuthMaxFailures
          Window,         \* cfg.AuthFailureWindow
          SweepThreshold, \* sweepThreshold, 1024 in the code
          MaxTracked,     \* maxTracked, 8192 in the code
          MaxInFlight,    \* bound on the handlers at work at once
          MaxOrder,       \* bound on the length of the eviction order
          MaxClock        \* bound on the clock

ASSUME LimiterOptions ==
    /\ IsFiniteSet(Clients) /\ Configured \subseteq Clients
    /\ Allowance \in Nat \ {0}
    /\ Window \in Nat \ {0}
    /\ SweepThreshold \in Nat /\ MaxTracked \in Nat \ {0}
    /\ SweepThreshold < MaxTracked
    /\ MaxInFlight \in Nat \ {0} /\ MaxOrder \in Nat /\ MaxClock \in Nat

VARIABLES failures,   \* AttemptLimiter.failures
          order,      \* AttemptLimiter.order
          lastSweep,  \* AttemptLimiter.lastSweep
          clock,
          checking    \* how many handlers of a client are past Allowed

vars == <<failures, order, lastSweep, clock, checking>>

failureRecord == [count : Nat \ {0}, startedAt : Nat]

TypeOK ==
    /\ DOMAIN failures \subseteq Clients
    /\ failures \in [DOMAIN failures -> failureRecord]
    /\ order \in Seq(Clients)
    /\ lastSweep \in Int
    /\ clock \in Nat
    /\ checking \in [Clients -> Nat]

\* lastSweep is the zero time: a window ago at least.
Init ==
    /\ failures = [id \in {} |-> 0]
    /\ order = << >>
    /\ lastSweep = -Window
    /\ clock = 0
    /\ checking = [id \in Clients |-> 0]

-----------------------------------------------------------------------------
Tracked == DOMAIN failures

expired(record) == clock - record.startedAt > Window

Mutant_Allowed(id) ==
    (id \in Tracked /\ ~expired(failures[id])) => failures[id].count <= Allowance
Allowed(id) ==
    (id \in Tracked /\ ~expired(failures[id])) => failures[id].count < Allowance

\* The maps of Failed, step by step: the failure is counted ...
counted(id) ==
    IF id \in Tracked /\ ~expired(failures[id])
    THEN [failures[id] EXCEPT !.count = @ + 1]
    ELSE [count |-> 1, startedAt |-> clock]

recorded(id) ==
    [i \in Tracked \cup {id} |-> IF i = id THEN counted(id) ELSE failures[i]]

Mutant_queued(id) == order
queued(id) == IF id \in Tracked THEN order ELSE Append(order, id)

\* ... the expired records are swept, at most once a window ...
sweepDue(f) == Cardinality(DOMAIN f) > SweepThreshold /\ clock - lastSweep >= Window

Mutant_swept(f) == IF sweepDue(f) THEN [i \in {} |-> 0] ELSE f
swept(f) ==
    IF sweepDue(f) THEN [i \in {j \in DOMAIN f : ~expired(f[j])} |-> f[i]] ELSE f

compacted(f, g, o) == IF sweepDue(f) THEN compact(o, DOMAIN g) ELSE o

\* ... and past the ceiling evictOldest drops the first identifier of the order
\* that is still tracked.  One eviction is enough: a failure adds one record.
over(f) == Cardinality(DOMAIN f) > MaxTracked

first(f, o) ==
    CHOOSE n \in DOMAIN o : o[n] \in DOMAIN f /\ \A m \in 1..(n - 1) : o[m] \notin DOMAIN f

evicted(f, o) ==
    IF over(f) THEN [i \in DOMAIN f \ {o[first(f, o)]} |-> f[i]] ELSE f

popped(f, o) == IF over(f) THEN SubSeq(o, first(f, o) + 1, Len(o)) ELSE o

-----------------------------------------------------------------------------
(* POST /auth *)

\* A handler that is let through; one that is refused answers and changes
\* nothing.
AskAllowed(id) ==
    /\ \A i \in Clients : checking[i] < MaxInFlight
    /\ Allowed(id)
    /\ checking' = [checking EXCEPT ![id] = @ + 1]
    /\ UNCHANGED <<failures, order, lastSweep, clock>>

\* Authenticate may accept what a configured client presents, right or wrong
\* being up to the client; it never accepts an unknown one.
mayAuthenticate(id) == id \in Configured

Done(id) ==
    /\ checking[id] > 0
    /\ checking' = [checking EXCEPT ![id] = @ - 1]

\* Authenticate refuses the credential: Failed.
Failed(id) ==
    LET f == recorded(id)
        g == swept(f)
        o == compacted(f, g, queued(id))
    IN  /\ Done(id)
        /\ Len(order) < MaxOrder
        /\ failures' = evicted(g, o)
        /\ order' = popped(g, o)
        /\ lastSweep' = IF sweepDue(f) THEN clock ELSE lastSweep
        /\ UNCHANGED clock

\* It accepts the credential and the token is issued: Succeeded.
Succeeded(id) ==
    /\ mayAuthenticate(id)
    /\ Done(id)
    /\ failures' = [i \in Tracked \ {id} |-> failures[i]]
    /\ UNCHANGED <<order, lastSweep, clock>>

\* It accepts the credential and issuing the token fails: nothing is counted.
IssueFails(id) ==
    /\ mayAuthenticate(id)
    /\ Done(id)
    /\ UNCHANGED <<failures, order, lastSweep, clock>>

Tick ==
    /\ clock < MaxClock
    /\ clock' = clock + 1
    /\ UNCHANGED <<failures, order, lastSweep, checking>>

Next ==
    \/ \E id \in Clients : AskAllowed(id)
    \/ \E id \in Clients : Failed(id)
    \/ \E id \in Clients : Succeeded(id)
    \/ \E id \in Clients : IssueFails(id)
    \/ Tick

Spec == Init /\ [][Next]_vars

-----------------------------------------------------------------------------
(* Properties *)

\* The map is bounded whatever identifiers are presented, and never holds one
\* that eviction cannot reach: every tracked identifier is in the order, however
\* many stale or repeated entries successes left there (limiter.go:14-19, 99-121).
Evictable ==
    /\ Tracked \subseteq Range(order)
    /\ Cardinality(Tracked) <= MaxTracked

\* Asking and telling are two critical sections, so failures can overrun the
\* allowance, but only by handlers that were let in before it was spent: the
\* count and the handlers in flight never add up past the allowance and the
\* number of handlers at work at once (limiter.go:76-85, auth.go:91-102).
OverrunIsBounded ==
    \A id \in Tracked :
        ~expired(failures[id]) =>
            failures[id].count + checking[id] < Allowance + MaxInFlight

\* An identifier that spent its allowance is let in again only because its
\* window passed, a handler let in earlier authenticated it, or it was evicted
\* with the map at its ceiling: neither a sweep nor a further failure forgives
\* it (limiter.go:21-24, 103-108; R1.6).
ForgivenOnlyByTime ==
    [][\A id \in Tracked :
          (~Allowed(id) /\ Allowed(id)') =>
             \/ clock' > clock
             \/ id \notin DOMAIN failures' /\ checking'[id] < checking[id]
             \/ Cardinality(Tracked) = MaxTracked /\ Cardinality(Tracked)' = MaxTracked]_vars

=============================================================================
