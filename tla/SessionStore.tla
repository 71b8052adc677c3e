---------------------------- MODULE SessionStore ----------------------------
(***************************************************************************)
(* internal/session.Store as a state machine: every exported operation is  *)
(* one critical section of Store.mu, taken by any goroutine at any moment  *)
(* of the clock.  `reply` is what the last Open or Get answered.           *)
(***************************************************************************)
EXTENDS SessionRecords

CONSTANTS MaxClock,   \* bound on the clock
          MaxOpens    \* bound on the sessions ever created

ASSUME StoreBounds == MaxClock \in Nat /\ MaxOpens \in Nat

VARIABLES store,      \* the Store
          clock,      \* s.now()
          nextID,     \* the next identifier newID will draw
          reply       \* what the last step answered, when it was an Open or a Get

vars == <<store, clock, nextID, reply>>

NoReply == [op |-> "none", peers |-> << >>, err |-> OK, id |-> NoID]

Replies == [op : {"none", "open", "get"}, peers : Seq(Peers),
            err : {OK, ErrNotFound, ErrNotAllowed, ErrSelf, ErrFull,
                   ErrTooManyForPeer, ErrBadTransition},
            id : Nat]

Init ==
    /\ store = EmptyStore
    /\ clock = 0
    /\ nextID = 1
    /\ reply = NoReply

\* The step takes the outcome o of an operation called by the given peers.
Answer(op, peers, o) ==
    /\ store' = o.store
    /\ reply' = [op |-> op, peers |-> peers, err |-> o.err, id |-> o.id]
    /\ UNCHANGED clock

\* The identifier is spent when it was used.
Open(caller, callee) ==
    /\ nextID <= MaxOpens
    /\ \E o \in OpenOutcomes(store, caller, callee, clock, nextID) :
          /\ Answer("open", <<caller, callee>>, o)
          /\ nextID' = IF o.id = nextID THEN nextID + 1 ELSE nextID

Get(id, askedBy) ==
    /\ Answer("get", <<askedBy>>, GetOutcome(store, id, askedBy, clock))
    /\ UNCHANGED nextID

Report(id, reportedBy, state, path) ==
    /\ store' = ReportOutcome(store, id, reportedBy, state, path, clock).store
    /\ reply' = NoReply
    /\ UNCHANGED <<clock, nextID>>

ClosePeer(p) ==
    /\ store' \in ClosePeerOutcomes(store, p, clock)
    /\ reply' = NoReply
    /\ UNCHANGED <<clock, nextID>>

Reap ==
    /\ store' \in ReapOutcomes(store, clock)
    /\ reply' = NoReply
    /\ UNCHANGED <<clock, nextID>>

Tick ==
    /\ clock < MaxClock
    /\ clock' = clock + 1
    /\ reply' = NoReply
    /\ UNCHANGED <<store, nextID>>

Next ==
    \/ \E caller, callee \in Peers : Open(caller, callee)
    \/ \E id \in 1..nextID, p \in Peers : Get(id, p)
    \/ \E id \in 1..nextID, p \in Peers, state \in States, path \in Paths :
          Report(id, p, state, path)
    \/ \E p \in Peers : ClosePeer(p)
    \/ Reap
    \/ Tick

Spec == Init /\ [][Next]_vars

\* sweepSessions calls Reap on a ticker for as long as the server runs, and
\* time passes.  Nothing obliges a peer to do anything.
FairSpec == Spec /\ WF_vars(Reap) /\ WF_vars(Tick)

-----------------------------------------------------------------------------
(* Properties *)

TypeOK ==
    /\ StoreTyped(store)
    /\ clock \in Nat
    /\ nextID \in IDs
    /\ reply \in Replies

\* The counter and the two indexes that Open, Count and settlePeerLocked read
\* instead of scanning never drift from the records, whatever sequence of
\* opens, reports, timeouts, hang-ups and sweeps ran (session.go:164-172).
IndexesExact == CountExact(store) /\ PerPeerExact(store) /\ PairsExact(store)

parties(s) == {s.caller, s.callee}

lifeOf(id) ==
    IF id \in Held(store)
    THEN [stage   |-> store.sessions[id].state,
          parties |-> parties(store.sessions[id]),
          since   |-> store.sessions[id].openedAt]
    ELSE [stage |-> "forgotten", parties |-> {}, since |-> 0]

Life == INSTANCE SessionLife WITH life <- [id \in 1..(nextID - 1) |-> lifeOf(id)]

\* The store is an implementation of SessionLife: read through its records,
\* whatever the operations, the sweeps and the clock do is one of the few
\* things that may happen to a session (session.go:20-29, 559-574).
ImplementsLife == Life!Spec

\* Two peers are never in two live sessions at once, whoever called whom and
\* however often (session.go:160-163, 576-582).
OneLiveSessionPerPair ==
    \A i, j \in LiveIDs(store) :
        parties(store.sessions[i]) = parties(store.sessions[j]) => i = j

\* Store.ended lists exactly the ended records that are held, each once: there
\* is always one to drop when the map is at its bound, and no session is
\* recorded as ended twice (session.go:173-175, 532-557).
EndedListExact == EndedExact(store)

\* The live ceiling, the per-peer cap and the bound on retained records hold
\* in every state (session.go:129-134, 150-154).
WithinCeilings == Bounded(store)

\* A session that ended is never moved again, and neither is its path or the
\* moment it ended, until it is forgotten (session.go:559-574).
EndedIsFinal ==
    [][\A id \in (Held(store) \ LiveIDs(store)) \cap Held(store)' :
          store'.sessions[id] = store.sessions[id]]_vars

\* Whoever touches a session past its negotiation timeout first, it is
\* recorded as failed at the moment of the timeout: never as closed by the
\* hang-up, connected by a late report, or failed when it was noticed
\* (session.go:369-373, 454-467).
TimeoutIsFailure ==
    [][\A id \in Held(store) \cap Held(store)' :
          TimedOut(store.sessions[id], clock) =>
             store'.sessions[id] \in {store.sessions[id], settled(store.sessions[id])}]_vars

\* A record leaves the store only when it is past its retention, or to make
\* room while the map is at its bound; a connected session never does, and one
\* still negotiating only once it has timed out (session.go:126-128, 272-276,
\* 407-431; R4.1, R4.4).
ForgottenWhenDue ==
    [][\A id \in Held(store) \ Held(store)' :
          LET s == store.sessions[id]
              e == IF TimedOut(s, clock) THEN settled(s) ELSE s
          IN  /\ ~Live(e)
              /\ \/ clock - e.changedAt > Retention
                 \/ Cardinality(Held(store)) >= RetainBound]_vars

\* Dropping to make room takes the ended records in the order they were put
\* on the list: an entry that outlives a trim is younger than every entry the
\* trim dropped (session.go:530-545; R4.4).
OldestDroppedFirst ==
    [][(clock' = clock /\ store'.live > store.live) =>
          \A i, j \in DOMAIN store.ended :
             (i < j /\ store.ended[j] \notin Held(store)')
                => store.ended[i] \notin Held(store)']_vars

\* A peer is told it holds too many sessions only when one of the two really
\* does: as many as the cap that have not quietly timed out (session.go:263-269).
TooManyIsReal ==
    reply.err = ErrTooManyForPeer =>
        \E p \in Range(reply.peers) :
            /\ Cardinality(store.perPeer[p]) = MaxSessionsPerPeer
            /\ expired(store, store.perPeer[p], clock) = {}

\* What Open answers with is a live session of the two peers, not timed out,
\* whether it is new or the one they already had (session.go:226-229, 252-254).
OpenAnswersLive ==
    (reply.op = "open" /\ reply.err = OK) =>
        /\ reply.id \in LiveIDs(store)
        /\ parties(store.sessions[reply.id]) = Range(reply.peers)
        /\ ~TimedOut(store.sessions[reply.id], clock)

\* A peer never reads a session as negotiating past its timeout, whether or
\* not the ticker has run (session.go:454-456).
ReadIsSettled ==
    (reply.op = "get" /\ reply.err = OK) => ~TimedOut(store.sessions[reply.id], clock)

\* Nothing stays negotiating for ever: a session that the clock can outrun is
\* eventually no longer held as negotiating (session.go:123-125, 407-431).
NegotiationEnds ==
    \A id \in 1..MaxOpens :
        (/\ id \in Held(store)
         /\ store.sessions[id].state = Negotiating
         /\ store.sessions[id].openedAt + NegotiationTimeout < MaxClock)
        ~> ~(id \in Held(store) /\ store.sessions[id].state = Negotiating)

=============================================================================
