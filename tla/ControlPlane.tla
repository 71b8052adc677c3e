---------------------------- MODULE ControlPlane ----------------------------
(***************************************************************************)
(* The server of cmd/central: the registry, the session store and the      *)
(* peers that hold a signaling channel, with the goroutines that touch two *)
(* of them in separate critical sections:                                  *)
(*                                                                         *)
(*   - POST /sessions asks the registry, then opens in the store;          *)
(*   - the registry's sweep expires peers, then closes the sessions of     *)
(*     each and tells both sides on their channels;                        *)
(*   - a channel that opens, and the presence ticker, send a heartbeat and *)
(*     register when it is refused;                                        *)
(*   - a report that ends a session is told to both sides.                 *)
(*                                                                         *)
(* Anything may happen between two critical sections of a goroutine.       *)
(***************************************************************************)
EXTENDS SessionRecords

CONSTANTS SuspectAfter, OfflineAfter, MaxPeers,   \* registry.Options
          Callers,                                \* bound: who opens sessions
          Holders,                                \* bound: who opens channels
          Reporters,                              \* bound: who uses /peers
          MaxClock,                               \* bound on the clock
          MaxOpens                                \* bound on the sessions ever created

ASSUME ControlPlaneOptions ==
    /\ SuspectAfter \in Nat \ {0}
    /\ OfflineAfter \in Nat /\ OfflineAfter > SuspectAfter
    /\ MaxPeers \in Nat \ {0}
    /\ Callers \subseteq Peers /\ Holders \subseteq Peers /\ Reporters \subseteq Peers
    /\ MaxClock \in Nat /\ MaxOpens \in Nat

Reg == INSTANCE RegistryRecords

VARIABLES reg,         \* Registry.peers
          store,       \* the session Store
          channels,    \* the peers the Hub holds a connection for
          clock,
          nextID,
          calling,     \* POST /sessions handlers between Reachable and Open
          removed,     \* what Expire removed and the sweep has yet to close
          tells,       \* SessionEnded calls under way
          announcing,  \* presence updates under way
          waiting      \* history: who held a channel when a session of theirs
                       \* ended, has held one since, and was not told

vars == <<reg, store, channels, clock, nextID, calling, removed, tells,
          announcing, waiting>>

\* A SessionEnded call: who makes it, for which session, to whom it still
\* has to write.
Tell(by, id, to) == [by |-> by, id |-> id, to |-> to]

\* A presence update: who makes it, for which peer, and its next call.
Update(by, p, step) == [by |-> by, peer |-> p, step |-> step]

Sweep    == "sweep"
Handler  == "handler"
Presence == "presence"
Channel  == "channel"

TypeOK ==
    /\ StoreTyped(store)
    /\ DOMAIN reg \subseteq Peers /\ reg \in [DOMAIN reg -> Reg!Record]
    /\ channels \subseteq Peers
    /\ clock \in Nat /\ nextID \in IDs
    /\ calling \subseteq Peers \X Peers
    /\ removed \subseteq Peers
    /\ \A t \in tells : t.by \in {Sweep, Handler} /\ t.id \in IDs /\ t.to \in Seq(Peers)
    /\ announcing \subseteq [by : {Presence, Channel}, peer : Peers,
                             step : {"heartbeat", "register"}]
    /\ waiting \subseteq IDs \X Peers

Init ==
    /\ reg = Reg!EmptyRegistry
    /\ store = EmptyStore
    /\ channels = {}
    /\ clock = 0
    /\ nextID = 1
    /\ calling = {} /\ removed = {} /\ tells = {} /\ announcing = {} /\ waiting = {}

-----------------------------------------------------------------------------
(* What the steps share *)

\* The sessions that stop being live when the store becomes st.
stopped(st) == LiveIDs(store) \ LiveIDs(st)

both(s) == <<s.caller, s.callee>>

\* The store becomes st: whoever holds a channel waits to hear of what ended.
StoreBecomes(st) ==
    /\ store' = st
    /\ waiting' = waiting \cup
         {w \in stopped(st) \X channels : Has(store.sessions[w[1]], w[2])}

-----------------------------------------------------------------------------
(* The routes under /sessions *)

\* The registry, as the store asks it.
Reachable(p) == Reg!Lookup(reg, p, clock)

\* OpenSession up to store.Reachable.  Only a call that goes on is kept.
AskReachable(caller, callee) ==
    /\ caller # callee
    /\ <<caller, callee>> \notin calling
    /\ Reachable(callee)
    /\ calling' = calling \cup {<<caller, callee>>}
    /\ UNCHANGED <<reg, store, channels, clock, nextID, removed, tells, announcing, waiting>>

\* store.Open, and the answer.
OpenSession(caller, callee) ==
    /\ <<caller, callee>> \in calling
    /\ nextID <= MaxOpens
    /\ \E o \in OpenOutcomes(store, caller, callee, clock, nextID) :
          /\ StoreBecomes(o.store)
          /\ nextID' = IF o.id = nextID THEN nextID + 1 ELSE nextID
    /\ calling' = calling \ {<<caller, callee>>}
    /\ UNCHANGED <<reg, channels, clock, removed, tells, announcing>>

\* GET /sessions/{id}, and the question the hub asks before it routes: both
\* settle the session they read.
GetSession(id, p) ==
    /\ StoreBecomes(GetOutcome(store, id, p, clock).store)
    /\ UNCHANGED <<reg, channels, clock, nextID, calling, removed, tells, announcing>>

\* POST /sessions/{id}/state and DELETE /sessions/{id}: a report that ends the
\* session is followed by notifyEnded.
reportableState == {Connected, Failed, Closed}

Mutant_notifyEnded(st, id) == {}
notifyEnded(st, id) ==
    IF id \in LiveIDs(st) THEN {} ELSE {Tell(Handler, id, both(st.sessions[id]))}

ReportSession(id, p, state) ==
    LET o == ReportOutcome(store, id, p, state, PathUnknown, clock)
    IN  /\ StoreBecomes(o.store)
        /\ tells' = IF o.err = OK THEN tells \cup notifyEnded(o.store, id) ELSE tells
        /\ UNCHANGED <<reg, channels, clock, nextID, calling, removed, announcing>>

\* What is left of a call once its first peer was written to.
Mutant_rest(t) == {}
rest(t) == IF Len(t.to) = 1 THEN {} ELSE {Tell(t.by, t.id, Tail(t.to))}

\* Hub.SessionEnded writes to the caller, then to the callee: to whoever holds
\* a channel at that moment.
SessionEnded(t) ==
    /\ t \in tells
    /\ waiting' = waiting \ {<<t.id, Head(t.to)>>}
    /\ tells' = (tells \ {t}) \cup rest(t)
    /\ UNCHANGED <<reg, store, channels, clock, nextID, calling, removed, announcing>>

\* The write fails: the peer does not read, or whoever reported has hung up and
\* taken its request's context along.  The channel is closed, and its goroutine
\* drops it from the hub.
SessionEndedFails(t) ==
    /\ t \in tells
    /\ Head(t.to) \in channels
    /\ channels' = channels \ {Head(t.to)}
    /\ waiting' = {w \in waiting : w[2] # Head(t.to)}
    /\ tells' = (tells \ {t}) \cup rest(t)
    /\ UNCHANGED <<reg, store, clock, nextID, calling, removed, announcing>>

-----------------------------------------------------------------------------
(* The routes under /peers *)

RegistryBecomes(r) ==
    /\ reg' = r
    /\ UNCHANGED <<store, channels, clock, nextID, calling, removed, tells, announcing, waiting>>

PostPeers(p) == RegistryBecomes(Reg!Register(reg, p, clock).reg)

DeletePeers(p) == RegistryBecomes(Reg!Deregister(reg, p))

PostHeartbeat(p) == RegistryBecomes(Reg!Heartbeat(reg, p, clock).reg)

-----------------------------------------------------------------------------
(* The channels, as far as the registry and the store see them *)

\* Hub.Register; presence.Connected is still to be called.  One channel of a
\* peer at a time is on its way in.
OpenChannel(p) ==
    /\ \A u \in announcing : ~(u.by = Channel /\ u.peer = p)
    /\ channels' = channels \cup {p}
    /\ announcing' = announcing \cup {Update(Channel, p, "heartbeat")}
    /\ UNCHANGED <<reg, store, clock, nextID, calling, removed, tells, waiting>>

\* Hub.Deregister; presence.Disconnected does nothing.
CloseChannel(p) ==
    /\ p \in channels
    /\ channels' = channels \ {p}
    /\ waiting' = {w \in waiting : w[2] # p}
    /\ UNCHANGED <<reg, store, clock, nextID, calling, removed, tells, announcing>>

\* refreshPresence takes its snapshot of the hub.
RefreshPresence ==
    /\ \A u \in announcing : u.by # Presence
    /\ announcing' = announcing \cup {Update(Presence, p, "heartbeat") : p \in channels}
    /\ UNCHANGED <<reg, store, channels, clock, nextID, calling, removed, tells, waiting>>

\* The heartbeat of an update; one that is refused leaves a registration to
\* make.  The presence ticker works on one peer at a time.
Mutant_afterHeartbeat(u, err) == {}
afterHeartbeat(u, err) ==
    IF err = Reg!OK THEN {} ELSE {[u EXCEPT !.step = "register"]}

AnnounceHeartbeat(u) ==
    LET o == Reg!Heartbeat(reg, u.peer, clock)
    IN  /\ u \in announcing /\ u.step = "heartbeat"
        /\ u.by = Presence =>
              \A v \in announcing : ~(v.by = Presence /\ v.step = "register")
        /\ reg' = o.reg
        /\ announcing' = (announcing \ {u}) \cup afterHeartbeat(u, o.err)
        /\ UNCHANGED <<store, channels, clock, nextID, calling, removed, tells, waiting>>

\* Its registration; the error is dropped.
AnnounceRegister(u) ==
    /\ u \in announcing /\ u.step = "register"
    /\ reg' = Reg!Register(reg, u.peer, clock).reg
    /\ announcing' = announcing \ {u}
    /\ UNCHANGED <<store, channels, clock, nextID, calling, removed, tells, waiting>>

-----------------------------------------------------------------------------
(* The tickers *)

SweepIdle == removed = {} /\ \A t \in tells : t.by # Sweep

\* Registry.Sweep: Expire, and the callback when something was removed.
SweepExpire ==
    /\ SweepIdle
    /\ reg' = Reg!expireLocked(reg, clock)
    /\ removed' = Reg!gone(reg, clock)
    /\ UNCHANGED <<store, channels, clock, nextID, calling, tells, announcing, waiting>>

\* The callback, one peer at a time: ClosePeer, then tell both sides of every
\* session it closed before it goes on.  What ClosePeer finds timed out it
\* settles and does not report.
Mutant_hangUp(p) == {store}
hangUp(p) == ClosePeerOutcomes(store, p, clock)

sweepTells(st) ==
    {Tell(Sweep, id, both(st.sessions[id])) :
        id \in {i \in stopped(st) : st.sessions[i].state = Closed}}

SweepClose(p) ==
    /\ p \in removed
    /\ \A t \in tells : t.by # Sweep
    /\ \E st \in hangUp(p) :
          /\ StoreBecomes(st)
          /\ tells' = tells \cup sweepTells(st)
    /\ removed' = removed \ {p}
    /\ UNCHANGED <<reg, channels, clock, nextID, calling, announcing>>

\* sweepSessions.
Reap ==
    /\ \E st \in ReapOutcomes(store, clock) : StoreBecomes(st)
    /\ UNCHANGED <<reg, channels, clock, nextID, calling, removed, tells, announcing>>

Tick ==
    /\ clock < MaxClock
    /\ clock' = clock + 1
    /\ UNCHANGED <<reg, store, channels, nextID, calling, removed, tells, announcing, waiting>>

Next ==
    \/ \E p \in Callers, q \in Peers : AskReachable(p, q)
    \/ \E p \in Callers, q \in Peers : OpenSession(p, q)
    \/ \E id \in 1..nextID, p \in Peers : GetSession(id, p)
    \/ \E id \in 1..nextID, p \in Peers, s \in reportableState : ReportSession(id, p, s)
    \/ \E t \in tells : SessionEnded(t)
    \/ \E t \in tells : SessionEndedFails(t)
    \/ \E p \in Reporters : PostPeers(p)
    \/ \E p \in Reporters : DeletePeers(p)
    \/ \E p \in Reporters : PostHeartbeat(p)
    \/ \E p \in Holders : OpenChannel(p)
    \/ \E p \in Holders : CloseChannel(p)
    \/ RefreshPresence
    \/ \E u \in announcing : AnnounceHeartbeat(u)
    \/ \E u \in announcing : AnnounceRegister(u)
    \/ SweepExpire
    \/ \E p \in Peers : SweepClose(p)
    \/ Reap
    \/ Tick

PresenceStep ==
    \E u \in announcing : u.by = Presence /\ (AnnounceHeartbeat(u) \/ AnnounceRegister(u))

ChannelStep(p) ==
    \E u \in announcing :
        u.by = Channel /\ u.peer = p /\ (AnnounceHeartbeat(u) \/ AnnounceRegister(u))

Spec == Init /\ [][Next]_vars

\* The tickers fire for as long as the server runs and a goroutine that has
\* begun goes on: the only call that waits on a peer, the write to its channel,
\* is cut short by the send timeout.  Nothing obliges a peer to do anything.
FairSpec ==
    /\ Spec
    /\ WF_vars(SweepExpire)
    /\ \A p \in Peers : WF_vars(SweepClose(p))
    /\ WF_vars(\E t \in tells : SessionEnded(t) \/ SessionEndedFails(t))
    /\ WF_vars(PresenceStep)
    /\ \A p \in Peers : WF_vars(ChannelStep(p))
    /\ WF_vars(Reap)
    /\ WF_vars(Tick)

-----------------------------------------------------------------------------
(* Properties *)

\* Every session of a peer the sweep removes ends, whatever runs between
\* Expire and ClosePeer: the far side is not left waiting on it (main.go:138-151).
SweptSessionsEnd ==
    \A p \in Peers, id \in 1..MaxOpens :
        (p \in removed /\ id \in sessionsOf(store, p)) ~> (id \notin LiveIDs(store))

\* Whoever held a channel when a session of theirs was closed, by the other
\* side or by the sweep, is told, unless the channel is gone by then
\* (sessions.go:68-74, main.go:145-150, hub.go:281-286).
ClosedIsTold ==
    \A p \in Peers, id \in 1..MaxOpens :
        (<<id, p>> \in waiting /\ id \in Held(store) /\ store.sessions[id].state = Closed)
        ~> (<<id, p>> \notin waiting)

\* At every moment on the way there, a SessionEnded call is under way that has
\* yet to write to whoever was not told of a session that was closed: no step
\* of another goroutine makes the last such call forget one of the two sides.
ToldIsUnderWay ==
    \A w \in waiting :
        w[1] \in Held(store) /\ store.sessions[w[1]].state = Closed =>
            \E t \in tells : t.id = w[1] /\ w[2] \in Range(t.to)

\* A channel that opens leaves its peer in the registry, whether the peer was
\* new, suspect or written off meanwhile, unless the registry is full of peers
\* that are still there (main.go:337-341).
opening(p) == \E u \in announcing : u.by = Channel /\ u.peer = p

ChannelRegisters ==
    [][\A p \in Peers :
          (opening(p) /\ ~opening(p)') =>
             \/ p \in DOMAIN reg'
             \/ Reg!gone(reg', clock) = {} /\ Cardinality(DOMAIN reg') = MaxPeers]_vars

-----------------------------------------------------------------------------
(* What the documentation says and the code does not do *)

\* session-lifecycle R2.6: a peer that leaves the registry ends every session
\* it was in.  So no session of a registered peer goes on for ever without it.
LeavingEndsSessions ==
    \A p \in Peers, id \in 1..MaxOpens :
        []((p \in DOMAIN reg /\ id \in sessionsOf(store, p))
             => []<>(p \in DOMAIN reg \/ id \notin LiveIDs(store)))

=============================================================================
