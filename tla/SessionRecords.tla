--------------------------- MODULE SessionRecords ---------------------------
(***************************************************************************)
(* The values of internal/session: a session record, the store that holds  *)
(* the records with its three indexes, and what each locked helper of      *)
(* session.go does to a store.  There are no variables here: an operation  *)
(* of the store maps a store value (and the time on the clock) to the set  *)
(* of outcomes it may have, so that SessionStore can take it as one atomic *)
(* step under Store.mu and ControlPlane can interleave it with the         *)
(* registry, the sweepers and the channels.                                *)
(*                                                                         *)
(* The only nondeterminism is Go's map iteration order: a loop that ends   *)
(* several sessions appends them to `ended` in any order.                  *)
(***************************************************************************)
EXTENDS Lists

CONSTANTS Peers,               \* peer identifiers, trimmed and not empty
          NegotiationTimeout,  \* Options.NegotiationTimeout
          Retention,           \* Options.Retention
          MaxSessions,         \* Options.MaxSessions, the live ceiling
          MaxSessionsPerPeer,  \* Options.MaxSessionsPerPeer
          RetainedPerLive,     \* retainedPerLive, 4 in the code
          Policy,              \* the Authorizer: pairs <<caller, callee>>
          Paths                \* the values of Path

ASSUME PeersFinite == IsFiniteSet(Peers)
ASSUME SessionOptions ==
    /\ NegotiationTimeout \in Nat \ {0}
    /\ Retention \in Nat
    /\ MaxSessions \in Nat \ {0}
    /\ MaxSessionsPerPeer \in Nat \ {0}
    /\ RetainedPerLive \in Nat \ {0}
    /\ Policy \subseteq Peers \X Peers
ASSUME PathsAssumption == "unknown" \in Paths

Negotiating == "negotiating"
Connected   == "connected"
Failed      == "failed"
Closed      == "closed"
States == {Negotiating, Connected, Failed, Closed}

PathUnknown == "unknown"

ErrNotFound       == "not_found"
ErrNotAllowed     == "not_allowed"
ErrSelf           == "self"
ErrFull           == "full"
ErrTooManyForPeer == "too_many_for_peer"
ErrBadTransition  == "bad_transition"
OK                == "ok"

\* A session identifier is a positive number, handed out in turn; newID draws
\* 128 random bits, and all that matters of them is that no two are equal.
NoID == 0
IDs  == Nat \ {NoID}

Session == [caller : Peers, callee : Peers, state : States, path : Paths,
            openedAt : Nat, changedAt : Nat]

\* AllowAll, the authorizer the server is built with.
AllowAll == Peers \X Peers

-----------------------------------------------------------------------------
(* A record *)

Live(s) == s.state \in {Negotiating, Connected}

Has(s, p) == p = s.caller \/ p = s.callee

\* The key of a pair does not depend on who asked.
Mutant_pairKey(a, b) == {a}
pairKey(a, b) == {a, b}

PairKeys == {pairKey(a, b) : a, b \in Peers}

Mutant_canMove(from, to) == from # to /\ to # Negotiating
canMove(from, to) ==
    \/ from = Negotiating /\ to \in {Connected, Failed, Closed}
    \/ from = Connected   /\ to \in {Failed, Closed}

\* Past its negotiation timeout, whether or not anything has recorded it.
TimedOut(s, now) == s.state = Negotiating /\ now - s.openedAt > NegotiationTimeout

\* What settleLocked writes: the failure is dated when the timeout struck.
settled(s) ==
    [s EXCEPT !.state = Failed, !.changedAt = s.openedAt + NegotiationTimeout]

-----------------------------------------------------------------------------
(* The store: type Store struct.  A row missing from perPeer is the empty  *)
(* set and a key missing from pairs is NoID.                               *)

StoreType(Domain) ==
    [sessions : [Domain -> Session],
     pairs    : [PairKeys -> Nat],
     live     : Int,
     perPeer  : [Peers -> SUBSET IDs],
     ended    : Seq(IDs)]

EmptyStore ==
    [sessions |-> [id \in {} |-> NoID],
     pairs    |-> [k \in PairKeys |-> NoID],
     live     |-> 0,
     perPeer  |-> [p \in Peers |-> {}],
     ended    |-> << >>]

Held(st)    == DOMAIN st.sessions
StoreTyped(st) == Held(st) \subseteq IDs /\ st \in StoreType(Held(st))
LiveIDs(st) == {id \in Held(st) : Live(st.sessions[id])}
keyOf(s)    == pairKey(s.caller, s.callee)

\* The per-peer index once session id of the two peers is live, and once the
\* sessions of recs are not.
trackLocked(perPeer, caller, callee, id) ==
    [p \in Peers |-> IF p \in {caller, callee} THEN perPeer[p] \cup {id} ELSE perPeer[p]]

untrackLocked(perPeer, recs) ==
    [p \in Peers |-> perPeer[p] \ {id \in DOMAIN recs : Has(recs[id], p)}]

\* Several sessions stop being live, in the given order: their records become
\* recs, and endedLocked runs for each.
Mutant_endedLocked(st, recs, order) ==
    LET ids == DOMAIN recs
    IN  [st EXCEPT
           !.sessions = [id \in Held(st) |-> IF id \in ids THEN recs[id] ELSE @[id]],
           !.live     = @ - Cardinality(ids),
           !.perPeer  = [p \in Peers |->
                           @[p] \ {id \in ids : p = recs[id].caller}],
           !.pairs    = [k \in PairKeys |->
                           IF \E id \in ids : keyOf(recs[id]) = k THEN NoID ELSE @[k]],
           !.ended    = @ \o order]
Mutant_endedLocked_NoOrder(st, recs, order) ==
    LET ids == DOMAIN recs
    IN  [st EXCEPT
           !.sessions = [id \in Held(st) |-> IF id \in ids THEN recs[id] ELSE @[id]],
           !.live     = @ - Cardinality(ids),
           !.perPeer  = untrackLocked(@, recs),
           !.pairs    = [k \in PairKeys |->
                           IF \E id \in ids : keyOf(recs[id]) = k THEN NoID ELSE @[k]]]
endedLocked(st, recs, order) ==
    LET ids == DOMAIN recs
    IN  [st EXCEPT
           !.sessions = [id \in Held(st) |-> IF id \in ids THEN recs[id] ELSE @[id]],
           !.live     = @ - Cardinality(ids),
           !.perPeer  = untrackLocked(@, recs),
           !.pairs    = [k \in PairKeys |->
                           IF \E id \in ids : keyOf(recs[id]) = k THEN NoID ELSE @[k]],
           !.ended    = @ \o order]

\* settleLocked over every session of ids that has timed out.
expired(st, ids, now) == {id \in ids \cap Held(st) : TimedOut(st.sessions[id], now)}

settleAll(st, ids, order) ==
    endedLocked(st, [id \in ids |-> settled(st.sessions[id])], order)

\* The same loop with the order left open, as Go's map iteration leaves it.
Mutant_settleEach(st, ids, now) == {st}
settleEach(st, ids, now) ==
    LET stale == expired(st, ids, now)
    IN  {settleAll(st, stale, order) : order \in SetToSeqs(stale)}

settleLocked(st, id, now) ==
    IF TimedOut(st.sessions[id], now) THEN settleAll(st, {id}, <<id>>) ELSE st

\* pairLocked: drop an entry that names no record, settle the one it names.
Mutant_pairLocked(st, key, now) == st
pairLocked(st, key, now) ==
    LET id == st.pairs[key]
    IN  IF id = NoID THEN st
        ELSE IF id \notin Held(st) THEN [st EXCEPT !.pairs[key] = NoID]
        ELSE settleLocked(st, id, now)

\* settlePeerLocked, run only for a peer at its cap; the stores it may leave.
Mutant_atCap(st, p, now) == {st}
atCap(st, p, now) ==
    IF Cardinality(st.perPeer[p]) < MaxSessionsPerPeer
    THEN {st}
    ELSE settleEach([st EXCEPT !.perPeer[p] = @ \cap Held(st)], st.perPeer[p], now)

\* forgetLocked over a set of records.
forgetLocked(st, ids) ==
    [st EXCEPT !.sessions = [id \in Held(st) \ ids |-> @[id]],
               !.pairs    = [k \in PairKeys |-> IF @[k] \in ids THEN NoID ELSE @[k]]]

\* trimLocked pops the least number of ended identifiers that brings the map
\* under its bound, or all of them, and forgets those that are not live.
RetainBound == MaxSessions * RetainedPerLive

Mutant_popped(st, n) ==
    {st.ended[Len(st.ended) + 1 - i] : i \in 1..n} \cap (Held(st) \ LiveIDs(st))
popped(st, n) == {st.ended[i] : i \in 1..n} \cap (Held(st) \ LiveIDs(st))

enough(st, n) ==
    \/ n = Len(st.ended)
    \/ Cardinality(Held(st) \ popped(st, n)) < RetainBound

trimLocked(st) ==
    LET n == CHOOSE n \in 0..Len(st.ended) :
                /\ enough(st, n)
                /\ \A m \in 0..(n - 1) : ~enough(st, m)
    IN  forgetLocked([st EXCEPT !.ended = SubSeq(@, n + 1, Len(@))], popped(st, n))

\* compactEndedLocked: what is no longer held leaves the order list.
compactEndedLocked(st) == [st EXCEPT !.ended = compact(@, Held(st))]

\* The insert at the end of Open.
created(st, id, caller, callee, now) ==
    LET s == [caller |-> caller, callee |-> callee, state |-> Negotiating,
              path |-> PathUnknown, openedAt |-> now, changedAt |-> now]
    IN  [st EXCEPT
           !.sessions = [i \in Held(st) \cup {id} |-> IF i = id THEN s ELSE @[i]],
           !.pairs    = [k \in PairKeys |-> IF k = pairKey(caller, callee) THEN id ELSE @[k]],
           !.live     = @ + 1,
           !.perPeer  = trackLocked(@, caller, callee, id)]

-----------------------------------------------------------------------------
(* The operations.  Each is one critical section of Store.mu and is given  *)
(* as the set of outcomes it may have: the store it leaves, what it        *)
(* answers, and the session it answers with.                               *)

Outcome(st, err, id) == [store |-> st, err |-> err, id |-> id]

\* The end of Open, once the pair has no live session and the store is not
\* full: both peers are held to their cap, caller first, then the oldest
\* ended records make room and the session is created.
Mutant_openNew(st, caller, callee, now, fresh) ==
    {Outcome(created(st, fresh, caller, callee, now), OK, fresh)}
openNew(st, caller, callee, now, fresh) ==
    UNION {
      IF Cardinality(s1.perPeer[caller]) >= MaxSessionsPerPeer
      THEN {Outcome(s1, ErrTooManyForPeer, NoID)}
      ELSE {IF Cardinality(s2.perPeer[callee]) >= MaxSessionsPerPeer
            THEN Outcome(s2, ErrTooManyForPeer, NoID)
            ELSE Outcome(created(trimLocked(s2), fresh, caller, callee, now), OK, fresh)
              : s2 \in atCap(s1, callee, now)}
      : s1 \in atCap(st, caller, now)}

\* Open past the authorizer, under the lock.
openLocked(st, caller, callee, now, fresh) ==
    LET id == st.pairs[pairKey(caller, callee)]
        s1 == pairLocked(st, pairKey(caller, callee), now)
    IN  IF id \in LiveIDs(s1)              THEN {Outcome(s1, OK, id)}
        ELSE IF s1.live >= MaxSessions     THEN {Outcome(s1, ErrFull, NoID)}
        ELSE openNew(s1, caller, callee, now, fresh)

OpenOutcomes(st, caller, callee, now, fresh) ==
    IF caller = callee                     THEN {Outcome(st, ErrSelf, NoID)}
    ELSE IF <<caller, callee>> \notin Policy THEN {Outcome(st, ErrNotAllowed, NoID)}
    ELSE openLocked(st, caller, callee, now, fresh)

Known(st, id, p) == id \in Held(st) /\ Has(st.sessions[id], p)

GetOutcome(st, id, askedBy, now) ==
    IF Known(st, id, askedBy) THEN Outcome(settleLocked(st, id, now), OK, id)
    ELSE Outcome(st, ErrNotFound, NoID)

\* A report that is accepted: the record moves, and is ended if it left the
\* live states.
moved(st, id, state, path, now) ==
    LET s == [st.sessions[id] EXCEPT !.state = state, !.changedAt = now,
                                     !.path = IF state = Connected THEN path ELSE @]
    IN  IF Live(s) THEN [st EXCEPT !.sessions[id] = s]
        ELSE endedLocked(st, [i \in {id} |-> s], <<id>>)

ReportOutcome(st, id, reportedBy, state, path, now) ==
    IF ~Known(st, id, reportedBy) THEN Outcome(st, ErrNotFound, NoID)
    ELSE LET s1 == settleLocked(st, id, now)
         IN  IF canMove(s1.sessions[id].state, state)
             THEN Outcome(moved(s1, id, state, path, now), OK, id)
             ELSE Outcome(s1, ErrBadTransition, NoID)

\* ClosePeer: what timed out fails, what is still live closes.
Mutant_hungUp(st, id, now) == [st.sessions[id] EXCEPT !.state = Closed, !.changedAt = now]
hungUp(st, id, now) ==
    LET s == st.sessions[id]
    IN  IF TimedOut(s, now) THEN settled(s)
        ELSE [s EXCEPT !.state = Closed, !.changedAt = now]

sessionsOf(st, p) == {id \in LiveIDs(st) : Has(st.sessions[id], p)}

ClosePeerOutcomes(st, p, now) ==
    LET ids  == sessionsOf(st, p)
        recs == [id \in ids |-> hungUp(st, id, now)]
    IN  {endedLocked(st, recs, order) : order \in SetToSeqs(ids)}

\* Reap: every timed-out session fails, then what is past its retention is
\* forgotten and the order list is compacted.
Mutant_overdue(st, now) == {id \in Held(st) : now - st.sessions[id].changedAt > Retention}
overdue(st, now) ==
    {id \in Held(st) \ LiveIDs(st) : now - st.sessions[id].changedAt > Retention}

ReapOutcomes(st, now) ==
    {compactEndedLocked(s2) : s2 \in
        {forgetLocked(s1, overdue(s1, now)) : s1 \in settleEach(st, Held(st), now)}}

-----------------------------------------------------------------------------
(* What a store promises, whatever was done to it *)

\* The live count, the per-peer index and the pair index say exactly what the
\* records say (Store.live, Store.perPeer, Store.pairs).
CountExact(st) == st.live = Cardinality(LiveIDs(st))

PerPeerExact(st) == \A p \in Peers : st.perPeer[p] = sessionsOf(st, p)

PairsExact(st) ==
    /\ \A id \in LiveIDs(st) : st.pairs[keyOf(st.sessions[id])] = id
    /\ \A k \in PairKeys : st.pairs[k] # NoID =>
          /\ st.pairs[k] \in LiveIDs(st)
          /\ keyOf(st.sessions[st.pairs[k]]) = k

\* The order list names every ended record the store holds, once, and nothing
\* else (Store.ended).
EndedExact(st) ==
    /\ Range(st.ended) = Held(st) \ LiveIDs(st)
    /\ IsInjective(st.ended)

\* The three ceilings of Open.
Bounded(st) ==
    /\ st.live <= MaxSessions
    /\ \A p \in Peers : Cardinality(st.perPeer[p]) <= MaxSessionsPerPeer
    /\ Cardinality(Held(st)) <= RetainBound

=============================================================================
