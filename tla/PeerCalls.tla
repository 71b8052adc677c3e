------------------------------ MODULE PeerCalls -----------------------------
(***************************************************************************)
(* The calls of two web/sdk PeerClients, with what carries them: the       *)
(* sessions of the store as the routes answer them, the hub's routing, the *)
(* channels and the peer connections.  An action of a client is what runs  *)
(* between two awaits; a task is an async function suspended at its await. *)
(* Frames of a channel keep their order, requests do not, and neither      *)
(* keeps its place among the other.                                        *)
(*                                                                         *)
(* The peer connection is external: what is left of it is how far its      *)
(* negotiation got.  Candidates, tracks and error frames change nothing    *)
(* that is read here and are left out, a failed call and a closed one have *)
(* both ended, and so have the sessions.                                   *)
(***************************************************************************)
EXTENDS Integers, Sequences, FiniteSets

CONSTANTS Peers,      \* the two peers
          Callers,    \* those of them whose application calls
          Leavers,    \* those of them whose application closes the client
          MaxCalls,   \* bound on the uses of call()
          MaxSessions,\* bound on the sessions the server opens
          MaxFaults   \* bound on the channels lost and the requests that fail

ASSUME PeerCallsOptions ==
    /\ Cardinality(Peers) = 2 /\ Callers \subseteq Peers /\ Leavers \subseteq Peers
    /\ MaxCalls \in Nat /\ MaxSessions \in Nat /\ MaxFaults \in Nat

VARIABLES session,   \* the state of every session at the server, by identifier
          silent,    \* history: the sessions that ended by their timeout
          made,      \* every Call object a client has made, in order
          calls,     \* _calls: session identifier -> Call object, or 0
          tasks,     \* the async functions under way
          up,        \* the client holds a channel
          inbox,     \* frames on their way to the client
          closing,   \* close(): where it is and the calls it still has to end
          dialled, drops, lost

vars == <<session, silent, made, calls, tasks, up, inbox, closing,
          dialled, drops, lost>>

server  == <<session, silent>>
objects == <<made, calls>>
wires   == <<up, inbox>>
counts  == <<dialled, drops, lost>>

SessionIDs == 1..MaxSessions

Live(s) == s \in DOMAIN session /\ session[s] \in {"negotiating", "connected"}

Other(p) == CHOOSE q \in Peers : q # p

Frame(type, s, n) == [type |-> type, session |-> s, n |-> n]

\* ref is a Call object, or the session of a call() that has no object yet; n
\* tells the uses of call() apart, through the offers they make.
Task(kind, p, ref, n) == [kind |-> kind, peer |-> p, ref |-> ref, n |-> n]

Init ==
    /\ session = << >> /\ silent = {}
    /\ made = [p \in Peers |-> << >>]
    /\ calls = [p \in Peers |-> [s \in SessionIDs |-> 0]]
    /\ tasks = {}
    /\ up = [p \in Peers |-> TRUE]
    /\ inbox = [p \in Peers |-> << >>]
    /\ closing = [p \in Peers |-> [stage |-> "no", on |-> 0, todo |-> {}]]
    /\ dialled = 0 /\ drops = 0 /\ lost = 0

-----------------------------------------------------------------------------
(* Pieces of the client *)

Open(p) == {i \in DOMAIN made[p] : ~made[p][i].shut}

\* _send and Hub.Route: a frame reaches the other peer's channel if there is
\* one and the session is live when the hub comes to it.  It may not be: the
\* sender's own report can overtake the frame, and the hub refuses what is
\* over the allowance.
carried(p, frame) ==
    {inbox} \cup {[inbox EXCEPT ![q] = Append(@, frame)] :
                     q \in {Other(p)} \cap {x \in Peers : up[x] /\ up[p] /\ Live(frame.session)}}

\* late is history: the session had ended before call() had its answer.
NewCall(s, isCaller) ==
    [session |-> s, state |-> "connecting", shut |-> FALSE, link |-> "new",
     late |-> isCaller /\ ~Live(s)]

\* _callFor: the call the session has, or a new one, for the task to go on with.
Mutant_callFor(p, s, isCaller, kind, n, rest) ==
    /\ made' = [made EXCEPT ![p] = Append(@, NewCall(s, isCaller))]
    /\ calls' = [calls EXCEPT ![p][s] = Len(made[p]) + 1]
    /\ tasks' = rest \cup {Task(kind, p, Len(made[p]) + 1, n)}

callFor(p, s, isCaller, kind, n, rest) ==
    IF calls[p][s] # 0
    THEN tasks' = rest \cup {Task(kind, p, calls[p][s], n)} /\ UNCHANGED objects
    ELSE /\ made' = [made EXCEPT ![p] = Append(@, NewCall(s, isCaller))]
         /\ calls' = [calls EXCEPT ![p][s] = Len(made[p]) + 1]
         /\ tasks' = rest \cup {Task(kind, p, Len(made[p]) + 1, n)}

canMove(from, to) ==
    \/ from = "negotiating" /\ to \in {"connected", "ended"}
    \/ from = "connected" /\ to = "ended"

\* _reportState: a request under way, kept while the session can still be moved
\* by it.  Later it is refused, whenever it arrives, and nobody looks at that.
reports(p, some, to) ==
    {Task(to, p, i, 0) : i \in {x \in some : canMove(session[made[p][x].session], to)}}

\* A client without a channel tells nobody.
Mutant_closeCalls(p, some, tellServer, rest) ==
    LET going == some \cap Open(p)
    IN  /\ made' = [made EXCEPT ![p] = [i \in DOMAIN @ |->
                      IF i \in going
                      THEN [@[i] EXCEPT !.shut = TRUE, !.link = "closed", !.state = "ended"]
                      ELSE @[i]]]
        /\ calls' = [calls EXCEPT ![p] = [s \in SessionIDs |->
                       IF \E i \in going : made[p][i].session = s THEN 0 ELSE @[s]]]
        /\ tasks' = rest \cup
             (IF tellServer /\ up[p] THEN reports(p, going, "ended") ELSE {})

\* _closeCall up to its await, for those of the calls that are not closed yet.
closeCalls(p, some, tellServer, rest) ==
    LET going == some \cap Open(p)
    IN  /\ made' = [made EXCEPT ![p] = [i \in DOMAIN @ |->
                      IF i \in going
                      THEN [@[i] EXCEPT !.shut = TRUE, !.link = "closed", !.state = "ended"]
                      ELSE @[i]]]
        /\ calls' = [calls EXCEPT ![p] = [s \in SessionIDs |->
                       IF \E i \in going : made[p][i].session = s THEN 0 ELSE @[s]]]
        /\ tasks' = rest \cup
             (IF tellServer THEN reports(p, going, "ended") ELSE {})

\* With the bye that precedes it when the far side is to be told.
closeCall(p, i, rest) ==
    /\ closeCalls(p, {i}, TRUE, rest)
    /\ inbox' \in IF i \in Open(p) THEN carried(p, Frame("bye", made[p][i].session, 0))
                                    ELSE {inbox}

-----------------------------------------------------------------------------
(* call() *)

\* POST /sessions, as the server handles it: the pair's live session, or one
\* more.  An application waits for one call() before it makes another.
Call(p) ==
    /\ dialled < MaxCalls
    /\ \A t \in tasks : t.peer = p => t.kind \notin {"dialled", "offering"}
    /\ dialled' = dialled + 1
    /\ IF \E s \in DOMAIN session : Live(s)
       THEN /\ \E s \in DOMAIN session :
                  Live(s) /\ tasks' = tasks \cup {Task("dialled", p, s, dialled + 1)}
            /\ UNCHANGED session
       ELSE /\ Len(session) < MaxSessions
            /\ session' = Append(session, "negotiating")
            /\ tasks' = tasks \cup {Task("dialled", p, Len(session) + 1, dialled + 1)}
    /\ UNCHANGED <<silent, objects, wires, closing, drops, lost>>

\* Its answer arrives.
Dialled(t) ==
    /\ t.kind = "dialled"
    /\ callFor(t.peer, t.ref, TRUE, "offering", t.n, tasks \ {t})
    /\ UNCHANGED <<server, wires, closing, counts>>

\* createOffer and setLocalDescription; both reject on a closed connection.
OfferMade(t) ==
    /\ t.kind = "offering" /\ t.ref \in Open(t.peer)
    /\ made' = [made EXCEPT ![t.peer][t.ref].link = IF @ = "connected" THEN @ ELSE "offered"]
    /\ inbox' \in carried(t.peer, Frame("offer", made[t.peer][t.ref].session, t.n))
    /\ tasks' = tasks \ {t}
    /\ UNCHANGED <<server, calls, up, closing, counts>>

\* setRemoteDescription, createAnswer and setLocalDescription.
AnswerMade(t) ==
    /\ t.kind = "answering" /\ t.ref \in Open(t.peer)
    /\ made' = [made EXCEPT ![t.peer][t.ref].link = IF @ = "connected" THEN @ ELSE "stable"]
    /\ inbox' \in carried(t.peer, Frame("answer", made[t.peer][t.ref].session, 0))
    /\ tasks' = tasks \ {t}
    /\ UNCHANGED <<server, calls, up, closing, counts>>

NegotiationFails(t) ==
    /\ t.kind \in {"offering", "answering"}
    /\ closeCall(t.peer, t.ref, tasks \ {t})
    /\ UNCHANGED <<server, up, closing, counts>>

-----------------------------------------------------------------------------
(* _onMessage *)

Received(p, type) == inbox[p] # << >> /\ Head(inbox[p]).type \in type

Taken(p) == inbox' = [inbox EXCEPT ![p] = Tail(@)]

OnOffer(p) ==
    /\ Received(p, {"offer"}) /\ Taken(p)
    /\ callFor(p, Head(inbox[p]).session, FALSE, "answering", Head(inbox[p]).n, tasks)
    /\ UNCHANGED <<server, up, closing, counts>>

\* An answer to nothing that was offered is an error event, and no more.
OnAnswer(p) ==
    /\ Received(p, {"answer"}) /\ Taken(p)
    /\ LET i == calls[p][Head(inbox[p]).session]
       IN  made' = IF i # 0 /\ made[p][i].link = "offered"
                   THEN [made EXCEPT ![p][i].link = "stable"] ELSE made
    /\ UNCHANGED <<server, calls, tasks, up, closing, counts>>

\* A bye or the server's word that the session ended: nobody is told.
OnEnded(p) ==
    /\ Received(p, {"bye", "session"}) /\ Taken(p)
    /\ closeCalls(p, {calls[p][Head(inbox[p]).session]}, FALSE, tasks)
    /\ UNCHANGED <<server, up, closing, counts>>

-----------------------------------------------------------------------------
(* _onConnectionState *)

\* The peer connections of the two sides found each other.
Connects(p, i) ==
    /\ i \in Open(p) /\ made[p][i].link = "stable"
    /\ \E j \in Open(Other(p)) :
          /\ made[Other(p)][j].session = made[p][i].session
          /\ made[Other(p)][j].link \in {"stable", "connected"}
    /\ made' = [made EXCEPT ![p][i].link = "connected"]
    /\ tasks' = tasks \cup {Task("path", p, i, 0)}
    /\ UNCHANGED <<server, calls, wires, closing, counts>>

\* The path was read: the call moves, and the server is told.
PathRead(t) ==
    /\ t.kind = "path"
    /\ made' = [made EXCEPT ![t.peer][t.ref].state = "connected"]
    /\ tasks' = (tasks \ {t}) \cup reports(t.peer, {t.ref}, "connected")
    /\ UNCHANGED <<server, calls, wires, closing, counts>>

ConnectionFails(p, i) ==
    /\ i \in Open(p) /\ made[p][i].link \in {"stable", "connected"}
    /\ closeCall(p, i, tasks)
    /\ UNCHANGED <<server, up, closing, counts>>

-----------------------------------------------------------------------------
(* Call.close() and PeerClient.close() *)

HangUp(p, i) ==
    /\ i \in Open(p)
    /\ closeCall(p, i, tasks)
    /\ UNCHANGED <<server, up, closing, counts>>

\* The next call that close() has still to end, or the channel when there is
\* none.  The frames sent before go out first.
closeNext(p, todo) ==
    LET left == todo \cap Open(p)
    IN  IF left = {}
        THEN /\ up' = [up EXCEPT ![p] = FALSE] /\ inbox' = [inbox EXCEPT ![p] = << >>]
             /\ closing' = [closing EXCEPT ![p] = [stage |-> "done", on |-> 0, todo |-> {}]]
             /\ UNCHANGED <<objects, tasks>>
        ELSE \E i \in left :
             /\ \A j \in left : i <= j
             /\ closeCall(p, i, tasks)
             /\ closing' = [closing EXCEPT ![p] =
                              [stage |-> "calls", on |-> i, todo |-> left \ {i}]]
             /\ UNCHANGED up

Close(p) ==
    /\ closing[p].stage = "no"
    /\ closeNext(p, Open(p))
    /\ UNCHANGED <<server, counts>>

\* The report of the call it ended is answered or lost.
CloseGoesOn(p) ==
    /\ closing[p].stage = "calls"
    /\ Task("ended", p, closing[p].on, 0) \notin tasks
    /\ closeNext(p, closing[p].todo)
    /\ UNCHANGED <<server, counts>>

-----------------------------------------------------------------------------
(* The channel *)

\* _onChannelClosed: calls that are still connecting cannot go on.
ChannelDrops(p) ==
    /\ up[p] /\ drops + lost < MaxFaults
    /\ drops' = drops + 1
    /\ up' = [up EXCEPT ![p] = FALSE]
    /\ inbox' = [inbox EXCEPT ![p] = << >>]
    /\ closeCalls(p, {i \in Open(p) : made[p][i].state = "connecting"}, TRUE, tasks)
    /\ UNCHANGED <<server, closing, dialled, lost>>

\* _reconnect, which close() stops.
Reopens(p) ==
    /\ ~up[p] /\ closing[p].stage = "no"
    /\ up' = [up EXCEPT ![p] = TRUE]
    /\ UNCHANGED <<server, objects, tasks, inbox, closing, counts>>

-----------------------------------------------------------------------------
(* The server *)

sessionOf(t) == made[t.peer][t.ref].session

\* The session is in another state, and the reports that cannot move it from
\* there are done with.
move(s, to) ==
    /\ session' = [session EXCEPT ![s] = to]
    /\ tasks' = {t \in tasks : t.kind \in {"connected", "ended"} =>
                                  sessionOf(t) # s \/ canMove(to, t.kind)}

\* Only those are told that hold a call of the session.
Mutant_SessionEnded(s) ==
    inbox' = [p \in Peers |-> IF up[p] /\ calls[p][s] # 0
                               THEN Append(inbox[p], Frame("session", s, 0)) ELSE inbox[p]]

\* Hub.SessionEnded: both peers are told, if they hold a channel.
SessionEnded(s) ==
    inbox' = [p \in Peers |-> IF up[p] THEN Append(inbox[p], Frame("session", s, 0))
                                        ELSE inbox[p]]

\* POST /sessions/{id}/state.
ServeReport(t) ==
    /\ t.kind \in {"connected", "ended"}
    /\ move(sessionOf(t), t.kind)
    /\ IF t.kind = "ended" THEN SessionEnded(sessionOf(t)) ELSE UNCHANGED inbox
    /\ UNCHANGED <<silent, objects, up, closing, counts>>

\* A request that fails: call() rejects, and a report is not made again.
LoseRequest(t) ==
    /\ t.kind \in {"dialled", "connected", "ended"}
    /\ drops + lost < MaxFaults
    /\ lost' = lost + 1
    /\ tasks' = tasks \ {t}
    /\ UNCHANGED <<server, objects, wires, closing, dialled, drops>>

\* The negotiation timeout, which nobody is told of.
TimesOut(s) ==
    /\ session[s] = "negotiating"
    /\ move(s, "ended")
    /\ silent' = silent \cup {s}
    /\ UNCHANGED <<objects, wires, closing, counts>>

\* The sweep closes the sessions of a peer that fell silent.
SweepCloses(s) ==
    /\ Live(s)
    /\ move(s, "ended") /\ SessionEnded(s)
    /\ UNCHANGED <<silent, objects, up, closing, counts>>

-----------------------------------------------------------------------------

ClientStep(p) ==
    \/ OnOffer(p) \/ OnAnswer(p) \/ OnEnded(p) \/ CloseGoesOn(p)
    \/ \E t \in tasks : t.peer = p /\ (Dialled(t) \/ OfferMade(t) \/ AnswerMade(t)
                                        \/ NegotiationFails(t) \/ PathRead(t))

ServerStep ==
    \E t \in tasks : ServeReport(t)

Next ==
    \/ \E p \in Callers : Call(p)
    \/ \E p \in Leavers : Close(p)
    \/ \E p \in Peers :
          \/ ClientStep(p) \/ ChannelDrops(p) \/ Reopens(p)
          \/ \E i \in DOMAIN made[p] : Connects(p, i) \/ ConnectionFails(p, i) \/ HangUp(p, i)
    \/ ServerStep
    \/ \E t \in tasks : LoseRequest(t)
    \/ \E s \in DOMAIN session : TimesOut(s) \/ SweepCloses(s)

Spec == Init /\ [][Next]_vars

-----------------------------------------------------------------------------
(* Properties *)

\* The map of a client names exactly the calls that are not closed, each under
\* its own session, whatever ran while an offer was being answered or a report
\* awaited: nothing that ends a call twice takes the session's next one with
\* it, and no call is left that neither a frame nor close() can reach
\* (client.js:522-531, 612-615).
HeldIsOpen ==
    \A p \in Peers :
        /\ \A i \in Open(p) : calls[p][made[p][i].session] = i
        /\ \A s \in SessionIDs :
              calls[p][s] # 0 => calls[p][s] \in Open(p) /\ made[p][calls[p][s]].session = s

\* As long as a session is live although one side has closed its call of it,
\* the report that ends it is under way, from the side that closed it first:
\* whether the call was hung up, failed, lost its channel or was closed by the
\* other side's bye, the session is not left open (R2.4, R2.6).  A report that
\* is lost is not made again.
EndIsUnderWay ==
    \A s \in SessionIDs, p \in Peers :
        (Live(s) /\ lost = 0 /\ \E i \in DOMAIN made[p] \ Open(p) : made[p][i].session = s)
            => \E t \in tasks : t.kind = "ended" /\ sessionOf(t) = s

\* Once a session has ended, a call of it that a client still holds has the
\* frame that closes it on its way, whatever else the channel carries before
\* it: an offer that arrives after the end makes no call that stays.  That is
\* so with the channel up throughout, for an end that is told, and unless
\* call() had its answer after the end (R2.6; client.js:522-526).
EndIsHeard ==
    \A s \in SessionIDs, p \in Peers :
        (/\ s \in DOMAIN session /\ ~Live(s) /\ s \notin silent /\ drops = 0 /\ up[p]
         /\ calls[p][s] # 0 /\ ~made[p][calls[p][s]].late)
            => \E k \in DOMAIN inbox[p] :
                  inbox[p][k].session = s /\ inbox[p][k].type \in {"bye", "session"}

\* A call that was closed stays closed to the application (client.js:614-633,
\* web-sdk requirements R3.1).
ShutIsEnded ==
    \A p \in Peers : \A i \in DOMAIN made[p] :
        made[p][i].shut => made[p][i].state = "ended"

=============================================================================
