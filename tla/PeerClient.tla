----------------------------- MODULE PeerClient -----------------------------
(***************************************************************************)
(* The channel of a web/sdk PeerClient: start(), close() and the reconnect *)
(* loops, with the part of the server they talk to.  JavaScript runs one   *)
(* continuation at a time, so an action is what runs between two awaits,   *)
(* and anything may happen while a fetch, a sleep or a socket is awaited.  *)
(* A fetch is handled by the server in a step of its own, so requests of   *)
(* two tasks reach it in any order, and either way of a fetch can be lost. *)
(***************************************************************************)
EXTENDS Integers, FiniteSets

CONSTANTS Sockets,     \* bound: WebSocket objects alive at once
          Loops,       \* bound: reconnect loops alive at once
          NoSocket,
          MaxStarts,   \* bound on the calls of start()
          MaxFaults,   \* bound on what goes wrong
          Overlap      \* whether the application calls start() while a loop of
                       \* the last run is under way, and close() before start()
                       \* has answered

ASSUME PeerClientOptions ==
    /\ NoSocket \notin Sockets /\ {"start", "close"} \cap Loops = {}
    /\ MaxStarts \in Nat /\ MaxFaults \in Nat /\ Overlap \in BOOLEAN

VARIABLES closed,      \* _closed
          token,       \* _token, as the client and the server judge it
          held,        \* _socket
          sock,        \* every WebSocket
          task,        \* start(), close() and the loops, each at its await
          outcome,     \* what start() answered last
          registered,  \* the registry holds the peer
          conn,        \* the connection the hub holds for the peer
          revoked,     \* the server refuses the credential
          starts, faults

client == <<closed, token, held, sock, task, outcome>>
server == <<registered, conn, revoked>>
vars   == <<closed, token, held, sock, task, outcome, registered, conn,
            revoked, starts, faults>>

Tasks == {"start", "close"} \cup Loops

Steps  == {"idle", "auth", "register", "ice", "open", "sleep", "leave", "calls"}
Phases == {"none", "auth", "sent", "handled", "unauthorized", "failed"}

At(step) == [step |-> step, phase |-> "none", retried |-> FALSE, on |-> NoSocket]

Idle == At("idle")

\* none; fresh; past the margin before its expiry; fresh to the client and
\* refused by a server that restarted with another key.
Tokens == {"none", "fresh", "old", "refused"}

TypeOK ==
    /\ closed \in BOOLEAN /\ registered \in BOOLEAN /\ revoked \in BOOLEAN
    /\ token \in Tokens
    /\ held \in Sockets \cup {NoSocket} /\ conn \in Sockets \cup {NoSocket}
    /\ sock \in [Sockets -> {"free", "connecting", "accepted", "open", "dead"}]
    /\ task \in [Tasks -> [step : Steps, phase : Phases, retried : BOOLEAN,
                           on : Sockets \cup {NoSocket}]]
    /\ outcome \in {"none", "running", "ok", "failed"}
    /\ starts \in 0..MaxStarts /\ faults \in 0..MaxFaults
    /\ \A t \in Tasks :
         /\ (task[t].on # NoSocket) = (task[t].step = "open")
         /\ (task[t].phase # "none") = (task[t].step \in {"auth", "register", "ice", "leave"})

Init ==
    /\ closed = FALSE /\ token = "none" /\ held = NoSocket
    /\ sock = [s \in Sockets |-> "free"]
    /\ task = [t \in Tasks |-> Idle]
    /\ outcome = "none"
    /\ registered = FALSE /\ conn = NoSocket /\ revoked = FALSE
    /\ starts = 0 /\ faults = 0

Running(t) == task[t].step # "idle"

AtRest == \A t \in Tasks : ~Running(t)

Awaiting(s) == {t \in Tasks : task[t].step = "open" /\ task[t].on = s}

Fault == faults < MaxFaults /\ faults' = faults + 1

-----------------------------------------------------------------------------
(* What a continuation does before its next await *)

\* _refreshTokenIfNeeded decides whether _request goes through _authenticate.
Ask(step) ==
    [At(step) EXCEPT !.phase = IF token \in {"none", "old"} THEN "auth" ELSE "sent"]

\* The test of the loop in _reconnect.
loopHead(isClosed, socket) ==
    IF ~isClosed /\ socket = NoSocket THEN At("sleep") ELSE Idle

\* A task whose await threw: start() rejects, a loop goes round, and a
\* failed DELETE is swallowed wherever it was asked.
thrown(t, socket) ==
    IF t \in Loops /\ task[t].step # "leave" THEN loopHead(closed, socket) ELSE Idle

answered(t, result) ==
    IF t = "start" THEN result ELSE outcome

\* _openChannel up to the await: the new socket takes the place of whatever
\* was held.
openChannel(t) ==
    \E s \in Sockets :
        /\ sock[s] = "free" /\ conn # s
        /\ sock' = [sock EXCEPT ![s] = "connecting"]
        /\ held' = s
        /\ task' = [task EXCEPT ![t] = [At("open") EXCEPT !.on = s]]

\* The socket is let go and not closed.
Mutant_tearDown(t) ==
    /\ held' = NoSocket
    /\ sock' = sock
    /\ task' = [task EXCEPT ![t] = IF token = "none" THEN Idle ELSE Ask("leave")]

\* _tearDown up to the await of the DELETE.
tearDown(t) ==
    /\ held' = NoSocket
    /\ sock' = IF held = NoSocket THEN sock ELSE [sock EXCEPT ![held] = "dead"]
    /\ task' = [task EXCEPT ![t] = IF token = "none" THEN Idle ELSE Ask("leave")]

-----------------------------------------------------------------------------
(* The application *)

Start ==
    /\ starts < MaxStarts
    /\ ~Running("start") /\ ~Running("close")
    /\ Overlap \/ AtRest
    /\ closed \/ outcome \in {"none", "failed"}
    /\ closed' = FALSE
    /\ task' = [task EXCEPT !["start"] = [At("auth") EXCEPT !.phase = "auth"]]
    /\ outcome' = "running"
    /\ starts' = starts + 1
    /\ UNCHANGED <<token, held, sock, faults, server>>

\* close() awaits the end of every call before it tears the channel down.
Close ==
    /\ ~closed /\ ~Running("close")
    /\ Overlap \/ ~Running("start")
    /\ closed' = TRUE
    /\ task' = [task EXCEPT !["close"] = At("calls")]
    /\ UNCHANGED <<token, held, sock, outcome, starts, faults, server>>

CallsClosed ==
    /\ task["close"].step = "calls"
    /\ tearDown("close")
    /\ UNCHANGED <<closed, token, outcome, starts, faults, server>>

-----------------------------------------------------------------------------
(* _authenticate, for whichever task awaits it *)

Authenticated(t) ==
    /\ task[t].phase = "auth" /\ ~revoked
    /\ token' = "fresh"
    /\ task' = [task EXCEPT ![t].phase = "sent",
                            ![t].step = IF @ = "auth" THEN "register" ELSE @]
    /\ UNCHANGED <<closed, held, sock, outcome, starts, faults, server>>

\* The loop takes a refusal for a failure like any other.
Mutant_Refused(t) ==
    /\ task[t].phase = "auth" /\ revoked
    /\ task' = [task EXCEPT ![t] = thrown(t, held)]
    /\ outcome' = answered(t, "failed")
    /\ UNCHANGED <<closed, token, held, sock, starts, faults, server>>

\* 401 or 400 from /auth: terminal, and a loop closes the client.
Refused(t) ==
    /\ task[t].phase = "auth" /\ revoked
    /\ closed' = (closed \/ (t \in Loops /\ task[t].step # "leave"))
    /\ task' = [task EXCEPT ![t] = Idle]
    /\ outcome' = answered(t, "failed")
    /\ UNCHANGED <<token, held, sock, starts, faults, server>>

\* Any other failure: the network, a key that does not match, too many
\* attempts, a token source that rejects.
AuthFailed(t) ==
    /\ task[t].phase = "auth" /\ Fault
    /\ task' = [task EXCEPT ![t] = thrown(t, held)]
    /\ outcome' = answered(t, "failed")
    /\ UNCHANGED <<closed, token, held, sock, starts, server>>

-----------------------------------------------------------------------------
(* _request *)

\* The server handles POST /peers, GET /ice-config or DELETE /peers.
Handle(t) ==
    /\ task[t].phase = "sent" /\ token # "refused"
    /\ task' = [task EXCEPT ![t].phase = "handled"]
    /\ registered' = (task[t].step = "register" \/ (registered /\ task[t].step # "leave"))
    /\ UNCHANGED <<closed, token, held, sock, outcome, conn, revoked, starts, faults>>

\* The server has another key than the one that signed the token.
Unauthorized(t) ==
    /\ task[t].phase = "sent" /\ token = "refused"
    /\ task' = [task EXCEPT ![t].phase = "unauthorized"]
    /\ UNCHANGED <<closed, token, held, sock, outcome, starts, faults, server>>

\* The server's clock is ahead of the client's.
Drift(t) ==
    /\ task[t].phase = "sent" /\ Fault
    /\ task' = [task EXCEPT ![t].phase = "unauthorized"]
    /\ UNCHANGED <<closed, token, held, sock, outcome, starts, server>>

\* The request or its answer is lost, or the answer is an error.
Lose(t) ==
    /\ task[t].phase \in {"sent", "handled"} /\ Fault
    /\ task' = [task EXCEPT ![t].phase = "failed"]
    /\ UNCHANGED <<closed, token, held, sock, outcome, starts, server>>

\* A 401 is retried once, with a token asked for anew.
Retry(t) ==
    /\ task[t].phase = "unauthorized" /\ ~task[t].retried
    /\ task' = [task EXCEPT ![t].phase = "auth", ![t].retried = TRUE]
    /\ UNCHANGED <<closed, token, held, sock, outcome, starts, faults, server>>

RequestFailed(t) ==
    /\ \/ task[t].phase = "failed"
       \/ task[t].phase = "unauthorized" /\ task[t].retried
    /\ task' = [task EXCEPT ![t] = thrown(t, held)]
    /\ outcome' = answered(t, "failed")
    /\ UNCHANGED <<closed, token, held, sock, starts, faults, server>>

Answered(t) ==
    /\ task[t].phase = "handled"
    /\ \/ /\ task[t].step = "register" /\ t = "start"
          /\ task' = [task EXCEPT ![t] = Ask("ice")]
          /\ UNCHANGED <<held, sock>>
       \/ /\ task[t].step = "ice" \/ (task[t].step = "register" /\ t \in Loops)
          /\ openChannel(t)
       \/ /\ task[t].step = "leave"
          /\ task' = [task EXCEPT ![t] = Idle]
          /\ UNCHANGED <<held, sock>>
    /\ UNCHANGED <<closed, token, outcome, starts, faults, server>>

\* The backoff is over.  _closed is not looked at until the channel is open.
Wake(t) ==
    /\ task[t].step = "sleep"
    /\ task' = [task EXCEPT ![t] = Ask("register")]
    /\ UNCHANGED <<closed, token, held, sock, outcome, starts, faults, server>>

-----------------------------------------------------------------------------
(* The sockets *)

\* The server accepts the channel: the hub replaces the connection it held
\* and closes it, and the peer is put in the registry.
Accept(s) ==
    /\ sock[s] = "connecting" /\ token # "refused"
    /\ sock' = [x \in Sockets |->
                  IF x = s THEN "accepted"
                  ELSE IF x = conn /\ sock[x] \in {"accepted", "open"} THEN "dead"
                  ELSE sock[x]]
    /\ conn' = s
    /\ registered' = TRUE
    /\ UNCHANGED <<closed, token, held, task, outcome, revoked, starts, faults>>

\* A loop that does not look at _closed again.
Mutant_Opened(s) ==
    /\ sock[s] = "accepted"
    /\ sock' = [sock EXCEPT ![s] = "open"]
    /\ \E t \in Awaiting(s) :
         /\ task' = [task EXCEPT ![t] = IF t \in Loops THEN loopHead(closed, held) ELSE Idle]
         /\ outcome' = answered(t, "ok")
    /\ UNCHANGED <<closed, token, held, starts, faults, server>>

\* onopen, and what its task does next.
Opened(s) ==
    /\ sock[s] = "accepted"
    /\ \E t \in Awaiting(s) :
         /\ outcome' = answered(t, "ok")
         /\ IF t \in Loops /\ closed
            THEN \* close() ran meanwhile, and what was reopened is undone
                 /\ held' = NoSocket
                 /\ sock' = [x \in Sockets |->
                               IF x = held THEN "dead" ELSE IF x = s THEN "open" ELSE sock[x]]
                 /\ task' = [task EXCEPT ![t] = Ask("leave")]
            ELSE /\ sock' = [sock EXCEPT ![s] = "open"]
                 /\ task' = [task EXCEPT ![t] =
                               IF t \in Loops THEN loopHead(closed, held) ELSE Idle]
                 /\ UNCHANGED held
    /\ UNCHANGED <<closed, token, starts, faults, server>>

\* The server refuses the channel, with the token.
Refuse(s) ==
    /\ sock[s] = "connecting" /\ token = "refused"
    /\ sock' = [sock EXCEPT ![s] = "dead"]
    /\ UNCHANGED <<closed, token, held, task, outcome, starts, faults, server>>

\* A connection breaks, or is never made.
Break(s) ==
    /\ sock[s] \in {"connecting", "accepted", "open"} /\ Fault
    /\ sock' = [sock EXCEPT ![s] = "dead"]
    /\ UNCHANGED <<closed, token, held, task, outcome, starts, server>>

\* The dead socket stays held.
Mutant_NeverOpened(s) ==
    /\ sock[s] = "dead"
    /\ sock' = [sock EXCEPT ![s] = "free"]
    /\ \E t \in Awaiting(s) :
         /\ task' = [task EXCEPT ![t] = thrown(t, held)]
         /\ outcome' = answered(t, "failed")
    /\ UNCHANGED <<closed, token, held, starts, faults, server>>

\* onclose does not ask whether the socket is the one held, and starts a loop
\* beside the one that onerror woke.
Mutant_NeverOpened_Twice(s) ==
    /\ sock[s] = "dead"
    /\ sock' = [sock EXCEPT ![s] = "free"]
    /\ \E t \in Awaiting(s), socket \in {IF held = s THEN NoSocket ELSE held}, l \in Loops :
         /\ held' = socket
         /\ l # t /\ ~Running(l)
         /\ task' = [task EXCEPT ![t] = thrown(t, socket), ![l] = loopHead(closed, NoSocket)]
         /\ outcome' = answered(t, "failed")
    /\ UNCHANGED <<closed, token, starts, faults, server>>

\* onerror of a socket that never opened, then its onclose, which finds that
\* it is not the one held.
NeverOpened(s) ==
    /\ sock[s] = "dead"
    /\ sock' = [sock EXCEPT ![s] = "free"]
    /\ \E t \in Awaiting(s), socket \in {IF held = s THEN NoSocket ELSE held} :
         /\ held' = socket
         /\ task' = [task EXCEPT ![t] = thrown(t, socket)]
         /\ outcome' = answered(t, "failed")
    /\ UNCHANGED <<closed, token, starts, faults, server>>

\* onclose of a socket that was open: _onChannelClosed.
ChannelClosed(s) ==
    /\ sock[s] = "dead" /\ Awaiting(s) = {}
    /\ sock' = [sock EXCEPT ![s] = "free"]
    /\ held' = IF held = s THEN NoSocket ELSE held
    /\ IF held = s /\ ~closed
       THEN \E l \in Loops : ~Running(l) /\ task' = [task EXCEPT ![l] = At("sleep")]
       ELSE UNCHANGED task
    /\ UNCHANGED <<closed, token, outcome, starts, faults, server>>

-----------------------------------------------------------------------------
(* The server, by itself *)

\* The hub notices that its connection is gone.
Notice ==
    /\ conn # NoSocket /\ sock[conn] \in {"dead", "free"}
    /\ conn' = NoSocket
    /\ UNCHANGED <<client, registered, revoked, starts, faults>>

\* The presence ticker keeps a peer with a channel in the registry, and the
\* sweep removes one without.
Refresh ==
    /\ conn # NoSocket /\ ~registered
    /\ registered' = TRUE
    /\ UNCHANGED <<client, conn, revoked, starts, faults>>

Expire ==
    /\ conn = NoSocket /\ registered
    /\ registered' = FALSE
    /\ UNCHANGED <<client, conn, revoked, starts, faults>>

\* A token comes within the margin of its expiry.
Age ==
    /\ token = "fresh" /\ Fault
    /\ token' = "old"
    /\ UNCHANGED <<closed, held, sock, task, outcome, starts, server>>

\* The server restarts with another signing key, and nothing it remembers.
Restart ==
    /\ Fault
    /\ token' = IF token = "fresh" THEN "refused" ELSE token
    /\ registered' = FALSE /\ conn' = NoSocket
    /\ sock' = [s \in Sockets |->
                  IF sock[s] \in {"accepted", "open"} THEN "dead" ELSE sock[s]]
    /\ UNCHANGED <<closed, held, task, outcome, revoked, starts>>

\* The credential is taken out of the configuration.
Revoke ==
    /\ ~revoked /\ Fault
    /\ revoked' = TRUE
    /\ UNCHANGED <<client, registered, conn, starts>>

-----------------------------------------------------------------------------

ClientStep(t) ==
    \/ Authenticated(t) \/ Refused(t) \/ Retry(t) \/ RequestFailed(t)
    \/ Answered(t) \/ Wake(t)

SocketStep(s) == Opened(s) \/ NeverOpened(s) \/ ChannelClosed(s)

Next ==
    \/ Start \/ Close \/ CallsClosed
    \/ \E t \in Tasks :
          \/ ClientStep(t) \/ AuthFailed(t)
          \/ Handle(t) \/ Unauthorized(t) \/ Drift(t) \/ Lose(t)
    \/ \E s \in Sockets : SocketStep(s) \/ Accept(s) \/ Refuse(s) \/ Break(s)
    \/ Notice \/ Refresh \/ Expire \/ Age \/ Restart \/ Revoke

Spec == Init /\ [][Next]_vars

\* Timers fire, sockets report what became of them, the server answers and
\* goes on ticking; the application and the faults owe nothing.
FairSpec ==
    /\ Spec
    /\ WF_vars(CallsClosed) /\ WF_vars(Notice) /\ WF_vars(Refresh) /\ WF_vars(Expire)
    /\ \A t \in Tasks : WF_vars(ClientStep(t)) /\ WF_vars(Handle(t) \/ Unauthorized(t))
    /\ \A s \in Sockets : WF_vars(SocketStep(s)) /\ WF_vars(Accept(s) \/ Refuse(s))

-----------------------------------------------------------------------------
(* Properties *)

\* A closed client with nothing under way holds no channel, and none of its
\* sockets is open behind its back (client.js:204-213, 428-435).
ClosedHoldsNothing ==
    (closed /\ AtRest) => held = NoSocket /\ \A s \in Sockets : sock[s] # "open"

\* The socket the client holds still has its close event to come, so that a
\* channel that dies is always noticed: a dead one held would stop the loop
\* from opening a live one (client.js:390-395).
HeldWillReport == held # NoSocket => sock[held] # "free"

\* However a socket dies, before or after it opened, at most one loop is
\* reopening the channel (client.js:381, 386-397, 403-417).
OneLoop == \A k, l \in Loops : Running(k) /\ Running(l) => k = l

Serving == held # NoSocket /\ sock[held] = "open" /\ conn = held /\ registered

\* Once start() has answered, a client that is not closed gets its channel back
\* after whatever takes it away, the one the server holds, and its registration
\* with it (R1.4-R1.6).
Reopens == (outcome = "ok" /\ ~closed) ~> (Serving \/ closed)

\* A loop comes to an end, with a channel or because the server refuses the
\* credential: it does not go round for ever (R1.8, client.js:436-443).
LoopsEnd == \A l \in Loops : Running(l) ~> ~Running(l)

\* After close(), whatever was in flight, the server is left with neither a
\* channel nor a registration of the peer (client.js:428-435, 216-228).
GivesUp == closed ~> (~closed \/ (conn = NoSocket /\ ~registered))

=============================================================================
