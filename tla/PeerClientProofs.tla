-------------------------- MODULE PeerClientProofs --------------------------
(***************************************************************************)
(* Theorems about PeerClient, for any number of sockets, loops, runs and   *)
(* faults, when the application awaits what it called.                     *)
(***************************************************************************)
EXTENDS PeerClient, TLAPS

Records == [step : Steps, phase : Phases, retried : BOOLEAN, on : Sockets \cup {NoSocket}]

\* Where each kind of task can be.
Shape(t, r) ==
    /\ r \in Records
    /\ (r.on # NoSocket) <=> (r.step = "open")
    /\ (r.phase # "none") <=> (r.step \in {"auth", "register", "ice", "leave"})
    /\ t = "start" => r.step \in {"idle", "auth", "register", "ice", "open"}
    /\ t = "close" => r.step \in {"idle", "calls", "leave"}
    /\ t \in Loops => r.step \in {"idle", "sleep", "register", "open", "leave"}

Plain ==
    /\ closed \in BOOLEAN /\ registered \in BOOLEAN /\ revoked \in BOOLEAN
    /\ token \in Tokens
    /\ conn \in Sockets \cup {NoSocket}
    /\ outcome \in {"none", "running", "ok", "failed"}
    /\ starts \in 0..MaxStarts /\ faults \in 0..MaxFaults

Shapes ==
    /\ held \in Sockets \cup {NoSocket}
    /\ sock \in [Sockets -> {"free", "connecting", "accepted", "open", "dead"}]
    /\ DOMAIN task = Tasks /\ task = [t \in Tasks |-> task[t]]
    /\ \A t \in Tasks : Shape(t, task[t])

NoLoop == \A l \in Loops : ~Running(l)

\* Whoever is opening the channel holds no other one.
OpensItsOwn ==
    \A t \in {"start"} \cup Loops : Running(t) => held = NoSocket \/ task[t].on = held

StartsAlone ==
    Running("start") => ~closed /\ outcome = "running" /\ ~Running("close") /\ NoLoop

FailedHoldsNothing == outcome \in {"none", "failed"} => held = NoSocket /\ NoLoop

\* A closed client holds a channel only while close() or a loop has still to
\* look at it.
ClosedLetsGo ==
    closed => \/ held = NoSocket
              \/ task["close"].step = "calls"
              \/ \E l \in Loops : task[l].on = held

OthersAreDead ==
    \A s \in Sockets : sock[s] \in {"connecting", "accepted", "open"} => s = held

Core ==
    /\ OpensItsOwn /\ OneLoop /\ StartsAlone /\ FailedHoldsNothing
    /\ ClosedLetsGo /\ OthersAreDead /\ HeldWillReport

Inv == Plain /\ Shapes /\ Core

-----------------------------------------------------------------------------
(* Shapes of what the continuations leave behind *)

LEMMA KnownTasks ==
  /\ "start" \in Tasks /\ "close" \in Tasks /\ Loops \subseteq Tasks
  /\ "start" \notin Loops /\ "close" \notin Loops
  BY PeerClientOptions DEF Tasks

LEMMA IdleShape ==
  ASSUME NEW t
  PROVE  Shape(t, Idle) /\ Idle.on = NoSocket /\ Idle.step = "idle"
  BY DEF Shape, Idle, At, Records, Steps, Phases

LEMMA AtStep ==
  ASSUME NEW step \in Steps
  PROVE  /\ At(step) = [step |-> step, phase |-> "none", retried |-> FALSE, on |-> NoSocket]
         /\ At(step) \in Records
  <1>1. At(step) = [step |-> step, phase |-> "none", retried |-> FALSE, on |-> NoSocket]
    BY DEF At
  <1>2. [step |-> step, phase |-> "none", retried |-> FALSE, on |-> NoSocket] \in Records
    BY DEF Records, Phases
  <1> QED BY <1>1, <1>2

LEMMA AskStep ==
  ASSUME NEW step \in Steps
  PROVE  /\ Ask(step) \in Records /\ Ask(step).step = step /\ Ask(step).on = NoSocket
         /\ Ask(step).phase # "none"
  BY DEF Ask, At, Records, Phases

LEMMA thrownShape ==
  ASSUME NEW t \in Tasks, NEW socket
  PROVE  /\ Shape(t, thrown(t, socket)) /\ thrown(t, socket).on = NoSocket
         /\ t \notin Loops => thrown(t, socket) = Idle
         /\ closed => thrown(t, socket) = Idle
  <1>1. thrown(t, socket) = Idle \/ (t \in Loops /\ thrown(t, socket) = At("sleep") /\ ~closed)
    BY DEF thrown, loopHead
  <1>2. CASE thrown(t, socket) = Idle
    BY <1>2, IdleShape
  <1>3. CASE t \in Loops /\ thrown(t, socket) = At("sleep") /\ ~closed
    BY <1>3, AtStep, KnownTasks DEF Shape, Steps
  <1> QED BY <1>1, <1>2, <1>3

-----------------------------------------------------------------------------
(* Kinds of steps *)

\* The task of one continuation changes, and nothing of the channel.
LEMMA CoreKept ==
  ASSUME Inv, NEW t \in Tasks, NEW r, Shape(t, r),
         task' = [task EXCEPT ![t] = r], held' = held, sock' = sock,
         r.on = NoSocket, task[t].on = NoSocket, task[t].step \notin {"idle", "calls"},
         \/ closed' = closed
         \/ t \in Loops /\ closed' = TRUE,
         \/ outcome' = outcome
         \/ t = "start" /\ r = Idle /\ outcome' = "failed"
  PROVE  Shapes' /\ Core'
  <1>1. task'[t] = r /\ \A u \in Tasks \ {t} : task'[u] = task[u]
    BY DEF Inv, Shapes
  <1>2. Shapes'
    BY <1>1 DEF Inv, Shapes, Shape
  <1>3. Running(t) /\ \A u \in Tasks : Running(u)' => Running(u)
    BY <1>1 DEF Running
  <1>4. t \in {"start"} \cup Loops => held = NoSocket
    BY <1>3 DEF Inv, Core, OpensItsOwn
  <1>5. OpensItsOwn'
    BY <1>1, <1>3, <1>4, KnownTasks DEF Inv, Core, OpensItsOwn
  <1>6. OneLoop'
    BY <1>3, KnownTasks DEF Inv, Core, OneLoop
  <1>7. t \in Loops => ~Running("start")
    BY <1>3 DEF Inv, Core, StartsAlone, NoLoop
  <1>8. StartsAlone'
    <2> SUFFICES ASSUME Running("start")'
                 PROVE  ~closed' /\ outcome' = "running" /\ ~Running("close")' /\ NoLoop'
      BY DEF StartsAlone
    <2>1. Running("start") /\ t \notin Loops
      BY <1>3, <1>7, KnownTasks
    <2>2. outcome' = outcome
      BY <1>1, IdleShape, KnownTasks DEF Running
    <2>3. NoLoop'
      BY <1>3, <2>1, KnownTasks DEF Inv, Core, StartsAlone, NoLoop
    <2> QED BY <1>3, <2>1, <2>2, <2>3, KnownTasks DEF Inv, Core, StartsAlone
  <1>9. FailedHoldsNothing'
    <2>1. NoLoop => NoLoop'
      BY <1>3, KnownTasks DEF NoLoop
    <2>2. t = "start" => NoLoop
      BY <1>3 DEF Inv, Core, StartsAlone
    <2> QED BY <1>4, <2>1, <2>2 DEF Inv, Core, FailedHoldsNothing
  <1>10. ClosedLetsGo'
    <2>1. CASE t \in Loops /\ closed' = TRUE
      BY <1>4, <2>1 DEF ClosedLetsGo
    <2>2. CASE closed' = closed
      <3>1. task["close"].step = "calls" => task'["close"].step = "calls"
        BY <1>1, KnownTasks
      <3>2. \A l \in Loops : task[l].on # NoSocket => task'[l].on = task[l].on
        BY <1>1, KnownTasks
      <3> QED BY <2>2, <3>1, <3>2 DEF Inv, Core, ClosedLetsGo
    <2> QED BY <2>1, <2>2
  <1>11. OthersAreDead' /\ HeldWillReport'
    BY DEF Inv, Core, OthersAreDead, HeldWillReport
  <1> QED BY <1>2, <1>5, <1>6, <1>8, <1>9, <1>10, <1>11 DEF Core

\* The network and the server move, and the client has not heard of it yet.
LEMMA CoreUnheard ==
  ASSUME Inv, UNCHANGED <<closed, held, task, outcome>>,
         sock' \in [Sockets -> {"free", "connecting", "accepted", "open", "dead"}],
         \A s \in Sockets :
            /\ sock'[s] \in {"connecting", "accepted", "open"} =>
                  sock[s] \in {"connecting", "accepted", "open"}
            /\ sock'[s] = "free" => sock[s] = "free"
  PROVE  Shapes' /\ Core'
  <1>1. closed' = closed /\ held' = held /\ task' = task /\ outcome' = outcome
    OBVIOUS
  <1>2. Shapes'
    BY <1>1 DEF Inv, Shapes, Shape
  <1>3. OpensItsOwn' /\ OneLoop' /\ StartsAlone' /\ FailedHoldsNothing' /\ ClosedLetsGo'
    BY <1>1 DEF Inv, Core, OpensItsOwn, OneLoop, StartsAlone, FailedHoldsNothing,
       ClosedLetsGo, NoLoop, Running
  <1>4. OthersAreDead'
    BY <1>1 DEF Inv, Core, OthersAreDead
  <1>5. HeldWillReport'
    BY <1>1 DEF Inv, Shapes, Core, HeldWillReport
  <1> QED BY <1>2, <1>3, <1>4, <1>5 DEF Core

\* Once nobody holds a channel, only who runs matters.
LEMMA CoreEmpty ==
  ASSUME Inv, Shapes', held' = NoSocket, OneLoop', StartsAlone',
         outcome' \in {"none", "failed"} => NoLoop',
         \A s \in Sockets : sock'[s] \notin {"connecting", "accepted", "open"}
  PROVE  Core'
  BY DEF Core, OpensItsOwn, FailedHoldsNothing, ClosedLetsGo, OthersAreDead, HeldWillReport

-----------------------------------------------------------------------------
(* The actions *)

\* The next phase of a request.
LEMMA NextPhase ==
  ASSUME Inv, NEW t \in Tasks, task[t].phase # "none", NEW x \in Phases \ {"none"}
  PROVE  /\ Shape(t, [task[t] EXCEPT !.phase = x])
         /\ Shape(t, [task[t] EXCEPT !.phase = x, !.retried = TRUE])
         /\ [task[t] EXCEPT !.phase = x].on = NoSocket
         /\ [task[t] EXCEPT !.phase = x, !.retried = TRUE].on = NoSocket
         /\ task[t].on = NoSocket /\ task[t].step \notin {"idle", "calls"}
  <1>1. Shape(t, task[t])
    BY DEF Inv, Shapes
  <1>2. task[t].on = NoSocket /\ task[t].step \notin {"idle", "calls"}
    BY <1>1 DEF Shape
  <1> QED BY <1>1, <1>2 DEF Shape, Records

LEMMA PhaseSteps ==
  ASSUME Inv, NEW t \in Tasks,
         Handle(t) \/ Unauthorized(t) \/ Drift(t) \/ Lose(t) \/ Retry(t)
  PROVE  Shapes' /\ Core'
  <1>1. /\ closed' = closed /\ held' = held /\ sock' = sock /\ outcome' = outcome
        /\ task[t].phase # "none"
    BY DEF Handle, Unauthorized, Drift, Lose, Retry
  <1>2. DOMAIN task = Tasks
    BY DEF Inv, Shapes
  <1>3. \E x \in Phases \ {"none"} :
            \/ task' = [task EXCEPT ![t] = [task[t] EXCEPT !.phase = x]]
            \/ task' = [task EXCEPT ![t] = [task[t] EXCEPT !.phase = x, !.retried = TRUE]]
    <2>1. CASE Handle(t)
      <3>1. task' = [task EXCEPT ![t] = [task[t] EXCEPT !.phase = "handled"]]
        BY <2>1 DEF Handle
      <3> QED BY <3>1 DEF Phases
    <2>2. CASE Unauthorized(t) \/ Drift(t)
      <3>1. task' = [task EXCEPT ![t] = [task[t] EXCEPT !.phase = "unauthorized"]]
        BY <2>2 DEF Unauthorized, Drift
      <3> QED BY <3>1 DEF Phases
    <2>3. CASE Lose(t)
      <3>1. task' = [task EXCEPT ![t] = [task[t] EXCEPT !.phase = "failed"]]
        BY <2>3 DEF Lose
      <3> QED BY <3>1 DEF Phases
    <2>4. CASE Retry(t)
      <3>1. task' = [task EXCEPT ![t] = [task[t] EXCEPT !.phase = "auth", !.retried = TRUE]]
        BY <1>2, <2>4 DEF Retry
      <3> QED BY <3>1 DEF Phases
    <2> QED BY <2>1, <2>2, <2>3, <2>4
  <1>4. PICK x \in Phases \ {"none"} :
            \/ task' = [task EXCEPT ![t] = [task[t] EXCEPT !.phase = x]]
            \/ task' = [task EXCEPT ![t] = [task[t] EXCEPT !.phase = x, !.retried = TRUE]]
    BY <1>3
  <1> DEFINE q == [task[t] EXCEPT !.phase = x]
             r == [task[t] EXCEPT !.phase = x, !.retried = TRUE]
  <1>5. /\ Shape(t, q) /\ Shape(t, r) /\ q.on = NoSocket /\ r.on = NoSocket
        /\ task[t].on = NoSocket /\ task[t].step \notin {"idle", "calls"}
    BY <1>1, NextPhase
  <1>6. task' = [task EXCEPT ![t] = q] \/ task' = [task EXCEPT ![t] = r]
    BY <1>4
  <1> HIDE DEF q, r
  <1> QED BY <1>1, <1>5, <1>6, CoreKept

LEMMA AuthenticatedCore ==
  ASSUME Inv, NEW t \in Tasks, Authenticated(t)
  PROVE  Shapes' /\ Core'
  <1> DEFINE r == [task[t] EXCEPT !.phase = "sent",
                                  !.step = IF @ = "auth" THEN "register" ELSE @]
  <1>1. /\ closed' = closed /\ held' = held /\ sock' = sock /\ outcome' = outcome
        /\ task[t].phase = "auth"
    BY DEF Authenticated
  <1>2. Shape(t, task[t]) /\ DOMAIN task = Tasks
    BY DEF Inv, Shapes
  <1>3. task' = [task EXCEPT ![t] = r]
    BY <1>2 DEF Authenticated
  <1>4. task[t].on = NoSocket /\ task[t].step \notin {"idle", "calls"}
    BY <1>1, <1>2 DEF Shape
  <1>5. /\ r \in Records /\ r.on = NoSocket /\ r.phase = "sent"
        /\ r.step = IF task[t].step = "auth" THEN "register" ELSE task[t].step
    BY <1>2, <1>4 DEF Shape, Records, Steps, Phases
  <1> HIDE DEF r
  <1>6. Shape(t, r)
    BY <1>1, <1>2, <1>5, KnownTasks DEF Shape
  <1> QED BY <1>1, <1>3, <1>4, <1>5, <1>6, CoreKept

LEMMA FailureSteps ==
  ASSUME Inv, NEW t \in Tasks, Refused(t) \/ AuthFailed(t) \/ RequestFailed(t)
  PROVE  Shapes' /\ Core'
  <1>1. held' = held /\ sock' = sock /\ task[t].phase # "none"
    BY DEF Refused, AuthFailed, RequestFailed
  <1>2. task[t].on = NoSocket /\ task[t].step \notin {"idle", "calls"}
    <2>1. Shape(t, task[t])
      BY DEF Inv, Shapes
    <2> QED BY <1>1, <2>1 DEF Shape
  <1>3. outcome' = outcome \/ (t = "start" /\ outcome' = "failed")
    BY DEF Refused, AuthFailed, RequestFailed, answered
  <1>4. CASE Refused(t)
    <2>1. task' = [task EXCEPT ![t] = Idle]
      BY <1>4 DEF Refused
    <2>2. closed' = closed \/ (t \in Loops /\ closed' = TRUE)
      <3>1. closed \in BOOLEAN
        BY DEF Inv, Plain
      <3>2. closed' = (closed \/ (t \in Loops /\ task[t].step # "leave"))
        BY <1>4 DEF Refused
      <3>3. CASE t \in Loops /\ task[t].step # "leave"
        BY <3>2, <3>3, Zenon
      <3>4. CASE ~(t \in Loops /\ task[t].step # "leave")
        BY <3>1, <3>2, <3>4, Zenon
      <3> QED BY <3>3, <3>4
    <2> QED BY <1>1, <1>2, <1>3, <2>1, <2>2, IdleShape, CoreKept
  <1>5. CASE AuthFailed(t) \/ RequestFailed(t)
    <2> DEFINE r == thrown(t, held)
    <2>1. task' = [task EXCEPT ![t] = r] /\ closed' = closed
      BY <1>5 DEF AuthFailed, RequestFailed
    <2>2. Shape(t, r) /\ r.on = NoSocket /\ (t = "start" => r = Idle)
      BY thrownShape, KnownTasks
    <2> HIDE DEF r
    <2> QED BY <1>1, <1>2, <1>3, <2>1, <2>2, CoreKept
  <1> QED BY <1>4, <1>5

LEMMA WakeCore ==
  ASSUME Inv, NEW t \in Tasks, Wake(t)
  PROVE  Shapes' /\ Core'
  <1> DEFINE r == Ask("register")
  <1>1. Shape(t, task[t]) /\ task[t].step = "sleep"
    BY DEF Inv, Shapes, Wake
  <1>2. t \in Loops /\ task[t].on = NoSocket
    BY <1>1, KnownTasks DEF Shape, Tasks
  <1>3. r \in Records /\ r.step = "register" /\ r.on = NoSocket /\ r.phase # "none"
    BY AskStep DEF Steps
  <1>4. task' = [task EXCEPT ![t] = r] /\ closed' = closed /\ held' = held
        /\ sock' = sock /\ outcome' = outcome
    BY DEF Wake
  <1> HIDE DEF r
  <1>5. Shape(t, r)
    BY <1>2, <1>3, KnownTasks DEF Shape
  <1> QED BY <1>1, <1>2, <1>3, <1>4, <1>5, CoreKept

LEMMA openChannelCore ==
  ASSUME Inv, NEW t \in {"start"} \cup Loops, openChannel(t),
         task[t].step \in {"register", "ice"}, closed' = closed, outcome' = outcome
  PROVE  Shapes' /\ Core'
  <1>1. t \in Tasks /\ t # "close"
    BY KnownTasks
  <1>2. PICK s \in Sockets :
          /\ sock[s] = "free"
          /\ sock' = [sock EXCEPT ![s] = "connecting"]
          /\ held' = s
          /\ task' = [task EXCEPT ![t] = [At("open") EXCEPT !.on = s]]
    BY DEF openChannel
  <1> DEFINE r == [At("open") EXCEPT !.on = s]
  <1>3. task' = [task EXCEPT ![t] = r]
    BY <1>2
  <1>4. r \in Records
    BY DEF At, Records, Steps, Phases
  <1>5. r.step = "open" /\ r.on = s /\ r.phase = "none"
    BY DEF At
  <1>6. s # NoSocket
    BY PeerClientOptions
  <1> HIDE DEF r
  <1>7. Shape(t, r)
    BY <1>1, <1>4, <1>5, <1>6 DEF Shape
  <1>8. task'[t] = r /\ \A u \in Tasks \ {t} : task'[u] = task[u]
    BY <1>1, <1>3 DEF Inv, Shapes
  <1>9. Shapes'
    <2>1. \A u \in Tasks : Shape(u, task[u])'
      BY <1>7, <1>8 DEF Inv, Shapes, Shape
    <2>2. sock' \in [Sockets -> {"free", "connecting", "accepted", "open", "dead"}]
      BY <1>2 DEF Inv, Shapes
    <2>3. DOMAIN task' = Tasks /\ task' = [u \in Tasks |-> task'[u]]
      BY <1>3 DEF Inv, Shapes
    <2> QED BY <1>2, <2>1, <2>2, <2>3 DEF Shapes
  <1>10. Running(t) /\ \A u \in Tasks : Running(u)' <=> Running(u)
    BY <1>5, <1>8 DEF Running
  <1>11. task[t].on = NoSocket /\ held = NoSocket
    <2>1. Shape(t, task[t])
      BY <1>1 DEF Inv, Shapes
    <2>2. task[t].on = NoSocket
      BY <2>1 DEF Shape
    <2> QED BY <1>10, <2>2 DEF Inv, Core, OpensItsOwn
  <1>12. \A u \in {"start"} \cup Loops : Running(u) => u = t
    BY <1>10 DEF Inv, Core, OneLoop, StartsAlone, NoLoop
  <1>13. OpensItsOwn'
    BY <1>2, <1>5, <1>8, <1>10, <1>12, KnownTasks DEF OpensItsOwn
  <1>14. OneLoop'
    BY <1>10, KnownTasks DEF Inv, Core, OneLoop
  <1>15. StartsAlone'
    BY <1>10, KnownTasks DEF Inv, Core, StartsAlone, NoLoop
  <1>16. FailedHoldsNothing'
    <2>1. CASE t = "start"
      BY <1>10, <2>1 DEF Inv, Core, StartsAlone, FailedHoldsNothing
    <2>2. CASE t \in Loops
      BY <1>10, <2>2 DEF Inv, Core, FailedHoldsNothing, NoLoop
    <2> QED BY <2>1, <2>2
  <1>17. ClosedLetsGo'
    <2>1. CASE t = "start"
      BY <1>10, <2>1 DEF Inv, Core, StartsAlone, ClosedLetsGo
    <2>2. CASE t \in Loops
      BY <1>2, <1>5, <1>8, <2>2 DEF ClosedLetsGo
    <2> QED BY <2>1, <2>2
  <1>18. OthersAreDead'
    <2>1. \A x \in Sockets : sock[x] \notin {"connecting", "accepted", "open"}
      BY <1>11, PeerClientOptions DEF Inv, Core, OthersAreDead
    <2> QED BY <1>2, <2>1 DEF OthersAreDead, Inv, Shapes
  <1>19. HeldWillReport'
    BY <1>2 DEF HeldWillReport, Inv, Shapes
  <1> QED BY <1>9, <1>13, <1>14, <1>15, <1>16, <1>17, <1>18, <1>19 DEF Core

LEMMA AnsweredCore ==
  ASSUME Inv, NEW t \in Tasks, Answered(t)
  PROVE  Shapes' /\ Core'
  <1>1. Shape(t, task[t]) /\ task[t].phase = "handled" /\ closed' = closed /\ outcome' = outcome
    BY DEF Inv, Shapes, Answered
  <1>2. task[t].on = NoSocket /\ task[t].step \notin {"idle", "calls"}
    BY <1>1 DEF Shape
  <1>3. ASSUME task[t].step = "register", t = "start", task' = [task EXCEPT ![t] = Ask("ice")],
               UNCHANGED <<held, sock>>
        PROVE  Shapes' /\ Core'
    <2> DEFINE r == Ask("ice")
    <2>1. r \in Records /\ r.step = "ice" /\ r.on = NoSocket /\ r.phase # "none"
      BY AskStep DEF Steps
    <2>2. task' = [task EXCEPT ![t] = r] /\ held' = held /\ sock' = sock
      BY <1>3
    <2> HIDE DEF r
    <2>3. Shape(t, r)
      BY <1>3, <2>1, KnownTasks DEF Shape
    <2> QED BY <1>1, <1>2, <2>1, <2>2, <2>3, CoreKept
  <1>4. ASSUME task[t].step = "ice" \/ (task[t].step = "register" /\ t \in Loops), openChannel(t)
        PROVE  Shapes' /\ Core'
    <2>1. t \in {"start"} \cup Loops
      BY <1>1, <1>4 DEF Shape, Tasks
    <2> QED BY <1>1, <1>4, <2>1, openChannelCore
  <1>5. ASSUME task' = [task EXCEPT ![t] = Idle], UNCHANGED <<held, sock>>
        PROVE  Shapes' /\ Core'
    BY <1>1, <1>2, <1>5, IdleShape, CoreKept
  <1> QED BY <1>3, <1>4, <1>5 DEF Answered

LEMMA StartCore ==
  ASSUME Inv, Overlap = FALSE, Start
  PROVE  Shapes' /\ Core'
  <1> DEFINE r == [At("auth") EXCEPT !.phase = "auth"]
  <1>1. /\ AtRest /\ closed' = FALSE /\ outcome' = "running" /\ held' = held /\ sock' = sock
        /\ closed \/ outcome \in {"none", "failed"}
    BY DEF Start
  <1>2. task' = [task EXCEPT !["start"] = r]
    BY DEF Start
  <1>3. Shape("start", r) /\ r.on = NoSocket /\ r.step = "auth"
    <2>1. r \in Records /\ r.on = NoSocket /\ r.step = "auth" /\ r.phase = "auth"
      BY DEF At, Records, Steps, Phases
    <2> HIDE DEF r
    <2> QED BY <2>1, KnownTasks DEF Shape
  <1> HIDE DEF r
  <1>4. task'["start"] = r /\ \A u \in Tasks \ {"start"} : task'[u] = task[u]
    BY <1>2, KnownTasks DEF Inv, Shapes
  <1>5. \A u \in Tasks : task[u].step = "idle" /\ task[u].on = NoSocket
    BY <1>1 DEF AtRest, Running, Inv, Shapes, Shape
  <1>6. held = NoSocket
    <2>1. CASE outcome \in {"none", "failed"}
      BY <2>1 DEF Inv, Core, FailedHoldsNothing
    <2>2. CASE closed
      <3>1. task["close"].step # "calls" /\ \A l \in Loops : task[l].on = NoSocket
        BY <1>5, KnownTasks
      <3> QED BY <2>2, <3>1 DEF Inv, Core, ClosedLetsGo
    <2> QED BY <1>1, <2>1, <2>2
  <1>7. Shapes'
    BY <1>1, <1>2, <1>3, <1>4 DEF Inv, Shapes, Shape
  <1>8. \A u \in Tasks \ {"start"} : ~Running(u)'
    BY <1>4, <1>5 DEF Running
  <1>9. NoLoop' /\ ~Running("close")'
    BY <1>8, KnownTasks DEF NoLoop
  <1>10. OneLoop' /\ StartsAlone'
    BY <1>1, <1>9 DEF OneLoop, StartsAlone, NoLoop
  <1>11. \A s \in Sockets : sock'[s] \notin {"connecting", "accepted", "open"}
    BY <1>1, <1>6, PeerClientOptions DEF Inv, Core, OthersAreDead
  <1> QED BY <1>1, <1>6, <1>7, <1>9, <1>10, <1>11, CoreEmpty

LEMMA CloseCore ==
  ASSUME Inv, Overlap = FALSE, Close
  PROVE  Shapes' /\ Core'
  <1> DEFINE r == At("calls")
  <1>1. /\ ~Running("start") /\ closed' = TRUE /\ held' = held /\ sock' = sock
        /\ outcome' = outcome /\ task' = [task EXCEPT !["close"] = r]
    BY DEF Close
  <1>2. Shape("close", r) /\ r.step = "calls"
    BY AtStep, KnownTasks DEF Shape, Steps
  <1> HIDE DEF r
  <1>3. task'["close"] = r /\ \A u \in Tasks \ {"close"} : task'[u] = task[u]
    BY <1>1, KnownTasks DEF Inv, Shapes
  <1>4. Shapes'
    BY <1>1, <1>2, <1>3 DEF Inv, Shapes, Shape
  <1>5. \A u \in {"start"} \cup Loops : Running(u)' = Running(u) /\ task'[u] = task[u]
    BY <1>3, KnownTasks DEF Running
  <1>6. OpensItsOwn' /\ OneLoop' /\ StartsAlone' /\ FailedHoldsNothing'
    BY <1>1, <1>5 DEF Inv, Core, OpensItsOwn, OneLoop, StartsAlone, FailedHoldsNothing, NoLoop
  <1>7. ClosedLetsGo' /\ OthersAreDead' /\ HeldWillReport'
    BY <1>1, <1>2, <1>3 DEF Inv, Core, ClosedLetsGo, OthersAreDead, HeldWillReport
  <1> QED BY <1>4, <1>6, <1>7 DEF Core

LEMMA CallsClosedCore ==
  ASSUME Inv, CallsClosed
  PROVE  Shapes' /\ Core'
  <1> DEFINE r == IF token = "none" THEN Idle ELSE Ask("leave")
  <1>1. /\ task["close"].step = "calls" /\ closed' = closed /\ outcome' = outcome
        /\ held' = NoSocket /\ task' = [task EXCEPT !["close"] = r]
        /\ sock' = IF held = NoSocket THEN sock ELSE [sock EXCEPT ![held] = "dead"]
    BY DEF CallsClosed, tearDown
  <1>2. Shape("close", r)
    <2>1. Shape("close", Idle)
      BY IdleShape
    <2>2. Shape("close", Ask("leave"))
      BY AskStep, KnownTasks DEF Shape, Steps
    <2> QED BY <2>1, <2>2
  <1> HIDE DEF r
  <1>3. task'["close"] = r /\ \A u \in Tasks \ {"close"} : task'[u] = task[u]
    BY <1>1, KnownTasks DEF Inv, Shapes
  <1>4. Shapes'
    BY <1>1, <1>2, <1>3 DEF Inv, Shapes, Shape
  <1>5. Running("close")
    BY <1>1 DEF Running
  <1>6. \A u \in {"start"} \cup Loops : Running(u)' = Running(u)
    BY <1>3, KnownTasks DEF Running
  <1>7. OneLoop' /\ StartsAlone' /\ (NoLoop => NoLoop')
    BY <1>1, <1>5, <1>6 DEF Inv, Core, OneLoop, StartsAlone, NoLoop
  <1>8. \A s \in Sockets : sock'[s] \notin {"connecting", "accepted", "open"}
    BY <1>1, PeerClientOptions DEF Inv, Shapes, Core, OthersAreDead
  <1>9. outcome' \in {"none", "failed"} => NoLoop'
    BY <1>1, <1>7 DEF Inv, Core, FailedHoldsNothing
  <1> QED BY <1>1, <1>4, <1>7, <1>8, <1>9, CoreEmpty

\* Only start() and the loops await a socket.
LEMMA AwaitingOpener ==
  ASSUME Inv, NEW s \in Sockets, NEW t \in Awaiting(s)
  PROVE  t \in {"start"} \cup Loops /\ t \in Tasks /\ task[t].on = s /\ Running(t)
  <1>1. t \in Tasks /\ task[t].step = "open" /\ task[t].on = s /\ Shape(t, task[t])
    BY DEF Awaiting, Inv, Shapes
  <1> QED BY <1>1 DEF Shape, Tasks, Running

LEMMA OpenedCore ==
  ASSUME Inv, NEW s \in Sockets, Opened(s)
  PROVE  Shapes' /\ Core'
  <1>1. sock[s] = "accepted" /\ closed' = closed /\ held = s /\ s # NoSocket
    BY PeerClientOptions DEF Opened, Inv, Core, OthersAreDead
  <1>2. PICK t \in Awaiting(s) :
          /\ outcome' = answered(t, "ok")
          /\ IF t \in Loops /\ closed
             THEN /\ held' = NoSocket
                  /\ sock' = [x \in Sockets |->
                               IF x = held THEN "dead" ELSE IF x = s THEN "open" ELSE sock[x]]
                  /\ task' = [task EXCEPT ![t] = Ask("leave")]
             ELSE /\ sock' = [sock EXCEPT ![s] = "open"]
                  /\ task' = [task EXCEPT ![t] =
                               IF t \in Loops THEN loopHead(closed, held) ELSE Idle]
                  /\ held' = held
    BY DEF Opened
  <1>3. t \in {"start"} \cup Loops /\ t \in Tasks /\ task[t].on = s /\ Running(t)
    BY AwaitingOpener
  <1>4. \A u \in {"start"} \cup Loops : Running(u) => u = t
    BY <1>3 DEF Inv, Core, OneLoop, StartsAlone, NoLoop
  <1>5. outcome' \in {"none", "failed"} => outcome' = outcome /\ t \in Loops
    BY <1>2, <1>3 DEF answered
  <1>6. outcome' \notin {"none", "failed"}
    BY <1>1, <1>5 DEF Inv, Core, FailedHoldsNothing
  <1>7. CASE t \in Loops /\ closed
    <2> DEFINE r == Ask("leave")
    <2>1. held' = NoSocket /\ task' = [task EXCEPT ![t] = r]
      BY <1>2, <1>7
    <2>2. sock' = [sock EXCEPT ![s] = "dead"]
      <3>1. sock' = [x \in Sockets |-> IF x = s THEN "dead" ELSE sock[x]]
        BY <1>1, <1>2, <1>7
      <3> QED BY <3>1 DEF Inv, Shapes
    <2>3. r \in Records /\ r.step = "leave" /\ r.on = NoSocket /\ r.phase # "none"
      BY AskStep DEF Steps
    <2> HIDE DEF r
    <2>4. Shape(t, r)
      BY <1>7, <2>3, KnownTasks DEF Shape
    <2>5. task'[t] = r /\ \A u \in Tasks \ {t} : task'[u] = task[u]
      BY <1>3, <2>1 DEF Inv, Shapes
    <2>6. Shapes'
      BY <2>1, <2>2, <2>4, <2>5 DEF Inv, Shapes, Shape
    <2>7. \A u \in Tasks : Running(u)' => Running(u)
      BY <1>3, <2>5 DEF Running
    <2>8. OneLoop'
      BY <2>7, KnownTasks DEF Inv, Core, OneLoop
    <2>9. StartsAlone'
      BY <1>4, <1>7, <2>7, KnownTasks DEF StartsAlone
    <2>10. \A x \in Sockets : sock'[x] \notin {"connecting", "accepted", "open"}
      BY <1>1, <2>2 DEF Inv, Shapes, Core, OthersAreDead
    <2> QED BY <1>6, <2>1, <2>6, <2>8, <2>9, <2>10, CoreEmpty
  <1>8. CASE ~(t \in Loops /\ closed)
    <2>1. /\ sock' = [sock EXCEPT ![s] = "open"] /\ held' = held
          /\ task' = [task EXCEPT ![t] = Idle]
      BY <1>1, <1>2, <1>8 DEF loopHead
    <2>2. ~closed
      BY <1>3, <1>8 DEF Inv, Core, StartsAlone
    <2>3. task'[t] = Idle /\ \A u \in Tasks \ {t} : task'[u] = task[u]
      BY <1>3, <2>1 DEF Inv, Shapes
    <2>4. Shapes'
      BY <2>1, <2>3, IdleShape DEF Inv, Shapes, Shape
    <2>5. \A u \in {"start"} \cup Loops : ~Running(u)'
      BY <1>4, <2>3, IdleShape, KnownTasks DEF Running
    <2>6. OpensItsOwn' /\ OneLoop' /\ StartsAlone' /\ FailedHoldsNothing'
      BY <1>6, <2>5 DEF OpensItsOwn, OneLoop, StartsAlone, FailedHoldsNothing
    <2>7. ClosedLetsGo' /\ OthersAreDead' /\ HeldWillReport'
      BY <1>1, <2>1, <2>2 DEF Inv, Shapes, Core, ClosedLetsGo, OthersAreDead, HeldWillReport
    <2> QED BY <2>4, <2>6, <2>7 DEF Core
  <1> QED BY <1>7, <1>8

LEMMA NeverOpenedCore ==
  ASSUME Inv, NEW s \in Sockets, NeverOpened(s)
  PROVE  Shapes' /\ Core'
  <1>1. sock[s] = "dead" /\ sock' = [sock EXCEPT ![s] = "free"] /\ closed' = closed
    BY DEF NeverOpened
  <1>2. PICK t \in Awaiting(s) :
          /\ held' = IF held = s THEN NoSocket ELSE held
          /\ task' = [task EXCEPT ![t] = thrown(t, held')]
          /\ outcome' = answered(t, "failed")
    BY DEF NeverOpened
  <1>3. t \in {"start"} \cup Loops /\ t \in Tasks /\ task[t].on = s /\ Running(t)
    BY AwaitingOpener
  <1>4. held' = NoSocket
    BY <1>2, <1>3 DEF Inv, Core, OpensItsOwn
  <1> DEFINE r == thrown(t, NoSocket)
  <1>5. Shape(t, r) /\ r.on = NoSocket /\ (t = "start" => r = Idle)
    BY <1>3, thrownShape, KnownTasks
  <1>6. task' = [task EXCEPT ![t] = r]
    BY <1>2, <1>4
  <1> HIDE DEF r
  <1>7. task'[t] = r /\ \A u \in Tasks \ {t} : task'[u] = task[u]
    BY <1>3, <1>6 DEF Inv, Shapes
  <1>8. Shapes'
    BY <1>1, <1>4, <1>5, <1>6, <1>7 DEF Inv, Shapes, Shape
  <1>9. \A u \in Tasks : Running(u)' => Running(u)
    BY <1>3, <1>7 DEF Running
  <1>10. OneLoop'
    BY <1>9, KnownTasks DEF Inv, Core, OneLoop
  <1>11. ~Running("start")'
    <2>1. CASE t = "start"
      BY <1>5, <1>7, <2>1, IdleShape DEF Running
    <2>2. CASE t \in Loops
      BY <1>3, <1>9, <2>2, KnownTasks DEF Inv, Core, StartsAlone, NoLoop
    <2> QED BY <1>3, <2>1, <2>2
  <1>12. StartsAlone'
    BY <1>11 DEF StartsAlone
  <1>13. \A x \in Sockets : sock'[x] \notin {"connecting", "accepted", "open"}
    <2>1. held = NoSocket \/ held = s
      BY <1>3 DEF Inv, Core, OpensItsOwn
    <2> QED BY <1>1, <2>1, PeerClientOptions DEF Inv, Shapes, Core, OthersAreDead
  <1>14. outcome' \in {"none", "failed"} => NoLoop'
    <2>1. NoLoop => NoLoop'
      BY <1>9, KnownTasks DEF NoLoop
    <2>2. CASE t = "start"
      BY <1>3, <2>1, <2>2 DEF Inv, Core, StartsAlone
    <2>3. CASE t # "start"
      BY <1>2, <2>1, <2>3 DEF answered, Inv, Core, FailedHoldsNothing
    <2> QED BY <2>2, <2>3
  <1> QED BY <1>4, <1>8, <1>10, <1>12, <1>13, <1>14, CoreEmpty

LEMMA ChannelClosedCore ==
  ASSUME Inv, NEW s \in Sockets, ChannelClosed(s)
  PROVE  Shapes' /\ Core'
  <1>1. /\ sock[s] = "dead" /\ Awaiting(s) = {} /\ sock' = [sock EXCEPT ![s] = "free"]
        /\ held' = IF held = s THEN NoSocket ELSE held
        /\ closed' = closed /\ outcome' = outcome
    BY DEF ChannelClosed
  <1>2. sock' \in [Sockets -> {"free", "connecting", "accepted", "open", "dead"}]
    BY <1>1 DEF Inv, Shapes
  <1>3. CASE held # s
    <2>1. task' = task /\ held' = held
      BY <1>1, <1>3 DEF ChannelClosed
    <2>2. Shapes'
      BY <1>2, <2>1 DEF Inv, Shapes, Shape
    <2>3. OpensItsOwn' /\ OneLoop' /\ StartsAlone' /\ FailedHoldsNothing' /\ ClosedLetsGo'
      BY <1>1, <2>1 DEF Inv, Core, OpensItsOwn, OneLoop, StartsAlone, FailedHoldsNothing,
         ClosedLetsGo, NoLoop, Running
    <2>4. OthersAreDead' /\ HeldWillReport'
      BY <1>1, <1>3, <2>1 DEF Inv, Shapes, Core, OthersAreDead, HeldWillReport
    <2> QED BY <2>2, <2>3, <2>4 DEF Core
  <1>4. CASE held = s
    <2>1. held' = NoSocket /\ s # NoSocket
      BY <1>1, <1>4, PeerClientOptions
    <2>2. \A x \in Sockets : sock'[x] \notin {"connecting", "accepted", "open"}
      BY <1>1, <1>4 DEF Inv, Shapes, Core, OthersAreDead
    <2>3. \A u \in {"start"} \cup Loops : ~Running(u)
      <3> SUFFICES ASSUME NEW u \in {"start"} \cup Loops, Running(u) PROVE FALSE
        OBVIOUS
      <3>1. u \in Tasks /\ task[u].on = s
        BY <1>4, <2>1, KnownTasks DEF Inv, Core, OpensItsOwn
      <3>2. task[u].step = "open"
        BY <2>1, <3>1 DEF Inv, Shapes, Shape
      <3> QED BY <1>1, <3>1, <3>2 DEF Awaiting
    <2>4. outcome' \notin {"none", "failed"}
      BY <1>1, <1>4, <2>1 DEF Inv, Core, FailedHoldsNothing
    <2>5. CASE closed
      <3>1. task' = task
        BY <2>5 DEF ChannelClosed
      <3>2. Shapes'
        BY <1>2, <2>1, <3>1 DEF Inv, Shapes, Shape
      <3>3. OneLoop' /\ StartsAlone'
        BY <2>3, <3>1 DEF OneLoop, StartsAlone, Running
      <3> QED BY <2>1, <2>2, <2>4, <3>2, <3>3, CoreEmpty
    <2>6. CASE ~closed
      <3>1. PICK l \in Loops : task' = [task EXCEPT ![l] = At("sleep")]
        BY <1>4, <2>6 DEF ChannelClosed
      <3> DEFINE r == At("sleep")
      <3>2. Shape(l, r)
        BY AtStep, KnownTasks DEF Shape, Steps
      <3>3. task' = [task EXCEPT ![l] = r]
        BY <3>1
      <3> HIDE DEF r
      <3>4. task'[l] = r /\ \A u \in Tasks \ {l} : task'[u] = task[u]
        BY <3>3, KnownTasks DEF Inv, Shapes
      <3>5. Shapes'
        BY <1>2, <2>1, <3>2, <3>3, <3>4 DEF Inv, Shapes, Shape
      <3>6. \A u \in {"start"} \cup Loops : Running(u)' => u = l
        BY <2>3, <3>4, KnownTasks DEF Running
      <3>7. OneLoop' /\ StartsAlone'
        BY <3>6, KnownTasks DEF OneLoop, StartsAlone
      <3> QED BY <2>1, <2>2, <2>4, <3>5, <3>7, CoreEmpty
    <2> QED BY <2>5, <2>6
  <1> QED BY <1>3, <1>4

\* The server and the network.
LEMMA UnheardCore ==
  ASSUME Inv,
         \/ \E s \in Sockets : Accept(s) \/ Refuse(s) \/ Break(s)
         \/ Notice \/ Refresh \/ Expire \/ Age \/ Restart \/ Revoke
  PROVE  Shapes' /\ Core'
  <1>1. UNCHANGED <<closed, held, task, outcome>>
    BY DEF Accept, Refuse, Break, Notice, Refresh, Expire, Age, Restart, Revoke, client
  <1>2. sock \in [Sockets -> {"free", "connecting", "accepted", "open", "dead"}]
    BY DEF Inv, Shapes
  <1>3. /\ sock' \in [Sockets -> {"free", "connecting", "accepted", "open", "dead"}]
        /\ \A s \in Sockets :
              /\ sock'[s] \in {"connecting", "accepted", "open"} =>
                    sock[s] \in {"connecting", "accepted", "open"}
              /\ sock'[s] = "free" => sock[s] = "free"
    <2>1. ASSUME NEW s \in Sockets, Accept(s)
          PROVE  sock' = [x \in Sockets |->
                            IF x = s THEN "accepted"
                            ELSE IF x = conn /\ sock[x] \in {"accepted", "open"} THEN "dead"
                            ELSE sock[x]]
                 /\ sock[s] = "connecting"
      BY <2>1 DEF Accept
    <2>2. CASE \E s \in Sockets : Accept(s)
      BY <1>2, <2>1, <2>2
    <2>3. CASE \E s \in Sockets : sock' = [sock EXCEPT ![s] = "dead"]
      BY <1>2, <2>3
    <2>4. CASE sock' = sock
      BY <1>2, <2>4
    <2>5. CASE Restart
      BY <1>2, <2>5 DEF Restart
    <2> QED BY <2>2, <2>3, <2>4, <2>5
            DEF Refuse, Break, Notice, Refresh, Expire, Age, Revoke, client
  <1> QED BY <1>1, <1>3, CoreUnheard

LEMMA StepCore ==
  ASSUME Inv, Overlap = FALSE, Next
  PROVE  Shapes' /\ Core'
  <1>1. ASSUME NEW t \in Tasks,
               \/ ClientStep(t) \/ AuthFailed(t)
               \/ Handle(t) \/ Unauthorized(t) \/ Drift(t) \/ Lose(t)
        PROVE  Shapes' /\ Core'
    BY <1>1, PhaseSteps, AuthenticatedCore, FailureSteps, WakeCore, AnsweredCore DEF ClientStep
  <1>2. ASSUME NEW s \in Sockets, SocketStep(s)
        PROVE  Shapes' /\ Core'
    BY <1>2, OpenedCore, NeverOpenedCore, ChannelClosedCore DEF SocketStep
  <1> QED BY <1>1, <1>2, StartCore, CloseCore, CallsClosedCore, UnheardCore DEF Next

LEMMA StepPlain ==
  ASSUME Inv, Next
  PROVE  Plain'
  <1> USE DEF Next, ClientStep, SocketStep, Start, Close, CallsClosed, Authenticated, Refused,
          Retry, RequestFailed, Answered, Wake, AuthFailed, Handle, Unauthorized, Drift, Lose,
          Opened, NeverOpened, ChannelClosed, Accept, Refuse, Break, Notice, Refresh, Expire,
          Age, Restart, Revoke, Fault, client, server
  <1>1. token' \in Tokens
    BY ZenonT(60) DEF Inv, Plain, Tokens
  <1>2. conn' \in Sockets \cup {NoSocket}
    BY DEF Inv, Plain
  <1>3. outcome' \in {"none", "running", "ok", "failed"}
    BY ZenonT(60) DEF Inv, Plain, answered
  <1>4. starts' \in 0..MaxStarts /\ faults' \in 0..MaxFaults
    <2>1. starts' = starts \/ (starts < MaxStarts /\ starts' = starts + 1)
      OBVIOUS
    <2>2. faults' = faults \/ (faults < MaxFaults /\ faults' = faults + 1)
      OBVIOUS
    <2> QED BY ONLY <2>1, <2>2, Inv, PeerClientOptions DEF Inv, Plain
  <1>5. closed' \in BOOLEAN /\ revoked' \in BOOLEAN /\ registered' \in BOOLEAN
    BY ZenonT(60) DEF Inv, Plain
  <1> QED BY <1>1, <1>2, <1>3, <1>4, <1>5 DEF Plain

LEMMA InitInv == Init => Inv
  <1> SUFFICES ASSUME Init PROVE Inv
    OBVIOUS
  <1>1. Plain
    <2>1. starts \in 0..MaxStarts /\ faults \in 0..MaxFaults
      BY PeerClientOptions DEF Init
    <2> QED BY <2>1, Zenon DEF Init, Plain, Tokens
  <1>2. Shapes
    BY IdleShape DEF Init, Shapes
  <1>3. \A t \in Tasks : ~Running(t)
    BY IdleShape DEF Init, Running
  <1>4. Core
    BY <1>3, KnownTasks DEF Init, Core, OpensItsOwn, OneLoop, StartsAlone,
       FailedHoldsNothing, NoLoop, ClosedLetsGo, OthersAreDead, HeldWillReport
  <1> QED BY <1>1, <1>2, <1>4 DEF Inv

LEMMA StutterInv ==
  ASSUME Inv, UNCHANGED vars
  PROVE  Inv'
  <1>1. UNCHANGED <<closed, held, task, outcome>> /\ sock' = sock
    BY DEF vars
  <1>2. sock \in [Sockets -> {"free", "connecting", "accepted", "open", "dead"}]
    BY DEF Inv, Shapes
  <1>3. Shapes' /\ Core'
    BY <1>1, <1>2, CoreUnheard
  <1>4. Plain'
    BY Zenon DEF vars, Inv, Plain
  <1> QED BY <1>3, <1>4 DEF Inv

LEMMA AlwaysInv ==
  ASSUME Overlap = FALSE
  PROVE  Spec => []Inv
  <1>1. Inv /\ [Next]_vars => Inv'
    BY StepCore, StepPlain, StutterInv DEF Inv
  <1> QED BY <1>1, InitInv, PTL DEF Spec

-----------------------------------------------------------------------------
(* Theorems *)

\* Every continuation of the client is at one of its awaits, and a task awaits
\* a socket exactly while it opens one.
THEOREM TypeCorrect ==
  ASSUME Overlap = FALSE
  PROVE  Spec => []TypeOK
  <1>1. Inv => TypeOK
    <2> SUFFICES ASSUME Inv PROVE TypeOK
      OBVIOUS
    <2>1. \A t \in Tasks :
             /\ task[t] \in Records
             /\ (task[t].on # NoSocket) = (task[t].step = "open")
             /\ (task[t].phase # "none")
                   = (task[t].step \in {"auth", "register", "ice", "leave"})
      BY DEF Inv, Shapes, Shape
    <2>2. task \in [Tasks -> Records]
      BY <2>1 DEF Inv, Shapes
    <2> QED BY <2>1, <2>2, Zenon DEF Inv, Plain, Shapes, TypeOK, Records
  <1> QED BY <1>1, AlwaysInv, PTL

\* However a socket dies and whatever is lost, the socket that is held still
\* has its close event to come (client.js:390-395).
THEOREM HeldCorrect ==
  ASSUME Overlap = FALSE
  PROVE  Spec => []HeldWillReport
  <1>1. Inv => HeldWillReport
    BY DEF Inv, Core
  <1> QED BY <1>1, AlwaysInv, PTL

\* At most one loop reopens the channel (client.js:381, 386-397, 403-417).
THEOREM OneLoopCorrect ==
  ASSUME Overlap = FALSE
  PROVE  Spec => []OneLoop
  <1>1. Inv => OneLoop
    BY DEF Inv, Core
  <1> QED BY <1>1, AlwaysInv, PTL

\* A closed client with nothing under way has let go of every socket
\* (client.js:204-213, 428-435).
THEOREM ClosedCorrect ==
  ASSUME Overlap = FALSE
  PROVE  Spec => []ClosedHoldsNothing
  <1>1. Inv => ClosedHoldsNothing
    <2> SUFFICES ASSUME Inv, closed, AtRest
                 PROVE  held = NoSocket /\ \A s \in Sockets : sock[s] # "open"
      BY DEF ClosedHoldsNothing
    <2>1. \A t \in Tasks : task[t].step = "idle" /\ task[t].on = NoSocket
      BY DEF AtRest, Running, Inv, Shapes, Shape
    <2>2. task["close"].step # "calls" /\ \A l \in Loops : task[l].on = NoSocket
      BY <2>1, KnownTasks
    <2>3. held = NoSocket
      BY <2>2 DEF Inv, Core, ClosedLetsGo
    <2> QED BY <2>3, PeerClientOptions DEF Inv, Core, OthersAreDead
  <1> QED BY <1>1, AlwaysInv, PTL

=============================================================================
