--------------------------- MODULE PeerCallsProofs --------------------------
(***************************************************************************)
(* The calls of two clients: their maps, the reports that end a session    *)
(* and the frames that close a call, for any number of sessions, uses of   *)
(* call() and faults.                                                      *)
(***************************************************************************)
EXTENDS PeerCalls, FiniteSetTheorems, SequenceTheorems, TLAPS

-----------------------------------------------------------------------------
(* The invariant *)

CallObjects ==
    [session : SessionIDs, state : {"connecting", "connected", "ended"}, shut : BOOLEAN,
     link : {"new", "offered", "stable", "connected", "closed"}, late : BOOLEAN]

Frames == [type : {"offer", "answer", "bye", "session"}, session : SessionIDs, n : Nat]

Tasks ==
    [kind : {"dialled", "offering", "answering", "path", "connected", "ended"},
     peer : Peers, ref : Nat, n : Nat]

Closing == [stage : {"no", "calls", "done"}, on : Nat, todo : SUBSET Nat]

\* What call(), a task or a frame refers to exists.
Refers(t) ==
    IF t.kind = "dialled" THEN t.ref \in DOMAIN session ELSE t.ref \in DOMAIN made[t.peer]

ServerOK ==
    /\ session \in Seq({"negotiating", "connected", "ended"}) /\ Len(session) <= MaxSessions
    /\ dialled \in Nat /\ drops \in Nat /\ lost \in Nat

ObjectsOK ==
    /\ made \in [Peers -> Seq(CallObjects)]
    /\ \A p \in Peers : \A i \in DOMAIN made[p] : made[p][i].session \in DOMAIN session
    /\ calls \in [Peers -> [SessionIDs -> Nat]]

TasksOK == tasks \subseteq Tasks /\ \A t \in tasks : Refers(t)

WiresOK ==
    /\ up \in [Peers -> BOOLEAN]
    /\ inbox \in [Peers -> Seq(Frames)]
    /\ \A p \in Peers : \A k \in DOMAIN inbox[p] : inbox[p][k].session \in DOMAIN session
    /\ closing \in [Peers -> Closing]

\* A report under way can still move its session: one that cannot is done with.
ReportsAhead ==
    \A t \in tasks :
        t.kind \in {"connected", "ended"} => canMove(session[sessionOf(t)], t.kind)

Ends(f, s) == f.session = s /\ f.type \in {"bye", "session"}

\* The frame that ends the calls of s is in the queue.
Heard(q, s) == \E k \in DOMAIN q : Ends(q[k], s)

\* An offer of s never comes out of the queue last.
Ordered(q, s) ==
    \A k \in DOMAIN q : q[k].type = "offer" /\ q[k].session = s =>
        \E m \in DOMAIN q : m > k /\ Ends(q[m], s)

EndDue(s) == \E t \in tasks : t.kind = "ended" /\ sessionOf(t) = s

Due(s) == Live(s) /\ lost = 0 => EndDue(s)

\* One side has closed its call of a session, or will on a frame under way.
ClosedIsDue ==
    \A p \in Peers :
        /\ \A i \in DOMAIN made[p], s \in DOMAIN session :
              made[p][i].shut /\ made[p][i].session = s => Due(s)
        /\ \A s \in DOMAIN session : Heard(inbox[p], s) => Due(s)

\* The end of s was told to p on the channel it has had all along.
Told(p, s) ==
    s \in DOMAIN session /\ ~Live(s) /\ s \notin silent /\ drops = 0 /\ up[p]

HeldIsHeard ==
    \A p \in Peers, s \in SessionIDs :
        Told(p, s) /\ calls[p][s] # 0 /\ ~made[p][calls[p][s]].late => Heard(inbox[p], s)

OfferThenEnd == \A p \in Peers, s \in SessionIDs : Told(p, s) => Ordered(inbox[p], s)

\* Only a dropped channel is opened again.
UpUnlessDropped == \A p \in Peers : drops = 0 /\ closing[p].stage = "no" => up[p]

Shape == ServerOK /\ ObjectsOK /\ TasksOK /\ WiresOK

Inv ==
    /\ Shape /\ HeldIsOpen /\ ReportsAhead /\ ClosedIsDue
    /\ HeldIsHeard /\ OfferThenEnd /\ UpUnlessDropped

-----------------------------------------------------------------------------
(* Queues of frames *)

LEMMA QueueAppend ==
  ASSUME NEW q \in Seq(Frames), NEW f \in Frames, NEW s
  PROVE  /\ Append(q, f) \in Seq(Frames)
         /\ \A k \in DOMAIN Append(q, f) :
               (k \in DOMAIN q /\ Append(q, f)[k] = q[k]) \/ Append(q, f)[k] = f
         /\ Heard(Append(q, f), s) <=> Heard(q, s) \/ Ends(f, s)
         /\ f.session # s /\ Ordered(q, s) => Ordered(Append(q, f), s)
         /\ Ends(f, s) => Ordered(Append(q, f), s)
  <1> DEFINE u == Append(q, f)
             n == Len(q)
  <1>1. /\ n \in Nat /\ DOMAIN q = 1..n /\ u \in Seq(Frames) /\ DOMAIN u = 1..(n + 1)
        /\ u[n + 1] = f /\ \A k \in 1..n : u[k] = q[k]
    OBVIOUS
  <1>2. \A k \in 1..(n + 1) : k \in 1..n \/ k = n + 1
    <2> HIDE DEF n
    <2> QED BY <1>1
  <1> HIDE DEF u, n
  <1>3. \A k \in DOMAIN u : (k \in DOMAIN q /\ u[k] = q[k]) \/ u[k] = f
    BY <1>1, <1>2
  <1>4. Heard(u, s) <=> Heard(q, s) \/ Ends(f, s)
    <2>1. \A k \in 1..n : k \in 1..(n + 1)
      BY <1>1
    <2>2. n + 1 \in 1..(n + 1)
      BY <1>1
    <2> QED BY <1>1, <1>2, <2>1, <2>2 DEF Heard
  <1>5. ASSUME f.session # s, Ordered(q, s) PROVE Ordered(u, s)
    <2> SUFFICES ASSUME NEW k \in 1..(n + 1), u[k].type = "offer", u[k].session = s
                 PROVE  \E m \in 1..(n + 1) : m > k /\ Ends(u[m], s)
      BY <1>1 DEF Ordered
    <2>1. k \in 1..n /\ u[k] = q[k]
      BY <1>1, <1>2, <1>5
    <2>2. PICK m \in 1..n : m > k /\ Ends(q[m], s)
      BY <1>1, <1>5, <2>1 DEF Ordered
    <2> QED BY <1>1, <2>2
  <1>6. ASSUME Ends(f, s) PROVE Ordered(u, s)
    <2> SUFFICES ASSUME NEW k \in 1..(n + 1), u[k].type = "offer"
                 PROVE  \E m \in 1..(n + 1) : m > k /\ Ends(u[m], s)
      BY <1>1 DEF Ordered
    <2>1. k # n + 1
      BY <1>1, <1>6 DEF Ends
    <2>2. n + 1 > k /\ n + 1 \in 1..(n + 1)
      BY <1>1, <2>1
    <2> QED BY <1>1, <1>6, <2>2
  <1> QED BY <1>1, <1>3, <1>4, <1>5, <1>6 DEF u

LEMMA QueueTail ==
  ASSUME NEW q \in Seq(Frames), q # << >>, NEW s
  PROVE  /\ Tail(q) \in Seq(Frames) /\ Head(q) \in Frames
         /\ \A k \in DOMAIN Tail(q) : k + 1 \in DOMAIN q /\ Tail(q)[k] = q[k + 1]
         /\ 1 \in DOMAIN q /\ Head(q) = q[1]
         /\ Heard(Tail(q), s) => Heard(q, s)
         /\ Heard(q, s) => Heard(Tail(q), s) \/ Ends(Head(q), s)
         /\ Ordered(q, s) => Ordered(Tail(q), s)
         /\ Ordered(q, s) /\ Head(q).type = "offer" /\ Head(q).session = s =>
               Heard(Tail(q), s)
  <1> DEFINE u == Tail(q)
             n == Len(q)
  <1>1. /\ n \in Nat /\ n > 0 /\ DOMAIN q = 1..n /\ u \in Seq(Frames)
        /\ DOMAIN u = 1..(n - 1) /\ \A k \in 1..(n - 1) : u[k] = q[k + 1]
        /\ Head(q) = q[1] /\ Head(q) \in Frames
    BY HeadTailProperties, EmptySeq
  <1> HIDE DEF u, n
  <1>2. \A k \in 1..(n - 1) : k + 1 \in 1..n
    BY <1>1
  <1>3. \A k \in 1..n : k = 1 \/ (k - 1 \in 1..(n - 1) /\ u[k - 1] = q[k])
    <2> SUFFICES ASSUME NEW k \in 1..n, k # 1
                 PROVE  k - 1 \in 1..(n - 1) /\ u[k - 1] = q[k]
      OBVIOUS
    <2>1. k - 1 \in 1..(n - 1) /\ (k - 1) + 1 = k
      BY <1>1
    <2> QED BY <1>1, <2>1
  <1>4. Heard(u, s) => Heard(q, s)
    BY <1>1, <1>2 DEF Heard
  <1>5. Heard(q, s) => Heard(u, s) \/ Ends(Head(q), s)
    BY <1>1, <1>3 DEF Heard
  <1>6. ASSUME Ordered(q, s) PROVE Ordered(u, s)
    <2> SUFFICES ASSUME NEW k \in 1..(n - 1), u[k].type = "offer", u[k].session = s
                 PROVE  \E m \in 1..(n - 1) : m > k /\ Ends(u[m], s)
      BY <1>1 DEF Ordered
    <2>1. PICK m \in 1..n : m > k + 1 /\ Ends(q[m], s)
      BY <1>1, <1>2, <1>6 DEF Ordered
    <2>2. m # 1 /\ m - 1 > k
      BY <1>1, <2>1
    <2> QED BY <1>3, <2>1, <2>2
  <1>7. ASSUME Ordered(q, s), Head(q).type = "offer", Head(q).session = s
        PROVE  Heard(u, s)
    <2>1. 1 \in 1..n
      BY <1>1
    <2>2. PICK m \in 1..n : m > 1 /\ Ends(q[m], s)
      BY <1>1, <1>7, <2>1 DEF Ordered
    <2>3. m # 1
      BY <2>2
    <2> QED BY <1>1, <1>3, <2>2, <2>3 DEF Heard
  <1>8. 1 \in DOMAIN q
    BY <1>1
  <1> QED BY <1>1, <1>2, <1>4, <1>5, <1>6, <1>7, <1>8 DEF u

\* The two peers.
LEMMA TheOther ==
  ASSUME NEW p \in Peers
  PROVE  Other(p) \in Peers /\ Other(p) # p
  <1>1. \E q \in Peers : q # p
    <2> SUFFICES ASSUME \A q \in Peers : q = p PROVE FALSE
      OBVIOUS
    <2>1. Peers = {p}
      OBVIOUS
    <2>2. Cardinality({p}) = 1
      BY FS_Singleton
    <2> QED BY <2>1, <2>2, PeerCallsOptions
  <1> QED BY <1>1 DEF Other

-----------------------------------------------------------------------------
(* Call objects *)

LEMMA ShutObject ==
  ASSUME NEW r \in CallObjects
  PROVE  LET x == [r EXCEPT !.shut = TRUE, !.link = "closed", !.state = "ended"]
         IN  x \in CallObjects /\ x.shut /\ x.session = r.session /\ x.late = r.late
  BY DEF CallObjects

LEMMA LinkObject ==
  ASSUME NEW r \in CallObjects, NEW l \in {"new", "offered", "stable", "connected", "closed"}
  PROVE  LET x == [r EXCEPT !.link = l]
         IN  /\ x \in CallObjects /\ x.shut = r.shut /\ x.session = r.session
             /\ x.late = r.late
  BY DEF CallObjects

LEMMA StateObject ==
  ASSUME NEW r \in CallObjects
  PROVE  LET x == [r EXCEPT !.state = "connected"]
         IN  /\ x \in CallObjects /\ x.shut = r.shut /\ x.session = r.session
             /\ x.late = r.late
  BY DEF CallObjects

LEMMA NewObject ==
  ASSUME NEW s \in SessionIDs, NEW isCaller \in BOOLEAN
  PROVE  /\ NewCall(s, isCaller) \in CallObjects
         /\ ~NewCall(s, isCaller).shut /\ NewCall(s, isCaller).session = s
         /\ isCaller /\ ~Live(s) => NewCall(s, isCaller).late
  BY DEF NewCall, CallObjects

\* Objects keep what the map and the reports go by.
SameCalls ==
    /\ calls' = calls /\ made' \in [Peers -> Seq(CallObjects)]
    /\ \A p \in Peers :
          /\ DOMAIN made'[p] = DOMAIN made[p]
          /\ \A i \in DOMAIN made[p] :
                /\ made'[p][i].session = made[p][i].session
                /\ made'[p][i].shut = made[p][i].shut
                /\ made'[p][i].late = made[p][i].late

Adjusts(p, i, r) ==
    /\ r \in CallObjects /\ r.session = made[p][i].session
    /\ r.shut = made[p][i].shut /\ r.late = made[p][i].late
    /\ made' = [made EXCEPT ![p] = [made[p] EXCEPT ![i] = r]]

LEMMA OneObject ==
  ASSUME ObjectsOK, NEW p \in Peers, NEW i \in DOMAIN made[p], calls' = calls,
         NEW r, Adjusts(p, i, r)
  PROVE  SameCalls
  <1> USE DEF Adjusts
  <1>1. made[p] \in Seq(CallObjects) /\ DOMAIN made = Peers
    BY DEF ObjectsOK
  <1> DEFINE u == [made[p] EXCEPT ![i] = r]
  <1>2. u \in Seq(CallObjects) /\ DOMAIN u = DOMAIN made[p]
    BY <1>1
  <1>3. u[i] = r /\ \A j \in DOMAIN made[p] \ {i} : u[j] = made[p][j]
    BY <1>1
  <1>4. made'[p] = u /\ \A q \in Peers \ {p} : made'[q] = made[q]
    BY <1>1
  <1>5. made' \in [Peers -> Seq(CallObjects)]
    BY <1>1, <1>2 DEF ObjectsOK
  <1> HIDE DEF u
  <1>6. ASSUME NEW q \in Peers
        PROVE  /\ DOMAIN made'[q] = DOMAIN made[q]
               /\ \A j \in DOMAIN made[q] :
                     /\ made'[q][j].session = made[q][j].session
                     /\ made'[q][j].shut = made[q][j].shut
                     /\ made'[q][j].late = made[q][j].late
    <2>1. CASE q # p
      BY <1>4, <2>1
    <2>2. CASE q = p
      <3>1. \A j \in DOMAIN made[p] : u[j].session = made[p][j].session
        BY <1>3
      <3>2. \A j \in DOMAIN made[p] : u[j].shut = made[p][j].shut
        BY <1>3, Zenon
      <3>3. \A j \in DOMAIN made[p] : u[j].late = made[p][j].late
        BY <1>3, Zenon
      <3>4. made'[q] = u /\ made[q] = made[p]
        BY <1>4, <2>2
      <3> QED BY <1>2, <3>1, <3>2, <3>3, <3>4, ZenonT(30)
    <2> QED BY <2>1, <2>2
  <1> QED BY <1>5, <1>6 DEF SameCalls

LEMMA LinkMoves ==
  ASSUME ObjectsOK, NEW p \in Peers, NEW i \in DOMAIN made[p], calls' = calls,
         NEW l \in {"new", "offered", "stable", "connected", "closed"},
         made' = [made EXCEPT ![p][i].link = l]
  PROVE  SameCalls
  <1> DEFINE r == [made[p][i] EXCEPT !.link = l]
  <1>1. made[p][i] \in CallObjects
    BY DEF ObjectsOK
  <1>2. /\ r \in CallObjects /\ r.session = made[p][i].session
        /\ r.shut = made[p][i].shut /\ r.late = made[p][i].late
    BY <1>1, LinkObject
  <1>3. Adjusts(p, i, r)
    BY <1>2 DEF Adjusts
  <1> HIDE DEF r
  <1> QED BY <1>3, OneObject

LEMMA StateMoves ==
  ASSUME ObjectsOK, NEW p \in Peers, NEW i \in DOMAIN made[p], calls' = calls,
         made' = [made EXCEPT ![p][i].state = "connected"]
  PROVE  SameCalls
  <1> DEFINE r == [made[p][i] EXCEPT !.state = "connected"]
  <1>1. made[p][i] \in CallObjects
    BY DEF ObjectsOK
  <1>2. /\ r \in CallObjects /\ r.session = made[p][i].session
        /\ r.shut = made[p][i].shut /\ r.late = made[p][i].late
    BY <1>1, StateObject
  <1>3. Adjusts(p, i, r)
    BY <1>2 DEF Adjusts
  <1> HIDE DEF r
  <1> QED BY <1>3, OneObject
\* Objects stay, with the session they have.
Grows ==
    \A p \in Peers : \A i \in DOMAIN made[p] :
        i \in DOMAIN made'[p] /\ made'[p][i].session = made[p][i].session

LEMMA SameHeld ==
  ASSUME ObjectsOK, HeldIsOpen, SameCalls, DOMAIN session \subseteq DOMAIN session'
  PROVE  HeldIsOpen' /\ ObjectsOK' /\ Grows
  <1>1. Grows
    BY DEF SameCalls, Grows
  <1>2. ObjectsOK'
    BY DEF SameCalls, ObjectsOK
  <1>3. \A p \in Peers : Open(p)' = Open(p)
    BY DEF SameCalls, Open
  <1>4. HeldIsOpen'
    <2> SUFFICES ASSUME NEW p \in Peers
                 PROVE  /\ \A i \in Open(p) : calls[p][made'[p][i].session] = i
                        /\ \A s \in SessionIDs : calls[p][s] # 0 =>
                              /\ calls[p][s] \in Open(p)
                              /\ made'[p][calls[p][s]].session = s
      BY <1>3 DEF HeldIsOpen, SameCalls
    <2>1. \A i \in Open(p) : made'[p][i].session = made[p][i].session
      BY DEF SameCalls, Open
    <2> QED BY <2>1 DEF HeldIsOpen
  <1> QED BY <1>1, <1>2, <1>4

LEMMA OpenHeld ==
  ASSUME ObjectsOK, HeldIsOpen, NEW p \in Peers, NEW i \in Open(p)
  PROVE  /\ i \in DOMAIN made[p] /\ i # 0
         /\ made[p][i].session \in SessionIDs /\ calls[p][made[p][i].session] = i
  <1>1. made[p] \in Seq(CallObjects) /\ i \in DOMAIN made[p]
    BY DEF Open, ObjectsOK
  <1>2. made[p][i] \in CallObjects /\ i # 0
    BY <1>1
  <1>3. made[p][i].session \in SessionIDs
    BY <1>2 DEF CallObjects
  <1>4. calls[p][made[p][i].session] = i
    BY DEF HeldIsOpen
  <1> QED BY <1>1, <1>2, <1>3, <1>4

\* The calls of going are closed and leave the map.
Closes(p, going) ==
    /\ calls' \in [Peers -> [SessionIDs -> Nat]] /\ made' \in [Peers -> Seq(CallObjects)]
    /\ \A q \in Peers \ {p} : made'[q] = made[q] /\ calls'[q] = calls[q]
    /\ DOMAIN made'[p] = DOMAIN made[p]
    /\ \A i \in DOMAIN made[p] :
          /\ made'[p][i].session = made[p][i].session
          /\ made'[p][i].late = made[p][i].late
          /\ i \in going => made'[p][i].shut
          /\ i \notin going => made'[p][i] = made[p][i]
    /\ \A s \in SessionIDs :
          calls'[p][s] = IF \E i \in going : made[p][i].session = s THEN 0 ELSE calls[p][s]

LEMMA CloseCloses ==
  ASSUME ObjectsOK, NEW p \in Peers, NEW some, NEW tell, NEW rest,
         closeCalls(p, some, tell, rest)
  PROVE  Closes(p, some \cap Open(p))
  <1> DEFINE going == some \cap Open(p)
             x(i)  == [made[p][i] EXCEPT !.shut = TRUE, !.link = "closed", !.state = "ended"]
             u     == [i \in DOMAIN made[p] |-> IF i \in going THEN x(i) ELSE made[p][i]]
             v     == [s \in SessionIDs |->
                         IF \E i \in going : made[p][i].session = s THEN 0 ELSE calls[p][s]]
  <1>1. /\ made[p] \in Seq(CallObjects) /\ DOMAIN made = Peers /\ DOMAIN calls = Peers
        /\ \A i \in DOMAIN made[p] : made[p][i] \in CallObjects
    BY DEF ObjectsOK
  <1>2. \A i \in DOMAIN made[p] : /\ x(i) \in CallObjects /\ x(i).shut
                                  /\ x(i).session = made[p][i].session
                                  /\ x(i).late = made[p][i].late
    BY <1>1, ShutObject
  <1>3. made' = [made EXCEPT ![p] = u]
    BY DEF closeCalls
  <1>4. calls' = [calls EXCEPT ![p] = v]
    BY DEF closeCalls
  <1>5. v \in [SessionIDs -> Nat]
    BY DEF ObjectsOK
  <1> HIDE DEF x
  <1>6. u \in Seq(CallObjects) /\ DOMAIN u = DOMAIN made[p]
    <2>1. Len(made[p]) \in Nat /\ DOMAIN made[p] = 1..Len(made[p])
      BY <1>1
    <2>2. \A i \in 1..Len(made[p]) : u[i] \in CallObjects
      BY <1>1, <1>2, <2>1
    <2>3. DOMAIN u = 1..Len(made[p]) /\ u \in [1..Len(made[p]) -> CallObjects]
      BY <2>1, <2>2
    <2> HIDE DEF u
    <2> QED BY <2>1, <2>3
  <1>7. \A i \in DOMAIN made[p] : (i \in going => u[i] = x(i)) /\ (i \notin going => u[i] = made[p][i])
    OBVIOUS
  <1>8. \A s \in SessionIDs :
          v[s] = IF \E i \in going : made[p][i].session = s THEN 0 ELSE calls[p][s]
    OBVIOUS
  <1> HIDE DEF u, v, going
  <1>9. /\ made'[p] = u /\ calls'[p] = v
        /\ \A q \in Peers \ {p} : made'[q] = made[q] /\ calls'[q] = calls[q]
    BY <1>1, <1>3, <1>4
  <1>10. /\ calls' \in [Peers -> [SessionIDs -> Nat]]
         /\ made' \in [Peers -> Seq(CallObjects)]
    BY <1>3, <1>4, <1>5, <1>6 DEF ObjectsOK
  <1>11. ASSUME NEW i \in DOMAIN made[p]
         PROVE  /\ made'[p][i].session = made[p][i].session
                /\ made'[p][i].late = made[p][i].late
                /\ i \in going => made'[p][i].shut
                /\ i \notin going => made'[p][i] = made[p][i]
    <2>1. CASE i \in going
      BY <1>2, <1>7, <1>9, <2>1, Zenon
    <2>2. CASE i \notin going
      BY <1>7, <1>9, <2>2, Zenon
    <2> QED BY <2>1, <2>2
  <1>12. Closes(p, going)
    BY <1>6, <1>8, <1>9, <1>10, <1>11 DEF Closes
  <1> QED BY <1>12 DEF going

LEMMA ClosesHeld ==
  ASSUME ObjectsOK, HeldIsOpen, NEW p \in Peers, NEW going, going \subseteq Open(p),
         Closes(p, going), DOMAIN session \subseteq DOMAIN session'
  PROVE  HeldIsOpen' /\ ObjectsOK' /\ Grows
  <1>1. Grows
    BY DEF Closes, Grows
  <1>2. \A q \in Peers : \A i \in DOMAIN made'[q] :
           i \in DOMAIN made[q] /\ made'[q][i].session = made[q][i].session
    BY DEF Closes
  <1>3. ObjectsOK'
    BY <1>2 DEF Closes, ObjectsOK
  <1>4. \A q \in Peers \ {p} : Open(q)' = Open(q)
    BY DEF Closes, Open
  <1>5. Open(p)' = Open(p) \ going
    BY DEF Closes, Open
  <1>6. ASSUME NEW q \in Peers
        PROVE  /\ \A i \in Open(q)' : calls'[q][made'[q][i].session] = i
               /\ \A s \in SessionIDs : calls'[q][s] # 0 =>
                     calls'[q][s] \in Open(q)' /\ made'[q][calls'[q][s]].session = s
    <2>1. CASE q # p
      <3>1. Open(q)' = Open(q) /\ made'[q] = made[q] /\ calls'[q] = calls[q]
        BY <1>4, <2>1 DEF Closes
      <3>2. /\ \A i \in Open(q) : calls[q][made[q][i].session] = i
            /\ \A s \in SessionIDs : calls[q][s] # 0 =>
                  calls[q][s] \in Open(q) /\ made[q][calls[q][s]].session = s
        BY DEF HeldIsOpen
      <3> QED BY <3>1, <3>2
    <2>2. CASE q = p
      <3>1. \A i \in Open(p) : i \in DOMAIN made[p] /\ calls[p][made[p][i].session] = i
                               /\ made[p][i].session \in SessionIDs
        BY OpenHeld
      <3>2. \A i \in Open(p)' : calls'[p][made'[p][i].session] = i
        <4> SUFFICES ASSUME NEW i \in Open(p), i \notin going
                     PROVE  calls'[p][made'[p][i].session] = i
          BY <1>5
        <4>1. made'[p][i].session = made[p][i].session
          BY <3>1 DEF Closes
        <4>2. ~ \E j \in going : made[p][j].session = made[p][i].session
          BY <3>1
        <4>3. made[p][i].session \in SessionIDs /\ calls[p][made[p][i].session] = i
          BY <3>1
        <4>4. \A s \in SessionIDs : calls'[p][s] =
                  IF \E j \in going : made[p][j].session = s THEN 0 ELSE calls[p][s]
          BY DEF Closes
        <4>5. calls'[p][made[p][i].session] = i
          BY <4>2, <4>3, <4>4
        <4> QED BY <4>1, <4>5
      <3>3. ASSUME NEW s \in SessionIDs, calls'[p][s] # 0
            PROVE  calls'[p][s] \in Open(p)' /\ made'[p][calls'[p][s]].session = s
        <4>1. calls'[p][s] = calls[p][s] /\ ~ \E j \in going : made[p][j].session = s
          BY <3>3 DEF Closes
        <4>2. calls[p][s] \in Open(p) /\ made[p][calls[p][s]].session = s
          BY <3>3, <4>1 DEF HeldIsOpen
        <4> QED BY <1>2, <1>5, <3>1, <4>1, <4>2 DEF Closes
      <3> QED BY <2>2, <3>2, <3>3
    <2> QED BY <2>1, <2>2
  <1>7. HeldIsOpen'
    BY <1>6 DEF HeldIsOpen
  <1> QED BY <1>1, <1>3, <1>7

\* A call of a session that has none.
Makes(p, s, o) ==
    /\ calls[p][s] = 0 /\ o \in CallObjects /\ o.session = s /\ ~o.shut
    /\ made' = [made EXCEPT ![p] = Append(made[p], o)]
    /\ calls' = [calls EXCEPT ![p] = [calls[p] EXCEPT ![s] = Len(made[p]) + 1]]

LEMMA MakesObjects ==
  ASSUME ObjectsOK, NEW p \in Peers, NEW s \in SessionIDs, NEW o, Makes(p, s, o)
  PROVE  LET n == Len(made[p])
         IN  /\ n \in Nat /\ DOMAIN made[p] = 1..n /\ DOMAIN made'[p] = 1..(n + 1)
             /\ made'[p][n + 1] = o /\ \A i \in 1..n : made'[p][i] = made[p][i]
             /\ made' \in [Peers -> Seq(CallObjects)]
             /\ calls' \in [Peers -> [SessionIDs -> Nat]]
             /\ calls'[p][s] = n + 1
             /\ \A r \in SessionIDs \ {s} : calls'[p][r] = calls[p][r]
             /\ \A q \in Peers \ {p} : made'[q] = made[q] /\ calls'[q] = calls[q]
             /\ \A i \in 1..(n + 1) : i \in 1..n \/ i = n + 1
             /\ Len(made[p]) + 1 # 0
  <1> DEFINE n == Len(made[p])
  <1>1. made[p] \in Seq(CallObjects) /\ DOMAIN made = Peers /\ DOMAIN calls = Peers
        /\ calls[p] \in [SessionIDs -> Nat] /\ n \in Nat
    BY DEF ObjectsOK
  <1>2. /\ DOMAIN made[p] = 1..n /\ DOMAIN Append(made[p], o) = 1..(n + 1)
        /\ Append(made[p], o)[n + 1] = o /\ Append(made[p], o) \in Seq(CallObjects)
        /\ \A i \in 1..n : Append(made[p], o)[i] = made[p][i]
    BY <1>1 DEF Makes
  <1>3. /\ made'[p] = Append(made[p], o)
        /\ calls'[p] = [calls[p] EXCEPT ![s] = n + 1]
        /\ \A q \in Peers \ {p} : made'[q] = made[q] /\ calls'[q] = calls[q]
    BY <1>1 DEF Makes
  <1>4. /\ made' \in [Peers -> Seq(CallObjects)]
        /\ calls' \in [Peers -> [SessionIDs -> Nat]]
    BY <1>1, <1>2 DEF ObjectsOK, Makes
  <1>5. /\ calls'[p][s] = n + 1
        /\ \A r \in SessionIDs \ {s} : calls'[p][r] = calls[p][r]
    BY <1>1, <1>3
  <1> HIDE DEF n
  <1>6. \A i \in 1..(n + 1) : i \in 1..n \/ i = n + 1
    BY <1>1
  <1>7. n + 1 # 0
    BY <1>1
  <1> QED BY <1>1, <1>2, <1>3, <1>4, <1>5, <1>6, <1>7 DEF n

LEMMA MakesHeld ==
  ASSUME ObjectsOK, HeldIsOpen, NEW p \in Peers, NEW s \in DOMAIN session, s \in SessionIDs,
         NEW o, Makes(p, s, o), DOMAIN session \subseteq DOMAIN session'
  PROVE  HeldIsOpen' /\ ObjectsOK' /\ Grows
  <1> DEFINE n == Len(made[p])
  <1>1. /\ n \in Nat /\ DOMAIN made[p] = 1..n /\ DOMAIN made'[p] = 1..(n + 1)
        /\ made'[p][n + 1] = o /\ \A i \in 1..n : made'[p][i] = made[p][i]
        /\ made' \in [Peers -> Seq(CallObjects)]
        /\ calls' \in [Peers -> [SessionIDs -> Nat]]
        /\ calls'[p][s] = n + 1
        /\ \A r \in SessionIDs \ {s} : calls'[p][r] = calls[p][r]
        /\ \A q \in Peers \ {p} : made'[q] = made[q] /\ calls'[q] = calls[q]
        /\ \A i \in 1..(n + 1) : i \in 1..n \/ i = n + 1
    BY MakesObjects
  <1>2. o \in CallObjects /\ o.session = s /\ ~o.shut /\ calls[p][s] = 0
    BY DEF Makes
  <1> HIDE DEF n
  <1>3. Grows
    <2>1. \A i \in 1..n : i \in 1..(n + 1)
      BY <1>1
    <2> QED BY <1>1, <2>1 DEF Grows
  <1>4. ObjectsOK'
    <2> SUFFICES ASSUME NEW q \in Peers, NEW i \in DOMAIN made'[q]
                 PROVE  made'[q][i].session \in DOMAIN session'
      BY <1>1 DEF ObjectsOK
    <2>1. CASE q # p
      BY <1>1, <2>1 DEF ObjectsOK
    <2>2. CASE q = p
      BY <1>1, <1>2, <2>2 DEF ObjectsOK
    <2> QED BY <2>1, <2>2
  <1>5. Open(p)' = Open(p) \cup {n + 1} /\ n + 1 \notin Open(p)
    <2>1. n + 1 \in 1..(n + 1) /\ \A i \in 1..n : i \in 1..(n + 1) /\ i # n + 1
      BY <1>1
    <2> QED BY <1>1, <1>2, <2>1 DEF Open
  <1>6. \A q \in Peers \ {p} : Open(q)' = Open(q)
    BY <1>1 DEF Open
  <1>7. ASSUME NEW q \in Peers
        PROVE  /\ \A i \in Open(q)' : calls'[q][made'[q][i].session] = i
               /\ \A r \in SessionIDs : calls'[q][r] # 0 =>
                     calls'[q][r] \in Open(q)' /\ made'[q][calls'[q][r]].session = r
    <2>1. CASE q # p
      <3>1. Open(q)' = Open(q) /\ made'[q] = made[q] /\ calls'[q] = calls[q]
        BY <1>1, <1>6, <2>1
      <3>2. /\ \A i \in Open(q) : calls[q][made[q][i].session] = i
            /\ \A r \in SessionIDs : calls[q][r] # 0 =>
                  calls[q][r] \in Open(q) /\ made[q][calls[q][r]].session = r
        BY DEF HeldIsOpen
      <3> QED BY <3>1, <3>2
    <2>2. CASE q = p
      <3>1. \A i \in Open(p) : /\ i \in 1..n /\ calls[p][made[p][i].session] = i /\ i # 0
                               /\ made[p][i].session \in SessionIDs \ {s}
        BY <1>1, <1>2, OpenHeld
      <3>2. ASSUME NEW i \in Open(p)' PROVE calls'[p][made'[p][i].session] = i
        <4>1. CASE i = n + 1
          BY <1>1, <1>2, <4>1
        <4>2. CASE i \in Open(p)
          <5>1. made'[p][i] = made[p][i] /\ made[p][i].session \in SessionIDs \ {s}
            BY <1>1, <3>1, <4>2
          <5>2. calls'[p][made[p][i].session] = calls[p][made[p][i].session]
            BY <1>1, <5>1
          <5> QED BY <3>1, <4>2, <5>1, <5>2
        <4> QED BY <1>5, <4>1, <4>2
      <3>3. ASSUME NEW r \in SessionIDs, calls'[p][r] # 0
            PROVE  calls'[p][r] \in Open(p)' /\ made'[p][calls'[p][r]].session = r
        <4>1. CASE r = s
          BY <1>1, <1>2, <1>5, <4>1
        <4>2. CASE r # s
          <5>1. calls'[p][r] = calls[p][r] /\ calls[p][r] # 0
            BY <1>1, <3>3, <4>2
          <5>2. calls[p][r] \in Open(p) /\ made[p][calls[p][r]].session = r
            BY <5>1 DEF HeldIsOpen
          <5>3. calls[p][r] \in 1..n
            BY <3>1, <5>2
          <5>4. made'[p][calls[p][r]] = made[p][calls[p][r]]
            BY <1>1, <5>3
          <5> QED BY <1>5, <5>1, <5>2, <5>4
        <4> QED BY <4>1, <4>2
      <3> QED BY <2>2, <3>2, <3>3
    <2> QED BY <2>1, <2>2
  <1>8. HeldIsOpen'
    BY <1>7 DEF HeldIsOpen
  <1> QED BY <1>3, <1>4, <1>8

-----------------------------------------------------------------------------
(* Steps that leave the sessions as they are *)

Steady ==
    /\ session' = session /\ silent' = silent
    /\ dialled' \in Nat /\ lost' \in Nat /\ drops' \in Nat
    /\ lost <= lost' /\ drops <= drops'

\* No report of an end goes without being counted as lost, and what is new can
\* move its session.
TasksStep ==
    /\ TasksOK'
    /\ lost' = 0 => \A t \in tasks : t.kind = "ended" => t \in tasks'
    /\ \A t \in tasks' : t \in tasks \/
          (t.kind \in {"connected", "ended"} =>
              canMove(session[made'[t.peer][t.ref].session], t.kind))

\* Whatever closes a call, or will, is reported.
ShutIsDue ==
    \A p \in Peers : \A i \in DOMAIN made'[p], s \in DOMAIN session :
        made'[p][i].shut /\ made'[p][i].session = s =>
            (i \in DOMAIN made[p] /\ made[p][i].shut) \/ Due(s)'

HeardIsDue ==
    \A p \in Peers, s \in DOMAIN session :
        Heard(inbox'[p], s) => Heard(inbox[p], s) \/ Due(s)'

\* A call that is held is one that was held before and hears of the end as
\* before, or hears of it anew.
StillHeld(p, s) ==
    /\ calls[p][s] # 0 /\ ~made[p][calls[p][s]].late
    /\ Heard(inbox[p], s) => Heard(inbox'[p], s)

StillHeard ==
    \A p \in Peers, s \in SessionIDs : Told(p, s)' =>
        /\ up[p]
        /\ Ordered(inbox[p], s) => Ordered(inbox'[p], s)
        /\ calls'[p][s] # 0 /\ ~made'[p][calls'[p][s]].late =>
              Heard(inbox'[p], s) \/ StillHeld(p, s)

LEMMA SessionOfTask ==
  ASSUME TasksOK, Grows, NEW t \in tasks, t.kind # "dialled"
  PROVE  /\ t.peer \in Peers /\ t.ref \in DOMAIN made[t.peer]
         /\ t.ref \in DOMAIN made'[t.peer]
         /\ made'[t.peer][t.ref].session = made[t.peer][t.ref].session
  BY DEF TasksOK, Refers, Tasks, Grows

LEMMA SteadyDue ==
  ASSUME Inv, Steady, Grows, TasksStep, NEW s, Due(s)
  PROVE  Due(s)'
  <1> SUFFICES ASSUME Live(s)', lost' = 0 PROVE EndDue(s)'
    BY DEF Due
  <1>1. Live(s)
    BY DEF Steady, Live
  <1>2. lost = 0
    BY DEF Steady, Inv, Shape, ServerOK
  <1>3. PICK t \in tasks : t.kind = "ended" /\ sessionOf(t) = s
    BY <1>1, <1>2 DEF Due, EndDue
  <1>4. t \in tasks' /\ sessionOf(t)' = sessionOf(t)
    BY <1>3, SessionOfTask DEF TasksStep, sessionOf, Inv, Shape
  <1> QED BY <1>3, <1>4 DEF EndDue

LEMMA SteadyInv ==
  ASSUME Inv, Steady, ObjectsOK', HeldIsOpen', Grows, TasksStep, WiresOK',
         ShutIsDue, HeardIsDue, StillHeard, UpUnlessDropped'
  PROVE  Inv'
  <1>1. ServerOK' /\ TasksOK'
    BY DEF Inv, Shape, ServerOK, Steady, TasksStep
  <1>2. ReportsAhead'
    <2> SUFFICES ASSUME NEW t \in tasks', t.kind \in {"connected", "ended"}
                 PROVE  canMove(session[made'[t.peer][t.ref].session], t.kind)
      BY DEF ReportsAhead, Steady, sessionOf
    <2>1. CASE t \in tasks
      <3>1. made'[t.peer][t.ref].session = made[t.peer][t.ref].session
        BY <2>1, SessionOfTask DEF Inv, Shape
      <3> QED BY <2>1, <3>1 DEF Inv, ReportsAhead, sessionOf
    <2>2. CASE t \notin tasks
      BY <2>2 DEF TasksStep
    <2> QED BY <2>1, <2>2
  <1>3. ClosedIsDue'
    <2>1. ASSUME NEW p \in Peers, NEW i \in DOMAIN made'[p], NEW s \in DOMAIN session',
                 made'[p][i].shut, made'[p][i].session = s
          PROVE  Due(s)'
      <3>1. s \in DOMAIN session
        BY DEF Steady
      <3>2. CASE i \in DOMAIN made[p] /\ made[p][i].shut
        <4>1. made[p][i].session = s
          BY <2>1, <3>2 DEF Grows
        <4>2. Due(s)
          BY <3>1, <3>2, <4>1 DEF Inv, ClosedIsDue
        <4> QED BY <4>2, SteadyDue
      <3> QED BY <2>1, <3>1, <3>2 DEF ShutIsDue
    <2>2. ASSUME NEW p \in Peers, NEW s \in DOMAIN session', Heard(inbox'[p], s)
          PROVE  Due(s)'
      <3>1. s \in DOMAIN session
        BY DEF Steady
      <3>2. CASE Heard(inbox[p], s)
        BY <3>1, <3>2, SteadyDue DEF Inv, ClosedIsDue
      <3> QED BY <2>2, <3>1, <3>2 DEF HeardIsDue
    <2> QED BY <2>1, <2>2 DEF ClosedIsDue
  <1>4. ASSUME NEW p \in Peers, NEW s \in SessionIDs, Told(p, s)'
        PROVE  Told(p, s)
    BY <1>4 DEF Told, Steady, StillHeard, Live, Inv, Shape, ServerOK
  <1>5. OfferThenEnd'
    BY <1>4 DEF Inv, OfferThenEnd, StillHeard
  <1>6. HeldIsHeard'
    <2> SUFFICES ASSUME NEW p \in Peers, NEW s \in SessionIDs, Told(p, s)',
                        calls'[p][s] # 0, ~made'[p][calls'[p][s]].late
                 PROVE  Heard(inbox'[p], s)
      BY DEF HeldIsHeard
    <2>1. Heard(inbox'[p], s) \/ StillHeld(p, s)
      BY DEF StillHeard
    <2>2. CASE StillHeld(p, s)
      <3>1. Heard(inbox[p], s)
        BY <1>4, <2>2 DEF StillHeld, Inv, HeldIsHeard
      <3> QED BY <2>2, <3>1 DEF StillHeld
    <2> QED BY <2>1, <2>2
  <1> QED BY <1>1, <1>2, <1>3, <1>5, <1>6 DEF Inv, Shape

-----------------------------------------------------------------------------
(* Tasks *)

LEMMA OneTask ==
  ASSUME NEW p \in Peers, NEW i \in Nat, NEW n \in Nat,
         NEW kind \in {"dialled", "offering", "answering", "path", "connected", "ended"}
  PROVE  /\ Task(kind, p, i, n) \in Tasks /\ Task(kind, p, i, n).kind = kind
         /\ Task(kind, p, i, n).peer = p /\ Task(kind, p, i, n).ref = i
  BY DEF Task, Tasks

\* A task that is new goes on with a call, and a report with one it can move.
Fresh(new) ==
    \A t \in new :
        /\ t \in Tasks /\ t.kind # "dialled" /\ t.ref \in DOMAIN made'[t.peer]
        /\ t.kind \in {"connected", "ended"} =>
              canMove(session[made'[t.peer][t.ref].session], t.kind)

LEMMA TasksFrom ==
  ASSUME TasksOK, session' = session, Grows, NEW rest, NEW new, Fresh(new),
         rest \subseteq tasks, tasks' = rest \cup new,
         lost' # 0 \/ \A t \in tasks : t.kind = "ended" => t \in rest
  PROVE  TasksStep
  <1>1. \A t \in rest : t \in Tasks /\ Refers(t)'
    <2> SUFFICES ASSUME NEW t \in rest PROVE t \in Tasks /\ Refers(t)'
      OBVIOUS
    <2>1. t \in Tasks /\ Refers(t)
      BY DEF TasksOK
    <2>2. CASE t.kind = "dialled"
      BY <2>1, <2>2 DEF Refers
    <2>3. CASE t.kind # "dialled"
      BY <2>1, <2>3, SessionOfTask DEF Refers
    <2> QED BY <2>1, <2>2, <2>3
  <1>2. \A t \in new : t \in Tasks /\ Refers(t)'
    BY DEF Fresh, Refers
  <1>3. TasksOK'
    BY <1>1, <1>2 DEF TasksOK
  <1> QED BY <1>3 DEF TasksStep, Fresh

LEMMA ReportsFresh ==
  ASSUME ServerOK, ObjectsOK, NEW p \in Peers, NEW some, some \subseteq DOMAIN made[p],
         NEW to \in {"connected", "ended"}, Grows
  PROVE  /\ Fresh(reports(p, some, to))
         /\ \A t \in reports(p, some, to) : t.kind = to
         /\ \A i \in some : Live(made[p][i].session) /\ to = "ended" =>
               \E t \in reports(p, some, to) :
                   /\ t.kind = "ended" /\ t.peer = p /\ t.ref = i
                   /\ made'[t.peer][t.ref].session = made[p][i].session
  <1>1. \A i \in some : /\ i \in Nat /\ i \in DOMAIN made'[p]
                        /\ made'[p][i].session = made[p][i].session
    BY DEF ObjectsOK, Grows
  <1>2. ASSUME NEW i \in some
        PROVE  /\ Task(to, p, i, 0) \in Tasks /\ Task(to, p, i, 0).kind = to
               /\ Task(to, p, i, 0).peer = p /\ Task(to, p, i, 0).ref = i
    BY <1>1, OneTask
  <1>3. \A t \in reports(p, some, to) : \E i \in some :
           t = Task(to, p, i, 0) /\ canMove(session[made[p][i].session], to)
    BY DEF reports
  <1>4. ASSUME NEW t \in reports(p, some, to)
        PROVE  /\ t \in Tasks /\ t.kind = to /\ t.ref \in DOMAIN made'[t.peer]
               /\ canMove(session[made'[t.peer][t.ref].session], t.kind)
    <2>1. PICK i \in some : t = Task(to, p, i, 0) /\ canMove(session[made[p][i].session], to)
      BY <1>3
    <2>2. t \in Tasks /\ t.kind = to /\ t.peer = p /\ t.ref = i
      BY <1>2, <2>1
    <2> QED BY <1>1, <2>1, <2>2
  <1>5. ASSUME NEW i \in some, Live(made[p][i].session), to = "ended"
        PROVE  Task("ended", p, i, 0) \in reports(p, some, to)
    BY <1>5 DEF reports, canMove, Live
  <1>6. Fresh(reports(p, some, to))
    BY <1>4 DEF Fresh
  <1> QED BY <1>1, <1>2, <1>4, <1>5, <1>6

-----------------------------------------------------------------------------
(* What a step does to the queues and to the calls that are held *)

QueuesOK ==
    /\ inbox' \in [Peers -> Seq(Frames)]
    /\ \A p \in Peers : \A k \in DOMAIN inbox'[p] : inbox'[p][k].session \in DOMAIN session

\* The queues tell of every end they told of before, and else only of those in S.
QueuesSay(S) ==
    \A q \in Peers, s \in SessionIDs :
        /\ Heard(inbox'[q], s) => Heard(inbox[q], s) \/ s \in S
        /\ Heard(inbox[q], s) => Heard(inbox'[q], s)
        /\ ~Live(s) /\ Ordered(inbox[q], s) => Ordered(inbox'[q], s)

LEMMA CarriedSays ==
  ASSUME WiresOK, NEW p \in Peers, NEW f \in Frames, f.session \in DOMAIN session,
         inbox' \in carried(p, f)
  PROVE  /\ QueuesOK
         /\ QueuesSay(IF f.type \in {"bye", "session"} THEN {f.session} ELSE {})
  <1> DEFINE o == Other(p)
             S == IF f.type \in {"bye", "session"} THEN {f.session} ELSE {}
  <1>1. inbox \in [Peers -> Seq(Frames)]
        /\ \A q \in Peers : \A k \in DOMAIN inbox[q] : inbox[q][k].session \in DOMAIN session
    BY DEF WiresOK
  <1>2. CASE inbox' = inbox
    BY <1>1, <1>2 DEF QueuesOK, QueuesSay
  <1>3. CASE inbox' # inbox
    <2>1. PICK q \in {o} \cap {x \in Peers : up[x] /\ up[p] /\ Live(f.session)} :
             inbox' = [inbox EXCEPT ![q] = Append(@, f)]
      BY <1>3 DEF carried
    <2>2. q \in Peers /\ Live(f.session) /\ inbox[q] \in Seq(Frames)
      BY <1>1, <2>1
    <2>3. inbox'[q] = Append(inbox[q], f) /\ \A r \in Peers \ {q} : inbox'[r] = inbox[r]
      BY <1>1, <2>1
    <2>4. /\ Append(inbox[q], f) \in Seq(Frames)
          /\ \A k \in DOMAIN Append(inbox[q], f) :
                \/ k \in DOMAIN inbox[q] /\ Append(inbox[q], f)[k] = inbox[q][k]
                \/ Append(inbox[q], f)[k] = f
          /\ \A s : /\ Heard(Append(inbox[q], f), s) <=> Heard(inbox[q], s) \/ Ends(f, s)
                    /\ f.session # s /\ Ordered(inbox[q], s) => Ordered(Append(inbox[q], f), s)
      BY <2>2, QueueAppend
    <2>5. QueuesOK
      <3>1. inbox' \in [Peers -> Seq(Frames)]
        BY <1>1, <2>1, <2>4
      <3>2. ASSUME NEW r \in Peers, NEW k \in DOMAIN inbox'[r]
            PROVE  inbox'[r][k].session \in DOMAIN session
        <4>1. CASE r # q
          BY <1>1, <2>3, <4>1
        <4>2. CASE r = q
          <5>1. \/ k \in DOMAIN inbox[q] /\ inbox'[r][k] = inbox[q][k]
                \/ inbox'[r][k] = f
            BY <2>3, <2>4, <4>2
          <5> QED BY <1>1, <2>2, <5>1
        <4> QED BY <4>1, <4>2
      <3> QED BY <3>1, <3>2 DEF QueuesOK
    <2>6. ASSUME NEW r \in Peers, NEW s \in SessionIDs
          PROVE  /\ Heard(inbox'[r], s) => Heard(inbox[r], s) \/ s \in S
                 /\ Heard(inbox[r], s) => Heard(inbox'[r], s)
                 /\ ~Live(s) /\ Ordered(inbox[r], s) => Ordered(inbox'[r], s)
      <3>1. CASE r # q
        BY <2>3, <3>1
      <3>2. CASE r = q
        <4>1. Ends(f, s) => s \in S
          BY DEF Ends
        <4>2. ~Live(s) => f.session # s
          BY <2>2
        <4> HIDE DEF S
        <4> QED BY <2>3, <2>4, <3>2, <4>1, <4>2
      <3> QED BY <3>1, <3>2
    <2> QED BY <2>5, <2>6 DEF QueuesSay
  <1> QED BY <1>2, <1>3

LEMMA TakenSays ==
  ASSUME WiresOK, NEW p \in Peers, inbox[p] # << >>, Taken(p)
  PROVE  /\ QueuesOK /\ Head(inbox[p]) \in Frames /\ Head(inbox[p]).session \in DOMAIN session
         /\ \A q \in Peers \ {p} : inbox'[q] = inbox[q]
         /\ \A q \in Peers, s \in SessionIDs :
               /\ Heard(inbox'[q], s) => Heard(inbox[q], s)
               /\ Ordered(inbox[q], s) => Ordered(inbox'[q], s)
         /\ \A s \in SessionIDs :
               /\ Heard(inbox[p], s) => Heard(inbox'[p], s) \/ Ends(Head(inbox[p]), s)
               /\ Ordered(inbox[p], s) /\ Head(inbox[p]).type = "offer"
                    /\ Head(inbox[p]).session = s => Heard(inbox'[p], s)
  <1>1. inbox \in [Peers -> Seq(Frames)] /\ inbox[p] \in Seq(Frames)
        /\ \A q \in Peers : \A k \in DOMAIN inbox[q] : inbox[q][k].session \in DOMAIN session
    BY DEF WiresOK
  <1>2. inbox'[p] = Tail(inbox[p]) /\ \A q \in Peers \ {p} : inbox'[q] = inbox[q]
    BY <1>1 DEF Taken
  <1>3. /\ Tail(inbox[p]) \in Seq(Frames) /\ Head(inbox[p]) \in Frames
        /\ \A k \in DOMAIN Tail(inbox[p]) :
              k + 1 \in DOMAIN inbox[p] /\ Tail(inbox[p])[k] = inbox[p][k + 1]
        /\ 1 \in DOMAIN inbox[p] /\ Head(inbox[p]) = inbox[p][1]
    BY <1>1, QueueTail
  <1>4. \A s : /\ Heard(Tail(inbox[p]), s) => Heard(inbox[p], s)
               /\ Heard(inbox[p], s) => Heard(Tail(inbox[p]), s) \/ Ends(Head(inbox[p]), s)
               /\ Ordered(inbox[p], s) => Ordered(Tail(inbox[p]), s)
               /\ Ordered(inbox[p], s) /\ Head(inbox[p]).type = "offer"
                    /\ Head(inbox[p]).session = s => Heard(Tail(inbox[p]), s)
    BY <1>1, QueueTail
  <1>5. inbox' \in [Peers -> Seq(Frames)]
    BY <1>1, <1>3 DEF Taken
  <1>6. \A q \in Peers : \A k \in DOMAIN inbox'[q] : inbox'[q][k].session \in DOMAIN session
    <2>1. \A k \in DOMAIN Tail(inbox[p]) : Tail(inbox[p])[k].session \in DOMAIN session
      BY <1>1, <1>3
    <2> QED BY <1>1, <1>2, <2>1
  <1>7. Head(inbox[p]).session \in DOMAIN session
    BY <1>1, <1>3
  <1>8. \A q \in Peers, s \in SessionIDs :
           /\ Heard(inbox'[q], s) => Heard(inbox[q], s)
           /\ Ordered(inbox[q], s) => Ordered(inbox'[q], s)
    BY <1>2, <1>4
  <1> QED BY <1>2, <1>3, <1>4, <1>5, <1>6, <1>7, <1>8 DEF QueuesOK

\* Every call that is held was held before, and is as late as it was.
HoldsOn ==
    \A p \in Peers, s \in SessionIDs : calls'[p][s] # 0 =>
        /\ calls'[p][s] = calls[p][s]
        /\ made'[p][calls[p][s]].late = made[p][calls[p][s]].late

LEMMA SameHolds ==
  ASSUME ObjectsOK, HeldIsOpen, SameCalls
  PROVE  HoldsOn /\ ShutIsDue
  <1>1. ShutIsDue
    BY DEF SameCalls, ShutIsDue
  <1>2. \A p \in Peers, s \in SessionIDs : calls[p][s] # 0 => calls[p][s] \in DOMAIN made[p]
    BY DEF HeldIsOpen, Open
  <1> QED BY <1>1, <1>2 DEF SameCalls, HoldsOn

LEMMA ClosesHolds ==
  ASSUME ObjectsOK, HeldIsOpen, NEW p \in Peers, NEW going, Closes(p, going)
  PROVE  HoldsOn
  <1>1. \A q \in Peers, s \in SessionIDs : calls[q][s] # 0 => calls[q][s] \in DOMAIN made[q]
    BY DEF HeldIsOpen, Open
  <1>2. \A s \in SessionIDs : calls'[p][s] # 0 => calls'[p][s] = calls[p][s]
    BY DEF Closes
  <1>3. \A q \in Peers, s \in SessionIDs : calls'[q][s] # 0 => calls'[q][s] = calls[q][s]
    BY <1>2 DEF Closes
  <1>4. \A q \in Peers : \A i \in DOMAIN made[q] : made'[q][i].late = made[q][i].late
    BY DEF Closes
  <1> QED BY <1>1, <1>3, <1>4 DEF HoldsOn

\* The step of a client that keeps its channel, told by what it does to the
\* calls, the reports and the queues.
LEMMA ChannelKept ==
  ASSUME Inv, Steady, ObjectsOK', HeldIsOpen', Grows, TasksStep, ShutIsDue, HoldsOn,
         QueuesOK, NEW S, QueuesSay(S), \A s \in S : Due(s)',
         up' = up, closing' \in [Peers -> Closing],
         \A p \in Peers : closing'[p].stage = "no" => closing[p].stage = "no"
  PROVE  Inv'
  <1>1. WiresOK'
    BY DEF WiresOK, QueuesOK, Steady, Inv, Shape
  <1>2. UpUnlessDropped'
    BY DEF UpUnlessDropped, Inv, Steady, Shape, ServerOK
  <1>3. HeardIsDue
    <2>1. \A s \in DOMAIN session : s \in SessionIDs
      BY PeerCallsOptions DEF Inv, Shape, ServerOK, SessionIDs
    <2> QED BY <2>1 DEF HeardIsDue, QueuesSay
  <1>4. StillHeard
    <2> SUFFICES ASSUME NEW p \in Peers, NEW s \in SessionIDs, Told(p, s)'
                 PROVE  /\ up[p]
                        /\ Ordered(inbox[p], s) => Ordered(inbox'[p], s)
                        /\ calls'[p][s] # 0 /\ ~made'[p][calls'[p][s]].late =>
                              Heard(inbox'[p], s) \/ StillHeld(p, s)
      BY DEF StillHeard
    <2>1. up[p] /\ ~Live(s)
      BY DEF Told, Steady, Live
    <2>2. Ordered(inbox[p], s) => Ordered(inbox'[p], s)
      BY <2>1 DEF QueuesSay
    <2>3. ASSUME calls'[p][s] # 0, ~made'[p][calls'[p][s]].late PROVE StillHeld(p, s)
      BY <2>3 DEF StillHeld, HoldsOn, QueuesSay
    <2> QED BY <2>1, <2>2, <2>3
  <1> QED BY <1>1, <1>2, <1>3, <1>4, SteadyInv

-----------------------------------------------------------------------------
(* The actions of a client that change no call *)

LEMMA SessionsNamed ==
  ASSUME Inv
  PROVE  /\ \A s \in DOMAIN session : s \in SessionIDs
         /\ \A p \in Peers : \A i \in DOMAIN made[p] :
               /\ made[p][i].session \in DOMAIN session /\ made[p][i].session \in SessionIDs
               /\ made[p][i] \in CallObjects /\ i \in Nat
  <1>1. \A s \in DOMAIN session : s \in SessionIDs
    BY PeerCallsOptions DEF Inv, Shape, ServerOK, SessionIDs
  <1> QED BY <1>1 DEF Inv, Shape, ObjectsOK

LEMMA SameInv ==
  ASSUME Inv, Steady, SameCalls, TasksStep, QueuesOK, QueuesSay({}), up' = up,
         closing' = closing
  PROVE  Inv'
  <1>1. HeldIsOpen' /\ ObjectsOK' /\ Grows
    BY SameHeld DEF Inv, Shape, Steady
  <1>2. HoldsOn /\ ShutIsDue
    BY SameHolds DEF Inv, Shape
  <1>3. closing' \in [Peers -> Closing]
    BY DEF Inv, Shape, WiresOK
  <1> QED BY <1>1, <1>2, <1>3, ChannelKept

\* One task less, and none that reports an end.
LEMMA OneTaskLess ==
  ASSUME Inv, session' = session, Grows, NEW t \in tasks, t.kind # "ended" \/ lost' # 0,
         tasks' = tasks \ {t}
  PROVE  TasksStep
  <1>1. Fresh({})
    BY DEF Fresh
  <1>2. tasks' = (tasks \ {t}) \cup {} /\ tasks \ {t} \subseteq tasks
    OBVIOUS
  <1> QED BY <1>1, <1>2, TasksFrom DEF Inv, Shape

LEMMA QuietQueues ==
  ASSUME Inv, inbox' = inbox
  PROVE  QueuesOK /\ QueuesSay({})
  BY DEF Inv, Shape, WiresOK, QueuesOK, QueuesSay

LEMMA NegotiatedInv ==
  ASSUME Inv, NEW t \in tasks, OfferMade(t) \/ AnswerMade(t)
  PROVE  Inv'
  <1> DEFINE p == t.peer
             i == t.ref
             s == made[p][i].session
  <1>1. /\ session' = session /\ silent' = silent /\ calls' = calls /\ up' = up
        /\ closing' = closing /\ dialled' = dialled /\ drops' = drops /\ lost' = lost
        /\ tasks' = tasks \ {t} /\ t.kind \in {"offering", "answering"}
    BY DEF OfferMade, AnswerMade, server, counts
  <1>2. p \in Peers /\ i \in DOMAIN made[p] /\ t.n \in Nat
    BY <1>1 DEF Inv, Shape, TasksOK, Tasks, Refers
  <1>3. s \in DOMAIN session /\ s \in SessionIDs /\ made[p][i] \in CallObjects
    BY <1>2, SessionsNamed
  <1>4. SameCalls
    <2>1. CASE OfferMade(t)
      <3> DEFINE l == IF made[p][i].link = "connected" THEN made[p][i].link ELSE "offered"
      <3>1. made' = [made EXCEPT ![p][i].link = l]
        BY <2>1 DEF OfferMade
      <3>2. l \in {"new", "offered", "stable", "connected", "closed"}
        OBVIOUS
      <3> HIDE DEF l
      <3> QED BY <1>1, <1>2, <3>1, <3>2, LinkMoves DEF Inv, Shape
    <2>2. CASE AnswerMade(t)
      <3> DEFINE l == IF made[p][i].link = "connected" THEN made[p][i].link ELSE "stable"
      <3>1. made' = [made EXCEPT ![p][i].link = l]
        BY <2>2 DEF AnswerMade
      <3>2. l \in {"new", "offered", "stable", "connected", "closed"}
        OBVIOUS
      <3> HIDE DEF l
      <3> QED BY <1>1, <1>2, <3>1, <3>2, LinkMoves DEF Inv, Shape
    <2> QED BY <2>1, <2>2
  <1>5. QueuesOK /\ QueuesSay({})
    <2>1. \E f \in Frames : /\ inbox' \in carried(p, f) /\ f.session = s
                            /\ f.type \notin {"bye", "session"}
      <3>1. Frame("offer", s, t.n) \in Frames /\ Frame("answer", s, 0) \in Frames
        BY <1>2, <1>3 DEF Frame, Frames
      <3>2. /\ Frame("offer", s, t.n).session = s /\ Frame("offer", s, t.n).type = "offer"
            /\ Frame("answer", s, 0).session = s /\ Frame("answer", s, 0).type = "answer"
        BY DEF Frame
      <3> QED BY <3>1, <3>2 DEF OfferMade, AnswerMade
    <2>2. PICK f \in Frames : /\ inbox' \in carried(p, f) /\ f.session = s
                              /\ f.type \notin {"bye", "session"}
      BY <2>1
    <2>3. (IF f.type \in {"bye", "session"} THEN {f.session} ELSE {}) = {}
      BY <2>2
    <2> QED BY <1>2, <1>3, <2>2, <2>3, CarriedSays DEF Inv, Shape
  <1>6. Steady
    BY <1>1 DEF Steady, Inv, Shape, ServerOK
  <1>7. Grows
    BY <1>4 DEF SameCalls, Grows
  <1>8. TasksStep
    BY <1>1, <1>7, OneTaskLess
  <1> QED BY <1>1, <1>4, <1>5, <1>6, <1>8, SameInv

LEMMA OnAnswerInv ==
  ASSUME Inv, NEW p \in Peers, OnAnswer(p)
  PROVE  Inv'
  <1> DEFINE i == calls[p][Head(inbox[p]).session]
  <1>1. /\ session' = session /\ silent' = silent /\ calls' = calls /\ up' = up
        /\ closing' = closing /\ dialled' = dialled /\ drops' = drops /\ lost' = lost
        /\ tasks' = tasks /\ inbox[p] # << >> /\ Head(inbox[p]).type = "answer" /\ Taken(p)
    BY DEF OnAnswer, server, counts, Received
  <1>2. /\ QueuesOK /\ Head(inbox[p]).session \in DOMAIN session
        /\ \A q \in Peers \ {p} : inbox'[q] = inbox[q]
        /\ \A q \in Peers, s \in SessionIDs :
              /\ Heard(inbox'[q], s) => Heard(inbox[q], s)
              /\ Ordered(inbox[q], s) => Ordered(inbox'[q], s)
        /\ \A s \in SessionIDs :
              Heard(inbox[p], s) => Heard(inbox'[p], s) \/ Ends(Head(inbox[p]), s)
    BY <1>1, TakenSays DEF Inv, Shape
  <1>3. QueuesSay({})
    <2>1. \A s : ~Ends(Head(inbox[p]), s)
      BY <1>1 DEF Ends
    <2> QED BY <1>2, <2>1 DEF QueuesSay
  <1>4. SameCalls
    <2>1. CASE made' = made
      BY <1>1, <2>1 DEF SameCalls, Inv, Shape, ObjectsOK
    <2>2. CASE made' # made
      <3>1. i # 0 /\ made' = [made EXCEPT ![p][i].link = "stable"]
        BY <2>2 DEF OnAnswer
      <3>2. Head(inbox[p]).session \in SessionIDs
        BY <1>2, SessionsNamed
      <3>3. i \in DOMAIN made[p]
        BY <3>1, <3>2 DEF Inv, HeldIsOpen, Open
      <3> QED BY <1>1, <3>1, <3>3, LinkMoves DEF Inv, Shape
    <2> QED BY <2>1, <2>2
  <1>5. Steady
    BY <1>1 DEF Steady, Inv, Shape, ServerOK
  <1>6. TasksStep
    <2>1. Grows /\ Fresh({})
      BY <1>4 DEF SameCalls, Grows, Fresh
    <2>2. tasks' = tasks \cup {}
      BY <1>1
    <2> QED BY <1>1, <2>1, <2>2, TasksFrom DEF Inv, Shape
  <1> QED BY <1>1, <1>2, <1>3, <1>4, <1>5, <1>6, SameInv

LEMMA ConnectsInv ==
  ASSUME Inv, NEW p \in Peers, NEW i \in DOMAIN made[p], Connects(p, i)
  PROVE  Inv'
  <1>1. /\ session' = session /\ silent' = silent /\ calls' = calls /\ up' = up
        /\ inbox' = inbox /\ closing' = closing
        /\ dialled' = dialled /\ drops' = drops /\ lost' = lost
        /\ made' = [made EXCEPT ![p][i].link = "connected"]
        /\ tasks' = tasks \cup {Task("path", p, i, 0)}
    BY DEF Connects, server, counts, wires
  <1>2. SameCalls
    BY <1>1, LinkMoves DEF Inv, Shape
  <1>3. Grows
    BY <1>2 DEF SameCalls, Grows
  <1>4. Fresh({Task("path", p, i, 0)})
    <2>1. i \in Nat /\ i \in DOMAIN made'[p]
      BY <1>3, SessionsNamed DEF Grows
    <2>2. /\ Task("path", p, i, 0) \in Tasks /\ Task("path", p, i, 0).kind = "path"
          /\ Task("path", p, i, 0).peer = p /\ Task("path", p, i, 0).ref = i
      BY <2>1, OneTask
    <2> QED BY <2>1, <2>2 DEF Fresh
  <1>5. TasksStep
    BY <1>1, <1>3, <1>4, TasksFrom DEF Inv, Shape
  <1>6. Steady
    BY <1>1 DEF Steady, Inv, Shape, ServerOK
  <1> QED BY <1>1, <1>2, <1>5, <1>6, QuietQueues, SameInv

LEMMA PathReadInv ==
  ASSUME Inv, NEW t \in tasks, PathRead(t)
  PROVE  Inv'
  <1> DEFINE p == t.peer
             i == t.ref
  <1>1. /\ session' = session /\ silent' = silent /\ calls' = calls /\ up' = up
        /\ inbox' = inbox /\ closing' = closing
        /\ dialled' = dialled /\ drops' = drops /\ lost' = lost
        /\ made' = [made EXCEPT ![p][i].state = "connected"] /\ t.kind = "path"
        /\ tasks' = (tasks \ {t}) \cup reports(p, {i}, "connected")
    BY DEF PathRead, server, counts, wires
  <1>2. p \in Peers /\ i \in DOMAIN made[p]
    BY <1>1 DEF Inv, Shape, TasksOK, Tasks, Refers
  <1>3. SameCalls
    BY <1>1, <1>2, StateMoves DEF Inv, Shape
  <1>4. Grows
    BY <1>3 DEF SameCalls, Grows
  <1>5. Fresh(reports(p, {i}, "connected"))
    BY <1>2, <1>4, ReportsFresh DEF Inv, Shape
  <1>6. TasksStep
    <2>1. tasks \ {t} \subseteq tasks /\ \A x \in tasks : x.kind = "ended" => x \in tasks \ {t}
      BY <1>1
    <2> QED BY <1>1, <1>4, <1>5, <2>1, TasksFrom DEF Inv, Shape
  <1>7. Steady
    BY <1>1 DEF Steady, Inv, Shape, ServerOK
  <1> QED BY <1>1, <1>3, <1>6, <1>7, QuietQueues, SameInv

LEMMA LoseRequestInv ==
  ASSUME Inv, NEW t \in tasks, LoseRequest(t)
  PROVE  Inv'
  <1>1. /\ session' = session /\ silent' = silent /\ calls' = calls /\ up' = up
        /\ inbox' = inbox /\ closing' = closing /\ made' = made
        /\ dialled' = dialled /\ drops' = drops /\ lost' = lost + 1
        /\ tasks' = tasks \ {t}
    BY DEF LoseRequest, server, objects, wires
  <1>2. SameCalls
    BY <1>1 DEF SameCalls, Inv, Shape, ObjectsOK
  <1>3. Steady /\ lost' # 0
    BY <1>1 DEF Steady, Inv, Shape, ServerOK
  <1>4. Grows
    BY <1>2 DEF SameCalls, Grows
  <1>5. TasksStep
    BY <1>1, <1>3, <1>4, OneTaskLess
  <1> QED BY <1>1, <1>2, <1>3, <1>5, QuietQueues, SameInv

-----------------------------------------------------------------------------
(* The actions of a client that make a call or go on with one *)

\* callFor, for the object it would make.
goesOn(p, s, o, kind, n, rest) ==
    IF calls[p][s] # 0
    THEN tasks' = rest \cup {Task(kind, p, calls[p][s], n)} /\ UNCHANGED objects
    ELSE /\ made' = [made EXCEPT ![p] = Append(@, o)]
         /\ calls' = [calls EXCEPT ![p][s] = Len(made[p]) + 1]
         /\ tasks' = rest \cup {Task(kind, p, Len(made[p]) + 1, n)}

\* The calls that are held were held before, but for the one of s.
HoldsOnBut(p, s, o) ==
    \A q \in Peers, r \in SessionIDs : calls'[q][r] # 0 =>
       \/ /\ calls'[q][r] = calls[q][r]
          /\ made'[q][calls[q][r]].late = made[q][calls[q][r]].late
       \/ q = p /\ r = s /\ made'[q][calls'[q][r]] = o

\* The call the session has, or one more, and the task that goes on with it.
LEMMA callForMakes ==
  ASSUME Inv, NEW p \in Peers, NEW s \in DOMAIN session,
         NEW o \in CallObjects, ~o.shut, o.session = s,
         NEW kind \in {"offering", "answering"}, NEW n \in Nat, NEW rest,
         rest \subseteq tasks, \A t \in tasks : t.kind = "ended" => t \in rest,
         goesOn(p, s, o, kind, n, rest), session' = session
  PROVE  /\ TasksStep /\ ObjectsOK' /\ HeldIsOpen' /\ Grows /\ ShutIsDue
         /\ HoldsOnBut(p, s, o)
  <1>1. s \in SessionIDs /\ calls[p][s] \in Nat
    BY SessionsNamed DEF Inv, Shape, ObjectsOK
  <1>2. ASSUME NEW i \in Nat, i \in DOMAIN made'[p], Grows,
               tasks' = rest \cup {Task(kind, p, i, n)}
        PROVE  TasksStep
    <2>1. /\ Task(kind, p, i, n) \in Tasks /\ Task(kind, p, i, n).kind = kind
          /\ Task(kind, p, i, n).peer = p /\ Task(kind, p, i, n).ref = i
      BY OneTask
    <2>2. Fresh({Task(kind, p, i, n)})
      BY <1>2, <2>1 DEF Fresh
    <2> QED BY <1>2, <2>2, TasksFrom DEF Inv, Shape
  <1>3. CASE calls[p][s] # 0
    <2>1. made' = made /\ calls' = calls /\ tasks' = rest \cup {Task(kind, p, calls[p][s], n)}
      BY <1>3 DEF goesOn, objects
    <2>2. SameCalls
      BY <2>1 DEF SameCalls, Inv, Shape, ObjectsOK
    <2>3. HeldIsOpen' /\ ObjectsOK' /\ Grows
      BY <2>2, SameHeld DEF Inv, Shape
    <2>4. HoldsOn /\ ShutIsDue
      BY <2>2, SameHolds DEF Inv, Shape
    <2>5. calls[p][s] \in DOMAIN made[p]
      BY <1>1, <1>3 DEF Inv, HeldIsOpen, Open
    <2>6. TasksStep
      BY <1>1, <1>2, <2>1, <2>3, <2>5
    <2> QED BY <2>3, <2>4, <2>6 DEF HoldsOn, HoldsOnBut
  <1>4. CASE calls[p][s] = 0
    <2> DEFINE m == Len(made[p])
    <2>1. /\ made' = [made EXCEPT ![p] = Append(made[p], o)]
          /\ calls' = [calls EXCEPT ![p] = [calls[p] EXCEPT ![s] = m + 1]]
          /\ tasks' = rest \cup {Task(kind, p, m + 1, n)}
      BY <1>4 DEF goesOn
    <2>3. Makes(p, s, o)
      BY <1>4, <2>1 DEF Makes
    <2>4. HeldIsOpen' /\ ObjectsOK' /\ Grows
      BY <1>1, <2>3, MakesHeld DEF Inv, Shape
    <2>5. /\ m \in Nat /\ DOMAIN made[p] = 1..m /\ DOMAIN made'[p] = 1..(m + 1)
          /\ made'[p][m + 1] = o /\ \A i \in 1..m : made'[p][i] = made[p][i]
          /\ calls'[p][s] = m + 1
          /\ \A r \in SessionIDs \ {s} : calls'[p][r] = calls[p][r]
          /\ \A q \in Peers \ {p} : made'[q] = made[q] /\ calls'[q] = calls[q]
          /\ \A i \in 1..(m + 1) : i \in 1..m \/ i = m + 1
      BY <1>1, <2>3, MakesObjects DEF Inv, Shape
    <2> HIDE DEF m
    <2>6. m + 1 \in Nat /\ m + 1 \in 1..(m + 1)
      BY <2>5
    <2>7. TasksStep
      BY <1>2, <2>1, <2>4, <2>5, <2>6
    <2>8. ShutIsDue
      BY <2>5 DEF ShutIsDue
    <2>9. ASSUME NEW q \in Peers, NEW r \in SessionIDs, calls'[q][r] # 0
          PROVE  \/ /\ calls'[q][r] = calls[q][r]
                    /\ made'[q][calls[q][r]].late = made[q][calls[q][r]].late
                 \/ q = p /\ r = s /\ made'[q][calls'[q][r]] = o
      <3>1. CASE q # p
        BY <2>5, <3>1
      <3>2. CASE q = p /\ r = s
        BY <2>5, <3>2
      <3>3. CASE q = p /\ r # s
        <4>1. calls'[p][r] = calls[p][r] /\ calls[p][r] # 0
          BY <2>5, <2>9, <3>3
        <4>2. calls[p][r] \in 1..m
          BY <2>5, <4>1 DEF Inv, HeldIsOpen, Open
        <4> QED BY <2>5, <3>3, <4>1, <4>2
      <3> QED BY <3>1, <3>2, <3>3
    <2> QED BY <2>4, <2>7, <2>8, <2>9 DEF HoldsOnBut
  <1> QED BY <1>3, <1>4

LEMMA DialledInv ==
  ASSUME Inv, NEW t \in tasks, Dialled(t)
  PROVE  Inv'
  <1> DEFINE p == t.peer
             s == t.ref
             rest == tasks \ {t}
             o == NewCall(s, TRUE)
  <1>1. /\ session' = session /\ silent' = silent /\ up' = up /\ inbox' = inbox
        /\ closing' = closing /\ dialled' = dialled /\ drops' = drops /\ lost' = lost
        /\ t.kind = "dialled" /\ callFor(p, s, TRUE, "offering", t.n, rest)
    BY DEF Dialled, server, counts, wires
  <1>2. p \in Peers /\ s \in DOMAIN session /\ t.n \in Nat
    BY <1>1 DEF Inv, Shape, TasksOK, Tasks, Refers
  <1>3. rest \subseteq tasks /\ \A x \in tasks : x.kind = "ended" => x \in rest
    BY <1>1
  <1> HIDE DEF rest
  <1>4. /\ TasksStep /\ ObjectsOK' /\ HeldIsOpen' /\ Grows /\ ShutIsDue
        /\ HoldsOnBut(p, s, o)
    <2>1. goesOn(p, s, o, "offering", t.n, rest)
      BY <1>1 DEF goesOn, callFor
    <2>2. o \in CallObjects /\ ~o.shut /\ o.session = s
      BY <1>2, SessionsNamed, NewObject
    <2> HIDE DEF o
    <2> QED BY <1>1, <1>2, <1>3, <2>1, <2>2, callForMakes
  <1>5. Steady
    BY <1>1 DEF Steady, Inv, Shape, ServerOK
  <1>6. WiresOK' /\ UpUnlessDropped' /\ HeardIsDue
    BY <1>1 DEF Inv, Shape, WiresOK, UpUnlessDropped, HeardIsDue
  <1>7. StillHeard
    <2> SUFFICES ASSUME NEW q \in Peers, NEW r \in SessionIDs, Told(q, r)'
                 PROVE  /\ up[q]
                        /\ Ordered(inbox[q], r) => Ordered(inbox'[q], r)
                        /\ calls'[q][r] # 0 /\ ~made'[q][calls'[q][r]].late =>
                              Heard(inbox'[q], r) \/ StillHeld(q, r)
      BY DEF StillHeard
    <2>1. up[q] /\ ~Live(r)
      BY <1>1 DEF Told, Live
    <2>2. ASSUME calls'[q][r] # 0, ~made'[q][calls'[q][r]].late
          PROVE  StillHeld(q, r)
      <3>1. /\ calls'[q][r] = calls[q][r]
            /\ made'[q][calls[q][r]].late = made[q][calls[q][r]].late
        <4>1. ~Live(s) => o.late
          BY DEF NewCall
        <4> HIDE DEF o
        <4> QED BY <1>4, <2>1, <2>2, <4>1 DEF HoldsOnBut
      <3> QED BY <1>1, <2>2, <3>1 DEF StillHeld
    <2> QED BY <1>1, <2>1, <2>2
  <1> QED BY <1>4, <1>5, <1>6, <1>7, SteadyInv

LEMMA OnOfferInv ==
  ASSUME Inv, NEW p \in Peers, OnOffer(p)
  PROVE  Inv'
  <1> DEFINE f == Head(inbox[p])
             s == f.session
             o == NewCall(s, FALSE)
  <1>1. /\ session' = session /\ silent' = silent /\ up' = up
        /\ closing' = closing /\ dialled' = dialled /\ drops' = drops /\ lost' = lost
        /\ inbox[p] # << >> /\ f.type = "offer" /\ Taken(p)
        /\ callFor(p, s, FALSE, "answering", f.n, tasks)
    BY DEF OnOffer, server, counts, Received
  <1>2. /\ QueuesOK /\ f \in Frames /\ s \in DOMAIN session
        /\ \A q \in Peers \ {p} : inbox'[q] = inbox[q]
        /\ \A q \in Peers, r \in SessionIDs :
              /\ Heard(inbox'[q], r) => Heard(inbox[q], r)
              /\ Ordered(inbox[q], r) => Ordered(inbox'[q], r)
        /\ \A r \in SessionIDs :
              /\ Heard(inbox[p], r) => Heard(inbox'[p], r) \/ Ends(f, r)
              /\ Ordered(inbox[p], r) /\ f.type = "offer" /\ f.session = r =>
                    Heard(inbox'[p], r)
    BY <1>1, TakenSays DEF Inv, Shape
  <1>3. f.n \in Nat /\ s \in SessionIDs
    BY <1>2 DEF Frames
  <1>4. /\ TasksStep /\ ObjectsOK' /\ HeldIsOpen' /\ Grows /\ ShutIsDue
        /\ HoldsOnBut(p, s, o)
    <2>1. goesOn(p, s, o, "answering", f.n, tasks)
      BY <1>1 DEF goesOn, callFor
    <2>2. o \in CallObjects /\ ~o.shut /\ o.session = s
      BY <1>3, NewObject
    <2> HIDE DEF o
    <2> QED BY <1>1, <1>2, <1>3, <2>1, <2>2, callForMakes
  <1>5. Steady
    BY <1>1 DEF Steady, Inv, Shape, ServerOK
  <1>6. WiresOK' /\ UpUnlessDropped'
    BY <1>1, <1>2 DEF Inv, Shape, WiresOK, UpUnlessDropped, QueuesOK
  <1>7. HeardIsDue
    BY <1>2, SessionsNamed DEF HeardIsDue
  <1> HIDE DEF f, o
  <1>8. StillHeard
    <2> SUFFICES ASSUME NEW q \in Peers, NEW r \in SessionIDs, Told(q, r)'
                 PROVE  /\ up[q]
                        /\ Ordered(inbox[q], r) => Ordered(inbox'[q], r)
                        /\ calls'[q][r] # 0 /\ ~made'[q][calls'[q][r]].late =>
                              Heard(inbox'[q], r) \/ StillHeld(q, r)
      BY DEF StillHeard
    <2>1. up[q] /\ Told(q, r)
      BY <1>1 DEF Told, Live
    <2>2. Ordered(inbox[q], r) /\ Ordered(inbox'[q], r)
      BY <1>2, <2>1 DEF Inv, OfferThenEnd
    <2>3. CASE q = p /\ r = s
      BY <1>1, <1>2, <2>1, <2>2, <2>3
    <2>4. CASE ~(q = p /\ r = s)
      <3>1. ~(q = p /\ Ends(f, r))
        BY <2>4 DEF Ends
      <3>2. Heard(inbox[q], r) => Heard(inbox'[q], r)
        BY <1>2, <3>1
      <3>3. ASSUME calls'[q][r] # 0, ~made'[q][calls'[q][r]].late
            PROVE  StillHeld(q, r)
        <4>1. /\ calls'[q][r] = calls[q][r]
              /\ made'[q][calls[q][r]].late = made[q][calls[q][r]].late
          BY <1>4, <2>4, <3>3 DEF HoldsOnBut
        <4> QED BY <3>2, <3>3, <4>1 DEF StillHeld
      <3> QED BY <2>1, <2>2, <3>3
    <2> QED BY <2>3, <2>4
  <1> QED BY <1>4, <1>5, <1>6, <1>7, <1>8, SteadyInv

-----------------------------------------------------------------------------
(* The actions of a client that close calls *)

\* Calls that are closed and reported.
LEMMA closeCallsReports ==
  ASSUME Inv, NEW p \in Peers, NEW some, NEW rest, session' = session, lost' \in Nat,
         rest \subseteq tasks, \A t \in tasks : t.kind = "ended" => t \in rest,
         closeCalls(p, some, TRUE, rest)
  PROVE  /\ Closes(p, some \cap Open(p))
         /\ TasksStep /\ ObjectsOK' /\ HeldIsOpen' /\ Grows /\ ShutIsDue /\ HoldsOn
         /\ \A i \in some \cap Open(p) : \A s : made[p][i].session = s => Due(s)'
  <1> DEFINE going == some \cap Open(p)
  <1>1. Closes(p, going) /\ going \subseteq Open(p) /\ going \subseteq DOMAIN made[p]
    BY CloseCloses DEF Inv, Shape, Open
  <1>2. tasks' = rest \cup reports(p, going, "ended")
    BY DEF closeCalls
  <1> HIDE DEF going
  <1>3. HeldIsOpen' /\ ObjectsOK' /\ Grows
    BY <1>1, ClosesHeld DEF Inv, Shape
  <1>4. HoldsOn
    BY <1>1, ClosesHolds DEF Inv, Shape
  <1>5. /\ Fresh(reports(p, going, "ended"))
        /\ \A i \in going : Live(made[p][i].session) =>
              \E t \in reports(p, going, "ended") :
                  /\ t.kind = "ended" /\ t.peer = p /\ t.ref = i
                  /\ made'[t.peer][t.ref].session = made[p][i].session
    BY <1>1, <1>3, ReportsFresh DEF Inv, Shape
  <1>6. TasksStep
    BY <1>2, <1>3, <1>5, TasksFrom DEF Inv, Shape
  <1>7. ASSUME NEW i \in going, NEW s, made[p][i].session = s
        PROVE  Due(s)'
    <2> SUFFICES ASSUME Live(s)' PROVE EndDue(s)'
      BY DEF Due
    <2>1. Live(s)
      BY DEF Live
    <2>2. PICK t \in reports(p, going, "ended") :
             t.kind = "ended" /\ made'[t.peer][t.ref].session = s
      BY <1>5, <1>7, <2>1
    <2> QED BY <1>2, <2>2 DEF EndDue, sessionOf
  <1>8. ShutIsDue
    <2> SUFFICES ASSUME NEW q \in Peers, NEW i \in DOMAIN made'[q], NEW s \in DOMAIN session,
                        made'[q][i].shut, made'[q][i].session = s
                 PROVE  (i \in DOMAIN made[q] /\ made[q][i].shut) \/ Due(s)'
      BY DEF ShutIsDue
    <2>1. CASE q # p
      BY <1>1, <2>1 DEF Closes
    <2>2. CASE q = p /\ i \in going
      <3>1. made[p][i].session = s
        BY <1>1, <2>2 DEF Closes
      <3> QED BY <1>7, <2>2, <3>1
    <2>3. CASE q = p /\ i \notin going
      BY <1>1, <2>3 DEF Closes
    <2> QED BY <2>1, <2>2, <2>3
  <1> QED BY <1>1, <1>3, <1>4, <1>6, <1>7, <1>8 DEF going

\* With the bye.
LEMMA closeCallInv ==
  ASSUME Inv, NEW p \in Peers, NEW i \in DOMAIN made[p], NEW rest,
         rest \subseteq tasks, \A t \in tasks : t.kind = "ended" => t \in rest,
         closeCall(p, i, rest), UNCHANGED <<session, silent, up, dialled, drops, lost>>,
         closing' \in [Peers -> Closing],
         \A q \in Peers : closing'[q].stage = "no" => closing[q].stage = "no"
  PROVE  Inv'
  <1> DEFINE s == made[p][i].session
             f == Frame("bye", s, 0)
  <1>1. s \in DOMAIN session /\ s \in SessionIDs
    BY SessionsNamed
  <1>2. Steady /\ lost' \in Nat /\ session' = session /\ up' = up
    BY DEF Steady, Inv, Shape, ServerOK
  <1>3. /\ TasksStep /\ ObjectsOK' /\ HeldIsOpen' /\ Grows /\ ShutIsDue /\ HoldsOn
        /\ \A j \in {i} \cap Open(p) : \A r : made[p][j].session = r => Due(r)'
    BY <1>2, closeCallsReports DEF closeCall
  <1>4. CASE i \in Open(p)
    <2>1. f \in Frames /\ f.session = s /\ f.type = "bye"
      BY <1>1 DEF Frame, Frames
    <2>2. inbox' \in carried(p, f)
      BY <1>4 DEF closeCall
    <2> HIDE DEF f
    <2>3. (IF f.type \in {"bye", "session"} THEN {f.session} ELSE {}) = {s}
      BY <2>1
    <2>4. QueuesOK /\ QueuesSay({s})
      BY <1>1, <2>1, <2>2, <2>3, CarriedSays DEF Inv, Shape
    <2>5. \A r \in {s} : Due(r)'
      BY <1>3, <1>4
    <2> QED BY <1>2, <1>3, <2>4, <2>5, ChannelKept
  <1>5. CASE i \notin Open(p)
    <2>1. inbox' = inbox
      BY <1>5 DEF closeCall
    <2>2. QueuesOK /\ QueuesSay({})
      BY <2>1, QuietQueues
    <2>3. \A r \in {} : Due(r)'
      OBVIOUS
    <2> QED BY <1>2, <1>3, <2>2, <2>3, ChannelKept
  <1> QED BY <1>4, <1>5

LEMMA HangUpInv ==
  ASSUME Inv, NEW p \in Peers, NEW i \in DOMAIN made[p], ConnectionFails(p, i) \/ HangUp(p, i)
  PROVE  Inv'
  <1>1. /\ closeCall(p, i, tasks) /\ UNCHANGED <<session, silent, up, dialled, drops, lost>>
        /\ closing' = closing
    BY DEF ConnectionFails, HangUp, server, counts
  <1>2. closing' \in [Peers -> Closing]
    BY <1>1 DEF Inv, Shape, WiresOK
  <1>3. \A q \in Peers : closing'[q].stage = "no" => closing[q].stage = "no"
    BY <1>1
  <1> QED BY <1>1, <1>2, <1>3, closeCallInv

LEMMA NegotiationFailsInv ==
  ASSUME Inv, NEW t \in tasks, NegotiationFails(t)
  PROVE  Inv'
  <1> DEFINE rest == tasks \ {t}
  <1>1. /\ closeCall(t.peer, t.ref, rest)
        /\ UNCHANGED <<session, silent, up, dialled, drops, lost>>
        /\ closing' = closing /\ t.kind \in {"offering", "answering"}
    BY DEF NegotiationFails, server, counts
  <1>2. closing' \in [Peers -> Closing]
    BY <1>1 DEF Inv, Shape, WiresOK
  <1>3. \A q \in Peers : closing'[q].stage = "no" => closing[q].stage = "no"
    BY <1>1
  <1>4. t.peer \in Peers /\ t.ref \in DOMAIN made[t.peer]
    BY <1>1 DEF Inv, Shape, TasksOK, Tasks, Refers
  <1>5. rest \subseteq tasks /\ \A x \in tasks : x.kind = "ended" => x \in rest
    BY <1>1
  <1> HIDE DEF rest
  <1> QED BY <1>1, <1>2, <1>3, <1>4, <1>5, closeCallInv

\* A frame that ends a call: the other side's report is still under way, or the
\* session has ended.
LEMMA OnEndedInv ==
  ASSUME Inv, NEW p \in Peers, OnEnded(p)
  PROVE  Inv'
  <1> DEFINE f == Head(inbox[p])
             s == f.session
             going == {calls[p][s]} \cap Open(p)
  <1>1. /\ session' = session /\ silent' = silent /\ up' = up
        /\ closing' = closing /\ dialled' = dialled /\ drops' = drops /\ lost' = lost
        /\ inbox[p] # << >> /\ f.type \in {"bye", "session"} /\ Taken(p)
        /\ closeCalls(p, {calls[p][s]}, FALSE, tasks)
    BY DEF OnEnded, server, counts, Received
  <1>2. /\ QueuesOK /\ f \in Frames /\ s \in DOMAIN session
        /\ \A q \in Peers \ {p} : inbox'[q] = inbox[q]
        /\ \A q \in Peers, r \in SessionIDs :
              /\ Heard(inbox'[q], r) => Heard(inbox[q], r)
              /\ Ordered(inbox[q], r) => Ordered(inbox'[q], r)
        /\ \A r \in SessionIDs : Heard(inbox[p], r) => Heard(inbox'[p], r) \/ Ends(f, r)
    BY <1>1, TakenSays DEF Inv, Shape
  <1>3. s \in SessionIDs
    BY <1>2 DEF Frames
  <1>4. Due(s)
    <2>1. inbox[p] \in Seq(Frames)
      BY DEF Inv, Shape, WiresOK
    <2>2. 1 \in DOMAIN inbox[p] /\ inbox[p][1] = f
      BY <1>1, <2>1, QueueTail
    <2>3. Heard(inbox[p], s)
      BY <1>1, <2>2 DEF Heard, Ends
    <2> QED BY <1>2, <2>3 DEF Inv, ClosedIsDue
  <1>5. Closes(p, going) /\ going \subseteq Open(p)
    BY <1>1, CloseCloses DEF Inv, Shape
  <1>6. HeldIsOpen' /\ ObjectsOK' /\ Grows
    BY <1>1, <1>5, ClosesHeld DEF Inv, Shape
  <1>7. HoldsOn
    BY <1>5, ClosesHolds DEF Inv, Shape
  <1>8. Steady
    BY <1>1 DEF Steady, Inv, Shape, ServerOK
  <1>9. TasksStep
    <2>1. tasks' = tasks \cup {} /\ Fresh({})
      BY <1>1 DEF closeCalls, Fresh
    <2> QED BY <1>1, <1>6, <2>1, TasksFrom DEF Inv, Shape
  <1>11. \A i \in going : made[p][i].session = s
    BY <1>3, OpenHeld DEF Inv, Shape, HeldIsOpen
  <1>12. calls'[p][s] = 0
    <2>1. CASE calls[p][s] = 0
      BY <1>3, <1>5, <2>1 DEF Closes
    <2>2. CASE calls[p][s] # 0
      <3>1. calls[p][s] \in going
        BY <1>3, <2>2 DEF Inv, HeldIsOpen
      <3>2. \E i \in going : made[p][i].session = s
        BY <1>11, <3>1
      <3> HIDE DEF going, f
      <3>3. calls'[p][s] = IF \E i \in going : made[p][i].session = s THEN 0
                                                                   ELSE calls[p][s]
        BY <1>3, <1>5 DEF Closes
      <3> QED BY <3>2, <3>3
    <2> QED BY <2>1, <2>2
  <1> HIDE DEF going, f
  <1>13. ShutIsDue
    <2> SUFFICES ASSUME NEW q \in Peers, NEW i \in DOMAIN made'[q], NEW r \in DOMAIN session,
                        made'[q][i].shut, made'[q][i].session = r
                 PROVE  (i \in DOMAIN made[q] /\ made[q][i].shut) \/ Due(r)'
      BY DEF ShutIsDue
    <2>1. CASE q # p
      BY <1>5, <2>1 DEF Closes
    <2>2. CASE q = p /\ i \in going
      <3>1. r = s
        BY <1>5, <1>11, <2>2 DEF Closes
      <3> QED BY <1>4, <1>6, <1>8, <1>9, <3>1, SteadyDue
    <2>3. CASE q = p /\ i \notin going
      BY <1>5, <2>3 DEF Closes
    <2> QED BY <2>1, <2>2, <2>3
  <1>14. WiresOK' /\ UpUnlessDropped'
    BY <1>1, <1>2 DEF Inv, Shape, WiresOK, UpUnlessDropped, QueuesOK
  <1>15. HeardIsDue
    BY <1>2, SessionsNamed DEF HeardIsDue
  <1>16. StillHeard
    <2> SUFFICES ASSUME NEW q \in Peers, NEW r \in SessionIDs, Told(q, r)'
                 PROVE  /\ up[q]
                        /\ Ordered(inbox[q], r) => Ordered(inbox'[q], r)
                        /\ calls'[q][r] # 0 /\ ~made'[q][calls'[q][r]].late =>
                              Heard(inbox'[q], r) \/ StillHeld(q, r)
      BY DEF StillHeard
    <2>1. up[q]
      BY <1>1 DEF Told
    <2>2. Ordered(inbox[q], r) => Ordered(inbox'[q], r)
      BY <1>2
    <2>3. ASSUME calls'[q][r] # 0, ~made'[q][calls'[q][r]].late
          PROVE  StillHeld(q, r)
      <3>1. ~(q = p /\ Ends(f, r))
        BY <1>12, <2>3 DEF Ends
      <3>2. Heard(inbox[q], r) => Heard(inbox'[q], r)
        BY <1>2, <3>1
      <3> QED BY <1>7, <2>3, <3>2 DEF StillHeld, HoldsOn
    <2> QED BY <2>1, <2>2, <2>3
  <1> QED BY <1>6, <1>8, <1>9, <1>13, <1>14, <1>15, <1>16, SteadyInv

-----------------------------------------------------------------------------
(* The channel of a client *)

\* The queue of p goes with its channel.
LEMMA Cleared ==
  ASSUME WiresOK, NEW p \in Peers, session' = session,
         inbox' = [inbox EXCEPT ![p] = << >>],
         up' \in [Peers -> BOOLEAN], closing' \in [Peers -> Closing]
  PROVE  /\ WiresOK' /\ HeardIsDue
         /\ \A q \in Peers \ {p} : inbox'[q] = inbox[q]
  <1>1. inbox \in [Peers -> Seq(Frames)] /\ << >> \in Seq(Frames)
    BY DEF WiresOK
  <1>2. inbox'[p] = << >> /\ \A q \in Peers \ {p} : inbox'[q] = inbox[q]
    BY <1>1
  <1>3. inbox' \in [Peers -> Seq(Frames)]
    BY <1>1
  <1>4. \A k \in DOMAIN << >> : FALSE
    OBVIOUS
  <1>5. WiresOK'
    BY <1>2, <1>3, <1>4 DEF WiresOK
  <1>6. HeardIsDue
    BY <1>2, <1>4 DEF HeardIsDue, Heard
  <1> QED BY <1>2, <1>5, <1>6

LEMMA ChannelDropsInv ==
  ASSUME Inv, NEW p \in Peers, ChannelDrops(p)
  PROVE  Inv'
  <1> DEFINE some == {i \in Open(p) : made[p][i].state = "connecting"}
  <1>1. /\ session' = session /\ silent' = silent /\ up' = [up EXCEPT ![p] = FALSE]
        /\ inbox' = [inbox EXCEPT ![p] = << >>]
        /\ closing' = closing /\ dialled' = dialled /\ drops' = drops + 1 /\ lost' = lost
        /\ closeCalls(p, some, TRUE, tasks)
    BY DEF ChannelDrops, server
  <1>2. Steady /\ lost' \in Nat /\ drops' # 0
    BY <1>1 DEF Steady, Inv, Shape, ServerOK
  <1> HIDE DEF some
  <1>3. TasksStep /\ ObjectsOK' /\ HeldIsOpen' /\ Grows /\ ShutIsDue
    BY <1>1, <1>2, closeCallsReports
  <1>4. up' \in [Peers -> BOOLEAN] /\ closing' \in [Peers -> Closing]
    BY <1>1 DEF Inv, Shape, WiresOK
  <1>5. WiresOK' /\ HeardIsDue
    BY <1>1, <1>4, Cleared DEF Inv, Shape
  <1>6. StillHeard /\ UpUnlessDropped'
    BY <1>2 DEF StillHeard, Told, UpUnlessDropped
  <1> QED BY <1>2, <1>3, <1>5, <1>6, SteadyInv

\* With close() out of the way, only a channel that dropped is down.
LEMMA ReopensInv ==
  ASSUME Inv, NEW p \in Peers, Reopens(p)
  PROVE  Inv'
  <1>1. /\ session' = session /\ silent' = silent /\ up' = [up EXCEPT ![p] = TRUE]
        /\ inbox' = inbox /\ made' = made /\ calls' = calls /\ tasks' = tasks
        /\ closing' = closing /\ dialled' = dialled /\ drops' = drops /\ lost' = lost
        /\ ~up[p] /\ closing[p].stage = "no"
    BY DEF Reopens, server, objects, counts
  <1>2. drops # 0
    BY <1>1 DEF Inv, UpUnlessDropped
  <1>3. SameCalls
    BY <1>1 DEF SameCalls, Inv, Shape, ObjectsOK
  <1>4. HeldIsOpen' /\ ObjectsOK' /\ Grows
    BY <1>1, <1>3, SameHeld DEF Inv, Shape
  <1>5. ShutIsDue
    BY <1>3, SameHolds DEF Inv, Shape
  <1>6. Steady
    BY <1>1 DEF Steady, Inv, Shape, ServerOK
  <1>7. TasksStep
    <2>1. tasks' = tasks \cup {} /\ Fresh({})
      BY <1>1 DEF Fresh
    <2> QED BY <1>1, <1>4, <2>1, TasksFrom DEF Inv, Shape
  <1>8. up' \in [Peers -> BOOLEAN]
    BY <1>1 DEF Inv, Shape, WiresOK
  <1>9. WiresOK' /\ HeardIsDue
    BY <1>1, <1>8 DEF Inv, Shape, WiresOK, HeardIsDue
  <1>10. StillHeard /\ UpUnlessDropped'
    BY <1>1, <1>2 DEF StillHeard, Told, UpUnlessDropped
  <1> QED BY <1>4, <1>5, <1>6, <1>7, <1>9, <1>10, SteadyInv

LEMMA closeNextInv ==
  ASSUME Inv, NEW p \in Peers, NEW todo, closeNext(p, todo), UNCHANGED <<server, counts>>
  PROVE  Inv'
  <1> DEFINE left == todo \cap Open(p)
  <1>1. /\ session' = session /\ silent' = silent /\ dialled' = dialled
        /\ drops' = drops /\ lost' = lost
    BY DEF server, counts
  <1>2. closing \in [Peers -> Closing]
    BY DEF Inv, Shape, WiresOK
  <1>3. CASE left = {}
    <2> DEFINE x == [stage |-> "done", on |-> 0, todo |-> {}]
    <2>1. /\ up' = [up EXCEPT ![p] = FALSE] /\ inbox' = [inbox EXCEPT ![p] = << >>]
          /\ closing' = [closing EXCEPT ![p] = x]
          /\ made' = made /\ calls' = calls /\ tasks' = tasks
      BY <1>3 DEF closeNext, objects
    <2>2. x \in Closing /\ x.stage = "done"
      BY DEF Closing
    <2> HIDE DEF x
    <2>3. /\ closing' \in [Peers -> Closing] /\ closing'[p] = x
          /\ \A q \in Peers \ {p} : closing'[q] = closing[q]
      BY <1>2, <2>1, <2>2
    <2>4. /\ up' \in [Peers -> BOOLEAN] /\ ~up'[p]
          /\ \A q \in Peers \ {p} : up'[q] = up[q]
      BY <2>1 DEF Inv, Shape, WiresOK
    <2>5. /\ WiresOK' /\ HeardIsDue
          /\ \A q \in Peers \ {p} : inbox'[q] = inbox[q]
      BY <1>1, <2>1, <2>3, <2>4, Cleared DEF Inv, Shape
    <2>6. SameCalls
      BY <2>1 DEF SameCalls, Inv, Shape, ObjectsOK
    <2>7. HeldIsOpen' /\ ObjectsOK' /\ Grows
      BY <1>1, <2>6, SameHeld DEF Inv, Shape
    <2>8. ShutIsDue
      BY <2>6, SameHolds DEF Inv, Shape
    <2>9. Steady
      BY <1>1 DEF Steady, Inv, Shape, ServerOK
    <2>10. TasksStep
      <3>1. tasks' = tasks \cup {} /\ Fresh({})
        BY <2>1 DEF Fresh
      <3> QED BY <1>1, <2>7, <3>1, TasksFrom DEF Inv, Shape
    <2>11. UpUnlessDropped'
      BY <1>1, <2>2, <2>3, <2>4 DEF Inv, UpUnlessDropped
    <2>12. StillHeard
      BY <2>1, <2>4, <2>5 DEF StillHeard, Told, StillHeld
    <2> QED BY <2>5, <2>7, <2>8, <2>9, <2>10, <2>11, <2>12, SteadyInv
  <1>4. CASE left # {}
    <2>1. PICK i \in left :
             /\ closeCall(p, i, tasks) /\ up' = up
             /\ closing' = [closing EXCEPT ![p] =
                              [stage |-> "calls", on |-> i, todo |-> left \ {i}]]
      BY <1>4 DEF closeNext
    <2>2. i \in DOMAIN made[p] /\ \A j \in left : j \in Nat
      BY SessionsNamed DEF Open
    <2> DEFINE x == [stage |-> "calls", on |-> i, todo |-> left \ {i}]
    <2>3. x \in Closing /\ x.stage = "calls"
      BY <2>2 DEF Closing
    <2> HIDE DEF x
    <2>4. closing' = [closing EXCEPT ![p] = x]
      BY <2>1 DEF x
    <2>5. /\ closing' \in [Peers -> Closing]
          /\ \A q \in Peers : closing'[q].stage = "no" => closing[q].stage = "no"
      BY <1>2, <2>3, <2>4
    <2> QED BY <1>1, <2>1, <2>2, <2>5, closeCallInv
  <1> QED BY <1>3, <1>4

-----------------------------------------------------------------------------
(* The server *)

\* call() is answered with a session that was live when the server had it.
LEMMA CallInv ==
  ASSUME Inv, NEW p \in Peers, Call(p)
  PROVE  Inv'
  <1> DEFINE n == Len(session)
  <1>1. /\ silent' = silent /\ made' = made /\ calls' = calls /\ up' = up /\ inbox' = inbox
        /\ closing' = closing /\ dialled' = dialled + 1 /\ drops' = drops /\ lost' = lost
    BY DEF Call, objects, wires
  <1>2. /\ session \in Seq({"negotiating", "connected", "ended"}) /\ n <= MaxSessions
        /\ n \in Nat /\ DOMAIN session = 1..n /\ MaxSessions \in Nat
        /\ dialled' \in Nat /\ drops \in Nat /\ lost \in Nat
    BY <1>1, PeerCallsOptions DEF Inv, Shape, ServerOK
  <1>3. SameCalls
    BY <1>1 DEF SameCalls, Inv, Shape, ObjectsOK
  <1>4. ASSUME NEW s \in Nat, s \in DOMAIN session', DOMAIN session \subseteq DOMAIN session',
               tasks' = tasks \cup {Task("dialled", p, s, dialled')}
        PROVE  /\ TasksOK' /\ tasks \subseteq tasks'
               /\ \A t \in tasks' : t \in tasks \/ t.kind = "dialled"
    <2>1. /\ Task("dialled", p, s, dialled') \in Tasks
          /\ Task("dialled", p, s, dialled').kind = "dialled"
          /\ Task("dialled", p, s, dialled').ref = s
      BY <1>2, OneTask
    <2>2. \A t \in tasks : t \in Tasks /\ Refers(t)'
      BY <1>1, <1>4 DEF Inv, Shape, TasksOK, Refers
    <2> QED BY <1>4, <2>1, <2>2 DEF TasksOK, Refers
  <1>5. CASE session' = session
    <2>1. PICK s \in DOMAIN session : tasks' = tasks \cup {Task("dialled", p, s, dialled')}
      <3>1. ~(session' = Append(session, "negotiating"))
        <4>1. Len(Append(session, "negotiating")) = n + 1
          BY <1>2
        <4>2. n # n + 1
          <5> HIDE DEF n
          <5> QED BY <1>2
        <4> QED BY <1>5, <4>1, <4>2
      <3> QED BY <1>1, <3>1 DEF Call
    <2>2. /\ TasksOK' /\ tasks \subseteq tasks'
          /\ \A t \in tasks' : t \in tasks \/ t.kind = "dialled"
      BY <1>2, <1>4, <1>5, <2>1
    <2>3. TasksStep
      BY <2>2 DEF TasksStep
    <2>4. Steady
      BY <1>1, <1>2, <1>5 DEF Steady
    <2> QED BY <1>1, <1>3, <2>3, <2>4, QuietQueues, SameInv
  <1>6. CASE session' # session
    <2>1. /\ n < MaxSessions /\ session' = Append(session, "negotiating")
          /\ tasks' = tasks \cup {Task("dialled", p, n + 1, dialled')}
      BY <1>1, <1>6 DEF Call
    <2>2. /\ DOMAIN session' = 1..(n + 1) /\ Len(session') = n + 1
          /\ session'[n + 1] = "negotiating"
          /\ session' \in Seq({"negotiating", "connected", "ended"})
          /\ \A s \in 1..n : session'[s] = session[s]
      BY <1>2, <2>1
    <2> HIDE DEF n
    <2>3. /\ n + 1 \in Nat /\ n + 1 \in 1..(n + 1) /\ 1..n \subseteq 1..(n + 1)
          /\ \A s \in 1..(n + 1) : s \in 1..n \/ s = n + 1
          /\ n + 1 <= MaxSessions /\ n + 1 \notin 1..n
      BY <1>2, <2>1
    <2>4. DOMAIN session \subseteq DOMAIN session' /\ n + 1 \in DOMAIN session'
      BY <1>2, <2>2, <2>3
    <2>5. /\ TasksOK' /\ tasks \subseteq tasks'
          /\ \A t \in tasks' : t \in tasks \/ t.kind = "dialled"
      BY <1>4, <2>1, <2>3, <2>4
    <2>6. HeldIsOpen' /\ ObjectsOK' /\ Grows
      BY <1>3, <2>4, SameHeld DEF Inv, Shape
    <2>7. ServerOK' /\ WiresOK' /\ UpUnlessDropped'
      <3>1. ServerOK'
        BY <1>1, <1>2, <2>2, <2>3 DEF ServerOK
      <3>2. WiresOK' /\ UpUnlessDropped'
        BY <1>1, <2>4 DEF Inv, Shape, WiresOK, UpUnlessDropped
      <3> QED BY <3>1, <3>2
    <2>8. \A s \in DOMAIN session : (Live(s)' <=> Live(s)) /\ s # n + 1
      BY <1>2, <2>2, <2>3, <2>4 DEF Live
    <2>9. ASSUME NEW s \in SessionIDs, s = n + 1 PROVE Live(s)'
      BY <2>2, <2>3, <2>9 DEF Live
    <2>10. ReportsAhead'
      <3> SUFFICES ASSUME NEW t \in tasks', t.kind \in {"connected", "ended"}
                   PROVE  canMove(session'[made[t.peer][t.ref].session], t.kind)
        BY <1>1 DEF ReportsAhead, sessionOf
      <3>1. t \in tasks
        BY <2>5
      <3>2. t.peer \in Peers /\ t.ref \in DOMAIN made[t.peer]
        BY <3>1 DEF Inv, Shape, TasksOK, Tasks, Refers
      <3>3. made[t.peer][t.ref].session \in 1..n
        BY <1>2, <3>2 DEF Inv, Shape, ObjectsOK
      <3>4. canMove(session[made[t.peer][t.ref].session], t.kind)
        BY <3>1 DEF Inv, ReportsAhead, sessionOf
      <3> QED BY <2>2, <3>3, <3>4
    <2>11. ASSUME NEW s \in DOMAIN session, Due(s) PROVE Due(s)'
      BY <1>1, <2>5, <2>8, <2>11 DEF Due, EndDue, sessionOf
    <2>12. ClosedIsDue'
      <3>1. \A q \in Peers : \A i \in DOMAIN made[q] : made[q][i].session \in DOMAIN session
        BY DEF Inv, Shape, ObjectsOK
      <3>2. \A q \in Peers : \A s : Heard(inbox[q], s) => s \in DOMAIN session
        BY DEF Heard, Ends, Inv, Shape, WiresOK
      <3> QED BY <1>1, <2>11, <3>1, <3>2 DEF Inv, ClosedIsDue
    <2>13. ASSUME NEW q \in Peers, NEW s \in SessionIDs, Told(q, s)' PROVE Told(q, s)
      <3>1. s \in 1..n
        BY <1>2, <2>2, <2>3, <2>9, <2>13 DEF Told
      <3> QED BY <1>1, <1>2, <2>8, <2>13, <3>1 DEF Told
    <2>14. HeldIsHeard' /\ OfferThenEnd'
      BY <1>1, <2>13 DEF Inv, HeldIsHeard, OfferThenEnd
    <2> QED BY <2>5, <2>6, <2>7, <2>10, <2>12, <2>14 DEF Inv, Shape
  <1> QED BY <1>5, <1>6

\* A session moves to where it can: whoever is told hears of the end last.
LEMMA MoveInv ==
  ASSUME Inv, NEW s \in DOMAIN session, NEW to \in {"connected", "ended"},
         canMove(session[s], to), move(s, to),
         UNCHANGED <<made, calls, up, closing, dialled, drops, lost>>,
         \/ to = "connected" /\ silent' = silent /\ inbox' = inbox
         \/ to = "ended" /\ silent' = silent /\ SessionEnded(s)
         \/ to = "ended" /\ silent' = silent \cup {s} /\ inbox' = inbox
  PROVE  Inv'
  <1>1. /\ session \in Seq({"negotiating", "connected", "ended"}) /\ s \in SessionIDs
        /\ session' = [session EXCEPT ![s] = to]
        /\ tasks' = {t \in tasks : t.kind \in {"connected", "ended"} =>
                                      sessionOf(t) # s \/ canMove(to, t.kind)}
    BY SessionsNamed DEF move, Inv, Shape, ServerOK
  <1>2. /\ session' \in Seq({"negotiating", "connected", "ended"})
        /\ DOMAIN session' = DOMAIN session /\ Len(session') = Len(session)
        /\ session'[s] = to /\ \A r \in DOMAIN session \ {s} : session'[r] = session[r]
    BY <1>1
  <1>3. /\ Live(s) /\ (Live(s)' <=> to = "connected")
        /\ \A r : r # s => (Live(r)' <=> Live(r))
    BY <1>1, <1>2 DEF Live, canMove
  <1>4. SameCalls
    BY DEF SameCalls, Inv, Shape, ObjectsOK
  <1>5. HeldIsOpen' /\ ObjectsOK' /\ Grows
    BY <1>2, <1>4, SameHeld DEF Inv, Shape
  <1>6. ServerOK' /\ TasksOK'
    BY <1>1, <1>2 DEF Inv, Shape, ServerOK, TasksOK, Refers
  <1>7. ReportsAhead'
    <2> SUFFICES ASSUME NEW t \in tasks', t.kind \in {"connected", "ended"}
                 PROVE  canMove(session'[sessionOf(t)], t.kind)
      BY DEF ReportsAhead, sessionOf
    <2>1. t \in tasks /\ (sessionOf(t) # s \/ canMove(to, t.kind))
      BY <1>1
    <2>2. sessionOf(t) \in DOMAIN session
      BY <2>1 DEF Inv, Shape, TasksOK, Tasks, Refers, ObjectsOK, sessionOf
    <2>3. canMove(session[sessionOf(t)], t.kind)
      BY <2>1 DEF Inv, ReportsAhead
    <2> QED BY <1>2, <2>1, <2>2, <2>3
  <1>8. ASSUME NEW r, Due(r) PROVE Due(r)'
    <2> SUFFICES ASSUME Live(r)', lost = 0 PROVE EndDue(r)'
      BY DEF Due
    <2>1. Live(r) /\ (r = s => to = "connected")
      BY <1>3
    <2>2. PICK t \in tasks : t.kind = "ended" /\ sessionOf(t) = r
      BY <1>8, <2>1 DEF Due, EndDue
    <2>3. t \in tasks'
      BY <1>1, <2>1, <2>2 DEF canMove
    <2> QED BY <2>2, <2>3 DEF EndDue, sessionOf
  \* What the queues say after it.
  <1>9. /\ QueuesOK
        /\ \A q \in Peers, r \in SessionIDs :
              /\ Heard(inbox'[q], r) => Heard(inbox[q], r) \/ (r = s /\ to = "ended")
              /\ r # s /\ Heard(inbox[q], r) => Heard(inbox'[q], r)
              /\ r # s /\ Ordered(inbox[q], r) => Ordered(inbox'[q], r)
        /\ \A q \in Peers : to = "ended" /\ s \notin silent' /\ up[q] =>
              Heard(inbox'[q], s) /\ Ordered(inbox'[q], s)
    <2>1. CASE inbox' = inbox /\ (to = "connected" \/ silent' = silent \cup {s})
      BY <2>1 DEF Inv, Shape, WiresOK, QueuesOK
    <2>2. CASE to = "ended" /\ SessionEnded(s)
      <3> DEFINE f == Frame("session", s, 0)
      <3>1. f \in Frames /\ f.session = s /\ \A r : Ends(f, r) <=> r = s
        BY <1>1 DEF Frame, Frames, Ends
      <3>2. inbox' = [q \in Peers |-> IF up[q] THEN Append(inbox[q], f) ELSE inbox[q]]
        BY <2>2 DEF SessionEnded
      <3> HIDE DEF f
      <3>3. ASSUME NEW q \in Peers
            PROVE  /\ inbox'[q] \in Seq(Frames)
                   /\ \A k \in DOMAIN inbox'[q] : inbox'[q][k].session \in DOMAIN session
                   /\ \A r \in SessionIDs :
                        /\ Heard(inbox'[q], r) => Heard(inbox[q], r) \/ r = s
                        /\ r # s /\ Heard(inbox[q], r) => Heard(inbox'[q], r)
                        /\ r # s /\ Ordered(inbox[q], r) => Ordered(inbox'[q], r)
                   /\ up[q] => Heard(inbox'[q], s) /\ Ordered(inbox'[q], s)
        <4>1. /\ inbox[q] \in Seq(Frames)
              /\ \A k \in DOMAIN inbox[q] : inbox[q][k].session \in DOMAIN session
          BY DEF Inv, Shape, WiresOK
        <4>2. CASE ~up[q]
          <5>1. inbox'[q] = inbox[q]
            BY <3>2, <4>2
          <5> QED BY <4>1, <4>2, <5>1
        <4>3. CASE up[q]
          <5>1. inbox'[q] = Append(inbox[q], f)
            BY <3>2, <4>3
          <5>2. /\ Append(inbox[q], f) \in Seq(Frames)
                /\ \A k \in DOMAIN Append(inbox[q], f) :
                      \/ k \in DOMAIN inbox[q] /\ Append(inbox[q], f)[k] = inbox[q][k]
                      \/ Append(inbox[q], f)[k] = f
            BY <3>1, <4>1, QueueAppend
          <5>3. \A r : /\ Heard(Append(inbox[q], f), r) <=> Heard(inbox[q], r) \/ Ends(f, r)
                       /\ f.session # r /\ Ordered(inbox[q], r) =>
                             Ordered(Append(inbox[q], f), r)
                       /\ Ends(f, r) => Ordered(Append(inbox[q], f), r)
            BY <3>1, <4>1, QueueAppend
          <5>4. \A k \in DOMAIN inbox'[q] : inbox'[q][k].session \in DOMAIN session
            BY <3>1, <4>1, <5>1, <5>2
          <5> QED BY <3>1, <5>1, <5>2, <5>3, <5>4
        <4> QED BY <4>2, <4>3
      <3>4. inbox' \in [Peers -> Seq(Frames)]
        BY <3>2, <3>3
      <3> QED BY <2>2, <3>3, <3>4 DEF QueuesOK
    <2> QED BY <2>1, <2>2
  <1>10. WiresOK' /\ UpUnlessDropped'
    BY <1>2, <1>9 DEF Inv, Shape, WiresOK, UpUnlessDropped, QueuesOK
  <1>11. ClosedIsDue'
    <2>1. ASSUME NEW q \in Peers, NEW r \in DOMAIN session, Heard(inbox'[q], r)
          PROVE  Due(r)'
      <3>1. r \in SessionIDs
        BY SessionsNamed
      <3>2. CASE Heard(inbox[q], r)
        BY <1>8, <3>2 DEF Inv, ClosedIsDue
      <3>3. CASE r = s /\ to = "ended"
        BY <1>3, <3>3 DEF Due
      <3> QED BY <1>9, <2>1, <3>1, <3>2, <3>3
    <2>2. ASSUME NEW q \in Peers, NEW i \in DOMAIN made[q], NEW r \in DOMAIN session,
                 made[q][i].shut, made[q][i].session = r
          PROVE  Due(r)'
      BY <1>8, <2>2 DEF Inv, ClosedIsDue
    <2> QED BY <1>2, <2>1, <2>2 DEF ClosedIsDue
  <1>12. ASSUME NEW q \in Peers, NEW r \in SessionIDs, Told(q, r)'
         PROVE  /\ Ordered(inbox'[q], r)
                /\ calls[q][r] # 0 /\ ~made[q][calls[q][r]].late => Heard(inbox'[q], r)
    <2>1. up[q] /\ ~Live(r)' /\ r \notin silent' /\ drops = 0 /\ r \in DOMAIN session
      BY <1>2, <1>12 DEF Told
    <2>2. CASE r = s
      <3>1. to = "ended"
        BY <1>3, <2>1, <2>2
      <3> QED BY <1>9, <2>1, <2>2, <3>1
    <2>3. CASE r # s
      <3>1. Told(q, r)
        BY <1>3, <2>1, <2>3 DEF Told
      <3>2. Ordered(inbox[q], r)
        BY <3>1 DEF Inv, OfferThenEnd
      <3>3. calls[q][r] # 0 /\ ~made[q][calls[q][r]].late => Heard(inbox[q], r)
        BY <3>1 DEF Inv, HeldIsHeard
      <3> QED BY <1>9, <2>3, <3>2, <3>3
    <2> QED BY <2>2, <2>3
  <1>13. HeldIsHeard' /\ OfferThenEnd'
    BY <1>12 DEF HeldIsHeard, OfferThenEnd
  <1> QED BY <1>5, <1>6, <1>7, <1>10, <1>11, <1>13 DEF Inv, Shape

LEMMA ServerInv ==
  ASSUME Inv, \/ \E t \in tasks : ServeReport(t)
              \/ \E s \in DOMAIN session : TimesOut(s) \/ SweepCloses(s)
  PROVE  Inv'
  <1>1. ASSUME NEW t \in tasks, ServeReport(t) PROVE Inv'
    <2> DEFINE s == sessionOf(t)
    <2>1. /\ t.kind \in {"connected", "ended"} /\ move(s, t.kind)
          /\ UNCHANGED <<made, calls, up, closing, dialled, drops, lost>>
          /\ silent' = silent
          /\ t.kind = "ended" => SessionEnded(s)
          /\ t.kind = "connected" => inbox' = inbox
      BY <1>1 DEF ServeReport, objects, counts
    <2>2. s \in DOMAIN session
      BY <2>1 DEF Inv, Shape, TasksOK, Tasks, Refers, ObjectsOK, sessionOf
    <2>3. canMove(session[s], t.kind)
      BY <2>1 DEF Inv, ReportsAhead
    <2> HIDE DEF s
    <2> QED BY <2>1, <2>2, <2>3, MoveInv
  <1>2. ASSUME NEW s \in DOMAIN session, TimesOut(s) PROVE Inv'
    <2>1. /\ canMove(session[s], "ended") /\ move(s, "ended")
          /\ UNCHANGED <<made, calls, up, closing, dialled, drops, lost>>
          /\ silent' = silent \cup {s} /\ inbox' = inbox
      BY <1>2 DEF TimesOut, canMove, objects, wires, counts
    <2> QED BY <2>1, MoveInv
  <1>3. ASSUME NEW s \in DOMAIN session, SweepCloses(s) PROVE Inv'
    <2>1. /\ canMove(session[s], "ended") /\ move(s, "ended")
          /\ UNCHANGED <<made, calls, up, closing, dialled, drops, lost>>
          /\ silent' = silent /\ SessionEnded(s)
      BY <1>3 DEF SweepCloses, canMove, Live, objects, counts
    <2> QED BY <2>1, MoveInv
  <1> QED BY <1>1, <1>2, <1>3

-----------------------------------------------------------------------------
(* Theorems *)

LEMMA InitInv == Init => Inv
  <1> SUFFICES ASSUME Init PROVE Inv
    OBVIOUS
  <1>1. << >> \in Seq(CallObjects) /\ << >> \in Seq(Frames) /\ \A i \in DOMAIN << >> : FALSE
    OBVIOUS
  <1>2. session = << >> /\ Len(session) = 0
        /\ session \in Seq({"negotiating", "connected", "ended"})
    BY DEF Init
  <1>3. ServerOK
    BY <1>2, PeerCallsOptions DEF Init, ServerOK
  <1>4. ObjectsOK /\ TasksOK
    BY <1>1 DEF Init, ObjectsOK, TasksOK
  <1>5. [stage |-> "no", on |-> 0, todo |-> {}] \in Closing
    BY DEF Closing
  <1>6. WiresOK
    BY <1>1, <1>5 DEF Init, WiresOK
  <1>7. HeldIsOpen /\ ReportsAhead
    BY <1>1 DEF Init, HeldIsOpen, Open, ReportsAhead
  <1>8. ClosedIsDue /\ HeldIsHeard /\ OfferThenEnd
    BY <1>1, <1>2 DEF Init, ClosedIsDue, HeldIsHeard, OfferThenEnd, Told
  <1>9. UpUnlessDropped
    BY DEF Init, UpUnlessDropped
  <1> QED BY <1>3, <1>4, <1>6, <1>7, <1>8, <1>9 DEF Inv, Shape

LEMMA StepInv == Inv /\ [Next]_vars => Inv'
  <1> SUFFICES ASSUME Inv, [Next]_vars PROVE Inv'
    OBVIOUS
  <1>1. ASSUME NEW p \in Callers, Call(p) PROVE Inv'
    BY <1>1, CallInv, PeerCallsOptions
  <1>2. ASSUME NEW p \in Leavers, Close(p) PROVE Inv'
    <2>1. p \in Peers
      BY PeerCallsOptions
    <2> QED BY <1>2, <2>1, closeNextInv DEF Close
  <1>3. ASSUME NEW p \in Peers, CloseGoesOn(p) PROVE Inv'
    BY <1>3, closeNextInv DEF CloseGoesOn
  <1>4. ASSUME NEW p \in Peers, ClientStep(p) PROVE Inv'
    BY <1>3, <1>4, OnOfferInv, OnAnswerInv, OnEndedInv, DialledInv, NegotiatedInv,
       NegotiationFailsInv, PathReadInv DEF ClientStep
  <1>5. ASSUME NEW p \in Peers, ChannelDrops(p) \/ Reopens(p) PROVE Inv'
    BY <1>5, ChannelDropsInv, ReopensInv
  <1>6. ASSUME NEW p \in Peers, NEW i \in DOMAIN made[p],
               Connects(p, i) \/ ConnectionFails(p, i) \/ HangUp(p, i)
        PROVE  Inv'
    BY <1>6, ConnectsInv, HangUpInv
  <1>7. CASE \/ ServerStep
             \/ \E s \in DOMAIN session : TimesOut(s) \/ SweepCloses(s)
    BY <1>7, ServerInv DEF ServerStep
  <1>8. ASSUME NEW t \in tasks, LoseRequest(t) PROVE Inv'
    BY <1>8, LoseRequestInv
  <1>9. CASE UNCHANGED vars
    BY <1>9 DEF vars, Inv, Shape, ServerOK, ObjectsOK, TasksOK, Refers, WiresOK,
       HeldIsOpen, Open, ReportsAhead, sessionOf, ClosedIsDue, Due, EndDue, HeldIsHeard,
       OfferThenEnd, UpUnlessDropped, Told, Live
  <1> QED BY <1>1, <1>2, <1>4, <1>5, <1>6, <1>7, <1>8, <1>9 DEF Next

LEMMA AlwaysInv == Spec => []Inv
  BY InitInv, StepInv, PTL DEF Spec

\* Whatever a task, a frame or the map of calls refers to exists: a call that
\* was suspended at an await finds the object it left (client.js:522-633).
THEOREM ShapeCorrect == Spec => []Shape
  BY AlwaysInv, PTL DEF Inv

\* The map of a client names exactly the calls that are not closed, each under
\* its own session (client.js:522-531, 612-615).
THEOREM HeldCorrect == Spec => []HeldIsOpen
  BY AlwaysInv, PTL DEF Inv

\* A session that one side has closed its call of is on its way to its end, as
\* long as no request is lost (client.js:607-633).
THEOREM UnderWayCorrect == Spec => []EndIsUnderWay
  <1>1. Inv => EndIsUnderWay
    <2> SUFFICES ASSUME Inv, NEW s \in SessionIDs, NEW p \in Peers, Live(s), lost = 0,
                        NEW i \in DOMAIN made[p] \ Open(p), made[p][i].session = s
                 PROVE  \E t \in tasks : t.kind = "ended" /\ sessionOf(t) = s
      BY DEF EndIsUnderWay
    <2>1. made[p][i].shut /\ s \in DOMAIN session
      BY DEF Open, Live
    <2>2. Due(s)
      BY <2>1 DEF Inv, ClosedIsDue
    <2> QED BY <2>2 DEF Due, EndDue
  <1> QED BY <1>1, AlwaysInv, PTL

\* A call that outlives its session has the frame that closes it on its way, so
\* long as the channel was never lost and the end was told (client.js:522-526).
THEOREM HeardCorrect == Spec => []EndIsHeard
  <1>1. Inv => EndIsHeard
    BY DEF Inv, HeldIsHeard, Told, Heard, Ends, EndIsHeard
  <1> QED BY <1>1, AlwaysInv, PTL


=============================================================================
