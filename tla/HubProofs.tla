------------------------------ MODULE HubProofs -----------------------------
(***************************************************************************)
(* Theorems about Hub, for every set of peers, connections and sessions.   *)
(***************************************************************************)
EXTENDS Hub, TLAPS

-----------------------------------------------------------------------------
(* The invariant *)

HeldByOwner == \A p \in DOMAIN conns : Owner[conns[p].conn] = p

\* The address that Route works with between its lookups stays the one it was
\* given by the session.
Addressed ==
    \A c \in Conns :
        LET h == handler[c]
        IN  /\ h.at \in {"sending", "writing"} =>
                  /\ h.msg.session \in Sessions
                  /\ Parties[h.msg.session] = {Owner[c], h.to} /\ h.to # Owner[c]
            /\ h.at = "writing" => Owner[h.on] = h.to

Inv ==
    /\ TypeOK /\ HeldByOwner /\ HeldIsServed /\ ReplacedIsClosing
    /\ Addressed /\ DeliveredToTheOther

-----------------------------------------------------------------------------
(* What a goroutine at each of its steps is about *)

LEMMA AtHandler ==
  ASSUME NEW h \in Handlers
  PROVE  /\ h.at = "accepted" => h = At("accepted")
         /\ h.at = "done" => h = At("done")
         /\ h.at = "replacing" => h.old \in Conns
         /\ h.at \in {"received", "asking"} => h.msg \in Messages
         /\ h.at = "sending" => h.msg \in Messages /\ h.to \in Peers
         /\ h.at = "writing" => h.msg \in Messages /\ h.to \in Peers /\ h.on \in Conns
         /\ h.at = "telling" => h.code \in Codes
         /\ h.at = "answering" => h.code \in Codes /\ h.on \in Conns
  <1>1. CASE h \in {At("accepted"), At("reading"), At("leaving"), At("done")}
    BY <1>1 DEF At
  <1>2. CASE h \in [at : {"replacing"}, old : Conns]
    BY <1>2
  <1>3. CASE h \in [at : {"received", "asking"}, msg : Messages]
    BY <1>3
  <1>4. CASE h \in [at : {"sending"}, msg : Messages, to : Peers]
    BY <1>4
  <1>5. CASE h \in [at : {"writing"}, msg : Messages, to : Peers, on : Conns]
    BY <1>5
  <1>6. CASE h \in [at : {"telling"}, code : Codes]
    BY <1>6
  <1>7. CASE h \in [at : {"answering"}, code : Codes, on : Conns]
    BY <1>7
  <1> QED BY <1>1, <1>2, <1>3, <1>4, <1>5, <1>6, <1>7 DEF Handlers

LEMMA IntoHandlers ==
  /\ At("reading") \in Handlers /\ At("leaving") \in Handlers /\ At("done") \in Handlers
  /\ \A c \in Conns : [at |-> "replacing", old |-> c] \in Handlers
  /\ \A m \in Messages : /\ [at |-> "received", msg |-> m] \in Handlers
                         /\ [at |-> "asking", msg |-> m] \in Handlers
  /\ \A m \in Messages, p \in Peers : [at |-> "sending", msg |-> m, to |-> p] \in Handlers
  /\ \A m \in Messages, p \in Peers, c \in Conns :
        [at |-> "writing", msg |-> m, to |-> p, on |-> c] \in Handlers
  /\ \A x \in Codes : [at |-> "telling", code |-> x] \in Handlers
  /\ \A x \in Codes, c \in Conns : [at |-> "answering", code |-> x, on |-> c] \in Handlers
  BY DEF Handlers

LEMMA closingOnlyCloses ==
  ASSUME TypeOK, NEW c \in Conns
  PROVE  /\ closing(c) \in [Conns -> {"open", "closing", "closed"}]
         /\ closing(c)[c] # "open"
         /\ \A d \in Conns : closing(c)[d] = "open" => socket[d] = "open"
  BY DEF TypeOK, closing

LEMMA InitInv == Init => Inv
  <1> SUFFICES ASSUME Init PROVE Inv
    OBVIOUS
  <1>1. TypeOK
    <2>1. At("accepted") \in Handlers
      BY DEF Handlers
    <2> QED BY <2>1, HubOptions DEF Init, TypeOK
  <1>2. HeldByOwner /\ HeldIsServed
    BY DEF Init, HeldByOwner, HeldIsServed
  <1>3. ReplacedIsClosing /\ Addressed /\ DeliveredToTheOther
    BY DEF Init, ReplacedIsClosing, Addressed, DeliveredToTheOther, At
  <1> QED BY <1>1, <1>2, <1>3 DEF Inv

\* A step of the goroutine of c that leaves every place in the hub to the
\* connection that has it, and opens nothing.
LEMMA PlacesKept ==
  ASSUME Inv, NEW c \in Conns, NEW h, Goes(c, h),
         handler[c].at \notin {"accepted", "replacing", "done"},
         h.at \notin {"accepted", "replacing", "done"},
         DOMAIN conns' = DOMAIN conns,
         \A p \in DOMAIN conns : conns'[p].conn = conns[p].conn,
         \A d \in Conns : socket'[d] = "open" => socket[d] = "open"
  PROVE  HeldByOwner' /\ HeldIsServed' /\ ReplacedIsClosing'
  <1>1. HeldByOwner'
    BY DEF Inv, HeldByOwner
  <1>2. /\ handler'[c] = h /\ \A d \in Conns \ {c} : handler'[d] = handler[d]
        /\ h # At("accepted") /\ h # At("done") /\ handler[c] # At("accepted")
    BY DEF Goes, Inv, TypeOK, At
  <1>3. HeldIsServed'
    <2> SUFFICES ASSUME NEW p \in DOMAIN conns
                 PROVE  handler'[conns[p].conn] \notin {At("accepted"), At("done")}
      BY DEF HeldIsServed
    <2>1. conns[p].conn \in Conns
      BY DEF Inv, TypeOK, Holder
    <2> QED BY <1>2, <2>1 DEF Inv, HeldIsServed
  <1>4. ReplacedIsClosing'
    <2> SUFFICES ASSUME NEW d \in Conns,
                        socket'[d] = "open", handler'[d] # At("accepted"),
                        ~holds(Owner[d], d)'
                 PROVE  \E e \in Conns : handler'[e] = [at |-> "replacing", old |-> d]
      BY DEF ReplacedIsClosing
    <2>1. socket[d] = "open" /\ handler[d] # At("accepted")
      BY <1>2
    <2>2. ~holds(Owner[d], d)
      BY DEF holds
    <2>3. PICK e \in Conns : handler[e] = [at |-> "replacing", old |-> d]
      BY <2>1, <2>2 DEF Inv, ReplacedIsClosing
    <2> QED BY <1>2, <2>3
  <1> QED BY <1>1, <1>3, <1>4

\* What is left to show of such a step.
LEMMA GoesInv ==
  ASSUME Inv, NEW c \in Conns, NEW h \in Handlers, Goes(c, h), TypeOK',
         HeldByOwner', HeldIsServed', ReplacedIsClosing',
         h.at \in {"sending", "writing"} =>
              /\ h.msg.session \in Sessions
              /\ Parties[h.msg.session] = {Owner[c], h.to} /\ h.to # Owner[c],
         h.at = "writing" => Owner[h.on] = h.to,
         DeliveredToTheOther'
  PROVE  Inv'
  <1>1. handler'[c] = h /\ \A d \in Conns \ {c} : handler'[d] = handler[d]
    BY DEF Goes, Inv, TypeOK
  <1>2. Addressed'
    BY <1>1 DEF Inv, Addressed
  <1> QED BY <1>2 DEF Inv

-----------------------------------------------------------------------------
(* The actions *)

LEMMA RegisterInv ==
  ASSUME Inv, NEW c \in Conns, Register(c)
  PROVE  Inv'
  <1> DEFINE p == Owner[c]
             h == afterRegister(p)
  <1>1. p \in Peers
    BY HubOptions
  <1>2. handler[c] = At("accepted") /\ Goes(c, h) /\ socket' = socket /\ live' = live
        /\ clock' = clock /\ frames' = frames /\ passed' = passed /\ delivered' = delivered
    BY DEF Register
  <1>3. /\ DOMAIN conns' = DOMAIN conns \cup {p}
        /\ conns'[p] = [conn |-> c, sent |-> 0, windowFrom |-> clock]
        /\ \A q \in DOMAIN conns \ {p} : conns'[q] = conns[q]
    BY DEF Register
  <1>4. h \in Handlers /\ h.at \in {"replacing", "reading"}
    BY IntoHandlers DEF afterRegister, At, Inv, TypeOK, Holder
  <1>5. handler'[c] = h /\ \A d \in Conns \ {c} : handler'[d] = handler[d]
    BY <1>2 DEF Goes, Inv, TypeOK
  <1>6. TypeOK'
    <2>1. conns' \in [DOMAIN conns' -> Holder]
      <3>1. conns'[p] \in Holder
        BY <1>3 DEF Inv, TypeOK, Holder
      <3>2. \A q \in DOMAIN conns' : conns'[q] \in Holder
        BY <1>3, <3>1 DEF Inv, TypeOK
      <3> QED BY <3>2 DEF Register
    <2>2. handler' \in [Conns -> Handlers]
      BY <1>2, <1>4 DEF Goes, Inv, TypeOK
    <2> QED BY <1>1, <1>2, <1>3, <2>1, <2>2 DEF Inv, TypeOK
  <1>7. HeldByOwner'
    BY <1>3 DEF Inv, HeldByOwner
  <1>8. HeldIsServed'
    <2> SUFFICES ASSUME NEW q \in DOMAIN conns'
                 PROVE  handler'[conns'[q].conn] \notin {At("accepted"), At("done")}
      BY DEF HeldIsServed
    <2>1. CASE q = p
      BY <1>3, <1>4, <1>5, <2>1 DEF At
    <2>2. CASE q # p
      <3>1. q \in DOMAIN conns /\ conns'[q] = conns[q]
        BY <1>3, <2>2
      <3>2. conns[q].conn \in Conns /\ conns[q].conn # c
        BY <1>2, <3>1 DEF Inv, TypeOK, Holder, HeldIsServed
      <3> QED BY <1>5, <3>1, <3>2 DEF Inv, HeldIsServed
    <2> QED BY <2>1, <2>2
  <1>9. ReplacedIsClosing'
    <2> SUFFICES ASSUME NEW d \in Conns,
                        socket[d] = "open", handler'[d] # At("accepted"),
                        ~holds(Owner[d], d)'
                 PROVE  \E e \in Conns : handler'[e] = [at |-> "replacing", old |-> d]
      BY <1>2 DEF ReplacedIsClosing
    <2>1. d # c
      BY <1>3 DEF holds
    <2>2. CASE holds(Owner[d], d)
      <3>1. Owner[d] = p
        BY <1>3, <2>2 DEF holds
      <3>2. h = [at |-> "replacing", old |-> d]
        BY <2>2, <3>1 DEF holds, afterRegister
      <3> QED BY <1>5, <3>2
    <2>3. CASE ~holds(Owner[d], d)
      <3>1. PICK e \in Conns : handler[e] = [at |-> "replacing", old |-> d]
        BY <1>5, <2>1, <2>3 DEF Inv, ReplacedIsClosing
      <3>2. e # c
        BY <1>2, <3>1 DEF At
      <3> QED BY <1>5, <3>1, <3>2
    <2> QED BY <2>2, <2>3
  <1>10. DeliveredToTheOther'
    BY <1>2 DEF Inv, DeliveredToTheOther
  <1> HIDE DEF h
  <1> QED BY <1>2, <1>4, <1>6, <1>7, <1>8, <1>9, <1>10, GoesInv

LEMMA CloseReplacedInv ==
  ASSUME Inv, NEW c \in Conns, CloseReplaced(c)
  PROVE  Inv'
  <1> DEFINE old == handler[c].old
  <1>1. handler[c].at = "replacing" /\ Goes(c, At("reading")) /\ socket' = closing(old)
        /\ conns' = conns /\ live' = live /\ clock' = clock /\ frames' = frames
        /\ passed' = passed /\ delivered' = delivered
    BY DEF CloseReplaced
  <1>2. old \in Conns
    BY <1>1, AtHandler DEF Inv, TypeOK
  <1>3. /\ socket' \in [Conns -> {"open", "closing", "closed"}]
        /\ socket'[old] # "open"
        /\ \A d \in Conns : socket'[d] = "open" => socket[d] = "open"
    BY <1>1, <1>2, closingOnlyCloses DEF Inv
  <1>4. /\ handler'[c] = At("reading") /\ \A d \in Conns \ {c} : handler'[d] = handler[d]
        /\ handler[c] # At("accepted")
    BY <1>1 DEF Goes, Inv, TypeOK, At
  <1>5. TypeOK'
    BY <1>1, <1>3, IntoHandlers DEF Goes, Inv, TypeOK
  <1>6. HeldByOwner' /\ DeliveredToTheOther'
    BY <1>1 DEF Inv, HeldByOwner, DeliveredToTheOther
  <1>7. HeldIsServed'
    <2> SUFFICES ASSUME NEW p \in DOMAIN conns
                 PROVE  handler'[conns[p].conn] \notin {At("accepted"), At("done")}
      BY <1>1 DEF HeldIsServed
    <2>1. conns[p].conn \in Conns
      BY DEF Inv, TypeOK, Holder
    <2>2. At("reading") \notin {At("accepted"), At("done")}
      BY DEF At
    <2> QED BY <1>4, <2>1, <2>2 DEF Inv, HeldIsServed
  <1>8. ReplacedIsClosing'
    <2> SUFFICES ASSUME NEW d \in Conns,
                        socket'[d] = "open", handler'[d] # At("accepted"),
                        ~holds(Owner[d], d)'
                 PROVE  \E e \in Conns : handler'[e] = [at |-> "replacing", old |-> d]
      BY DEF ReplacedIsClosing
    <2>1. socket[d] = "open" /\ handler[d] # At("accepted") /\ ~holds(Owner[d], d)
      BY <1>1, <1>3, <1>4 DEF holds
    <2>2. PICK e \in Conns : handler[e] = [at |-> "replacing", old |-> d]
      BY <2>1 DEF Inv, ReplacedIsClosing
    <2>3. e # c
      BY <1>3, <2>2
    <2> QED BY <1>4, <2>2, <2>3
  <1> HIDE DEF old
  <1> QED BY <1>1, <1>5, <1>6, <1>7, <1>8, GoesInv, IntoHandlers DEF At

LEMMA LeaveInv ==
  ASSUME Inv, NEW c \in Conns, Leave(c)
  PROVE  Inv'
  <1>1. handler[c] = At("leaving") /\ Goes(c, At("done"))
        /\ socket' = [socket EXCEPT ![c] = "closed"]
        /\ live' = live /\ clock' = clock /\ frames' = frames
        /\ passed' = passed /\ delivered' = delivered
    BY DEF Leave
  <1>2. /\ conns' = [p \in DOMAIN conns' |-> conns[p]]
        /\ DOMAIN conns' = {p \in DOMAIN conns : conns[p].conn # c}
    BY DEF Leave, without, Restrict
  <1>3. handler'[c] = At("done") /\ \A d \in Conns \ {c} : handler'[d] = handler[d]
    BY <1>1 DEF Goes, Inv, TypeOK
  <1>4. TypeOK'
    <2>1. conns' \in [DOMAIN conns' -> Holder] /\ DOMAIN conns' \subseteq Peers
      BY <1>2 DEF Inv, TypeOK
    <2> QED BY <1>1, <2>1, IntoHandlers DEF Goes, Inv, TypeOK
  <1>5. HeldByOwner' /\ DeliveredToTheOther'
    BY <1>1, <1>2 DEF Inv, HeldByOwner, DeliveredToTheOther
  <1>6. HeldIsServed'
    <2> SUFFICES ASSUME NEW p \in DOMAIN conns, conns[p].conn # c
                 PROVE  handler'[conns[p].conn] \notin {At("accepted"), At("done")}
      BY <1>2 DEF HeldIsServed
    <2>1. conns[p].conn \in Conns
      BY DEF Inv, TypeOK, Holder
    <2> QED BY <1>3, <2>1 DEF Inv, HeldIsServed
  <1>7. ReplacedIsClosing'
    <2> SUFFICES ASSUME NEW d \in Conns,
                        socket'[d] = "open", handler'[d] # At("accepted"),
                        ~holds(Owner[d], d)'
                 PROVE  \E e \in Conns : handler'[e] = [at |-> "replacing", old |-> d]
      BY DEF ReplacedIsClosing
    <2>1. d # c /\ socket[d] = "open"
      BY <1>1 DEF Inv, TypeOK
    <2>2. handler[d] # At("accepted") /\ ~holds(Owner[d], d)
      BY <1>2, <1>3, <2>1 DEF holds
    <2>3. PICK e \in Conns : handler[e] = [at |-> "replacing", old |-> d]
      BY <2>1, <2>2 DEF Inv, ReplacedIsClosing
    <2>4. e # c
      BY <1>1, <2>3 DEF At
    <2> QED BY <1>3, <2>3, <2>4
  <1> QED BY <1>1, <1>4, <1>5, <1>6, <1>7, GoesInv, IntoHandlers DEF At

\* The steps of readLoop, Route, send and tell.
LEMMA RouteInv ==
  ASSUME Inv, NEW c \in Conns, NEW h \in Handlers, Goes(c, h),
         handler[c].at \notin {"accepted", "replacing", "done"},
         h.at \notin {"accepted", "replacing", "done"},
         h.at \in {"sending", "writing"} =>
              /\ h.msg.session \in Sessions
              /\ Parties[h.msg.session] = {Owner[c], h.to} /\ h.to # Owner[c],
         h.at = "writing" => Owner[h.on] = h.to,
         DOMAIN conns' = DOMAIN conns, conns' \in [DOMAIN conns -> Holder],
         \A p \in DOMAIN conns : conns'[p].conn = conns[p].conn,
         socket' \in [Conns -> {"open", "closing", "closed"}],
         \A d \in Conns : socket'[d] = "open" => socket[d] = "open",
         live' = live, clock' = clock,
         frames' \in [Conns -> Nat], passed' \in [Conns -> Seq(0..MaxClock)],
         delivered' \subseteq [from : Peers, by : Conns, session : Sessions, to : Conns],
         DeliveredToTheOther'
  PROVE  Inv'
  <1>1. HeldByOwner' /\ HeldIsServed' /\ ReplacedIsClosing'
    BY PlacesKept
  <1>2. handler' \in [Conns -> Handlers]
    BY DEF Goes, Inv, TypeOK
  <1>3. TypeOK'
    BY <1>2 DEF Inv, TypeOK
  <1> QED BY <1>1, <1>3, GoesInv

\* The same, of a step that neither writes nor closes.
LEMMA QuietRouteInv ==
  ASSUME Inv, NEW c \in Conns, NEW h \in Handlers, Goes(c, h),
         handler[c].at \notin {"accepted", "replacing", "done"},
         h.at \notin {"accepted", "replacing", "done"},
         h.at \in {"sending", "writing"} =>
              /\ h.msg.session \in Sessions
              /\ Parties[h.msg.session] = {Owner[c], h.to} /\ h.to # Owner[c],
         h.at = "writing" => Owner[h.on] = h.to,
         UNCHANGED <<conns, live, clock, passed, delivered>>,
         frames' \in [Conns -> Nat],
         socket' \in [Conns -> {"open", "closing", "closed"}],
         \A d \in Conns : socket'[d] = "open" => socket[d] = "open"
  PROVE  Inv'
  <1>1. DeliveredToTheOther'
    BY DEF Inv, DeliveredToTheOther
  <1>2. conns' = conns /\ live' = live /\ clock' = clock /\ passed' = passed
        /\ delivered' = delivered
    OBVIOUS
  <1>3. conns' \in [DOMAIN conns -> Holder] /\ passed' \in [Conns -> Seq(0..MaxClock)]
        /\ delivered' \subseteq [from : Peers, by : Conns, session : Sessions, to : Conns]
    BY <1>2 DEF Inv, TypeOK
  <1> QED BY <1>1, <1>2, <1>3, RouteInv

LEMMA ReadInv ==
  ASSUME Inv, NEW c \in Conns, NEW m \in Messages, Read(c, m)
  PROVE  Inv'
  <1> DEFINE h == [at |-> "received", msg |-> m]
  <1>1. h \in Handlers /\ h.at = "received" /\ handler[c].at = "reading"
    <2>1. h \in Handlers
      BY IntoHandlers
    <2>2. handler[c].at = "reading"
      BY DEF Read, At
    <2> QED BY <2>1, <2>2
  <1>2. frames' \in [Conns -> Nat]
    BY DEF Read, Inv, TypeOK
  <1>3. Goes(c, h) /\ socket' = socket /\ UNCHANGED <<conns, live, clock, passed, delivered>>
    BY DEF Read
  <1>4. socket \in [Conns -> {"open", "closing", "closed"}]
    BY DEF Inv, TypeOK
  <1> HIDE DEF h
  <1> QED BY <1>1, <1>2, <1>3, <1>4, QuietRouteInv

\* Steps that leave the sockets alone too.
LEMMA QuietStepInv ==
  ASSUME Inv, NEW c \in Conns,
         ReadFails(c) \/ RefuseType(c) \/ AskOther(c) \/ SendLookup(c) \/ TellLookup(c)
                      \/ TellWrite(c)
  PROVE  Inv'
  <1>1. /\ UNCHANGED <<conns, live, clock, passed, delivered>>
        /\ socket' = socket /\ frames' = frames
    BY DEF ReadFails, RefuseType, AskOther, SendLookup, TellLookup, TellWrite
  <1>2. handler[c] \in Handlers /\ Owner[c] \in Peers
    BY HubOptions DEF Inv, TypeOK
  <1>3. \E h \in Handlers :
          /\ Goes(c, h)
          /\ handler[c].at \notin {"accepted", "replacing", "done"}
          /\ h.at \notin {"accepted", "replacing", "done"}
          /\ h.at \in {"sending", "writing"} =>
              /\ h.msg.session \in Sessions
              /\ Parties[h.msg.session] = {Owner[c], h.to} /\ h.to # Owner[c]
          /\ h.at = "writing" => Owner[h.on] = h.to
    <2>1. CASE ReadFails(c)
      <3>1. Goes(c, At("leaving")) /\ handler[c].at = "reading" /\ At("leaving").at = "leaving"
        BY <2>1 DEF ReadFails, At
      <3> QED BY <3>1, IntoHandlers
    <2>2. CASE RefuseType(c)
      <3>1. handler[c].at = "received" /\ Goes(c, [at |-> "telling", code |-> "unknown_type"])
        BY <2>2 DEF RefuseType, Refuse
      <3>2. [at |-> "telling", code |-> "unknown_type"] \in Handlers
        BY IntoHandlers DEF Codes
      <3> QED BY <3>1, <3>2
    <2>3. CASE AskOther(c)
      <3> DEFINE m == handler[c].msg
      <3>1. handler[c].at = "asking" /\ m \in Messages
        BY <1>2, <2>3, AtHandler DEF AskOther
      <3>2. CASE Refuse(c, "not_in_session")
        <4>1. [at |-> "telling", code |-> "not_in_session"] \in Handlers
          BY IntoHandlers DEF Codes
        <4> QED BY <3>1, <3>2, <4>1 DEF Refuse
      <3>3. ASSUME NEW q \in others(m.session, Owner[c]),
                   Goes(c, [at |-> "sending", msg |-> m, to |-> q])
            PROVE  \E h \in Handlers :
                      /\ Goes(c, h)
                      /\ handler[c].at \notin {"accepted", "replacing", "done"}
                      /\ h.at \notin {"accepted", "replacing", "done"}
                      /\ h.at \in {"sending", "writing"} =>
                          /\ h.msg.session \in Sessions
                          /\ Parties[h.msg.session] = {Owner[c], h.to} /\ h.to # Owner[c]
                      /\ h.at = "writing" => Owner[h.on] = h.to
        <4>1. m.session \in Sessions /\ Owner[c] \in Parties[m.session]
              /\ q \in Parties[m.session] /\ q # Owner[c]
          BY <3>3 DEF others, Inv, TypeOK
        <4>2. PICK u \in Peers, v \in Peers : Parties[m.session] = {u, v}
          BY <4>1, HubOptions
        <4>3. q \in Peers /\ Parties[m.session] = {Owner[c], q}
          BY <4>1, <4>2
        <4>4. [at |-> "sending", msg |-> m, to |-> q] \in Handlers
          BY <3>1, <4>3, IntoHandlers
        <4> QED BY <3>1, <3>3, <4>1, <4>3, <4>4
      <3> QED BY <2>3, <3>2, <3>3 DEF AskOther
    <2>4. CASE SendLookup(c)
      <3> DEFINE g == handler[c]
      <3>1. g.at = "sending" /\ g.msg \in Messages /\ g.to \in Peers
        BY <1>2, <2>4, AtHandler DEF SendLookup
      <3>2. CASE g.to \in DOMAIN conns
        <4> DEFINE h == [at |-> "writing", msg |-> g.msg, to |-> g.to, on |-> conns[g.to].conn]
        <4>1. conns[g.to].conn \in Conns /\ Owner[conns[g.to].conn] = g.to
          BY <3>2 DEF Inv, TypeOK, Holder, HeldByOwner
        <4>2. h \in Handlers /\ Goes(c, h)
          BY <2>4, <3>1, <3>2, <4>1, IntoHandlers DEF SendLookup
        <4>3. g.msg.session \in Sessions
              /\ Parties[g.msg.session] = {Owner[c], g.to} /\ g.to # Owner[c]
          BY <3>1 DEF Inv, Addressed
        <4> QED BY <3>1, <4>1, <4>2, <4>3
      <3>3. CASE g.to \notin DOMAIN conns
        <4>1. [at |-> "telling", code |-> "peer_not_connected"] \in Handlers
          BY IntoHandlers DEF Codes
        <4> QED BY <2>4, <3>1, <3>3, <4>1 DEF SendLookup, Refuse
      <3> QED BY <3>2, <3>3
    <2>5. CASE TellLookup(c)
      <3>1. handler[c].at = "telling" /\ handler[c].code \in Codes
        BY <1>2, <2>5, AtHandler DEF TellLookup
      <3>2. CASE Owner[c] \in DOMAIN conns
        <4> DEFINE h == [at |-> "answering", code |-> handler[c].code,
                         on |-> conns[Owner[c]].conn]
        <4>1. conns[Owner[c]].conn \in Conns
          BY <3>2 DEF Inv, TypeOK, Holder
        <4>2. h \in Handlers /\ Goes(c, h)
          BY <2>5, <3>1, <3>2, <4>1, IntoHandlers DEF TellLookup
        <4> QED BY <3>1, <4>2
      <3>3. CASE Owner[c] \notin DOMAIN conns
        <4>1. Goes(c, At("leaving")) /\ At("leaving").at = "leaving"
          BY <2>5, <3>3 DEF TellLookup, At
        <4> QED BY <3>1, <4>1, IntoHandlers
      <3> QED BY <3>2, <3>3
    <2>6. CASE TellWrite(c)
      <3>1. Goes(c, At("reading")) /\ handler[c].at = "answering"
            /\ At("reading").at = "reading"
        BY <2>6 DEF TellWrite, At
      <3> QED BY <3>1, IntoHandlers
    <2> QED BY <2>1, <2>2, <2>3, <2>4, <2>5, <2>6
  <1>4. frames' \in [Conns -> Nat] /\ socket' \in [Conns -> {"open", "closing", "closed"}]
    BY <1>1 DEF Inv, TypeOK
  <1> QED BY <1>1, <1>3, <1>4, QuietRouteInv

\* A failed write closes the connection it was made on.
LEMMA WriteFailsInv ==
  ASSUME Inv, NEW c \in Conns, SendFails(c) \/ TellFails(c)
  PROVE  Inv'
  <1>1. /\ UNCHANGED <<conns, live, clock, passed, delivered>> /\ frames' = frames
        /\ handler[c].at \in {"writing", "answering"}
        /\ socket' = closing(handler[c].on)
    BY DEF SendFails, TellFails
  <1>2. handler[c].on \in Conns
    BY <1>1, AtHandler DEF Inv, TypeOK
  <1>3. /\ socket' \in [Conns -> {"open", "closing", "closed"}]
        /\ \A d \in Conns : socket'[d] = "open" => socket[d] = "open"
        /\ frames' \in [Conns -> Nat]
    BY <1>1, <1>2, closingOnlyCloses DEF Inv, TypeOK
  <1>4. \E h \in Handlers : Goes(c, h) /\ h.at \in {"telling", "leaving"}
    <2>1. CASE SendFails(c)
      <3>1. [at |-> "telling", code |-> "peer_not_connected"] \in Handlers
        BY IntoHandlers DEF Codes
      <3> QED BY <2>1, <3>1 DEF SendFails, Refuse
    <2>2. CASE TellFails(c)
      <3>1. At("leaving").at = "leaving"
        BY DEF At
      <3> QED BY <2>2, <3>1, IntoHandlers DEF TellFails
    <2> QED BY <2>1, <2>2
  <1> QED BY <1>1, <1>3, <1>4, QuietRouteInv

LEMMA ChargedHolder ==
  ASSUME NEW h \in Holder, clock \in 0..MaxClock, MaxClock \in Nat
  PROVE  charged(h) \in Holder /\ charged(h).conn = h.conn
  <1>1. clock \in Nat /\ h.sent \in Nat /\ h.conn \in Conns /\ h.windowFrom \in Nat
    BY DEF Holder
  <1>3. [h EXCEPT !.sent = @ + 1]
            = [conn |-> h.conn, sent |-> h.sent + 1, windowFrom |-> h.windowFrom]
    BY DEF Holder
  <1>4. CASE charged(h) = [conn |-> h.conn, sent |-> 1, windowFrom |-> clock]
    BY <1>1, <1>4 DEF Holder
  <1>5. CASE charged(h) = [conn |-> h.conn, sent |-> h.sent + 1, windowFrom |-> h.windowFrom]
    BY <1>1, <1>5 DEF Holder
  <1> QED BY <1>3, <1>4, <1>5 DEF charged

LEMMA AllowInv ==
  ASSUME Inv, NEW c \in Conns, Allow(c)
  PROVE  Inv'
  <1> DEFINE p == Owner[c]
             g == charged(conns[p])
  <1>1. handler[c].at = "received" /\ handler[c].msg \in Messages
    BY AtHandler DEF Allow, Inv, TypeOK
  <1>2. socket' = socket /\ live' = live /\ clock' = clock /\ frames' = frames
        /\ delivered' = delivered
    BY DEF Allow
  <1>3. /\ socket' \in [Conns -> {"open", "closing", "closed"}] /\ frames' \in [Conns -> Nat]
        /\ delivered' \subseteq [from : Peers, by : Conns, session : Sessions, to : Conns]
        /\ DeliveredToTheOther'
    BY <1>2 DEF Inv, TypeOK, DeliveredToTheOther
  <1>4. [at |-> "telling", code |-> "too_many_messages"] \in Handlers
        /\ [at |-> "asking", msg |-> handler[c].msg] \in Handlers
    BY <1>1, IntoHandlers DEF Codes
  <1>5. CASE p \notin DOMAIN conns
    <2>1. Goes(c, [at |-> "telling", code |-> "too_many_messages"])
          /\ conns' = conns /\ passed' = passed
      BY <1>5 DEF Allow, Refuse
    <2>2. conns' \in [DOMAIN conns -> Holder] /\ passed' \in [Conns -> Seq(0..MaxClock)]
      BY <2>1 DEF Inv, TypeOK
    <2> QED BY <1>1, <1>2, <1>3, <1>4, <2>1, <2>2, RouteInv
  <1>6. CASE p \in DOMAIN conns
    <2>1. conns[p] \in Holder /\ clock \in 0..MaxClock
      BY <1>6 DEF Inv, TypeOK
    <2>2. g \in Holder /\ g.conn = conns[p].conn
      BY <2>1, HubOptions, ChargedHolder
    <2> HIDE DEF g
    <2>3. conns' = [conns EXCEPT ![p] = g]
      BY <1>6 DEF Allow, g
    <2>4. /\ DOMAIN conns' = DOMAIN conns /\ conns' \in [DOMAIN conns -> Holder]
          /\ \A q \in DOMAIN conns : conns'[q].conn = conns[q].conn
      BY <2>2, <2>3 DEF Inv, TypeOK
    <2>5. CASE g.sent <= MessagesPerWindow
      <3>1. Goes(c, [at |-> "asking", msg |-> handler[c].msg])
            /\ passed' = [passed EXCEPT ![g.conn] = Append(@, clock)]
        BY <1>6, <2>5 DEF Allow, g
      <3>2. passed' \in [Conns -> Seq(0..MaxClock)]
        <4>1. passed \in [Conns -> Seq(0..MaxClock)] /\ g.conn \in Conns
          BY <2>2 DEF Inv, TypeOK, Holder
        <4>2. Append(passed[g.conn], clock) \in Seq(0..MaxClock)
          BY <2>1, <4>1
        <4> QED BY <3>1, <4>1, <4>2
      <3> QED BY <1>1, <1>2, <1>3, <1>4, <2>4, <3>1, <3>2, RouteInv
    <2>6. CASE ~(g.sent <= MessagesPerWindow)
      <3>1. Goes(c, [at |-> "telling", code |-> "too_many_messages"]) /\ passed' = passed
        BY <1>6, <2>6 DEF Allow, Refuse, g
      <3>2. passed' \in [Conns -> Seq(0..MaxClock)]
        BY <3>1 DEF Inv, TypeOK
      <3> QED BY <1>1, <1>2, <1>3, <1>4, <2>4, <3>1, <3>2, RouteInv
    <2> QED BY <2>5, <2>6
  <1> QED BY <1>5, <1>6

LEMMA SendWriteInv ==
  ASSUME Inv, NEW c \in Conns, SendWrite(c)
  PROVE  Inv'
  <1> DEFINE h == handler[c]
             w == [from |-> Owner[c], by |-> c, session |-> h.msg.session, to |-> h.on]
  <1>1. h.at = "writing" /\ h.on \in Conns /\ Owner[c] \in Peers
    BY AtHandler, HubOptions DEF SendWrite, Inv, TypeOK
  <1>2. /\ h.msg.session \in Sessions /\ Owner[h.on] = h.to
        /\ Parties[h.msg.session] = {Owner[c], h.to} /\ h.to # Owner[c]
    BY <1>1 DEF Inv, Addressed
  <1>3. /\ conns' = conns /\ socket' = socket /\ live' = live /\ clock' = clock
        /\ frames' = frames /\ passed' = passed /\ delivered' = delivered \cup {w}
        /\ Goes(c, At("reading"))
    BY DEF SendWrite
  <1>4. /\ conns' \in [DOMAIN conns -> Holder] /\ frames' \in [Conns -> Nat]
        /\ socket' \in [Conns -> {"open", "closing", "closed"}]
        /\ passed' \in [Conns -> Seq(0..MaxClock)]
    BY <1>3 DEF Inv, TypeOK
  <1>5. delivered' \subseteq [from : Peers, by : Conns, session : Sessions, to : Conns]
    BY <1>1, <1>2, <1>3 DEF Inv, TypeOK
  <1>6. DeliveredToTheOther'
    <2> SUFFICES ASSUME NEW d \in delivered'
                 PROVE  /\ d.from = Owner[d.by]
                        /\ Parties[d.session] = {d.from, Owner[d.to]}
                        /\ d.from # Owner[d.to]
      BY DEF DeliveredToTheOther
    <2>1. CASE d \in delivered
      BY <2>1 DEF Inv, DeliveredToTheOther
    <2>2. CASE d = w
      BY <1>1, <1>2, <2>2
    <2> QED BY <1>3, <2>1, <2>2
  <1>7. At("reading") \in Handlers /\ At("reading").at = "reading"
    BY IntoHandlers DEF At
  <1> QED BY <1>1, <1>3, <1>4, <1>5, <1>6, <1>7, RouteInv

\* What happens around the goroutines.
LEMMA AroundInv ==
  ASSUME Inv, \/ \E c \in Conns : SessionEndedFails(c) \/ Drop(c)
              \/ \E s \in Sessions : SessionEnds(s)
              \/ Tick
  PROVE  Inv'
  <1>1. handler' = handler /\ conns' = conns /\ delivered' = delivered /\ frames' = frames
        /\ passed' = passed
    BY DEF SessionEndedFails, Drop, SessionEnds, Tick
  <1>2. /\ socket' \in [Conns -> {"open", "closing", "closed"}]
        /\ \A d \in Conns : socket'[d] = "open" => socket[d] = "open"
    BY closingOnlyCloses DEF SessionEndedFails, Drop, SessionEnds, Tick, Inv, TypeOK
  <1>3. live' \subseteq Sessions /\ clock' \in 0..MaxClock
    BY HubOptions DEF SessionEndedFails, Drop, SessionEnds, Tick, Inv, TypeOK
  <1>4. TypeOK'
    BY <1>1, <1>2, <1>3 DEF Inv, TypeOK
  <1>5. HeldByOwner' /\ HeldIsServed' /\ Addressed' /\ DeliveredToTheOther'
    BY <1>1 DEF Inv, HeldByOwner, HeldIsServed, Addressed, DeliveredToTheOther
  <1>6. ReplacedIsClosing'
    BY <1>1, <1>2 DEF Inv, ReplacedIsClosing, holds
  <1> QED BY <1>4, <1>5, <1>6 DEF Inv

LEMMA StepInv == Inv /\ [Next]_vars => Inv'
  <1> SUFFICES ASSUME Inv, [Next]_vars PROVE Inv'
    OBVIOUS
  <1>1. ASSUME NEW c \in Conns, Register(c) PROVE Inv'
    BY <1>1, RegisterInv
  <1>2. ASSUME NEW c \in Conns, NEW m \in Messages, Read(c, m) PROVE Inv'
    BY <1>2, ReadInv
  <1>3. ASSUME NEW c \in Conns, Serve(c) PROVE Inv'
    BY <1>3, CloseReplacedInv, QuietStepInv, AllowInv, SendWriteInv, WriteFailsInv, LeaveInv
       DEF Serve
  <1>4. CASE \/ \E c \in Conns : SessionEndedFails(c) \/ Drop(c)
             \/ \E s \in Sessions : SessionEnds(s)
             \/ Tick
    BY <1>4, AroundInv
  <1>5. CASE UNCHANGED vars
    BY <1>5 DEF vars, Inv, TypeOK, HeldByOwner, HeldIsServed, ReplacedIsClosing, holds,
       Addressed, DeliveredToTheOther
  <1> QED BY <1>1, <1>2, <1>3, <1>4, <1>5 DEF Next

LEMMA AlwaysInv == Spec => []Inv
  BY InitInv, StepInv, PTL DEF Spec

-----------------------------------------------------------------------------
(* The allowance of a connection.  What the holder has counted says where its *)
(* hub window and the one before it lie in the history of what passed.        *)

\* The messages of the current hub window that passed.
counted(h) == IF h.sent <= MessagesPerWindow THEN h.sent ELSE MessagesPerWindow

\* Nothing passed after now; what passed before the current hub window is no
\* later than its start; and what passed before the hub window that was full at
\* most once more is a whole window older.
WindowOf(h, s, now) ==
    /\ h.windowFrom <= now
    /\ \A i \in 1..Len(s) :
          /\ s[i] <= now
          /\ i <= Len(s) - counted(h) => s[i] <= h.windowFrom
          /\ i <= Len(s) - counted(h) - MessagesPerWindow => s[i] + Window < h.windowFrom

Spread(s) ==
    \A i, j \in 1..Len(s) : j >= i + 2 * MessagesPerWindow => s[j] - s[i] > Window

WindowInv ==
    /\ \A c \in Conns : handler[c] = At("accepted") => passed[c] = << >>
    /\ \A p \in DOMAIN conns : WindowOf(conns[p], passed[conns[p].conn], clock)
    /\ \A c \in Conns : Spread(passed[c])

\* One more message of the window that runs, or the first of the next.
LEMMA OneMorePasses ==
  ASSUME NEW h \in Holder, NEW s \in Seq(0..MaxClock), MaxClock \in Nat,
         clock \in 0..MaxClock, WindowOf(h, s, clock), Spread(s),
         charged(h).sent <= MessagesPerWindow
  PROVE  /\ WindowOf(charged(h), Append(s, clock), clock)
         /\ Spread(Append(s, clock))
  <1> DEFINE n == Len(s)
             M == MessagesPerWindow
             u == Append(s, clock)
             g == charged(h)
  <1>1. /\ n \in Nat /\ M \in Nat \ {0} /\ Window \in Nat \ {0} /\ clock \in Nat
        /\ h.sent \in Nat /\ h.windowFrom \in Nat
        /\ \A i \in 1..n : s[i] \in Nat
    BY HubOptions DEF Holder
  <1>2. /\ u \in Seq(0..MaxClock) /\ Len(u) = n + 1 /\ u[n + 1] = clock
        /\ \A i \in 1..n : u[i] = s[i]
    OBVIOUS
  <1>3. /\ h.windowFrom <= clock
        /\ \A i \in 1..n : s[i] <= clock
        /\ \A i \in 1..n : i <= n - counted(h) => s[i] <= h.windowFrom
        /\ \A i \in 1..n : i <= n - counted(h) - M => s[i] + Window < h.windowFrom
    BY DEF WindowOf
  <1>4. counted(h) \in 0..M
    BY <1>1 DEF counted
  <1>5. /\ g.windowFrom <= clock /\ counted(g) \in 1..M /\ g.windowFrom \in Nat
        /\ \A i \in 1..n : i <= (n + 1) - counted(g) => s[i] <= g.windowFrom
        /\ \A i \in 1..n : i <= (n + 1) - counted(g) - M => s[i] + Window < g.windowFrom
    <2>1. CASE clock - h.windowFrom > Window
      <3>1. g = [conn |-> h.conn, sent |-> 1, windowFrom |-> clock]
        BY <2>1 DEF charged
      <3>2. counted(g) = 1 /\ g.windowFrom = clock
        BY <1>1, <3>1 DEF counted
      <3>3. \A i \in 1..n : i <= ((n + 1) - 1) - M => s[i] + Window < clock
        <4> SUFFICES ASSUME NEW i \in 1..n, i <= n - M PROVE s[i] + Window < clock
          BY <1>1
        <4>1. i <= n - counted(h)
          BY <1>1, <1>4
        <4>2. s[i] <= h.windowFrom /\ s[i] \in Nat
          BY <1>1, <1>3, <4>1
        <4> QED BY <1>1, <2>1, <4>2
      <3> HIDE DEF g
      <3> QED BY <1>1, <1>3, <3>2, <3>3
    <2>2. CASE ~(clock - h.windowFrom > Window)
      <3>1. g = [conn |-> h.conn, sent |-> h.sent + 1, windowFrom |-> h.windowFrom]
        BY <2>2 DEF charged, Holder
      <3>2. counted(g) = counted(h) + 1 /\ g.windowFrom = h.windowFrom
            /\ counted(g) \in 1..M
        BY <1>1, <3>1 DEF counted
      <3> HIDE DEF g
      <3>3. (n + 1) - counted(g) = n - counted(h)
        BY <1>1, <1>4, <3>2
      <3> QED BY <1>1, <1>3, <3>2, <3>3
    <2> QED BY <2>1, <2>2
  <1>6. WindowOf(g, u, clock)
    <2> HIDE DEF g, u
    <2> SUFFICES ASSUME NEW i \in 1..Len(u)
                 PROVE  /\ u[i] <= clock
                        /\ i <= Len(u) - counted(g) => u[i] <= g.windowFrom
                        /\ i <= Len(u) - counted(g) - M => u[i] + Window < g.windowFrom
      BY <1>5 DEF WindowOf
    <2>1. CASE i \in 1..n
      <3>1. u[i] = s[i] /\ Len(u) = n + 1
        BY <1>2, <2>1
      <3>2. /\ s[i] <= clock
            /\ i <= (n + 1) - counted(g) => s[i] <= g.windowFrom
            /\ i <= (n + 1) - counted(g) - M => s[i] + Window < g.windowFrom
        BY <1>3, <1>5, <2>1
      <3> QED BY <3>1, <3>2
    <2>2. CASE i = n + 1
      BY <1>1, <1>2, <1>5, <2>2
    <2>3. i \in 1..n \/ i = n + 1
      BY <1>1, <1>2
    <2> QED BY <2>1, <2>2, <2>3
  <1>7. Spread(u)
    <2>1. ASSUME NEW i \in 1..n, n + 1 >= i + 2 * M
          PROVE  clock - s[i] > Window
      <3>1. CASE clock - h.windowFrom > Window
        <4>1. i <= n - counted(h)
          BY <1>1, <1>4, <2>1
        <4> QED BY <1>1, <1>3, <3>1, <4>1
      <3>2. CASE ~(clock - h.windowFrom > Window)
        <4>1. charged(h).sent = h.sent + 1
          BY <3>2 DEF charged, Holder
        <4>2. counted(h) <= M - 1
          BY <1>1, <4>1 DEF counted
        <4>3. i <= n - counted(h) - M
          BY <1>1, <1>4, <2>1, <4>2
        <4>4. s[i] + Window < h.windowFrom /\ s[i] \in Nat /\ h.windowFrom <= clock
          BY <1>1, <1>3, <4>3
        <4> QED BY <1>1, <4>4
      <3> QED BY <3>1, <3>2
    <2> HIDE DEF u
    <2> SUFFICES ASSUME NEW i \in 1..(n + 1), NEW j \in 1..(n + 1), j >= i + 2 * M
                 PROVE  u[j] - u[i] > Window
      BY <1>2 DEF Spread
    <2>2. i \in 1..n
      BY <1>1
    <2>3. CASE j \in 1..n
      BY <1>2, <2>2, <2>3 DEF Spread
    <2>4. CASE j = n + 1
      BY <1>2, <2>1, <2>2, <2>4
    <2>5. j \in 1..n \/ j = n + 1
      <3> HIDE DEF n, M, g
      <3>1. n \in Nat
        BY <1>1
      <3> QED BY <3>1
    <2> QED BY <2>3, <2>4, <2>5
  <1> QED BY <1>6, <1>7

\* A message beyond the allowance is counted and changes nothing that matters.
LEMMA OneMoreRefused ==
  ASSUME NEW h \in Holder, NEW s, Len(s) \in Nat, MaxClock \in Nat,
         clock \in 0..MaxClock, WindowOf(h, s, clock),
         ~(charged(h).sent <= MessagesPerWindow)
  PROVE  WindowOf(charged(h), s, clock)
  <1>1. /\ MessagesPerWindow \in Nat \ {0} /\ h.sent \in Nat
    BY HubOptions DEF Holder
  <1>2. charged(h).sent = h.sent + 1 /\ charged(h).windowFrom = h.windowFrom
    BY <1>1 DEF charged, Holder
  <1>3. counted(charged(h)) = counted(h)
    BY <1>1, <1>2 DEF counted
  <1> QED BY <1>2, <1>3 DEF WindowOf

LEMMA InitWindow == Init => WindowInv
  <1>1. \A c \in Conns : Init => Spread(passed[c])
    BY DEF Init, Spread
  <1> QED BY <1>1 DEF Init, WindowInv

LEMMA StepWindow == Inv /\ WindowInv /\ [Next]_vars => WindowInv'
  <1> SUFFICES ASSUME Inv, WindowInv, [Next]_vars PROVE WindowInv'
    OBVIOUS
  <1>1. ASSUME NEW c \in Conns, Register(c) PROVE WindowInv'
    <2>1. /\ handler[c] = At("accepted") /\ Goes(c, afterRegister(Owner[c]))
          /\ passed' = passed /\ clock' = clock
          /\ DOMAIN conns' = DOMAIN conns \cup {Owner[c]}
          /\ conns'[Owner[c]] = [conn |-> c, sent |-> 0, windowFrom |-> clock]
          /\ \A q \in DOMAIN conns \ {Owner[c]} : conns'[q] = conns[q]
      BY <1>1 DEF Register
    <2>2. handler'[c] # At("accepted") /\ \A d \in Conns \ {c} : handler'[d] = handler[d]
      BY <2>1 DEF Goes, afterRegister, At, Inv, TypeOK
    <2>3. passed[c] = << >>
      BY <2>1 DEF WindowInv
    <2>4. WindowOf([conn |-> c, sent |-> 0, windowFrom |-> clock], << >>, clock)
      BY DEF WindowOf, Inv, TypeOK
    <2>5. \A p \in DOMAIN conns' : WindowOf(conns'[p], passed[conns'[p].conn], clock)
      BY <2>1, <2>3, <2>4 DEF WindowInv
    <2> QED BY <2>1, <2>2, <2>5 DEF WindowInv
  <1>2. ASSUME NEW c \in Conns, Allow(c) PROVE WindowInv'
    <2> DEFINE p == Owner[c]
               h == conns[p]
               g == charged(h)
    <2>1. handler[c].at = "received" /\ clock' = clock /\ clock \in 0..MaxClock
          /\ MaxClock \in Nat
      BY <1>2, HubOptions DEF Allow, Inv, TypeOK
    <2>2. \A d \in Conns : handler'[d] = At("accepted") => handler[d] = At("accepted")
      <3>1. PICK x : Goes(c, x) /\ x.at \in {"telling", "asking"}
        BY <1>2 DEF Allow, Refuse
      <3>2. x # At("accepted")
        BY <3>1 DEF At
      <3> QED BY <3>1, <3>2 DEF Goes, Inv, TypeOK
    <2>3. CASE p \notin DOMAIN conns
      <3>1. conns' = conns /\ passed' = passed
        BY <1>2, <2>3 DEF Allow
      <3> QED BY <2>1, <2>2, <3>1 DEF WindowInv
    <2>4. CASE p \in DOMAIN conns
      <3>1. h \in Holder /\ h.conn \in Conns /\ passed[h.conn] \in Seq(0..MaxClock)
        BY <2>4 DEF Inv, TypeOK, Holder
      <3>2. WindowOf(h, passed[h.conn], clock) /\ Spread(passed[h.conn])
        BY <2>4, <3>1 DEF WindowInv
      <3>3. g.conn = h.conn
        BY <2>1, <3>1, ChargedHolder
      <3>4. /\ DOMAIN conns' = DOMAIN conns /\ conns'[p] = g
            /\ \A q \in DOMAIN conns \ {p} : conns'[q] = conns[q]
        BY <1>2, <2>4 DEF Allow
      <3>5. \A q \in DOMAIN conns \ {p} : conns[q].conn # h.conn /\ conns[q].conn \in Conns
        BY <2>4 DEF Inv, HeldByOwner, TypeOK, Holder
      <3>6. CASE g.sent <= MessagesPerWindow
        <4>1. passed' = [passed EXCEPT ![h.conn] = Append(passed[h.conn], clock)]
          BY <1>2, <2>4, <3>3, <3>6 DEF Allow
        <4>2. /\ passed'[h.conn] = Append(passed[h.conn], clock)
              /\ \A d \in Conns \ {h.conn} : passed'[d] = passed[d]
          BY <3>1, <4>1 DEF Inv, TypeOK
        <4>3. WindowOf(g, passed'[h.conn], clock) /\ Spread(passed'[h.conn])
          BY <2>1, <3>1, <3>2, <3>6, <4>2, OneMorePasses
        <4>4. handler[h.conn] # At("accepted")
          BY <2>4 DEF Inv, HeldIsServed
        <4> HIDE DEF g, h
        <4>5. \A q \in DOMAIN conns' : WindowOf(conns'[q], passed'[conns'[q].conn], clock)
          <5> SUFFICES ASSUME NEW q \in DOMAIN conns
                       PROVE  WindowOf(conns'[q], passed'[conns'[q].conn], clock)
            BY <3>4
          <5>1. CASE q = p
            BY <3>3, <3>4, <4>3, <5>1
          <5>2. CASE q # p
            BY <3>4, <3>5, <4>2, <5>2 DEF WindowInv
          <5> QED BY <5>1, <5>2
        <4>6. \A d \in Conns : handler'[d] = At("accepted") => passed'[d] = << >>
          BY <2>2, <4>2, <4>4 DEF WindowInv
        <4>7. \A d \in Conns : Spread(passed'[d])
          BY <4>2, <4>3 DEF WindowInv
        <4> QED BY <2>1, <4>5, <4>6, <4>7 DEF WindowInv
      <3>7. CASE ~(g.sent <= MessagesPerWindow)
        <4>1. passed' = passed
          BY <1>2, <2>4, <3>7 DEF Allow
        <4>2. WindowOf(g, passed[h.conn], clock)
          BY <2>1, <3>1, <3>2, <3>7, OneMoreRefused
        <4> HIDE DEF g, h
        <4>3. \A q \in DOMAIN conns' : WindowOf(conns'[q], passed[conns'[q].conn], clock)
          BY <3>3, <3>4, <4>2 DEF WindowInv
        <4> QED BY <2>1, <2>2, <4>1, <4>3 DEF WindowInv
      <3> QED BY <3>6, <3>7
    <2> QED BY <2>3, <2>4
  <1>3. ASSUME NEW c \in Conns, Leave(c) PROVE WindowInv'
    <2>1. /\ conns' = [p \in DOMAIN conns' |-> conns[p]]
          /\ DOMAIN conns' \subseteq DOMAIN conns
          /\ passed' = passed /\ clock' = clock
      BY <1>3 DEF Leave, without, Restrict
    <2>2. \A d \in Conns : handler'[d] = At("accepted") => handler[d] = At("accepted")
      BY <1>3 DEF Leave, Goes, At, Inv, TypeOK
    <2> QED BY <2>1, <2>2 DEF WindowInv
  <1>4. ASSUME conns' = conns, passed' = passed, clock' \in Nat, clock <= clock',
               \A d \in Conns : handler'[d] = At("accepted") => handler[d] = At("accepted")
        PROVE  WindowInv'
    <2>1. ASSUME NEW p \in DOMAIN conns
          PROVE  WindowOf(conns[p], passed[conns[p].conn], clock')
      <3>1. /\ WindowOf(conns[p], passed[conns[p].conn], clock) /\ conns[p] \in Holder
            /\ passed[conns[p].conn] \in Seq(0..MaxClock) /\ conns[p].windowFrom \in Nat
            /\ clock \in Nat /\ MaxClock \in Nat
        BY HubOptions DEF WindowInv, Inv, TypeOK, Holder
      <3>2. \A i \in 1..Len(passed[conns[p].conn]) : passed[conns[p].conn][i] \in Nat
        BY <3>1
      <3> QED BY <1>4, <3>1, <3>2 DEF WindowOf
    <2> QED BY <1>4, <2>1 DEF WindowInv
  <1>5. CASE Tick
    BY <1>4, <1>5, HubOptions DEF Tick, Inv, TypeOK
  <1>6. CASE UNCHANGED <<conns, passed, clock, handler>>
    BY <1>4, <1>6, HubOptions DEF Inv, TypeOK
  <1>7. ASSUME NEW c \in Conns, UNCHANGED <<conns, passed, clock>>,
               NEW h, Goes(c, h), h # At("accepted")
        PROVE  WindowInv'
    <2>1. \A d \in Conns : handler'[d] = At("accepted") => handler[d] = At("accepted")
      BY <1>7 DEF Goes, Inv, TypeOK
    <2> QED BY <1>4, <1>7, <2>1, HubOptions DEF Inv, TypeOK
  <1>8. ASSUME NEW c \in Conns, NEW m \in Messages, Read(c, m) PROVE WindowInv'
    BY <1>7, <1>8 DEF Read, At
  <1>9. ASSUME NEW c \in Conns, Serve(c), ~Allow(c), ~Leave(c)
        PROVE  UNCHANGED <<conns, passed, clock>>
               /\ \E h : Goes(c, h) /\ h # At("accepted")
    <2>1. UNCHANGED <<conns, passed, clock>>
      BY <1>9 DEF Serve, CloseReplaced, ReadFails, RefuseType, AskOther, SendLookup,
         SendWrite, SendFails, TellLookup, TellWrite, TellFails
    <2>2. At("reading") # At("accepted") /\ At("leaving") # At("accepted")
      BY DEF At
    <2>3. CASE CloseReplaced(c) \/ ReadFails(c) \/ SendWrite(c) \/ TellWrite(c)
               \/ TellFails(c)
      BY <2>2, <2>3 DEF CloseReplaced, ReadFails, SendWrite, TellWrite, TellFails
    <2>4. \A code : [at |-> "telling", code |-> code] # At("accepted")
      BY DEF At
    <2>5. CASE RefuseType(c) \/ SendFails(c)
      BY <2>4, <2>5 DEF RefuseType, SendFails, Refuse
    <2>6. CASE AskOther(c)
      <3>1. \A q : [at |-> "sending", msg |-> handler[c].msg, to |-> q] # At("accepted")
        BY DEF At
      <3> QED BY <2>4, <2>6, <3>1 DEF AskOther, Refuse
    <2>7. CASE SendLookup(c)
      <3> DEFINE x == [at |-> "writing", msg |-> handler[c].msg, to |-> handler[c].to,
                       on |-> conns[handler[c].to].conn]
      <3>1. x # At("accepted")
        BY DEF At
      <3> QED BY <2>4, <2>7, <3>1 DEF SendLookup, Refuse
    <2>8. CASE TellLookup(c)
      <3>1. [at |-> "answering", code |-> handler[c].code, on |-> conns[Owner[c]].conn]
              # At("accepted")
        BY DEF At
      <3> QED BY <2>2, <2>8, <3>1 DEF TellLookup
    <2> QED BY <1>9, <2>1, <2>3, <2>5, <2>6, <2>7, <2>8 DEF Serve
  <1>10. ASSUME NEW c \in Conns, Serve(c) PROVE WindowInv'
    BY <1>2, <1>3, <1>7, <1>9, <1>10
  <1>11. CASE \/ \E c \in Conns : SessionEndedFails(c) \/ Drop(c)
              \/ \E s \in Sessions : SessionEnds(s)
    BY <1>6, <1>11 DEF SessionEndedFails, Drop, SessionEnds
  <1> QED BY <1>1, <1>5, <1>6, <1>8, <1>10, <1>11 DEF Next, vars

LEMMA AlwaysWindow == Spec => []WindowInv
  BY InitWindow, StepWindow, AlwaysInv, PTL DEF Spec

-----------------------------------------------------------------------------
(* Theorems *)

\* The hub's map and every goroutine of transport.Signal keep to their types.
THEOREM TypeCorrect == Spec => []TypeOK
  BY AlwaysInv, PTL DEF Inv

\* The hub never keeps a connection whose goroutine has returned, however many
\* connections a peer opens (hub.go:174-213).
THEOREM HeldCorrect == Spec => []HeldIsServed
  BY AlwaysInv, PTL DEF Inv

\* Every connection that was replaced is about to be closed by the one that
\* replaced it (hub.go:180-191).
THEOREM ReplacedCorrect == Spec => []ReplacedIsClosing
  BY AlwaysInv, PTL DEF Inv

\* Whatever was replaced, dropped or ended between the lookups of Route, what
\* is written goes from one party of a session to the other (hub.go:240-268).
THEOREM DeliveredCorrect == Spec => []DeliveredToTheOther
  BY AlwaysInv, PTL DEF Inv

\* However the messages of a connection fall across the windows the hub keeps for
\* it, no span of one window holds more than twice the allowance (hub.go:317-335).
THEOREM AllowanceCorrect == Spec => []WithinAllowance
  <1>1. Inv /\ WindowInv => WithinAllowance
    <2> SUFFICES ASSUME Inv, WindowInv, NEW c \in Conns,
                        NEW i \in DOMAIN passed[c], NEW j \in DOMAIN passed[c],
                        j >= i + 2 * MessagesPerWindow
                 PROVE  passed[c][j] - passed[c][i] > Window
      BY DEF WithinAllowance
    <2>1. passed[c] \in Seq(0..MaxClock) /\ Spread(passed[c])
      BY DEF Inv, TypeOK, WindowInv
    <2> QED BY <2>1 DEF Spread
  <1> QED BY <1>1, AlwaysInv, AlwaysWindow, PTL

\* A connection loses its place only to a newer one or by leaving
\* (hub.go:197-206).
THEOREM NewestCorrect == Spec => NewestIsKept
  <1> DEFINE Kept == \A p \in DOMAIN conns :
                       \/ p \in DOMAIN conns' /\ conns'[p].conn = conns[p].conn
                       \/ p \in DOMAIN conns' /\ handler[conns'[p].conn] = At("accepted")
                       \/ handler[conns[p].conn] = At("leaving")
  <1>1. Inv /\ [Next]_vars => [Kept]_vars
    <2> SUFFICES ASSUME Inv, Next, NEW p \in DOMAIN conns
                 PROVE  \/ p \in DOMAIN conns' /\ conns'[p].conn = conns[p].conn
                        \/ p \in DOMAIN conns' /\ handler[conns'[p].conn] = At("accepted")
                        \/ handler[conns[p].conn] = At("leaving")
      OBVIOUS
    <2>1. CASE conns' = conns
      BY <2>1
    <2>2. ASSUME NEW c \in Conns, Register(c)
          PROVE  p \in DOMAIN conns' /\ \/ conns'[p].conn = conns[p].conn
                                        \/ handler[conns'[p].conn] = At("accepted")
      BY <2>2 DEF Register
    <2>3. ASSUME NEW c \in Conns, Allow(c)
          PROVE  p \in DOMAIN conns' /\ conns'[p].conn = conns[p].conn
      <3>1. conns[p] \in Holder
        BY DEF Inv, TypeOK
      <3>2. charged(conns[p]).conn = conns[p].conn
        BY <3>1 DEF charged, Holder
      <3> QED BY <2>3, <3>2 DEF Allow
    <2>4. ASSUME NEW c \in Conns, Leave(c)
          PROVE  \/ p \in DOMAIN conns' /\ conns'[p].conn = conns[p].conn
                 \/ handler[conns[p].conn] = At("leaving")
      BY <2>4 DEF Leave, without, Restrict
    <2> QED BY <2>1, <2>2, <2>3, <2>4 DEF Next, Serve, Read, CloseReplaced, ReadFails,
          RefuseType, AskOther, SendLookup, SendWrite, SendFails, TellLookup, TellWrite,
          TellFails, SessionEndedFails, Drop, SessionEnds, Tick
  <1> QED BY <1>1, AlwaysInv, PTL DEF Spec, NewestIsKept

=============================================================================
