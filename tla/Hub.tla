-------------------------------- MODULE Hub ---------------------------------
(***************************************************************************)
(* internal/signaling.Hub and the goroutine of transport.Signal that serves *)
(* each WebSocket.  The hub's map is read and written under Hub.mu; between *)
(* two critical sections a connection may be replaced, closed or dropped,   *)
(* and a session may end.                                                   *)
(*                                                                          *)
(* A connection is one WebSocket of one peer.  The library's side of it is  *)
(* external: a socket that was told to close takes no more writes, and may  *)
(* still hand over frames that were under way.                              *)
(***************************************************************************)
EXTENDS Integers, Sequences, FiniteSets, Functions

CONSTANTS Peers,
          Conns,              \* the connections ever accepted
          Owner,              \* Conns -> Peers: the peer its token named
          Sessions,           \* session identifiers
          Parties,            \* Sessions -> the two peers of the session
          MessagesPerWindow,  \* Options.MessagesPerWindow
          Window,             \* Options.Window
          MaxClock,           \* bound on the clock
          MaxFrames           \* bound: Conns -> the frames a connection sends

ASSUME HubOptions ==
    /\ Owner \in [Conns -> Peers]
    /\ Parties \in [Sessions -> {{p, q} : p, q \in Peers}]
    /\ MessagesPerWindow \in Nat \ {0}
    /\ Window \in Nat \ {0}
    /\ MaxClock \in Nat /\ MaxFrames \in [Conns -> Nat]

NoSession == "none"   \* a message that names no session
NoConn    == "none"

\* A message as the hub reads it: whether the type is one of the four it
\* carries, and the session, which only matters of a type it carries.  The
\* payload is carried through untouched.
Messages ==
    {m \in [carriable : BOOLEAN, session : Sessions \cup {NoSession}] :
        m.carriable \/ m.session = NoSession}

Codes == {"unknown_type", "too_many_messages", "not_in_session", "peer_not_connected"}

VARIABLES conns,      \* Hub.conns: peer -> holder
          handler,    \* the goroutine serving a connection
          socket,     \* the WebSocket of a connection
          live,       \* the sessions that are still live
          clock,
          frames,     \* history: frames read from a connection
          passed,     \* history: when the messages a holder let pass were counted
          delivered   \* history: what was written to whom

vars == <<conns, handler, socket, live, clock, frames, passed, delivered>>

Holder == [conn : Conns, sent : Nat, windowFrom : Nat]

\* Where the goroutine of a connection stands.
At(where) == [at |-> where]

Handlers ==
    {At("accepted"), At("reading"), At("leaving"), At("done")}
      \cup [at : {"replacing"}, old : Conns]
      \cup [at : {"received", "asking"}, msg : Messages]
      \cup [at : {"sending"}, msg : Messages, to : Peers]
      \cup [at : {"writing"}, msg : Messages, to : Peers, on : Conns]
      \cup [at : {"telling"}, code : Codes]
      \cup [at : {"answering"}, code : Codes, on : Conns]

TypeOK ==
    /\ DOMAIN conns \subseteq Peers /\ conns \in [DOMAIN conns -> Holder]
    /\ handler \in [Conns -> Handlers]
    /\ socket \in [Conns -> {"open", "closing", "closed"}]
    /\ live \subseteq Sessions
    /\ clock \in 0..MaxClock
    /\ frames \in [Conns -> Nat]
    /\ passed \in [Conns -> Seq(0..MaxClock)]
    /\ delivered \subseteq [from : Peers, by : Conns, session : Sessions, to : Conns]

Init ==
    /\ conns = [p \in {} |-> NoConn]
    /\ handler = [c \in Conns |-> At("accepted")]
    /\ socket = [c \in Conns |-> "open"]
    /\ live = Sessions
    /\ clock = 0
    /\ frames = [c \in Conns |-> 0]
    /\ passed = [c \in Conns |-> << >>]
    /\ delivered = {}

holds(p, c) == p \in DOMAIN conns /\ conns[p].conn = c

Goes(c, h) == handler' = [handler EXCEPT ![c] = h]

\* Conn.Close: the close frame is written and no write succeeds any more.
closing(c) == [socket EXCEPT ![c] = IF @ = "open" THEN "closing" ELSE @]

-----------------------------------------------------------------------------
(* A connection comes in *)

\* Hub.Register: the newer connection takes the place at once, and the older
\* one is closed after the lock is released.
Mutant_afterRegister(p) == At("reading")
afterRegister(p) ==
    IF p \in DOMAIN conns THEN [at |-> "replacing", old |-> conns[p].conn]
    ELSE At("reading")

Register(c) ==
    LET p == Owner[c]
    IN  /\ handler[c] = At("accepted")
        /\ conns' = [q \in DOMAIN conns \cup {p} |->
                       IF q = p THEN [conn |-> c, sent |-> 0, windowFrom |-> clock]
                       ELSE conns[q]]
        /\ Goes(c, afterRegister(p))
        /\ UNCHANGED <<socket, live, clock, frames, passed, delivered>>

CloseReplaced(c) ==
    /\ handler[c].at = "replacing"
    /\ socket' = closing(handler[c].old)
    /\ Goes(c, At("reading"))
    /\ UNCHANGED <<conns, live, clock, frames, passed, delivered>>

-----------------------------------------------------------------------------
(* readLoop and Route *)

Read(c, m) ==
    /\ handler[c] = At("reading")
    /\ socket[c] # "closed"
    /\ frames[c] < MaxFrames[c]
    /\ frames' = [frames EXCEPT ![c] = @ + 1]
    /\ Goes(c, [at |-> "received", msg |-> m])
    /\ UNCHANGED <<conns, socket, live, clock, passed, delivered>>

ReadFails(c) ==
    /\ handler[c] = At("reading")
    /\ socket[c] # "open"
    /\ Goes(c, At("leaving"))
    /\ UNCHANGED <<conns, socket, live, clock, frames, passed, delivered>>

Refuse(c, code) == Goes(c, [at |-> "telling", code |-> code])

RefuseType(c) ==
    /\ handler[c].at = "received"
    /\ ~handler[c].msg.carriable
    /\ Refuse(c, "unknown_type")
    /\ UNCHANGED <<conns, socket, live, clock, frames, passed, delivered>>

\* allowed: the holder after one more message is counted against it.
Mutant_charged(h) ==
    IF clock - h.windowFrom > Window THEN [h EXCEPT !.sent = 1]
    ELSE [h EXCEPT !.sent = @ + 1]

charged(h) ==
    IF clock - h.windowFrom > Window
    THEN [conn |-> h.conn, sent |-> 1, windowFrom |-> clock]
    ELSE [h EXCEPT !.sent = @ + 1]

Allow(c) ==
    LET p == Owner[c]
    IN  /\ handler[c].at = "received"
        /\ handler[c].msg.carriable
        /\ IF p \notin DOMAIN conns
           THEN Refuse(c, "too_many_messages") /\ UNCHANGED <<conns, passed>>
           ELSE LET h == charged(conns[p])
                IN  /\ conns' = [conns EXCEPT ![p] = h]
                    /\ IF h.sent <= MessagesPerWindow
                       THEN /\ Goes(c, [at |-> "asking", msg |-> handler[c].msg])
                            /\ passed' = [passed EXCEPT ![h.conn] = Append(@, clock)]
                       ELSE Refuse(c, "too_many_messages") /\ UNCHANGED passed
        /\ UNCHANGED <<socket, live, clock, frames, delivered>>

\* Sessions.Other: the other peer of a live session the asking peer is in.
Mutant_others(s, p) == IF s \in live THEN Parties[s] \ {p} ELSE {}
others(s, p) ==
    IF s \in live /\ p \in Parties[s] THEN Parties[s] \ {p} ELSE {}

AskOther(c) ==
    LET m == handler[c].msg
    IN  /\ handler[c].at = "asking"
        /\ \/ /\ others(m.session, Owner[c]) = {}
              /\ Refuse(c, "not_in_session")
           \/ \E q \in others(m.session, Owner[c]) :
                 Goes(c, [at |-> "sending", msg |-> m, to |-> q])
        /\ UNCHANGED <<conns, socket, live, clock, frames, passed, delivered>>

\* send, the lookup under the lock.
SendLookup(c) ==
    LET h == handler[c]
    IN  /\ h.at = "sending"
        /\ IF h.to \in DOMAIN conns
           THEN Goes(c, [at |-> "writing", msg |-> h.msg, to |-> h.to,
                         on |-> conns[h.to].conn])
           ELSE Refuse(c, "peer_not_connected")
        /\ UNCHANGED <<conns, socket, live, clock, frames, passed, delivered>>

\* send, the write; From is the owner of the connection it came in on.
SendWrite(c) ==
    LET h == handler[c]
    IN  /\ h.at = "writing"
        /\ socket[h.on] = "open"
        /\ delivered' = delivered \cup
             {[from |-> Owner[c], by |-> c, session |-> h.msg.session, to |-> h.on]}
        /\ Goes(c, At("reading"))
        /\ UNCHANGED <<conns, socket, live, clock, frames, passed>>

\* The write fails: the socket was closing, or the peer did not read before
\* the send timeout.  The connection written to is closed.
SendFails(c) ==
    /\ handler[c].at = "writing"
    /\ socket' = closing(handler[c].on)
    /\ Refuse(c, "peer_not_connected")
    /\ UNCHANGED <<conns, live, clock, frames, passed, delivered>>

\* tell, the lookup: the answer goes to whatever connection the sender's peer
\* holds now.  Without one, Route fails and the read loop ends.
TellLookup(c) ==
    LET p == Owner[c]
    IN  /\ handler[c].at = "telling"
        /\ Goes(c, IF p \in DOMAIN conns
                   THEN [at |-> "answering", code |-> handler[c].code, on |-> conns[p].conn]
                   ELSE At("leaving"))
        /\ UNCHANGED <<conns, socket, live, clock, frames, passed, delivered>>

TellWrite(c) ==
    /\ handler[c].at = "answering"
    /\ socket[handler[c].on] = "open"
    /\ Goes(c, At("reading"))
    /\ UNCHANGED <<conns, socket, live, clock, frames, passed, delivered>>

TellFails(c) ==
    /\ handler[c].at = "answering"
    /\ socket' = closing(handler[c].on)
    /\ Goes(c, At("leaving"))
    /\ UNCHANGED <<conns, live, clock, frames, passed, delivered>>

\* SessionEnded, called by the routes and the sweep: a write that succeeds leaves
\* the hub as it was, one that fails closes the connection it was looked up on,
\* which may have been replaced since.
SessionEndedFails(c) ==
    /\ handler[c].at \notin {"accepted", "done"}
    /\ socket' = closing(c)
    /\ UNCHANGED <<conns, handler, live, clock, frames, passed, delivered>>

-----------------------------------------------------------------------------
(* A connection goes *)

\* The deferred Deregister and CloseNow: only the connection that is held is
\* dropped.
Mutant_without(c) == Restrict(conns, DOMAIN conns \ {Owner[c]})
Mutant_without_Leak(c) == conns
without(c) == Restrict(conns, {p \in DOMAIN conns : conns[p].conn # c})

Leave(c) ==
    /\ handler[c] = At("leaving")
    /\ conns' = without(c)
    /\ socket' = [socket EXCEPT ![c] = "closed"]
    /\ Goes(c, At("done"))
    /\ UNCHANGED <<live, clock, frames, passed, delivered>>

\* The peer hangs up, the network drops, a ping goes unanswered, or the close
\* handshake that was begun ends.
Drop(c) ==
    /\ socket[c] # "closed"
    /\ socket' = [socket EXCEPT ![c] = "closed"]
    /\ UNCHANGED <<conns, handler, live, clock, frames, passed, delivered>>

SessionEnds(s) ==
    /\ s \in live
    /\ live' = live \ {s}
    /\ UNCHANGED <<conns, handler, socket, clock, frames, passed, delivered>>

Tick ==
    /\ clock < MaxClock
    /\ clock' = clock + 1
    /\ UNCHANGED <<conns, handler, socket, live, frames, passed, delivered>>

Serve(c) ==
    \/ CloseReplaced(c) \/ ReadFails(c) \/ RefuseType(c) \/ Allow(c) \/ AskOther(c)
    \/ SendLookup(c) \/ SendWrite(c) \/ SendFails(c)
    \/ TellLookup(c) \/ TellWrite(c) \/ TellFails(c) \/ Leave(c)

Next ==
    \/ \E c \in Conns : Register(c)
    \/ \E c \in Conns, m \in Messages : Read(c, m)
    \/ \E c \in Conns : Serve(c)
    \/ \E c \in Conns : SessionEndedFails(c)
    \/ \E c \in Conns : Drop(c)
    \/ \E s \in Sessions : SessionEnds(s)
    \/ Tick

Spec == Init /\ [][Next]_vars

\* A goroutine that can go on does: every write is bounded by the send timeout,
\* and a read on a socket that was closed returns.  Nothing obliges a peer to
\* connect, to send or to leave.
FairSpec == Spec /\ \A c \in Conns : WF_vars(Serve(c))

-----------------------------------------------------------------------------
(* Properties *)

\* The hub never keeps a connection whose goroutine has returned: nobody would
\* read from it or drop it, and its peer would look connected for ever
\* (signal.go:120-125, hub.go:200-213).
HeldIsServed ==
    \A p \in DOMAIN conns : handler[conns[p].conn] \notin {At("accepted"), At("done")}

\* A peer never has a second channel open for long: a connection that is open
\* and served but not the one held is about to be closed by the one that
\* replaced it (hub.go:180-191; R1.3).
ReplacedIsClosing ==
    \A c \in Conns :
        (socket[c] = "open" /\ handler[c] # At("accepted") /\ ~holds(Owner[c], c))
          => \E d \in Conns : handler[d] = [at |-> "replacing", old |-> c]

\* A connection loses its place only to a newer one of the same peer or by its
\* own goroutine leaving: one that was replaced does not take its replacement
\* down with it (hub.go:197-206).
NewestIsKept ==
    [][\A p \in DOMAIN conns :
          \/ p \in DOMAIN conns' /\ conns'[p].conn = conns[p].conn
          \/ p \in DOMAIN conns' /\ handler[conns'[p].conn] = At("accepted")
          \/ handler[conns[p].conn] = At("leaving")]_vars

\* What is delivered came from one party of the session it names, was written
\* to a connection of the other, and names its sender, whatever connections
\* were replaced on either side meanwhile (hub.go:257-268; R2.1, R2.2).
DeliveredToTheOther ==
    \A d \in delivered :
        /\ d.from = Owner[d.by]
        /\ Parties[d.session] = {d.from, Owner[d.to]}
        /\ d.from # Owner[d.to]

\* No connection lets more than twice its allowance through in any span of one
\* window, wherever the span falls across the hub's own windows: a message comes
\* more than a window after the one that is twice the allowance before it
\* (hub.go:317-335; R2.7).
WithinAllowance ==
    \A c \in Conns : \A i, j \in DOMAIN passed[c] :
        j >= i + 2 * MessagesPerWindow => passed[c][j] - passed[c][i] > Window

\* A connection that is no longer open does not keep its place in the hub: its
\* peer stops counting as connected (signal.go:122-125, 142-152, hub.go:307-313).
BrokenIsDropped ==
    \A c \in Conns :
        (holds(Owner[c], c) /\ socket[c] = "closed") ~> ~holds(Owner[c], c)

=============================================================================
