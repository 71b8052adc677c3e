------------------------------ MODULE Registry ------------------------------
(***************************************************************************)
(* internal/registry.Registry as a state machine: every exported operation *)
(* that changes the map is one critical section of Registry.mu, taken by   *)
(* any goroutine at any moment of the clock.  `last` is who the last step  *)
(* was for and what it was told.                                           *)
(***************************************************************************)
EXTENDS RegistryRecords

CONSTANT MaxClock   \* bound on the clock

ASSUME ClockBound == MaxClock \in Nat

VARIABLES peers,    \* Registry.peers
          clock,    \* r.now()
          last      \* the last step: its kind, its peer and its answer

vars == <<peers, clock, last>>

Steps == [op : {"none", "register", "heartbeat", "deregister"}, peer : Peers,
          err : {OK, ErrNotRegistered, ErrFull}]

NoStep == [op |-> "none"]

Init == peers = EmptyRegistry /\ clock = 0 /\ last = NoStep

Answer(op, p, o) ==
    /\ peers' = o.reg
    /\ last' = [op |-> op, peer |-> p, err |-> o.err]
    /\ UNCHANGED clock

RegisterPeer(p) == Answer("register", p, Register(peers, p, clock))

HeartbeatPeer(p) == Answer("heartbeat", p, Heartbeat(peers, p, clock))

DeregisterPeer(p) == Answer("deregister", p, Answered(Deregister(peers, p), OK))

Expire ==
    /\ peers' = expireLocked(peers, clock)
    /\ last' = NoStep
    /\ UNCHANGED clock

Tick ==
    /\ clock < MaxClock
    /\ clock' = clock + 1
    /\ last' = NoStep
    /\ UNCHANGED peers

Next ==
    \/ \E p \in Peers : RegisterPeer(p)
    \/ \E p \in Peers : HeartbeatPeer(p)
    \/ \E p \in Peers : DeregisterPeer(p)
    \/ Expire
    \/ Tick

Spec == Init /\ [][Next]_vars

\* Sweep calls Expire on a ticker until the server stops, and time passes.
\* Nothing obliges a peer to report, or not to.
FairSpec == Spec /\ WF_vars(Expire) /\ WF_vars(Tick)

-----------------------------------------------------------------------------
(* Properties *)

TypeOK ==
    /\ DOMAIN peers \subseteq Peers
    /\ peers \in [DOMAIN peers -> Record]
    /\ clock \in Nat
    /\ last \in Steps \cup {NoStep}

\* The map never holds more records than the ceiling (registry.go:152-159).
WithinCeiling == Cardinality(DOMAIN peers) <= MaxPeers

\* A registration is refused only when every record held is of a peer that is
\* still there: a record nobody will hear from again never keeps a peer out,
\* swept or not (registry.go:152-159).
RefusedOnlyWhenFull ==
    (last.op = "register" /\ last.err = ErrFull) =>
        /\ gone(peers, clock) = {}
        /\ Cardinality(DOMAIN peers) = MaxPeers

\* Nobody evicts a peer that is still there: a record that leaves was past the
\* offline window, or its own peer deregistered (registry.go:38-41, 190-197).
OnlyTheGoneLeave ==
    [][\A p \in DOMAIN peers \ DOMAIN peers' :
          \/ p \in gone(peers, clock)
          \/ last'.op = "deregister" /\ last'.peer = p]_vars

\* A peer that was written off is reachable again only by registering: a late
\* heartbeat does not quietly re-admit it (registry.go:170-172, 179-182).
ReadmittedByRegistering ==
    [][\A p \in Peers :
          (~Lookup(peers, p, clock) /\ Lookup(peers', p, clock'))
             => last'.op = "register" /\ last'.peer = p]_vars

\* The date of the first registration is not moved by anything for as long as
\* the record is held (registry.go:49-50, 161-165).
FirstRegistrationKept ==
    [][\A p \in DOMAIN peers \cap DOMAIN peers' :
          /\ peers'[p].registeredAt = peers[p].registeredAt
          /\ peers'[p].lastSeen >= peers[p].lastSeen]_vars

\* A peer that went silent leaves the map whether or not anybody asks about it
\* (registry.go:248-251, 284-287).
TheGoneLeave ==
    \A p \in Peers : (p \in gone(peers, clock)) ~> ~(p \in gone(peers, clock))

=============================================================================
