--------------------------- MODULE RegistryRecords --------------------------
(***************************************************************************)
(* The values of internal/registry: the map from peer identifiers to their *)
(* two timestamps, the state derived from them, and what each locked       *)
(* operation does to the map.  There are no variables here, so that        *)
(* Registry can take an operation as one step and ControlPlane can         *)
(* interleave it with the session store and the channels.                  *)
(***************************************************************************)
EXTENDS Integers, FiniteSets, Functions

CONSTANTS Peers,         \* peer identifiers, trimmed and not empty
          SuspectAfter,  \* Options.SuspectAfter
          OfflineAfter,  \* Options.OfflineAfter
          MaxPeers       \* Options.MaxPeers, the ceiling

\* New refuses any other windows; the heartbeat interval under the suspect
\* window only says how often a well-behaved peer reports.
ASSUME RegistryOptions ==
    /\ SuspectAfter \in Nat \ {0}
    /\ OfflineAfter \in Nat /\ OfflineAfter > SuspectAfter
    /\ MaxPeers \in Nat \ {0}

Online  == "online"
Suspect == "suspect"
Gone    == "gone"

OK               == "ok"
ErrNotRegistered == "not_registered"
ErrFull          == "full"

\* type record: two timestamps, and no state.
Record == [registeredAt : Nat, lastSeen : Nat]

EmptyRegistry == [p \in {} |-> 0]

stateOf(rec, now) ==
    LET silence == now - rec.lastSeen
    IN  CASE silence > OfflineAfter -> Gone
          [] silence > SuspectAfter /\ silence <= OfflineAfter -> Suspect
          [] OTHER -> Online

\* The peers past the offline window, swept or not.
gone(reg, now) == {p \in DOMAIN reg : stateOf(reg[p], now) = Gone}

\* Lookup, from the point of view of a caller: is the peer there at all.
Lookup(reg, p, now) == p \in DOMAIN reg /\ p \notin gone(reg, now)

without(reg, ps) == Restrict(reg, DOMAIN reg \ ps)

\* expireLocked: what is left; what it removed is gone(reg, now).
Mutant_expireLocked(reg, now) ==
    without(reg, {p \in DOMAIN reg : stateOf(reg[p], now) # Online})
Mutant_expireLocked_Keep(reg, now) == reg
expireLocked(reg, now) == without(reg, gone(reg, now))

put(reg, p, rec) == [q \in DOMAIN reg \cup {p} |-> IF q = p THEN rec ELSE reg[q]]

-----------------------------------------------------------------------------
(* The operations, each one critical section of Registry.mu: the map it    *)
(* leaves and what it answers.                                             *)

Answered(reg, err) == [reg |-> reg, err |-> err]

\* The record Register stores: the first registration's date outlives the
\* silence, for as long as the record does.
registered(reg, p, now) ==
    [registeredAt |-> IF p \in DOMAIN reg THEN reg[p].registeredAt ELSE now,
     lastSeen     |-> now]

Mutant_Register_NoExpire(reg, p, now) ==
    IF p \notin DOMAIN reg /\ Cardinality(DOMAIN reg) >= MaxPeers
    THEN Answered(reg, ErrFull)
    ELSE Answered(put(reg, p, registered(reg, p, now)), OK)
Register(reg, p, now) ==
    LET full == p \notin DOMAIN reg /\ Cardinality(DOMAIN reg) >= MaxPeers
        room == IF full THEN expireLocked(reg, now) ELSE reg
    IN  IF full /\ Cardinality(DOMAIN room) >= MaxPeers
        THEN Answered(room, ErrFull)
        ELSE Answered(put(room, p, registered(reg, p, now)), OK)

Mutant_Heartbeat(reg, p, now) ==
    IF p \in DOMAIN reg THEN Answered([reg EXCEPT ![p].lastSeen = now], OK)
    ELSE Answered(reg, ErrNotRegistered)
Heartbeat(reg, p, now) ==
    IF Lookup(reg, p, now)
    THEN Answered([reg EXCEPT ![p].lastSeen = now], OK)
    ELSE Answered(without(reg, {p}), ErrNotRegistered)

Deregister(reg, p) == without(reg, {p})

=============================================================================
