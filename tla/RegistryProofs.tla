---------------------------- MODULE RegistryProofs --------------------------
(***************************************************************************)
(* The registry keeps its promises in every behaviour, for any set of      *)
(* peers, finite or not, any ceiling and any windows.  The inductive       *)
(* invariant adds to the type of the map that it is finite and that no     *)
(* record was seen in the future.                                          *)
(***************************************************************************)
EXTENDS Registry, FiniteSetTheorems, TLAPS

\* What every operation keeps true of the map.
RegInv(reg, now) ==
    /\ DOMAIN reg \subseteq Peers
    /\ reg \in [DOMAIN reg -> Record]
    /\ IsFiniteSet(DOMAIN reg)
    /\ Cardinality(DOMAIN reg) <= MaxPeers
    /\ \A p \in DOMAIN reg : reg[p].lastSeen <= now

\* What an operation for peer p may do to the map; leave says whether p's own
\* record may go, and join whether it may come.
RegStep(reg, reg2, now, p, leave, join) ==
    /\ RegInv(reg2, now)
    /\ \A q \in DOMAIN reg \ DOMAIN reg2 : q \in gone(reg, now) \/ (leave /\ q = p)
    /\ \A q \in DOMAIN reg2 \ {p} : q \in DOMAIN reg /\ reg2[q] = reg[q]
    /\ p \in DOMAIN reg2 /\ reg2[p].lastSeen # now => p \in DOMAIN reg /\ reg2[p] = reg[p]
    /\ Lookup(reg2, p, now) => join \/ Lookup(reg, p, now)
    /\ p \in DOMAIN reg \cap DOMAIN reg2 =>
          /\ reg2[p].registeredAt = reg[p].registeredAt
          /\ reg2[p].lastSeen >= reg[p].lastSeen

LEMMA Without ==
    ASSUME NEW reg, NEW now, RegInv(reg, now), NEW ps
    PROVE  /\ RegInv(without(reg, ps), now)
           /\ DOMAIN without(reg, ps) = DOMAIN reg \ ps
           /\ \A q \in DOMAIN reg \ ps : without(reg, ps)[q] = reg[q]
<1>1. /\ DOMAIN without(reg, ps) = DOMAIN reg \ ps
      /\ \A q \in DOMAIN reg \ ps : without(reg, ps)[q] = reg[q]
  BY DEF without, Restrict
<1>2. without(reg, ps) \in [DOMAIN without(reg, ps) -> Record]
  BY DEF without, Restrict, RegInv
<1>3. /\ IsFiniteSet(DOMAIN reg \ ps) /\ Cardinality(DOMAIN reg \ ps) <= MaxPeers
  <2>1. /\ IsFiniteSet(DOMAIN reg \ ps)
        /\ Cardinality(DOMAIN reg \ ps) <= Cardinality(DOMAIN reg)
        /\ Cardinality(DOMAIN reg \ ps) \in Nat /\ Cardinality(DOMAIN reg) \in Nat
    BY FS_Subset, FS_CardinalityType DEF RegInv
  <2> QED
    BY <2>1, RegistryOptions DEF RegInv
<1> QED
  BY <1>1, <1>2, <1>3 DEF RegInv

LEMMA Put ==
    ASSUME NEW reg, NEW now \in Nat, RegInv(reg, now), NEW p \in Peers, NEW rec \in Record,
           rec.lastSeen = now, p \in DOMAIN reg \/ Cardinality(DOMAIN reg) < MaxPeers
    PROVE  RegInv(put(reg, p, rec), now)
<1>1. /\ DOMAIN put(reg, p, rec) = DOMAIN reg \cup {p}
      /\ put(reg, p, rec)[p] = rec
      /\ \A q \in DOMAIN reg \ {p} : put(reg, p, rec)[q] = reg[q]
  BY DEF put
<1>2. put(reg, p, rec) \in [DOMAIN reg \cup {p} -> Record]
  BY DEF put, RegInv
<1>3. /\ IsFiniteSet(DOMAIN reg \cup {p}) /\ Cardinality(DOMAIN reg \cup {p}) <= MaxPeers
  <2>1. /\ IsFiniteSet(DOMAIN reg \cup {p})
        /\ Cardinality(DOMAIN reg \cup {p}) =
             IF p \in DOMAIN reg THEN Cardinality(DOMAIN reg) ELSE Cardinality(DOMAIN reg) + 1
    BY FS_AddElement DEF RegInv
  <2>2. Cardinality(DOMAIN reg) \in Nat /\ Cardinality(DOMAIN reg) <= MaxPeers
    BY FS_CardinalityType DEF RegInv
  <2> QED
    BY <2>1, <2>2, RegistryOptions
<1>4. \A q \in DOMAIN put(reg, p, rec) : put(reg, p, rec)[q].lastSeen <= now
  BY <1>1 DEF RegInv
<1> QED
  BY <1>1, <1>2, <1>3, <1>4 DEF RegInv

\* Register: nothing but the gone makes room, and a refusal leaves no gone
\* record behind (registry.go:137-168).
LEMMA RegisterStep ==
    ASSUME NEW reg, NEW now \in Nat, RegInv(reg, now), NEW p \in Peers
    PROVE  LET o == Register(reg, p, now)
           IN  /\ RegStep(reg, o.reg, now, p, FALSE, TRUE)
               /\ o.err \in {OK, ErrFull}
               /\ o.err = ErrFull =>
                    gone(o.reg, now) = {} /\ Cardinality(DOMAIN o.reg) = MaxPeers
<1>1. PICK full : full = (p \notin DOMAIN reg /\ Cardinality(DOMAIN reg) >= MaxPeers)
  OBVIOUS
<1>2. PICK room : room = IF full THEN expireLocked(reg, now) ELSE reg
  OBVIOUS
<1>3. /\ RegInv(room, now)
      /\ DOMAIN room \subseteq DOMAIN reg /\ DOMAIN reg \ DOMAIN room \subseteq gone(reg, now)
      /\ \A q \in DOMAIN room : room[q] = reg[q]
      /\ full => DOMAIN room = DOMAIN reg \ gone(reg, now)
  <2>1. CASE full
    <3>1. room = without(reg, gone(reg, now))
      BY <1>2, <2>1 DEF expireLocked
    <3>2. /\ RegInv(room, now) /\ DOMAIN room = DOMAIN reg \ gone(reg, now)
          /\ \A q \in DOMAIN reg \ gone(reg, now) : room[q] = reg[q]
      BY <3>1, Without
    <3> QED
      BY <3>2
  <2>2. CASE ~full
    BY <1>2, <2>2
  <2> QED
    BY <2>1, <2>2
<1>4. Cardinality(DOMAIN room) \in Nat /\ Cardinality(DOMAIN room) <= MaxPeers
  BY <1>3, FS_CardinalityType DEF RegInv
<1>5. PICK o : o = Register(reg, p, now)
  OBVIOUS
<1>6. CASE full /\ Cardinality(DOMAIN room) >= MaxPeers
  <2>1. o.reg = room /\ o.err = ErrFull
    BY <1>1, <1>2, <1>5, <1>6 DEF Register, Answered
  <2>2. p \notin DOMAIN room
    BY <1>1, <1>3, <1>6
  <2>3. RegStep(reg, room, now, p, FALSE, TRUE)
    BY <1>3, <2>2 DEF RegStep
  <2>4. gone(room, now) = {}
    BY <1>3, <1>6 DEF gone
  <2>5. Cardinality(DOMAIN room) = MaxPeers
    BY <1>4, <1>6, RegistryOptions
  <2> QED
    BY <1>5, <2>1, <2>3, <2>4, <2>5
<1>7. CASE ~(full /\ Cardinality(DOMAIN room) >= MaxPeers)
  <2>1. PICK rec : rec = registered(reg, p, now)
    OBVIOUS
  <2>2. /\ rec \in Record /\ rec.lastSeen = now
        /\ p \in DOMAIN reg => rec.registeredAt = reg[p].registeredAt /\ reg[p].lastSeen <= now
    BY <2>1 DEF registered, Record, RegInv
  <2>3. p \in DOMAIN room \/ Cardinality(DOMAIN room) < MaxPeers
    <3>1. CASE full
      BY <1>4, <1>7, <3>1, RegistryOptions
    <3>2. CASE ~full
      <4>1. Cardinality(DOMAIN reg) \in Nat
        BY FS_CardinalityType DEF RegInv
      <4>2. room = reg
        BY <1>2, <3>2
      <4>3. p \in DOMAIN reg \/ ~(Cardinality(DOMAIN reg) >= MaxPeers)
        BY <1>1, <3>2
      <4> QED
        BY <4>1, <4>2, <4>3, RegistryOptions
    <3> QED
      BY <3>1, <3>2
  <2>4. PICK reg2 : reg2 = put(room, p, rec)
    OBVIOUS
  <2>5. /\ RegInv(reg2, now) /\ DOMAIN reg2 = DOMAIN room \cup {p} /\ reg2[p] = rec
        /\ \A q \in DOMAIN room \ {p} : reg2[q] = room[q]
    <3>1. RegInv(room, now) /\ rec \in Record /\ rec.lastSeen = now
      BY <1>3, <2>2
    <3>2. RegInv(put(room, p, rec), now)
      BY <2>3, <3>1, Put
    <3> QED
      BY <2>4, <3>2 DEF put
  <2>6. o.reg = reg2 /\ o.err = OK
    BY <1>1, <1>2, <1>5, <1>7, <2>1, <2>4 DEF Register, Answered
  <2>7. RegStep(reg, reg2, now, p, FALSE, TRUE)
    BY <1>3, <2>2, <2>5 DEF RegStep
  <2> QED
    BY <1>5, <2>6, <2>7 DEF OK, ErrFull
<1> QED
  BY <1>6, <1>7

\* Heartbeat moves the record of a peer that is there, and drops the record of
\* one that is not (registry.go:170-188).
LEMMA HeartbeatStep ==
    ASSUME NEW reg, NEW now \in Nat, RegInv(reg, now), NEW p \in Peers
    PROVE  LET o == Heartbeat(reg, p, now)
           IN  /\ RegStep(reg, o.reg, now, p, FALSE, FALSE)
               /\ o.err \in {OK, ErrNotRegistered}
<1>1. PICK o : o = Heartbeat(reg, p, now)
  OBVIOUS
<1>2. CASE Lookup(reg, p, now)
  <2>1. p \in DOMAIN reg /\ reg[p] \in Record /\ reg[p].lastSeen <= now
    BY <1>2 DEF Lookup, RegInv
  <2>2. PICK rec : rec = [reg[p] EXCEPT !.lastSeen = now]
    OBVIOUS
  <2>3. rec \in Record /\ rec.lastSeen = now /\ rec.registeredAt = reg[p].registeredAt
    BY <2>1, <2>2 DEF Record
  <2>4. o.reg = [reg EXCEPT ![p] = rec] /\ o.err = OK
    BY <1>1, <1>2, <2>2 DEF Heartbeat, Answered
  <2>5. /\ DOMAIN o.reg = DOMAIN reg /\ o.reg[p] = rec
        /\ \A q \in DOMAIN reg \ {p} : o.reg[q] = reg[q]
        /\ o.reg \in [DOMAIN reg -> Record]
    BY <2>1, <2>3, <2>4 DEF RegInv
  <2>6. RegInv(o.reg, now)
    BY <2>3, <2>5 DEF RegInv
  <2>7. RegStep(reg, o.reg, now, p, FALSE, FALSE)
    BY <1>2, <2>1, <2>3, <2>5, <2>6 DEF RegStep
  <2> QED
    BY <1>1, <2>4, <2>7
<1>3. CASE ~Lookup(reg, p, now)
  <2>1. o.reg = without(reg, {p}) /\ o.err = ErrNotRegistered
    BY <1>1, <1>3 DEF Heartbeat, Answered
  <2>2. /\ RegInv(o.reg, now) /\ DOMAIN o.reg = DOMAIN reg \ {p}
        /\ \A q \in DOMAIN reg \ {p} : o.reg[q] = reg[q]
    BY <2>1, Without
  <2>3. p \in DOMAIN reg => p \in gone(reg, now)
    BY <1>3 DEF Lookup
  <2>4. ~Lookup(o.reg, p, now)
    BY <2>2 DEF Lookup
  <2>5. RegStep(reg, o.reg, now, p, FALSE, FALSE)
    BY <2>2, <2>3, <2>4 DEF RegStep
  <2> QED
    BY <1>1, <2>1, <2>5
<1> QED
  BY <1>2, <1>3

-----------------------------------------------------------------------------

IInv ==
    /\ RegInv(peers, clock)
    /\ clock \in Nat
    /\ last \in Steps \cup {NoStep}
    /\ RefusedOnlyWhenFull

LEMMA InitIInv == Init => IInv
<1> SUFFICES ASSUME Init PROVE IInv
  OBVIOUS
<1>1. DOMAIN peers = {} /\ peers \in [{} -> Record]
  BY DEF Init, EmptyRegistry
<1>2. RegInv(peers, clock)
  BY <1>1, FS_EmptySet, RegistryOptions DEF RegInv
<1>3. last = NoStep /\ last.op = "none" /\ clock = 0
  BY DEF Init, NoStep
<1> QED
  BY <1>2, <1>3 DEF IInv, RefusedOnlyWhenFull

\* The three action properties, one step at a time.
LeavesGone ==
    \A p \in DOMAIN peers \ DOMAIN peers' :
        \/ p \in gone(peers, clock)
        \/ last'.op = "deregister" /\ last'.peer = p

ReadmitsRegistered ==
    \A p \in Peers :
        (~Lookup(peers, p, clock) /\ Lookup(peers', p, clock'))
           => last'.op = "register" /\ last'.peer = p

KeepsFirst ==
    \A p \in DOMAIN peers \cap DOMAIN peers' :
        /\ peers'[p].registeredAt = peers[p].registeredAt
        /\ peers'[p].lastSeen >= peers[p].lastSeen

Good == IInv' /\ LeavesGone /\ ReadmitsRegistered /\ KeepsFirst

\* A step made for one peer, from what the operation did to the map.
LEMMA StepForPeer ==
    ASSUME IInv, NEW p \in Peers, NEW op \in {"register", "heartbeat", "deregister"}, NEW err,
           err \in {OK, ErrNotRegistered, ErrFull},
           RegStep(peers, peers', clock, p, op = "deregister", op = "register"),
           last' = [op |-> op, peer |-> p, err |-> err], clock' = clock,
           (op = "register" /\ err = ErrFull) =>
              gone(peers', clock) = {} /\ Cardinality(DOMAIN peers') = MaxPeers
    PROVE  Good
<1>1. last'.op = op /\ last'.peer = p /\ last'.err = err /\ last' \in Steps
  BY DEF Steps
<1>2. IInv'
  BY <1>1 DEF IInv, RegStep, RefusedOnlyWhenFull
<1>3. LeavesGone
  BY <1>1 DEF RegStep, LeavesGone
<1>4. ASSUME NEW q \in Peers, ~Lookup(peers, q, clock), Lookup(peers', q, clock')
      PROVE  op = "register" /\ q = p
  <2>1. CASE q # p
    BY <1>4, <2>1 DEF RegStep, Lookup, gone
  <2>2. CASE q = p
    BY <1>4, <2>2 DEF RegStep
  <2> QED
    BY <2>1, <2>2
<1>5. ReadmitsRegistered
  BY <1>1, <1>4 DEF ReadmitsRegistered
<1>6. KeepsFirst
  <2> SUFFICES ASSUME NEW q \in DOMAIN peers \cap DOMAIN peers'
               PROVE  /\ peers'[q].registeredAt = peers[q].registeredAt
                      /\ peers'[q].lastSeen >= peers[q].lastSeen
    BY DEF KeepsFirst
  <2>1. peers[q] \in Record
    BY DEF IInv, RegInv
  <2> QED
    BY <2>1 DEF RegStep, Record
<1> QED
  BY <1>2, <1>3, <1>5, <1>6 DEF Good

LEMMA NextGood ==
    ASSUME IInv, Next
    PROVE  Good
<1>0. RegInv(peers, clock) /\ clock \in Nat
  BY DEF IInv
<1>1. ASSUME NEW p \in Peers, RegisterPeer(p) PROVE Good
  <2>1. PICK o : o = Register(peers, p, clock)
    OBVIOUS
  <2>2. /\ RegStep(peers, o.reg, clock, p, FALSE, TRUE) /\ o.err \in {OK, ErrFull}
        /\ o.err = ErrFull => gone(o.reg, clock) = {} /\ Cardinality(DOMAIN o.reg) = MaxPeers
    BY <1>0, <2>1, RegisterStep
  <2>3. /\ peers' = o.reg /\ clock' = clock
        /\ last' = [op |-> "register", peer |-> p, err |-> o.err]
    BY <1>1, <2>1 DEF RegisterPeer, Answer
  <2> QED
    BY <2>2, <2>3, StepForPeer
<1>2. ASSUME NEW p \in Peers, HeartbeatPeer(p) PROVE Good
  <2>1. PICK o : o = Heartbeat(peers, p, clock)
    OBVIOUS
  <2>2. RegStep(peers, o.reg, clock, p, FALSE, FALSE) /\ o.err \in {OK, ErrNotRegistered}
    BY <1>0, <2>1, HeartbeatStep
  <2>3. /\ peers' = o.reg /\ clock' = clock
        /\ last' = [op |-> "heartbeat", peer |-> p, err |-> o.err]
    BY <1>2, <2>1 DEF HeartbeatPeer, Answer
  <2> QED
    BY <2>2, <2>3, StepForPeer
<1>3. ASSUME NEW p \in Peers, DeregisterPeer(p) PROVE Good
  <2>1. /\ peers' = without(peers, {p}) /\ clock' = clock
        /\ last' = [op |-> "deregister", peer |-> p, err |-> OK]
    BY <1>3 DEF DeregisterPeer, Answer, Answered, Deregister
  <2>2. /\ RegInv(peers', clock) /\ DOMAIN peers' = DOMAIN peers \ {p}
        /\ \A q \in DOMAIN peers \ {p} : peers'[q] = peers[q]
    BY <1>0, <2>1, Without
  <2>3. RegStep(peers, peers', clock, p, TRUE, FALSE)
    BY <2>2 DEF RegStep, Lookup
  <2> QED
    BY <2>1, <2>3, StepForPeer
<1>4. CASE Expire
  <2>1. /\ peers' = without(peers, gone(peers, clock)) /\ clock' = clock /\ last' = NoStep
    BY <1>4 DEF Expire, expireLocked
  <2>2. /\ RegInv(peers', clock) /\ DOMAIN peers' = DOMAIN peers \ gone(peers, clock)
        /\ \A q \in DOMAIN peers \ gone(peers, clock) : peers'[q] = peers[q]
    BY <1>0, <2>1, Without
  <2>3. last'.op = "none"
    BY <2>1 DEF NoStep
  <2>4. IInv'
    BY <1>0, <2>1, <2>2, <2>3 DEF IInv, RefusedOnlyWhenFull
  <2>5. LeavesGone
    BY <2>2 DEF LeavesGone
  <2>6. ReadmitsRegistered
    BY <2>1, <2>2 DEF ReadmitsRegistered, Lookup
  <2>7. KeepsFirst
    BY <1>0, <2>2 DEF KeepsFirst, RegInv, Record
  <2> QED
    BY <2>4, <2>5, <2>6, <2>7 DEF Good
<1>5. CASE Tick
  <2>1. peers' = peers /\ clock' = clock + 1 /\ last' = NoStep /\ last'.op = "none"
    BY <1>5 DEF Tick, NoStep
  <2>2. \A p \in DOMAIN peers : peers[p].lastSeen \in Nat /\ peers[p].lastSeen <= clock
    BY <1>0 DEF RegInv, Record
  <2>3. RegInv(peers', clock')
    <3>1. \A p \in DOMAIN peers : peers[p].lastSeen <= clock + 1
      BY <1>0, <2>2
    <3> QED
      BY <1>0, <2>1, <3>1 DEF RegInv
  <2>4. IInv'
    BY <1>0, <2>1, <2>3 DEF IInv, RefusedOnlyWhenFull
  <2>5. ASSUME NEW p \in DOMAIN peers, stateOf(peers[p], clock) = Gone
        PROVE  stateOf(peers[p], clock + 1) = Gone
    BY <1>0, <2>2, <2>5, RegistryOptions DEF stateOf, Gone, Online, Suspect
  <2>6. ReadmitsRegistered
    BY <2>1, <2>5 DEF ReadmitsRegistered, Lookup, gone
  <2>7. LeavesGone /\ KeepsFirst
    BY <2>1, <2>2 DEF LeavesGone, KeepsFirst
  <2> QED
    BY <2>4, <2>6, <2>7 DEF Good
<1> QED
  BY <1>1, <1>2, <1>3, <1>4, <1>5 DEF Next

LEMMA StutterIInv ==
    ASSUME IInv, UNCHANGED vars
    PROVE  IInv'
BY DEF IInv, vars, RegInv, RefusedOnlyWhenFull, gone, stateOf

\* The inductive invariant holds throughout.
THEOREM Invariance == Spec => []IInv
<1>1. Init => IInv
  BY InitIInv
<1>2. IInv /\ [Next]_vars => IInv'
  BY NextGood, StutterIInv DEF Good
<1> QED
  BY <1>1, <1>2, PTL DEF Spec

\* The map, the clock and the last answer are of their types.
THEOREM TypeCorrect == Spec => []TypeOK
<1>1. IInv => TypeOK
  BY DEF IInv, TypeOK, RegInv
<1> QED
  BY <1>1, Invariance, PTL

\* The registry never holds more than its ceiling.
THEOREM CeilingCorrect == Spec => []WithinCeiling
<1>1. IInv => WithinCeiling
  BY DEF IInv, WithinCeiling, RegInv
<1> QED
  BY <1>1, Invariance, PTL

\* A registration is refused only by a registry full of peers that are there.
THEOREM RefusalCorrect == Spec => []RefusedOnlyWhenFull
<1>1. IInv => RefusedOnlyWhenFull
  BY DEF IInv
<1> QED
  BY <1>1, Invariance, PTL

\* Nobody evicts a peer that is still there.
THEOREM EvictionCorrect == Spec => OnlyTheGoneLeave
<1>1. IInv /\ [Next]_vars => [LeavesGone]_vars
  BY NextGood DEF Good
<1> QED
  BY <1>1, Invariance, PTL DEF Spec, OnlyTheGoneLeave, LeavesGone

\* A peer that was written off is back only by registering.
THEOREM ReadmissionCorrect == Spec => ReadmittedByRegistering
<1>1. IInv /\ [Next]_vars => [ReadmitsRegistered]_vars
  BY NextGood DEF Good
<1> QED
  BY <1>1, Invariance, PTL DEF Spec, ReadmittedByRegistering, ReadmitsRegistered

\* A record keeps the date of its first registration and is never seen earlier
\* than before.
THEOREM FirstRegistrationCorrect == Spec => FirstRegistrationKept
<1>1. IInv /\ [Next]_vars => [KeepsFirst]_vars
  BY NextGood DEF Good
<1> QED
  BY <1>1, Invariance, PTL DEF Spec, FirstRegistrationKept, KeepsFirst

=============================================================================
