------------------------- MODULE ControlPlaneProofs -------------------------
(***************************************************************************)
(* What holds of the server as a whole, whatever its goroutines do between *)
(* their critical sections: for any peers, any options of the registry and *)
(* of the store, and any number of calls under way.                        *)
(*                                                                         *)
(* The first part says how a critical section of the store changes the     *)
(* records it holds; the second is about the registry's; the third is the  *)
(* invariant of the state machine.                                         *)
(***************************************************************************)
EXTENDS ControlPlane, FiniteSetTheorems, SequenceTheorems, WellFoundedInduction, TLAPS

-----------------------------------------------------------------------------
(* The order list *)

\* What compacting leaves is a list of what was listed.
LEMMA CompactTyped ==
    ASSUME NEW S, NEW seq \in Seq(S), NEW kept
    PROVE  compact(seq, kept) \in Seq(S)
<1> DEFINE at      == {i \in DOMAIN seq : seq[i] \in kept}
           upto(i) == {j \in at : j <= i}
           card(i) == Cardinality(upto(i))
           rank    == [i \in at |-> card(i)]
           N       == Cardinality(at)
           nth(n)  == CHOOSE i \in at : card(i) = n
           f       == [n \in 1..N |-> seq[nth(n)]]
<1>1. compact(seq, kept) = f
  BY DEF compact
<1>2. DOMAIN seq = 1..Len(seq) /\ Len(seq) \in Nat /\ \A i \in DOMAIN seq : seq[i] \in S
  BY LenProperties
<1>3. IsFiniteSet(at) /\ N \in Nat
  <2>1. at \in SUBSET (1..Len(seq)) /\ IsFiniteSet(1..Len(seq))
    BY <1>2, FS_Interval
  <2> QED
    BY <2>1, FS_Subset, FS_CardinalityType
<1>4. \A i \in at : IsFiniteSet(upto(i)) /\ upto(i) \subseteq at /\ i \in upto(i)
  BY <1>2, <1>3, FS_Subset
<1> HIDE DEF N
<1>5. \A i \in at : card(i) \in 1..N
  <2> SUFFICES ASSUME NEW i \in at PROVE card(i) \in 1..N
    OBVIOUS
  <2>1. Cardinality(upto(i)) \in Nat /\ Cardinality(upto(i)) <= N
    BY <1>3, <1>4, FS_Subset, FS_CardinalityType DEF N
  <2>2. Cardinality(upto(i)) # 0
    BY <1>4, FS_EmptySet
  <2> HIDE DEF upto
  <2> QED
    BY <1>3, <2>1, <2>2
<1>6. \A i, j \in at : i < j => card(i) < card(j)
  <2> SUFFICES ASSUME NEW i \in at, NEW j \in at, i < j
               PROVE  card(i) < card(j)
    OBVIOUS
  <2>1. upto(i) \subseteq upto(j) /\ upto(i) # upto(j)
    BY <1>2, <1>4
  <2>2. /\ Cardinality(upto(i)) <= Cardinality(upto(j))
        /\ Cardinality(upto(i)) # Cardinality(upto(j))
    BY <1>4, <2>1, FS_Subset
  <2> HIDE DEF upto
  <2> QED
    BY <1>3, <1>5, <2>2
<1> HIDE DEF card
<1>7. rank \in Injection(at, 1..N)
  <2>1. rank \in [at -> 1..N]
    BY <1>5
  <2>2. ASSUME NEW i \in at, NEW j \in at, rank[i] = rank[j] PROVE i = j
    <3>1. card(i) = card(j)
      BY <2>2
    <3>2. i \in Int /\ j \in Int
      BY <1>2
    <3> QED
      BY <1>3, <1>5, <1>6, <3>1, <3>2
  <2> QED
    BY <2>1, <2>2 DEF Injection, IsInjective
<1>8. rank \in Surjection(at, 1..N)
  BY <1>3, <1>7, FS_Interval, FS_Injection DEF N
<1>9. \A n \in 1..N : nth(n) \in at /\ card(nth(n)) = n
  <2> SUFFICES ASSUME NEW n \in 1..N
               PROVE  nth(n) \in at /\ card(nth(n)) = n
    OBVIOUS
  <2>1. \E i \in at : rank[i] = n
    BY <1>8 DEF Surjection
  <2>2. \E i \in at : card(i) = n
    BY <2>1
  <2> QED
    BY <2>2
<1> HIDE DEF nth
<1>10. f \in Seq(S)
  BY <1>2, <1>3, <1>9
<1> QED
  BY <1>1, <1>10

\* A set of natural numbers that is not empty has a least element.
LEMMA LeastNumber ==
    ASSUME NEW T \in SUBSET Nat, T # {}
    PROVE  \E x \in T : \A y \in T : x <= y
<1>1. PICK x \in T : \A y \in T : ~(<<y, x>> \in OpToRel(<, Nat))
  BY NatLessThanWellFounded, WFMin
<1>2. \A y \in T : ~(y < x)
  BY <1>1 DEF OpToRel
<1> QED
  BY <1>2

-----------------------------------------------------------------------------
(* How a store goes on *)

Sound(st) == StoreTyped(st) /\ IsFiniteSet(Held(st))

\* A session keeps its two parties, and one that has ended stays as it ended.
Succeeds(s, t) ==
    /\ t.caller = s.caller /\ t.callee = s.callee
    /\ ~Live(s) => t.state = s.state

\* Store st becomes st2: the sessions of new are opened, those of closed may be
\* closed, and no other is.
Follows(st, st2, new, closed) ==
    /\ Sound(st2)
    /\ Held(st2) \subseteq Held(st) \cup new
    /\ \A id \in Held(st2) \cap new : Live(st2.sessions[id])
    /\ \A id \in Held(st2) \ new :
          /\ Succeeds(st.sessions[id], st2.sessions[id])
          /\ st2.sessions[id].state = Closed => st.sessions[id].state = Closed \/ id \in closed

\* The types of a store's fields, one by one.
FieldsTyped(st) ==
    /\ Held(st) \subseteq IDs
    /\ st.sessions \in [Held(st) -> Session]
    /\ st.pairs \in [PairKeys -> Nat]
    /\ st.live \in Int
    /\ st.perPeer \in [Peers -> SUBSET IDs]
    /\ st.ended \in Seq(IDs)

LEMMA SoundFields ==
  ASSUME NEW st, Sound(st)
  PROVE  /\ FieldsTyped(st) /\ IsFiniteSet(Held(st))
         /\ \A id \in Held(st) : st.sessions[id] \in Session
BY DEF Sound, StoreTyped, StoreType, FieldsTyped

LEMMA FollowsRefl ==
  ASSUME NEW st, Sound(st), NEW closed
  PROVE  Follows(st, st, {}, closed)
BY DEF Follows, Succeeds

LEMMA FollowsTrans ==
  ASSUME NEW st, NEW mid, NEW st2, NEW new, NEW closed,
         Follows(st, mid, {}, closed), Follows(mid, st2, new, closed)
  PROVE  Follows(st, st2, new, closed)
  <1>1. Sound(st2) /\ Held(st2) \subseteq Held(st) \cup new
    BY DEF Follows
  <1>2. \A id \in Held(st2) \cap new : Live(st2.sessions[id])
    BY DEF Follows
  <1>3. ASSUME NEW id \in Held(st2) \ new
        PROVE  /\ Succeeds(st.sessions[id], st2.sessions[id])
               /\ st2.sessions[id].state = Closed =>
                     st.sessions[id].state = Closed \/ id \in closed
    <2>1. id \in Held(mid)
      BY <1>3 DEF Follows
    <2>2. /\ Succeeds(st.sessions[id], mid.sessions[id])
          /\ Succeeds(mid.sessions[id], st2.sessions[id])
          /\ mid.sessions[id].state = Closed => st.sessions[id].state = Closed \/ id \in closed
          /\ st2.sessions[id].state = Closed => mid.sessions[id].state = Closed \/ id \in closed
      BY <1>3, <2>1 DEF Follows
    <2> QED BY <2>2 DEF Succeeds, Live
  <1> QED BY <1>1, <1>2, <1>3 DEF Follows

-----------------------------------------------------------------------------
(* The helpers of the store *)

\* endedLocked, field by field.
EndedTo(st, recs, order, st2) ==
    /\ st2.sessions = [id \in Held(st) |->
                         IF id \in DOMAIN recs THEN recs[id] ELSE st.sessions[id]]
    /\ st2.pairs = [k \in PairKeys |->
                      IF \E id \in DOMAIN recs : keyOf(recs[id]) = k
                      THEN NoID ELSE st.pairs[k]]
    /\ st2.live = st.live - Cardinality(DOMAIN recs)
    /\ st2.perPeer = [p \in Peers |->
                        st.perPeer[p] \ {id \in DOMAIN recs : Has(recs[id], p)}]
    /\ st2.ended = st.ended \o order

LEMMA EndedFields ==
  ASSUME NEW st, Sound(st), NEW recs, NEW order,
         NEW st2, st2 = endedLocked(st, recs, order)
  PROVE  EndedTo(st, recs, order, st2) /\ (FieldsTyped(st2) => StoreTyped(st2))
  <1> DEFINE A == [id \in Held(st) |->
                     IF id \in DOMAIN recs THEN recs[id] ELSE st.sessions[id]]
             B == [k \in PairKeys |->
                     IF \E id \in DOMAIN recs : keyOf(recs[id]) = k
                     THEN NoID ELSE st.pairs[k]]
             C == st.live - Cardinality(DOMAIN recs)
             D == [p \in Peers |->
                     st.perPeer[p] \ {id \in DOMAIN recs : Has(recs[id], p)}]
             E == st.ended \o order
  <1>1. st2 = [st EXCEPT !.sessions = A, !.live = C, !.perPeer = D, !.pairs = B, !.ended = E]
    BY DEF endedLocked, untrackLocked
  <1> HIDE DEF A, B, C, D, E
  <1>2. st \in StoreType(Held(st))
    BY DEF Sound, StoreTyped
  <1>3. /\ st2.sessions = A /\ st2.pairs = B /\ st2.live = C
        /\ st2.perPeer = D /\ st2.ended = E
    BY <1>1, <1>2 DEF StoreType
  <1>4. ASSUME FieldsTyped(st2) PROVE StoreTyped(st2)
    <2>1. st2 \in StoreType(Held(st2))
      BY <1>1, <1>2, <1>3, <1>4 DEF StoreType, FieldsTyped
    <2> QED BY <1>4, <2>1 DEF StoreTyped, FieldsTyped
  <1> QED BY <1>3, <1>4 DEF EndedTo, A, B, C, D, E

\* Live sessions stop being live: only those of closed are closed.
Endings(st, recs, closed) ==
    /\ DOMAIN recs \subseteq LiveIDs(st)
    /\ \A id \in DOMAIN recs :
          /\ recs[id] \in Session
          /\ recs[id].caller = st.sessions[id].caller
          /\ recs[id].callee = st.sessions[id].callee
          /\ recs[id].state = Closed => id \in closed

LEMMA EndedFollows ==
  ASSUME NEW st, Sound(st), NEW recs, NEW closed, Endings(st, recs, closed),
         NEW order \in Seq(IDs), NEW st2, st2 = endedLocked(st, recs, order)
  PROVE  /\ Follows(st, st2, {}, closed) /\ Held(st2) = Held(st)
         /\ \A id \in DOMAIN recs : st2.sessions[id] = recs[id]
         /\ \A id \in Held(st) \ DOMAIN recs : st2.sessions[id] = st.sessions[id]
  <1> DEFINE ids == DOMAIN recs
  <1>1. FieldsTyped(st) /\ IsFiniteSet(Held(st)) /\ ids \subseteq Held(st)
    BY SoundFields DEF Endings, LiveIDs
  <1>2. IsFiniteSet(ids) /\ Cardinality(ids) \in Nat
    BY <1>1, FS_Subset, FS_CardinalityType
  <1>fields. EndedTo(st, recs, order, st2) /\ (FieldsTyped(st2) => StoreTyped(st2))
    BY EndedFields
  <1>3. /\ st2.sessions = [id \in Held(st) |-> IF id \in ids THEN recs[id] ELSE st.sessions[id]]
        /\ Held(st2) = Held(st)
    BY <1>fields DEF EndedTo, Held
  <1>4. FieldsTyped(st2)
    <2>1. st2.sessions \in [Held(st) -> Session]
      BY <1>1, <1>3 DEF FieldsTyped, Endings
    <2>2. st2.pairs \in [PairKeys -> Nat]
      BY <1>1, <1>fields DEF EndedTo, FieldsTyped, NoID
    <2>3. st2.live \in Int
      BY <1>1, <1>2, <1>fields DEF EndedTo, FieldsTyped
    <2>4. st2.perPeer \in [Peers -> SUBSET IDs]
      BY <1>1, <1>fields DEF EndedTo, FieldsTyped
    <2>5. st2.ended \in Seq(IDs)
      BY <1>1, <1>fields, ConcatProperties DEF EndedTo, FieldsTyped
    <2> QED BY <1>1, <1>3, <2>1, <2>2, <2>3, <2>4, <2>5 DEF FieldsTyped
  <1>5. Sound(st2)
    BY <1>1, <1>3, <1>4, <1>fields DEF Sound
  <1>6. ASSUME NEW id \in Held(st)
        PROVE  /\ Succeeds(st.sessions[id], st2.sessions[id])
               /\ st2.sessions[id].state = Closed =>
                     st.sessions[id].state = Closed \/ id \in closed
    <2>1. CASE id \in ids
      BY <1>3, <2>1 DEF Endings, LiveIDs, Succeeds
    <2>2. CASE id \notin ids
      BY <1>3, <2>2 DEF Succeeds
    <2> QED BY <2>1, <2>2
  <1>7. Follows(st, st2, {}, closed)
    BY <1>3, <1>5, <1>6 DEF Follows
  <1> QED BY <1>1, <1>3, <1>7
\* What a loop over a Go map lists is a list of its keys.
LEMMA OrderTyped ==
  ASSUME NEW S, IsFiniteSet(S), S \subseteq IDs, NEW order \in SetToSeqs(S)
  PROVE  order \in Seq(IDs)
  <1>1. Cardinality(S) \in Nat /\ order \in [1..Cardinality(S) -> S]
    BY FS_CardinalityType DEF SetToSeqs
  <1> QED BY <1>1

LEMMA SettledRecord ==
  ASSUME NEW s \in Session, NEW now, TimedOut(s, now)
  PROVE  /\ settled(s) \in Session /\ Live(s) /\ settled(s).state # Closed
         /\ settled(s).caller = s.caller /\ settled(s).callee = s.callee
  <1>1. s.openedAt + NegotiationTimeout \in Nat
    BY SessionOptions DEF Session
  <1> QED
    BY <1>1 DEF settled, Session, States, TimedOut, Live, Negotiating, Connected, Failed, Closed

\* The records change, and which sessions have one does not.
Settles(st, st2, closed) == Follows(st, st2, {}, closed) /\ Held(st2) = Held(st)

LEMMA SettlesRefl ==
  ASSUME NEW st, Sound(st), NEW closed
  PROVE  Settles(st, st, closed)
BY FollowsRefl DEF Settles

LEMMA SettlesTrans ==
  ASSUME NEW st, NEW mid, NEW st2, NEW closed,
         Settles(st, mid, closed), Settles(mid, st2, closed)
  PROVE  Settles(st, st2, closed)
BY FollowsTrans DEF Settles

\* Settling closes no session.
LEMMA SettleAllFollows ==
  ASSUME NEW st, Sound(st), NEW now, NEW closed, NEW ids \in SUBSET Held(st),
         \A id \in ids : TimedOut(st.sessions[id], now),
         NEW order \in Seq(IDs), NEW st2, st2 = settleAll(st, ids, order)
  PROVE  Settles(st, st2, closed)
  <1> DEFINE recs == [id \in ids |-> settled(st.sessions[id])]
  <1>1. DOMAIN recs = ids /\ \A id \in ids : recs[id] = settled(st.sessions[id])
    OBVIOUS
  <1>2. \A id \in ids : st.sessions[id] \in Session
    BY SoundFields
  <1>3. st2 = endedLocked(st, recs, order)
    BY DEF settleAll
  <1> HIDE DEF recs
  <1>4. Endings(st, recs, closed)
    BY <1>1, <1>2, SettledRecord DEF Endings, LiveIDs
  <1>5. Follows(st, st2, {}, closed) /\ Held(st2) = Held(st)
    BY <1>3, <1>4, EndedFollows
  <1> QED BY <1>5 DEF Settles

LEMMA SettleEachFollows ==
  ASSUME NEW st, Sound(st), NEW now, NEW closed, NEW ids, NEW st2 \in settleEach(st, ids, now)
  PROVE  Settles(st, st2, closed)
  <1> DEFINE stale == expired(st, ids, now)
  <1>1. PICK order \in SetToSeqs(stale) : st2 = settleAll(st, stale, order)
    BY DEF settleEach
  <1>2. stale \in SUBSET Held(st) /\ \A id \in stale : TimedOut(st.sessions[id], now)
    BY DEF expired
  <1> HIDE DEF stale
  <1>3. IsFiniteSet(stale) /\ stale \subseteq IDs
    BY <1>2, SoundFields, FS_Subset DEF FieldsTyped
  <1>4. order \in Seq(IDs)
    BY <1>3, OrderTyped
  <1> QED
    <2>1. PICK ids1 : ids1 = stale
      OBVIOUS
    <2>2. /\ ids1 \in SUBSET Held(st) /\ \A id \in ids1 : TimedOut(st.sessions[id], now)
          /\ st2 = settleAll(st, ids1, order)
      BY <1>1, <1>2, <2>1
    <2> QED BY <1>4, <2>2, SettleAllFollows

LEMMA SettleLockedFollows ==
  ASSUME NEW st, Sound(st), NEW now, NEW closed, NEW id \in Held(st),
         NEW st2, st2 = settleLocked(st, id, now)
  PROVE  Settles(st, st2, closed)
  <1>1. CASE ~TimedOut(st.sessions[id], now)
    BY <1>1, SettlesRefl DEF settleLocked
  <1>2. CASE TimedOut(st.sessions[id], now)
    <2>1. PICK ids, order : ids = {id} /\ order = <<id>>
      OBVIOUS
    <2>2. id \in IDs
      BY SoundFields DEF FieldsTyped
    <2>3. order \in Seq(IDs)
      BY <2>1, <2>2
    <2>4. /\ ids \in SUBSET Held(st) /\ \A i \in ids : TimedOut(st.sessions[i], now)
          /\ st2 = settleAll(st, ids, order)
      BY <1>2, <2>1 DEF settleLocked
    <2> QED BY <2>3, <2>4, SettleAllFollows
  <1> QED BY <1>1, <1>2

\* A store whose records are the same is the same to everyone else.
LEMMA IndexFollows ==
  ASSUME NEW st, Sound(st), NEW st2, StoreTyped(st2), st2.sessions = st.sessions, NEW closed
  PROVE  Settles(st, st2, closed)
BY DEF Settles, Follows, Sound, Succeeds, Held

LEMMA PairLockedFollows ==
  ASSUME NEW st, Sound(st), NEW now, NEW closed, NEW key \in PairKeys,
         NEW st2, st2 = pairLocked(st, key, now)
  PROVE  Settles(st, st2, closed)
  <1> DEFINE id == st.pairs[key]
  <1>1. CASE id = NoID
    BY <1>1, SettlesRefl DEF pairLocked
  <1>2. CASE id # NoID /\ id \notin Held(st)
    <2>1. st2 = [st EXCEPT !.pairs[key] = NoID]
      BY <1>2 DEF pairLocked
    <2> DEFINE B == [st.pairs EXCEPT ![key] = NoID]
    <2>2. st2 = [st EXCEPT !.pairs = B]
      BY <2>1
    <2>3. st.pairs \in [PairKeys -> Nat]
      BY SoundFields DEF FieldsTyped
    <2>4. B \in [PairKeys -> Nat]
      BY <2>3 DEF NoID
    <2> HIDE DEF B
    <2>5. st \in StoreType(Held(st)) /\ Held(st) \subseteq IDs
      BY DEF Sound, StoreTyped
    <2>6. st2.sessions = st.sessions /\ st2 \in StoreType(Held(st))
      BY <2>2, <2>4, <2>5 DEF StoreType
    <2>7. StoreTyped(st2)
      BY <2>5, <2>6 DEF StoreTyped, Held
    <2> QED BY <2>6, <2>7, IndexFollows
  <1>3. CASE id # NoID /\ id \in Held(st)
    <2>1. st2 = settleLocked(st, id, now)
      BY <1>3 DEF pairLocked
    <2> HIDE DEF id
    <2> QED BY <1>3, <2>1, SettleLockedFollows
  <1> QED BY <1>1, <1>2, <1>3

LEMMA AtCapFollows ==
  ASSUME NEW st, Sound(st), NEW now, NEW closed, NEW p \in Peers, NEW st2 \in atCap(st, p, now)
  PROVE  Settles(st, st2, closed)
  <1> DEFINE D    == [st.perPeer EXCEPT ![p] = st.perPeer[p] \cap Held(st)]
             rows == [st EXCEPT !.perPeer = D]
  <1>1. st2 = st \/ st2 \in settleEach(rows, st.perPeer[p], now)
    BY DEF atCap
  <1>2. st.perPeer \in [Peers -> SUBSET IDs]
    BY SoundFields DEF FieldsTyped
  <1>3. D \in [Peers -> SUBSET IDs]
    BY <1>2
  <1> HIDE DEF D
  <1>4. st \in StoreType(Held(st)) /\ Held(st) \subseteq IDs
    BY DEF Sound, StoreTyped
  <1>5. rows.sessions = st.sessions /\ rows \in StoreType(Held(st))
    BY <1>3, <1>4 DEF StoreType
  <1>6. StoreTyped(rows)
    BY <1>4, <1>5 DEF StoreTyped, Held
  <1> HIDE DEF rows
  <1>7. Settles(st, rows, closed)
    BY <1>5, <1>6, IndexFollows
  <1>8. CASE st2 = st
    BY <1>8, SettlesRefl
  <1>9. CASE st2 \in settleEach(rows, st.perPeer[p], now)
    <2>1. Sound(rows)
      BY <1>7 DEF Settles, Follows
    <2>2. Settles(rows, st2, closed)
      BY <1>9, <2>1, SettleEachFollows
    <2> QED BY <1>7, <2>2, SettlesTrans
  <1> QED BY <1>1, <1>8, <1>9

\* The same records less some of them, and an order list of identifiers.
LEMMA ForgetFollows ==
  ASSUME NEW st, Sound(st), NEW closed, NEW ids, NEW order \in Seq(IDs), NEW mid,
         mid = [st EXCEPT !.ended = order], NEW st2, st2 = forgetLocked(mid, ids)
  PROVE  Follows(st, st2, {}, closed) /\ st2.ended = order
  <1>1. st \in StoreType(Held(st)) /\ Held(st) \subseteq IDs /\ IsFiniteSet(Held(st))
    BY DEF Sound, StoreTyped
  <1>2. /\ mid.sessions = st.sessions /\ mid.pairs = st.pairs /\ mid.ended = order
        /\ mid \in StoreType(Held(st)) /\ Held(mid) = Held(st)
    BY <1>1 DEF StoreType, Held
  <1> DEFINE A == [id \in Held(st) \ ids |-> st.sessions[id]]
             B == [k \in PairKeys |-> IF st.pairs[k] \in ids THEN NoID ELSE st.pairs[k]]
  <1>3. st2 = [mid EXCEPT !.sessions = A, !.pairs = B]
    BY <1>2 DEF forgetLocked
  <1>4. A \in [Held(st) \ ids -> Session] /\ B \in [PairKeys -> Nat]
    BY <1>1 DEF StoreType, NoID
  <1>5. DOMAIN A = Held(st) \ ids /\ \A id \in DOMAIN A : A[id] = st.sessions[id]
    OBVIOUS
  <1> HIDE DEF A, B
  <1>6. st2.sessions = A /\ st2 \in StoreType(Held(st) \ ids) /\ st2.ended = order
    BY <1>2, <1>3, <1>4 DEF StoreType
  <1>7. Held(st2) = Held(st) \ ids
    BY <1>5, <1>6 DEF Held
  <1>8. IsFiniteSet(Held(st) \ ids)
    BY <1>1, FS_Subset
  <1>9. Sound(st2)
    BY <1>1, <1>6, <1>7, <1>8 DEF Sound, StoreTyped
  <1> QED BY <1>5, <1>6, <1>7, <1>9 DEF Follows, Succeeds

LEMMA TrimFollows ==
  ASSUME NEW st, Sound(st), NEW closed, NEW st2, st2 = trimLocked(st)
  PROVE  Follows(st, st2, {}, closed)
  <1> DEFINE len == Len(st.ended)
             T   == {n \in 0..len : enough(st, n)}
             n   == CHOOSE n \in 0..len : enough(st, n) /\ \A m \in 0..(n - 1) : ~enough(st, m)
  <1>1. /\ st.ended \in Seq(IDs) /\ len \in Nat /\ DOMAIN st.ended = 1..len
        /\ \A i \in 1..len : st.ended[i] \in IDs
    BY SoundFields, LenProperties DEF FieldsTyped
  <1>2. n \in 0..len
    <2>1. T \in SUBSET Nat /\ len \in T
      BY <1>1 DEF enough
    <2>2. PICK x \in T : \A y \in T : x <= y
      BY <2>1, LeastNumber
    <2>3. \A m \in 0..(x - 1) : ~enough(st, m)
      BY <1>1, <2>2
    <2> QED BY <2>2, <2>3
  <1> HIDE DEF n
  <1>3. SubSeq(st.ended, n + 1, len) \in Seq(IDs)
    <2>1. n + 1 \in Int /\ len \in Int /\ \A i \in (n + 1)..len : st.ended[i] \in IDs
      BY <1>1, <1>2
    <2> QED BY <1>1, <2>1, SubSeqProperties
  <1>4. PICK order \in Seq(IDs) : order = SubSeq(st.ended, n + 1, len)
    BY <1>3
  <1> DEFINE mid == [st EXCEPT !.ended = order]
             ids == popped(st, n)
  <1>5. st2 = forgetLocked(mid, ids)
    BY <1>4 DEF trimLocked, n
  <1>6. mid = [st EXCEPT !.ended = order]
    OBVIOUS
  <1> HIDE DEF mid, ids
  <1> QED BY <1>5, <1>6, ForgetFollows

LEMMA CreatedFollows ==
  ASSUME NEW st, Sound(st), NEW closed, NEW now \in Nat, NEW id \in IDs,
         NEW caller \in Peers, NEW callee \in Peers,
         NEW st2, st2 = created(st, id, caller, callee, now)
  PROVE  Follows(st, st2, {id}, closed)
  <1> DEFINE s == [caller |-> caller, callee |-> callee, state |-> Negotiating,
                   path |-> PathUnknown, openedAt |-> now, changedAt |-> now]
             A == [i \in Held(st) \cup {id} |-> IF i = id THEN s ELSE st.sessions[i]]
             B == [k \in PairKeys |-> IF k = pairKey(caller, callee) THEN id ELSE st.pairs[k]]
             C == st.live + 1
             D == [p \in Peers |-> IF p \in {caller, callee}
                                   THEN st.perPeer[p] \cup {id} ELSE st.perPeer[p]]
  <1>1. st2 = [st EXCEPT !.sessions = A, !.pairs = B, !.live = C, !.perPeer = D]
    BY DEF created, trackLocked
  <1>2. st \in StoreType(Held(st)) /\ Held(st) \subseteq IDs /\ IsFiniteSet(Held(st))
    BY DEF Sound, StoreTyped
  <1>3. s \in Session /\ Live(s)
    BY PathsAssumption DEF Session, Live, States, PathUnknown
  <1> HIDE DEF s
  <1>4. /\ A \in [Held(st) \cup {id} -> Session] /\ B \in [PairKeys -> Nat]
        /\ C \in Int /\ D \in [Peers -> SUBSET IDs]
    <2>1. A \in [Held(st) \cup {id} -> Session]
      BY <1>2, <1>3 DEF StoreType
    <2>2. B \in [PairKeys -> Nat] /\ C \in Int
      BY <1>2 DEF StoreType, IDs
    <2>3. D \in [Peers -> SUBSET IDs]
      BY <1>2 DEF StoreType
    <2> QED BY <2>1, <2>2, <2>3
  <1>5. /\ DOMAIN A = Held(st) \cup {id} /\ A[id] = s
        /\ \A i \in Held(st) \ {id} : A[i] = st.sessions[i]
    OBVIOUS
  <1> HIDE DEF A, B, C, D
  <1>6. st2.sessions = A /\ st2 \in StoreType(Held(st) \cup {id})
    BY <1>1, <1>2, <1>4 DEF StoreType
  <1>7. Held(st2) = Held(st) \cup {id}
    BY <1>5, <1>6 DEF Held
  <1>8. IsFiniteSet(Held(st) \cup {id})
    BY <1>2, FS_AddElement
  <1>9. Sound(st2)
    BY <1>2, <1>6, <1>7, <1>8 DEF Sound, StoreTyped
  <1> QED BY <1>3, <1>5, <1>6, <1>7, <1>9 DEF Follows, Succeeds

-----------------------------------------------------------------------------
(* The operations of the store *)

\* Open adds at most the session it answers with, and closes none.
Opens(st, o, fresh, closed) ==
    \/ Follows(st, o.store, {}, closed)
    \/ o.id = fresh /\ Follows(st, o.store, {fresh}, closed)

LEMMA OpenNewFollows ==
  ASSUME NEW st, Sound(st), NEW closed, NEW now \in Nat, NEW fresh \in IDs,
         NEW caller \in Peers, NEW callee \in Peers,
         NEW o \in openNew(st, caller, callee, now, fresh)
  PROVE  Opens(st, o, fresh, closed)
  <1>1. PICK s1 \in atCap(st, caller, now) :
          o \in IF Cardinality(s1.perPeer[caller]) >= MaxSessionsPerPeer
                THEN {Outcome(s1, ErrTooManyForPeer, NoID)}
                ELSE {IF Cardinality(s2.perPeer[callee]) >= MaxSessionsPerPeer
                      THEN Outcome(s2, ErrTooManyForPeer, NoID)
                      ELSE Outcome(created(trimLocked(s2), fresh, caller, callee, now), OK, fresh)
                        : s2 \in atCap(s1, callee, now)}
    BY DEF openNew
  <1>2. Settles(st, s1, closed)
    BY AtCapFollows
  <1>3. Sound(s1) /\ Follows(st, s1, {}, closed)
    BY <1>2 DEF Settles, Follows
  <1>4. CASE o.store = s1
    BY <1>3, <1>4 DEF Opens
  <1>5. CASE \E s2 \in atCap(s1, callee, now) :
               \/ o.store = s2
               \/ o.store = created(trimLocked(s2), fresh, caller, callee, now) /\ o.id = fresh
    <2>1. PICK s2 \in atCap(s1, callee, now) :
               \/ o.store = s2
               \/ o.store = created(trimLocked(s2), fresh, caller, callee, now) /\ o.id = fresh
      BY <1>5
    <2>2. Settles(s1, s2, closed)
      BY <1>3, AtCapFollows
    <2>3. Sound(s2) /\ Follows(st, s2, {}, closed)
      BY <1>3, <2>2, FollowsTrans DEF Settles, Follows
    <2>4. PICK s3 : s3 = trimLocked(s2)
      OBVIOUS
    <2>5. Follows(s2, s3, {}, closed)
      BY <2>3, <2>4, TrimFollows
    <2>6. Sound(s3) /\ Follows(st, s3, {}, closed)
      BY <2>3, <2>5, FollowsTrans DEF Follows
    <2>7. CASE o.store = s2
      BY <2>3, <2>7 DEF Opens
    <2>8. CASE o.store = created(s3, fresh, caller, callee, now) /\ o.id = fresh
      <3>1. Follows(s3, o.store, {fresh}, closed)
        BY <2>6, <2>8, CreatedFollows
      <3> QED BY <2>6, <2>8, <3>1, FollowsTrans DEF Opens
    <2> QED BY <2>1, <2>4, <2>7, <2>8
  <1>6. o.store = s1 \/ \E s2 \in atCap(s1, callee, now) :
               \/ o.store = s2
               \/ o.store = created(trimLocked(s2), fresh, caller, callee, now) /\ o.id = fresh
    BY <1>1 DEF Outcome
  <1> QED BY <1>4, <1>5, <1>6

LEMMA OpenFollows ==
  ASSUME NEW st, Sound(st), NEW closed, NEW now \in Nat, NEW fresh \in IDs,
         NEW caller \in Peers, NEW callee \in Peers,
         NEW o \in OpenOutcomes(st, caller, callee, now, fresh)
  PROVE  Opens(st, o, fresh, closed)
  <1>1. CASE o.store = st
    BY <1>1, FollowsRefl DEF Opens
  <1>2. CASE o \in openLocked(st, caller, callee, now, fresh)
    <2>1. PICK s1 : s1 = pairLocked(st, pairKey(caller, callee), now)
      OBVIOUS
    <2>2. pairKey(caller, callee) \in PairKeys
      BY DEF PairKeys
    <2>3. Settles(st, s1, closed)
      BY <2>1, <2>2, PairLockedFollows
    <2>4. Sound(s1) /\ Follows(st, s1, {}, closed)
      BY <2>3 DEF Settles, Follows
    <2>5. o.store = s1 \/ o \in openNew(s1, caller, callee, now, fresh)
      BY <1>2, <2>1 DEF openLocked, Outcome
    <2>6. CASE o.store = s1
      BY <2>4, <2>6 DEF Opens
    <2>7. CASE o \in openNew(s1, caller, callee, now, fresh)
      <3>1. Opens(s1, o, fresh, closed)
        BY <2>4, <2>7, OpenNewFollows
      <3> QED BY <2>4, <3>1, FollowsTrans DEF Opens
    <2> QED BY <2>5, <2>6, <2>7
  <1> QED BY <1>1, <1>2 DEF OpenOutcomes, Outcome

LEMMA GetFollows ==
  ASSUME NEW st, Sound(st), NEW closed, NEW now, NEW id, NEW p
  PROVE  Follows(st, GetOutcome(st, id, p, now).store, {}, closed)
  <1>1. CASE Known(st, id, p)
    <2>1. PICK st2 : st2 = settleLocked(st, id, now)
      OBVIOUS
    <2>2. GetOutcome(st, id, p, now).store = st2 /\ id \in Held(st)
      BY <1>1, <2>1 DEF GetOutcome, Outcome, Known
    <2>3. Settles(st, st2, closed)
      BY <2>1, <2>2, SettleLockedFollows
    <2> QED BY <2>2, <2>3 DEF Settles
  <1>2. CASE ~Known(st, id, p)
    BY <1>2, FollowsRefl DEF GetOutcome, Outcome
  <1> QED BY <1>1, <1>2

\* An accepted report moves a live session on.
LEMMA MovedFollows ==
  ASSUME NEW st, Sound(st), NEW id \in Held(st), NEW state \in reportableState,
         canMove(st.sessions[id].state, state), NEW now \in Nat,
         NEW st2, st2 = moved(st, id, state, PathUnknown, now)
  PROVE  /\ Follows(st, st2, {}, {id}) /\ Held(st2) = Held(st)
         /\ st2.sessions[id].state = state
  <1> DEFINE old == st.sessions[id]
             s   == [old EXCEPT !.state = state, !.changedAt = now,
                                !.path = IF state = Connected THEN PathUnknown ELSE @]
  <1>1. old \in Session /\ Live(old)
    <2>1. old \in Session
      BY SoundFields
    <2> QED
      BY <2>1 DEF canMove, Live, Negotiating, Connected, Failed, Closed
  <1>2. /\ s \in Session /\ s.caller = old.caller /\ s.callee = old.callee /\ s.state = state
    BY <1>1, PathsAssumption DEF Session, States, reportableState, PathUnknown
  <1>3. st2 = IF Live(s) THEN [st EXCEPT !.sessions[id] = s]
              ELSE endedLocked(st, [i \in {id} |-> s], <<id>>)
    BY DEF moved
  <1> HIDE DEF s
  <1>4. CASE Live(s)
    <2> DEFINE A == [st.sessions EXCEPT ![id] = s]
    <2>1. st \in StoreType(Held(st)) /\ Held(st) \subseteq IDs /\ IsFiniteSet(Held(st))
      BY DEF Sound, StoreTyped
    <2>2. A \in [Held(st) -> Session] /\ A[id] = s
          /\ \A i \in Held(st) \ {id} : A[i] = st.sessions[i]
      BY <1>2, <2>1 DEF StoreType
    <2>3. st2 = [st EXCEPT !.sessions = A]
      BY <1>3, <1>4
    <2> HIDE DEF A
    <2>4. st2.sessions = A /\ st2 \in StoreType(Held(st))
      BY <2>1, <2>2, <2>3 DEF StoreType
    <2>5. Held(st2) = Held(st) /\ Sound(st2)
      BY <2>1, <2>2, <2>4 DEF Held, Sound, StoreTyped
    <2>6. \A i \in Held(st) :
            /\ Succeeds(st.sessions[i], st2.sessions[i])
            /\ st2.sessions[i].state = Closed => st.sessions[i].state = Closed \/ i \in {id}
      BY <1>1, <1>2, <2>2, <2>4 DEF Succeeds
    <2> QED BY <1>2, <2>2, <2>4, <2>5, <2>6 DEF Follows
  <1>5. CASE ~Live(s)
    <2>1. PICK recs, order : recs = [i \in {id} |-> s] /\ order = <<id>>
      OBVIOUS
    <2>2. DOMAIN recs = {id} /\ recs[id] = s
      BY <2>1
    <2>3. id \in IDs
      BY SoundFields DEF FieldsTyped
    <2>4. order \in Seq(IDs)
      BY <2>1, <2>3
    <2>5. Endings(st, recs, {id})
      BY <1>1, <1>2, <2>2 DEF Endings, LiveIDs
    <2>6. st2 = endedLocked(st, recs, order)
      BY <1>3, <1>5, <2>1
    <2>7. /\ Follows(st, st2, {}, {id}) /\ Held(st2) = Held(st)
          /\ \A i \in DOMAIN recs : st2.sessions[i] = recs[i]
      BY <2>4, <2>5, <2>6, EndedFollows
    <2> QED BY <1>2, <2>2, <2>7
  <1> QED BY <1>4, <1>5

\* A report closes nothing but its session, and then it is accepted.
Reports(st, o, id) ==
    \/ Follows(st, o.store, {}, {}) /\ o.err # OK
    \/ Follows(st, o.store, {}, {id}) /\ id \in Held(o.store) /\ o.err = OK

LEMMA ReportFollows ==
  ASSUME NEW st, Sound(st), NEW id, NEW p, NEW state \in reportableState, NEW now \in Nat
  PROVE  Reports(st, ReportOutcome(st, id, p, state, PathUnknown, now), id)
  <1>1. PICK o : o = ReportOutcome(st, id, p, state, PathUnknown, now)
    OBVIOUS
  <1>2. CASE ~Known(st, id, p)
    <2>1. o.store = st /\ o.err # OK
      BY <1>1, <1>2 DEF ReportOutcome, Outcome, OK, ErrNotFound
    <2> QED BY <1>1, <2>1, FollowsRefl DEF Reports
  <1>3. CASE Known(st, id, p)
    <2>1. PICK s1 : s1 = settleLocked(st, id, now)
      OBVIOUS
    <2>2. id \in Held(st)
      BY <1>3 DEF Known
    <2>3. Settles(st, s1, {}) /\ Settles(st, s1, {id})
      BY <2>1, <2>2, SettleLockedFollows
    <2>4. /\ Sound(s1) /\ id \in Held(s1)
          /\ Follows(st, s1, {}, {}) /\ Follows(st, s1, {}, {id})
      BY <2>2, <2>3 DEF Settles, Follows
    <2>5. CASE canMove(s1.sessions[id].state, state)
      <3>1. PICK s2 : s2 = moved(s1, id, state, PathUnknown, now)
        OBVIOUS
      <3>2. o.store = s2 /\ o.err = OK
        BY <1>1, <1>3, <2>1, <2>5, <3>1 DEF ReportOutcome, Outcome
      <3>3. Follows(s1, s2, {}, {id}) /\ Held(s2) = Held(s1)
        BY <2>4, <2>5, <3>1, MovedFollows
      <3>4. Follows(st, s2, {}, {id})
        BY <2>4, <3>3, FollowsTrans
      <3> QED BY <1>1, <2>4, <3>2, <3>3, <3>4 DEF Reports
    <2>6. CASE ~canMove(s1.sessions[id].state, state)
      <3>1. o.store = s1 /\ o.err # OK
        BY <1>1, <1>3, <2>1, <2>6 DEF ReportOutcome, Outcome, OK, ErrBadTransition
      <3> QED BY <1>1, <2>4, <3>1 DEF Reports
    <2> QED BY <2>5, <2>6
  <1> QED BY <1>2, <1>3

LEMMA ClosePeerFollows ==
  ASSUME NEW st, Sound(st), NEW now \in Nat, NEW p, NEW st2 \in ClosePeerOutcomes(st, p, now)
  PROVE  Follows(st, st2, {}, Held(st))
  <1> DEFINE ids  == sessionsOf(st, p)
             recs == [id \in ids |-> hungUp(st, id, now)]
  <1>1. PICK order \in SetToSeqs(ids) : st2 = endedLocked(st, recs, order)
    BY DEF ClosePeerOutcomes
  <1>2. /\ DOMAIN recs = ids /\ ids \subseteq LiveIDs(st) /\ ids \subseteq Held(st)
        /\ \A id \in ids : recs[id] = hungUp(st, id, now)
    BY DEF sessionsOf, LiveIDs
  <1> HIDE DEF recs, ids
  <1>3. order \in Seq(IDs)
    <2>1. IsFiniteSet(ids) /\ ids \subseteq IDs
      BY <1>2, SoundFields, FS_Subset DEF FieldsTyped
    <2> QED BY <2>1, OrderTyped
  <1>4. ASSUME NEW id \in ids
        PROVE  /\ recs[id] \in Session
               /\ recs[id].caller = st.sessions[id].caller
               /\ recs[id].callee = st.sessions[id].callee
    <2>1. st.sessions[id] \in Session
      BY <1>2, <1>4, SoundFields
    <2>2. CASE TimedOut(st.sessions[id], now)
      BY <1>2, <2>1, <2>2, SettledRecord DEF hungUp
    <2>3. CASE ~TimedOut(st.sessions[id], now)
      BY <1>2, <2>1, <2>3 DEF hungUp, Session, States
    <2> QED BY <2>2, <2>3
  <1>5. Endings(st, recs, Held(st))
    BY <1>2, <1>4 DEF Endings
  <1> QED BY <1>1, <1>3, <1>5, EndedFollows

LEMMA ReapFollows ==
  ASSUME NEW st, Sound(st), NEW now, NEW closed, NEW st2 \in ReapOutcomes(st, now)
  PROVE  Follows(st, st2, {}, closed)
  <1>1. PICK s1 \in settleEach(st, Held(st), now) :
          st2 = compactEndedLocked(forgetLocked(s1, overdue(s1, now)))
    BY DEF ReapOutcomes
  <1>2. Settles(st, s1, closed)
    BY SettleEachFollows
  <1>3. Sound(s1) /\ Follows(st, s1, {}, closed)
    BY <1>2 DEF Settles, Follows
  <1>4. PICK ids, s2 : ids = overdue(s1, now) /\ s2 = forgetLocked(s1, ids)
    OBVIOUS
  <1>5. Follows(s1, s2, {}, closed)
    <2>1. s1.ended \in Seq(IDs) /\ s1 = [s1 EXCEPT !.ended = s1.ended]
      BY <1>3 DEF Sound, StoreTyped, StoreType
    <2>2. PICK order \in Seq(IDs) : order = s1.ended
      BY <2>1
    <2>3. s1 = [s1 EXCEPT !.ended = order]
      BY <2>1, <2>2
    <2> QED BY <1>3, <1>4, <2>3, ForgetFollows
  <1>6. Sound(s2)
    BY <1>5 DEF Follows
  <1>7. PICK order : order = compact(s2.ended, Held(s2))
    OBVIOUS
  <1>8. st2 = [s2 EXCEPT !.ended = order]
    BY <1>1, <1>4, <1>7 DEF compactEndedLocked
  <1>9. s2.ended \in Seq(IDs) /\ order \in Seq(IDs)
    BY <1>6, <1>7, SoundFields, CompactTyped DEF FieldsTyped
  <1>10. s2 \in StoreType(Held(s2))
    BY <1>6 DEF Sound, StoreTyped
  <1>11. st2.sessions = s2.sessions /\ st2 \in StoreType(Held(s2))
    BY <1>8, <1>9, <1>10 DEF StoreType
  <1>12. StoreTyped(st2)
    BY <1>6, <1>11 DEF Sound, StoreTyped, Held
  <1>13. Follows(s2, st2, {}, closed)
    BY <1>6, <1>11, <1>12, IndexFollows DEF Settles
  <1> QED BY <1>3, <1>5, <1>13, FollowsTrans

-----------------------------------------------------------------------------
(* The registry *)

\* The registry's module counts as this one does.
LEMMA SameCardinality == \A S : Reg!Cardinality(S) = Cardinality(S)
BY Zenon DEF Reg!Cardinality, Cardinality, Reg!IsFiniteSet, IsFiniteSet

\* What every critical section of the registry keeps true of its map.
RegOK(r) ==
    /\ DOMAIN r \subseteq Peers /\ r \in [DOMAIN r -> Reg!Record]
    /\ IsFiniteSet(DOMAIN r) /\ Cardinality(DOMAIN r) <= MaxPeers

LEMMA WithoutOK ==
  ASSUME NEW r, RegOK(r), NEW ps
  PROVE  /\ RegOK(Reg!without(r, ps)) /\ DOMAIN Reg!without(r, ps) = DOMAIN r \ ps
         /\ \A q \in DOMAIN r \ ps : Reg!without(r, ps)[q] = r[q]
  <1> DEFINE r2 == Reg!without(r, ps)
  <1>1. r2 = [q \in DOMAIN r \ ps |-> r[q]]
    BY DEF Reg!without, Reg!Restrict
  <1>2. DOMAIN r2 = DOMAIN r \ ps /\ r2 \in [DOMAIN r \ ps -> Reg!Record]
    BY <1>1 DEF RegOK
  <1>3. IsFiniteSet(DOMAIN r \ ps) /\ Cardinality(DOMAIN r \ ps) <= MaxPeers
    <2>1. /\ IsFiniteSet(DOMAIN r \ ps) /\ IsFiniteSet(DOMAIN r)
          /\ Cardinality(DOMAIN r \ ps) <= Cardinality(DOMAIN r)
          /\ Cardinality(DOMAIN r \ ps) \in Nat /\ Cardinality(DOMAIN r) \in Nat
      BY FS_Subset, FS_CardinalityType DEF RegOK
    <2> QED BY <2>1, ControlPlaneOptions DEF RegOK
  <1> HIDE DEF r2
  <1>4. RegOK(r2)
    BY <1>2, <1>3 DEF RegOK
  <1> QED BY <1>1, <1>2, <1>4 DEF r2

LEMMA PutOK ==
  ASSUME NEW r, RegOK(r), NEW p \in Peers, NEW rec \in Reg!Record,
         p \in DOMAIN r \/ Cardinality(DOMAIN r) < MaxPeers
  PROVE  RegOK(Reg!put(r, p, rec)) /\ p \in DOMAIN Reg!put(r, p, rec)
  <1> DEFINE r2 == Reg!put(r, p, rec)
  <1>1. DOMAIN r2 = DOMAIN r \cup {p} /\ r2 \in [DOMAIN r \cup {p} -> Reg!Record]
    BY DEF Reg!put, RegOK
  <1>2. IsFiniteSet(DOMAIN r \cup {p}) /\ Cardinality(DOMAIN r \cup {p}) <= MaxPeers
    <2>1. /\ IsFiniteSet(DOMAIN r \cup {p})
          /\ Cardinality(DOMAIN r \cup {p}) =
               IF p \in DOMAIN r THEN Cardinality(DOMAIN r) ELSE Cardinality(DOMAIN r) + 1
      BY FS_AddElement DEF RegOK
    <2>2. Cardinality(DOMAIN r) \in Nat /\ Cardinality(DOMAIN r) <= MaxPeers
      BY FS_CardinalityType DEF RegOK
    <2> QED BY <2>1, <2>2, ControlPlaneOptions
  <1> HIDE DEF r2
  <1>3. RegOK(r2)
    BY <1>1, <1>2 DEF RegOK
  <1> QED BY <1>1, <1>3 DEF r2

\* Nobody whom the sweep would remove is left, and there is no room.
FullOf(r, now) == Reg!gone(r, now) = {} /\ Cardinality(DOMAIN r) = MaxPeers

\* Register admits, or leaves a registry that is full of peers still there.
LEMMA RegisterOK ==
  ASSUME NEW r, RegOK(r), NEW p \in Peers, NEW now \in Nat,
         NEW r2, r2 = Reg!Register(r, p, now).reg
  PROVE  RegOK(r2) /\ (p \in DOMAIN r2 \/ FullOf(r2, now))
  <1> DEFINE full == p \notin DOMAIN r /\ Cardinality(DOMAIN r) >= MaxPeers
             rec  == Reg!registered(r, p, now)
  <1>1. rec \in Reg!Record
    BY DEF Reg!registered, Reg!Record, RegOK
  <1>2. Cardinality(DOMAIN r) \in Nat /\ MaxPeers \in Nat
    BY FS_CardinalityType, ControlPlaneOptions DEF RegOK
  <1> HIDE DEF rec
  <1>3. CASE ~full
    <2>1. r2 = Reg!put(r, p, rec)
      BY <1>3, SameCardinality DEF Reg!Register, Reg!Answered, rec
    <2>2. p \in DOMAIN r \/ Cardinality(DOMAIN r) < MaxPeers
      BY <1>2, <1>3
    <2> QED BY <1>1, <2>1, <2>2, PutOK
  <1>4. CASE full
    <2>1. PICK room : room = Reg!expireLocked(r, now)
      OBVIOUS
    <2>2. PICK ps : ps = Reg!gone(r, now)
      OBVIOUS
    <2>3. /\ RegOK(room) /\ DOMAIN room = DOMAIN r \ ps
          /\ \A q \in DOMAIN r \ ps : room[q] = r[q]
      BY <2>1, <2>2, WithoutOK DEF Reg!expireLocked
    <2>4. Cardinality(DOMAIN room) \in Nat /\ Cardinality(DOMAIN room) <= MaxPeers
      BY <2>3, FS_CardinalityType DEF RegOK
    <2>5. CASE Cardinality(DOMAIN room) >= MaxPeers
      <3>1. r2 = room
        BY <1>4, <2>1, <2>5, SameCardinality DEF Reg!Register, Reg!Answered
      <3>2. Cardinality(DOMAIN room) = MaxPeers
        BY <1>2, <2>4, <2>5
      <3>3. Reg!gone(room, now) = {}
        BY <2>2, <2>3 DEF Reg!gone
      <3> QED BY <2>3, <3>1, <3>2, <3>3 DEF FullOf
    <2>6. CASE ~(Cardinality(DOMAIN room) >= MaxPeers)
      <3>1. r2 = Reg!put(room, p, rec)
        BY <1>4, <2>1, <2>6, SameCardinality DEF Reg!Register, Reg!Answered, rec
      <3>2. Cardinality(DOMAIN room) < MaxPeers
        BY <1>2, <2>4, <2>6
      <3> QED BY <1>1, <2>3, <3>1, <3>2, PutOK
    <2> QED BY <2>5, <2>6
  <1> QED BY <1>3, <1>4

\* A heartbeat that is accepted finds its peer registered and leaves it so.
LEMMA HeartbeatOK ==
  ASSUME NEW r, RegOK(r), NEW p \in Peers, NEW now \in Nat,
         NEW o, o = Reg!Heartbeat(r, p, now)
  PROVE  RegOK(o.reg) /\ (o.err = Reg!OK => p \in DOMAIN o.reg)
  <1>1. CASE Reg!Lookup(r, p, now)
    <2>1. p \in DOMAIN r
      BY <1>1 DEF Reg!Lookup
    <2>2. r[p] \in Reg!Record
      BY <2>1 DEF RegOK
    <2> DEFINE rec == [r[p] EXCEPT !.lastSeen = now]
               r2  == [r EXCEPT ![p] = rec]
    <2>3. rec \in Reg!Record
      BY <2>2 DEF Reg!Record
    <2>4. o.reg = r2
      BY <1>1 DEF Reg!Heartbeat, Reg!Answered
    <2> HIDE DEF rec
    <2>5. DOMAIN r2 = DOMAIN r /\ r2 \in [DOMAIN r -> Reg!Record]
      BY <2>1, <2>3 DEF RegOK
    <2> HIDE DEF r2
    <2>6. RegOK(r2)
      BY <2>5 DEF RegOK
    <2> QED BY <2>1, <2>4, <2>5, <2>6
  <1>2. CASE ~Reg!Lookup(r, p, now)
    <2>1. PICK ps : ps = {p}
      OBVIOUS
    <2>2. o.reg = Reg!without(r, ps) /\ o.err # Reg!OK
      BY <1>2, <2>1 DEF Reg!Heartbeat, Reg!Answered, Reg!OK, Reg!ErrNotRegistered
    <2>3. RegOK(Reg!without(r, ps))
      BY WithoutOK
    <2> QED BY <2>2, <2>3
  <1> QED BY <1>1, <1>2

-----------------------------------------------------------------------------
(* The invariant of the server *)

\* newID never draws an identifier twice.
FreshIDs == Held(store) \subseteq 1..(nextID - 1)

\* A call under way has somebody to write to.
TellsOK == \A t \in tells : t.to # << >>

\* Whoever waits, waits to hear of a session of theirs that is over.
WaitingOK ==
    \A w \in waiting :
        /\ w[1] < nextID /\ w[1] \notin LiveIDs(store)
        /\ w[1] \in Held(store) => Has(store.sessions[w[1]], w[2])

\* What the critical sections of the store and the calls under way share.
Owed ==
    /\ Sound(store) /\ FreshIDs /\ waiting \subseteq IDs \X Peers
    /\ WaitingOK /\ ToldIsUnderWay

Inv == TypeOK /\ RegOK(reg) /\ Owed /\ TellsOK

LEMMA BelowNext ==
  ASSUME NEW i \in Nat, i # 0, NEW m \in Nat, NEW n \in Nat, i < m, m <= n
  PROVE  i \in 1..(n - 1)
OBVIOUS

LEMMA AmongNext ==
  ASSUME NEW i \in Nat, i # 0, NEW m \in Nat, NEW n \in Nat, i \in m..(n - 1)
  PROVE  i \in 1..(n - 1)
OBVIOUS

\* A critical section of the store: it closes sessions only where it leaves a
\* call under way that is to tell both sides.
LEMMA StoreStep ==
  ASSUME Inv, NEW st, NEW new, NEW closed, Follows(store, st, new, closed), StoreBecomes(st),
         nextID' \in Nat, nextID <= nextID', \A id \in new : id \in nextID..(nextID' - 1),
         tells \subseteq tells',
         \A id \in closed \cap Held(st) :
            st.sessions[id].state = Closed /\ store.sessions[id].state # Closed =>
               \E t \in tells' : t.id = id /\ t.to = both(st.sessions[id])
  PROVE  Owed'
  <1>1. /\ store' = st
        /\ waiting' = waiting \cup
             {w \in stopped(st) \X channels : Has(store.sessions[w[1]], w[2])}
    BY DEF StoreBecomes
  <1>2. /\ Sound(store) /\ FreshIDs /\ waiting \subseteq IDs \X Peers /\ WaitingOK
        /\ ToldIsUnderWay /\ channels \subseteq Peers /\ nextID \in Nat
    BY DEF Inv, Owed, TypeOK, IDs
  <1>3. /\ Sound(st) /\ Held(st) \subseteq Held(store) \cup new
        /\ \A id \in Held(st) \ new :
              /\ Succeeds(store.sessions[id], st.sessions[id])
              /\ st.sessions[id].state = Closed =>
                    store.sessions[id].state = Closed \/ id \in closed
    BY DEF Follows
  <1>4. Held(store) \subseteq IDs /\ Held(st) \subseteq IDs
    BY <1>2, <1>3 DEF Sound, StoreTyped
  <1>5. \A id \in Held(store) : id < nextID /\ id \notin new
    BY <1>2, <1>4 DEF FreshIDs, IDs
  <1>6. FreshIDs'
    <2> SUFFICES ASSUME NEW id \in Held(st) PROVE id \in 1..(nextID' - 1)
      BY <1>1 DEF FreshIDs
    <2>1. id \in Held(store) \/ id \in new
      BY <1>3
    <2>2. id \in Nat /\ id # 0
      BY <1>4 DEF IDs, NoID
    <2>3. CASE id \in Held(store)
      <3>1. id < nextID
        BY <1>5, <2>3
      <3>2. nextID \in Nat
        BY <1>2
      <3> QED BY <2>2, <3>1, <3>2, BelowNext
    <2>4. CASE id \in new
      <3>1. id \in nextID..(nextID' - 1)
        BY <2>4
      <3>2. nextID \in Nat
        BY <1>2
      <3> QED BY <2>2, <3>1, <3>2, AmongNext
    <2> QED BY <2>1, <2>3, <2>4
  <1>7. ASSUME NEW w \in waiting'
        PROVE  \/ w \in waiting
               \/ /\ w \in LiveIDs(store) \X channels /\ w[1] \notin LiveIDs(st)
                  /\ Has(store.sessions[w[1]], w[2])
    BY <1>1, <1>7 DEF stopped
  <1>8. waiting' \subseteq IDs \X Peers
    <2>1. LiveIDs(store) \subseteq IDs
      BY <1>4 DEF LiveIDs
    <2>2. LiveIDs(store) \X channels \subseteq IDs \X Peers
      BY <1>2, <2>1
    <2>3. ASSUME NEW w \in waiting' PROVE w \in IDs \X Peers
      <3>1. CASE w \in waiting
        BY <1>2, <3>1
      <3>2. CASE w \in LiveIDs(store) \X channels
        BY <2>2, <3>2
      <3> QED BY <1>7, <3>1, <3>2
    <2> QED BY <2>3
  <1>9. ASSUME NEW w \in waiting'
        PROVE  /\ w[1] < nextID /\ w[1] \notin LiveIDs(st)
               /\ w[1] \in Held(st) => w[1] \notin new /\ Has(st.sessions[w[1]], w[2])
    <2>1. CASE w \in waiting
      <3>1. /\ w[1] \in IDs /\ w[1] < nextID /\ w[1] \notin LiveIDs(store)
            /\ w[1] \in Held(store) => Has(store.sessions[w[1]], w[2])
        BY <1>2, <2>1 DEF WaitingOK
      <3>2. w[1] \notin new
        BY <1>2, <3>1 DEF IDs
      <3>3. ASSUME w[1] \in Held(st)
            PROVE  ~Live(st.sessions[w[1]]) /\ Has(st.sessions[w[1]], w[2])
        <4>1. w[1] \in Held(store) /\ Succeeds(store.sessions[w[1]], st.sessions[w[1]])
          BY <1>3, <3>2, <3>3
        <4> QED BY <3>1, <4>1 DEF Succeeds, LiveIDs, Live, Has
      <3> QED BY <3>1, <3>2, <3>3 DEF LiveIDs
    <2>2. CASE w \notin waiting
      <3>1. /\ w[1] \in LiveIDs(store) /\ w[1] \notin LiveIDs(st)
            /\ Has(store.sessions[w[1]], w[2])
        BY <1>7, <2>2
      <3>2. w[1] \in Held(store)
        BY <3>1 DEF LiveIDs
      <3>3. w[1] < nextID /\ w[1] \notin new
        BY <1>5, <3>2
      <3>4. w[1] \in Held(st) => Succeeds(store.sessions[w[1]], st.sessions[w[1]])
        BY <1>3, <3>3
      <3> QED BY <3>1, <3>3, <3>4 DEF Succeeds, Has
    <2> QED BY <2>1, <2>2
  <1>10. WaitingOK'
    <2> SUFFICES ASSUME NEW w \in waiting'
                 PROVE  /\ w[1] < nextID' /\ w[1] \notin LiveIDs(st)
                        /\ w[1] \in Held(st) => Has(st.sessions[w[1]], w[2])
      BY <1>1 DEF WaitingOK
    <2>1. w[1] \in Nat
      BY <1>8 DEF IDs
    <2> QED BY <1>2, <1>9, <2>1
  <1>11. ToldIsUnderWay'
    <2> SUFFICES ASSUME NEW w \in waiting', w[1] \in Held(st), st.sessions[w[1]].state = Closed
                 PROVE  \E t \in tells' : t.id = w[1] /\ w[2] \in Range(t.to)
      BY <1>1 DEF ToldIsUnderWay
    <2>1. /\ w[1] \notin new /\ Has(st.sessions[w[1]], w[2])
          /\ store.sessions[w[1]].state = Closed \/ w[1] \in closed
          /\ w[1] \in Held(store)
      BY <1>3, <1>9
    <2>2. CASE store.sessions[w[1]].state = Closed
      <3>1. w[1] \notin LiveIDs(store)
        BY <2>2 DEF LiveIDs, Live, Negotiating, Connected, Closed
      <3>2. w \in waiting
        BY <1>7, <3>1
      <3>3. PICK t \in tells : t.id = w[1] /\ w[2] \in Range(t.to)
        BY <1>2, <2>1, <2>2, <3>2 DEF ToldIsUnderWay
      <3> QED BY <3>3
    <2>3. CASE store.sessions[w[1]].state # Closed
      <3>1. PICK t \in tells' : t.id = w[1] /\ t.to = both(st.sessions[w[1]])
        BY <2>1, <2>3
      <3>2. w[2] \in Range(t.to)
        BY <2>1, <3>1 DEF both, Has, Range
      <3> QED BY <3>1, <3>2
    <2> QED BY <2>2, <2>3
  <1>12. Sound(store)'
    BY <1>1, <1>3
  <1> QED BY <1>6, <1>8, <1>10, <1>11, <1>12 DEF Owed

\* The parts of the state that only carry a type.
CarriedOK ==
    /\ channels \subseteq Peers /\ clock \in Nat /\ nextID \in IDs
    /\ calling \subseteq Peers \X Peers /\ removed \subseteq Peers
    /\ announcing \subseteq [by : {Presence, Channel}, peer : Peers,
                             step : {"heartbeat", "register"}]

TellOK(t) == t.by \in {Sweep, Handler} /\ t.id \in IDs /\ t.to \in Seq(Peers) /\ t.to # << >>

LEMMA InvParts ==
  Inv <=> CarriedOK /\ RegOK(reg) /\ Owed /\ \A t \in tells : TellOK(t)
BY DEF Inv, TypeOK, CarriedOK, RegOK, Owed, Sound, TellsOK, TellOK

LEMMA InvNext ==
  ASSUME CarriedOK', RegOK(reg)', Owed', \A t \in tells' : TellOK(t)
  PROVE  Inv'
BY DEF Inv, TypeOK, CarriedOK, RegOK, Owed, Sound, TellsOK, TellOK

LEMMA NewTell ==
  ASSUME NEW by \in {Sweep, Handler}, NEW id \in IDs, NEW s \in Session
  PROVE  TellOK(Tell(by, id, both(s)))
BY DEF TellOK, Tell, both, Session

\* Telling one side leaves the other to be told.
LEMMA RestTold ==
  ASSUME NEW t, TellOK(t)
  PROVE  /\ \A u \in rest(t) : TellOK(u)
         /\ \A p \in Range(t.to) : p = Head(t.to) \/
               \E u \in rest(t) : u.id = t.id /\ p \in Range(u.to)
  <1> DEFINE q == t.to
             n == Len(q)
  <1>q. q \in Seq(Peers) /\ q # << >>
    BY DEF TellOK
  <1> HIDE DEF q
  <1>1. /\ n \in Nat \ {0} /\ DOMAIN q = 1..n /\ Head(q) = q[1]
        /\ Tail(q) \in Seq(Peers) /\ Len(Tail(q)) = n - 1
        /\ \A i \in 1..(n - 1) : Tail(q)[i] = q[i + 1]
    BY <1>q, HeadTailProperties, EmptySeq, LenProperties
  <1> HIDE DEF n
  <1>2. rest(t) = IF n = 1 THEN {} ELSE {Tell(t.by, t.id, Tail(q))}
    BY DEF rest, q, n
  <1>3. ASSUME n # 1 PROVE TellOK(Tell(t.by, t.id, Tail(q)))
    <2>1. Tail(q) # << >>
      BY <1>1, <1>3
    <2> QED BY <1>1, <2>1 DEF TellOK, Tell
  <1>4. ASSUME NEW p \in Range(q), p # q[1]
        PROVE  n # 1 /\ p \in Range(Tail(q))
    <2>1. PICK i \in 1..n : p = q[i]
      BY <1>1 DEF Range
    <2>2. i # 1 /\ i - 1 \in 1..(n - 1) /\ Tail(q)[i - 1] = q[i]
      BY <1>1, <1>4, <2>1
    <2>3. DOMAIN Tail(q) = 1..(n - 1)
      BY <1>1
    <2> QED BY <1>1, <2>1, <2>2, <2>3 DEF Range
  <1>5. \A u \in rest(t) : TellOK(u)
    BY <1>2, <1>3
  <1>6. ASSUME NEW p \in Range(q), p # q[1]
        PROVE  \E u \in rest(t) : u.id = t.id /\ p \in Range(u.to)
    <2>1. n # 1 /\ p \in Range(Tail(q))
      BY <1>4, <1>6
    <2>2. PICK u : u = Tell(t.by, t.id, Tail(q))
      OBVIOUS
    <2>3. u \in rest(t) /\ u.id = t.id /\ u.to = Tail(q)
      BY <1>2, <2>1, <2>2 DEF Tell
    <2> QED BY <2>1, <2>3
  <1> QED BY <1>1, <1>5, <1>6 DEF q

-----------------------------------------------------------------------------
(* Every action keeps the invariant *)

LEMMA OpenInv ==
  ASSUME Inv, NEW caller \in Peers, NEW callee \in Peers, OpenSession(caller, callee)
  PROVE  Inv'
  <1>1. /\ CarriedOK /\ RegOK(reg) /\ Owed /\ \A t \in tells : TellOK(t)
    BY InvParts
  <1>2. PICK o \in OpenOutcomes(store, caller, callee, clock, nextID) :
          StoreBecomes(o.store) /\ nextID' = IF o.id = nextID THEN nextID + 1 ELSE nextID
    BY DEF OpenSession
  <1>3. Sound(store) /\ clock \in Nat /\ nextID \in IDs /\ nextID \in Nat
    BY <1>1 DEF Owed, CarriedOK, IDs
  <1>4. Opens(store, o, nextID, {})
    BY <1>2, <1>3, OpenFollows
  <1>5. /\ nextID' \in IDs /\ nextID' \in Nat /\ nextID <= nextID'
        /\ o.id = nextID => nextID \in nextID..(nextID' - 1)
    BY <1>2, <1>3 DEF IDs, NoID
  <1>6. UNCHANGED <<reg, channels, clock, removed, tells, announcing>>
    BY DEF OpenSession
  <1>7. Owed'
    <2>1. CASE Follows(store, o.store, {}, {})
      <3>1. PICK st, none : st = o.store /\ none = {}
        OBVIOUS
      <3>2. Follows(store, st, none, none) /\ StoreBecomes(st)
        BY <1>2, <2>1, <3>1
      <3> QED BY <1>5, <1>6, <3>1, <3>2, StoreStep
    <2>2. CASE o.id = nextID /\ Follows(store, o.store, {nextID}, {})
      <3>1. PICK st, none, new : st = o.store /\ none = {} /\ new = {nextID}
        OBVIOUS
      <3>2. /\ Follows(store, st, new, none) /\ StoreBecomes(st)
            /\ \A id \in new : id \in nextID..(nextID' - 1)
        BY <1>2, <1>5, <2>2, <3>1
      <3> QED BY <1>5, <1>6, <3>1, <3>2, StoreStep
    <2> QED BY <1>4, <2>1, <2>2 DEF Opens
  <1>8. CarriedOK'
    BY <1>1, <1>5, <1>6 DEF CarriedOK, OpenSession
  <1>9. RegOK(reg)' /\ \A t \in tells' : TellOK(t)
    BY <1>1, <1>6 DEF RegOK
  <1> QED BY <1>7, <1>8, <1>9, InvNext

\* A critical section of the store that closes nothing and opens nothing.
LEMMA SettleInv ==
  ASSUME Inv, NEW st, Follows(store, st, {}, {}), StoreBecomes(st),
         UNCHANGED <<reg, channels, clock, nextID, calling, removed, tells, announcing>>
  PROVE  Inv'
  <1>1. /\ CarriedOK /\ RegOK(reg) /\ Owed /\ \A t \in tells : TellOK(t)
    BY InvParts
  <1>2. nextID' \in Nat /\ nextID <= nextID'
    BY <1>1 DEF CarriedOK, IDs
  <1>3. PICK none : none = {}
    OBVIOUS
  <1>4. Follows(store, st, none, none)
    BY <1>3
  <1>5. Owed'
    BY <1>2, <1>3, <1>4, StoreStep
  <1>6. CarriedOK' /\ RegOK(reg)' /\ \A t \in tells' : TellOK(t)
    BY <1>1 DEF CarriedOK, RegOK
  <1> QED BY <1>5, <1>6, InvNext

\* One that closes sessions and leaves a call under way for each of them.
LEMMA ClosingInv ==
  ASSUME Inv, NEW st, NEW closed, Follows(store, st, {}, closed), StoreBecomes(st),
         UNCHANGED <<reg, channels, clock, nextID, calling, announcing>>,
         removed' \subseteq removed, NEW more, tells' = tells \cup more,
         \A t \in more : TellOK(t),
         \A id \in closed \cap Held(st) :
            st.sessions[id].state = Closed /\ store.sessions[id].state # Closed =>
               \E t \in more : t.id = id /\ t.to = both(st.sessions[id])
  PROVE  Inv'
  <1>1. /\ CarriedOK /\ RegOK(reg) /\ Owed /\ \A t \in tells : TellOK(t)
    BY InvParts
  <1>2. nextID' \in Nat /\ nextID <= nextID'
    BY <1>1 DEF CarriedOK, IDs
  <1>3. PICK none : none = {}
    OBVIOUS
  <1>4. Follows(store, st, none, closed)
    BY <1>3
  <1>5. \A id \in closed \cap Held(st) :
            st.sessions[id].state = Closed /\ store.sessions[id].state # Closed =>
               \E t \in tells' : t.id = id /\ t.to = both(st.sessions[id])
    OBVIOUS
  <1>6. tells \subseteq tells' /\ \A id \in none : id \in nextID..(nextID' - 1)
    BY <1>3
  <1>7. Owed'
    BY <1>2, <1>4, <1>5, <1>6, StoreStep
  <1>8. CarriedOK' /\ RegOK(reg)' /\ \A t \in tells' : TellOK(t)
    BY <1>1 DEF CarriedOK, RegOK
  <1> QED BY <1>7, <1>8, InvNext

LEMMA ReportInv ==
  ASSUME Inv, NEW id, NEW p, NEW state \in reportableState, ReportSession(id, p, state)
  PROVE  Inv'
  <1>1. PICK o : o = ReportOutcome(store, id, p, state, PathUnknown, clock)
    OBVIOUS
  <1>2. /\ StoreBecomes(o.store)
        /\ tells' = IF o.err = OK THEN tells \cup notifyEnded(o.store, id) ELSE tells
        /\ UNCHANGED <<reg, channels, clock, nextID, calling, removed, announcing>>
    BY <1>1 DEF ReportSession
  <1>3. Sound(store) /\ clock \in Nat
    BY DEF Inv, Owed, TypeOK
  <1>4. Reports(store, o, id)
    BY <1>1, <1>3, ReportFollows
  <1>5. PICK st : st = o.store
    OBVIOUS
  <1>6. CASE o.err # OK
    <2>1. Follows(store, st, {}, {}) /\ StoreBecomes(st) /\ tells' = tells
      BY <1>2, <1>4, <1>5, <1>6 DEF Reports
    <2> QED BY <1>2, <2>1, SettleInv
  <1>7. CASE o.err = OK
    <2>1. PICK more, closed : more = notifyEnded(st, id) /\ closed = {id}
      OBVIOUS
    <2>2. /\ Follows(store, st, {}, closed) /\ StoreBecomes(st) /\ tells' = tells \cup more
          /\ id \in Held(st)
      BY <1>2, <1>4, <1>5, <1>7, <2>1 DEF Reports
    <2>3. id \in IDs /\ st.sessions[id] \in Session
      BY <2>2, SoundFields DEF Follows, FieldsTyped
    <2>4. \A t \in more : TellOK(t)
      BY <2>1, <2>3, NewTell DEF notifyEnded, Handler, Sweep
    <2>5. ASSUME NEW i \in closed \cap Held(st), st.sessions[i].state = Closed
          PROVE  \E t \in more : t.id = i /\ t.to = both(st.sessions[i])
      <3>1. i = id /\ id \notin LiveIDs(st)
        BY <2>1, <2>5 DEF LiveIDs, Live, Negotiating, Connected, Closed
      <3>2. PICK t : t = Tell(Handler, id, both(st.sessions[id]))
        OBVIOUS
      <3>3. t \in more /\ t.id = id /\ t.to = both(st.sessions[id])
        BY <2>1, <3>1, <3>2 DEF notifyEnded, Tell
      <3> QED BY <3>1, <3>3
    <2> QED BY <1>2, <2>2, <2>4, <2>5, ClosingInv
  <1> QED BY <1>6, <1>7

LEMMA SweepCloseInv ==
  ASSUME Inv, NEW p \in Peers, SweepClose(p)
  PROVE  Inv'
  <1>1. PICK st \in ClosePeerOutcomes(store, p, clock) :
          StoreBecomes(st) /\ tells' = tells \cup sweepTells(st)
    BY DEF SweepClose, hangUp
  <1>2. /\ UNCHANGED <<reg, channels, clock, nextID, calling, announcing>>
        /\ removed' \subseteq removed
    BY DEF SweepClose
  <1>3. Sound(store) /\ clock \in Nat
    BY DEF Inv, Owed, TypeOK
  <1>4. PICK closed, more : closed = Held(store) /\ more = sweepTells(st)
    OBVIOUS
  <1>5. Follows(store, st, {}, closed) /\ tells' = tells \cup more
    BY <1>1, <1>3, <1>4, ClosePeerFollows
  <1>6. /\ Sound(st) /\ Held(st) \subseteq Held(store)
        /\ \A id \in Held(st) : /\ id \in IDs /\ st.sessions[id] \in Session
                                /\ Succeeds(store.sessions[id], st.sessions[id])
    BY <1>5, SoundFields DEF Follows, FieldsTyped
  <1>7. ASSUME NEW t \in more PROVE TellOK(t)
    <2>1. PICK id \in stopped(st) : /\ st.sessions[id].state = Closed
                                    /\ t = Tell(Sweep, id, both(st.sessions[id]))
      BY <1>4, <1>7 DEF sweepTells
    <2>2. id \in IDs /\ st.sessions[id] \in Session
      <3>1. id \in Held(store) /\ Held(st) = Held(store)
        <4>1. PICK order : st = endedLocked(store, [i \in sessionsOf(store, p) |->
                                                      hungUp(store, i, clock)], order)
          BY <1>1 DEF ClosePeerOutcomes
        <4>2. PICK recs : recs = [i \in sessionsOf(store, p) |-> hungUp(store, i, clock)]
          OBVIOUS
        <4>3. EndedTo(store, recs, order, st)
          BY <1>3, <4>1, <4>2, EndedFields
        <4> QED BY <4>3 DEF EndedTo, Held, stopped, LiveIDs
      <3> QED BY <1>6, <3>1
    <2> QED BY <2>1, <2>2, NewTell DEF Sweep, Handler
  <1>8. ASSUME NEW id \in closed \cap Held(st), st.sessions[id].state = Closed,
               store.sessions[id].state # Closed
        PROVE  \E t \in more : t.id = id /\ t.to = both(st.sessions[id])
    <2>1. id \in Held(store) /\ id \in Held(st) /\ Succeeds(store.sessions[id], st.sessions[id])
      BY <1>4, <1>6, <1>8
    <2>2. Live(store.sessions[id]) /\ ~Live(st.sessions[id])
      BY <1>8, <2>1 DEF Succeeds, Live, Negotiating, Connected, Closed
    <2>3. id \in stopped(st)
      BY <2>1, <2>2 DEF stopped, LiveIDs
    <2>4. PICK t : t = Tell(Sweep, id, both(st.sessions[id]))
      OBVIOUS
    <2>5. t \in more
      BY <1>4, <1>8, <2>3, <2>4 DEF sweepTells
    <2>6. t.id = id /\ t.to = both(st.sessions[id])
      BY <2>4 DEF Tell
    <2> QED BY <2>5, <2>6
  <1> QED BY <1>1, <1>2, <1>5, <1>7, <1>8, ClosingInv

\* A call that has written to one side has the other still to write to.
LEMMA ToldInv ==
  ASSUME Inv, NEW t \in tells, tells' = (tells \ {t}) \cup rest(t),
         UNCHANGED <<reg, store, clock, nextID, calling, removed, announcing>>,
         channels' \subseteq channels, waiting' \subseteq waiting,
         \A w \in waiting' : ~(w[1] = t.id /\ w[2] = Head(t.to))
  PROVE  Inv'
  <1>1. /\ CarriedOK /\ RegOK(reg) /\ Owed /\ \A u \in tells : TellOK(u)
    BY InvParts
  <1>2. /\ \A u \in rest(t) : TellOK(u)
        /\ \A p \in Range(t.to) : p = Head(t.to) \/
               \E u \in rest(t) : u.id = t.id /\ p \in Range(u.to)
    BY <1>1, RestTold
  <1>3. ToldIsUnderWay'
    <2> SUFFICES ASSUME NEW w \in waiting', w[1] \in Held(store),
                        store.sessions[w[1]].state = Closed
                 PROVE  \E u \in tells' : u.id = w[1] /\ w[2] \in Range(u.to)
      BY DEF ToldIsUnderWay
    <2>1. PICK v \in tells : v.id = w[1] /\ w[2] \in Range(v.to)
      BY <1>1 DEF Owed, ToldIsUnderWay
    <2>2. CASE v # t
      BY <2>1, <2>2
    <2>3. CASE v = t
      <3>1. PICK u \in rest(t) : u.id = t.id /\ w[2] \in Range(u.to)
        BY <1>2, <2>1, <2>3
      <3> QED BY <2>1, <2>3, <3>1
    <2> QED BY <2>2, <2>3
  <1>4. Owed'
    <2>1. Sound(store)' /\ FreshIDs' /\ waiting' \subseteq IDs \X Peers
      BY <1>1 DEF Owed, Sound, FreshIDs
    <2>2. WaitingOK'
      BY <1>1 DEF Owed, WaitingOK
    <2> QED BY <1>3, <2>1, <2>2 DEF Owed
  <1>5. CarriedOK' /\ RegOK(reg)' /\ \A u \in tells' : TellOK(u)
    BY <1>1, <1>2 DEF CarriedOK, RegOK
  <1> QED BY <1>4, <1>5, InvNext

\* A step that leaves the store and the calls under way alone.
LEMMA QuietInv ==
  ASSUME Inv, UNCHANGED <<store, nextID, tells>>, waiting' \subseteq waiting,
         CarriedOK', RegOK(reg')
  PROVE  Inv'
  <1>1. Owed /\ \A t \in tells : TellOK(t)
    BY InvParts
  <1>2. Sound(store)' /\ FreshIDs' /\ waiting' \subseteq IDs \X Peers
    BY <1>1 DEF Owed, Sound, FreshIDs
  <1>3. WaitingOK' /\ ToldIsUnderWay'
    BY <1>1 DEF Owed, WaitingOK, ToldIsUnderWay
  <1>4. Owed'
    BY <1>2, <1>3 DEF Owed
  <1> QED BY <1>1, <1>4, InvNext DEF RegOK

\* A presence update moves on to its registration.
LEMMA AfterHeartbeat ==
  ASSUME CarriedOK, NEW u \in announcing, NEW err
  PROVE  \A v \in afterHeartbeat(u, err) :
            /\ v \in [by : {Presence, Channel}, peer : Peers, step : {"heartbeat", "register"}]
            /\ v.by = u.by /\ v.peer = u.peer
  <1>1. u \in [by : {Presence, Channel}, peer : Peers, step : {"heartbeat", "register"}]
    BY DEF CarriedOK
  <1> QED BY <1>1 DEF afterHeartbeat

LEMMA RegistryInv ==
  ASSUME Inv, NEW r, RegOK(r), RegistryBecomes(r)
  PROVE  Inv'
  <1>1. CarriedOK'
    BY InvParts DEF CarriedOK, RegistryBecomes
  <1> QED BY <1>1, QuietInv DEF RegistryBecomes

LEMMA NextInv ==
  ASSUME Inv, Next
  PROVE  Inv'
  <1>1. CarriedOK /\ RegOK(reg) /\ Sound(store) /\ clock \in Nat
    BY InvParts DEF Owed, CarriedOK
  <1>2. Callers \subseteq Peers /\ Holders \subseteq Peers /\ Reporters \subseteq Peers
    BY ControlPlaneOptions
  <1>3. ASSUME NEW p \in Callers, NEW q \in Peers, AskReachable(p, q) PROVE Inv'
    <2>1. CarriedOK'
      BY <1>1, <1>2, <1>3 DEF AskReachable, CarriedOK
    <2> QED BY <1>1, <1>3, <2>1, QuietInv DEF AskReachable
  <1>4. ASSUME NEW p \in Callers, NEW q \in Peers, OpenSession(p, q) PROVE Inv'
    BY <1>2, <1>4, OpenInv
  <1>5. ASSUME NEW id, NEW p, GetSession(id, p) PROVE Inv'
    <2>1. PICK st, none : st = GetOutcome(store, id, p, clock).store /\ none = {}
      OBVIOUS
    <2>2. Follows(store, st, {}, {})
      BY <1>1, <2>1, GetFollows
    <2> QED BY <1>5, <2>1, <2>2, SettleInv DEF GetSession
  <1>6. ASSUME NEW id, NEW p, NEW s \in reportableState, ReportSession(id, p, s) PROVE Inv'
    BY <1>6, ReportInv
  <1>7. ASSUME NEW t \in tells, SessionEnded(t) PROVE Inv'
    <2>1. /\ waiting' \subseteq waiting /\ <<t.id, Head(t.to)>> \notin waiting'
      BY <1>7 DEF SessionEnded
    <2>2. ASSUME NEW w \in waiting', w[1] = t.id, w[2] = Head(t.to) PROVE FALSE
      <3>1. w \in IDs \X Peers
        BY <2>1 DEF Inv, Owed
      <3>2. w = <<w[1], w[2]>>
        BY <3>1
      <3> QED BY <2>1, <2>2, <3>2
    <2> QED BY <1>7, <2>1, <2>2, ToldInv DEF SessionEnded
  <1>8. ASSUME NEW t \in tells, SessionEndedFails(t) PROVE Inv'
    <2>1. /\ waiting' \subseteq waiting /\ channels' \subseteq channels
          /\ \A w \in waiting' : ~(w[1] = t.id /\ w[2] = Head(t.to))
      BY <1>8 DEF SessionEndedFails
    <2> QED BY <1>8, <2>1, ToldInv DEF SessionEndedFails
  <1>9. ASSUME NEW p \in Reporters, PostPeers(p) PROVE Inv'
    <2>1. PICK r : r = Reg!Register(reg, p, clock).reg
      OBVIOUS
    <2>2. RegOK(r)
      BY <1>1, <1>2, <2>1, RegisterOK
    <2> QED BY <1>9, <2>1, <2>2, RegistryInv DEF PostPeers
  <1>10. ASSUME NEW p \in Reporters, DeletePeers(p) PROVE Inv'
    <2>1. PICK ps, r : ps = {p} /\ r = Reg!without(reg, ps)
      OBVIOUS
    <2>2. RegOK(r)
      BY <1>1, <2>1, WithoutOK
    <2> QED BY <1>10, <2>1, <2>2, RegistryInv DEF DeletePeers, Reg!Deregister
  <1>11. ASSUME NEW p \in Reporters, PostHeartbeat(p) PROVE Inv'
    <2>1. PICK o : o = Reg!Heartbeat(reg, p, clock)
      OBVIOUS
    <2>2. RegOK(o.reg)
      BY <1>1, <1>2, <2>1, HeartbeatOK
    <2> QED BY <1>11, <2>1, <2>2, RegistryInv DEF PostHeartbeat
  <1>12. ASSUME NEW p \in Holders, OpenChannel(p) PROVE Inv'
    <2>1. CarriedOK'
      BY <1>1, <1>2, <1>12 DEF OpenChannel, CarriedOK, Update, Channel
    <2> QED BY <1>1, <1>12, <2>1, QuietInv DEF OpenChannel
  <1>13. ASSUME NEW p \in Holders, CloseChannel(p) PROVE Inv'
    <2>1. CarriedOK' /\ waiting' \subseteq waiting
      BY <1>1, <1>13 DEF CloseChannel, CarriedOK
    <2> QED BY <1>1, <1>13, <2>1, QuietInv DEF CloseChannel
  <1>14. CASE RefreshPresence
    <2>1. CarriedOK'
      BY <1>1, <1>14 DEF RefreshPresence, CarriedOK, Update, Presence
    <2> QED BY <1>1, <1>14, <2>1, QuietInv DEF RefreshPresence
  <1>15. ASSUME NEW u \in announcing, AnnounceHeartbeat(u) PROVE Inv'
    <2>1. PICK o : o = Reg!Heartbeat(reg, u.peer, clock)
      OBVIOUS
    <2>2. u.peer \in Peers
      BY <1>1 DEF CarriedOK
    <2>3. RegOK(o.reg)
      BY <1>1, <2>1, <2>2, HeartbeatOK
    <2>4. /\ reg' = o.reg
          /\ announcing' = (announcing \ {u}) \cup afterHeartbeat(u, o.err)
          /\ UNCHANGED <<store, channels, clock, nextID, calling, removed, tells, waiting>>
      BY <1>15, <2>1 DEF AnnounceHeartbeat
    <2>5. CarriedOK'
      BY <1>1, <2>4, AfterHeartbeat DEF CarriedOK
    <2> QED BY <2>3, <2>4, <2>5, QuietInv
  <1>16. ASSUME NEW u \in announcing, AnnounceRegister(u) PROVE Inv'
    <2>1. PICK r : r = Reg!Register(reg, u.peer, clock).reg
      OBVIOUS
    <2>2. u.peer \in Peers
      BY <1>1 DEF CarriedOK
    <2>3. RegOK(r)
      BY <1>1, <2>1, <2>2, RegisterOK
    <2>4. CarriedOK'
      BY <1>1, <1>16 DEF AnnounceRegister, CarriedOK
    <2> QED BY <1>16, <2>1, <2>3, <2>4, QuietInv DEF AnnounceRegister
  <1>17. CASE SweepExpire
    <2>1. PICK ps, r : ps = Reg!gone(reg, clock) /\ r = Reg!without(reg, ps)
      OBVIOUS
    <2>2. RegOK(r) /\ reg' = r
      BY <1>1, <1>17, <2>1, WithoutOK DEF SweepExpire, Reg!expireLocked
    <2>3. CarriedOK'
      BY <1>1, <1>17 DEF SweepExpire, CarriedOK, RegOK, Reg!gone
    <2> QED BY <1>17, <2>2, <2>3, QuietInv DEF SweepExpire
  <1>18. ASSUME NEW p \in Peers, SweepClose(p) PROVE Inv'
    BY <1>18, SweepCloseInv
  <1>19. CASE Reap
    <2>1. PICK st \in ReapOutcomes(store, clock) : StoreBecomes(st)
      BY <1>19 DEF Reap
    <2>2. Follows(store, st, {}, {})
      BY <1>1, ReapFollows
    <2> QED BY <1>19, <2>1, <2>2, SettleInv DEF Reap
  <1>20. CASE Tick
    <2>1. CarriedOK'
      BY <1>1, <1>20 DEF Tick, CarriedOK
    <2> QED BY <1>1, <1>20, <2>1, QuietInv DEF Tick
  <1> QED
    BY <1>3, <1>4, <1>5, <1>6, <1>7, <1>8, <1>9, <1>10, <1>11, <1>12, <1>13, <1>14,
       <1>15, <1>16, <1>17, <1>18, <1>19, <1>20 DEF Next

LEMMA InitInv == Init => Inv
  <1> SUFFICES ASSUME Init PROVE Inv
    OBVIOUS
  <1>1. Held(store) = {} /\ LiveIDs(store) = {}
    BY DEF Init, EmptyStore, Held, LiveIDs
  <1>2. Sound(store)
    <2>1. /\ EmptyStore.sessions \in [{} -> Session] /\ EmptyStore.pairs \in [PairKeys -> Nat]
          /\ EmptyStore.live \in Int /\ EmptyStore.perPeer \in [Peers -> SUBSET IDs]
          /\ EmptyStore.ended \in Seq(IDs)
      BY DEF EmptyStore, NoID
    <2>2. EmptyStore \in StoreType({})
      BY <2>1 DEF EmptyStore, StoreType
    <2> QED BY <1>1, <2>2, FS_EmptySet DEF Init, Sound, StoreTyped
  <1>3. RegOK(reg)
    <2>1. DOMAIN reg = {} /\ reg \in [{} -> Reg!Record]
      BY DEF Init, Reg!EmptyRegistry
    <2> QED BY <2>1, FS_EmptySet, ControlPlaneOptions DEF RegOK
  <1>4. Owed
    BY <1>1, <1>2 DEF Init, Owed, FreshIDs, WaitingOK, ToldIsUnderWay
  <1>5. CarriedOK
    BY DEF Init, CarriedOK, IDs, NoID
  <1>6. tells = {}
    BY DEF Init
  <1> QED BY <1>3, <1>4, <1>5, <1>6, InvParts

LEMMA StutterInv ==
  ASSUME Inv, UNCHANGED vars
  PROVE  Inv'
  <1>1. CarriedOK'
    BY InvParts DEF vars, CarriedOK
  <1>2. RegOK(reg')
    BY InvParts DEF vars
  <1> QED BY <1>1, <1>2, QuietInv DEF vars

LEMMA AlwaysInv == Spec => []Inv
  <1>1. Inv /\ [Next]_vars => Inv'
    BY NextInv, StutterInv
  <1> QED BY <1>1, InitInv, PTL DEF Spec

-----------------------------------------------------------------------------
(* The theorems *)

\* The registry's map, the store and everything under way keep their types,
\* whatever the goroutines do between two critical sections.
THEOREM TypeCorrect == Spec => []TypeOK
  <1>1. Inv => TypeOK
    BY DEF Inv
  <1> QED BY <1>1, AlwaysInv, PTL

\* Whoever held a channel when a session of theirs was closed, and has not been
\* told, is named by a SessionEnded call that is still under way
\* (sessions.go:68-74, main.go:145-150, hub.go:281-286).
THEOREM ToldCorrect == Spec => []ToldIsUnderWay
  <1>1. Inv => ToldIsUnderWay
    BY DEF Inv, Owed
  <1> QED BY <1>1, AlwaysInv, PTL

\* A step of the server ends the opening of a channel only with its peer in the
\* registry, or the registry full of peers that are still there
\* (main.go:337-341).
LEMMA OpeningEnds ==
  ASSUME Inv, [Next]_vars, NEW p \in Peers, opening(p), ~opening(p)'
  PROVE  p \in DOMAIN reg' \/ FullOf(reg', clock)
  <1>1. CarriedOK /\ RegOK(reg) /\ clock \in Nat
    BY InvParts DEF CarriedOK
  <1>2. PICK u \in announcing : u.by = Channel /\ u.peer = p
    BY DEF opening
  <1>3. u \notin announcing'
    BY <1>2 DEF opening
  <1>4. \/ \E v \in announcing : AnnounceHeartbeat(v) \/ AnnounceRegister(v)
        \/ announcing \subseteq announcing'
    BY DEF Next, vars, AskReachable, OpenSession, GetSession, ReportSession, SessionEnded,
           SessionEndedFails, PostPeers, DeletePeers, PostHeartbeat, RegistryBecomes,
           OpenChannel, CloseChannel, RefreshPresence, SweepExpire, SweepClose, Reap, Tick
  <1>5. PICK v \in announcing : AnnounceHeartbeat(v) \/ AnnounceRegister(v)
    BY <1>3, <1>4
  <1>6. v = u
    BY <1>3, <1>5 DEF AnnounceHeartbeat, AnnounceRegister
  <1>7. CASE AnnounceHeartbeat(u)
    <2>1. PICK o : o = Reg!Heartbeat(reg, p, clock)
      OBVIOUS
    <2>2. reg' = o.reg /\ announcing' = (announcing \ {u}) \cup afterHeartbeat(u, o.err)
      BY <1>2, <1>7, <2>1 DEF AnnounceHeartbeat
    <2>3. afterHeartbeat(u, o.err) = {}
      BY <1>1, <1>2, <2>2, AfterHeartbeat DEF opening
    <2>4. o.err = Reg!OK
      BY <2>3 DEF afterHeartbeat
    <2>5. p \in DOMAIN o.reg
      BY <1>1, <2>1, <2>4, HeartbeatOK
    <2> QED BY <2>2, <2>5
  <1>8. CASE AnnounceRegister(u)
    <2>1. reg' = Reg!Register(reg, p, clock).reg
      BY <1>2, <1>8 DEF AnnounceRegister
    <2>2. PICK r : r = Reg!Register(reg, p, clock).reg
      OBVIOUS
    <2>3. p \in DOMAIN r \/ FullOf(r, clock)
      BY <1>1, <2>2, RegisterOK
    <2> QED BY <2>1, <2>2, <2>3
  <1> QED BY <1>5, <1>6, <1>7, <1>8

\* A channel that opens leaves its peer in the registry, whatever was expired
\* or deregistered meanwhile, unless the registry is full of peers that are
\* still there (main.go:337-341).
THEOREM ChannelCorrect == Spec => ChannelRegisters
  <1>1. ASSUME Inv, [Next]_vars
        PROVE  [\A p \in Peers :
                  (opening(p) /\ ~opening(p)') =>
                     \/ p \in DOMAIN reg'
                     \/ Reg!gone(reg', clock) = {} /\ Cardinality(DOMAIN reg') = MaxPeers]_vars
    BY <1>1, OpeningEnds DEF FullOf
  <1> QED BY <1>1, AlwaysInv, PTL DEF Spec, ChannelRegisters


=============================================================================
