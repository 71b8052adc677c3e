------------------------- MODULE SessionStoreProofs -------------------------
(***************************************************************************)
(* The session store keeps its promises in every behaviour, for any number *)
(* of peers, any ceilings and any timeouts.                                *)
(*                                                                         *)
(* The first part is about store values: StoreInv, the promises of a       *)
(* store, is preserved by each locked helper of session.go, and so by each *)
(* critical section built from them.  The second part is about the state   *)
(* machine: its inductive invariant is StoreInv with two facts about the   *)
(* steps, that identifiers are never reused and that the last answer was   *)
(* right when it was given.                                                *)
(***************************************************************************)
EXTENDS SessionStore, FiniteSetTheorems, SequenceTheorems, WellFoundedInduction, TLAPS

-----------------------------------------------------------------------------
(* The order list *)

\* An order over a finite set lists every member of it exactly once
\* (the order in which a loop over a Go map meets its entries).
LEMMA OrderProperties ==
    ASSUME NEW S, IsFiniteSet(S), NEW order \in SetToSeqs(S)
    PROVE  order \in Seq(S) /\ Range(order) = S /\ IsInjective(order)
<1> DEFINE n == Cardinality(S)
<1>1. n \in Nat
  BY FS_CardinalityType
<1>2. order \in [1..n -> S] /\ \A i, j \in 1..n : i # j => order[i] # order[j]
  BY DEF SetToSeqs
<1>3. order \in Seq(S)
  BY <1>1, <1>2
<1>4. order \in Injection(1..n, S)
  BY <1>2 DEF Injection, IsInjective
<1>5. order \in Surjection(1..n, S)
  BY <1>1, <1>4, FS_Interval, FS_Injection
<1>6. Range(order) = S
  BY <1>2, <1>5 DEF Surjection, Range
<1> QED
  BY <1>2, <1>3, <1>6 DEF IsInjective

\* Appending an order over ids that are not yet listed keeps the list free of
\* repetitions and adds exactly those ids to it.
LEMMA AppendOrder ==
    ASSUME NEW S, NEW e \in Seq(S), NEW o \in Seq(S),
           IsInjective(e), IsInjective(o), Range(e) \cap Range(o) = {}
    PROVE  /\ e \o o \in Seq(S)
           /\ Range(e \o o) = Range(e) \cup Range(o)
           /\ IsInjective(e \o o)
<1> DEFINE f == e \o o
<1>1. /\ f \in Seq(S)
      /\ Len(f) = Len(e) + Len(o)
      /\ \A i \in 1..(Len(e) + Len(o)) :
            f[i] = IF i <= Len(e) THEN e[i] ELSE o[i - Len(e)]
  BY ConcatProperties
<1>2. /\ Len(e) \in Nat /\ DOMAIN e = 1..Len(e)
      /\ Len(o) \in Nat /\ DOMAIN o = 1..Len(o)
      /\ DOMAIN f = 1..Len(f)
  BY <1>1, LenProperties
<1>3. Range(f) = Range(e) \cup Range(o)
  BY RangeConcatenation
<1>4. ASSUME NEW i \in DOMAIN f, NEW j \in DOMAIN f, f[i] = f[j], i < j
      PROVE  FALSE
  <2>1. CASE j <= Len(e)
    BY <1>1, <1>2, <1>4, <2>1 DEF IsInjective
  <2>2. CASE i > Len(e)
    <3>1. o[i - Len(e)] = o[j - Len(e)]
      BY <1>1, <1>2, <1>4, <2>2
    <3> QED
      BY <1>1, <1>2, <1>4, <2>2, <3>1 DEF IsInjective
  <2>3. CASE i <= Len(e) /\ j > Len(e)
    <3>1. e[i] \in Range(e) /\ o[j - Len(e)] \in Range(o)
      BY <1>1, <1>2, <1>4, <2>3 DEF Range
    <3>2. e[i] = o[j - Len(e)]
      BY <1>1, <1>2, <1>4, <2>3
    <3> QED
      BY <3>1, <3>2
  <2> QED
    BY <1>1, <1>2, <2>1, <2>2, <2>3
<1>5. IsInjective(f)
  BY <1>1, <1>2, <1>4 DEF IsInjective
<1> QED
  BY <1>1, <1>3, <1>5

\* Compacting a list keeps exactly the listed entries that are kept, each once
\* if each was listed once (compactEndedLocked).
LEMMA CompactProperties ==
    ASSUME NEW S, NEW seq \in Seq(S), NEW kept
    PROVE  /\ compact(seq, kept) \in Seq(S)
           /\ Range(compact(seq, kept)) = Range(seq) \cap kept
           /\ IsInjective(seq) => IsInjective(compact(seq, kept))
<1> DEFINE at      == {i \in DOMAIN seq : seq[i] \in kept}
           upto(i) == {j \in at : j <= i}
           card(i) == Cardinality(upto(i))
           rank    == [i \in at |-> card(i)]
           N       == Cardinality(at)
           nth(n)  == CHOOSE i \in at : card(i) = n
           f       == [n \in 1..N |-> seq[nth(n)]]
<1>1. compact(seq, kept) = f
  BY DEF compact
<1>2. DOMAIN seq = 1..Len(seq) /\ Len(seq) \in Nat /\ \A i \in DOMAIN seq : seq[i] \in S
  BY LenProperties
<1>3. IsFiniteSet(at) /\ N \in Nat
  <2>1. at \in SUBSET (1..Len(seq)) /\ IsFiniteSet(1..Len(seq))
    BY <1>2, FS_Interval
  <2> QED
    BY <2>1, FS_Subset, FS_CardinalityType
<1>4. \A i \in at : IsFiniteSet(upto(i)) /\ upto(i) \subseteq at /\ i \in upto(i)
  BY <1>2, <1>3, FS_Subset
<1> HIDE DEF N
<1>5. \A i \in at : card(i) \in 1..N
  <2> SUFFICES ASSUME NEW i \in at PROVE card(i) \in 1..N
    OBVIOUS
  <2>1. Cardinality(upto(i)) \in Nat /\ Cardinality(upto(i)) <= N
    BY <1>3, <1>4, FS_Subset, FS_CardinalityType DEF N
  <2>2. Cardinality(upto(i)) # 0
    BY <1>4, FS_EmptySet
  <2> HIDE DEF upto
  <2> QED
    BY <1>3, <2>1, <2>2
<1>6. \A i, j \in at : i < j => card(i) < card(j)
  <2> SUFFICES ASSUME NEW i \in at, NEW j \in at, i < j
               PROVE  card(i) < card(j)
    OBVIOUS
  <2>1. upto(i) \subseteq upto(j) /\ upto(i) # upto(j)
    BY <1>2, <1>4
  <2>2. /\ Cardinality(upto(i)) <= Cardinality(upto(j))
        /\ Cardinality(upto(i)) # Cardinality(upto(j))
    BY <1>4, <2>1, FS_Subset
  <2> HIDE DEF upto
  <2> QED
    BY <1>3, <1>5, <2>2
<1> HIDE DEF card
<1>7. rank \in Injection(at, 1..N)
  <2>1. rank \in [at -> 1..N]
    BY <1>5
  <2>2. ASSUME NEW i \in at, NEW j \in at, rank[i] = rank[j] PROVE i = j
    <3>1. card(i) = card(j)
      BY <2>2
    <3>2. i \in Int /\ j \in Int
      BY <1>2
    <3> QED
      BY <1>3, <1>5, <1>6, <3>1, <3>2
  <2> QED
    BY <2>1, <2>2 DEF Injection, IsInjective
<1>8. rank \in Surjection(at, 1..N)
  BY <1>3, <1>7, FS_Interval, FS_Injection DEF N
<1>9. \A n \in 1..N : nth(n) \in at /\ card(nth(n)) = n
  <2> SUFFICES ASSUME NEW n \in 1..N
               PROVE  nth(n) \in at /\ card(nth(n)) = n
    OBVIOUS
  <2>1. \E i \in at : rank[i] = n
    BY <1>8 DEF Surjection
  <2>2. \E i \in at : card(i) = n
    BY <2>1
  <2> QED
    BY <2>2
<1> HIDE DEF nth
<1>10. f \in Seq(S)
  BY <1>2, <1>3, <1>9
<1>11. \A i \in at : \E n \in 1..N : nth(n) = i
  <2> SUFFICES ASSUME NEW i \in at PROVE \E n \in 1..N : nth(n) = i
    OBVIOUS
  <2> DEFINE n == card(i)
  <2>1. n \in 1..N
    BY <1>5
  <2>2. nth(n) \in at /\ card(nth(n)) = card(i)
    BY <1>9, <2>1
  <2>3. nth(n) = i
    BY <1>2, <1>3, <1>5, <1>6, <2>2
  <2> QED
    BY <2>1, <2>3
<1>12. Range(f) = Range(seq) \cap kept
  <2>1. \A x \in Range(f) : x \in Range(seq) /\ x \in kept
    BY <1>9 DEF Range
  <2>2. ASSUME NEW x \in Range(seq), x \in kept PROVE x \in Range(f)
    <3>1. PICK i \in at : seq[i] = x
      BY <2>2 DEF Range
    <3>2. PICK n \in 1..N : nth(n) = i
      BY <1>11
    <3> QED
      BY <3>1, <3>2 DEF Range
  <2> QED
    BY <2>1, <2>2
<1>13. IsInjective(seq) => IsInjective(f)
  <2> SUFFICES ASSUME IsInjective(seq), NEW m \in 1..N, NEW n \in 1..N, f[m] = f[n]
               PROVE  m = n
    BY DEF IsInjective
  <2>1. seq[nth(m)] = seq[nth(n)]
    OBVIOUS
  <2>2. nth(m) = nth(n)
    BY <1>9, <2>1 DEF IsInjective
  <2> QED
    BY <1>9, <2>2
<1> QED
  BY <1>1, <1>10, <1>12, <1>13

\* A set of natural numbers that is not empty has a least element.
LEMMA LeastNumber ==
    ASSUME NEW T \in SUBSET Nat, T # {}
    PROVE  \E x \in T : \A y \in T : x <= y
<1>1. PICK x \in T : \A y \in T : ~(<<y, x>> \in OpToRel(<, Nat))
  BY NatLessThanWellFounded, WFMin
<1>2. \A y \in T : ~(y < x)
  BY <1>1 DEF OpToRel
<1> QED
  BY <1>2

-----------------------------------------------------------------------------
(* The promises of a store, and the helpers that end sessions *)

StoreInv(st) ==
    /\ StoreTyped(st)
    /\ IsFiniteSet(Held(st))
    /\ CountExact(st)
    /\ PerPeerExact(st)
    /\ PairsExact(st)
    /\ EndedExact(st)
    /\ Bounded(st)

\* The new records of a set of live sessions that stop being live.
Endings(st, recs) ==
    /\ DOMAIN recs \subseteq LiveIDs(st)
    /\ recs \in [DOMAIN recs -> Session]
    /\ \A id \in DOMAIN recs :
          /\ ~Live(recs[id])
          /\ recs[id].caller = st.sessions[id].caller
          /\ recs[id].callee = st.sessions[id].callee

\* The state a session is in decides whether it is live.
LEMMA LiveStates ==
    /\ \A s : s.state = Negotiating => Live(s)
    /\ \A s : s.state \in {Failed, Closed} => ~Live(s)
BY DEF Live, Negotiating, Connected, Failed, Closed

\* endedLocked, field by field.
EndedTo(st, recs, order, st2) ==
    /\ st2.sessions = [id \in Held(st) |->
                         IF id \in DOMAIN recs THEN recs[id] ELSE st.sessions[id]]
    /\ st2.pairs    = [k \in PairKeys |->
                         IF \E id \in DOMAIN recs : keyOf(recs[id]) = k
                         THEN NoID ELSE st.pairs[k]]
    /\ st2.live     = st.live - Cardinality(DOMAIN recs)
    /\ st2.perPeer  = [p \in Peers |->
                         st.perPeer[p] \ {id \in DOMAIN recs : Has(recs[id], p)}]
    /\ st2.ended    = st.ended \o order

\* The types of a store's fields, one by one.
FieldsTyped(st) ==
    /\ Held(st) \subseteq IDs
    /\ st.sessions \in [Held(st) -> Session]
    /\ st.pairs \in [PairKeys -> Nat]
    /\ st.live \in Int
    /\ st.perPeer \in [Peers -> SUBSET IDs]
    /\ st.ended \in Seq(IDs)

LEMMA EndedFields ==
    ASSUME NEW st, StoreTyped(st), NEW recs, NEW order
    PROVE  LET st2 == endedLocked(st, recs, order)
           IN  EndedTo(st, recs, order, st2) /\ (FieldsTyped(st2) => StoreTyped(st2))
<1> DEFINE st2 == endedLocked(st, recs, order)
           A == [id \in Held(st) |->
                   IF id \in DOMAIN recs THEN recs[id] ELSE st.sessions[id]]
           B == [k \in PairKeys |->
                   IF \E id \in DOMAIN recs : keyOf(recs[id]) = k
                   THEN NoID ELSE st.pairs[k]]
           C == st.live - Cardinality(DOMAIN recs)
           D == [p \in Peers |->
                   st.perPeer[p] \ {id \in DOMAIN recs : Has(recs[id], p)}]
           E == st.ended \o order
<1>1. st2 = [st EXCEPT !.sessions = A, !.live = C, !.perPeer = D, !.pairs = B, !.ended = E]
  BY DEF endedLocked, untrackLocked
<1> HIDE DEF A, B, C, D, E, st2
<1>2. st \in StoreType(Held(st))
  BY DEF StoreTyped
<1>3. /\ st2.sessions = A /\ st2.pairs = B /\ st2.live = C
      /\ st2.perPeer = D /\ st2.ended = E
  BY <1>1, <1>2 DEF StoreType
<1>4. ASSUME FieldsTyped(st2) PROVE StoreTyped(st2)
  <2>1. st2 \in StoreType(Held(st2))
    BY <1>1, <1>2, <1>3, <1>4 DEF StoreType, FieldsTyped
  <2> QED
    BY <1>4, <2>1 DEF StoreTyped, FieldsTyped
<1>5. EndedTo(st, recs, order, st2)
  BY <1>3 DEF EndedTo, A, B, C, D, E
<1> QED
  BY <1>4, <1>5 DEF st2

\* Ending live sessions keeps every promise, whichever they are and in
\* whatever order the loop met them: the counter, both indexes and the order
\* list change together (session.go:469-477).
LEMMA EndedKeepsInv ==
    ASSUME NEW st, StoreInv(st), NEW recs, Endings(st, recs),
           NEW order \in SetToSeqs(DOMAIN recs)
    PROVE  LET st2 == endedLocked(st, recs, order)
           IN  /\ StoreInv(st2)
               /\ Held(st2) = Held(st)
               /\ LiveIDs(st2) = LiveIDs(st) \ DOMAIN recs
<1> DEFINE ids == DOMAIN recs
           st2 == endedLocked(st, recs, order)
<1> USE DEF StoreInv
<1>1. /\ Held(st2) = Held(st)
      /\ \A id \in Held(st) :
            st2.sessions[id] = IF id \in ids THEN recs[id] ELSE st.sessions[id]
      /\ st2.live = st.live - Cardinality(ids)
      /\ \A p \in Peers : st2.perPeer[p] = st.perPeer[p] \ {id \in ids : Has(recs[id], p)}
      /\ \A k \in PairKeys :
            st2.pairs[k] = IF \E id \in ids : keyOf(recs[id]) = k THEN NoID ELSE st.pairs[k]
      /\ st2.ended = st.ended \o order
  <2>1. EndedTo(st, recs, order, st2)
    BY EndedFields
  <2> HIDE DEF StoreInv, st2
  <2> QED
    BY <2>1 DEF Held, EndedTo
<1>2. /\ ids \subseteq LiveIDs(st) /\ LiveIDs(st) \subseteq Held(st)
      /\ Held(st) \subseteq IDs /\ IsFiniteSet(ids) /\ IsFiniteSet(LiveIDs(st))
  BY FS_Subset DEF Endings, LiveIDs, StoreTyped
<1>3. LiveIDs(st2) = LiveIDs(st) \ ids
  BY <1>1, <1>2 DEF LiveIDs, Endings
<1>4. order \in Seq(ids) /\ Range(order) = ids /\ IsInjective(order)
  BY <1>2, OrderProperties
<1>5. CountExact(st2)
  <2>1. Cardinality(LiveIDs(st) \ ids) = Cardinality(LiveIDs(st)) - Cardinality(ids)
    <3>1. LiveIDs(st) \cap ids = ids
      BY <1>2
    <3>2. Cardinality(LiveIDs(st) \ ids) = Cardinality(LiveIDs(st)) - Cardinality(LiveIDs(st) \cap ids)
      BY <1>2, FS_Difference
    <3> QED
      BY <3>1, <3>2
  <2> QED
    BY <1>1, <1>3, <2>1 DEF CountExact
<1>6. \A id \in ids : \A p : Has(recs[id], p) <=> Has(st.sessions[id], p)
  BY DEF Endings, Has
<1>7. \A id \in ids : keyOf(recs[id]) = keyOf(st.sessions[id])
  BY DEF Endings, keyOf
<1>8. PerPeerExact(st2)
  <2> SUFFICES ASSUME NEW p \in Peers PROVE st2.perPeer[p] = sessionsOf(st2, p)
    BY DEF PerPeerExact
  <2>1. st2.perPeer[p] = sessionsOf(st, p) \ {id \in ids : Has(st.sessions[id], p)}
    BY <1>1, <1>6 DEF PerPeerExact
  <2>2. sessionsOf(st2, p) = {id \in LiveIDs(st) \ ids : Has(st.sessions[id], p)}
    BY <1>1, <1>2, <1>3 DEF sessionsOf
  <2> QED
    BY <2>1, <2>2 DEF sessionsOf
<1>9. \A id \in LiveIDs(st) : keyOf(st.sessions[id]) \in PairKeys
  BY <1>2 DEF StoreTyped, StoreType, Session, keyOf, PairKeys
<1>10. PairsExact(st2)
  <2>1. ASSUME NEW id \in LiveIDs(st2) PROVE st2.pairs[keyOf(st2.sessions[id])] = id
    <3>1. id \in LiveIDs(st) /\ id \notin ids /\ st2.sessions[id] = st.sessions[id]
      BY <1>1, <1>2, <1>3
    <3>2. \A i \in ids : keyOf(recs[i]) # keyOf(st.sessions[id])
      BY <1>2, <1>7, <3>1 DEF PairsExact
    <3> QED
      BY <1>1, <1>9, <3>1, <3>2 DEF PairsExact
  <2>2. ASSUME NEW k \in PairKeys, st2.pairs[k] # NoID
        PROVE  st2.pairs[k] \in LiveIDs(st2) /\ keyOf(st2.sessions[st2.pairs[k]]) = k
    <3>1. st2.pairs[k] = st.pairs[k] /\ \A i \in ids : keyOf(recs[i]) # k
      BY <1>1, <2>2
    <3>2. st.pairs[k] \in LiveIDs(st) /\ keyOf(st.sessions[st.pairs[k]]) = k
      BY <2>2, <3>1 DEF PairsExact
    <3>3. st.pairs[k] \notin ids
      BY <1>7, <3>1, <3>2
    <3> QED
      BY <1>1, <1>2, <1>3, <3>1, <3>2, <3>3
  <2> QED
    BY <2>1, <2>2 DEF PairsExact
<1>11. EndedExact(st2) /\ st2.ended \in Seq(IDs)
  <2>1. st.ended \in Seq(IDs) /\ order \in Seq(IDs)
    BY <1>2, <1>4 DEF StoreTyped, StoreType
  <2>2. Range(st.ended) \cap Range(order) = {}
    BY <1>2, <1>4 DEF EndedExact
  <2>3. /\ st2.ended \in Seq(IDs) /\ IsInjective(st2.ended)
        /\ Range(st2.ended) = Range(st.ended) \cup ids
    BY <1>1, <1>4, <2>1, <2>2, AppendOrder DEF EndedExact
  <2> QED
    BY <1>1, <1>2, <1>3, <2>3 DEF EndedExact
<1>12. StoreTyped(st2)
  <2>1. Cardinality(ids) \in Nat /\ st.live \in Int
    BY <1>2, FS_CardinalityType DEF StoreTyped, StoreType
  <2>2. EndedTo(st, recs, order, st2) /\ (FieldsTyped(st2) => StoreTyped(st2))
    BY EndedFields
  <2> HIDE DEF st2
  <2>3. st2.sessions \in [Held(st) -> Session]
    BY <2>2 DEF EndedTo, StoreTyped, StoreType, Endings
  <2>4. st2.pairs \in [PairKeys -> Nat]
    BY <2>2 DEF EndedTo, StoreTyped, StoreType, NoID
  <2>5. st2.perPeer \in [Peers -> SUBSET IDs]
    BY <2>2 DEF EndedTo, StoreTyped, StoreType
  <2>6. st2.live \in Int
    BY <2>1, <2>2 DEF EndedTo
  <2>7. FieldsTyped(st2)
    BY <1>1, <1>2, <1>11, <2>3, <2>4, <2>5, <2>6 DEF FieldsTyped
  <2> QED
    BY <2>2, <2>7
<1>13. Bounded(st2)
  <2>1. st2.live <= st.live
    BY <1>1, <1>2, FS_CardinalityType DEF StoreTyped, StoreType
  <2>2. \A p \in Peers : Cardinality(st2.perPeer[p]) <= Cardinality(st.perPeer[p])
    BY <1>1, <1>2, FS_Subset DEF PerPeerExact, sessionsOf
  <2>3. \A p \in Peers : Cardinality(st2.perPeer[p]) \in Nat /\ Cardinality(st.perPeer[p]) \in Nat
    BY <1>1, <1>2, FS_Subset, FS_CardinalityType DEF PerPeerExact, sessionsOf
  <2> QED
    BY <1>1, <1>12, <2>1, <2>2, <2>3, SessionOptions
       DEF Bounded, StoreTyped, StoreType
<1> QED
  BY <1>1, <1>3, <1>5, <1>8, <1>10, <1>11, <1>12, <1>13

\* What settling may do: no record appears, and a record that is kept is
\* unchanged unless it had timed out, and then it has failed.
Droppable(s, now) == Live(s) => TimedOut(s, now)

Settles(st, st2, now) ==
    /\ Held(st2) \subseteq Held(st)
    /\ \A id \in Held(st2) :
          \/ st2.sessions[id] = st.sessions[id]
          \/ /\ TimedOut(st.sessions[id], now)
             /\ st2.sessions[id] = settled(st.sessions[id])
    /\ \A id \in Held(st) \ Held(st2) : Droppable(st.sessions[id], now)

LEMMA SettledRecord ==
    ASSUME NEW s \in Session, NEW now
    PROVE  /\ settled(s) \in Session
           /\ ~Live(settled(s)) /\ ~TimedOut(settled(s), now)
           /\ settled(s).caller = s.caller /\ settled(s).callee = s.callee
           /\ settled(s).openedAt = s.openedAt
           /\ settled(s).state = Failed
           /\ settled(s).openedAt = s.openedAt
           /\ TimedOut(s, now) => Live(s)
<1>1. s.openedAt + NegotiationTimeout \in Nat
  BY SessionOptions DEF Session
<1>2. Failed \in States
  BY DEF States
<1>3. settled(s) \in Session
  BY <1>1, <1>2 DEF Session, settled
<1>4. /\ settled(s).caller = s.caller /\ settled(s).callee = s.callee
      /\ settled(s).state = Failed /\ settled(s).openedAt = s.openedAt
  BY DEF Session, settled
<1>5. ~Live(settled(s)) /\ ~TimedOut(settled(s), now)
  BY <1>4 DEF Live, TimedOut, Negotiating, Connected, Failed
<1>6. TimedOut(s, now) => Live(s)
  BY DEF TimedOut, Live
<1> QED
  BY <1>3, <1>4, <1>5, <1>6

LEMMA SettlesTrans ==
    ASSUME NEW s1, NEW s2, NEW s3, NEW now, StoreTyped(s1),
           Settles(s1, s2, now), Settles(s2, s3, now)
    PROVE  Settles(s1, s3, now)
<1>1. ASSUME NEW id \in Held(s3)
      PROVE  \/ s3.sessions[id] = s1.sessions[id]
             \/ /\ TimedOut(s1.sessions[id], now)
                /\ s3.sessions[id] = settled(s1.sessions[id])
  <2>1. id \in Held(s2) /\ id \in Held(s1)
    BY <1>1 DEF Settles
  <2>2. s1.sessions[id] \in Session
    BY <2>1 DEF StoreTyped, StoreType
  <2>3. \/ s2.sessions[id] = s1.sessions[id]
        \/ TimedOut(s1.sessions[id], now) /\ s2.sessions[id] = settled(s1.sessions[id])
    BY <2>1 DEF Settles
  <2>4. \/ s3.sessions[id] = s2.sessions[id]
        \/ TimedOut(s2.sessions[id], now) /\ s3.sessions[id] = settled(s2.sessions[id])
    BY <1>1 DEF Settles
  <2>5. ~TimedOut(settled(s1.sessions[id]), now)
    BY <2>2, SettledRecord
  <2> QED
    BY <2>3, <2>4, <2>5
<1>2. ASSUME NEW id \in Held(s1) \ Held(s3)
      PROVE  Droppable(s1.sessions[id], now)
  <2>1. CASE id \notin Held(s2)
    BY <1>2, <2>1 DEF Settles
  <2>2. CASE id \in Held(s2)
    <3>1. Droppable(s2.sessions[id], now)
      BY <1>2, <2>2 DEF Settles
    <3>2. \/ s2.sessions[id] = s1.sessions[id]
          \/ TimedOut(s1.sessions[id], now)
      BY <2>2 DEF Settles
    <3> QED
      BY <3>1, <3>2 DEF Droppable
  <2> QED
    BY <2>1, <2>2
<1>3. Held(s3) \subseteq Held(s1)
  BY DEF Settles
<1> QED
  BY <1>1, <1>2, <1>3 DEF Settles

\* The order list is only added to at its end.
ListGrows(st, st2) ==
    /\ DOMAIN st.ended \subseteq DOMAIN st2.ended
    /\ \A i \in DOMAIN st.ended : st2.ended[i] = st.ended[i]

\* Exactly the sessions of ids are settled.
SettlesJust(st, ids, st2) ==
    \A id \in Held(st) :
        st2.sessions[id] = IF id \in ids THEN settled(st.sessions[id]) ELSE st.sessions[id]

\* Appending leaves every entry where it was.
LEMMA ConcatGrows ==
    ASSUME NEW e \in Seq(IDs), NEW o \in Seq(IDs)
    PROVE  /\ DOMAIN e \subseteq DOMAIN (e \o o)
           /\ \A i \in DOMAIN e : (e \o o)[i] = e[i]
<1>1. /\ e \o o \in Seq(IDs) /\ Len(e \o o) = Len(e) + Len(o)
      /\ \A i \in 1..(Len(e) + Len(o)) :
            (e \o o)[i] = IF i <= Len(e) THEN e[i] ELSE o[i - Len(e)]
  BY ConcatProperties
<1>2. /\ Len(e) \in Nat /\ Len(o) \in Nat
      /\ DOMAIN e = 1..Len(e) /\ DOMAIN (e \o o) = 1..(Len(e) + Len(o))
  BY <1>1, LenProperties
<1> QED
  BY <1>1, <1>2

LEMMA SettlesRefl ==
    ASSUME NEW st, NEW now
    PROVE  Settles(st, st, now)
BY DEF Settles

\* Settling any set of timed-out sessions, in any order, keeps every promise.
LEMMA SettleAllKeepsInv ==
    ASSUME NEW st, StoreInv(st), NEW now,
           NEW ids \in SUBSET Held(st),
           \A id \in ids : TimedOut(st.sessions[id], now),
           NEW order \in SetToSeqs(ids)
    PROVE  LET st2 == settleAll(st, ids, order)
           IN  /\ StoreInv(st2)
               /\ Held(st2) = Held(st)
               /\ LiveIDs(st2) = LiveIDs(st) \ ids
               /\ Settles(st, st2, now)
               /\ SettlesJust(st, ids, st2)
               /\ ListGrows(st, st2)
<1> DEFINE recs == [id \in ids |-> settled(st.sessions[id])]
           st2  == endedLocked(st, recs, order)
<1>1. st2 = settleAll(st, ids, order)
  BY DEF settleAll
<1>2. DOMAIN recs = ids /\ \A id \in ids : recs[id] = settled(st.sessions[id])
  OBVIOUS
<1>3. \A id \in Held(st) : st.sessions[id] \in Session
  BY DEF StoreInv, StoreTyped, StoreType
<1>4. Endings(st, recs)
  <2>1. \A id \in ids : id \in LiveIDs(st)
    BY <1>3, SettledRecord DEF LiveIDs
  <2>2. \A id \in ids :
           /\ recs[id] \in Session /\ ~Live(recs[id])
           /\ recs[id].caller = st.sessions[id].caller
           /\ recs[id].callee = st.sessions[id].callee
    BY <1>2, <1>3, SettledRecord
  <2>3. recs \in [ids -> Session]
    BY <2>2
  <2> HIDE DEF recs
  <2> QED
    BY <1>2, <2>1, <2>2, <2>3 DEF Endings
<1> HIDE DEF recs
<1>5. /\ StoreInv(st2) /\ Held(st2) = Held(st) /\ LiveIDs(st2) = LiveIDs(st) \ ids
  BY <1>2, <1>4, EndedKeepsInv
<1>6. EndedTo(st, recs, order, st2)
  BY EndedFields DEF StoreInv
<1>7. SettlesJust(st, ids, st2)
  BY <1>2, <1>6 DEF EndedTo, SettlesJust
<1>8. Settles(st, st2, now)
  BY <1>5, <1>7 DEF Settles, SettlesJust
<1>9. ListGrows(st, st2)
  <2>1. st.ended \in Seq(IDs) /\ IsFiniteSet(ids) /\ ids \subseteq IDs
    BY FS_Subset DEF StoreInv, StoreTyped, StoreType
  <2>2. order \in Seq(IDs)
    BY <2>1, OrderProperties
  <2>3. st2.ended = st.ended \o order
    BY <1>6 DEF EndedTo
  <2> QED
    BY <2>1, <2>2, <2>3, ConcatGrows DEF ListGrows
<1> QED
  BY <1>1, <1>5, <1>7, <1>8, <1>9

\* The loop of Reap and of settlePeerLocked over any set of identifiers
\* leaves none of them timed out.
LEMMA SettleEachKeepsInv ==
    ASSUME NEW st, StoreInv(st), NEW now, NEW ids, NEW st2 \in settleEach(st, ids, now)
    PROVE  /\ StoreInv(st2)
           /\ Held(st2) = Held(st)
           /\ LiveIDs(st2) \subseteq LiveIDs(st)
           /\ Settles(st, st2, now)
           /\ \A id \in ids \cap Held(st) : ~TimedOut(st2.sessions[id], now)
           /\ ListGrows(st, st2)
<1> DEFINE stale == expired(st, ids, now)
<1>1. PICK order \in SetToSeqs(stale) : st2 = settleAll(st, stale, order)
  BY DEF settleEach
<1>2. stale \in SUBSET Held(st) /\ \A id \in stale : TimedOut(st.sessions[id], now)
  BY DEF expired
<1>3. /\ StoreInv(st2) /\ Held(st2) = Held(st) /\ LiveIDs(st2) = LiveIDs(st) \ stale
      /\ Settles(st, st2, now)
      /\ SettlesJust(st, stale, st2)
      /\ ListGrows(st, st2)
  <2> HIDE DEF stale
  <2> QED
    BY <1>1, <1>2, SettleAllKeepsInv
<1>4. \A id \in Held(st) : st.sessions[id] \in Session
  BY DEF StoreInv, StoreTyped, StoreType
<1>5. ASSUME NEW id \in ids \cap Held(st) PROVE ~TimedOut(st2.sessions[id], now)
  BY <1>3, <1>4, SettledRecord DEF expired, SettlesJust
<1> QED
  BY <1>3, <1>5

LEMMA SettleLockedKeepsInv ==
    ASSUME NEW st, StoreInv(st), NEW now, NEW id \in Held(st)
    PROVE  LET st2 == settleLocked(st, id, now)
           IN  /\ StoreInv(st2)
               /\ Held(st2) = Held(st)
               /\ LiveIDs(st2) \subseteq LiveIDs(st)
               /\ Settles(st, st2, now)
               /\ ~TimedOut(st2.sessions[id], now)
               /\ ListGrows(st, st2)
<1>1. CASE ~TimedOut(st.sessions[id], now)
  BY <1>1, SettlesRefl DEF settleLocked, ListGrows
<1>2. CASE TimedOut(st.sessions[id], now)
  <2> DEFINE st2 == settleAll(st, {id}, <<id>>)
  <2>1. settleLocked(st, id, now) = st2
    BY <1>2 DEF settleLocked
  <2>2. <<id>> \in SetToSeqs({id})
    <3>1. Cardinality({id}) = 1
      BY FS_Singleton
    <3> QED
      BY <3>1 DEF SetToSeqs
  <2>3. /\ StoreInv(st2) /\ Held(st2) = Held(st) /\ LiveIDs(st2) = LiveIDs(st) \ {id}
        /\ Settles(st, st2, now)
        /\ SettlesJust(st, {id}, st2)
        /\ ListGrows(st, st2)
    <3>1. {id} \in SUBSET Held(st) /\ \A i \in {id} : TimedOut(st.sessions[i], now)
      BY <1>2
    <3>2. PICK ids : ids = {id}
      OBVIOUS
    <3>3. PICK order : order = <<id>>
      OBVIOUS
    <3>4. /\ ids \in SUBSET Held(st) /\ order \in SetToSeqs(ids)
          /\ \A i \in ids : TimedOut(st.sessions[i], now)
          /\ st2 = settleAll(st, ids, order)
      BY <2>2, <3>1, <3>2, <3>3
    <3> HIDE DEF st2
    <3>5. StoreInv(st2) /\ Held(st2) = Held(st)
      BY <3>4, SettleAllKeepsInv
    <3>6. LiveIDs(st2) = LiveIDs(st) \ ids
      BY <3>4, SettleAllKeepsInv
    <3>7. Settles(st, st2, now) /\ SettlesJust(st, ids, st2)
      BY <3>4, SettleAllKeepsInv
    <3>8. ListGrows(st, st2)
      BY <3>4, SettleAllKeepsInv
    <3> QED
      BY <3>2, <3>5, <3>6, <3>7, <3>8
  <2>4. ~TimedOut(st2.sessions[id], now)
    <3>1. st.sessions[id] \in Session
      BY DEF StoreInv, StoreTyped, StoreType
    <3> HIDE DEF st2
    <3> QED
      BY <2>3, <3>1, SettledRecord DEF SettlesJust
  <2> QED
    BY <2>1, <2>3, <2>4
<1> QED
  BY <1>1, <1>2

\* Finding the pair's session: the index names a live record or nothing, so
\* the branch that drops a dangling entry is never taken, and what is still
\* live afterwards is not timed out (session.go:434-452).
LEMMA PairLockedKeepsInv ==
    ASSUME NEW st, StoreInv(st), NEW now, NEW key \in PairKeys
    PROVE  LET st2 == pairLocked(st, key, now)
               id  == st.pairs[key]
           IN  /\ StoreInv(st2)
               /\ Held(st2) = Held(st)
               /\ Settles(st, st2, now)
               /\ id \in LiveIDs(st2) => keyOf(st2.sessions[id]) = key
               /\ id \in LiveIDs(st2) => ~TimedOut(st2.sessions[id], now)
               /\ id \notin LiveIDs(st2) => st2.pairs[key] = NoID
               /\ ListGrows(st, st2)
<1> DEFINE id == st.pairs[key]
<1>0. NoID \notin Held(st) /\ LiveIDs(st) \subseteq Held(st)
  BY DEF StoreInv, StoreTyped, IDs, LiveIDs
<1>1. CASE id = NoID
  BY <1>0, <1>1, SettlesRefl DEF pairLocked, ListGrows
<1>2. CASE id # NoID
  <2>1. id \in LiveIDs(st) /\ keyOf(st.sessions[id]) = key
    BY <1>2 DEF StoreInv, PairsExact
  <2>2. id \in Held(st)
    BY <1>0, <2>1
  <2> DEFINE st2 == settleLocked(st, id, now)
  <2>3. pairLocked(st, key, now) = st2
    BY <1>2, <2>2 DEF pairLocked
  <2>4. /\ StoreInv(st2) /\ Held(st2) = Held(st) /\ Settles(st, st2, now)
        /\ ~TimedOut(st2.sessions[id], now) /\ ListGrows(st, st2)
    BY <2>2, SettleLockedKeepsInv
  <2> HIDE DEF st2, id
  <2>5. keyOf(st2.sessions[id]) = key
    <3>1. st.sessions[id] \in Session
      BY <2>2 DEF StoreInv, StoreTyped, StoreType
    <3> QED
      BY <2>1, <2>2, <2>4, <3>1, SettledRecord DEF Settles, keyOf
  <2>6. id \notin LiveIDs(st2) => st2.pairs[key] = NoID
    <3> SUFFICES ASSUME id \notin LiveIDs(st2), st2.pairs[key] # NoID PROVE FALSE
      OBVIOUS
    <3> DEFINE j == st2.pairs[key]
    <3>1. j \in LiveIDs(st2) /\ keyOf(st2.sessions[j]) = key
      BY <2>4 DEF StoreInv, PairsExact
    <3>2. j \in Held(st) /\ st.sessions[j] \in Session
      BY <2>4, <3>1 DEF StoreInv, StoreTyped, StoreType, LiveIDs
    <3>3. st2.sessions[j] = st.sessions[j]
      BY <2>4, <3>1, <3>2, SettledRecord DEF Settles, LiveIDs
    <3>4. j \in LiveIDs(st)
      BY <3>1, <3>2, <3>3 DEF LiveIDs
    <3>5. j = st.pairs[key]
      BY <3>1, <3>3, <3>4 DEF StoreInv, PairsExact
    <3> QED
      BY <3>1, <3>5 DEF id
  <2> QED
    BY <2>3, <2>4, <2>5, <2>6 DEF id
<1> QED
  BY <1>1, <1>2

\* What Open reports as too many: the peer's row is at its cap, and none of the
\* sessions on it has timed out.
ReallyAtCap(st, p, now) ==
    /\ Cardinality(st.perPeer[p]) >= MaxSessionsPerPeer
    /\ expired(st, st.perPeer[p], now) = {}

\* Settling takes no session on to anybody's row.
LEMMA RowsShrink ==
    ASSUME NEW st, StoreInv(st), NEW st2, StoreInv(st2), NEW now, NEW p \in Peers,
           Settles(st, st2, now), LiveIDs(st2) \subseteq LiveIDs(st)
    PROVE  st2.perPeer[p] \subseteq st.perPeer[p]
<1> SUFFICES ASSUME NEW id \in LiveIDs(st2), Has(st2.sessions[id], p)
             PROVE  id \in LiveIDs(st) /\ Has(st.sessions[id], p)
  BY DEF StoreInv, PerPeerExact, sessionsOf
<1>1. id \in LiveIDs(st) /\ id \in Held(st2) /\ st.sessions[id] \in Session
  BY DEF StoreInv, StoreTyped, StoreType, LiveIDs
<1>2. st2.sessions[id] = st.sessions[id] \/ st2.sessions[id] = settled(st.sessions[id])
  BY <1>1 DEF Settles
<1> QED
  BY <1>1, <1>2, SettledRecord DEF Has

\* settlePeerLocked finds no row that names a missing record, and leaves the
\* peer's own sessions settled (session.go:488-506).
LEMMA AtCapKeepsInv ==
    ASSUME NEW st, StoreInv(st), NEW now, NEW p \in Peers, NEW st2 \in atCap(st, p, now)
    PROVE  /\ StoreInv(st2)
           /\ Held(st2) = Held(st)
           /\ LiveIDs(st2) \subseteq LiveIDs(st)
           /\ Settles(st, st2, now)
           /\ \A k \in PairKeys : st.pairs[k] = NoID => st2.pairs[k] = NoID
           /\ ListGrows(st, st2)
           /\ Cardinality(st2.perPeer[p]) >= MaxSessionsPerPeer => ReallyAtCap(st2, p, now)
<1> DEFINE rows == [st EXCEPT !.perPeer[p] = @ \cap Held(st)]
<1>1. rows = st
  <2>1. st.perPeer[p] \cap Held(st) = st.perPeer[p]
    BY DEF StoreInv, PerPeerExact, sessionsOf, LiveIDs
  <2>2. st \in StoreType(Held(st))
    BY DEF StoreInv, StoreTyped
  <2>3. [st.perPeer EXCEPT ![p] = st.perPeer[p]] = st.perPeer
    BY <2>2 DEF StoreType
  <2>4. [st EXCEPT !.perPeer = st.perPeer] = st
    BY <2>2 DEF StoreType
  <2> QED
    BY <2>1, <2>3, <2>4
<1>2. st2 = st \/ st2 \in settleEach(st, st.perPeer[p], now)
  BY <1>1 DEF atCap
<1>3. /\ StoreInv(st2) /\ Held(st2) = Held(st) /\ Settles(st, st2, now)
      /\ LiveIDs(st2) \subseteq LiveIDs(st) /\ ListGrows(st, st2)
  BY <1>2, SettlesRefl, SettleEachKeepsInv DEF ListGrows
<1>4. ASSUME NEW k \in PairKeys, st.pairs[k] = NoID, st2.pairs[k] # NoID
      PROVE  FALSE
  <2> DEFINE j == st2.pairs[k]
  <2>1. j \in LiveIDs(st2) /\ keyOf(st2.sessions[j]) = k
    BY <1>3, <1>4 DEF StoreInv, PairsExact
  <2>2. j \in LiveIDs(st) /\ j \in Held(st) /\ st.sessions[j] \in Session
    BY <1>3, <2>1 DEF StoreInv, StoreTyped, StoreType, LiveIDs
  <2>3. keyOf(st.sessions[j]) = k
    BY <1>3, <2>1, <2>2, SettledRecord DEF Settles, keyOf
  <2>4. st.pairs[k] = j
    BY <2>2, <2>3 DEF StoreInv, PairsExact
  <2> QED
    BY <1>4, <2>4
<1>5. ASSUME Cardinality(st2.perPeer[p]) >= MaxSessionsPerPeer
      PROVE  ReallyAtCap(st2, p, now)
  <2>1. /\ st.perPeer[p] \subseteq Held(st) /\ st2.perPeer[p] \subseteq st.perPeer[p]
        /\ IsFiniteSet(st.perPeer[p]) /\ Cardinality(st.perPeer[p]) \in Nat
    <3>1. st.perPeer[p] \subseteq Held(st)
      BY DEF StoreInv, PerPeerExact, sessionsOf, LiveIDs
    <3> QED
      BY <1>3, <3>1, RowsShrink, FS_Subset, FS_CardinalityType DEF StoreInv
  <2>2. Cardinality(st2.perPeer[p]) <= Cardinality(st.perPeer[p]) /\ Cardinality(st2.perPeer[p]) \in Nat
    BY <2>1, FS_Subset, FS_CardinalityType
  <2>3. st2 \in settleEach(st, st.perPeer[p], now)
    BY <1>1, <1>5, <2>1, <2>2, SessionOptions DEF atCap
  <2>4. \A id \in st.perPeer[p] \cap Held(st) : ~TimedOut(st2.sessions[id], now)
    BY <2>3, SettleEachKeepsInv
  <2> QED
    BY <1>5, <2>1, <2>4 DEF ReallyAtCap, expired
<1> QED
  BY <1>3, <1>4, <1>5

-----------------------------------------------------------------------------
(* The helpers that drop records, and the one that adds one *)

\* A store that forgets ended records and lists exactly the rest, each once,
\* keeps every promise.  This is all that trimLocked and Reap have in common.
ForgetsTo(st, ids, st2) ==
    /\ st2.sessions = [id \in Held(st) \ ids |-> st.sessions[id]]
    /\ st2.pairs    = [k \in PairKeys |-> IF st.pairs[k] \in ids THEN NoID ELSE st.pairs[k]]
    /\ st2.live     = st.live
    /\ st2.perPeer  = st.perPeer
    /\ FieldsTyped(st2) => StoreTyped(st2)

\* No record appears and those kept are unchanged.
KeepsRecords(st, st2) ==
    /\ Held(st2) \subseteq Held(st)
    /\ \A id \in Held(st2) : st2.sessions[id] = st.sessions[id]

LEMMA ForgettingKeepsInv ==
    ASSUME NEW st, StoreInv(st), NEW ids \in SUBSET (Held(st) \ LiveIDs(st)),
           NEW st2, ForgetsTo(st, ids, st2),
           st2.ended \in Seq(IDs), IsInjective(st2.ended),
           Range(st2.ended) = (Held(st) \ LiveIDs(st)) \ ids
    PROVE  /\ StoreInv(st2)
           /\ Held(st2) = Held(st) \ ids
           /\ LiveIDs(st2) = LiveIDs(st)
           /\ KeepsRecords(st, st2)
           /\ st2.pairs = st.pairs
<1> USE DEF StoreInv
<1>1. /\ Held(st2) = Held(st) \ ids
      /\ \A id \in Held(st2) : st2.sessions[id] = st.sessions[id]
  BY DEF ForgetsTo, Held
<1>2. LiveIDs(st) \subseteq Held(st) /\ Held(st) \subseteq IDs
  BY DEF LiveIDs, StoreTyped
<1>3. LiveIDs(st2) = LiveIDs(st)
  BY <1>1, <1>2 DEF LiveIDs
<1>4. /\ IsFiniteSet(Held(st2)) /\ Cardinality(Held(st2)) <= Cardinality(Held(st))
      /\ Cardinality(Held(st2)) \in Nat /\ Cardinality(Held(st)) \in Nat
  BY <1>1, FS_Subset, FS_CardinalityType
<1>5. st2.pairs = st.pairs
  <2>1. \A k \in PairKeys : st.pairs[k] \notin ids
    BY <1>2 DEF PairsExact, StoreTyped, IDs
  <2>2. st.pairs = [k \in PairKeys |-> st.pairs[k]]
    BY DEF StoreTyped, StoreType
  <2> QED
    BY <2>1, <2>2 DEF ForgetsTo
<1>6. StoreTyped(st2)
  <2>1. st2.sessions \in [Held(st2) -> Session]
    BY <1>1 DEF ForgetsTo, StoreTyped, StoreType
  <2> QED
    BY <1>1, <1>2, <1>5, <2>1 DEF FieldsTyped, ForgetsTo, StoreTyped, StoreType
<1>7. CountExact(st2)
  BY <1>3 DEF CountExact, ForgetsTo
<1>8. PerPeerExact(st2)
  BY <1>1, <1>2, <1>3 DEF PerPeerExact, ForgetsTo, sessionsOf
<1>9. PairsExact(st2)
  BY <1>1, <1>2, <1>3, <1>5 DEF PairsExact
<1>10. EndedExact(st2)
  BY <1>1, <1>2, <1>3 DEF EndedExact
<1>11. Bounded(st2)
  <2>1. RetainBound \in Nat
    BY SessionOptions DEF RetainBound
  <2> QED
    BY <1>4, <2>1 DEF Bounded, ForgetsTo
<1>12. KeepsRecords(st, st2)
  BY <1>1 DEF KeepsRecords
<1> QED
  BY <1>1, <1>3, <1>4, <1>5, <1>6, <1>7, <1>8, <1>9, <1>10, <1>11, <1>12

\* An entry of the order list is dropped only with every older one.
DropsOldest(st, st2) ==
    \A i, j \in DOMAIN st.ended :
        (i < j /\ st.ended[j] \notin Held(st2)) => st.ended[i] \notin Held(st2)

\* Trimming drops a prefix of the order list, and nothing while the map is below
\* its bound.  The least prefix that is enough
\* exists, and whatever it is the map ends up below its bound as long as the
\* live sessions alone do not fill the store (session.go:530-545).
LEMMA TrimKeepsInv ==
    ASSUME NEW st, StoreInv(st), st.live < MaxSessions
    PROVE  LET st2 == trimLocked(st)
           IN  /\ StoreInv(st2)
               /\ Held(st2) \subseteq Held(st)
               /\ LiveIDs(st2) = LiveIDs(st)
               /\ KeepsRecords(st, st2)
               /\ st2.pairs = st.pairs /\ st2.perPeer = st.perPeer /\ st2.live = st.live
               /\ Cardinality(Held(st2)) < RetainBound
               /\ Held(st2) # Held(st) => Cardinality(Held(st)) >= RetainBound
               /\ DropsOldest(st, st2)
<1> DEFINE len  == Len(st.ended)
           T    == {n \in 0..len : enough(st, n)}
           n    == CHOOSE n \in 0..len : enough(st, n) /\ \A m \in 0..(n - 1) : ~enough(st, m)
           gone == popped(st, n)
           mid  == [st EXCEPT !.ended = SubSeq(st.ended, n + 1, len)]
           st2  == forgetLocked(mid, gone)
<1>1. /\ st.ended \in Seq(IDs) /\ len \in Nat /\ DOMAIN st.ended = 1..len
      /\ \A i \in 1..len : st.ended[i] \in IDs
  BY LenProperties DEF StoreInv, StoreTyped, StoreType
<1>least. n \in 0..len /\ enough(st, n) /\ \A m \in 0..(n - 1) : ~enough(st, m)
  <2>1. T \in SUBSET Nat /\ len \in T
    BY <1>1 DEF enough
  <2>2. PICK x \in T : \A y \in T : x <= y
    BY <2>1, LeastNumber
  <2>3. \A m \in 0..(x - 1) : ~enough(st, m)
    BY <1>1, <2>2
  <2> QED
    BY <2>2, <2>3
<1>2. n \in 0..len /\ enough(st, n)
  BY <1>least
<1> HIDE DEF n
<1>3. trimLocked(st) = st2
  BY DEF trimLocked, n
<1>4. st \in StoreType(Held(st))
  BY DEF StoreInv, StoreTyped
<1>5. /\ mid.sessions = st.sessions /\ mid.pairs = st.pairs /\ mid.live = st.live
      /\ mid.perPeer = st.perPeer /\ mid.ended = SubSeq(st.ended, n + 1, len)
  BY <1>4 DEF StoreType
<1>6. mid \in [sessions : {st.sessions}, pairs : {st.pairs}, live : {st.live},
                perPeer : {st.perPeer}, ended : {SubSeq(st.ended, n + 1, len)}]
  BY <1>4 DEF StoreType
<1> HIDE DEF mid, gone
<1>7. /\ ForgetsTo(st, gone, st2)
      /\ st2.ended = SubSeq(st.ended, n + 1, len)
  <2> DEFINE A == [id \in Held(mid) \ gone |-> mid.sessions[id]]
             B == [k \in PairKeys |-> IF mid.pairs[k] \in gone THEN NoID ELSE mid.pairs[k]]
  <2>1. st2 = [mid EXCEPT !.sessions = A, !.pairs = B]
    BY DEF forgetLocked
  <2> HIDE DEF A, B, st2
  <2>2. /\ st2.sessions = A /\ st2.pairs = B /\ st2.live = mid.live
        /\ st2.perPeer = mid.perPeer /\ st2.ended = mid.ended
    BY <1>6, <2>1
  <2>3. Held(mid) = Held(st)
    BY <1>5 DEF Held
  <2>4. FieldsTyped(st2) => st2 \in StoreType(Held(st2))
    BY <1>6, <2>1, <2>2 DEF FieldsTyped, StoreType
  <2>5. FieldsTyped(st2) => StoreTyped(st2)
    BY <2>4 DEF StoreTyped, FieldsTyped
  <2>6. ForgetsTo(st, gone, st2)
    BY <1>5, <2>2, <2>3, <2>5 DEF ForgetsTo, A, B
  <2> QED
    BY <1>5, <2>2, <2>6
<1> HIDE DEF st2
<1>8. gone = {st.ended[i] : i \in 1..n} /\ gone \in SUBSET (Held(st) \ LiveIDs(st))
  <2>1. \A i \in 1..n : st.ended[i] \in Held(st) \ LiveIDs(st)
    BY <1>1, <1>2 DEF StoreInv, EndedExact, Range
  <2> QED
    BY <2>1 DEF gone, popped
<1>9. /\ st2.ended \in Seq(IDs) /\ DOMAIN st2.ended = 1..(len - n)
      /\ \A i \in 1..(len - n) : st2.ended[i] = st.ended[n + i]
  <2>1. n + 1 \in Int /\ len \in Int /\ \A i \in (n + 1)..len : st.ended[i] \in IDs
    BY <1>1, <1>2
  <2>2. /\ st2.ended \in Seq(IDs)
        /\ Len(st2.ended) = IF n + 1 <= len THEN len - (n + 1) + 1 ELSE 0
        /\ \A i \in 1..(len - (n + 1) + 1) : st2.ended[i] = st.ended[(n + 1) + i - 1]
    BY <1>7, <2>1, SubSeqProperties
  <2>3. Len(st2.ended) = len - n
    BY <1>1, <1>2, <2>2
  <2> QED
    BY <1>1, <1>2, <2>2, <2>3, LenProperties
<1>10. IsInjective(st2.ended)
  <2> SUFFICES ASSUME NEW i \in 1..(len - n), NEW j \in 1..(len - n),
                      st2.ended[i] = st2.ended[j]
               PROVE  i = j
    BY <1>9 DEF IsInjective
  <2>1. IsInjective(st.ended)
    BY DEF StoreInv, EndedExact
  <2>2. st.ended[n + i] = st.ended[n + j]
    BY <1>9
  <2>3. n + i \in 1..len /\ n + j \in 1..len
    BY <1>1, <1>2
  <2>4. n + i = n + j
    BY <1>1, <2>1, <2>2, <2>3 DEF IsInjective
  <2> QED
    BY <1>1, <1>2, <2>4
<1>11. Range(st2.ended) = (Held(st) \ LiveIDs(st)) \ gone
  <2>1. Range(st.ended) = Held(st) \ LiveIDs(st) /\ IsInjective(st.ended)
    BY DEF StoreInv, EndedExact
  <2>2. ASSUME NEW x \in Range(st2.ended) PROVE x \in Range(st.ended) /\ x \notin gone
    <3>1. PICK i \in 1..(len - n) : x = st.ended[n + i]
      BY <1>9 DEF Range
    <3>2. n + i \in 1..len /\ n + i > n
      BY <1>1, <1>2
    <3>3. x \in Range(st.ended)
      BY <1>1, <3>1, <3>2 DEF Range
    <3>4. ASSUME NEW j \in 1..n PROVE st.ended[j] # x
      <4>1. j \in 1..len /\ j # n + i
        BY <1>1, <1>2, <3>2
      <4> QED
        BY <1>1, <2>1, <3>1, <3>2, <4>1 DEF IsInjective
    <3> QED
      BY <1>8, <3>3, <3>4
  <2>3. ASSUME NEW x \in Range(st.ended), x \notin gone PROVE x \in Range(st2.ended)
    <3>1. PICK i \in 1..len : x = st.ended[i]
      BY <1>1 DEF Range
    <3>2. i > n
      BY <1>1, <1>2, <1>8, <2>3, <3>1
    <3>3. i - n \in 1..(len - n) /\ n + (i - n) = i
      BY <1>1, <1>2, <3>2
    <3> QED
      BY <1>9, <3>1, <3>3 DEF Range
  <2> QED
    BY <2>1, <2>2, <2>3
<1>12. /\ StoreInv(st2) /\ Held(st2) = Held(st) \ gone /\ LiveIDs(st2) = LiveIDs(st)
       /\ KeepsRecords(st, st2) /\ st2.pairs = st.pairs
  <2>1. gone \in SUBSET (Held(st) \ LiveIDs(st)) /\ ForgetsTo(st, gone, st2)
    BY <1>7, <1>8
  <2>2. st2.ended \in Seq(IDs)
    BY <1>9
  <2> QED
    BY <1>10, <1>11, <2>1, <2>2, ForgettingKeepsInv
<1>13. Cardinality(Held(st2)) < RetainBound
  <2>1. CASE n # len
    BY <1>2, <1>12, <2>1 DEF enough, gone
  <2>2. CASE n = len
    <3>1. gone = Held(st) \ LiveIDs(st)
      BY <1>1, <1>8, <2>2 DEF StoreInv, EndedExact, Range
    <3>2. Held(st2) = LiveIDs(st)
      BY <1>12, <3>1 DEF LiveIDs
    <3>3. Cardinality(Held(st2)) = st.live /\ st.live \in Int
      BY <3>2 DEF StoreInv, CountExact, StoreTyped, StoreType
    <3>4. RetainBound >= MaxSessions /\ RetainBound \in Nat
      BY SessionOptions DEF RetainBound
    <3> QED
      BY <3>3, <3>4, SessionOptions
  <2> QED
    BY <2>1, <2>2
<1>14. ASSUME Held(st2) # Held(st) PROVE Cardinality(Held(st)) >= RetainBound
  <2>1. n # 0
    BY <1>8, <1>12, <1>14
  <2>2. ~enough(st, 0)
    BY <1>1, <1>least, <2>1
  <2>3. popped(st, 0) = {}
    BY DEF popped
  <2>4. ~(Cardinality(Held(st)) < RetainBound)
    <3>1. Held(st) \ popped(st, 0) = Held(st)
      BY <2>3
    <3> QED
      BY <2>2, <3>1 DEF enough
  <2>5. Cardinality(Held(st)) \in Nat /\ RetainBound \in Nat
    BY FS_CardinalityType, SessionOptions DEF StoreInv, RetainBound
  <2> QED
    BY <2>4, <2>5
<1>15. DropsOldest(st, st2)
  <2> SUFFICES ASSUME NEW i \in DOMAIN st.ended, NEW j \in DOMAIN st.ended, i < j,
                      st.ended[j] \notin Held(st2)
               PROVE  st.ended[i] \notin Held(st2)
    BY DEF DropsOldest
  <2>1. st.ended[j] \in Held(st) /\ IsInjective(st.ended)
    BY DEF StoreInv, EndedExact, Range
  <2>2. st.ended[j] \in gone
    BY <1>12, <2>1
  <2>3. PICK k \in 1..n : st.ended[k] = st.ended[j]
    BY <1>8, <2>2
  <2>4. k = j
    BY <1>1, <1>2, <2>1, <2>3 DEF IsInjective
  <2>5. i \in 1..n
    BY <1>1, <1>2, <2>3, <2>4
  <2> QED
    BY <1>8, <1>12, <2>5
<1> QED
  BY <1>3, <1>7, <1>12, <1>13, <1>14, <1>15 DEF ForgetsTo

\* What the insert at the end of Open needs: room under each ceiling, a fresh
\* identifier, and no live session of the pair.
Admits(st, id, caller, callee) ==
    /\ id \in IDs \ Held(st)
    /\ st.live < MaxSessions
    /\ Cardinality(st.perPeer[caller]) < MaxSessionsPerPeer
    /\ Cardinality(st.perPeer[callee]) < MaxSessionsPerPeer
    /\ Cardinality(Held(st)) < RetainBound
    /\ st.pairs[pairKey(caller, callee)] = NoID

\* What it does: one more session of the pair, live, that has not timed out.
Creates(st, id, caller, callee, now, st2) ==
    /\ StoreInv(st2)
    /\ Held(st2) = Held(st) \cup {id}
    /\ LiveIDs(st2) = LiveIDs(st) \cup {id}
    /\ KeepsRecords(st2, st)
    /\ keyOf(st2.sessions[id]) = pairKey(caller, callee)
    /\ ~TimedOut(st2.sessions[id], now)

LEMMA CreatedKeepsInv ==
    ASSUME NEW st, StoreInv(st), NEW now \in Nat, NEW id,
           NEW caller \in Peers, NEW callee \in Peers, Admits(st, id, caller, callee),
           NEW st2, st2 = created(st, id, caller, callee, now)
    PROVE  Creates(st, id, caller, callee, now, st2)
<1> DEFINE s   == [caller |-> caller, callee |-> callee, state |-> Negotiating,
                   path |-> PathUnknown, openedAt |-> now, changedAt |-> now]
           A   == [i \in Held(st) \cup {id} |-> IF i = id THEN s ELSE st.sessions[i]]
           B   == [k \in PairKeys |-> IF k = pairKey(caller, callee) THEN id ELSE st.pairs[k]]
           C   == st.live + 1
           D   == [p \in Peers |-> IF p \in {caller, callee}
                                   THEN st.perPeer[p] \cup {id} ELSE st.perPeer[p]]
<1>1. st2 = [st EXCEPT !.sessions = A, !.pairs = B, !.live = C, !.perPeer = D]
  BY DEF created, trackLocked
<1>2. st \in StoreType(Held(st)) /\ Held(st) \subseteq IDs
  BY DEF StoreInv, StoreTyped
<1> HIDE DEF A, B, C, D
<1>3. /\ st2.sessions = A /\ st2.pairs = B /\ st2.live = C /\ st2.perPeer = D
      /\ st2.ended = st.ended
  BY <1>1, <1>2 DEF StoreType
<1>4. /\ s \in Session /\ Live(s) /\ ~TimedOut(s, now)
      /\ keyOf(s) = pairKey(caller, callee)
      /\ \A p : Has(s, p) <=> p \in {caller, callee}
  BY SessionOptions, PathsAssumption
     DEF Session, Live, TimedOut, keyOf, Has, States, PathUnknown
<1> HIDE DEF s
<1>5. /\ Held(st2) = Held(st) \cup {id}
      /\ st2.sessions[id] = s
      /\ \A i \in Held(st) : st2.sessions[i] = st.sessions[i]
  BY <1>3 DEF Held, A, Admits
<1>6. LiveIDs(st2) = LiveIDs(st) \cup {id}
  BY <1>4, <1>5 DEF LiveIDs
<1>7. /\ id \in IDs /\ id \notin Held(st) /\ id \notin LiveIDs(st) /\ id # NoID
      /\ LiveIDs(st) \subseteq Held(st)
      /\ IsFiniteSet(Held(st)) /\ IsFiniteSet(LiveIDs(st))
  BY FS_Subset DEF Admits, LiveIDs, IDs, StoreInv
<1>8. StoreTyped(st2)
  <2>1. A \in [Held(st2) -> Session]
    BY <1>2, <1>4, <1>5 DEF A, StoreType
  <2>2. B \in [PairKeys -> Nat]
    BY <1>2, <1>7 DEF B, StoreType, IDs
  <2>3. C \in Int
    BY <1>2 DEF C, StoreType
  <2>4. D \in [Peers -> SUBSET IDs]
    BY <1>2, <1>7 DEF D, StoreType
  <2>5. st2 \in StoreType(Held(st2))
    BY <1>1, <1>2, <2>1, <2>2, <2>3, <2>4 DEF StoreType
  <2> QED
    BY <1>2, <1>5, <1>7, <2>5 DEF StoreTyped
<1>9. CountExact(st2)
  <2>1. Cardinality(LiveIDs(st) \cup {id}) = Cardinality(LiveIDs(st)) + 1
    BY <1>7, FS_AddElement
  <2> QED
    BY <1>3, <1>6, <2>1 DEF CountExact, C, StoreInv
<1>10. PerPeerExact(st2)
  <2> SUFFICES ASSUME NEW p \in Peers PROVE st2.perPeer[p] = sessionsOf(st2, p)
    BY DEF PerPeerExact
  <2>1. st.perPeer[p] = sessionsOf(st, p)
    BY DEF StoreInv, PerPeerExact
  <2>2. st2.perPeer[p] = IF Has(s, p) THEN sessionsOf(st, p) \cup {id} ELSE sessionsOf(st, p)
    BY <1>3, <1>4, <2>1 DEF D
  <2> QED
    BY <1>5, <1>6, <1>7, <2>2 DEF sessionsOf
<1>11. PairsExact(st2)
  <2>0. pairKey(caller, callee) \in PairKeys
    BY DEF PairKeys
  <2>1. \A j \in LiveIDs(st) : keyOf(st.sessions[j]) # pairKey(caller, callee)
    BY <1>2, <1>7 DEF StoreInv, PairsExact, Admits, IDs
  <2>2. \A j \in LiveIDs(st) : keyOf(st.sessions[j]) \in PairKeys
    BY <1>2, <1>7 DEF StoreType, Session, keyOf, PairKeys
  <2>3. ASSUME NEW j \in LiveIDs(st2) PROVE st2.pairs[keyOf(st2.sessions[j])] = j
    <3>1. CASE j = id
      BY <1>3, <1>4, <1>5, <2>0, <3>1 DEF B
    <3>2. CASE j \in LiveIDs(st)
      <4>1. st2.sessions[j] = st.sessions[j]
        BY <1>5, <1>7, <3>2
      <4>2. st.pairs[keyOf(st.sessions[j])] = j
        BY <3>2 DEF StoreInv, PairsExact
      <4> QED
        BY <1>3, <2>1, <2>2, <3>2, <4>1, <4>2 DEF B
    <3> QED
      BY <1>6, <3>1, <3>2
  <2>4. ASSUME NEW k \in PairKeys, st2.pairs[k] # NoID
        PROVE  st2.pairs[k] \in LiveIDs(st2) /\ keyOf(st2.sessions[st2.pairs[k]]) = k
    <3>1. CASE k = pairKey(caller, callee)
      BY <1>3, <1>4, <1>5, <1>6, <3>1 DEF B
    <3>2. CASE k # pairKey(caller, callee)
      <4>1. st2.pairs[k] = st.pairs[k]
        BY <1>3, <3>2 DEF B
      <4>2. st.pairs[k] \in LiveIDs(st) /\ keyOf(st.sessions[st.pairs[k]]) = k
        BY <2>4, <4>1 DEF StoreInv, PairsExact
      <4> QED
        BY <1>5, <1>6, <1>7, <4>1, <4>2
    <3> QED
      BY <3>1, <3>2
  <2> QED
    BY <2>3, <2>4 DEF PairsExact
<1>12. EndedExact(st2)
  <2>1. Held(st2) \ LiveIDs(st2) = Held(st) \ LiveIDs(st)
    BY <1>5, <1>6, <1>7
  <2> QED
    BY <1>3, <2>1 DEF EndedExact, StoreInv
<1>13. Bounded(st2)
  <2>1. st2.live <= MaxSessions
    BY <1>2, <1>3, SessionOptions DEF Admits, C, StoreType
  <2>2. \A p \in Peers : IsFiniteSet(st.perPeer[p]) /\ Cardinality(st.perPeer[p]) \in Nat
    BY <1>7, FS_Subset, FS_CardinalityType DEF StoreInv, PerPeerExact, sessionsOf
  <2>3. ASSUME NEW p \in Peers PROVE Cardinality(st2.perPeer[p]) <= MaxSessionsPerPeer
    <3>1. CASE p \in {caller, callee}
      <4>1. st2.perPeer[p] = st.perPeer[p] \cup {id}
        BY <1>3, <3>1 DEF D
      <4>2. Cardinality(st2.perPeer[p]) <= Cardinality(st.perPeer[p]) + 1
        <5>1. Cardinality(st.perPeer[p] \cup {id}) =
                IF id \in st.perPeer[p] THEN Cardinality(st.perPeer[p])
                ELSE Cardinality(st.perPeer[p]) + 1
          BY <2>2, FS_AddElement
        <5> QED
          BY <2>2, <4>1, <5>1
      <4>3. Cardinality(st2.perPeer[p]) \in Nat
        BY <2>2, <4>1, FS_AddElement, FS_CardinalityType
      <4>4. Cardinality(st.perPeer[p]) < MaxSessionsPerPeer
        BY <3>1 DEF Admits
      <4> QED
        BY <2>2, <4>2, <4>3, <4>4, SessionOptions
    <3>2. CASE p \notin {caller, callee}
      BY <1>3, <3>2 DEF D, StoreInv, Bounded
    <3> QED
      BY <3>1, <3>2
  <2>4. Cardinality(Held(st2)) <= RetainBound
    <3>1. Cardinality(Held(st2)) = Cardinality(Held(st)) + 1 /\ Cardinality(Held(st)) \in Nat
      <4>1. Cardinality(Held(st)) \in Nat
        BY <1>7, FS_CardinalityType
      <4>2. Cardinality(Held(st) \cup {id}) = Cardinality(Held(st)) + 1
        BY <1>7, FS_AddElement
      <4> QED
        BY <1>5, <4>1, <4>2
    <3>2. RetainBound \in Nat
      BY SessionOptions DEF RetainBound
    <3> QED
      BY <3>1, <3>2 DEF Admits
  <2> QED
    BY <2>1, <2>3, <2>4 DEF Bounded
<1>14. IsFiniteSet(Held(st2))
  BY <1>5, <1>7, FS_AddElement
<1>15. StoreInv(st2)
  BY <1>8, <1>9, <1>10, <1>11, <1>12, <1>13, <1>14 DEF StoreInv
<1> QED
  BY <1>4, <1>5, <1>6, <1>15 DEF Creates, KeepsRecords

LEMMA CreatedRecord ==
    ASSUME NEW st, StoreInv(st), NEW now, NEW id, NEW caller, NEW callee,
           NEW st2, st2 = created(st, id, caller, callee, now)
    PROVE  st2.sessions[id].state = Negotiating /\ st2.sessions[id].openedAt = now
<1> DEFINE s == [caller |-> caller, callee |-> callee, state |-> Negotiating,
                 path |-> PathUnknown, openedAt |-> now, changedAt |-> now]
<1>1. s.state = Negotiating /\ s.openedAt = now
  OBVIOUS
<1> HIDE DEF s
<1>2. st2.sessions = [i \in Held(st) \cup {id} |-> IF i = id THEN s ELSE st.sessions[i]]
  BY DEF created, s, StoreInv, StoreTyped, StoreType
<1> QED
  BY <1>1, <1>2

-----------------------------------------------------------------------------
(* The operations *)

\* A session of the same two peers, opened at the same moment, further on.
Advances(s, t) ==
    /\ canMove(s.state, t.state)
    /\ t.caller = s.caller /\ t.callee = s.callee /\ t.openedAt = s.openedAt

\* What any operation may do to a record: keep it as it is; if it has timed
\* out, record the failure; if not, move it on as canMove allows; and drop it
\* only if it is not live, or timed out.
Evolves(st, st2, now) ==
    /\ \A id \in Held(st) \cap Held(st2) :
        \/ st2.sessions[id] = st.sessions[id]
        \/ /\ TimedOut(st.sessions[id], now)
           /\ st2.sessions[id] = settled(st.sessions[id])
        \/ /\ ~TimedOut(st.sessions[id], now)
           /\ Advances(st.sessions[id], st2.sessions[id])
    /\ \A id \in Held(st) \ Held(st2) : Droppable(st.sessions[id], now)

\* A session as it stands once its timeout, if it has struck, is recorded.
standing(s, now) == IF TimedOut(s, now) THEN settled(s) ELSE s

\* What is dropped is not live, and is past its retention unless the map is at
\* its bound.
DropsDue(st, st2, now) ==
    \A id \in Held(st) \ Held(st2) :
        LET e == standing(st.sessions[id], now)
        IN  /\ ~Live(e)
            /\ \/ now - e.changedAt > Retention
               \/ Cardinality(Held(st)) >= RetainBound

\* A record that was at most settled, and is not live, is what the session it
\* records stands at.
LEMMA StandingRecord ==
    ASSUME NEW st, StoreInv(st), NEW st2, NEW now, Settles(st, st2, now),
           NEW id \in Held(st2) \ LiveIDs(st2)
    PROVE  standing(st.sessions[id], now) = st2.sessions[id] /\ ~Live(st2.sessions[id])
<1>1. id \in Held(st) /\ ~Live(st2.sessions[id])
  BY DEF Settles, LiveIDs
<1>2. st.sessions[id] \in Session
  BY <1>1 DEF StoreInv, StoreTyped, StoreType
<1>3. \/ st2.sessions[id] = st.sessions[id]
      \/ TimedOut(st.sessions[id], now) /\ st2.sessions[id] = settled(st.sessions[id])
  BY DEF Settles
<1>4. TimedOut(st.sessions[id], now) => Live(st.sessions[id])
  BY DEF TimedOut, Live
<1> QED
  BY <1>1, <1>3, <1>4 DEF standing

LEMMA SettlesEvolves ==
    ASSUME NEW st, NEW st2, NEW now, Settles(st, st2, now)
    PROVE  Evolves(st, st2, now)
BY DEF Settles, Evolves

LEMMA KeepsSettles ==
    ASSUME NEW st, NEW st2, NEW now, KeepsRecords(st, st2), LiveIDs(st2) = LiveIDs(st)
    PROVE  Settles(st, st2, now)
BY DEF Settles, KeepsRecords, LiveIDs, Droppable

\* What Open promises of each outcome: an answer that is OK is a live session
\* of the pair that has not timed out; the store gains at most the fresh
\* identifier; everything else has at most been settled or dropped, oldest
\* first and only when it was due; a peer reported to hold too many really does.
OpensTo(st, caller, callee, now, fresh, o) ==
    /\ StoreInv(o.store)
    /\ Held(o.store) \subseteq Held(st) \cup (IF o.id = fresh THEN {fresh} ELSE {})
    /\ Evolves(st, o.store, now)
    /\ o.err \in {OK, ErrSelf, ErrNotAllowed, ErrFull, ErrTooManyForPeer}
    /\ o.id \in Nat
    /\ o.err = OK =>
          /\ o.id \in LiveIDs(o.store)
          /\ keyOf(o.store.sessions[o.id]) = pairKey(caller, callee)
          /\ ~TimedOut(o.store.sessions[o.id], now)
    /\ (o.err = OK /\ o.id = fresh) =>
          /\ o.store.sessions[fresh].state = Negotiating
          /\ o.store.sessions[fresh].openedAt = now
          /\ DropsOldest(st, o.store)
    /\ DropsDue(st, o.store, now)
    /\ o.err = ErrTooManyForPeer => \E p \in {caller, callee} : ReallyAtCap(o.store, p, now)

\* A refusal leaves a store that was at most settled.
LEMMA RefusalOpens ==
    ASSUME NEW st, NEW st2, NEW caller, NEW callee, NEW now, NEW fresh,
           StoreInv(st2), Settles(st, st2, now), Held(st2) = Held(st),
           NEW err \in {ErrSelf, ErrNotAllowed, ErrFull, ErrTooManyForPeer},
           err = ErrTooManyForPeer => \E p \in {caller, callee} : ReallyAtCap(st2, p, now)
    PROVE  OpensTo(st, caller, callee, now, fresh, Outcome(st2, err, NoID))
<1> DEFINE o == Outcome(st2, err, NoID)
<1>1. o.store = st2 /\ o.err = err /\ o.id = NoID
  BY DEF Outcome
<1>2. Held(st2) \subseteq Held(st) /\ Evolves(st, st2, now)
  BY SettlesEvolves DEF Settles
<1>3. err # OK /\ NoID \in Nat
  BY DEF OK, ErrSelf, ErrNotAllowed, ErrFull, ErrTooManyForPeer, NoID
<1>4. DropsDue(st, st2, now)
  BY DEF DropsDue
<1> HIDE DEF o
<1> QED
  BY <1>1, <1>2, <1>3, <1>4 DEF OpensTo, o

LEMMA OpenNewOpens ==
    ASSUME NEW st, NEW s0, StoreInv(st), StoreInv(s0), NEW now \in Nat,
           NEW fresh \in IDs \ Held(st), Settles(st, s0, now),
           Held(s0) = Held(st), ListGrows(st, s0),
           NEW caller \in Peers, NEW callee \in Peers,
           s0.pairs[pairKey(caller, callee)] = NoID, s0.live < MaxSessions,
           NEW o \in openNew(s0, caller, callee, now, fresh)
    PROVE  OpensTo(st, caller, callee, now, fresh, o)
<1> DEFINE key == pairKey(caller, callee)
<1>0. key \in PairKeys /\ StoreTyped(st)
  BY DEF PairKeys, StoreInv
<1>1. PICK s1 \in atCap(s0, caller, now) :
        o \in IF Cardinality(s1.perPeer[caller]) >= MaxSessionsPerPeer
              THEN {Outcome(s1, ErrTooManyForPeer, NoID)}
              ELSE {IF Cardinality(s2.perPeer[callee]) >= MaxSessionsPerPeer
                    THEN Outcome(s2, ErrTooManyForPeer, NoID)
                    ELSE Outcome(created(trimLocked(s2), fresh, caller, callee, now), OK, fresh)
                      : s2 \in atCap(s1, callee, now)}
  BY DEF openNew
<1>2. /\ StoreInv(s1) /\ Held(s1) = Held(s0) /\ LiveIDs(s1) \subseteq LiveIDs(s0)
      /\ Settles(s0, s1, now) /\ s1.pairs[key] = NoID /\ ListGrows(s0, s1)
      /\ Cardinality(s1.perPeer[caller]) >= MaxSessionsPerPeer => ReallyAtCap(s1, caller, now)
  BY <1>0, AtCapKeepsInv
<1>3. Settles(st, s1, now)
  BY <1>0, <1>2, SettlesTrans
<1>4. CASE Cardinality(s1.perPeer[caller]) >= MaxSessionsPerPeer
  BY <1>1, <1>2, <1>3, <1>4, RefusalOpens
<1>5. CASE ~(Cardinality(s1.perPeer[caller]) >= MaxSessionsPerPeer)
  <2>1. PICK s2 \in atCap(s1, callee, now) :
          o = IF Cardinality(s2.perPeer[callee]) >= MaxSessionsPerPeer
              THEN Outcome(s2, ErrTooManyForPeer, NoID)
              ELSE Outcome(created(trimLocked(s2), fresh, caller, callee, now), OK, fresh)
    BY <1>1, <1>5
  <2>2. /\ StoreInv(s2) /\ Held(s2) = Held(s1) /\ LiveIDs(s2) \subseteq LiveIDs(s1)
        /\ Settles(s1, s2, now) /\ s2.pairs[key] = NoID /\ ListGrows(s1, s2)
        /\ Cardinality(s2.perPeer[callee]) >= MaxSessionsPerPeer => ReallyAtCap(s2, callee, now)
    BY <1>0, <1>2, AtCapKeepsInv
  <2>3. Settles(st, s2, now)
    BY <1>0, <1>3, <2>2, SettlesTrans
  <2>4. CASE Cardinality(s2.perPeer[callee]) >= MaxSessionsPerPeer
    <3>1. o = Outcome(s2, ErrTooManyForPeer, NoID) /\ Held(s2) = Held(st)
      BY <1>2, <2>1, <2>2, <2>4
    <3>2. \E p \in {caller, callee} : ReallyAtCap(s2, p, now)
      BY <2>2, <2>4
    <3> QED
      BY <2>2, <2>3, <3>1, <3>2, RefusalOpens
  <2>5. CASE ~(Cardinality(s2.perPeer[callee]) >= MaxSessionsPerPeer)
    <3>a. PICK s3 : s3 = trimLocked(s2)
      OBVIOUS
    <3>b. PICK s4 : s4 = created(s3, fresh, caller, callee, now)
      OBVIOUS
    <3>1. \A s \in {s0, s1, s2} :
             /\ IsFiniteSet(LiveIDs(s)) /\ Cardinality(LiveIDs(s)) \in Nat
             /\ s.live = Cardinality(LiveIDs(s))
             /\ \A p \in Peers : /\ s.perPeer[p] = {id \in LiveIDs(s) : Has(s.sessions[id], p)}
                                  /\ IsFiniteSet(s.perPeer[p])
                                  /\ Cardinality(s.perPeer[p]) \in Nat
      <4> SUFFICES ASSUME NEW s, StoreInv(s)
                   PROVE  /\ IsFiniteSet(LiveIDs(s)) /\ Cardinality(LiveIDs(s)) \in Nat
                          /\ s.live = Cardinality(LiveIDs(s))
                          /\ \A p \in Peers :
                                /\ s.perPeer[p] = {id \in LiveIDs(s) : Has(s.sessions[id], p)}
                                /\ IsFiniteSet(s.perPeer[p])
                                /\ Cardinality(s.perPeer[p]) \in Nat
        BY <1>2, <2>2
      <4>1. IsFiniteSet(LiveIDs(s)) /\ Cardinality(LiveIDs(s)) \in Nat
        BY FS_Subset, FS_CardinalityType DEF StoreInv, LiveIDs
      <4>2. ASSUME NEW p \in Peers
            PROVE  /\ s.perPeer[p] = {id \in LiveIDs(s) : Has(s.sessions[id], p)}
                   /\ IsFiniteSet(s.perPeer[p]) /\ Cardinality(s.perPeer[p]) \in Nat
        <5>1. s.perPeer[p] = {id \in LiveIDs(s) : Has(s.sessions[id], p)}
          BY DEF StoreInv, PerPeerExact, sessionsOf
        <5> QED
          BY <4>1, <5>1, FS_Subset, FS_CardinalityType
      <4> QED
        BY <4>1, <4>2 DEF StoreInv, CountExact
    <3>2. s2.live < MaxSessions
      <4>1. LiveIDs(s2) \in SUBSET LiveIDs(s0)
        BY <1>2, <2>2
      <4>2. Cardinality(LiveIDs(s2)) <= Cardinality(LiveIDs(s0))
        BY <3>1, <4>1, FS_Subset
      <4> QED
        BY <3>1, <4>2, SessionOptions
    <3>3. Cardinality(s2.perPeer[caller]) < MaxSessionsPerPeer
      <4>1. s2.perPeer[caller] \in SUBSET s1.perPeer[caller]
        <5> SUFFICES ASSUME NEW id \in LiveIDs(s2), Has(s2.sessions[id], caller)
                     PROVE  id \in LiveIDs(s1) /\ Has(s1.sessions[id], caller)
          BY <3>1
        <5>1. id \in LiveIDs(s1) /\ id \in Held(s2) /\ s1.sessions[id] \in Session
          BY <1>2, <2>2 DEF StoreInv, StoreTyped, StoreType, LiveIDs
        <5>2. s2.sessions[id] = s1.sessions[id] \/ s2.sessions[id] = settled(s1.sessions[id])
          BY <2>2, <5>1 DEF Settles
        <5> QED
          BY <5>1, <5>2, SettledRecord DEF Has
      <4>2. Cardinality(s2.perPeer[caller]) <= Cardinality(s1.perPeer[caller])
        BY <3>1, <4>1, FS_Subset
      <4> QED
        BY <1>5, <3>1, <4>2, SessionOptions
    <3>4. /\ StoreInv(s3) /\ Held(s3) \subseteq Held(s2) /\ LiveIDs(s3) = LiveIDs(s2)
          /\ KeepsRecords(s2, s3)
          /\ s3.pairs = s2.pairs /\ s3.perPeer = s2.perPeer /\ s3.live = s2.live
          /\ Cardinality(Held(s3)) < RetainBound
          /\ Held(s3) # Held(s2) => Cardinality(Held(s2)) >= RetainBound
          /\ DropsOldest(s2, s3)
      BY <2>2, <3>2, <3>a, TrimKeepsInv
    <3>5. Settles(st, s3, now)
      BY <1>0, <2>3, <3>4, SettlesTrans, KeepsSettles
    <3>6. Cardinality(s2.perPeer[callee]) < MaxSessionsPerPeer
      BY <2>5, <3>1, SessionOptions
    <3>7. Admits(s3, fresh, caller, callee)
      BY <2>2, <3>2, <3>3, <3>4, <3>5, <3>6 DEF Admits, Settles
    <3>8. /\ StoreInv(s4) /\ Held(s4) = Held(s3) \cup {fresh}
          /\ LiveIDs(s4) = LiveIDs(s3) \cup {fresh}
          /\ KeepsRecords(s4, s3)
          /\ keyOf(s4.sessions[fresh]) = key /\ ~TimedOut(s4.sessions[fresh], now)
          /\ s4.sessions[fresh].state = Negotiating /\ s4.sessions[fresh].openedAt = now
      <4>1. StoreInv(s3)
        BY <3>4
      <4> HIDE DEF key
      <4>2. Creates(s3, fresh, caller, callee, now, s4)
        BY <3>7, <3>b, <4>1, CreatedKeepsInv
      <4>3. s4.sessions[fresh].state = Negotiating /\ s4.sessions[fresh].openedAt = now
        BY <3>b, <4>1, CreatedRecord
      <4> QED
        BY <4>2, <4>3 DEF Creates, key
    <3>9. Evolves(st, s4, now)
      BY <3>5, <3>8 DEF Evolves, Settles, KeepsRecords
    <3>10. o.store = s4 /\ o.err = OK /\ o.id = fresh
      BY <2>1, <2>5, <3>a, <3>b DEF Outcome
    <3>11. Held(s2) = Held(st)
      BY <1>2, <2>2
    <3>12. DropsDue(st, s4, now)
      <4> SUFFICES ASSUME NEW id \in Held(st) \ Held(s4)
                   PROVE  /\ ~Live(standing(st.sessions[id], now))
                          /\ Cardinality(Held(st)) >= RetainBound
        BY DEF DropsDue
      <4>1. id \in Held(s2) \ Held(s3)
        BY <3>8, <3>11
      <4>2. id \notin LiveIDs(s2)
        BY <3>4, <4>1 DEF LiveIDs
      <4> QED
        BY <2>3, <3>4, <3>11, <4>1, <4>2, StandingRecord
    <3>13. DropsOldest(st, s4)
      <4> SUFFICES ASSUME NEW i \in DOMAIN st.ended, NEW j \in DOMAIN st.ended, i < j,
                          st.ended[j] \notin Held(s4)
                   PROVE  st.ended[i] \notin Held(s4)
        BY DEF DropsOldest
      <4>1. ListGrows(st, s2)
        BY <1>2, <2>2 DEF ListGrows
      <4>2. /\ i \in DOMAIN s2.ended /\ j \in DOMAIN s2.ended
            /\ s2.ended[i] = st.ended[i] /\ s2.ended[j] = st.ended[j]
        BY <4>1 DEF ListGrows
      <4>3. st.ended[i] \notin Held(s3)
        BY <3>4, <3>8, <4>2 DEF DropsOldest
      <4>4. st.ended[i] \in Held(st)
        BY DEF StoreInv, EndedExact, Range
      <4> QED
        BY <3>8, <4>3, <4>4
    <3>14. OK # ErrTooManyForPeer
      BY DEF OK, ErrTooManyForPeer
    <3> QED
      BY <3>5, <3>8, <3>9, <3>10, <3>12, <3>13, <3>14 DEF OpensTo, Settles, IDs
  <2> QED
    BY <2>4, <2>5
<1> QED
  BY <1>4, <1>5

\* Open, every outcome of it (session.go:226-305).
LEMMA OpenKeepsInv ==
    ASSUME NEW st, StoreInv(st), NEW now \in Nat, NEW fresh \in IDs \ Held(st),
           NEW caller \in Peers, NEW callee \in Peers,
           NEW o \in OpenOutcomes(st, caller, callee, now, fresh)
    PROVE  OpensTo(st, caller, callee, now, fresh, o)
<1> DEFINE key == pairKey(caller, callee)
           id  == st.pairs[key]
           s1  == pairLocked(st, key, now)
<1>1. CASE o \in {Outcome(st, ErrSelf, NoID), Outcome(st, ErrNotAllowed, NoID)}
  BY <1>1, RefusalOpens, SettlesRefl DEF ErrSelf, ErrNotAllowed, ErrTooManyForPeer
<1>2. CASE o \in openLocked(st, caller, callee, now, fresh)
  <2>0. key \in PairKeys
    BY DEF PairKeys
  <2>1. /\ StoreInv(s1) /\ Held(s1) = Held(st) /\ Settles(st, s1, now)
        /\ id \in LiveIDs(s1) => keyOf(s1.sessions[id]) = key
        /\ id \in LiveIDs(s1) => ~TimedOut(s1.sessions[id], now)
        /\ id \notin LiveIDs(s1) => s1.pairs[key] = NoID
        /\ ListGrows(st, s1)
    BY <2>0, PairLockedKeepsInv
  <2>2. CASE id \in LiveIDs(s1)
    <3>1. o.store = s1 /\ o.err = OK /\ o.id = id
      BY <1>2, <2>2 DEF openLocked, Outcome
    <3>2. id \in Nat /\ Evolves(st, s1, now) /\ id # fresh
      BY <2>1, <2>2, SettlesEvolves DEF StoreInv, StoreTyped, IDs, LiveIDs
    <3>3. DropsDue(st, s1, now) /\ OK # ErrTooManyForPeer
      BY <2>1 DEF DropsDue, OK, ErrTooManyForPeer
    <3> HIDE DEF s1, id, key
    <3> QED
      BY <2>1, <2>2, <3>1, <3>2, <3>3 DEF OpensTo, key
  <2>3. CASE id \notin LiveIDs(s1) /\ s1.live >= MaxSessions
    <3>1. o = Outcome(s1, ErrFull, NoID)
      BY <1>2, <2>3 DEF openLocked
    <3> HIDE DEF s1
    <3> QED
      BY <2>1, <3>1, RefusalOpens DEF ErrFull, ErrTooManyForPeer
  <2>4. CASE id \notin LiveIDs(s1) /\ ~(s1.live >= MaxSessions)
    <3>1. o \in openNew(s1, caller, callee, now, fresh)
      BY <1>2, <2>4 DEF openLocked
    <3>2. s1.live < MaxSessions
      BY <2>1, <2>4, SessionOptions DEF StoreInv, StoreTyped, StoreType
    <3> HIDE DEF s1, id
    <3> QED
      BY <2>1, <2>4, <3>1, <3>2, OpenNewOpens
  <2> QED
    BY <2>2, <2>3, <2>4
<1> QED
  BY <1>1, <1>2 DEF OpenOutcomes

\* What the operations that create nothing promise.
StepsTo(st, st2, now) ==
    /\ StoreInv(st2)
    /\ Held(st2) \subseteq Held(st)
    /\ Evolves(st, st2, now)
    /\ DropsDue(st, st2, now)

LEMMA StutterSteps ==
    ASSUME NEW st, StoreInv(st), NEW now
    PROVE  StepsTo(st, st, now)
BY DEF StepsTo, Evolves, DropsDue

\* Get settles the session it reports, and what it reports is not timed out.
LEMMA GetKeepsInv ==
    ASSUME NEW st, StoreInv(st), NEW now, NEW id, NEW p
    PROVE  LET o == GetOutcome(st, id, p, now)
           IN  /\ StepsTo(st, o.store, now)
               /\ o.err \in {OK, ErrNotFound} /\ o.id \in Nat
               /\ o.err = OK => ~TimedOut(o.store.sessions[o.id], now)
<1>1. CASE ~Known(st, id, p)
  BY <1>1, StutterSteps DEF GetOutcome, Outcome, NoID, OK, ErrNotFound
<1>2. CASE Known(st, id, p)
  <2>1. id \in Held(st) /\ id \in Nat
    BY <1>2 DEF Known, StoreInv, StoreTyped, IDs
  <2>2. PICK st2 : st2 = settleLocked(st, id, now)
    OBVIOUS
  <2>3. /\ StoreInv(st2) /\ Held(st2) = Held(st) /\ Settles(st, st2, now)
        /\ ~TimedOut(st2.sessions[id], now)
    BY <2>1, <2>2, SettleLockedKeepsInv
  <2>4. StepsTo(st, st2, now)
    BY <2>3, SettlesEvolves DEF StepsTo, DropsDue
  <2>5. PICK o : o = GetOutcome(st, id, p, now)
    OBVIOUS
  <2>6. o.store = st2 /\ o.err = OK /\ o.id = id
    BY <1>2, <2>2, <2>5 DEF GetOutcome, Outcome
  <2> QED
    BY <2>1, <2>3, <2>4, <2>5, <2>6
<1> QED
  BY <1>1, <1>2

\* Rewriting a live session in place, as long as it stays live and keeps its
\* two peers, disturbs no index.
RewrittenAt(st, id, s, st2) ==
    /\ \A i \in Held(st) \ {id} : st2.sessions[i] = st.sessions[i]
    /\ st2.sessions[id] = s

LEMMA RewriteKeepsInv ==
    ASSUME NEW st, StoreInv(st), NEW id \in LiveIDs(st), NEW s \in Session, Live(s),
           s.caller = st.sessions[id].caller, s.callee = st.sessions[id].callee,
           NEW st2, st2 = [st EXCEPT !.sessions[id] = s]
    PROVE  /\ StoreInv(st2) /\ Held(st2) = Held(st)
           /\ RewrittenAt(st, id, s, st2)
<1> DEFINE A == [st.sessions EXCEPT ![id] = s]
<1>1. st2 = [st EXCEPT !.sessions = A]
  OBVIOUS
<1>2. st \in StoreType(Held(st)) /\ Held(st) \subseteq IDs
  BY DEF StoreInv, StoreTyped
<1>3. id \in Held(st) /\ DOMAIN A = Held(st) /\ A \in [Held(st) -> Session]
  BY <1>2 DEF LiveIDs, StoreType
<1>4. /\ A[id] = s /\ \A i \in Held(st) \ {id} : A[i] = st.sessions[i]
  BY <1>2, <1>3 DEF StoreType
<1> HIDE DEF A
<1>5. /\ st2.sessions = A /\ st2.pairs = st.pairs /\ st2.live = st.live
      /\ st2.perPeer = st.perPeer /\ st2.ended = st.ended
  BY <1>1, <1>2 DEF StoreType
<1>6. Held(st2) = Held(st)
  BY <1>3, <1>5 DEF Held
<1>7. StoreTyped(st2)
  <2>1. st2 \in StoreType(Held(st))
    BY <1>1, <1>2, <1>3 DEF StoreType
  <2> QED
    BY <1>2, <1>6, <2>1 DEF StoreTyped
<1>8. LiveIDs(st2) = LiveIDs(st)
  BY <1>3, <1>4, <1>5, <1>6 DEF LiveIDs
<1>9. \A i \in Held(st) : /\ keyOf(st2.sessions[i]) = keyOf(st.sessions[i])
                          /\ \A p : Has(st2.sessions[i], p) <=> Has(st.sessions[i], p)
  BY <1>4, <1>5 DEF keyOf, Has
<1>10. CountExact(st2) /\ EndedExact(st2) /\ Bounded(st2) /\ IsFiniteSet(Held(st2))
  BY <1>5, <1>6, <1>8 DEF StoreInv, CountExact, EndedExact, Bounded
<1>11. PerPeerExact(st2)
  BY <1>5, <1>8, <1>9 DEF StoreInv, PerPeerExact, sessionsOf, LiveIDs
<1>12. PairsExact(st2)
  BY <1>5, <1>8, <1>9 DEF StoreInv, PairsExact, LiveIDs
<1> QED
  BY <1>4, <1>5, <1>6, <1>7, <1>10, <1>11, <1>12 DEF StoreInv, RewrittenAt

\* Report: whatever a peer in the session says, a session past its timeout has
\* failed and a session that ended stays as it is (session.go:329-359).
LEMMA ReportKeepsInv ==
    ASSUME NEW st, StoreInv(st), NEW now \in Nat, NEW id, NEW p,
           NEW state \in States, NEW path \in Paths
    PROVE  StepsTo(st, ReportOutcome(st, id, p, state, path, now).store, now)
<1>1. CASE ~Known(st, id, p)
  BY <1>1, StutterSteps DEF ReportOutcome, Outcome
<1>2. CASE Known(st, id, p)
  <2>1. id \in Held(st)
    BY <1>2 DEF Known
  <2>2. PICK s1 : s1 = settleLocked(st, id, now)
    OBVIOUS
  <2>3. /\ StoreInv(s1) /\ Held(s1) = Held(st) /\ Settles(st, s1, now)
        /\ ~TimedOut(s1.sessions[id], now)
    BY <2>1, <2>2, SettleLockedKeepsInv
  <2>4. CASE ~canMove(s1.sessions[id].state, state)
    <3>1. ReportOutcome(st, id, p, state, path, now).store = s1
      BY <1>2, <2>2, <2>4 DEF ReportOutcome, Outcome
    <3> QED
      BY <2>3, <3>1, SettlesEvolves DEF StepsTo, DropsDue
  <2>5. CASE canMove(s1.sessions[id].state, state)
    <3>1. PICK s2 : s2 = moved(s1, id, state, path, now)
      OBVIOUS
    <3>2. ReportOutcome(st, id, p, state, path, now).store = s2
      BY <1>2, <2>2, <2>5, <3>1 DEF ReportOutcome, Outcome
    <3>3. Live(s1.sessions[id]) /\ id \in LiveIDs(s1)
      BY <2>1, <2>3, <2>5 DEF canMove, Live, LiveIDs
    <3>4. st.sessions[id] \in Session /\ s1.sessions[id] \in Session
      BY <2>1, <2>3 DEF StoreInv, StoreTyped, StoreType
    <3>5. s1.sessions[id] = st.sessions[id]
      BY <2>1, <2>3, <3>3, <3>4, SettledRecord DEF Settles
    <3>6. PICK s : s = [s1.sessions[id] EXCEPT !.state = state, !.changedAt = now,
                                     !.path = IF state = Connected THEN path ELSE @]
      OBVIOUS
    <3>7. /\ s \in Session /\ s.caller = s1.sessions[id].caller /\ s.callee = s1.sessions[id].callee
          /\ s.openedAt = s1.sessions[id].openedAt /\ s.state = state
      BY <3>4, <3>6 DEF Session
    <3>8. /\ StoreInv(s2) /\ Held(s2) = Held(s1)
          /\ \A i \in Held(s1) \ {id} : s2.sessions[i] = s1.sessions[i]
          /\ s2.sessions[id] = s
      <4>1. CASE Live(s)
        <5>1. s2 = [s1 EXCEPT !.sessions[id] = s]
          BY <3>1, <3>6, <4>1 DEF moved
        <5>2. StoreInv(s1) /\ id \in LiveIDs(s1) /\ s \in Session
          BY <2>3, <3>3, <3>7
        <5>3. s.caller = s1.sessions[id].caller /\ s.callee = s1.sessions[id].callee
          BY <3>7
        <5>4. StoreInv(s2) /\ Held(s2) = Held(s1) /\ RewrittenAt(s1, id, s, s2)
          BY <4>1, <5>1, <5>2, <5>3, RewriteKeepsInv
        <5> QED
          BY <5>4 DEF RewrittenAt
      <4>2. CASE ~Live(s)
        <5>1. PICK recs : recs = [i \in {id} |-> s]
          OBVIOUS
        <5>2. PICK order : order = <<id>>
          OBVIOUS
        <5>3. s2 = endedLocked(s1, recs, order)
          BY <3>1, <3>6, <4>2, <5>1, <5>2 DEF moved
        <5>4. order \in SetToSeqs(DOMAIN recs)
          <6>1. Cardinality({id}) = 1
            BY FS_Singleton
          <6> QED
            BY <5>1, <5>2, <6>1 DEF SetToSeqs
        <5>5. Endings(s1, recs)
          BY <3>3, <3>7, <4>2, <5>1 DEF Endings
        <5>6. StoreInv(s2) /\ Held(s2) = Held(s1)
          BY <2>3, <5>3, <5>4, <5>5, EndedKeepsInv
        <5>7. EndedTo(s1, recs, order, s2)
          BY <2>3, <5>3, EndedFields DEF StoreInv
        <5>8. /\ \A i \in Held(s1) \ {id} : s2.sessions[i] = s1.sessions[i]
              /\ s2.sessions[id] = s
          <6>1. id \in Held(s1)
            BY <2>1, <2>3
          <6>2. DOMAIN recs = {id} /\ recs[id] = s
            BY <5>1
          <6> QED
            BY <5>7, <6>1, <6>2 DEF EndedTo
        <5> QED
          BY <5>6, <5>8
      <4> QED
        BY <4>1, <4>2
    <3>9. Evolves(st, s2, now)
      <4>1. s2.sessions[id] = s
        BY <3>8
      <4>2. Advances(st.sessions[id], s2.sessions[id])
        BY <2>5, <3>5, <3>7, <4>1 DEF Advances
      <4>3. \A i \in Held(st) \ {id} : s2.sessions[i] = s1.sessions[i]
        BY <2>3, <3>8
      <4> QED
        BY <2>3, <3>5, <3>8, <4>2, <4>3 DEF Evolves, Settles
    <3> QED
      BY <2>3, <3>2, <3>8, <3>9 DEF StepsTo, DropsDue
  <2> QED
    BY <2>4, <2>5
<1> QED
  BY <1>1, <1>2

\* ClosePeer ends every live session of the peer and nothing else
\* (session.go:361-389).
LEMMA ClosePeerKeepsInv ==
    ASSUME NEW st, StoreInv(st), NEW now \in Nat, NEW p \in Peers,
           NEW st2 \in ClosePeerOutcomes(st, p, now)
    PROVE  StepsTo(st, st2, now) /\ sessionsOf(st2, p) = {}
<1>1. PICK ids : ids = sessionsOf(st, p)
  OBVIOUS
<1>2. PICK recs : recs = [id \in ids |-> hungUp(st, id, now)]
  OBVIOUS
<1>3. PICK order \in SetToSeqs(ids) : st2 = endedLocked(st, recs, order)
  BY <1>1, <1>2 DEF ClosePeerOutcomes
<1>4. DOMAIN recs = ids /\ ids \subseteq LiveIDs(st) /\ LiveIDs(st) \subseteq Held(st)
  BY <1>1, <1>2 DEF sessionsOf, LiveIDs
<1>5. \A id \in Held(st) : st.sessions[id] \in Session
  BY DEF StoreInv, StoreTyped, StoreType
<1>6. ASSUME NEW id \in ids
      PROVE  /\ recs[id] = hungUp(st, id, now)
             /\ recs[id] \in Session /\ ~Live(recs[id])
             /\ recs[id].caller = st.sessions[id].caller
             /\ recs[id].callee = st.sessions[id].callee
             /\ recs[id].openedAt = st.sessions[id].openedAt
             /\ ~TimedOut(st.sessions[id], now) => recs[id].state = Closed
  <2>1. PICK s : s = st.sessions[id] /\ s \in Session
    BY <1>4, <1>5
  <2>2. CASE TimedOut(s, now)
    BY <1>2, <2>1, <2>2, SettledRecord DEF hungUp
  <2>3. CASE ~TimedOut(s, now)
    <3>1. recs[id] = [s EXCEPT !.state = Closed, !.changedAt = now]
      BY <1>2, <2>1, <2>3 DEF hungUp
    <3>2. recs[id] \in Session /\ recs[id].state = Closed
      BY <2>1, <3>1 DEF Session, States
    <3>3. ~Live(recs[id])
      BY <3>2 DEF Live, Closed, Negotiating, Connected
    <3> QED
      BY <1>2, <2>1, <3>1, <3>2, <3>3 DEF Session
  <2> QED
    BY <2>2, <2>3
<1>7. Endings(st, recs)
  BY <1>2, <1>4, <1>6 DEF Endings
<1>8. StoreInv(st2) /\ Held(st2) = Held(st) /\ LiveIDs(st2) = LiveIDs(st) \ ids
  BY <1>3, <1>4, <1>7, EndedKeepsInv
<1>9. EndedTo(st, recs, order, st2)
  BY <1>3, EndedFields DEF StoreInv
<1>10. \A id \in Held(st) : st2.sessions[id] = IF id \in ids THEN recs[id] ELSE st.sessions[id]
  BY <1>4, <1>9 DEF EndedTo
<1>11. Evolves(st, st2, now)
  <2> SUFFICES ASSUME NEW id \in ids
               PROVE  \/ /\ TimedOut(st.sessions[id], now)
                         /\ recs[id] = settled(st.sessions[id])
                      \/ /\ ~TimedOut(st.sessions[id], now)
                         /\ Advances(st.sessions[id], recs[id])
    BY <1>8, <1>10 DEF Evolves
  <2>1. canMove(st.sessions[id].state, Closed)
    BY <1>4 DEF LiveIDs, Live, canMove
  <2> QED
    BY <1>6, <2>1 DEF hungUp, Advances
<1>12. sessionsOf(st2, p) = {}
  BY <1>1, <1>4, <1>8, <1>10 DEF sessionsOf
<1> QED
  BY <1>8, <1>11, <1>12 DEF StepsTo, DropsDue

\* Reap fails what timed out, forgets what is overdue and nothing else, and
\* leaves the order list without holes (session.go:407-431).
LEMMA ReapKeepsInv ==
    ASSUME NEW st, StoreInv(st), NEW now \in Nat, NEW st3 \in ReapOutcomes(st, now)
    PROVE  StepsTo(st, st3, now) /\ expired(st3, Held(st3), now) = {}
<1>1. PICK s1 \in settleEach(st, Held(st), now) :
        st3 = compactEndedLocked(forgetLocked(s1, overdue(s1, now)))
  BY DEF ReapOutcomes
<1>2. /\ StoreInv(s1) /\ Held(s1) = Held(st) /\ Settles(st, s1, now)
      /\ \A id \in Held(st) \cap Held(st) : ~TimedOut(s1.sessions[id], now)
  BY SettleEachKeepsInv
<1>3. PICK ids : ids = overdue(s1, now)
  OBVIOUS
<1>4. ids \in SUBSET (Held(s1) \ LiveIDs(s1))
  BY <1>3 DEF overdue
<1>5. PICK s2 : s2 = forgetLocked(s1, ids)
  OBVIOUS
<1>6. s1 \in StoreType(Held(s1))
  BY <1>2 DEF StoreInv, StoreTyped
<1>7. /\ s2.sessions = [id \in Held(s1) \ ids |-> s1.sessions[id]]
      /\ s2.pairs = [k \in PairKeys |-> IF s1.pairs[k] \in ids THEN NoID ELSE s1.pairs[k]]
      /\ s2.live = s1.live /\ s2.perPeer = s1.perPeer /\ s2.ended = s1.ended
      /\ s2 \in [sessions : {s2.sessions}, pairs : {s2.pairs}, live : {s1.live},
                  perPeer : {s1.perPeer}, ended : {s1.ended}]
  <2> DEFINE A == [id \in Held(s1) \ ids |-> s1.sessions[id]]
             B == [k \in PairKeys |-> IF s1.pairs[k] \in ids THEN NoID ELSE s1.pairs[k]]
  <2>1. s2 = [s1 EXCEPT !.sessions = A, !.pairs = B]
    BY <1>5 DEF forgetLocked
  <2> HIDE DEF A, B
  <2>2. /\ s2.sessions = A /\ s2.pairs = B
        /\ s2.live = s1.live /\ s2.perPeer = s1.perPeer /\ s2.ended = s1.ended
    BY <1>6, <2>1 DEF StoreType
  <2>3. s2 \in [sessions : {A}, pairs : {B}, live : {s1.live},
                perPeer : {s1.perPeer}, ended : {s1.ended}]
    BY <1>6, <2>1 DEF StoreType
  <2> QED
    BY <2>2, <2>3 DEF A, B
<1>8. Held(s2) = Held(s1) \ ids
  BY <1>7 DEF Held
<1>9. PICK e : e = compact(s1.ended, Held(s2))
  OBVIOUS
<1>10. /\ e \in Seq(IDs) /\ IsInjective(e)
       /\ Range(e) = (Held(s1) \ LiveIDs(s1)) \ ids
  <2>1. /\ s1.ended \in Seq(IDs) /\ IsInjective(s1.ended)
        /\ Range(s1.ended) = Held(s1) \ LiveIDs(s1)
    BY <1>2, <1>6 DEF StoreType, StoreInv, EndedExact
  <2>2. /\ e \in Seq(IDs) /\ IsInjective(e)
        /\ Range(e) = Range(s1.ended) \cap Held(s2)
    BY <1>9, <2>1, CompactProperties
  <2> QED
    BY <1>8, <2>1, <2>2
<1>11. st3 = [s2 EXCEPT !.ended = e]
  BY <1>1, <1>3, <1>5, <1>7, <1>9 DEF compactEndedLocked
<1>12. /\ st3.sessions = s2.sessions /\ st3.pairs = s2.pairs /\ st3.live = s1.live
       /\ st3.perPeer = s1.perPeer /\ st3.ended = e
  BY <1>7, <1>11
<1>13. FieldsTyped(st3) => StoreTyped(st3)
  <2>1. FieldsTyped(st3) => st3 \in StoreType(Held(st3))
    BY <1>7, <1>11, <1>12 DEF FieldsTyped, StoreType
  <2> QED
    BY <2>1 DEF StoreTyped, FieldsTyped
<1>14. ForgetsTo(s1, ids, st3)
  BY <1>7, <1>12, <1>13 DEF ForgetsTo
<1>15. /\ StoreInv(st3) /\ Held(st3) = Held(s1) \ ids /\ KeepsRecords(s1, st3)
       /\ LiveIDs(st3) = LiveIDs(s1)
  <2>1. StoreInv(s1) /\ st3.ended \in Seq(IDs) /\ IsInjective(st3.ended)
    BY <1>2, <1>10, <1>12
  <2>2. Range(st3.ended) = (Held(s1) \ LiveIDs(s1)) \ ids
    BY <1>10, <1>12
  <2> QED
    BY <1>4, <1>14, <2>1, <2>2, ForgettingKeepsInv
<1>16. Settles(st, st3, now)
  BY <1>2, <1>15, KeepsSettles, SettlesTrans DEF StoreInv
<1>17. expired(st3, Held(st3), now) = {}
  BY <1>2, <1>15 DEF expired, KeepsRecords
<1>18. DropsDue(st, st3, now)
  <2> SUFFICES ASSUME NEW id \in Held(st) \ Held(st3)
               PROVE  /\ ~Live(standing(st.sessions[id], now))
                      /\ now - standing(st.sessions[id], now).changedAt > Retention
    BY DEF DropsDue
  <2>1. id \in Held(s1) \ LiveIDs(s1) /\ now - s1.sessions[id].changedAt > Retention
    BY <1>2, <1>3, <1>15 DEF overdue
  <2> QED
    BY <1>2, <2>1, StandingRecord
<1> QED
  BY <1>15, <1>16, <1>17, <1>18, SettlesEvolves DEF StepsTo, Settles

-----------------------------------------------------------------------------
(* The state machine: its inductive invariant *)

\* newID never draws an identifier twice.
FreshIDs == Held(store) \subseteq 1..(nextID - 1)

ScalarsTyped == clock \in Nat /\ nextID \in IDs /\ reply \in Replies

IInv ==
    /\ StoreInv(store)
    /\ ScalarsTyped
    /\ FreshIDs
    /\ OpenAnswersLive
    /\ ReadIsSettled
    /\ TooManyIsReal

\* The key of a session is its two parties.
LEMMA PartiesKey == \A s : parties(s) = keyOf(s)
BY DEF parties, keyOf, pairKey

\* The empty store keeps every promise.
LEMMA EmptyStoreInv == StoreInv(EmptyStore)
<1> DEFINE st == EmptyStore
<1>1. /\ Held(st) = {} /\ st.live = 0 /\ st.ended = << >>
      /\ st.pairs = [k \in PairKeys |-> NoID] /\ st.perPeer = [p \in Peers |-> {}]
  BY DEF EmptyStore, Held
<1>2. LiveIDs(st) = {}
  BY <1>1 DEF LiveIDs
<1>3. StoreTyped(st)
  <2>1. st.sessions \in [{} -> Session]
    BY DEF EmptyStore
  <2>2. /\ st.pairs \in [PairKeys -> Nat] /\ st.live \in Int
        /\ st.perPeer \in [Peers -> SUBSET IDs] /\ st.ended \in Seq(IDs)
    BY <1>1 DEF NoID
  <2>3. st \in StoreType({})
    BY <2>1, <2>2 DEF EmptyStore, StoreType
  <2> QED
    BY <1>1, <2>3 DEF StoreTyped
<1> HIDE DEF st
<1>4. IsFiniteSet(Held(st)) /\ Cardinality(Held(st)) = 0 /\ Cardinality(LiveIDs(st)) = 0
  BY <1>1, <1>2, FS_EmptySet
<1>5. CountExact(st) /\ PerPeerExact(st) /\ PairsExact(st)
  BY <1>1, <1>2, <1>4 DEF CountExact, PerPeerExact, PairsExact, sessionsOf
<1>6. EndedExact(st)
  <2>1. DOMAIN st.ended = {}
    BY <1>1
  <2> QED
    BY <1>1, <1>2, <2>1 DEF EndedExact, Range, IsInjective
<1>7. Bounded(st)
  <2>1. RetainBound \in Nat
    BY SessionOptions DEF RetainBound
  <2>2. \A p \in Peers : Cardinality(st.perPeer[p]) = 0
    BY <1>1, FS_EmptySet
  <2> QED
    BY <1>1, <1>4, <2>1, <2>2, SessionOptions DEF Bounded
<1> QED
  BY <1>3, <1>4, <1>5, <1>6, <1>7 DEF StoreInv, st

LEMMA InitIInv == Init => IInv
<1> SUFFICES ASSUME Init PROVE IInv
  OBVIOUS
<1>1. StoreInv(store) /\ Held(store) = {}
  BY EmptyStoreInv DEF Init, EmptyStore, Held
<1>2. reply.op = "none" /\ reply.err # ErrTooManyForPeer /\ reply \in Replies
  BY DEF Init, NoReply, Replies, OK, ErrTooManyForPeer, NoID
<1>3. ScalarsTyped /\ FreshIDs
  BY <1>1, <1>2 DEF Init, ScalarsTyped, FreshIDs, IDs, NoID
<1>4. OpenAnswersLive /\ ReadIsSettled /\ TooManyIsReal
  BY <1>2 DEF OpenAnswersLive, ReadIsSettled, TooManyIsReal
<1> QED
  BY <1>1, <1>3, <1>4 DEF IInv

\* A row of the per-peer index is finite, so its size is a number.
LEMMA RowsCounted ==
    ASSUME NEW st, StoreInv(st), NEW p \in Peers
    PROVE  Cardinality(st.perPeer[p]) \in Nat
<1>1. st.perPeer[p] \subseteq Held(st)
  BY DEF StoreInv, PerPeerExact, sessionsOf, LiveIDs
<1> QED
  BY <1>1, FS_Subset, FS_CardinalityType DEF StoreInv

\* A step that only evolves the store, and answers nobody.
LEMMA QuietStep ==
    ASSUME IInv, StepsTo(store, store', clock), reply' = NoReply,
           UNCHANGED <<clock, nextID>>
    PROVE  IInv' /\ Evolves(store, store', clock)
<1>1. reply'.op = "none" /\ reply'.err # ErrTooManyForPeer /\ reply' \in Replies
  BY DEF NoReply, Replies, OK, ErrTooManyForPeer, NoID
<1>2. StoreInv(store') /\ Held(store') \subseteq Held(store) /\ Evolves(store, store', clock)
  BY DEF StepsTo
<1>3. ScalarsTyped' /\ FreshIDs'
  BY <1>1, <1>2 DEF IInv, ScalarsTyped, FreshIDs
<1>4. OpenAnswersLive' /\ ReadIsSettled' /\ TooManyIsReal'
  BY <1>1 DEF OpenAnswersLive, ReadIsSettled, TooManyIsReal
<1> QED
  BY <1>2, <1>3, <1>4 DEF IInv

\* Every step keeps the invariant and moves records only as Evolves allows.
LEMMA NextIInv ==
    ASSUME IInv, Next
    PROVE  IInv' /\ Evolves(store, store', clock)
<1>0. /\ StoreInv(store) /\ clock \in Nat /\ nextID \in IDs
      /\ Held(store) \subseteq 1..(nextID - 1) /\ nextID \in Nat
  BY DEF IInv, ScalarsTyped, FreshIDs, IDs
<1>1. ASSUME NEW caller \in Peers, NEW callee \in Peers, Open(caller, callee)
      PROVE  IInv' /\ Evolves(store, store', clock)
  <2>1. PICK o \in OpenOutcomes(store, caller, callee, clock, nextID) :
          /\ Answer("open", <<caller, callee>>, o)
          /\ nextID' = IF o.id = nextID THEN nextID + 1 ELSE nextID
    BY <1>1 DEF Open
  <2>2. nextID \in IDs \ Held(store)
    BY <1>0
  <2>3. OpensTo(store, caller, callee, clock, nextID, o)
    BY <1>0, <2>1, <2>2, OpenKeepsInv
  <2>4. /\ store' = o.store /\ clock' = clock
        /\ reply' = [op |-> "open", peers |-> <<caller, callee>>, err |-> o.err, id |-> o.id]
    BY <2>1 DEF Answer
  <2>5. reply' \in Replies
    <3>1. <<caller, callee>> \in Seq(Peers)
      OBVIOUS
    <3> QED
      BY <2>3, <2>4, <3>1 DEF Replies, OpensTo
  <2>6. ScalarsTyped' /\ FreshIDs'
    BY <1>0, <2>1, <2>3, <2>4, <2>5 DEF ScalarsTyped, FreshIDs, OpensTo, IDs, NoID
  <2>7. OpenAnswersLive'
    <3>1. Range(<<caller, callee>>) = pairKey(caller, callee)
      BY DEF Range, pairKey
    <3> QED
      BY <2>3, <2>4, <3>1, PartiesKey DEF OpenAnswersLive, OpensTo
  <2>8. ReadIsSettled'
    BY <2>4 DEF ReadIsSettled
  <2>9. TooManyIsReal'
    <3> SUFFICES ASSUME o.err = ErrTooManyForPeer
                 PROVE  \E p \in Range(<<caller, callee>>) :
                           /\ Cardinality(store'.perPeer[p]) = MaxSessionsPerPeer
                           /\ expired(store', store'.perPeer[p], clock') = {}
      BY <2>4 DEF TooManyIsReal
    <3>1. PICK p \in {caller, callee} : ReallyAtCap(store', p, clock)
      BY <2>3, <2>4 DEF OpensTo
    <3>2. StoreInv(store')
      BY <2>3, <2>4 DEF OpensTo
    <3>3. Cardinality(store'.perPeer[p]) = MaxSessionsPerPeer
      BY <3>1, <3>2, RowsCounted, SessionOptions DEF ReallyAtCap, StoreInv, Bounded
    <3>4. p \in Range(<<caller, callee>>)
      BY <3>1 DEF Range
    <3> QED
      BY <2>4, <3>1, <3>3, <3>4 DEF ReallyAtCap
  <2> QED
    BY <2>3, <2>4, <2>6, <2>7, <2>8, <2>9 DEF IInv, OpensTo
<1>2. ASSUME NEW id \in 1..nextID, NEW p \in Peers, Get(id, p)
      PROVE  IInv' /\ Evolves(store, store', clock)
  <2>1. PICK o : o = GetOutcome(store, id, p, clock)
    OBVIOUS
  <2>2. /\ StepsTo(store, o.store, clock)
        /\ o.err \in {OK, ErrNotFound} /\ o.id \in Nat
        /\ o.err = OK => ~TimedOut(o.store.sessions[o.id], clock)
    BY <1>0, <2>1, GetKeepsInv
  <2>3. /\ store' = o.store /\ clock' = clock /\ nextID' = nextID
        /\ reply' = [op |-> "get", peers |-> <<p>>, err |-> o.err, id |-> o.id]
    BY <1>2, <2>1 DEF Get, Answer
  <2>4. reply' \in Replies
    <3>1. <<p>> \in Seq(Peers)
      OBVIOUS
    <3> QED
      BY <2>2, <2>3, <3>1 DEF Replies
  <2>5. StoreInv(store') /\ Evolves(store, store', clock)
    BY <2>2, <2>3 DEF StepsTo
  <2>6. ScalarsTyped' /\ FreshIDs'
    BY <1>0, <2>2, <2>3, <2>4 DEF ScalarsTyped, FreshIDs, StepsTo
  <2>7. OpenAnswersLive' /\ ReadIsSettled' /\ TooManyIsReal'
    BY <2>2, <2>3 DEF OpenAnswersLive, ReadIsSettled, TooManyIsReal,
                      OK, ErrNotFound, ErrTooManyForPeer
  <2> QED
    BY <2>5, <2>6, <2>7 DEF IInv
<1>3. ASSUME NEW id \in 1..nextID, NEW p \in Peers, NEW state \in States, NEW path \in Paths,
             Report(id, p, state, path)
      PROVE  IInv' /\ Evolves(store, store', clock)
  <2>1. StepsTo(store, store', clock)
    BY <1>0, <1>3, ReportKeepsInv DEF Report
  <2> QED
    BY <1>3, <2>1, QuietStep DEF Report
<1>4. ASSUME NEW p \in Peers, ClosePeer(p)
      PROVE  IInv' /\ Evolves(store, store', clock)
  <2>1. StepsTo(store, store', clock)
    BY <1>0, <1>4, ClosePeerKeepsInv DEF ClosePeer
  <2> QED
    BY <1>4, <2>1, QuietStep DEF ClosePeer
<1>5. CASE Reap
  <2>1. StepsTo(store, store', clock)
    BY <1>0, <1>5, ReapKeepsInv DEF Reap
  <2> QED
    BY <1>5, <2>1, QuietStep DEF Reap
<1>6. CASE Tick
  <2>1. reply'.op = "none" /\ reply'.err # ErrTooManyForPeer /\ reply' \in Replies
    BY <1>6 DEF Tick, NoReply, Replies, OK, ErrTooManyForPeer, NoID
  <2>2. /\ StoreInv(store') /\ Evolves(store, store', clock) /\ ScalarsTyped' /\ FreshIDs'
    BY <1>0, <1>6, <2>1, StutterSteps DEF Tick, ScalarsTyped, FreshIDs, StepsTo
  <2>3. OpenAnswersLive' /\ ReadIsSettled' /\ TooManyIsReal'
    BY <2>1 DEF OpenAnswersLive, ReadIsSettled, TooManyIsReal
  <2> QED
    BY <2>2, <2>3 DEF IInv
<1> QED
  BY <1>1, <1>2, <1>3, <1>4, <1>5, <1>6 DEF Next

LEMMA StutterIInv ==
    ASSUME IInv, UNCHANGED vars
    PROVE  IInv'
BY DEF IInv, vars, StoreInv, StoreTyped, StoreType, ScalarsTyped, FreshIDs,
       OpenAnswersLive, ReadIsSettled, TooManyIsReal, expired, CountExact, PerPeerExact, PairsExact,
       EndedExact, Bounded, Held, LiveIDs, sessionsOf

\* The inductive invariant holds throughout.
THEOREM Invariance == Spec => []IInv
<1>1. Init => IInv
  BY InitIInv
<1>2. IInv /\ [Next]_vars => IInv'
  BY NextIInv, StutterIInv
<1> QED
  BY <1>1, <1>2, PTL DEF Spec

\* Every value the store, the clock and the answers take is of its type.
THEOREM TypeCorrect == Spec => []TypeOK
<1>1. IInv => TypeOK
  BY DEF IInv, TypeOK, StoreInv, ScalarsTyped
<1> QED
  BY <1>1, Invariance, PTL

\* The live counter, the per-peer index and the pair index say what the records
\* say, after any history of opens, reports, timeouts, hang-ups and sweeps.
THEOREM IndexesCorrect == Spec => []IndexesExact
<1>1. IInv => IndexesExact
  BY DEF IInv, IndexesExact, StoreInv
<1> QED
  BY <1>1, Invariance, PTL

\* Two peers are in at most one live session.
THEOREM PairsCorrect == Spec => []OneLiveSessionPerPair
<1>1. IInv => OneLiveSessionPerPair
  BY PartiesKey DEF IInv, OneLiveSessionPerPair, StoreInv, PairsExact
<1> QED
  BY <1>1, Invariance, PTL

\* The order list is exactly the ended records, each once.
THEOREM EndedListCorrect == Spec => []EndedListExact
<1>1. IInv => EndedListExact
  BY DEF IInv, EndedListExact, StoreInv
<1> QED
  BY <1>1, Invariance, PTL

\* The live ceiling, the per-peer cap and the bound on records are never passed.
THEOREM CeilingsCorrect == Spec => []WithinCeilings
<1>1. IInv => WithinCeilings
  BY DEF IInv, WithinCeilings, StoreInv
<1> QED
  BY <1>1, Invariance, PTL

\* Open answers with a live session of the pair that has not timed out.
THEOREM OpenCorrect == Spec => []OpenAnswersLive
<1>1. IInv => OpenAnswersLive
  BY DEF IInv
<1> QED
  BY <1>1, Invariance, PTL

\* Get never shows a session as negotiating past its timeout.
THEOREM GetCorrect == Spec => []ReadIsSettled
<1>1. IInv => ReadIsSettled
  BY DEF IInv
<1> QED
  BY <1>1, Invariance, PTL

\* A peer is told it holds too many sessions only when one of the two does, and
\* none of those it holds has timed out.
THEOREM TooManyCorrect == Spec => []TooManyIsReal
<1>1. IInv => TooManyIsReal
  BY DEF IInv
<1> QED
  BY <1>1, Invariance, PTL

\* No step moves a session that has ended.
THEOREM EndedIsFinalCorrect == Spec => EndedIsFinal
<1> DEFINE A == \A id \in (Held(store) \ LiveIDs(store)) \cap Held(store)' :
                   store'.sessions[id] = store.sessions[id]
<1>1. IInv /\ [Next]_vars => [A]_vars
  <2> SUFFICES ASSUME IInv, Next PROVE A
    OBVIOUS
  <2>1. Evolves(store, store', clock)
    BY NextIInv
  <2>2. \A id \in Held(store) \ LiveIDs(store) :
           ~Live(store.sessions[id]) /\ ~TimedOut(store.sessions[id], clock)
    BY DEF LiveIDs, Live, TimedOut
  <2> QED
    BY <2>1, <2>2 DEF Evolves, Advances, canMove, Live, LiveIDs, Negotiating, Connected
<1> QED
  BY <1>1, Invariance, PTL DEF Spec, EndedIsFinal

\* Whoever touches a timed-out session first, it is recorded as failed at the
\* moment of its timeout.
THEOREM TimeoutCorrect == Spec => TimeoutIsFailure
<1> DEFINE A == \A id \in Held(store) \cap Held(store)' :
                   TimedOut(store.sessions[id], clock) =>
                     store'.sessions[id] \in {store.sessions[id], settled(store.sessions[id])}
<1>1. IInv /\ [Next]_vars => [A]_vars
  <2> SUFFICES ASSUME IInv, Next PROVE A
    OBVIOUS
  <2>1. Evolves(store, store', clock)
    BY NextIInv
  <2> QED
    BY <2>1 DEF Evolves
<1> QED
  BY <1>1, Invariance, PTL DEF Spec, TimeoutIsFailure

\* Open answers with an identifier only when it succeeds.
LEMMA RefusedID ==
    ASSUME NEW o, NEW fresh \in IDs, NEW caller, NEW callee,
           o \in OpenOutcomes(store, caller, callee, clock, fresh), o.id = fresh
    PROVE  o.err = OK
BY DEF OpenOutcomes, openLocked, openNew, Outcome, IDs, NoID

\* Nothing that ended becomes live again, so the live count only grows with a
\* new session.
LEMMA LiveShrinks ==
    ASSUME NEW st, StoreInv(st), NEW st2, StoreInv(st2), NEW now,
           Evolves(st, st2, now), Held(st2) \subseteq Held(st)
    PROVE  ~(st2.live > st.live)
<1>1. LiveIDs(st2) \subseteq LiveIDs(st)
  <2> SUFFICES ASSUME NEW id \in LiveIDs(st2) PROVE Live(st.sessions[id])
    BY DEF LiveIDs
  <2>1. id \in Held(st) \cap Held(st2) /\ Live(st2.sessions[id])
    BY DEF LiveIDs
  <2> QED
    BY <2>1 DEF Evolves, Advances, canMove, TimedOut, Live
<1>2. /\ IsFiniteSet(LiveIDs(st)) /\ Cardinality(LiveIDs(st)) \in Nat
      /\ Cardinality(LiveIDs(st2)) \in Nat
  BY <1>1, FS_Subset, FS_CardinalityType DEF StoreInv, LiveIDs
<1>3. Cardinality(LiveIDs(st2)) <= Cardinality(LiveIDs(st))
  BY <1>1, <1>2, FS_Subset
<1> QED
  BY <1>2, <1>3 DEF StoreInv, CountExact

\* Every step drops only what was due, and a step that adds a session drops
\* the oldest ended records first.
LEMMA NextDrops ==
    ASSUME IInv, Next
    PROVE  /\ DropsDue(store, store', clock)
           /\ store'.live > store.live => DropsOldest(store, store')
<1>0. /\ StoreInv(store) /\ clock \in Nat /\ nextID \in IDs /\ nextID \notin Held(store)
  BY DEF IInv, ScalarsTyped, FreshIDs, IDs
<1>a. StoreInv(store') /\ Evolves(store, store', clock)
  BY NextIInv DEF IInv
<1>b. ASSUME Held(store') \subseteq Held(store) PROVE ~(store'.live > store.live)
  BY <1>0, <1>a, <1>b, LiveShrinks
<1>1. ASSUME NEW caller \in Peers, NEW callee \in Peers, Open(caller, callee)
      PROVE  /\ DropsDue(store, store', clock)
             /\ store'.live > store.live => DropsOldest(store, store')
  <2>1. PICK o \in OpenOutcomes(store, caller, callee, clock, nextID) : store' = o.store
    BY <1>1 DEF Open, Answer
  <2>2. OpensTo(store, caller, callee, clock, nextID, o)
    BY <1>0, <2>1, OpenKeepsInv
  <2>3. CASE o.id = nextID
    <3>1. o.err = OK
      BY <1>0, <2>1, <2>3, RefusedID
    <3> QED
      BY <2>1, <2>2, <2>3, <3>1 DEF OpensTo
  <2>4. CASE o.id # nextID
    BY <1>b, <2>1, <2>2, <2>4 DEF OpensTo
  <2> QED
    BY <2>3, <2>4
<1>2. ASSUME StepsTo(store, store', clock)
      PROVE  /\ DropsDue(store, store', clock)
             /\ store'.live > store.live => DropsOldest(store, store')
  BY <1>b, <1>2 DEF StepsTo
<1>3. ASSUME NEW id \in 1..nextID, NEW p \in Peers, Get(id, p)
      PROVE  StepsTo(store, store', clock)
  BY <1>0, <1>3, GetKeepsInv DEF Get, Answer
<1>4. ASSUME NEW id \in 1..nextID, NEW p \in Peers, NEW state \in States, NEW path \in Paths,
             Report(id, p, state, path)
      PROVE  StepsTo(store, store', clock)
  BY <1>0, <1>4, ReportKeepsInv DEF Report
<1>5. ASSUME NEW p \in Peers, ClosePeer(p) PROVE StepsTo(store, store', clock)
  BY <1>0, <1>5, ClosePeerKeepsInv DEF ClosePeer
<1>6. CASE Reap
  BY <1>0, <1>2, <1>6, ReapKeepsInv DEF Reap
<1>7. CASE Tick
  BY <1>0, <1>2, <1>7, StutterSteps DEF Tick
<1> QED
  BY <1>1, <1>2, <1>3, <1>4, <1>5, <1>6, <1>7 DEF Next

\* A record leaves the store only past its retention or to make room while the
\* map is at its bound, never while its session is connected and never while it
\* negotiates within its timeout.
THEOREM ForgottenCorrect == Spec => ForgottenWhenDue
<1> DEFINE A == \A id \in Held(store) \ Held(store)' :
                   LET s == store.sessions[id]
                       e == IF TimedOut(s, clock) THEN settled(s) ELSE s
                   IN  /\ ~Live(e)
                       /\ \/ clock - e.changedAt > Retention
                          \/ Cardinality(Held(store)) >= RetainBound
<1>1. IInv /\ [Next]_vars => [A]_vars
  <2> SUFFICES ASSUME IInv, Next PROVE A
    OBVIOUS
  <2>1. DropsDue(store, store', clock)
    BY NextDrops
  <2>2. Held(store)' = Held(store')
    BY DEF Held
  <2> QED
    BY <2>1, <2>2 DEF DropsDue, standing
<1> QED
  BY <1>1, Invariance, PTL DEF Spec, ForgottenWhenDue

\* Making room for a session drops the ended records in the order they were
\* put on the list.
THEOREM OldestCorrect == Spec => OldestDroppedFirst
<1> DEFINE A == (clock' = clock /\ store'.live > store.live) =>
                   \A i, j \in DOMAIN store.ended :
                      (i < j /\ store.ended[j] \notin Held(store)')
                         => store.ended[i] \notin Held(store)'
<1>1. IInv /\ [Next]_vars => [A]_vars
  <2> SUFFICES ASSUME IInv, Next PROVE A
    OBVIOUS
  <2>1. store'.live > store.live => DropsOldest(store, store')
    BY NextDrops
  <2>2. Held(store)' = Held(store')
    BY DEF Held
  <2> QED
    BY <2>1, <2>2 DEF DropsOldest
<1> QED
  BY <1>1, Invariance, PTL DEF Spec, OldestDroppedFirst

-----------------------------------------------------------------------------
(* The store implements SessionLife. *)

\* Where session id is, given the records that are held.
stageIn(st, id) ==
    IF id \in Held(st)
    THEN [stage   |-> st.sessions[id].state,
          parties |-> parties(st.sessions[id]),
          since   |-> st.sessions[id].openedAt]
    ELSE [stage |-> "forgotten", parties |-> {}, since |-> 0]

\* A record that the store keeps, settles, moves or drops is a move of a life.
LEMMA RecordMoves ==
    ASSUME IInv, NEW st2, StoreInv(st2), Evolves(store, st2, clock), NEW id,
           id \in Held(st2) => id \in Held(store)
    PROVE  Life!Moves(stageIn(store, id), stageIn(st2, id))
<1> DEFINE s == store.sessions[id]
           t == st2.sessions[id]
<1>1. CASE id \notin Held(store)
  BY <1>1 DEF stageIn, Life!Moves
<1>2. CASE id \in Held(store)
  <2>0. s \in Session /\ NegotiationTimeout \in Nat /\ clock \in Nat
    BY <1>2, SessionOptions DEF IInv, StoreInv, StoreTyped, StoreType, ScalarsTyped
  <2>1. PICK x : x = stageIn(store, id)
    OBVIOUS
  <2>2. /\ x = [stage |-> s.state, parties |-> parties(s), since |-> s.openedAt]
        /\ Life!Running(x) <=> Live(s)
        /\ Life!Overdue(x) <=> TimedOut(s, clock)
    BY <1>2, <2>1 DEF stageIn, Life!Running, Life!Overdue, Live, TimedOut,
                      Negotiating, Connected
  <2>3. CASE id \notin Held(st2)
    <3>1. stageIn(st2, id) = Life!Forgotten
      BY <2>3 DEF stageIn, Life!Forgotten
    <3>2. Live(s) => TimedOut(s, clock)
      BY <1>2, <2>3 DEF Evolves, Droppable
    <3> QED
      BY <2>1, <2>2, <3>1, <3>2 DEF Life!Moves
  <2>4. CASE id \in Held(st2)
    <3>1. PICK y : y = stageIn(st2, id)
      OBVIOUS
    <3>2. y = [stage |-> t.state, parties |-> parties(t), since |-> t.openedAt]
      BY <2>4, <3>1 DEF stageIn
    <3>3. CASE t = s
      BY <2>1, <2>2, <3>1, <3>2, <3>3 DEF Life!Moves
    <3>4. CASE TimedOut(s, clock) /\ t = settled(s)
      <4>1. t.state = "failed" /\ parties(t) = parties(s) /\ t.openedAt = s.openedAt
        BY <2>0, <3>4, SettledRecord DEF parties, Failed
      <4>2. y = [x EXCEPT !.stage = "failed"]
        BY <2>2, <3>2, <4>1
      <4> QED
        BY <2>1, <2>2, <3>1, <3>4, <4>2 DEF Life!Moves
    <3>5. CASE ~TimedOut(s, clock) /\ Advances(s, t)
      <4>1. t.state \in Life!Later(s.state)
        BY <3>5 DEF Advances, canMove, Life!Later, Negotiating, Connected, Failed, Closed
      <4>2. parties(t) = parties(s) /\ t.openedAt = s.openedAt
        BY <3>5 DEF Advances, parties
      <4>3. y = [x EXCEPT !.stage = t.state] /\ x.stage = s.state
        BY <2>2, <3>2, <4>2
      <4> QED
        BY <2>1, <2>2, <3>1, <3>5, <4>1, <4>3 DEF Life!Moves
    <3> QED
      BY <1>2, <2>4, <3>3, <3>4, <3>5 DEF Evolves
  <2> QED
    BY <2>3, <2>4
<1> QED
  BY <1>1, <1>2

LEMMA StageNow == \A id : lifeOf(id) = stageIn(store, id) /\ lifeOf(id)' = stageIn(store', id)
BY DEF lifeOf, stageIn

\* The store as SessionLife sees it.
lives == [id \in 1..(nextID - 1) |-> lifeOf(id)]

\* A step that begins no session.
LEMMA ProceedStep ==
    ASSUME IInv, StoreInv(store'), Evolves(store, store', clock),
           Held(store') \subseteq Held(store), UNCHANGED <<clock, nextID>>
    PROVE  Life!Proceed
<1>1. \A id \in 1..(nextID - 1) : Life!Moves(lifeOf(id), lifeOf(id)')
  BY StageNow, RecordMoves
<1>2. /\ DOMAIN lives = 1..(nextID - 1) /\ DOMAIN lives' = 1..(nextID - 1)
      /\ \A id \in 1..(nextID - 1) : lives[id] = lifeOf(id) /\ lives'[id] = lifeOf(id)'
  BY DEF lives
<1>3. Life!Evolve
  BY <1>1, <1>2 DEF Life!Evolve, lives
<1> QED
  BY <1>2, <1>3 DEF Life!Proceed, lives

\* An Open that begins one.
LEMMA BeginStep ==
    ASSUME IInv, NEW caller \in Peers, NEW callee \in Peers, nextID' = nextID + 1,
           NEW o, store' = o.store, clock' = clock, o.id = nextID, o.err = OK,
           OpensTo(store, caller, callee, clock, nextID, o)
    PROVE  Life!Begin(caller, callee)
<1>0. /\ nextID \in Nat /\ nextID # 0 /\ Held(store) \subseteq 1..(nextID - 1)
      /\ StoreInv(store') /\ Evolves(store, store', clock)
      /\ Held(store') \subseteq Held(store) \cup {nextID}
      /\ nextID \in LiveIDs(store') /\ nextID \in Held(store')
      /\ keyOf(store'.sessions[nextID]) = pairKey(caller, callee)
      /\ store'.sessions[nextID].state = Negotiating
      /\ store'.sessions[nextID].openedAt = clock
  BY DEF IInv, ScalarsTyped, FreshIDs, IDs, NoID, OpensTo, LiveIDs
<1>1. ASSUME NEW id \in 1..(nextID - 1) PROVE Life!Moves(lifeOf(id), lifeOf(id)')
  <2>1. id \in Held(store') => id \in Held(store)
    BY <1>0
  <2> QED
    BY <1>0, <2>1, StageNow, RecordMoves
<1>2. /\ DOMAIN lives = 1..(nextID - 1) /\ DOMAIN lives' = 1..nextID
      /\ \A id \in 1..(nextID - 1) : lives[id] = lifeOf(id) /\ lives'[id] = lifeOf(id)'
      /\ lives'[nextID] = stageIn(store', nextID)
  <2>1. nextID' - 1 = nextID /\ 1..(nextID - 1) \subseteq 1..nextID /\ nextID \in 1..nextID
    BY <1>0
  <2>2. lives' = [id \in 1..nextID |-> lifeOf(id)']
    BY <2>1 DEF lives
  <2> QED
    BY <2>1, <2>2, StageNow DEF lives
<1>3. stageIn(store', nextID) = [stage |-> "negotiating", parties |-> {caller, callee}, since |-> clock]
  <2>1. parties(store'.sessions[nextID]) = {caller, callee}
    BY <1>0, PartiesKey DEF pairKey
  <2> QED
    BY <1>0, <2>1 DEF stageIn, Negotiating
<1>4. ASSUME NEW id \in 1..(nextID - 1), lifeOf(id)'.parties = {caller, callee}
      PROVE  ~Life!Running(lifeOf(id)')
  <2>1. CASE id \notin Held(store')
    BY <2>1, StageNow DEF stageIn, Life!Running
  <2>2. CASE id \in Held(store')
    <3>1. /\ lifeOf(id)'.parties = parties(store'.sessions[id])
          /\ lifeOf(id)'.stage = store'.sessions[id].state
      BY <2>2, StageNow DEF stageIn
    <3>2. keyOf(store'.sessions[id]) = pairKey(caller, callee)
      BY <1>4, <3>1, PartiesKey DEF pairKey
    <3>3. id \notin LiveIDs(store')
      BY <1>0, <3>2 DEF StoreInv, PairsExact
    <3> QED
      BY <2>2, <3>1, <3>3 DEF LiveIDs, Live, Negotiating, Connected, Life!Running
  <2> QED
    BY <2>1, <2>2
<1>5. 1..nextID = 1..(nextID - 1) \cup {nextID} /\ nextID \in 1..nextID
      /\ nextID \notin 1..(nextID - 1)
  BY <1>0
<1>6. Life!Evolve
  BY <1>1, <1>2, <1>5 DEF Life!Evolve, lives
<1> QED
  BY <1>2, <1>3, <1>4, <1>5, <1>6 DEF Life!Begin, Life!Begun, lives

\* Every step of the store is a step of SessionLife.
LEMMA LifeStep ==
    ASSUME IInv, [Next]_vars
    PROVE  [Life!Next]_<<lives, clock>>
<1>1. CASE UNCHANGED vars
  BY <1>1, StageNow DEF vars, lives
<1>2. ASSUME NEW caller \in Peers, NEW callee \in Peers, Open(caller, callee)
      PROVE  Life!Next
  <2>0. StoreInv(store) /\ clock \in Nat /\ nextID \in IDs \ Held(store)
    BY DEF IInv, ScalarsTyped, FreshIDs, IDs
  <2>1. PICK o \in OpenOutcomes(store, caller, callee, clock, nextID) :
          /\ store' = o.store /\ clock' = clock
          /\ nextID' = IF o.id = nextID THEN nextID + 1 ELSE nextID
    BY <1>2 DEF Open, Answer
  <2>2. OpensTo(store, caller, callee, clock, nextID, o)
    BY <2>0, <2>1, OpenKeepsInv
  <2>3. o.id = nextID => o.err = OK
    BY <2>0, <2>1, <2>2, RefusedID
  <2>4. o.err = OK => caller # callee
    BY <2>1 DEF OpenOutcomes, Outcome, OK, ErrSelf
  <2>5. CASE o.id = nextID
    BY <2>1, <2>2, <2>3, <2>4, <2>5, BeginStep DEF Life!Next
  <2>6. CASE o.id # nextID
    <3>1. /\ StoreInv(store') /\ Evolves(store, store', clock)
          /\ Held(store') \subseteq Held(store)
      BY <2>1, <2>2, <2>6 DEF OpensTo
    <3> QED
      BY <2>1, <2>6, <3>1, ProceedStep DEF Life!Next
  <2> QED
    BY <2>5, <2>6
<1>3. ASSUME StepsTo(store, store', clock), UNCHANGED <<clock, nextID>>
      PROVE  Life!Next
  BY <1>3, ProceedStep DEF StepsTo, Life!Next
<1>4. StoreInv(store) /\ clock \in Nat
  BY DEF IInv, ScalarsTyped
<1>5. ASSUME NEW id \in 1..nextID, NEW p \in Peers, Get(id, p) PROVE Life!Next
  BY <1>3, <1>4, <1>5, GetKeepsInv DEF Get, Answer
<1>6. ASSUME NEW id \in 1..nextID, NEW p \in Peers, NEW state \in States, NEW path \in Paths,
             Report(id, p, state, path)
      PROVE  Life!Next
  BY <1>3, <1>4, <1>6, ReportKeepsInv DEF Report
<1>7. ASSUME NEW p \in Peers, ClosePeer(p) PROVE Life!Next
  BY <1>3, <1>4, <1>7, ClosePeerKeepsInv DEF ClosePeer
<1>8. CASE Reap
  BY <1>3, <1>4, <1>8, ReapKeepsInv DEF Reap
<1>9. CASE Tick
  BY <1>9 DEF Tick, Life!Next, Life!Pass, lifeOf
<1> QED
  BY <1>1, <1>2, <1>5, <1>6, <1>7, <1>8, <1>9 DEF Next

\* The store implements SessionLife: with any number of peers, ceilings and
\* timeouts, what its operations, sweeps and clock do to the records is what may
\* happen to the life of a session.
THEOREM LifeImplemented == Spec => ImplementsLife
<1>1. Init => Life!Init
  <2> SUFFICES ASSUME Init PROVE Life!Init
    OBVIOUS
  <2>1. 1..(nextID - 1) = {}
    BY DEF Init
  <2> QED
    BY <2>1 DEF Init, Life!Init
<1>2. IInv /\ [Next]_vars => [Life!Next]_(Life!lifeVars)
  BY LifeStep DEF Life!lifeVars, lives
<1> QED
  BY <1>1, <1>2, Invariance, PTL DEF Spec, ImplementsLife, Life!Spec

=============================================================================
