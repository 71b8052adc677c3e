------------------------ MODULE AttemptLimiterProofs ------------------------
(***************************************************************************)
(* The limiter's map stays bounded and evictable, and the failures of one  *)
(* identifier overrun the allowance by no more than the handlers at work.  *)
(***************************************************************************)
EXTENDS AttemptLimiter, FiniteSetTheorems, SequenceTheorems, WellFoundedInduction, TLAPS

-----------------------------------------------------------------------------
(* The order list *)

\* Compacting a list keeps exactly the listed entries that are kept, each once
\* if each was listed once (sweep).
LEMMA CompactProperties ==
    ASSUME NEW S, NEW seq \in Seq(S), NEW kept
    PROVE  /\ compact(seq, kept) \in Seq(S)
           /\ Range(compact(seq, kept)) = Range(seq) \cap kept
           /\ IsInjective(seq) => IsInjective(compact(seq, kept))
<1> DEFINE at      == {i \in DOMAIN seq : seq[i] \in kept}
           upto(i) == {j \in at : j <= i}
           card(i) == Cardinality(upto(i))
           rank    == [i \in at |-> card(i)]
           N       == Cardinality(at)
           nth(n)  == CHOOSE i \in at : card(i) = n
           f       == [n \in 1..N |-> seq[nth(n)]]
<1>1. compact(seq, kept) = f
  BY DEF compact
<1>2. DOMAIN seq = 1..Len(seq) /\ Len(seq) \in Nat /\ \A i \in DOMAIN seq : seq[i] \in S
  BY LenProperties
<1>3. IsFiniteSet(at) /\ N \in Nat
  <2>1. at \in SUBSET (1..Len(seq)) /\ IsFiniteSet(1..Len(seq))
    BY <1>2, FS_Interval
  <2> QED
    BY <2>1, FS_Subset, FS_CardinalityType
<1>4. \A i \in at : IsFiniteSet(upto(i)) /\ upto(i) \subseteq at /\ i \in upto(i)
  BY <1>2, <1>3, FS_Subset
<1> HIDE DEF N
<1>5. \A i \in at : card(i) \in 1..N
  <2> SUFFICES ASSUME NEW i \in at PROVE card(i) \in 1..N
    OBVIOUS
  <2>1. Cardinality(upto(i)) \in Nat /\ Cardinality(upto(i)) <= N
    BY <1>3, <1>4, FS_Subset, FS_CardinalityType DEF N
  <2>2. Cardinality(upto(i)) # 0
    BY <1>4, FS_EmptySet
  <2> HIDE DEF upto
  <2> QED
    BY <1>3, <2>1, <2>2
<1>6. \A i, j \in at : i < j => card(i) < card(j)
  <2> SUFFICES ASSUME NEW i \in at, NEW j \in at, i < j
               PROVE  card(i) < card(j)
    OBVIOUS
  <2>1. upto(i) \subseteq upto(j) /\ upto(i) # upto(j)
    BY <1>2, <1>4
  <2>2. /\ Cardinality(upto(i)) <= Cardinality(upto(j))
        /\ Cardinality(upto(i)) # Cardinality(upto(j))
    BY <1>4, <2>1, FS_Subset
  <2> HIDE DEF upto
  <2> QED
    BY <1>3, <1>5, <2>2
<1> HIDE DEF card
<1>7. rank \in Injection(at, 1..N)
  <2>1. rank \in [at -> 1..N]
    BY <1>5
  <2>2. ASSUME NEW i \in at, NEW j \in at, rank[i] = rank[j] PROVE i = j
    <3>1. card(i) = card(j)
      BY <2>2
    <3>2. i \in Int /\ j \in Int
      BY <1>2
    <3> QED
      BY <1>3, <1>5, <1>6, <3>1, <3>2
  <2> QED
    BY <2>1, <2>2 DEF Injection, IsInjective
<1>8. rank \in Surjection(at, 1..N)
  BY <1>3, <1>7, FS_Interval, FS_Injection DEF N
<1>9. \A n \in 1..N : nth(n) \in at /\ card(nth(n)) = n
  <2> SUFFICES ASSUME NEW n \in 1..N
               PROVE  nth(n) \in at /\ card(nth(n)) = n
    OBVIOUS
  <2>1. \E i \in at : rank[i] = n
    BY <1>8 DEF Surjection
  <2>2. \E i \in at : card(i) = n
    BY <2>1
  <2> QED
    BY <2>2
<1> HIDE DEF nth
<1>10. f \in Seq(S)
  BY <1>2, <1>3, <1>9
<1>11. \A i \in at : \E n \in 1..N : nth(n) = i
  <2> SUFFICES ASSUME NEW i \in at PROVE \E n \in 1..N : nth(n) = i
    OBVIOUS
  <2> DEFINE n == card(i)
  <2>1. n \in 1..N
    BY <1>5
  <2>2. nth(n) \in at /\ card(nth(n)) = card(i)
    BY <1>9, <2>1
  <2>3. nth(n) = i
    BY <1>2, <1>3, <1>5, <1>6, <2>2
  <2> QED
    BY <2>1, <2>3
<1>12. Range(f) = Range(seq) \cap kept
  <2>1. \A x \in Range(f) : x \in Range(seq) /\ x \in kept
    BY <1>9 DEF Range
  <2>2. ASSUME NEW x \in Range(seq), x \in kept PROVE x \in Range(f)
    <3>1. PICK i \in at : seq[i] = x
      BY <2>2 DEF Range
    <3>2. PICK n \in 1..N : nth(n) = i
      BY <1>11
    <3> QED
      BY <3>1, <3>2 DEF Range
  <2> QED
    BY <2>1, <2>2
<1>13. IsInjective(seq) => IsInjective(f)
  <2> SUFFICES ASSUME IsInjective(seq), NEW m \in 1..N, NEW n \in 1..N, f[m] = f[n]
               PROVE  m = n
    BY DEF IsInjective
  <2>1. seq[nth(m)] = seq[nth(n)]
    OBVIOUS
  <2>2. nth(m) = nth(n)
    BY <1>9, <2>1 DEF IsInjective
  <2> QED
    BY <1>9, <2>2
<1> QED
  BY <1>1, <1>10, <1>12, <1>13

\* A set of natural numbers that is not empty has a least element.
LEMMA LeastNumber ==
    ASSUME NEW T \in SUBSET Nat, T # {}
    PROVE  \E x \in T : \A y \in T : x <= y
<1>1. PICK x \in T : \A y \in T : ~(<<y, x>> \in OpToRel(<, Nat))
  BY NatLessThanWellFounded, WFMin
<1>2. \A y \in T : ~(y < x)
  BY <1>1 DEF OpToRel
<1> QED
  BY <1>2

-----------------------------------------------------------------------------
(* The invariant *)

\* A map of failures with an order it can be evicted from.
Covered(f, o) ==
    /\ DOMAIN f \subseteq Clients
    /\ f \in [DOMAIN f -> failureRecord]
    /\ o \in Seq(Clients)
    /\ DOMAIN f \subseteq Range(o)

\* A map that holds some records of another one, unchanged.
PartOf(g, f) == DOMAIN g \subseteq DOMAIN f /\ \A i \in DOMAIN g : g[i] = f[i]

Inv ==
    /\ TypeOK
    /\ Evictable
    /\ OverrunIsBounded
    /\ \A id \in Clients : checking[id] <= MaxInFlight

\* The subsets of Clients are finite, and their cardinality is a number.
LEMMA ClientSets ==
    ASSUME NEW S \in SUBSET Clients
    PROVE  IsFiniteSet(S) /\ Cardinality(S) \in Nat
  BY LimiterOptions, FS_Subset, FS_CardinalityType

\* The front of the order that names a tracked identifier is found, wherever
\* stale entries stand before it (evictOldest).
LEMMA FirstExists ==
    ASSUME NEW f, NEW o, Covered(f, o), DOMAIN f # {}
    PROVE  /\ first(f, o) \in DOMAIN o
           /\ o[first(f, o)] \in DOMAIN f
           /\ \A m \in 1..(first(f, o) - 1) : o[m] \notin DOMAIN f
<1> DEFINE T == {n \in DOMAIN o : o[n] \in DOMAIN f}
<1>1. DOMAIN o = 1..Len(o) /\ Len(o) \in Nat
  BY LenProperties DEF Covered
<1>2. T \in SUBSET Nat /\ T # {}
  <2>1. PICK i : i \in DOMAIN f
    OBVIOUS
  <2>2. PICK n \in DOMAIN o : o[n] = i
    BY <2>1 DEF Covered, Range
  <2> QED
    BY <1>1, <2>1, <2>2
<1>3. PICK n \in T : \A m \in T : n <= m
  BY <1>2, LeastNumber
<1>4. n \in DOMAIN o /\ o[n] \in DOMAIN f /\ \A m \in 1..(n - 1) : o[m] \notin DOMAIN f
  BY <1>1, <1>3
<1> QED
  BY <1>4 DEF first

\* One eviction brings the map under its ceiling and leaves what it keeps in
\* the order (Failed, evictOldest).
LEMMA EvictCovers ==
    ASSUME NEW f, NEW o, Covered(f, o), Cardinality(DOMAIN f) <= MaxTracked + 1
    PROVE  /\ Covered(evicted(f, o), popped(f, o))
           /\ PartOf(evicted(f, o), f)
           /\ Cardinality(DOMAIN evicted(f, o)) <= MaxTracked
           /\ DOMAIN evicted(f, o) # DOMAIN f =>
                 /\ Cardinality(DOMAIN f) = MaxTracked + 1
                 /\ Cardinality(DOMAIN evicted(f, o)) = MaxTracked
<1>1. IsFiniteSet(DOMAIN f) /\ Cardinality(DOMAIN f) \in Nat /\ MaxTracked \in Nat \ {0}
  BY ClientSets, LimiterOptions DEF Covered
<1>2. CASE ~over(f)
  BY <1>1, <1>2 DEF evicted, popped, over, PartOf
<1>3. CASE over(f)
  <2>1. DOMAIN f # {}
    BY <1>1, <1>3, FS_EmptySet DEF over
  <2>2. PICK n : n = first(f, o)
    OBVIOUS
  <2>3. n \in DOMAIN o /\ o[n] \in DOMAIN f /\ \A m \in 1..(n - 1) : o[m] \notin DOMAIN f
    BY <2>1, <2>2, FirstExists
  <2>4. PICK g : g = [i \in DOMAIN f \ {o[n]} |-> f[i]]
    OBVIOUS
  <2>5. evicted(f, o) = g /\ popped(f, o) = SubSeq(o, n + 1, Len(o))
    BY <1>3, <2>2, <2>4 DEF evicted, popped
  <2>6. DOMAIN g = DOMAIN f \ {o[n]} /\ \A i \in DOMAIN g : g[i] = f[i]
    BY <2>4
  <2>7. Cardinality(DOMAIN f) = MaxTracked + 1 /\ Cardinality(DOMAIN g) = MaxTracked
    <3>1. Cardinality(DOMAIN g) = Cardinality(DOMAIN f) - 1
      BY <1>1, <2>3, <2>6, FS_RemoveElement
    <3>2. Cardinality(DOMAIN f) = MaxTracked + 1
      BY <1>1, <1>3 DEF over
    <3> QED
      BY <1>1, <3>1, <3>2
  <2>8. o \in Seq(Clients) /\ DOMAIN o = 1..Len(o) /\ Len(o) \in Nat
    BY LenProperties DEF Covered
  <2>9. PICK q : q = SubSeq(o, n + 1, Len(o))
    OBVIOUS
  <2>10. /\ q \in Seq(Clients)
         /\ DOMAIN q = 1..(Len(o) - n)
         /\ \A m \in 1..(Len(o) - n) : q[m] = o[n + m]
    BY <2>3, <2>8, <2>9
  <2>11. DOMAIN g \subseteq Range(q)
    <3> SUFFICES ASSUME NEW i \in DOMAIN g PROVE i \in Range(q)
      OBVIOUS
    <3>1. PICK m \in DOMAIN o : o[m] = i
      BY <2>6 DEF Covered, Range
    <3>2. m > n
      BY <2>3, <2>6, <2>8, <3>1
    <3>3. m \in Nat /\ n \in Nat /\ m <= Len(o)
      BY <2>3, <2>8, <3>1
    <3>4. PICK k : k = m - n
      OBVIOUS
    <3>5. k \in 1..(Len(o) - n) /\ n + k = m
      BY <2>8, <3>2, <3>3, <3>4
    <3>6. q[k] = i
      BY <2>10, <3>1, <3>5
    <3> QED
      BY <2>10, <3>5, <3>6 DEF Range
  <2>12. Covered(g, q)
    BY <2>4, <2>6, <2>10, <2>11 DEF Covered
  <2> QED
    BY <1>1, <2>5, <2>6, <2>7, <2>9, <2>12 DEF PartOf
<1> QED
  BY <1>2, <1>3

\* The sweep keeps a part of the map, and its order (sweep).
LEMMA SweepCovers ==
    ASSUME NEW f, NEW o, Covered(f, o)
    PROVE  /\ Covered(swept(f), compacted(f, swept(f), o))
           /\ PartOf(swept(f), f)
           /\ \A i \in DOMAIN f : ~expired(f[i]) => i \in DOMAIN swept(f)
<1>1. CASE ~sweepDue(f)
  BY <1>1 DEF swept, compacted, PartOf
<1>2. CASE sweepDue(f)
  <2>1. PICK g : g = [i \in {j \in DOMAIN f : ~expired(f[j])} |-> f[i]]
    OBVIOUS
  <2>2. swept(f) = g /\ compacted(f, g, o) = compact(o, DOMAIN g)
    BY <1>2, <2>1 DEF swept, compacted
  <2>3. DOMAIN g \subseteq DOMAIN f /\ \A i \in DOMAIN g : g[i] = f[i]
    BY <2>1
  <2>4. o \in Seq(Clients)
    BY DEF Covered
  <2>5. compact(o, DOMAIN g) \in Seq(Clients)
    BY <2>4, CompactProperties
  <2>6. Range(compact(o, DOMAIN g)) = Range(o) \cap DOMAIN g
    BY <2>4, CompactProperties
  <2>7. Covered(g, compact(o, DOMAIN g))
    BY <2>1, <2>3, <2>5, <2>6 DEF Covered
  <2> QED
    BY <2>1, <2>2, <2>3, <2>7 DEF PartOf
<1> QED
  BY <1>1, <1>2

\* Counting a failure gives the identifier a place in the order, and its record
\* a count of one or of one more (Failed).
LEMMA RecordCovers ==
    ASSUME NEW id \in Clients, Inv
    PROVE  /\ Covered(recorded(id), queued(id))
           /\ Cardinality(DOMAIN recorded(id)) <= MaxTracked + 1
           /\ DOMAIN recorded(id) = Tracked \cup {id}
           /\ recorded(id)[id] = counted(id)
           /\ \A i \in Tracked \ {id} : recorded(id)[i] = failures[i]
<1>1. PICK f : f = recorded(id)
  OBVIOUS
<1>2. /\ DOMAIN f = Tracked \cup {id}
      /\ f[id] = counted(id)
      /\ \A i \in Tracked \ {id} : f[i] = failures[i]
  BY <1>1 DEF recorded
<1>3. Tracked \subseteq Clients /\ \A i \in Tracked : failures[i] \in failureRecord
  BY DEF Inv, TypeOK, Tracked
<1>4. counted(id) \in failureRecord
  <2>1. clock \in Nat
    BY DEF Inv, TypeOK
  <2>2. CASE id \in Tracked /\ ~expired(failures[id])
    <3>1. PICK r \in failureRecord : r = failures[id]
      BY <1>3, <2>2
    <3>2. counted(id) = [r EXCEPT !.count = @ + 1]
      BY <2>2, <3>1 DEF counted
    <3> QED
      BY <3>2 DEF failureRecord
  <2>3. CASE ~(id \in Tracked /\ ~expired(failures[id]))
    <3>1. counted(id) = [count |-> 1, startedAt |-> clock]
      BY <2>3 DEF counted
    <3> QED
      BY <2>1, <3>1 DEF failureRecord
  <2> QED
    BY <2>2, <2>3
<1>5. f \in [DOMAIN f -> failureRecord]
  <2>1. \A i \in DOMAIN f : f[i] \in failureRecord
    BY <1>2, <1>3, <1>4
  <2>2. f = [i \in DOMAIN f |-> f[i]]
    BY <1>1 DEF recorded
  <2> QED
    BY <2>1, <2>2
<1>6. Cardinality(DOMAIN f) <= MaxTracked + 1
  <2>1. IsFiniteSet(Tracked) /\ Cardinality(Tracked) \in Nat
    BY <1>3, ClientSets
  <2>2. Cardinality(Tracked \cup {id}) <= Cardinality(Tracked) + 1
    <3>1. Cardinality(Tracked \cup {id})
            = IF id \in Tracked THEN Cardinality(Tracked) ELSE Cardinality(Tracked) + 1
      BY <2>1, FS_AddElement
    <3> QED
      BY <2>1, <3>1
  <2>3. Cardinality(Tracked) <= MaxTracked
    BY DEF Inv, Evictable
  <2>4. Cardinality(DOMAIN f) \in Nat
    BY <1>2, <1>3, ClientSets
  <2> QED
    BY <1>2, <2>1, <2>2, <2>3, <2>4, LimiterOptions
<1>7. order \in Seq(Clients) /\ Tracked \subseteq Range(order)
  BY DEF Inv, TypeOK, Evictable
<1>8. queued(id) \in Seq(Clients) /\ Tracked \cup {id} \subseteq Range(queued(id))
  <2>1. CASE id \in Tracked
    BY <1>7, <2>1 DEF queued
  <2>2. CASE id \notin Tracked
    <3>1. PICK q : q = Append(order, id)
      OBVIOUS
    <3>2. /\ q \in Seq(Clients)
          /\ DOMAIN q = 1..(Len(order) + 1) /\ Len(order) \in Nat
          /\ DOMAIN order = 1..Len(order)
          /\ q[Len(order) + 1] = id
          /\ \A n \in 1..Len(order) : q[n] = order[n]
      BY <1>7, <3>1, AppendProperties, LenProperties
    <3>3. Range(order) \cup {id} \subseteq Range(q)
      BY <3>2 DEF Range
    <3> QED
      BY <1>7, <2>2, <3>1, <3>2, <3>3 DEF queued
  <2> QED
    BY <2>1, <2>2
<1> QED
  BY <1>1, <1>2, <1>3, <1>5, <1>6, <1>8 DEF Covered

-----------------------------------------------------------------------------
(* The steps *)

LEMMA InitInv == Init => Inv
<1> SUFFICES ASSUME Init PROVE Inv
  OBVIOUS
<1>1. TypeOK
  BY LimiterOptions DEF Init, TypeOK
<1>2. Tracked = {} /\ Cardinality(Tracked) = 0
  BY FS_EmptySet DEF Init, Tracked
<1> QED
  BY <1>1, <1>2, LimiterOptions DEF Init, Inv, Evictable, OverrunIsBounded

\* Asking lets a handler in while the count is under the allowance.
LEMMA AskInv ==
    ASSUME Inv, NEW id \in Clients, AskAllowed(id)
    PROVE  Inv'
<1>1. /\ failures' = failures /\ order' = order /\ clock' = clock
      /\ lastSweep' = lastSweep
  BY DEF AskAllowed
<1>2. checking' = [checking EXCEPT ![id] = @ + 1] /\ checking \in [Clients -> Nat]
  BY DEF AskAllowed, Inv, TypeOK
<1>3. TypeOK'
  BY <1>1, <1>2 DEF Inv, TypeOK
<1>4. Evictable'
  BY <1>1 DEF Inv, Evictable, Tracked
<1>5. \A i \in Clients : checking'[i] <= MaxInFlight
  BY <1>2, LimiterOptions DEF AskAllowed, Inv
<1>6. OverrunIsBounded'
  <2> SUFFICES ASSUME NEW i \in Tracked, ~expired(failures[i])
               PROVE  failures[i].count + checking'[i] < Allowance + MaxInFlight
    BY <1>1 DEF OverrunIsBounded, Tracked, expired
  <2>1. i \in Clients /\ failures[i].count \in Nat
    BY DEF Inv, TypeOK, Tracked, failureRecord
  <2>2. CASE i # id
    BY <1>2, <2>1, <2>2 DEF Inv, OverrunIsBounded
  <2>3. CASE i = id
    <3>1. failures[i].count < Allowance
      BY <2>3 DEF AskAllowed, Allowed
    <3> QED
      BY <1>2, <1>5, <2>1, <3>1, LimiterOptions
  <2> QED
    BY <2>2, <2>3
<1> QED
  BY <1>3, <1>4, <1>5, <1>6 DEF Inv

\* A failure: recorded, swept, evicted.
LEMMA FailedInv ==
    ASSUME Inv, NEW id \in Clients, Failed(id)
    PROVE  Inv'
<1>1. PICK f : f = recorded(id)
  OBVIOUS
<1>2. PICK g : g = swept(f)
  OBVIOUS
<1>3. PICK o : o = compacted(f, g, queued(id))
  OBVIOUS
<1>4. /\ failures' = evicted(g, o) /\ order' = popped(g, o)
      /\ clock' = clock
      /\ lastSweep' \in {clock, lastSweep}
      /\ checking[id] > 0 /\ checking' = [checking EXCEPT ![id] = @ - 1]
  BY <1>1, <1>2, <1>3 DEF Failed, Done
<1>5. /\ Covered(f, queued(id)) /\ Cardinality(DOMAIN f) <= MaxTracked + 1
      /\ DOMAIN f = Tracked \cup {id} /\ f[id] = counted(id)
      /\ \A i \in Tracked \ {id} : f[i] = failures[i]
  BY <1>1, RecordCovers
<1>6. Covered(g, o) /\ PartOf(g, f)
  BY <1>2, <1>3, <1>5, SweepCovers
<1>7. Cardinality(DOMAIN g) <= MaxTracked + 1
  <2>1. IsFiniteSet(DOMAIN f) /\ DOMAIN g \in SUBSET DOMAIN f
    BY <1>5, <1>6, ClientSets DEF Covered, PartOf
  <2>2. Cardinality(DOMAIN g) <= Cardinality(DOMAIN f)
    BY <2>1, FS_Subset
  <2>3. Cardinality(DOMAIN f) \in Nat /\ Cardinality(DOMAIN g) \in Nat
    BY <1>5, <1>6, ClientSets DEF Covered
  <2> QED
    BY <1>5, <2>2, <2>3, LimiterOptions
<1>8. /\ Covered(failures', order') /\ PartOf(failures', g)
      /\ Cardinality(DOMAIN failures') <= MaxTracked
  BY <1>4, <1>6, <1>7, EvictCovers
<1>9. PartOf(failures', f)
  BY <1>6, <1>8 DEF PartOf
<1>10. checking \in [Clients -> Nat] /\ checking' \in [Clients -> Nat]
  BY <1>4 DEF Inv, TypeOK
<1>11. TypeOK'
  <2>1. clock \in Nat /\ lastSweep \in Int
    BY DEF Inv, TypeOK
  <2>2. lastSweep' \in Int /\ clock' \in Nat
    BY <1>4, <2>1
  <2> QED
    BY <1>8, <1>10, <2>2 DEF TypeOK, Covered
<1>12. Evictable'
  BY <1>8 DEF Evictable, Covered, Tracked
<1>13. \A i \in Clients : checking'[i] <= MaxInFlight
  BY <1>4, <1>10, LimiterOptions DEF Inv
<1>14. OverrunIsBounded'
  <2> SUFFICES ASSUME NEW i \in DOMAIN failures',
                      ~(clock - failures'[i].startedAt > Window)
               PROVE  failures'[i].count + checking'[i] < Allowance + MaxInFlight
    BY <1>4 DEF OverrunIsBounded, Tracked, expired
  <2>1. i \in DOMAIN f /\ failures'[i] = f[i] /\ i \in Clients
    BY <1>5, <1>9 DEF PartOf, Covered
  <2>2. CASE i # id
    <3>1. i \in Tracked /\ f[i] = failures[i] /\ checking'[i] = checking[i]
      BY <1>4, <1>5, <1>10, <2>1, <2>2
    <3>2. ~expired(failures[i])
      BY <2>1, <3>1 DEF expired
    <3> QED
      BY <2>1, <3>1, <3>2 DEF Inv, OverrunIsBounded
  <2>3. CASE i = id
    <3>1. failures'[i] = counted(id) /\ checking'[i] = checking[i] - 1
      BY <1>4, <1>5, <1>10, <2>1, <2>3
    <3>2. CASE id \in Tracked /\ ~expired(failures[id])
      <4>1. failures[id] \in failureRecord
        BY <3>2 DEF Inv, TypeOK, Tracked
      <4>2. counted(id).count = failures[id].count + 1
        BY <3>2, <4>1 DEF counted, failureRecord
      <4>3. failures[id].count + checking[id] < Allowance + MaxInFlight
        BY <3>2 DEF Inv, OverrunIsBounded
      <4> QED
        BY <1>10, <2>3, <3>1, <4>1, <4>2, <4>3, LimiterOptions DEF failureRecord
    <3>3. CASE ~(id \in Tracked /\ ~expired(failures[id]))
      <4>1. counted(id).count = 1
        BY <3>3 DEF counted
      <4> QED
        BY <1>10, <2>3, <3>1, <4>1, LimiterOptions DEF Inv
    <3> QED
      BY <3>2, <3>3
  <2> QED
    BY <2>2, <2>3
<1> QED
  BY <1>11, <1>12, <1>13, <1>14 DEF Inv

\* A handler that ends without counting a failure, whether or not it clears
\* the record.
LEMMA ClearedInv ==
    ASSUME Inv, NEW id \in Clients, Done(id),
           failures' \in {failures, [i \in Tracked \ {id} |-> failures[i]]},
           UNCHANGED <<order, lastSweep, clock>>
    PROVE  Inv'
<1>1. /\ DOMAIN failures' \subseteq Tracked
      /\ \A i \in DOMAIN failures' : failures'[i] = failures[i]
      /\ failures' = [i \in DOMAIN failures' |-> failures'[i]]
  BY DEF Tracked, Inv, TypeOK
<1>2. Tracked \subseteq Clients /\ \A i \in Tracked : failures[i] \in failureRecord
  BY DEF Inv, TypeOK, Tracked
<1>3. /\ checking \in [Clients -> Nat] /\ checking' \in [Clients -> Nat]
      /\ \A i \in Clients : checking'[i] <= checking[i]
  BY DEF Done, Inv, TypeOK
<1>4. failures' \in [DOMAIN failures' -> failureRecord]
  BY <1>1, <1>2
<1>5. TypeOK'
  BY <1>1, <1>2, <1>3, <1>4 DEF Inv, TypeOK
<1>6. Cardinality(DOMAIN failures') <= MaxTracked
  <2>1. Cardinality(DOMAIN failures') <= Cardinality(Tracked)
    BY <1>1, <1>2, ClientSets, FS_Subset
  <2>2. Cardinality(DOMAIN failures') \in Nat /\ Cardinality(Tracked) \in Nat
    BY <1>1, <1>2, ClientSets
  <2> QED
    BY <2>1, <2>2, LimiterOptions DEF Inv, Evictable
<1>7. Evictable'
  BY <1>1, <1>6 DEF Inv, Evictable, Tracked
<1>8. \A i \in Clients : checking'[i] <= MaxInFlight
  BY <1>3, LimiterOptions DEF Inv
<1>9. OverrunIsBounded'
  <2> SUFFICES ASSUME NEW i \in DOMAIN failures',
                      ~(clock - failures'[i].startedAt > Window)
               PROVE  failures'[i].count + checking'[i] < Allowance + MaxInFlight
    BY DEF OverrunIsBounded, Tracked, expired
  <2>1. i \in Tracked /\ failures'[i] = failures[i] /\ ~expired(failures[i])
    BY <1>1 DEF expired
  <2>2. failures[i].count + checking[i] < Allowance + MaxInFlight
    BY <2>1 DEF Inv, OverrunIsBounded
  <2> QED
    BY <1>2, <1>3, <2>1, <2>2, LimiterOptions DEF failureRecord
<1> QED
  BY <1>5, <1>7, <1>8, <1>9 DEF Inv

LEMMA TickInv ==
    ASSUME Inv, Tick
    PROVE  Inv'
<1>1. /\ failures' = failures /\ order' = order /\ lastSweep' = lastSweep
      /\ checking' = checking
      /\ clock' = clock + 1 /\ clock \in Nat
  BY DEF Tick, Inv, TypeOK
<1>2. TypeOK' /\ Evictable'
  BY <1>1 DEF Inv, TypeOK, Evictable, Tracked
<1>3. OverrunIsBounded'
  <2> SUFFICES ASSUME NEW i \in Tracked, ~(clock' - failures[i].startedAt > Window)
               PROVE  failures[i].count + checking[i] < Allowance + MaxInFlight
    BY <1>1 DEF OverrunIsBounded, Tracked, expired
  <2>1. failures[i].startedAt \in Nat
    BY DEF Inv, TypeOK, Tracked, failureRecord
  <2>2. ~expired(failures[i])
    BY <1>1, <2>1, LimiterOptions DEF expired
  <2> QED
    BY <2>2 DEF Inv, OverrunIsBounded
<1> QED
  BY <1>1, <1>2, <1>3 DEF Inv

LEMMA NextInv == Inv /\ [Next]_vars => Inv'
<1> SUFFICES ASSUME Inv, [Next]_vars PROVE Inv'
  OBVIOUS
<1>1. CASE \E id \in Clients : AskAllowed(id)
  BY <1>1, AskInv
<1>2. CASE \E id \in Clients : Failed(id)
  BY <1>2, FailedInv
<1>3. CASE \E id \in Clients : Succeeded(id)
  BY <1>3, ClearedInv DEF Succeeded
<1>4. CASE \E id \in Clients : IssueFails(id)
  BY <1>4, ClearedInv DEF IssueFails
<1>5. CASE Tick
  BY <1>5, TickInv
<1>6. CASE UNCHANGED vars
  BY <1>6 DEF vars, Inv, TypeOK, Evictable, OverrunIsBounded, Tracked, expired
<1> QED
  BY <1>1, <1>2, <1>3, <1>4, <1>5, <1>6 DEF Next

\* A failure forgives nobody who has spent the allowance, unless it evicts with
\* the map full before and after it.
LEMMA FailedForgives ==
    ASSUME Inv, NEW j \in Clients, Failed(j),
           NEW id \in Tracked, ~Allowed(id), Allowed(id)'
    PROVE  Cardinality(Tracked) = MaxTracked /\ Cardinality(Tracked)' = MaxTracked
<1>1. PICK f : f = recorded(j)
  OBVIOUS
<1>2. PICK g : g = swept(f)
  OBVIOUS
<1>3. PICK o : o = compacted(f, g, queued(j))
  OBVIOUS
<1>4. failures' = evicted(g, o) /\ clock' = clock
  BY <1>1, <1>2, <1>3 DEF Failed
<1>5. /\ Covered(f, queued(j)) /\ Cardinality(DOMAIN f) <= MaxTracked + 1
      /\ DOMAIN f = Tracked \cup {j} /\ f[j] = counted(j)
      /\ \A i \in Tracked \ {j} : f[i] = failures[i]
  BY <1>1, RecordCovers
<1>6. /\ Covered(g, o) /\ PartOf(g, f)
      /\ \A i \in DOMAIN f : ~expired(f[i]) => i \in DOMAIN g
  BY <1>2, <1>3, <1>5, SweepCovers
<1>7. /\ Tracked \subseteq Clients /\ failures[id] \in failureRecord
      /\ IsFiniteSet(DOMAIN f) /\ DOMAIN g \subseteq DOMAIN f
      /\ Cardinality(DOMAIN f) \in Nat /\ Cardinality(DOMAIN g) \in Nat
      /\ IsFiniteSet(Tracked) /\ Cardinality(Tracked) \in Nat
      /\ clock \in Nat /\ Allowance \in Nat
  BY <1>5, <1>6, ClientSets, LimiterOptions DEF Inv, TypeOK, Tracked, Covered, PartOf
<1>8. Cardinality(DOMAIN g) <= Cardinality(DOMAIN f)
  BY <1>7, FS_Subset
<1>9. ~expired(failures[id]) /\ ~(failures[id].count < Allowance)
  BY DEF Allowed
<1>10. ~expired(f[id]) /\ ~(f[id].count < Allowance)
  <2>1. CASE id # j
    BY <1>5, <1>9, <2>1
  <2>2. CASE id = j
    <3>1. counted(j) = [failures[id] EXCEPT !.count = @ + 1]
      BY <1>9, <2>2 DEF counted
    <3>2. /\ counted(j).count = failures[id].count + 1
          /\ counted(j).startedAt = failures[id].startedAt
      BY <1>7, <3>1 DEF failureRecord
    <3>3. failures[id].count \in Nat
      BY <1>7 DEF failureRecord
    <3> QED
      BY <1>5, <1>7, <1>9, <2>2, <3>2, <3>3 DEF expired
  <2> QED
    BY <2>1, <2>2
<1>11. id \in DOMAIN g
  BY <1>5, <1>6, <1>10
<1>12. id \notin DOMAIN failures'
  <2> SUFFICES ASSUME id \in DOMAIN failures' PROVE FALSE
    OBVIOUS
  <2>1. PartOf(evicted(g, o), g)
    BY <1>5, <1>6, <1>7, <1>8, LimiterOptions, EvictCovers
  <2>2. failures'[id] = f[id]
    BY <1>4, <1>6, <2>1 DEF PartOf
  <2> QED
    BY <1>4, <1>10, <2>2 DEF Allowed, Tracked, expired
<1>13. Cardinality(DOMAIN g) = MaxTracked + 1 /\ Cardinality(DOMAIN failures') = MaxTracked
  <2>1. Cardinality(DOMAIN g) <= MaxTracked + 1
    BY <1>5, <1>7, <1>8, LimiterOptions
  <2>2. DOMAIN evicted(g, o) # DOMAIN g
    BY <1>4, <1>11, <1>12
  <2> QED
    BY <1>4, <1>6, <2>1, <2>2, EvictCovers
<1>14. Cardinality(Tracked) = MaxTracked
  <2>1. Cardinality(Tracked \cup {j})
          = IF j \in Tracked THEN Cardinality(Tracked) ELSE Cardinality(Tracked) + 1
    BY <1>7, FS_AddElement
  <2>2. Cardinality(Tracked) <= MaxTracked
    BY DEF Inv, Evictable
  <2> QED
    BY <1>5, <1>7, <1>8, <1>13, <2>1, <2>2, LimiterOptions
<1> QED
  BY <1>13, <1>14 DEF Tracked

-----------------------------------------------------------------------------
(* The theorems *)

\* The invariant the other results rest on holds in every state.
THEOREM Invariance == Spec => []Inv
  BY InitInv, NextInv, PTL DEF Spec

\* Every variable of the limiter keeps its type.
THEOREM TypeCorrect == Spec => []TypeOK
<1>1. Inv => TypeOK
  BY DEF Inv
<1> QED
  BY <1>1, Invariance, PTL

\* The map of failures never passes its ceiling, and eviction can always reach
\* what it holds.
THEOREM EvictionCorrect == Spec => []Evictable
<1>1. Inv => Evictable
  BY DEF Inv
<1> QED
  BY <1>1, Invariance, PTL

\* Failures overrun the allowance by at most the handlers at work at once.
THEOREM OverrunCorrect == Spec => []OverrunIsBounded
<1>1. Inv => OverrunIsBounded
  BY DEF Inv
<1> QED
  BY <1>1, Invariance, PTL

\* An identifier that spent its allowance is let in again only by the clock, by
\* a handler that authenticated it, or by an eviction from a full map.
THEOREM ForgivenCorrect == Spec => ForgivenOnlyByTime
<1> DEFINE A == \A id \in Tracked :
                   (~Allowed(id) /\ Allowed(id)') =>
                      \/ clock' > clock
                      \/ id \notin DOMAIN failures' /\ checking'[id] < checking[id]
                      \/ Cardinality(Tracked) = MaxTracked /\ Cardinality(Tracked)' = MaxTracked
<1>1. Inv /\ [Next]_vars => [A]_vars
  <2> SUFFICES ASSUME Inv, Next, NEW id \in Tracked, ~Allowed(id), Allowed(id)'
               PROVE  \/ clock' > clock
                      \/ id \notin DOMAIN failures' /\ checking'[id] < checking[id]
                      \/ Cardinality(Tracked) = MaxTracked /\ Cardinality(Tracked)' = MaxTracked
    OBVIOUS
  <2>1. ASSUME failures' = failures, clock' = clock PROVE FALSE
    BY <2>1 DEF Allowed, Tracked, expired
  <2>2. ASSUME NEW j \in Clients, AskAllowed(j) PROVE FALSE
    BY <2>1, <2>2 DEF AskAllowed
  <2>3. ASSUME NEW j \in Clients, Failed(j)
        PROVE  Cardinality(Tracked) = MaxTracked /\ Cardinality(Tracked)' = MaxTracked
    BY <2>3, FailedForgives
  <2>4. ASSUME NEW j \in Clients, Succeeded(j)
        PROVE  id \notin DOMAIN failures' /\ checking'[id] < checking[id]
    <3>1. /\ failures' = [i \in Tracked \ {j} |-> failures[i]] /\ clock' = clock
          /\ checking' = [checking EXCEPT ![j] = @ - 1] /\ checking \in [Clients -> Nat]
      BY <2>4 DEF Succeeded, Done, Inv, TypeOK
    <3>2. id = j
      BY <3>1 DEF Allowed, Tracked, expired
    <3> QED
      BY <3>1, <3>2
  <2>5. ASSUME NEW j \in Clients, IssueFails(j) PROVE FALSE
    BY <2>1, <2>5 DEF IssueFails
  <2>6. CASE Tick
    BY <2>6 DEF Tick, Inv, TypeOK
  <2> QED
    BY <2>2, <2>3, <2>4, <2>5, <2>6 DEF Next
<1> QED
  BY <1>1, Invariance, PTL DEF Spec, ForgivenOnlyByTime

=============================================================================
