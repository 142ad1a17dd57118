-------------------------- MODULE EventBridgeProofs --------------------------
(***************************************************************************)
(* EventBridge for any turns, generators, queues and histories: what a     *)
(* browser receives, in which order, and what it can still receive, however *)
(* often it loses its connection and whoever reads beside it.              *)
(*                                                                         *)
(* The history evicts one event at a time (EvictedOnce).  InOrder says that *)
(* what is ahead of the browser is newer than what is behind it, and       *)
(* Accounted that every event of the history is in one of the two, was lost *)
(* on the way, or is on its way and will not be skipped.                   *)
(***************************************************************************)
EXTENDS EventBridge, FiniteSetTheorems, WellFoundedInduction, TLAPS

-----------------------------------------------------------------------------
(* The oldest of some events.                                              *)

LEMMA Least ==
    ASSUME NEW S, S \subseteq Nat, S # {}
    PROVE  \E m \in S : \A k \in S : m <= k
<1> DEFINE R == {p \in Nat \X Nat : p[1] < p[2]}
<1>1. IsWellFoundedOn(R, Nat)
  <2>1. OpToRel(<, Nat) = R
    BY Zenon DEF OpToRel
  <2> QED BY <2>1, NatLessThanWellFounded, Zenon
<1>2. \E x \in S : \A y \in S : ~(<<y, x>> \in R)
  <2> HIDE DEF R
  <2> QED BY <1>1, WFMin, Zenon
<1>3. PICK x \in S : \A y \in S : ~(<<y, x>> \in R)
  BY <1>2
<1>4. ASSUME NEW y \in S PROVE x <= y
  <2>1. <<y, x>> \in Nat \X Nat /\ <<y, x>>[1] = y /\ <<y, x>>[2] = x
    OBVIOUS
  <2>2. ~(y < x)
    BY <1>3, <2>1
  <2> QED BY <2>2
<1> QED BY <1>4

LEMMA OldestLeast ==
    ASSUME NEW S, S \subseteq Nat, S # {}
    PROVE  Oldest(S) \in S /\ \A d \in S : Oldest(S) <= d
BY Least DEF Oldest

-----------------------------------------------------------------------------
(* Eviction.                                                               *)

First(S, k) == {e \in S : Cardinality({d \in S : d < e}) < k}

LEMMA FirstNone ==
    ASSUME NEW S \in SUBSET Nat, IsFiniteSet(S), NEW k \in Int, k <= 0
    PROVE  First(S, k) = {}
<1>1. ASSUME NEW e \in S PROVE Cardinality({d \in S : d < e}) \in Nat
  <2>1. {d \in S : d < e} \in SUBSET S
    OBVIOUS
  <2> QED BY <2>1, FS_Subset, FS_CardinalityType
<1>2. \A e \in S : ~(Cardinality({d \in S : d < e}) < k)
  <2> TAKE e \in S
  <2> DEFINE c == Cardinality({d \in S : d < e})
  <2>1. c \in Nat
    BY <1>1
  <2> HIDE DEF c
  <2>2. ~(c < k)
    BY <2>1
  <2> QED BY <2>2 DEF c
<1> QED BY <1>2 DEF First

LEMMA FirstOne ==
    ASSUME NEW S \in SUBSET Nat, IsFiniteSet(S)
    PROVE  First(S, 1) = IF S = {} THEN {} ELSE {Oldest(S)}
<1>1. ASSUME NEW e \in S
      PROVE  Cardinality({d \in S : d < e}) < 1 <=> \A d \in S : ~(d < e)
  <2> DEFINE T == {d \in S : d < e}
  <2>1. T \in SUBSET S
    OBVIOUS
  <2>2. IsFiniteSet(T) /\ Cardinality(T) \in Nat /\ (Cardinality(T) = 0 <=> T = {})
    BY <2>1, FS_Subset, FS_CardinalityType, FS_EmptySet
  <2>3. T = {} <=> \A d \in S : ~(d < e)
    OBVIOUS
  <2> HIDE DEF T
  <2>4. Cardinality(T) < 1 <=> \A d \in S : ~(d < e)
    BY <2>2, <2>3
  <2> QED BY <2>4 DEF T
<1>2. CASE S = {}
  BY <1>2 DEF First
<1>3. CASE S # {}
  <2>1. Oldest(S) \in S /\ \A d \in S : Oldest(S) <= d
    BY <1>3, OldestLeast
  <2>2. \A e \in S : e = Oldest(S) <=> \A d \in S : ~(d < e)
    <3> TAKE e \in S
    <3>1. e \in Nat /\ Oldest(S) \in Nat /\ S \subseteq Nat
      BY <2>1
    <3>2. (\A d \in S : ~(d < e)) => e = Oldest(S)
      BY <2>1, <3>1
    <3>3. e = Oldest(S) => \A d \in S : ~(d < e)
      BY <2>1, <3>1
    <3> QED BY <3>2, <3>3
  <2> QED BY <1>1, <1>3, <2>1, <2>2 DEF First
<1> QED BY <1>2, <1>3

\* The structural events of h behind e.
Behind(h, ks, e) == {d \in h : ks[d] # "chunk" /\ d > e}

\* One event too many: the oldest chunk goes, or, when there is none, the
\* oldest event, and then it has as many structural events behind it as fit.
LEMMA EvictedOnce ==
    ASSUME NEW h \in SUBSET Nat, IsFiniteSet(h), maxHistory \in Nat \ {0},
           Cardinality(h) <= maxHistory + 1, NEW ks
    PROVE  /\ Evict(h, ks) \subseteq h /\ Cardinality(Evict(h, ks)) <= maxHistory
           /\ \A e \in h : ks[e] # "chunk" /\ e \notin Evict(h, ks)
                 => Cardinality(Behind(h, ks, e)) >= maxHistory
<1> DEFINE n == Cardinality(h) - maxHistory
           chunk == {e \in h : ks[e] = "chunk"}
           C == First(chunk, n)
           D == First(h \ C, n - Cardinality(C))
<1>1. Evict(h, ks) = (h \ C) \ D
  BY DEF Evict, First
<1>2. chunk \in SUBSET h /\ chunk \in SUBSET Nat /\ IsFiniteSet(chunk) /\ n \in Int /\ n <= 1
  <2>1. chunk \in SUBSET h
    OBVIOUS
  <2>2. IsFiniteSet(chunk)
    BY <2>1, FS_Subset
  <2>3. n \in Int /\ n <= 1
    BY FS_CardinalityType
  <2> QED BY <2>1, <2>2, <2>3
<1>3. CASE n <= 0
  <2>1. C = {}
    BY <1>2, <1>3, FirstNone
  <2>2. D = {}
    <3>1. Cardinality(C) = 0 /\ h \ C = h
      BY <2>1, FS_EmptySet
    <3>2. n - Cardinality(C) \in Int /\ n - Cardinality(C) <= 0
      BY <1>2, <1>3, <3>1
    <3> HIDE DEF C, n
    <3> QED BY <3>1, <3>2, FirstNone
  <2>3. Evict(h, ks) = h
    BY <1>1, <2>1, <2>2
  <2> QED BY <2>3, <1>3, FS_CardinalityType
<1>4. CASE n = 1 /\ chunk # {}
  <2>1. C = {Oldest(chunk)}
    BY <1>2, <1>4, FirstOne
  <2>2. Oldest(chunk) \in chunk
    BY <1>2, <1>4, OldestLeast
  <2>3. D = {}
    <3>1. Cardinality(C) = 1
      BY <2>1, FS_Singleton
    <3>2. h \ C \in SUBSET Nat /\ IsFiniteSet(h \ C)
      BY <2>1, FS_RemoveElement
    <3>3. n - Cardinality(C) \in Int /\ n - Cardinality(C) <= 0
      BY <1>4, <3>1
    <3> HIDE DEF C, n
    <3> QED BY <3>2, <3>3, FirstNone
  <2>4. Evict(h, ks) = h \ {Oldest(chunk)}
    BY <1>1, <2>1, <2>3
  <2>5. Cardinality(Evict(h, ks)) = Cardinality(h) - 1
    BY <2>2, <2>4, FS_RemoveElement
  <2> QED BY <2>2, <2>4, <2>5, <1>4, FS_CardinalityType
<1>5. CASE n = 1 /\ chunk = {}
  <2>1. C = {}
    BY <1>2, <1>5, FirstOne
  <2>2. h # {}
    BY <1>5, FS_EmptySet
  <2>3. D = {Oldest(h)}
    <3>1. Cardinality(C) = 0 /\ h \ C = h
      BY <2>1, FS_EmptySet
    <3>2. n - Cardinality(C) = 1
      BY <1>5, <3>1
    <3> HIDE DEF C, n
    <3> QED BY <2>2, <3>1, <3>2, FirstOne
  <2>4. Oldest(h) \in h /\ \A d \in h : Oldest(h) <= d
    BY <2>2, OldestLeast
  <2>5. Evict(h, ks) = h \ {Oldest(h)} /\ Cardinality(Evict(h, ks)) = maxHistory
    <3>1. Evict(h, ks) = h \ {Oldest(h)}
      BY <1>1, <2>1, <2>3
    <3>2. Cardinality(h \ {Oldest(h)}) = Cardinality(h) - 1
      BY <2>4, FS_RemoveElement
    <3>3. Cardinality(h) - 1 = maxHistory
      BY <1>5, FS_CardinalityType
    <3> QED BY <3>1, <3>2, <3>3
  <2>6. Behind(h, ks, Oldest(h)) = h \ {Oldest(h)}
    <3>1. \A d \in h : ks[d] # "chunk"
      BY <1>5
    <3>2. \A d \in h : d > Oldest(h) <=> d # Oldest(h)
      <4> TAKE d \in h
      <4>1. d \in Nat /\ Oldest(h) \in Nat /\ Oldest(h) <= d
        BY <2>4
      <4> QED BY <4>1
    <3> QED BY <3>1, <3>2 DEF Behind
  <2>7. \A e \in h : e \notin Evict(h, ks) => e = Oldest(h)
    BY <2>5
  <2> QED BY <2>5, <2>6, <2>7
<1>6. n = 1 \/ n <= 0
  BY <1>2
<1> QED BY <1>3, <1>4, <1>5, <1>6

-----------------------------------------------------------------------------
(* Types.                                                                  *)

GenRecord ==
    [mode : {"gone", "replay", "waiting", "live"}, out : 0 .. Newest,
     rest : SUBSET Id, seen : SUBSET Id]

\* What a generator has at hand fits the place where it is suspended.
GenShape(r) ==
    /\ r.mode \in {"gone", "waiting"} => r.out = 0 /\ r.rest = {}
    /\ r.mode = "live" => r.out \in Id /\ r.rest = {}
    /\ r.mode = "replay" => r.out \in Id /\ \A x \in r.rest : r.out < x

ProducerTyped ==
    /\ policy \in Policy /\ maxHistory \in Nat \ {0} /\ plan \in Seq(Kind) /\ kinds \in Seq(Kind)
    /\ turn \in 0 .. Newest /\ asked \in BOOLEAN /\ history \subseteq Id
    /\ hand \in {"idle", "observing", "putting"}
    /\ hand # "idle" => Newest \in Id /\ \A x \in liveQueue : x < Newest
    /\ liveQueue \subseteq Id /\ excused \subseteq Id
    /\ Cardinality(history) <= maxHistory
    /\ policy # "none" => Cardinality(liveQueue) <= QueueSize

ReadersTyped ==
    /\ shut \in BOOLEAN /\ connected \in BOOLEAN /\ told \in BOOLEAN
    /\ gen \in [Generators -> GenRecord] /\ \A g \in Generators : GenShape(gen[g])
    /\ reader \in Generators \cup {NoReader}
    /\ reader # NoReader => gen[reader].mode # "gone"
    /\ cursor \in 0 .. Newest /\ received \subseteq Id
    /\ cursor = 0 => received = {}
    /\ cursor # 0 => cursor \in received
    /\ count \in Nat /\ count <= Cardinality(Attached)

BridgeTyped == ProducerTyped /\ ReadersTyped

LEMMA IdFacts ==
    ASSUME kinds \in Seq(Kind)
    PROVE  /\ Newest \in Nat /\ Id \subseteq Nat \ {0} /\ IsFiniteSet(Id)
           /\ \A e \in Id : e <= Newest
           /\ \A S \in SUBSET Id : IsFiniteSet(S) /\ S \in SUBSET Nat /\ Cardinality(S) \in Nat
<1>1. Newest \in Nat /\ Id = 1 .. Newest
  BY DEF Newest, Id
<1>2. IsFiniteSet(Id)
  BY <1>1, FS_Interval
<1>3. Id \subseteq Nat \ {0} /\ \A e \in Id : e <= Newest
  BY <1>1
<1> QED BY <1>1, <1>2, <1>3, FS_Subset, FS_CardinalityType

LEMMA InitBridgeTyped == EventInit => BridgeTyped
<1> SUFFICES ASSUME EventInit PROVE BridgeTyped
  OBVIOUS
<1> USE BridgeAssumption DEF EventInit
<1>1. kinds \in Seq(Kind) /\ Newest = 0
  BY DEF Newest
<1>2. PICK t \in Turns : policy = t.policy /\ maxHistory = t.history /\ plan = t.events
  OBVIOUS
<1>3. ProducerTyped
  <2>1. policy \in Policy /\ maxHistory \in Nat \ {0} /\ plan \in Seq(Kind)
    BY <1>2 DEF Policy, Kind
  <2>2. QueueSize \in Nat /\ Cardinality({}) = 0
    BY FS_EmptySet
  <2>3. turn \in 0 .. Newest /\ hand = "idle" /\ history = {} /\ liveQueue = {} /\ excused = {}
    BY <1>1
  <2>4. Cardinality(history) <= maxHistory /\ Cardinality(liveQueue) <= QueueSize
    BY <2>1, <2>2, <2>3
  <2> QED BY <1>1, <2>1, <2>3, <2>4 DEF ProducerTyped
<1>4. Gone \in GenRecord /\ GenShape(Gone)
  BY <1>1 DEF Gone, GenRecord, GenShape
<1>5. Attached = {}
  BY DEF Attached, Gone
<1>6. ReadersTyped
  <2>1. gen \in [Generators -> GenRecord] /\ \A g \in Generators : GenShape(gen[g])
    BY <1>4
  <2>2. cursor \in 0 .. Newest /\ count \in Nat /\ count <= Cardinality(Attached)
    BY <1>1, <1>5, FS_EmptySet
  <2> QED BY <2>1, <2>2 DEF ReadersTyped
<1> QED BY <1>3, <1>6 DEF BridgeTyped

\* An event is appended: what was an event is one, and it is the newest.
LEMMA Appended ==
    ASSUME kinds \in Seq(Kind), NEW k \in Kind, kinds' = Append(kinds, k)
    PROVE  /\ kinds' \in Seq(Kind) /\ Newest' = Newest + 1 /\ Id' = Id \cup {Newest + 1}
           /\ Newest + 1 \notin Id /\ kinds'[Newest + 1] = k
           /\ \A e \in Id : kinds'[e] = kinds[e] /\ e < Newest + 1
BY DEF Newest, Id

LEMMA EmitTypes ==
    ASSUME BridgeTyped, Emit
    PROVE  BridgeTyped'
<1> USE DEF BridgeTyped
<1> DEFINE k == Head(plan)
<1>1. /\ k \in Kind /\ plan' \in Seq(Kind) /\ asked' \in BOOLEAN /\ hand = "idle"
      /\ UNCHANGED <<policy, maxHistory, turn, reopens, liveQueue, shut, count, connected, gen,
                     browser, excused, mishaps>>
  BY DEF Emit, ProducerTyped
<1>2. CASE UNCHANGED <<kinds, history, hand>>
  <2>1. ProducerTyped'
    BY <1>1, <1>2 DEF ProducerTyped, Newest, Id, Policy
  <2>2. ReadersTyped'
    BY <1>1, <1>2 DEF ReadersTyped, Newest, Id, GenRecord, GenShape, Attached, browser
  <2> QED BY <2>1, <2>2
<1>3. CASE /\ kinds' = Append(kinds, k) /\ history' = Evict(history \cup {Newest + 1}, kinds')
           /\ hand' = "observing"
  <2>1. /\ kinds \in Seq(Kind) /\ kinds' \in Seq(Kind) /\ Newest' = Newest + 1 /\ Id' = Id \cup {Newest + 1}
        /\ Newest + 1 \notin Id /\ \A e \in Id : e < Newest + 1
    BY <1>1, <1>3, Appended DEF ProducerTyped
  <2>2. Newest \in Nat /\ Id \subseteq Nat
    BY <2>1, IdFacts
  <2>3. ProducerTyped'
    <3>1. history' \subseteq Id' /\ Cardinality(history') <= maxHistory
      <4> DEFINE h == history \cup {Newest + 1}
      <4>1. IsFiniteSet(history) /\ history \in SUBSET Nat /\ Cardinality(history) \in Nat
        BY <2>1, IdFacts DEF ProducerTyped
      <4>2. IsFiniteSet(h) /\ Cardinality(h) = Cardinality(history) + 1
        BY <2>1, <4>1, FS_AddElement DEF ProducerTyped
      <4>3. h \in SUBSET Nat /\ Cardinality(h) <= maxHistory + 1
        BY <2>2, <4>1, <4>2 DEF ProducerTyped
      <4>4. h \subseteq Id'
        BY <2>1 DEF ProducerTyped
      <4> HIDE DEF h
      <4>5. Evict(h, kinds') \subseteq h /\ Cardinality(Evict(h, kinds')) <= maxHistory
        BY <4>2, <4>3, EvictedOnce DEF ProducerTyped
      <4> QED BY <1>3, <4>4, <4>5 DEF h
    <3>2. turn \in 0 .. Newest'
      BY <2>1, <2>2 DEF ProducerTyped
    <3>3. Newest' \in Id' /\ \A x \in liveQueue : x < Newest'
      BY <2>1 DEF ProducerTyped
    <3> QED BY <1>1, <1>3, <2>1, <3>1, <3>2, <3>3 DEF ProducerTyped, Policy
  <2>4. ReadersTyped'
    <3>1. GenRecord \subseteq GenRecord'
      BY <2>1, <2>2 DEF GenRecord
    <3>2. \A g \in Generators : GenShape(gen[g])'
      BY <1>1, <2>1 DEF GenShape, ReadersTyped
    <3>3. cursor \in 0 .. Newest'
      BY <2>1, <2>2 DEF ReadersTyped
    <3>4. Attached' = Attached /\ Id \subseteq Id'
      BY <1>1, <2>1 DEF Attached
    <3> QED BY <1>1, <3>1, <3>2, <3>3, <3>4 DEF ReadersTyped, browser
  <2> QED BY <2>3, <2>4
<1> QED BY <1>2, <1>3 DEF Emit

LEMMA QueueTypes ==
    ASSUME BridgeTyped, Enqueue \/ BlockedPutEnds
    PROVE  ProducerTyped'
<1> USE BridgeAssumption DEF BridgeTyped
<1>1. /\ UNCHANGED <<policy, maxHistory, plan, kinds, turn, asked, history>>
      /\ hand # "idle" /\ Newest \in Id /\ Newest \notin liveQueue
  <2>1. /\ UNCHANGED <<policy, maxHistory, plan, kinds, turn, asked, history>>
        /\ hand # "idle" /\ Newest \in Id /\ \A x \in liveQueue : x < Newest
    BY DEF Enqueue, BlockedPutEnds, ProducerTyped
  <2>2. Newest \in Nat /\ ~(Newest < Newest)
    BY IdFacts DEF ProducerTyped
  <2> QED BY <2>1, <2>2
<1>2. IsFiniteSet(liveQueue) /\ Cardinality(liveQueue) \in Nat /\ liveQueue \subseteq Nat
  BY IdFacts DEF ProducerTyped
<1>3. Newest' = Newest /\ Id' = Id
  BY <1>1 DEF Newest, Id
<1>4. CASE ~Full /\ liveQueue' = liveQueue \cup {Newest} /\ hand' = "idle" /\ excused' = excused
  <2>1. Cardinality(liveQueue') = Cardinality(liveQueue) + 1
    BY <1>1, <1>2, <1>4, FS_AddElement
  <2>2. policy # "none" => Cardinality(liveQueue') <= QueueSize
    BY <1>2, <1>4, <2>1 DEF Full
  <2> QED BY <1>1, <1>3, <1>4, <2>2 DEF ProducerTyped, Policy
<1>5. CASE liveQueue' = liveQueue /\ hand' \in {"idle", "putting"} /\ excused' \in {excused, excused \cup {Newest}}
  BY <1>1, <1>3, <1>5 DEF ProducerTyped, Policy
<1>6. CASE /\ Full /\ liveQueue' = (liveQueue \ {Oldest(liveQueue)}) \cup {Newest} /\ hand' = "idle"
           /\ excused' = excused \cup {Oldest(liveQueue)}
  <2>1. liveQueue # {}
    BY <1>6, FS_EmptySet DEF Full
  <2>2. Oldest(liveQueue) \in liveQueue
    BY <1>2, <2>1, OldestLeast
  <2>3. /\ IsFiniteSet(liveQueue \ {Oldest(liveQueue)})
        /\ Cardinality(liveQueue \ {Oldest(liveQueue)}) = Cardinality(liveQueue) - 1
    BY <1>2, <2>2, FS_RemoveElement
  <2>4. Cardinality(liveQueue') = Cardinality(liveQueue)
    <3> DEFINE q == liveQueue \ {Oldest(liveQueue)}
    <3>1. Newest \notin q /\ IsFiniteSet(q) /\ liveQueue' = q \cup {Newest}
      BY <1>1, <1>6, <2>3
    <3> HIDE DEF q
    <3>2. Cardinality(q \cup {Newest}) = Cardinality(q) + 1
      BY <3>1, FS_AddElement
    <3>3. Cardinality(q) = Cardinality(liveQueue) - 1
      BY <2>3 DEF q
    <3> QED BY <1>2, <3>1, <3>2, <3>3
  <2> QED BY <1>1, <1>3, <1>6, <2>2, <2>4 DEF ProducerTyped, Policy
<1>7. \/ ~Full /\ liveQueue' = liveQueue \cup {Newest} /\ hand' = "idle" /\ excused' = excused
      \/ liveQueue' = liveQueue /\ hand' \in {"idle", "putting"} /\ excused' \in {excused, excused \cup {Newest}}
      \/ /\ Full /\ liveQueue' = (liveQueue \ {Oldest(liveQueue)}) \cup {Newest} /\ hand' = "idle"
         /\ excused' = excused \cup {Oldest(liveQueue)}
  BY DEF Enqueue, BlockedPutEnds
<1> QED BY <1>4, <1>5, <1>6, <1>7

LEMMA ProducerTypes ==
    ASSUME BridgeTyped, ObserverRaises \/ PutEnds \/ Close \/ Reopen
    PROVE  BridgeTyped'
<1> USE DEF BridgeTyped
<1>1. UNCHANGED <<policy, maxHistory, plan, kinds, gen, browser>>
  BY DEF ObserverRaises, PutEnds, Enqueue, BlockedPutEnds, Close, Reopen, producer
<1>2. Newest' = Newest /\ Id' = Id /\ GenRecord' = GenRecord /\ Attached' = Attached
      /\ \A g \in Generators : GenShape(gen[g])' = GenShape(gen[g])
  BY <1>1 DEF Newest, Id, GenRecord, Attached, GenShape
<1>3. /\ shut' \in BOOLEAN /\ connected' \in BOOLEAN /\ count' \in {0, count}
  BY DEF ObserverRaises, PutEnds, Enqueue, BlockedPutEnds, Close, Reopen, ReadersTyped
<1>4. Cardinality(Attached) \in Nat
  <2>1. Attached \in SUBSET Generators
    BY DEF Attached
  <2> QED BY <2>1, BridgeAssumption, FS_Subset, FS_CardinalityType
<1>5. ReadersTyped'
  BY <1>1, <1>2, <1>3, <1>4 DEF ReadersTyped, browser
<1>6. ProducerTyped'
  <2>1. CASE PutEnds
    BY <2>1, QueueTypes DEF PutEnds
  <2>2. CASE ObserverRaises
    BY <1>2, <2>2 DEF ObserverRaises, ProducerTyped, Policy
  <2>3. CASE Close
    BY <1>2, <2>3 DEF Close, producer, ProducerTyped, Policy
  <2>4. CASE Reopen
    <3>1. Newest \in Nat
      BY IdFacts DEF ProducerTyped
    <3>2. maxHistory \in Nat /\ QueueSize \in Nat
      BY BridgeAssumption DEF ProducerTyped
    <3>3. turn' = Newest /\ history' = {} /\ liveQueue' = {} /\ hand' = "idle" /\ asked' = FALSE
      BY <2>4 DEF Reopen
    <3>4. turn' \in 0 .. Newest
      BY <3>1, <3>3
    <3>5. Cardinality(history') <= maxHistory /\ Cardinality(liveQueue') <= QueueSize
      BY <3>2, <3>3, FS_EmptySet
    <3>6. excused' = excused
      BY <2>4 DEF Reopen
    <3> QED BY <1>1, <1>2, <3>3, <3>4, <3>5, <3>6 DEF ProducerTyped, Policy
  <2> QED BY <2>1, <2>2, <2>3, <2>4
<1> QED BY <1>5, <1>6

-----------------------------------------------------------------------------
(* The moves of a generator, as far as the types go: it gets a record of   *)
(* the right shape, and the count of subscribers follows, unless reopen()  *)
(* reset it while the generator was suspended.                             *)

Moves(g, new) ==
    /\ new \in GenRecord /\ GenShape(new)
    /\ gen' = [gen EXCEPT ![g] = new]
    /\ \/ /\ gen[g].mode = "gone" /\ new.mode # "gone" /\ count' = count + 1
       \/ /\ gen[g].mode # "gone" /\ new.mode = "gone"
          /\ count' = IF count = 0 THEN 0 ELSE count - 1
       \/ /\ gen[g].mode # "gone" <=> new.mode # "gone"
          /\ count' = count

LEMMA CountFollows ==
    ASSUME ReadersTyped, NEW g \in Generators, NEW new, Moves(g, new)
    PROVE  count' \in Nat /\ count' <= Cardinality(Attached')
<1>1. IsFiniteSet(Attached) /\ Cardinality(Attached) \in Nat /\ count \in Nat
      /\ count <= Cardinality(Attached)
  <2>1. Attached \in SUBSET Generators
    BY DEF Attached
  <2> QED BY <2>1, BridgeAssumption, FS_Subset, FS_CardinalityType DEF ReadersTyped
<1>2. /\ g \in Attached <=> gen[g].mode # "gone"
      /\ Attached' = IF new.mode = "gone" THEN Attached \ {g} ELSE Attached \cup {g}
  BY DEF Attached, Moves, ReadersTyped
<1>3. CASE gen[g].mode = "gone" /\ new.mode # "gone" /\ count' = count + 1
  <2>1. Cardinality(Attached') = Cardinality(Attached) + 1
    BY <1>1, <1>2, <1>3, FS_AddElement
  <2> QED BY <1>1, <1>3, <2>1
<1>4. CASE gen[g].mode # "gone" /\ new.mode = "gone" /\ count' = IF count = 0 THEN 0 ELSE count - 1
  <2>1. Cardinality(Attached') = Cardinality(Attached) - 1 /\ Cardinality(Attached') \in Nat
    BY <1>1, <1>2, <1>4, FS_RemoveElement, FS_CardinalityType
  <2> QED BY <1>1, <1>4, <2>1
<1>5. CASE (gen[g].mode # "gone" <=> new.mode # "gone") /\ count' = count
  <2>1. Attached' = Attached
    BY <1>2, <1>5
  <2> QED BY <1>1, <1>5, <2>1
<1> QED BY <1>3, <1>4, <1>5 DEF Moves

\* Detach and Waits, of a generator that is attached.
LEMMA DetachMoves ==
    ASSUME BridgeTyped, NEW g \in Generators, gen[g].mode # "gone", Detach(g)
    PROVE  /\ Moves(g, Gone) /\ connected' \in BOOLEAN
           /\ reader' = IF reader = g THEN NoReader ELSE reader
<1>1. Newest \in Nat
  BY IdFacts DEF BridgeTyped, ProducerTyped
<1>2. Gone \in GenRecord /\ GenShape(Gone) /\ Gone.mode = "gone"
  BY <1>1 DEF Gone, GenRecord, GenShape
<1> QED BY <1>2 DEF Detach, Moves, BridgeTyped, ReadersTyped

Waiting(sn) == [Gone EXCEPT !.mode = "waiting", !.seen = sn]

LEMMA WaitingFacts ==
    ASSUME NEW sn
    PROVE  /\ Waiting(sn).mode = "waiting" /\ Waiting(sn).out = 0
           /\ Waiting(sn).rest = {} /\ Waiting(sn).seen = sn
BY DEF Waiting, Gone

LEMMA WaitingShape ==
    ASSUME BridgeTyped, NEW sn \in SUBSET Id
    PROVE  Waiting(sn) \in GenRecord /\ GenShape(Waiting(sn))
<1>1. Newest \in Nat
  BY IdFacts DEF BridgeTyped, ProducerTyped
<1>2. Gone \in GenRecord
  BY <1>1 DEF Gone, GenRecord
<1>3. Waiting(sn) \in GenRecord
  BY <1>2 DEF Waiting, GenRecord
<1> QED BY <1>3, WaitingFacts DEF GenShape

LEMMA WaitsMoves ==
    ASSUME BridgeTyped, NEW g \in Generators, gen[g].mode # "gone", NEW sn \in SUBSET Id,
           Waits(g, sn)
    PROVE  /\ connected' \in BOOLEAN
           /\ \/ Moves(g, Gone) /\ reader' = IF reader = g THEN NoReader ELSE reader
              \/ Moves(g, Waiting(sn)) /\ reader' = reader
<1>1. CASE shut
  BY <1>1, DetachMoves DEF Waits
<1>2. CASE ~shut
  BY <1>2, WaitingShape, WaitingFacts DEF Waits, Moves, Waiting, BridgeTyped, ReadersTyped
<1> QED BY <1>1, <1>2

LEMMA YieldsMoves ==
    ASSUME BridgeTyped, NEW g \in Generators, NEW m \in {"replay", "live"}, NEW e \in Id,
           NEW rs \in SUBSET Id, NEW sn \in SUBSET Id, m = "live" => rs = {}, \A x \in rs : e < x,
           Yields(g, m, e, rs, sn),
           count' = IF gen[g].mode = "gone" THEN count + 1 ELSE count
    PROVE  Moves(g, [mode |-> m, out |-> e, rest |-> rs, seen |-> sn])
<1> DEFINE new == [mode |-> m, out |-> e, rest |-> rs, seen |-> sn]
<1>1. e \in 0 .. Newest
  BY IdFacts DEF BridgeTyped, ProducerTyped, Id
<1>2. new \in GenRecord /\ GenShape(new) /\ new.mode # "gone"
  BY <1>1 DEF GenRecord, GenShape
<1> HIDE DEF new
<1>3. gen' = [gen EXCEPT ![g] = new]
  BY DEF Yields, new
<1>4. Moves(g, new)
  BY <1>2, <1>3 DEF Moves
<1> QED BY <1>4 DEF new

\* The oldest of a set of events, and the rest of it.
LEMMA OldestOf ==
    ASSUME BridgeTyped, NEW S \in SUBSET Id, S # {}
    PROVE  /\ Oldest(S) \in S /\ Oldest(S) \in Id /\ S \ {Oldest(S)} \in SUBSET Id
           /\ \A x \in S \ {Oldest(S)} : Oldest(S) < x
<1>1. S \subseteq Nat
  BY IdFacts DEF BridgeTyped, ProducerTyped
<1>2. Oldest(S) \in S /\ \A d \in S : Oldest(S) <= d
  BY <1>1, OldestLeast
<1>3. \A x \in S \ {Oldest(S)} : Oldest(S) < x
  <2> TAKE x \in S \ {Oldest(S)}
  <2>1. x \in Nat /\ Oldest(S) \in Nat /\ Oldest(S) <= x /\ x # Oldest(S)
    BY <1>1, <1>2
  <2> QED BY <2>1
<1> QED BY <1>2, <1>3

\* Back at the head of its loop, a generator ends or waits.
Loops(g, sn) ==
    \/ Moves(g, Gone) /\ reader' = IF reader = g THEN NoReader ELSE reader
    \/ Moves(g, Waiting(sn)) /\ reader' = reader

Replaying(e, rs, sn) == [mode |-> "replay", out |-> e, rest |-> rs, seen |-> sn]
Delivering(e, sn) == [mode |-> "live", out |-> e, rest |-> {}, seen |-> sn]

\* A connection, by its outcome.
LEMMA Subscribed ==
    ASSUME BridgeTyped, NEW g \in Generators, NEW c, Subscribe(g, c)
    PROVE  LET tail == AfterCursor(c) IN
           /\ gen[g].mode = "gone" /\ shut' \in BOOLEAN /\ connected' \in BOOLEAN
           /\ \/ /\ tail # {} /\ liveQueue' = liveQueue
                 /\ Moves(g, Replaying(Oldest(tail), tail \ {Oldest(tail)}, history))
              \/ /\ tail = {} /\ liveQueue' = liveQueue \ history
                 /\ Moves(g, Waiting(history))
              \/ /\ tail = {} /\ liveQueue' \subseteq liveQueue
                 /\ gen' = gen /\ count' = count
<1> USE DEF Subscribe, Replayed
<1> DEFINE tail == AfterCursor(c)
<1>1. tail \in SUBSET Id /\ history \in SUBSET Id /\ tail \subseteq history
  BY DEF AfterCursor, BridgeTyped, ProducerTyped
<1>2. CASE /\ tail # {} /\ Yields(g, "replay", Oldest(tail), tail \ {Oldest(tail)}, history)
           /\ count' = count + 1 /\ connected' = TRUE /\ UNCHANGED <<liveQueue, shut>>
           /\ gen[g].mode = "gone"
  <2> HIDE DEF tail
  <2>1. Moves(g, Replaying(Oldest(tail), tail \ {Oldest(tail)}, history))
    BY <1>1, <1>2, OldestOf, YieldsMoves DEF Replaying
  <2> QED BY <1>2, <2>1 DEF BridgeTyped, ReadersTyped, tail
<1>3. CASE /\ tail = {} /\ gen' = [gen EXCEPT ![g] = Waiting(history)] /\ ~shut
           /\ count' = count + 1 /\ connected' = TRUE
           /\ liveQueue' = liveQueue \ history /\ UNCHANGED shut
           /\ gen[g].mode = "gone"
  <2>1. Moves(g, Waiting(history))
    BY <1>1, <1>3, WaitingShape, WaitingFacts DEF Moves
  <2> QED BY <1>3, <2>1 DEF BridgeTyped, ReadersTyped
<1>4. CASE /\ tail = {} /\ gen' = gen /\ shut' = TRUE /\ count' = count /\ connected' = (count # 0)
           /\ liveQueue' \subseteq liveQueue /\ gen[g].mode = "gone"
  BY <1>4
<1>5. \/ /\ tail # {} /\ Yields(g, "replay", Oldest(tail), tail \ {Oldest(tail)}, history)
         /\ count' = count + 1 /\ connected' = TRUE /\ UNCHANGED <<liveQueue, shut>>
      \/ /\ tail = {} /\ gen' = [gen EXCEPT ![g] = Waiting(history)] /\ ~shut
         /\ count' = count + 1 /\ connected' = TRUE
         /\ liveQueue' = liveQueue \ history /\ UNCHANGED shut
      \/ /\ tail = {} /\ gen' = gen /\ shut' = TRUE /\ count' = count /\ connected' = (count # 0)
         /\ liveQueue' \subseteq liveQueue
  BY DEF Waiting, DrainReplayed
<1> QED BY <1>2, <1>3, <1>4, <1>5

\* A frame that was sent, by what the generator does next.
LEMMA Sent ==
    ASSUME BridgeTyped, NEW g \in Generators, FrameSent(g)
    PROVE  LET e == gen[g].out
               rs == gen[g].rest
               sn == gen[g].seen
           IN
           /\ gen[g].mode \in {"replay", "live"} /\ e \in Id
           /\ shut' \in BOOLEAN /\ connected' \in BOOLEAN
           /\ IF reader = g THEN cursor' = e /\ received' = received \cup {e}
                            ELSE UNCHANGED <<cursor, received>>
           /\ \/ /\ liveQueue' = liveQueue /\ Moves(g, Gone)
                 /\ reader' = IF reader = g THEN NoReader ELSE reader
              \/ /\ rs = {} /\ liveQueue' \in {liveQueue, liveQueue \ sn} /\ Loops(g, sn)
              \/ /\ rs # {} /\ liveQueue' = liveQueue /\ reader' = reader
                 /\ gen[g].mode = "replay"
                 /\ Moves(g, Replaying(Oldest(rs), rs \ {Oldest(rs)}, sn))
<1> DEFINE e == gen[g].out
           rs == gen[g].rest
           sn == gen[g].seen
<1>1. /\ gen[g].mode \in {"replay", "live"} /\ e \in Id /\ rs \in SUBSET Id /\ sn \in SUBSET Id
      /\ gen[g].mode = "live" => rs = {}
      /\ shut \in BOOLEAN /\ connected \in BOOLEAN /\ gen[g].mode # "gone"
  BY DEF FrameSent, BridgeTyped, ReadersTyped, GenRecord, GenShape
<1>2. IF reader = g THEN cursor' = e /\ received' = received \cup {e}
                    ELSE UNCHANGED <<cursor, received>>
  BY DEF FrameSent
<1>3. CASE shut' = TRUE /\ Detach(g) /\ UNCHANGED liveQueue
  BY <1>1, <1>2, <1>3, DetachMoves
<1>4. CASE /\ gen[g].mode = "replay" /\ rs # {}
           /\ Yields(g, "replay", Oldest(rs), rs \ {Oldest(rs)}, sn)
           /\ UNCHANGED <<liveQueue, shut, count, connected, reader>>
  <2> HIDE DEF rs, sn, e
  <2>1. /\ Oldest(rs) \in Id /\ rs \ {Oldest(rs)} \in SUBSET Id
        /\ \A x \in rs \ {Oldest(rs)} : Oldest(rs) < x
    BY <1>1, <1>4, OldestOf
  <2>2. count' = IF gen[g].mode = "gone" THEN count + 1 ELSE count
    BY <1>4
  <2>3. Moves(g, Replaying(Oldest(rs), rs \ {Oldest(rs)}, sn))
    BY <1>1, <1>4, <2>1, <2>2, YieldsMoves DEF Replaying
  <2> QED BY <1>1, <1>2, <1>4, <2>3 DEF rs, sn, e
<1>5. CASE rs = {} /\ liveQueue' \in {liveQueue, liveQueue \ sn} /\ UNCHANGED shut /\ Waits(g, sn)
  <2> HIDE DEF rs, sn, e
  <2>1. connected' \in BOOLEAN /\ Loops(g, sn)
    BY <1>1, <1>5, WaitsMoves DEF Loops
  <2> QED BY <1>1, <1>2, <1>5, <2>1 DEF rs, sn, e
<1>6. \/ shut' = TRUE /\ Detach(g) /\ UNCHANGED liveQueue
      \/ /\ gen[g].mode = "replay" /\ rs # {}
         /\ Yields(g, "replay", Oldest(rs), rs \ {Oldest(rs)}, sn)
         /\ UNCHANGED <<liveQueue, shut, count, connected, reader>>
      \/ rs = {} /\ liveQueue' \in {liveQueue, liveQueue \ sn} /\ UNCHANGED shut /\ Waits(g, sn)
  BY <1>1 DEF FrameSent, DrainReplayed
<1> QED BY <1>3, <1>4, <1>5, <1>6

\* An event that was taken from the queue.
LEMMA Taken ==
    ASSUME BridgeTyped, NEW g \in Generators, Take(g)
    PROVE  LET e == Oldest(liveQueue)
               sn == gen[g].seen
           IN
           /\ gen[g].mode = "waiting" /\ e \in liveQueue /\ \A x \in liveQueue \ {e} : e < x
           /\ liveQueue' = liveQueue \ {e} /\ connected' \in BOOLEAN
           /\ UNCHANGED <<shut, cursor, received>>
           /\ \/ e \in sn /\ Loops(g, sn)
              \/ e \notin sn /\ Moves(g, Delivering(e, sn)) /\ reader' = reader
<1> DEFINE e == Oldest(liveQueue)
           sn == gen[g].seen
<1>1. /\ gen[g].mode = "waiting" /\ sn \in SUBSET Id /\ liveQueue \in SUBSET Id /\ liveQueue # {}
      /\ connected \in BOOLEAN
  BY DEF Take, BridgeTyped, ReadersTyped, ProducerTyped, GenRecord
<1>2. e \in liveQueue /\ e \in Id /\ \A x \in liveQueue \ {e} : e < x
  BY <1>1, OldestOf
<1>3. liveQueue' = liveQueue \ {e} /\ UNCHANGED <<shut, cursor, received>>
  BY DEF Take
<1>4. CASE e \in sn /\ Waits(g, sn)
  <2>1. connected' \in BOOLEAN /\ Loops(g, sn)
    BY <1>1, <1>4, WaitsMoves DEF Loops
  <2> QED BY <1>1, <1>2, <1>3, <1>4, <2>1
<1>5. CASE e \notin sn /\ Yields(g, "live", e, {}, sn) /\ UNCHANGED <<count, connected, reader>>
  <2> HIDE DEF e, sn
  <2>1. count' = IF gen[g].mode = "gone" THEN count + 1 ELSE count
    BY <1>1, <1>5
  <2>2. Moves(g, Delivering(e, sn))
    BY <1>1, <1>2, <1>5, <2>1, YieldsMoves DEF Delivering
  <2> QED BY <1>1, <1>2, <1>3, <1>5, <2>2 DEF e, sn
<1> QED BY <1>4, <1>5 DEF Take

\* Whatever a generator does, the producer's state stays what it is, but for
\* the queue, from which events are removed.
LEMMA QueueShrinks ==
    ASSUME BridgeTyped, UNCHANGED producer, liveQueue' \subseteq liveQueue,
           excused' \subseteq excused \cup liveQueue
    PROVE  /\ ProducerTyped' /\ Newest' = Newest /\ Id' = Id /\ GenRecord' = GenRecord
<1>1. /\ UNCHANGED <<policy, maxHistory, plan, kinds, turn, asked, history, hand>>
  BY DEF producer
<1>2. Newest' = Newest /\ Id' = Id
  BY <1>1 DEF Newest, Id
<1>3. IsFiniteSet(liveQueue) /\ liveQueue' \in SUBSET liveQueue
  BY IdFacts DEF BridgeTyped, ProducerTyped
<1>4. /\ Cardinality(liveQueue') <= Cardinality(liveQueue)
      /\ Cardinality(liveQueue') \in Nat /\ Cardinality(liveQueue) \in Nat
  BY <1>3, FS_Subset, FS_CardinalityType
<1>5. policy' # "none" => Cardinality(liveQueue') <= QueueSize
  BY <1>1, <1>4, BridgeAssumption DEF BridgeTyped, ProducerTyped
<1>6. ProducerTyped'
  BY <1>1, <1>2, <1>5 DEF BridgeTyped, ProducerTyped, Policy
<1> QED BY <1>2, <1>6 DEF GenRecord

LEMMA MovedTypes ==
    ASSUME BridgeTyped, NEW g \in Generators, NEW new, Moves(g, new),
           UNCHANGED producer, liveQueue' \subseteq liveQueue,
           excused' \subseteq excused \cup liveQueue,
           shut' \in BOOLEAN, connected' \in BOOLEAN, told' \in BOOLEAN,
           reader' \in {NoReader, reader, g}, reader' = g => new.mode # "gone",
           \/ UNCHANGED <<cursor, received>>
           \/ \E e \in Id : cursor' = e /\ received' = received \cup {e}
    PROVE  BridgeTyped'
<1>1. ProducerTyped' /\ Newest' = Newest /\ Id' = Id /\ GenRecord' = GenRecord
  BY QueueShrinks
<1>2. count' \in Nat /\ count' <= Cardinality(Attached')
  BY CountFollows DEF BridgeTyped
<1>3. /\ new \in GenRecord /\ GenShape(new) /\ gen' = [gen EXCEPT ![g] = new]
      /\ gen \in [Generators -> GenRecord]
  BY DEF Moves, BridgeTyped, ReadersTyped
<1>4. gen' \in [Generators -> GenRecord]
  BY <1>3
<1>5. \A h \in Generators : GenShape(gen[h])'
  <2> TAKE h \in Generators
  <2>1. GenShape(gen[h])
    BY DEF BridgeTyped, ReadersTyped
  <2>2. gen'[h] = IF h = g THEN new ELSE gen[h]
    BY <1>3
  <2> QED BY <1>1, <1>3, <2>1, <2>2 DEF GenShape
<1>6. reader' \in Generators \cup {NoReader} /\ (reader' # NoReader => gen'[reader'].mode # "gone")
  <2>1. reader \in Generators \cup {NoReader} /\ (reader # NoReader => gen[reader].mode # "gone")
    BY DEF BridgeTyped, ReadersTyped
  <2>2. \A h \in Generators : gen'[h] = IF h = g THEN new ELSE gen[h]
    BY <1>3
  <2> QED BY <2>1, <2>2
<1>7. /\ cursor' \in 0 .. Newest /\ received' \subseteq Id /\ (cursor' = 0 => received' = {})
      /\ (cursor' # 0 => cursor' \in received')
  <2>1. /\ cursor \in 0 .. Newest /\ received \subseteq Id /\ (cursor = 0 => received = {})
        /\ (cursor # 0 => cursor \in received)
    BY DEF BridgeTyped, ReadersTyped
  <2>2. \A e \in Id : e \in 0 .. Newest /\ e # 0
    BY IdFacts DEF BridgeTyped, ProducerTyped, Id
  <2>3. CASE UNCHANGED <<cursor, received>>
    BY <2>1, <2>3
  <2>4. CASE \E e \in Id : cursor' = e /\ received' = received \cup {e}
    BY <2>1, <2>2, <2>4
  <2> QED BY <2>3, <2>4
<1> QED BY <1>1, <1>2, <1>4, <1>5, <1>6, <1>7 DEF BridgeTyped, ReadersTyped

\* The same when a connection ended before it was attached.
LEMMA UnmovedTypes ==
    ASSUME BridgeTyped, UNCHANGED producer, liveQueue' \subseteq liveQueue,
           excused' \subseteq excused \cup liveQueue, UNCHANGED <<gen, count>>,
           shut' \in BOOLEAN, connected' \in BOOLEAN, told' \in BOOLEAN,
           reader' \in {NoReader, reader}, UNCHANGED <<cursor, received>>
    PROVE  BridgeTyped'
<1>1. ProducerTyped' /\ Newest' = Newest /\ Id' = Id /\ GenRecord' = GenRecord
  BY QueueShrinks
<1>2. Attached' = Attached /\ \A h \in Generators : GenShape(gen[h])' = GenShape(gen[h])
  BY <1>1 DEF Attached, GenShape
<1> QED BY <1>1, <1>2 DEF BridgeTyped, ReadersTyped

LEMMA StolenFromQueue ==
    ASSUME NEW g, Steals(g)
    PROVE  /\ excused \subseteq excused' /\ excused' \subseteq excused \cup liveQueue
           /\ reader \notin {g, NoReader} => liveQueue \ liveQueue' \subseteq excused'
           /\ reader = g => excused' = excused
BY DEF Steals

LEMMA LoopsTypes ==
    ASSUME BridgeTyped, NEW g \in Generators, gen[g].mode # "gone", Loops(g, gen[g].seen),
           UNCHANGED <<producer, told>>, liveQueue' \subseteq liveQueue,
           excused' \subseteq excused \cup liveQueue,
           shut' \in BOOLEAN, connected' \in BOOLEAN,
           \/ UNCHANGED <<cursor, received>>
           \/ \E e \in Id : cursor' = e /\ received' = received \cup {e}
    PROVE  BridgeTyped'
<1>1. told' \in BOOLEAN /\ NoReader \notin Generators
  BY BridgeAssumption DEF BridgeTyped, ReadersTyped, NoReader
<1>2. CASE Moves(g, Gone) /\ reader' = IF reader = g THEN NoReader ELSE reader
  <2>1. reader' \in {NoReader, reader, g} /\ reader' # g
    BY <1>1, <1>2
  <2> QED BY <1>1, <1>2, <2>1, MovedTypes
<1>3. CASE Moves(g, Waiting(gen[g].seen)) /\ reader' = reader
  <2>1. Waiting(gen[g].seen).mode # "gone"
    BY WaitingFacts
  <2> QED BY <1>1, <1>3, <2>1, MovedTypes
<1> QED BY <1>2, <1>3 DEF Loops

LEMMA GeneratorTypes ==
    ASSUME BridgeTyped, NEW g \in Generators,
           BrowserConnects(g) \/ OtherConnects(g) \/ GeneratorStep(g)
    PROVE  BridgeTyped'
<1>0. NoReader \notin Generators /\ told \in BOOLEAN
  BY BridgeAssumption DEF NoReader, BridgeTyped, ReadersTyped
<1>1. CASE BrowserConnects(g)
  <2> DEFINE tail == AfterCursor(cursor)
  <2>1. UNCHANGED producer /\ excused' = excused /\ UNCHANGED <<cursor, received>> /\ reader = NoReader
        /\ reader' = (IF gen'[g].mode = "gone" THEN NoReader ELSE g) /\ told' \in BOOLEAN
    BY <1>0, <1>1 DEF BrowserConnects
  <2>2. shut' \in BOOLEAN /\ connected' \in BOOLEAN /\ gen[g].mode = "gone"
    BY <1>1, Subscribed DEF BrowserConnects
  <2>3. CASE \E new : Moves(g, new) /\ liveQueue' \subseteq liveQueue
    <3>1. PICK new : Moves(g, new) /\ liveQueue' \subseteq liveQueue
      BY <2>3
    <3>2. gen'[g] = new
      BY <3>1 DEF Moves, BridgeTyped, ReadersTyped
    <3>3. reader' \in {NoReader, reader, g} /\ (reader' = g => new.mode # "gone")
      BY <1>0, <2>1, <3>2
    <3> QED BY <2>1, <2>2, <3>1, <3>3, MovedTypes
  <2>4. CASE liveQueue' \subseteq liveQueue /\ gen' = gen /\ count' = count
    BY <2>1, <2>2, <2>4, UnmovedTypes
  <2>5. (\E new : Moves(g, new) /\ liveQueue' \subseteq liveQueue)
        \/ (liveQueue' \subseteq liveQueue /\ gen' = gen /\ count' = count)
    BY <1>1, Subscribed DEF BrowserConnects
  <2> QED BY <2>3, <2>4, <2>5
<1>2. CASE OtherConnects(g)
  <2>1. UNCHANGED <<producer, browser>> /\ excused' \subseteq excused \cup liveQueue
    BY <1>2, StolenFromQueue DEF OtherConnects
  <2>2. shut' \in BOOLEAN /\ connected' \in BOOLEAN /\ gen[g].mode = "gone"
    BY <1>2, Subscribed DEF OtherConnects
  <2>3. reader # g /\ UNCHANGED <<cursor, received, told, reader>>
    BY <1>0, <2>1, <2>2 DEF browser, BridgeTyped, ReadersTyped
  <2>4. CASE \E new : Moves(g, new) /\ liveQueue' \subseteq liveQueue
    <3>1. PICK new : Moves(g, new) /\ liveQueue' \subseteq liveQueue
      BY <2>4
    <3> QED BY <1>0, <2>1, <2>2, <2>3, <3>1, MovedTypes
  <2>5. CASE liveQueue' \subseteq liveQueue /\ gen' = gen /\ count' = count
    BY <1>0, <2>1, <2>2, <2>3, <2>5, UnmovedTypes
  <2>6. (\E new : Moves(g, new) /\ liveQueue' \subseteq liveQueue)
        \/ (liveQueue' \subseteq liveQueue /\ gen' = gen /\ count' = count)
    BY <1>2, Subscribed DEF OtherConnects
  <2> QED BY <2>4, <2>5, <2>6
<1>3. CASE FrameSent(g)
  <2> DEFINE e == gen[g].out
             rs == gen[g].rest
             sn == gen[g].seen
  <2>1. UNCHANGED <<producer, told>> /\ excused' \subseteq excused \cup liveQueue
    BY <1>3, StolenFromQueue DEF FrameSent
  <2>2. /\ gen[g].mode # "gone" /\ e \in Id /\ shut' \in BOOLEAN /\ connected' \in BOOLEAN
        /\ \/ UNCHANGED <<cursor, received>>
           \/ \E x \in Id : cursor' = x /\ received' = received \cup {x}
        /\ \/ liveQueue' = liveQueue /\ Moves(g, Gone) /\ reader' = IF reader = g THEN NoReader ELSE reader
           \/ liveQueue' \subseteq liveQueue /\ Loops(g, sn)
           \/ /\ liveQueue' = liveQueue /\ reader' = reader
              /\ Moves(g, Replaying(Oldest(rs), rs \ {Oldest(rs)}, sn))
    BY <1>3, Sent
  <2>3. CASE liveQueue' \subseteq liveQueue /\ Loops(g, sn)
    BY <2>1, <2>2, <2>3, LoopsTypes
  <2>4. CASE /\ liveQueue' = liveQueue /\ reader' = reader
             /\ Moves(g, Replaying(Oldest(rs), rs \ {Oldest(rs)}, sn))
    <3>1. Replaying(Oldest(rs), rs \ {Oldest(rs)}, sn).mode # "gone"
      BY DEF Replaying
    <3> QED BY <1>0, <2>1, <2>2, <2>4, <3>1, MovedTypes
  <2>5. CASE liveQueue' = liveQueue /\ Moves(g, Gone) /\ reader' = IF reader = g THEN NoReader ELSE reader
    BY <2>1, <2>2, <2>5, LoopsTypes DEF Loops
  <2> QED BY <2>2, <2>3, <2>4, <2>5
<1>4. CASE Take(g)
  <2> DEFINE e == Oldest(liveQueue)
             sn == gen[g].seen
  <2>1. UNCHANGED <<producer, told, shut, cursor, received>> /\ excused' \subseteq excused \cup liveQueue
        /\ shut' \in BOOLEAN
    BY <1>4, StolenFromQueue DEF Take, BridgeTyped, ReadersTyped
  <2>2. /\ gen[g].mode # "gone" /\ connected' \in BOOLEAN /\ liveQueue' \subseteq liveQueue
        /\ Loops(g, sn) \/ (Moves(g, Delivering(e, sn)) /\ reader' = reader)
    BY <1>4, Taken
  <2>3. CASE Loops(g, sn)
    BY <2>1, <2>2, <2>3, LoopsTypes
  <2>4. CASE Moves(g, Delivering(e, sn)) /\ reader' = reader
    <3>1. Delivering(e, sn).mode # "gone"
      BY DEF Delivering
    <3> QED BY <1>0, <2>1, <2>2, <2>4, <3>1, MovedTypes
  <2> QED BY <2>2, <2>3, <2>4
<1>5. CASE Heartbeat(g) \/ Disconnect(g)
  <2>1. /\ gen[g].mode # "gone" /\ Detach(g)
        /\ UNCHANGED <<producer, liveQueue, shut, cursor, received, told, excused, mishaps>>
    BY <1>5 DEF Heartbeat, Disconnect
  <2>2. Loops(g, gen[g].seen) /\ connected' \in BOOLEAN
    BY <2>1, DetachMoves DEF Loops
  <2>3. shut' \in BOOLEAN /\ liveQueue' \subseteq liveQueue /\ excused' \subseteq excused \cup liveQueue
    BY <2>1 DEF BridgeTyped, ReadersTyped
  <2> QED BY <2>1, <2>2, <2>3, LoopsTypes
<1> QED BY <1>1, <1>2, <1>3, <1>4, <1>5 DEF GeneratorStep

LEMMA LostTypes ==
    ASSUME BridgeTyped, ConnectionLost
    PROVE  BridgeTyped'
BY UnmovedTypes DEF ConnectionLost, BridgeTyped, ReadersTyped

LEMMA StuckTypes ==
    ASSUME BridgeTyped, UNCHANGED bridgeVars
    PROVE  BridgeTyped'
BY UnmovedTypes DEF bridgeVars, browser, BridgeTyped, ReadersTyped

\* The types of the bridge.
THEOREM BridgeTypes == EventSpec => []BridgeTyped
<1>1. BridgeTyped /\ [EventNext]_bridgeVars => BridgeTyped'
  BY EmitTypes, ProducerTypes, GeneratorTypes, LostTypes, StuckTypes DEF EventNext
<1> QED BY <1>1, InitBridgeTyped, PTL DEF EventSpec

-----------------------------------------------------------------------------
(* The order in which the browser receives.                                *)

\* Events on their way into the queue or in it, events that the browser's
\* generator is about to send, and events that are behind the browser: it
\* remembers all it received until it is told that its cursor aged out.
Coming == liveQueue \cup (IF hand # "idle" THEN {Newest} ELSE {})
Ahead == ({gen[reader].out} \ {0}) \cup gen[reader].rest
Past == IF told THEN {cursor} \cap history ELSE received

InOrder ==
    /\ cursor \in history => \A x \in Past : x <= cursor
    /\ reader # NoReader =>
          /\ gen[reader].mode = "replay" => \A a \in Ahead, x \in Past : x < a
          /\ gen[reader].mode = "live" /\ gen[reader].out \in history
                => \A x \in Past : x < gen[reader].out
          /\ \A y \in (Coming \cap history) \ gen[reader].seen :
                \A x \in Past \cup Ahead : x < y

LEMMA EventNumbers ==
    ASSUME BridgeTyped
    PROVE  /\ Past \in SUBSET Id /\ Coming \in SUBSET Id /\ Id \subseteq Nat /\ Newest \in Nat
           /\ reader # NoReader => Ahead \in SUBSET Id /\ gen[reader].seen \in SUBSET Id
           /\ cursor \in Nat /\ 0 \notin Id /\ 0 \notin history
<1>1. Id \subseteq Nat \ {0} /\ Newest \in Nat
  BY IdFacts DEF BridgeTyped, ProducerTyped
<1>2. Past \in SUBSET Id /\ Coming \in SUBSET Id /\ 0 \notin history
  BY <1>1 DEF Past, Coming, BridgeTyped, ProducerTyped, ReadersTyped
<1>3. ASSUME reader # NoReader PROVE Ahead \in SUBSET Id /\ gen[reader].seen \in SUBSET Id
  <2>1. gen[reader] \in GenRecord /\ GenShape(gen[reader])
    BY <1>3 DEF BridgeTyped, ReadersTyped
  <2> QED BY <2>1 DEF Ahead, GenRecord, GenShape
<1>4. cursor \in Nat
  BY <1>1 DEF BridgeTyped, ReadersTyped
<1> QED BY <1>1, <1>2, <1>3, <1>4

\* A step that the browser does not see: new events are newer than all.
LEMMA OrderUntouched ==
    ASSUME BridgeTyped, InOrder, UNCHANGED <<cursor, received, told>>,
           reader' \in {reader, NoReader}, reader' # NoReader => gen'[reader] = gen[reader],
           NEW fresh, \A f \in fresh : \A e \in Id \cup {cursor} : e < f,
           cursor \notin fresh,
           history' \subseteq history \cup fresh, Coming' \subseteq Coming \cup fresh
    PROVE  InOrder'
<1> USE EventNumbers
<1>1. Past' \subseteq Past
  BY DEF Past
<1>2. cursor' \in history' => \A x \in Past' : x <= cursor'
  BY <1>1 DEF InOrder
<1>3. ASSUME reader' # NoReader
      PROVE  /\ gen'[reader'].mode = "replay" => \A a \in Ahead', x \in Past' : x < a
             /\ gen'[reader'].mode = "live" /\ gen'[reader'].out \in history'
                   => \A x \in Past' : x < gen'[reader'].out
             /\ \A y \in (Coming' \cap history') \ gen'[reader'].seen :
                   \A x \in Past' \cup Ahead' : x < y
  <2>1. reader' = reader /\ gen'[reader'] = gen[reader] /\ Ahead' = Ahead /\ reader # NoReader
    BY <1>3 DEF Ahead
  <2>2. gen[reader].mode = "replay" => \A a \in Ahead', x \in Past' : x < a
    BY <1>1, <2>1 DEF InOrder
  <2>3. gen[reader].mode = "live" /\ gen[reader].out \in history' => \A x \in Past' : x < gen[reader].out
    <3>1. gen[reader].mode = "live" => gen[reader].out \in Id
      BY <2>1 DEF BridgeTyped, ReadersTyped, GenShape
    <3> QED BY <1>1, <2>1, <3>1 DEF InOrder
  <2>4. ASSUME NEW y \in (Coming' \cap history') \ gen[reader].seen, NEW x \in Past \cup Ahead PROVE x < y
    <3>1. CASE y \in fresh
      BY <2>1, <2>4, <3>1
    <3>2. CASE y \in (Coming \cap history) \ gen[reader].seen
      BY <2>1, <2>4, <3>2 DEF InOrder
    <3>3. CASE y \in (Coming \cup history) \ fresh
      BY <2>1, <2>4, <3>2, <3>3
    <3> QED BY <2>4, <3>1, <3>2, <3>3
  <2> QED BY <1>1, <2>1, <2>2, <2>3, <2>4
<1> QED BY <1>2, <1>3 DEF InOrder

\* A frame reaches the browser, and its generator goes on with what it had.
LEMMA OrderSent ==
    ASSUME BridgeTyped, InOrder, reader # NoReader, FrameSent(reader)
    PROVE  InOrder'
<1> DEFINE g == reader
           e == gen[reader].out
           rs == gen[reader].rest
           sn == gen[reader].seen
<1>0. reader \in Generators /\ NoReader \notin Generators
  BY BridgeAssumption DEF BridgeTyped, ReadersTyped, NoReader
<1>1. /\ gen[reader].mode \in {"replay", "live"} /\ e \in Id /\ cursor' = e /\ received' = received \cup {e}
      /\ told' = told /\ UNCHANGED <<history, hand, kinds>> /\ liveQueue' \subseteq liveQueue
  BY <1>0, Sent DEF FrameSent, producer
<1>2. /\ gen[reader] \in GenRecord /\ GenShape(gen[reader]) /\ gen \in [Generators -> GenRecord]
      /\ rs \in SUBSET Id /\ (\A x \in rs : e < x)
      /\ Ahead = {e} \cup rs /\ e # 0
  BY <1>0, <1>1, EventNumbers DEF BridgeTyped, ReadersTyped, GenRecord, GenShape, Ahead
<1>3. Past' \subseteq Past \cup {e} /\ Coming' \subseteq Coming /\ e \in Past' \cup {e}
  BY <1>1 DEF Past, Coming, Newest
<1>4. e \in history => \A x \in Past : x < e
  BY <1>1, <1>2 DEF InOrder
<1>5. cursor' \in history' => \A x \in Past' : x <= cursor'
  <2>1. \A x \in Past \cup {e} : x \in Nat
    BY <1>1, EventNumbers
  <2> QED BY <1>1, <1>3, <1>4, <2>1
<1>6. ASSUME NEW y \in (Coming' \cap history') \ sn, NEW x \in Past' \cup Ahead PROVE x < y
  BY <1>1, <1>2, <1>3, <1>6 DEF InOrder
<1>7. CASE reader' = NoReader
  BY <1>5, <1>7 DEF InOrder
<1>8. CASE rs = {} /\ Moves(g, Waiting(sn)) /\ reader' = reader
  <2>1. gen'[reader] = Waiting(sn)
    BY <1>0, <1>2, <1>8 DEF Moves
  <2>2. Ahead' = {} /\ gen'[reader'].mode = "waiting" /\ gen'[reader'].seen = sn
    BY <1>8, <2>1, WaitingFacts DEF Ahead
  <2> QED BY <1>5, <1>6, <2>2 DEF InOrder
<1>9. CASE rs # {} /\ reader' = reader /\ Moves(g, Replaying(Oldest(rs), rs \ {Oldest(rs)}, sn))
           /\ gen[reader].mode = "replay"
  <2> HIDE DEF rs, sn
  <2>1. gen'[reader'] = Replaying(Oldest(rs), rs \ {Oldest(rs)}, sn)
    BY <1>0, <1>2, <1>9 DEF Moves
  <2>2. Oldest(rs) \in rs
    BY <1>2, <1>9, OldestOf
  <2>3. /\ gen'[reader'].mode = "replay" /\ gen'[reader'].out = Oldest(rs) /\ gen'[reader'].seen = sn
        /\ gen'[reader'].rest = rs \ {Oldest(rs)}
    BY <2>1 DEF Replaying
  <2>4. Ahead' \subseteq rs
    BY <2>2, <2>3 DEF Ahead
  <2>5. \A a \in rs, x \in Past \cup {e} : x < a
    BY <1>0, <1>2, <1>9 DEF InOrder
  <2> QED BY <1>2, <1>3, <1>5, <1>6, <2>3, <2>4, <2>5 DEF InOrder, sn
<1>10. reader' = NoReader
       \/ (rs = {} /\ Moves(g, Waiting(sn)) /\ reader' = reader)
       \/ (rs # {} /\ reader' = reader /\ Moves(g, Replaying(Oldest(rs), rs \ {Oldest(rs)}, sn))
           /\ gen[reader].mode = "replay")
  BY <1>0, Sent DEF Loops
<1> QED BY <1>7, <1>8, <1>9, <1>10

\* The browser's generator takes an event, or skips one it has replayed.
LEMMA OrderTaken ==
    ASSUME BridgeTyped, InOrder, reader # NoReader, Take(reader)
    PROVE  InOrder'
<1> DEFINE g == reader
           e == Oldest(liveQueue)
           sn == gen[reader].seen
<1>0. reader \in Generators /\ NoReader \notin Generators /\ gen \in [Generators -> GenRecord]
  BY BridgeAssumption DEF BridgeTyped, ReadersTyped, NoReader
<1>1. /\ e \in liveQueue /\ (\A x \in liveQueue \ {e} : e < x) /\ liveQueue' = liveQueue \ {e}
      /\ UNCHANGED <<cursor, received, told, history, hand, kinds>>
  BY <1>0, Taken DEF Take, producer
<1>2. Past' = Past /\ Coming' \subseteq Coming
  BY <1>1 DEF Past, Coming, Newest
<1>3. \A y \in Coming' : e < y
  BY <1>1 DEF Coming, Newest, BridgeTyped, ProducerTyped
<1>4. cursor' \in history' => \A x \in Past' : x <= cursor'
  BY <1>1, <1>2 DEF InOrder
<1>5. \A y \in (Coming' \cap history') \ sn : \A x \in Past : x < y
  BY <1>1, <1>2 DEF InOrder
<1>6. CASE reader' = NoReader
  BY <1>4, <1>6 DEF InOrder
<1>7. CASE Moves(g, Waiting(sn)) /\ reader' = reader
  <2>1. gen'[reader] = Waiting(sn)
    BY <1>0, <1>7 DEF Moves
  <2>2. Ahead' = {} /\ gen'[reader'].mode = "waiting" /\ gen'[reader'].seen = sn
    BY <1>7, <2>1, WaitingFacts DEF Ahead
  <2> QED BY <1>2, <1>4, <1>5, <2>2 DEF InOrder
<1>8. CASE e \notin sn /\ Moves(g, Delivering(e, sn)) /\ reader' = reader
  <2> HIDE DEF e, sn
  <2>1. gen'[reader'] = Delivering(e, sn)
    BY <1>0, <1>8 DEF Moves
  <2>2. /\ gen'[reader'].mode = "live" /\ gen'[reader'].out = e /\ gen'[reader'].seen = sn
        /\ Ahead' \subseteq {e}
    BY <2>1 DEF Delivering, Ahead
  <2>3. e \in history => \A x \in Past : x < e
    BY <1>1, <1>8 DEF InOrder, Coming, sn
  <2> QED BY <1>1, <1>2, <1>3, <1>4, <1>5, <2>2, <2>3 DEF InOrder
<1>9. reader' = NoReader \/ (Moves(g, Waiting(sn)) /\ reader' = reader)
      \/ (e \notin sn /\ Moves(g, Delivering(e, sn)) /\ reader' = reader)
  BY <1>0, Taken DEF Loops
<1> QED BY <1>6, <1>7, <1>8, <1>9

LEMMA AfterCursorFacts ==
    ASSUME BridgeTyped
    PROVE  /\ AfterCursor(cursor) \in SUBSET history
           /\ cursor \in history => \A e \in history : e \in AfterCursor(cursor) <=> e > cursor
           /\ cursor \notin history => AfterCursor(cursor) = history
BY DEF AfterCursor

LEMMA OrderConnected ==
    ASSUME BridgeTyped, InOrder, NEW g \in Generators, BrowserConnects(g)
    PROVE  InOrder'
<1> DEFINE tail == AfterCursor(cursor)
<1>0. NoReader \notin Generators /\ gen \in [Generators -> GenRecord] /\ g # NoReader
  BY BridgeAssumption DEF BridgeTyped, ReadersTyped, NoReader
<1>1. /\ UNCHANGED <<cursor, received, history, hand, kinds>>
      /\ reader' = (IF gen'[g].mode = "gone" THEN NoReader ELSE g)
      /\ told' = (told \/ (cursor # 0 /\ cursor \notin history))
  BY DEF BrowserConnects, producer
<1>2. cursor \in history => Past' = Past
  BY <1>1 DEF Past
<1>3. cursor \notin history => Past' = {}
  BY <1>1 DEF Past, BridgeTyped, ReadersTyped
<1>4. cursor' \in history' => \A x \in Past' : x <= cursor'
  BY <1>1, <1>2 DEF InOrder
<1>5. \A a \in tail, x \in Past' : x < a
  <2> TAKE a \in tail, x \in Past'
  <2>1. cursor \in history /\ x \in Past
    BY <1>2, <1>3
  <2>2. x <= cursor /\ a > cursor /\ x \in Nat /\ a \in Nat /\ cursor \in Nat
    BY <2>1, AfterCursorFacts, EventNumbers DEF InOrder, BridgeTyped, ProducerTyped
  <2> QED BY <2>2
<1>6. CASE reader' = NoReader
  BY <1>4, <1>6 DEF InOrder
<1>7. CASE tail # {} /\ Moves(g, Replaying(Oldest(tail), tail \ {Oldest(tail)}, history))
  <2> HIDE DEF tail
  <2>1. gen'[g] = Replaying(Oldest(tail), tail \ {Oldest(tail)}, history)
    BY <1>0, <1>7 DEF Moves
  <2>2. /\ gen'[g].mode = "replay" /\ gen'[g].seen = history /\ reader' = g
        /\ gen'[g].out = Oldest(tail) /\ gen'[g].rest = tail \ {Oldest(tail)}
    BY <1>1, <2>1 DEF Replaying
  <2>3. tail \in SUBSET Id
    BY AfterCursorFacts DEF tail, BridgeTyped, ProducerTyped
  <2>4. Oldest(tail) \in tail
    BY <1>7, <2>3, OldestOf
  <2>5. Ahead' \subseteq tail
    BY <2>2, <2>4 DEF Ahead
  <2> QED BY <1>1, <1>4, <1>5, <2>2, <2>5 DEF InOrder
<1>8. CASE Moves(g, Waiting(history))
  <2>1. gen'[g] = Waiting(history)
    BY <1>0, <1>8 DEF Moves
  <2>2. gen'[g].mode = "waiting" /\ gen'[g].seen = history /\ reader' = g
    BY <1>1, <2>1, WaitingFacts
  <2> QED BY <1>1, <1>4, <2>2 DEF InOrder
<1>9. CASE gen' = gen
  BY <1>1, <1>6, <1>9, Subscribed DEF BrowserConnects
<1> QED BY <1>7, <1>8, <1>9, Subscribed DEF BrowserConnects

\* A generator that the browser does not read moves: the browser and its own
\* generator stay where they are, and what the queue loses is accounted for.
LEMMA StrangerMoves ==
    ASSUME BridgeTyped, NEW g \in Generators, OtherConnects(g) \/ GeneratorStep(g), reader # g
    PROVE  /\ UNCHANGED <<cursor, received, told, reader, history, hand, kinds, turn, maxHistory>>
           /\ reader # NoReader => gen'[reader] = gen[reader]
           /\ Coming' \subseteq Coming
           /\ excused \subseteq excused'
           /\ reader # NoReader => Coming \subseteq Coming' \cup excused'
<1>1. UNCHANGED producer
  BY DEF OtherConnects, GeneratorStep, FrameSent, Take, Heartbeat, Disconnect
<1>2. UNCHANGED <<history, hand, kinds, turn, maxHistory, Newest>>
  BY <1>1 DEF producer, Newest
<1>3. UNCHANGED <<cursor, received, told, reader>> /\ gen \in [Generators -> GenRecord]
      /\ (reader # NoReader => reader \in Generators)
  <2>1. CASE OtherConnects(g)
    BY <2>1 DEF OtherConnects, browser, BridgeTyped, ReadersTyped
  <2>2. CASE FrameSent(g)
    <3>1. reader' = reader
      BY <2>2, Sent DEF Loops
    <3>2. UNCHANGED <<cursor, received>>
      BY <2>2, Sent
    <3>3. told' = told
      BY <2>2 DEF FrameSent
    <3> QED BY <3>1, <3>2, <3>3 DEF BridgeTyped, ReadersTyped
  <2>3. CASE Take(g)
    <3>1. reader' = reader /\ UNCHANGED <<cursor, received>>
      BY <2>3, Taken DEF Loops
    <3> QED BY <2>3, <3>1 DEF Take, BridgeTyped, ReadersTyped
  <2>4. CASE Heartbeat(g) \/ Disconnect(g)
    BY <2>4 DEF Heartbeat, Disconnect, Detach, BridgeTyped, ReadersTyped
  <2> QED BY <2>1, <2>2, <2>3, <2>4 DEF GeneratorStep
<1>4. gen' = gen \/ \E new : gen' = [gen EXCEPT ![g] = new]
  <2>1. CASE OtherConnects(g)
    BY <2>1, Subscribed DEF OtherConnects, Moves
  <2>2. CASE FrameSent(g)
    BY <2>2, Sent DEF Loops, Moves
  <2>3. CASE Take(g)
    BY <2>3, Taken DEF Loops, Moves
  <2>4. CASE Heartbeat(g) \/ Disconnect(g)
    BY <2>4 DEF Heartbeat, Disconnect, Detach
  <2> QED BY <2>1, <2>2, <2>3, <2>4 DEF GeneratorStep
<1>5. liveQueue' \subseteq liveQueue
  <2>1. CASE OtherConnects(g)
    BY <2>1, Subscribed DEF OtherConnects
  <2>2. CASE FrameSent(g)
    BY <2>2, Sent
  <2>3. CASE Take(g)
    BY <2>3, Taken
  <2>4. CASE Heartbeat(g) \/ Disconnect(g)
    BY <2>4 DEF Heartbeat, Disconnect
  <2> QED BY <2>1, <2>2, <2>3, <2>4 DEF GeneratorStep
<1>6. /\ excused \subseteq excused'
      /\ reader # NoReader => liveQueue \ liveQueue' \subseteq excused'
  BY StolenFromQueue DEF OtherConnects, GeneratorStep, FrameSent, Take, Heartbeat, Disconnect
<1> QED BY <1>2, <1>3, <1>4, <1>5, <1>6 DEF Coming

\* What the producer does to the events on their way.
LEMMA ProducerComing ==
    ASSUME BridgeTyped, ObserverRaises \/ PutEnds \/ Close
    PROVE  /\ UNCHANGED <<browser, gen, history, kinds, turn, maxHistory>>
           /\ Coming' \subseteq Coming /\ excused \subseteq excused'
           /\ Coming \subseteq Coming' \cup excused'
<1>1. UNCHANGED <<browser, gen, history, kinds, turn, maxHistory>>
  BY DEF ObserverRaises, PutEnds, Enqueue, BlockedPutEnds, Close, producer
<1>2. Newest' = Newest
  BY <1>1 DEF Newest
<1> QED BY <1>1, <1>2 DEF ObserverRaises, PutEnds, Enqueue, BlockedPutEnds, Close, producer, Coming

LEMMA EmittedNumber ==
    ASSUME BridgeTyped, Emit
    PROVE  /\ UNCHANGED <<browser, gen, liveQueue, excused, turn, maxHistory, shut>>
           /\ \/ UNCHANGED <<kinds, history, hand, Coming>>
              \/ \E k \in Kind :
                 /\ kinds' = Append(kinds, k)
                 /\ history' = Evict(history \cup {Newest + 1}, kinds')
                 /\ history' \subseteq history \cup {Newest + 1}
                 /\ Newest' = Newest + 1 /\ Id' = Id \cup {Newest + 1}
                 /\ Coming' = Coming \cup {Newest + 1}
                 /\ \A e \in Id \cup {cursor} : e < Newest + 1
<1>1. /\ UNCHANGED <<browser, gen, liveQueue, excused, turn, maxHistory, shut>>
      /\ hand = "idle" /\ Head(plan) \in Kind
  BY DEF Emit, BridgeTyped, ProducerTyped
<1>2. CASE UNCHANGED <<kinds, history, hand>>
  BY <1>1, <1>2 DEF Coming, Newest
<1>3. CASE /\ kinds' = Append(kinds, Head(plan)) /\ hand' = "observing"
           /\ history' = Evict(history \cup {Newest + 1}, kinds')
  <2>1. Newest' = Newest + 1 /\ Id' = Id \cup {Newest + 1} /\ \A e \in Id : e < Newest + 1
    BY <1>1, <1>3, Appended DEF BridgeTyped, ProducerTyped
  <2>2. history' \subseteq history \cup {Newest + 1}
    BY <1>3 DEF Evict
  <2>3. Coming' = Coming \cup {Newest + 1}
    BY <1>1, <1>3, <2>1 DEF Coming
  <2>4. cursor < Newest + 1
    <3>1. Newest \in Nat
      BY IdFacts DEF BridgeTyped, ProducerTyped
    <3> QED BY <3>1 DEF BridgeTyped, ReadersTyped
  <2> QED BY <1>1, <1>3, <2>1, <2>2, <2>3, <2>4
<1> QED BY <1>1, <1>2, <1>3 DEF Emit

LEMMA OrderKept ==
    ASSUME BridgeTyped, InOrder, [EventNext]_bridgeVars
    PROVE  InOrder'
<1>1. CASE Emit
  <2>1. UNCHANGED <<cursor, received, told, reader, gen>>
    BY <1>1, EmittedNumber DEF browser
  <2>2. CASE UNCHANGED <<kinds, history, hand, Coming>>
    <3> DEFINE fresh == {}
    <3>1. /\ \A f \in fresh : \A e \in Id \cup {cursor} : e < f
          /\ cursor \notin fresh /\ history' \subseteq history \cup fresh /\ Coming' \subseteq Coming \cup fresh
      BY <2>2
    <3> HIDE DEF fresh
    <3> QED BY <2>1, <3>1, OrderUntouched
  <2>3. CASE /\ history' \subseteq history \cup {Newest + 1} /\ Coming' = Coming \cup {Newest + 1}
             /\ \A e \in Id \cup {cursor} : e < Newest + 1
    <3> DEFINE fresh == {Newest + 1}
    <3>1. cursor \in Nat /\ Newest \in Nat /\ cursor < Newest + 1
      BY <2>3, EventNumbers
    <3>2. /\ \A f \in fresh : \A e \in Id \cup {cursor} : e < f
          /\ cursor \notin fresh /\ history' \subseteq history \cup fresh /\ Coming' \subseteq Coming \cup fresh
      BY <2>3, <3>1
    <3> HIDE DEF fresh
    <3> QED BY <2>1, <3>2, OrderUntouched
  <2> QED BY <1>1, <2>2, <2>3, EmittedNumber
<1>2. CASE /\ UNCHANGED <<cursor, received, told>> /\ reader' \in {reader, NoReader}
           /\ reader' # NoReader => gen'[reader] = gen[reader]
           /\ history' \subseteq history /\ Coming' \subseteq Coming
  <2> DEFINE fresh == {}
  <2>1. /\ \A f \in fresh : \A e \in Id \cup {cursor} : e < f
        /\ cursor \notin fresh /\ history' \subseteq history \cup fresh /\ Coming' \subseteq Coming \cup fresh
    BY <1>2
  <2> HIDE DEF fresh
  <2> QED BY <1>2, <2>1, OrderUntouched
<1>3. CASE ObserverRaises \/ PutEnds \/ Close
  BY <1>2, <1>3, ProducerComing DEF browser
<1>4. CASE Reopen
  <2>1. UNCHANGED <<browser, gen>> /\ history' = {} /\ Coming' = {}
    BY <1>4 DEF Reopen, Coming
  <2> QED BY <1>2, <2>1 DEF browser
<1>5. CASE ConnectionLost \/ UNCHANGED bridgeVars
  BY <1>2, <1>5 DEF ConnectionLost, bridgeVars, browser, producer, Coming, Newest
<1>6. ASSUME NEW g \in Generators, OtherConnects(g) \/ GeneratorStep(g), reader # g PROVE InOrder'
  BY <1>2, <1>6, StrangerMoves
<1>7. ASSUME NEW g \in Generators, GeneratorStep(g), reader = g PROVE InOrder'
  <2>1. reader # NoReader
    BY <1>7, BridgeAssumption DEF NoReader
  <2>2. CASE FrameSent(g)
    BY <1>7, <2>1, <2>2, OrderSent
  <2>3. CASE Take(g)
    BY <1>7, <2>1, <2>3, OrderTaken
  <2>4. CASE Heartbeat(g)
    BY <1>2, <1>7, <2>4 DEF Heartbeat, Detach, producer, Coming, Newest
  <2>5. ~Disconnect(g)
    BY <1>7 DEF Disconnect
  <2> QED BY <1>7, <2>2, <2>3, <2>4, <2>5 DEF GeneratorStep
<1>8. ASSUME NEW g \in Generators, OtherConnects(g) PROVE reader # g
  <2>1. gen[g].mode = "gone" /\ g # NoReader
    BY <1>8, Subscribed, BridgeAssumption DEF OtherConnects, NoReader
  <2> QED BY <2>1 DEF BridgeTyped, ReadersTyped
<1>9. ASSUME NEW g \in Generators, BrowserConnects(g) PROVE InOrder'
  BY <1>9, OrderConnected
<1> QED BY <1>1, <1>3, <1>4, <1>5, <1>6, <1>7, <1>8, <1>9 DEF EventNext

LEMMA InitInOrder == EventInit => InOrder
BY DEF EventInit, InOrder, Past, NoReader

\* Receiving is the browser's own step: the frame it was sent.
LEMMA ReceivesBySending ==
    ASSUME BridgeTyped, [EventNext]_bridgeVars, NEW e \in Id, Receives(e)
    PROVE  gen[reader].mode \in {"replay", "live"} /\ e \in Ahead
<1>1. e # 0
  BY IdFacts DEF BridgeTyped, ProducerTyped
<1>2. gen[reader].out # 0 /\ reader \in Generators
  BY <1>1 DEF Receives, BridgeTyped, ReadersTyped
<1>3. GenShape(gen[reader]) /\ gen[reader] \in GenRecord
  BY <1>2 DEF BridgeTyped, ReadersTyped
<1> QED BY <1>1, <1>2, <1>3 DEF Receives, GenShape, GenRecord, Ahead

\* A browser that was not told that its cursor had aged out receives an event
\* again, or behind a newer one, only when the event waited in the queue and
\* the history had already let it go.
THEOREM BrowserReceivesInOrder == EventSpec => ReceivedInOrder
<1> DEFINE Again == \A e \in Id : Receives(e) /\ ~told /\ (e \in received \/ e < cursor)
                       => gen[reader].mode = "live" /\ e \notin history
<1>1. BridgeTyped /\ InOrder /\ [EventNext]_bridgeVars => Again
  <2> SUFFICES ASSUME BridgeTyped, InOrder, [EventNext]_bridgeVars, NEW e \in Id,
                      Receives(e), ~told, e \in received \/ e < cursor,
                      ~(gen[reader].mode = "live" /\ e \notin history)
               PROVE  FALSE
    OBVIOUS
  <2>1. gen[reader].mode \in {"replay", "live"} /\ e \in Ahead /\ reader # NoReader
        /\ gen[reader].out = e
    BY ReceivesBySending DEF Receives
  <2>2. \A x \in received : x < e
    BY <2>1 DEF InOrder, Past
  <2>3. e \in Nat /\ cursor \in Nat /\ received \subseteq Nat /\ (cursor # 0 => cursor \in received)
    BY IdFacts, EventNumbers DEF BridgeTyped, ReadersTyped
  <2>4. CASE e \in received
    BY <2>2, <2>3, <2>4
  <2>5. CASE e < cursor
    BY <2>2, <2>3, <2>5
  <2> QED BY <2>4, <2>5
<1>2. BridgeTyped /\ InOrder /\ [EventNext]_bridgeVars => InOrder'
  BY OrderKept
<1> QED BY <1>1, <1>2, InitInOrder, BridgeTypes, PTL DEF EventSpec, ReceivedInOrder

-----------------------------------------------------------------------------
(* What becomes of the events.                                             *)

\* Up to its cursor the browser has every event of the history that was not
\* lost on the way, and its generator has the rest ahead of it or will not
\* skip it when it comes.
Accounted ==
    /\ cursor \in history => \A e \in history \ excused : e <= cursor => e \in received
    /\ reader # NoReader =>
          \A e \in (history \ excused) \ received :
             e \in Ahead \/ (e \in Coming /\ e \notin gen[reader].seen)

\* The structural events that the length of the history leaves room for are in
\* it.
HistoryFull ==
    \A e \in Structural : e > turn /\ WithinHistory(e) => e \in history

LEMMA AccountUntouched ==
    ASSUME BridgeTyped, Accounted, UNCHANGED <<cursor, received>>,
           reader' \in {reader, NoReader}, reader' # NoReader => gen'[reader] = gen[reader],
           NEW fresh, \A f \in fresh : ~(f <= cursor) /\ f \notin Id,
           cursor \notin fresh,
           history' \subseteq history \cup fresh, fresh \subseteq Coming',
           excused \subseteq excused',
           reader # NoReader => Coming \subseteq Coming' \cup excused'
    PROVE  Accounted'
<1>1. ASSUME cursor' \in history', NEW e \in history' \ excused', e <= cursor'
      PROVE  e \in received'
  <2>1. cursor \in history /\ e \in history \ excused
    BY <1>1
  <2> QED BY <1>1, <2>1 DEF Accounted
<1>2. ASSUME reader' # NoReader, NEW e \in (history' \ excused') \ received'
      PROVE  e \in Ahead' \/ (e \in Coming' /\ e \notin gen'[reader'].seen)
  <2>1. reader' = reader /\ gen'[reader'] = gen[reader] /\ Ahead' = Ahead /\ reader # NoReader
    BY <1>2 DEF Ahead
  <2>2. CASE e \in fresh
    <3>1. gen[reader].seen \in SUBSET Id
      BY <2>1, EventNumbers
    <3> QED BY <2>1, <2>2, <3>1
  <2>3. CASE e \in history
    BY <1>2, <2>1, <2>3 DEF Accounted
  <2> QED BY <1>2, <2>2, <2>3
<1> QED BY <1>1, <1>2 DEF Accounted

LEMMA AccountSent ==
    ASSUME BridgeTyped, InOrder, Accounted, reader # NoReader, FrameSent(reader)
    PROVE  Accounted'
<1> DEFINE g == reader
           e == gen[reader].out
           rs == gen[reader].rest
           sn == gen[reader].seen
<1>0. reader \in Generators /\ NoReader \notin Generators
  BY BridgeAssumption DEF BridgeTyped, ReadersTyped, NoReader
<1>1. /\ gen[reader].mode \in {"replay", "live"} /\ e \in Id /\ cursor' = e /\ received' = received \cup {e}
      /\ UNCHANGED <<history, hand, kinds, excused>> /\ liveQueue' \in {liveQueue, liveQueue \ sn}
  BY <1>0, Sent, StolenFromQueue DEF FrameSent, producer
<1>2. /\ gen[reader] \in GenRecord /\ GenShape(gen[reader]) /\ gen \in [Generators -> GenRecord]
      /\ rs \in SUBSET Id /\ (\A x \in rs : e < x)
      /\ Ahead = {e} \cup rs /\ e # 0
  BY <1>0, <1>1, EventNumbers DEF BridgeTyped, ReadersTyped, GenRecord, GenShape, Ahead
<1>3. Coming \subseteq Coming' \cup sn
  BY <1>1 DEF Coming, Newest
<1>4. ASSUME NEW x \in history \ excused, x <= e PROVE x \in received'
  <2>1. x \in Nat /\ e \in Nat
    BY <1>1, EventNumbers DEF BridgeTyped, ProducerTyped
  <2>2. ~(x \in (Coming \cap history) \ sn)
    BY <1>2, <1>4, <2>1 DEF InOrder
  <2>3. x \in received \/ x \in {e} \cup rs
    BY <1>2, <1>4, <2>2 DEF Accounted
  <2>4. x \notin rs
    BY <1>2, <1>4, <2>1, EventNumbers
  <2> QED BY <1>1, <2>3, <2>4
<1>5. cursor' \in history' => \A x \in history' \ excused' : x <= cursor' => x \in received'
  BY <1>1, <1>4
<1>6. ASSUME NEW x \in (history' \ excused') \ received' PROVE x \in rs \/ (x \in Coming' /\ x \notin sn)
  BY <1>1, <1>2, <1>3, <1>6 DEF Accounted
<1>7. CASE reader' = NoReader
  BY <1>5, <1>7 DEF Accounted
<1>8. CASE rs = {} /\ Moves(g, Waiting(sn)) /\ reader' = reader
  <2>1. gen'[reader] = Waiting(sn)
    BY <1>0, <1>2, <1>8 DEF Moves
  <2>2. gen'[reader'].seen = sn
    BY <1>8, <2>1, WaitingFacts
  <2> QED BY <1>5, <1>6, <1>8, <2>2 DEF Accounted
<1>9. CASE rs # {} /\ reader' = reader /\ Moves(g, Replaying(Oldest(rs), rs \ {Oldest(rs)}, sn))
  <2> HIDE DEF rs, sn
  <2>1. gen'[reader'] = Replaying(Oldest(rs), rs \ {Oldest(rs)}, sn)
    BY <1>0, <1>2, <1>9 DEF Moves
  <2>2. Oldest(rs) \in rs /\ Oldest(rs) # 0
    BY <1>2, <1>9, OldestOf, EventNumbers
  <2>3. gen'[reader'].out = Oldest(rs) /\ gen'[reader'].seen = sn /\ gen'[reader'].rest = rs \ {Oldest(rs)}
    BY <2>1 DEF Replaying
  <2>4. rs \subseteq Ahead'
    BY <2>2, <2>3 DEF Ahead
  <2> QED BY <1>5, <1>6, <2>3, <2>4 DEF Accounted
<1>10. reader' = NoReader
       \/ (rs = {} /\ Moves(g, Waiting(sn)) /\ reader' = reader)
       \/ (rs # {} /\ reader' = reader /\ Moves(g, Replaying(Oldest(rs), rs \ {Oldest(rs)}, sn)))
  BY <1>0, Sent DEF Loops
<1> QED BY <1>7, <1>8, <1>9, <1>10

LEMMA AccountTaken ==
    ASSUME BridgeTyped, Accounted, reader # NoReader, Take(reader)
    PROVE  Accounted'
<1> DEFINE g == reader
           e == Oldest(liveQueue)
           sn == gen[reader].seen
<1>0. reader \in Generators /\ NoReader \notin Generators /\ gen \in [Generators -> GenRecord]
  BY BridgeAssumption DEF BridgeTyped, ReadersTyped, NoReader
<1>1. /\ gen[reader].mode = "waiting" /\ e \in liveQueue /\ liveQueue' = liveQueue \ {e}
      /\ UNCHANGED <<cursor, received, history, hand, kinds, excused>>
  BY <1>0, Taken, StolenFromQueue DEF Take, producer
<1>2. Ahead = {} /\ Coming \subseteq Coming' \cup {e} /\ e # 0
  BY <1>0, <1>1, EventNumbers DEF BridgeTyped, ReadersTyped, GenShape, Ahead, Coming, Newest
<1>3. cursor' \in history' => \A x \in history' \ excused' : x <= cursor' => x \in received'
  BY <1>1 DEF Accounted
<1>4. \A x \in (history' \ excused') \ received' : x \notin sn /\ x \in Coming' \cup {e}
  BY <1>1, <1>2 DEF Accounted
<1>5. CASE reader' = NoReader
  BY <1>3, <1>5 DEF Accounted
<1>6. CASE e \in sn /\ Moves(g, Waiting(sn)) /\ reader' = reader
  <2>1. gen'[reader] = Waiting(sn)
    BY <1>0, <1>6 DEF Moves
  <2>2. gen'[reader'].seen = sn
    BY <1>6, <2>1, WaitingFacts
  <2> QED BY <1>3, <1>4, <1>6, <2>2 DEF Accounted
<1>7. CASE Moves(g, Delivering(e, sn)) /\ reader' = reader
  <2> HIDE DEF e, sn
  <2>1. gen'[reader'] = Delivering(e, sn)
    BY <1>0, <1>7 DEF Moves
  <2>2. gen'[reader'].seen = sn /\ e \in Ahead'
    BY <1>2, <2>1 DEF Delivering, Ahead
  <2> QED BY <1>3, <1>4, <2>2 DEF Accounted
<1>8. reader' = NoReader \/ (e \in sn /\ Moves(g, Waiting(sn)) /\ reader' = reader)
      \/ (Moves(g, Delivering(e, sn)) /\ reader' = reader)
  BY <1>0, Taken DEF Loops
<1> QED BY <1>5, <1>6, <1>7, <1>8

LEMMA AccountConnected ==
    ASSUME BridgeTyped, Accounted, NEW g \in Generators, BrowserConnects(g)
    PROVE  Accounted'
<1> DEFINE tail == AfterCursor(cursor)
<1>0. NoReader \notin Generators /\ gen \in [Generators -> GenRecord] /\ g # NoReader
  BY BridgeAssumption DEF BridgeTyped, ReadersTyped, NoReader
<1>1. /\ UNCHANGED <<cursor, received, history, hand, kinds, excused>>
      /\ reader' = (IF gen'[g].mode = "gone" THEN NoReader ELSE g)
  BY DEF BrowserConnects, producer
<1>2. cursor' \in history' => \A x \in history' \ excused' : x <= cursor' => x \in received'
  BY <1>1 DEF Accounted
<1>3. ASSUME NEW x \in (history \ excused) \ received PROVE x \in tail
  <2>1. x \in Nat /\ cursor \in Nat
    BY EventNumbers DEF BridgeTyped, ProducerTyped
  <2>2. cursor \in history => x > cursor
    BY <1>3, <2>1 DEF Accounted
  <2> QED BY <1>3, <2>2, AfterCursorFacts
<1>4. CASE reader' = NoReader
  BY <1>2, <1>4 DEF Accounted
<1>5. CASE tail # {} /\ Moves(g, Replaying(Oldest(tail), tail \ {Oldest(tail)}, history))
  <2> HIDE DEF tail
  <2>1. gen'[g] = Replaying(Oldest(tail), tail \ {Oldest(tail)}, history)
    BY <1>0, <1>5 DEF Moves
  <2>2. reader' = g /\ gen'[g].out = Oldest(tail) /\ gen'[g].rest = tail \ {Oldest(tail)}
    BY <1>1, <2>1 DEF Replaying
  <2>3. tail \in SUBSET Id /\ 0 \notin tail
    BY AfterCursorFacts, EventNumbers DEF tail, BridgeTyped, ProducerTyped
  <2>4. Oldest(tail) \in tail
    BY <1>5, <2>3, OldestOf
  <2>5. tail \subseteq Ahead'
    BY <2>2, <2>3, <2>4 DEF Ahead
  <2> QED BY <1>1, <1>2, <1>3, <2>5 DEF Accounted
<1>6. CASE tail = {}
  <2>1. (history' \ excused') \ received' = {}
    BY <1>1, <1>3, <1>6
  <2> QED BY <1>2, <2>1 DEF Accounted
<1> QED BY <1>5, <1>6, Subscribed DEF BrowserConnects

LEMMA AccountKept ==
    ASSUME BridgeTyped, InOrder, Accounted, [EventNext]_bridgeVars
    PROVE  Accounted'
<1>1. CASE Emit
  <2>1. UNCHANGED <<cursor, received, reader, gen, excused>>
    BY <1>1, EmittedNumber DEF browser
  <2>2. CASE UNCHANGED <<kinds, history, hand, Coming>>
    <3> DEFINE fresh == {}
    <3>1. /\ \A f \in fresh : ~(f <= cursor) /\ f \notin Id
          /\ cursor \notin fresh /\ history' \subseteq history \cup fresh /\ fresh \subseteq Coming'
          /\ Coming \subseteq Coming' \cup excused'
      BY <2>2
    <3> HIDE DEF fresh
    <3> QED BY <2>1, <3>1, AccountUntouched
  <2>3. CASE /\ history' \subseteq history \cup {Newest + 1} /\ Coming' = Coming \cup {Newest + 1}
             /\ \A e \in Id \cup {cursor} : e < Newest + 1
    <3> DEFINE fresh == {Newest + 1}
    <3>1. cursor \in Nat /\ Newest \in Nat /\ cursor < Newest + 1 /\ Id \subseteq Nat
      BY <2>3, EventNumbers
    <3>2. Newest + 1 \notin Id
      BY <2>3, <3>1
    <3>3. /\ \A f \in fresh : ~(f <= cursor) /\ f \notin Id
          /\ cursor \notin fresh /\ history' \subseteq history \cup fresh /\ fresh \subseteq Coming'
          /\ Coming \subseteq Coming' \cup excused'
      BY <2>3, <3>1, <3>2
    <3> HIDE DEF fresh
    <3> QED BY <2>1, <3>3, AccountUntouched
  <2> QED BY <1>1, <2>2, <2>3, EmittedNumber
<1>2. CASE /\ UNCHANGED <<cursor, received>> /\ reader' \in {reader, NoReader}
           /\ reader' # NoReader => gen'[reader] = gen[reader]
           /\ history' \subseteq history /\ excused \subseteq excused'
           /\ reader # NoReader => Coming \subseteq Coming' \cup excused'
  <2> DEFINE fresh == {}
  <2>1. /\ \A f \in fresh : ~(f <= cursor) /\ f \notin Id
        /\ cursor \notin fresh /\ history' \subseteq history \cup fresh /\ fresh \subseteq Coming'
    BY <1>2
  <2> HIDE DEF fresh
  <2> QED BY <1>2, <2>1, AccountUntouched
<1>3. CASE ObserverRaises \/ PutEnds \/ Close
  BY <1>2, <1>3, ProducerComing DEF browser
<1>4. CASE Reopen
  <2>1. UNCHANGED <<browser, gen, excused>> /\ history' = {}
    BY <1>4 DEF Reopen
  <2> QED BY <2>1 DEF Accounted
<1>5. CASE ConnectionLost \/ UNCHANGED bridgeVars
  BY <1>2, <1>5 DEF ConnectionLost, bridgeVars, browser, producer, Coming, Newest
<1>6. ASSUME NEW g \in Generators, OtherConnects(g) \/ GeneratorStep(g), reader # g PROVE Accounted'
  BY <1>2, <1>6, StrangerMoves
<1>7. ASSUME NEW g \in Generators, GeneratorStep(g), reader = g PROVE Accounted'
  <2>1. reader # NoReader
    BY <1>7, BridgeAssumption DEF NoReader
  <2>2. CASE FrameSent(g)
    BY <1>7, <2>1, <2>2, AccountSent
  <2>3. CASE Take(g)
    BY <1>7, <2>1, <2>3, AccountTaken
  <2>4. CASE Heartbeat(g)
    BY <1>2, <1>7, <2>4 DEF Heartbeat, Detach, producer, Coming, Newest
  <2>5. ~Disconnect(g)
    BY <1>7 DEF Disconnect
  <2> QED BY <1>7, <2>2, <2>3, <2>4, <2>5 DEF GeneratorStep
<1>8. ASSUME NEW g \in Generators, OtherConnects(g) PROVE reader # g
  <2>1. gen[g].mode = "gone" /\ g # NoReader
    BY <1>8, Subscribed, BridgeAssumption DEF OtherConnects, NoReader
  <2> QED BY <2>1 DEF BridgeTyped, ReadersTyped
<1>9. ASSUME NEW g \in Generators, BrowserConnects(g) PROVE Accounted'
  BY <1>9, AccountConnected
<1> QED BY <1>1, <1>3, <1>4, <1>5, <1>6, <1>7, <1>8, <1>9 DEF EventNext

\* The structural events behind e are all among those of a longer sequence.
LEMMA BehindGrows ==
    ASSUME BridgeTyped, NEW k \in Kind, kinds' = Append(kinds, k), NEW e \in Id
    PROVE  /\ e \in Structural' <=> e \in Structural
           /\ {d \in Structural : d > e} \subseteq {d \in Structural' : d > e}
           /\ IsFiniteSet({d \in Structural' : d > e})
           /\ Cardinality({d \in Structural' : d > e}) \in Nat
           /\ Cardinality({d \in Structural : d > e}) \in Nat
           /\ Cardinality({d \in Structural : d > e}) <= Cardinality({d \in Structural' : d > e})
<1> DEFINE old == {d \in Structural : d > e}
           new == {d \in Structural' : d > e}
<1>1. /\ kinds' \in Seq(Kind) /\ Id \subseteq Id' /\ \A d \in Id : kinds'[d] = kinds[d]
  BY Appended DEF BridgeTyped, ProducerTyped
<1>2. (e \in Structural' <=> e \in Structural) /\ old \in SUBSET new
  BY <1>1 DEF Structural
<1>3. IsFiniteSet(Id')
  <2>1. Len(kinds') \in Nat
    BY <1>1
  <2> QED BY <2>1, FS_Interval DEF Id
<1>4. new \in SUBSET Id'
  BY DEF Structural
<1> HIDE DEF old, new
<1>5. IsFiniteSet(new) /\ Cardinality(new) \in Nat
  BY <1>3, <1>4, FS_Subset, FS_CardinalityType
<1>6. Cardinality(old) \in Nat /\ Cardinality(old) <= Cardinality(new)
  BY <1>2, <1>5, FS_Subset, FS_CardinalityType
<1> QED BY <1>2, <1>5, <1>6 DEF old, new

LEMMA FullAppended ==
    ASSUME BridgeTyped, HistoryFull, NEW k \in Kind, kinds' = Append(kinds, k),
           maxHistory' = maxHistory, turn' = turn,
           history' = Evict(history \cup {Newest + 1}, kinds')
    PROVE  HistoryFull'
<1> DEFINE h == history \cup {Newest + 1}
<1> SUFFICES ASSUME NEW e \in Structural', e > turn, WithinHistory(e)'
             PROVE  e \in history'
  BY DEF HistoryFull
<1>1. /\ kinds' \in Seq(Kind) /\ Id' = Id \cup {Newest + 1} /\ Newest + 1 \notin Id
  BY Appended DEF BridgeTyped, ProducerTyped
<1>2. e \in Id' /\ kinds'[e] # "chunk"
  BY DEF Structural
<1>3. e \in h
  <2>1. CASE e \in Id
    <3>1. Cardinality({d \in Structural' : d > e}) < maxHistory
      BY DEF WithinHistory
    <3>2. e \in Structural /\ Cardinality({d \in Structural : d > e}) < maxHistory
      <4> DEFINE m == Cardinality({d \in Structural : d > e})
                 n == Cardinality({d \in Structural' : d > e})
      <4>1. e \in Structural /\ m \in Nat /\ n \in Nat /\ m <= n
        BY <2>1, BehindGrows
      <4>2. n < maxHistory /\ maxHistory \in Nat
        BY <3>1 DEF BridgeTyped, ProducerTyped
      <4> HIDE DEF m, n
      <4>3. m < maxHistory
        BY <4>1, <4>2
      <4> QED BY <4>1, <4>3 DEF m
    <3> QED BY <3>2 DEF HistoryFull, WithinHistory
  <2> QED BY <1>1, <1>2, <2>1
<1>4. h \in SUBSET Id' /\ Id' \subseteq Nat /\ Id' = 1 .. Len(kinds') /\ Len(kinds') \in Nat
  <2>1. Len(kinds') \in Nat /\ Id' = 1 .. Len(kinds')
    BY <1>1 DEF Id
  <2>2. h \in SUBSET Id'
    BY <1>1 DEF BridgeTyped, ProducerTyped
  <2> HIDE DEF h
  <2> QED BY <2>1, <2>2
<1>5. IsFiniteSet(history) /\ Cardinality(history) <= maxHistory /\ Cardinality(history) \in Nat
      /\ maxHistory \in Nat \ {0}
  BY IdFacts DEF BridgeTyped, ProducerTyped
<1>6. IsFiniteSet(h) /\ Cardinality(h) <= maxHistory + 1
  <2>1. IsFiniteSet(h) /\ Cardinality(h) = Cardinality(history) + 1
    BY <1>1, <1>5, FS_AddElement DEF BridgeTyped, ProducerTyped
  <2> QED BY <1>5, <2>1
<1>7. e \notin Evict(h, kinds')
         => Cardinality(Behind(h, kinds', e)) >= maxHistory
  <2> HIDE DEF h
  <2>1. h \in SUBSET Nat
    BY <1>4
  <2>2. \A x \in h : kinds'[x] # "chunk" /\ x \notin Evict(h, kinds')
           => Cardinality(Behind(h, kinds', x)) >= maxHistory
    BY <1>5, <1>6, <2>1, EvictedOnce
  <2> QED BY <1>2, <1>3, <2>2 DEF h
<1>8. /\ Cardinality(Behind(h, kinds', e)) \in Nat
      /\ Cardinality({d \in Structural' : d > e}) \in Nat
      /\ Cardinality(Behind(h, kinds', e)) <= Cardinality({d \in Structural' : d > e})
  <2> DEFINE S == Behind(h, kinds', e)
             T == {d \in Structural' : d > e}
  <2>1. S \in SUBSET T /\ T \in SUBSET Id'
    BY <1>4 DEF Structural, Behind
  <2>2. IsFiniteSet(Id')
    BY <1>4, FS_Interval
  <2> HIDE DEF S, T
  <2>3. Cardinality(S) \in Nat /\ Cardinality(T) \in Nat /\ Cardinality(S) <= Cardinality(T)
    BY <2>1, <2>2, FS_Subset, FS_CardinalityType
  <2> QED BY <2>3 DEF S, T
<1>9. Cardinality({d \in Structural' : d > e}) < maxHistory
  BY DEF WithinHistory
<1>10. ~(Cardinality(Behind(h, kinds', e)) >= maxHistory)
  <2> DEFINE m == Cardinality(Behind(h, kinds', e))
             n == Cardinality({d \in Structural' : d > e})
  <2>1. m \in Nat /\ n \in Nat /\ m <= n /\ n < maxHistory /\ maxHistory \in Nat
    BY <1>5, <1>8, <1>9
  <2> HIDE DEF m, n
  <2>2. ~(m >= maxHistory)
    BY <2>1
  <2> QED BY <2>2 DEF m
<1> QED BY <1>7, <1>10

LEMMA FullKept ==
    ASSUME BridgeTyped, HistoryFull, [EventNext]_bridgeVars
    PROVE  HistoryFull'
<1>1. CASE UNCHANGED <<kinds, turn, maxHistory, history>>
  BY <1>1 DEF HistoryFull, Structural, WithinHistory, Id
<1>2. CASE Emit
  <2>1. turn' = turn /\ maxHistory' = maxHistory
    BY <1>2, EmittedNumber
  <2>2. UNCHANGED <<kinds, history>>
        \/ \E k \in Kind : kinds' = Append(kinds, k) /\ history' = Evict(history \cup {Newest + 1}, kinds')
    BY <1>2, EmittedNumber
  <2> QED BY <1>1, <2>1, <2>2, FullAppended
<1>3. CASE ObserverRaises \/ PutEnds \/ Close
  BY <1>1, <1>3, ProducerComing
<1>4. CASE Reopen
  <2>1. turn' = Newest /\ Newest' = Newest /\ Newest \in Nat /\ Id' = 1 .. Newest
    BY <1>4, IdFacts DEF Reopen, Newest, Id, BridgeTyped, ProducerTyped
  <2>2. \A e \in Structural' : ~(e > turn')
    BY <2>1 DEF Structural
  <2> QED BY <2>2 DEF HistoryFull
<1>5. CASE ConnectionLost \/ UNCHANGED bridgeVars
  BY <1>1, <1>5 DEF ConnectionLost, bridgeVars, producer
<1>6. CASE \E g \in Generators : BrowserConnects(g) \/ OtherConnects(g) \/ GeneratorStep(g)
  BY <1>1, <1>6 DEF BrowserConnects, OtherConnects, GeneratorStep, FrameSent, Take, Heartbeat,
                    Disconnect, producer
<1> QED BY <1>2, <1>3, <1>4, <1>5, <1>6 DEF EventNext

LEMMA AccountedStructure ==
    ASSUME BridgeTyped, Accounted, HistoryFull
    PROVE  StructureKept
<1>1. EventTypeOK
  BY DEF BridgeTyped, ProducerTyped, ReadersTyped, EventTypeOK, Attached, GenRecord
<1>2. ASSUME NEW e \in Structural, e > turn, WithinHistory(e), e \notin excused, e \notin received
      PROVE  InReach(e)
  <2>1. e \in history \ excused
    BY <1>2 DEF HistoryFull
  <2>2. CASE reader = NoReader
    <3>1. e \in Nat /\ cursor \in Nat
      BY <2>1, EventNumbers DEF BridgeTyped, ProducerTyped
    <3>2. cursor \in history => e > cursor
      BY <1>2, <2>1, <3>1 DEF Accounted
    <3> QED BY <2>1, <2>2, <3>2, AfterCursorFacts DEF InReach
  <2>3. CASE reader # NoReader
    BY <1>2, <2>1, <2>3 DEF Accounted, InReach, Ahead, Coming
  <2> QED BY <2>2, <2>3
<1> QED BY <1>1, <1>2 DEF StructureKept

LEMMA InitAccounted == EventInit => Accounted /\ HistoryFull
<1> SUFFICES ASSUME EventInit PROVE Accounted /\ HistoryFull
  OBVIOUS
<1>1. Id = {}
  BY DEF EventInit, Id
<1> QED BY <1>1 DEF EventInit, Accounted, HistoryFull, Structural, NoReader

\* History and queue keep within their bounds, chunks never push structural
\* events out, and each of the last maxHistory structural events of the turn
\* reached the browser or still can, unless its observer raised, the policy
\* dropped it or another subscriber took it.
THEOREM BridgeKeepsStructure == EventSpec => []StructureKept
<1> DEFINE Inv == BridgeTyped /\ InOrder /\ Accounted /\ HistoryFull
<1>1. BridgeTyped /\ InOrder /\ Accounted /\ HistoryFull /\ [EventNext]_bridgeVars
         => InOrder' /\ Accounted' /\ HistoryFull'
  BY OrderKept, AccountKept, FullKept
<1>2. BridgeTyped /\ Accounted /\ HistoryFull => StructureKept
  BY AccountedStructure
<1> QED BY <1>1, <1>2, InitInOrder, InitAccounted, BridgeTypes, PTL DEF EventSpec

-----------------------------------------------------------------------------
(* Interrupts.                                                             *)

\* An interrupt was shown in this turn, and no session started since.
Shown == \E e \in Id : /\ e > turn /\ kinds[e] = "interrupt"
                       /\ \A d \in Id : d > e => kinds[d] # "session_start"

\* What the fingerprint of an open bridge stands for.
Fingerprint == ~shut => (asked <=> Shown)

LEMMA ShownByNewest ==
    ASSUME BridgeTyped, NEW k \in Kind, kinds' = Append(kinds, k), turn' = turn
    PROVE  Shown' <=> (k = "interrupt" \/ (Shown /\ k # "session_start"))
<1>1. /\ Id' = Id \cup {Newest + 1} /\ Newest + 1 \notin Id /\ kinds'[Newest + 1] = k
      /\ \A e \in Id : kinds'[e] = kinds[e] /\ e < Newest + 1
  BY Appended DEF BridgeTyped, ProducerTyped
<1>2. Newest \in Nat /\ Id \subseteq Nat /\ turn \in Nat /\ turn < Newest + 1
  BY IdFacts DEF BridgeTyped, ProducerTyped
<1>3. ~(Newest + 1 > Newest + 1) /\ \A e \in Id : ~(e > Newest + 1) /\ Newest + 1 > e
  BY <1>1, <1>2
<1>4. ASSUME Shown' PROVE k = "interrupt" \/ (Shown /\ k # "session_start")
  <2>1. PICK e \in Id' : /\ e > turn /\ kinds'[e] = "interrupt"
                         /\ \A d \in Id' : d > e => kinds'[d] # "session_start"
    BY <1>4 DEF Shown
  <2>2. CASE e = Newest + 1
    BY <1>1, <2>1, <2>2
  <2>3. CASE e \in Id
    <3>1. k # "session_start"
      BY <1>1, <1>3, <2>1, <2>3
    <3>2. Shown
      BY <1>1, <2>1, <2>3 DEF Shown
    <3> QED BY <3>1, <3>2
  <2> QED BY <1>1, <2>2, <2>3
<1>5. ASSUME k = "interrupt" PROVE Shown'
  <2>1. /\ Newest + 1 \in Id' /\ Newest + 1 > turn' /\ kinds'[Newest + 1] = "interrupt"
        /\ \A d \in Id' : d > Newest + 1 => kinds'[d] # "session_start"
    BY <1>1, <1>2, <1>3, <1>5
  <2> QED BY <2>1 DEF Shown
<1>6. ASSUME Shown, k # "session_start" PROVE Shown'
  <2>1. PICK e \in Id : /\ e > turn /\ kinds[e] = "interrupt"
                        /\ \A d \in Id : d > e => kinds[d] # "session_start"
    BY <1>6 DEF Shown
  <2>2. /\ e \in Id' /\ e > turn' /\ kinds'[e] = "interrupt"
        /\ \A d \in Id' : d > e => kinds'[d] # "session_start"
    BY <1>1, <1>6, <2>1
  <2> QED BY <2>2 DEF Shown
<1> QED BY <1>4, <1>5, <1>6

LEMMA FingerprintKept ==
    ASSUME BridgeTyped, Fingerprint, [EventNext]_bridgeVars
    PROVE  Fingerprint'
<1>0. ~shut => (asked <=> Shown)
  BY DEF Fingerprint
<1>1. SUFFICES (~shut => (asked <=> Shown))'
  BY DEF Fingerprint
<1>2. CASE UNCHANGED <<kinds, turn, asked>> /\ (shut => shut')
  <2>1. Shown' <=> Shown
    BY <1>2 DEF Shown, Id
  <2> QED BY <1>0, <1>2, <2>1
<1>3. CASE Emit
  <2>1. shut' = shut /\ turn' = turn
    BY <1>3 DEF Emit
  <2>2. CASE shut
    BY <2>1, <2>2
  <2>3. CASE ~shut /\ Head(plan) = "interrupt" /\ asked /\ kinds' = kinds
    <3>1. asked' = TRUE
      BY <1>3, <2>3 DEF Emit
    <3> QED BY <1>2, <2>1, <2>3, <3>1
  <2>4. CASE ~shut /\ kinds' = Append(kinds, Head(plan))
    <3>1. Head(plan) \in Kind
      BY <1>3 DEF Emit, BridgeTyped, ProducerTyped
    <3>2. Shown' <=> (Head(plan) = "interrupt" \/ (Shown /\ Head(plan) # "session_start"))
      BY <2>1, <2>4, <3>1, ShownByNewest
    <3>3. asked' <=> (Head(plan) = "interrupt" \/ (asked /\ Head(plan) # "session_start"))
      BY <1>3 DEF Emit
    <3> QED BY <1>0, <2>4, <3>2, <3>3
  <2> QED BY <1>3, <2>2, <2>3, <2>4 DEF Emit
<1>4. CASE Reopen
  <2>1. turn' = Newest /\ Newest' = Newest /\ Newest \in Nat /\ Id' = 1 .. Newest /\ asked' = FALSE
    BY <1>4, IdFacts DEF Reopen, Newest, Id, BridgeTyped, ProducerTyped
  <2>2. \A e \in Id' : ~(e > turn')
    BY <2>1
  <2>3. ~Shown'
    BY <2>2 DEF Shown
  <2> QED BY <2>1, <2>3
<1>5. CASE ObserverRaises \/ PutEnds \/ Close
  BY <1>2, <1>5 DEF ObserverRaises, PutEnds, Enqueue, BlockedPutEnds, Close, producer
<1>6. CASE ConnectionLost \/ UNCHANGED bridgeVars
  BY <1>2, <1>6 DEF ConnectionLost, bridgeVars, producer
<1>7. ASSUME NEW g \in Generators, BrowserConnects(g) \/ OtherConnects(g) \/ GeneratorStep(g)
      PROVE  UNCHANGED <<kinds, turn, asked>> /\ (shut => shut')
  <2>1. UNCHANGED <<kinds, turn, asked>>
    BY <1>7 DEF BrowserConnects, OtherConnects, GeneratorStep, FrameSent, Take, Heartbeat,
                Disconnect, producer
  <2>2. shut => shut'
    BY <1>7 DEF BrowserConnects, OtherConnects, Subscribe, GeneratorStep, FrameSent, Take,
                Heartbeat, Disconnect
  <2> QED BY <2>1, <2>2
<1> QED BY <1>2, <1>3, <1>4, <1>5, <1>6, <1>7 DEF EventNext

LEMMA InitFingerprint == EventInit => Fingerprint
<1> SUFFICES ASSUME EventInit PROVE Fingerprint
  OBVIOUS
<1>1. Id = {}
  BY DEF EventInit, Id
<1> QED BY <1>1 DEF EventInit, Fingerprint, Shown

\* Only emit() uses the plan up, and it goes by the fingerprint.
LEMMA InterruptEmitted ==
    ASSUME Fingerprint, StructureKept, [EventNext]_bridgeVars,
           ~shut, plan' # plan, Head(plan) = "interrupt"
    PROVE  IF Showing = {} THEN kinds' = Append(kinds, "interrupt")
           ELSE /\ kinds' = kinds
                /\ \A e \in Showing : WithinHistory(e) /\ e \notin excused
                                        => e \in received \/ InReach(e)
<1>1. Emit
  BY DEF EventNext, bridgeVars, producer, ObserverRaises, PutEnds, Enqueue, BlockedPutEnds,
         Close, Reopen, ConnectionLost, BrowserConnects, OtherConnects, GeneratorStep,
         FrameSent, Take, Heartbeat, Disconnect
<1>2. asked <=> Showing # {}
  BY DEF Fingerprint, Shown, Showing
<1>3. CASE Showing = {}
  <2>1. ~asked
    BY <1>2, <1>3
  <2>2. kinds' = Append(kinds, "interrupt")
    BY <1>1, <2>1 DEF Emit
  <2> QED BY <1>3, <2>2
<1>4. CASE Showing # {}
  <2>1. kinds' = kinds
    BY <1>1, <1>2, <1>4 DEF Emit
  <2>2. ASSUME NEW e \in Showing, WithinHistory(e), e \notin excused
        PROVE  e \in received \/ InReach(e)
    <3>1. e \in Structural /\ e > turn
      BY DEF Showing, Structural
    <3> QED BY <2>2, <3>1 DEF StructureKept
  <2> QED BY <1>4, <2>1, <2>2
<1> QED BY <1>3, <1>4

\* An open bridge shows an interrupt unless it showed one since the turn or a
\* session started, and the one it then holds back is not lost to the browser.
THEOREM BridgeShowsInterruptOnce == EventSpec => InterruptShownOnce
<1>1. BridgeTyped /\ Fingerprint /\ [EventNext]_bridgeVars => Fingerprint'
  BY FingerprintKept
<1>2. Fingerprint /\ StructureKept /\ [EventNext]_bridgeVars
         => [~shut /\ plan' # plan /\ Head(plan) = "interrupt"
                => IF Showing = {} THEN kinds' = Append(kinds, "interrupt")
                   ELSE /\ kinds' = kinds
                        /\ \A e \in Showing :
                              WithinHistory(e) /\ e \notin excused
                                 => e \in received \/ InReach(e)]_bridgeVars
  BY InterruptEmitted
<1> QED BY <1>1, <1>2, InitFingerprint, BridgeTypes, BridgeKeepsStructure, PTL
        DEF EventSpec, InterruptShownOnce
=============================================================================
