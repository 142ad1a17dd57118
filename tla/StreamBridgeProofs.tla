------------------------- MODULE StreamBridgeProofs -------------------------
(***************************************************************************)
(* StreamBridge for sources and queues of any length: the source never     *)
(* runs ahead of its caller, and a stream that ends is complete.           *)
(*                                                                         *)
(* The invariant is about what was handed over, whether the caller has     *)
(* fetched it already or not: get() does not change it, and only _drain    *)
(* and the fallback of the worker add to it.                               *)
(***************************************************************************)
EXTENDS StreamBridge, TLAPS

Handed == got \o queue

AllEvents == \A i \in 1 .. Len(Handed) : Handed[i] \in Event

\* The first n items are the first n events, the others are no events.
InOrderTo(n) ==
    /\ n \in 0 .. Len(Handed)
    /\ \A i \in 1 .. n : Handed[i] = i
    /\ \A i \in n + 1 .. Len(Handed) : Handed[i] \notin Event

\* All that the source made was handed over, but for one event at most.
InOrder == InOrderTo(made) \/ InOrderTo(made - 1)

\* The generator ends with the first item that is no event.
StopsAtEnd ==
    /\ \A i \in 1 .. Len(got) - 1 : got[i] \in Event
    /\ consumer \in {"getting", "caller"} => \A i \in 1 .. Len(got) : got[i] \in Event

Putting == drain \in {"checking", "rechecking", "waiting"}

\* As long as _drain has events to hand over, nothing else was.
EventsFirst ==
    /\ drain = "new" => Handed = <<>> /\ made = 0
    /\ drain = "asking" => AllEvents /\ Len(Handed) = made
    /\ Putting /\ item \in Event => AllEvents /\ item = made /\ made = Len(Handed) + 1
    /\ Putting /\ item = Error => AllEvents

\* The worker's fallback comes after _drain, and its exception comes first.
FallbackLast ==
    /\ worker # "draining" => drain = "returned"
    /\ worker = "sentinel" /\ ~closeRequested => ~AllEvents

\* Before the close request only the owning loop cancels.
CancelKnown ==
    /\ consumer \in {"cancelling", "joining", "closed"} => closeRequested
    /\ "cancel" \in calls /\ ~closeRequested => ~ownerCancels

\* The source is done, and nothing it made was lost.
Complete == source = "ended" \/ (source = "failed" /\ ~ownerCancels)

\* An exception on its way is the source's own, or the loop's one cancellation.
ErrorKnown ==
    Putting /\ item = Error /\ ~closeRequested =>
        \/ source = "failed" /\ Len(Handed) = made
        \/ "cancel" \notin calls /\ ~ownerCancels

\* A sentinel on its way without an exception before it means completeness ...
EndKnown ==
    (drain = "closing" \/ (Putting /\ item = End)) /\ ~closeRequested /\ AllEvents =>
        Len(Handed) = made /\ Complete

\* ... and so does one that was handed over.
FirstEnd ==
    \A i \in 1 .. Len(Handed) :
        Handed[i] = End /\ (\A j \in 1 .. i - 1 : Handed[j] \in Event) =>
            i = made + 1 /\ Complete /\ drain = "returned"

StreamInv ==
    /\ StreamTypeOK
    /\ InOrder
    /\ StopsAtEnd
    /\ EventsFirst
    /\ FallbackLast
    /\ CancelKnown
    /\ ErrorKnown
    /\ EndKnown
    /\ FirstEnd
-----------------------------------------------------------------------------
(* What was handed over *)

LEMMA HandedType ==
    ASSUME StreamTypeOK
    PROVE  Handed \in Seq(Item) /\ Len(Handed) = Len(got) + Len(queue) /\ Len(Handed) \in Nat
BY DEF StreamTypeOK, Handed

\* get() moves an item from the queue to the caller.
LEMMA GetKeepsHanded ==
    ASSUME StreamTypeOK, Get
    PROVE  Handed' = Handed
<1>1. /\ got \in Seq(Item) /\ queue \in Seq(Item) /\ queue # <<>>
      /\ got' = Append(got, Head(queue)) /\ queue' = Tail(queue)
  BY DEF StreamTypeOK, Get
<1>2. ASSUME NEW s \in Seq(Item), NEW t \in Seq(Item), t # <<>>
      PROVE  Append(s, Head(t)) \o Tail(t) = s \o t
  BY <1>2
<1> QED
  BY <1>1, <1>2 DEF Handed

\* An item that is queued is the last one handed over.
LEMMA HandedGrows ==
    ASSUME StreamTypeOK, NEW x \in Item, queue' = Append(queue, x), got' = got
    PROVE  /\ Len(Handed') = Len(Handed) + 1
           /\ Handed'[Len(Handed) + 1] = x
           /\ \A i \in 1 .. Len(Handed) : Handed'[i] = Handed[i]
           /\ Len(Handed) \in Nat
<1>1. got \in Seq(Item) /\ queue \in Seq(Item)
  BY DEF StreamTypeOK
<1>2. ASSUME NEW s \in Seq(Item), NEW t \in Seq(Item)
      PROVE  s \o Append(t, x) = Append(s \o t, x)
  OBVIOUS
<1>3. Handed' = Append(Handed, x) /\ Handed \in Seq(Item)
  BY <1>1, <1>2 DEF Handed
<1> QED
  BY <1>3

\* Events that were handed over without anything else are in order.
LEMMA EventsInOrder ==
    ASSUME InOrder, AllEvents, StreamTypeOK
    PROVE  InOrderTo(Len(Handed)) /\ made \in {Len(Handed), Len(Handed) + 1}
<1>1. Len(Handed) \in Nat /\ made \in Nat
  BY HandedType DEF StreamTypeOK
<1>2. PICK n \in {made, made - 1} : InOrderTo(n)
  BY DEF InOrder
<1>3. n = Len(Handed)
  BY <1>1, <1>2 DEF InOrderTo, AllEvents
<1> QED
  BY <1>1, <1>2, <1>3
-----------------------------------------------------------------------------
(* Types *)

LEMMA InitStream == StreamInit => StreamInv
<1> SUFFICES ASSUME StreamInit PROVE StreamInv
  OBVIOUS
<1>1. Handed = <<>> /\ Len(Handed) = 0 /\ Len(got) = 0
  BY DEF StreamInit, Handed
<1>2. StreamTypeOK
  <2>1. /\ queue \in Seq(Item) /\ got \in Seq(Item) /\ Len(queue) <= QueueSize
        /\ made \in 0 .. MaxEvents /\ item \in Item
    BY StreamAssumption DEF StreamInit, Item
  <2>2. /\ closeRequested \in BOOLEAN /\ registered \in BOOLEAN /\ space \in BOOLEAN
        /\ ownerCancels \in BOOLEAN /\ raised \in BOOLEAN /\ calls = {}
        /\ drain = "new" /\ source = "none" /\ worker = "draining" /\ consumer = "getting"
    BY DEF StreamInit
  <2> QED
    BY <2>1, <2>2 DEF StreamTypeOK
<1>3. InOrder
  BY <1>1 DEF StreamInit, InOrder, InOrderTo
<1>4. StopsAtEnd /\ EventsFirst /\ FallbackLast /\ CancelKnown /\ ErrorKnown
  BY <1>1 DEF StreamInit, StopsAtEnd, EventsFirst, FallbackLast, CancelKnown, ErrorKnown, Putting
<1>5. EndKnown /\ FirstEnd
  BY <1>1 DEF StreamInit, EndKnown, FirstEnd, Putting
<1> QED
  BY <1>2, <1>3, <1>4, <1>5 DEF StreamInv

\* The flags, which the provers handle apart from the data.
FlagsOK ==
    /\ closeRequested \in BOOLEAN /\ registered \in BOOLEAN /\ space \in BOOLEAN
    /\ ownerCancels \in BOOLEAN /\ raised \in BOOLEAN

DataOK ==
    /\ queue \in Seq(Item) /\ Len(queue) <= QueueSize
    /\ calls \subseteq {"set", "cancel"}
    /\ drain \in Suspended \cup {"new", "checking", "rechecking", "returned"}
    /\ item \in Item
    /\ source \in {"none", "open", "ended", "failed", "closed"}
    /\ made \in 0 .. MaxEvents
    /\ worker \in {"draining", "raising", "sentinel", "ended"}
    /\ consumer \in {"getting", "notifying", "caller", "closing", "cancelling",
                     "joining", "closed"}
    /\ got \in Seq(Item)

LEMMA TypeParts == StreamTypeOK <=> FlagsOK /\ DataOK
BY DEF StreamTypeOK, FlagsOK, DataOK

LEMMA FlagsNext ==
    ASSUME FlagsOK, StreamNext
    PROVE  FlagsOK'
<1> USE DEF FlagsOK, queueVars, loopVars, drainVars, consumerVars
<1>1. CASE DrainStep
  <2>1. CASE Open
    BY <2>1, Zenon DEF Open
  <2>2. CASE Closes
    BY <2>2, Zenon DEF Closes
  <2>3. CASE GivesUp \/ Puts \/ Clears \/ Rechecks \/ Wakes
    BY <2>3, Zenon DEF GivesUp, Puts, Clears, Rechecks, Wakes
  <2> QED
    BY <1>1, <2>1, <2>2, <2>3 DEF DrainStep
<1>2. CASE LoopStep
  <2>1. CASE RunSet
    BY <2>1, Zenon DEF RunSet
  <2>2. CASE RunCancel
    <3>1. raised' = raised \/ raised' = TRUE
      BY <2>2, Zenon DEF RunCancel
    <3>2. UNCHANGED <<closeRequested, registered, space, ownerCancels>>
      BY <2>2 DEF RunCancel
    <3> QED
      BY <3>1, <3>2, Zenon
  <2> QED
    BY <1>2, <2>1, <2>2 DEF LoopStep
<1>3. CASE SourceStep
  BY <1>3, Zenon DEF SourceStep, SourceYields, SourceEnds, SourceFails
<1>4. CASE WorkerStep
  BY <1>4, Zenon DEF WorkerStep, DrainReturned, FallBack
<1>5. CASE ConsumerStep
  BY <1>5, Zenon DEF ConsumerStep, Get, Notify, RequestClose, CancelDrain, Join
<1>6. CASE Refused \/ OwnerCancels \/ AskNext \/ Leave
  BY <1>6, Zenon DEF Refused, OwnerCancels, AskNext, Leave
<1> QED
  BY <1>1, <1>2, <1>3, <1>4, <1>5, <1>6 DEF StreamNext

LEMMA DataDrain ==
    ASSUME DataOK, DrainStep
    PROVE  DataOK'
<1> USE StreamAssumption DEF DataOK, Item, Enqueues, Follows, DrainMoves, Suspended, queueVars,
        loopVars, drainVars, consumerVars
<1>1. CASE Open
  BY <1>1 DEF Open
<1>2. CASE GivesUp
  BY <1>2 DEF GivesUp
<1>3. CASE Puts
  <2>1. queue' \in Seq(Item) /\ Len(queue') <= QueueSize
    BY <1>3 DEF Puts, HasRoom
  <2> QED
    BY <1>3, <2>1 DEF Puts
<1>4. CASE Clears \/ Rechecks \/ Wakes
  BY <1>4 DEF Clears, Rechecks, Wakes
<1>5. CASE Closes
  BY <1>5 DEF Closes
<1> QED
  BY <1>1, <1>2, <1>3, <1>4, <1>5 DEF DrainStep

LEMMA DataOthers ==
    ASSUME DataOK, LoopStep \/ SourceStep \/ WorkerStep \/ Refused \/ OwnerCancels
    PROVE  DataOK'
<1> USE StreamAssumption DEF DataOK, Item, Event, Enqueues, Follows, DrainMoves, Suspended,
        queueVars, loopVars, drainVars, consumerVars
<1>1. CASE RunSet
  BY <1>1 DEF RunSet
<1>2. CASE RunCancel
  BY <1>2 DEF RunCancel
<1>3. CASE SourceYields
  <2>1. made' \in 0 .. MaxEvents /\ item' \in Item
    BY <1>3 DEF SourceYields
  <2> QED
    BY <1>3, <2>1 DEF SourceYields
<1>4. CASE SourceEnds \/ SourceFails
  BY <1>4 DEF SourceEnds, SourceFails
<1>5. CASE DrainReturned
  BY <1>5 DEF DrainReturned
<1>6. CASE FallBack
  <2>1. queue' \in Seq(Item) /\ Len(queue') <= QueueSize
    BY <1>6 DEF FallBack, Fallback, HasRoom
  <2> QED
    BY <1>6, <2>1 DEF FallBack
<1>7. CASE Refused
  BY <1>7 DEF Refused
<1>8. CASE OwnerCancels
  BY <1>8 DEF OwnerCancels
<1> QED
  BY <1>1, <1>2, <1>3, <1>4, <1>5, <1>6, <1>7, <1>8 DEF LoopStep, SourceStep, WorkerStep

LEMMA DataConsumer ==
    ASSUME DataOK, ConsumerStep \/ AskNext \/ Leave
    PROVE  DataOK'
<1> USE DEF DataOK, ConsumerMoves, queueVars, loopVars, drainVars, consumerVars
<1>1. CASE Get
  <2>1. /\ queue' \in Seq(Item) /\ got' \in Seq(Item)
        /\ Len(queue') <= QueueSize
    <3>1. queue # <<>> /\ queue \in Seq(Item) /\ got \in Seq(Item) /\ QueueSize \in Nat
      BY <1>1, StreamAssumption DEF Get
    <3> QED
      BY <1>1, <3>1 DEF Get
  <2> QED
    BY <1>1, <2>1 DEF Get
<1>2. CASE Notify
  BY <1>2 DEF Notify
<1>3. CASE RequestClose \/ CancelDrain \/ Join \/ AskNext
  BY <1>3 DEF RequestClose, CancelDrain, Join, AskNext
<1>4. CASE Leave
  BY <1>4 DEF Leave
<1> QED
  BY <1>1, <1>2, <1>3, <1>4 DEF ConsumerStep

LEMMA TypeNext == StreamTypeOK /\ [StreamNext]_streamVars => StreamTypeOK'
<1> SUFFICES ASSUME StreamTypeOK, [StreamNext]_streamVars PROVE StreamTypeOK'
  OBVIOUS
<1>1. CASE UNCHANGED streamVars
  BY <1>1 DEF StreamTypeOK, streamVars, queueVars, loopVars, drainVars, consumerVars
<1>2. CASE StreamNext
  <2>1. FlagsOK' /\ DataOK'
    BY <1>2, TypeParts, FlagsNext, DataDrain, DataOthers, DataConsumer DEF StreamNext
  <2> QED
    BY <2>1 DEF StreamTypeOK, FlagsOK, DataOK
<1> QED
  BY <1>1, <1>2
-----------------------------------------------------------------------------
(* Steps that hand nothing over *)

Quiet == Handed' = Handed /\ made' = made

LEMMA QuietSteps ==
    ASSUME StreamTypeOK, StreamNext
    PROVE  Quiet \/ SourceYields \/ Puts \/ (FallBack /\ ~closeRequested)
<1> USE DEF queueVars, loopVars, drainVars, consumerVars
<1>1. CASE Get
  <2>1. made' = made
    BY <1>1 DEF Get
  <2> QED
    BY <1>1, <2>1, GetKeepsHanded DEF Quiet
<1>2. ASSUME queue' = queue, got' = got, made' = made
      PROVE  Quiet
  BY <1>2 DEF Quiet, Handed
<1>3. CASE DrainStep
  BY <1>2, <1>3 DEF DrainStep, Open, GivesUp, Clears, Rechecks, Wakes, Closes
<1>4. CASE LoopStep
  BY <1>2, <1>4 DEF LoopStep, RunSet, RunCancel
<1>5. CASE SourceStep
  BY <1>2, <1>5 DEF SourceStep, SourceEnds, SourceFails
<1>6. CASE WorkerStep
  BY <1>2, <1>6 DEF WorkerStep, DrainReturned, FallBack
<1>7. CASE ConsumerStep
  BY <1>1, <1>2, <1>7 DEF ConsumerStep, Notify, RequestClose, CancelDrain, Join
<1>8. CASE Refused \/ OwnerCancels \/ AskNext \/ Leave
  BY <1>2, <1>8 DEF Refused, OwnerCancels, AskNext, Leave
<1> QED
  BY <1>3, <1>4, <1>5, <1>6, <1>7, <1>8 DEF StreamNext

LEMMA QuietKeeps ==
    ASSUME Quiet
    PROVE  /\ Len(Handed') = Len(Handed)
           /\ AllEvents' <=> AllEvents
           /\ InOrder' <=> InOrder
BY DEF Quiet, AllEvents, InOrder, InOrderTo

\* _drain puts its item, the worker its fallback.
LEMMA PutsHands ==
    ASSUME StreamTypeOK, Puts
    PROVE  /\ Len(Handed') = Len(Handed) + 1 /\ Handed'[Len(Handed) + 1] = item
           /\ \A i \in 1 .. Len(Handed) : Handed'[i] = Handed[i]
           /\ Len(Handed) \in Nat
<1>1. item \in Item /\ queue' = Append(queue, item) /\ got' = got
  BY DEF StreamTypeOK, Puts, consumerVars
<1> QED
  BY <1>1, HandedGrows

LEMMA FallBackHands ==
    ASSUME StreamTypeOK, FallBack, ~closeRequested
    PROVE  /\ Len(Handed') = Len(Handed) + 1 /\ Handed'[Len(Handed) + 1] = Fallback
           /\ \A i \in 1 .. Len(Handed) : Handed'[i] = Handed[i]
           /\ Len(Handed) \in Nat
<1>1. Fallback \in Item /\ queue' = Append(queue, Fallback) /\ got' = got
  BY DEF Fallback, Item, FallBack, consumerVars
<1> QED
  BY <1>1, HandedGrows

\* An item that is no event ends the events.
LEMMA NoEventEnds ==
    ASSUME StreamTypeOK, InOrder, made' = made, NEW x, x \notin Event,
           Len(Handed') = Len(Handed) + 1, Handed'[Len(Handed) + 1] = x,
           \A i \in 1 .. Len(Handed) : Handed'[i] = Handed[i]
    PROVE  InOrder' /\ ~AllEvents'
<1>1. Len(Handed) \in Nat /\ made \in Nat
  BY HandedType DEF StreamTypeOK
<1>2. PICK n \in {made, made - 1} : InOrderTo(n)
  BY DEF InOrder
<1>3. /\ n \in 0 .. Len(Handed')
      /\ \A i \in 1 .. n : Handed'[i] = i
      /\ \A i \in n + 1 .. Len(Handed') : Handed'[i] \notin Event
  BY <1>1, <1>2 DEF InOrderTo
<1>4. ~AllEvents'
  BY <1>1 DEF AllEvents
<1>5. InOrder'
  BY <1>2, <1>3 DEF InOrder, InOrderTo
<1> QED
  BY <1>4, <1>5

\* The event that _drain holds is the next one.
LEMMA NextEvent ==
    ASSUME StreamTypeOK, InOrder, AllEvents, made' = made, made \in Event, made = Len(Handed) + 1,
           Len(Handed') = Len(Handed) + 1, Handed'[Len(Handed) + 1] = made,
           \A i \in 1 .. Len(Handed) : Handed'[i] = Handed[i]
    PROVE  InOrder' /\ AllEvents'
<1>1. Len(Handed) \in Nat /\ made \in Nat
  BY HandedType DEF StreamTypeOK
<1>2. AllEvents'
  BY <1>1 DEF AllEvents
<1>3. \A i \in 1 .. Len(Handed) : Handed[i] = i
  BY EventsInOrder DEF InOrderTo
<1>4. InOrder'
  BY <1>1, <1>3 DEF InOrder, InOrderTo
<1> QED
  BY <1>2, <1>4

\* Once _drain has returned, it and the source stay as they are.
LEMMA ReturnedStays ==
    ASSUME drain = "returned", StreamNext
    PROVE  /\ drain' = "returned" /\ source' = source
           /\ ~ownerCancels => ~ownerCancels'
<1> USE DEF DrainMoves, Suspended, queueVars, loopVars, drainVars, consumerVars
<1>1. CASE DrainStep
  BY <1>1 DEF DrainStep, Open, GivesUp, Puts, Clears, Rechecks, Wakes, Closes
<1>2. CASE LoopStep
  BY <1>2 DEF LoopStep, RunSet, RunCancel
<1>3. CASE SourceStep
  BY <1>3 DEF SourceStep, SourceYields, SourceEnds, SourceFails
<1>4. CASE WorkerStep
  BY <1>4 DEF WorkerStep, DrainReturned, FallBack
<1>5. CASE ConsumerStep
  BY <1>5 DEF ConsumerStep, Get, Notify, RequestClose, CancelDrain, Join
<1>6. CASE Refused \/ OwnerCancels \/ AskNext \/ Leave
  BY <1>6 DEF Refused, OwnerCancels, AskNext, Leave
<1> QED
  BY <1>1, <1>2, <1>3, <1>4, <1>5, <1>6 DEF StreamNext
-----------------------------------------------------------------------------
(* The parts of the invariant *)

LEMMA OrderNext ==
    ASSUME StreamInv, StreamNext
    PROVE  InOrder'
<1> USE DEF StreamInv
<1>1. CASE Quiet
  BY <1>1, QuietKeeps
<1>2. CASE SourceYields
  <2>1. AllEvents /\ Len(Handed) = made /\ made' = made + 1 /\ Handed' = Handed /\ made \in Nat
    BY <1>2 DEF SourceYields, EventsFirst, Handed, queueVars, consumerVars, StreamTypeOK
  <2>2. InOrderTo(made)
    BY <2>1, EventsInOrder
  <2> QED
    BY <2>1, <2>2 DEF InOrder, InOrderTo
<1>3. CASE Puts
  <2>1. made' = made /\ drain = "checking"
    BY <1>3 DEF Puts
  <2>2. CASE item \in Event
    BY <1>3, <2>1, <2>2, PutsHands, NextEvent DEF EventsFirst, Putting
  <2>3. CASE item \notin Event
    BY <1>3, <2>1, <2>3, PutsHands, NoEventEnds
  <2> QED
    BY <2>2, <2>3
<1>4. CASE FallBack /\ ~closeRequested
  <2>1. made' = made /\ Fallback \notin Event
    BY <1>4 DEF FallBack, drainVars, Fallback, Event, Error, End
  <2> QED
    BY <1>4, <2>1, FallBackHands, NoEventEnds
<1> QED
  BY <1>1, <1>2, <1>3, <1>4, QuietSteps

LEMMA StopsNext ==
    ASSUME StreamInv, StreamNext
    PROVE  StopsAtEnd'
<1>1. got \in Seq(Item) /\ queue \in Seq(Item) /\ StopsAtEnd
  BY DEF StreamInv, StreamTypeOK
<1>2. CASE Get
  <2>1. Head(queue) \in Item /\ consumer = "getting" /\ consumer' = "notifying"
        /\ got' = Append(got, Head(queue))
    BY <1>1, <1>2 DEF Get, ConsumerMoves
  <2> QED
    BY <1>1, <2>1 DEF StopsAtEnd
<1>3. CASE Notify
  <2>1. got' = got /\ consumer' \in {"caller", "closing"}
        /\ (consumer' = "caller" => got[Len(got)] \in Event)
    BY <1>3 DEF Notify, ConsumerMoves
  <2> QED
    BY <1>1, <2>1 DEF StopsAtEnd
<1>4. CASE AskNext
  BY <1>1, <1>4 DEF StopsAtEnd, AskNext, ConsumerMoves
<1>5. ASSUME got' = got, consumer' = consumer \/ consumer' \notin {"getting", "caller"}
      PROVE  StopsAtEnd'
  BY <1>1, <1>5 DEF StopsAtEnd
<1>6. CASE RequestClose \/ CancelDrain \/ Join \/ Leave
  BY <1>5, <1>6 DEF RequestClose, CancelDrain, Join, Leave, ConsumerMoves
<1>7. CASE DrainStep
  BY <1>5, <1>7 DEF DrainStep, Open, GivesUp, Puts, Clears, Rechecks, Wakes, Closes, consumerVars
<1>8. CASE LoopStep \/ SourceStep \/ WorkerStep \/ Refused \/ OwnerCancels
  BY <1>5, <1>8 DEF LoopStep, RunSet, RunCancel, SourceStep, SourceYields, SourceEnds,
     SourceFails, WorkerStep, DrainReturned, FallBack, Refused, OwnerCancels, consumerVars
<1> QED
  BY <1>2, <1>3, <1>4, <1>6, <1>7, <1>8 DEF StreamNext, ConsumerStep

LEMMA EventsFirstNext ==
    ASSUME StreamInv, StreamNext
    PROVE  EventsFirst'
<1> USE DEF Putting, Enqueues, Follows, DrainMoves, Suspended, queueVars, loopVars, drainVars,
        consumerVars
<1>1. EventsFirst /\ StreamTypeOK /\ FallbackLast /\ made \in Nat /\ Len(Handed) \in Nat
  BY HandedType DEF StreamInv, StreamTypeOK
<1>2. CASE Quiet
  <2>1. /\ Handed' = Handed /\ made' = made /\ (AllEvents' <=> AllEvents)
        /\ Len(Handed') = Len(Handed)
    BY <1>2, QuietKeeps DEF Quiet
  <2>2. ASSUME drain' = drain, item' = item
        PROVE  EventsFirst'
    BY <1>1, <2>1, <2>2 DEF EventsFirst
  <2>3. CASE Open
    <3>1. Handed = <<>> /\ made = 0 /\ drain' \in {"asking", "returned"}
      BY <1>1, <2>3 DEF Open, EventsFirst
    <3>2. AllEvents /\ Len(Handed) = 0
      BY <3>1 DEF AllEvents
    <3> QED
      BY <2>1, <3>1, <3>2 DEF EventsFirst
  <2>4. CASE GivesUp \/ Clears \/ Rechecks \/ Wakes
    BY <1>1, <2>1, <2>4 DEF EventsFirst, GivesUp, Clears, Rechecks, Wakes
  <2>5. CASE Closes
    BY <1>1, <2>1, <2>5 DEF EventsFirst, Closes, Event, End, Error
  <2>6. CASE RunCancel
    BY <1>1, <2>1, <2>6 DEF EventsFirst, RunCancel, Event, End, Error
  <2>7. CASE SourceEnds \/ SourceFails
    BY <1>1, <2>1, <2>7 DEF EventsFirst, SourceEnds, SourceFails, Event, End, Error
  <2>8. CASE Refused
    BY <1>1, <2>1, <2>8 DEF EventsFirst, Refused
  <2>9. CASE RunSet \/ WorkerStep \/ ConsumerStep \/ OwnerCancels \/ AskNext \/ Leave
    BY <2>2, <2>9 DEF RunSet, WorkerStep, DrainReturned, FallBack, ConsumerStep, Get, Notify,
       RequestClose, CancelDrain, Join, OwnerCancels, AskNext, Leave
  <2>10. CASE SourceYields
    BY <1>1, <2>1, <2>10 DEF SourceYields
  <2>11. CASE Puts
    <3>1. Len(Handed') = Len(Handed) + 1
      BY <1>1, <2>11, PutsHands
    <3> QED
      BY <1>1, <2>1, <3>1
  <2> QED
    BY <2>3, <2>4, <2>5, <2>6, <2>7, <2>8, <2>9, <2>10, <2>11
    DEF StreamNext, DrainStep, LoopStep, SourceStep
<1>3. CASE SourceYields
  <2>1. /\ drain = "asking" /\ drain' = "checking" /\ item' = made' /\ made' = made + 1
        /\ Handed' = Handed
    BY <1>3 DEF SourceYields, Handed
  <2>2. AllEvents /\ Len(Handed) = made
    BY <1>1, <2>1 DEF EventsFirst
  <2>3. AllEvents'
    BY <2>1, <2>2 DEF AllEvents
  <2> QED
    BY <1>1, <2>1, <2>2, <2>3 DEF EventsFirst, Error
<1>4. CASE Puts
  <2>1. drain = "checking" /\ made' = made /\ item' = item
        /\ drain' \in {"returned", "asking", "closing"} /\ (drain' = "asking" => item \in Event)
    BY <1>4 DEF Puts
  <2>2. CASE item \in Event
    <3>1. AllEvents /\ item = made /\ made = Len(Handed) + 1
      BY <1>1, <2>1, <2>2 DEF EventsFirst
    <3>2. AllEvents' /\ Len(Handed') = made
      BY <1>1, <1>4, <2>1, <2>2, <3>1, PutsHands, NextEvent DEF StreamInv
    <3> QED
      BY <2>1, <3>2 DEF EventsFirst
  <2>3. CASE item \notin Event
    BY <2>1, <2>3 DEF EventsFirst
  <2> QED
    BY <2>2, <2>3
<1>5. CASE FallBack /\ ~closeRequested
  <2>1. drain = "returned" /\ drain' = drain
    BY <1>1, <1>5 DEF FallBack, FallbackLast
  <2> QED
    BY <2>1 DEF EventsFirst
<1> QED
  BY <1>1, <1>2, <1>3, <1>4, <1>5, QuietSteps

LEMMA FallbackNext ==
    ASSUME StreamInv, StreamNext
    PROVE  FallbackLast'
<1> USE DEF queueVars, loopVars, drainVars, consumerVars
<1>1. FallbackLast /\ StreamTypeOK /\ InOrder
  BY DEF StreamInv
<1>2. closeRequested => closeRequested'
  BY DEF StreamNext, DrainStep, Open, GivesUp, Puts, Clears, Rechecks, Wakes, Closes, LoopStep, RunSet,
     RunCancel, SourceStep, SourceYields, SourceEnds, SourceFails, WorkerStep, DrainReturned,
     FallBack, ConsumerStep, Get, Notify, RequestClose, CancelDrain, Join, Refused, OwnerCancels,
     AskNext, Leave
<1>3. CASE FallBack
  <2>1. drain' = "returned" /\ made' = made /\ worker' \in {"sentinel", "ended"}
    BY <1>1, <1>3 DEF FallBack, FallbackLast
  <2>2. ~closeRequested => ~AllEvents'
    <3>1. Fallback \notin Event
      BY DEF Fallback, Event, Error, End
    <3> QED
      BY <1>1, <1>3, <2>1, <3>1, FallBackHands, NoEventEnds
  <2> QED
    BY <1>2, <2>1, <2>2 DEF FallbackLast
<1>4. CASE DrainReturned
  BY <1>4 DEF DrainReturned, FallbackLast
<1>5. ASSUME worker' = worker
      PROVE  FallbackLast'
  <2>1. CASE worker = "draining"
    BY <1>5, <2>1 DEF FallbackLast
  <2>2. CASE worker # "draining"
    <3>1. drain = "returned" /\ drain' = "returned"
      BY <1>1, <2>2, ReturnedStays DEF FallbackLast
    <3>2. CASE Quiet
      BY <1>1, <1>2, <1>5, <3>1, <3>2, QuietKeeps DEF FallbackLast
    <3>3. CASE FallBack
      BY <1>3, <3>3
    <3> QED
      BY <1>1, <3>1, <3>2, <3>3, QuietSteps DEF SourceYields, Puts
  <2> QED
    BY <2>1, <2>2
<1>6. worker' = worker \/ FallBack \/ DrainReturned
  BY DEF StreamNext, DrainStep, Open, GivesUp, Puts, Clears, Rechecks, Wakes, Closes, LoopStep, RunSet,
     RunCancel, SourceStep, SourceYields, SourceEnds, SourceFails, WorkerStep, ConsumerStep, Get,
     Notify, RequestClose, CancelDrain, Join, Refused, OwnerCancels, AskNext, Leave
<1> QED
  BY <1>3, <1>4, <1>5, <1>6

LEMMA CancelNext ==
    ASSUME StreamInv, StreamNext
    PROVE  CancelKnown'
<1> USE DEF ConsumerMoves, queueVars, loopVars, drainVars, consumerVars
<1>1. CancelKnown
  BY DEF StreamInv
<1>2. ASSUME UNCHANGED <<closeRequested, consumer, ownerCancels>>, calls' \subseteq calls
      PROVE  CancelKnown'
  BY <1>1, <1>2 DEF CancelKnown
<1>3. CASE DrainStep
  BY <1>2, <1>3 DEF DrainStep, Open, GivesUp, Puts, Clears, Rechecks, Wakes, Closes
<1>4. CASE LoopStep
  BY <1>2, <1>4 DEF LoopStep, RunSet, RunCancel
<1>5. CASE SourceStep \/ WorkerStep \/ Refused
  BY <1>2, <1>5 DEF SourceStep, SourceYields, SourceEnds, SourceFails, WorkerStep, DrainReturned,
     FallBack, Refused
<1>6. CASE ConsumerStep
  BY <1>1, <1>6 DEF CancelKnown, ConsumerStep, Get, Notify, RequestClose, CancelDrain, Join
<1>7. CASE OwnerCancels \/ AskNext \/ Leave
  BY <1>1, <1>7 DEF CancelKnown, OwnerCancels, AskNext, Leave
<1> QED
  BY <1>3, <1>4, <1>5, <1>6, <1>7 DEF StreamNext

LEMMA ErrorNext ==
    ASSUME StreamInv, StreamNext
    PROVE  ErrorKnown'
<1> USE DEF Putting, Enqueues, Follows, DrainMoves, Suspended, queueVars, loopVars, drainVars,
        consumerVars
<1>1. /\ ErrorKnown /\ EventsFirst /\ CancelKnown /\ StreamTypeOK
      /\ made \in Nat /\ Len(Handed) \in Nat
  BY HandedType DEF StreamInv, StreamTypeOK
<1>2. CASE Quiet
  <2>1. made' = made /\ Len(Handed') = Len(Handed)
    BY <1>2, QuietKeeps DEF Quiet
  <2>2. CASE Open
    BY <2>2 DEF ErrorKnown, Open
  <2>3. CASE GivesUp \/ Clears \/ Rechecks \/ Wakes
    BY <1>1, <2>1, <2>3 DEF ErrorKnown, GivesUp, Clears, Rechecks, Wakes
  <2>4. CASE Closes
    BY <2>4 DEF ErrorKnown, Closes, End, Error
  <2>5. CASE RunCancel
    <3>1. CASE item' = Error /\ drain' = "checking" /\ ~closeRequested
      <4>1. ~ownerCancels /\ ownerCancels' = ownerCancels /\ "cancel" \notin calls'
        BY <1>1, <2>5, <3>1 DEF CancelKnown, RunCancel
      <4> QED
        BY <4>1 DEF ErrorKnown
    <3>2. CASE ~(item' = Error /\ drain' = "checking") \/ closeRequested
      BY <2>5, <3>2 DEF ErrorKnown, RunCancel
    <3> QED
      BY <3>1, <3>2
  <2>6. CASE SourceEnds
    BY <2>6 DEF ErrorKnown, SourceEnds
  <2>7. CASE SourceFails
    BY <1>1, <2>1, <2>7 DEF ErrorKnown, EventsFirst, SourceFails
  <2>8. CASE OwnerCancels
    BY <1>1, <2>1, <2>8 DEF ErrorKnown, OwnerCancels
  <2>9. CASE RunSet \/ WorkerStep \/ AskNext \/ Leave \/ Get \/ RequestClose \/ Join
    BY <1>1, <2>1, <2>9 DEF ErrorKnown, RunSet, WorkerStep, DrainReturned, FallBack, AskNext,
       Leave, Get, RequestClose, Join
  <2>10. CASE Notify
    BY <1>1, <2>1, <2>10 DEF ErrorKnown, Notify
  <2>11. CASE CancelDrain
    BY <1>1, <2>11 DEF ErrorKnown, CancelKnown, CancelDrain, ConsumerMoves
  <2>12. CASE Refused
    BY <2>12 DEF ErrorKnown, Refused
  <2>13. CASE SourceYields
    BY <1>1, <2>1, <2>13 DEF SourceYields
  <2>14. CASE Puts
    <3>1. Len(Handed') = Len(Handed) + 1
      BY <1>1, <2>14, PutsHands
    <3> QED
      BY <1>1, <2>1, <3>1
  <2> QED
    BY <2>2, <2>3, <2>4, <2>5, <2>6, <2>7, <2>8, <2>9, <2>10, <2>11, <2>12, <2>13, <2>14
    DEF StreamNext, DrainStep, LoopStep, SourceStep, ConsumerStep
<1>3. CASE SourceYields
  <2>1. item' # Error
    BY <1>1, <1>3 DEF SourceYields, Error
  <2> QED
    BY <2>1 DEF ErrorKnown
<1>4. CASE Puts
  BY <1>4 DEF ErrorKnown, Puts
<1>5. CASE FallBack /\ ~closeRequested
  <2>1. drain' = "returned"
    BY <1>5 DEF StreamInv, FallBack, FallbackLast
  <2> QED
    BY <2>1 DEF ErrorKnown
<1> QED
  BY <1>1, <1>2, <1>3, <1>4, <1>5, QuietSteps

LEMMA EndNext ==
    ASSUME StreamInv, StreamNext
    PROVE  EndKnown'
<1> USE DEF Putting, Enqueues, Follows, DrainMoves, Suspended, Complete, queueVars, loopVars,
        drainVars, consumerVars
<1>1. /\ EndKnown /\ ErrorKnown /\ EventsFirst /\ CancelKnown /\ StreamTypeOK
      /\ made \in Nat /\ Len(Handed) \in Nat
  BY HandedType DEF StreamInv, StreamTypeOK
<1>2. CASE Quiet
  <2>1. made' = made /\ Len(Handed') = Len(Handed) /\ (AllEvents' <=> AllEvents)
    BY <1>2, QuietKeeps DEF Quiet
  <2>2. CASE Open
    BY <2>2 DEF EndKnown, Open
  <2>3. CASE GivesUp \/ Clears \/ Rechecks \/ Wakes
    BY <1>1, <2>1, <2>3 DEF EndKnown, GivesUp, Clears, Rechecks, Wakes
  <2>4. CASE Closes
    BY <1>1, <2>1, <2>4 DEF EndKnown, Closes
  <2>5. CASE RunCancel
    <3>1. CASE drain = "closing"
      BY <1>1, <2>1, <2>5, <3>1 DEF EndKnown, RunCancel
    <3>2. CASE drain = "waiting" /\ item \notin Event
      <4>1. /\ "cancel" \in calls /\ item \in Item /\ source' = source
            /\ closeRequested' = closeRequested /\ ownerCancels' = ownerCancels
            /\ item' = item
            /\ drain' = IF item = End THEN "returned" ELSE "closing"
        BY <1>1, <2>5, <3>2 DEF RunCancel, StreamTypeOK
      <4>2. CASE item = End
        BY <4>1, <4>2 DEF EndKnown
      <4>3. CASE item # End
        <5>1. item = Error
          BY <3>2, <4>1, <4>3 DEF Item
        <5> QED
          BY <1>1, <2>1, <3>2, <4>1, <5>1 DEF EndKnown, ErrorKnown, CancelKnown
      <4> QED
        BY <4>2, <4>3
    <3>3. CASE drain = "asking" \/ (drain = "waiting" /\ item \in Event)
      BY <2>5, <3>3 DEF EndKnown, RunCancel, Error, End
    <3> QED
      BY <2>5, <3>1, <3>2, <3>3 DEF RunCancel
  <2>6. CASE SourceEnds
    BY <1>1, <2>1, <2>6 DEF EndKnown, EventsFirst, SourceEnds
  <2>7. CASE SourceFails
    BY <2>7 DEF EndKnown, SourceFails, Error, End
  <2>8. CASE OwnerCancels
    BY <1>1, <2>1, <2>8 DEF EndKnown, OwnerCancels
  <2>9. CASE RunSet \/ WorkerStep \/ ConsumerStep \/ AskNext \/ Leave
    BY <1>1, <2>1, <2>9 DEF EndKnown, RunSet, WorkerStep, DrainReturned, FallBack, ConsumerStep,
       AskNext, Leave, Get, Notify, RequestClose, CancelDrain, Join
  <2>10. CASE Refused
    BY <2>10 DEF EndKnown, Refused
  <2>11. CASE SourceYields
    BY <1>1, <2>1, <2>11 DEF SourceYields
  <2>12. CASE Puts
    <3>1. Len(Handed') = Len(Handed) + 1
      BY <1>1, <2>12, PutsHands
    <3> QED
      BY <1>1, <2>1, <3>1
  <2> QED
    BY <2>2, <2>3, <2>4, <2>5, <2>6, <2>7, <2>8, <2>9, <2>10, <2>11, <2>12
    DEF StreamNext, DrainStep, LoopStep, SourceStep
<1>3. CASE SourceYields
  <2>1. item' # End /\ drain' = "checking"
    BY <1>1, <1>3 DEF SourceYields, End
  <2> QED
    BY <2>1 DEF EndKnown
<1>4. CASE Puts
  <2>1. CASE item \in Event \cup {End}
    BY <1>4, <2>1 DEF EndKnown, Puts
  <2>2. CASE item \notin Event
    <3>1. ~AllEvents'
      BY <1>4, <2>2, PutsHands, NoEventEnds DEF StreamInv, Puts
    <3> QED
      BY <3>1 DEF EndKnown
  <2> QED
    BY <2>1, <2>2
<1>5. CASE FallBack /\ ~closeRequested
  <2>1. drain' = "returned"
    BY <1>5 DEF StreamInv, FallBack, FallbackLast
  <2> QED
    BY <2>1 DEF EndKnown
<1> QED
  BY <1>1, <1>2, <1>3, <1>4, <1>5, QuietSteps

LEMMA FirstEndNext ==
    ASSUME StreamInv, StreamNext
    PROVE  FirstEnd'
<1>1. /\ FirstEnd /\ EndKnown /\ FallbackLast /\ StreamTypeOK
      /\ made \in Nat /\ Len(Handed) \in Nat
  BY HandedType DEF StreamInv, StreamTypeOK
<1> SUFFICES ASSUME NEW i \in 1 .. Len(Handed'), Handed'[i] = End,
                    \A j \in 1 .. i - 1 : Handed'[j] \in Event
             PROVE  i = made' + 1 /\ Complete' /\ drain' = "returned"
  BY Zenon DEF FirstEnd
<1>2. ASSUME i \in 1 .. Len(Handed), made' = made,
             \A j \in 1 .. Len(Handed) : Handed'[j] = Handed[j]
      PROVE  i = made' + 1 /\ Complete' /\ drain' = "returned"
  <2>1. \A j \in 1 .. i - 1 : Handed[j] \in Event
    BY <1>1, <1>2
  <2>2. i = made + 1 /\ Complete /\ drain = "returned"
    BY <1>1, <1>2, <2>1 DEF FirstEnd
  <2> QED
    BY <1>2, <2>2, ReturnedStays DEF Complete
<1>3. CASE Quiet
  BY <1>2, <1>3 DEF Quiet
<1>4. CASE SourceYields
  <2>1. drain = "asking" /\ Handed' = Handed
    BY <1>4 DEF SourceYields, Handed, queueVars, consumerVars
  <2>2. drain = "returned"
    BY <1>1, <2>1 DEF FirstEnd
  <2> QED
    BY <2>1, <2>2
<1>5. CASE Puts
  <2>1. CASE i \in 1 .. Len(Handed)
    BY <1>2, <1>1, <1>5, <2>1, PutsHands DEF Puts
  <2>2. CASE i = Len(Handed) + 1
    <3>1. item = End /\ AllEvents
      BY <1>1, <1>5, <2>2, PutsHands DEF AllEvents
    <3>2. /\ drain = "checking" /\ ~closeRequested /\ drain' = "returned"
          /\ made' = made /\ source' = source /\ ownerCancels' = ownerCancels
      BY <1>5, <3>1 DEF Puts, Follows, loopVars
    <3>3. Len(Handed) = made /\ Complete
      BY <1>1, <3>1, <3>2 DEF EndKnown, Putting
    <3> QED
      BY <2>2, <3>2, <3>3 DEF Complete
  <2> QED
    BY <1>1, <1>5, <2>1, <2>2, PutsHands
<1>6. CASE FallBack /\ ~closeRequested
  <2>1. CASE i \in 1 .. Len(Handed)
    BY <1>2, <1>1, <1>6, <2>1, FallBackHands DEF FallBack, drainVars
  <2>2. CASE i = Len(Handed) + 1
    <3>1. Fallback = End /\ AllEvents
      BY <1>1, <1>6, <2>2, FallBackHands DEF AllEvents
    <3>2. worker = "sentinel"
      BY <1>6, <3>1 DEF FallBack, Fallback, Error, End
    <3> QED
      BY <1>1, <1>6, <3>1, <3>2 DEF FallbackLast
  <2> QED
    BY <1>1, <1>6, <2>1, <2>2, FallBackHands
<1> QED
  BY <1>1, <1>3, <1>4, <1>5, <1>6, QuietSteps
-----------------------------------------------------------------------------
LEMMA StreamKept == StreamInv /\ [StreamNext]_streamVars => StreamInv'
<1> SUFFICES ASSUME StreamInv, [StreamNext]_streamVars PROVE StreamInv'
  OBVIOUS
<1>1. CASE StreamNext
  BY <1>1, TypeNext, OrderNext, StopsNext, EventsFirstNext, FallbackNext, CancelNext, ErrorNext,
     EndNext, FirstEndNext DEF StreamInv
<1>2. CASE UNCHANGED streamVars
  <2> USE <1>2 DEF streamVars, queueVars, loopVars, drainVars, consumerVars
  <2>1. StreamTypeOK' /\ Quiet
    BY TypeNext DEF StreamInv, Quiet, Handed
  <2>2. InOrder'
    BY <2>1, QuietKeeps DEF StreamInv
  <2>3. StopsAtEnd' /\ CancelKnown'
    BY DEF StreamInv, StopsAtEnd, CancelKnown
  <2>4. EventsFirst' /\ FallbackLast' /\ ErrorKnown' /\ EndKnown'
    BY <2>1, QuietKeeps DEF Quiet, StreamInv, EventsFirst, FallbackLast, ErrorKnown, EndKnown,
       Putting, Complete
  <2>5. FirstEnd'
    BY <2>1 DEF Quiet, StreamInv, FirstEnd, Complete
  <2> QED
    BY <2>1, <2>2, <2>3, <2>4, <2>5 DEF StreamInv
<1> QED
  BY <1>1, <1>2

\* The state of a stream is well-formed, and what was handed over is a prefix
\* of the events with an explained end, whoever closes or cancels what when.
THEOREM StreamInvariant == StreamSpec => []StreamInv
<1> QED
  BY InitStream, StreamKept, PTL DEF StreamSpec

\* What the caller got is a prefix of what was handed over.
LEMMA GotIsHanded ==
    ASSUME StreamTypeOK
    PROVE  /\ \A i \in 1 .. Len(got) : Handed[i] = got[i]
           /\ Len(got) \in Nat /\ Len(queue) \in 0 .. QueueSize
           /\ Len(Handed) = Len(got) + Len(queue)
<1>1. got \in Seq(Item) /\ queue \in Seq(Item) /\ Len(queue) <= QueueSize
  BY DEF StreamTypeOK
<1> QED
  BY <1>1, StreamAssumption DEF Handed

\* For any number of events and any size of the queue, _enqueue_from_async
\* holds the source back: it is never more than the queue and one item ahead
\* of what the caller has taken.
THEOREM StreamSourceAhead == StreamSpec => []SourceAhead
<1>1. StreamInv => SourceAhead
  <2> SUFFICES ASSUME StreamInv PROVE made <= Taken + QueueSize + 1
    BY DEF SourceAhead
  <2>1. PICK n \in {made, made - 1} : InOrderTo(n)
    BY DEF StreamInv, InOrder
  <2>2. /\ made \in 0 .. MaxEvents /\ MaxEvents \in Nat /\ QueueSize \in Nat \ {0}
        /\ got \in Seq(Item)
    BY StreamAssumption DEF StreamInv, StreamTypeOK
  <2>3. /\ n \in 0 .. Len(got) + Len(queue)
        /\ Len(got) \in Nat /\ Len(queue) \in 0 .. QueueSize
        /\ \A i \in 1 .. Len(got) : i <= n => got[i] = i
    BY <2>1, GotIsHanded DEF StreamInv, InOrderTo
  <2>4. CASE got # <<>> /\ got[Len(got)] \notin Event
    <3>1. Len(got) \in 1 .. Len(got) /\ Taken = Len(got) - 1
      BY <2>2, <2>4 DEF Taken
    <3>2. n < Len(got)
      BY <2>1, <2>2, <2>3, <2>4, <3>1 DEF Event
    <3> QED
      BY <2>1, <2>2, <2>3, <3>1, <3>2
  <2>5. CASE ~(got # <<>> /\ got[Len(got)] \notin Event)
    <3>1. Taken = Len(got)
      BY <2>5 DEF Taken
    <3> QED
      BY <2>1, <2>2, <2>3, <3>1
  <2> QED
    BY <2>4, <2>5
<1> QED
  BY <1>1, StreamInvariant, PTL

\* For any number of events and any size of the queue, a stream that ends as
\* if its source had ended has yielded all of it, and one that raises has
\* yielded a prefix (_drain, _run and the generator together).
THEOREM StreamEndMeansComplete == StreamSpec => []EndMeansComplete
<1>1. StreamInv => EndMeansComplete
  <2> SUFFICES ASSUME StreamInv PROVE EndMeansComplete
    OBVIOUS
  <2>1. /\ \A i \in 1 .. Len(got) : Handed[i] = got[i]
        /\ Len(got) \in Nat /\ Len(Handed) \in Nat /\ Len(got) <= Len(Handed)
    BY GotIsHanded, HandedType DEF StreamInv
  <2>2. got \in Seq(Item) /\ StopsAtEnd /\ FirstEnd
    BY DEF StreamInv, StreamTypeOK
  <2>3. ASSUME NEW i \in DOMAIN got, got[i] \in Event
        PROVE  got[i] = i
    <3>1. PICK n \in {made, made - 1} : InOrderTo(n)
      BY DEF StreamInv, InOrder
    <3>2. i \in 1 .. Len(got)
      BY <2>2, <2>3
    <3> QED
      BY <2>1, <2>3, <3>1, <3>2 DEF InOrderTo
  <2>4. ASSUME got # <<>>, got[Len(got)] = End
        PROVE  Len(got) = made + 1 /\ Complete
    <3>1. Len(got) \in 1 .. Len(got) /\ Len(got) \in 1 .. Len(Handed)
      BY <2>1, <2>2, <2>4
    <3>2. Handed[Len(got)] = End /\ \A j \in 1 .. Len(got) - 1 : Handed[j] \in Event
      BY <2>1, <2>2, <2>4, <3>1 DEF StopsAtEnd
    <3> QED
      BY <2>2, <3>1, <3>2 DEF FirstEnd
  <2> QED
    BY <2>3, <2>4 DEF EndMeansComplete, Complete
<1> QED
  BY <1>1, StreamInvariant, PTL

\* The queue never holds more items than its bound.
THEOREM StreamQueueBound == StreamSpec => []StreamTypeOK
<1>1. StreamInv => StreamTypeOK
  BY DEF StreamInv
<1> QED
  BY <1>1, StreamInvariant, PTL

=============================================================================
