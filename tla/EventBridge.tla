----------------------------- MODULE EventBridge -----------------------------
(***************************************************************************)
(* events/_bridge: one producer emits the events of a turn; generators of  *)
(* server-sent events replay the history and then share the live queue.    *)
(* One browser is followed: it reads one generator, loses its connection,  *)
(* and comes back with the id of the last event it received.  Any other    *)
(* generator is somebody else's, or one whose browser is gone and whose    *)
(* server has not noticed yet.                                             *)
(***************************************************************************)
EXTENDS Integers, Sequences, FiniteSets

CONSTANTS
    Generators,     \* generate_sse(), one per connection
    Turns,          \* backpressure policies, lengths of the history, and kinds of
                    \* events to emit in order
    QueueSize,      \* queue_maxsize where it is bounded
    MaxMishaps,     \* bound: lost connections, other readers, failed observers
    MaxReopens      \* bound: calls of reopen()

ASSUME BridgeAssumption ==
    /\ QueueSize \in Nat \ {0}
    /\ IsFiniteSet(Generators) /\ "nobody" \notin Generators
    /\ \A t \in Turns :
          /\ t.policy \in {"none", "block", "drop_oldest", "drop_newest"}
          /\ t.history \in Nat \ {0}
          /\ t.events \in Seq({"session_start", "chunk", "interrupt", "tool", "final"})

VARIABLES
    policy,         \* backpressure, or "none" for an unbounded queue
    maxHistory,     \* max_history
    plan,           \* kinds of events still to emit
    kinds,          \* the kind of every event emitted; its place is its id
    turn,           \* events emitted before the last reopen()
    asked,          \* _emitted_interrupt_fingerprints holds the interrupt
    history,        \* _event_history, a set: it is in the order of emission
    liveQueue,      \* _queue, a set for the same reason
    hand,           \* where emit() is with the newest event
    excused,        \* events whose observer raised, that the policy dropped, or
                    \* that another generator took while the browser was reading
    shut,           \* _closed
    count,          \* _subscriber_count
    connected,      \* _subscriber_connected is set
    gen,            \* the generators
    reader,         \* the one the browser reads
    cursor,         \* the last event the browser received, 0 for none
    received,       \* what it received, in any connection
    told,           \* it came back with a cursor the history did not hold
    mishaps, reopens

producer == <<policy, maxHistory, plan, kinds, turn, asked, history, hand, reopens>>
browser  == <<reader, cursor, received, told>>
bridgeVars == <<producer, liveQueue, shut, count, connected, gen, browser, excused, mishaps>>

Kind == {"session_start", "chunk", "interrupt", "tool", "final"}
Policy == {"none", "block", "drop_oldest", "drop_newest"}
NoReader == "nobody"
Id == 1 .. Len(kinds)
Newest == Len(kinds)
Structural == {e \in Id : kinds[e] # "chunk"}
Terminal(e) == kinds[e] = "final"
Attached == {g \in Generators : gen[g].mode # "gone"}
Full == policy # "none" /\ Cardinality(liveQueue) >= QueueSize
Oldest(S) == CHOOSE e \in S : \A d \in S : e <= d

EventTypeOK ==
    /\ policy \in Policy /\ kinds \in Seq(Kind) /\ turn \in 0 .. Newest
    /\ asked \in BOOLEAN /\ shut \in BOOLEAN /\ connected \in BOOLEAN
    /\ history \subseteq Id /\ Cardinality(history) <= maxHistory
    /\ liveQueue \subseteq Id /\ (policy # "none" => Cardinality(liveQueue) <= QueueSize)
    /\ hand \in {"idle", "observing", "putting"} /\ excused \subseteq Id
    /\ count \in 0 .. Cardinality(Attached)
    /\ \A g \in Generators : gen[g].mode \in {"gone", "replay", "waiting", "live"}
    /\ reader \in Attached \cup {NoReader} /\ cursor \in 0 .. Newest

Gone == [mode |-> "gone", out |-> 0, rest |-> {}, seen |-> {}]

EventInit ==
    /\ \E t \in Turns : policy = t.policy /\ maxHistory = t.history /\ plan = t.events
    /\ kinds = <<>> /\ turn = 0 /\ asked = FALSE
    /\ history = {} /\ liveQueue = {} /\ hand = "idle" /\ excused = {}
    /\ shut = FALSE /\ count = 0 /\ connected = FALSE
    /\ gen = [g \in Generators |-> Gone]
    /\ reader = NoReader /\ cursor = 0 /\ received = {}
    /\ told = FALSE /\ mishaps = 0 /\ reopens = 0

-----------------------------------------------------------------------------
(* The producer.                                                           *)

Mishap == mishaps < MaxMishaps /\ mishaps' = mishaps + 1

\* Mutation: the bug that the comment of _evict_from_history tells of.
EvictOldest(h, ks) == IF Cardinality(h) > maxHistory THEN h \ {Oldest(h)} ELSE h

\* _evict_from_history: the oldest chunks are spent first, and the oldest
\* events only when no chunk is left.
Evict(h, ks) ==
    LET n == Cardinality(h) - maxHistory
        first(S, k) == {e \in S : Cardinality({d \in S : d < e}) < k}
        chunks == first({e \in h : ks[e] = "chunk"}, n)
    IN (h \ chunks) \ first(h \ chunks, n - Cardinality(chunks))

\* An interrupt that was shown is not shown again; its fingerprint is noted
\* even when the bridge is closed and the event goes nowhere.  With no
\* observer the next step follows at once.
Emit ==
    /\ hand = "idle" /\ plan # <<>>
    /\ plan' = Tail(plan)
    /\ LET k == Head(plan)
       IN /\ asked' = (k = "interrupt" \/ (asked /\ k # "session_start"))
          /\ \/ /\ shut \/ (k = "interrupt" /\ asked)
                /\ UNCHANGED <<kinds, history, hand>>
             \/ /\ ~shut /\ ~(k = "interrupt" /\ asked)
                /\ kinds' = Append(kinds, k)
                /\ history' = Evict(history \cup {Newest + 1}, kinds')
                /\ hand' = "observing"
    /\ UNCHANGED <<policy, maxHistory, turn, reopens, liveQueue, shut, count, connected, gen,
                   browser, excused, mishaps>>

ObserverRaises ==
    /\ hand = "observing" /\ Mishap
    /\ hand' = "idle" /\ excused' = excused \cup {Newest}
    /\ UNCHANGED <<policy, maxHistory, plan, kinds, turn, asked, history, reopens, liveQueue,
                   shut, count, connected, gen, browser>>

\* The observer has returned and the policy decides.
Enqueue ==
    /\ hand = "observing"
    /\ LET put(q, lost) == /\ liveQueue' = q /\ excused' = excused \cup lost
                           /\ hand' = "idle"
       IN \/ ~Full /\ put(liveQueue \cup {Newest}, {})
          \/ /\ Full /\ policy = "block" /\ hand' = "putting"
             /\ UNCHANGED <<liveQueue, excused>>
          \/ Full /\ policy = "drop_newest" /\ put(liveQueue, {Newest})
          \/ /\ Full /\ policy = "drop_oldest"
             /\ put((liveQueue \ {Oldest(liveQueue)}) \cup {Newest}, {Oldest(liveQueue)})
    /\ UNCHANGED <<policy, maxHistory, plan, kinds, turn, asked, history, reopens, shut,
                   count, connected, gen, browser, mishaps>>

BlockedPutEnds ==
    /\ hand = "putting" /\ ~Full
    /\ liveQueue' = liveQueue \cup {Newest} /\ hand' = "idle"
    /\ UNCHANGED <<policy, maxHistory, plan, kinds, turn, asked, history, reopens, shut, count,
                   connected, gen, browser, excused, mishaps>>

Close ==
    /\ ~shut /\ shut' = TRUE
    /\ UNCHANGED <<producer, liveQueue, count, connected, gen, browser, excused, mishaps>>

\* Mutation: _reset_dedup_state is forgotten.
ReopenKeepsFingerprints ==
    /\ shut /\ hand = "idle" /\ reopens < MaxReopens
    /\ reopens' = reopens + 1 /\ turn' = Newest /\ UNCHANGED asked
    /\ history' = {} /\ liveQueue' = {} /\ shut' = FALSE
    /\ count' = 0 /\ connected' = FALSE
    /\ UNCHANGED <<policy, maxHistory, plan, kinds, hand, gen, browser, excused, mishaps>>

\* Generators that are suspended somewhere are not told.
Reopen ==
    /\ shut /\ hand = "idle" /\ reopens < MaxReopens
    /\ reopens' = reopens + 1 /\ turn' = Newest /\ asked' = FALSE
    /\ history' = {} /\ liveQueue' = {} /\ shut' = FALSE
    /\ count' = 0 /\ connected' = FALSE
    /\ UNCHANGED <<policy, maxHistory, plan, kinds, hand, gen, browser, excused, mishaps>>

-----------------------------------------------------------------------------
(* The generators.                                                         *)

Detach(g) ==
    /\ gen' = [gen EXCEPT ![g] = Gone]
    /\ count' = IF count = 0 THEN 0 ELSE count - 1
    /\ connected' = (connected /\ count' # 0)
    /\ reader' = IF reader = g THEN NoReader ELSE reader

\* Back at the head of "while not stream_is_closed".
Waits(g, sn) ==
    IF shut THEN Detach(g)
    ELSE /\ gen' = [gen EXCEPT ![g] = [Gone EXCEPT !.mode = "waiting", !.seen = sn]]
         /\ UNCHANGED <<count, connected, reader>>

Yields(g, m, e, rs, sn) ==
    gen' = [gen EXCEPT ![g] = [mode |-> m, out |-> e, rest |-> rs, seen |-> sn]]

\* What g removes from the queue while the browser reads another generator:
\* events it takes, and those that a replay has delivered to somebody else.
Steals(g) ==
    excused' = IF reader \in {g, NoReader} THEN excused
               ELSE excused \cup (liveQueue \ liveQueue')

DrainReplayed(sn) == liveQueue' = liveQueue \ sn

\* Mutation: the event of the cursor is sent again.
AfterCursorInclusive(c) ==
    IF c \in history THEN {e \in history : e >= c} ELSE history

\* The part of the history after the cursor, or all of it when it is unknown.
AfterCursor(c) == IF c \in history THEN {e \in history : e > c} ELSE history

\* Mutation: only what is sent again is remembered.
ReplayedTail(tail) == tail

\* What the generator will not deliver again.
Replayed(tail) == history

\* The browser has seen everything, and the last event ends the turn.
TurnIsOver(tail) ==
    /\ tail = {}
    /\ \E e \in history : Terminal(e) /\ \A d \in history : d <= e

\* A new connection, up to its first suspension.  It waits, ends at once
\* because the last event it knows was the last of the turn, or replays.
Subscribe(g, c) ==
    LET tail == AfterCursor(c)
        over == TurnIsOver(tail)
    IN /\ gen[g].mode = "gone"
       /\ \/ /\ tail # {}
             /\ Yields(g, "replay", Oldest(tail), tail \ {Oldest(tail)}, Replayed(tail))
             /\ count' = count + 1 /\ connected' = TRUE
             /\ UNCHANGED <<liveQueue, shut>>
          \/ /\ tail = {} /\ ~over /\ ~shut
             /\ gen' = [gen EXCEPT ![g] = [Gone EXCEPT !.mode = "waiting", !.seen = Replayed(tail)]]
             /\ count' = count + 1 /\ connected' = TRUE
             /\ DrainReplayed(Replayed(tail)) /\ UNCHANGED shut
          \/ /\ tail = {} /\ (over \/ shut) /\ gen' = gen
             /\ shut' = TRUE /\ count' = count /\ connected' = (count # 0)
             /\ IF over THEN UNCHANGED liveQueue ELSE DrainReplayed(Replayed(tail))

BrowserConnects(g) ==
    /\ reader = NoReader /\ Subscribe(g, cursor)
    /\ reader' = IF gen'[g].mode = "gone" THEN NoReader ELSE g
    /\ told' = (told \/ (cursor # 0 /\ cursor \notin history))
    /\ UNCHANGED <<producer, cursor, received, excused, mishaps>>

\* Bound: a place is kept for the browser.
OtherConnects(g) ==
    /\ reader = NoReader => \E h \in Generators \ {g} : gen[h].mode = "gone"
    /\ Mishap /\ Subscribe(g, 0) /\ Steals(g)
    /\ UNCHANGED <<producer, browser>>

\* The frame g had yielded reaches whoever reads it, and g goes on.
FrameSent(g) ==
    /\ gen[g].mode \in {"replay", "live"}
    /\ LET e == gen[g].out
           rs == gen[g].rest
       IN /\ IF reader = g
             THEN cursor' = e /\ received' = received \cup {e}
             ELSE UNCHANGED <<cursor, received>>
          /\ \/ /\ Terminal(e) \/ (gen[g].mode = "replay" /\ shut)
                /\ shut' = TRUE /\ Detach(g) /\ UNCHANGED liveQueue
             \/ /\ ~Terminal(e) /\ gen[g].mode = "replay" /\ ~shut /\ rs # {}
                /\ Yields(g, "replay", Oldest(rs), rs \ {Oldest(rs)}, gen[g].seen)
                /\ UNCHANGED <<liveQueue, shut, count, connected, reader>>
             \/ /\ ~Terminal(e) /\ gen[g].mode = "replay" /\ ~shut /\ rs = {}
                /\ DrainReplayed(gen[g].seen) /\ UNCHANGED shut /\ Waits(g, gen[g].seen)
             \/ /\ ~Terminal(e) /\ gen[g].mode = "live"
                /\ UNCHANGED <<liveQueue, shut>> /\ Waits(g, gen[g].seen)
    /\ Steals(g)
    /\ UNCHANGED <<producer, told, mishaps>>

Take(g) ==
    /\ gen[g].mode = "waiting" /\ liveQueue # {}
    /\ LET e == Oldest(liveQueue)
       IN /\ liveQueue' = liveQueue \ {e}
          /\ IF e \in gen[g].seen
             THEN Waits(g, gen[g].seen)
             ELSE /\ Yields(g, "live", e, {}, gen[g].seen)
                  /\ UNCHANGED <<count, connected, reader>>
    /\ Steals(g)
    /\ UNCHANGED <<producer, shut, cursor, received, told, mishaps>>

\* The heartbeat interval passes; it is how a waiting generator learns that
\* the bridge was closed.
Heartbeat(g) ==
    /\ gen[g].mode = "waiting" /\ shut
    /\ Detach(g)
    /\ UNCHANGED <<producer, liveQueue, shut, cursor, received, told, excused, mishaps>>

ConnectionLost ==
    /\ reader # NoReader /\ Mishap /\ reader' = NoReader
    /\ UNCHANGED <<producer, liveQueue, shut, count, connected, gen, cursor,
                   received, told, excused>>

\* The server notices that nobody reads: GeneratorExit, or a cancellation.
Disconnect(g) ==
    /\ gen[g].mode # "gone" /\ reader # g
    /\ Detach(g)
    /\ UNCHANGED <<producer, liveQueue, shut, cursor, received, told, excused, mishaps>>

PutEnds == Enqueue \/ BlockedPutEnds
GeneratorStep(g) == FrameSent(g) \/ Take(g) \/ Heartbeat(g) \/ Disconnect(g)

EventNext ==
    \/ Emit \/ ObserverRaises \/ PutEnds \/ Close \/ Reopen \/ ConnectionLost
    \/ \E g \in Generators : BrowserConnects(g) \/ OtherConnects(g) \/ GeneratorStep(g)

EventSpec == EventInit /\ [][EventNext]_bridgeVars

\* The browser comes back, generators and the producer go on, the server
\* notices lost connections.  Nobody needs to emit, close or reopen.
EventFairness ==
    /\ WF_bridgeVars(PutEnds) /\ WF_bridgeVars(\E g \in Generators : BrowserConnects(g))
    /\ \A g \in Generators : WF_bridgeVars(GeneratorStep(g))

EventFairSpec == EventSpec /\ EventFairness

-----------------------------------------------------------------------------
(* Properties.                                                             *)

\* e can still be delivered to the browser.
InReach(e) ==
    \/ e \in liveQueue \/ (hand # "idle" /\ e = Newest)
    \/ IF reader = NoReader THEN e \in AfterCursor(cursor)
       ELSE e = gen[reader].out \/ e \in gen[reader].rest

\* e has not been pushed out by events that matter as much.
WithinHistory(e) == Cardinality({d \in Structural : d > e}) < maxHistory

\* History and queue keep within their bounds, and chunks never push
\* structural events out: whatever the browser loses and
\* however often it comes back, each of the last maxHistory structural
\* events of the turn reached it or still can, unless its observer raised,
\* the policy dropped it, or another subscriber took it.
StructureKept ==
    /\ EventTypeOK
    /\ \A e \in Structural :
          e > turn /\ WithinHistory(e) /\ e \notin excused
              => e \in received \/ InReach(e)

\* The interrupts shown since the turn, or a session, started.
Showing ==
    {e \in Id : /\ e > turn /\ kinds[e] = "interrupt"
               /\ \A d \in Id : d > e => kinds[d] # "session_start"}

\* An interrupt is shown when none was shown since the turn or a session
\* started, whatever was closed and reopened before.  One that is held back as
\* repeated is not lost: the browser has the interrupt shown earlier or can
\* still get it, under the conditions of StructureKept.
InterruptShownOnce ==
    [][~shut /\ plan' # plan /\ Head(plan) = "interrupt"
          => IF Showing = {} THEN kinds' = Append(kinds, "interrupt")
             ELSE /\ kinds' = kinds
                  /\ \A e \in Showing :
                        WithinHistory(e) /\ e \notin excused
                           => e \in received \/ InReach(e)]_bridgeVars

Receives(e) ==
    reader # NoReader /\ gen[reader].out = e /\ gen'[reader] # gen[reader]

\* A browser that was not told that its cursor had aged out receives an event
\* again, or behind a newer one, in one case only: the event waited in the
\* queue, and the history that the browser's connection replayed had already
\* let it go.
ReceivedInOrder ==
    [][\A e \in Id :
          Receives(e) /\ ~told /\ (e \in received \/ e < cursor)
              => gen[reader].mode = "live" /\ e \notin history]_bridgeVars

\* A browser that keeps coming back sees the end of the turn, although a
\* closed bridge replays one event per connection.
FinalDue ==
    \E e \in Structural : /\ Terminal(e) /\ e > turn /\ WithinHistory(e)
                          /\ e \notin received \cup excused

TurnEndReached == FinalDue ~> ~FinalDue

=============================================================================
