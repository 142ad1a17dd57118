---------------------------- MODULE StreamBridge ----------------------------
(***************************************************************************)
(* api/async_stream.py: a synchronous generator over an asynchronous       *)
(* source.  A worker thread runs _drain on an event loop and hands items   *)
(* over in a bounded queue; the consumer is the thread of the caller.      *)
(*                                                                         *)
(* A step of _drain between two awaits does not let callbacks of the loop  *)
(* in, but it does let the consumer's thread in.  _drain is suspended, and *)
(* callbacks run, where it asks the source, waits for space, or closes the *)
(* source.                                                                 *)
(***************************************************************************)
EXTENDS Integers, Sequences

CONSTANTS
    MaxEvents,      \* bound: events the source yields
    QueueSize       \* _STREAM_QUEUE_MAX_SIZE (1 in the code)

ASSUME StreamAssumption == MaxEvents \in Nat /\ QueueSize \in Nat \ {0}

VARIABLES
    queue,          \* _queue
    closeRequested, \* _close_requested
    registered,     \* _drain_loop, _drain_task and _space_available are set
    space,          \* _space_available is set
    calls,          \* callbacks scheduled with call_soon_threadsafe
    ownerCancels,   \* the owning loop may still cancel its tasks
    drain,          \* where _drain is
    item,           \* what _enqueue_from_async is given
    raised,         \* _drain is on its way out with an exception
    source,         \* the asynchronous iterator
    made,           \* events it has yielded
    worker,         \* where _run is
    consumer,       \* where stream_async_iterator is
    got             \* items that get() returned

queueVars    == <<queue, closeRequested>>
loopVars     == <<registered, space, calls, ownerCancels>>
drainVars    == <<drain, item, raised, source, made>>
consumerVars == <<consumer, got>>
streamVars == <<queueVars, loopVars, drainVars, worker, consumerVars>>

\* An item is an event, which is its number, the sentinel or an exception.
Event == 1 .. MaxEvents
End == 0
Error == -1
Item == Event \cup {End, Error}
Suspended == {"asking", "waiting", "closing"}

StreamTypeOK ==
    /\ queue \in Seq(Item) /\ Len(queue) <= QueueSize
    /\ closeRequested \in BOOLEAN /\ registered \in BOOLEAN
    /\ space \in BOOLEAN /\ calls \subseteq {"set", "cancel"}
    /\ ownerCancels \in BOOLEAN
    /\ drain \in Suspended \cup {"new", "checking", "rechecking", "returned"}
    /\ item \in Item /\ raised \in BOOLEAN
    /\ source \in {"none", "open", "ended", "failed", "closed"}
    /\ made \in 0 .. MaxEvents
    /\ worker \in {"draining", "raising", "sentinel", "ended"}
    /\ consumer \in {"getting", "notifying", "caller", "closing", "cancelling",
                     "joining", "closed"}
    /\ got \in Seq(Item)

StreamInit ==
    /\ queue = <<>> /\ closeRequested = FALSE
    /\ registered = FALSE /\ space = FALSE /\ calls = {}
    /\ ownerCancels = TRUE
    /\ drain = "new" /\ item = End /\ raised = FALSE
    /\ source = "none" /\ made = 0
    /\ worker = "draining"
    /\ consumer = "getting" /\ got = <<>>
-----------------------------------------------------------------------------
(* _drain *)

\* Mutation: <= for <.
HasRoomAtLimit == Len(queue) <= QueueSize

HasRoom == Len(queue) < QueueSize

DrainMoves(from, to) == drain = from /\ drain' = to

\* _enqueue_from_async(i), and where _drain goes on when it returns.
Enqueues(i) == drain' = "checking" /\ item' = i

\* Mutation: a close() that came before is not noticed.
OpenAnyway ==
    /\ DrainMoves("new", "asking")
    /\ registered' = TRUE
    /\ source' = "open"
    /\ UNCHANGED <<queueVars, space, calls, ownerCancels, item, raised, made, worker, consumerVars>>

\* Register the loop and the task for the consumer, then open the source.
Open ==
    /\ drain = "new"
    /\ registered' = TRUE
    /\ \/ closeRequested /\ drain' = "returned" /\ UNCHANGED <<raised, source>>
       \/ ~closeRequested /\ drain' = "asking" /\ source' = "open" /\ UNCHANGED raised
       \/ ~closeRequested /\ drain' = "returned" /\ raised' = TRUE /\ UNCHANGED source
    /\ UNCHANGED <<queueVars, space, calls, ownerCancels, item, made, worker, consumerVars>>

SourceYields ==
    /\ drain = "asking" /\ made < MaxEvents
    /\ made' = made + 1
    /\ Enqueues(made')
    /\ UNCHANGED <<queueVars, loopVars, raised, source, worker, consumerVars>>

SourceEnds ==
    /\ DrainMoves("asking", "closing")
    /\ source' = "ended"
    /\ UNCHANGED <<queueVars, loopVars, item, raised, made, worker, consumerVars>>

\* Mutation: the error is logged, not handed over.
SourceFailsQuietly ==
    /\ DrainMoves("asking", "closing")
    /\ source' = "failed"
    /\ UNCHANGED <<queueVars, loopVars, item, raised, made, worker, consumerVars>>

SourceFails ==
    /\ drain = "asking"
    /\ source' = "failed"
    /\ Enqueues(Error)
    /\ UNCHANGED <<queueVars, loopVars, raised, made, worker, consumerVars>>

\* Where _drain goes when the item has been queued, or was given up.
Follows(queued) ==
    drain' = IF item = End THEN "returned"
             ELSE IF item \in Event /\ queued THEN "asking"
             ELSE "closing"

GivesUp ==
    /\ drain = "checking" /\ closeRequested
    /\ Follows(FALSE)
    /\ UNCHANGED <<queueVars, loopVars, item, raised, source, made, worker, consumerVars>>

Puts ==
    /\ drain = "checking" /\ ~closeRequested /\ HasRoom
    /\ queue' = Append(queue, item)
    /\ Follows(TRUE)
    /\ UNCHANGED <<closeRequested, loopVars, item, raised, source, made, worker, consumerVars>>

\* The queue was full: clear the signal, and look again.
Clears ==
    /\ ~closeRequested /\ ~HasRoom
    /\ DrainMoves("checking", "rechecking")
    /\ space' = FALSE
    /\ UNCHANGED <<queueVars, registered, calls, ownerCancels, item, raised, source, made,
                   worker, consumerVars>>

Rechecks ==
    /\ DrainMoves("rechecking", IF HasRoom THEN "checking" ELSE "waiting")
    /\ UNCHANGED <<queueVars, loopVars, item, raised, source, made, worker, consumerVars>>

Wakes ==
    /\ space
    /\ DrainMoves("waiting", "checking")
    /\ UNCHANGED <<queueVars, loopVars, item, raised, source, made, worker, consumerVars>>

\* The source's aclose(), which may raise; then the sentinel.
Closes ==
    /\ drain = "closing"
    /\ Enqueues(End)
    /\ source' = IF source = "open" THEN "closed" ELSE source
    /\ raised' \in {raised, TRUE}
    /\ UNCHANGED <<queueVars, loopVars, made, worker, consumerVars>>
-----------------------------------------------------------------------------
(* Callbacks of the loop *)

RunSet ==
    /\ "set" \in calls /\ drain \in Suspended
    /\ calls' = calls \ {"set"}
    /\ space' = TRUE
    /\ UNCHANGED <<queueVars, registered, ownerCancels, drainVars, worker, consumerVars>>

\* task.cancel(): CancelledError comes out of the await.
RunCancel ==
    /\ "cancel" \in calls
    /\ calls' = calls \ {"cancel"}
    /\ \/ /\ drain = "asking" \/ (drain = "waiting" /\ item \in Event)
          /\ Enqueues(Error)
          /\ source' = IF drain = "asking" THEN "failed" ELSE source
          /\ UNCHANGED raised
       \/ /\ drain = "waiting" /\ item \notin Event
          /\ Follows(FALSE)
          /\ raised' = TRUE
          /\ UNCHANGED <<item, source>>
       \/ /\ drain = "closing"
          /\ Enqueues(End)
          /\ source' = IF source = "open" THEN "closed" ELSE source
          /\ raised' = TRUE
    /\ UNCHANGED <<queueVars, registered, space, ownerCancels, made, worker, consumerVars>>

\* The owning invocation's loop shuts down and cancels its tasks.
OwnerCancels ==
    /\ ownerCancels /\ registered /\ drain # "returned"
    /\ ownerCancels' = FALSE
    /\ calls' = calls \cup {"cancel"}
    /\ UNCHANGED <<queueVars, registered, space, drainVars, worker, consumerVars>>
-----------------------------------------------------------------------------
(* The worker thread *)

\* run_blocking refuses: the owning invocation no longer runs.
Refused ==
    /\ DrainMoves("new", "returned")
    /\ raised' = TRUE
    /\ UNCHANGED <<queueVars, loopVars, item, source, made, worker, consumerVars>>

DrainReturned ==
    /\ worker = "draining" /\ drain = "returned"
    /\ worker' = IF raised THEN "raising" ELSE "ended"
    /\ UNCHANGED <<queueVars, loopVars, drainVars, consumerVars>>

\* The exception, then the sentinel.
Fallback == IF worker = "raising" THEN Error ELSE End

\* Mutation: what does not fit is dropped.
FallBackOnce ==
    /\ worker \in {"raising", "sentinel"}
    /\ queue' = IF ~closeRequested /\ HasRoom THEN Append(queue, Fallback) ELSE queue
    /\ worker' = IF worker = "raising" THEN "sentinel" ELSE "ended"
    /\ UNCHANGED <<closeRequested, loopVars, drainVars, consumerVars>>

\* _enqueue_from_worker: try again until there is room or nobody reads.
FallBack ==
    /\ worker \in {"raising", "sentinel"}
    /\ closeRequested \/ HasRoom
    /\ queue' = IF closeRequested THEN queue ELSE Append(queue, Fallback)
    /\ worker' = IF worker = "raising" THEN "sentinel" ELSE "ended"
    /\ UNCHANGED <<closeRequested, loopVars, drainVars, consumerVars>>
-----------------------------------------------------------------------------
(* The consumer *)

ConsumerMoves(from, to) == consumer = from /\ consumer' = to

Get ==
    /\ queue # <<>>
    /\ ConsumerMoves("getting", "notifying")
    /\ got' = Append(got, Head(queue))
    /\ queue' = Tail(queue)
    /\ UNCHANGED <<closeRequested, loopVars, drainVars, worker>>

\* _notify_space_available: the loop may have been closed.  An exception or
\* the sentinel ends the generator.
Notify ==
    /\ ConsumerMoves("notifying", IF got[Len(got)] \in Event THEN "caller" ELSE "closing")
    /\ calls' = IF registered THEN calls \cup {"set"} ELSE calls
    /\ UNCHANGED <<queueVars, registered, space, ownerCancels, drainVars, worker, got>>

\* The caller asks for the next item.
AskNext ==
    /\ ConsumerMoves("caller", "getting")
    /\ UNCHANGED <<queueVars, loopVars, drainVars, worker, got>>

\* The caller closes the generator, or Ctrl-C interrupts its wait.
Leave ==
    /\ \E from \in {"caller", "getting"} : ConsumerMoves(from, "closing")
    /\ UNCHANGED <<queueVars, loopVars, drainVars, worker, got>>

RequestClose ==
    /\ ConsumerMoves("closing", "cancelling")
    /\ closeRequested' = TRUE
    /\ UNCHANGED <<queue, loopVars, drainVars, worker, got>>

CancelDrain ==
    /\ ConsumerMoves("cancelling", "joining")
    /\ calls' = IF registered THEN calls \cup {"cancel"} ELSE calls
    /\ UNCHANGED <<queueVars, registered, space, ownerCancels, drainVars, worker, got>>

\* worker.join() returns, within _WORKER_JOIN_TIMEOUT_SECONDS or not.
Join ==
    /\ ConsumerMoves("joining", "closed")
    /\ UNCHANGED <<queueVars, loopVars, drainVars, worker, got>>
-----------------------------------------------------------------------------
DrainStep == Open \/ GivesUp \/ Puts \/ Clears \/ Rechecks \/ Wakes \/ Closes
LoopStep == RunSet \/ RunCancel
SourceStep == SourceYields \/ SourceEnds \/ SourceFails
WorkerStep == DrainReturned \/ FallBack
ConsumerStep == Get \/ Notify \/ RequestClose \/ CancelDrain \/ Join

StreamNext ==
    \/ DrainStep \/ LoopStep \/ SourceStep \/ WorkerStep \/ ConsumerStep
    \/ Refused \/ OwnerCancels \/ AskNext \/ Leave

\* The threads and the loop run.  The source need not answer, the caller need
\* not ask for the next item nor close the generator, and the owner need not
\* cancel anything.  The loop runs each callback it was given.
StreamFairness ==
    /\ WF_streamVars(DrainStep) /\ WF_streamVars(WorkerStep) /\ WF_streamVars(ConsumerStep)
    /\ WF_streamVars(RunSet) /\ SF_streamVars(RunCancel)

StreamSpec == StreamInit /\ [][StreamNext]_streamVars /\ StreamFairness
-----------------------------------------------------------------------------
(* Properties *)

\* Events the caller has been given: an exception or the sentinel is the last
\* item.
Taken == IF got # <<>> /\ got[Len(got)] \notin Event THEN Len(got) - 1 ELSE Len(got)

\* The source is never more than the queue and one item ahead of the caller,
\* whoever waits for whom (_enqueue_from_async).
SourceAhead == made <= Taken + QueueSize + 1

\* A generator that ends as if the source had ended has yielded every event of
\* a source that did end, in order; one that raises has yielded a prefix.  The
\* exception is a loop that shuts down while the source's own error waits for
\* space: the sentinel takes its place.
EndMeansComplete ==
    /\ \A i \in DOMAIN got : got[i] \in Event => got[i] = i
    /\ got # <<>> /\ got[Len(got)] = End =>
        /\ Len(got) = made + 1
        /\ source = "ended" \/ (source = "failed" /\ ~ownerCancels)

\* A caller that waits for an item gets one, if only an exception or the end,
\* unless it is the source that does not answer.
NeverStranded == consumer = "getting" ~> (consumer # "getting" \/ drain = "asking")

\* close() ends the worker, and the source it opened is closed: also a source
\* that does not answer, and also when the close comes before the source is
\* opened.
CloseReleases == closeRequested ~> (worker = "ended" /\ source # "open")
=============================================================================
