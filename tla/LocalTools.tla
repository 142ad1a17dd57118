----------------------------- MODULE LocalTools -----------------------------
(***************************************************************************)
(* _internal/client_stream.py, stream_with_local_tools: a producer task    *)
(* reads the stream of the platform, starts a task for every tool call     *)
(* that this process owes an answer, and posts the answers of a layer      *)
(* together.  The generator passes events on to its consumer, which may    *)
(* leave or be cancelled at any moment.  The platform may deliver a call   *)
(* again, and may deliver it first without its arguments (deferred).       *)
(***************************************************************************)
EXTENDS Integers, Sequences, FiniteSets, SequencesExt

CONSTANTS
    CallIds,        \* identities of tool calls
    MaxStarts,      \* bound: tool starts that the platform delivers
    MaxCancels      \* bound: times that the consumer is closed or cancelled

ASSUME LocalAssumption == MaxStarts \in Nat /\ MaxCancels \in Nat

VARIABLES
    tasks,          \* the tasks of execute_local_tool, in order
    starts,         \* tool starts delivered
    seen,           \* seen_local_calls
    pending,        \* pending_outcomes
    posts,          \* pending_batches, in order
    source,         \* the stream of the platform: open, ended, failed or closed
    producer,       \* reading, draining its batches, closing the source, done
    failure,        \* the exception that the producer put in the queue
    cancelled,      \* the producer was cancelled
    consumer,       \* reading, ending (in its finally clause), done
    left,           \* how the generator ended, or will
    cancels

taskVars == <<tasks, starts, seen, pending>>
streamVars == <<source, producer, failure, cancelled>>
readerVars == <<consumer, left, cancels>>
toolVars == <<taskVars, posts, streamVars, readerVars>>

Task == DOMAIN tasks
Post == DOMAIN posts
Running == {i \in Task : tasks[i].at = "running"}
Failed == {b \in Post : posts[b].at = "failed"}
Unsettled == {b \in Post : posts[b].at \in {"waiting", "posting"}}

LocalTypeOK ==
    /\ tasks \in Seq([call : CallIds, deferred : BOOLEAN,
                      at : {"running", "ok", "none", "raised", "cancelled"}])
    /\ starts \in 0 .. MaxStarts /\ seen \subseteq CallIds /\ pending \subseteq Task
    /\ posts \in Seq([tasks : SUBSET Task,
                      at : {"waiting", "posting", "sent", "empty", "failed", "cancelled"}])
    /\ source \in {"open", "ended", "failed", "closed", "abandoned"}
    /\ producer \in {"reading", "draining", "closing", "done"}
    /\ failure \in {"none", "source", "batch"} /\ cancelled \in BOOLEAN
    /\ consumer \in {"reading", "ending", "done"} /\ left \in {"no", "end", "error", "early"}
    /\ cancels \in 0 .. MaxCancels
    /\ (UNION {posts[b].tasks : b \in Post}) \cup pending = Task
    /\ producer # "reading" => pending = {}

LocalInit ==
    /\ tasks = <<>> /\ starts = 0 /\ seen = {} /\ pending = {} /\ posts = <<>>
    /\ source = "open" /\ producer = "reading" /\ failure = "none" /\ cancelled = FALSE
    /\ consumer = "reading" /\ left = "no" /\ cancels = 0

-----------------------------------------------------------------------------
(* The producer.                                                           *)

\* Mutation: the identity is noted when the call is answered.
ReplayedWhenAnswered(k, deferred) ==
    ~deferred /\ \E i \in Task : tasks[i].call = k /\ tasks[i].at = "ok"

\* is_replayed_local_call
Replayed(k, deferred) == ~deferred /\ k \in seen

ReadsSource == producer = "reading" /\ source = "open"

\* A deferred call is answered by nobody: its task only passes the event on.
\* It is deferred until the platform has bound its arguments.
ToolStart(k, deferred) ==
    /\ ReadsSource /\ starts < MaxStarts /\ starts' = starts + 1
    /\ deferred => k \notin seen
    /\ IF Replayed(k, deferred) THEN UNCHANGED <<tasks, pending>>
       ELSE /\ tasks' = Append(tasks, [call |-> k, deferred |-> deferred, at |-> "running"])
            /\ pending' = pending \cup {Len(tasks) + 1}
    /\ seen' = IF deferred THEN seen ELSE seen \cup {k}
    /\ UNCHANGED <<posts, streamVars, readerVars>>

\* flush_layer
Flush ==
    /\ pending' = {}
    /\ posts' = IF pending = {} THEN posts
                ELSE Append(posts, [tasks |-> pending, at |-> "waiting"])

PhaseStarts ==
    /\ ReadsSource /\ pending # {} /\ Flush
    /\ UNCHANGED <<tasks, starts, seen, streamVars, readerVars>>

\* The stream ends, breaks, or repeats an identity with other arguments; the
\* producer flushes what is pending and waits for the batches.
SourceEnds(how) ==
    /\ ReadsSource /\ source' = how
    /\ Flush /\ producer' = "draining"
    /\ failure' = IF how = "failed" THEN "source" ELSE failure
    /\ UNCHANGED <<tasks, starts, seen, cancelled, readerVars>>

\* Mutation: the producer does not wait for its uploads once it is cancelled.
DrainsUnlessCancelled == Unsettled = {} \/ Failed # {} \/ cancelled

\* The wait of the producer is over when every batch is, or when one failed:
\* the others go on, and nobody waits for them any more.
Drained == Unsettled = {} \/ Failed # {}

\* Mutation: return_exceptions=True.
DrainEndsQuietly ==
    /\ producer = "draining" /\ Drained
    /\ producer' = "closing"
    /\ UNCHANGED <<taskVars, posts, source, cancelled, failure, readerVars>>

\* A batch that failed replaces the exception that ended the stream.
DrainEnds ==
    /\ producer = "draining" /\ Drained
    /\ producer' = "closing"
    /\ failure' = IF Failed # {} THEN "batch" ELSE failure
    /\ UNCHANGED <<taskVars, posts, source, cancelled, readerVars>>

\* close_async_iterator, then the end marker.
SourceCloses ==
    /\ producer = "closing" /\ producer' = "done"
    /\ source' = IF source = "open" THEN "closed" ELSE source
    /\ UNCHANGED <<taskVars, posts, failure, cancelled, readerVars>>

-----------------------------------------------------------------------------
(* Tools and batches.                                                      *)

ToolEnds(i, how) ==
    /\ i \in Running /\ (how = "none" <=> tasks[i].deferred)
    /\ tasks' = [tasks EXCEPT ![i].at = how]
    /\ UNCHANGED <<starts, seen, pending, posts, streamVars, readerVars>>

PostMoves(b, to) == posts' = [posts EXCEPT ![b].at = to]

\* The gather of a batch ends with its last outcome, or with the first
\* exception of a task: then nothing of the layer is sent.
BatchGathers(b) ==
    LET ended(how) == {i \in posts[b].tasks : tasks[i].at = how}
    IN /\ posts[b].at = "waiting"
       /\ \/ ended("raised") # {} /\ PostMoves(b, "failed")
          \/ /\ ended("raised") = {} /\ ended("running") = {}
             /\ PostMoves(b, IF ended("ok") = {} THEN "empty" ELSE "posting")
       /\ UNCHANGED <<taskVars, streamVars, readerVars>>

PostEnds(b, how) ==
    /\ posts[b].at = "posting" /\ PostMoves(b, how)
    /\ UNCHANGED <<taskVars, streamVars, readerVars>>

-----------------------------------------------------------------------------
(* The consumer.                                                           *)

\* The producer is cancelled where it waits.  While it reads, it flushes and
\* waits for its batches all the same; the gather of its batches passes the
\* cancellation on to them, and to their tools; and the source may be left
\* before it has closed.
CancelProducer ==
    \/ /\ producer = "reading" /\ producer' = "draining" /\ cancelled' = TRUE
       /\ Flush /\ UNCHANGED <<tasks, source, failure>>
    \/ /\ producer = "draining" /\ producer' = "closing" /\ cancelled' = TRUE
       /\ posts' = [b \in Post |->
                       IF b \in Unsettled THEN [posts[b] EXCEPT !.at = "cancelled"] ELSE posts[b]]
       /\ LET reached == UNION {posts[c].tasks : c \in {d \in Unsettled : posts[d].at = "waiting"}}
          IN tasks' = [i \in Task |-> IF i \in reached \cap Running
                                      THEN [tasks[i] EXCEPT !.at = "cancelled"] ELSE tasks[i]]
       /\ UNCHANGED <<pending, source, failure>>
    \/ /\ producer = "closing" /\ producer' = "done" /\ cancelled' = TRUE
       /\ source' = IF source = "open" THEN "abandoned" ELSE source
       /\ UNCHANGED <<tasks, pending, posts, failure>>

\* The generator ends: it is closed, or its task is cancelled.
Leaves(how) ==
    /\ consumer' = "ending" /\ left' = how
    /\ IF producer = "done" THEN UNCHANGED <<tasks, pending, posts, streamVars>>
       ELSE CancelProducer
    /\ UNCHANGED <<starts, seen>>

CloseEarly ==
    /\ consumer = "reading" /\ cancels < MaxCancels
    /\ cancels' = cancels + 1 /\ Leaves("early")

\* The exception is in the queue before the source is closed.
ReadFailure ==
    /\ consumer = "reading" /\ failure # "none" /\ producer \in {"closing", "done"}
    /\ Leaves("error") /\ UNCHANGED cancels

ReadEnd ==
    /\ consumer = "reading" /\ failure = "none" /\ producer = "done"
    /\ Leaves("end") /\ UNCHANGED cancels

\* The caller is cancelled while its finally clause waits for the producer.
CancelAgain ==
    /\ consumer = "ending" /\ producer # "done" /\ cancels < MaxCancels
    /\ cancels' = cancels + 1 /\ CancelProducer
    /\ UNCHANGED <<starts, seen, consumer, left>>

Returns ==
    /\ consumer = "ending" /\ producer = "done"
    /\ consumer' = "done"
    /\ UNCHANGED <<taskVars, posts, streamVars, left, cancels>>

ProducerStep == DrainEnds \/ SourceCloses
ConsumerStep == ReadFailure \/ ReadEnd \/ Returns
ToolStep == \E i \in Task, how \in {"ok", "none", "raised"} : ToolEnds(i, how)
UploadStep ==
    \E b \in Post : BatchGathers(b) \/ PostEnds(b, "sent") \/ PostEnds(b, "failed")

LocalGoesOn == ProducerStep \/ ConsumerStep \/ ToolStep \/ UploadStep

LocalNext ==
    \/ \E k \in CallIds, deferred \in BOOLEAN : ToolStart(k, deferred)
    \/ PhaseStarts \/ CloseEarly \/ CancelAgain \/ LocalGoesOn
    \/ \E how \in {"ended", "failed"} : SourceEnds(how)

LocalSpec == LocalInit /\ [][LocalNext]_toolVars

\* Tools and uploads end, and tasks go on, in whatever order: none of these
\* steps repeats for ever.  The platform need not end its stream, and nobody
\* need close it.
LocalFairSpec == LocalSpec /\ WF_toolVars(LocalGoesOn)

-----------------------------------------------------------------------------
(* Properties.                                                             *)

\* A call is executed once, however often the platform delivers it, and is in
\* one batch, of those that LocalTypeOK knows.
ExecutedOnce ==
    /\ LocalTypeOK
    /\ \A i, j \in Task : ~tasks[i].deferred /\ ~tasks[j].deferred
                             /\ tasks[i].call = tasks[j].call => i = j
    /\ \A b, c \in Post : b # c => posts[b].tasks \cap posts[c].tasks = {}

\* A stream that was read to its end, or that the consumer left once before
\* its end, has delivered every answer that no failure took with it, and has
\* left no tool behind.
AnswersDelivered ==
    consumer = "done" /\ Failed = {} /\ (left = "end" \/ (source = "closed" /\ cancels = 1))
        => \A i \in Task : /\ tasks[i].at \in {"ok", "none"}
                           /\ tasks[i].at = "ok" =>
                                \E b \in Post : i \in posts[b].tasks /\ posts[b].at = "sent"

\* Once it was left or the stream has ended, the generator returns; and a
\* consumer that stayed has been given the failure of an upload or tool.
FailureReachesCaller ==
    (producer # "reading")
        ~> (consumer = "done" /\ (Failed # {} => left \in {"error", "early"}))

=============================================================================
