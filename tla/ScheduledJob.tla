---------------------------- MODULE ScheduledJob ----------------------------
(***************************************************************************)
(* compat/scheduling.py: one ScheduledJob and every thread that touches    *)
(* it.                                                                     *)
(*                                                                         *)
(*   - timer threads (_run_loop), one per start();                         *)
(*   - one thread per fire: an execution thread for a scheduled fire, the  *)
(*     caller of trigger_now() for a manual one, the parent run's thread   *)
(*     for a trigger_now() made from inside a run;                         *)
(*   - controller threads calling start, stop, pause and resume, and runs  *)
(*     calling stop from their own callbacks.                              *)
(*                                                                         *)
(* A critical section of _state_lock (an RLock, shared with the condition  *)
(* _slot_available) is one step, and so is everything a thread does        *)
(* between two accesses to shared state.  Wall-clock time is abstracted: a *)
(* sleep may end at any time.  The records themselves are the numbers of   *)
(* their fires.                                                            *)
(***************************************************************************)
EXTENDS Integers, Sequences, FiniteSets

CONSTANTS
    Timers,         \* timer threads that start() may create
    Controllers,    \* outside threads calling start, stop, pause, resume
    MaxFires,       \* bound: fires followed by the model
    MaxRuns,        \* max_runs, or NoLimit
    MaxOverlap,     \* max_overlap; zero is "unbounded"
    OverlapPolicy,  \* overlap_policy
    MaxAttempts,    \* Retry.max_attempts
    HistoryLimit,   \* _history_limit (1000 in the code)
    HasJitter,      \* a JitterSpec is configured
    MisfireSkip,    \* misfire = 'skip'
    StopTimeouts,   \* stop() is called with a timeout
    Outcomes,       \* statuses a runner may end its record with
    Pauses,         \* somebody calls pause() and resume()
    StopsFromRuns,  \* a run's callback may call stop()
    NestedTriggers, \* a run's callback may call trigger_now()
    BaseExceptions  \* a callback may raise a BaseException that is no Exception

NoLimit == -1
NoTimer == 0

ASSUME JobAssumption ==
    /\ MaxFires \in Nat
    /\ MaxRuns \in Nat \cup {NoLimit}
    /\ MaxOverlap \in Nat
    /\ OverlapPolicy \in {"skip", "queue", "replace"}
    /\ MaxAttempts \in Nat \ {0}
    /\ HistoryLimit \in Nat \ {0}
    /\ Outcomes \subseteq {"succeeded", "failed", "skipped", "cancelled"}
    /\ {HasJitter, MisfireSkip, StopTimeouts, Pauses,
        StopsFromRuns, NestedTriggers, BaseExceptions} \subseteq BOOLEAN

Run      == 1 .. MaxFires
Caller   == Controllers \cup Run
Process  == Timers \cup Caller
Terminal == {"succeeded", "failed", "skipped", "cancelled"}

ASSUME ProcessAssumption ==
    /\ Timers \cap Caller = {}
    /\ Controllers \cap Run = {}
    /\ NoTimer \notin Timers
    /\ IsFiniteSet(Timers)

VARIABLES
    is_running, is_done, is_paused, stop_event,
    woken,              \* threads whose pending wait on stop_event was notified
    fire_count,
    count,              \* the four counters, by outcome
    history,            \* fire ids, oldest first
    queued,             \* _queued_records
    active,             \* keys of _active_records
    active_threads,
    execution_threads,
    asleep,             \* threads in _slot_available.wait(), not yet notified
    cancel_requested,   \* runs whose cancellation token is set
    pc,                 \* where the thread of a run is
    fin,                \* how far _finish_record is for a run's record
    status,             \* RunRecord.status
    attempt,            \* RunRecord.attempt
    manual,             \* runs made by trigger_now()
    thread,             \* the run whose thread executes a run
    tpc,                \* where a timer thread is
    worker,             \* _worker
    cpc,                \* where a caller of start() or stop() is
    draining,           \* the drain argument of that stop()
    joining,            \* the timer thread that stop() joins
    doomed              \* records that stop() has taken from the queue

flagVars   == <<is_running, is_done, is_paused, stop_event, woken>>
countVars  == <<fire_count, count, history>>
slotVars   == <<queued, active, active_threads, execution_threads, asleep,
                cancel_requested>>
runVars    == <<pc, fin, status, attempt, manual, thread>>
timerVars  == <<tpc, worker>>
callerVars == <<cpc, draining, joining, doomed>>
vars == <<flagVars, countVars, slotVars, runVars, timerVars, callerVars>>

RunPc   == {"unborn", "launch", "prepare", "jitter", "claim", "queued", "running",
            "backoff", "finishing", "exit", "gone"}
FinPc   == {"none", "terminal", "callbacks", "tally", "mark", "signal",
            "end"}
TimerPc == {"unborn", "spawned", "loop", "sleep", "check", "fire", "launch",
            "drain", "mark", "dead"}
CallPc  == {"idle", "spawn", "begin", "unflag", "cancel", "finish", "notify", "join",
            "drain", "mark", "returned"}

TypeOK ==
    /\ is_running \in BOOLEAN /\ is_done \in BOOLEAN
    /\ is_paused \in BOOLEAN /\ stop_event \in BOOLEAN
    /\ woken \subseteq Process
    /\ fire_count \in 0 .. MaxFires
    /\ count \in [Terminal -> Nat]
    /\ history \in Seq(Run)
    /\ queued \in Seq(Run)
    /\ active \subseteq Run
    /\ active_threads \subseteq Run
    /\ execution_threads \subseteq Run
    /\ asleep \subseteq Process
    /\ cancel_requested \subseteq Run
    /\ pc \in [Run -> RunPc]
    /\ fin \in [Run -> FinPc]
    /\ status \in [Run -> Terminal \cup {"pending", "running"}]
    /\ attempt \in [Run -> 1 .. MaxAttempts]
    /\ manual \subseteq Run
    /\ thread \in [Run -> Run]
    /\ tpc \in [Timers -> TimerPc]
    /\ worker \in Timers \cup {NoTimer}
    /\ cpc \in [Caller -> CallPc]
    /\ draining \in [Caller -> BOOLEAN]
    /\ joining \in [Caller -> Timers \cup {NoTimer}]
    /\ doomed \in [Caller -> Seq(Run)]

Init ==
    /\ is_running = FALSE /\ is_done = FALSE /\ is_paused = FALSE
    /\ stop_event = FALSE /\ woken = {}
    /\ fire_count = 0
    /\ count = [o \in Terminal |-> 0]
    /\ history = <<>>
    /\ queued = <<>>
    /\ active = {} /\ active_threads = {} /\ execution_threads = {}
    /\ asleep = {} /\ cancel_requested = {}
    /\ pc = [r \in Run |-> "unborn"]
    /\ fin = [r \in Run |-> "none"]
    /\ status = [r \in Run |-> "pending"]
    /\ attempt = [r \in Run |-> 1]
    /\ manual = {}
    /\ thread = [r \in Run |-> r]
    /\ tpc = [t \in Timers |-> "unborn"]
    /\ worker = NoTimer
    /\ cpc = [c \in Caller |-> "idle"]
    /\ draining = [c \in Caller |-> TRUE]
    /\ joining = [c \in Caller |-> NoTimer]
    /\ doomed = [c \in Caller |-> <<>>]
-----------------------------------------------------------------------------
(* Helpers *)

Elements(s) == {s[i] : i \in DOMAIN s}

MaxRunsReached == MaxRuns # NoLimit /\ fire_count >= MaxRuns

HasAvailableSlot == MaxOverlap = 0 \/ Cardinality(active) < MaxOverlap

\* Mutation: the drain forgets the execution threads.
DrainedOfRecords == active = {} /\ queued = <<>>

Drained == active = {} /\ queued = <<>> /\ execution_threads = {}

\* Mutation: notify() for notify_all().
NotifyOne == \E p \in asleep \cup {NoTimer} : asleep' = asleep \ {p}

\* _slot_available.notify_all()
NotifyAll == asleep' = {}

\* A thread in _slot_available.wait() runs on only after a notification.
Awake(p) == p \notin asleep

\* _stop_event.set(): a thread inside wait() returns True for certain, even
\* if the event is cleared again before it is scheduled.
SetStopEvent ==
    /\ stop_event' = TRUE
    /\ woken' = woken \cup {t \in Timers : tpc[t] = "sleep"}
                      \cup {r \in Run : pc[r] \in {"jitter", "backoff"}}

\* _stop_event.wait(...) of process p returns True.
StopSeen(p) == stop_event \/ p \in woken

\* A trigger_now() made by a run occupies the run's own thread.
OnTop(r) == \A s \in Run :
    s > r /\ thread[s] = thread[r] => pc[s] \in {"unborn", "gone"}

\* The thread of run r is executing r, and is not inside a stop() made by r.
Executing(r) == OnTop(r) /\ cpc[r] \in {"idle", "returned"}

\* r is in one of the user's callables: on_fire and the runner, or the
\* callbacks of the terminal status.
InUserCode(r) == \/ pc[r] = "running"
                 \/ fin[r] = "callbacks" /\ status[r] # "cancelled"

\* Where a run's thread goes after its record: an execution thread has to
\* leave _execution_threads, the caller of trigger_now() returns.
AfterRun(r) == IF r \in manual THEN "gone" ELSE "exit"

\* _history is cut to its last HistoryLimit records.
Remember(h, rs) ==
    LET all  == h \o rs
        over == Len(all) - HistoryLimit
    IN  IF over > 0 THEN SubSeq(all, over + 1, Len(all)) ELSE all

\* The bound MaxFires leaves room for the fires that timers are committed to.
RoomForFire ==
    fire_count + Cardinality({t \in Timers : tpc[t] \in {"check", "fire"}}) < MaxFires
-----------------------------------------------------------------------------
(* start(), pause(), resume() *)

\* Bound: a thread is left for every start() that has yet to create its own.
TimerLeft ==
    Cardinality({t \in Timers : tpc[t] = "unborn"})
        > Cardinality({c \in Controllers : cpc[c] = "spawn"})

Start(c) ==
    /\ cpc[c] = "idle"
    /\ ~is_running /\ ~is_done
    /\ TimerLeft
    /\ stop_event' = FALSE
    /\ is_running' = TRUE
    /\ cpc' = [cpc EXCEPT ![c] = "spawn"]
    /\ UNCHANGED <<is_done, is_paused, woken, draining, joining, doomed>>
    /\ UNCHANGED <<countVars, slotVars, runVars, timerVars>>

\* self._worker = Thread(...)
Spawn(c) ==
    /\ cpc[c] = "spawn"
    /\ \E t \in Timers :
        /\ tpc[t] = "unborn"
        /\ worker' = t
        /\ tpc' = [tpc EXCEPT ![t] = "spawned"]
    /\ cpc' = [cpc EXCEPT ![c] = "begin"]
    /\ UNCHANGED <<draining, joining, doomed, flagVars, countVars, slotVars, runVars>>

\* self._worker.start(), which raises when that thread was started already.
Begin(c) ==
    /\ cpc[c] = "begin"
    /\ tpc' = IF tpc[worker] = "spawned" THEN [tpc EXCEPT ![worker] = "loop"] ELSE tpc
    /\ cpc' = [cpc EXCEPT ![c] = "idle"]
    /\ UNCHANGED <<worker, draining, joining, doomed, flagVars, countVars, slotVars, runVars>>

SetPaused ==
    /\ Pauses
    /\ is_paused' = ~is_paused
    /\ UNCHANGED <<is_running, is_done, stop_event, woken>>
    /\ UNCHANGED <<countVars, slotVars, runVars, timerVars, callerVars>>
-----------------------------------------------------------------------------
(* _run_loop *)

TimerMoves(t, from, to) ==
    /\ tpc[t] = from
    /\ tpc' = [tpc EXCEPT ![t] = to]

\* The head of the loop: the stop event, max_runs, the schedule's end and the
\* start/end window.  A paused timer polls.
TimerLoop(t) ==
    /\ \/ /\ stop_event \/ (~is_paused /\ MaxRunsReached)
          /\ TimerMoves(t, "loop", "drain")
       \/ /\ ~stop_event /\ ~is_paused /\ ~MaxRunsReached
          /\ TimerMoves(t, "loop", "sleep") \/ TimerMoves(t, "loop", "drain")
    /\ UNCHANGED <<worker, flagVars, countVars, slotVars, runVars, callerVars>>

\* _stop_event.wait(delay) returns True.
TimerStopped(t) ==
    /\ StopSeen(t)
    /\ TimerMoves(t, "sleep", "drain")
    /\ woken' = woken \ {t}
    /\ UNCHANGED <<is_running, is_done, is_paused, stop_event, worker>>
    /\ UNCHANGED <<countVars, slotVars, runVars, callerVars>>

\* It timed out: the fire is due, or (a day later) the loop looks again.
TimerElapses(t) ==
    /\ ~StopSeen(t)
    /\ \/ RoomForFire /\ TimerMoves(t, "sleep", "check")
       \/ TimerMoves(t, "sleep", "loop")
    /\ UNCHANGED <<worker, flagVars, countVars, slotVars, runVars, callerVars>>

TimerChecks(t) ==
    /\ TimerMoves(t, "check", IF is_paused \/ MaxRunsReached THEN "loop" ELSE "fire")
    /\ UNCHANGED <<worker, flagVars, countVars, slotVars, runVars, callerVars>>

\* _launch_scheduled_execution: _new_record, then the execution thread.
TimerFires(t) ==
    LET r == fire_count + 1 IN
    /\ fire_count < MaxFires
    /\ TimerMoves(t, "fire", "launch")
    /\ fire_count' = r
    /\ pc' = [pc EXCEPT ![r] = "launch"]
    /\ UNCHANGED <<count, history, worker, fin, status, attempt, manual, thread>>
    /\ UNCHANGED <<flagVars, slotVars, callerVars>>

TimerLaunches(t) ==
    /\ TimerMoves(t, "launch", "loop")
    /\ \E r \in Run :
        /\ pc[r] = "launch"
        /\ pc' = [pc EXCEPT ![r] = "prepare"]
        /\ execution_threads' = execution_threads \cup {r}
    /\ UNCHANGED <<worker, fin, status, attempt, manual, thread, queued, active,
                   active_threads, asleep, cancel_requested>>
    /\ UNCHANGED <<flagVars, countVars, callerVars>>

\* _wait_for_drain(None) of the loop's finally block.
TimerDrains(t) ==
    /\ Awake(t)
    /\ IF Drained
       THEN TimerMoves(t, "drain", "mark") /\ UNCHANGED asleep
       ELSE TimerMoves(t, "drain", "drain") /\ asleep' = asleep \cup {t}
    /\ UNCHANGED <<worker, queued, active, active_threads, execution_threads,
                   cancel_requested>>
    /\ UNCHANGED <<flagVars, countVars, runVars, callerVars>>

TimerMarksDone(t) ==
    /\ TimerMoves(t, "mark", "dead")
    /\ is_running' = FALSE
    /\ is_done' = TRUE
    /\ UNCHANGED <<is_paused, stop_event, woken, worker>>
    /\ UNCHANGED <<countVars, slotVars, runVars, callerVars>>

TimerStep(t) ==
    \/ TimerLoop(t) \/ TimerStopped(t) \/ TimerChecks(t)
    \/ TimerFires(t) \/ TimerLaunches(t) \/ TimerDrains(t) \/ TimerMarksDone(t)
-----------------------------------------------------------------------------
(* trigger_now and _execute_record *)

\* trigger_now() from outside (parent = 0), or from inside a run's callback.
TriggerNow(parent) ==
    LET r == fire_count + 1 IN
    /\ RoomForFire
    /\ parent # 0 => NestedTriggers /\ InUserCode(parent) /\ Executing(parent)
    /\ fire_count' = r
    /\ manual' = manual \cup {r}
    /\ thread' = [thread EXCEPT ![r] = IF parent = 0 THEN r ELSE thread[parent]]
    /\ pc' = [pc EXCEPT ![r] = "claim"]
    /\ UNCHANGED <<count, history, fin, status, attempt>>
    /\ UNCHANGED <<flagVars, slotVars, timerVars, callerVars>>

RunMoves(r, from, to) ==
    /\ Executing(r)
    /\ pc[r] = from
    /\ pc' = [pc EXCEPT ![r] = to]

\* The record has its final status; _finish_record is next.
Settles(r, from, outcome) ==
    /\ RunMoves(r, from, "finishing")
    /\ status' = [status EXCEPT ![r] = outcome]
    /\ fin' = [fin EXCEPT ![r] = "terminal"]

\* _prepare_misfire and the decision of _prepare_jitter.
Prepare(r) ==
    /\ \/ MisfireSkip /\ Settles(r, "prepare", "skipped")
       \/ HasJitter /\ Settles(r, "prepare", "skipped")
       \/ /\ RunMoves(r, "prepare", IF HasJitter THEN "jitter" ELSE "claim")
          /\ UNCHANGED <<status, fin>>
    /\ UNCHANGED <<attempt, manual, thread, flagVars, countVars, slotVars, timerVars,
                   callerVars>>

JitterEnds(r) ==
    /\ IF StopSeen(r)
       THEN Settles(r, "jitter", "cancelled")
       ELSE RunMoves(r, "jitter", "claim") /\ UNCHANGED <<status, fin>>
    /\ woken' = woken \ {r}
    /\ UNCHANGED <<is_running, is_done, is_paused, stop_event, attempt, manual, thread>>
    /\ UNCHANGED <<countVars, slotVars, timerVars, callerVars>>

TakesSlot(r) ==
    /\ active' = active \cup {r}
    /\ active_threads' = active_threads \cup {thread[r]}

\* _claim_slot, up to the first wait().
ClaimFreeSlot(r) ==
    /\ HasAvailableSlot /\ queued = <<>>
    /\ RunMoves(r, "claim", "running")
    /\ TakesSlot(r)
    /\ status' = [status EXCEPT ![r] = "running"]
    /\ UNCHANGED <<fin, attempt, manual, thread, queued, execution_threads, asleep,
                   cancel_requested>>
    /\ UNCHANGED <<flagVars, countVars, timerVars, callerVars>>

ClaimSkips(r) ==
    /\ ~(HasAvailableSlot /\ queued = <<>>)
    /\ OverlapPolicy = "skip"
    /\ Settles(r, "claim", "skipped")
    /\ UNCHANGED <<attempt, manual, thread, flagVars, countVars, slotVars, timerVars,
                   callerVars>>

ClaimQueues(r) ==
    /\ ~(HasAvailableSlot /\ queued = <<>>)
    /\ OverlapPolicy = "queue"
    /\ RunMoves(r, "claim", "queued")
    /\ queued' = Append(queued, r)
    /\ asleep' = asleep \cup {r}
    /\ UNCHANGED <<fin, status, attempt, manual, thread, active, active_threads,
                   execution_threads, cancel_requested>>
    /\ UNCHANGED <<flagVars, countVars, timerVars, callerVars>>

\* Mutation: _request_replacement sets no token.
AskNobody == UNCHANGED cancel_requested

AskActiveToCancel == cancel_requested' = cancel_requested \cup active

\* _request_replacement inside _claim_slot, all under the lock: every active
\* run is asked to cancel, every queued one is cancelled and finished.  That
\* _finish_record cannot mark the job done, since r itself is not counted.
ClaimReplaces(r) ==
    /\ ~(HasAvailableSlot /\ queued = <<>>)
    /\ OverlapPolicy = "replace"
    /\ AskActiveToCancel
    /\ count' = [count EXCEPT !["cancelled"] = @ + Len(queued)]
    /\ history' = Remember(history, queued)
    /\ fin' = [q \in Run |-> IF q \in Elements(queued) THEN "end" ELSE fin[q]]
    /\ status' = [q \in Run |-> CASE q \in Elements(queued) -> "cancelled"
                                  [] q = r /\ HasAvailableSlot -> "running"
                                  [] OTHER -> status[q]]
    /\ IF HasAvailableSlot
       THEN /\ RunMoves(r, "claim", "running")
            /\ TakesSlot(r)
            /\ queued' = <<>>
            /\ NotifyAll
       ELSE /\ RunMoves(r, "claim", "queued")
            /\ UNCHANGED <<active, active_threads>>
            /\ queued' = <<r>>
            /\ asleep' = {r}
    /\ UNCHANGED <<fire_count, attempt, manual, thread, execution_threads>>
    /\ UNCHANGED <<flagVars, timerVars, callerVars>>

\* A notified run re-checks its turn: cancelled (the record is finished by
\* whoever cancelled it), admitted, or asleep again.
QueuedCancelled(r) ==
    /\ Awake(r) /\ status[r] = "cancelled"
    /\ RunMoves(r, "queued", AfterRun(r))
    /\ UNCHANGED <<fin, status, attempt, manual, thread, flagVars, countVars, slotVars,
                   timerVars, callerVars>>

\* Mutation: any queued run may take the slot.
AtAnyPlace(r) == r \in Elements(queued)

AtHead(r) == queued # <<>> /\ Head(queued) = r

QueuedAdmitted(r) ==
    /\ Awake(r) /\ AtHead(r) /\ HasAvailableSlot
    /\ RunMoves(r, "queued", "running")
    /\ TakesSlot(r)
    /\ queued' = Tail(queued)
    /\ status' = [status EXCEPT ![r] = "running"]
    /\ UNCHANGED <<fin, attempt, manual, thread, execution_threads, asleep,
                   cancel_requested>>
    /\ UNCHANGED <<flagVars, countVars, timerVars, callerVars>>

QueuedSleepsOn(r) ==
    /\ Awake(r) /\ status[r] # "cancelled" /\ ~(AtHead(r) /\ HasAvailableSlot)
    /\ RunMoves(r, "queued", "queued")
    /\ asleep' = asleep \cup {r}
    /\ UNCHANGED <<fin, status, attempt, manual, thread, queued, active, active_threads,
                   execution_threads, cancel_requested>>
    /\ UNCHANGED <<flagVars, countVars, timerVars, callerVars>>

QueuedWakes(r) == QueuedCancelled(r) \/ QueuedAdmitted(r) \/ QueuedSleepsOn(r)

Claim(r) == ClaimFreeSlot(r) \/ ClaimSkips(r) \/ ClaimQueues(r) \/ ClaimReplaces(r)
-----------------------------------------------------------------------------
(* _run_with_retry: the runner may also choose the record's status itself. *)

RunnerReturns(r) ==
    /\ \E outcome \in Outcomes : Settles(r, "running", outcome)
    /\ UNCHANGED <<attempt, manual, thread, flagVars, countVars, slotVars, timerVars,
                   callerVars>>

RunnerRetries(r) ==
    /\ attempt[r] < MaxAttempts
    /\ RunMoves(r, "running", "backoff")
    /\ attempt' = [attempt EXCEPT ![r] = @ + 1]
    /\ UNCHANGED <<fin, status, manual, thread, flagVars, countVars, slotVars,
                   timerVars, callerVars>>

BackoffEnds(r) ==
    /\ IF StopSeen(r)
       THEN Settles(r, "backoff", "cancelled")
       ELSE RunMoves(r, "backoff", "running") /\ UNCHANGED <<status, fin>>
    /\ woken' = woken \ {r}
    /\ UNCHANGED <<is_running, is_done, is_paused, stop_event, attempt, manual, thread>>
    /\ UNCHANGED <<countVars, slotVars, timerVars, callerVars>>

\* An on_fire callback raises a BaseException, which _dispatch lets through:
\* the record is never finished, only the slot is released.
OnFireAborts(r) ==
    /\ BaseExceptions /\ attempt[r] = 1
    /\ RunMoves(r, "running", "finishing")
    /\ fin' = [fin EXCEPT ![r] = "end"]
    /\ UNCHANGED <<status, attempt, manual, thread, flagVars, countVars, slotVars,
                   timerVars, callerVars>>
-----------------------------------------------------------------------------
(* _finish_record: on the run's own thread, or in a stop() that took the   *)
(* record from the queue.                                                  *)

FinMoves(r, from, to) ==
    /\ fin[r] = from
    /\ pc[r] = "finishing" => Executing(r)
    /\ fin' = [fin EXCEPT ![r] = to]
    /\ UNCHANGED <<pc, status, attempt, manual, thread>>

\* Mutation: no counter for cancelled records.
RecordTerminalUnlessCancelled(r) ==
    /\ FinMoves(r, "terminal", "callbacks")
    /\ count' = IF status[r] = "cancelled" THEN count
                ELSE [count EXCEPT ![status[r]] = @ + 1]
    /\ UNCHANGED <<fire_count, history, flagVars, slotVars, timerVars, callerVars>>

\* The counter; the callbacks of the outcome follow ("cancelled" has none).
RecordTerminal(r) ==
    /\ FinMoves(r, "terminal", "callbacks")
    /\ count' = [count EXCEPT ![status[r]] = @ + 1]
    /\ UNCHANGED <<fire_count, history, flagVars, slotVars, timerVars, callerVars>>

\* The callbacks are over.
RecordHistory(r) ==
    /\ FinMoves(r, "callbacks", "tally")
    /\ history' = Remember(history, <<r>>)
    /\ UNCHANGED <<fire_count, count, flagVars, slotVars, timerVars, callerVars>>

\* A callback of the outcome raises a BaseException: the rest is skipped.
CallbackAborts(r) ==
    /\ BaseExceptions /\ status[r] # "cancelled"
    /\ FinMoves(r, "callbacks", "end")
    /\ UNCHANGED <<flagVars, countVars, slotVars, timerVars, callerVars>>

\* The code reads the counters first and fire_count last, one lock each.  The
\* counters only grow and never exceed fire_count, so whatever it concludes is
\* what one atomic comparison concludes at some moment in between.
Counted == count["succeeded"] + count["failed"] + count["skipped"] + count["cancelled"]

Tally(r) ==
    /\ FinMoves(r, "tally",
                IF MaxRunsReached /\ Counted = fire_count THEN "mark" ELSE "end")
    /\ UNCHANGED <<flagVars, countVars, slotVars, timerVars, callerVars>>

MarkExhausted(r) ==
    /\ FinMoves(r, "mark", "signal")
    /\ is_done' = TRUE
    /\ is_running' = FALSE
    /\ UNCHANGED <<is_paused, stop_event, woken, countVars, slotVars, timerVars,
                   callerVars>>

SignalExhausted(r) ==
    /\ FinMoves(r, "signal", "end")
    /\ SetStopEvent
    /\ NotifyAll
    /\ UNCHANGED <<is_running, is_done, is_paused, queued, active, active_threads,
                   execution_threads, cancel_requested>>
    /\ UNCHANGED <<countVars, timerVars, callerVars>>

\* _release_slot of the finally block.
ReleaseSlot(r) ==
    /\ fin[r] = "end" /\ r \in active
    /\ RunMoves(r, "finishing", AfterRun(r))
    /\ active' = active \ {r}
    /\ active_threads' = active_threads \ {thread[r]}
    /\ NotifyAll
    /\ UNCHANGED <<fin, status, attempt, manual, thread, queued, execution_threads,
                   cancel_requested>>
    /\ UNCHANGED <<flagVars, countVars, timerVars, callerVars>>

\* The record never had a slot: trigger_now returns.
ReturnUnslotted(r) ==
    /\ r \in manual \ active /\ fin[r] = "end"
    /\ RunMoves(r, "finishing", "gone")
    /\ UNCHANGED <<fin, status, attempt, manual, thread, flagVars, countVars, slotVars,
                   timerVars, callerVars>>

\* The finally block of an execution thread, with or without a slot before.
ThreadExits(r) ==
    /\ \/ RunMoves(r, "exit", "gone")
       \/ r \notin manual \cup active /\ fin[r] = "end" /\ RunMoves(r, "finishing", "gone")
    /\ execution_threads' = execution_threads \ {r}
    /\ NotifyAll
    /\ UNCHANGED <<fin, status, attempt, manual, thread, queued, active, active_threads,
                   cancel_requested>>
    /\ UNCHANGED <<flagVars, countVars, timerVars, callerVars>>

Finish(r) ==
    \/ RecordTerminal(r) \/ RecordHistory(r) \/ Tally(r)
    \/ MarkExhausted(r) \/ SignalExhausted(r)
    \/ ReleaseSlot(r) \/ ReturnUnslotted(r) \/ ThreadExits(r)
-----------------------------------------------------------------------------
(* stop(drain, timeout) *)

CallMoves(c, from, to) ==
    /\ cpc[c] = from
    /\ cpc' = [cpc EXCEPT ![c] = to]

\* A controller may call stop() whenever it likes, and a run from its
\* callbacks.  Bound: each of them calls it once.
Stop(c) ==
    /\ cpc[c] = "idle"
    /\ c \in Run => StopsFromRuns /\ InUserCode(c) /\ Executing(c)
    /\ cpc' = [cpc EXCEPT ![c] = "unflag"]
    /\ \E drain \in BOOLEAN : draining' = [draining EXCEPT ![c] = drain]
    /\ SetStopEvent
    /\ UNCHANGED <<is_running, is_done, is_paused, joining, doomed>>
    /\ UNCHANGED <<countVars, slotVars, runVars, timerVars>>

StopUnflags(c) ==
    /\ CallMoves(c, "unflag", IF draining[c] THEN "notify" ELSE "cancel")
    /\ is_running' = FALSE
    /\ UNCHANGED <<is_done, is_paused, stop_event, woken, draining, joining, doomed>>
    /\ UNCHANGED <<countVars, slotVars, runVars, timerVars>>

\* _cancel_queued_runs: the records leave the queue under the lock ...
StopCancelsQueue(c) ==
    /\ CallMoves(c, "cancel", "finish")
    /\ doomed' = [doomed EXCEPT ![c] = queued]
    /\ status' = [r \in Run |-> IF r \in Elements(queued) THEN "cancelled" ELSE status[r]]
    /\ fin' = [r \in Run |-> IF queued # <<>> /\ r = Head(queued) THEN "terminal" ELSE fin[r]]
    /\ queued' = <<>>
    /\ NotifyAll
    /\ UNCHANGED <<draining, joining, pc, attempt, manual, thread, active, active_threads,
                   execution_threads, cancel_requested>>
    /\ UNCHANGED <<flagVars, countVars, timerVars>>

\* ... and are finished afterwards, one after the other.
StopFinishesNext(c) ==
    /\ cpc[c] = "finish"
    /\ \/ /\ doomed[c] = <<>>
          /\ CallMoves(c, "finish", "notify")
          /\ UNCHANGED <<doomed, fin>>
       \/ /\ doomed[c] # <<>> /\ fin[Head(doomed[c])] = "end"
          /\ doomed' = [doomed EXCEPT ![c] = Tail(@)]
          /\ fin' = [r \in Run |-> IF Len(doomed[c]) > 1 /\ r = doomed[c][2]
                                   THEN "terminal" ELSE fin[r]]
          /\ UNCHANGED cpc
    /\ UNCHANGED <<draining, joining, pc, status, attempt, manual, thread>>
    /\ UNCHANGED <<flagVars, countVars, slotVars, timerVars>>

\* stop() returns; what it kept in its locals is gone.
StopReturnsFrom(c, from) ==
    /\ CallMoves(c, from, "returned")
    /\ draining' = [draining EXCEPT ![c] = TRUE]
    /\ joining' = [joining EXCEPT ![c] = NoTimer]

\* A thread that runs a fire returns here: the drain would wait for itself.
\* Mutation: a manual run is not recognised.
ServesAScheduledRun(c) == c \in Run /\ thread[c] \in execution_threads

ServesARun(c) == c \in Run /\ thread[c] \in active_threads \cup execution_threads

StopNotifies(c) ==
    /\ \/ ServesARun(c) /\ StopReturnsFrom(c, "notify")
       \/ /\ ~ServesARun(c)
          /\ CallMoves(c, "notify", IF draining[c] THEN "join" ELSE "mark")
          /\ joining' = [joining EXCEPT ![c] = worker]
          /\ UNCHANGED draining
    /\ NotifyAll
    /\ UNCHANGED <<doomed, queued, active, active_threads, execution_threads,
                   cancel_requested>>
    /\ UNCHANGED <<flagVars, countVars, runVars, timerVars>>

\* worker.join(timeout), which raises for a thread that was not started yet.
StopJoins(c) ==
    LET at == IF joining[c] = NoTimer THEN "dead" ELSE tpc[joining[c]] IN
    /\ \/ at = "spawned" /\ StopReturnsFrom(c, "join")
       \/ /\ at = "dead" \/ (StopTimeouts /\ at # "spawned")
          /\ CallMoves(c, "join", "drain")
          /\ UNCHANGED <<draining, joining>>
    /\ UNCHANGED <<doomed, flagVars, countVars, slotVars, runVars, timerVars>>

StopDrains(c) ==
    /\ Awake(c) \/ StopTimeouts
    /\ IF Drained \/ StopTimeouts
       THEN CallMoves(c, "drain", "mark") /\ asleep' = asleep \ {c}
       ELSE CallMoves(c, "drain", "drain") /\ asleep' = asleep \cup {c}
    /\ UNCHANGED <<draining, joining, doomed, queued, active, active_threads,
                   execution_threads, cancel_requested>>
    /\ UNCHANGED <<flagVars, countVars, runVars, timerVars>>

StopMarksDone(c) ==
    /\ StopReturnsFrom(c, "mark")
    /\ is_done' = TRUE
    /\ UNCHANGED <<is_running, is_paused, stop_event, woken, doomed>>
    /\ UNCHANGED <<countVars, slotVars, runVars, timerVars>>

StopStep(c) ==
    \/ StopUnflags(c) \/ StopCancelsQueue(c) \/ StopFinishesNext(c) \/ StopNotifies(c)
    \/ StopJoins(c) \/ StopDrains(c) \/ StopMarksDone(c)
-----------------------------------------------------------------------------
RunStep(r) ==
    \/ Prepare(r) \/ JitterEnds(r) \/ Claim(r) \/ QueuedWakes(r)
    \/ RunnerReturns(r) \/ BackoffEnds(r) \/ Finish(r)

Next ==
    \/ \E c \in Controllers : Start(c) \/ Spawn(c) \/ Begin(c)
    \/ SetPaused
    \/ \E t \in Timers : TimerStep(t) \/ TimerElapses(t)
    \/ \E parent \in Run \cup {0} : TriggerNow(parent)
    \/ \E r \in Run : RunStep(r) \/ RunnerRetries(r) \/ OnFireAborts(r) \/ CallbackAborts(r)
    \/ \E c \in Caller : Stop(c) \/ StopStep(c)

\* Every thread that can run gets to run, and the user's callables return.
\* Nobody has to start, pause, trigger or stop anything, and a schedule need
\* not come due.
Fairness ==
    /\ \A c \in Controllers : WF_vars(Spawn(c) \/ Begin(c))
    /\ \A t \in Timers : WF_vars(TimerStep(t))
    /\ \A r \in Run : WF_vars(RunStep(r))
    /\ \A c \in Caller : WF_vars(StopStep(c))

Spec == Init /\ [][Next]_vars /\ Fairness
-----------------------------------------------------------------------------
(* Properties *)

\* However fires, manual triggers, releases and replacements interleave, no
\* more than max_overlap runs hold a slot (_claim_slot, _release_slot).
SlotBound == MaxOverlap > 0 => Cardinality(active) <= MaxOverlap

\* A run that gets a slot has nobody queued ahead of it: no fire overtakes an
\* earlier arrival, whichever thread the notification wakes first.
NoOvertaking ==
    [][\A r \in active' \ active :
         /\ r \in Elements(queued) => \A i \in DOMAIN queued : r = queued[i] => i = 1
         /\ r \notin Elements(queued) => queued' = <<>>]_vars

\* "replace" keeps the latest replacement only, and while it waits every run
\* it waits for has been asked to cancel (_request_replacement).
ReplaceKeepsLatest ==
    OverlapPolicy = "replace" =>
        /\ Len(queued) <= 1
        /\ queued # <<>> => active \subseteq cancel_requested

\* Nothing is running, and no stop() is finishing records.
Quiet == \A r \in Run : /\ pc[r] \in {"unborn", "gone"}
                        /\ pc[r] = "gone" => fin[r] = "end"

\* A record is finished by its own thread, by the fire that supersedes it or
\* by the stop() that takes it from the queue, and by exactly one of them: it
\* enters the history once, is counted once, and is never forgotten.
AccountedOnce ==
    /\ \A i, j \in DOMAIN history : history[i] = history[j] => i = j
    /\ Counted <= fire_count
    /\ Quiet /\ ~BaseExceptions => /\ Counted = fire_count
                                   /\ Len(history) = IF fire_count <= HistoryLimit
                                                     THEN fire_count ELSE HistoryLimit

\* When a stop(drain=True) without a timeout is about to mark the job done, no
\* timer is left to fire and every scheduled run is over.
DrainLeavesNothing ==
    \A c \in Caller :
        cpc[c] = "mark" /\ draining[c] /\ ~StopTimeouts =>
            /\ \A t \in Timers : tpc[t] \in {"unborn", "dead"}
            /\ \A r \in Run \ manual : pc[r] \in {"unborn", "gone"}

\* A stop() called by a thread that the drain waits for never waits itself:
\* it would wait for its own return (the comment above the early return).
StopNeverAwaitsItself ==
    \A r \in Run : cpc[r] \in {"join", "drain"} =>
        \A s \in active : thread[s] # thread[r]

\* Every fire reaches its end, whatever the slots, the queue and stop() do.
FiresEnd == \A r \in Run : pc[r] # "unborn" ~> pc[r] = "gone"

\* Every stop() returns, drained or not, from inside a run or outside.
StopReturns == \A c \in Caller : cpc[c] = "unflag" ~> cpc[c] = "returned"

=============================================================================
