-------------------------- MODULE ScheduledJobProofs --------------------------
(***************************************************************************)
(* ScheduledJob for any number of fires, timers and controllers, any limit *)
(* and any policy: the slots, the queue and the replacement, the accounts  *)
(* of the finished runs, and stop().                                       *)
(*                                                                         *)
(* A queued run sits in its own wait loop and nobody has touched its       *)
(* record: that is what makes the queue free of duplicates, keeps a run    *)
(* from leaving the loop while it is still queued, and so keeps the order  *)
(* of arrival.  A record is finished by one thread, once (RecordInv): that *)
(* is what makes the counters and the history exact (AccountInv).          *)
(***************************************************************************)
EXTENDS ScheduledJob, FiniteSetTheorems, SequenceTheorems, TLAPS

\* No fire has a number that was not given out yet.
Numbered == \A r \in Run : r > fire_count => pc[r] = "unborn"

\* A record keeps its first status until it claims a slot.
Untouched ==
    \A r \in Run : pc[r] \in {"unborn", "launch", "prepare", "jitter", "claim"} =>
        status[r] = "pending"

\* A queued run is queued once, waits in _claim_slot, and is not cancelled.
QueueSane ==
    /\ \A i, j \in DOMAIN queued : queued[i] = queued[j] => i = j
    /\ \A i \in DOMAIN queued :
        pc[queued[i]] = "queued" /\ status[queued[i]] # "cancelled"

JobInv == TypeOK /\ Numbered /\ Untouched /\ QueueSane /\ SlotBound /\ ReplaceKeepsLatest
-----------------------------------------------------------------------------
(* Types *)

LEMMA InitJob == Init => JobInv
<1> SUFFICES ASSUME Init PROVE JobInv
  OBVIOUS
<1>1. MaxFires \in Nat /\ MaxAttempts \in Nat \ {0} /\ MaxOverlap \in Nat
  BY JobAssumption
<1>2. TypeOK
  <2>1. /\ queued \in Seq(Run) /\ history \in Seq(Run)
        /\ doomed \in [Caller -> Seq(Run)]
    BY DEF Init
  <2>2. /\ fire_count \in 0 .. MaxFires /\ attempt \in [Run -> 1 .. MaxAttempts]
        /\ count \in [Terminal -> Nat] /\ thread \in [Run -> Run]
    BY <1>1 DEF Init
  <2>3. /\ pc \in [Run -> RunPc] /\ fin \in [Run -> FinPc] /\ tpc \in [Timers -> TimerPc]
        /\ status \in [Run -> Terminal \cup {"pending", "running"}]
        /\ cpc \in [Caller -> CallPc] /\ draining \in [Caller -> BOOLEAN]
        /\ joining \in [Caller -> Timers \cup {NoTimer}]
    BY DEF Init, RunPc, FinPc, TimerPc, CallPc
  <2> QED
    BY <2>1, <2>2, <2>3 DEF Init, TypeOK
<1>3. Cardinality(active) = 0
  BY FS_EmptySet DEF Init
<1> QED
  BY <1>1, <1>2, <1>3 DEF Init, JobInv, Numbered, Untouched, QueueSane, SlotBound,
                          ReplaceKeepsLatest

\* start(), pause(), resume() and the timers.
LEMMA TypeControl ==
    ASSUME TypeOK, \/ \E c \in Controllers : Start(c) \/ Spawn(c) \/ Begin(c)
                   \/ SetPaused
    PROVE  TypeOK'
<1> USE DEF TypeOK, flagVars, countVars, slotVars, runVars, timerVars, callerVars
<1>1. ASSUME NEW c \in Controllers, Start(c) PROVE TypeOK'
  BY <1>1 DEF Start, Caller, CallPc
<1>2. ASSUME NEW c \in Controllers, Spawn(c) PROVE TypeOK'
  BY <1>2 DEF Spawn, Caller, CallPc, TimerPc
<1>3. ASSUME NEW c \in Controllers, Begin(c) PROVE TypeOK'
  BY <1>3 DEF Begin, Caller, CallPc, TimerPc
<1>4. CASE SetPaused
  <2>1. is_paused' \in BOOLEAN
    BY <1>4, Zenon DEF SetPaused
  <2> QED
    BY <2>1, <1>4 DEF SetPaused
<1> QED
  BY <1>1, <1>2, <1>3, <1>4

LEMMA TypeTimer ==
    ASSUME TypeOK, NEW t \in Timers, TimerStep(t) \/ TimerElapses(t)
    PROVE  TypeOK'
<1> USE DEF TypeOK, TimerMoves, TimerPc, flagVars, countVars, slotVars, runVars,
            timerVars, callerVars
<1>1. CASE TimerLoop(t) \/ TimerElapses(t) \/ TimerChecks(t)
  BY <1>1 DEF TimerLoop, TimerElapses, TimerChecks
<1>2. CASE TimerStopped(t)
  BY <1>2 DEF TimerStopped
<1>3. CASE TimerFires(t)
  <2>1. fire_count + 1 \in Run /\ "launch" \in RunPc
    BY <1>3, JobAssumption DEF TimerFires, Run, RunPc
  <2>2. fire_count' \in 0 .. MaxFires
    BY <1>3, JobAssumption DEF TimerFires
  <2>3. pc' \in [Run -> RunPc] /\ tpc' \in [Timers -> TimerPc]
    BY <1>3, <2>1 DEF TimerFires
  <2> QED
    BY <1>3, <2>2, <2>3 DEF TimerFires
<1>4. CASE TimerLaunches(t)
  BY <1>4 DEF TimerLaunches, RunPc
<1>5. CASE TimerDrains(t)
  BY <1>5 DEF TimerDrains, Process
<1>6. CASE TimerMarksDone(t)
  BY <1>6 DEF TimerMarksDone
<1> QED
  BY <1>1, <1>2, <1>3, <1>4, <1>5, <1>6 DEF TimerStep

\* The history stays a sequence of fires when its oldest entries are cut.
LEMMA RememberType ==
    ASSUME NEW h \in Seq(Run), NEW rs \in Seq(Run)
    PROVE  Remember(h, rs) \in Seq(Run)
<1> DEFINE all  == h \o rs
           over == Len(all) - HistoryLimit
<1>1. all \in Seq(Run) /\ HistoryLimit \in Nat \ {0}
  BY JobAssumption
<1>2. over \in Int /\ Len(all) \in Nat
  BY <1>1
<1>3. ASSUME over > 0 PROVE SubSeq(all, over + 1, Len(all)) \in Seq(Run)
  <2> HIDE DEF all, over
  <2>1. \A i \in over + 1 .. Len(all) : all[i] \in Run
    BY <1>1, <1>2, <1>3
  <2> QED
    BY <1>2, <1>3, <2>1, SubSeqProperties
<1>4. Remember(h, rs) = IF over > 0 THEN SubSeq(all, over + 1, Len(all)) ELSE all
  BY DEF Remember
<1> QED
  BY <1>1, <1>3, <1>4

\* Counting an outcome keeps the counters natural numbers.
LEMMA CountUp ==
    ASSUME NEW tally \in [Terminal -> Nat], NEW outcome
    PROVE  [tally EXCEPT ![outcome] = @ + 1] \in [Terminal -> Nat]
<1>1. CASE outcome \in Terminal
  BY <1>1
<1>2. CASE outcome \notin Terminal
  <2>1. [tally EXCEPT ![outcome] = @ + 1] = tally
    BY <1>2, Zenon
  <2> QED
    BY <2>1
<1> QED
  BY <1>1, <1>2

LEMMA TypeRun ==
    ASSUME TypeOK, NEW r \in Run,
           \/ Prepare(r) \/ JitterEnds(r) \/ Claim(r) \/ QueuedWakes(r)
           \/ RunnerReturns(r) \/ BackoffEnds(r) \/ RunnerRetries(r) \/ OnFireAborts(r)
    PROVE  TypeOK'
<1> USE DEF TypeOK, RunMoves, Settles, flagVars, countVars, slotVars, runVars, timerVars,
            callerVars
<1>p. /\ "jitter" \in RunPc /\ "claim" \in RunPc /\ "queued" \in RunPc
      /\ "running" \in RunPc /\ "backoff" \in RunPc /\ "finishing" \in RunPc
      /\ "exit" \in RunPc /\ "gone" \in RunPc
  BY DEF RunPc
<1>f. "terminal" \in FinPc /\ "end" \in FinPc
  BY DEF FinPc
<1>s. "skipped" \in Terminal /\ "cancelled" \in Terminal /\ Outcomes \subseteq Terminal
  BY JobAssumption DEF Terminal
<1>1. CASE Prepare(r)
  <2>1. /\ pc' \in [Run -> RunPc] /\ fin' \in [Run -> FinPc]
        /\ status' \in [Run -> Terminal \cup {"pending", "running"}]
    <3>1. CASE Settles(r, "prepare", "skipped")
      BY <1>p, <1>f, <1>s, <3>1
    <3>2. CASE /\ RunMoves(r, "prepare", IF HasJitter THEN "jitter" ELSE "claim")
               /\ UNCHANGED <<status, fin>>
      BY <1>p, <3>2
    <3> QED
      BY <1>1, <3>1, <3>2 DEF Prepare
  <2>2. UNCHANGED <<attempt, manual, thread, flagVars, countVars, slotVars, timerVars,
                    callerVars>>
    BY <1>1 DEF Prepare
  <2> QED
    BY <2>1, <2>2
<1>2. CASE JitterEnds(r)
  <2>1. /\ pc' \in [Run -> RunPc] /\ fin' \in [Run -> FinPc]
        /\ status' \in [Run -> Terminal \cup {"pending", "running"}]
    <3>1. CASE Settles(r, "jitter", "cancelled")
      BY <1>p, <1>f, <1>s, <3>1
    <3>2. CASE RunMoves(r, "jitter", "claim") /\ UNCHANGED <<status, fin>>
      BY <1>p, <3>2
    <3> QED
      BY <1>2, <3>1, <3>2 DEF JitterEnds
  <2>2. /\ woken' \subseteq Process
        /\ UNCHANGED <<is_running, is_done, is_paused, stop_event, attempt, manual, thread>>
        /\ UNCHANGED <<countVars, slotVars, timerVars, callerVars>>
    BY <1>2 DEF JitterEnds
  <2> QED
    BY <2>1, <2>2
<1>3. CASE ClaimFreeSlot(r)
  BY <1>p, <1>f, <1>s, <1>3 DEF ClaimFreeSlot, TakesSlot
<1>4. CASE ClaimSkips(r)
  BY <1>p, <1>f, <1>s, <1>4 DEF ClaimSkips
<1>5. CASE ClaimQueues(r)
  <2>1. queued' \in Seq(Run) /\ asleep' \subseteq Process /\ pc' \in [Run -> RunPc]
    BY <1>p, <1>5 DEF ClaimQueues, Process, Caller
  <2>2. /\ UNCHANGED <<fin, status, attempt, manual, thread, active, active_threads,
                       execution_threads, cancel_requested>>
        /\ UNCHANGED <<flagVars, countVars, timerVars, callerVars>>
    BY <1>5 DEF ClaimQueues
  <2> QED
    BY <2>1, <2>2
<1>6. CASE ClaimReplaces(r)
  <2>1. history' \in Seq(Run)
    BY <1>6, RememberType DEF ClaimReplaces
  <2>2. count' \in [Terminal -> Nat]
    <3>1. /\ count \in [Terminal -> Nat] /\ Len(queued) \in Nat
          /\ count' = [count EXCEPT !["cancelled"] = @ + Len(queued)]
      BY <1>6 DEF ClaimReplaces
    <3> QED
      BY <1>s, <3>1, Zenon, SMT
  <2>3. fin' \in [Run -> FinPc] /\ status' \in [Run -> Terminal \cup {"pending", "running"}]
    BY <1>p, <1>f, <1>s, <1>6 DEF ClaimReplaces
  <2>4. /\ queued' \in Seq(Run) /\ active' \subseteq Run /\ active_threads' \subseteq Run
        /\ asleep' \subseteq Process /\ pc' \in [Run -> RunPc]
        /\ cancel_requested' \subseteq Run
    <3>1. cancel_requested' \subseteq Run
      BY <1>6 DEF ClaimReplaces, AskActiveToCancel
    <3>2. CASE HasAvailableSlot
      <4>1. /\ pc' = [pc EXCEPT ![r] = "running"] /\ queued' = <<>> /\ asleep' = {}
            /\ active' = active \cup {r} /\ active_threads' = active_threads \cup {thread[r]}
        BY <1>6, <3>2 DEF ClaimReplaces, TakesSlot, NotifyAll
      <4> QED
        BY <1>p, <3>1, <4>1
    <3>3. CASE ~HasAvailableSlot
      <4>1. /\ pc' = [pc EXCEPT ![r] = "queued"] /\ queued' = <<r>> /\ asleep' = {r}
            /\ active' = active /\ active_threads' = active_threads
        BY <1>6, <3>3 DEF ClaimReplaces
      <4> QED
        BY <1>p, <3>1, <4>1 DEF Process, Caller
    <3> QED
      BY <3>2, <3>3
  <2> QED
    <3>1. /\ UNCHANGED <<fire_count, attempt, manual, thread, execution_threads>>
          /\ UNCHANGED <<flagVars, timerVars, callerVars>>
      BY <1>6 DEF ClaimReplaces
    <3> QED
      BY <2>1, <2>2, <2>3, <2>4, <3>1
<1>7. CASE QueuedCancelled(r)
  BY <1>p, <1>7 DEF QueuedCancelled, AfterRun
<1>12. CASE QueuedAdmitted(r)
  BY <1>p, <1>12 DEF QueuedAdmitted, TakesSlot, AtHead
<1>13. CASE QueuedSleepsOn(r)
  BY <1>p, <1>13 DEF QueuedSleepsOn, Process, Caller
<1>8. CASE RunnerReturns(r)
  BY <1>p, <1>f, <1>s, <1>8 DEF RunnerReturns
<1>9. CASE BackoffEnds(r)
  <2>1. /\ pc' \in [Run -> RunPc] /\ fin' \in [Run -> FinPc]
        /\ status' \in [Run -> Terminal \cup {"pending", "running"}]
    <3>1. CASE Settles(r, "backoff", "cancelled")
      BY <1>p, <1>f, <1>s, <3>1
    <3>2. CASE RunMoves(r, "backoff", "running") /\ UNCHANGED <<status, fin>>
      BY <1>p, <3>2
    <3> QED
      BY <1>9, <3>1, <3>2 DEF BackoffEnds
  <2>2. /\ woken' \subseteq Process
        /\ UNCHANGED <<is_running, is_done, is_paused, stop_event, attempt, manual, thread>>
        /\ UNCHANGED <<countVars, slotVars, timerVars, callerVars>>
    BY <1>9 DEF BackoffEnds
  <2> QED
    BY <2>1, <2>2
<1>10. CASE RunnerRetries(r)
  BY <1>p, <1>f, <1>s, <1>10, JobAssumption DEF RunnerRetries
<1>11. CASE OnFireAborts(r)
  BY <1>p, <1>f, <1>s, <1>11 DEF OnFireAborts
<1> QED
  BY <1>1, <1>2, <1>3, <1>4, <1>5, <1>6, <1>7, <1>8, <1>9, <1>10, <1>11,
     <1>12, <1>13 DEF Claim, QueuedWakes

LEMMA TypeFinish ==
    ASSUME TypeOK, NEW r \in Run, Finish(r) \/ CallbackAborts(r)
    PROVE  TypeOK'
<1> USE DEF TypeOK, FinMoves, RunMoves, FinPc, flagVars, countVars, slotVars, runVars,
            timerVars, callerVars
<1>1. CASE RecordTerminal(r)
  <2>1. /\ count \in [Terminal -> Nat]
        /\ count' = [count EXCEPT ![status[r]] = @ + 1]
    BY <1>1 DEF RecordTerminal
  <2>2. count' \in [Terminal -> Nat]
    BY <2>1, CountUp
  <2> QED
    BY <1>1, <2>2 DEF RecordTerminal
<1>2. CASE RecordHistory(r)
  <2>1. history' \in Seq(Run)
    <3>1. /\ history \in Seq(Run) /\ <<r>> \in Seq(Run)
          /\ history' = Remember(history, <<r>>)
      BY <1>2 DEF RecordHistory
    <3> QED
      BY <3>1, RememberType
  <2> QED
    BY <1>2, <2>1 DEF RecordHistory
<1>3. CASE Tally(r) \/ CallbackAborts(r)
  BY <1>3, ZenonT(30) DEF Tally, CallbackAborts
<1>4. CASE MarkExhausted(r)
  BY <1>4 DEF MarkExhausted
<1>5. CASE SignalExhausted(r)
  BY <1>5 DEF SignalExhausted, SetStopEvent, NotifyAll, Process, Caller
<1>6. CASE ReleaseSlot(r)
  BY <1>6 DEF ReleaseSlot, AfterRun, NotifyAll, RunPc
<1>7. CASE ReturnUnslotted(r)
  BY <1>7 DEF ReturnUnslotted, RunPc
<1>8. CASE ThreadExits(r)
  BY <1>8 DEF ThreadExits, NotifyAll, RunPc
<1> QED
  BY <1>1, <1>2, <1>3, <1>4, <1>5, <1>6, <1>7, <1>8 DEF Finish

LEMMA TypeStop ==
    ASSUME TypeOK, NEW c \in Caller, Stop(c) \/ StopStep(c)
    PROVE  TypeOK'
<1> USE DEF TypeOK, CallMoves, CallPc, StopReturnsFrom, flagVars, countVars, slotVars,
            runVars, timerVars, callerVars
<1>1. CASE Stop(c)
  BY <1>1 DEF Stop, SetStopEvent, Process, Caller
<1>2. CASE StopUnflags(c)
  BY <1>2 DEF StopUnflags
<1>3. CASE StopCancelsQueue(c)
  BY <1>3 DEF StopCancelsQueue, NotifyAll, FinPc, Terminal
<1>4. CASE StopFinishesNext(c)
  <2>1. "terminal" \in FinPc
    BY DEF FinPc
  <2>2. fin' \in [Run -> FinPc] /\ doomed' \in [Caller -> Seq(Run)]
    <3>1. CASE doomed[c] = <<>>
      BY <1>4, <3>1 DEF StopFinishesNext
    <3>2. CASE doomed[c] # <<>>
      <4>1. Tail(doomed[c]) \in Seq(Run)
        BY <3>2
      <4>2. doomed' = [doomed EXCEPT ![c] = Tail(doomed[c])]
        BY <1>4, <3>2 DEF StopFinishesNext
      <4>3. doomed' \in [Caller -> Seq(Run)]
        BY <4>1, <4>2
      <4>4. fin' = [q \in Run |-> IF Len(doomed[c]) > 1 /\ q = doomed[c][2]
                                  THEN "terminal" ELSE fin[q]]
        BY <1>4, <3>2 DEF StopFinishesNext
      <4> QED
        BY <2>1, <4>3, <4>4
    <3> QED
      BY <3>1, <3>2
  <2>3. cpc' \in [Caller -> CallPc]
    BY <1>4 DEF StopFinishesNext
  <2>4. /\ UNCHANGED <<draining, joining, pc, status, attempt, manual, thread>>
        /\ UNCHANGED <<flagVars, countVars, slotVars, timerVars>>
    BY <1>4 DEF StopFinishesNext
  <2> QED
    BY <2>2, <2>3, <2>4
<1>5. CASE StopNotifies(c)
  BY <1>5, ZenonT(30) DEF StopNotifies, NotifyAll
<1>6. CASE StopJoins(c)
  BY <1>6 DEF StopJoins
<1>7. CASE StopDrains(c)
  BY <1>7, ZenonT(30) DEF StopDrains, Process
<1>8. CASE StopMarksDone(c)
  BY <1>8 DEF StopMarksDone
<1> QED
  BY <1>1, <1>2, <1>3, <1>4, <1>5, <1>6, <1>7, <1>8 DEF StopStep

LEMMA TypeTrigger ==
    ASSUME TypeOK, NEW parent \in Run \cup {0}, TriggerNow(parent)
    PROVE  TypeOK'
<1>1. fire_count + 1 \in Run
  <2>1. RoomForFire /\ fire_count \in 0 .. MaxFires /\ MaxFires \in Nat
    BY JobAssumption DEF TriggerNow, TypeOK
  <2> DEFINE due == {t \in Timers : tpc[t] \in {"check", "fire"}}
  <2>2. fire_count + Cardinality(due) < MaxFires
    BY <2>1 DEF RoomForFire
  <2>3. Cardinality(due) \in Nat
    BY ProcessAssumption, FS_Subset, FS_CardinalityType
  <2> QED
    BY <2>1, <2>2, <2>3 DEF Run
<1>2. "claim" \in RunPc /\ fire_count + 1 \in 0 .. MaxFires
  BY <1>1, JobAssumption DEF RunPc, Run
<1>3. /\ fire_count' = fire_count + 1 /\ manual' = manual \cup {fire_count + 1}
      /\ pc' = [pc EXCEPT ![fire_count + 1] = "claim"]
      /\ thread' = [thread EXCEPT ![fire_count + 1] = IF parent = 0 THEN fire_count + 1
                                                     ELSE thread[parent]]
      /\ UNCHANGED <<count, history, fin, status, attempt>>
      /\ UNCHANGED <<flagVars, slotVars, timerVars, callerVars>>
  BY DEF TriggerNow
<1>4. thread' \in [Run -> Run] /\ pc' \in [Run -> RunPc]
  BY <1>1, <1>2, <1>3 DEF TypeOK
<1> QED
  BY <1>1, <1>2, <1>3, <1>4 DEF TypeOK, flagVars, slotVars, timerVars, callerVars

LEMMA TypeNext == TypeOK /\ [Next]_vars => TypeOK'
<1> SUFFICES ASSUME TypeOK, [Next]_vars PROVE TypeOK'
  OBVIOUS
<1>1. CASE UNCHANGED vars
  BY <1>1 DEF vars, flagVars, countVars, slotVars, runVars, timerVars, callerVars, TypeOK
<1>2. CASE Next
  BY <1>2, TypeControl, TypeTimer, TypeTrigger, TypeRun, TypeFinish, TypeStop
  DEF Next, RunStep
<1> QED
  BY <1>1, <1>2
-----------------------------------------------------------------------------
(* Steps that leave the queue alone *)

Early == {"unborn", "launch", "prepare", "jitter", "claim"}

\* A run keeps its place and its record, or moves on outside the queue; on its
\* way to the claim its record stays as it was.
Undisturbed(q) ==
    \/ pc'[q] = pc[q] /\ status'[q] = status[q]
    \/ /\ pc[q] \notin {"unborn", "queued"}
       /\ pc'[q] \in Early => pc[q] \in Early /\ status'[q] = status[q]

LEMMA RunFinite == IsFiniteSet(Run)
<1>1. 1 \in Int /\ MaxFires \in Int
  BY JobAssumption
<1>2. IsFiniteSet(1 .. MaxFires)
  BY <1>1, FS_Interval
<1> QED
  BY <1>2 DEF Run

LEMMA Keeps ==
    ASSUME JobInv, TypeOK', fire_count' = fire_count, queued' = queued,
           active' \subseteq active, cancel_requested' = cancel_requested,
           \A q \in Run : Undisturbed(q)
    PROVE  JobInv'
<1> USE DEF JobInv, Undisturbed, Early
<1>1. Numbered'
  BY DEF Numbered
<1>2. Untouched'
  BY DEF Untouched
<1>3. QueueSane'
  <2>1. \A i \in DOMAIN queued : queued[i] \in Run
    BY DEF TypeOK
  <2> QED
    BY <2>1 DEF QueueSane
<1>4. SlotBound'
  <2>1. IsFiniteSet(Run)
    BY RunFinite
  <2>2. IsFiniteSet(active) /\ active \subseteq Run
    BY <2>1, FS_Subset DEF TypeOK
  <2>3. Cardinality(active') <= Cardinality(active) /\ Cardinality(active) \in Nat
        /\ Cardinality(active') \in Nat
    BY <2>2, FS_Subset, FS_CardinalityType
  <2> QED
    BY <2>3, JobAssumption DEF SlotBound
<1>5. ReplaceKeepsLatest'
  BY DEF ReplaceKeepsLatest
<1> QED
  BY <1>1, <1>2, <1>3, <1>4, <1>5

\* Moves of the run r alone, from outside the queue, past the claim.
LEMMA KeepsAfterMove ==
    ASSUME JobInv, TypeOK', fire_count' = fire_count, queued' = queued,
           active' \subseteq active, cancel_requested' = cancel_requested,
           NEW r \in Run, pc[r] \notin {"unborn", "queued"}, pc'[r] \notin Early,
           \A q \in Run \ {r} : pc'[q] = pc[q] /\ status'[q] = status[q]
    PROVE  JobInv'
<1>1. \A q \in Run : Undisturbed(q)
  BY DEF Undisturbed
<1> QED
  BY <1>1, Keeps

LEMMA KeepsControl ==
    ASSUME JobInv, TypeOK', \/ \E c \in Controllers : Start(c) \/ Spawn(c) \/ Begin(c)
                            \/ SetPaused
    PROVE  JobInv'
<1>1. UNCHANGED <<countVars, slotVars, runVars>>
  BY DEF Start, Spawn, Begin, SetPaused
<1> QED
  BY <1>1, Keeps DEF countVars, slotVars, runVars, Undisturbed

\* The next fire: its record is new.
LEMMA KeepsNewFire ==
    ASSUME JobInv, TypeOK', fire_count + 1 \in Run, fire_count' = fire_count + 1,
           NEW at \in {"launch", "claim"}, pc' = [pc EXCEPT ![fire_count + 1] = at],
           UNCHANGED <<status, slotVars>>
    PROVE  JobInv'
<1> USE DEF JobInv, slotVars
<1> DEFINE r == fire_count + 1
<1>1. fire_count \in Nat /\ r > fire_count /\ pc \in [Run -> RunPc]
  BY DEF TypeOK
<1>2. pc[r] = "unborn" /\ status[r] = "pending"
  BY <1>1 DEF Numbered, Untouched
<1>3. Numbered'
  BY <1>1 DEF Numbered, Run
<1>4. Untouched'
  BY <1>1, <1>2 DEF Untouched
<1>5. QueueSane'
  <2>1. \A i \in DOMAIN queued : queued[i] \in Run /\ queued[i] # r
    BY <1>2 DEF QueueSane, TypeOK
  <2> QED
    BY <1>1, <2>1 DEF QueueSane
<1>6. SlotBound' /\ ReplaceKeepsLatest'
  BY DEF SlotBound, ReplaceKeepsLatest
<1> QED
  BY <1>3, <1>4, <1>5, <1>6

LEMMA KeepsTimer ==
    ASSUME JobInv, TypeOK', NEW t \in Timers, TimerStep(t) \/ TimerElapses(t)
    PROVE  JobInv'
<1>1. CASE TimerFires(t)
  <2>1. fire_count + 1 \in Run
    BY <1>1, JobAssumption DEF TimerFires, Run, JobInv, TypeOK
  <2> QED
    BY <1>1, <2>1, KeepsNewFire DEF TimerFires
<1>2. CASE TimerLaunches(t)
  <2>1. PICK r \in Run : pc[r] = "launch" /\ pc' = [pc EXCEPT ![r] = "prepare"]
    BY <1>2 DEF TimerLaunches
  <2>2. \A q \in Run : Undisturbed(q)
    BY <1>2, <2>1 DEF Undisturbed, Early, TimerLaunches, JobInv, TypeOK
  <2> QED
    BY <1>2, <2>2, Keeps DEF TimerLaunches, countVars
<1>3. CASE \/ TimerLoop(t) \/ TimerStopped(t) \/ TimerChecks(t) \/ TimerDrains(t)
           \/ TimerMarksDone(t) \/ TimerElapses(t)
  <2>1. UNCHANGED <<fire_count, queued, active, cancel_requested, pc, status>>
    BY <1>3 DEF TimerLoop, TimerStopped, TimerChecks, TimerDrains, TimerMarksDone,
                TimerElapses, countVars, slotVars, runVars
  <2> QED
    BY <2>1, Keeps DEF Undisturbed
<1> QED
  BY <1>1, <1>2, <1>3 DEF TimerStep

LEMMA KeepsTrigger ==
    ASSUME JobInv, TypeOK', NEW parent \in Run \cup {0}, TriggerNow(parent)
    PROVE  JobInv'
<1>1. /\ fire_count' = fire_count + 1 /\ pc' = [pc EXCEPT ![fire_count + 1] = "claim"]
      /\ UNCHANGED <<status, slotVars>>
  BY DEF TriggerNow
<1>2. fire_count + 1 \in Run
  BY <1>1 DEF JobInv, TypeOK, Run
<1> QED
  BY <1>1, <1>2, KeepsNewFire

LEMMA KeepsFinish ==
    ASSUME JobInv, TypeOK', NEW r \in Run, Finish(r) \/ CallbackAborts(r)
    PROVE  JobInv'
<1>1. CASE ReleaseSlot(r) \/ ReturnUnslotted(r) \/ ThreadExits(r)
  <2>1. /\ pc[r] \notin {"unborn", "queued"} /\ pc'[r] \notin Early
        /\ \A q \in Run \ {r} : pc'[q] = pc[q] /\ status'[q] = status[q]
    BY <1>1 DEF ReleaseSlot, ReturnUnslotted, ThreadExits, RunMoves, AfterRun, Early,
                JobInv, TypeOK
  <2>2. /\ fire_count' = fire_count /\ queued' = queued /\ active' \subseteq active
        /\ cancel_requested' = cancel_requested
    BY <1>1 DEF ReleaseSlot, ReturnUnslotted, ThreadExits, countVars, slotVars
  <2> QED
    BY <2>1, <2>2, KeepsAfterMove
<1>2. CASE \/ RecordTerminal(r) \/ RecordHistory(r) \/ Tally(r) \/ MarkExhausted(r)
           \/ SignalExhausted(r) \/ CallbackAborts(r)
  <2>1. UNCHANGED <<fire_count, queued, active, cancel_requested, pc, status>>
    BY <1>2 DEF RecordTerminal, RecordHistory, Tally, MarkExhausted, SignalExhausted,
                CallbackAborts, FinMoves, countVars, slotVars
  <2> QED
    BY <2>1, Keeps DEF Undisturbed
<1> QED
  BY <1>1, <1>2 DEF Finish

LEMMA KeepsStop ==
    ASSUME JobInv, TypeOK', NEW c \in Caller, Stop(c) \/ StopStep(c)
    PROVE  JobInv'
<1>1. CASE StopCancelsQueue(c)
  <2> USE <1>1 DEF StopCancelsQueue, JobInv
  <2>1. /\ UNCHANGED <<pc, active, fire_count, cancel_requested>> /\ queued' = <<>>
        /\ status' = [r \in Run |-> IF r \in Elements(queued) THEN "cancelled"
                                                              ELSE status[r]]
    BY DEF countVars
  <2>2. \A r \in Elements(queued) : pc[r] = "queued"
    BY DEF QueueSane, Elements
  <2>3. Numbered' /\ QueueSane' /\ SlotBound' /\ ReplaceKeepsLatest'
    BY <2>1 DEF Numbered, QueueSane, SlotBound, ReplaceKeepsLatest
  <2>4. Untouched'
    BY <2>1, <2>2 DEF Untouched
  <2> QED
    BY <2>3, <2>4
<1>2. CASE \/ Stop(c) \/ StopUnflags(c) \/ StopFinishesNext(c) \/ StopNotifies(c)
           \/ StopJoins(c) \/ StopDrains(c) \/ StopMarksDone(c)
  <2>1. UNCHANGED <<fire_count, queued, active, cancel_requested, pc, status>>
    BY <1>2 DEF Stop, StopUnflags, StopFinishesNext, StopNotifies, StopJoins, StopDrains,
                StopMarksDone, countVars, slotVars, runVars
  <2> QED
    BY <2>1, Keeps DEF Undisturbed
<1> QED
  BY <1>1, <1>2 DEF StopStep
-----------------------------------------------------------------------------
(* The runs: slots and queue *)

\* A slot taken while one is available exceeds no limit.
LEMMA OneMoreSlot ==
    ASSUME TypeOK, NEW r \in Run, HasAvailableSlot
    PROVE  MaxOverlap > 0 => Cardinality(active \cup {r}) <= MaxOverlap
<1>1. IsFiniteSet(active)
  <2>1. IsFiniteSet(Run)
    BY RunFinite
  <2> QED
    BY <2>1, FS_Subset DEF TypeOK
<1>2. /\ Cardinality(active) \in Nat
      /\ \/ Cardinality(active \cup {r}) = Cardinality(active)
         \/ Cardinality(active \cup {r}) = Cardinality(active) + 1
  BY <1>1, FS_CardinalityType, FS_AddElement
<1> QED
  BY <1>2, JobAssumption DEF HasAvailableSlot

LEMMA KeepsRun ==
    ASSUME JobInv, TypeOK', NEW r \in Run,
           \/ Prepare(r) \/ JitterEnds(r) \/ ClaimSkips(r) \/ RunnerReturns(r)
           \/ BackoffEnds(r) \/ RunnerRetries(r) \/ OnFireAborts(r) \/ QueuedSleepsOn(r)
    PROVE  JobInv'
<1>1. UNCHANGED <<fire_count, queued, active, cancel_requested>>
  BY DEF Prepare, JitterEnds, ClaimSkips, RunnerReturns, BackoffEnds, RunnerRetries,
         OnFireAborts, QueuedSleepsOn, countVars, slotVars
<1>2. CASE \E from \in RunPc \ {"unborn", "queued"} : \E o \in Terminal : Settles(r, from, o)
  <2>1. Undisturbed(r)
    BY <1>2 DEF Settles, RunMoves, Undisturbed, Early, JobInv, TypeOK
  <2>2. \A q \in Run \ {r} : Undisturbed(q)
    BY <1>2 DEF Settles, RunMoves, Undisturbed, JobInv, TypeOK
  <2> QED
    BY <1>1, <2>1, <2>2, Keeps
<1>3. CASE \E from \in RunPc \ {"unborn", "queued"} : \E to \in RunPc :
              /\ RunMoves(r, from, to) /\ status' = status
              /\ to \in Early => from \in Early
  <2>1. \A q \in Run : Undisturbed(q)
    BY <1>3 DEF RunMoves, Undisturbed, JobInv, TypeOK
  <2> QED
    BY <1>1, <2>1, Keeps
<1>4. CASE QueuedSleepsOn(r)
  <2>1. \A q \in Run : Undisturbed(q)
    BY <1>4 DEF QueuedSleepsOn, RunMoves, Undisturbed, JobInv, TypeOK
  <2> QED
    BY <1>1, <2>1, Keeps
<1>5. CASE Prepare(r)
  BY <1>2, <1>3, <1>5 DEF Prepare, RunPc, Terminal, Early
<1>6. CASE JitterEnds(r)
  BY <1>2, <1>3, <1>6 DEF JitterEnds, RunPc, Terminal, Early
<1>7. CASE ClaimSkips(r)
  BY <1>2, <1>7 DEF ClaimSkips, RunPc, Terminal
<1>8. CASE RunnerReturns(r)
  BY <1>2, <1>8, JobAssumption DEF RunnerReturns, RunPc, Terminal
<1>9. CASE BackoffEnds(r)
  BY <1>2, <1>3, <1>9 DEF BackoffEnds, RunPc, Terminal, Early
<1>10. CASE RunnerRetries(r) \/ OnFireAborts(r)
  BY <1>3, <1>10 DEF RunnerRetries, OnFireAborts, RunPc, Early
<1> QED
  BY <1>4, <1>5, <1>6, <1>7, <1>8, <1>9, <1>10

\* A run claims a slot at once: nobody is queued.
LEMMA KeepsClaimFreeSlot ==
    ASSUME JobInv, TypeOK', NEW r \in Run, ClaimFreeSlot(r)
    PROVE  JobInv'
<1> USE DEF ClaimFreeSlot, RunMoves, TakesSlot, JobInv
<1>1. /\ pc' = [pc EXCEPT ![r] = "running"] /\ status' = [status EXCEPT ![r] = "running"]
      /\ queued = <<>> /\ queued' = <<>> /\ active' = active \cup {r}
      /\ fire_count' = fire_count /\ pc[r] = "claim" /\ HasAvailableSlot
  BY DEF countVars
<1>2. Numbered' /\ Untouched'
  BY <1>1 DEF Numbered, Untouched, TypeOK
<1>3. QueueSane' /\ ReplaceKeepsLatest'
  BY <1>1 DEF QueueSane, ReplaceKeepsLatest
<1>4. SlotBound'
  BY <1>1, OneMoreSlot DEF SlotBound
<1> QED
  BY <1>2, <1>3, <1>4

LEMMA KeepsClaimQueues ==
    ASSUME JobInv, TypeOK', NEW r \in Run, ClaimQueues(r)
    PROVE  JobInv'
<1> USE DEF JobInv
<1>1. /\ pc' = [pc EXCEPT ![r] = "queued"] /\ queued' = Append(queued, r)
      /\ pc[r] = "claim" /\ OverlapPolicy = "queue"
      /\ UNCHANGED <<status, active, fire_count, cancel_requested>>
  BY DEF ClaimQueues, RunMoves, countVars
<1>2. Numbered' /\ Untouched'
  BY <1>1 DEF Numbered, Untouched, TypeOK
<1>3. QueueSane'
  <2>1. status[r] = "pending"
    BY <1>1 DEF Untouched
  <2>2. /\ queued \in Seq(Run) /\ pc \in [Run -> RunPc]
        /\ \A i \in DOMAIN queued : queued[i] # r
    BY <1>1 DEF QueueSane, TypeOK
  <2>3. /\ DOMAIN queued' = 1 .. Len(queued) + 1
        /\ \A i \in DOMAIN queued : queued'[i] = queued[i]
        /\ queued'[Len(queued) + 1] = r
    BY <1>1, <2>2
  <2>4. ASSUME NEW i \in DOMAIN queued', NEW j \in DOMAIN queued', queued'[i] = queued'[j]
        PROVE  i = j
    BY <2>2, <2>3, <2>4 DEF QueueSane
  <2>5. ASSUME NEW i \in DOMAIN queued'
        PROVE  pc'[queued'[i]] = "queued" /\ status'[queued'[i]] # "cancelled"
    BY <1>1, <2>1, <2>2, <2>3 DEF QueueSane
  <2> QED
    BY <2>4, <2>5 DEF QueueSane
<1>4. SlotBound' /\ ReplaceKeepsLatest'
  BY <1>1, JobAssumption DEF SlotBound, ReplaceKeepsLatest
<1> QED
  BY <1>2, <1>3, <1>4

\* The newest fire takes the place of every queued one.
LEMMA KeepsClaimReplaces ==
    ASSUME JobInv, TypeOK', NEW r \in Run, ClaimReplaces(r)
    PROVE  JobInv'
<1> USE DEF JobInv
<1>1. /\ fire_count' = fire_count /\ cancel_requested' = cancel_requested \cup active
      /\ pc[r] = "claim"
      /\ status' = [q \in Run |-> CASE q \in Elements(queued) -> "cancelled"
                                    [] q = r /\ HasAvailableSlot -> "running"
                                    [] OTHER -> status[q]]
  BY DEF ClaimReplaces, RunMoves, AskActiveToCancel
<1>2. \A q \in Elements(queued) : pc[q] = "queued"
  BY DEF QueueSane, Elements
<1>3. status[r] = "pending" /\ r \notin Elements(queued)
  BY <1>1, <1>2 DEF Untouched
<1>4. CASE HasAvailableSlot
  <2>1. /\ pc' = [pc EXCEPT ![r] = "running"] /\ queued' = <<>>
        /\ active' = active \cup {r}
    BY <1>4 DEF ClaimReplaces, RunMoves, TakesSlot
  <2>2. Numbered' /\ Untouched'
    BY <1>1, <1>2, <2>1 DEF Numbered, Untouched, TypeOK
  <2>3. QueueSane' /\ ReplaceKeepsLatest'
    BY <2>1 DEF QueueSane, ReplaceKeepsLatest
  <2>4. SlotBound'
    BY <1>4, <2>1, OneMoreSlot DEF SlotBound
  <2> QED
    BY <2>2, <2>3, <2>4
<1>5. CASE ~HasAvailableSlot
  <2>1. /\ pc' = [pc EXCEPT ![r] = "queued"] /\ queued' = <<r>> /\ active' = active
    BY <1>5 DEF ClaimReplaces, RunMoves
  <2>2. Numbered' /\ Untouched'
    BY <1>1, <1>2, <2>1 DEF Numbered, Untouched, TypeOK
  <2>3. QueueSane'
    BY <1>1, <1>3, <1>5, <2>1 DEF QueueSane, TypeOK
  <2>4. ReplaceKeepsLatest' /\ SlotBound'
    BY <1>1, <2>1 DEF ReplaceKeepsLatest, SlotBound
  <2> QED
    BY <2>2, <2>3, <2>4
<1> QED
  BY <1>4, <1>5

\* A run that finds itself cancelled is not in the queue any more.
LEMMA KeepsQueuedCancelled ==
    ASSUME JobInv, TypeOK', NEW r \in Run, QueuedCancelled(r)
    PROVE  JobInv'
<1> USE DEF JobInv
<1>1. /\ \E to \in {"exit", "gone"} : pc' = [pc EXCEPT ![r] = to]
      /\ status[r] = "cancelled" /\ pc[r] = "queued"
      /\ UNCHANGED <<status, queued, active, fire_count, cancel_requested>>
  BY DEF QueuedCancelled, RunMoves, AfterRun, countVars, slotVars
<1>2. Numbered' /\ Untouched'
  BY <1>1 DEF Numbered, Untouched, TypeOK
<1>3. QueueSane'
  BY <1>1 DEF QueueSane, TypeOK
<1>4. SlotBound' /\ ReplaceKeepsLatest'
  BY <1>1 DEF SlotBound, ReplaceKeepsLatest
<1> QED
  BY <1>2, <1>3, <1>4

LEMMA KeepsQueuedAdmitted ==
    ASSUME JobInv, TypeOK', NEW r \in Run, QueuedAdmitted(r)
    PROVE  JobInv'
<1> USE DEF JobInv
<1>1. /\ pc' = [pc EXCEPT ![r] = "running"] /\ status' = [status EXCEPT ![r] = "running"]
      /\ queued # <<>> /\ queued[1] = r /\ queued' = Tail(queued) /\ pc[r] = "queued"
      /\ active' = active \cup {r} /\ HasAvailableSlot
      /\ UNCHANGED <<fire_count, cancel_requested>>
  BY DEF QueuedAdmitted, RunMoves, TakesSlot, AtHead, countVars
<1>2. queued \in Seq(Run) /\ pc \in [Run -> RunPc]
  BY DEF TypeOK
<1>3. Numbered' /\ Untouched'
  BY <1>1, <1>2, SMTT(30) DEF Numbered, Untouched, TypeOK
<1>4. /\ DOMAIN queued' = 1 .. Len(queued) - 1 /\ Len(queued) \in Nat \ {0}
      /\ \A i \in DOMAIN queued' : i + 1 \in DOMAIN queued /\ queued'[i] = queued[i + 1]
  BY <1>1, <1>2
<1>5. QueueSane'
  <2>1. ASSUME NEW i \in DOMAIN queued', NEW j \in DOMAIN queued', queued'[i] = queued'[j]
        PROVE  i = j
    BY <1>4, <2>1 DEF QueueSane
  <2>2. ASSUME NEW i \in DOMAIN queued'
        PROVE  pc'[queued'[i]] = "queued" /\ status'[queued'[i]] # "cancelled"
    <3>1. queued[i + 1] # r
      BY <1>1, <1>2, <1>4 DEF QueueSane
    <3> QED
      BY <1>1, <1>2, <1>4, <3>1 DEF QueueSane, TypeOK
  <2> QED
    BY <2>1, <2>2 DEF QueueSane
<1>6. SlotBound'
  BY <1>1, OneMoreSlot DEF SlotBound
<1>7. ReplaceKeepsLatest'
  <2>1. ASSUME OverlapPolicy = "replace" PROVE queued' = <<>>
    BY <1>1, <1>2, <2>1 DEF ReplaceKeepsLatest
  <2> QED
    BY <2>1 DEF ReplaceKeepsLatest
<1> QED
  BY <1>3, <1>5, <1>6, <1>7

LEMMA NextKeepsJobInv == JobInv /\ [Next]_vars => JobInv'
<1> SUFFICES ASSUME JobInv, [Next]_vars PROVE JobInv'
  OBVIOUS
<1>1. TypeOK'
  BY TypeNext DEF JobInv
<1>2. CASE UNCHANGED vars
  BY <1>1, <1>2, Keeps DEF vars, countVars, slotVars, runVars, Undisturbed
<1>3. ASSUME NEW r \in Run, RunStep(r) \/ RunnerRetries(r) \/ OnFireAborts(r) \/ CallbackAborts(r)
      PROVE  JobInv'
  BY <1>1, <1>3, KeepsRun, KeepsClaimFreeSlot, KeepsClaimQueues, KeepsClaimReplaces,
     KeepsQueuedCancelled, KeepsQueuedAdmitted, KeepsFinish
  DEF RunStep, Claim, QueuedWakes
<1>4. CASE Next
  BY <1>1, <1>3, <1>4, KeepsControl, KeepsTimer, KeepsTrigger, KeepsStop DEF Next
<1> QED
  BY <1>2, <1>4
-----------------------------------------------------------------------------
(* The order of arrival *)

\* Only these three steps hand out a slot.
LEMMA WhoTakesSlots ==
    ASSUME Next
    PROVE  \/ active' \subseteq active
           \/ \E r \in Run : ClaimFreeSlot(r) \/ ClaimReplaces(r) \/ QueuedAdmitted(r)
<1> USE DEF slotVars
<1>1. ASSUME NEW c \in Controllers, Start(c) \/ Spawn(c) \/ Begin(c)
      PROVE  active' \subseteq active
  BY <1>1 DEF Start, Spawn, Begin
<1>2. ASSUME NEW t \in Timers, TimerStep(t) \/ TimerElapses(t)
      PROVE  active' \subseteq active
  BY <1>2 DEF TimerStep, TimerElapses, TimerLoop, TimerStopped, TimerChecks, TimerFires,
              TimerLaunches, TimerDrains, TimerMarksDone
<1>3. ASSUME NEW r \in Run, \/ Prepare(r) \/ JitterEnds(r) \/ ClaimSkips(r) \/ ClaimQueues(r)
                            \/ QueuedCancelled(r) \/ QueuedSleepsOn(r) \/ RunnerReturns(r)
                            \/ BackoffEnds(r) \/ RunnerRetries(r) \/ OnFireAborts(r)
      PROVE  active' \subseteq active
  BY <1>3 DEF Prepare, JitterEnds, ClaimSkips, ClaimQueues, QueuedCancelled, QueuedSleepsOn,
              RunnerReturns, BackoffEnds, RunnerRetries, OnFireAborts
<1>4. ASSUME NEW r \in Run, Finish(r) \/ CallbackAborts(r)
      PROVE  active' \subseteq active
  BY <1>4 DEF Finish, RecordTerminal, RecordHistory, Tally, MarkExhausted, SignalExhausted,
              ReleaseSlot, ReturnUnslotted, ThreadExits, CallbackAborts
<1>5. ASSUME NEW c \in Caller, Stop(c) \/ StopStep(c)
      PROVE  active' \subseteq active
  BY <1>5 DEF Stop, StopStep, StopUnflags, StopCancelsQueue, StopFinishesNext, StopNotifies,
              StopJoins, StopDrains, StopMarksDone
<1>6. ASSUME NEW parent \in Run \cup {0}, TriggerNow(parent)
      PROVE  active' \subseteq active
  BY <1>6 DEF TriggerNow
<1>7. CASE SetPaused
  BY <1>7 DEF SetPaused
<1> QED
  BY <1>1, <1>2, <1>3, <1>4, <1>5, <1>6, <1>7 DEF Next, RunStep, Claim, QueuedWakes

LEMMA StepKeepsOrder ==
    ASSUME JobInv, [Next]_vars, NEW r \in active' \ active
    PROVE  /\ r \in Elements(queued) => \A i \in DOMAIN queued : r = queued[i] => i = 1
           /\ r \notin Elements(queued) => queued' = <<>>
<1>1. Next
  BY DEF vars, slotVars
<1>2. PICK s \in Run : ClaimFreeSlot(s) \/ ClaimReplaces(s) \/ QueuedAdmitted(s)
  BY <1>1, WhoTakesSlots
<1>3. CASE ClaimFreeSlot(s)
  BY <1>3 DEF ClaimFreeSlot, Elements
<1>4. CASE ClaimReplaces(s)
  <2>1. r = s /\ queued' = <<>> /\ pc[s] = "claim"
    BY <1>4 DEF ClaimReplaces, TakesSlot, RunMoves
  <2>2. r \notin Elements(queued)
    BY <2>1 DEF Elements, JobInv, QueueSane
  <2> QED
    BY <2>1, <2>2
<1>5. CASE QueuedAdmitted(s)
  <2>1. r = s /\ queued # <<>> /\ queued[1] = s /\ queued \in Seq(Run)
    BY <1>5 DEF QueuedAdmitted, TakesSlot, AtHead, JobInv, TypeOK
  <2>2. 1 \in DOMAIN queued
    BY <2>1
  <2> QED
    BY <2>1, <2>2 DEF Elements, JobInv, QueueSane
<1> QED
  BY <1>2, <1>3, <1>4, <1>5
-----------------------------------------------------------------------------
(* Theorems *)

\* The inductive invariant: types, unborn fires, unclaimed records, the queue,
\* the slots and the replacement.
THEOREM JobInvariant == Spec => []JobInv
<1> QED
  BY InitJob, NextKeepsJobInv, PTL DEF Spec

\* The shared state of start, stop, _run_loop and _execute_record stays well
\* formed, whatever the number of fires, timers and controllers.
THEOREM JobTypeOK == Spec => []TypeOK
<1>1. JobInv => TypeOK
  BY DEF JobInv
<1> QED
  BY <1>1, JobInvariant, PTL

\* _claim_slot and _release_slot keep max_overlap for every limit and policy.
THEOREM JobSlotBound == Spec => []SlotBound
<1>1. JobInv => SlotBound
  BY DEF JobInv
<1> QED
  BY <1>1, JobInvariant, PTL

\* _request_replacement leaves one replacement queued, and every run it waits
\* for has been asked to cancel.
THEOREM JobReplaceKeepsLatest == Spec => []ReplaceKeepsLatest
<1>1. JobInv => ReplaceKeepsLatest
  BY DEF JobInv
<1> QED
  BY <1>1, JobInvariant, PTL

\* No fire takes a slot while an earlier arrival is queued: _claim_slot admits
\* in order of arrival, whichever thread its condition wakes first.
THEOREM JobNoOvertaking == Spec => NoOvertaking
<1>1. JobInv /\ [Next]_vars =>
        [\A r \in active' \ active :
           /\ r \in Elements(queued) => \A i \in DOMAIN queued : r = queued[i] => i = 1
           /\ r \notin Elements(queued) => queued' = <<>>]_vars
  BY StepKeepsOrder
<1> QED
  BY <1>1, JobInvariant, PTL DEF Spec, NoOvertaking
-----------------------------------------------------------------------------
(* The records: each is finished by one thread, once *)

\* A fire that was made is no longer unborn.  A run that has not left the slot
\* or the queue is not finished by anybody, and whoever finishes a record has
\* given it its outcome.
RecordsSane ==
    /\ \A r \in Run : r <= fire_count => pc[r] # "unborn"
    /\ \A r \in Run : pc[r] \in Early \cup {"running", "backoff"} => fin[r] = "none"
    /\ \A i \in DOMAIN queued : fin[queued[i]] = "none"
    /\ \A r \in Run : fin[r] = "terminal" => status[r] \in Terminal

\* Where the run of a record that stop() took from the queue can be.
Dropped(r) == pc[r] \in {"queued", "exit", "gone"} /\ status[r] = "cancelled"

\* A record that stop() took from the queue is that stop()'s alone, and is not
\* finished before its turn.
DoomedSane ==
    \A c \in Caller : \A i \in DOMAIN doomed[c] :
        /\ Dropped(doomed[c][i])
        /\ i > 1 => fin[doomed[c][i]] = "none"
        /\ \A d \in Caller : \A j \in DOMAIN doomed[d] :
              doomed[c][i] = doomed[d][j] => c = d /\ i = j

RecordInv == RecordsSane /\ DoomedSane

LEMMA InitRecords == Init => RecordInv
<1> SUFFICES ASSUME Init PROVE RecordInv
  OBVIOUS
<1>1. RecordsSane
  BY JobAssumption DEF Init, RecordsSane, Run
<1>2. DoomedSane
  BY DEF Init, DoomedSane
<1> QED
  BY <1>1, <1>2 DEF RecordInv

LEMMA RecordsUntouched ==
    ASSUME RecordInv, UNCHANGED <<fire_count, pc, fin, status, queued, doomed>>
    PROVE  RecordInv'
BY DEF RecordInv, RecordsSane, DoomedSane, Dropped

\* Only the run r moves, and with it only its own record; it may join the queue.
LEMMA RecordMoves ==
    ASSUME TypeOK, RecordInv, TypeOK', NEW r \in Run,
           fire_count' = fire_count, doomed' = doomed,
           \A i \in DOMAIN queued' :
              queued'[i] = r \/ \E j \in DOMAIN queued : queued[j] = queued'[i],
           \A q \in Run \ {r} : pc'[q] = pc[q] /\ status'[q] = status[q] /\ fin'[q] = fin[q],
           pc'[r] # "unborn",
           pc'[r] \in Early \cup {"running", "backoff"} => fin'[r] = "none",
           \A i \in DOMAIN queued' : queued'[i] = r => fin'[r] = "none",
           fin'[r] = "terminal" => status'[r] \in Terminal,
           Dropped(r) => Dropped(r)' /\ (fin[r] = "none" => fin'[r] = "none")
    PROVE  RecordInv'
<1> USE DEF RecordInv
<1>1. \A i \in DOMAIN queued : queued[i] \in Run
  BY DEF TypeOK
<1>2. \A i \in DOMAIN queued' : queued'[i] \in Run
  BY DEF TypeOK
<1>3. RecordsSane'
  BY <1>1, <1>2 DEF RecordsSane
<1>4. \A c \in Caller : \A i \in DOMAIN doomed[c] : doomed[c][i] \in Run
  BY DEF TypeOK
<1>5. ASSUME NEW q \in Run, Dropped(q) PROVE Dropped(q)' /\ (fin[q] = "none" => fin'[q] = "none")
  BY <1>5 DEF Dropped
<1>6. DoomedSane'
  BY <1>4, <1>5 DEF DoomedSane
<1> QED
  BY <1>3, <1>6

\* The record of the next fire is nobody's yet.
LEMMA RecordsNewFire ==
    ASSUME JobInv, RecordInv, TypeOK', fire_count + 1 \in Run, fire_count' = fire_count + 1,
           NEW at \in {"launch", "claim"}, pc' = [pc EXCEPT ![fire_count + 1] = at],
           UNCHANGED <<fin, status, queued, doomed>>
    PROVE  RecordInv'
<1> DEFINE r == fire_count + 1
<1>1. fire_count \in Nat /\ r > fire_count /\ r \in Run /\ pc \in [Run -> RunPc]
  BY DEF JobInv, TypeOK
<1>2. pc[r] = "unborn" /\ pc'[r] = at /\ \A q \in Run \ {r} : pc'[q] = pc[q]
  BY <1>1 DEF JobInv, Numbered
<1>3. /\ \A i \in DOMAIN queued : queued[i] \in Run /\ queued[i] # r
      /\ fin[r] = "none" /\ ~Dropped(r)
  BY <1>1, <1>2 DEF RecordInv, RecordsSane, Dropped, Early, JobInv, QueueSane, TypeOK
<1>4. RecordsSane'
  <2>1. \A q \in Run : q <= fire_count + 1 => pc'[q] # "unborn"
    BY <1>1, <1>2 DEF RecordInv, RecordsSane, Run
  <2>2. \A q \in Run : pc'[q] \in Early \cup {"running", "backoff"} => fin'[q] = "none"
    BY <1>2, <1>3 DEF RecordInv, RecordsSane
  <2> QED
    BY <2>1, <2>2 DEF RecordInv, RecordsSane
<1>5. DoomedSane'
  <2>1. \A c \in Caller : \A i \in DOMAIN doomed[c] : doomed[c][i] \in Run
    BY DEF JobInv, TypeOK
  <2>2. \A q \in Run : Dropped(q) => Dropped(q)'
    BY <1>2, <1>3 DEF Dropped
  <2> QED
    BY <2>1, <2>2 DEF RecordInv, DoomedSane
<1> QED
  BY <1>4, <1>5 DEF RecordInv

\* The timers.
LEMMA RecordsTimer ==
    ASSUME JobInv, RecordInv, TypeOK', NEW t \in Timers, TimerStep(t) \/ TimerElapses(t)
    PROVE  RecordInv'
<1>1. CASE TimerFires(t)
  <2>1. fire_count + 1 \in Run
    BY <1>1, JobAssumption DEF TimerFires, Run, JobInv, TypeOK
  <2> QED
    BY <1>1, <2>1, RecordsNewFire DEF TimerFires, slotVars, callerVars
<1>2. CASE TimerLaunches(t)
  <2>1. PICK r \in Run : pc[r] = "launch" /\ pc' = [pc EXCEPT ![r] = "prepare"]
    BY <1>2 DEF TimerLaunches
  <2>2. /\ UNCHANGED <<fire_count, fin, status, queued, doomed>> /\ pc'[r] = "prepare"
        /\ \A q \in Run \ {r} : pc'[q] = pc[q]
    BY <1>2, <2>1 DEF TimerLaunches, countVars, callerVars, JobInv, TypeOK
  <2>3. fin[r] = "none" /\ ~Dropped(r)
    BY <2>1 DEF RecordInv, RecordsSane, Dropped, Early
  <2> QED
    BY <2>2, <2>3, RecordMoves DEF JobInv
<1>3. CASE \/ TimerLoop(t) \/ TimerStopped(t) \/ TimerChecks(t) \/ TimerDrains(t)
           \/ TimerMarksDone(t) \/ TimerElapses(t)
  <2>1. UNCHANGED <<fire_count, pc, fin, status, queued, doomed>>
    BY <1>3 DEF TimerLoop, TimerStopped, TimerChecks, TimerDrains, TimerMarksDone,
                TimerElapses, countVars, slotVars, runVars, callerVars
  <2> QED
    BY <2>1, RecordsUntouched
<1> QED
  BY <1>1, <1>2, <1>3 DEF TimerStep

LEMMA RecordsTrigger ==
    ASSUME JobInv, RecordInv, TypeOK', NEW parent \in Run \cup {0}, TriggerNow(parent)
    PROVE  RecordInv'
<1>1. /\ fire_count' = fire_count + 1 /\ pc' = [pc EXCEPT ![fire_count + 1] = "claim"]
      /\ UNCHANGED <<fin, status, queued, doomed>>
  BY DEF TriggerNow, slotVars, callerVars
<1>2. fire_count + 1 \in Run
  BY <1>1 DEF JobInv, TypeOK, Run
<1> QED
  BY <1>1, <1>2, RecordsNewFire

\* The run moves on its own, from anywhere but the queue.
LEMMA RecordsRun ==
    ASSUME JobInv, RecordInv, TypeOK', NEW r \in Run,
           \/ Prepare(r) \/ JitterEnds(r) \/ ClaimSkips(r) \/ RunnerReturns(r)
           \/ BackoffEnds(r) \/ RunnerRetries(r) \/ OnFireAborts(r) \/ ClaimFreeSlot(r)
           \/ ClaimQueues(r)
    PROVE  RecordInv'
<1> DEFINE Out == Early \cup {"running", "backoff"}
<1>1. /\ UNCHANGED <<fire_count, doomed>> /\ queued' \in {queued, Append(queued, r)}
      /\ queued' # queued => pc'[r] = "queued"
  BY DEF Prepare, JitterEnds, ClaimSkips, RunnerReturns, BackoffEnds, RunnerRetries,
         OnFireAborts, ClaimFreeSlot, ClaimQueues, RunMoves, countVars, slotVars, callerVars,
         JobInv, TypeOK
<1>2. /\ pc[r] \in Out \ {"unborn"} /\ pc'[r] \in {"jitter", "claim", "queued", "running", "backoff", "finishing"}
      /\ pc'[r] # "finishing" => fin'[r] = fin[r]
      /\ fin'[r] = "terminal" => status'[r] \in Terminal \/ fin[r] = "terminal"
      /\ \A q \in Run \ {r} : pc'[q] = pc[q] /\ status'[q] = status[q] /\ fin'[q] = fin[q]
  <2> USE DEF Out, Early, RunMoves, Settles, JobInv, TypeOK, Terminal
  <2>1. CASE Prepare(r)
    BY <2>1 DEF Prepare
  <2>2. CASE JitterEnds(r)
    BY <2>2 DEF JitterEnds
  <2>3. CASE ClaimSkips(r)
    BY <2>3 DEF ClaimSkips
  <2>4. CASE RunnerReturns(r)
    BY <2>4, JobAssumption DEF RunnerReturns
  <2>5. CASE BackoffEnds(r)
    BY <2>5 DEF BackoffEnds
  <2>6. CASE RunnerRetries(r) \/ OnFireAborts(r)
    BY <2>6 DEF RunnerRetries, OnFireAborts
  <2>7. CASE ClaimFreeSlot(r) \/ ClaimQueues(r)
    BY <2>7 DEF ClaimFreeSlot, ClaimQueues
  <2> QED
    BY <2>1, <2>2, <2>3, <2>4, <2>5, <2>6, <2>7
<1>3. fin[r] = "none" /\ ~Dropped(r) /\ \A i \in DOMAIN queued : queued[i] # r
  BY <1>2 DEF RecordInv, RecordsSane, Dropped, Out, Early, JobInv, QueueSane
<1>4. \A i \in DOMAIN queued' :
          queued'[i] = r \/ \E j \in DOMAIN queued : queued[j] = queued'[i]
  <2>1. queued \in Seq(Run)
    BY DEF JobInv, TypeOK
  <2> QED
    BY <1>1, <2>1
<1>5. \A i \in DOMAIN queued' : queued'[i] = r => fin'[r] = "none"
  BY <1>1, <1>2, <1>3
<1> QED
  BY <1>1, <1>2, <1>3, <1>4, <1>5, RecordMoves DEF JobInv, Early

\* A run that waits in the queue: dropped, admitted, or asleep again.
LEMMA RecordsQueued ==
    ASSUME JobInv, RecordInv, TypeOK', NEW r \in Run, QueuedWakes(r)
    PROVE  RecordInv'
<1>1. CASE QueuedCancelled(r)
  <2>1. /\ UNCHANGED <<fire_count, doomed, queued, status, fin>> /\ status[r] = "cancelled"
        /\ pc[r] = "queued" /\ pc'[r] \in {"exit", "gone"}
        /\ \A q \in Run \ {r} : pc'[q] = pc[q]
    BY <1>1 DEF QueuedCancelled, RunMoves, AfterRun, countVars, slotVars, callerVars, JobInv, TypeOK
  <2>2. \A i \in DOMAIN queued : queued[i] # r
    BY <2>1 DEF JobInv, QueueSane
  <2>3. fin[r] # "terminal" \/ status[r] \in Terminal
    BY <2>1 DEF Terminal
  <2> QED
    BY <2>1, <2>2, <2>3, RecordMoves DEF JobInv, Dropped, Early
<1>2. CASE QueuedAdmitted(r)
  <2>1. /\ UNCHANGED <<fire_count, doomed, fin>> /\ queued # <<>> /\ queued[1] = r
        /\ queued' = Tail(queued) /\ pc'[r] = "running" /\ queued \in Seq(Run)
        /\ \A q \in Run \ {r} : pc'[q] = pc[q] /\ status'[q] = status[q]
    BY <1>2 DEF QueuedAdmitted, RunMoves, AtHead, countVars, callerVars, JobInv, TypeOK
  <2>2. 1 \in DOMAIN queued /\ \A i \in DOMAIN queued' : queued'[i] = queued[i + 1] /\ i + 1 \in DOMAIN queued
    BY <2>1
  <2>3. fin[r] = "none" /\ ~Dropped(r)
    BY <2>1, <2>2 DEF RecordInv, RecordsSane, JobInv, QueueSane, Dropped
  <2> QED
    BY <2>1, <2>2, <2>3, RecordMoves DEF JobInv
<1>3. CASE QueuedSleepsOn(r)
  <2>1. UNCHANGED <<fire_count, fin, status, queued, doomed>> /\ pc' = pc
    BY <1>3 DEF QueuedSleepsOn, RunMoves, countVars, callerVars, JobInv, TypeOK
  <2> QED
    BY <2>1, RecordsUntouched
<1> QED
  BY <1>1, <1>2, <1>3 DEF QueuedWakes

\* The newest fire cancels and finishes every queued record itself.
LEMMA RecordsReplaces ==
    ASSUME JobInv, RecordInv, TypeOK', NEW r \in Run, ClaimReplaces(r)
    PROVE  RecordInv'
<1>1. /\ UNCHANGED <<fire_count, doomed>> /\ pc[r] = "claim" /\ pc'[r] \in {"running", "queued"}
      /\ \A q \in Run \ {r} : pc'[q] = pc[q]
      /\ fin' = [q \in Run |-> IF q \in Elements(queued) THEN "end" ELSE fin[q]]
      /\ \A q \in Elements(queued) : status'[q] = "cancelled"
      /\ \A q \in Run \ {r} : q \notin Elements(queued) => status'[q] = status[q]
  <2>1. \A q \in Elements(queued) : q \in Run
    BY DEF Elements, JobInv, TypeOK
  <2>2. /\ fin' = [q \in Run |-> IF q \in Elements(queued) THEN "end" ELSE fin[q]]
        /\ status' = [q \in Run |-> CASE q \in Elements(queued) -> "cancelled"
                                      [] q = r /\ HasAvailableSlot -> "running"
                                      [] OTHER -> status[q]]
        /\ UNCHANGED <<fire_count, doomed>>
    BY DEF ClaimReplaces, callerVars
  <2>3. /\ pc[r] = "claim"
        /\ \E to \in {"running", "queued"} : pc' = [pc EXCEPT ![r] = to]
    BY DEF ClaimReplaces, RunMoves
  <2>4. pc'[r] \in {"running", "queued"} /\ \A q \in Run \ {r} : pc'[q] = pc[q]
    BY <2>3 DEF JobInv, TypeOK
  <2>5. /\ \A q \in Elements(queued) : status'[q] = "cancelled"
        /\ \A q \in Run \ {r} : q \notin Elements(queued) => status'[q] = status[q]
    <3>1. r \notin Elements(queued)
      BY <2>3 DEF Elements, JobInv, QueueSane
    <3> QED
      BY <2>1, <2>2, <3>1
  <2> QED
    BY <2>2, <2>3, <2>4, <2>5
<1>2. queued' = <<>> \/ queued' = <<r>>
  BY DEF ClaimReplaces
<1>3. \A q \in Elements(queued) : pc[q] = "queued" /\ status[q] # "cancelled" /\ fin[q] = "none"
  BY DEF Elements, JobInv, QueueSane, RecordInv, RecordsSane
<1>4. r \notin Elements(queued) /\ fin[r] = "none" /\ ~Dropped(r)
  BY <1>1, <1>3 DEF RecordInv, RecordsSane, Early, Dropped
<1>5. RecordsSane'
  <2>1. \A q \in Run : q <= fire_count' => pc'[q] # "unborn"
    BY <1>1 DEF RecordInv, RecordsSane
  <2>2. \A q \in Run : pc'[q] \in Early \cup {"running", "backoff"} => fin'[q] = "none"
    BY <1>1, <1>3, <1>4 DEF RecordInv, RecordsSane, Early
  <2>3. \A i \in DOMAIN queued' : fin'[queued'[i]] = "none"
    BY <1>1, <1>2, <1>4
  <2>4. \A q \in Run : fin'[q] = "terminal" => status'[q] \in Terminal
    BY <1>1, <1>4 DEF RecordInv, RecordsSane
  <2> QED
    BY <2>1, <2>2, <2>3, <2>4 DEF RecordsSane
<1>6. DoomedSane'
  <2>1. \A c \in Caller : \A i \in DOMAIN doomed[c] : doomed[c][i] \in Run
    BY DEF JobInv, TypeOK
  <2>2. \A q \in Run : Dropped(q) => Dropped(q)' /\ fin'[q] = fin[q]
    BY <1>1, <1>3, <1>4 DEF Dropped
  <2> QED
    BY <1>1, <2>1, <2>2 DEF RecordInv, DoomedSane
<1> QED
  BY <1>5, <1>6 DEF RecordInv

LEMMA RecordsFinish ==
    ASSUME JobInv, RecordInv, TypeOK', NEW r \in Run, Finish(r) \/ CallbackAborts(r)
    PROVE  RecordInv'
<1>0. TypeOK
  BY DEF JobInv
<1> USE DEF countVars, slotVars, callerVars
<1>1. CASE \/ RecordTerminal(r) \/ RecordHistory(r) \/ Tally(r) \/ MarkExhausted(r)
           \/ SignalExhausted(r) \/ CallbackAborts(r)
  <2>1. /\ UNCHANGED <<fire_count, doomed, queued, pc, status>>
        /\ fin[r] # "none" /\ fin'[r] \notin {"none", "terminal"}
        /\ \A q \in Run \ {r} : fin'[q] = fin[q]
    BY <1>1 DEF RecordTerminal, RecordHistory, Tally, MarkExhausted, SignalExhausted,
                CallbackAborts, FinMoves, JobInv, TypeOK
  <2>2. pc[r] \notin Early \cup {"running", "backoff"} /\ \A i \in DOMAIN queued : queued[i] # r
    BY <2>1 DEF RecordInv, RecordsSane
  <2>3. pc[r] # "unborn"
    BY <2>2 DEF Early
  <2> QED
    BY <1>0, <2>1, <2>2, <2>3, RecordMoves DEF Early, Dropped
<1>2. CASE ReleaseSlot(r) \/ ReturnUnslotted(r) \/ ThreadExits(r)
  <2>1. /\ UNCHANGED <<fire_count, doomed, queued, fin, status>>
        /\ pc[r] \in {"finishing", "exit"} /\ pc'[r] \in {"exit", "gone"}
        /\ \A q \in Run \ {r} : pc'[q] = pc[q]
    BY <1>2 DEF ReleaseSlot, ReturnUnslotted, ThreadExits, RunMoves, AfterRun, JobInv, TypeOK
  <2>2. /\ fin[r] = "terminal" => status[r] \in Terminal
        /\ \A i \in DOMAIN queued : queued[i] # r
    BY <2>1 DEF RecordInv, RecordsSane, JobInv, QueueSane
  <2> QED
    BY <1>0, <2>1, <2>2, RecordMoves DEF Early, Dropped
<1> QED
  BY <1>1, <1>2 DEF Finish

\* stop() takes the whole queue at once ...
LEMMA RecordsCancelQueue ==
    ASSUME JobInv, RecordInv, TypeOK', NEW c \in Caller, StopCancelsQueue(c)
    PROVE  RecordInv'
<1>1. /\ UNCHANGED <<fire_count, pc>> /\ queued' = <<>>
      /\ doomed' = [doomed EXCEPT ![c] = queued]
      /\ status' = [q \in Run |-> IF q \in Elements(queued) THEN "cancelled" ELSE status[q]]
      /\ fin' = [q \in Run |-> IF queued # <<>> /\ q = Head(queued) THEN "terminal" ELSE fin[q]]
  BY DEF StopCancelsQueue, countVars
<1>2. \A q \in Elements(queued) : q \in Run /\ pc[q] = "queued" /\ fin[q] = "none" /\ ~Dropped(q)
  BY DEF Elements, Dropped, JobInv, TypeOK, QueueSane, RecordInv, RecordsSane
<1>3. queued # <<>> => Head(queued) \in Elements(queued)
  <2>1. queued \in Seq(Run)
    BY DEF JobInv, TypeOK
  <2> QED
    BY <2>1 DEF Elements
<1>4. RecordsSane'
  <2>1. \A q \in Run : q <= fire_count' => pc'[q] # "unborn"
    BY <1>1 DEF RecordInv, RecordsSane
  <2>2. \A q \in Run : pc'[q] \in Early \cup {"running", "backoff"} => fin'[q] = "none"
    BY <1>1, <1>2, <1>3 DEF RecordInv, RecordsSane, Early
  <2>3. \A q \in Run : fin'[q] = "terminal" => status'[q] \in Terminal
    BY <1>1, <1>3 DEF RecordInv, RecordsSane, Terminal
  <2> QED
    BY <1>1, <2>1, <2>2, <2>3 DEF RecordsSane
<1>5. DoomedSane'
  <2>1. /\ doomed \in [Caller -> Seq(Run)] /\ queued \in Seq(Run)
        /\ doomed'[c] = queued /\ \A d \in Caller \ {c} : doomed'[d] = doomed[d]
    BY <1>1 DEF JobInv, TypeOK
  <2>2. ASSUME NEW d \in Caller \ {c}, NEW i \in DOMAIN doomed[d]
        PROVE  /\ doomed[d][i] \in Run \ Elements(queued)
               /\ pc'[doomed[d][i]] \in {"queued", "exit", "gone"} /\ status'[doomed[d][i]] = "cancelled"
               /\ fin'[doomed[d][i]] = fin[doomed[d][i]]
    <3>1. doomed[d][i] \in Run /\ Dropped(doomed[d][i])
      BY <2>1 DEF RecordInv, DoomedSane
    <3>2. doomed[d][i] \notin Elements(queued)
      BY <1>2, <3>1
    <3> QED
      BY <1>1, <1>3, <3>1, <3>2 DEF Dropped
  <2>3. ASSUME NEW i \in DOMAIN queued
        PROVE  /\ queued[i] \in Elements(queued)
               /\ pc'[queued[i]] \in {"queued", "exit", "gone"} /\ status'[queued[i]] = "cancelled"
               /\ i > 1 => fin'[queued[i]] = "none"
               /\ \A j \in DOMAIN queued : queued[i] = queued[j] => i = j
    <3>1. queued[i] \in Elements(queued)
      BY DEF Elements
    <3>2. \A j \in DOMAIN queued : queued[i] = queued[j] => i = j
      BY DEF JobInv, QueueSane
    <3>3. i > 1 => queued[i] # Head(queued)
      BY <2>1, <3>2
    <3> QED
      BY <1>1, <1>2, <3>1, <3>2, <3>3 DEF Dropped
  <2>4. ASSUME NEW d \in Caller, NEW i \in DOMAIN doomed'[d]
        PROVE  /\ Dropped(doomed[d][i])'
               /\ i > 1 => fin'[doomed'[d][i]] = "none"
    <3>1. CASE d = c
      BY <2>1, <2>3, <3>1 DEF Dropped
    <3>2. CASE d # c
      <4>1. doomed'[d] = doomed[d] /\ i \in DOMAIN doomed[d]
        BY <2>1, <3>2
      <4>2. i > 1 => fin[doomed[d][i]] = "none"
        BY <4>1 DEF RecordInv, DoomedSane
      <4> QED
        BY <2>2, <3>2, <4>1, <4>2 DEF Dropped
    <3> QED
      BY <3>1, <3>2
  <2>5. ASSUME NEW d \in Caller, NEW i \in DOMAIN doomed'[d], NEW e \in Caller,
               NEW j \in DOMAIN doomed'[e], doomed'[d][i] = doomed'[e][j]
        PROVE  d = e /\ i = j
    <3>1. CASE d = c /\ e = c
      BY <2>1, <2>3, <2>5, <3>1
    <3>2. CASE d # c /\ e # c
      BY <2>1, <2>5, <3>2 DEF RecordInv, DoomedSane
    <3>3. CASE d = c /\ e # c
      BY <2>1, <2>2, <2>3, <2>5, <3>3
    <3>4. CASE d # c /\ e = c
      BY <2>1, <2>2, <2>3, <2>5, <3>4
    <3> QED
      BY <3>1, <3>2, <3>3, <3>4
  <2> QED
    BY <2>4, <2>5 DEF DoomedSane
<1> QED
  BY <1>4, <1>5 DEF RecordInv

\* ... and comes to the next record when it has finished the one before.
LEMMA RecordsFinishNext ==
    ASSUME JobInv, RecordInv, TypeOK', NEW c \in Caller, StopFinishesNext(c)
    PROVE  RecordInv'
<1>1. UNCHANGED <<fire_count, pc, status, queued>>
  BY DEF StopFinishesNext, countVars, slotVars
<1>2. CASE doomed[c] = <<>>
  <2>1. UNCHANGED <<fin, doomed>>
    BY <1>2 DEF StopFinishesNext
  <2> QED
    BY <1>1, <2>1, RecordsUntouched
<1>3. CASE doomed[c] # <<>>
  <2> DEFINE next == doomed[c][2]
  <2>1. /\ doomed' = [doomed EXCEPT ![c] = Tail(doomed[c])]
        /\ fin' = [q \in Run |-> IF Len(doomed[c]) > 1 /\ q = next THEN "terminal" ELSE fin[q]]
    BY <1>3 DEF StopFinishesNext
  <2>2. /\ doomed \in [Caller -> Seq(Run)] /\ fin \in [Run -> FinPc]
        /\ doomed[c] \in Seq(Run) /\ Len(doomed[c]) \in Nat \ {0}
    BY <1>3 DEF JobInv, TypeOK
  <2>3. /\ \A d \in Caller \ {c} : doomed'[d] = doomed[d]
        /\ doomed'[c] = Tail(doomed[c])
        /\ \A i \in DOMAIN doomed'[c] :
              i \in Nat \ {0} /\ i + 1 \in DOMAIN doomed[c] /\ doomed'[c][i] = doomed[c][i + 1]
    BY <2>1, <2>2
  <2>4. Len(doomed[c]) > 1 => /\ 2 \in DOMAIN doomed[c] /\ next \in Run /\ Dropped(next)
                              /\ status[next] = "cancelled"
    BY <2>2 DEF RecordInv, DoomedSane, Dropped
  <2>5. RecordsSane'
    <3>1. \A q \in Run : pc[q] \in Early \cup {"running", "backoff"} => fin'[q] = "none"
      BY <2>1, <2>4 DEF RecordInv, RecordsSane, Early, Dropped
    <3>2. \A i \in DOMAIN queued : queued[i] \in Run /\ fin'[queued[i]] = "none"
      BY <2>1, <2>4 DEF RecordInv, RecordsSane, Dropped, JobInv, QueueSane, TypeOK
    <3>3. \A q \in Run : fin'[q] = "terminal" => status[q] \in Terminal
      BY <2>1, <2>4 DEF RecordInv, RecordsSane, Terminal
    <3> QED
      BY <1>1, <3>1, <3>2, <3>3 DEF RecordInv, RecordsSane
  <2>6. DoomedSane'
    <3> DEFINE at(d, i) == IF d = c THEN i + 1 ELSE i
    <3>1. ASSUME NEW d \in Caller, NEW i \in DOMAIN doomed'[d]
          PROVE  /\ at(d, i) \in DOMAIN doomed[d] /\ doomed'[d][i] = doomed[d][at(d, i)]
                 /\ i \in Nat \ {0} /\ doomed[d][at(d, i)] \in Run
      BY <2>2, <2>3
    <3> HIDE DEF at
    <3>2. ASSUME NEW d \in Caller, NEW i \in DOMAIN doomed'[d], i > 1
          PROVE  fin'[doomed'[d][i]] = "none"
      <4>1. at(d, i) > 1 /\ ~(d = c /\ at(d, i) = 2)
        BY <3>1, <3>2 DEF at
      <4>2. fin[doomed[d][at(d, i)]] = "none"
        BY <3>1, <4>1 DEF RecordInv, DoomedSane
      <4>3. Len(doomed[c]) > 1 => doomed[d][at(d, i)] # next
        BY <2>4, <3>1, <4>1 DEF RecordInv, DoomedSane
      <4> QED
        BY <2>1, <3>1, <4>2, <4>3
    <3>3. ASSUME NEW d \in Caller, NEW i \in DOMAIN doomed'[d], NEW e \in Caller,
                 NEW j \in DOMAIN doomed'[e], doomed'[d][i] = doomed'[e][j]
          PROVE  d = e /\ i = j
      <4>1. d = e /\ at(d, i) = at(e, j)
        BY <3>1, <3>3 DEF RecordInv, DoomedSane
      <4> QED
        BY <3>1, <4>1 DEF at
    <3>4. ASSUME NEW d \in Caller, NEW i \in DOMAIN doomed'[d]
          PROVE  Dropped(doomed[d][i])'
      BY <1>1, <3>1 DEF RecordInv, DoomedSane, Dropped
    <3> QED
      BY <3>2, <3>3, <3>4 DEF DoomedSane
  <2> QED
    BY <2>5, <2>6 DEF RecordInv
<1> QED
  BY <1>2, <1>3

LEMMA NextKeepsRecords == JobInv /\ RecordInv /\ [Next]_vars => RecordInv'
<1> SUFFICES ASSUME JobInv, RecordInv, [Next]_vars PROVE RecordInv'
  OBVIOUS
<1>1. TypeOK'
  BY TypeNext DEF JobInv
<1>2. CASE UNCHANGED vars
  BY <1>2, RecordsUntouched DEF vars, countVars, slotVars, runVars, callerVars
<1>3. ASSUME NEW c \in Controllers, Start(c) \/ Spawn(c) \/ Begin(c) PROVE RecordInv'
  BY <1>3, RecordsUntouched DEF Start, Spawn, Begin, countVars, slotVars, runVars
<1>4. CASE SetPaused
  BY <1>4, RecordsUntouched DEF SetPaused, countVars, slotVars, runVars, callerVars
<1>5. ASSUME NEW r \in Run, RunStep(r) \/ RunnerRetries(r) \/ OnFireAborts(r) \/ CallbackAborts(r)
      PROVE  RecordInv'
  BY <1>1, <1>5, RecordsRun, RecordsQueued, RecordsReplaces, RecordsFinish DEF RunStep, Claim
<1>6. ASSUME NEW c \in Caller, Stop(c) \/ StopStep(c) PROVE RecordInv'
  <2>1. CASE \/ Stop(c) \/ StopUnflags(c) \/ StopNotifies(c) \/ StopJoins(c)
             \/ StopDrains(c) \/ StopMarksDone(c)
    BY <2>1, RecordsUntouched DEF Stop, StopUnflags, StopNotifies, StopJoins, StopDrains,
       StopMarksDone, countVars, slotVars, runVars
  <2> QED
    BY <1>1, <1>6, <2>1, RecordsCancelQueue, RecordsFinishNext DEF StopStep
<1>7. CASE Next
  BY <1>1, <1>3, <1>4, <1>5, <1>6, <1>7, RecordsTimer, RecordsTrigger DEF Next
<1> QED
  BY <1>2, <1>7
-----------------------------------------------------------------------------
(* Counters and history *)

Remembered == {r \in Run : fin[r] \in {"tally", "mark", "signal", "end"}}
Tallied    == {r \in Run : fin[r] = "callbacks"} \cup Remembered

\* The counters count the records that are past _record_terminal; where a
\* callback may abort, some are never counted.
CountersExact ==
    /\ Counted <= Cardinality(Tallied)
    /\ ~BaseExceptions => Counted = Cardinality(Tallied)

\* The history has the latest of the records that are past _record_history.
HistoryExact ==
    /\ \A i \in DOMAIN history : history[i] \in Remembered
    /\ \A i, j \in DOMAIN history : history[i] = history[j] => i = j
    /\ Len(history) <= HistoryLimit
    /\ ~BaseExceptions =>
         Len(history) = IF Cardinality(Remembered) <= HistoryLimit
                        THEN Cardinality(Remembered) ELSE HistoryLimit

AccountInv == CountersExact /\ HistoryExact

\* Counting n records of one outcome.
LEMMA CountsMore ==
    ASSUME count \in [Terminal -> Nat], NEW o \in Terminal, NEW n \in Nat,
           count' = [count EXCEPT ![o] = @ + n]
    PROVE  Counted' = Counted + n /\ Counted \in Nat
BY DEF Counted, Terminal

LEMMA RecordSetsFinite ==
    /\ IsFiniteSet(Tallied) /\ IsFiniteSet(Remembered)
    /\ Cardinality(Tallied) \in Nat /\ Cardinality(Remembered) \in Nat
<1>1. Tallied \subseteq Run /\ Remembered \subseteq Run
  BY DEF Tallied, Remembered
<1>2. IsFiniteSet(Tallied) /\ IsFiniteSet(Remembered)
  BY <1>1, RunFinite, FS_Subset
<1> QED
  BY <1>2, FS_CardinalityType

\* What the history is after it was given one more record.
LEMMA RememberOne ==
    ASSUME NEW h \in Seq(Run), NEW r \in Run, Len(h) <= HistoryLimit,
           NEW S, \A i \in DOMAIN h : h[i] \in S, r \notin S,
           \A i, j \in DOMAIN h : h[i] = h[j] => i = j
    PROVE  /\ Len(Remember(h, <<r>>)) = IF Len(h) < HistoryLimit THEN Len(h) + 1 ELSE HistoryLimit
           /\ \A i \in DOMAIN Remember(h, <<r>>) : Remember(h, <<r>>)[i] \in S \cup {r}
           /\ \A i, j \in DOMAIN Remember(h, <<r>>) :
                 Remember(h, <<r>>)[i] = Remember(h, <<r>>)[j] => i = j
<1> DEFINE all  == h \o <<r>>
           over == Len(all) - HistoryLimit
           new  == Remember(h, <<r>>)
<1>1. /\ all \in Seq(Run) /\ Len(all) = Len(h) + 1 /\ Len(h) \in Nat /\ HistoryLimit \in Nat \ {0}
      /\ all[Len(h) + 1] = r /\ \A i \in 1 .. Len(h) : all[i] = h[i] /\ i \in DOMAIN h
  BY JobAssumption
<1>2. /\ \A i \in 1 .. Len(all) : all[i] \in S \cup {r}
      /\ \A i, j \in 1 .. Len(all) : all[i] = all[j] => i = j
  BY <1>1
<1>3. new = IF over > 0 THEN SubSeq(all, over + 1, Len(all)) ELSE all
  BY DEF Remember
<1> HIDE DEF all, new
<1>4. CASE over > 0
  <2>1. over = 1 /\ Len(h) = HistoryLimit
    BY <1>1, <1>4
  <2>2. new = SubSeq(all, 2, Len(all)) /\ Len(all) = HistoryLimit + 1
    BY <1>1, <1>3, <1>4, <2>1
  <2>3. Len(new) = HistoryLimit /\ \A i \in 1 .. HistoryLimit : new[i] = all[i + 1]
    BY <1>1, <2>2
  <2>4. DOMAIN new = 1 .. HistoryLimit
    BY <1>1, <2>2
  <2> QED
    BY <1>1, <1>2, <2>1, <2>2, <2>3, <2>4 DEF new
<1>5. CASE ~(over > 0)
  <2>1. new = all /\ DOMAIN new = 1 .. Len(all)
    BY <1>1, <1>3, <1>5
  <2> QED
    BY <1>1, <1>2, <1>5, <2>1 DEF new
<1> QED
  BY <1>4, <1>5

LEMMA InitAccount == Init => AccountInv
<1> SUFFICES ASSUME Init PROVE AccountInv
  OBVIOUS
<1>1. Tallied = {} /\ Remembered = {} /\ history = <<>>
  BY DEF Init, Tallied, Remembered
<1>2. Cardinality({}) = 0 /\ HistoryLimit \in Nat /\ Counted = 0
  BY FS_EmptySet, JobAssumption DEF Init, Counted, Terminal
<1> QED
  BY <1>1, <1>2 DEF AccountInv, CountersExact, HistoryExact

LEMMA AccountUntouched ==
    ASSUME AccountInv, UNCHANGED <<count, history>>, Tallied' = Tallied, Remembered' = Remembered
    PROVE  AccountInv'
BY DEF AccountInv, CountersExact, HistoryExact, Counted

\* Nothing is counted or remembered by steps that finish nothing, or that begin
\* to finish a record.
LEMMA AccountBegins ==
    ASSUME TypeOK, AccountInv, UNCHANGED <<count, history>>,
           \A q \in Run : fin'[q] = fin[q] \/ {fin[q], fin'[q]} \subseteq {"none", "terminal"}
                            \/ {fin[q], fin'[q]} \subseteq {"tally", "mark", "signal", "end"}
    PROVE  AccountInv'
<1>1. Tallied' = Tallied /\ Remembered' = Remembered
  BY DEF Tallied, Remembered
<1> QED
  BY <1>1, AccountUntouched

\* A callback that aborts leaves its record out of the history, and one of
\* on_fire leaves it out of the counters too.
LEMMA AccountAborts ==
    ASSUME TypeOK, TypeOK', AccountInv, BaseExceptions, UNCHANGED <<count, history>>, NEW r \in Run,
           fin'[r] = "end", \A q \in Run \ {r} : fin'[q] = fin[q]
    PROVE  AccountInv'
<1>1. Tallied \subseteq Tallied' /\ Remembered \subseteq Remembered'
  BY DEF Tallied, Remembered
<1>2. Cardinality(Tallied) <= Cardinality(Tallied') /\ Cardinality(Tallied') \in Nat
      /\ Cardinality(Tallied) \in Nat
  <2>1. IsFiniteSet(Tallied')
    <3>1. Tallied' \subseteq Run
      BY DEF Tallied, Remembered
    <3> QED
      BY <3>1, RunFinite, FS_Subset
  <2> QED
    BY <1>1, <2>1, FS_Subset, FS_CardinalityType
<1>3. Counted' = Counted /\ Counted \in Nat
  BY DEF Counted, TypeOK, Terminal
<1>4. CountersExact'
  BY <1>2, <1>3 DEF AccountInv, CountersExact
<1>5. HistoryExact'
  BY <1>1 DEF AccountInv, HistoryExact
<1> QED
  BY <1>4, <1>5 DEF AccountInv

\* _record_terminal
LEMMA AccountCounts ==
    ASSUME TypeOK, TypeOK', RecordInv, AccountInv, NEW r \in Run, RecordTerminal(r)
    PROVE  AccountInv'
<1>1. /\ fin[r] = "terminal" /\ fin' = [fin EXCEPT ![r] = "callbacks"] /\ fin \in [Run -> FinPc]
      /\ count' = [count EXCEPT ![status[r]] = @ + 1] /\ history' = history
  BY DEF RecordTerminal, FinMoves, TypeOK
<1>2. Tallied' = Tallied \cup {r} /\ r \notin Tallied /\ Remembered' = Remembered
  BY <1>1 DEF Tallied, Remembered
<1>3. Cardinality(Tallied') = Cardinality(Tallied) + 1 /\ Cardinality(Tallied) \in Nat
  BY <1>2, RecordSetsFinite, FS_AddElement
<1>4. Counted' = Counted + 1 /\ Counted \in Nat
  <2>1. status[r] \in Terminal /\ count \in [Terminal -> Nat]
    BY <1>1 DEF RecordInv, RecordsSane, TypeOK
  <2> QED
    BY <1>1, <2>1, CountsMore
<1>5. CountersExact'
  BY <1>3, <1>4 DEF AccountInv, CountersExact
<1>6. HistoryExact'
  BY <1>1, <1>2 DEF AccountInv, HistoryExact
<1> QED
  BY <1>5, <1>6 DEF AccountInv

\* One record more in the history.
LEMMA AccountRemembers ==
    ASSUME TypeOK, HistoryExact, NEW r \in Run, r \notin Remembered,
           Remembered' = Remembered \cup {r}, history' = Remember(history, <<r>>)
    PROVE  HistoryExact'
<1>1. Cardinality(Remembered') = Cardinality(Remembered) + 1 /\ Cardinality(Remembered) \in Nat
  BY RecordSetsFinite, FS_AddElement
<1>2. history \in Seq(Run) /\ HistoryLimit \in Nat \ {0} /\ Len(history) \in Nat
  BY JobAssumption DEF TypeOK
<1>3. /\ Len(history') = IF Len(history) < HistoryLimit THEN Len(history) + 1 ELSE HistoryLimit
      /\ \A i \in DOMAIN history' : history'[i] \in Remembered'
      /\ \A i, j \in DOMAIN history' : history'[i] = history'[j] => i = j
  BY <1>2, RememberOne DEF HistoryExact
<1>4. ~BaseExceptions =>
        Len(history') = IF Cardinality(Remembered') <= HistoryLimit
                        THEN Cardinality(Remembered') ELSE HistoryLimit
  BY <1>1, <1>2, <1>3 DEF HistoryExact
<1> QED
  BY <1>2, <1>3, <1>4 DEF HistoryExact

\* _record_history
LEMMA AccountRecords ==
    ASSUME TypeOK, TypeOK', RecordInv, AccountInv, NEW r \in Run, RecordHistory(r)
    PROVE  AccountInv'
<1>1. /\ fin[r] = "callbacks" /\ fin' = [fin EXCEPT ![r] = "tally"] /\ fin \in [Run -> FinPc]
      /\ history' = Remember(history, <<r>>) /\ count' = count
  BY DEF RecordHistory, FinMoves, TypeOK
<1>2. Tallied' = Tallied /\ Remembered' = Remembered \cup {r} /\ r \notin Remembered
  BY <1>1 DEF Tallied, Remembered
<1>3. CountersExact'
  BY <1>1, <1>2 DEF AccountInv, CountersExact, Counted
<1>4. HistoryExact'
  BY <1>1, <1>2, AccountRemembers DEF AccountInv
<1> QED
  BY <1>3, <1>4 DEF AccountInv

LEMMA SingleSeq ==
    ASSUME NEW S, NEW s \in Seq(S), Len(s) <= 1, s # <<>>
    PROVE  s = <<s[1]>> /\ s[1] \in S /\ DOMAIN s = {1} /\ Len(s) = 1
<1>1. Len(s) \in Nat \ {0}
  BY EmptySeq
<1>2. Len(s) = 1
  BY <1>1
<1>3. DOMAIN s = {1} /\ s[1] \in S
  BY <1>2
<1> QED
  BY <1>2, <1>3

\* The one record that the newest fire supersedes is counted and remembered.
LEMMA AccountReplaces ==
    ASSUME JobInv, TypeOK', RecordInv, AccountInv, NEW r \in Run, ClaimReplaces(r)
    PROVE  AccountInv'
<1>1. /\ fin' = [q \in Run |-> IF q \in Elements(queued) THEN "end" ELSE fin[q]]
      /\ count' = [count EXCEPT !["cancelled"] = @ + Len(queued)]
      /\ history' = Remember(history, queued)
  BY DEF ClaimReplaces
<1>2. /\ queued \in Seq(Run) /\ Len(queued) <= 1 /\ TypeOK /\ count \in [Terminal -> Nat]
      /\ history \in Seq(Run) /\ fin \in [Run -> FinPc]
  BY DEF ClaimReplaces, JobInv, ReplaceKeepsLatest, TypeOK
<1>3. CASE queued = <<>>
  <2>1. fin' = fin /\ count' = count
    BY <1>1, <1>2, <1>3 DEF Elements
  <2>2. history' = history
    BY <1>1, <1>2, <1>3, JobAssumption DEF Remember, AccountInv, HistoryExact
  <2> QED
    BY <1>2, <2>1, <2>2, AccountBegins
<1>4. CASE queued # <<>>
  <2> DEFINE q == queued[1]
  <2>1. queued = <<q>> /\ q \in Run /\ Elements(queued) = {q} /\ Len(queued) = 1
    <3>1. queued = <<q>> /\ q \in Run /\ DOMAIN queued = {1} /\ Len(queued) = 1
      BY <1>2, <1>4, SingleSeq
    <3>2. Elements(queued) = {q}
      BY <3>1 DEF Elements
    <3> QED
      BY <3>1, <3>2
  <2>2. fin[q] = "none"
    BY <2>1 DEF RecordInv, RecordsSane
  <2>3. /\ Tallied' = Tallied \cup {q} /\ q \notin Tallied
        /\ Remembered' = Remembered \cup {q} /\ q \notin Remembered
    BY <1>1, <1>2, <2>1, <2>2 DEF Tallied, Remembered
  <2>4. Cardinality(Tallied') = Cardinality(Tallied) + 1 /\ Cardinality(Tallied) \in Nat
    BY <2>3, RecordSetsFinite, FS_AddElement
  <2>5. Counted' = Counted + 1 /\ Counted \in Nat
    <3>1. count' = [count EXCEPT !["cancelled"] = @ + 1] /\ "cancelled" \in Terminal
      BY <1>1, <2>1 DEF Terminal
    <3> QED
      BY <1>2, <3>1, CountsMore
  <2>6. CountersExact'
    BY <2>4, <2>5 DEF AccountInv, CountersExact
  <2>7. HistoryExact'
    <3>1. history' = Remember(history, <<q>>)
      BY <1>1, <2>1
    <3> QED
      BY <1>2, <2>1, <2>3, <3>1, AccountRemembers DEF AccountInv
  <2> QED
    BY <2>6, <2>7 DEF AccountInv
<1> QED
  BY <1>3, <1>4

LEMMA AccountRun ==
    ASSUME JobInv, TypeOK', RecordInv, AccountInv, NEW r \in Run,
           RunStep(r) \/ RunnerRetries(r) \/ OnFireAborts(r) \/ CallbackAborts(r)
    PROVE  AccountInv'
<1>0. TypeOK
  BY DEF JobInv
<1>1. CASE RecordTerminal(r) \/ RecordHistory(r) \/ ClaimReplaces(r)
  BY <1>0, <1>1, AccountCounts, AccountRecords, AccountReplaces
<1>2. CASE OnFireAborts(r) \/ CallbackAborts(r)
  <2>1. /\ BaseExceptions /\ UNCHANGED <<count, history>> /\ fin'[r] = "end"
        /\ \A q \in Run \ {r} : fin'[q] = fin[q]
    BY <1>0, <1>2 DEF OnFireAborts, CallbackAborts, FinMoves, countVars, TypeOK
  <2> QED
    BY <1>0, <2>1, AccountAborts
<1>3. CASE Tally(r) \/ MarkExhausted(r) \/ SignalExhausted(r)
  <2>1. /\ UNCHANGED <<count, history>> /\ {fin[r], fin'[r]} \subseteq {"tally", "mark", "signal", "end"}
        /\ \A q \in Run \ {r} : fin'[q] = fin[q]
    BY <1>0, <1>3 DEF Tally, MarkExhausted, SignalExhausted, FinMoves, countVars, TypeOK
  <2> QED
    BY <1>0, <2>1, AccountBegins
<1>4. CASE \/ Prepare(r) \/ JitterEnds(r) \/ ClaimSkips(r) \/ RunnerReturns(r) \/ BackoffEnds(r)
  <2>1. fin[r] = "none" /\ UNCHANGED <<count, history>>
    BY <1>4 DEF Prepare, JitterEnds, ClaimSkips, RunnerReturns, BackoffEnds, Settles, RunMoves,
                countVars, RecordInv, RecordsSane, Early
  <2>2. fin' \in {fin, [fin EXCEPT ![r] = "terminal"]}
    BY <1>4 DEF Prepare, JitterEnds, ClaimSkips, RunnerReturns, BackoffEnds, Settles
  <2> QED
    BY <1>0, <2>1, <2>2, AccountBegins DEF TypeOK
<1>5. CASE \/ ClaimFreeSlot(r) \/ ClaimQueues(r) \/ QueuedWakes(r) \/ RunnerRetries(r)
           \/ ReleaseSlot(r) \/ ReturnUnslotted(r) \/ ThreadExits(r)
  <2>1. UNCHANGED <<count, history, fin>>
    BY <1>5 DEF ClaimFreeSlot, ClaimQueues, QueuedWakes, QueuedCancelled, QueuedAdmitted,
         QueuedSleepsOn, RunnerRetries, ReleaseSlot, ReturnUnslotted, ThreadExits, countVars
  <2> QED
    BY <1>0, <2>1, AccountBegins
<1> QED
  BY <1>1, <1>2, <1>3, <1>4, <1>5 DEF RunStep, Claim, Finish

LEMMA NextKeepsAccount == JobInv /\ RecordInv /\ AccountInv /\ [Next]_vars => AccountInv'
<1> SUFFICES ASSUME JobInv, RecordInv, AccountInv, [Next]_vars PROVE AccountInv'
  OBVIOUS
<1>1. TypeOK /\ TypeOK'
  BY TypeNext DEF JobInv
<1>2. CASE UNCHANGED vars
  BY <1>1, <1>2, AccountBegins DEF vars, countVars, runVars
<1>3. CASE \/ \E c \in Controllers : Start(c) \/ Spawn(c) \/ Begin(c)
           \/ SetPaused
           \/ \E t \in Timers : TimerStep(t) \/ TimerElapses(t)
           \/ \E parent \in Run \cup {0} : TriggerNow(parent)
  <2>1. UNCHANGED <<count, history, fin>>
    BY <1>3 DEF Start, Spawn, Begin, SetPaused, TimerStep, TimerElapses, TimerLoop, TimerStopped,
         TimerChecks, TimerFires, TimerLaunches, TimerDrains, TimerMarksDone, TriggerNow,
         countVars, runVars
  <2> QED
    BY <1>1, <2>1, AccountBegins
<1>4. ASSUME NEW c \in Caller, Stop(c) \/ StopStep(c) PROVE AccountInv'
  <2>1. CASE StopCancelsQueue(c)
    <3>1. /\ UNCHANGED <<count, history>>
          /\ fin' = [q \in Run |-> IF queued # <<>> /\ q = Head(queued) THEN "terminal" ELSE fin[q]]
      BY <2>1 DEF StopCancelsQueue, countVars
    <3>2. queued # <<>> => fin[Head(queued)] = "none"
      <4>1. queued \in Seq(Run)
        BY <1>1 DEF TypeOK
      <4> QED
        BY <4>1 DEF RecordInv, RecordsSane
    <3> QED
      BY <1>1, <3>1, <3>2, AccountBegins
  <2>2. CASE StopFinishesNext(c)
    <3>1. UNCHANGED <<count, history>>
      BY <2>2 DEF StopFinishesNext, countVars
    <3>2. \A q \in Run : fin'[q] = fin[q] \/ (fin[q] = "none" /\ fin'[q] = "terminal")
      <4>1. CASE doomed[c] = <<>>
        BY <2>2, <4>1 DEF StopFinishesNext
      <4>2. CASE doomed[c] # <<>>
        <5>1. Len(doomed[c]) > 1 => 2 \in DOMAIN doomed[c]
          BY <1>1 DEF TypeOK
        <5>2. Len(doomed[c]) > 1 => fin[doomed[c][2]] = "none"
          BY <5>1 DEF RecordInv, DoomedSane
        <5> QED
          BY <2>2, <4>2, <5>2 DEF StopFinishesNext
      <4> QED
        BY <4>1, <4>2
    <3> QED
      BY <1>1, <3>1, <3>2, AccountBegins
  <2>3. CASE \/ Stop(c) \/ StopUnflags(c) \/ StopNotifies(c) \/ StopJoins(c)
             \/ StopDrains(c) \/ StopMarksDone(c)
    <3>1. UNCHANGED <<count, history, fin>>
      BY <2>3 DEF Stop, StopUnflags, StopNotifies, StopJoins, StopDrains, StopMarksDone,
                  countVars, runVars
    <3> QED
      BY <1>1, <3>1, AccountBegins
  <2> QED
    BY <1>4, <2>1, <2>2, <2>3 DEF StopStep
<1>5. CASE Next
  BY <1>1, <1>3, <1>4, <1>5, AccountRun DEF Next
<1> QED
  BY <1>2, <1>5

\* When no run is under way and no stop() is finishing records, every fire has
\* been counted and remembered.
LEMMA AccountedInQuiet ==
    ASSUME JobInv, RecordInv, AccountInv
    PROVE  AccountedOnce
<1>1. MaxFires \in Nat /\ fire_count \in 0 .. MaxFires
  BY JobAssumption DEF JobInv, TypeOK
<1>2. Cardinality(1 .. fire_count) = fire_count /\ IsFiniteSet(1 .. fire_count)
  BY <1>1, FS_Interval
<1>3. Tallied \subseteq 1 .. fire_count
  <2>1. ASSUME NEW r \in Run, fin[r] # "none" PROVE r \in 1 .. fire_count
    BY <1>1, <2>1 DEF JobInv, Numbered, RecordInv, RecordsSane, Early, Run
  <2> QED
    BY <2>1 DEF Tallied, Remembered
<1>4. Cardinality(Tallied) <= fire_count /\ Cardinality(Tallied) \in Nat
  BY <1>2, <1>3, RecordSetsFinite, FS_Subset
<1>5. Counted \in Nat
  BY DEF Counted, Terminal, JobInv, TypeOK
<1>6. ASSUME Quiet PROVE Remembered = 1 .. fire_count /\ Tallied = 1 .. fire_count
  <2>1. ASSUME NEW r \in 1 .. fire_count PROVE r \in Remembered
    BY <1>1, <1>6, <2>1 DEF Quiet, Remembered, RecordInv, RecordsSane, Run
  <2> QED
    BY <1>3, <2>1 DEF Tallied
<1> QED
  BY <1>1, <1>2, <1>4, <1>5, <1>6 DEF AccountedOnce, AccountInv, CountersExact, HistoryExact

\* Each record of a scheduled job is counted once and enters the history once,
\* by the thread of its run, by the fire that supersedes it or by the stop()
\* that takes it from the queue, and none is forgotten (_finish_record).
THEOREM JobAccountedOnce == Spec => []AccountedOnce
<1>1. Init => RecordInv /\ AccountInv
  BY InitRecords, InitAccount
<1>2. JobInv /\ RecordInv /\ AccountInv /\ [Next]_vars => (RecordInv /\ AccountInv)'
  BY NextKeepsRecords, NextKeepsAccount
<1>3. JobInv /\ RecordInv /\ AccountInv => AccountedOnce
  BY AccountedInQuiet
<1> QED
  BY <1>1, <1>2, <1>3, JobInvariant, PTL DEF Spec
-----------------------------------------------------------------------------
(* A run that stops its own job *)

\* Without nested triggers each run has a thread of its own, the threads with a
\* slot are those of the active runs, and a stop() waits in a run's thread only
\* if that run has no slot.
OwnThread ==
    /\ \A r \in Run : thread[r] = r
    /\ active_threads = active
    /\ \A r \in Run : cpc[r] \in {"join", "drain"} => r \notin active

LEMMA OwnThreadUntouched ==
    ASSUME OwnThread, UNCHANGED <<thread, active, active_threads, cpc>>
    PROVE  OwnThread'
BY DEF OwnThread

LEMMA OwnThreadRun ==
    ASSUME TypeOK, OwnThread, NEW r \in Run,
           RunStep(r) \/ RunnerRetries(r) \/ OnFireAborts(r) \/ CallbackAborts(r)
    PROVE  OwnThread'
<1>1. CASE ClaimFreeSlot(r) \/ ClaimReplaces(r) \/ QueuedAdmitted(r)
  <2>1. UNCHANGED <<thread, cpc>> /\ Executing(r)
    BY <1>1 DEF ClaimFreeSlot, ClaimReplaces, QueuedAdmitted, RunMoves, callerVars
  <2>2. \/ UNCHANGED <<active, active_threads>>
        \/ active' = active \cup {r} /\ active_threads' = active_threads \cup {thread[r]}
    BY <1>1 DEF ClaimFreeSlot, ClaimReplaces, QueuedAdmitted, TakesSlot
  <2>3. cpc[r] \notin {"join", "drain"}
    BY <2>1 DEF Executing
  <2> QED
    BY <2>1, <2>2, <2>3 DEF OwnThread
<1>2. CASE ReleaseSlot(r)
  <2>1. /\ UNCHANGED <<thread, cpc>> /\ active' = active \ {r}
        /\ active_threads' = active_threads \ {thread[r]}
    BY <1>2 DEF ReleaseSlot, callerVars
  <2> QED
    BY <2>1 DEF OwnThread
<1>3. CASE \/ Prepare(r) \/ JitterEnds(r) \/ ClaimSkips(r) \/ ClaimQueues(r)
           \/ QueuedCancelled(r) \/ QueuedSleepsOn(r) \/ RunnerReturns(r) \/ BackoffEnds(r)
           \/ RunnerRetries(r) \/ OnFireAborts(r) \/ CallbackAborts(r) \/ RecordTerminal(r)
           \/ RecordHistory(r) \/ Tally(r) \/ MarkExhausted(r) \/ SignalExhausted(r)
           \/ ReturnUnslotted(r) \/ ThreadExits(r)
  <2>1. UNCHANGED <<thread, active, active_threads, cpc>>
    BY <1>3 DEF Prepare, JitterEnds, ClaimSkips, ClaimQueues, QueuedCancelled, QueuedSleepsOn,
         RunnerReturns, BackoffEnds, RunnerRetries, OnFireAborts, CallbackAborts, RecordTerminal,
         RecordHistory, Tally, MarkExhausted, SignalExhausted, ReturnUnslotted, ThreadExits,
         FinMoves, slotVars, callerVars
  <2> QED
    BY <2>1, OwnThreadUntouched
<1> QED
  BY <1>1, <1>2, <1>3 DEF RunStep, Claim, QueuedWakes, Finish

LEMMA OwnThreadStop ==
    ASSUME TypeOK, OwnThread, NEW c \in Caller, Stop(c) \/ StopStep(c)
    PROVE  OwnThread'
<1>1. UNCHANGED <<thread, active, active_threads>>
  BY DEF Stop, StopStep, StopUnflags, StopCancelsQueue, StopFinishesNext, StopNotifies,
         StopJoins, StopDrains, StopMarksDone, slotVars, runVars
<1>2. CASE StopNotifies(c)
  <2>1. \/ cpc' = [cpc EXCEPT ![c] = "returned"]
        \/ ~ServesARun(c) /\ \E to \in CallPc : cpc' = [cpc EXCEPT ![c] = to]
    BY <1>2 DEF StopNotifies, StopReturnsFrom, CallMoves, CallPc
  <2>2. ~ServesARun(c) => c \notin active
    BY DEF ServesARun, OwnThread, TypeOK
  <2> QED
    BY <1>1, <2>1, <2>2 DEF OwnThread, TypeOK, Caller
<1>3. CASE StopJoins(c)
  <2>1. cpc[c] = "join" /\ \E to \in CallPc : cpc' = [cpc EXCEPT ![c] = to]
    BY <1>3 DEF StopJoins, StopReturnsFrom, CallMoves, CallPc
  <2> QED
    BY <1>1, <2>1 DEF OwnThread, TypeOK, Caller
<1>4. CASE StopDrains(c)
  <2>1. cpc[c] = "drain" /\ \E to \in CallPc : cpc' = [cpc EXCEPT ![c] = to]
    BY <1>4 DEF StopDrains, CallMoves, CallPc
  <2> QED
    BY <1>1, <2>1 DEF OwnThread, TypeOK, Caller
<1>5. CASE \/ Stop(c) \/ StopUnflags(c) \/ StopCancelsQueue(c) \/ StopFinishesNext(c)
           \/ StopMarksDone(c)
  <2>1. cpc' = cpc \/ \E to \in {"unflag", "notify", "cancel", "finish", "returned"} :
                          cpc' = [cpc EXCEPT ![c] = to]
    BY <1>5 DEF Stop, StopUnflags, StopCancelsQueue, StopFinishesNext, StopMarksDone,
                StopReturnsFrom, CallMoves
  <2> QED
    BY <1>1, <2>1 DEF OwnThread, TypeOK, Caller
<1> QED
  BY <1>2, <1>3, <1>4, <1>5 DEF StopStep

LEMMA NextKeepsOwnThread ==
    ASSUME ~NestedTriggers
    PROVE  TypeOK /\ OwnThread /\ [Next]_vars => OwnThread'
<1> SUFFICES ASSUME TypeOK, OwnThread, [Next]_vars PROVE OwnThread'
  OBVIOUS
<1>1. CASE UNCHANGED vars
  BY <1>1, OwnThreadUntouched DEF vars, slotVars, runVars, callerVars
<1>2. ASSUME NEW c \in Controllers, Start(c) \/ Spawn(c) \/ Begin(c) PROVE OwnThread'
  <2>1. /\ UNCHANGED <<thread, active, active_threads>>
        /\ \E to \in {"spawn", "begin", "idle"} : cpc' = [cpc EXCEPT ![c] = to]
    BY <1>2 DEF Start, Spawn, Begin, slotVars, runVars
  <2>2. \A r \in Run : cpc'[r] = cpc[r]
    BY <2>1, ProcessAssumption DEF TypeOK
  <2> QED
    BY <2>1, <2>2 DEF OwnThread
<1>3. CASE SetPaused \/ \E t \in Timers : TimerStep(t) \/ TimerElapses(t)
  <2>1. UNCHANGED <<thread, active, active_threads, cpc>>
    BY <1>3 DEF SetPaused, TimerStep, TimerElapses, TimerLoop, TimerStopped, TimerChecks,
         TimerFires, TimerLaunches, TimerDrains, TimerMarksDone, slotVars, runVars, callerVars
  <2> QED
    BY <2>1, OwnThreadUntouched
<1>4. ASSUME NEW parent \in Run \cup {0}, TriggerNow(parent) PROVE OwnThread'
  <2>1. parent = 0
    BY <1>4 DEF TriggerNow
  <2>2. /\ thread' = [thread EXCEPT ![fire_count + 1] = fire_count + 1]
        /\ UNCHANGED <<active, active_threads, cpc>>
    BY <1>4, <2>1 DEF TriggerNow, slotVars, callerVars
  <2> QED
    BY <2>2 DEF OwnThread, TypeOK
<1>5. CASE Next
  BY <1>2, <1>3, <1>4, <1>5, OwnThreadRun, OwnThreadStop DEF Next
<1> QED
  BY <1>1, <1>5

\* Without nested triggers a run that calls stop() on its own job never waits
\* for itself, by the early return of stop() for the threads of runs.  The
\* hypothesis is needed: with a nested trigger_now() the property is violated.
THEOREM JobStopNeverAwaitsItself == ~NestedTriggers => (Spec => []StopNeverAwaitsItself)
<1> SUFFICES ASSUME ~NestedTriggers PROVE Spec => []StopNeverAwaitsItself
  OBVIOUS
<1>1. Init => OwnThread
  BY DEF Init, OwnThread, Caller
<1>2. TypeOK /\ OwnThread /\ [Next]_vars => OwnThread'
  BY NextKeepsOwnThread
<1>3. TypeOK /\ OwnThread => StopNeverAwaitsItself
  BY DEF OwnThread, StopNeverAwaitsItself, TypeOK
<1> QED
  BY <1>1, <1>2, <1>3, JobTypeOK, PTL DEF Spec
-----------------------------------------------------------------------------
(* A drained stop() of the job's only controller *)

\* A scheduled run that is under way is known to _execution_threads, unless its
\* timer has still to launch it.
Launched ==
    /\ \A r \in Run \ manual : pc[r] \in {"unborn", "launch", "gone"} \/ r \in execution_threads
    /\ \A r \in Run : pc[r] = "launch" => \E t \in Timers : tpc[t] = "launch"
    /\ \A q, r \in Run : pc[q] = "launch" /\ pc[r] = "launch" => q = r

Started(t) == tpc[t] # "unborn"

\* The one controller makes one timer, and none once it stops: its stop() joins
\* that timer, and then there are only manual runs.
OneTimer(c) ==
    /\ \A r \in Run : cpc[r] = "idle"
    /\ \A t \in Timers : Started(t) => t = worker
    /\ (cpc[c] = "idle" /\ ~is_running /\ ~is_done) \/ cpc[c] = "spawn" =>
          \A t \in Timers : ~Started(t)
    /\ \A t \in Timers : tpc[t] = "spawned" <=> cpc[c] = "begin" /\ t = worker
    /\ cpc[c] = "begin" => worker \in Timers /\ (is_running \/ is_done)
    /\ cpc[c] = "spawn" => is_running \/ is_done
    /\ cpc[c] = "join" => joining[c] = worker

DrainEmpties(c) ==
    ~StopTimeouts /\ draining[c] =>
        /\ cpc[c] \in {"drain", "mark"} => \A t \in Timers : tpc[t] \in {"unborn", "dead"}
        /\ cpc[c] = "mark" => \A r \in Run \ manual : pc[r] \in {"unborn", "gone"}

DrainInv(c) == Launched /\ OneTimer(c) /\ DrainEmpties(c)

LEMMA DrainUntouched ==
    ASSUME NEW c \in Controllers, DrainInv(c),
           UNCHANGED <<pc, manual, execution_threads, tpc, worker, cpc, draining, joining>>,
           is_running' \/ is_done' \/ UNCHANGED <<is_running, is_done>>
    PROVE  DrainInv(c)'
BY DEF DrainInv, Launched, OneTimer, Started, DrainEmpties

\* A run moves: it keeps its entry until it is gone.
LEMMA DrainRun ==
    ASSUME TypeOK, NEW c \in Controllers, DrainInv(c), NEW r \in Run,
           RunStep(r) \/ RunnerRetries(r) \/ OnFireAborts(r) \/ CallbackAborts(r)
    PROVE  DrainInv(c)'
<1>1. CASE \/ RecordTerminal(r) \/ RecordHistory(r) \/ Tally(r) \/ MarkExhausted(r)
           \/ SignalExhausted(r) \/ CallbackAborts(r)
  BY <1>1, DrainUntouched DEF RecordTerminal, RecordHistory, Tally, MarkExhausted,
     SignalExhausted, CallbackAborts, FinMoves, flagVars, slotVars, timerVars, callerVars
<1>2. CASE ~(\/ RecordTerminal(r) \/ RecordHistory(r) \/ Tally(r) \/ MarkExhausted(r)
             \/ SignalExhausted(r) \/ CallbackAborts(r))
  <2>1. /\ UNCHANGED <<manual, tpc, worker, cpc, draining, joining, is_running, is_done>>
        /\ pc[r] \notin {"unborn", "launch", "gone"} /\ pc'[r] \notin {"unborn", "launch"}
        /\ \A q \in Run \ {r} : pc'[q] = pc[q]
        /\ \/ execution_threads' = execution_threads /\ (pc'[r] = "gone" => r \in manual)
           \/ execution_threads' = execution_threads \ {r} /\ pc'[r] = "gone"
    <3> USE DEF RunMoves, flagVars, timerVars, callerVars, TypeOK
    <3>1. CASE Prepare(r) \/ JitterEnds(r) \/ RunnerReturns(r) \/ BackoffEnds(r)
               \/ RunnerRetries(r) \/ OnFireAborts(r)
      BY <3>1 DEF Prepare, JitterEnds, RunnerReturns, BackoffEnds, RunnerRetries, OnFireAborts,
                  Settles, slotVars
    <3>2. CASE ClaimFreeSlot(r) \/ ClaimSkips(r) \/ ClaimQueues(r)
      BY <3>2 DEF ClaimFreeSlot, ClaimSkips, ClaimQueues, Settles, slotVars
    <3>3. CASE ClaimReplaces(r)
      <4>1. \E to \in {"running", "queued"} : pc' = [pc EXCEPT ![r] = to] /\ pc[r] = "claim"
        BY <3>3 DEF ClaimReplaces
      <4>2. UNCHANGED <<manual, execution_threads, tpc, worker, cpc, draining, joining,
                        is_running, is_done>>
        BY <3>3 DEF ClaimReplaces
      <4> QED
        BY <4>1, <4>2
    <3>4. CASE QueuedWakes(r)
      BY <3>4 DEF QueuedWakes, QueuedCancelled, QueuedAdmitted, QueuedSleepsOn, AfterRun, slotVars
    <3>5. CASE ReleaseSlot(r) \/ ReturnUnslotted(r) \/ ThreadExits(r)
      BY <3>5 DEF ReleaseSlot, ReturnUnslotted, ThreadExits, AfterRun, slotVars
    <3> QED
      BY <1>2, <3>1, <3>2, <3>3, <3>4, <3>5 DEF RunStep, Claim, Finish
  <2>2. Launched'
    BY <2>1 DEF DrainInv, Launched
  <2>3. OneTimer(c)'
    BY <2>1 DEF DrainInv, OneTimer, Started
  <2>4. DrainEmpties(c)'
    BY <2>1 DEF DrainInv, DrainEmpties
  <2> QED
    BY <2>2, <2>3, <2>4 DEF DrainInv
<1> QED
  BY <1>1, <1>2

LEMMA DrainTimer ==
    ASSUME JobInv, TypeOK', NEW c \in Controllers, DrainInv(c), NEW t \in Timers,
           TimerStep(t) \/ TimerElapses(t)
    PROVE  DrainInv(c)'
<1>1. /\ UNCHANGED <<manual, worker, cpc, draining, joining>>
      /\ Started(t) /\ tpc[t] \notin {"spawned", "dead"} /\ tpc'[t] \notin {"unborn", "spawned"}
      /\ \A u \in Timers \ {t} : tpc'[u] = tpc[u]
      /\ is_running' \/ is_done' \/ UNCHANGED <<is_running, is_done>>
  BY DEF TimerStep, TimerElapses, TimerLoop, TimerStopped, TimerChecks, TimerFires,
         TimerLaunches, TimerDrains, TimerMarksDone, TimerMoves, flagVars, runVars, callerVars,
         Started, JobInv, TypeOK
<1>2. OneTimer(c)'
  BY <1>1 DEF DrainInv, OneTimer, Started
<1>3. ~(~StopTimeouts /\ draining[c] /\ cpc[c] \in {"drain", "mark"})
  BY <1>1 DEF DrainInv, DrainEmpties, Started
<1>4. DrainEmpties(c)'
  BY <1>1, <1>3 DEF DrainEmpties
<1>5. Launched'
  <2>1. CASE TimerFires(t)
    <3> DEFINE r == fire_count + 1
    <3>1. r \in Run /\ pc' = [pc EXCEPT ![r] = "launch"] /\ tpc'[t] = "launch"
          /\ execution_threads' = execution_threads /\ tpc[t] = "fire"
      BY <2>1, JobAssumption DEF TimerFires, TimerMoves, slotVars, Run, JobInv, TypeOK
    <3>2. \A q \in Run : pc[q] # "launch"
      BY <1>1, <3>1 DEF DrainInv, Launched, OneTimer, Started
    <3> QED
      BY <1>1, <3>1, <3>2 DEF DrainInv, Launched, JobInv, TypeOK
  <2>2. CASE TimerLaunches(t)
    <3>1. PICK r \in Run : /\ pc[r] = "launch" /\ pc' = [pc EXCEPT ![r] = "prepare"]
                           /\ execution_threads' = execution_threads \cup {r}
      BY <2>2 DEF TimerLaunches
    <3> QED
      BY <1>1, <3>1 DEF DrainInv, Launched, JobInv, TypeOK
  <2>3. CASE ~TimerFires(t) /\ ~TimerLaunches(t)
    <3>1. UNCHANGED <<pc, execution_threads>> /\ tpc[t] # "launch"
      BY <2>3 DEF TimerStep, TimerElapses, TimerLoop, TimerStopped, TimerChecks, TimerDrains,
                  TimerMarksDone, TimerMoves, slotVars, runVars
    <3> QED
      BY <1>1, <3>1 DEF DrainInv, Launched
  <2> QED
    BY <2>1, <2>2, <2>3
<1> QED
  BY <1>2, <1>4, <1>5 DEF DrainInv

LEMMA DrainStop ==
    ASSUME TypeOK, TypeOK', NEW c \in Controllers, Controllers = {c}, ~StopsFromRuns, DrainInv(c),
           NEW d \in Caller, Stop(d) \/ StopStep(d)
    PROVE  DrainInv(c)'
<1>1. d = c /\ c \notin Run /\ c \in Caller
  <2>1. d \in Run => cpc[d] # "idle"
    BY DEF Stop, StopStep, StopUnflags, StopCancelsQueue, StopFinishesNext, StopNotifies,
           StopJoins, StopDrains, StopMarksDone, CallMoves, StopReturnsFrom
  <2> QED
    BY <2>1, ProcessAssumption DEF DrainInv, OneTimer, Caller
<1>2. UNCHANGED <<pc, manual, execution_threads, tpc, worker>>
  BY DEF Stop, StopStep, StopUnflags, StopCancelsQueue, StopFinishesNext, StopNotifies,
         StopJoins, StopDrains, StopMarksDone, slotVars, runVars, timerVars
<1>3. Launched'
  BY <1>2 DEF DrainInv, Launched
<1>4. /\ cpc \in [Caller -> CallPc] /\ draining \in [Caller -> BOOLEAN]
      /\ joining \in [Caller -> Timers \cup {NoTimer}] /\ worker \in Timers \cup {NoTimer}
      /\ tpc \in [Timers -> TimerPc]
  BY DEF TypeOK
<1>5. /\ \A r \in Run : cpc'[r] = cpc[r]
      /\ cpc'[c] \notin {"idle", "spawn", "begin"} /\ cpc[c] \notin {"spawn", "begin"}
      /\ cpc'[c] = "join" => joining'[c] = worker
  <2> DEFINE Beyond == CallPc \ {"idle", "spawn", "begin"}
  <2>1. /\ \/ cpc' = cpc /\ cpc[c] = "finish"
           \/ \E to \in Beyond : cpc' = [cpc EXCEPT ![c] = to]
        /\ cpc[c] \notin {"spawn", "begin"}
    <3> USE <1>1 DEF CallPc, CallMoves, StopReturnsFrom
    <3>1. CASE Stop(c) \/ StopUnflags(c) \/ StopCancelsQueue(c)
      BY <3>1 DEF Stop, StopUnflags, StopCancelsQueue
    <3>2. CASE StopFinishesNext(c)
      BY <3>2 DEF StopFinishesNext
    <3>3. CASE StopNotifies(c)
      BY <3>3 DEF StopNotifies
    <3>4. CASE StopJoins(c) \/ StopDrains(c) \/ StopMarksDone(c)
      BY <3>4 DEF StopJoins, StopDrains, StopMarksDone
    <3> QED
      BY <3>1, <3>2, <3>3, <3>4 DEF StopStep
  <2>2. /\ \A r \in Run : cpc'[r] = cpc[r]
        /\ cpc'[c] \notin {"idle", "spawn", "begin"}
    <3>1. CASE cpc' = cpc /\ cpc[c] = "finish"
      BY <3>1
    <3>2. ASSUME NEW to \in Beyond, cpc' = [cpc EXCEPT ![c] = to]
          PROVE  cpc'[c] = to /\ \A r \in Run : cpc'[r] = cpc[r]
      BY <1>1, <1>4, <3>2 DEF Caller
    <3> QED
      BY <2>1, <3>1, <3>2
  <2>3. cpc'[c] = "join" => joining'[c] = worker
    <3>1. CASE StopNotifies(c)
      <4>1. CASE StopReturnsFrom(c, "notify")
        BY <1>1, <1>4, <4>1 DEF StopReturnsFrom, CallMoves
      <4>2. CASE joining' = [joining EXCEPT ![c] = worker]
        BY <1>1, <1>4, <4>2
      <4> QED
        BY <3>1, <4>1, <4>2 DEF StopNotifies
    <3>2. CASE Stop(c) \/ StopUnflags(c) \/ StopCancelsQueue(c) \/ StopFinishesNext(c)
      <4>1. cpc'[c] # "join"
        <5> USE <1>1, <1>4 DEF CallMoves
        <5>1. CASE Stop(c)
          BY <5>1 DEF Stop
        <5>2. CASE StopUnflags(c) \/ StopCancelsQueue(c)
          BY <5>2 DEF StopUnflags, StopCancelsQueue
        <5>3. CASE StopFinishesNext(c)
          BY <5>3 DEF StopFinishesNext
        <5> QED
          BY <3>2, <5>1, <5>2, <5>3
      <4> QED
        BY <4>1
    <3>3. CASE StopJoins(c) \/ StopDrains(c) \/ StopMarksDone(c)
      BY <1>1, <1>4, <3>3 DEF StopJoins, StopDrains, StopMarksDone, StopReturnsFrom, CallMoves
    <3> QED
      BY <1>1, <3>1, <3>2, <3>3 DEF StopStep
  <2> QED
    BY <2>1, <2>2, <2>3
<1>6. OneTimer(c)'
  BY <1>2, <1>5 DEF DrainInv, OneTimer, Started
<1>7. DrainEmpties(c)'
  <2> SUFFICES ASSUME ~StopTimeouts, draining'[c]
               PROVE  /\ cpc'[c] \in {"drain", "mark"} => \A t \in Timers : tpc[t] \in {"unborn", "dead"}
                      /\ cpc'[c] = "mark" => \A r \in Run \ manual : pc[r] \in {"unborn", "gone"}
    BY <1>2 DEF DrainEmpties
  <2>1. CASE Stop(c) \/ StopUnflags(c) \/ StopCancelsQueue(c) \/ StopFinishesNext(c) \/ StopMarksDone(c)
    BY <1>4, <2>1, <1>1 DEF Stop, StopUnflags, StopCancelsQueue, StopFinishesNext, StopMarksDone,
                            StopReturnsFrom, CallMoves
  <2>2. CASE StopNotifies(c)
    BY <1>1, <1>4, <2>2 DEF StopNotifies, StopReturnsFrom, CallMoves
  <2>3. CASE StopJoins(c)
    <3>1. cpc'[c] \in {"returned", "drain"} /\ joining[c] = worker
      <4>1. cpc[c] = "join"
        BY <2>3 DEF StopJoins, StopReturnsFrom, CallMoves
      <4>2. cpc'[c] \in {"returned", "drain"}
        BY <1>1, <1>4, <2>3 DEF StopJoins, StopReturnsFrom, CallMoves
      <4> QED
        BY <4>1, <4>2 DEF DrainInv, OneTimer
    <3>2. ASSUME cpc'[c] = "drain" PROVE \A t \in Timers : tpc[t] \in {"unborn", "dead"}
      <4>1. worker = NoTimer \/ tpc[worker] = "dead"
        BY <1>4, <2>3, <3>1, <3>2 DEF StopJoins, StopReturnsFrom, CallMoves
      <4> QED
        BY <4>1, ProcessAssumption DEF DrainInv, OneTimer, Started
    <3> QED
      BY <3>1, <3>2
  <2>4. CASE StopDrains(c)
    <3>1. cpc[c] = "drain" /\ UNCHANGED draining /\ (cpc'[c] = "mark" => Drained)
      BY <1>4, <2>4 DEF StopDrains, CallMoves
    <3>2. \A t \in Timers : tpc[t] \in {"unborn", "dead"}
      BY <3>1 DEF DrainInv, DrainEmpties
    <3>3. Drained => \A r \in Run \ manual : pc[r] \in {"unborn", "gone"}
      BY <3>2 DEF Drained, DrainInv, Launched
    <3> QED
      BY <3>1, <3>2, <3>3
  <2> QED
    BY <1>1, <2>1, <2>2, <2>3, <2>4 DEF StopStep
<1> QED
  BY <1>3, <1>6, <1>7 DEF DrainInv

LEMMA DrainStart ==
    ASSUME TypeOK, NEW c \in Controllers, Controllers = {c}, DrainInv(c),
           Start(c) \/ Spawn(c) \/ Begin(c)
    PROVE  DrainInv(c)'
<1>1. UNCHANGED <<pc, manual, execution_threads, draining, joining, is_done>>
      /\ cpc \in [Caller -> CallPc] /\ tpc \in [Timers -> TimerPc] /\ c \in Caller
      /\ \A r \in Run : cpc'[r] = cpc[r]
      /\ cpc'[c] \in {"spawn", "begin", "idle"}
  BY ProcessAssumption DEF Start, Spawn, Begin, slotVars, runVars, flagVars, TypeOK, Caller
<1>2. CASE Start(c)
  <2>1. UNCHANGED <<tpc, worker>> /\ cpc'[c] = "spawn" /\ cpc[c] = "idle"
        /\ ~is_running /\ ~is_done /\ is_running'
    BY <1>1, <1>2 DEF Start, timerVars
  <2> QED
    BY <1>1, <2>1 DEF DrainInv, Launched, OneTimer, Started, DrainEmpties
<1>3. CASE Spawn(c)
  <2>1. PICK t \in Timers : /\ tpc[t] = "unborn" /\ worker' = t
                            /\ tpc' = [tpc EXCEPT ![t] = "spawned"]
    BY <1>3 DEF Spawn
  <2>2. cpc[c] = "spawn" /\ cpc'[c] = "begin" /\ UNCHANGED is_running
    BY <1>1, <1>3 DEF Spawn, flagVars
  <2>3. \A u \in Timers : tpc[u] = "unborn"
    BY <2>2 DEF DrainInv, OneTimer, Started
  <2> QED
    BY <1>1, <2>1, <2>2, <2>3 DEF DrainInv, Launched, OneTimer, Started, DrainEmpties
<1>4. CASE Begin(c)
  <2>1. cpc[c] = "begin" /\ cpc'[c] = "idle" /\ UNCHANGED <<worker, is_running>>
        /\ tpc' = IF tpc[worker] = "spawned" THEN [tpc EXCEPT ![worker] = "loop"] ELSE tpc
    BY <1>1, <1>4 DEF Begin, flagVars
  <2>2. worker \in Timers /\ tpc[worker] = "spawned"
    BY <2>1 DEF DrainInv, OneTimer
  <2>3. tpc'[worker] = "loop" /\ \A u \in Timers \ {worker} : tpc'[u] = tpc[u]
    BY <1>1, <2>1, <2>2
  <2>4. is_running \/ is_done
    BY <2>1 DEF DrainInv, OneTimer
  <2> QED
    BY <1>1, <2>1, <2>2, <2>3, <2>4 DEF DrainInv, Launched, OneTimer, Started, DrainEmpties
<1> QED
  BY <1>2, <1>3, <1>4

LEMMA NextKeepsDrain ==
    ASSUME NEW c \in Controllers, Controllers = {c}, ~StopsFromRuns
    PROVE  JobInv /\ DrainInv(c) /\ [Next]_vars => DrainInv(c)'
<1> SUFFICES ASSUME JobInv, DrainInv(c), [Next]_vars PROVE DrainInv(c)'
  OBVIOUS
<1>1. TypeOK /\ TypeOK'
  BY TypeNext DEF JobInv
<1>2. CASE UNCHANGED vars \/ SetPaused
  BY <1>2, DrainUntouched DEF SetPaused, vars, flagVars, slotVars, runVars, timerVars, callerVars
<1>3. ASSUME NEW parent \in Run \cup {0}, TriggerNow(parent) PROVE DrainInv(c)'
  <2> DEFINE r == fire_count + 1
  <2>1. /\ pc' = [pc EXCEPT ![r] = "claim"] /\ manual' = manual \cup {r}
        /\ UNCHANGED <<execution_threads, tpc, worker, cpc, draining, joining, is_running, is_done>>
    BY <1>3 DEF TriggerNow, flagVars, slotVars, timerVars, callerVars
  <2>2. /\ pc \in [Run -> RunPc] /\ \A q \in Run \ {r} : pc'[q] = pc[q]
        /\ r \in manual' /\ (pc'[r] # "launch" \/ r \notin Run)
    BY <1>1, <2>1 DEF TypeOK
  <2>3. Launched'
    BY <2>1, <2>2 DEF DrainInv, Launched
  <2>4. OneTimer(c)'
    BY <2>1 DEF DrainInv, OneTimer, Started
  <2>5. DrainEmpties(c)'
    BY <2>1, <2>2 DEF DrainInv, DrainEmpties
  <2> QED
    BY <2>3, <2>4, <2>5 DEF DrainInv
<1>4. CASE Next
  BY <1>1, <1>2, <1>3, <1>4, DrainStart, DrainTimer, DrainRun, DrainStop DEF Next
<1> QED
  BY <1>2, <1>4

\* A job with one controller, whose runs do not stop it: when its stop() with
\* drain and without a timeout is about to mark it done, its timer is dead and
\* every scheduled run is over (stop, _wait_for_drain, _run_loop).
THEOREM JobDrainLeavesNothing ==
    ASSUME NEW c \in Controllers, Controllers = {c}, ~StopsFromRuns
    PROVE  Spec => []DrainLeavesNothing
<1>1. Init => DrainInv(c)
  BY DEF Init, DrainInv, Launched, OneTimer, Started, DrainEmpties, Caller
<1>2. JobInv /\ DrainInv(c) /\ [Next]_vars => DrainInv(c)'
  BY NextKeepsDrain
<1>3. DrainInv(c) => DrainLeavesNothing
  BY DEF DrainInv, OneTimer, DrainEmpties, DrainLeavesNothing, Caller
<1> QED
  BY <1>1, <1>2, <1>3, JobInvariant, PTL DEF Spec
=============================================================================
