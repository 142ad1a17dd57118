---------------------------- MODULE DecisionCall ----------------------------
(***************************************************************************)
(* _internal/decisions/dependencies.py, flow.py and flow_execution.py: a   *)
(* batch of managed calls or of decision plans.  Before a call runs its    *)
(* target it asks the questions of its stages, as early as their           *)
(* predecessors allow and within the limits of stage, group and batch; an  *)
(* answer may gate the call.  Whatever fails, rejects or is cancelled,     *)
(* every task is drained first.  A plan is a chain of stages, some of them *)
(* after the call.  Questions sent in one request are one question.        *)
(***************************************************************************)
EXTENDS Integers, FiniteSets

CONSTANTS
    Plans,          \* batches: the items, the stages of the target, its limits
    MaxCallerCancels

\* "After decision stages cannot gate completed output."
ASSUME PlanAssumption ==
    /\ MaxCallerCancels \in Nat
    /\ \A p \in Plans :
          /\ IsFiniteSet(p.items) /\ p.limit \in Nat
          /\ IsFiniteSet(DOMAIN p.stages) /\ "call" \notin DOMAIN p.stages
          /\ IsFiniteSet(UNION {p.stages[s].asks : s \in DOMAIN p.stages})
          /\ \A s \in DOMAIN p.stages :
                /\ p.stages[s].gates \subseteq p.stages[s].asks
                /\ "call" \in p.stages[s].after => p.stages[s].gates = {}

VARIABLES
    setup,           \* the batch at hand
    stage,          \* the task of each stage of each item
    ask,            \* each question of each stage of each item
    item,           \* execute_decision_call, for each item
    verdict,        \* how an item ended, or will end once it is drained
    batch,          \* DecisionFunction.abatch: gathering, draining, returned, raised
    callerCancels

decisionVars == <<setup, stage, ask, item, verdict, batch, callerCancels>>

Item == setup.items
Stage == DOMAIN setup.stages
Slot == {w \in Stage \X UNION {setup.stages[s].asks : s \in Stage} :
            w[2] \in setup.stages[w[1]].asks}
OfStage(s) == {w \in Slot : w[1] = s}

Answers == {"agrees", "differs", "baseline"}
Settled == Answers \cup {"failed", "cancelled"}
StageEnded == {"ok", "rejects", "failed", "cancelled"}

DecisionTypeOK ==
    /\ stage \in [Item \X Stage -> {"pending", "running", "failing", "cancelling", "recorded"}
                                    \cup StageEnded]
    /\ ask \in [Item \X Slot -> {"idle", "queued", "holding", "asking", "stopping"} \cup Settled]
    /\ item \in [Item -> {"new", "waiting", "skipping", "draining", "wanting", "calling",
                          "annotating", "leaving", "done"}]
    /\ verdict \in [Item -> {"none", "completed", "skipped", "failed", "cancelled"}]
    /\ batch \in {"gathering", "draining", "returned", "raised"}
    /\ callerCancels \in 0 .. MaxCallerCancels

DecisionInit ==
    /\ setup \in Plans
    /\ stage = [x \in Item \X Stage |-> "pending"] /\ ask = [x \in Item \X Slot |-> "idle"]
    /\ item = [i \in Item |-> "new"] /\ verdict = [i \in Item |-> "none"]
    /\ batch = "gathering" /\ callerCancels = 0

-----------------------------------------------------------------------------
(* The semaphores.                                                         *)

\* What holds the semaphore of the batch: a question on its way, and a target,
\* also while they clean up after a cancellation.
Operations ==
    {x \in Item \X Slot : ask[x] \in {"asking", "stopping"}}
        \cup {i \in Item : item[i] \in {"calling", "leaving"}} \X {<<>>}
OperationFree == Cardinality(Operations) < setup.limit

Held(i, s) == {w \in OfStage(s) : ask[<<i, w>>] \in {"holding", "asking", "stopping"}}
MayHold(i, s) ==
    /\ Cardinality(Held(i, s)) < setup.stages[s].limit
    /\ Cardinality(UNION {Held(i, t) : t \in Stage}) < setup.group

-----------------------------------------------------------------------------
(* Questions: run_stage and DecisionClient.adecide.                        *)

Asks(i, w, to) == ask' = [ask EXCEPT ![<<i, w>>] = to]

Hold(i, w) ==
    /\ ask[<<i, w>>] = "queued" /\ MayHold(i, w[1]) /\ Asks(i, w, "holding")
    /\ UNCHANGED <<setup, stage, item, verdict, batch, callerCancels>>

Dispatch(i, w) ==
    /\ ask[<<i, w>>] = "holding" /\ OperationFree /\ Asks(i, w, "asking")
    /\ UNCHANGED <<setup, stage, item, verdict, batch, callerCancels>>

\* The platform's accepted answer agrees with what the stage requires or
\* differs; a blocked, disabled, late, failed, invalid or hesitant answer is
\* replaced by the caller's baseline; a baseline may raise.
Answer(i, w, how) ==
    /\ ask[<<i, w>>] = "asking" /\ Asks(i, w, how)
    /\ UNCHANGED <<setup, stage, item, verdict, batch, callerCancels>>

Stopped(i, w) ==
    /\ ask[<<i, w>>] = "stopping" /\ Asks(i, w, "cancelled")
    /\ UNCHANGED <<setup, stage, item, verdict, batch, callerCancels>>

\* task.cancel(): a question on its way cleans up, any other is over.
AskStopped(x) ==
    IF ask[x] \in {"queued", "holding"} THEN "cancelled"
    ELSE IF ask[x] = "asking" THEN "stopping" ELSE ask[x]

-----------------------------------------------------------------------------
(* Stages.                                                                 *)

\* Mutation: whoever answered may skip the call.
RejectedByAnyone(i, s) ==
    \E q \in setup.stages[s].gates : ask[<<i, <<s, q>>>>] \in {"differs", "baseline"}

\* Only an accepted answer of the platform may skip the call.
Rejected(i, s) == \E q \in setup.stages[s].gates : ask[<<i, <<s, q>>>>] = "differs"

StageEnds(i, s) ==
    /\ stage[<<i, s>>] = "running" /\ \A w \in OfStage(s) : ask[<<i, w>>] \in Answers
    /\ stage' = [stage EXCEPT ![<<i, s>>] = IF Rejected(i, s) THEN "rejects" ELSE "ok"]
    /\ UNCHANGED <<setup, ask, item, verdict, batch, callerCancels>>

\* A factory raises or asks for what its gate cannot require: nothing is asked.
StageRefused(i, s) ==
    /\ stage[<<i, s>>] = "running" /\ \A w \in OfStage(s) : ask[<<i, w>>] = "queued"
    /\ stage' = [stage EXCEPT ![<<i, s>>] = "failed"]
    /\ ask' = [x \in Item \X Slot |-> IF x[1] = i /\ x[2] \in OfStage(s) THEN "idle" ELSE ask[x]]
    /\ UNCHANGED <<setup, item, verdict, batch, callerCancels>>

\* The first question that fails ends the gather; the others are drained.
StageFails(i, s) ==
    /\ stage[<<i, s>>] = "running" /\ \E w \in OfStage(s) : ask[<<i, w>>] = "failed"
    /\ stage' = [stage EXCEPT ![<<i, s>>] = "failing"]
    /\ ask' = [x \in Item \X Slot |->
                  IF x[1] = i /\ x[2] \in OfStage(s) THEN AskStopped(x) ELSE ask[x]]
    /\ UNCHANGED <<setup, item, verdict, batch, callerCancels>>

StageDrained(i, s) ==
    /\ stage[<<i, s>>] \in {"failing", "cancelling"}
    /\ \A w \in OfStage(s) : ask[<<i, w>>] \in Settled
    /\ stage' = [stage EXCEPT ![<<i, s>>] = IF @ = "failing" THEN "failed" ELSE "cancelled"]
    /\ UNCHANGED <<setup, ask, item, verdict, batch, callerCancels>>

\* drain(): every running stage of these items is cancelled.  A stage that
\* already drains its questions does not notice.
CancelStages(S) ==
    /\ stage' = [x \in Item \X Stage |->
                    IF x[1] \in S /\ stage[x] = "running" THEN "cancelling" ELSE stage[x]]
    /\ ask' = [x \in Item \X Slot |->
                  IF x[1] \in S /\ stage[<<x[1], x[2][1]>>] = "running" THEN AskStopped(x) ELSE ask[x]]

-----------------------------------------------------------------------------
(* Items: execute_decision_call.                                           *)

Ended(i) == {s \in Stage : stage[<<i, s>>] \in StageEnded}
Active(i) == {s \in Stage : stage[<<i, s>>] \in {"running", "failing", "cancelling"}}

Waiting == {"waiting", "annotating"}
BeforeCall == {s \in Stage : "call" \notin setup.stages[s].after}

\* The stages that may run once those of done are recorded.
Ready(i, done) == {s \in Stage : stage[<<i, s>>] = "pending" /\ setup.stages[s].after \subseteq done}

Starts(i, recorded, ready) ==
    /\ stage' = [x \in Item \X Stage |->
                    IF x[1] = i /\ x[2] \in recorded THEN "recorded"
                    ELSE IF x[1] = i /\ x[2] \in ready THEN "running" ELSE stage[x]]
    /\ ask' = [x \in Item \X Slot |->
                  IF x[1] = i /\ x[2][1] \in ready THEN "queued" ELSE ask[x]]

BeginItem(i) ==
    /\ item[i] = "new" /\ item' = [item EXCEPT ![i] = "waiting"]
    /\ Starts(i, {}, Ready(i, {}))
    /\ UNCHANGED <<setup, verdict, batch, callerCancels>>

Moves(i, to, as) ==
    /\ item' = [item EXCEPT ![i] = to] /\ verdict' = [verdict EXCEPT ![i] = as]
    /\ UNCHANGED <<setup, batch, callerCancels>>

\* Mutation: successors are scheduled after each completion.
CollectOne(i) ==
    \E s \in Ended(i) :
        LET recorded == {t \in Stage : stage[<<i, t>>] = "recorded"} \cup {s}
        IN /\ item[i] = "waiting"
           /\ \/ stage[<<i, s>>] = "ok" /\ Starts(i, {s}, Ready(i, recorded))
                 /\ Moves(i, IF BeforeCall \subseteq recorded THEN "wanting" ELSE "waiting", "none")
              \/ stage[<<i, s>>] = "rejects" /\ Moves(i, "skipping", "skipped") /\ CancelStages({i})
              \/ /\ stage[<<i, s>>] \in {"failed", "cancelled"}
                 /\ Moves(i, "draining", "failed") /\ CancelStages({i})

\* asyncio.wait returned: every completion is inspected before any successor
\* is scheduled.
Collect(i) ==
    LET ended == Ended(i)
        recorded == {s \in Stage : stage[<<i, s>>] = "recorded"} \cup ended
        ends(how) == \E s \in ended : stage[<<i, s>>] = how
        called == item[i] = "annotating"
    IN /\ item[i] \in Waiting /\ ended # {}
       /\ \/ /\ ends("failed") /\ Moves(i, "draining", "failed") /\ CancelStages({i})
          \/ /\ ~ends("failed") /\ ends("rejects")
             /\ Moves(i, "skipping", "skipped") /\ CancelStages({i})
          \/ /\ ~ends("failed") /\ ~ends("rejects")
             /\ Starts(i, ended, Ready(i, recorded \cup IF called THEN {"call"} ELSE {}))
             /\ IF called /\ recorded = Stage THEN Moves(i, "done", "completed")
                ELSE Moves(i, IF ~called /\ BeforeCall \subseteq recorded THEN "wanting" ELSE item[i],
                           "none")

ItemDrained(i) ==
    /\ item[i] \in {"skipping", "draining"} /\ Active(i) = {}
    /\ Moves(i, "done", verdict[i]) /\ UNCHANGED <<stage, ask>>

CallStarts(i) ==
    /\ item[i] = "wanting" /\ OperationFree
    /\ Moves(i, "calling", "none") /\ UNCHANGED <<stage, ask>>

CallEnds(i, how) ==
    /\ item[i] = "calling" /\ (how = "completed" => BeforeCall = Stage)
    /\ Moves(i, "done", how) /\ UNCHANGED <<stage, ask>>

\* A plan's stages that follow the call.
Annotates(i) ==
    /\ item[i] = "calling" /\ BeforeCall # Stage
    /\ Starts(i, {}, Ready(i, BeforeCall \cup {"call"})) /\ Moves(i, "annotating", "none")

\* A cancelled call stays with its worker thread.
CallLeft(i) ==
    /\ item[i] = "leaving" /\ Moves(i, "done", "cancelled") /\ UNCHANGED <<stage, ask>>

-----------------------------------------------------------------------------
(* The batch: DecisionFunction.abatch.                                     *)

\* Whoever drains already does not notice the cancellation.
CancelItems ==
    /\ item' = [i \in Item |->
                   IF item[i] \in {"new", "wanting"} THEN "done"
                   ELSE IF item[i] \in Waiting THEN "draining"
                   ELSE IF item[i] = "calling" THEN "leaving" ELSE item[i]]
    /\ verdict' = [i \in Item |->
                      IF item[i] \in {"new", "wanting"} \cup Waiting THEN "cancelled" ELSE verdict[i]]
    /\ CancelStages({i \in Item : item[i] \in Waiting})

\* Mutation: the tasks are awaited without a shield: a cancellation ends it.
CancelAgainLeaves ==
    /\ callerCancels < MaxCallerCancels /\ callerCancels' = callerCancels + 1
    /\ batch = "draining" /\ batch' = "raised" /\ UNCHANGED <<setup, stage, ask, item, verdict>>

\* drain(): repeated cancellation is swallowed.
CancelAgain ==
    /\ callerCancels < MaxCallerCancels /\ callerCancels' = callerCancels + 1
    /\ batch = "draining" /\ UNCHANGED <<setup, stage, ask, item, verdict, batch>>

CancelBatch ==
    /\ callerCancels < MaxCallerCancels /\ callerCancels' = callerCancels + 1
    /\ batch = "gathering" /\ batch' = "draining"
    /\ CancelItems /\ UNCHANGED setup

BatchFails ==
    /\ batch = "gathering" /\ \E i \in Item : item[i] = "done" /\ verdict[i] = "failed"
    /\ batch' = "draining" /\ CancelItems /\ UNCHANGED <<setup, callerCancels>>

BatchEnds ==
    /\ \A i \in Item : item[i] = "done"
    /\ \/ batch = "draining" /\ batch' = "raised"
       \/ /\ batch = "gathering" /\ \A i \in Item : verdict[i] # "failed"
          /\ batch' = "returned"
    /\ UNCHANGED <<setup, stage, ask, item, verdict, callerCancels>>

QuestionStep ==
    \E i \in Item, w \in Slot :
        \/ Hold(i, w) \/ Dispatch(i, w) \/ Stopped(i, w)
        \/ \E how \in Answers \cup {"failed"} : Answer(i, w, how)
StageStep == \E i \in Item, s \in Stage : 
    StageRefused(i, s) \/ StageEnds(i, s) \/ StageFails(i, s) \/ StageDrained(i, s)
ItemStep ==
    \E i \in Item :
        \/ BeginItem(i) \/ Collect(i) \/ ItemDrained(i) \/ CallStarts(i) \/ Annotates(i)
        \/ CallLeft(i)
        \/ \E how \in {"completed", "failed"} : CallEnds(i, how)

DecisionNext ==
    \/ QuestionStep \/ StageStep \/ ItemStep
    \/ BatchFails \/ BatchEnds \/ CancelBatch \/ CancelAgain

DecisionSpec == DecisionInit /\ [][DecisionNext]_decisionVars

-----------------------------------------------------------------------------
(* Properties.                                                             *)

\* Once the caller has the result or the exception, no question is on its way
\* and no target runs, however often the batch was cancelled; and the limit of
\* the batch held throughout.
NothingLeftBehind ==
    /\ Cardinality(Operations) <= setup.limit
    /\ batch \in {"returned", "raised"} => Operations = {} /\ \A i \in Item : item[i] = "done"
    /\ \A i \in Item : item[i] = "done" => Active(i) = {}

\* A target runs only when every gate let it, and a call is skipped only
\* because the platform answered otherwise, never because of the baseline.
GateDecides ==
    \A i \in Item :
        LET against == {w \in Slot : w[2] \in setup.stages[w[1]].gates /\ ask[<<i, w>>] = "differs"}
        IN /\ item[i] \in {"calling", "annotating", "leaving"} \/ verdict[i] = "completed" =>
                against = {} /\ \A w \in Slot : w[1] \in BeforeCall => ask[<<i, w>>] \in Answers
           /\ verdict[i] = "skipped" => against # {}

\* "Inspect every completion before scheduling any successors": no stage of a
\* call starts once another has ended with a rejection or an exception.
NoSuccessorOfRejection ==
    [][\A i \in Item, s \in Stage :
          stage[<<i, s>>] = "pending" /\ stage'[<<i, s>>] = "running"
              => \A t \in Stage : stage[<<i, t>>] \notin {"rejects", "failed"}]_decisionVars
=============================================================================
