----------------------------- MODULE TurnProofs ------------------------------
(***************************************************************************)
(* For any plans, a batch of decisions leaves nothing behind, its limit    *)
(* holds, and only an accepted answer of the platform skips a call; for any *)
(* assignments, hooks that ran before are answered by hooks that run after; *)
(* for any sessions and positions, a replay of a bound thread skips no event *)
(* that is unaccounted for, and a stream that opted in leaves no session running. *)
(***************************************************************************)
EXTENDS DecisionCall, ScopeHooks, BoundThread, FiniteSetTheorems, SequenceTheorems, TLAPS

-----------------------------------------------------------------------------
(* DecisionCall                                                            *)

ActiveStates == {"running", "failing", "cancelling"}
Pends == {"queued", "holding", "asking", "stopping"}

StageTypes == {"pending", "running", "failing", "cancelling", "recorded"} \cup StageEnded
AskTypes == {"idle", "queued", "holding", "asking", "stopping"} \cup Settled

\* The questions of a stage, against the stage.
StageInv(i, s) ==
    /\ stage[<<i, s>>] = "pending" => \A w \in OfStage(s) : ask[<<i, w>>] = "idle"
    /\ stage[<<i, s>>] \notin ActiveStates => \A w \in OfStage(s) : ask[<<i, w>>] \notin Pends
    /\ stage[<<i, s>>] \in {"ok", "recorded"} =>
          \A w \in OfStage(s) : /\ ask[<<i, w>>] \in Answers
                                /\ w[2] \in setup.stages[s].gates => ask[<<i, w>>] # "differs"
    /\ stage[<<i, s>>] = "rejects" =>
          \E w \in OfStage(s) : w[2] \in setup.stages[s].gates /\ ask[<<i, w>>] = "differs"

Against(i) == \E w \in Slot : w[2] \in setup.stages[w[1]].gates /\ ask[<<i, w>>] = "differs"
BeforeDone(i) == \A s \in BeforeCall : stage[<<i, s>>] = "recorded"
AfterPending(i) == \A s \in Stage \ BeforeCall : stage[<<i, s>>] = "pending"

\* An item that nobody drains: none of its stages is cancelled.
Undisturbed == {"new", "waiting", "wanting", "calling", "annotating"}

\* The stages of an item, against the item.
ItemInv(i) ==
    /\ item[i] = "new" => \A s \in Stage : stage[<<i, s>>] = "pending"
    /\ item[i] \in {"new", "waiting", "wanting", "calling", "leaving"} => AfterPending(i)
    /\ item[i] \in {"wanting", "calling", "annotating", "leaving"} => BeforeDone(i)
    /\ item[i] \in Undisturbed => \A s \in Stage : stage[<<i, s>>] \notin {"cancelling", "cancelled"}
    /\ item[i] = "done" => Active(i) = {}
    /\ verdict[i] = "skipped" => Against(i)
    /\ verdict[i] = "completed" => item[i] = "done" /\ BeforeDone(i)

BatchInv == batch \in {"returned", "raised"} => \A i \in Item : item[i] = "done"

CallInv ==
    /\ setup \in Plans /\ DecisionTypeOK
    /\ \A i \in Item, s \in Stage : StageInv(i, s)
    /\ \A i \in Item : ItemInv(i)
    /\ BatchInv

-----------------------------------------------------------------------------
(* What a step leaves alone.                                               *)

LEMMA SlotOfStage ==
    /\ \A w \in Slot : w[1] \in Stage /\ w \in OfStage(w[1])
    /\ \A s \in Stage : \A w \in OfStage(s) : w \in Slot /\ w[1] = s
    /\ \A s \in Stage : \A q \in setup.stages[s].asks : <<s, q>> \in OfStage(s)
  BY DEF Slot, OfStage

LEMMA SameStage ==
    ASSUME NEW i, NEW s, setup' = setup, StageInv(i, s), stage'[<<i, s>>] = stage[<<i, s>>],
           \A w \in OfStage(s) : ask'[<<i, w>>] = ask[<<i, w>>]
    PROVE  StageInv(i, s)'
  <1>1. OfStage(s)' = OfStage(s)
    BY DEF OfStage, Slot, Stage
  <1> QED BY <1>1 DEF StageInv

\* A stage that is at work says nothing of its questions.
LEMMA BusyStage ==
    ASSUME NEW i, NEW s, stage'[<<i, s>>] \in ActiveStates PROVE StageInv(i, s)'
  BY DEF StageInv, ActiveStates

LEMMA SameItem ==
    ASSUME NEW i, setup' = setup, ItemInv(i), item'[i] = item[i], verdict'[i] = verdict[i],
           \A s \in Stage : stage'[<<i, s>>] = stage[<<i, s>>],
           \A w \in Slot : ask[<<i, w>>] = "differs" => ask'[<<i, w>>] = "differs"
    PROVE  ItemInv(i)'
  <1>1. Stage' = Stage /\ BeforeCall' = BeforeCall /\ Slot' = Slot
    BY DEF Stage, BeforeCall, Slot
  <1>2. AfterPending(i)' = AfterPending(i) /\ BeforeDone(i)' = BeforeDone(i) /\ Active(i)' = Active(i)
    <2>1. BeforeCall \subseteq Stage
      BY DEF BeforeCall
    <2> QED BY <1>1, <2>1 DEF AfterPending, BeforeDone, Active
  <1>3. Against(i) => Against(i)'
    BY <1>1 DEF Against
  <1> QED BY <1>1, <1>2, <1>3 DEF ItemInv

LEMMA CallInitInv == DecisionInit => CallInv
  <1> SUFFICES ASSUME DecisionInit PROVE CallInv
    OBVIOUS
  <1>1. DecisionTypeOK
    BY PlanAssumption DEF DecisionInit, DecisionTypeOK
  <1>2. ASSUME NEW i \in Item, NEW s \in Stage PROVE StageInv(i, s)
    BY SlotOfStage DEF DecisionInit, StageInv, ActiveStates, Pends
  <1>3. ASSUME NEW i \in Item PROVE ItemInv(i)
    BY DEF DecisionInit, ItemInv, AfterPending, BeforeDone, Active
  <1> QED BY <1>1, <1>2, <1>3 DEF DecisionInit, CallInv, BatchInv

LEMMA Types ==
    ASSUME CallInv
    PROVE  /\ stage \in [Item \X Stage -> StageTypes] /\ ask \in [Item \X Slot -> AskTypes]
           /\ \A i \in Item, s \in Stage : <<i, s>> \in Item \X Stage
           /\ \A i \in Item, w \in Slot : <<i, w>> \in Item \X Slot
  BY DEF CallInv, DecisionTypeOK, StageTypes, AskTypes

-----------------------------------------------------------------------------
(* Questions.                                                              *)

\* One question moves, while its stage is at work.
LEMMA AskMoves ==
    ASSUME CallInv, NEW i \in Item, NEW w \in Slot, NEW to \in AskTypes,
           ask[<<i, w>>] \in Pends, Asks(i, w, to),
           UNCHANGED <<setup, stage, item, verdict, batch, callerCancels>>
    PROVE  CallInv'
  <1>1. Stage' = Stage /\ Slot' = Slot /\ Item' = Item
    BY DEF Stage, Slot, Item
  <1>2. ask' = [ask EXCEPT ![<<i, w>>] = to]
    BY DEF Asks
  <1>3. DecisionTypeOK'
    BY <1>1, <1>2, Types DEF CallInv, DecisionTypeOK, AskTypes
  <1>4. ASSUME NEW j \in Item, NEW s \in Stage PROVE StageInv(j, s)'
    <2>1. CASE j = i /\ s = w[1]
      <3>1. w \in OfStage(s) /\ StageInv(i, s) /\ stage[<<i, s>>] \in StageTypes
        BY <2>1, SlotOfStage, Types DEF CallInv
      <3>2. stage[<<i, s>>] \in ActiveStates
        BY <3>1 DEF StageInv
      <3> QED BY <2>1, <3>2, BusyStage
    <2>2. CASE ~(j = i /\ s = w[1])
      <3>1. \A v \in OfStage(s) : <<j, v>> # <<i, w>> /\ <<j, v>> \in Item \X Slot
        BY <2>2, SlotOfStage, Types
      <3>2. \A v \in OfStage(s) : ask'[<<j, v>>] = ask[<<j, v>>]
        BY <1>2, <3>1, Types
      <3> QED BY <3>2, SameStage DEF CallInv
    <2> QED BY <2>1, <2>2
  <1>5. ASSUME NEW j \in Item PROVE ItemInv(j)'
    <2>1. ASSUME NEW v \in Slot, ask[<<j, v>>] = "differs" PROVE ask'[<<j, v>>] = "differs"
      <3>1. <<j, v>> # <<i, w>>
        BY <2>1 DEF Pends
      <3> QED BY <1>2, <2>1, <3>1, Types
    <2> QED BY <2>1, SameItem DEF CallInv
  <1> QED BY <1>1, <1>3, <1>4, <1>5 DEF CallInv, BatchInv

LEMMA QuestionStepInv == ASSUME CallInv, QuestionStep PROVE CallInv'
  <1> PICK i \in Item, w \in Slot :
        \/ Hold(i, w) \/ Dispatch(i, w) \/ Stopped(i, w)
        \/ \E how \in Answers \cup {"failed"} : Answer(i, w, how)
    BY DEF QuestionStep
  <1>1. CASE Hold(i, w)
    BY <1>1, AskMoves DEF Hold, Pends, AskTypes
  <1>2. CASE Dispatch(i, w)
    BY <1>2, AskMoves DEF Dispatch, Pends, AskTypes
  <1>3. CASE Stopped(i, w)
    BY <1>3, AskMoves DEF Stopped, Pends, AskTypes, Settled
  <1>4. ASSUME NEW how \in Answers \cup {"failed"}, Answer(i, w, how) PROVE CallInv'
    BY <1>4, AskMoves DEF Answer, Pends, AskTypes, Settled
  <1> QED BY <1>1, <1>2, <1>3, <1>4

-----------------------------------------------------------------------------
(* Stages.                                                                 *)

\* One stage that is at work moves, with its own questions.
LEMMA StageMoves ==
    ASSUME CallInv, NEW i \in Item, NEW s \in Stage, NEW to \in StageTypes,
           stage[<<i, s>>] \in ActiveStates, stage' = [stage EXCEPT ![<<i, s>>] = to],
           to \in {"cancelling", "cancelled"} => stage[<<i, s>>] = "cancelling",
           StageInv(i, s)', ask' \in [Item \X Slot -> AskTypes],
           \A j \in Item, w \in Slot :
               \/ ask'[<<j, w>>] = ask[<<j, w>>]
               \/ j = i /\ w \in OfStage(s) /\ ask[<<j, w>>] # "differs",
           UNCHANGED <<setup, item, verdict, batch, callerCancels>>
    PROVE  CallInv'
  <1>1. Stage' = Stage /\ Slot' = Slot /\ Item' = Item /\ BeforeCall' = BeforeCall
    BY DEF Stage, Slot, Item, BeforeCall
  <1>2. \A j \in Item, t \in Stage : stage'[<<j, t>>] = IF j = i /\ t = s THEN to ELSE stage[<<j, t>>]
    BY Types
  <1>3. DecisionTypeOK'
    <2>1. stage' \in [Item \X Stage -> StageTypes]
      BY Types
    <2> QED BY <1>1, <2>1 DEF CallInv, DecisionTypeOK, AskTypes, StageTypes
  <1>4. ASSUME NEW j \in Item, NEW t \in Stage, ~(j = i /\ t = s) PROVE StageInv(j, t)'
    <2>1. ASSUME NEW v \in OfStage(t) PROVE ask'[<<j, v>>] = ask[<<j, v>>]
      <3>1. v \in Slot /\ v[1] = t
        BY <2>1, SlotOfStage
      <3>2. ~(j = i /\ v \in OfStage(s))
        BY <1>4, <3>1, SlotOfStage
      <3> QED BY <3>1, <3>2
    <2>2. stage'[<<j, t>>] = stage[<<j, t>>] /\ StageInv(j, t)
      BY <1>2, <1>4 DEF CallInv
    <2> QED BY <2>1, <2>2, SameStage
  <1>5. ASSUME NEW j \in Item, NEW w \in Slot, ask[<<j, w>>] = "differs"
        PROVE  ask'[<<j, w>>] = "differs"
    BY <1>5, Types
  <1>6. ASSUME NEW j \in Item, j # i PROVE ItemInv(j)'
    BY <1>2, <1>5, <1>6, SameItem DEF CallInv
  <1>7. ItemInv(i)'
    <2>1. ItemInv(i) /\ item'[i] = item[i] /\ verdict'[i] = verdict[i]
      BY DEF CallInv
    <2>2. BeforeCall \subseteq Stage
      BY DEF BeforeCall
    <2>3. item[i] # "new" /\ item[i] # "done"
      BY <2>1 DEF ItemInv, ActiveStates, Active
    <2>4. AfterPending(i) => AfterPending(i)'
      BY <1>1, <1>2 DEF AfterPending, ActiveStates
    <2>5. BeforeDone(i) => BeforeDone(i)'
      BY <1>1, <1>2, <2>2 DEF BeforeDone, ActiveStates
    <2>6. Against(i) => Against(i)'
      BY <1>1, <1>5 DEF Against
    <2>7. item[i] \in Undisturbed => \A t \in Stage : stage'[<<i, t>>] \notin {"cancelling", "cancelled"}
      BY <1>2, <2>1 DEF ItemInv
    <2> QED BY <1>1, <2>1, <2>3, <2>4, <2>5, <2>6, <2>7 DEF ItemInv
  <1> QED BY <1>1, <1>3, <1>4, <1>6, <1>7 DEF CallInv, BatchInv

LEMMA StageStepInv == ASSUME CallInv, StageStep PROVE CallInv'
  <1> PICK i \in Item, s \in Stage :
        StageRefused(i, s) \/ StageEnds(i, s) \/ StageFails(i, s) \/ StageDrained(i, s)
    BY DEF StageStep
  <1> DEFINE old == stage[<<i, s>>]
  <1>t. /\ <<i, s>> \in Item \X Stage
        /\ \A w \in OfStage(s) : <<i, w>> \in Item \X Slot /\ ask[<<i, w>>] \in AskTypes
    BY SlotOfStage, Types
  <1>1. CASE StageRefused(i, s)
    <2>1. setup' = setup /\ OfStage(s)' = OfStage(s)
      BY <1>1 DEF StageRefused, OfStage, Slot, Stage
    <2>2. \A w \in OfStage(s) : ask'[<<i, w>>] = "idle"
      BY <1>1, <1>t DEF StageRefused
    <2>3. stage'[<<i, s>>] = "failed"
      BY <1>1, <1>t, Types DEF StageRefused
    <2>4. StageInv(i, s)'
      BY <2>1, <2>2, <2>3 DEF StageInv, Pends
    <2>5. ask' \in [Item \X Slot -> AskTypes]
      BY <1>1, Types DEF StageRefused, AskTypes
    <2>6. \A j \in Item, w \in Slot :
             \/ ask'[<<j, w>>] = ask[<<j, w>>]
             \/ j = i /\ w \in OfStage(s) /\ ask[<<j, w>>] # "differs"
      BY <1>1, Types DEF StageRefused
    <2> QED BY <1>1, <2>4, <2>5, <2>6, StageMoves
            DEF StageRefused, StageTypes, StageEnded, ActiveStates
  <1>2. CASE StageEnds(i, s)
    <2> DEFINE to == IF Rejected(i, s) THEN "rejects" ELSE "ok"
    <2>1. setup' = setup /\ OfStage(s)' = OfStage(s) /\ ask' = ask
      BY <1>2 DEF StageEnds, OfStage, Slot, Stage
    <2>2. stage'[<<i, s>>] = to
      BY <1>2, <1>t, Types DEF StageEnds
    <2>3. \A w \in OfStage(s) : ask[<<i, w>>] \in Answers
      BY <1>2 DEF StageEnds
    <2>4. setup.stages[s].gates \subseteq setup.stages[s].asks
      BY PlanAssumption DEF CallInv, Stage
    <2>7. StageInv(i, s)'
      <3>5. CASE Rejected(i, s)
        <4>1. PICK q \in setup.stages[s].gates : ask[<<i, <<s, q>>>>] = "differs"
          BY <3>5 DEF Rejected
        <4>2. <<s, q>> \in OfStage(s)
          BY <2>4, <4>1, SlotOfStage
        <4>3. stage'[<<i, s>>] = "rejects"
          BY <2>2, <3>5
        <4> QED BY <2>1, <2>3, <4>1, <4>2, <4>3 DEF StageInv, Pends, Answers
      <3>6. CASE ~Rejected(i, s)
        <4>1. ASSUME NEW w \in OfStage(s), w[2] \in setup.stages[s].gates
              PROVE  ask[<<i, w>>] # "differs"
          <5>1. w = <<s, w[2]>>
            BY SlotOfStage DEF Slot
          <5> QED BY <3>6, <4>1, <5>1 DEF Rejected
        <4>2. stage'[<<i, s>>] = "ok"
          BY <2>2, <3>6
        <4> QED BY <2>1, <2>3, <4>1, <4>2 DEF StageInv, Pends, Answers
      <3> QED BY <3>5, <3>6
    <2>8. to \in StageTypes /\ to \notin {"cancelling", "cancelled"} /\ old \in ActiveStates
      BY <1>2 DEF StageEnds, StageTypes, StageEnded, ActiveStates
    <2>9. /\ stage' = [stage EXCEPT ![<<i, s>>] = to]
          /\ UNCHANGED <<setup, item, verdict, batch, callerCancels>>
      BY <1>2 DEF StageEnds
    <2> HIDE DEF to
    <2> QED BY <2>1, <2>7, <2>8, <2>9, StageMoves, Types
  <1>3. CASE StageFails(i, s)
    <2>1. stage'[<<i, s>>] = "failing"
      BY <1>3, <1>t, Types DEF StageFails
    <2>2. StageInv(i, s)'
      BY <2>1, BusyStage DEF ActiveStates
    <2>3. \A x \in Item \X Slot : AskStopped(x) \in AskTypes /\ (ask[x] = "differs" => AskStopped(x) = ask[x])
      BY Types DEF AskStopped, AskTypes, Settled
    <2>4. ask' \in [Item \X Slot -> AskTypes]
      BY <1>3, <2>3, Types DEF StageFails
    <2>5. \A j \in Item, w \in Slot :
             \/ ask'[<<j, w>>] = ask[<<j, w>>]
             \/ j = i /\ w \in OfStage(s) /\ ask[<<j, w>>] # "differs"
      BY <1>3, <2>3, Types DEF StageFails
    <2>6. /\ "failing" \in StageTypes /\ old \in ActiveStates
          /\ stage' = [stage EXCEPT ![<<i, s>>] = "failing"]
          /\ UNCHANGED <<setup, item, verdict, batch, callerCancels>>
      BY <1>3 DEF StageFails, StageTypes, StageEnded, ActiveStates
    <2> QED BY <2>2, <2>4, <2>5, <2>6, StageMoves
  <1>4. CASE StageDrained(i, s)
    <2>1. setup' = setup /\ OfStage(s)' = OfStage(s) /\ ask' = ask
      BY <1>4 DEF StageDrained, OfStage, Slot, Stage
    <2> DEFINE to == IF old = "failing" THEN "failed" ELSE "cancelled"
    <2>2. stage' = [stage EXCEPT ![<<i, s>>] = to]
      BY <1>4 DEF StageDrained
    <2>3. stage'[<<i, s>>] \in {"failed", "cancelled"}
      BY <1>t, <2>2, Types
    <2>4. StageInv(i, s)'
      BY <1>4, <2>1, <2>3 DEF StageDrained, StageInv, Pends, Settled, Answers
    <2>5. /\ to \in StageTypes /\ old \in ActiveStates
          /\ to \in {"cancelling", "cancelled"} => old = "cancelling"
          /\ UNCHANGED <<setup, item, verdict, batch, callerCancels>>
      BY <1>4 DEF StageDrained, StageTypes, StageEnded, ActiveStates
    <2> HIDE DEF to
    <2> QED BY <2>1, <2>2, <2>4, <2>5, StageMoves, Types
  <1> QED BY <1>1, <1>2, <1>3, <1>4

-----------------------------------------------------------------------------
(* What items do to their stages.                                          *)

\* Stages whose predecessors are recorded start, those that answered are
\* recorded: no other stage and no answer changes.
LEMMA StartsKeeps ==
    ASSUME CallInv, NEW i \in Item, NEW recorded \in SUBSET Stage, NEW ready \in SUBSET Stage,
           \A s \in recorded : stage[<<i, s>>] = "ok",
           \A s \in ready : stage[<<i, s>>] = "pending",
           Starts(i, recorded, ready), setup' = setup
    PROVE  /\ stage' \in [Item \X Stage -> StageTypes] /\ ask' \in [Item \X Slot -> AskTypes]
           /\ \A j \in Item, s \in Stage :
                 StageInv(j, s)' /\ (j # i => stage'[<<j, s>>] = stage[<<j, s>>])
           /\ \A j \in Item, w \in Slot : ask[<<j, w>>] = "differs" => ask'[<<j, w>>] = "differs"
  <1>1. stage' \in [Item \X Stage -> StageTypes]
    BY Types DEF Starts, StageTypes
  <1>2. ask' \in [Item \X Slot -> AskTypes]
    BY Types DEF Starts, AskTypes
  <1>3. \A j \in Item, s \in Stage :
           stage'[<<j, s>>] = IF j = i /\ s \in recorded THEN "recorded"
                              ELSE IF j = i /\ s \in ready THEN "running" ELSE stage[<<j, s>>]
    BY Types DEF Starts
  <1>4. \A j \in Item, w \in Slot :
           ask'[<<j, w>>] = IF j = i /\ w[1] \in ready THEN "queued" ELSE ask[<<j, w>>]
    BY Types DEF Starts
  <1>5. ASSUME NEW j \in Item, NEW w \in Slot, ask[<<j, w>>] = "differs" PROVE ask'[<<j, w>>] = "differs"
    <2>1. CASE j = i /\ w[1] \in ready
      <3>1. w[1] \in Stage /\ w \in OfStage(w[1]) /\ stage[<<i, w[1]>>] = "pending" /\ StageInv(i, w[1])
        BY <2>1, SlotOfStage DEF CallInv
      <3> QED BY <1>5, <2>1, <3>1 DEF StageInv
    <2>2. CASE ~(j = i /\ w[1] \in ready)
      BY <1>4, <1>5, <2>2
    <2> QED BY <2>1, <2>2
  <1>6. ASSUME NEW j \in Item, NEW s \in Stage PROVE StageInv(j, s)'
    <2>1. CASE j = i /\ s \in ready
      <3>1. stage'[<<j, s>>] = "running"
        BY <1>3, <2>1
      <3> QED BY <3>1, BusyStage DEF ActiveStates
    <2>2. CASE ~(j = i /\ s \in ready)
      <3>1. \A w \in OfStage(s) : ask'[<<j, w>>] = ask[<<j, w>>]
        BY <1>4, <2>2, SlotOfStage
      <3>2. CASE j = i /\ s \in recorded
        <4>1. stage[<<i, s>>] = "ok" /\ stage'[<<i, s>>] = "recorded" /\ StageInv(i, s)
          BY <1>3, <3>2 DEF CallInv
        <4>2. OfStage(s)' = OfStage(s)
          BY DEF OfStage, Slot, Stage
        <4> QED BY <3>1, <3>2, <4>1, <4>2 DEF StageInv, ActiveStates
      <3>3. CASE ~(j = i /\ s \in recorded)
        BY <1>3, <2>2, <3>1, <3>3, SameStage DEF CallInv
      <3> QED BY <3>2, <3>3
    <2> QED BY <2>1, <2>2
  <1> QED BY <1>1, <1>2, <1>3, <1>4, <1>5, <1>6

\* A drain cancels what runs and takes no answer back.
LEMMA CancelKeeps ==
    ASSUME CallInv, NEW S, CancelStages(S), setup' = setup
    PROVE  /\ stage' \in [Item \X Stage -> StageTypes] /\ ask' \in [Item \X Slot -> AskTypes]
           /\ \A j \in Item, s \in Stage :
                 /\ StageInv(j, s)'
                 /\ j \notin S \/ stage[<<j, s>>] # "running" => stage'[<<j, s>>] = stage[<<j, s>>]
                 /\ j \in S /\ stage[<<j, s>>] = "running" => stage'[<<j, s>>] = "cancelling"
           /\ \A j \in Item, w \in Slot :
                 /\ ask[<<j, w>>] = "differs" => ask'[<<j, w>>] = "differs"
                 /\ ask'[<<j, w>>] = "asking" => ask[<<j, w>>] = "asking"
                 /\ ask'[<<j, w>>] = "stopping" => ask[<<j, w>>] \in {"asking", "stopping"}
  <1>1. stage' \in [Item \X Stage -> StageTypes]
    BY Types DEF CancelStages, StageTypes
  <1>3. ask' \in [Item \X Slot -> AskTypes]
    <2>1. Item' = Item /\ Slot' = Slot
      BY DEF Item, Slot, Stage
    <2> QED BY <2>1, Types DEF CancelStages, AskStopped, AskTypes, Settled
  <1>4. \A j \in Item, s \in Stage :
           stage'[<<j, s>>] = IF j \in S /\ stage[<<j, s>>] = "running" THEN "cancelling" ELSE stage[<<j, s>>]
    BY Types DEF CancelStages
  <1>5. \A j \in Item, w \in Slot :
           ask'[<<j, w>>] = IF j \in S /\ stage[<<j, w[1]>>] = "running" THEN AskStopped(<<j, w>>)
                            ELSE ask[<<j, w>>]
    BY Types DEF CancelStages
  <1>6. ASSUME NEW j \in Item, NEW w \in Slot
        PROVE  /\ ask[<<j, w>>] = "differs" => ask'[<<j, w>>] = "differs"
               /\ ask'[<<j, w>>] = "asking" => ask[<<j, w>>] = "asking"
               /\ ask'[<<j, w>>] = "stopping" => ask[<<j, w>>] \in {"asking", "stopping"}
    BY <1>5 DEF AskStopped
  <1>7. ASSUME NEW j \in Item, NEW s \in Stage PROVE StageInv(j, s)'
    <2>1. CASE j \in S /\ stage[<<j, s>>] = "running"
      <3>1. stage'[<<j, s>>] = "cancelling"
        BY <1>4, <2>1
      <3> QED BY <3>1, BusyStage DEF ActiveStates
    <2>2. CASE ~(j \in S /\ stage[<<j, s>>] = "running")
      <3>1. \A w \in OfStage(s) : ask'[<<j, w>>] = ask[<<j, w>>]
        BY <1>5, <2>2, SlotOfStage
      <3> QED BY <1>4, <2>2, <3>1, SameStage DEF CallInv
    <2> QED BY <2>1, <2>2
  <1> QED BY <1>1, <1>3, <1>4, <1>6, <1>7

\* One item moves on; nothing of the others changes.
LEMMA OneItem ==
    ASSUME CallInv, NEW i \in Item, NEW to, NEW as, item[i] # "done", Moves(i, to, as),
           to \in {"waiting", "skipping", "draining", "wanting", "calling", "annotating", "done"},
           as \in {"none", "completed", "skipped", "failed", "cancelled"},
           stage' \in [Item \X Stage -> StageTypes], ask' \in [Item \X Slot -> AskTypes],
           \A j \in Item, s \in Stage :
               StageInv(j, s)' /\ (j # i => stage'[<<j, s>>] = stage[<<j, s>>]),
           \A j \in Item, w \in Slot : ask[<<j, w>>] = "differs" => ask'[<<j, w>>] = "differs",
           item'[i] = to /\ verdict'[i] = as => ItemInv(i)'
    PROVE  CallInv'
  <1>1. Stage' = Stage /\ Slot' = Slot /\ Item' = Item /\ setup' = setup
    BY DEF Stage, Slot, Item, Moves
  <1>2. /\ item' = [item EXCEPT ![i] = to] /\ verdict' = [verdict EXCEPT ![i] = as]
        /\ batch' = batch /\ callerCancels' = callerCancels
    BY DEF Moves
  <1>3. DecisionTypeOK'
    BY <1>1, <1>2 DEF CallInv, DecisionTypeOK, StageTypes, AskTypes
  <1>4. \A j \in Item : /\ item'[j] = IF j = i THEN to ELSE item[j]
                       /\ verdict'[j] = IF j = i THEN as ELSE verdict[j]
    BY <1>2 DEF CallInv, DecisionTypeOK
  <1>5. ASSUME NEW j \in Item, j # i PROVE ItemInv(j)'
    BY <1>1, <1>4, <1>5, SameItem DEF CallInv
  <1>6. ItemInv(i)'
    BY <1>4
  <1>7. BatchInv'
    BY <1>1, <1>2 DEF CallInv, BatchInv
  <1> QED BY <1>1, <1>3, <1>5, <1>6, <1>7 DEF CallInv

\* What follows the call cannot be ready before it.
LEMMA ReadyBeforeCall ==
    ASSUME CallInv, NEW i \in Item, NEW done \in SUBSET Stage, NEW s \in Ready(i, done)
    PROVE  s \in BeforeCall
  BY PlanAssumption DEF CallInv, Ready, BeforeCall, Stage

-----------------------------------------------------------------------------
(* Items.                                                                  *)

\* What the parts of an item's invariant say after a step.
LEMMA AfterStep ==
    ASSUME NEW i, setup' = setup
    PROVE  /\ Stage' = Stage /\ BeforeCall' = BeforeCall /\ BeforeCall \subseteq Stage
           /\ AfterPending(i)' <=> \A s \in Stage \ BeforeCall : stage'[<<i, s>>] = "pending"
           /\ BeforeDone(i)' <=> \A s \in BeforeCall : stage'[<<i, s>>] = "recorded"
           /\ Active(i)' = {s \in Stage : stage'[<<i, s>>] \in {"running", "failing", "cancelling"}}
  BY DEF Stage, BeforeCall, AfterPending, BeforeDone, Active

LEMMA AgainstStays ==
    ASSUME NEW i \in Item, setup' = setup, Against(i),
           \A w \in Slot : ask[<<i, w>>] = "differs" => ask'[<<i, w>>] = "differs"
    PROVE  Against(i)'
  <1>1. Slot' = Slot
    BY DEF Slot, Stage
  <1> QED BY <1>1, Zenon DEF Against

\* Before a call runs, or instead of it, none of its stages is at work.
LEMMA NoneAtWork ==
    ASSUME NEW i, BeforeDone(i), AfterPending(i) PROVE Active(i) = {}
  BY DEF BeforeDone, AfterPending, Active

\* A stage has its state: what the failed, the rejecting and the good ones are.
LEMMA EndedStates ==
    ASSUME NEW i, NEW s \in Ended(i), \A t \in Ended(i) : stage[<<i, t>>] \notin {"failed", "rejects"},
           stage[<<i, s>>] # "cancelled"
    PROVE  s \in Stage /\ stage[<<i, s>>] = "ok"
  BY DEF Ended, StageEnded

LEMMA DrainInv ==
    ASSUME CallInv, NEW i \in Item, item[i] \in Waiting, CancelStages({i}),
           NEW to \in {"skipping", "draining"}, NEW as \in {"skipped", "failed"}, Moves(i, to, as),
           as = "skipped" => Against(i)
    PROVE  CallInv'
  <1>1. setup' = setup
    BY DEF Moves
  <1>2. /\ stage' \in [Item \X Stage -> StageTypes] /\ ask' \in [Item \X Slot -> AskTypes]
        /\ \A j \in Item, s \in Stage :
              StageInv(j, s)' /\ (j # i => stage'[<<j, s>>] = stage[<<j, s>>])
        /\ \A j \in Item, w \in Slot : ask[<<j, w>>] = "differs" => ask'[<<j, w>>] = "differs"
    <2>1. \A j \in Item, s \in Stage : j # i => j \notin {i}
      OBVIOUS
    <2> QED BY <1>1, <2>1, CancelKeeps, Zenon
  <1>3. Against(i) => Against(i)'
    BY <1>1, <1>2, AgainstStays
  <1>4. item'[i] = to /\ verdict'[i] = as => ItemInv(i)'
    BY <1>3 DEF ItemInv, Undisturbed
  <1> QED BY <1>2, <1>4, OneItem DEF Waiting

LEMMA BeginItemInv == ASSUME CallInv, NEW i \in Item, BeginItem(i) PROVE CallInv'
  <1> DEFINE ready == Ready(i, {})
  <1>1. /\ item[i] = "new" /\ item' = [item EXCEPT ![i] = "waiting"] /\ Starts(i, {}, ready)
        /\ UNCHANGED <<setup, verdict, batch, callerCancels>>
    BY DEF BeginItem
  <1>2. ready \in SUBSET Stage /\ (\A s \in ready : stage[<<i, s>>] = "pending") /\ ready \subseteq BeforeCall
    BY ReadyBeforeCall DEF Ready
  <1> HIDE DEF ready
  <1>3. /\ stage' \in [Item \X Stage -> StageTypes] /\ ask' \in [Item \X Slot -> AskTypes]
        /\ \A j \in Item, s \in Stage :
              StageInv(j, s)' /\ (j # i => stage'[<<j, s>>] = stage[<<j, s>>])
        /\ \A j \in Item, w \in Slot : ask[<<j, w>>] = "differs" => ask'[<<j, w>>] = "differs"
    <2>1. {} \in SUBSET Stage /\ \A s \in {} : stage[<<i, s>>] = "ok"
      OBVIOUS
    <2>2. \A s \in Stage : s \notin {}
      OBVIOUS
    <2> QED BY <1>1, <1>2, <2>1, <2>2, StartsKeeps, Zenon
  <1>3a. \A s \in Stage : stage'[<<i, s>>] = IF s \in ready THEN "running" ELSE stage[<<i, s>>]
    BY <1>1, Types DEF Starts
  <1>4. verdict' = [verdict EXCEPT ![i] = verdict[i]] /\ verdict[i] \in {"none", "completed", "skipped", "failed", "cancelled"}
    BY <1>1 DEF CallInv, DecisionTypeOK
  <1>5. ItemInv(i)
    BY DEF CallInv
  <1>6. \A s \in Stage : stage[<<i, s>>] = "pending"
    BY <1>1, <1>5 DEF ItemInv
  <1>7. AfterPending(i)' /\ \A s \in Stage : stage'[<<i, s>>] \notin {"cancelling", "cancelled"}
    BY <1>1, <1>2, <1>3a, <1>6, AfterStep
  <1>8. Against(i) => Against(i)'
    BY <1>1, <1>3, AgainstStays
  <1>9. item'[i] = "waiting" /\ verdict'[i] = verdict[i] => ItemInv(i)'
    <2>1. Stage' = Stage
      BY <1>1 DEF Stage
    <2> QED BY <1>1, <1>5, <1>7, <1>8, <2>1 DEF ItemInv
  <1>10. Moves(i, "waiting", verdict[i])
    BY <1>1, <1>4 DEF Moves
  <1> QED BY <1>1, <1>3, <1>4, <1>9, <1>10, OneItem

LEMMA CollectInv == ASSUME CallInv, NEW i \in Item, Collect(i) PROVE CallInv'
  <1> DEFINE ended == Ended(i)
             recorded == {s \in Stage : stage[<<i, s>>] = "recorded"} \cup ended
             ends(how) == \E s \in ended : stage[<<i, s>>] = how
             called == item[i] = "annotating"
             ready == Ready(i, recorded \cup IF called THEN {"call"} ELSE {})
             to == IF called /\ recorded = Stage THEN "done"
                   ELSE IF ~called /\ BeforeCall \subseteq recorded THEN "wanting" ELSE item[i]
             as == IF called /\ recorded = Stage THEN "completed" ELSE "none"
  <1>1. item[i] \in Waiting /\ ended \subseteq Stage /\ ItemInv(i) /\ (item[i] = "annotating" \/ item[i] = "waiting")
    BY DEF Collect, CallInv, Waiting, Ended
  <1>2. CASE ends("failed") /\ Moves(i, "draining", "failed") /\ CancelStages({i})
    BY <1>1, <1>2, DrainInv
  <1>3. CASE ends("rejects") /\ Moves(i, "skipping", "skipped") /\ CancelStages({i})
    <2>1. PICK s \in Stage : stage[<<i, s>>] = "rejects"
      BY <1>1, <1>3
    <2>2. PICK w \in OfStage(s) : w[2] \in setup.stages[s].gates /\ ask[<<i, w>>] = "differs"
      BY <2>1 DEF CallInv, StageInv
    <2>3. Against(i)
      BY <2>2, SlotOfStage DEF Against
    <2> QED BY <1>1, <1>3, <2>3, DrainInv
  <1>4. CASE ~ends("failed") /\ ~ends("rejects") /\ Starts(i, ended, ready) /\ Moves(i, to, as)
    <2>1. \A s \in ended : stage[<<i, s>>] = "ok"
      <3>1. \A s \in Stage : stage[<<i, s>>] # "cancelled"
        BY <1>1 DEF ItemInv, Undisturbed
      <3>2. \A s \in ended : stage[<<i, s>>] \notin {"failed", "rejects"}
        BY <1>4
      <3> QED BY <1>1, <3>1, <3>2, EndedStates
    <2>2. ready \subseteq Stage /\ (\A s \in ready : stage[<<i, s>>] = "pending")
      BY DEF Ready
    <2>3. ~called => ready \subseteq BeforeCall
      <3> SUFFICES ASSUME ~called PROVE \A s \in ready : s \in BeforeCall
        OBVIOUS
      <3>1. recorded \in SUBSET Stage /\ ready = Ready(i, recorded)
        BY <1>1
      <3> QED BY <3>1, ReadyBeforeCall
    <2>4. setup' = setup
      BY <1>4 DEF Moves
    <2> HIDE DEF ended, ready
    <2>5. /\ stage' \in [Item \X Stage -> StageTypes] /\ ask' \in [Item \X Slot -> AskTypes]
          /\ \A j \in Item, s \in Stage :
                StageInv(j, s)' /\ (j # i => stage'[<<j, s>>] = stage[<<j, s>>])
          /\ \A j \in Item, w \in Slot : ask[<<j, w>>] = "differs" => ask'[<<j, w>>] = "differs"
      <3>1. ended \in SUBSET Stage /\ ready \in SUBSET Stage
        BY <1>1, <2>2
      <3>2. Starts(i, ended, ready) /\ \A s \in ready : stage[<<i, s>>] = "pending"
        BY <1>4, <2>2
      <3> QED BY <2>1, <2>4, <3>1, <3>2, StartsKeeps, Zenon
    <2>5a. \A s \in Stage : stage'[<<i, s>>] = IF s \in ended THEN "recorded"
                                              ELSE IF s \in ready THEN "running" ELSE stage[<<i, s>>]
      BY <1>4, Types DEF Starts
    <2>6. \A s \in recorded : stage'[<<i, s>>] = "recorded"
      BY <1>1, <2>2, <2>5a
    <2>7. item[i] = "waiting" => AfterPending(i)'
      <3> HAVE item[i] = "waiting"
      <3>1. AfterPending(i)
        BY <1>1 DEF ItemInv
      <3>2. ASSUME NEW s \in Stage \ BeforeCall PROVE stage'[<<i, s>>] = "pending"
        BY <2>1, <2>3, <2>5a, <3>1 DEF AfterPending
      <3> QED BY <2>4, <3>2, AfterStep
    <2>8. item[i] = "annotating" => BeforeDone(i)'
      <3> HAVE item[i] = "annotating"
      <3>1. BeforeDone(i) /\ BeforeCall \subseteq Stage
        BY <1>1 DEF ItemInv, BeforeCall
      <3> QED BY <2>4, <2>6, <3>1, AfterStep DEF BeforeDone
    <2>9. to = "wanting" => BeforeDone(i)'
      BY <1>1, <2>4, <2>6, AfterStep
    <2>10. to = "done" => Active(i)' = {}
      <3> HAVE to = "done"
      <3>1. recorded = Stage
        BY <1>1
      <3> QED BY <2>4, <2>6, <3>1, AfterStep
    <2>11. \A s \in Stage : stage'[<<i, s>>] \notin {"cancelling", "cancelled"}
      <3>1. \A s \in Stage : stage[<<i, s>>] \notin {"cancelling", "cancelled"}
        BY <1>1 DEF ItemInv, Undisturbed
      <3> QED BY <2>5a, <3>1
    <2>12. /\ to \in {"waiting", "wanting", "annotating", "done"} /\ as \in {"none", "completed"}
           /\ to = "waiting" => item[i] = "waiting"
           /\ to \in {"annotating", "done"} => item[i] = "annotating"
           /\ to = "wanting" => item[i] = "waiting"
           /\ as = "completed" => to = "done"
      BY <1>1
    <2> HIDE DEF to, as
    <2>13. item'[i] = to /\ verdict'[i] = as => ItemInv(i)'
      <3>1. Stage' = Stage
        BY <2>4 DEF Stage
      <3> QED BY <2>7, <2>8, <2>9, <2>10, <2>11, <2>12, <3>1 DEF ItemInv
    <2> QED BY <1>1, <1>4, <2>5, <2>12, <2>13, OneItem
  <1>5. \/ ends("failed") /\ Moves(i, "draining", "failed") /\ CancelStages({i})
        \/ ends("rejects") /\ Moves(i, "skipping", "skipped") /\ CancelStages({i})
        \/ ~ends("failed") /\ ~ends("rejects") /\ Starts(i, ended, ready) /\ Moves(i, to, as)
    BY Zenon DEF Collect
  <1> QED BY <1>2, <1>3, <1>4, <1>5

\* An item moves on while its stages rest.
LEMMA StillStages ==
    ASSUME CallInv, NEW i \in Item, NEW to, NEW as, item[i] # "done", Moves(i, to, as),
           UNCHANGED <<stage, ask>>,
           to \in {"calling", "done"}, as \in {"none", "completed", "skipped", "failed", "cancelled"},
           to = "done" => Active(i) = {},
           to = "calling" => item[i] = "wanting",
           as = "skipped" => verdict[i] = "skipped",
           as = "completed" => to = "done" /\ BeforeDone(i)
    PROVE  CallInv'
  <1>1. setup' = setup /\ Stage' = Stage
    BY DEF Moves, Stage
  <1>2. \A j \in Item, s \in Stage : StageInv(j, s)'
    BY <1>1, SameStage DEF CallInv
  <1>3. /\ stage' \in [Item \X Stage -> StageTypes] /\ ask' \in [Item \X Slot -> AskTypes]
        /\ \A j \in Item, s \in Stage :
              StageInv(j, s)' /\ (j # i => stage'[<<j, s>>] = stage[<<j, s>>])
        /\ \A j \in Item, w \in Slot : ask[<<j, w>>] = "differs" => ask'[<<j, w>>] = "differs"
    BY <1>2, Types
  <1>4. ItemInv(i)
    BY DEF CallInv
  <1>5. /\ AfterPending(i)' = AfterPending(i) /\ BeforeDone(i)' = BeforeDone(i)
        /\ Against(i)' = Against(i) /\ Active(i)' = Active(i)
    BY <1>1 DEF AfterPending, BeforeDone, Against, Active, Stage, BeforeCall, Slot
  <1>6. item'[i] = to /\ verdict'[i] = as => ItemInv(i)'
    BY <1>1, <1>4, <1>5 DEF ItemInv, Undisturbed
  <1> QED BY <1>3, <1>6, OneItem

LEMMA AnnotatesInv == ASSUME CallInv, NEW i \in Item, Annotates(i) PROVE CallInv'
  <1> DEFINE ready == Ready(i, BeforeCall \cup {"call"})
  <1>1. item[i] = "calling" /\ Starts(i, {}, ready) /\ Moves(i, "annotating", "none") /\ setup' = setup
    BY DEF Annotates, Moves
  <1>2. ready \in SUBSET Stage /\ (\A s \in ready : stage[<<i, s>>] = "pending")
    BY DEF Ready
  <1> HIDE DEF ready
  <1>3. /\ stage' \in [Item \X Stage -> StageTypes] /\ ask' \in [Item \X Slot -> AskTypes]
        /\ \A j \in Item, s \in Stage :
              StageInv(j, s)' /\ (j # i => stage'[<<j, s>>] = stage[<<j, s>>])
        /\ \A j \in Item, w \in Slot : ask[<<j, w>>] = "differs" => ask'[<<j, w>>] = "differs"
    <2>1. {} \in SUBSET Stage /\ \A s \in {} : stage[<<i, s>>] = "ok"
      OBVIOUS
    <2> QED BY <1>1, <1>2, <2>1, StartsKeeps, Zenon
  <1>4. \A s \in Stage : stage'[<<i, s>>] = IF s \in ready THEN "running" ELSE stage[<<i, s>>]
    BY <1>1, Types DEF Starts
  <1>5. ItemInv(i)
    BY DEF CallInv
  <1>6. BeforeDone(i) /\ \A s \in Stage : stage[<<i, s>>] \notin {"cancelling", "cancelled"}
    BY <1>1, <1>5 DEF ItemInv, Undisturbed
  <1>7. BeforeDone(i)' /\ \A s \in Stage : stage'[<<i, s>>] \notin {"cancelling", "cancelled"}
    <2>1. BeforeCall \subseteq Stage
      BY DEF BeforeCall
    <2> QED BY <1>1, <1>2, <1>4, <1>6, <2>1, AfterStep DEF BeforeDone
  <1>8. item'[i] = "annotating" /\ verdict'[i] = "none" => ItemInv(i)'
    <2>1. Stage' = Stage
      BY <1>1 DEF Stage
    <2> QED BY <1>7, <2>1 DEF ItemInv
  <1> QED BY <1>1, <1>3, <1>8, OneItem

LEMMA ItemStepInv == ASSUME CallInv, ItemStep PROVE CallInv'
  <1> PICK i \in Item :
        \/ BeginItem(i) \/ Collect(i) \/ ItemDrained(i) \/ CallStarts(i) \/ Annotates(i)
        \/ CallLeft(i)
        \/ \E how \in {"completed", "failed"} : CallEnds(i, how)
    BY DEF ItemStep
  <1>i. ItemInv(i) /\ verdict[i] \in {"none", "completed", "skipped", "failed", "cancelled"}
    BY DEF CallInv, DecisionTypeOK
  <1>1. CASE ItemDrained(i)
    <2>1. verdict[i] # "completed"
      BY <1>1, <1>i DEF ItemDrained, ItemInv
    <2> QED BY <1>1, <1>i, <2>1, StillStages DEF ItemDrained
  <1>2. CASE CallStarts(i)
    BY <1>2, StillStages DEF CallStarts
  <1>3. CASE CallLeft(i)
    <2>1. item[i] = "leaving" /\ Active(i) = {}
      BY <1>3, <1>i, NoneAtWork DEF CallLeft, ItemInv
    <2> QED BY <1>3, <2>1, StillStages DEF CallLeft
  <1>4. ASSUME NEW how \in {"completed", "failed"}, CallEnds(i, how) PROVE CallInv'
    <2>1. item[i] = "calling" /\ Active(i) = {} /\ BeforeDone(i)
      BY <1>4, <1>i, NoneAtWork DEF CallEnds, ItemInv
    <2> QED BY <1>4, <2>1, StillStages DEF CallEnds
  <1> QED BY <1>1, <1>2, <1>3, <1>4, BeginItemInv, CollectInv, AnnotatesInv

-----------------------------------------------------------------------------
(* The batch.                                                              *)

LEMMA CancelItemsInv ==
    ASSUME CallInv, CancelItems, setup' = setup, batch' = "draining",
           callerCancels' \in 0 .. MaxCallerCancels
    PROVE  CallInv'
  <1> DEFINE S == {i \in Item : item[i] \in Waiting}
  <1>1. Stage' = Stage /\ Slot' = Slot /\ Item' = Item
    BY DEF Stage, Slot, Item
  <1>2. CancelStages(S)
    BY DEF CancelItems
  <1> HIDE DEF S
  <1>3. /\ stage' \in [Item \X Stage -> StageTypes] /\ ask' \in [Item \X Slot -> AskTypes]
        /\ \A j \in Item, s \in Stage :
              StageInv(j, s)' /\ (j \notin S => stage'[<<j, s>>] = stage[<<j, s>>])
        /\ \A j \in Item, w \in Slot : ask[<<j, w>>] = "differs" => ask'[<<j, w>>] = "differs"
    BY <1>2, CancelKeeps, Zenon
  <1>4. \A i \in Item :
           /\ item'[i] = IF item[i] \in {"new", "wanting"} THEN "done"
                         ELSE IF item[i] \in Waiting THEN "draining"
                         ELSE IF item[i] = "calling" THEN "leaving" ELSE item[i]
           /\ verdict'[i] = IF item[i] \in {"new", "wanting"} \cup Waiting THEN "cancelled" ELSE verdict[i]
    BY DEF CancelItems
  <1>5. DecisionTypeOK'
    <2>1. item' \in [Item -> {"new", "waiting", "skipping", "draining", "wanting", "calling",
                              "annotating", "leaving", "done"}]
      BY DEF CancelItems, CallInv, DecisionTypeOK
    <2>2. verdict' \in [Item -> {"none", "completed", "skipped", "failed", "cancelled"}]
      BY DEF CancelItems, CallInv, DecisionTypeOK
    <2> QED BY <1>1, <1>3, <2>1, <2>2 DEF CallInv, DecisionTypeOK, StageTypes, AskTypes
  <1>6. ASSUME NEW i \in Item PROVE ItemInv(i)'
    <2>1. ItemInv(i) /\ item[i] \in {"new", "waiting", "skipping", "draining", "wanting", "calling",
                                     "annotating", "leaving", "done"}
      BY DEF CallInv, DecisionTypeOK
    <2>2. CASE item[i] \in Waiting
      BY <1>4, <2>2 DEF ItemInv, Undisturbed, Waiting
    <2>3. CASE item[i] \notin Waiting
      <3>1. \A s \in Stage : stage'[<<i, s>>] = stage[<<i, s>>]
        BY <1>3, <2>3 DEF S
      <3>2. /\ AfterPending(i)' = AfterPending(i) /\ BeforeDone(i)' = BeforeDone(i)
            /\ Active(i)' = Active(i)
        <4>1. BeforeCall' = BeforeCall /\ BeforeCall \subseteq Stage
          BY DEF BeforeCall, Stage
        <4> QED BY <1>1, <3>1, <4>1 DEF AfterPending, BeforeDone, Active
      <3>3. Against(i) => Against(i)'
        BY <1>3, AgainstStays
      <3>4. item[i] \in {"new", "wanting", "done"} => Active(i) = {}
        <4>1. item[i] = "new" => Active(i) = {}
          BY <2>1 DEF ItemInv, Active
        <4> QED BY <2>1, <4>1, NoneAtWork DEF ItemInv
      <3>5. CASE item[i] \in {"new", "wanting"}
        BY <1>4, <3>2, <3>4, <3>5 DEF ItemInv, Undisturbed
      <3>6. CASE item[i] \notin {"new", "wanting"}
        <4>1. /\ item'[i] = IF item[i] = "calling" THEN "leaving" ELSE item[i]
              /\ verdict'[i] = verdict[i]
          BY <1>4, <2>3, <3>6
        <4> QED BY <1>1, <2>1, <2>3, <3>1, <3>2, <3>3, <3>6, <4>1 DEF ItemInv, Undisturbed, Waiting
      <3> QED BY <3>5, <3>6
    <2> QED BY <2>2, <2>3
  <1> QED BY <1>1, <1>3, <1>5, <1>6 DEF CallInv, BatchInv

LEMMA DecisionStepInv == CallInv /\ [DecisionNext]_decisionVars => CallInv'
  <1> SUFFICES ASSUME CallInv, [DecisionNext]_decisionVars PROVE CallInv'
    OBVIOUS
  <1>t. callerCancels \in 0 .. MaxCallerCancels /\ MaxCallerCancels \in Nat
    BY PlanAssumption DEF CallInv, DecisionTypeOK
  <1>r. ASSUME UNCHANGED <<setup, stage, ask, item, verdict>>, batch' \in {"gathering", "draining", "returned", "raised"},
               callerCancels' \in 0 .. MaxCallerCancels, BatchInv'
        PROVE  CallInv'
    <2>1. Stage' = Stage /\ Slot' = Slot /\ Item' = Item
      BY <1>r DEF Stage, Slot, Item
    <2>2. DecisionTypeOK'
      BY <1>r, <2>1 DEF CallInv, DecisionTypeOK
    <2>3. \A i \in Item, s \in Stage : StageInv(i, s)'
      BY <1>r, SameStage DEF CallInv
    <2>4. \A i \in Item : ItemInv(i)'
      BY <1>r, SameItem DEF CallInv
    <2> QED BY <1>r, <2>1, <2>2, <2>3, <2>4 DEF CallInv
  <1>1. CASE QuestionStep
    BY <1>1, QuestionStepInv
  <1>2. CASE StageStep
    BY <1>2, StageStepInv
  <1>3. CASE ItemStep
    BY <1>3, ItemStepInv
  <1>4. CASE BatchFails
    BY <1>4, <1>t, CancelItemsInv DEF BatchFails
  <1>5. CASE CancelBatch
    BY <1>5, <1>t, CancelItemsInv DEF CancelBatch
  <1>6. CASE BatchEnds
    BY <1>6, <1>t, <1>r DEF BatchEnds, BatchInv, Item
  <1>7. CASE CancelAgain
    BY <1>7, <1>t, <1>r DEF CancelAgain, BatchInv
  <1>8. CASE UNCHANGED decisionVars
    BY <1>8, <1>t, <1>r DEF decisionVars, CallInv, BatchInv, Item, DecisionTypeOK
  <1> QED BY <1>1, <1>2, <1>3, <1>4, <1>5, <1>6, <1>7, <1>8 DEF DecisionNext

\* The inductive invariant: what each stage, item and batch implies of the others.
THEOREM DecisionInv == DecisionSpec => []CallInv
  BY CallInitInv, DecisionStepInv, PTL DEF DecisionSpec

-----------------------------------------------------------------------------
(* The limit of the batch.                                                 *)

LimitInv == Cardinality(Operations) <= setup.limit

LEMMA OperationsFinite == ASSUME CallInv PROVE IsFiniteSet(Operations)
  <1> DEFINE Q == UNION {setup.stages[s].asks : s \in Stage}
  <1>1. IsFiniteSet(Item) /\ IsFiniteSet(Stage) /\ IsFiniteSet(Q)
    BY PlanAssumption DEF CallInv, Item, Stage
  <1>2. IsFiniteSet(Slot)
    <2>1. IsFiniteSet(Stage \X Q)
      BY <1>1, FS_Product
    <2>2. Slot \subseteq Stage \X Q
      BY DEF Slot
    <2> QED BY <2>1, <2>2, FS_Subset
  <1>3. IsFiniteSet(Item \X Slot)
    BY <1>1, <1>2, FS_Product
  <1>4. IsFiniteSet({x \in Item \X Slot : ask[x] \in {"asking", "stopping"}})
    BY <1>3, FS_Subset
  <1>5. IsFiniteSet({i \in Item : item[i] \in {"calling", "leaving"}} \X {<<>>})
    <2>1. IsFiniteSet({i \in Item : item[i] \in {"calling", "leaving"}})
      BY <1>1, FS_Subset
    <2>2. IsFiniteSet({<<>>})
      BY FS_Singleton
    <2> QED BY <2>1, <2>2, FS_Product
  <1> QED BY <1>4, <1>5, FS_Union DEF Operations

\* Whatever does not dispatch a question or start a target adds no operation.
LEMMA FewerOperations ==
    ASSUME CallInv, LimitInv, setup' = setup,
           \A x \in Item \X Slot : ask'[x] \in {"asking", "stopping"} => ask[x] \in {"asking", "stopping"},
           \A i \in Item : item'[i] \in {"calling", "leaving"} => item[i] \in {"calling", "leaving"}
    PROVE  LimitInv'
  <1>1. Operations' \subseteq Operations
    BY DEF Operations, Item, Slot, Stage
  <1>2. Cardinality(Operations') <= Cardinality(Operations) /\ IsFiniteSet(Operations')
    BY <1>1, OperationsFinite, FS_Subset
  <1>3. Cardinality(Operations) \in Nat /\ Cardinality(Operations') \in Nat /\ setup.limit \in Nat
    BY <1>2, OperationsFinite, FS_CardinalityType, PlanAssumption DEF CallInv
  <1> QED BY <1>2, <1>3 DEF LimitInv

LEMMA OneMoreOperation ==
    ASSUME CallInv, OperationFree, setup' = setup, NEW x, Operations' \subseteq Operations \cup {x}
    PROVE  LimitInv'
  <1>1. /\ IsFiniteSet(Operations \cup {x})
        /\ Cardinality(Operations \cup {x}) <= Cardinality(Operations) + 1
    <2> DEFINE S == Operations
    <2>1. IsFiniteSet(S)
      BY OperationsFinite
    <2> HIDE DEF S
    <2>2. IsFiniteSet(S \cup {x}) /\ Cardinality(S \cup {x}) = IF x \in S THEN Cardinality(S) ELSE Cardinality(S) + 1
      BY <2>1, FS_AddElement
    <2>3. Cardinality(S) \in Nat
      BY <2>1, FS_CardinalityType
    <2>4. IsFiniteSet(S \cup {x}) /\ Cardinality(S \cup {x}) <= Cardinality(S) + 1
      BY <2>2, <2>3
    <2> QED BY <2>4 DEF S
  <1>2. Cardinality(Operations') <= Cardinality(Operations \cup {x}) /\ IsFiniteSet(Operations')
    BY <1>1, FS_Subset
  <1>3. /\ Cardinality(Operations) \in Nat /\ Cardinality(Operations') \in Nat
        /\ Cardinality(Operations \cup {x}) \in Nat /\ setup.limit \in Nat
    BY <1>1, <1>2, OperationsFinite, FS_CardinalityType, PlanAssumption DEF CallInv
  <1> QED BY <1>1, <1>2, <1>3 DEF LimitInv, OperationFree

LEMMA LimitStep == ASSUME CallInv, LimitInv, [DecisionNext]_decisionVars PROVE LimitInv'
  <1> DEFINE Dispatched == {"asking", "stopping"}
             AtWork == {"calling", "leaving"}
  <1>f. ASSUME setup' = setup,
               \A x \in Item \X Slot : ask'[x] \in Dispatched => ask[x] \in Dispatched,
               \A i \in Item : item'[i] \in AtWork => item[i] \in AtWork
        PROVE  LimitInv'
    BY <1>f, FewerOperations
  <1>a. ask \in [Item \X Slot -> AskTypes] /\ DOMAIN item = Item
    BY Types DEF CallInv, DecisionTypeOK
  <1>1. CASE QuestionStep
    <2> PICK i \in Item, w \in Slot :
          \/ Hold(i, w) \/ Dispatch(i, w) \/ Stopped(i, w)
          \/ \E how \in Answers \cup {"failed"} : Answer(i, w, how)
      BY <1>1 DEF QuestionStep
    <2>1. CASE Dispatch(i, w)
      <3>1. Operations' \subseteq Operations \cup {<<i, w>>}
        BY <2>1, <1>a DEF Dispatch, Asks, Operations, Item, Slot, Stage
      <3> QED BY <2>1, <3>1, OneMoreOperation DEF Dispatch
    <2>2. CASE Hold(i, w)
      BY <2>2, <1>a, <1>f DEF Hold, Asks
    <2>3. CASE Stopped(i, w)
      BY <2>3, <1>a, <1>f DEF Stopped, Asks
    <2>4. ASSUME NEW how \in Answers \cup {"failed"}, Answer(i, w, how) PROVE LimitInv'
      BY <2>4, <1>a, <1>f DEF Answer, Asks, Answers
    <2> QED BY <2>1, <2>2, <2>3, <2>4
  <1>2. CASE StageStep
    <2> PICK i \in Item, s \in Stage :
          StageRefused(i, s) \/ StageEnds(i, s) \/ StageFails(i, s) \/ StageDrained(i, s)
      BY <1>2 DEF StageStep
    <2>1. CASE StageRefused(i, s)
      BY <2>1, <1>f DEF StageRefused
    <2>2. CASE StageEnds(i, s)
      BY <2>2, <1>f DEF StageEnds
    <2>3. CASE StageFails(i, s)
      BY <2>3, <1>f DEF StageFails, AskStopped
    <2>4. CASE StageDrained(i, s)
      BY <2>4, <1>f DEF StageDrained
    <2> QED BY <2>1, <2>2, <2>3, <2>4
  <1>3. CASE ItemStep
    <2>s. ASSUME NEW i \in Item, NEW recorded, NEW ready, Starts(i, recorded, ready)
          PROVE  \A x \in Item \X Slot : ask'[x] \in Dispatched => ask[x] \in Dispatched
      BY <2>s DEF Starts
    <2>c. ASSUME NEW S, CancelStages(S)
          PROVE  \A x \in Item \X Slot : ask'[x] \in Dispatched => ask[x] \in Dispatched
      BY <2>c DEF CancelStages, AskStopped
    <2>m. ASSUME NEW i \in Item, NEW to, NEW as, Moves(i, to, as), to \notin AtWork \/ to = item[i]
          PROVE  setup' = setup /\ \A j \in Item : item'[j] \in AtWork => item[j] \in AtWork
      BY <2>m, <1>a DEF Moves
    <2> PICK i \in Item :
          \/ BeginItem(i) \/ Collect(i) \/ ItemDrained(i) \/ CallStarts(i) \/ Annotates(i)
          \/ CallLeft(i)
          \/ \E how \in {"completed", "failed"} : CallEnds(i, how)
      BY <1>3 DEF ItemStep
    <2>1. CASE BeginItem(i)
      BY <2>1, <2>s, <1>a, <1>f DEF BeginItem
    <2>2. CASE Collect(i)
      <3>1. \/ \E to, as : Moves(i, to, as) /\ to \notin AtWork /\ CancelStages({i})
            \/ \E to, as, recorded, ready : Moves(i, to, as) /\ to \notin AtWork /\ Starts(i, recorded, ready)
        BY <2>2 DEF Collect, Waiting
      <3> QED BY <3>1, <2>c, <2>s, <2>m, <1>f
    <2>3. CASE ItemDrained(i)
      BY <2>3, <2>m, <1>f DEF ItemDrained
    <2>4. CASE CallStarts(i)
      <3>1. Operations' \subseteq Operations \cup {<<i, <<>>>>}
        BY <2>4, <1>a DEF CallStarts, Moves, Operations, Item, Slot, Stage
      <3> QED BY <2>4, <3>1, OneMoreOperation DEF CallStarts, Moves
    <2>5. CASE Annotates(i)
      BY <2>5, <2>s, <2>m, <1>f DEF Annotates
    <2>6. CASE CallLeft(i)
      BY <2>6, <2>m, <1>f DEF CallLeft
    <2>7. ASSUME NEW how \in {"completed", "failed"}, CallEnds(i, how) PROVE LimitInv'
      BY <2>7, <2>m, <1>f DEF CallEnds
    <2> QED BY <2>1, <2>2, <2>3, <2>4, <2>5, <2>6, <2>7
  <1>4. CASE BatchFails \/ CancelBatch
    <2>1. CancelItems /\ setup' = setup
      BY <1>4 DEF BatchFails, CancelBatch
    <2>2. \A x \in Item \X Slot : ask'[x] \in Dispatched => ask[x] \in Dispatched
      BY <2>1 DEF CancelItems, CancelStages, AskStopped
    <2>3. \A i \in Item : item'[i] \in AtWork => item[i] \in AtWork
      BY <2>1 DEF CancelItems, Waiting
    <2> QED BY <2>1, <2>2, <2>3, <1>f
  <1>5. CASE BatchEnds \/ CancelAgain \/ UNCHANGED decisionVars
    BY <1>5, <1>f DEF BatchEnds, CancelAgain, decisionVars
  <1> QED BY <1>1, <1>2, <1>3, <1>4, <1>5 DEF DecisionNext

LEMMA LimitInit == DecisionInit => LimitInv
  <1> SUFFICES ASSUME DecisionInit PROVE LimitInv
    OBVIOUS
  <1>1. Operations = {}
    BY DEF DecisionInit, Operations
  <1>2. setup.limit \in Nat
    BY PlanAssumption DEF DecisionInit
  <1> QED BY <1>1, <1>2, FS_EmptySet DEF LimitInv

\* However many items and questions, no more operations than the batch allows.
THEOREM DecisionLimit == DecisionSpec => [](CallInv /\ LimitInv)
  <1>1. DecisionInit => CallInv /\ LimitInv
    BY CallInitInv, LimitInit
  <1>2. CallInv /\ LimitInv /\ [DecisionNext]_decisionVars => (CallInv /\ LimitInv)'
    BY DecisionStepInv, LimitStep
  <1> QED BY <1>1, <1>2, PTL DEF DecisionSpec

-----------------------------------------------------------------------------
(* What the batch promises.                                                *)

\* The states of questions, stages, items and batch.
THEOREM DecisionTyped == DecisionSpec => []DecisionTypeOK
  <1>1. CallInv => DecisionTypeOK
    BY DEF CallInv
  <1> QED BY <1>1, DecisionInv, PTL

\* When abatch gives its caller a result or an exception, no question is on
\* its way and no target runs; the limit of the batch holds throughout.
THEOREM DecisionLeavesNothing == DecisionSpec => []NothingLeftBehind
  <1>1. ASSUME CallInv, LimitInv PROVE NothingLeftBehind
    <2>1. \A i \in Item : item[i] = "done" => Active(i) = {}
      BY <1>1 DEF CallInv, ItemInv
    <2>2. ASSUME batch \in {"returned", "raised"} PROVE Operations = {} /\ \A i \in Item : item[i] = "done"
      <3>1. \A i \in Item : item[i] = "done"
        BY <1>1, <2>2 DEF CallInv, BatchInv
      <3>2. ASSUME NEW i \in Item, NEW w \in Slot, ask[<<i, w>>] \in {"asking", "stopping"} PROVE FALSE
        <4>1. w[1] \in Stage /\ w \in OfStage(w[1]) /\ StageInv(i, w[1])
          BY <1>1, SlotOfStage DEF CallInv
        <4>2. stage[<<i, w[1]>>] \in ActiveStates
          BY <3>2, <4>1 DEF StageInv, Pends
        <4> QED BY <2>1, <3>1, <4>1, <4>2 DEF Active, ActiveStates
      <3>3. {x \in Item \X Slot : ask[x] \in {"asking", "stopping"}} = {}
        BY <3>2
      <3>4. {i \in Item : item[i] \in {"calling", "leaving"}} = {}
        BY <3>1
      <3> QED BY <3>1, <3>3, <3>4 DEF Operations
    <2> QED BY <1>1, <2>1, <2>2 DEF NothingLeftBehind, LimitInv
  <1> QED BY <1>1, DecisionLimit, PTL

\* A target runs only when every gate let it; only an accepted answer of the
\* platform skips one.
THEOREM DecisionGated == DecisionSpec => []GateDecides
  <1>1. ASSUME CallInv PROVE GateDecides
    <2> SUFFICES ASSUME NEW i \in Item
                 PROVE  /\ item[i] \in {"calling", "annotating", "leaving"} \/ verdict[i] = "completed" =>
                               ~Against(i) /\ \A w \in Slot : w[1] \in BeforeCall => ask[<<i, w>>] \in Answers
                        /\ verdict[i] = "skipped" => Against(i)
      BY DEF GateDecides, Against
    <2>1. ItemInv(i)
      BY <1>1 DEF CallInv
    <2>2. ASSUME BeforeDone(i), NEW w \in Slot
          PROVE  /\ w[1] \in BeforeCall => ask[<<i, w>>] \in Answers
                 /\ w[2] \in setup.stages[w[1]].gates => ask[<<i, w>>] # "differs"
      <3>1. w[1] \in Stage /\ w \in OfStage(w[1]) /\ StageInv(i, w[1])
        BY <1>1, SlotOfStage DEF CallInv
      <3>2. CASE w[1] \in BeforeCall
        BY <2>2, <3>1, <3>2 DEF StageInv, BeforeDone
      <3>3. CASE w[1] \notin BeforeCall
        BY <1>1, <3>1, <3>3, PlanAssumption DEF CallInv, BeforeCall, Stage
      <3> QED BY <3>2, <3>3
    <2>3. item[i] \in {"calling", "annotating", "leaving"} \/ verdict[i] = "completed" => BeforeDone(i)
      BY <2>1 DEF ItemInv
    <2>4. BeforeDone(i) => ~Against(i) /\ \A w \in Slot : w[1] \in BeforeCall => ask[<<i, w>>] \in Answers
      BY <2>2 DEF Against
    <2> QED BY <2>1, <2>3, <2>4 DEF ItemInv
  <1> QED BY <1>1, DecisionInv, PTL

\* No stage of a call starts once another has ended with a rejection or an
\* exception: completions are inspected before successors are scheduled.
THEOREM DecisionNoSuccessor == DecisionSpec => NoSuccessorOfRejection
  <1> DEFINE Fine == \A i \in Item, s \in Stage :
                        stage[<<i, s>>] = "pending" /\ stage'[<<i, s>>] = "running"
                            => \A t \in Stage : stage[<<i, t>>] \notin {"rejects", "failed"}
  <1>1. ASSUME CallInv, [DecisionNext]_decisionVars PROVE Fine
    <2>t. \A i \in Item, s \in Stage : <<i, s>> \in Item \X Stage
      OBVIOUS
    <2>c. ASSUME NEW S, CancelStages(S) PROVE Fine
      <3>1. \A i \in Item, s \in Stage : stage[<<i, s>>] = "pending" => stage'[<<i, s>>] # "running"
        BY <2>c, <2>t DEF CancelStages
      <3> QED BY <3>1
    <2>s. ASSUME NEW i \in Item, NEW recorded, NEW ready, Starts(i, recorded, ready),
                 \A t \in Stage : stage[<<i, t>>] \notin {"rejects", "failed"}
          PROVE  Fine
      <3>1. \A j \in Item, s \in Stage : j # i => stage'[<<j, s>>] = stage[<<j, s>>]
        BY <2>s, <2>t DEF Starts
      <3> QED BY <2>s, <3>1
    <2>1. CASE QuestionStep
      <3>1. stage' = stage
        BY <2>1 DEF QuestionStep, Hold, Dispatch, Stopped, Answer
      <3> QED BY <3>1
    <2>2. CASE StageStep
      <3> PICK i \in Item, s \in Stage :
            StageRefused(i, s) \/ StageEnds(i, s) \/ StageFails(i, s) \/ StageDrained(i, s)
        BY <2>2 DEF StageStep
      <3>1. /\ stage[<<i, s>>] # "pending"
            /\ \E to : stage' = [stage EXCEPT ![<<i, s>>] = to]
        BY DEF StageRefused, StageEnds, StageFails, StageDrained
      <3>2. \A j \in Item, t \in Stage : stage[<<j, t>>] = "pending" => stage'[<<j, t>>] = stage[<<j, t>>]
        BY <1>1, <3>1, Types
      <3> QED BY <3>2
    <2>3. CASE ItemStep
      <3> PICK i \in Item :
            \/ BeginItem(i) \/ Collect(i) \/ ItemDrained(i) \/ CallStarts(i) \/ Annotates(i)
            \/ CallLeft(i)
            \/ \E how \in {"completed", "failed"} : CallEnds(i, how)
        BY <2>3 DEF ItemStep
      <3>i. ItemInv(i)
        BY <1>1 DEF CallInv
      <3>1. CASE BeginItem(i)
        <4>1. \A t \in Stage : stage[<<i, t>>] = "pending"
          BY <3>1, <3>i DEF BeginItem, ItemInv
        <4> QED BY <3>1, <4>1, <2>s DEF BeginItem
      <3>2. CASE Collect(i)
        <4>1. \/ CancelStages({i})
              \/ /\ ~\E s \in Ended(i) : stage[<<i, s>>] = "failed"
                 /\ ~\E s \in Ended(i) : stage[<<i, s>>] = "rejects"
                 /\ \E recorded, ready : Starts(i, recorded, ready)
          BY <3>2 DEF Collect
        <4>2. \A t \in Stage : stage[<<i, t>>] \in {"rejects", "failed"} => t \in Ended(i)
          BY DEF Ended, StageEnded
        <4> QED BY <4>1, <4>2, <2>c, <2>s
      <3>3. CASE Annotates(i)
        <4>1. \A t \in Stage : stage[<<i, t>>] \notin {"rejects", "failed"}
          BY <3>3, <3>i DEF Annotates, ItemInv, BeforeDone, AfterPending
        <4> QED BY <3>3, <4>1, <2>s DEF Annotates
      <3>4. CASE UNCHANGED stage
        BY <3>4
      <3> QED BY <3>1, <3>2, <3>3, <3>4 DEF ItemDrained, CallStarts, CallLeft, CallEnds
    <2>4. CASE BatchFails \/ CancelBatch
      BY <2>4, <2>c DEF BatchFails, CancelBatch, CancelItems
    <2>5. CASE UNCHANGED stage
      BY <2>5
    <2> QED BY <1>1, <2>1, <2>2, <2>3, <2>4, <2>5 DEF DecisionNext, BatchEnds, CancelAgain, decisionVars
  <1>2. CallInv /\ [DecisionNext]_decisionVars => [Fine]_decisionVars
    BY <1>1
  <1> QED BY <1>2, DecisionInv, PTL DEF DecisionSpec, NoSuccessorOfRejection

-----------------------------------------------------------------------------
(* ScopeHooks                                                              *)

\* What the scope's generator yields, and what it does between two yields.
Plain == Events \cup {HookItem}
ToFire == <<"fire", "scope">>
Reported == <<"fired", "scope">>

After == fired[<<"scope", "after">>]
Answered == closed \/ wrapper = "raising"

\* Nothing but items is to come: the after hooks were fired if the stream is
\* closed or raises, and, but for the two cases, only then.
Quiet ==
    /\ pending \in Seq(Plain)
    /\ Answered => After >= 1
    /\ ~mayRepeat => After = (IF Answered THEN 1 ELSE 0)
    /\ ~mayRepeat /\ closed => given = MaxHookEvents \/ caller \in Over

\* A final event waits for the after hooks to be fired, ...
Due ==
    /\ \E p \in Seq(Plain), e \in Finals : pending = p \o <<ToFire, Reported, e>>
    /\ wrapper = "open" /\ caller \notin Over
    /\ closed => After >= 1
    /\ ~mayRepeat => After = 0 /\ ~closed /\ given = MaxHookEvents

\* ... or for the report that they were.
Reporting ==
    /\ \E p \in Seq(Plain), e \in Finals : pending = p \o <<Reported, e>>
    /\ wrapper = "open" /\ caller \notin Over
    /\ After >= 1
    /\ ~mayRepeat => After = 1 /\ ~closed /\ given = MaxHookEvents

Paired ==
    \A a \in Assignments :
       fired[<<a, "before">>] - fired[<<a, "after">>] = IF a \in active THEN 1 ELSE 0

Between ==
    /\ wrapper = "unstarted" => /\ caller = "waiting" /\ pending = <<>> /\ outer = <<>>
                                /\ active = {} /\ ~closed /\ ~mayRepeat
    /\ caller \in Over => active = {} /\ pending = <<>> /\ outer = <<>> /\ closed
    /\ caller = "holding" => outer # <<>>
    /\ outer # <<>> => pending # <<>> /\ Head(pending) \in Plain

HookInv == HookTypeOK /\ Paired /\ Between /\ (Quiet \/ Due \/ Reporting)

Key == Owners \X {"before", "after"}

LEMMA PlainFacts ==
    /\ \A x \in Plain : /\ x[1] \notin {"fire", "fired"} /\ x \in Events \cup Steps
                        /\ x[2] = "scope" \/ x[2] \in Assignments
    /\ ToFire \in Steps /\ Reported \in Steps /\ ToFire[1] = "fire" /\ Reported[1] = "fired"
    /\ ToFire \notin Plain /\ Reported \notin Plain
    /\ Events \subseteq Plain /\ Finals \subseteq Plain /\ HookItem \in Plain
<1>1. \A x \in Plain : /\ x[1] \notin {"fire", "fired"} /\ x \in Events \cup Steps
                       /\ x[2] = "scope" \/ x[2] \in Assignments
  <2> TAKE x \in Plain
  <2>1. CASE x \in Finals
    BY <2>1 DEF Finals, Events
  <2>2. CASE x = <<"other", "scope">>
    BY <2>2 DEF Events
  <2>3. CASE x \in Statuses \X Assignments
    BY <2>3 DEF Statuses, Events
  <2>4. CASE x = HookItem
    BY <2>4 DEF HookItem, Steps
  <2> QED BY <2>1, <2>2, <2>3, <2>4 DEF Plain, Events
<1>2. ToFire \in Steps /\ Reported \in Steps /\ ToFire[1] = "fire" /\ Reported[1] = "fired"
  BY DEF ToFire, Reported, Steps
<1> QED BY <1>1, <1>2 DEF Plain, Events

LEMMA FiringsPlain == \A f \in Firings : f \in Seq(Plain) /\ f \in Seq(Events \cup Steps)
<1> SUFFICES ASSUME NEW f \in Firings PROVE f \in Seq(Plain) /\ f \in Seq(Events \cup Steps)
  OBVIOUS
<1>1. PICK k \in 1 .. ChainLength : f = [n \in 1 .. k |-> HookItem]
  BY DEF Firings
<1>2. k \in Nat
  BY <1>1, HookAssumption
<1> QED BY <1>1, <1>2, PlainFacts

LEMMA Joined ==
    ASSUME NEW p \in Seq(Plain), NEW q \in Seq(Events \cup Steps), q # <<>>
    PROVE  /\ p \o q \in Seq(Events \cup Steps) /\ p \o q # <<>>
           /\ p = <<>> => p \o q = q
           /\ p # <<>> => /\ Head(p \o q) = Head(p) /\ Head(p) \in Plain /\ Tail(p) \in Seq(Plain)
                          /\ Tail(p \o q) = Tail(p) \o q
<1>1. p \in Seq(Events \cup Steps)
  BY PlainFacts
<1>2. p \o q \in Seq(Events \cup Steps) /\ Len(p \o q) = Len(p) + Len(q) /\ Len(p) \in Nat /\ Len(q) \in Nat /\ Len(q) # 0
  BY <1>1
<1>3. p \o q # <<>>
  BY <1>2
<1>4. p = <<>> => p \o q = q
  BY <1>1
<1>5. ASSUME p # <<>>
      PROVE  /\ Head(p \o q) = Head(p) /\ Head(p) \in Plain /\ Tail(p) \in Seq(Plain)
             /\ Tail(p \o q) = Tail(p) \o q
  <2>1. Head(p) \in Plain /\ Tail(p) \in Seq(Plain) /\ Len(p) # 0
    BY <1>5
  <2>2. Head(p \o q) = Head(p)
    BY <1>1, <1>5, <2>1
  <2>3. Tail(p \o q) = Tail(p) \o q
    BY <1>1, <1>2, <1>3, <1>5, <2>1
  <2> QED BY <2>1, <2>2, <2>3
<1> QED BY <1>2, <1>3, <1>4, <1>5

\* A chain that is fired once counts once.
LEMMA FireCounts ==
    ASSUME HookTypeOK, NEW which, Fire(which)
    PROVE  /\ fired' \in [Key -> Nat]
           /\ \A x \in Key : fired'[x] = fired[x] + IF x \in which THEN 1 ELSE 0
<1>1. fired \in [Key -> Nat] /\ fired' = [x \in Key |-> fired[x] + IF x \in which THEN 1 ELSE 0]
  BY DEF HookTypeOK, Key, Fire
<1>2. \A x \in Key : fired[x] + (IF x \in which THEN 1 ELSE 0) \in Nat
  BY <1>1
<1> QED BY <1>1, <1>2

LEMMA Keys ==
    /\ <<"scope", "before">> \in Key /\ <<"scope", "after">> \in Key
    /\ \A a \in Assignments : /\ <<a, "before">> \in Key /\ <<a, "after">> \in Key
                              /\ a # "scope"
BY HookAssumption DEF Key, Owners

\* Firing the scope's own hooks changes nothing between the members' chains.
LEMMA PairedByScope ==
    ASSUME HookTypeOK, Paired, NEW which, which \subseteq {"scope"} \X {"before", "after"}, Fire(which),
           active' = active
    PROVE  Paired'
<1> SUFFICES ASSUME NEW a \in Assignments
             PROVE  fired'[<<a, "before">>] - fired'[<<a, "after">>] = IF a \in active THEN 1 ELSE 0
  BY DEF Paired
<1>1. <<a, "before">> \notin which /\ <<a, "after">> \notin which
  BY Keys
<1>2. fired'[<<a, "before">>] = fired[<<a, "before">>] /\ fired'[<<a, "after">>] = fired[<<a, "after">>]
  BY <1>1, FireCounts, Keys DEF HookTypeOK, Key
<1> QED BY <1>2 DEF Paired

LEMMA AfterCounts ==
    ASSUME HookTypeOK
    PROVE  /\ After \in Nat
           /\ \A which : Fire(which)
                 => After' = After + IF <<"scope", "after">> \in which THEN 1 ELSE 0
           /\ fired' = fired => After' = After
BY FireCounts, Keys DEF After, HookTypeOK, Key

\* The three phases are apart by what comes first, or by nothing to come.
LEMMA NothingIsQuiet ==
    ASSUME HookInv, pending = <<>>
    PROVE  Quiet
<1>1. ASSUME NEW p \in Seq(Plain), NEW e \in Finals
      PROVE  p \o <<ToFire, Reported, e>> # <<>> /\ p \o <<Reported, e>> # <<>>
  <2>1. <<ToFire, Reported, e>> \in Seq(Events \cup Steps) /\ <<Reported, e>> \in Seq(Events \cup Steps)
        /\ <<ToFire, Reported, e>> # <<>> /\ <<Reported, e>> # <<>>
    BY PlainFacts DEF Events
  <2> QED BY <2>1, Joined
<1>2. ~Due /\ ~Reporting
  BY <1>1 DEF Due, Reporting
<1> QED BY <1>2 DEF HookInv

LEMMA InitHooks == HookInit => HookInv
<1> SUFFICES ASSUME HookInit PROVE HookInv
  OBVIOUS
<1> USE DEF HookInit
<1>0. fired = [x \in Key |-> 0]
  BY DEF Key
<1>1. HookTypeOK
  <2>1. fired \in [Owners \X {"before", "after"} -> Nat]
    BY <1>0 DEF Key
  <2>2. <<>> \in Seq(Events \cup Steps) /\ 0 \in 0 .. MaxHookEvents
    BY HookAssumption
  <2> QED BY <2>1, <2>2 DEF HookTypeOK
<1>2. Paired
  <2>1. \A a \in Assignments : fired[<<a, "before">>] = 0 /\ fired[<<a, "after">>] = 0
    BY <1>0, Keys
  <2>2. \A a \in Assignments :
           fired[<<a, "before">>] - fired[<<a, "after">>] = IF a \in active THEN 1 ELSE 0
    <3> TAKE a \in Assignments
    <3>1. a \notin active
      OBVIOUS
    <3>2. fired[<<a, "before">>] = 0 /\ fired[<<a, "after">>] = 0
      BY <2>1
    <3> HIDE DEF HookInit
    <3> QED BY <3>1, <3>2
  <2> QED BY <2>2 DEF Paired
<1>3. Between
  BY DEF Between, Over
<1>4. Quiet
  <2>1. After = 0
    BY <1>0, Keys DEF After
  <2> QED BY <2>1 DEF Quiet, Answered
<1> QED BY <1>1, <1>2, <1>3, <1>4 DEF HookInv

LEMMA StartKept ==
    ASSUME HookInv, Start
    PROVE  HookInv'
<1> USE DEF HookInv
<1>1. pending = <<>> /\ Quiet /\ caller = "waiting" /\ outer = <<>> /\ active = {}
  BY NothingIsQuiet DEF Start, Between
<1>2. /\ UNCHANGED <<pending, opened, closed, outer, active, caller, given, mayRepeat>>
      /\ wrapper' = "open" /\ wrapper = "unstarted" /\ Fire({<<"scope", "before">>})
  BY DEF Start
<1>3. fired' \in [Key -> Nat] /\ After' = After
  BY <1>2, FireCounts, AfterCounts
<1>4. HookTypeOK'
  BY <1>2, <1>3 DEF HookTypeOK, Key
<1>5. Paired'
  BY <1>2, PairedByScope
<1>6. Between'
  BY <1>1, <1>2 DEF Between, Over
<1>7. Quiet'
  BY <1>1, <1>2, <1>3 DEF Quiet, Answered
<1> QED BY <1>4, <1>5, <1>6, <1>7

LEMMA InvokeKept ==
    ASSUME HookInv, NEW how \in {"ended", "failed"}, Invoke(how)
    PROVE  HookInv'
<1> USE DEF HookInv
<1>1. pending = <<>> /\ Quiet /\ outer = <<>> /\ active = {} /\ ~mayRepeat /\ ~closed
  BY NothingIsQuiet DEF Invoke, Between
<1>2. /\ UNCHANGED <<pending, opened, outer, active, given, mayRepeat>> /\ closed' = TRUE
      /\ wrapper' = "open" /\ wrapper = "unstarted" /\ Fire({"scope"} \X {"before", "after"})
      /\ caller' = how /\ how \in Over
  BY DEF Invoke, Over
<1>3. fired' \in [Key -> Nat] /\ After' = 1
  BY <1>1, <1>2, FireCounts, AfterCounts DEF Quiet, Answered
<1>4. HookTypeOK'
  BY <1>2, <1>3 DEF HookTypeOK, Key, Over
<1>5. Paired'
  BY <1>2, PairedByScope
<1>6. Between'
  BY <1>1, <1>2 DEF Between, Over
<1>7. Quiet'
  BY <1>1, <1>2, <1>3 DEF Quiet, Answered, Over
<1> QED BY <1>4, <1>5, <1>6, <1>7

LEMMA SeesKept ==
    ASSUME HookInv, NEW event \in Events, ScopeSees(event)
    PROVE  HookInv'
<1> USE DEF HookInv
<1>1. /\ pending = <<>> /\ Quiet /\ wrapper = "open" /\ caller = "waiting" /\ outer = <<>>
      /\ given < MaxHookEvents /\ given \in Nat /\ MaxHookEvents \in Nat /\ After \in Nat
  <2>1. pending = <<>> /\ wrapper = "open" /\ caller = "waiting" /\ given < MaxHookEvents
    BY DEF ScopeSees, Pulling
  <2>2. Quiet /\ outer = <<>>
    BY <2>1, NothingIsQuiet DEF Between
  <2>3. given \in Nat /\ MaxHookEvents \in Nat /\ After \in Nat
    BY AfterCounts, HookAssumption DEF HookTypeOK
  <2> QED BY <2>1, <2>2, <2>3
<1>2. /\ UNCHANGED <<wrapper, closed, outer, active, fired, caller>> /\ opened' = TRUE
      /\ given' = (IF event[1] = "final" THEN MaxHookEvents ELSE given + 1)
      /\ mayRepeat' = (mayRepeat \/ event[1] = "child final")
      /\ After' = After
  BY AfterCounts DEF ScopeSees
<1>3. PICK before \in Firings \cup {<<>>} :
         pending' = IF event \in Finals THEN before \o <<ToFire, Reported, event>>
                    ELSE <<event>> \o before
  BY DEF ScopeSees, ToFire, Reported
<1>4. before \in Seq(Plain) /\ event \in Plain
  <2>1. <<>> \in Seq(Plain)
    OBVIOUS
  <2> QED BY <1>3, <2>1, FiringsPlain, PlainFacts
<1>5. pending' \in Seq(Events \cup Steps) /\ (event \notin Finals => pending' \in Seq(Plain))
  <2>1. CASE event \in Finals
    <3>1. <<ToFire, Reported, event>> \in Seq(Events \cup Steps) /\ <<ToFire, Reported, event>> # <<>>
      BY PlainFacts
    <3> QED BY <1>3, <1>4, <2>1, <3>1, Joined
  <2>2. CASE event \notin Finals
    <3>1. <<event>> \o before \in Seq(Plain)
      BY <1>4
    <3>2. \A s \in Seq(Plain) : s \in Seq(Events \cup Steps)
      BY PlainFacts
    <3> QED BY <1>3, <2>2, <3>1, <3>2
  <2> QED BY <2>1, <2>2
<1>6. HookTypeOK'
  <2>1. given' \in 0 .. MaxHookEvents
    <3>1. given + 1 \in 0 .. MaxHookEvents /\ MaxHookEvents \in 0 .. MaxHookEvents
      BY <1>1
    <3>2. given' \in {given + 1, MaxHookEvents}
      BY <1>2
    <3> QED BY <3>1, <3>2
  <2>2. mayRepeat' \in BOOLEAN
    BY <1>2 DEF HookTypeOK
  <2> QED BY <1>2, <1>5, <2>1, <2>2 DEF HookTypeOK
<1>7. Paired'
  BY <1>2 DEF Paired
<1>8. Between'
  BY <1>1, <1>2 DEF Between, Over
<1>9. mayRepeat' \/ (~closed /\ After = 0) \/ mayRepeat
  BY <1>1 DEF Quiet, Answered, Over
<1>10. CASE event \in Finals
  <2>1. \E p \in Seq(Plain), e \in Finals : pending' = p \o <<ToFire, Reported, e>>
    BY <1>3, <1>4, <1>10
  <2>2. event[1] \in {"final", "child final"}
    BY <1>10 DEF Finals
  <2>3. ~mayRepeat' => After' = 0 /\ ~closed' /\ given' = MaxHookEvents
    BY <1>2, <1>9, <2>2
  <2>4. closed' => After' >= 1
    BY <1>1, <1>2 DEF Quiet, Answered
  <2>5. Due'
    BY <1>1, <1>2, <2>1, <2>3, <2>4 DEF Due, Over
  <2> QED BY <1>6, <1>7, <1>8, <2>5
<1>11. CASE event \notin Finals
  <2>1. Quiet'
    BY <1>1, <1>2, <1>5, <1>9, <1>11 DEF Quiet, Answered, Over
  <2> QED BY <1>6, <1>7, <1>8, <2>1
<1> QED BY <1>10, <1>11

\* Of the head of what is pending, and of what is behind it.
LEMMA DueHead ==
    ASSUME HookInv, pending # <<>>
    PROVE  /\ Tail(pending) \in Seq(Events \cup Steps)
           /\ Head(pending) \in Plain \/ Head(pending) \in {ToFire, Reported}
           /\ Head(pending)[1] = "fire" =>
                 Due /\ \E e \in Finals : Tail(pending) = <<Reported, e>>
           /\ Head(pending)[1] = "fired" =>
                 Reporting /\ Tail(pending) \in Seq(Plain)
           /\ Head(pending) \in Plain =>
                 \/ Quiet /\ Tail(pending) \in Seq(Plain)
                 \/ Due /\ \E p \in Seq(Plain), e \in Finals : Tail(pending) = p \o <<ToFire, Reported, e>>
                 \/ Reporting /\ \E p \in Seq(Plain), e \in Finals : Tail(pending) = p \o <<Reported, e>>
<1> USE DEF HookInv
<1>0. Tail(pending) \in Seq(Events \cup Steps)
  BY DEF HookTypeOK
<1>1. CASE Quiet
  BY <1>0, <1>1, PlainFacts DEF Quiet
<1>2. CASE Due
  <2>1. PICK p \in Seq(Plain), e \in Finals : pending = p \o <<ToFire, Reported, e>>
    BY <1>2 DEF Due
  <2>2. <<ToFire, Reported, e>> \in Seq(Events \cup Steps) /\ <<ToFire, Reported, e>> # <<>>
        /\ Head(<<ToFire, Reported, e>>) = ToFire /\ Tail(<<ToFire, Reported, e>>) = <<Reported, e>>
    BY PlainFacts
  <2>3. CASE p = <<>>
    <3>1. pending = <<ToFire, Reported, e>>
      BY <2>1, <2>2, <2>3, Joined
    <3> QED BY <1>0, <1>2, <2>2, <3>1, PlainFacts
  <2>4. CASE p # <<>>
    <3>1. Head(pending) \in Plain /\ Tail(pending) = Tail(p) \o <<ToFire, Reported, e>> /\ Tail(p) \in Seq(Plain)
      BY <2>1, <2>2, <2>4, Joined
    <3> QED BY <1>0, <1>2, <3>1, PlainFacts
  <2> QED BY <2>3, <2>4
<1>3. CASE Reporting
  <2>1. PICK p \in Seq(Plain), e \in Finals : pending = p \o <<Reported, e>>
    BY <1>3 DEF Reporting
  <2>2. <<Reported, e>> \in Seq(Events \cup Steps) /\ <<Reported, e>> # <<>>
        /\ Head(<<Reported, e>>) = Reported /\ Tail(<<Reported, e>>) = <<e>> /\ <<e>> \in Seq(Plain)
    BY PlainFacts
  <2>3. CASE p = <<>>
    <3>1. pending = <<Reported, e>>
      BY <2>1, <2>2, <2>3, Joined
    <3> QED BY <1>0, <1>3, <2>2, <3>1, PlainFacts
  <2>4. CASE p # <<>>
    <3>1. Head(pending) \in Plain /\ Tail(pending) = Tail(p) \o <<Reported, e>> /\ Tail(p) \in Seq(Plain)
      BY <2>1, <2>2, <2>4, Joined
    <3> QED BY <1>0, <1>3, <3>1, PlainFacts
  <2> QED BY <2>3, <2>4
<1> QED BY <1>1, <1>2, <1>3

LEMMA FireAfterKept ==
    ASSUME HookInv, FireAfter
    PROVE  HookInv'
<1> USE DEF HookInv
<1>1. /\ pending # <<>> /\ Head(pending)[1] = "fire" /\ Fire({<<"scope", "after">>})
      /\ UNCHANGED <<wrapper, opened, closed, outer, active, caller, given, mayRepeat>>
  BY DEF FireAfter
<1>2. Due /\ \E e \in Finals : Tail(pending) = <<Reported, e>>
  BY <1>1, DueHead
<1>3. PICK e \in Finals, after \in Firings : pending' = after \o <<Reported, e>>
  BY <1>2 DEF FireAfter
<1>4. after \in Seq(Plain) /\ <<Reported, e>> \in Seq(Events \cup Steps) /\ <<Reported, e>> # <<>>
  BY <1>3, FiringsPlain, PlainFacts
<1>5. fired' \in [Key -> Nat] /\ After' = After + 1 /\ After \in Nat
  BY <1>1, FireCounts, AfterCounts
<1>6. HookTypeOK'
  <2>1. pending' \in Seq(Events \cup Steps)
    BY <1>3, <1>4, Joined
  <2> QED BY <1>1, <1>5, <2>1 DEF HookTypeOK, Key
<1>7. Paired'
  BY <1>1, PairedByScope
<1>8. Between'
  <2>1. Head(pending) \notin Plain
    BY <1>1, PlainFacts
  <2> QED BY <1>1, <2>1 DEF Between
<1>9. Reporting'
  <2>1. \E p \in Seq(Plain), x \in Finals : pending' = p \o <<Reported, x>>
    BY <1>3, <1>4
  <2>2. After' >= 1 /\ (After = 0 => After' = 1)
    BY <1>5
  <2> QED BY <1>1, <1>2, <2>1, <2>2 DEF Due, Reporting
<1> QED BY <1>6, <1>7, <1>8, <1>9

LEMMA MarkFiredKept ==
    ASSUME HookInv, MarkFired
    PROVE  HookInv'
<1> USE DEF HookInv
<1>1. /\ pending # <<>> /\ Head(pending)[1] = "fired" /\ closed' = TRUE /\ pending' = Tail(pending)
      /\ UNCHANGED <<wrapper, opened, outer, active, fired, caller, given, mayRepeat>>
  BY DEF MarkFired
<1>2. Reporting /\ Tail(pending) \in Seq(Plain) /\ Tail(pending) \in Seq(Events \cup Steps)
  BY <1>1, DueHead
<1>3. After' = After
  BY <1>1, AfterCounts
<1>4. HookTypeOK'
  BY <1>1, <1>2 DEF HookTypeOK
<1>5. Paired'
  BY <1>1 DEF Paired
<1>6. Between'
  <2>1. Head(pending) \notin Plain
    BY <1>1, PlainFacts
  <2> QED BY <1>1, <1>2, <2>1 DEF Between, Reporting
<1>7. Quiet'
  BY <1>1, <1>2, <1>3 DEF Reporting, Quiet, Answered
<1> QED BY <1>4, <1>5, <1>6, <1>7

\* A member starts or ends, or what the scope yields passes through.
LEMMA MemberSeesKept ==
    ASSUME HookInv, MemberSees
    PROVE  HookInv'
<1> USE DEF HookInv
<1> DEFINE it == Head(pending)
           a == it[2]
<1>1. /\ caller = "waiting" /\ outer = <<>> /\ pending # <<>> /\ it[1] \notin {"fire", "fired"}
      /\ UNCHANGED <<wrapper, pending, opened, closed, caller, given, mayRepeat>>
  BY DEF MemberSees
<1>2. it \in Plain
  BY <1>1, DueHead, PlainFacts
<1>3. \/ /\ a \in Recognised /\ a \notin active /\ active' = active \cup {a} /\ Fire({<<a, "before">>})
         /\ \E f \in Firings : outer' = Append(f, it)
      \/ /\ a \in Recognised /\ a \in active /\ active' = active \ {a} /\ Fire({<<a, "after">>})
         /\ \E f \in Firings : outer' = Append(f, it)
      \/ outer' = <<it>> /\ UNCHANGED <<active, fired>>
  BY DEF MemberSees
<1>4. outer' \in Seq(Events \cup Steps) /\ outer' # <<>>
  <2>1. it \in Events \cup Steps
    BY <1>2, PlainFacts
  <2> HIDE DEF it
  <2>2. CASE outer' = <<it>>
    BY <2>1, <2>2
  <2>3. ASSUME NEW f \in Firings, outer' = Append(f, it) PROVE outer' \in Seq(Events \cup Steps) /\ outer' # <<>>
    <3>1. f \in Seq(Events \cup Steps)
      BY FiringsPlain
    <3> QED BY <2>1, <2>3, <3>1
  <2> QED BY <1>3, <2>2, <2>3
<1> HIDE DEF it, a
<1>5. fired' \in [Key -> Nat] /\ After' = After
  <2>1. CASE fired' = fired
    BY <2>1, AfterCounts DEF HookTypeOK, Key
  <2>2. ASSUME NEW w, Fire({<<a, w>>}), a \in Recognised PROVE fired' \in [Key -> Nat] /\ After' = After
    <3>1. <<"scope", "after">> \notin {<<a, w>>}
      BY <2>2, HookAssumption
    <3> QED BY <2>2, <3>1, FireCounts, AfterCounts
  <2> QED BY <1>3, <2>1, <2>2
<1>6. HookTypeOK'
  <2>1. active' \subseteq Assignments
    BY <1>3, HookAssumption DEF HookTypeOK
  <2> QED BY <1>1, <1>4, <1>5, <2>1 DEF HookTypeOK, Key
<1>7. Paired'
  <2> SUFFICES ASSUME NEW b \in Assignments
               PROVE  fired'[<<b, "before">>] - fired'[<<b, "after">>] = IF b \in active' THEN 1 ELSE 0
    BY DEF Paired
  <2>1. /\ fired[<<b, "before">>] - fired[<<b, "after">>] = IF b \in active THEN 1 ELSE 0
        /\ fired[<<b, "before">>] \in Nat /\ fired[<<b, "after">>] \in Nat
    BY Keys DEF Paired, HookTypeOK, Key
  <2>2. CASE a \notin active /\ active' = active \cup {a} /\ Fire({<<a, "before">>})
    <3>1. /\ fired'[<<b, "before">>] = fired[<<b, "before">>] + IF b = a THEN 1 ELSE 0
          /\ fired'[<<b, "after">>] = fired[<<b, "after">>]
      <4>1. \A x \in Key : fired'[x] = fired[x] + IF x \in {<<a, "before">>} THEN 1 ELSE 0
        BY <2>2, FireCounts
      <4>2. <<b, "before">> \in Key /\ <<b, "after">> \in Key
        BY Keys
      <4>3. /\ <<b, "before">> \in {<<a, "before">>} <=> b = a
            /\ <<b, "after">> \notin {<<a, "before">>}
        OBVIOUS
      <4>4. fired[<<b, "before">>] + 0 = fired[<<b, "before">>] /\ fired[<<b, "after">>] + 0 = fired[<<b, "after">>]
        BY <2>1
      <4> QED BY <4>1, <4>2, <4>3, <4>4
    <3> QED BY <2>1, <2>2, <3>1
  <2>3. CASE a \in active /\ active' = active \ {a} /\ Fire({<<a, "after">>})
    <3>1. /\ fired'[<<b, "before">>] = fired[<<b, "before">>]
          /\ fired'[<<b, "after">>] = fired[<<b, "after">>] + IF b = a THEN 1 ELSE 0
      <4>1. \A x \in Key : fired'[x] = fired[x] + IF x \in {<<a, "after">>} THEN 1 ELSE 0
        BY <2>3, FireCounts
      <4>2. <<b, "before">> \in Key /\ <<b, "after">> \in Key
        BY Keys
      <4>3. /\ <<b, "after">> \in {<<a, "after">>} <=> b = a
            /\ <<b, "before">> \notin {<<a, "after">>}
        OBVIOUS
      <4>4. fired[<<b, "before">>] + 0 = fired[<<b, "before">>] /\ fired[<<b, "after">>] + 0 = fired[<<b, "after">>]
        BY <2>1
      <4> QED BY <4>1, <4>2, <4>3, <4>4
    <3> QED BY <2>1, <2>3, <3>1
  <2>4. CASE UNCHANGED <<active, fired>>
    BY <2>1, <2>4
  <2> QED BY <1>3, <2>2, <2>3, <2>4
<1>8. Between'
  BY <1>1, <1>2, <1>4 DEF Between, Over, it
<1>9. (Quiet => Quiet') /\ (Due => Due') /\ (Reporting => Reporting')
  BY <1>1, <1>5 DEF Quiet, Due, Reporting, Answered
<1> QED BY <1>6, <1>7, <1>8, <1>9

LEMMA YieldKept ==
    ASSUME HookInv, Yield
    PROVE  HookInv'
<1> USE DEF HookInv
<1>1. /\ UNCHANGED <<wrapper, pending, opened, closed, outer, active, fired, given, mayRepeat>>
      /\ caller' = "holding" /\ caller = "waiting" /\ outer # <<>>
  BY DEF Yield
<1>2. After' = After
  BY <1>1, AfterCounts
<1>3. HookTypeOK' /\ Paired' /\ Between'
  BY <1>1 DEF HookTypeOK, Paired, Between, Over
<1>4. (Quiet => Quiet') /\ (Due => Due') /\ (Reporting => Reporting')
  BY <1>1, <1>2 DEF Quiet, Due, Reporting, Answered, Over
<1> QED BY <1>3, <1>4

LEMMA ResumeKept ==
    ASSUME HookInv, Resume
    PROVE  HookInv'
<1> USE DEF HookInv
<1>1. /\ UNCHANGED <<wrapper, opened, closed, active, fired, given, mayRepeat>>
      /\ caller = "holding" /\ caller' = "waiting" /\ outer' = Tail(outer)
      /\ pending' = IF Len(outer) = 1 THEN Tail(pending) ELSE pending
  BY DEF Resume
<1>2. /\ outer # <<>> /\ pending # <<>> /\ Head(pending) \in Plain /\ wrapper # "unstarted"
      /\ outer \in Seq(Events \cup Steps) /\ pending \in Seq(Events \cup Steps)
  BY <1>1 DEF Between, HookTypeOK
<1>3. After' = After
  BY <1>1, AfterCounts
<1>4. outer' \in Seq(Events \cup Steps) /\ (outer' # <<>> => Len(outer) # 1)
  BY <1>1, <1>2
<1>5. pending' \in Seq(Events \cup Steps)
  BY <1>1, <1>2
<1>6. HookTypeOK'
  BY <1>1, <1>4, <1>5 DEF HookTypeOK
<1>7. Paired'
  BY <1>1 DEF Paired
<1>8. Between'
  BY <1>1, <1>2, <1>4 DEF Between, Over
<1>9. CASE pending' = pending
  <2>1. (Quiet => Quiet') /\ (Due => Due') /\ (Reporting => Reporting')
    BY <1>1, <1>3, <1>9 DEF Quiet, Due, Reporting, Answered, Over
  <2> QED BY <1>6, <1>7, <1>8, <2>1
<1>10. CASE pending' = Tail(pending)
  <2>1. CASE Quiet /\ Tail(pending) \in Seq(Plain)
    <3>1. Quiet'
      BY <1>1, <1>3, <1>10, <2>1 DEF Quiet, Answered, Over
    <3> QED BY <1>6, <1>7, <1>8, <3>1
  <2>2. CASE Due /\ \E p \in Seq(Plain), e \in Finals : Tail(pending) = p \o <<ToFire, Reported, e>>
    <3>1. \E p \in Seq(Plain), e \in Finals : pending' = p \o <<ToFire, Reported, e>>
      BY <1>10, <2>2
    <3>2. Due'
      BY <1>1, <1>3, <2>2, <3>1 DEF Due, Over
    <3> QED BY <1>6, <1>7, <1>8, <3>2
  <2>3. CASE Reporting /\ \E p \in Seq(Plain), e \in Finals : Tail(pending) = p \o <<Reported, e>>
    <3>1. \E p \in Seq(Plain), e \in Finals : pending' = p \o <<Reported, e>>
      BY <1>10, <2>3
    <3>2. Reporting'
      BY <1>1, <1>3, <2>3, <3>1 DEF Reporting, Over
    <3> QED BY <1>6, <1>7, <1>8, <3>2
  <2> QED BY <1>2, <2>1, <2>2, <2>3, DueHead
<1> QED BY <1>1, <1>9, <1>10

\* A report that is pending is seen in the sequence.
LEMMA ReportSeen ==
    ASSUME HookInv, Due \/ Reporting
    PROVE  \E i \in DOMAIN pending : pending[i][1] = "fired"
<1>1. CASE Due
  <2>1. PICK p \in Seq(Plain), e \in Finals : pending = p \o <<ToFire, Reported, e>>
    BY <1>1 DEF Due
  <2>2. Len(p) + 2 \in DOMAIN pending /\ pending[Len(p) + 2] = Reported
    BY <2>1
  <2> QED BY <2>2, PlainFacts
<1>2. CASE Reporting
  <2>1. PICK p \in Seq(Plain), e \in Finals : pending = p \o <<Reported, e>>
    BY <1>2 DEF Reporting
  <2>2. Len(p) + 1 \in DOMAIN pending /\ pending[Len(p) + 1] = Reported
    BY <2>1
  <2> QED BY <2>2, PlainFacts
<1> QED BY <1>1, <1>2

\* The handlers of both generators.
LEMMA UnwindKept ==
    ASSUME HookInv, NEW how \in Over, Unwind(how), wrapper # "unstarted", caller \notin Over,
           ~mayRepeat' => Quiet, mayRepeat' \in BOOLEAN, mayRepeat => mayRepeat'
    PROVE  HookInv'
<1> USE DEF HookInv
<1> DEFINE which == (active \X {"after"}) \cup (IF Answered THEN {} ELSE {<<"scope", "after">>})
<1>1. /\ caller' = how /\ pending' = <<>> /\ outer' = <<>> /\ closed' = TRUE /\ active' = {}
      /\ Fire(which) /\ UNCHANGED <<wrapper, opened, given>>
  BY DEF Unwind, Answered
<1>2. active \subseteq Assignments /\ After \in Nat
  BY AfterCounts DEF HookTypeOK
<1>3. <<"scope", "after">> \in which <=> ~Answered
  BY <1>2, HookAssumption
<1>4. \A a \in Assignments : /\ <<a, "before">> \notin which
                             /\ <<a, "after">> \in which <=> a \in active
  BY Keys
<1> HIDE DEF which
<1>5. fired' \in [Key -> Nat] /\ After' = After + IF Answered THEN 0 ELSE 1
  BY <1>1, <1>3, FireCounts, AfterCounts
<1>6. HookTypeOK'
  <2>1. how \in {"waiting", "holding"} \cup Over /\ <<>> \in Seq(Events \cup Steps)
    OBVIOUS
  <2> QED BY <1>1, <1>5, <2>1 DEF HookTypeOK, Key
<1>7. Paired'
  <2> SUFFICES ASSUME NEW b \in Assignments
               PROVE  fired'[<<b, "before">>] - fired'[<<b, "after">>] = IF b \in active' THEN 1 ELSE 0
    BY DEF Paired
  <2>1. /\ fired[<<b, "before">>] - fired[<<b, "after">>] = IF b \in active THEN 1 ELSE 0
        /\ fired[<<b, "before">>] \in Nat /\ fired[<<b, "after">>] \in Nat
    BY Keys DEF Paired, HookTypeOK, Key
  <2>2. /\ fired'[<<b, "before">>] = fired[<<b, "before">>]
        /\ fired'[<<b, "after">>] = fired[<<b, "after">>] + IF b \in active THEN 1 ELSE 0
    <3>1. \A x \in Key : fired'[x] = fired[x] + IF x \in which THEN 1 ELSE 0
      BY <1>1, FireCounts
    <3>2. <<b, "before">> \in Key /\ <<b, "after">> \in Key
      BY Keys
    <3>3. fired[<<b, "before">>] + 0 = fired[<<b, "before">>]
      BY <2>1
    <3> QED BY <1>4, <3>1, <3>2, <3>3
  <2> QED BY <1>1, <2>1, <2>2
<1>8. Between'
  BY <1>1 DEF Between, Over
<1>9. Answered => After >= 1
  BY DEF Quiet, Due, Reporting, Answered
<1>10. ~mayRepeat' => After = IF Answered THEN 1 ELSE 0
  BY DEF Quiet
<1>11. Quiet'
  <2>1. <<>> \in Seq(Plain) /\ Answered'
    BY <1>1 DEF Answered
  <2>2. After' >= 1 /\ (~mayRepeat' => After' = 1)
    BY <1>2, <1>5, <1>9, <1>10
  <2> QED BY <1>1, <2>1, <2>2 DEF Quiet
<1> QED BY <1>6, <1>7, <1>8, <1>11

LEMMA EndsKept ==
    ASSUME HookInv, CallerCloses \/ SourceEnds \/ SourceCancelled \/ Raised
    PROVE  HookInv'
<1>1. mayRepeat \in BOOLEAN
  BY DEF HookInv, HookTypeOK
<1>2. CASE CallerCloses
  <2>1. /\ Unwind("left") /\ "left" \in Over /\ wrapper # "unstarted" /\ caller \notin Over
        /\ mayRepeat' = (mayRepeat \/ \E i \in DOMAIN pending : pending[i][1] = "fired")
    BY <1>2 DEF CallerCloses, Over, HookInv, Between
  <2>2. ~mayRepeat' => Quiet
    BY <2>1, ReportSeen DEF HookInv
  <2> QED BY <1>1, <2>1, <2>2, UnwindKept
<1>3. CASE SourceEnds \/ SourceCancelled \/ Raised
  <2>1. /\ Unwind("ended") \/ Unwind("failed")
        /\ pending = <<>> /\ wrapper # "unstarted" /\ caller \notin Over /\ mayRepeat' = mayRepeat
    BY <1>3 DEF SourceEnds, SourceCancelled, Raised, Pulling, Over
  <2>2. Quiet /\ "ended" \in Over /\ "failed" \in Over
    BY <2>1, NothingIsQuiet DEF Over
  <2> QED BY <1>1, <2>1, <2>2, UnwindKept
<1> QED BY <1>2, <1>3

LEMMA RaisesKept ==
    ASSUME HookInv, SourceRaises
    PROVE  HookInv'
<1> USE DEF HookInv
<1>1. /\ pending = <<>> /\ wrapper = "open" /\ caller = "waiting" /\ wrapper' = "raising"
      /\ UNCHANGED <<opened, closed, outer, active, caller, given, mayRepeat>>
  BY DEF SourceRaises, Pulling
<1>2. Quiet /\ outer = <<>> /\ After \in Nat
  BY <1>1, NothingIsQuiet, AfterCounts DEF Between
<1>3. CASE closed /\ UNCHANGED <<pending, fired>>
  <2>1. After' = After
    BY <1>3, AfterCounts
  <2>2. HookTypeOK' /\ Paired' /\ Between'
    BY <1>1, <1>2, <1>3 DEF HookTypeOK, Paired, Between, Over
  <2>3. Quiet'
    BY <1>1, <1>2, <1>3, <2>1 DEF Quiet, Answered, Over
  <2> QED BY <2>2, <2>3
<1>4. CASE ~closed /\ Fire({<<"scope", "after">>}) /\ pending' \in Firings
  <2>1. fired' \in [Key -> Nat] /\ After' = After + 1 /\ pending' \in Seq(Plain)
        /\ pending' \in Seq(Events \cup Steps)
    BY <1>4, FireCounts, AfterCounts, FiringsPlain
  <2>2. HookTypeOK'
    BY <1>1, <2>1 DEF HookTypeOK, Key
  <2>3. Paired'
    BY <1>1, <1>4, PairedByScope
  <2>4. Between'
    BY <1>1, <1>2 DEF Between, Over
  <2>5. Quiet'
    <3>1. Answered' /\ ~Answered
      BY <1>1, <1>4 DEF Answered
    <3>2. After' >= 1 /\ (~mayRepeat => After' = 1)
      BY <1>2, <2>1, <3>1 DEF Quiet
    <3> QED BY <1>1, <1>2, <1>4, <2>1, <3>1, <3>2 DEF Quiet
  <2> QED BY <2>2, <2>3, <2>4, <2>5
<1> QED BY <1>3, <1>4 DEF SourceRaises

\* Whatever ends a stream, hooks that ran before are answered by those that
\* run after, and the scope's once, except in the two cases of mayRepeat.
THEOREM HooksAnswered == HookSpec => []HooksPaired
<1>1. HookInv /\ [HookNext]_hookVars => HookInv'
  <2> SUFFICES ASSUME HookInv, [HookNext]_hookVars PROVE HookInv'
    OBVIOUS
  <2>1. CASE UNCHANGED hookVars
    BY <2>1 DEF hookVars, HookInv, HookTypeOK, Paired, Between, Quiet, Due, Reporting, Answered, After
  <2> QED BY <2>1, StartKept, InvokeKept, SeesKept, FireAfterKept, MarkFiredKept, MemberSeesKept,
             YieldKept, ResumeKept, EndsKept, RaisesKept DEF HookNext
<1>2. HookInv => HooksPaired
  <2> SUFFICES ASSUME HookInv PROVE HooksPaired
    OBVIOUS
  <2>1. caller \in Over => Quiet /\ active = {} /\ closed
    BY NothingIsQuiet DEF HookInv, Between
  <2>2. caller \in Over => IF mayRepeat THEN After >= 1 ELSE After = 1
    BY <2>1 DEF Quiet, Answered
  <2> QED BY <2>1, <2>2 DEF HooksPaired, HookInv, Paired, After
<1> QED BY <1>1, <1>2, InitHooks, PTL DEF HookSpec

-----------------------------------------------------------------------------
(* BoundThread                                                             *)

USE ThreadAssumption DEF ThreadAssumption

Posting == {"posting send", "posting stream"}
Queued(l, p, n) == \E i \in 1 .. n : l[i] = [at |-> p, hook |-> FALSE]

\* The end of a session closes its log.
Logs ==
    /\ \A s \in 1 .. Len(log) :
          /\ Len(log[s]) <= MaxPositions
          /\ \A p \in 1 .. Len(log[s]) : log[s][p] \in Terminals => p = Len(log[s])
    /\ cancels \subseteq 1 .. Len(log)

\* Where the operation is, against the position and the session of the handle.
Place ==
    /\ operation.does = "idle" => operation = Idle
    /\ operation.does \in Posting =>
          /\ operation.of = 0 /\ session = 0
          /\ operation.taken = {} /\ operation.line = <<>> /\ operation.terminal = FALSE
    /\ operation.does \in {"posting send", "sending", "replaying"} => ~operation.opted
    /\ operation.does \in Posting \cup {"sending"} => resumeFrom = 0 /\ handed = {}
    /\ operation.does = "streaming" => local
    /\ IsStreaming =>
          /\ operation.of \in 1 .. Len(log) /\ session \in {0, operation.of}
          /\ \A p \in 1 .. resumeFrom : Accounted(operation.of, p)

\* What was taken and is not accounted for is in line, and so is whatever comes
\* before an item of the line, ahead of it.
NothingLost ==
    /\ \A p \in operation.taken :
          Accounted(operation.of, p) \/ Queued(operation.line, p, Len(operation.line))
    /\ \A i \in 1 .. Len(operation.line), q \in Positions :
          q < operation.line[i].at => Accounted(operation.of, q) \/ Queued(operation.line, q, i - 1)

\* The flag of a stream that opted in is set before the end can reach the caller,
\* and only when the session has ended.
Ends(p) == p <= Len(Stream) /\ (Stream[p] \in Terminals => operation.terminal)
Flag ==
    operation.opted /\ IsStreaming =>
        /\ operation.of \notin cancels /\ (operation.terminal => SessionOver(operation.of))
        /\ \A p \in handed : Ends(p)
        /\ \A i \in 1 .. Len(operation.line) : ~operation.line[i].hook => Ends(operation.line[i].at)

ThreadInv ==
    ThreadTypeOK /\ Logs /\ Place /\ (IsStreaming => NothingLost) /\ Flag /\ CursorMissesNothing

LEMMA SeqOfSeqs ==
    ASSUME NEW S, NEW l \in Seq(Seq(S))
    PROVE  Len(l) \in Nat /\ \A t \in 1 .. Len(l) : l[t] \in Seq(S) /\ Len(l[t]) \in Nat
  OBVIOUS

LEMMA WiderInterval ==
    ASSUME NEW m \in Nat, NEW n \in Nat, m <= n
    PROVE  0 \in 0 .. m /\ 0 .. m \subseteq 0 .. n /\ 1 .. m \subseteq 1 .. n /\ 1 .. m \subseteq Int
  OBVIOUS

LEMMA NotEmpty == ASSUME NEW S, NEW l \in Seq(S), l # <<>> PROVE Len(l) \in Nat /\ Len(l) # 0
  OBVIOUS

LEMMA Appended ==
    ASSUME NEW S, NEW l \in Seq(S), NEW e \in S
    PROVE  /\ Append(l, e) \in Seq(S) /\ Len(l) \in Nat /\ Len(Append(l, e)) = Len(l) + 1
           /\ \A i \in 1 .. Len(l) : Append(l, e)[i] = l[i]
           /\ Append(l, e)[Len(l) + 1] = e
  OBVIOUS

LEMMA Shortened ==
    ASSUME NEW S, NEW l \in Seq(S), l # <<>>
    PROVE  /\ Head(l) = l[1] /\ Head(l) \in S /\ 1 \in 1 .. Len(l)
           /\ Tail(l) \in Seq(S) /\ Len(l) \in Nat /\ Len(Tail(l)) = Len(l) - 1
           /\ \A i \in 1 .. Len(Tail(l)) : Tail(l)[i] = l[i + 1]
  OBVIOUS

LEMMA ThreadInitInv == ThreadInit => ThreadInv
  <1> SUFFICES ASSUME ThreadInit PROVE ThreadInv
    OBVIOUS
  <1>1. ThreadTypeOK
    <2>1. <<>> \in Seq(Seq(Kinds)) /\ Len(<<>>) = 0 /\ <<>> \in Seq(Items) /\ 0 \in 0 .. 0
          /\ 0 \in 0 .. MaxPositions /\ 0 <= MaxSessions
      OBVIOUS
    <2>2. Idle \in [does : {"idle", "posting send", "posting stream", "sending", "streaming", "replaying"},
                   of : 0 .. 0, taken : SUBSET Positions, line : Seq(Items),
                   opted : BOOLEAN, terminal : BOOLEAN]
      BY <2>1 DEF Idle
    <2> QED BY <2>1, <2>2 DEF ThreadInit, ThreadTypeOK
  <1> QED BY <1>1 DEF ThreadInit, ThreadInv, Logs, Place, Flag, CursorMissesNothing, Idle, Posting, IsStreaming

-----------------------------------------------------------------------------
(* What the state is made of.                                              *)

Does == {"idle", "posting send", "posting stream", "sending", "streaming", "replaying"}
Op(n) == [does : Does, of : 0 .. n, taken : SUBSET Positions, line : Seq(Items),
          opted : BOOLEAN, terminal : BOOLEAN]

LEMMA Known ==
    ASSUME ThreadInv
    PROVE  /\ log \in Seq(Seq(Kinds)) /\ Len(log) \in Nat /\ Len(log) <= MaxSessions
           /\ \A s \in 1 .. Len(log) :
                 log[s] \in Seq(Kinds) /\ Len(log[s]) \in Nat /\ Len(log[s]) <= MaxPositions
           /\ session \in 0 .. Len(log) /\ resumeFrom \in 0 .. MaxPositions
           /\ operation \in Op(Len(log))
           /\ cancels \subseteq 1 .. Len(log) /\ cancels \subseteq Sessions /\ local \in BOOLEAN
           /\ handed \subseteq Positions /\ announced \subseteq Positions /\ waived \subseteq Positions
  <1>1. log \in Seq(Seq(Kinds))
    BY Zenon DEF ThreadInv, ThreadTypeOK
  <1> QED BY <1>1, SeqOfSeqs, Zenon DEF ThreadInv, ThreadTypeOK, Logs, Op, Does

LEMMA Parts ==
    ASSUME NEW n, NEW op \in Op(n)
    PROVE  /\ op.does \in Does /\ op.of \in 0 .. n /\ op.taken \in SUBSET Positions
           /\ op.line \in Seq(Items) /\ op.opted \in BOOLEAN /\ op.terminal \in BOOLEAN
  BY DEF Op

LEMMA IdleOp ==
    ASSUME NEW n \in Nat
    PROVE  /\ Idle \in Op(n) /\ Idle.does = "idle" /\ Idle.opted = FALSE /\ Idle.of = 0
           /\ Idle.taken = {} /\ Idle.line = <<>> /\ Idle.terminal = FALSE
  BY DEF Idle, Op, Does

LEMMA TypedAgain ==
    ASSUME log' \in Seq(Seq(Kinds)), Len(log') <= MaxSessions, session' \in 0 .. Len(log'),
           resumeFrom' \in 0 .. MaxPositions, operation' \in Op(Len(log')), cancels' \subseteq Sessions,
           local' \in BOOLEAN, handed' \subseteq Positions, announced' \subseteq Positions,
           waived' \subseteq Positions
    PROVE  ThreadTypeOK'
  BY Zenon DEF ThreadTypeOK, Op, Does

\* Whoever lets go of the lock keeps what is true of the position.
LEMMA IdleInv ==
    ASSUME ThreadTypeOK', Logs', CursorMissesNothing', operation' = Idle PROVE ThreadInv'
  <1>1. Idle.does = "idle" /\ Idle.opted = FALSE
    BY DEF Idle
  <1> QED BY <1>1 DEF ThreadInv, Place, Flag, Posting, IsStreaming

LEMMA SameLogs == ASSUME ThreadInv, log' = log, cancels' = cancels PROVE Logs'
  BY Zenon DEF ThreadInv, Logs

-----------------------------------------------------------------------------
(* What the actions of the platform do to the log.                         *)

Grown ==
    /\ log' \in Seq(Seq(Kinds)) /\ Len(log') \in Nat /\ Len(log') <= MaxSessions /\ Len(log) <= Len(log')
    /\ \A t \in 1 .. Len(log') :
          /\ Len(log'[t]) \in Nat /\ Len(log'[t]) <= MaxPositions
          /\ \A p \in 1 .. Len(log'[t]) : log'[t][p] \in Terminals => p = Len(log'[t])
    /\ \A t \in 1 .. Len(log) :
          /\ Len(log[t]) <= Len(log'[t]) /\ (SessionOver(t) => log'[t] = log[t])
          /\ \A p \in 1 .. Len(log[t]) : log'[t][p] = log[t][p]

LEMMA EmitsLog ==
    ASSUME ThreadInv, NEW s \in 1 .. Len(log), NEW kind \in Kinds, Emits(s, kind)
    PROVE  Grown /\ Len(log') = Len(log)
  <1> DEFINE longer == Append(log[s], kind)
  <1>1. log \in Seq(Seq(Kinds)) /\ log[s] \in Seq(Kinds) /\ Len(log[s]) \in Nat
        /\ Len(log[s]) < MaxPositions /\ ~SessionOver(s) /\ Len(log) \in Nat /\ Len(log) <= MaxSessions
    BY Known, Zenon DEF Emits
  <1>2. longer \in Seq(Kinds) /\ Len(longer) = Len(log[s]) + 1
        /\ \A p \in 1 .. Len(log[s]) : longer[p] = log[s][p]
    BY <1>1
  <1>3. log' = [log EXCEPT ![s] = longer]
    BY DEF Emits
  <1>4. \A p \in 1 .. Len(log[s]) : log[s][p] \notin Terminals
    <2> SUFFICES ASSUME NEW p \in 1 .. Len(log[s]), log[s][p] \in Terminals PROVE FALSE
      OBVIOUS
    <2>1. p = Len(log[s])
      BY Zenon DEF ThreadInv, Logs
    <2>2. log[s] # <<>>
      BY <1>1
    <2> QED BY <1>1, <2>1, <2>2, Zenon DEF SessionOver
  <1> HIDE DEF longer
  <1>5. log' \in Seq(Seq(Kinds)) /\ Len(log') = Len(log)
    BY <1>1, <1>2, <1>3
  <1>6. ASSUME NEW t \in 1 .. Len(log)
        PROVE  /\ Len(log'[t]) \in Nat /\ Len(log'[t]) <= MaxPositions /\ Len(log[t]) <= Len(log'[t])
               /\ \A p \in 1 .. Len(log'[t]) : log'[t][p] \in Terminals => p = Len(log'[t])
               /\ SessionOver(t) => log'[t] = log[t]
               /\ \A p \in 1 .. Len(log[t]) : log'[t][p] = log[t][p]
    <2>1. CASE t = s
      <3>1. log'[t] = longer
        BY <1>1, <1>3, <2>1
      <3>2. ASSUME NEW p \in 1 .. Len(longer), longer[p] \in Terminals PROVE p = Len(longer)
        <4>1. p \in 1 .. Len(log[s]) => longer[p] \notin Terminals
          BY <1>2, <1>4
        <4>2. Len(longer) = Len(log[s]) + 1 /\ p \notin 1 .. Len(log[s]) /\ Len(log[s]) \in Nat
          BY <1>1, <1>2, <3>2, <4>1
        <4> QED BY <3>2, <4>2
      <3> QED BY <1>1, <1>2, <2>1, <3>1, <3>2
    <2>2. CASE t # s
      <3>1. log'[t] = log[t] /\ Len(log[t]) \in Nat /\ Len(log[t]) <= MaxPositions
        BY <1>1, <1>3, <2>2, Known
      <3>2. \A p \in 1 .. Len(log[t]) : log[t][p] \in Terminals => p = Len(log[t])
        BY Zenon DEF ThreadInv, Logs
      <3> QED BY <3>1, <3>2
    <2> QED BY <2>1, <2>2
  <1>7. Len(log') \in Nat /\ Len(log') <= MaxSessions /\ Len(log) <= Len(log')
    BY <1>1, <1>5
  <1> QED BY <1>5, <1>6, <1>7, Zenon DEF Grown

LEMMA NewSession ==
    ASSUME ThreadInv, Len(log) < MaxSessions, log' = Append(log, <<>>)
    PROVE  Grown /\ Len(log') = Len(log) + 1 /\ Len(log) + 1 \in 1 .. Len(log')
  <1>1. log \in Seq(Seq(Kinds)) /\ Len(log) \in Nat
    BY Known, Zenon
  <1>2. log' \in Seq(Seq(Kinds)) /\ Len(log') = Len(log) + 1
        /\ (\A t \in 1 .. Len(log) : log'[t] = log[t]) /\ log'[Len(log) + 1] = <<>>
    <2> DEFINE e == <<>>
    <2>1. e \in Seq(Kinds) /\ log' = Append(log, e)
      OBVIOUS
    <2> HIDE DEF e
    <2>2. log' \in Seq(Seq(Kinds)) /\ Len(log') = Len(log) + 1
          /\ (\A t \in 1 .. Len(log) : log'[t] = log[t]) /\ log'[Len(log) + 1] = e
      BY <1>1, <2>1
    <2> QED BY <2>2 DEF e
  <1>3. ASSUME NEW t \in 1 .. Len(log')
        PROVE  /\ Len(log'[t]) \in Nat /\ Len(log'[t]) <= MaxPositions
               /\ \A p \in 1 .. Len(log'[t]) : log'[t][p] \in Terminals => p = Len(log'[t])
    <2>1. CASE t \in 1 .. Len(log)
      <3>1. Len(log[t]) \in Nat /\ Len(log[t]) <= MaxPositions
            /\ \A p \in 1 .. Len(log[t]) : log[t][p] \in Terminals => p = Len(log[t])
        BY <2>1, Known, Zenon DEF ThreadInv, Logs
      <3> QED BY <1>2, <2>1, <3>1
    <2>2. CASE t = Len(log) + 1
      <3>1. Len(log'[t]) = 0 /\ MaxPositions \in Nat
        BY <1>2, <2>2
      <3> QED BY <3>1
    <2> QED BY <1>1, <1>2, <2>1, <2>2
  <1>4. ASSUME NEW t \in 1 .. Len(log) PROVE log'[t] = log[t] /\ Len(log[t]) <= Len(log'[t])
    <2>1. log'[t] = log[t] /\ Len(log[t]) \in Nat
      BY <1>2, Known, Zenon
    <2> QED BY <2>1
  <1>5. Len(log') \in Nat /\ Len(log') <= MaxSessions /\ Len(log) <= Len(log')
        /\ Len(log) + 1 \in 1 .. Len(log')
    BY <1>1, <1>2
  <1>6. Grown
    BY <1>2, <1>3, <1>4, <1>5, Zenon DEF Grown
  <1> QED BY <1>2, <1>5, <1>6, Zenon

LEMMA GrownLogs ==
    ASSUME ThreadInv, Grown, cancels' = cancels
    PROVE  Logs' /\ 0 .. Len(log) \subseteq 0 .. Len(log') /\ 1 .. Len(log) \subseteq 1 .. Len(log')
  <1>1. Len(log) \in Nat /\ Len(log') \in Nat /\ Len(log) <= Len(log') /\ cancels \subseteq 1 .. Len(log)
    BY Known, Zenon DEF Grown
  <1>2. 0 .. Len(log) \subseteq 0 .. Len(log') /\ 1 .. Len(log) \subseteq 1 .. Len(log')
    BY <1>1, WiderInterval, Zenon
  <1> QED BY <1>1, <1>2, Zenon DEF Grown, Logs

\* What is accounted for stays accounted for.
LEMMA AccountedStays ==
    ASSUME ThreadInv, Grown, NEW s \in 1 .. Len(log), NEW p \in Nat \ {0}, Accounted(s, p),
           local' = local, handed \subseteq handed', announced \subseteq announced', waived \subseteq waived'
    PROVE  Accounted(s, p)'
  <1>1. CASE local /\ p <= Len(log[s]) /\ log[s][p] \in Tools
    <2>1. Len(log[s]) \in Nat /\ Len(log[s]) <= Len(log'[s]) /\ Len(log'[s]) \in Nat
      <3>1. s \in 1 .. Len(log')
        BY GrownLogs, Known, WiderInterval, Zenon DEF Grown
      <3> QED BY <3>1, Known, Zenon DEF Grown
    <2>2. p \in 1 .. Len(log[s]) /\ p <= Len(log'[s])
      BY <1>1, <2>1
    <2>3. log'[s][p] = log[s][p]
      BY <2>2, Zenon DEF Grown
    <2> QED BY <1>1, <2>2, <2>3 DEF Accounted
  <1>2. CASE p \in handed \cup announced \cup waived
    BY <1>2 DEF Accounted
  <1> QED BY <1>1, <1>2 DEF Accounted

LEMMA NoGrowth == ASSUME ThreadInv, log' = log PROVE Grown
  <1>1. \A t \in 1 .. Len(log) : Len(log[t]) \in Nat /\ Len(log[t]) <= MaxPositions
        /\ \A p \in 1 .. Len(log[t]) : log[t][p] \in Terminals => p = Len(log[t])
    BY Known, Zenon DEF ThreadInv, Logs
  <1>2. Len(log) \in Nat /\ Len(log) <= MaxSessions /\ log \in Seq(Seq(Kinds))
    BY Known, Zenon
  <1> QED BY <1>1, <1>2 DEF Grown

LEMMA OpWider == ASSUME NEW m \in Nat, NEW n \in Nat, m <= n, NEW op \in Op(m) PROVE op \in Op(n)
  <1>1. 0 .. m \subseteq 0 .. n
    OBVIOUS
  <1> QED BY <1>1 DEF Op

LEMMA OpMade ==
    ASSUME NEW n, NEW d \in Does, NEW s \in 0 .. n, NEW t \in SUBSET Positions, NEW l \in Seq(Items),
           NEW o \in BOOLEAN, NEW b \in BOOLEAN
    PROVE  [does |-> d, of |-> s, taken |-> t, line |-> l, opted |-> o, terminal |-> b] \in Op(n)
  BY DEF Op

LEMMA Empties == {} \in SUBSET Positions /\ <<>> \in Seq(Items) /\ Len(<<>>) = 0 /\ \A i : ~(i \in 1 .. 0)
  OBVIOUS

LEMMA ZeroIn == ASSUME NEW n \in Nat PROVE 0 \in 0 .. n
  OBVIOUS

LEMMA ItemAt ==
    ASSUME NEW l \in Seq(Items), NEW i \in 1 .. Len(l)
    PROVE  l[i] \in Items /\ l[i].at \in Positions /\ l[i].hook \in BOOLEAN
  <1>1. l[i] \in Items
    OBVIOUS
  <1> QED BY <1>1 DEF Items

LEMMA UpTo ==
    ASSUME NEW n \in 0 .. MaxPositions, NEW p \in 1 .. n PROVE p \in Positions /\ p \in Nat \ {0}
  BY DEF Positions

LEMMA PositionsNat == \A p \in Positions : p \in Nat \ {0}
  BY DEF Positions

LEMMA GrowingLog ==
    ASSUME ThreadInv, Grown, UNCHANGED <<session, resumeFrom, operation, cancels, givenVars>>
    PROVE  ThreadInv'
  <1> DEFINE s == operation.of
  <1>1. /\ ThreadTypeOK /\ Place /\ (IsStreaming => NothingLost) /\ Flag /\ CursorMissesNothing
        /\ UNCHANGED <<local, handed, announced, waived>>
    BY Zenon DEF ThreadInv, givenVars
  <1>2. Logs' /\ 0 .. Len(log) \subseteq 0 .. Len(log') /\ 1 .. Len(log) \subseteq 1 .. Len(log')
    BY GrownLogs, Zenon
  <1>3. ThreadTypeOK'
    <2>1. operation' \in Op(Len(log')) /\ session' \in 0 .. Len(log')
      BY <1>2, Known, OpWider, Zenon DEF Grown
    <2> QED BY <1>1, <2>1, Known, TypedAgain, Zenon DEF Grown
  <1>4. \A t \in 1 .. Len(log), p \in Nat \ {0} : Accounted(t, p) => Accounted(t, p)'
    BY <1>1, AccountedStays, Zenon
  <1>5. IsStreaming' = IsStreaming
    BY DEF IsStreaming
  <1>6. resumeFrom \in 0 .. MaxPositions /\ \A p \in 1 .. resumeFrom : p \in Nat \ {0}
    BY Known, UpTo, Zenon
  <1>7. IsStreaming => s \in 1 .. Len(log)
    BY <1>1, Zenon DEF Place
  <1>8. Place'
    <2>1. IsStreaming => \A p \in 1 .. resumeFrom : Accounted(s, p)'
      BY <1>1, <1>4, <1>6, <1>7, Zenon DEF Place
    <2> QED BY <1>1, <1>2, <1>5, <1>7, <2>1, Zenon DEF Place
  <1>9. ASSUME IsStreaming PROVE NothingLost'
    <2>1. operation.taken \in SUBSET Positions
      BY Known, Parts, Zenon
    <2>2. \A p \in operation.taken : p \in Nat \ {0}
      BY <2>1, PositionsNat, Zenon
    <2> QED BY <1>1, <1>4, <1>7, <1>9, <2>2, PositionsNat, Zenon DEF NothingLost
  <1>10. Flag'
    <2> SUFFICES ASSUME operation.opted, IsStreaming
                 PROVE  /\ s \notin cancels /\ (operation.terminal => SessionOver(s)')
                        /\ \A p \in handed : Ends(p)'
                        /\ \A i \in 1 .. Len(operation.line) : ~operation.line[i].hook => Ends(operation.line[i].at)'
      BY <1>1, <1>5, Zenon DEF Flag
    <2>1. s \in 1 .. Len(log) /\ Len(log[s]) \in Nat /\ Len(log'[s]) \in Nat /\ Len(log[s]) <= Len(log'[s])
          /\ \A p \in 1 .. Len(log[s]) : log'[s][p] = log[s][p]
      BY <1>2, <1>7, Known, Zenon DEF Grown
    <2>2. ASSUME NEW p \in Positions, Ends(p) PROVE Ends(p)'
      <3>1. p \in 1 .. Len(log[s]) /\ p <= Len(log'[s])
        BY <2>1, <2>2 DEF Ends, Positions, Stream
      <3>2. log'[s][p] = log[s][p]
        BY <2>1, <3>1
      <3> QED BY <2>2, <3>1, <3>2 DEF Ends, Stream
    <2>3. \A i \in 1 .. Len(operation.line) : operation.line[i].at \in Positions
      <3>1. operation.line \in Seq(Items)
        BY Known, Parts, Zenon
      <3> QED BY <3>1, ItemAt, Zenon
    <2>4. SessionOver(s) => SessionOver(s)'
      <3>1. SessionOver(s) => log'[s] = log[s]
        BY <2>1, Zenon DEF Grown
      <3> QED BY <3>1, Zenon DEF SessionOver
    <2>5. handed \subseteq Positions
      BY Known, Zenon
    <2> QED BY <1>1, <2>2, <2>3, <2>4, <2>5, Zenon DEF Flag
  <1>11. CursorMissesNothing'
    <2>1. session \in 0 .. Len(log) /\ Len(log) \in Nat
      BY Known, Zenon
    <2>2. session # 0 => session \in 1 .. Len(log)
      BY <2>1
    <2> QED BY <1>1, <1>4, <1>6, <2>2, Zenon DEF CursorMissesNothing
  <1> QED BY <1>2, <1>3, <1>5, <1>8, <1>9, <1>10, <1>11, Zenon DEF ThreadInv

LEMMA OtherTurnInv == ASSUME ThreadInv, OtherTurn PROVE ThreadInv'
  BY NewSession, GrowingLog, Zenon DEF OtherTurn

LEMMA EmitsInv ==
    ASSUME ThreadInv, NEW s \in 1 .. Len(log), NEW kind \in Kinds, Emits(s, kind) PROVE ThreadInv'
  <1>1. Grown
    BY EmitsLog, Zenon
  <1> QED BY <1>1, GrowingLog, Zenon DEF Emits

-----------------------------------------------------------------------------
(* What the handle does before and after a stream.                         *)

LEMMA BeginInv ==
    ASSUME ThreadInv, NEW does \in Posting, NEW opted \in BOOLEAN, Begin(does, opted),
           does = "posting send" => ~opted
    PROVE  ThreadInv'
  <1>1. /\ operation' = [Idle EXCEPT !.does = does, !.opted = opted] /\ session' = 0 /\ resumeFrom' = 0
        /\ UNCHANGED <<log, cancels>> /\ local' = FALSE /\ handed' = {} /\ announced' = {} /\ waived' = {}
    BY Zenon DEF Begin, Fresh
  <1>2. /\ operation' \in Op(Len(log)) /\ operation'.does = does /\ operation'.of = 0
        /\ operation'.taken = {} /\ operation'.line = <<>> /\ operation'.opted = opted
        /\ operation'.terminal = FALSE
    <2>1. operation' = [does |-> does, of |-> 0, taken |-> {}, line |-> <<>>,
                        opted |-> opted, terminal |-> FALSE]
      BY <1>1 DEF Idle
    <2>2. Len(log) \in Nat /\ does \in Does
      BY Known DEF Posting, Does
    <2>3. operation' \in Op(Len(log))
      BY <2>1, <2>2, OpMade, Empties, ZeroIn, Zenon
    <2> QED BY <2>1, <2>3
  <1>3. ThreadTypeOK'
    <2>1. Len(log) \in Nat /\ Len(log) <= MaxSessions /\ log \in Seq(Seq(Kinds)) /\ cancels \subseteq Sessions
      BY Known, Zenon
    <2>2. 0 \in 0 .. Len(log) /\ 0 \in 0 .. MaxPositions
      BY <2>1, ZeroIn, Zenon DEF ThreadAssumption
    <2>3. FALSE \in BOOLEAN /\ {} \subseteq Positions
      OBVIOUS
    <2> QED BY <1>1, <1>2, <2>1, <2>2, <2>3, TypedAgain, Zenon
  <1>4. does \notin {"idle", "sending", "streaming", "replaying"}
    BY DEF Posting
  <1>5. ~IsStreaming'
    BY <1>2, <1>4 DEF IsStreaming
  <1>6. Place'
    BY <1>1, <1>2, <1>4, <1>5 DEF Place, Posting
  <1>7. Logs'
    BY <1>1, SameLogs, Zenon
  <1> QED BY <1>1, <1>3, <1>5, <1>6, <1>7, Zenon DEF ThreadInv, Flag, CursorMissesNothing

LEMMA SendEndsInv == ASSUME ThreadInv, SendEnds PROVE ThreadInv'
  <1>1. /\ resumeFrom = 0 /\ operation' = Idle /\ session' \in {session, operation.of}
        /\ UNCHANGED <<log, resumeFrom, cancels, local, handed, announced, waived>>
    BY Zenon DEF SendEnds, ThreadInv, Place, givenVars
  <1>2. ThreadTypeOK'
    <2>1. session' \in 0 .. Len(log) /\ operation' \in Op(Len(log))
      BY <1>1, Known, Parts, IdleOp, Zenon
    <2> QED BY <1>1, <2>1, Known, TypedAgain, Zenon
  <1>3. CursorMissesNothing'
    BY <1>1 DEF CursorMissesNothing
  <1>4. Logs'
    BY <1>1, SameLogs, Zenon
  <1> QED BY <1>1, <1>2, <1>3, <1>4, IdleInv, Zenon

LEMMA StreamEndsInv == ASSUME ThreadInv, StreamEnds PROVE ThreadInv'
  <1>1. operation' = Idle /\ UNCHANGED <<log, session, resumeFrom, local, handed, announced, waived>>
    BY Zenon DEF StreamEnds, givenVars
  <1>2. cancels' \subseteq 1 .. Len(log) /\ cancels' \subseteq Sessions
    <2>1. operation.of \in 1 .. Len(log)
      BY Zenon DEF ThreadInv, Place, StreamEnds
    <2>2. cancels' \subseteq 1 .. Len(log)
      BY <2>1, Known, Zenon DEF StreamEnds
    <2>3. 1 .. Len(log) \subseteq Sessions
      BY Known, WiderInterval, Zenon DEF Sessions, ThreadAssumption
    <2> QED BY <2>2, <2>3, Zenon
  <1>3. ThreadTypeOK'
    BY <1>1, <1>2, Known, IdleOp, TypedAgain, Zenon
  <1>4. Logs'
    BY <1>1, <1>2, Zenon DEF ThreadInv, Logs
  <1>5. CursorMissesNothing'
    BY <1>1, Zenon DEF ThreadInv, CursorMissesNothing, Accounted
  <1> QED BY <1>1, <1>3, <1>4, <1>5, IdleInv, Zenon

LEMMA PostFailsInv == ASSUME ThreadInv, PostFails PROVE ThreadInv'
  <1>1. operation' = Idle /\ session = 0
        /\ UNCHANGED <<session, resumeFrom, cancels, local, handed, announced, waived>>
    BY DEF PostFails, givenVars, ThreadInv, Place, Posting
  <1>2. Grown
    BY NoGrowth, NewSession, Zenon DEF PostFails
  <1>3. Logs' /\ 0 .. Len(log) \subseteq 0 .. Len(log')
    BY <1>1, <1>2, GrownLogs, Zenon
  <1>4. ThreadTypeOK'
    BY <1>1, <1>2, <1>3, Known, IdleOp, TypedAgain, Zenon DEF Grown
  <1>5. CursorMissesNothing'
    BY <1>1, Zenon DEF CursorMissesNothing
  <1> QED BY <1>1, <1>3, <1>4, <1>5, IdleInv, Zenon

LEMMA AcceptedInv == ASSUME ThreadInv, Accepted PROVE ThreadInv'
  <1> DEFINE n == Len(log) + 1
  <1>1. Grown /\ Len(log') = n /\ n \in 1 .. Len(log')
    BY NewSession, Zenon DEF Accepted
  <1>2. /\ operation.does \in Posting /\ resumeFrom = 0 /\ session = 0 /\ handed = {}
        /\ operation.taken = {} /\ operation.line = <<>> /\ operation.terminal = FALSE
        /\ (operation.does = "posting send" => ~operation.opted)
    BY DEF Accepted, Posting, ThreadInv, Place
  <1>3. UNCHANGED <<session, resumeFrom, cancels, handed, announced, waived>>
        /\ local' = (operation.does = "posting stream")
    BY Zenon DEF Accepted
  <1>4. Logs' /\ 0 .. Len(log) \subseteq 0 .. Len(log') /\ 1 .. Len(log) \subseteq 1 .. Len(log')
    BY <1>1, <1>3, GrownLogs, Zenon
  <1>5. /\ operation' \in Op(Len(log')) /\ operation'.of = n /\ operation'.taken = {}
        /\ operation'.line = <<>> /\ operation'.terminal = FALSE /\ operation'.opted = operation.opted
        /\ \/ operation.does = "posting send" /\ operation'.does = "sending"
           \/ operation.does = "posting stream" /\ operation'.does = "streaming"
    <2>1. operation \in Op(Len(log))
      BY Known, Zenon
    <2>2. n \in 0 .. Len(log')
      BY <1>1
    <2> HIDE DEF n
    <2>3. operation' = [operation EXCEPT
                           !.does = IF @ = "posting send" THEN "sending" ELSE "streaming", !.of = n]
      BY DEF Accepted, n
    <2> QED BY <1>2, <2>1, <2>2, <2>3 DEF Op, Does, Posting
  <1> HIDE DEF n
  <1>6. ThreadTypeOK'
    <2>1. session' \in 0 .. Len(log') /\ local' \in BOOLEAN
      BY <1>3, <1>4, Known, Zenon
    <2> QED BY <1>1, <1>3, <1>5, <2>1, Known, TypedAgain, Zenon DEF Grown
  <1>7. ~(\E p \in 1 .. 0 : TRUE) /\ Len(<<>>) = 0
    OBVIOUS
  <1>8. IsStreaming' => operation'.does = "streaming"
    BY <1>5 DEF IsStreaming
  <1>9. Place'
    BY <1>1, <1>2, <1>3, <1>5, <1>7, <1>8 DEF Place, Posting
  <1>10. NothingLost'
    BY <1>5, <1>7 DEF NothingLost
  <1>11. Flag'
    <2>1. n \notin cancels
      <3>1. n \notin 1 .. Len(log)
        <4>1. Len(log) \in Nat
          BY Known, Zenon
        <4> QED BY <4>1 DEF n
      <3> QED BY <3>1, Known, Zenon
    <2> QED BY <1>2, <1>3, <1>5, <1>7, <2>1 DEF Flag
  <1>12. CursorMissesNothing'
    BY <1>2, <1>3 DEF CursorMissesNothing
  <1> QED BY <1>4, <1>6, <1>9, <1>10, <1>11, <1>12, Zenon DEF ThreadInv

LEMMA ReplayOf ==
    ASSUME ThreadInv, NEW from \in {resumeFrom} \cup 0 .. 1, Replay(from),
           NEW s, s = IF session # 0 THEN session ELSE Len(log)
    PROVE  ThreadInv'
  <1>1. /\ s \in 1 .. Len(log) /\ from \in 0 .. MaxPositions /\ from \in Nat /\ 1 .. from \subseteq Positions
        /\ resumeFrom \in Nat /\ session \in {0, s}
    <2>1. Len(log) \in Nat /\ Len(log) # 0
      BY NotEmpty, Known, Zenon DEF Replay
    <2>2. session \in 0 .. Len(log) /\ resumeFrom \in 0 .. MaxPositions
      BY Known, Zenon
    <2> QED BY <2>1, <2>2 DEF Positions
  <1>2. /\ operation' = [Idle EXCEPT !.does = "replaying", !.of = s, !.taken = 1 .. from]
        /\ resumeFrom' = from /\ UNCHANGED <<log, session, cancels>>
    BY Zenon DEF Replay
  <1>3. session # 0 => s = session
    OBVIOUS
  <1>4. /\ operation' \in Op(Len(log)) /\ operation'.does = "replaying" /\ operation'.of = s
        /\ operation'.taken = 1 .. from /\ operation'.line = <<>> /\ operation'.opted = FALSE
    <2>1. s \in 0 .. Len(log)
      <3>1. Len(log) \in Nat
        BY Known, Zenon
      <3> QED BY <1>1, <3>1
    <2>2. operation' = [does |-> "replaying", of |-> s, taken |-> 1 .. from, line |-> <<>>,
                        opted |-> FALSE, terminal |-> FALSE]
      BY <1>2 DEF Idle
    <2>3. "replaying" \in Does /\ 1 .. from \in SUBSET Positions
      BY <1>1 DEF Does
    <2>4. operation' \in Op(Len(log))
      BY <2>1, <2>2, <2>3, OpMade, Empties, Zenon
    <2> QED BY <2>2, <2>4
  <1>5. \A p \in 1 .. from : Accounted(s, p)'
    <2>1. CASE session = 0
      <3>1. waived' = 1 .. from
        BY <2>1, Zenon DEF Replay, Fresh
      <3> QED BY <3>1 DEF Accounted
    <2>2. CASE session # 0 /\ from <= resumeFrom
      <3>1. waived' = waived /\ UNCHANGED <<local, handed, announced>>
        BY <2>2, Zenon DEF Replay
      <3>2. 1 .. from \subseteq 1 .. resumeFrom
        BY <1>1, <2>2
      <3>3. \A p \in 1 .. resumeFrom : Accounted(session, p)
        BY <2>2, Zenon DEF ThreadInv, CursorMissesNothing
      <3>4. \A p \in 1 .. from : Accounted(s, p)
        BY <1>3, <2>2, <3>2, <3>3, Zenon
      <3> QED BY <1>2, <3>1, <3>4, Zenon DEF Accounted
    <2>3. CASE session # 0 /\ ~(from <= resumeFrom)
      <3>1. waived' = waived \cup (1 .. from)
        BY <2>3, Zenon DEF Replay
      <3> QED BY <3>1 DEF Accounted
    <2> QED BY <2>1, <2>2, <2>3
  <1>6. ThreadTypeOK'
    <2>1. /\ local' \in BOOLEAN /\ handed' \subseteq Positions /\ announced' \subseteq Positions
          /\ waived' \subseteq Positions
      <3>1. CASE session = 0
        BY <1>1, <3>1 DEF Replay, Fresh
      <3>2. CASE session # 0
        <4>1. UNCHANGED <<local, handed, announced>> /\ waived' \subseteq waived \cup (1 .. from)
          BY <3>2 DEF Replay
        <4> QED BY <1>1, <4>1, Known, Zenon
      <3> QED BY <3>1, <3>2
    <2> QED BY <1>1, <1>2, <1>4, <2>1, Known, TypedAgain, Zenon
  <1>7. Logs'
    BY <1>2, SameLogs, Zenon
  <1>8. IsStreaming'
    BY <1>4 DEF IsStreaming
  <1>9. Place'
    <2>1. "replaying" \notin Posting /\ "replaying" \notin {"idle", "sending", "streaming"}
      BY DEF Posting
    <2>2. \A p \in 1 .. resumeFrom' : Accounted(operation.of, p)'
      BY <1>2, <1>4, <1>5, Zenon
    <2> QED BY <1>1, <1>2, <1>4, <2>1, <2>2, Zenon DEF Place
  <1>10. NothingLost'
    <2>1. ~(\E i \in 1 .. Len(operation'.line) : TRUE)
      BY <1>4, Empties, Zenon
    <2> QED BY <1>4, <1>5, <2>1, Zenon DEF NothingLost
  <1>11. Flag'
    BY <1>4, Zenon DEF Flag
  <1>12. CursorMissesNothing'
    <2> SUFFICES ASSUME session' # 0, NEW p \in 1 .. resumeFrom' PROVE Accounted(session, p)'
      BY Zenon DEF CursorMissesNothing
    <2> QED BY <1>2, <1>3, <1>5
  <1> QED BY <1>6, <1>7, <1>9, <1>10, <1>11, <1>12, Zenon DEF ThreadInv

LEMMA ReplayInv ==
    ASSUME ThreadInv, NEW from \in {resumeFrom} \cup 0 .. 1, Replay(from) PROVE ThreadInv'
  BY ReplayOf, Zenon

-----------------------------------------------------------------------------
(* One step of the invariant per action of a stream.                       *)

LEMMA Streams ==
    ASSUME ThreadInv, IsStreaming
    PROVE  /\ operation.of \in 1 .. Len(log) /\ session \in {0, operation.of} /\ NothingLost
           /\ operation \in Op(Len(log)) /\ operation.line \in Seq(Items)
           /\ operation.taken \in SUBSET Positions /\ Len(Stream) \in Nat /\ Len(Stream) <= MaxPositions
           /\ operation.does \notin {"idle", "sending"} \cup Posting
           /\ (operation.does = "replaying" => ~operation.opted) /\ (operation.does = "streaming" => local)
           /\ \A p \in 1 .. resumeFrom : Accounted(operation.of, p)
  <1>1. operation.of \in 1 .. Len(log) /\ operation \in Op(Len(log))
    BY Known, Zenon DEF ThreadInv, Place
  <1>2. operation.does \in {"streaming", "replaying"}
    BY DEF IsStreaming
  <1>3. operation.does \notin {"idle", "sending"} \cup Posting
    BY <1>2 DEF Posting
  <1> QED BY <1>1, <1>3, Known, Parts, Zenon DEF ThreadInv, Place, Stream

\* What comes before a position that the producer reached is taken or accounted for.
LEMMA ReachedAfter ==
    ASSUME ThreadInv, IsStreaming, NEW p \in Positions, Reached(p)
    PROVE  /\ p \in 1 .. Len(Stream)
           /\ \A q \in Positions : q < p => q \in operation.taken \/ Accounted(operation.of, q)
  <1>1. p \in 1 .. Len(Stream)
    BY Streams DEF Reached, Positions
  <1>2. ASSUME NEW q \in Positions, q < p PROVE q \in operation.taken \/ Accounted(operation.of, q)
    <2>1. q \in 1 .. p - 1 /\ q <= Len(Stream)
      BY <1>1, <1>2, Streams DEF Positions
    <2>2. q \in operation.taken \/ Withheld(q)
      BY <2>1, Zenon DEF Reached
    <2> QED BY <2>1, <2>2, Streams, Zenon DEF Withheld, Accounted, Stream
  <1> QED BY <1>1, <1>2

LEMMA LineGrows ==
    ASSUME ThreadInv, IsStreaming, UNCHANGED <<log, session, resumeFrom, cancels, givenVars>>,
           NEW entry \in Items, operation' \in Op(Len(log)), operation'.line = Append(operation.line, entry),
           operation'.does = operation.does, operation'.of = operation.of,
           operation'.opted = operation.opted, operation.terminal => operation'.terminal,
           \A p \in operation'.taken : p \in operation.taken \/ entry = [at |-> p, hook |-> FALSE],
           \A q \in Positions : q < entry.at => q \in operation.taken \/ Accounted(operation.of, q),
           operation'.terminal => (operation.terminal \/ SessionOver(operation.of)),
           ~entry.hook => /\ entry.at <= Len(Stream)
                         /\ (Stream[entry.at] \in Terminals => operation'.terminal)
    PROVE  ThreadInv'
  <1> DEFINE old == operation.line
             new == operation'.line
  <1>1. /\ operation.of \in 1 .. Len(log) /\ NothingLost /\ old \in Seq(Items)
        /\ operation.taken \in SUBSET Positions /\ operation.does \notin {"idle", "sending"} \cup Posting
    BY Streams, Zenon
  <1>2. /\ Len(old) \in Nat /\ Len(new) = Len(old) + 1 /\ new[Len(old) + 1] = entry
        /\ \A i \in 1 .. Len(old) : new[i] = old[i]
    BY <1>1, Appended
  <1>3. UNCHANGED <<local, handed, announced, waived>>
    BY Zenon DEF givenVars
  <1>4. ThreadTypeOK'
    BY <1>3, Known, TypedAgain, Zenon
  <1>5. Logs'
    BY SameLogs, Zenon
  <1>6. IsStreaming' /\ (\A t, p : Accounted(t, p)' <=> Accounted(t, p)) /\ Stream' = Stream
    BY <1>3, Zenon DEF IsStreaming, Accounted, Stream
  <1>7. Place'
    <2>1. operation.does \notin {"idle", "sending", "posting send", "posting stream"}
      BY <1>1 DEF Posting
    <2>2. \A p \in 1 .. resumeFrom' : Accounted(operation.of, p)'
      BY <1>6, Streams, Zenon
    <2>3. /\ (operation'.does = "replaying" => ~operation'.opted) /\ (operation'.does = "streaming" => local')
          /\ operation'.of \in 1 .. Len(log') /\ session' \in {0, operation'.of}
      BY <1>3, Streams, Zenon
    <2> QED BY <2>1, <2>2, <2>3 DEF Place, Posting
  <1> HIDE DEF old, new
  <1>8. \A q, n : n \in 0 .. Len(old) /\ Queued(old, q, n) => Queued(new, q, n) /\ Queued(new, q, Len(new))
    <2> SUFFICES ASSUME NEW q, NEW n \in 0 .. Len(old), NEW i \in 1 .. n, old[i] = [at |-> q, hook |-> FALSE]
                 PROVE  Queued(new, q, n) /\ Queued(new, q, Len(new))
      BY Zenon DEF Queued
    <2>1. i \in 1 .. Len(old) /\ i \in 1 .. Len(new)
      BY <1>2
    <2>2. new[i] = [at |-> q, hook |-> FALSE]
      BY <1>2, <2>1
    <2> QED BY <2>1, <2>2, Zenon DEF Queued
  <1>9. NothingLost'
    <2>1. ASSUME NEW p \in operation'.taken
          PROVE  Accounted(operation.of, p) \/ Queued(new, p, Len(new))
      <3>1. CASE p \in operation.taken
        <4>1. Accounted(operation.of, p) \/ Queued(old, p, Len(old))
          BY <1>1, <3>1, Zenon DEF NothingLost, old
        <4>2. Len(old) \in 0 .. Len(old)
          BY <1>2
        <4> QED BY <1>8, <4>1, <4>2, Zenon
      <3>2. CASE entry = [at |-> p, hook |-> FALSE]
        <4>1. Len(old) + 1 \in 1 .. Len(new) /\ new[Len(old) + 1] = [at |-> p, hook |-> FALSE]
          BY <1>2, <3>2
        <4> QED BY <4>1, Zenon DEF Queued
      <3> QED BY <3>1, <3>2
    <2>2. ASSUME NEW i \in 1 .. Len(new), NEW q \in Positions, q < new[i].at
          PROVE  Accounted(operation.of, q) \/ Queued(new, q, i - 1)
      <3>1. CASE i \in 1 .. Len(old)
        <4>1. Accounted(operation.of, q) \/ Queued(old, q, i - 1)
          BY <1>1, <1>2, <2>2, <3>1 DEF NothingLost, old
        <4>2. i - 1 \in 0 .. Len(old)
          BY <1>2, <3>1
        <4> QED BY <1>8, <4>1, <4>2, Zenon
      <3>2. CASE i = Len(old) + 1
        <4>1. q \in operation.taken \/ Accounted(operation.of, q)
          BY <1>2, <2>2, <3>2
        <4>2. Accounted(operation.of, q) \/ Queued(old, q, Len(old))
          BY <1>1, <4>1, Zenon DEF NothingLost, old
        <4>3. i - 1 = Len(old) /\ Len(old) \in 0 .. Len(old)
          BY <1>2, <3>2
        <4> QED BY <1>8, <4>2, <4>3, Zenon
      <3> QED BY <1>2, <3>1, <3>2
    <2> QED BY <1>6, <2>1, <2>2 DEF NothingLost, new
  <1>10. Flag'
    <2> DEFINE E(p) == p <= Len(Stream) /\ (Stream[p] \in Terminals => operation'.terminal)
    <2> SUFFICES ASSUME operation.opted
                 PROVE  /\ operation.of \notin cancels /\ (operation'.terminal => SessionOver(operation.of))
                        /\ \A p \in handed : E(p)
                        /\ \A i \in 1 .. Len(new) : ~new[i].hook => E(new[i].at)
      BY <1>3, <1>6 DEF Flag, Ends, new, SessionOver
    <2>1. /\ operation.of \notin cancels /\ (operation.terminal => SessionOver(operation.of))
          /\ \A p \in handed : E(p)
          /\ \A i \in 1 .. Len(old) : ~old[i].hook => E(old[i].at)
      BY Zenon DEF ThreadInv, Flag, Ends, old
    <2>2. ~entry.hook => E(entry.at)
      OBVIOUS
    <2> HIDE DEF E
    <2>3. \A i \in 1 .. Len(new) : i \in 1 .. Len(old) \/ i = Len(old) + 1
      BY <1>2
    <2>4. \A i \in 1 .. Len(new) : ~new[i].hook => E(new[i].at)
      BY <1>2, <2>1, <2>2, <2>3, Zenon
    <2> QED BY <2>1, <2>4, Zenon
  <1>11. CursorMissesNothing'
    BY <1>6, Zenon DEF ThreadInv, CursorMissesNothing
  <1> QED BY <1>4, <1>5, <1>7, <1>9, <1>10, <1>11, Zenon DEF ThreadInv

LEMMA PullInv == ASSUME ThreadInv, NEW p \in Positions, Pull(p) PROVE ThreadInv'
  <1> DEFINE entry == [at |-> p, hook |-> FALSE]
             ends == operation.terminal \/ SeesEnd(Stream[p])
  <1>1. /\ IsStreaming /\ Reached(p) /\ UNCHANGED <<log, session, resumeFrom, cancels, givenVars>>
        /\ operation' = [operation EXCEPT !.taken = @ \cup {p}, !.line = Append(@, entry), !.terminal = ends]
    BY Zenon DEF Pull
  <1>2. entry \in Items /\ entry.at = p /\ entry.hook = FALSE
    BY DEF Items
  <1>3. Append(operation.line, entry) \in Seq(Items) /\ ends \in BOOLEAN
    BY <1>1, <1>2, Streams, Appended
  <1> HIDE DEF entry, ends
  <1>4. /\ operation' \in Op(Len(log)) /\ operation'.line = Append(operation.line, entry)
        /\ operation'.does = operation.does /\ operation'.of = operation.of
        /\ operation'.opted = operation.opted /\ operation'.taken = operation.taken \cup {p}
        /\ operation'.terminal = ends
    <2>1. operation \in Op(Len(log)) /\ operation.taken \cup {p} \in SUBSET Positions
      BY <1>1, Streams, Zenon
    <2> QED BY <1>1, <1>3, <2>1 DEF Op
  <1>5. p \in 1 .. Len(Stream) /\ operation.of \in 1 .. Len(log) /\ Len(Stream) \in Nat
        /\ \A q \in Positions : q < p => q \in operation.taken \/ Accounted(operation.of, q)
    BY <1>1, ReachedAfter, Streams, Zenon
  <1>6. ends => operation.terminal \/ SessionOver(operation.of)
    <2> SUFFICES ASSUME Stream[p] \in Terminals PROVE SessionOver(operation.of)
      BY Zenon DEF ends, SeesEnd
    <2>1. p = Len(Stream)
      BY <1>5, Zenon DEF ThreadInv, Logs, Stream
    <2>2. Stream # <<>>
      BY <1>5
    <2> QED BY <2>1, <2>2, Zenon DEF SessionOver, Stream
  <1>7. p <= Len(Stream) /\ (Stream[p] \in Terminals => ends) /\ (operation.terminal => ends)
    BY <1>5 DEF ends, SeesEnd
  <1>8. \A q \in operation'.taken : q \in operation.taken \/ entry = [at |-> q, hook |-> FALSE]
    BY <1>4, Zenon DEF entry
  <1> QED BY <1>1, <1>2, <1>4, <1>5, <1>6, <1>7, <1>8, LineGrows, Zenon

LEMMA PullHookInv == ASSUME ThreadInv, NEW p \in Positions, PullHook(p) PROVE ThreadInv'
  <1> DEFINE entry == [at |-> p, hook |-> TRUE]
  <1>1. /\ IsStreaming /\ Reached(p) /\ UNCHANGED <<log, session, resumeFrom, cancels, givenVars>>
        /\ operation' = [operation EXCEPT !.line = Append(@, entry)]
    BY Zenon DEF PullHook
  <1>2. entry \in Items /\ entry.at = p /\ entry.hook = TRUE
    BY DEF Items
  <1>3. Append(operation.line, entry) \in Seq(Items)
    BY <1>1, <1>2, Streams, Appended
  <1> HIDE DEF entry
  <1>4. /\ operation' \in Op(Len(log)) /\ operation'.line = Append(operation.line, entry)
        /\ operation'.does = operation.does /\ operation'.of = operation.of
        /\ operation'.opted = operation.opted /\ operation'.taken = operation.taken
        /\ operation'.terminal = operation.terminal
    <2>1. operation \in Op(Len(log))
      BY <1>1, Streams, Zenon
    <2> QED BY <1>1, <1>3, <2>1 DEF Op
  <1>5. \A q \in Positions : q < p => q \in operation.taken \/ Accounted(operation.of, q)
    BY <1>1, ReachedAfter, Zenon
  <1> QED BY <1>1, <1>2, <1>4, <1>5, LineGrows, Zenon

\* An item that is next in line is preceded by nothing that is not accounted for.
LEMMA NextInLine ==
    ASSUME ThreadInv, IsStreaming, operation.line # <<>>
    PROVE  /\ Head(operation.line) = operation.line[1] /\ Head(operation.line).at \in Positions
           /\ Head(operation.line).hook \in BOOLEAN /\ 1 \in 1 .. Len(operation.line)
           /\ \A q \in Positions : q < Head(operation.line).at => Accounted(operation.of, q)
  <1>1. operation.line \in Seq(Items) /\ NothingLost
    BY Streams, Zenon
  <1>2. Head(operation.line) = operation.line[1] /\ 1 \in 1 .. Len(operation.line)
    BY <1>1, Shortened, Zenon
  <1>3. \A q : ~Queued(operation.line, q, 1 - 1)
    BY DEF Queued
  <1>4. operation.line[1].at \in Positions /\ operation.line[1].hook \in BOOLEAN
    BY <1>1, <1>2, ItemAt, Zenon
  <1> QED BY <1>1, <1>2, <1>3, <1>4, Zenon DEF NothingLost

\* What _observe makes of the position and of the session.
LEMMA Observed ==
    ASSUME ThreadInv, IsStreaming, NEW p \in Positions, Observe(p),
           UNCHANGED <<log, cancels, local, waived>>, handed \subseteq handed', announced \subseteq announced',
           \A q \in Positions : q < p => Accounted(operation.of, q), p \in handed' \cup announced'
    PROVE  /\ session' \in {0, operation.of} /\ session' \in 0 .. Len(log)
           /\ resumeFrom' \in 0 .. MaxPositions
           /\ \A q : Accounted(operation.of, q) =>
                 \/ q \in handed' \cup announced' \cup waived
                 \/ (local /\ q <= Len(Stream) /\ Stream[q] \in Tools)
           /\ \A q \in 1 .. resumeFrom' :
                 \/ q \in handed' \cup announced' \cup waived
                 \/ (local /\ q <= Len(Stream) /\ Stream[q] \in Tools)
  <1>1. operation.of \in 1 .. Len(log) /\ session \in {0, operation.of} /\ session \in 0 .. Len(log)
        /\ Len(log) \in Nat /\ resumeFrom \in 0 .. MaxPositions
        /\ \A q \in 1 .. resumeFrom : Accounted(operation.of, q)
    BY Streams, Known, Zenon
  <1>2. ASSUME NEW q, Accounted(operation.of, q)
        PROVE  q \in handed' \cup announced' \cup waived \/ (local /\ q <= Len(Stream) /\ Stream[q] \in Tools)
    BY <1>2, Zenon DEF Accounted, Stream
  <1>3. session' \in {0, operation.of} /\ session' \in 0 .. Len(log) /\ resumeFrom' \in 0 .. MaxPositions
    BY <1>1 DEF Observe, Positions
  <1>4. ASSUME NEW q \in 1 .. resumeFrom' PROVE Accounted(operation.of, q) \/ q = p
    <2>1. q \in 1 .. resumeFrom \/ (q \in Positions /\ q < p) \/ q = p
      BY <1>1 DEF Observe, Positions
    <2> QED BY <1>1, <2>1, Zenon
  <1>5. p \in handed' \cup announced'
    OBVIOUS
  <1> QED BY <1>2, <1>3, <1>4, <1>5, Zenon

LEMMA DeliverInv == ASSUME ThreadInv, Deliver PROVE ThreadInv'
  <1> DEFINE old == operation.line
             head == Head(operation.line)
             new == Tail(operation.line)
             Given(q) == \/ q \in handed' \cup announced' \cup waived
                         \/ (local /\ q <= Len(Stream) /\ Stream[q] \in Tools)
  <1>1. /\ IsStreaming /\ old # <<>> /\ Observe(head.at) /\ operation' = [operation EXCEPT !.line = new]
        /\ handed' = IF head.hook THEN handed ELSE handed \cup {head.at}
        /\ announced' = IF head.hook THEN announced \cup {head.at} ELSE announced
        /\ UNCHANGED <<log, cancels, local, waived>>
    BY Zenon DEF Deliver
  <1>2. /\ head = old[1] /\ head.at \in Positions /\ head.hook \in BOOLEAN /\ 1 \in 1 .. Len(old)
        /\ \A q \in Positions : q < head.at => Accounted(operation.of, q)
    BY <1>1, NextInLine, Zenon
  <1>3. /\ operation.of \in 1 .. Len(log) /\ NothingLost /\ old \in Seq(Items)
        /\ operation.does \notin {"idle", "sending", "posting send", "posting stream"}
        /\ operation \in Op(Len(log)) /\ (operation.does = "replaying" => ~operation.opted)
        /\ (operation.does = "streaming" => local)
    BY <1>1, Streams DEF Posting
  <1>4. /\ new \in Seq(Items) /\ Len(old) \in Nat /\ Len(new) = Len(old) - 1
        /\ \A i \in 1 .. Len(new) : new[i] = old[i + 1]
    BY <1>1, <1>3, Shortened, Zenon
  <1>5. handed \subseteq handed' /\ announced \subseteq announced' /\ head.at \in handed' \cup announced'
    BY <1>1, <1>2
  <1>6. /\ session' \in {0, operation.of} /\ session' \in 0 .. Len(log) /\ resumeFrom' \in 0 .. MaxPositions
        /\ (\A q : Accounted(operation.of, q) => Given(q)) /\ \A q \in 1 .. resumeFrom' : Given(q)
    BY <1>1, <1>2, <1>5, Observed, Zenon
  <1> HIDE DEF new
  <1>7. /\ operation' \in Op(Len(log)) /\ operation'.line = new /\ operation'.does = operation.does
        /\ operation'.of = operation.of /\ operation'.opted = operation.opted
        /\ operation'.taken = operation.taken /\ operation'.terminal = operation.terminal
    BY <1>1, <1>3, <1>4 DEF Op
  <1>8. \A q : Given(q) => Accounted(operation.of, q)'
    BY <1>1, <1>7, Zenon DEF Accounted, Stream
  <1>9. IsStreaming' /\ Stream' = Stream
    BY <1>1, <1>7, Zenon DEF IsStreaming, Stream
  <1>10. ThreadTypeOK'
    <2>1. handed' \subseteq Positions /\ announced' \subseteq Positions
      BY <1>1, <1>2, Known
    <2> QED BY <1>1, <1>6, <1>7, <2>1, Known, TypedAgain, Zenon
  <1>11. Logs'
    BY <1>1, SameLogs, Zenon
  <1> HIDE DEF old, head, Given
  <1>12. Place'
    <2>1. \A q \in 1 .. resumeFrom' : Accounted(operation.of, q)'
      BY <1>6, <1>8, Zenon
    <2> QED BY <1>1, <1>3, <1>6, <1>7, <2>1 DEF Place, Posting
  <1>13. \A q, n : n \in 0 .. Len(new) /\ Queued(old, q, n + 1) => Given(q) \/ Queued(new, q, n)
    <2> SUFFICES ASSUME NEW q, NEW n \in 0 .. Len(new), NEW i \in 1 .. n + 1,
                        old[i] = [at |-> q, hook |-> FALSE]
                 PROVE  Given(q) \/ Queued(new, q, n)
      BY Zenon DEF Queued
    <2>1. CASE i = 1
      <3>1. head.at = q /\ ~head.hook
        BY <1>2, <2>1
      <3>2. q \in handed'
        BY <1>1, <3>1
      <3> QED BY <3>2 DEF Given
    <2>2. CASE i # 1
      <3>1. i - 1 \in 1 .. n /\ i - 1 \in 1 .. Len(new) /\ (i - 1) + 1 = i
        BY <1>4, <2>2
      <3>2. new[i - 1] = [at |-> q, hook |-> FALSE]
        BY <1>4, <3>1
      <3> QED BY <3>1, <3>2, Zenon DEF Queued
    <2> QED BY <2>1, <2>2
  <1>14. NothingLost'
    <2>1. ASSUME NEW p \in operation.taken PROVE Given(p) \/ Queued(new, p, Len(new))
      <3>1. Accounted(operation.of, p) \/ Queued(old, p, Len(old))
        BY <1>3, Zenon DEF NothingLost, old
      <3>2. Len(old) = Len(new) + 1 /\ Len(new) \in 0 .. Len(new)
        BY <1>2, <1>4
      <3> QED BY <1>6, <1>13, <3>1, <3>2, Zenon
    <2>2. ASSUME NEW i \in 1 .. Len(new), NEW q \in Positions, q < new[i].at
          PROVE  Given(q) \/ Queued(new, q, i - 1)
      <3>1. i + 1 \in 1 .. Len(old) /\ i - 1 \in 0 .. Len(new) /\ (i + 1) - 1 = (i - 1) + 1
        BY <1>4
      <3>2. q < old[i + 1].at
        BY <1>4, <2>2
      <3>3. Accounted(operation.of, q) \/ Queued(old, q, (i + 1) - 1)
        BY <1>3, <3>1, <3>2, Zenon DEF NothingLost, old
      <3> QED BY <1>6, <1>13, <3>1, <3>3, Zenon
    <2> QED BY <1>7, <1>8, <2>1, <2>2, Zenon DEF NothingLost
  <1>15. Flag'
    <2> SUFFICES ASSUME operation.opted
                 PROVE  /\ operation.of \notin cancels /\ (operation.terminal => SessionOver(operation.of))
                        /\ \A p \in handed' : Ends(p)
                        /\ \A i \in 1 .. Len(new) : ~new[i].hook => Ends(new[i].at)
      BY <1>1, <1>7, <1>9 DEF Flag, Ends, SessionOver
    <2>1. /\ operation.of \notin cancels /\ (operation.terminal => SessionOver(operation.of))
          /\ \A p \in handed : Ends(p)
          /\ \A i \in 1 .. Len(old) : ~old[i].hook => Ends(old[i].at)
      BY <1>1, Zenon DEF ThreadInv, Flag, old
    <2>2. \A p \in handed' : Ends(p)
      BY <1>1, <1>2, <2>1
    <2>3. \A i \in 1 .. Len(new) : i + 1 \in 1 .. Len(old) /\ new[i] = old[i + 1]
      BY <1>4
    <2> QED BY <2>1, <2>2, <2>3, Zenon
  <1>16. CursorMissesNothing'
    <2>1. session' # 0 => session' = operation.of
      BY <1>6
    <2> QED BY <1>1, <1>6, <2>1 DEF CursorMissesNothing, Accounted, Given, Stream
  <1> QED BY <1>10, <1>11, <1>12, <1>14, <1>15, <1>16, Zenon DEF ThreadInv

LEMMA ScopeHookFiresInv == ASSUME ThreadInv, ScopeHookFires PROVE ThreadInv'
  <1> DEFINE at == Head(operation.line).at
             Given(q) == \/ q \in handed' \cup announced' \cup waived
                         \/ (local /\ q <= Len(Stream) /\ Stream[q] \in Tools)
  <1>1. /\ IsStreaming /\ operation.line # <<>> /\ Observe(at) /\ announced' = announced \cup {at}
        /\ UNCHANGED <<log, operation, cancels, local, handed, waived>>
    BY DEF ScopeHookFires, IsStreaming
  <1>2. at \in Positions /\ \A q \in Positions : q < at => Accounted(operation.of, q)
    BY <1>1, NextInLine, Zenon
  <1> HIDE DEF at
  <1>3. /\ session' \in {0, operation.of} /\ session' \in 0 .. Len(log) /\ resumeFrom' \in 0 .. MaxPositions
        /\ (\A q : Accounted(operation.of, q) => Given(q)) /\ \A q \in 1 .. resumeFrom' : Given(q)
    <2>1. at \in handed' \cup announced' /\ handed \subseteq handed' /\ announced \subseteq announced'
      BY <1>1
    <2> QED BY <1>1, <1>2, <2>1, Observed, Zenon
  <1>4. \A q : Given(q) => Accounted(operation.of, q)'
    BY <1>1, Zenon DEF Accounted, Stream
  <1>5. IsStreaming' /\ Stream' = Stream
    BY <1>1, Zenon DEF IsStreaming, Stream
  <1>6. ThreadTypeOK'
    <2>1. announced' \subseteq Positions
      BY <1>1, <1>2, Known
    <2> QED BY <1>1, <1>3, <2>1, Known, TypedAgain, Zenon
  <1>7. Logs'
    BY <1>1, SameLogs, Zenon
  <1> HIDE DEF Given
  <1>8. Place'
    <2>1. \A q \in 1 .. resumeFrom' : Accounted(operation.of, q)'
      BY <1>3, <1>4, Zenon
    <2>2. operation.does \notin {"idle", "sending", "posting send", "posting stream"}
          /\ (operation.does = "replaying" => ~operation.opted)
          /\ (operation.does = "streaming" => local) /\ operation.of \in 1 .. Len(log)
      BY <1>1, Streams DEF Posting
    <2> QED BY <1>1, <1>3, <2>1, <2>2 DEF Place, Posting
  <1>9. NothingLost'
    <2>1. NothingLost
      BY <1>1, Streams, Zenon
    <2> QED BY <1>1, <1>3, <1>4, <2>1, Zenon DEF NothingLost
  <1>10. Flag'
    BY <1>1, <1>5, Zenon DEF ThreadInv, Flag, Ends, SessionOver
  <1>11. CursorMissesNothing'
    <2>1. session' # 0 => session' = operation.of
      BY <1>3
    <2> QED BY <1>1, <1>3, <2>1 DEF CursorMissesNothing, Accounted, Given, Stream
  <1> QED BY <1>6, <1>7, <1>8, <1>9, <1>10, <1>11, Zenon DEF ThreadInv

LEMMA ThreadStepInv == ASSUME ThreadInv, [ThreadNext]_threadVars PROVE ThreadInv'
  <1>1. CASE OtherTurn \/ \E s \in 1 .. Len(log), kind \in Kinds : Emits(s, kind)
    BY <1>1, OtherTurnInv, EmitsInv, Zenon
  <1>2. CASE Begin("posting send", FALSE)
    BY <1>2, BeginInv DEF Posting
  <1>3. ASSUME NEW opted \in BOOLEAN, Begin("posting stream", opted) PROVE ThreadInv'
    BY <1>3, BeginInv DEF Posting
  <1>4. CASE Accepted \/ PostFails \/ SendEnds
    BY <1>4, AcceptedInv, PostFailsInv, SendEndsInv, Zenon
  <1>5. CASE \E from \in {resumeFrom} \cup 0 .. 1 : Replay(from)
    BY <1>5, ReplayInv, Zenon
  <1>6. CASE \E p \in Positions : Pull(p) \/ PullHook(p)
    BY <1>6, PullInv, PullHookInv, Zenon
  <1>7. CASE Deliver \/ ScopeHookFires \/ StreamEnds
    BY <1>7, DeliverInv, ScopeHookFiresInv, StreamEndsInv, Zenon
  <1>8. CASE UNCHANGED threadVars
    <2>1. Grown /\ UNCHANGED <<session, resumeFrom, operation, cancels, givenVars>>
      BY <1>8, NoGrowth DEF threadVars, givenVars
    <2> QED BY <2>1, GrowingLog, Zenon
  <1> QED BY <1>1, <1>2, <1>3, <1>4, <1>5, <1>6, <1>7, <1>8, Zenon DEF ThreadNext

LEMMA ThreadAlways == ThreadSpec => []ThreadInv
  BY ThreadInitInv, ThreadStepInv, PTL DEF ThreadSpec

\* The state of a handle is well-formed.
THEOREM ThreadTyped == ThreadSpec => []ThreadTypeOK
  <1>1. ThreadInv => ThreadTypeOK
    BY DEF ThreadInv
  <1> QED BY <1>1, ThreadAlways, PTL

\* For any number of sessions and events, a replay from the position that a handle
\* keeps skips nothing that its caller was not given, or told of by a hook, but
\* what the caller left out and the starts of tools that ran here (thread.py).
THEOREM ThreadMissesNothing == ThreadSpec => []CursorMissesNothing
  <1>1. ThreadInv => CursorMissesNothing
    BY DEF ThreadInv
  <1> QED BY <1>1, ThreadAlways, PTL

\* A stream that opted in never leaves its session running, and does not cancel
\* one whose end it handed over (cancel_on_close of client.py).
THEOREM ThreadCancelled == ThreadSpec => CancelledUnlessOver
  <1> DEFINE Decided ==
          operation.opted /\ operation.of # 0 /\ operation' = Idle =>
             LET s == operation.of
             IN /\ SessionOver(s) \/ s \in cancels'
                /\ (\E p \in handed : log[s][p] \in Terminals) => s \notin cancels'
  <1>1. ASSUME ThreadInv, ThreadNext PROVE Decided
    <2> SUFFICES ASSUME operation.opted, operation.of # 0, operation' = Idle
                 PROVE  /\ SessionOver(operation.of) \/ operation.of \in cancels'
                        /\ (\E p \in handed : Stream[p] \in Terminals) => operation.of \notin cancels'
      BY Zenon DEF Stream
    <2>1. IsStreaming
      <3>1. operation.does \in Does /\ Idle.opted = FALSE
        BY <1>1, Known, Parts, Zenon DEF Idle
      <3> QED BY <1>1, <3>1 DEF ThreadInv, Place, Does, IsStreaming, Posting
    <2>2. operation.does \in {"streaming", "replaying"} /\ Idle.does = "idle" /\ Idle # operation
          /\ operation \in Op(Len(log))
      BY <1>1, <2>1, Known DEF IsStreaming, Idle
    <2>3. StreamEnds
      <3>1. ~OtherTurn /\ (\A s, kind : ~Emits(s, kind)) /\ ~ScopeHookFires
        BY <2>2, Zenon DEF OtherTurn, Emits, ScopeHookFires
      <3>2. /\ \A does, opted : ~Begin(does, opted)
            /\ \A from : ~Replay(from)
        BY <2>2, Zenon DEF Begin, Replay
      <3>3. ~Accepted /\ ~PostFails /\ ~SendEnds
        BY <2>2 DEF Accepted, PostFails, SendEnds
      <3>4. (\A p : ~Pull(p) /\ ~PullHook(p)) /\ ~Deliver
        <4>1. \A p : Pull(p) \/ PullHook(p) => operation'.does = operation.does
          BY <2>2 DEF Pull, PullHook, Op
        <4>2. Deliver => operation'.does = operation.does
          BY <2>2 DEF Deliver, Op
        <4>3. operation'.does # operation.does
          BY <2>2
        <4> QED BY <4>1, <4>2, <4>3, Zenon
      <3> QED BY <1>1, <3>1, <3>2, <3>3, <3>4, Zenon DEF ThreadNext
    <2>4. /\ operation.of \notin cancels /\ (operation.terminal => SessionOver(operation.of))
          /\ \A p \in handed : Stream[p] \in Terminals => operation.terminal
      BY <1>1, <2>1, Zenon DEF ThreadInv, Flag, Ends
    <2>5. cancels' = IF ~operation.terminal THEN cancels \cup {operation.of} ELSE cancels
      BY <2>3, Zenon DEF StreamEnds
    <2> QED BY <2>4, <2>5
  <1>2. ThreadInv /\ [ThreadNext]_threadVars => [Decided]_threadVars
    BY <1>1, Zenon
  <1> QED BY <1>2, ThreadAlways, PTL DEF ThreadSpec, CancelledUnlessOver
=============================================================================
