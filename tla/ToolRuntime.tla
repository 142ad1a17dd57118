----------------------------- MODULE ToolRuntime -----------------------------
(***************************************************************************)
(* _internal/tool_runtime.py: the tools of one invocation that run in this *)
(* process.  Every call is a task of one event loop.  A tool may read the  *)
(* result of another; a call waits for it, runs in a worker thread, in the *)
(* lane of its toolset if that asks for one, and records its result for    *)
(* the tools that read it.  What a task does between two awaits is several *)
(* steps here, and no other task moves in between (Busy).                  *)
(***************************************************************************)
EXTENDS Integers, Sequences, FiniteSets, SequencesExt

CONSTANTS
    Scenarios,  \* calls the platform may make: each call's tool, its assistant
                \* message, and for a dependency revision the failed root call
                \* and the call that it replaces
    Tools,      \* each: the tool it reads, whether its calls are serialized,
                \* whether it asks the user, needs an approval, and whether it is
                \* a model constructor whose dependencies may be revised
    Cancels,    \* calls are cancelled
    Nothing

ASSUME RuntimeAssumption ==
    /\ Nothing \notin DOMAIN Tools \cup {"ok", "error", "invalid", "skipped", "cancelled"}
    /\ \A t \in DOMAIN Tools :
          Tools[t].reads \in DOMAIN Tools \cup {Nothing} /\ Tools[t].serialized \in BOOLEAN
    /\ \A s \in Scenarios : Nothing \notin DOMAIN s /\ \A c \in DOMAIN s :
          /\ s[c].tool \in DOMAIN Tools /\ s[c].root \in DOMAIN s \cup {Nothing}
          /\ s[c].root # Nothing => s[c].parent \in DOMAIN s

VARIABLES
    calls,      \* the calls of this invocation
    call,       \* where each call is
    owns,       \* owned_keys: the call reserved the key of its tool
    sets,       \* the completion event it will set: its number, or 0
    awaits,     \* the completion event it waits for
    fate,       \* how it ended
    injected,   \* the call whose result was injected into it
    reserved,   \* _reserved_keys
    results,    \* _results: the call that supplied the result
    failures,   \* _failures
    event,      \* _completion_events: the number of the event, 0 for none
    fired,      \* the events that are set
    batches,    \* _input_result_batches
    base,       \* _base_bindings
    branch,     \* _revision_bindings
    claims,     \* _revision_claims
    lane,       \* who holds and who waits for the lock of the toolset, in order
    worker      \* calls whose worker thread is in the toolset

callVars == <<calls, call, owns, sets, awaits, fate, injected>>
keyVars == <<reserved, results, failures, event, fired, batches, base>>
revisionVars == <<branch, claims>>
laneVars == <<lane, worker>>
runtimeVars == <<callVars, keyVars, revisionVars, laneVars>>

Call == DOMAIN calls
Key == DOMAIN Tools
ToolOf(c) == calls[c].tool
Reads(c) == Tools[ToolOf(c)].reads
Serial(c) == Tools[ToolOf(c)].serialized
Root(c) == calls[c].root
Revises(c) == Root(c) # Nothing
IsTarget(k) == \E t \in Key : Tools[t].reads = k

\* Where a task is that holds the event loop, and where others may be.
OnLoop == {"resolving", "entering", "succeeding", "skipping", "failing", "invalid",
           "refused"}
Suspended == {"new", "retrying", "waiting", "queued", "running", "cancelling", "done"}
Busy == \E c \in Call : call[c] \in OnLoop
At(c, where) == call[c] = where /\ (where \in OnLoop \/ ~Busy)
Goes(c, where) == call' = [call EXCEPT ![c] = where]

RuntimeTypeOK ==
    /\ call \in [Call -> OnLoop \cup Suspended]
    /\ Cardinality({c \in Call : call[c] \in OnLoop}) <= 1
    /\ owns \in [Call -> BOOLEAN] /\ sets \in [Call -> Nat] /\ awaits \in [Call -> Nat]
    /\ fate \in [Call -> {Nothing, "ok", "error", "invalid", "skipped", "cancelled"}]
    /\ \A c \in Call : call[c] = "done" <=> fate[c] # Nothing
    /\ injected \in [Call -> Call \cup {Nothing}]
    /\ reserved \subseteq Key /\ failures \subseteq Key /\ event \in [Key -> Nat]
    /\ results \in [Key -> Call \cup {Nothing}] /\ base \in [Key -> Call \cup {Nothing}]
    /\ lane \in Seq(Call) /\ worker \subseteq Call
    /\ ToSet(lane) = {c \in Call : Serial(c) /\ call[c] \in {"queued", "running", "cancelling"}}

RuntimeInit ==
    /\ calls \in Scenarios
    /\ call = [c \in Call |-> "new"] /\ owns = [c \in Call |-> FALSE]
    /\ sets = [c \in Call |-> 0] /\ awaits = [c \in Call |-> 0]
    /\ fate = [c \in Call |-> Nothing] /\ injected = [c \in Call |-> Nothing]
    /\ reserved = {} /\ results = [k \in Key |-> Nothing] /\ failures = {}
    /\ event = [k \in Key |-> 0] /\ fired = {} /\ batches = [k \in Key |-> {}]
    /\ base = [k \in Key |-> Nothing] /\ branch = [b \in Call \X Key |-> Nothing]
    /\ claims = {} /\ lane = <<>> /\ worker = {}

-----------------------------------------------------------------------------
(* Admission.                                                              *)

\* An unregistered tool, or one that needs an approval, is answered at once.
Refuse(c) ==
    /\ At(c, "new") /\ Tools[ToolOf(c)].approval
    /\ Goes(c, "done") /\ fate' = [fate EXCEPT ![c] = "error"]
    /\ UNCHANGED <<calls, owns, sets, awaits, injected, keyVars, revisionVars, laneVars>>

\* A later message asks the user again: the finished round of its tool is
\* forgotten.  A message that was seen, or a round in flight, changes nothing.
NewRound(c) ==
    LET k == ToolOf(c)
    IN /\ Tools[k].asks /\ calls[c].message \notin batches[k]
       /\ event[k] # 0 /\ <<k, event[k]>> \in fired

\* Mutation: whoever completes writes the result.
ReservesAlways(c, taken) == TRUE

\* The first call to arrive reserves the key that others read; a key that
\* nobody reads belongs to every call.
Reserves(c, taken) == ~IsTarget(ToolOf(c)) \/ ToolOf(c) \notin taken

Arrive(c) ==
    LET k == ToolOf(c)
        fresh == NewRound(c)
        taken == reserved \ (IF fresh THEN {k} ELSE {})
        number == IF fresh \/ event[k] = 0 THEN event[k] + 1 ELSE event[k]
    IN /\ At(c, "new") /\ ~Revises(c) /\ ~Tools[k].approval
       /\ batches' = [batches EXCEPT ![k] =
                         IF Tools[k].asks THEN @ \cup {calls[c].message} ELSE @]
       /\ results' = [results EXCEPT ![k] = IF fresh THEN Nothing ELSE @]
       /\ failures' = failures \ (IF fresh THEN {k} ELSE {})
       /\ event' = [event EXCEPT ![k] = number] /\ sets' = [sets EXCEPT ![c] = number]
       /\ owns' = [owns EXCEPT ![c] = Reserves(c, taken)]
       /\ reserved' = IF IsTarget(k) THEN taken \cup {k} ELSE taken
       /\ Goes(c, "resolving")
       /\ UNCHANGED <<calls, awaits, fate, injected, fired, base, revisionVars, laneVars>>

\* The call that stands for tool k in the branch of root call r.
Visible(r, k) ==
    IF branch[<<r, k>>] # Nothing THEN branch[<<r, k>>]
    ELSE IF base[k] # Nothing THEN base[k]
    ELSE IF k = ToolOf(r) THEN r ELSE Nothing

Recorded(c) == fate[c] \in {"ok", "error", "invalid", "skipped"} /\ ~Tools[ToolOf(c)].approval

\* k is the tool t or is read on the way to it.  Bound: chains of two edges.
LeadsTo(k, t) ==
    LET reads(S) == {Tools[u].reads : u \in S} \ {Nothing}
    IN k \in {t} \cup reads({t}) \cup reads(reads({t}))

\* _revision_context: a revision repeats a model constructor on the way to a
\* call whose arguments were invalid, and replaces its current generation.
AdmissibleUnclaimed(c) ==
    /\ fate[Root(c)] = "invalid" /\ Recorded(calls[c].parent)
    /\ ToolOf(calls[c].parent) = ToolOf(c)
    /\ LeadsTo(ToolOf(c), ToolOf(Root(c)))
    /\ \A k \in Key : LeadsTo(ToolOf(c), k) /\ LeadsTo(k, ToolOf(Root(c))) => Tools[k].revisable
    /\ Visible(Root(c), ToolOf(c)) = calls[c].parent

Admissible(c) == AdmissibleUnclaimed(c) /\ <<Root(c), ToolOf(c)>> \notin claims

Revise(c) ==
    /\ At(c, "new") /\ Revises(c)
    /\ \/ Admissible(c) /\ claims' = claims \cup {<<Root(c), ToolOf(c)>>} /\ Goes(c, "resolving")
       \/ ~Admissible(c) /\ UNCHANGED claims /\ Goes(c, "refused")
    /\ UNCHANGED <<calls, owns, sets, awaits, fate, injected, keyVars, branch, laneVars>>

-----------------------------------------------------------------------------
(* The arguments.                                                          *)

Known(k) == results[k] # Nothing \/ k \in failures \/ event[k] # 0

\* What a reader is given once the event it waited for is set.
Reading(c) ==
    LET k == Reads(c)
    IN IF k \in failures \/ results[k] = Nothing
       THEN Goes(c, "failing") /\ UNCHANGED injected
       ELSE Goes(c, "entering") /\ injected' = [injected EXCEPT ![c] = results[k]]

Resolve(c) ==
    /\ At(c, "resolving") /\ ~Revises(c)
    /\ LET k == Reads(c)
       IN \/ k = Nothing /\ Goes(c, "entering") /\ UNCHANGED <<awaits, injected>>
          \/ /\ k # Nothing /\ ~Known(k) /\ Goes(c, "retrying")
             /\ UNCHANGED <<awaits, injected>>
          \/ /\ k # Nothing /\ Known(k) /\ <<k, event[k]>> \notin fired
             /\ Goes(c, "waiting") /\ awaits' = [awaits EXCEPT ![c] = event[k]]
             /\ UNCHANGED injected
          \/ /\ k # Nothing /\ Known(k) /\ <<k, event[k]>> \in fired
             /\ Reading(c) /\ UNCHANGED awaits
    /\ UNCHANGED <<calls, owns, sets, fate, keyVars, revisionVars, laneVars>>

\* After sleep(0): a start event of the same phase may have arrived meanwhile.
Retry(c) ==
    /\ At(c, "retrying")
    /\ Goes(c, IF Known(Reads(c)) THEN "resolving" ELSE "failing")
    /\ UNCHANGED <<calls, owns, sets, awaits, fate, injected, keyVars, revisionVars, laneVars>>

Wake(c) ==
    /\ At(c, "waiting") /\ <<Reads(c), awaits[c]>> \in fired
    /\ Reading(c)
    /\ UNCHANGED <<calls, owns, sets, awaits, fate, keyVars, revisionVars, laneVars>>

\* A revision reads its branch and, failing that, the first result of the
\* invocation.  A revision of the root must read something new.
ResolveRevision(c) ==
    /\ At(c, "resolving") /\ Revises(c)
    /\ LET k == Reads(c)
           value == IF k = Nothing THEN Nothing
                    ELSE IF branch[<<Root(c), k>>] # Nothing THEN branch[<<Root(c), k>>] ELSE base[k]
       IN IF \/ k # Nothing /\ value = Nothing
             \/ ToolOf(c) = ToolOf(Root(c)) /\ (k = Nothing \/ value = injected[Root(c)])
          THEN Goes(c, "failing") /\ UNCHANGED injected
          ELSE Goes(c, "entering") /\ injected' = [injected EXCEPT ![c] = value]
    /\ UNCHANGED <<calls, owns, sets, awaits, fate, keyVars, revisionVars, laneVars>>

-----------------------------------------------------------------------------
(* The call of the target.                                                 *)

\* Calls of a serialized toolset enter their lane; others start at once.
Enter(c) ==
    /\ At(c, "entering")
    /\ IF Serial(c)
       THEN /\ lane' = Append(lane, c)
            /\ Goes(c, IF lane = <<>> THEN "running" ELSE "queued")
            /\ worker' = IF lane = <<>> THEN worker \cup {c} ELSE worker
       ELSE Goes(c, "running") /\ worker' = worker \cup {c} /\ UNCHANGED lane
    /\ UNCHANGED <<calls, owns, sets, awaits, fate, injected, keyVars, revisionVars>>

LaneOpens(c) ==
    /\ At(c, "queued") /\ Head(lane) = c
    /\ Goes(c, "running") /\ worker' = worker \cup {c}
    /\ UNCHANGED <<calls, owns, sets, awaits, fate, injected, keyVars, revisionVars, lane>>

LeaveLane(c) == lane' = RemoveFirst(lane, c)

TargetReturns(c, how) ==
    /\ At(c, "running") /\ (how = "invalid" => Tools[ToolOf(c)].revisable)
    /\ worker' = worker \ {c} /\ LeaveLane(c) /\ Goes(c, how)
    /\ UNCHANGED <<calls, owns, sets, awaits, fate, injected, keyVars, revisionVars>>

-----------------------------------------------------------------------------
(* The end of a call.                                                      *)

\* Mutation: the event is set where the result is written.
EndsQuietly(c, how) ==
    /\ Goes(c, "done") /\ fate' = [fate EXCEPT ![c] = how]
    /\ fired' = IF sets[c] = 0 \/ how # "ok" THEN fired
                ELSE fired \cup {<<ToolOf(c), sets[c]>>}
    /\ claims' = claims \ (IF Revises(c) THEN {<<Root(c), ToolOf(c)>>} ELSE {})
    /\ UNCHANGED <<calls, owns, sets, awaits, injected, event, batches>>

\* The finally clause: the claim is given back and the event is set.
Ends(c, how) ==
    /\ Goes(c, "done") /\ fate' = [fate EXCEPT ![c] = how]
    /\ fired' = IF sets[c] = 0 THEN fired ELSE fired \cup {<<ToolOf(c), sets[c]>>}
    /\ claims' = claims \ (IF Revises(c) THEN {<<Root(c), ToolOf(c)>>} ELSE {})
    /\ UNCHANGED <<calls, owns, sets, awaits, injected, event, batches>>

\* Only the call that reserved the key writes the result that others read.
Writes(c) ==
    LET k == ToolOf(c)
    IN IF Revises(c)
       THEN /\ branch' = [branch EXCEPT ![<<Root(c), k>>] = c]
            /\ UNCHANGED <<results, base>>
       ELSE /\ UNCHANGED branch
            /\ results' = [results EXCEPT ![k] = IF owns[c] THEN c ELSE @]
            /\ base' = [base EXCEPT ![k] = IF owns[c] /\ @ = Nothing THEN c ELSE @]

Succeed(c) ==
    /\ At(c, "succeeding") /\ Ends(c, "ok") /\ Writes(c)
    /\ failures' = IF owns[c] THEN failures \ {ToolOf(c)} ELSE failures
    /\ UNCHANGED <<reserved, laneVars>>

\* The result was written and then cannot be sent.
Unserializable(c) ==
    /\ At(c, "succeeding") /\ Ends(c, "error") /\ Writes(c)
    /\ failures' = IF Revises(c) THEN failures ELSE failures \cup {ToolOf(c)}
    /\ reserved' = IF owns[c] THEN reserved \ {ToolOf(c)} ELSE reserved
    /\ UNCHANGED laneVars

\* The decision gate of the tool skipped it: it has no value for others.
Skip(c) ==
    LET k == ToolOf(c)
    IN /\ At(c, "skipping") /\ Ends(c, "skipped")
       /\ results' = [results EXCEPT ![k] = IF owns[c] THEN Nothing ELSE @]
       /\ failures' = IF owns[c] THEN failures \cup {k} ELSE failures
       /\ UNCHANGED <<reserved, base, branch, laneVars>>

\* A failure is noted under the key of the tool, whoever owns it; what the
\* call had reserved is free again.
Fail(c) ==
    /\ \/ At(c, "failing") /\ Ends(c, "error")
       \/ At(c, "invalid") /\ Ends(c, "invalid")
    /\ failures' = IF Revises(c) THEN failures ELSE failures \cup {ToolOf(c)}
    /\ reserved' = IF owns[c] THEN reserved \ {ToolOf(c)} ELSE reserved
    /\ UNCHANGED <<results, base, branch, laneVars>>

RefuseRevision(c) ==
    /\ At(c, "refused")
    /\ Goes(c, "done") /\ fate' = [fate EXCEPT ![c] = "error"]
    /\ UNCHANGED <<calls, owns, sets, awaits, injected, keyVars, revisionVars, laneVars>>

\* Mutation: the lock is released while the thread still runs.
CancelAtOnce(c) ==
    /\ Cancels /\ ~Busy /\ call[c] \in {"retrying", "waiting", "queued", "running"}
    /\ Ends(c, "cancelled") /\ LeaveLane(c)
    /\ UNCHANGED <<calls, reserved, results, failures, base, branch, worker>>

\* The task is cancelled.  A worker thread cannot be: in a lane the task stays
\* with its thread, whatever else cancels it, and anywhere else it goes.
Cancel(c) ==
    /\ Cancels /\ ~Busy /\ call[c] \in {"retrying", "waiting", "queued", "running"}
    /\ IF call[c] = "running" /\ Serial(c)
       THEN /\ Goes(c, "cancelling")
            /\ UNCHANGED <<calls, fate, fired, claims, owns, sets, awaits, injected, event,
                           batches, lane>>
       ELSE Ends(c, "cancelled") /\ LeaveLane(c)
    /\ UNCHANGED <<reserved, results, failures, base, branch, worker>>

\* The thread that a cancelled call left behind returns.
CancelledTargetReturns(c) ==
    /\ ~Busy /\ c \in worker /\ call[c] \in {"cancelling", "done"}
    /\ worker' = worker \ {c}
    /\ IF call[c] = "cancelling" THEN Ends(c, "cancelled") /\ LeaveLane(c)
       ELSE UNCHANGED <<callVars, event, fired, batches, claims, lane>>
    /\ UNCHANGED <<reserved, results, failures, base, branch>>

CallGoesOn(c) ==
    \/ Refuse(c) \/ Arrive(c) \/ Revise(c) \/ Resolve(c) \/ Retry(c) \/ Wake(c)
    \/ ResolveRevision(c) \/ Enter(c) \/ LaneOpens(c)
    \/ \E how \in {"succeeding", "skipping", "failing", "invalid"} : TargetReturns(c, how)
    \/ Succeed(c) \/ Unserializable(c) \/ Skip(c) \/ Fail(c) \/ RefuseRevision(c) \/ CancelledTargetReturns(c)

RuntimeNext == \E c \in Call : CallGoesOn(c) \/ Cancel(c)

RuntimeSpec == RuntimeInit /\ [][RuntimeNext]_runtimeVars

\* Tasks, threads and the platform's calls go on, in whatever order: no step
\* repeats for ever.  Nobody needs to cancel.
SomeCallGoesOn == \E c \in Call : CallGoesOn(c)

RuntimeFairSpec == RuntimeSpec /\ WF_runtimeVars(SomeCallGoesOn)

-----------------------------------------------------------------------------
(* Properties.                                                             *)

\* Two threads are never in a serialized toolset, whoever was cancelled: a
\* writer that its caller has given up keeps the lane, and the lane is what
\* RuntimeTypeOK says it is.
OneSerialWriter ==
    RuntimeTypeOK /\ Cardinality({c \in worker : Serial(c)}) <= 1

\* The value that the graph was built on, of a tool that does not ask and whose
\* call ended ok, is never replaced or withdrawn by another call of the tool.
PlannedValueStays ==
    [][\A k \in Key : (IsTarget(k) /\ ~Tools[k].asks /\ results[k] # Nothing /\
                          fate[results[k]] = "ok")
           => results'[k] = results[k]]_runtimeVars

\* Of the revisions that replace one generation of a tool, one succeeds.
RevisedOnce ==
    \A c, d \in Call :
        Revises(c) /\ Revises(d) /\ fate[c] = "ok" /\ fate[d] = "ok" /\ c # d
            => <<Root(c), calls[c].parent>> # <<Root(d), calls[d].parent>>

\* Every call that the platform makes ends, whatever its producers do: no
\* call waits for ever for a producer that failed, was skipped or cancelled.
Open == {c \in Call : call[c] \notin {"new", "done"}}
EveryCallEnds == Open # {} ~> Open = {}

\* "Arrival order decides the injected value, not completion order": a reader
\* fails only once a call that had reserved its producer has ended without a
\* value, and not because another call of the producer was faster.
ArrivalDecides ==
    [][\A c \in Call :
          call[c] \in {"resolving", "waiting"} /\ call'[c] = "failing" /\ ~Revises(c)
              => \E p \in Call : /\ ToolOf(p) = Reads(c) /\ owns[p]
                                  /\ call[p] = "done" /\ fate[p] # "ok"]_runtimeVars
=============================================================================
