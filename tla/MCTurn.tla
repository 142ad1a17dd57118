------------------------------- MODULE MCTurn -------------------------------
(* What a turn passes through, the machines that share nothing, each on its *)
(* own: the bridge to a browser, a batch of decisions, the hooks of a scope *)
(* and the handle on a thread.                                              *)
EXTENDS EventBridge, DecisionCall, ScopeHooks, BoundThread, TLC

VARIABLE machine

BridgeTurn(p, h, e) == [policy |-> p, history |-> h, events |-> e]

BridgeTurns ==
    {BridgeTurn("none", 2, <<"tool", "chunk", "final">>),
     BridgeTurn("none", 3, <<"chunk", "tool", "tool", "tool">>),
     BridgeTurn("block", 2, <<"interrupt", "interrupt", "final">>),
     BridgeTurn("drop_oldest", 2, <<"interrupt", "session_start", "interrupt">>),
     BridgeTurn("drop_newest", 1, <<"chunk", "final">>)}

Questions(after, asks, gates, limit) ==
    [after |-> after, asks |-> asks, gates |-> gates, limit |-> limit]

\* Two stages that gate side by side and a successor; two items that compete
\* for one operation; a plan with a stage after the call.
DecisionPlans ==
    {[items |-> {1}, limit |-> 2, group |-> 2,
      stages |-> "a" :> Questions({}, {1}, {1}, 1) @@ "b" :> Questions({}, {1, 2}, {1}, 1)
                    @@ "c" :> Questions({"a"}, {1}, {}, 1)],
     [items |-> {1, 2}, limit |-> 1, group |-> 2,
      stages |-> "a" :> Questions({}, {1, 2}, {2}, 2)],
     [items |-> {1, 2}, limit |-> 2, group |-> 2,
      stages |-> "a" :> Questions({}, {1}, {1}, 1) @@ "b" :> Questions({"a", "call"}, {1}, {}, 1)]}

turnVars == <<machine, bridgeVars, decisionVars, hookVars, threadVars>>
Bridge == machine = "bridge" /\ UNCHANGED <<machine, decisionVars, hookVars, threadVars>>
Decision == machine = "decision" /\ UNCHANGED <<machine, bridgeVars, hookVars, threadVars>>
Hooks == machine = "hooks" /\ UNCHANGED <<machine, bridgeVars, decisionVars, threadVars>>
Thread == machine = "thread" /\ UNCHANGED <<machine, bridgeVars, decisionVars, hookVars>>

TurnInit ==
    /\ machine \in {"bridge", "decision", "hooks", "thread"}
    /\ EventInit /\ DecisionInit /\ HookInit /\ ThreadInit
    /\ machine # "bridge" => policy = "block"
    /\ machine # "decision" => setup = CHOOSE p \in Plans : TRUE

TurnNext ==
    (Bridge /\ EventNext) \/ (Decision /\ DecisionNext) \/ (Hooks /\ HookNext) \/ (Thread /\ ThreadNext)

TurnSpec ==
    /\ TurnInit /\ [][TurnNext]_turnVars
    /\ WF_turnVars(Bridge /\ PutEnds)
    /\ WF_turnVars(Bridge /\ \E g \in Generators : BrowserConnects(g))
    /\ \A g \in Generators : WF_turnVars(Bridge /\ GeneratorStep(g))
=============================================================================
