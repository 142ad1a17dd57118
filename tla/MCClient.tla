------------------------------ MODULE MCClient ------------------------------
(* The parts of a client that share nothing are checked in one run, each on *)
(* its own.                                                                 *)
EXTENDS PoolLease, StreamBridge, McpClient

VARIABLE machine

clientVars == <<machine, vars, streamVars, mcpVars>>
Pool == machine = "pool" /\ UNCHANGED <<machine, streamVars, mcpVars>>
Stream == machine = "stream" /\ UNCHANGED <<machine, vars, mcpVars>>
Mcp == machine = "mcp" /\ UNCHANGED <<machine, vars, streamVars>>

ClientInit ==
    /\ machine \in {"pool", "stream", "mcp"} /\ Init /\ StreamInit /\ McpInit
    /\ machine # "pool" => home = [l \in Lease |-> CHOOSE m \in Loop : TRUE]

ClientNext == (Pool /\ Next) \/ (Stream /\ StreamNext) \/ (Mcp /\ McpNext)

ClientSpec ==
    /\ ClientInit /\ [][ClientNext]_clientVars
    /\ \A l \in Lease :
        /\ WF_clientVars(Pool /\ Acquire(l)) /\ WF_clientVars(Pool /\ WaiterWakes(l))
        /\ WF_clientVars(Pool /\ Enter(l)) /\ WF_clientVars(Pool /\ UndoAcquire(l))
        /\ WF_clientVars(Pool /\ Close(l)) /\ WF_clientVars(Pool /\ Cleanup(l))
    /\ WF_clientVars(Stream /\ DrainStep) /\ WF_clientVars(Stream /\ WorkerStep)
    /\ WF_clientVars(Stream /\ ConsumerStep)
    /\ WF_clientVars(Stream /\ RunSet) /\ SF_clientVars(Stream /\ RunCancel)

\* NeverStranded, where the stream is what moves: a caller that waits for an
\* item gets one, unless it is the source that does not answer.
CallerNotStranded == machine = "stream" => NeverStranded
=============================================================================
