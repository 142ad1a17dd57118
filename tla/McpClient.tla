------------------------------ MODULE McpClient ------------------------------
(***************************************************************************)
(* compat/mcp.py over stdio: the tools of one MCPServer are called from    *)
(* several threads.  They share a child process, its request ids, one lock *)
(* around a request, and the queue a reader thread fills from its stdout.  *)
(***************************************************************************)
EXTENDS Integers, Sequences, SequencesExt

CONSTANTS
    Threads,        \* threads that call a tool of the server, once each
    MaxProcesses    \* bound: child processes started

VARIABLES
    runtime,        \* MCPServer._runtime: an index of process, 0 for none
    process,        \* the runtimes made so far, each with its process
    toolCalls       \* how far each thread is

ASSUME McpAssumption == MaxProcesses \in Nat /\ "free" \notin Threads

mcpVars == <<runtime, process, toolCalls>>

Closed == 0         \* the empty line that the reader puts at the end of stdout
Free == "free"
Waits == {"awaits initialize", "awaits call"}
CallStates == {"new", "spawning", "starting", "initialize", "notifying", "call",
               "returned", "raised"} \cup Waits

McpTypeOK ==
    /\ runtime \in 0 .. Len(process) /\ Len(process) <= MaxProcesses
    /\ process \in Seq([alive : BOOLEAN, requestId : Nat, initialized : BOOLEAN,
                        lock : Threads \cup {Free}, asked : SUBSET Nat,
                        responses : Seq(Nat), drained : BOOLEAN])
    /\ toolCalls \in [Threads -> [at : CallStates, of : 0 .. Len(process), id : Nat, got : Nat]]
    /\ \A c \in Threads : toolCalls[c].at \in Waits <=> \E p \in DOMAIN process : process[p].lock = c

McpInit ==
    /\ runtime = 0 /\ process = <<>>
    /\ toolCalls = [c \in Threads |-> [at |-> "new", of |-> 0, id |-> 0, got |-> 0]]

Goes(c, to) == toolCalls' = [toolCalls EXCEPT ![c].at = to]

-----------------------------------------------------------------------------
(* The child process and the thread that reads its stdout.                 *)

\* A server may answer in any order, late, or never.
Answers(p, id) ==
    /\ process[p].alive /\ id \in process[p].asked
    /\ process' = [process EXCEPT ![p].asked = @ \ {id}, ![p].responses = Append(@, id)]
    /\ UNCHANGED <<runtime, toolCalls>>

\* Of itself, or because close() terminates it.
ProcessEnds(p) ==
    /\ process[p].alive /\ process' = [process EXCEPT ![p].alive = FALSE, ![p].asked = {}]
    /\ UNCHANGED <<runtime, toolCalls>>

ReaderEnds(p) ==
    /\ ~process[p].alive /\ ~process[p].drained
    /\ process' = [process EXCEPT ![p].drained = TRUE, ![p].responses = Append(@, Closed)]
    /\ UNCHANGED <<runtime, toolCalls>>

-----------------------------------------------------------------------------
(* MCPServer: _get_runtime is not locked.                                  *)

GetRuntime(c) ==
    /\ toolCalls[c].at = "new"
    /\ toolCalls' = IF runtime = 0 THEN [toolCalls EXCEPT ![c].at = "spawning"]
                ELSE [toolCalls EXCEPT ![c].at = "starting", ![c].of = runtime]
    /\ UNCHANGED <<runtime, process>>

Spawns(c) ==
    /\ toolCalls[c].at = "spawning" /\ Len(process) < MaxProcesses
    /\ process' = Append(process, [alive |-> TRUE, requestId |-> 0, initialized |-> FALSE, lock |-> Free,
                                   asked |-> {}, responses |-> <<>>, drained |-> FALSE])
    /\ runtime' = Len(process')
    /\ toolCalls' = [toolCalls EXCEPT ![c].at = "starting", ![c].of = Len(process')]

CloseServer ==
    /\ runtime # 0 /\ runtime' = 0 /\ UNCHANGED <<process, toolCalls>>

-----------------------------------------------------------------------------
(* _StdioMCPRuntime.                                                       *)

ChecksInitialized(c) ==
    /\ toolCalls[c].at = "starting"
    /\ Goes(c, IF process[toolCalls[c].of].initialized THEN "call" ELSE "initialize")
    /\ UNCHANGED <<runtime, process>>

\* Mutation: requests are sent without the lock.
NeverLocked(p) == TRUE
Unlocked(p) == process[p].lock = Free

Awaits(request) == IF request = "call" THEN "awaits call" ELSE "awaits initialize"

\* Under the lock an id is drawn and the request written, which raises when
\* nobody has the other end of the pipe.
Sends(c) ==
    LET p == toolCalls[c].of
        id == process[p].requestId + 1
        at == toolCalls[c].at
    IN /\ at \in {"initialize", "call"} /\ Unlocked(p)
       /\ \/ /\ process[p].alive
             /\ process' = [process EXCEPT ![p].requestId = id, ![p].lock = c, ![p].asked = @ \cup {id}]
             /\ toolCalls' = [toolCalls EXCEPT ![c].at = Awaits(at), ![c].id = id]
          \/ /\ ~process[p].alive /\ Goes(c, "raised")
             /\ process' = [process EXCEPT ![p].requestId = id]
       /\ UNCHANGED runtime

\* A line is the answer, the end, or somebody else's late answer, which is dropped.
Receives(c) ==
    LET p == toolCalls[c].of
        line == Head(process[p].responses)
        popped == [process EXCEPT ![p].responses = Tail(@)]
        left == [popped EXCEPT ![p].lock = Free]
    IN /\ toolCalls[c].at \in Waits /\ process[p].responses # <<>>
       /\ \/ line = toolCalls[c].id /\ process' = left
             /\ \/ toolCalls' = [toolCalls EXCEPT ![c].got = line,
                                          ![c].at = IF @ = "awaits call" THEN "returned" ELSE "notifying"]
                \/ Goes(c, "raised")
          \/ line = Closed /\ process' = left /\ Goes(c, "raised")
          \/ line \notin {Closed, toolCalls[c].id} /\ process' = popped /\ UNCHANGED toolCalls
       /\ UNCHANGED runtime

TimesOut(c) ==
    LET p == toolCalls[c].of
    IN /\ toolCalls[c].at \in Waits /\ process[p].responses = <<>>
       /\ process' = [process EXCEPT ![p].lock = Free] /\ Goes(c, "raised")
       /\ UNCHANGED runtime

\* The notification is written outside of the lock.
Notifies(c) ==
    LET p == toolCalls[c].of
    IN /\ toolCalls[c].at = "notifying"
       /\ IF process[p].alive
          THEN process' = [process EXCEPT ![p].initialized = TRUE] /\ Goes(c, "call")
          ELSE Goes(c, "raised") /\ UNCHANGED process
       /\ UNCHANGED runtime

McpNext ==
    \/ \E p \in DOMAIN process :
          ProcessEnds(p) \/ ReaderEnds(p) \/ \E id \in process[p].asked : Answers(p, id)
    \/ CloseServer
    \/ \E c \in Threads :
          \/ GetRuntime(c) \/ Spawns(c) \/ ChecksInitialized(c) \/ Sends(c)
          \/ Receives(c) \/ TimesOut(c) \/ Notifies(c)

McpSpec == McpInit /\ [][McpNext]_mcpVars

-----------------------------------------------------------------------------
(* Properties.                                                             *)

\* A thread is given the answer to its own request, and one that waits is owed
\* something: the server has its request, the queue has its answer, or the end
\* of the process is still to be read from the queue.  No late answer of a call
\* that timed out, no second process and no close() takes it away, so that
\* without a timeout nobody waits for a process that is gone.
OwedAnAnswer ==
    \A c \in Threads :
        LET k == toolCalls[c]
            p == process[k.of]
            queued == Range(p.responses)
        IN /\ k.at = "returned" => k.got = k.id
           /\ k.at \in Waits => \/ k.id \in p.asked \cup queued
                                \/ ~p.alive /\ (~p.drained \/ Closed \in queued)
=============================================================================
