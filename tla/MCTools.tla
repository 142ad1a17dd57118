------------------------------ MODULE MCTools ------------------------------
(* The tools of one invocation, and the stream that asks for them: machines  *)
(* that share nothing are checked in one run, each on its own.               *)
EXTENDS ToolRuntime, LocalTools

VARIABLE machine

Tool(reads, serialized, asks, approval, revisable) ==
    [reads |-> reads, serialized |-> serialized, asks |-> asks,
     approval |-> approval, revisable |-> revisable]

\* "editor" reads "draft" and "report" reads "answer".
ToolSet ==
    "draft" :> Tool(Nothing, FALSE, FALSE, FALSE, TRUE)
    @@ "editor" :> Tool("draft", TRUE, FALSE, FALSE, TRUE)
    @@ "answer" :> Tool(Nothing, FALSE, TRUE, FALSE, FALSE)
    @@ "report" :> Tool("answer", TRUE, FALSE, FALSE, FALSE)
    @@ "payment" :> Tool(Nothing, FALSE, FALSE, TRUE, FALSE)

Planned(tool, message) ==
    [tool |-> tool, message |-> message, root |-> Nothing, parent |-> Nothing]
Revision(tool, root, parent) ==
    [tool |-> tool, message |-> 0, root |-> root, parent |-> parent]

\* A producer called twice; a reader called twice in its lane; a revision, and a second one of the same
\* generation; a question asked in two messages.
CallScenarios ==
    {1 :> Planned("draft", 1) @@ 2 :> Planned("draft", 1) @@ 3 :> Planned("editor", 1)
        @@ 4 :> Planned("payment", 1),
     1 :> Planned("draft", 1) @@ 2 :> Planned("editor", 1) @@ 3 :> Planned("editor", 1),
     1 :> Planned("draft", 1) @@ 2 :> Planned("editor", 1) @@ 3 :> Revision("draft", 2, 1)
        @@ 4 :> Revision("draft", 2, 1) @@ 5 :> Revision("editor", 2, 2),
     1 :> Planned("answer", 1) @@ 2 :> Planned("answer", 2) @@ 3 :> Planned("answer", 1)
        @@ 4 :> Planned("report", 2)}

toolsVars == <<machine, runtimeVars, toolVars>>
ToolsInit ==
    /\ machine \in {"runtime", "stream"} /\ RuntimeInit /\ LocalInit
    /\ machine = "stream" => calls = CHOOSE s \in Scenarios : TRUE
Runtime == machine = "runtime" /\ UNCHANGED <<machine, toolVars>>
Stream == machine = "stream" /\ UNCHANGED <<machine, runtimeVars>>
ToolsNext == (Runtime /\ RuntimeNext) \/ (Stream /\ LocalNext)
ToolsSpec ==
    /\ ToolsInit /\ [][ToolsNext]_toolsVars
    /\ WF_toolsVars((Runtime /\ SomeCallGoesOn) \/ (Stream /\ LocalGoesOn))
=============================================================================
