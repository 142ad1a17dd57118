----------------------------- MODULE BoundThread -----------------------------
(***************************************************************************)
(* _internal/thread.py and the streams of _internal/client.py: a handle on *)
(* one thread of the platform sends, streams and replays, one operation at *)
(* a time, and keeps the position from which the next replay goes on.      *)
(***************************************************************************)
EXTENDS Integers, Sequences

CONSTANTS
    MaxSessions,    \* bound: invocations of the thread, by whomever
    MaxPositions    \* bound: events of a session

ASSUME ThreadAssumption == MaxSessions \in Nat /\ MaxPositions \in Nat \ {0}

VARIABLES
    log,            \* the platform's events of each session of the thread
    session,        \* _session_id: the session a replay is pinned to, 0 for none
    resumeFrom,     \* _resume_from_position
    operation,      \* what holds _operation_lock, and the stream under it
    cancels,        \* sessions whose cancellation was attempted
    \* History, of the session that the handle's position is about: whether a stream
    \* of the handle runs its tools, and the positions of the events its caller was
    \* given, was given only hook_fired items of, and asked to leave out.
    local, handed, announced, waived

threadVars == <<log, session, resumeFrom, operation, cancels, local, handed, announced, waived>>
givenVars == <<local, handed, announced, waived>>

Sessions == 1 .. MaxSessions
Positions == 1 .. MaxPositions
\* "tool" is system_tool_start, "final" stands for "error" too, and "child final" for
\* any event of a delegated session but the start of a tool.
Kinds == {"event", "tool", "final", "child tool", "child final"}
OfRoot == {"event", "tool", "final"}
Tools == {"tool", "child tool"}
Terminals == {"final"}

\* An event of the log, or a hook_fired that carries the position of one.
Items == [at : Positions, hook : BOOLEAN]

\* taken: positions that Client.astream yielded; line: items it yielded and the
\* caller has not been given, for the worker of a synchronous stream runs ahead.
Idle == [does |-> "idle", of |-> 0, taken |-> {}, line |-> <<>>, opted |-> FALSE, terminal |-> FALSE]

ThreadTypeOK ==
    /\ log \in Seq(Seq(Kinds)) /\ Len(log) <= MaxSessions
    /\ session \in 0 .. Len(log) /\ resumeFrom \in 0 .. MaxPositions
    /\ operation \in [does : {"idle", "posting send", "posting stream", "sending", "streaming", "replaying"},
                      of : 0 .. Len(log), taken : SUBSET Positions, line : Seq(Items),
                      opted : BOOLEAN, terminal : BOOLEAN]
    /\ cancels \subseteq Sessions /\ local \in BOOLEAN
    /\ handed \subseteq Positions /\ announced \subseteq Positions /\ waived \subseteq Positions

Fresh(here, left) == local' = here /\ handed' = {} /\ announced' = {} /\ waived' = left

ThreadInit ==
    /\ log = <<>> /\ session = 0 /\ resumeFrom = 0 /\ operation = Idle /\ cancels = {}
    /\ local = FALSE /\ handed = {} /\ announced = {} /\ waived = {}

SessionOver(s) == log[s] # <<>> /\ log[s][Len(log[s])] \in Terminals

-----------------------------------------------------------------------------
(* The platform: a session's log starts with an event of its own.          *)

Emits(s, kind) ==
    /\ ~SessionOver(s) /\ Len(log[s]) < MaxPositions /\ (log[s] = <<>> => kind \in OfRoot)
    /\ log' = [log EXCEPT ![s] = Append(@, kind)]
    /\ UNCHANGED <<session, resumeFrom, operation, cancels, givenVars>>

\* Another handle, or a rewind of the thread by this client, starts a session.
OtherTurn ==
    /\ Len(log) < MaxSessions /\ log' = Append(log, <<>>)
    /\ UNCHANGED <<session, resumeFrom, operation, cancels, givenVars>>

-----------------------------------------------------------------------------
(* The handle.                                                             *)

\* Mutation: the position of the turn before is kept.
BeginKeepsCursor(does, opted) ==
    /\ operation = Idle /\ session' = 0
    /\ operation' = [Idle EXCEPT !.does = does, !.opted = opted]
    /\ Fresh(FALSE, {}) /\ UNCHANGED <<log, resumeFrom, cancels>>

\* send, stream: _invocation_options, under the lock.
Begin(does, opted) ==
    /\ operation = Idle /\ session' = 0 /\ resumeFrom' = 0
    /\ operation' = [Idle EXCEPT !.does = does, !.opted = opted]
    /\ Fresh(FALSE, {}) /\ UNCHANGED <<log, cancels>>

Accepted ==
    /\ operation.does \in {"posting send", "posting stream"} /\ Len(log) < MaxSessions
    /\ log' = Append(log, <<>>)
    /\ operation' = [operation EXCEPT
                        !.does = IF @ = "posting send" THEN "sending" ELSE "streaming",
                        !.of = Len(log) + 1]
    /\ local' = (operation.does = "posting stream")
    /\ UNCHANGED <<session, resumeFrom, cancels, handed, announced, waived>>

\* The request, or its answer, is lost or refused.
PostFails ==
    /\ operation.does \in {"posting send", "posting stream"} /\ operation' = Idle
    /\ \/ UNCHANGED log
       \/ Len(log) < MaxSessions /\ log' = Append(log, <<>>)
    /\ UNCHANGED <<session, resumeFrom, cancels, givenVars>>

SendEnds ==
    /\ operation.does = "sending" /\ operation' = Idle
    /\ \/ SessionOver(operation.of) /\ session' = operation.of
       \/ UNCHANGED session
    /\ UNCHANGED <<log, resumeFrom, cancels, givenVars>>

\* events(): from the retained position, or from where the caller says; of the session
\* that was observed, or of whichever is the thread's latest: "make a fresh
\* handle after another client changes that thread's active session".
Replay(from) ==
    /\ operation = Idle /\ log # <<>> /\ resumeFrom' = from
    /\ LET s == IF session # 0 THEN session ELSE Len(log)
       IN operation' = [Idle EXCEPT !.does = "replaying", !.of = s, !.taken = 1 .. from]
    /\ IF session = 0 THEN Fresh(FALSE, 1 .. from)
       ELSE /\ waived' = IF from <= resumeFrom THEN waived ELSE waived \cup (1 .. from)
            /\ UNCHANGED <<local, handed, announced>>
    /\ UNCHANGED <<log, session, cancels>>

-----------------------------------------------------------------------------
(* The stream under the handle, and what the handle sees of it.            *)

IsStreaming == operation.does \in {"streaming", "replaying"}
Stream == log[operation.of]

\* The producer reads the events in order and queues each at once, but the start of
\* a tool only when the tool begins, or never for a call delivered again.
Withheld(p) == operation.does = "streaming" /\ Stream[p] \in Tools
Reached(p) == p <= Len(Stream) /\ \A q \in 1 .. p - 1 : q \in operation.taken \/ Withheld(q)

\* Mutation: a delegated session counts as the root.
SeesAnyEnd(kind) == kind \in Terminals \cup {"child final"}
SeesEnd(kind) == kind \in Terminals

\* Client.astream yields an event, and looks for the end before it does.
Pull(p) ==
    /\ IsStreaming /\ Reached(p) /\ p \notin operation.taken
    /\ operation' = [operation EXCEPT
                        !.taken = @ \cup {p}, !.line = Append(@, [at |-> p, hook |-> FALSE]),
                        !.terminal = @ \/ SeesEnd(Stream[p])]
    /\ UNCHANGED <<log, session, resumeFrom, cancels, givenVars>>

\* A local tool's hook fires, before or after its start is queued.
PullHook(p) ==
    /\ IsStreaming /\ Reached(p) /\ Withheld(p)
    /\ \A i \in DOMAIN operation.line : operation.line[i] # [at |-> p, hook |-> TRUE]
    /\ p \notin announced
    /\ operation' = [operation EXCEPT !.line = Append(@, [at |-> p, hook |-> TRUE])]
    /\ UNCHANGED <<log, session, resumeFrom, cancels, givenVars>>

\* _observe, before the item is handed over.
Observe(p) ==
    /\ resumeFrom' = IF p > resumeFrom THEN p ELSE resumeFrom
    /\ session' = IF Stream[p] \in OfRoot THEN operation.of ELSE session

\* The next item in line reaches the caller.
Deliver ==
    /\ IsStreaming /\ operation.line # <<>>
    /\ LET item == Head(operation.line)
       IN /\ Observe(item.at)
          /\ handed' = IF item.hook THEN handed ELSE handed \cup {item.at}
          /\ announced' = IF item.hook THEN announced \cup {item.at} ELSE announced
    /\ operation' = [operation EXCEPT !.line = Tail(@)]
    /\ UNCHANGED <<log, cancels, local, waived>>

\* Hooks of a scope or of a member fire at an event that is next in line, "final"
\* say, and their items reach the caller before it.
ScopeHookFires ==
    /\ operation.does = "streaming" /\ operation.line # <<>> /\ ~Head(operation.line).hook
    /\ Observe(Head(operation.line).at)
    /\ announced' = announced \cup {Head(operation.line).at}
    /\ UNCHANGED <<log, operation, cancels, local, handed, waived>>

\* The caller closes the stream at an item or while it waits for one, the
\* stream breaks, or it ends: cancel_on_close decides about the session.
StreamEnds ==
    /\ IsStreaming /\ operation' = Idle
    /\ cancels' = IF operation.opted /\ ~operation.terminal
                  THEN cancels \cup {operation.of} ELSE cancels
    /\ UNCHANGED <<log, session, resumeFrom, givenVars>>

ThreadNext ==
    \/ OtherTurn \/ \E s \in 1 .. Len(log), kind \in Kinds : Emits(s, kind)
    \/ Begin("posting send", FALSE) \/ \E opted \in BOOLEAN : Begin("posting stream", opted)
    \/ Accepted \/ PostFails \/ SendEnds \/ \E from \in {resumeFrom} \cup 0 .. 1 : Replay(from)
    \/ \E p \in Positions : Pull(p) \/ PullHook(p)
    \/ Deliver \/ ScopeHookFires \/ StreamEnds

ThreadSpec == ThreadInit /\ [][ThreadNext]_threadVars

-----------------------------------------------------------------------------
(* Properties.                                                             *)

\* An event the caller need not be given again: it was given, or its hooks were, or
\* it was left out at the caller's word, or it is the start of a tool that ran here.
Accounted(s, p) ==
    \/ p \in handed \cup announced \cup waived
    \/ local /\ p <= Len(log[s]) /\ log[s][p] \in Tools

\* A replay from the retained position misses nothing else: whatever failed, broke,
\* overtook or was started in between, each event of the pinned session up to
\* that position is accounted for.
CursorMissesNothing ==
    session # 0 => \A p \in 1 .. resumeFrom : Accounted(session, p)

\* "optionally cancel its root when closed before a terminal event": a stream that
\* opted in never leaves its session running, however far ahead of its caller
\* it was; and a session whose end the caller was given is not cancelled.
CancelledUnlessOver ==
    [][operation.opted /\ operation.of # 0 /\ operation' = Idle =>
          LET s == operation.of
          IN /\ SessionOver(s) \/ s \in cancels'
             /\ (\E p \in handed : log[s][p] \in Terminals) => s \notin cancels'
      ]_threadVars
=============================================================================
