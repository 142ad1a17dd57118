----------------------------- MODULE ScopeHooks -----------------------------
(***************************************************************************)
(* _internal/scope/execution_hooks.py: a developer's hooks around one      *)
(* invocation of a scope, and around each assignment of a swarm's member.  *)
(* Two generators wrap the client's stream: the scope's, and around it the *)
(* member's.  The caller may close the outer one at any of its yields.     *)
(***************************************************************************)
EXTENDS Integers, Sequences

CONSTANTS
    Assignments,    \* assignment ids of the platform
    Recognised,     \* those whose name is the name of one member of the roster
    ChainLength,    \* hooks in a chain
    MaxHookEvents       \* bound: events of one stream

ASSUME HookAssumption ==
    /\ ChainLength \in Nat \ {0} /\ MaxHookEvents \in Nat
    /\ "scope" \notin Assignments /\ Recognised \subseteq Assignments

VARIABLES
    wrapper,        \* unstarted, open, or raising: the scope's generator
    pending,        \* what it still does for the event at hand
    opened,         \* before_emitted
    closed,         \* after_fired
    outer,          \* what the member's generator still yields for the head of pending
    active,         \* assignments whose member's after hooks are due
    fired,          \* how often each chain was fired
    caller,         \* waiting for next(), holding an item, or how it ended
    given,
    mayRepeat         \* history: what fires the scope's after hooks twice has happened

hookVars == <<wrapper, pending, opened, closed, outer, active, fired, caller, given, mayRepeat>>

Owners == {"scope"} \cup Assignments
\* Items: what they are, and whose.
Statuses == {"executing", "completed", "failed", "cancelled"}
Finals == {"final", "child final"} \X {"scope"}
Events == Finals \cup {<<"other", "scope">>} \cup (Statuses \X Assignments)
Steps == {"hook", "fire", "fired"} \X {"scope"}
HookItem == <<"hook", "scope">>
Over == {"ended", "failed", "left"}

HookTypeOK ==
    /\ wrapper \in {"unstarted", "open", "raising"}
    /\ pending \in Seq(Events \cup Steps)
    /\ opened \in BOOLEAN /\ closed \in BOOLEAN
    /\ outer \in Seq(Events \cup Steps)
    /\ active \subseteq Assignments
    /\ fired \in [Owners \X {"before", "after"} -> Nat]
    /\ caller \in {"waiting", "holding"} \cup Over /\ given \in 0 .. MaxHookEvents
    /\ mayRepeat \in BOOLEAN

HookInit ==
    /\ wrapper = "unstarted" /\ pending = <<>> /\ opened = FALSE /\ closed = FALSE
    /\ outer = <<>> /\ active = {} /\ fired = [x \in Owners \X {"before", "after"} |-> 0]
    /\ caller = "waiting" /\ given = 0 /\ mayRepeat = FALSE

\* A chain runs up to the first hook that raises; each that ran is reported.
Firings == {[n \in 1 .. k |-> HookItem] : k \in 1 .. ChainLength}
Fire(which) == fired' = [x \in DOMAIN fired |-> fired[x] + IF x \in which THEN 1 ELSE 0]

Start ==
    /\ wrapper = "unstarted" /\ wrapper' = "open" /\ Fire({<<"scope", "before">>})
    /\ UNCHANGED <<pending, opened, closed, outer, active, caller, given, mayRepeat>>

\* invoke_with_scope_hooks: without a stream, the call is all there is.
Invoke(how) ==
    /\ wrapper = "unstarted" /\ wrapper' = "open" /\ caller' = how
    /\ Fire({"scope"} \X {"before", "after"}) /\ closed' = TRUE
    /\ UNCHANGED <<pending, opened, outer, active, given, mayRepeat>>

Pulling == wrapper = "open" /\ caller = "waiting" /\ pending = <<>>

\* The first event lets the firings of the before hooks out, behind it unless
\* it is final; a final event, the run's own, which is the last, or that of a
\* delegated child, fires the after hooks first.
ScopeSees(event) ==
    /\ Pulling /\ given < MaxHookEvents /\ opened' = TRUE
    /\ event[1] = "child final" => opened
    /\ given' = IF event[1] = "final" THEN MaxHookEvents ELSE given + 1
    /\ \E before \in IF opened THEN {<<>>} ELSE Firings :
          pending' = IF event \in Finals THEN before \o <<<<"fire", "scope">>, <<"fired", "scope">>, event>>
                     ELSE <<event>> \o before
    /\ mayRepeat' = (mayRepeat \/ event[1] = "child final")
    /\ UNCHANGED <<wrapper, closed, outer, active, fired, caller>>

FireAfter ==
    /\ pending # <<>> /\ Head(pending)[1] = "fire" /\ Fire({<<"scope", "after">>})
    /\ \E after \in Firings : pending' = after \o Tail(pending)
    /\ UNCHANGED <<wrapper, opened, closed, outer, active, caller, given, mayRepeat>>

MarkFired ==
    /\ pending # <<>> /\ Head(pending)[1] = "fired"
    /\ closed' = TRUE /\ pending' = Tail(pending)
    /\ UNCHANGED <<wrapper, opened, outer, active, fired, caller, given, mayRepeat>>

\* What the scope's generator yields passes through the member's.
MemberSees ==
    /\ caller = "waiting" /\ outer = <<>>
    /\ pending # <<>> /\ Head(pending)[1] \notin {"fire", "fired"}
    /\ LET it == Head(pending)
           mine == it[2] \in Recognised
           starts == mine /\ it[1] = "executing" /\ it[2] \notin active
           ends == mine /\ it[1] # "executing" /\ it[2] \in active
       IN \/ /\ starts /\ active' = active \cup {it[2]} /\ Fire({<<it[2], "before">>})
             /\ \E f \in Firings : outer' = Append(f, it)
          \/ /\ ends /\ active' = active \ {it[2]} /\ Fire({<<it[2], "after">>})
             /\ \E f \in Firings : outer' = Append(f, it)
          \/ ~starts /\ ~ends /\ outer' = <<it>> /\ UNCHANGED <<active, fired>>
    /\ UNCHANGED <<wrapper, pending, opened, closed, caller, given, mayRepeat>>

Yield ==
    /\ caller = "waiting" /\ outer # <<>> /\ caller' = "holding"
    /\ UNCHANGED <<wrapper, pending, opened, closed, outer, active, fired, given, mayRepeat>>

Resume ==
    /\ caller = "holding" /\ caller' = "waiting" /\ outer' = Tail(outer)
    /\ pending' = IF Len(outer) = 1 THEN Tail(pending) ELSE pending
    /\ UNCHANGED <<wrapper, opened, closed, active, fired, given, mayRepeat>>

\* Mutation: a member's hooks are closed by its last event only.
UnwindLeavesMembers(how) ==
    /\ caller' = how /\ pending' = <<>> /\ outer' = <<>> /\ closed' = TRUE /\ active' = {}
    /\ Fire(IF closed \/ wrapper = "raising" THEN {} ELSE {<<"scope", "after">>})
    /\ UNCHANGED <<wrapper, opened, given>>

\* However the stream ends, both generators run their handlers.
Unwind(how) ==
    /\ caller' = how /\ pending' = <<>> /\ outer' = <<>> /\ closed' = TRUE /\ active' = {}
    /\ Fire((active \X {"after"})
                \cup IF closed \/ wrapper = "raising" THEN {} ELSE {<<"scope", "after">>})
    /\ UNCHANGED <<wrapper, opened, given>>

CallerCloses ==
    /\ caller = "holding" /\ Unwind("left")
    /\ mayRepeat' = (mayRepeat \/ \E i \in DOMAIN pending : pending[i][1] = "fired")
SourceEnds == Pulling /\ Unwind("ended") /\ UNCHANGED mayRepeat
SourceCancelled == Pulling /\ Unwind("failed") /\ UNCHANGED mayRepeat

SourceRaises ==
    /\ Pulling /\ wrapper' = "raising"
    /\ IF closed THEN UNCHANGED <<pending, fired>>
       ELSE Fire({<<"scope", "after">>}) /\ pending' \in Firings
    /\ UNCHANGED <<opened, closed, outer, active, caller, given, mayRepeat>>

Raised ==
    /\ wrapper = "raising" /\ caller = "waiting" /\ pending = <<>>
    /\ Unwind("failed") /\ UNCHANGED mayRepeat

HookNext ==
    \/ Start \/ \E how \in {"ended", "failed"} : Invoke(how)
    \/ \E event \in Events : ScopeSees(event)
    \/ FireAfter \/ MarkFired \/ MemberSees \/ Yield \/ Resume \/ CallerCloses
    \/ SourceEnds \/ SourceCancelled \/ SourceRaises \/ Raised

HookSpec == HookInit /\ [][HookNext]_hookVars

-----------------------------------------------------------------------------
(* Properties.                                                             *)

\* Whatever ends a stream, at whichever of its yields: hooks that ran before
\* are answered by those that run after, once; a member's never twice in a row.
\* The scope's are fired again in two cases only: after the final event of a
\* delegated child, and for a caller that leaves while they are reported.
HooksPaired ==
    /\ HookTypeOK
    /\ \A a \in Assignments :
          fired[<<a, "before">>] - fired[<<a, "after">>] = IF a \in active THEN 1 ELSE 0
    /\ caller \in Over => active = {}
    /\ caller \in Over /\ fired[<<"scope", "before">>] = 1 =>
          IF mayRepeat THEN fired[<<"scope", "after">>] >= 1 ELSE fired[<<"scope", "after">>] = 1
=============================================================================
