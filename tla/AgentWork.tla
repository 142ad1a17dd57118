------------------------------ MODULE AgentWork ------------------------------
(***************************************************************************)
(* serving.py and claiming.py: processes that announce themselves, keep    *)
(* themselves announced, claim the fires of an agent's triggers, run them  *)
(* and report what came of them.  A process is one ServingSession and the  *)
(* WorkLoop it runs beside its heartbeat.                                  *)
(*                                                                         *)
(* The platform is not part of this repository: its row for a process and  *)
(* its lease of a fire are modelled from how the two files use them.  A    *)
(* request and its answer are one step, unless the process can be          *)
(* cancelled or killed in between and that makes a difference.  Time is    *)
(* abstracted: a lease that nobody extends runs out, and one that is       *)
(* extended may run out as well.                                           *)
(***************************************************************************)
EXTENDS Integers, Sequences

CONSTANTS
    Process,        \* serving processes
    Fire,           \* fires that wait to be claimed
    MaxAttempts,    \* _MAX_REPORT_ATTEMPTS (5 in the code)
    MaxMishaps      \* bound: requests or answers lost, processes cancelled,
                    \* killed or forgotten, leases that run out although they
                    \* are extended, a revoked key

ASSUME WorkAssumption ==
    /\ MaxAttempts \in Nat \ {0}
    /\ MaxMishaps \in Nat

VARIABLES
    row,        \* the id of the platform's row for a process; 0 is none
    issued,     \* ids issued to a process so far
    phase,      \* of a fire: queued, leased or settled
    token,      \* claim_token of the last claim of a fire
    revoked,    \* the platform answers 401
    lost,       \* requests or answers that were lost
    mishaps,    \* other mishaps
    session,    \* where a ServingSession is
    pid,        \* _process_id, which stop() keeps for its DELETE; 0 is None
    loop,       \* where a WorkLoop is
    claimer,    \* the process id its WorkClaimer speaks for
    work,       \* the claim on its way to it, the one it works on, or the last
    held,       \* _held is set
    keeping,    \* the keepalive task is alive
    attempt,    \* attempts of _report
    told        \* what was said of the last claim performed, repeats left out

platformVars == <<row, issued, phase, token, revoked>>
boundVars    == <<lost, mishaps>>
sessionVars  == <<session, pid>>
loopVars     == <<loop, claimer, work, held, keeping, attempt, told>>
vars == <<platformVars, boundVars, sessionVars, loopVars>>

\* A claim: fire_id and claim_token, and the process id it was made under.
Claim == [fire : Fire, token : Nat, as : Nat]
NoClaim == [token |-> 0]

\* "finished" is "completed" or "failed".
Verdict == {"finished", "abandoned"}
Serving == {"serving", "forgotten", "reannouncing"}
SessionPc == Serving \cup {"new", "announcing", "joining", "deleting", "stopped", "dead"}
LoopPc == {"off", "idle", "asking", "running", "unkeep", "backoff", "handing", "over", "dead"}

TypeOK ==
    /\ row \in [Process -> Nat] /\ issued \in [Process -> Nat]
    /\ phase \in [Fire -> {"queued", "leased", "settled"}] /\ token \in [Fire -> Nat]
    /\ revoked \in BOOLEAN
    /\ lost \in Nat /\ mishaps \in Nat /\ lost + mishaps <= MaxMishaps
    /\ session \in [Process -> SessionPc] /\ pid \in [Process -> Nat]
    /\ loop \in [Process -> LoopPc] /\ claimer \in [Process -> Nat]
    /\ work \in [Process -> Claim \cup {NoClaim}]
    /\ held \in [Process -> BOOLEAN] /\ keeping \in [Process -> BOOLEAN]
    /\ attempt \in [Process -> 1 .. MaxAttempts]
    /\ told \in [Process -> Seq(Verdict \cup {"claimed", "working"})]

Init ==
    /\ row = [p \in Process |-> 0] /\ issued = [p \in Process |-> 0]
    /\ phase = [f \in Fire |-> "queued"] /\ token = [f \in Fire |-> 0]
    /\ revoked = FALSE
    /\ lost = 0 /\ mishaps = 0
    /\ session = [p \in Process |-> "new"] /\ pid = [p \in Process |-> 0]
    /\ loop = [p \in Process |-> "off"] /\ claimer = [p \in Process |-> 0]
    /\ work = [p \in Process |-> NoClaim]
    /\ held = [p \in Process |-> FALSE] /\ keeping = [p \in Process |-> FALSE]
    /\ attempt = [p \in Process |-> 1]
    /\ told = [p \in Process |-> <<>>]
-----------------------------------------------------------------------------
(* The platform *)

\* The lease of claim c still runs.
Leases(c) == phase[c.fire] = "leased" /\ token[c.fire] = c.token

\* Somebody is on the fire: its lease is fresh or is extended.
Tended(f) == \E p \in Process :
    /\ loop[p] \in {"asking", "running", "unkeep", "backoff", "handing"}
    /\ work[p] # NoClaim /\ work[p].fire = f /\ Leases(work[p])

Mishap == lost + mishaps < MaxMishaps /\ mishaps' = mishaps + 1

LeaseExpires(f) ==
    /\ phase[f] = "leased"
    /\ IF Tended(f) THEN Mishap ELSE UNCHANGED mishaps
    /\ phase' = [phase EXCEPT ![f] = "queued"]
    /\ UNCHANGED <<row, issued, token, revoked, lost, sessionVars, loopVars>>

\* The platform restarts, or ages out a row it has not heard of.
Forget(p) ==
    /\ row[p] # 0
    /\ IF session[p] \in {"stopped", "dead"} THEN UNCHANGED mishaps ELSE Mishap
    /\ row' = [row EXCEPT ![p] = 0]
    /\ UNCHANGED <<issued, phase, token, revoked, lost, sessionVars, loopVars>>

Revoke ==
    /\ ~revoked /\ Mishap
    /\ revoked' = TRUE
    /\ UNCHANGED <<row, issued, phase, token, lost, sessionVars, loopVars>>

\* One request: the platform does Deal(a) and the process acts on the answer
\* a, or the process hears nothing, whether the request arrived or not.
Request(Deal(_), Heard(_), Unheard) ==
    \/ revoked /\ Heard("terminal") /\ UNCHANGED <<platformVars, lost>>
    \/ ~revoked /\ \E a \in {"ok", "refused"} : Deal(a) /\ Heard(a) /\ UNCHANGED lost
    \/ /\ lost + mishaps < MaxMishaps /\ lost' = lost + 1
       /\ Unheard
       /\ UNCHANGED platformVars \/ (~revoked /\ \E a \in {"ok", "refused"} : Deal(a))

\* POST: the row of this instance gets a new id.
Registers(p, a) ==
    /\ a = "ok"
    /\ issued' = [issued EXCEPT ![p] = @ + 1]
    /\ row' = [row EXCEPT ![p] = issued'[p]]
    /\ UNCHANGED <<phase, token, revoked>>

Knows(p, id) == row[p] = id /\ id # 0

\* PATCH
Recognises(p, a) == a = (IF Knows(p, pid[p]) THEN "ok" ELSE "refused") /\ UNCHANGED platformVars

\* DELETE
Removes(p, a) ==
    /\ a = IF Knows(p, pid[p]) THEN "ok" ELSE "refused"
    /\ row' = IF a = "ok" THEN [row EXCEPT ![p] = 0] ELSE row
    /\ UNCHANGED <<issued, phase, token, revoked>>

\* POST claims: a queued fire.
HandsOver(p, f, a) ==
    /\ a = "ok" /\ Knows(p, claimer[p]) /\ phase[f] = "queued"
    /\ phase' = [phase EXCEPT ![f] = "leased"]
    /\ token' = [token EXCEPT ![f] = @ + 1]
    /\ UNCHANGED <<row, issued, revoked>>

\* A report, accepted or refused with 409.  A claim that was made under an
\* earlier process id may be refused.
Takes(p, status, a) ==
    LET c == work[p] IN
    /\ \/ a = "ok" /\ Leases(c)
       \/ a = "refused" /\ (~Leases(c) \/ claimer[p] # c.as)
    /\ phase' = IF a = "refused" THEN phase
                ELSE [phase EXCEPT ![c.fire] =
                        IF status = "abandoned" THEN "queued" ELSE "settled"]
    /\ UNCHANGED <<row, issued, token, revoked>>
-----------------------------------------------------------------------------
(* WorkLoop *)

LoopMoves(p, from, to) ==
    /\ loop[p] = from
    /\ loop' = [loop EXCEPT ![p] = to]

\* _one_pass: the claim is on its way, unless the answer is lost.  An answer
\* that is empty, a refusal of the process id or a failure makes the loop
\* pause and ask again.
Ask(p) ==
    /\ \E f \in Fire :
        Request(LAMBDA a : HandsOver(p, f, a),
                LAMBDA a : /\ a = "ok" /\ LoopMoves(p, "idle", "asking")
                           /\ work' = [work EXCEPT ![p] = [fire |-> f, token |-> token'[f],
                                                           as |-> claimer[p]]],
                LoopMoves(p, "idle", "idle") /\ UNCHANGED work)
    /\ UNCHANGED <<mishaps, claimer, held, keeping, attempt, told, sessionVars>>

\* A refusal of the credentials ends the loop.
AskRefused(p) ==
    /\ revoked
    /\ LoopMoves(p, "idle", "over")
    /\ UNCHANGED <<claimer, work, held, keeping, attempt, told>>
    /\ UNCHANGED <<platformVars, boundVars, sessionVars>>

\* _perform, up to the runner.
Perform(p) ==
    /\ LoopMoves(p, "asking", "running")
    /\ held' = [held EXCEPT ![p] = TRUE]
    /\ keeping' = [keeping EXCEPT ![p] = TRUE]
    /\ attempt' = [attempt EXCEPT ![p] = 1]
    /\ told' = [told EXCEPT ![p] = <<"claimed">>]
    /\ UNCHANGED <<claimer, work, platformVars, boundVars, sessionVars>>

Telling(p, status) ==
    told' = [told EXCEPT ![p] = IF @[Len(@)] = status THEN @ ELSE Append(@, status)]

\* _keep_alive: 409 ends it, whatever else happens does not.
KeepAlive(p) ==
    /\ keeping[p]
    /\ Telling(p, "working")
    /\ \/ UNCHANGED keeping
       \/ /\ ~Leases(work[p]) \/ claimer[p] # work[p].as
          /\ keeping' = [keeping EXCEPT ![p] = FALSE]
    /\ UNCHANGED <<loop, claimer, work, held, attempt, platformVars, boundVars, sessionVars>>

\* Mutation: the keepalive outlives the runner.
StillKeeping(p) == p \in Process /\ UNCHANGED keeping

\* _stop(keepalive)
StopKeeping(p) == keeping' = [keeping EXCEPT ![p] = FALSE]

\* The runner returns or raises; the keepalive is cancelled and awaited.
RunnerEnds(p) ==
    /\ LoopMoves(p, "running", "unkeep")
    /\ StopKeeping(p)
    /\ UNCHANGED <<claimer, work, held, attempt, told, platformVars, boundVars, sessionVars>>

TriesAgain(p) == attempt[p] < MaxAttempts

\* One attempt of _report, and what follows: the next one, or the end.
Reports(p, from, again, to, status) ==
    /\ loop[p] = from
    /\ Telling(p, status)
    /\ Request(LAMBDA a : Takes(p, status, a),
               LAMBDA a : LoopMoves(p, from, to) /\ UNCHANGED attempt,
               IF TriesAgain(p)
               THEN LoopMoves(p, from, again) /\ attempt' = [attempt EXCEPT ![p] = @ + 1]
               ELSE LoopMoves(p, from, to) /\ UNCHANGED attempt)
    /\ UNCHANGED <<mishaps, claimer, work, keeping, sessionVars>>

\* Mutation: _held is not cleared before the report.
StillHeld(p) == p \in Process /\ UNCHANGED held

LetGo(p) == held' = [held EXCEPT ![p] = FALSE]

Report(p) ==
    /\ \E from \in {"unkeep", "backoff"} : Reports(p, from, "backoff", "idle", "finished")
    /\ LetGo(p)

\* _release_held, on the way out of a cancelled loop.
HandBack(p) ==
    /\ Reports(p, "handing", "handing", "over", "abandoned")
    /\ UNCHANGED held

\* task.cancel() of the loop, delivered where it waits.
CancelsLoop(p) ==
    /\ loop' = [loop EXCEPT ![p] = IF @ \in {"off", "handing"} THEN @
                                   ELSE IF held[p] THEN "handing" ELSE "over"]
    /\ attempt' = [attempt EXCEPT ![p] = IF held[p] THEN 1 ELSE @]
    /\ held' = [held EXCEPT ![p] = FALSE]
    /\ keeping' = [keeping EXCEPT ![p] = FALSE]
    /\ UNCHANGED <<claimer, work, told>>

LoopStep(p) ==
    Ask(p) \/ AskRefused(p) \/ Perform(p) \/ RunnerEnds(p) \/ Report(p) \/ HandBack(p)
-----------------------------------------------------------------------------
(* ServingSession.  _with_retry may try again or, with its attempts used   *)
(* up, give up: they are not counted.                                      *)

SessionMoves(p, from, to) ==
    /\ session[p] = from
    /\ session' = [session EXCEPT ![p] = to]

\* The first announcement.  When it fails, __aenter__ raises, and there is no
\* __aexit__.
Announce(p) ==
    /\ Request(LAMBDA a : Registers(p, a),
               LAMBDA a : SessionMoves(p, "new", IF a = "ok" THEN "announcing" ELSE "stopped"),
               SessionMoves(p, "new", "new") \/ SessionMoves(p, "new", "stopped"))
    /\ UNCHANGED <<mishaps, pid, loopVars>>

\* Leaving _serve_until_cancelled: both tasks are cancelled.
Leaves(p) ==
    /\ session[p] \in Serving
    /\ session' = [session EXCEPT ![p] = "joining"]
    /\ CancelsLoop(p)

\* _announce('re_announced').  Without success the next beat finds the process
\* forgotten again.
ReAnnounce(p) ==
    /\ session[p] = "forgotten"
    /\ Request(LAMBDA a : Registers(p, a),
               LAMBDA a : IF a = "ok"
                          THEN SessionMoves(p, "forgotten", "reannouncing") /\ UNCHANGED loopVars
                          ELSE Leaves(p),
               UNCHANGED <<session, loopVars>>)
    /\ UNCHANGED <<mishaps, pid>>

\* Mutation: the loop keeps the claimer of the forgotten process id.
BindOnce(p) == claimer' = IF claimer[p] = 0 THEN [claimer EXCEPT ![p] = issued[p]] ELSE claimer

\* _bind_work_loop
Rebind(p) == claimer' = [claimer EXCEPT ![p] = issued[p]]

\* _announce returns with a process id, and the loop claims under it.
Announced(p) ==
    /\ \E from \in {"announcing", "reannouncing"} : SessionMoves(p, from, "serving")
    /\ pid' = [pid EXCEPT ![p] = issued[p]]
    /\ Rebind(p)
    /\ loop' = [loop EXCEPT ![p] = IF @ = "off" THEN "idle" ELSE @]
    /\ UNCHANGED <<work, held, keeping, attempt, told, platformVars, boundVars>>

\* heartbeat(): landed or missed, 404, or a refusal of the credentials.
Beat(p) ==
    /\ session[p] = "serving"
    /\ Request(LAMBDA a : Recognises(p, a),
               LAMBDA a : CASE a = "ok" -> UNCHANGED <<session, loopVars>>
                            [] a = "refused" -> /\ SessionMoves(p, "serving", "forgotten")
                                                /\ UNCHANGED loopVars
                            [] OTHER -> Leaves(p),
               UNCHANGED <<session, loopVars>>)
    /\ UNCHANGED <<mishaps, pid>>

\* The claim loop has raised.
LoopRaised(p) ==
    /\ loop[p] = "over"
    /\ Leaves(p)
    /\ UNCHANGED <<pid, platformVars, boundVars>>

\* Mutation: stop() does not wait for the loop.
JoinNobody(p) ==
    /\ SessionMoves(p, "joining", "deleting")
    /\ UNCHANGED <<pid, loopVars, platformVars, boundVars>>

\* gather(*tasks), then __aexit__.
Join(p) ==
    /\ loop[p] = "over"
    /\ SessionMoves(p, "joining", "deleting")
    /\ UNCHANGED <<pid, loopVars, platformVars, boundVars>>

Delete(p) ==
    /\ Request(LAMBDA a : Removes(p, a),
               LAMBDA a : SessionMoves(p, "deleting", "stopped"),
               \E to \in {"deleting", "stopped"} : SessionMoves(p, "deleting", to))
    /\ UNCHANGED <<mishaps, pid, loopVars>>

\* Ctrl-C
Cancel(p) ==
    /\ Mishap
    /\ \/ Leaves(p)
       \/ (SessionMoves(p, "new", "stopped") \/ SessionMoves(p, "announcing", "stopped"))
          /\ UNCHANGED loopVars
    /\ UNCHANGED <<lost, pid, platformVars>>

\* The process is killed.
Crash(p) ==
    /\ Mishap
    /\ session[p] \notin {"new", "stopped", "dead"}
    /\ session' = [session EXCEPT ![p] = "dead"]
    /\ loop' = [loop EXCEPT ![p] = "dead"]
    /\ keeping' = [keeping EXCEPT ![p] = FALSE]
    /\ UNCHANGED <<lost, pid, claimer, work, held, attempt, told, platformVars>>

SessionStep(p) ==
    \/ Announce(p) \/ ReAnnounce(p) \/ Announced(p) \/ Beat(p)
    \/ LoopRaised(p) \/ Join(p) \/ Delete(p)
-----------------------------------------------------------------------------
Next ==
    \/ \E p \in Process : \/ LoopStep(p) \/ KeepAlive(p) \/ SessionStep(p)
                          \/ Cancel(p) \/ Crash(p) \/ Forget(p)
    \/ \E f \in Fire : LeaseExpires(f)
    \/ Revoke

\* The tasks of a process run, its runner returns, and the platform's leases
\* run out.  Nobody has to be cancelled, killed, forgotten or revoked.
Fairness ==
    /\ \A p \in Process : WF_vars(LoopStep(p)) /\ WF_vars(SessionStep(p))
    /\ \A f \in Fire : WF_vars(LeaseExpires(f))

Spec == Init /\ [][Next]_vars /\ Fairness
-----------------------------------------------------------------------------
(* Properties *)

\* A claim the loop took and left, whatever raised, was lost or was cancelled
\* in between, has been given one verdict: never none, never "finished" and
\* "abandoned", and no "working" after it (_perform, _release_held).
OneVerdict ==
    \A p \in Process :
        LET said == told[p] IN
        /\ \A i \in DOMAIN said : said[i] \in Verdict => i = Len(said)
        /\ loop[p] \in {"idle", "asking", "over"} =>
            said = <<>> \/ said[Len(said)] \in Verdict

\* The row of a process goes last: a claim is handed back under a process id
\* that the DELETE has not taken away yet.
HandBackBeforeDelete ==
    \A p \in Process :
        session[p] \in {"deleting", "stopped"} => loop[p] \in {"off", "over"}

\* A process that was stopped by Ctrl-C leaves no row for the platform to age
\* out, as long as the network loses nothing.
CleanStop ==
    \A p \in Process :
        session[p] = "stopped" /\ lost = 0 /\ ~revoked => row[p] = 0

\* As long as some process goes on serving, every fire is settled in the end:
\* across lost answers, leases that run out, processes that die and rows the
\* platform forgets.
EventuallySettled ==
    <>(\/ \A f \in Fire : phase[f] = "settled"
       \/ \A p \in Process : session[p] \in {"stopped", "dead"})
=============================================================================
