--------------------------- MODULE AgentWorkProofs ---------------------------
(***************************************************************************)
(* For any processes, fires, attempts and mishaps: a claim gets one        *)
(* verdict, and it is handed back before the row of its process goes.      *)
(***************************************************************************)
EXTENDS AgentWork, TLAPS

\* Where a session is, against its loop.
SessionInv(p) ==
    /\ session[p] \in {"new", "announcing"} => loop[p] = "off"
    /\ session[p] \in {"deleting", "stopped"} => loop[p] \in {"off", "over"}
    /\ session[p] = "dead" <=> loop[p] = "dead"

\* Where a loop is, against what it holds, whether it is kept alive and what
\* was said of its claim.
Said(p) == told[p][Len(told[p])]
LoopInv(p) ==
    /\ held[p] => loop[p] \in {"running", "unkeep", "dead"}
    /\ loop[p] \in {"running", "unkeep"} => held[p]
    /\ keeping[p] => loop[p] = "running"
    /\ \A i \in DOMAIN told[p] : told[p][i] \in Verdict => i = Len(told[p])
    /\ loop[p] = "off" => told[p] = <<>>
    /\ loop[p] \in {"idle", "asking", "over"} => told[p] = <<>> \/ Said(p) \in Verdict
    /\ loop[p] \in {"running", "unkeep"} => told[p] # <<>> /\ Said(p) \notin Verdict
    /\ loop[p] = "backoff" => told[p] # <<>> /\ Said(p) = "finished"
    /\ loop[p] = "handing" => told[p] # <<>> /\ Said(p) # "finished"

WorkInv ==
    /\ TypeOK
    /\ \A p \in Process : SessionInv(p) /\ LoopInv(p)

-----------------------------------------------------------------------------
(* What the steps of a process do, without the requests they are made of.  *)

\* What a request may do to the platform.
Dealt ==
    /\ row' \in [Process -> Nat] /\ issued' \in [Process -> Nat]
    /\ phase' \in [Fire -> {"queued", "leased", "settled"}] /\ token' \in [Fire -> Nat]
    /\ revoked' \in BOOLEAN
Heard == lost' \in Nat /\ lost' + mishaps <= MaxMishaps

LEMMA NothingDealt == ASSUME TypeOK, UNCHANGED platformVars PROVE Dealt
  BY DEF TypeOK, Dealt, platformVars

LEMMA NobodyHeard ==
    ASSUME TypeOK, UNCHANGED lost \/ (lost + mishaps < MaxMishaps /\ lost' = lost + 1)
    PROVE  Heard
  BY WorkAssumption DEF TypeOK, Heard

LEMMA HandsOverDealt ==
    ASSUME TypeOK, NEW p \in Process, NEW f \in Fire, NEW a, HandsOver(p, f, a) PROVE Dealt
  BY DEF TypeOK, Dealt, HandsOver

LEMMA RegistersDealt ==
    ASSUME TypeOK, NEW p \in Process, NEW a, Registers(p, a) PROVE Dealt
  BY DEF TypeOK, Dealt, Registers

LEMMA RemovesDealt ==
    ASSUME TypeOK, NEW p \in Process, NEW a, Removes(p, a) PROVE Dealt
  BY DEF TypeOK, Dealt, Removes

LEMMA TakesDealt ==
    ASSUME TypeOK, NEW p \in Process, NEW status, NEW a, Takes(p, status, a) PROVE Dealt
  <1>1. \/ phase' = phase
        \/ \E f : phase' = [phase EXCEPT ![f] = "queued"] \/ phase' = [phase EXCEPT ![f] = "settled"]
    BY DEF Takes
  <1> QED BY <1>1 DEF TypeOK, Dealt, Takes

LEMMA AskShape ==
    ASSUME TypeOK, NEW p \in Process, Ask(p)
    PROVE  /\ Dealt /\ Heard /\ loop[p] = "idle"
           /\ \/ loop' = [loop EXCEPT ![p] = "asking"] /\ \E c \in Claim : work' = [work EXCEPT ![p] = c]
              \/ loop' = [loop EXCEPT ![p] = "idle"] /\ UNCHANGED work
           /\ UNCHANGED <<mishaps, claimer, held, keeping, attempt, told, session, pid>>
  <1> PICK f \in Fire :
        Request(LAMBDA a : HandsOver(p, f, a),
                LAMBDA a : /\ a = "ok" /\ LoopMoves(p, "idle", "asking")
                           /\ work' = [work EXCEPT ![p] = [fire |-> f, token |-> token'[f],
                                                           as |-> claimer[p]]],
                LoopMoves(p, "idle", "idle") /\ UNCHANGED work)
    BY DEF Ask
  <1>1. UNCHANGED platformVars \/ \E a : HandsOver(p, f, a)
    BY DEF Request
  <1>2. Dealt
    BY <1>1, NothingDealt, HandsOverDealt
  <1>3. Heard
    BY NobodyHeard DEF Request
  <1>4. \/ /\ LoopMoves(p, "idle", "asking")
           /\ work' = [work EXCEPT ![p] = [fire |-> f, token |-> token'[f], as |-> claimer[p]]]
        \/ LoopMoves(p, "idle", "idle") /\ UNCHANGED work
    BY DEF Request
  <1>5. [fire |-> f, token |-> token'[f], as |-> claimer[p]] \in Claim
    BY <1>2 DEF Claim, TypeOK, Dealt
  <1> QED BY <1>2, <1>3, <1>4, <1>5 DEF Ask, LoopMoves, sessionVars

LEMMA ReportsShape ==
    ASSUME TypeOK, NEW p \in Process, NEW from, NEW again, NEW to, NEW status,
           Reports(p, from, again, to, status)
    PROVE  /\ Dealt /\ Heard /\ loop[p] = from /\ Telling(p, status)
           /\ loop' = [loop EXCEPT ![p] = again] \/ loop' = [loop EXCEPT ![p] = to]
           /\ attempt' \in [Process -> 1 .. MaxAttempts]
           /\ UNCHANGED <<mishaps, claimer, work, keeping, session, pid>>
  <1>1. Request(LAMBDA a : Takes(p, status, a),
                LAMBDA a : LoopMoves(p, from, to) /\ UNCHANGED attempt,
                IF TriesAgain(p)
                THEN LoopMoves(p, from, again) /\ attempt' = [attempt EXCEPT ![p] = @ + 1]
                ELSE LoopMoves(p, from, to) /\ UNCHANGED attempt)
    BY DEF Reports
  <1>2. UNCHANGED platformVars \/ \E a : Takes(p, status, a)
    BY <1>1 DEF Request
  <1>3. Dealt
    BY <1>2, NothingDealt, TakesDealt
  <1>4. Heard
    BY <1>1, NobodyHeard DEF Request
  <1>5. \/ LoopMoves(p, from, to) /\ UNCHANGED attempt
        \/ TriesAgain(p) /\ LoopMoves(p, from, again) /\ attempt' = [attempt EXCEPT ![p] = @ + 1]
    BY <1>1 DEF Request
  <1>6. attempt' \in [Process -> 1 .. MaxAttempts]
    <2>1. attempt \in [Process -> 1 .. MaxAttempts] /\ MaxAttempts \in Nat
      BY WorkAssumption DEF TypeOK
    <2>2. TriesAgain(p) => attempt[p] + 1 \in 1 .. MaxAttempts
      BY <2>1 DEF TriesAgain
    <2> QED BY <1>5, <2>1, <2>2
  <1> QED BY <1>3, <1>4, <1>5, <1>6 DEF Reports, LoopMoves, sessionVars

\* A step of a session that leaves its loop alone, or leaves it.
SessionShape(p, from, to) ==
    /\ Dealt /\ Heard /\ session[p] = from /\ session' = [session EXCEPT ![p] = to]
    /\ UNCHANGED <<mishaps, pid, loopVars>>
LeavesShape(p) == Dealt /\ Heard /\ Leaves(p) /\ UNCHANGED <<mishaps, pid>>
RestShape == Dealt /\ Heard /\ UNCHANGED <<mishaps, session, pid, loopVars>>

LEMMA AnnounceShape ==
    ASSUME TypeOK, NEW p \in Process, Announce(p)
    PROVE  \E to \in {"new", "announcing", "stopped"} : SessionShape(p, "new", to)
  <1>1. UNCHANGED platformVars \/ \E a : Registers(p, a)
    BY DEF Announce, Request
  <1>2. Dealt
    BY <1>1, NothingDealt, RegistersDealt
  <1>3. Heard
    BY NobodyHeard DEF Announce, Request
  <1>4. \E to \in {"new", "announcing", "stopped"} : SessionMoves(p, "new", to)
    BY DEF Announce, Request
  <1> QED BY <1>2, <1>3, <1>4 DEF Announce, SessionMoves, SessionShape

LEMMA ReAnnounceShape ==
    ASSUME TypeOK, NEW p \in Process, ReAnnounce(p)
    PROVE  SessionShape(p, "forgotten", "reannouncing") \/ LeavesShape(p) \/ RestShape
  <1>1. UNCHANGED platformVars \/ \E a : Registers(p, a)
    BY DEF ReAnnounce, Request
  <1>2. Dealt
    BY <1>1, NothingDealt, RegistersDealt
  <1>3. Heard
    BY NobodyHeard DEF ReAnnounce, Request
  <1>4. \/ SessionMoves(p, "forgotten", "reannouncing") /\ UNCHANGED loopVars
        \/ Leaves(p) \/ UNCHANGED <<session, loopVars>>
    BY DEF ReAnnounce, Request
  <1> QED BY <1>2, <1>3, <1>4 DEF ReAnnounce, SessionMoves, SessionShape, LeavesShape, RestShape

LEMMA BeatShape ==
    ASSUME TypeOK, NEW p \in Process, Beat(p)
    PROVE  SessionShape(p, "serving", "forgotten") \/ LeavesShape(p) \/ RestShape
  <1>1. UNCHANGED platformVars
    BY DEF Beat, Request, Recognises
  <1>2. Dealt
    BY <1>1, NothingDealt
  <1>3. Heard
    BY NobodyHeard DEF Beat, Request
  <1>4. \/ SessionMoves(p, "serving", "forgotten") /\ UNCHANGED loopVars
        \/ Leaves(p) \/ UNCHANGED <<session, loopVars>>
    BY DEF Beat, Request
  <1> QED BY <1>2, <1>3, <1>4 DEF Beat, SessionMoves, SessionShape, LeavesShape, RestShape

LEMMA DeleteShape ==
    ASSUME TypeOK, NEW p \in Process, Delete(p)
    PROVE  \E to \in {"deleting", "stopped"} : SessionShape(p, "deleting", to)
  <1>1. UNCHANGED platformVars \/ \E a : Removes(p, a)
    BY DEF Delete, Request
  <1>2. Dealt
    BY <1>1, NothingDealt, RemovesDealt
  <1>3. Heard
    BY NobodyHeard DEF Delete, Request
  <1>4. \E to \in {"deleting", "stopped"} : SessionMoves(p, "deleting", to)
    BY DEF Delete, Request
  <1> QED BY <1>2, <1>3, <1>4 DEF Delete, SessionMoves, SessionShape

-----------------------------------------------------------------------------
(* What was said.                                                          *)

Words == Verdict \cup {"claimed", "working"}

\* Appending to a record that no verdict has ended, or repeating its last word.
LEMMA OneMoreWord ==
    ASSUME NEW s \in Seq(Words), s # <<>>, NEW w \in Words, NEW t,
           \A i \in DOMAIN s : s[i] \in Verdict => i = Len(s),
           s[Len(s)] \notin Verdict \/ s[Len(s)] = w,
           t = IF s[Len(s)] = w THEN s ELSE Append(s, w)
    PROVE  /\ t \in Seq(Words) /\ t # <<>> /\ t[Len(t)] = w
           /\ \A i \in DOMAIN t : t[i] \in Verdict => i = Len(t)
  <1>1. CASE s[Len(s)] = w
    BY <1>1
  <1>2. CASE s[Len(s)] # w
    <2>1. t = Append(s, w) /\ t \in Seq(Words) /\ Len(t) = Len(s) + 1 /\ Len(s) \in Nat
      BY <1>2
    <2>2. t[Len(t)] = w /\ t # <<>>
      BY <2>1
    <2>3. ASSUME NEW i \in DOMAIN t, t[i] \in Verdict, i # Len(t) PROVE FALSE
      <3>1. i \in 1 .. Len(s)
        BY <2>1, <2>3
      <3>2. t[i] = s[i] /\ i \in DOMAIN s
        BY <2>1, <3>1
      <3>3. i = Len(s)
        BY <2>3, <3>2
      <3> QED BY <1>2, <2>3, <3>2, <3>3
    <2> QED BY <2>1, <2>2, <2>3
  <1> QED BY <1>1, <1>2

LEMMA Tells ==
    ASSUME TypeOK, NEW p \in Process, LoopInv(p), NEW status \in Words, Telling(p, status),
           told[p] # <<>>, Said(p) \notin Verdict \/ Said(p) = status
    PROVE  /\ told' \in [Process -> Seq(Words)] /\ told'[p] # <<>> /\ Said(p)' = status
           /\ \A i \in DOMAIN told'[p] : told'[p][i] \in Verdict => i = Len(told'[p])
           /\ \A q \in Process : q # p => told'[q] = told[q]
  <1> DEFINE t == IF told[p][Len(told[p])] = status THEN told[p] ELSE Append(told[p], status)
  <1>1. told \in [Process -> Seq(Words)]
    BY DEF TypeOK, Words
  <1>2. told' = [told EXCEPT ![p] = t]
    BY DEF Telling
  <1>3. \A i \in DOMAIN told[p] : told[p][i] \in Verdict => i = Len(told[p])
    BY DEF LoopInv
  <1>4. told[p][Len(told[p])] \notin Verdict \/ told[p][Len(told[p])] = status
    BY DEF Said
  <1>5. /\ t \in Seq(Words) /\ t # <<>> /\ t[Len(t)] = status
        /\ \A i \in DOMAIN t : t[i] \in Verdict => i = Len(t)
    BY <1>1, <1>3, <1>4, OneMoreWord
  <1> HIDE DEF t
  <1>6. told' \in [Process -> Seq(Words)] /\ told'[p] = t /\ \A q \in Process : q # p => told'[q] = told[q]
    BY <1>1, <1>2, <1>5
  <1> QED BY <1>5, <1>6 DEF Said

-----------------------------------------------------------------------------
(* The steps of one process.                                               *)

LEMMA SameProcess ==
    ASSUME NEW q, SessionInv(q), LoopInv(q), session'[q] = session[q], loop'[q] = loop[q],
           held'[q] = held[q], keeping'[q] = keeping[q], told'[q] = told[q]
    PROVE  SessionInv(q)' /\ LoopInv(q)'
  BY DEF SessionInv, LoopInv, Said

\* Nothing of a process changes but where its session is and, when it leaves,
\* its loop.
LEMMA Leaving ==
    ASSUME WorkInv, NEW p \in Process, Leaves(p), Dealt, lost' \in Nat, mishaps' \in Nat,
           lost' + mishaps' <= MaxMishaps, UNCHANGED pid
    PROVE  WorkInv'
  <1>1. TypeOK /\ Leaves(p) /\ SessionInv(p) /\ LoopInv(p) /\ session[p] \in Serving
    BY DEF WorkInv, Leaves
  <1>2. TypeOK'
    <2>1. session' \in [Process -> SessionPc]
      BY <1>1 DEF TypeOK, Leaves, SessionPc
    <2>2. loop' \in [Process -> LoopPc]
      <3>1. loop' = [loop EXCEPT ![p] = IF loop[p] \in {"off", "handing"} THEN loop[p]
                                       ELSE IF held[p] THEN "handing" ELSE "over"]
        BY <1>1 DEF TypeOK, Leaves, CancelsLoop
      <3> QED BY <1>1, <3>1 DEF TypeOK, LoopPc
    <2>3. attempt' \in [Process -> 1 .. MaxAttempts]
      <3>1. 1 \in 1 .. MaxAttempts
        BY WorkAssumption
      <3>2. attempt' = [attempt EXCEPT ![p] = 1] \/ attempt' = [attempt EXCEPT ![p] = attempt[p]]
        BY <1>1 DEF Leaves, CancelsLoop
      <3> QED BY <1>1, <3>1, <3>2 DEF TypeOK
    <2>4. held' \in [Process -> BOOLEAN] /\ keeping' \in [Process -> BOOLEAN]
      BY <1>1 DEF TypeOK, Leaves, CancelsLoop
    <2>5. UNCHANGED <<claimer, work, told>>
      BY <1>1 DEF Leaves, CancelsLoop
    <2> QED BY <1>1, <2>1, <2>2, <2>3, <2>4, <2>5 DEF TypeOK, Dealt
  <1>3. ASSUME NEW q \in Process, q # p PROVE SessionInv(q)' /\ LoopInv(q)'
    <2>1. /\ session'[q] = session[q] /\ loop'[q] = loop[q] /\ held'[q] = held[q]
          /\ keeping'[q] = keeping[q] /\ told'[q] = told[q]
      BY <1>1, <1>3 DEF TypeOK, Leaves, CancelsLoop
    <2> QED BY <1>3, <2>1, SameProcess DEF WorkInv
  <1>4. /\ session'[p] = "joining" /\ held'[p] = FALSE /\ keeping'[p] = FALSE /\ told' = told
        /\ loop'[p] = IF loop[p] \in {"off", "handing"} THEN loop[p]
                      ELSE IF held[p] THEN "handing" ELSE "over"
    BY <1>1 DEF TypeOK, Leaves, CancelsLoop
  <1>5. loop[p] # "dead" /\ loop[p] \in LoopPc
    BY <1>1 DEF SessionInv, Serving, TypeOK
  <1>6. SessionInv(p)'
    BY <1>4, <1>5 DEF SessionInv
  <1>7. LoopInv(p)'
    BY <1>1, <1>4, <1>5 DEF LoopInv, Said, LoopPc, Verdict
  <1> QED BY <1>2, <1>3, <1>6, <1>7 DEF WorkInv

LEMMA SessionMoving ==
    ASSUME WorkInv, NEW p \in Process, NEW to \in SessionPc \ {"dead"}, session[p] # "dead",
           session' = [session EXCEPT ![p] = to], UNCHANGED <<pid, loopVars>>,
           Dealt, lost' \in Nat, mishaps' \in Nat, lost' + mishaps' <= MaxMishaps,
           to \in {"new", "announcing"} => session[p] \in {"new", "announcing"},
           to \in {"deleting", "stopped"} => loop[p] \in {"off", "over"}
    PROVE  WorkInv'
  <1>1. TypeOK'
    BY DEF WorkInv, TypeOK, Dealt, loopVars
  <1>2. ASSUME NEW q \in Process PROVE SessionInv(q)' /\ LoopInv(q)'
    <2>1. /\ loop'[q] = loop[q] /\ held'[q] = held[q] /\ keeping'[q] = keeping[q] /\ told'[q] = told[q]
          /\ session'[q] = IF q = p THEN to ELSE session[q]
      BY DEF WorkInv, TypeOK, loopVars
    <2>2. CASE q # p
      BY <2>1, <2>2, SameProcess DEF WorkInv
    <2>3. CASE q = p
      BY <2>1, <2>3 DEF WorkInv, SessionInv, LoopInv, Said
    <2> QED BY <2>2, <2>3
  <1> QED BY <1>1, <1>2 DEF WorkInv

LEMMA RestInv ==
    ASSUME WorkInv, Dealt, lost' \in Nat, mishaps' \in Nat, lost' + mishaps' <= MaxMishaps,
           UNCHANGED <<session, pid, loopVars>>
    PROVE  WorkInv'
  <1>1. TypeOK'
    BY DEF WorkInv, TypeOK, Dealt, loopVars
  <1>2. ASSUME NEW q \in Process PROVE SessionInv(q)' /\ LoopInv(q)'
    BY SameProcess DEF WorkInv, loopVars
  <1> QED BY <1>1, <1>2 DEF WorkInv

\* A step of a loop: TypeOK apart, only the process itself is looked at.
LEMMA LoopStepInv ==
    ASSUME WorkInv, TypeOK', NEW p \in Process, UNCHANGED session, loop[p] # "dead", loop'[p] # "dead",
           \A q \in Process \ {p} : /\ loop'[q] = loop[q] /\ held'[q] = held[q]
                                    /\ keeping'[q] = keeping[q] /\ told'[q] = told[q],
           loop[p] \notin {"off", "over"},
           LoopInv(p)'
    PROVE  WorkInv'
  <1>1. ASSUME NEW q \in Process PROVE SessionInv(q)' /\ LoopInv(q)'
    <2>1. CASE q # p
      BY <2>1, SameProcess DEF WorkInv
    <2>2. CASE q = p
      BY <2>2 DEF WorkInv, SessionInv
    <2> QED BY <2>1, <2>2
  <1> QED BY <1>1 DEF WorkInv

LEMMA AskInv == ASSUME WorkInv, NEW p \in Process, Ask(p) PROVE WorkInv'
  <1>1. TypeOK /\ LoopInv(p)
    BY DEF WorkInv
  <1>2. /\ Dealt /\ Heard /\ loop[p] = "idle"
        /\ \/ loop' = [loop EXCEPT ![p] = "asking"] /\ \E c \in Claim : work' = [work EXCEPT ![p] = c]
           \/ loop' = [loop EXCEPT ![p] = "idle"] /\ UNCHANGED work
        /\ UNCHANGED <<mishaps, claimer, held, keeping, attempt, told, session, pid>>
    BY <1>1, AskShape
  <1>3. work' \in [Process -> Claim \cup {NoClaim}] /\ loop' \in [Process -> LoopPc]
    BY <1>1, <1>2 DEF TypeOK, LoopPc
  <1>4. TypeOK'
    BY <1>1, <1>2, <1>3 DEF TypeOK, Dealt, Heard
  <1>5. loop'[p] \in {"asking", "idle"} /\ \A q \in Process \ {p} : loop'[q] = loop[q]
    BY <1>1, <1>2 DEF TypeOK
  <1>6. LoopInv(p)'
    BY <1>1, <1>2, <1>5 DEF LoopInv, Said
  <1> QED BY <1>2, <1>4, <1>5, <1>6, LoopStepInv

LEMMA AskRefusedInv == ASSUME WorkInv, NEW p \in Process, AskRefused(p) PROVE WorkInv'
  <1>1. TypeOK /\ LoopInv(p)
    BY DEF WorkInv
  <1>2. /\ loop[p] = "idle" /\ loop' = [loop EXCEPT ![p] = "over"]
        /\ UNCHANGED <<claimer, work, held, keeping, attempt, told, platformVars, boundVars, session, pid>>
    BY DEF AskRefused, LoopMoves, sessionVars
  <1>3. TypeOK'
    BY <1>1, <1>2 DEF TypeOK, LoopPc, platformVars, boundVars
  <1>4. loop'[p] = "over" /\ \A q \in Process \ {p} : loop'[q] = loop[q]
    BY <1>1, <1>2 DEF TypeOK
  <1>5. LoopInv(p)'
    BY <1>1, <1>2, <1>4 DEF LoopInv, Said
  <1> QED BY <1>2, <1>3, <1>4, <1>5, LoopStepInv

LEMMA PerformInv == ASSUME WorkInv, NEW p \in Process, Perform(p) PROVE WorkInv'
  <1>1. TypeOK /\ LoopInv(p)
    BY DEF WorkInv
  <1>2. /\ loop[p] = "asking" /\ loop' = [loop EXCEPT ![p] = "running"]
        /\ held' = [held EXCEPT ![p] = TRUE] /\ keeping' = [keeping EXCEPT ![p] = TRUE]
        /\ attempt' = [attempt EXCEPT ![p] = 1] /\ told' = [told EXCEPT ![p] = <<"claimed">>]
        /\ UNCHANGED <<claimer, work, platformVars, boundVars, session, pid>>
    BY DEF Perform, LoopMoves, sessionVars
  <1>3. TypeOK'
    <2>1. told' \in [Process -> Seq(Verdict \cup {"claimed", "working"})]
      BY <1>1, <1>2 DEF TypeOK
    <2>2. attempt' \in [Process -> 1 .. MaxAttempts]
      BY <1>1, <1>2, WorkAssumption DEF TypeOK
    <2>3. loop' \in [Process -> LoopPc] /\ held' \in [Process -> BOOLEAN] /\ keeping' \in [Process -> BOOLEAN]
      BY <1>1, <1>2 DEF TypeOK, LoopPc
    <2> QED BY <1>1, <1>2, <2>1, <2>2, <2>3 DEF TypeOK, platformVars, boundVars
  <1>4. /\ loop'[p] = "running" /\ held'[p] /\ keeping'[p] /\ told'[p] = <<"claimed">>
        /\ \A q \in Process \ {p} : /\ loop'[q] = loop[q] /\ held'[q] = held[q]
                                     /\ keeping'[q] = keeping[q] /\ told'[q] = told[q]
    BY <1>1, <1>2 DEF TypeOK
  <1>5. LoopInv(p)'
    BY <1>4 DEF LoopInv, Said, Verdict
  <1> QED BY <1>2, <1>3, <1>4, <1>5, LoopStepInv

LEMMA RunnerEndsInv == ASSUME WorkInv, NEW p \in Process, RunnerEnds(p) PROVE WorkInv'
  <1>1. TypeOK /\ LoopInv(p)
    BY DEF WorkInv
  <1>2. /\ loop[p] = "running" /\ loop' = [loop EXCEPT ![p] = "unkeep"]
        /\ keeping' = [keeping EXCEPT ![p] = FALSE]
        /\ UNCHANGED <<claimer, work, held, attempt, told, platformVars, boundVars, session, pid>>
    BY DEF RunnerEnds, StopKeeping, LoopMoves, sessionVars
  <1>3. TypeOK'
    BY <1>1, <1>2 DEF TypeOK, LoopPc, platformVars, boundVars
  <1>4. /\ loop'[p] = "unkeep" /\ keeping'[p] = FALSE
        /\ \A q \in Process \ {p} : loop'[q] = loop[q] /\ keeping'[q] = keeping[q]
    BY <1>1, <1>2 DEF TypeOK
  <1>5. LoopInv(p)'
    BY <1>1, <1>2, <1>4 DEF LoopInv, Said
  <1> QED BY <1>2, <1>3, <1>4, <1>5, LoopStepInv

LEMMA KeepAliveInv == ASSUME WorkInv, NEW p \in Process, KeepAlive(p) PROVE WorkInv'
  <1>1. TypeOK /\ LoopInv(p) /\ loop[p] = "running" /\ told[p] # <<>> /\ Said(p) \notin Verdict
    BY DEF WorkInv, LoopInv, KeepAlive
  <1>2. /\ Telling(p, "working")
        /\ keeping' = keeping \/ keeping' = [keeping EXCEPT ![p] = FALSE]
        /\ UNCHANGED <<loop, claimer, work, held, attempt, platformVars, boundVars, session, pid>>
    BY DEF KeepAlive, sessionVars
  <1>3. /\ told' \in [Process -> Seq(Words)] /\ told'[p] # <<>> /\ Said(p)' = "working"
        /\ \A i \in DOMAIN told'[p] : told'[p][i] \in Verdict => i = Len(told'[p])
        /\ \A q \in Process : q # p => told'[q] = told[q]
    BY <1>1, <1>2, Tells DEF Words
  <1>4. keeping' \in [Process -> BOOLEAN] /\ \A q \in Process \ {p} : keeping'[q] = keeping[q]
    BY <1>1, <1>2 DEF TypeOK
  <1>5. TypeOK'
    BY <1>1, <1>2, <1>3, <1>4 DEF TypeOK, Words, platformVars, boundVars
  <1>6. LoopInv(p)'
    BY <1>1, <1>2, <1>3 DEF LoopInv, Verdict
  <1> QED BY <1>1, <1>2, <1>3, <1>4, <1>5, <1>6, LoopStepInv

LEMMA ReportInv == ASSUME WorkInv, NEW p \in Process, Report(p) PROVE WorkInv'
  <1> PICK from \in {"unkeep", "backoff"} : Reports(p, from, "backoff", "idle", "finished") /\ LetGo(p)
    BY DEF Report
  <1>1. TypeOK /\ LoopInv(p)
    BY DEF WorkInv
  <1>2. /\ Dealt /\ Heard /\ loop[p] = from /\ Telling(p, "finished")
        /\ loop' = [loop EXCEPT ![p] = "backoff"] \/ loop' = [loop EXCEPT ![p] = "idle"]
        /\ attempt' \in [Process -> 1 .. MaxAttempts]
        /\ UNCHANGED <<mishaps, claimer, work, keeping, session, pid>>
    BY <1>1, ReportsShape
  <1>3. told[p] # <<>> /\ (Said(p) \notin Verdict \/ Said(p) = "finished")
    BY <1>1, <1>2 DEF LoopInv
  <1>4. /\ told' \in [Process -> Seq(Words)] /\ told'[p] # <<>> /\ Said(p)' = "finished"
        /\ \A i \in DOMAIN told'[p] : told'[p][i] \in Verdict => i = Len(told'[p])
        /\ \A q \in Process : q # p => told'[q] = told[q]
    BY <1>1, <1>2, <1>3, Tells DEF Words, Verdict
  <1>5. held' \in [Process -> BOOLEAN] /\ loop' \in [Process -> LoopPc]
    BY <1>1, <1>2 DEF TypeOK, LetGo, LoopPc
  <1>6. /\ held'[p] = FALSE /\ loop'[p] \in {"backoff", "idle"}
        /\ \A q \in Process \ {p} : held'[q] = held[q] /\ loop'[q] = loop[q]
    BY <1>1, <1>2 DEF TypeOK, LetGo
  <1>7. TypeOK'
    BY <1>1, <1>2, <1>4, <1>5 DEF TypeOK, Dealt, Heard, Words
  <1>8. LoopInv(p)'
    BY <1>1, <1>2, <1>4, <1>6 DEF LoopInv, Verdict
  <1> QED BY <1>2, <1>4, <1>6, <1>7, <1>8, LoopStepInv

LEMMA HandBackInv == ASSUME WorkInv, NEW p \in Process, HandBack(p) PROVE WorkInv'
  <1>1. TypeOK /\ LoopInv(p) /\ held' = held
    BY DEF WorkInv, HandBack
  <1>2. /\ Dealt /\ Heard /\ loop[p] = "handing" /\ Telling(p, "abandoned")
        /\ loop' = [loop EXCEPT ![p] = "handing"] \/ loop' = [loop EXCEPT ![p] = "over"]
        /\ attempt' \in [Process -> 1 .. MaxAttempts]
        /\ UNCHANGED <<mishaps, claimer, work, keeping, session, pid>>
    BY <1>1, ReportsShape DEF HandBack
  <1>3. told[p] # <<>> /\ (Said(p) \notin Verdict \/ Said(p) = "abandoned")
    BY <1>1, <1>2 DEF LoopInv, Verdict
  <1>4. /\ told' \in [Process -> Seq(Words)] /\ told'[p] # <<>> /\ Said(p)' = "abandoned"
        /\ \A i \in DOMAIN told'[p] : told'[p][i] \in Verdict => i = Len(told'[p])
        /\ \A q \in Process : q # p => told'[q] = told[q]
    BY <1>1, <1>2, <1>3, Tells DEF Words, Verdict
  <1>5. loop' \in [Process -> LoopPc]
    BY <1>1, <1>2 DEF TypeOK, LoopPc
  <1>6. loop'[p] \in {"handing", "over"} /\ \A q \in Process \ {p} : loop'[q] = loop[q]
    BY <1>1, <1>2 DEF TypeOK
  <1>7. TypeOK'
    BY <1>1, <1>2, <1>4, <1>5 DEF TypeOK, Dealt, Heard, Words
  <1>8. LoopInv(p)'
    BY <1>1, <1>2, <1>4, <1>6 DEF LoopInv, Verdict
  <1> QED BY <1>1, <1>2, <1>4, <1>6, <1>7, <1>8, LoopStepInv

LEMMA AnnouncedInv == ASSUME WorkInv, NEW p \in Process, Announced(p) PROVE WorkInv'
  <1>1. TypeOK /\ SessionInv(p) /\ LoopInv(p)
    BY DEF WorkInv
  <1>2. /\ session[p] \in {"announcing", "reannouncing"} /\ session' = [session EXCEPT ![p] = "serving"]
        /\ pid' = [pid EXCEPT ![p] = issued[p]] /\ claimer' = [claimer EXCEPT ![p] = issued[p]]
        /\ loop' = [loop EXCEPT ![p] = IF loop[p] = "off" THEN "idle" ELSE loop[p]]
        /\ UNCHANGED <<work, held, keeping, attempt, told, platformVars, boundVars>>
    BY <1>1 DEF Announced, SessionMoves, Rebind, TypeOK
  <1>3. TypeOK'
    <2>1. session' \in [Process -> SessionPc] /\ pid' \in [Process -> Nat] /\ claimer' \in [Process -> Nat]
      BY <1>1, <1>2 DEF TypeOK, SessionPc, Serving
    <2>2. loop' \in [Process -> LoopPc]
      BY <1>1, <1>2 DEF TypeOK, LoopPc
    <2> QED BY <1>1, <1>2, <2>1, <2>2 DEF TypeOK, platformVars, boundVars
  <1>4. ASSUME NEW q \in Process, q # p PROVE SessionInv(q)' /\ LoopInv(q)'
    <2>1. session'[q] = session[q] /\ loop'[q] = loop[q]
      BY <1>1, <1>2, <1>4 DEF TypeOK
    <2> QED BY <1>2, <2>1, SameProcess DEF WorkInv
  <1>5. session'[p] = "serving" /\ loop'[p] = IF loop[p] = "off" THEN "idle" ELSE loop[p]
    BY <1>1, <1>2 DEF TypeOK
  <1>6. SessionInv(p)'
    BY <1>1, <1>2, <1>5 DEF SessionInv
  <1>7. LoopInv(p)'
    BY <1>1, <1>2, <1>5 DEF LoopInv, Said
  <1> QED BY <1>3, <1>4, <1>6, <1>7 DEF WorkInv

LEMMA CrashInv == ASSUME WorkInv, NEW p \in Process, Crash(p) PROVE WorkInv'
  <1>1. TypeOK /\ LoopInv(p)
    BY DEF WorkInv
  <1>2. /\ session' = [session EXCEPT ![p] = "dead"] /\ loop' = [loop EXCEPT ![p] = "dead"]
        /\ keeping' = [keeping EXCEPT ![p] = FALSE]
        /\ lost + mishaps < MaxMishaps /\ mishaps' = mishaps + 1
        /\ UNCHANGED <<lost, pid, claimer, work, held, attempt, told, platformVars>>
    BY DEF Crash, Mishap
  <1>3. TypeOK'
    <2>1. /\ session' \in [Process -> SessionPc] /\ loop' \in [Process -> LoopPc]
          /\ keeping' \in [Process -> BOOLEAN]
      BY <1>1, <1>2 DEF TypeOK, SessionPc, LoopPc
    <2>2. mishaps' \in Nat /\ lost' + mishaps' <= MaxMishaps
      BY <1>1, <1>2, WorkAssumption DEF TypeOK
    <2> QED BY <1>1, <1>2, <2>1, <2>2 DEF TypeOK, platformVars
  <1>4. ASSUME NEW q \in Process, q # p PROVE SessionInv(q)' /\ LoopInv(q)'
    <2>1. session'[q] = session[q] /\ loop'[q] = loop[q] /\ keeping'[q] = keeping[q]
      BY <1>1, <1>2, <1>4 DEF TypeOK
    <2> QED BY <1>2, <2>1, SameProcess DEF WorkInv
  <1>5. session'[p] = "dead" /\ loop'[p] = "dead" /\ keeping'[p] = FALSE
    BY <1>1, <1>2 DEF TypeOK
  <1>6. SessionInv(p)' /\ LoopInv(p)'
    BY <1>1, <1>2, <1>5 DEF SessionInv, LoopInv
  <1> QED BY <1>3, <1>4, <1>6 DEF WorkInv

LEMMA CancelInv == ASSUME WorkInv, NEW p \in Process, Cancel(p) PROVE WorkInv'
  <1>1. TypeOK /\ SessionInv(p) /\ LoopInv(p)
    BY DEF WorkInv
  <1>2. mishaps' \in Nat /\ lost' \in Nat /\ lost' + mishaps' <= MaxMishaps /\ Dealt /\ pid' = pid
    <2>1. UNCHANGED platformVars
      BY DEF Cancel
    <2>2. lost' = lost /\ lost + mishaps < MaxMishaps /\ mishaps' = mishaps + 1 /\ pid' = pid
      BY DEF Cancel, Mishap
    <2>3. lost \in Nat /\ mishaps \in Nat /\ MaxMishaps \in Nat
      BY <1>1, WorkAssumption DEF TypeOK
    <2>4. mishaps' \in Nat /\ lost' \in Nat /\ lost' + mishaps' <= MaxMishaps
      BY <2>2, <2>3
    <2> QED BY <1>1, <2>1, <2>2, <2>4, NothingDealt
  <1>3. CASE Leaves(p)
    BY <1>2, <1>3, Leaving
  <1>4. CASE (SessionMoves(p, "new", "stopped") \/ SessionMoves(p, "announcing", "stopped")) /\ UNCHANGED loopVars
    BY <1>1, <1>2, <1>4, SessionMoving DEF SessionMoves, SessionInv, SessionPc
  <1> QED BY <1>3, <1>4 DEF Cancel

LEMMA SessionStepInv == ASSUME WorkInv, NEW p \in Process, SessionStep(p) PROVE WorkInv'
  <1>1. TypeOK /\ SessionInv(p)
    BY DEF WorkInv
  <1>r. ASSUME Dealt, Heard, UNCHANGED <<mishaps, pid>>
        PROVE  Dealt /\ lost' \in Nat /\ mishaps' \in Nat /\ lost' + mishaps' <= MaxMishaps /\ UNCHANGED pid
    BY <1>1, <1>r DEF Heard, TypeOK
  <1>2. CASE Announce(p)
    <2> PICK to \in {"new", "announcing", "stopped"} : SessionShape(p, "new", to)
      BY <1>1, <1>2, AnnounceShape
    <2> QED BY <1>1, <1>r, SessionMoving DEF SessionShape, SessionInv, SessionPc
  <1>3. CASE ReAnnounce(p) \/ Beat(p)
    <2>1. \/ SessionShape(p, "forgotten", "reannouncing") \/ SessionShape(p, "serving", "forgotten")
          \/ LeavesShape(p) \/ RestShape
      BY <1>1, <1>3, ReAnnounceShape, BeatShape
    <2>2. CASE LeavesShape(p)
      BY <1>r, <2>2, Leaving DEF LeavesShape
    <2>3. CASE RestShape
      BY <1>r, <2>3, RestInv DEF RestShape
    <2>4. CASE SessionShape(p, "forgotten", "reannouncing") \/ SessionShape(p, "serving", "forgotten")
      BY <1>r, <2>4, SessionMoving DEF SessionShape, SessionPc, Serving
    <2> QED BY <2>1, <2>2, <2>3, <2>4
  <1>4. CASE Announced(p)
    BY <1>4, AnnouncedInv
  <1>q. ASSUME UNCHANGED <<pid, platformVars, boundVars>>
        PROVE  Dealt /\ lost' \in Nat /\ mishaps' \in Nat /\ lost' + mishaps' <= MaxMishaps /\ UNCHANGED pid
    BY <1>1, <1>q, NothingDealt DEF TypeOK, boundVars
  <1>5. CASE LoopRaised(p)
    BY <1>5, <1>q, Leaving DEF LoopRaised
  <1>6. CASE Join(p)
    BY <1>6, <1>q, SessionMoving DEF Join, SessionMoves, SessionPc
  <1>7. CASE Delete(p)
    <2> PICK to \in {"deleting", "stopped"} : SessionShape(p, "deleting", to)
      BY <1>1, <1>7, DeleteShape
    <2> QED BY <1>1, <1>r, SessionMoving DEF SessionShape, SessionInv, SessionPc
  <1> QED BY <1>2, <1>3, <1>4, <1>5, <1>6, <1>7 DEF SessionStep

-----------------------------------------------------------------------------
(* The theorems.                                                           *)

LEMMA WorkInit == Init => WorkInv
  <1> SUFFICES ASSUME Init PROVE WorkInv
    OBVIOUS
  <1>1. TypeOK
    <2>1. 1 \in 1 .. MaxAttempts /\ lost + mishaps <= MaxMishaps
      BY WorkAssumption DEF Init
    <2>2. <<>> \in Seq(Verdict \cup {"claimed", "working"})
      OBVIOUS
    <2>3. told \in [Process -> Seq(Verdict \cup {"claimed", "working"})]
      BY <2>2 DEF Init
    <2>4. /\ attempt \in [Process -> 1 .. MaxAttempts] /\ work \in [Process -> Claim \cup {NoClaim}]
          /\ session \in [Process -> SessionPc] /\ loop \in [Process -> LoopPc]
      BY <2>1 DEF Init, SessionPc, LoopPc
    <2> QED BY <2>1, <2>3, <2>4 DEF Init, TypeOK
  <1>2. ASSUME NEW p \in Process PROVE SessionInv(p) /\ LoopInv(p)
    BY DEF Init, SessionInv, LoopInv
  <1> QED BY <1>1, <1>2 DEF WorkInv

LEMMA WorkStep == WorkInv /\ [Next]_vars => WorkInv'
  <1> SUFFICES ASSUME WorkInv, [Next]_vars PROVE WorkInv'
    OBVIOUS
  <1>t. TypeOK
    BY DEF WorkInv
  <1>1. ASSUME NEW p \in Process, LoopStep(p) PROVE WorkInv'
    BY <1>1, AskInv, AskRefusedInv, PerformInv, RunnerEndsInv, ReportInv, HandBackInv DEF LoopStep
  <1>2. ASSUME NEW p \in Process, KeepAlive(p) \/ SessionStep(p) \/ Cancel(p) \/ Crash(p) PROVE WorkInv'
    BY <1>2, KeepAliveInv, SessionStepInv, CancelInv, CrashInv
  <1>3. ASSUME NEW p \in Process, Forget(p) PROVE WorkInv'
    <2>1. Dealt /\ UNCHANGED <<lost, session, pid, loopVars>>
      BY <1>3, <1>t DEF Forget, Dealt, TypeOK, sessionVars
    <2>2. mishaps' \in Nat /\ lost' \in Nat /\ lost' + mishaps' <= MaxMishaps
      BY <1>3, <1>t, WorkAssumption DEF Forget, Mishap, TypeOK
    <2> QED BY <2>1, <2>2, RestInv
  <1>4. ASSUME NEW f \in Fire, LeaseExpires(f) PROVE WorkInv'
    <2>1. Dealt /\ UNCHANGED <<lost, session, pid, loopVars>>
      BY <1>4, <1>t DEF LeaseExpires, Dealt, TypeOK, sessionVars
    <2>2. mishaps' = mishaps \/ (lost + mishaps < MaxMishaps /\ mishaps' = mishaps + 1)
      BY <1>4 DEF LeaseExpires, Mishap
    <2>3. mishaps' \in Nat /\ lost' \in Nat /\ lost' + mishaps' <= MaxMishaps
      BY <1>t, <2>1, <2>2, WorkAssumption DEF TypeOK
    <2> QED BY <2>1, <2>3, RestInv
  <1>5. CASE Revoke
    <2>1. Dealt /\ UNCHANGED <<lost, session, pid, loopVars>>
      BY <1>5, <1>t DEF Revoke, Dealt, TypeOK, sessionVars
    <2>2. mishaps' \in Nat /\ lost' \in Nat /\ lost' + mishaps' <= MaxMishaps
      BY <1>5, <1>t, WorkAssumption DEF Revoke, Mishap, TypeOK
    <2> QED BY <2>1, <2>2, RestInv
  <1>6. CASE UNCHANGED vars
    BY <1>6, <1>t, NothingDealt, RestInv DEF vars, boundVars, sessionVars, TypeOK
  <1> QED BY <1>1, <1>2, <1>3, <1>4, <1>5, <1>6 DEF Next

\* The inductive invariant: where each loop and session is, and what was said
\* of the claim, imply each other.
THEOREM WorkAlways == Spec => []WorkInv
  BY WorkInit, WorkStep, PTL DEF Spec

\* The state of platform, sessions and loops is well-formed.
THEOREM WorkTypeOK == Spec => []TypeOK
  <1>1. WorkInv => TypeOK
    BY DEF WorkInv
  <1> QED BY <1>1, WorkAlways, PTL

\* A claim that a loop took and left has been given one verdict, and nothing
\* was said of it afterwards.
THEOREM WorkOneVerdict == Spec => []OneVerdict
  <1>1. WorkInv => OneVerdict
    BY DEF WorkInv, LoopInv, OneVerdict, Said
  <1> QED BY <1>1, WorkAlways, PTL

\* The DELETE of a process comes after its loop has handed its claim back.
THEOREM WorkHandBackFirst == Spec => []HandBackBeforeDelete
  <1>1. WorkInv => HandBackBeforeDelete
    BY DEF WorkInv, SessionInv, HandBackBeforeDelete
  <1> QED BY <1>1, WorkAlways, PTL
=============================================================================
