---------------------------- MODULE ClientProofs -----------------------------
(***************************************************************************)
(* For any finite set of leases and any set of loops, the pool is used and *)
(* closed by its owning loop only, is never closed in use, and no waiter   *)
(* is left with a future that nobody resolves; and for any threads and any *)
(* number of processes, a request to an MCP server is owed its own answer. *)
(***************************************************************************)
EXTENDS PoolLease, McpClient, FiniteSetTheorems, TLAPS

-----------------------------------------------------------------------------
(* PoolLease                                                               *)

Users == {l \in Lease : Using(l)}

\* The counter is the number of leases between acquire and release.
UsersCounted == users = Cardinality(Users)

\* An owned pool has somebody who will give it up.
OwnerServed == loop # NoLoop => \E l \in Lease : Using(l) \/ Closer(l)

\* The closing flag is up exactly while a closer is at work, and the closer
\* holds the future that the waiters of this generation wait on.
ClosingKnown ==
    /\ closing <=> \E k \in Lease : Closer(k)
    /\ \A k \in Lease : Closer(k) => awaited[k] = idle

PoolInv ==
    /\ TypeOK
    /\ UsersCounted
    /\ OneLoop
    /\ OwnerServed
    /\ ClosingKnown
    /\ NeverClosedInUse
    /\ NoOrphanWaiter

-----------------------------------------------------------------------------
\* Removing the only user leaves none, removing one of several leaves one.
LEMMA UserRemoved ==
    ASSUME PoolInv, NEW l \in Lease, Using(l)
    PROVE  /\ users \in Nat \ {0}
           /\ users - 1 = Cardinality(Users \ {l})
           /\ users = 1 => \A k \in Lease : Using(k) => k = l
           /\ users # 1 => \E k \in Lease : k # l /\ Using(k)
<1>1. IsFiniteSet(Users)
  BY PoolAssumption, FS_Subset DEF Users
<1>2. l \in Users
  BY DEF Users
<1>3. /\ IsFiniteSet(Users \ {l})
      /\ Cardinality(Users \ {l}) = Cardinality(Users) - 1
  BY <1>1, <1>2, FS_RemoveElement
<1>4. Cardinality(Users \ {l}) \in Nat
  BY <1>3, FS_CardinalityType
<1>5. Cardinality(Users \ {l}) = 0 <=> Users \ {l} = {}
  BY <1>3, FS_EmptySet
<1>6. users = Cardinality(Users) /\ users \in Nat
  BY DEF PoolInv, UsersCounted, TypeOK
<1>7. users - 1 = Cardinality(Users \ {l})
  BY <1>3, <1>6
<1>8. users # 0
  BY <1>4, <1>6, <1>7
<1>9. users = 1 => \A k \in Lease : Using(k) => k = l
  BY <1>5, <1>7 DEF Users
<1>10. users # 1 => \E k \in Lease : k # l /\ Using(k)
  BY <1>5, <1>6, <1>7 DEF Users
<1> QED
  BY <1>6, <1>7, <1>8, <1>9, <1>10

\* A lease that starts to use the pool was not using it before.
LEMMA UserAdded ==
    ASSUME PoolInv, NEW l \in Lease, ~Using(l)
    PROVE  users + 1 = Cardinality(Users \cup {l})
<1>1. IsFiniteSet(Users) /\ l \notin Users
  BY PoolAssumption, FS_Subset DEF Users
<1>2. Cardinality(Users \cup {l}) = Cardinality(Users) + 1
  BY <1>1, FS_AddElement
<1> QED
  BY <1>2 DEF PoolInv, UsersCounted

\* A step that leaves every lease's use alone leaves the count alone.
LEMMA SameUsers ==
    ASSUME PoolInv, users' = users, \A l \in Lease : Using(l)' <=> Using(l)
    PROVE  UsersCounted'
<1>1. Users' = Users
  BY DEF Users
<1> QED
  BY <1>1 DEF PoolInv, UsersCounted
-----------------------------------------------------------------------------
THEOREM InitInv == Init => PoolInv
<1> SUFFICES ASSUME Init PROVE PoolInv
  OBVIOUS
<1>1. Users = {}
  BY DEF Users, Using, Init
<1>2. UsersCounted
  BY <1>1, FS_EmptySet DEF UsersCounted, Init
<1> QED
  BY <1>2, PoolAssumption
     DEF PoolInv, Init, TypeOK, Pc, OneLoop, OwnerServed, ClosingKnown,
         NeverClosedInUse, NoOrphanWaiter, Using, Closer, NoFuture

\* A lease that takes the pool, first or after others.
LEMMA AcquirePreservesInv ==
    ASSUME PoolInv, NEW l \in Lease, AcquireFirst(l) \/ AcquireShared(l)
    PROVE  PoolInv'
<1> USE DEF PoolInv
<1>1. /\ pc[l] = "acquiring" /\ ~Using(l) /\ ~Closer(l)
      /\ pc' = [pc EXCEPT ![l] = "entering"]
      /\ UNCHANGED <<home, closed, awaited, closing, resolved>>
      /\ users' = users + 1
      /\ loop' = home[l]
      /\ \/ loop = NoLoop /\ idle' = generation + 1 /\ generation' = generation + 1
         \/ loop = home[l] /\ ~closing /\ UNCHANGED <<idle, generation>>
      /\ UNCHANGED failed
  BY DEF AcquireFirst, AcquireShared, MayShare, Moves, Using, Closer
<1>2. /\ \A k \in Lease : Using(k)' <=> k = l \/ Using(k)
      /\ \A k \in Lease : Closer(k)' <=> Closer(k)
  BY <1>1 DEF Using, Closer, TypeOK
<1>3. \A k \in Lease : ~Closer(k)
  BY <1>1, PoolAssumption DEF OneLoop, ClosingKnown, TypeOK
<1>4. TypeOK'
  BY <1>1 DEF TypeOK, Pc
<1>5. UsersCounted'
  <2>1. Users' = Users \cup {l}
    BY <1>2 DEF Users
  <2> QED
    BY <1>1, <2>1, UserAdded DEF UsersCounted
<1>6. OneLoop' /\ OwnerServed'
  BY <1>1, <1>2, <1>3, PoolAssumption DEF OneLoop, OwnerServed, TypeOK
<1>7. ClosingKnown' /\ NeverClosedInUse'
  BY <1>1, <1>2, <1>3 DEF ClosingKnown, NeverClosedInUse
<1>8. NoOrphanWaiter'
  BY <1>1, <1>2, <1>3, PoolAssumption DEF NoOrphanWaiter, OneLoop, TypeOK
<1> QED
  BY <1>4, <1>5, <1>6, <1>7, <1>8

\* A lease that gives the pool back, as the last user or not.
LEMMA ReleasePreservesInv ==
    ASSUME PoolInv, NEW l \in Lease, UndoAcquire(l) \/ Close(l)
    PROVE  PoolInv'
<1> USE DEF PoolInv
<1>1. /\ Using(l) /\ pc[l] # "waiting"
      /\ users' = users - 1
      /\ UNCHANGED <<home, loop, failed, idle, generation, resolved>>
      /\ closed' \subseteq Lease
      /\ \/ /\ users = 1 /\ closing' = TRUE
            /\ pc' = [pc EXCEPT ![l] = "cleanup"]
            /\ awaited' = [awaited EXCEPT ![l] = idle]
         \/ /\ users # 1 /\ UNCHANGED <<closing, awaited>>
            /\ pc' = [pc EXCEPT ![l] = "unacquired"]
  BY DEF UndoAcquire, Close, Release, LastUser, Moves, Using, TypeOK
<1>2. \A k \in Lease : Using(k)' <=> k # l /\ Using(k)
  BY <1>1 DEF Using, TypeOK
<1>3. \A k \in Lease : ~Closer(k)
  BY <1>1 DEF NeverClosedInUse
<1>4. \A k \in Lease : Closer(k)' <=> k = l /\ users = 1
  BY <1>1, <1>3 DEF Closer, TypeOK
<1>5. /\ users \in Nat \ {0}
      /\ users - 1 = Cardinality(Users \ {l})
      /\ users = 1 => \A k \in Lease : Using(k) => k = l
      /\ users # 1 => \E k \in Lease : k # l /\ Using(k)
  BY <1>1, UserRemoved
<1>6. TypeOK'
  <2>1. users' \in Nat
    BY <1>1, <1>5
  <2>2. /\ pc' \in [Lease -> Pc] /\ awaited' \in [Lease -> Nat]
        /\ closing' \in BOOLEAN
    BY <1>1 DEF TypeOK, Pc
  <2> QED
    BY <1>1, <2>1, <2>2 DEF TypeOK
<1>7. UsersCounted'
  <2>1. Users' = Users \ {l}
    BY <1>2 DEF Users
  <2> QED
    BY <1>1, <1>5, <2>1 DEF UsersCounted
<1>8. OneLoop' /\ OwnerServed'
  BY <1>1, <1>2, <1>4, <1>5 DEF OneLoop, OwnerServed
<1>9. ClosingKnown' /\ NeverClosedInUse'
  BY <1>1, <1>2, <1>3, <1>4, <1>5 DEF ClosingKnown, NeverClosedInUse, TypeOK
<1>10. NoOrphanWaiter'
  <2> SUFFICES ASSUME NEW w \in Lease, pc[w]' = "waiting"
               PROVE  NoOrphanWaiter!(w)'
    BY DEF NoOrphanWaiter
  <2>1. w # l /\ pc[w] = "waiting" /\ awaited'[w] = awaited[w]
    BY <1>1 DEF TypeOK
  <2>2. \A k \in Lease : pc[k] = "resolve" =>
           pc'[k] = "resolve" /\ awaited'[k] = awaited[k]
    BY <1>1 DEF TypeOK, Using
  <2>3. \E k \in Lease : Using(k)' \/ Closer(k)'
    BY <1>2, <1>4, <1>5
  <2> QED
    BY <1>1, <2>1, <2>2, <2>3 DEF NoOrphanWaiter
<1> QED
  BY <1>6, <1>7, <1>8, <1>9, <1>10

\* The three steps of closing the pool.
LEMMA CleanupPreservesInv ==
    ASSUME PoolInv, NEW l \in Lease, Cleanup(l)
    PROVE  PoolInv'
<1> USE DEF PoolInv
<1>0. \A k \in Lease : Using(k)' <=> Using(k)
  BY DEF Cleanup, AcloseEnds, ResetPool, ResolveIdle, Moves, Using, TypeOK
<1>1. UsersCounted'
  BY <1>0, SameUsers DEF Cleanup, AcloseEnds, ResetPool, ResolveIdle, poolVars
<1>2. CASE AcloseEnds(l)
  <2>1. \A k \in Lease : Closer(k)' <=> Closer(k)
    BY <1>2 DEF AcloseEnds, Moves, Closer, TypeOK
  <2>2. TypeOK'
    BY <1>2 DEF AcloseEnds, Moves, TypeOK, Pc
  <2>3. OneLoop' /\ OwnerServed' /\ ClosingKnown' /\ NeverClosedInUse'
    BY <1>2, <1>0, <2>1 DEF AcloseEnds, Moves, OneLoop, OwnerServed, ClosingKnown,
                            NeverClosedInUse
  <2>4. NoOrphanWaiter'
    BY <1>2, <1>0, <2>1 DEF AcloseEnds, Moves, NoOrphanWaiter, TypeOK
  <2> QED
    BY <1>1, <2>2, <2>3, <2>4
<1>3. CASE ResetPool(l)
  <2>1. Closer(l) /\ \A k \in Lease : Closer(k) => k = l
    BY <1>3 DEF ResetPool, Moves, Closer, NeverClosedInUse
  <2>2. \A k \in Lease : ~Closer(k)' /\ ~Using(k)
    BY <1>3, <2>1 DEF ResetPool, Moves, Closer, NeverClosedInUse, TypeOK
  <2>3. TypeOK'
    BY <1>3 DEF ResetPool, Moves, TypeOK, Pc, NoFuture
  <2>4. OneLoop' /\ OwnerServed' /\ ClosingKnown' /\ NeverClosedInUse'
    BY <1>3, <1>0, <2>2 DEF ResetPool, OneLoop, OwnerServed, ClosingKnown,
                            NeverClosedInUse
  <2>5. NoOrphanWaiter'
    <3> SUFFICES ASSUME NEW w \in Lease, pc[w]' = "waiting"
                 PROVE  NoOrphanWaiter!(w)'
      BY DEF NoOrphanWaiter
    <3>1. w # l /\ pc[w] = "waiting" /\ UNCHANGED <<awaited, resolved>>
      BY <1>3 DEF ResetPool, Moves, TypeOK
    <3>2. pc'[l] = "resolve" /\ awaited[l] = idle
      BY <1>3, <2>1 DEF ResetPool, Moves, ClosingKnown, TypeOK
    <3>3. \A k \in Lease : pc[k] = "resolve" => pc'[k] = "resolve"
      BY <1>3 DEF ResetPool, Moves, TypeOK
    <3> QED
      BY <3>1, <3>2, <3>3 DEF NoOrphanWaiter
  <2> QED
    BY <1>1, <2>3, <2>4, <2>5
<1>4. CASE ResolveIdle(l)
  <2>1. \A k \in Lease : Closer(k)' <=> Closer(k)
    BY <1>4 DEF ResolveIdle, Moves, Closer, TypeOK
  <2>2. TypeOK'
    BY <1>4 DEF ResolveIdle, Moves, TypeOK, Pc, NoFuture, poolVars
  <2>3. OneLoop' /\ OwnerServed' /\ ClosingKnown' /\ NeverClosedInUse'
    BY <1>4, <1>0, <2>1 DEF ResolveIdle, Moves, OneLoop, OwnerServed, ClosingKnown,
                            NeverClosedInUse, poolVars, TypeOK, Closer
  <2>4. NoOrphanWaiter'
    <3> SUFFICES ASSUME NEW w \in Lease, pc[w]' = "waiting"
                 PROVE  NoOrphanWaiter!(w)'
      BY DEF NoOrphanWaiter
    <3>1. w # l /\ pc[w] = "waiting" /\ awaited'[w] = awaited[w]
      BY <1>4 DEF ResolveIdle, Moves, TypeOK
    <3>2. \A k \in Lease \ {l} : pc'[k] = pc[k] /\ awaited'[k] = awaited[k]
      BY <1>4 DEF ResolveIdle, Moves, TypeOK
    <3>3. resolved' = resolved \cup {awaited[l]} /\ idle' = idle
      BY <1>4 DEF ResolveIdle, poolVars
    <3> QED
      BY <1>0, <2>1, <3>1, <3>2, <3>3 DEF NoOrphanWaiter
  <2> QED
    BY <1>1, <2>2, <2>3, <2>4
<1> QED
  BY <1>2, <1>3, <1>4 DEF Cleanup

\* The steps that move a lease without touching the pool's state.
LEMMA QuietPreservesInv ==
    ASSUME PoolInv, NEW l \in Lease,
           \/ Request(l) \/ AcquireFails(l) \/ AcquireWaits(l) \/ WaiterWakes(l)
           \/ WaiterCancelled(l) \/ Enter(l) \/ CloseUnused(l)
    PROVE  PoolInv'
<1> USE DEF PoolInv
<1>1. /\ UNCHANGED <<home, loop, users, closing, failed, idle, generation, resolved>>
      /\ closed' \subseteq Lease
      /\ \E to \in Pc \ {"resolve", "cleanup", "reset"} : pc' = [pc EXCEPT ![l] = to]
      /\ \E f \in Nat : awaited' = [awaited EXCEPT ![l] = f] \/ awaited' = awaited
      /\ pc[l] # "resolve" /\ ~Closer(l)
  BY DEF Request, AcquireFails, AcquireWaits, WaiterWakes, WaiterCancelled, Enter,
         CloseUnused, Moves, poolVars, TypeOK, Pc, NoFuture, Closer
<1>2. \A k \in Lease : (Using(k)' <=> Using(k)) /\ (Closer(k)' <=> Closer(k))
  BY DEF Request, AcquireFails, AcquireWaits, WaiterWakes, WaiterCancelled, Enter,
         CloseUnused, Moves, TypeOK, Using, Closer
<1>3. TypeOK'
  BY <1>1 DEF TypeOK
<1>4. UsersCounted'
  BY <1>1, <1>2, SameUsers
<1>5. OneLoop' /\ OwnerServed' /\ NeverClosedInUse'
  BY <1>1, <1>2 DEF OneLoop, OwnerServed, NeverClosedInUse
<1>6. ClosingKnown'
  BY <1>1, <1>2 DEF ClosingKnown, TypeOK
<1>7. NoOrphanWaiter'
  <2> SUFFICES ASSUME NEW w \in Lease, pc[w]' = "waiting"
               PROVE  NoOrphanWaiter!(w)'
    BY DEF NoOrphanWaiter
  <2>1. \A k \in Lease : pc[k] = "resolve" =>
           pc'[k] = "resolve" /\ awaited'[k] = awaited[k]
    BY <1>1 DEF TypeOK
  <2>2. CASE w = l
    <3>1. AcquireWaits(l)
      BY <2>2 DEF Request, AcquireFails, AcquireWaits, WaiterWakes, WaiterCancelled,
                  Enter, CloseUnused, Moves, TypeOK
    <3>2. awaited'[l] = idle /\ loop # NoLoop
      BY <3>1 DEF AcquireWaits, TypeOK
    <3> QED
      BY <1>1, <1>2, <2>2, <3>2 DEF OwnerServed
  <2>3. CASE w # l
    <3>1. pc[w] = "waiting" /\ awaited'[w] = awaited[w]
      BY <1>1, <2>3 DEF TypeOK
    <3> QED
      BY <1>1, <1>2, <2>1, <3>1 DEF NoOrphanWaiter
  <2> QED
    BY <2>2, <2>3
<1> QED
  BY <1>3, <1>4, <1>5, <1>6, <1>7

THEOREM PoolInvariant == Spec => []PoolInv
<1>1. PoolInv /\ [Next]_vars => PoolInv'
  <2> SUFFICES ASSUME PoolInv, [Next]_vars PROVE PoolInv'
    OBVIOUS
  <2>1. CASE UNCHANGED vars
    <3>1. Users' = Users
      BY <2>1 DEF vars, Users, Using
    <3> QED
      BY <2>1, <3>1 DEF vars, poolVars, PoolInv, TypeOK, UsersCounted, OneLoop,
           OwnerServed, ClosingKnown, NeverClosedInUse, NoOrphanWaiter, Using, Closer
  <2>2. CASE Next
    <3>1. PICK l \in Lease :
            \/ Request(l) \/ Acquire(l) \/ WaiterWakes(l) \/ WaiterCancelled(l)
            \/ Enter(l) \/ UndoAcquire(l) \/ Close(l) \/ CloseUnused(l) \/ Cleanup(l)
      BY <2>2 DEF Next
    <3> QED
      BY <3>1, QuietPreservesInv, AcquirePreservesInv, ReleasePreservesInv,
         CleanupPreservesInv DEF Acquire
  <2> QED
    BY <2>1, <2>2
<1> QED
  BY <1>1, InitInv, PTL DEF Spec

\* Sockets stay on their loop: only the owning loop uses or closes the pool.
THEOREM PoolOneLoop == Spec => []OneLoop
<1>1. PoolInv => OneLoop
  BY DEF PoolInv
<1> QED
  BY <1>1, PoolInvariant, PTL

\* The pool is closed by its last user only.
THEOREM PoolNeverClosedInUse == Spec => []NeverClosedInUse
<1>1. PoolInv => NeverClosedInUse
  BY DEF PoolInv
<1> QED
  BY <1>1, PoolInvariant, PTL

\* Every waiter's future will be resolved by somebody.
THEOREM PoolNoOrphanWaiter == Spec => []NoOrphanWaiter
<1>1. PoolInv => NoOrphanWaiter
  BY DEF PoolInv
<1> QED
  BY <1>1, PoolInvariant, PTL

\* The state of the pool and of its leases is well-formed.
THEOREM PoolTypeOK == Spec => []TypeOK
<1>1. PoolInv => TypeOK
  BY DEF PoolInv
<1> QED
  BY <1>1, PoolInvariant, PTL

-----------------------------------------------------------------------------
(* McpClient                                                               *)

Runtime == [alive : BOOLEAN, requestId : Nat, initialized : BOOLEAN,
            lock : Threads \cup {Free}, asked : SUBSET Nat,
            responses : Seq(Nat), drained : BOOLEAN]

\* A request under way holds the lock of its own process, and a lock is held by
\* a request under way.
LocksHeld ==
    /\ \A c \in Threads : toolCalls[c].at \in Waits => process[toolCalls[c].of].lock = c
    /\ \A p \in DOMAIN process : \A c \in Threads : process[p].lock = c =>
          toolCalls[c].at \in Waits /\ toolCalls[c].of = p

\* A thread that has left the server object has a runtime; its stdout ends with
\* the process.
Started == \A c \in Threads : toolCalls[c].at \notin {"new", "spawning"} => toolCalls[c].of # 0
EndsOnce == \A p \in DOMAIN process : process[p].drained => ~process[p].alive

McpInv == McpTypeOK /\ LocksHeld /\ Started /\ EndsOnce /\ OwedAnAnswer

\* What a thread with request id is owed by the runtime p.
Owed(p, id) ==
    \/ id \in p.asked \cup Range(p.responses)
    \/ ~p.alive /\ (~p.drained \/ Closed \in Range(p.responses))

LEMMA InitMcp == McpInit => McpInv
<1> SUFFICES ASSUME McpInit PROVE McpInv
  OBVIOUS
<1>1. process = <<>> /\ DOMAIN process = {} /\ Len(process) = 0 /\ process \in Seq(Runtime)
  BY DEF McpInit
<1>2. MaxProcesses \in Nat
  BY McpAssumption
<1>3. /\ toolCalls \in [Threads -> [at : CallStates, of : 0 .. 0, id : Nat, got : Nat]]
      /\ \A c \in Threads : toolCalls[c].at = "new"
  <2>1. Len(process) = 0
    BY <1>1
  <2> QED
    BY <2>1 DEF McpInit, CallStates
<1>4. McpTypeOK
  <2>1. runtime \in 0 .. Len(process) /\ Len(process) <= MaxProcesses
    BY <1>1, <1>2 DEF McpInit
  <2>2. toolCalls \in [Threads -> [at : CallStates, of : 0 .. Len(process), id : Nat, got : Nat]]
    BY <1>1, <1>3
  <2> QED
    BY <1>1, <1>3, <2>1, <2>2 DEF McpTypeOK, Runtime, Waits
<1> QED
  BY <1>1, <1>3, <1>4 DEF McpInv, LocksHeld, Started, EndsOnce, OwedAnAnswer, Waits

LEMMA HasRuntime ==
    ASSUME McpInv
    PROVE  /\ process \in Seq(Runtime) /\ Len(process) \in Nat
           /\ DOMAIN process = 1 .. Len(process)
           /\ \A p \in DOMAIN process : process[p] \in Runtime
           /\ \A c \in Threads :
                 /\ toolCalls[c] \in [at : CallStates, of : 0 .. Len(process), id : Nat, got : Nat]
                 /\ toolCalls[c].at \notin {"new", "spawning"} => toolCalls[c].of \in DOMAIN process
                 /\ toolCalls[c].at \in Waits => toolCalls[c].of \in DOMAIN process
<1>1. /\ process \in Seq(Runtime) /\ Len(process) \in Nat
      /\ DOMAIN process = 1 .. Len(process)
      /\ \A p \in DOMAIN process : process[p] \in Runtime
  <2>1. process \in Seq(Runtime)
    BY DEF McpInv, McpTypeOK, Runtime
  <2> QED
    BY <2>1
<1>2. ASSUME NEW c \in Threads
      PROVE  /\ toolCalls[c] \in [at : CallStates, of : 0 .. Len(process), id : Nat, got : Nat]
             /\ toolCalls[c].at \notin {"new", "spawning"} => toolCalls[c].of \in DOMAIN process
  <2>1. toolCalls[c] \in [at : CallStates, of : 0 .. Len(process), id : Nat, got : Nat]
    BY DEF McpInv, McpTypeOK
  <2>2. toolCalls[c].of \in 0 .. Len(process)
    BY <2>1
  <2> QED
    BY <1>1, <2>1, <2>2 DEF McpInv, Started
<1>3. \A c \in Threads : toolCalls[c].at \in Waits => toolCalls[c].at \notin {"new", "spawning"}
  BY DEF Waits
<1> QED
  BY <1>1, <1>2, <1>3

\* A step that rewrites one runtime, and one that moves one thread.
OnlyProcess(p) ==
    /\ process' \in Seq(Runtime) /\ Len(process') = Len(process)
    /\ \A q \in DOMAIN process \ {p} : process'[q] = process[q]

OnlyThread(c) ==
    /\ toolCalls' = [d \in Threads |-> toolCalls'[d]]
    /\ \A d \in Threads \ {c} : toolCalls'[d] = toolCalls[d]
    /\ toolCalls'[c] \in [at : CallStates \ {"new", "spawning"}, of : {toolCalls[c].of}, id : Nat, got : Nat]

\* A step of the child process, of its reader, or of a thread, that moves no
\* lock and takes from nobody what he is owed.
LEMMA RuntimeStep ==
    ASSUME McpInv, NEW p \in DOMAIN process, OnlyProcess(p), UNCHANGED <<runtime, toolCalls>>,
           process'[p].lock = process[p].lock, process'[p].drained => ~process'[p].alive,
           \A id \in Nat : Owed(process[p], id) => Owed(process'[p], id)
    PROVE  McpInv'
<1> USE DEF McpInv
<1>1. /\ process \in Seq(Runtime) /\ process' \in Seq(Runtime)
      /\ DOMAIN process' = DOMAIN process /\ Len(process') = Len(process)
      /\ \A q \in DOMAIN process \ {p} : process'[q] = process[q]
  BY HasRuntime DEF OnlyProcess
<1>2. /\ \A q \in DOMAIN process : process'[q].lock = process[q].lock
      /\ DOMAIN process = 1 .. Len(process)
  BY <1>1
<1>3. McpTypeOK'
  <2>1. /\ runtime' \in 0 .. Len(process') /\ Len(process') <= MaxProcesses
        /\ toolCalls' \in [Threads -> [at : CallStates, of : 0 .. Len(process'), id : Nat, got : Nat]]
    BY <1>1 DEF McpTypeOK
  <2>2. ASSUME NEW c \in Threads
        PROVE  toolCalls'[c].at \in Waits <=> \E q \in DOMAIN process' : process'[q].lock = c
    BY <1>1, <1>2 DEF McpTypeOK
  <2> QED
    BY <1>1, <2>1, <2>2 DEF McpTypeOK, Runtime
<1>4. Started' /\ EndsOnce'
  <2>1. \A q \in DOMAIN process' : process'[q].drained => ~process'[q].alive
    BY <1>1 DEF EndsOnce
  <2>2. Started'
    BY DEF Started
  <2> QED
    BY <2>1, <2>2 DEF EndsOnce
<1>5. \A c \in Threads : toolCalls[c].at \in Waits => toolCalls[c].of \in DOMAIN process
  BY HasRuntime
<1>6. LocksHeld'
  BY <1>1, <1>2, <1>5 DEF LocksHeld
<1>7. OwedAnAnswer'
  <2> SUFFICES ASSUME NEW c \in Threads
               PROVE  /\ toolCalls[c].at = "returned" => toolCalls[c].got = toolCalls[c].id
                      /\ toolCalls[c].at \in Waits => Owed(process'[toolCalls[c].of], toolCalls[c].id)
    BY DEF OwedAnAnswer, Owed
  <2>1. toolCalls[c].at \in Waits => Owed(process[toolCalls[c].of], toolCalls[c].id)
    BY DEF OwedAnAnswer, Owed
  <2>2. toolCalls[c].id \in Nat
    BY HasRuntime
  <2> QED
    BY <1>1, <1>5, <2>1, <2>2 DEF OwedAnAnswer
<1> QED
  BY <1>3, <1>4, <1>6, <1>7

\* A thread takes or leaves the lock of its runtime, with a request under way
\* or without one.
LEMMA ThreadStep ==
    ASSUME McpInv, NEW c \in Threads, NEW p \in DOMAIN process, toolCalls[c].of = p,
           OnlyProcess(p), OnlyThread(c), UNCHANGED runtime,
           \/ {process[p].lock, process'[p].lock} \subseteq {Free, c}
           \/ /\ process'[p].lock = process[p].lock
              /\ \A id \in Nat : Owed(process[p], id) => Owed(process'[p], id),
           process'[p].drained => ~process'[p].alive,
           toolCalls'[c].at \in Waits <=> process'[p].lock = c,
           toolCalls'[c].at = "returned" => toolCalls'[c].got = toolCalls'[c].id,
           toolCalls'[c].at \in Waits => Owed(process'[p], toolCalls'[c].id)
    PROVE  McpInv'
<1> USE DEF McpInv
<1> DEFINE call == toolCalls'[c]
           new == process'[p]
<1>0. Free \notin Threads
  BY McpAssumption DEF Free
<1>1. /\ process \in Seq(Runtime) /\ process' \in Seq(Runtime)
      /\ DOMAIN process' = DOMAIN process /\ Len(process') = Len(process)
      /\ DOMAIN process = 1 .. Len(process)
      /\ process'[p] = new /\ \A q \in DOMAIN process \ {p} : process'[q] = process[q]
  BY HasRuntime DEF OnlyProcess
<1>2. /\ toolCalls'[c] = call /\ \A d \in Threads \ {c} : toolCalls'[d] = toolCalls[d]
      /\ toolCalls' \in [Threads -> [at : CallStates, of : 0 .. Len(process'), id : Nat, got : Nat]]
  <2>1. toolCalls'[c].of \in 0 .. Len(process')
    BY <1>1 DEF OnlyThread
  <2>2. toolCalls'[c] \in [at : CallStates, of : 0 .. Len(process'), id : Nat, got : Nat]
    BY <2>1 DEF OnlyThread
  <2>3. DOMAIN toolCalls' = Threads /\ toolCalls' = [d \in Threads |-> toolCalls'[d]]
    BY DEF OnlyThread, McpTypeOK
  <2> QED
    BY <1>1, <2>2, <2>3, HasRuntime DEF OnlyThread
<1>3. call.of = p /\ call.at \notin {"new", "spawning"} /\ p # 0
  BY <1>1 DEF OnlyThread
<1>4. LocksHeld'
  <2>1. ASSUME NEW d \in Threads, toolCalls'[d].at \in Waits
        PROVE  process'[toolCalls'[d].of].lock = d
    <3>1. CASE d = c
      BY <1>1, <1>2, <1>3, <2>1, <3>1
    <3>2. CASE d # c
      <4>1. process[toolCalls[d].of].lock = d /\ toolCalls[d].of \in DOMAIN process
        BY <1>2, <2>1, <3>2, HasRuntime DEF LocksHeld
      <4>2. process'[toolCalls[d].of].lock = d
        BY <1>0, <1>1, <3>2, <4>1
      <4> QED
        BY <1>2, <3>2, <4>2
    <3> QED
      BY <3>1, <3>2
  <2>2. ASSUME NEW q \in DOMAIN process', NEW d \in Threads, process'[q].lock = d
        PROVE  toolCalls'[d].at \in Waits /\ toolCalls'[d].of = q
    <3>1. CASE q = p /\ d = c
      BY <1>1, <1>2, <1>3, <2>2, <3>1
    <3>2. CASE q # p \/ d # c
      <4>1. process[q].lock = d
        BY <1>0, <1>1, <2>2, <3>2
      <4>2. toolCalls[d].at \in Waits /\ toolCalls[d].of = q
        BY <1>1, <4>1 DEF LocksHeld
      <4>3. d # c
        BY <3>2, <4>2
      <4> QED
        BY <1>2, <4>2, <4>3
    <3> QED
      BY <3>1, <3>2
  <2> QED
    BY <2>1, <2>2 DEF LocksHeld
<1>5. Started' /\ EndsOnce'
  <2>1. \A q \in DOMAIN process' : process'[q].drained => ~process'[q].alive
    BY <1>1 DEF EndsOnce
  <2>2. Started'
    BY <1>2, <1>3 DEF Started
  <2> QED
    BY <2>1, <2>2 DEF EndsOnce
<1>6. McpTypeOK'
  <2>1. runtime' \in 0 .. Len(process') /\ Len(process') <= MaxProcesses
    BY <1>1 DEF McpTypeOK
  <2>2. ASSUME NEW d \in Threads
        PROVE  toolCalls'[d].at \in Waits <=> \E q \in DOMAIN process' : process'[q].lock = d
    <3>1. toolCalls'[d].at \in Waits => toolCalls'[d].of \in DOMAIN process'
      BY <1>1, <1>2, <1>3, HasRuntime
    <3> QED
      BY <1>4, <3>1 DEF LocksHeld
  <2> QED
    BY <1>1, <1>2, <2>1, <2>2 DEF McpTypeOK, Runtime
<1>7. OwedAnAnswer'
  <2> SUFFICES ASSUME NEW d \in Threads
               PROVE  /\ toolCalls'[d].at = "returned" => toolCalls'[d].got = toolCalls'[d].id
                      /\ toolCalls'[d].at \in Waits => Owed(process'[toolCalls'[d].of], toolCalls'[d].id)
    BY DEF OwedAnAnswer, Owed
  <2>1. CASE d = c
    BY <1>1, <1>2, <1>3, <2>1
  <2>2. CASE d # c
    <3>1. toolCalls[d].at \in Waits => /\ toolCalls[d].of \in DOMAIN process
                                       /\ process[toolCalls[d].of].lock = d
      BY HasRuntime DEF LocksHeld
    <3>2. toolCalls[d].id \in Nat
      BY HasRuntime
    <3>3. ASSUME toolCalls[d].at \in Waits, Owed(process[toolCalls[d].of], toolCalls[d].id)
          PROVE  Owed(process'[toolCalls[d].of], toolCalls[d].id)
      BY <1>0, <1>1, <2>2, <3>1, <3>2, <3>3
    <3>4. /\ toolCalls[d].at = "returned" => toolCalls[d].got = toolCalls[d].id
          /\ toolCalls[d].at \in Waits => Owed(process[toolCalls[d].of], toolCalls[d].id)
      BY DEF OwedAnAnswer, Owed
    <3> QED
      BY <1>2, <2>2, <3>3, <3>4
  <2> QED
    BY <2>1, <2>2
<1> QED
  BY <1>4, <1>5, <1>6, <1>7
\* The runtime that a thread finds or makes.
LEMMA JoinsRuntime ==
    ASSUME McpInv, NEW c \in Threads, GetRuntime(c) \/ Spawns(c)
    PROVE  McpInv'
<1> USE DEF McpInv
<1>0. Free \notin Threads
  BY McpAssumption DEF Free
<1> DEFINE born == [alive |-> TRUE, requestId |-> 0, initialized |-> FALSE, lock |-> Free,
                    asked |-> {}, responses |-> <<>>, drained |-> FALSE]
<1>1. PICK to \in {"spawning", "starting"}, of \in 0 .. Len(process') :
        /\ toolCalls' = [toolCalls EXCEPT ![c].at = to, ![c].of = of]
        /\ to = "starting" => of # 0
        /\ process' = process \/ process' = Append(process, born)
        /\ runtime' \in 0 .. Len(process') /\ Len(process') <= MaxProcesses
        /\ toolCalls[c].at \in {"new", "spawning"}
  <2>1. CASE GetRuntime(c) /\ runtime = 0
    <3>1. toolCalls' = [toolCalls EXCEPT ![c].at = "spawning", ![c].of = toolCalls[c].of]
      BY <2>1, HasRuntime DEF GetRuntime, McpTypeOK
    <3>2. toolCalls[c].of \in 0 .. Len(process')
      BY <2>1, HasRuntime DEF GetRuntime
    <3> QED
      BY <2>1, <3>1, <3>2 DEF GetRuntime, McpTypeOK
  <2>2. CASE GetRuntime(c) /\ runtime # 0
    BY <2>2 DEF GetRuntime, McpTypeOK
  <2>3. CASE Spawns(c)
    <3>1. born \in Runtime
      BY DEF Runtime
    <3>2. Len(process') = Len(process) + 1
      BY <2>3, <3>1, HasRuntime DEF Spawns
    <3> QED
      <4>1. Len(process') \in 0 .. Len(process') /\ Len(process') # 0 /\ Len(process') <= MaxProcesses
        BY <2>3, <3>2, HasRuntime, McpAssumption DEF Spawns
      <4> QED
        BY <2>3, <4>1 DEF Spawns
  <2> QED
    BY <2>1, <2>2, <2>3
<1>2. /\ process' \in Seq(Runtime) /\ DOMAIN process' = 1 .. Len(process')
      /\ Len(process') >= Len(process)
      /\ \A q \in DOMAIN process : q \in DOMAIN process' /\ process'[q] = process[q]
      /\ \A q \in DOMAIN process' \ DOMAIN process : process'[q] = born
  <2>1. born \in Runtime /\ process \in Seq(Runtime)
    BY HasRuntime DEF Runtime
  <2> HIDE DEF born
  <2>2. CASE process' = process
    BY <2>1, <2>2
  <2>3. CASE process' = Append(process, born)
    BY <2>1, <2>3
  <2> QED
    BY <1>1, <2>2, <2>3
<1>3. /\ toolCalls'[c].at = to /\ toolCalls'[c].of = of
      /\ \A d \in Threads \ {c} : toolCalls'[d] = toolCalls[d]
      /\ toolCalls' \in [Threads -> [at : CallStates, of : 0 .. Len(process'), id : Nat, got : Nat]]
      /\ toolCalls'[c].at \notin Waits \cup {"returned"} /\ toolCalls[c].at \notin Waits
  <2>1. toolCalls[c] \in [at : CallStates, of : 0 .. Len(process), id : Nat, got : Nat]
    BY HasRuntime
  <2>2. toolCalls'[c].at = to /\ toolCalls'[c].of = of
        /\ \A d \in Threads \ {c} : toolCalls'[d] = toolCalls[d]
    BY <1>1, <2>1 DEF McpTypeOK
  <2>3. toolCalls'[c] \in [at : CallStates, of : 0 .. Len(process'), id : Nat, got : Nat]
    BY <1>1, <2>1 DEF McpTypeOK, CallStates
  <2>4. ASSUME NEW d \in Threads \ {c}
        PROVE  toolCalls'[d] \in [at : CallStates, of : 0 .. Len(process'), id : Nat, got : Nat]
    <3>1. toolCalls[d] \in [at : CallStates, of : 0 .. Len(process), id : Nat, got : Nat]
      BY HasRuntime
    <3>2. \A n \in 0 .. Len(process) : n \in 0 .. Len(process')
      BY <1>2, HasRuntime
    <3> QED
      BY <2>2, <3>1, <3>2
  <2>5. toolCalls' = [d \in Threads |-> toolCalls'[d]]
    BY <1>1 DEF McpTypeOK
  <2>6. to \notin Waits \cup {"returned"} /\ toolCalls[c].at \notin Waits
    BY <1>1 DEF Waits
  <2> QED
    BY <2>2, <2>3, <2>4, <2>5, <2>6
<1>4. Started' /\ EndsOnce'
  <2>1. ASSUME NEW q \in DOMAIN process' PROVE process'[q].drained => ~process'[q].alive
    BY <1>2, <2>1 DEF EndsOnce
  <2>2. Started'
    BY <1>1, <1>3 DEF Started
  <2> QED
    BY <2>1, <2>2 DEF EndsOnce
<1>5. LocksHeld'
  <2>1. ASSUME NEW d \in Threads, toolCalls'[d].at \in Waits
        PROVE  process'[toolCalls'[d].of].lock = d
    BY <1>2, <1>3, <2>1, HasRuntime DEF LocksHeld
  <2>2. ASSUME NEW q \in DOMAIN process', NEW d \in Threads, process'[q].lock = d
        PROVE  toolCalls'[d].at \in Waits /\ toolCalls'[d].of = q
    <3>1. q \in DOMAIN process /\ process[q].lock = d
      BY <1>0, <1>2, <2>2
    <3> QED
      BY <1>3, <3>1 DEF LocksHeld
  <2> QED
    BY <2>1, <2>2 DEF LocksHeld
<1>6. McpTypeOK'
  <2>1. ASSUME NEW d \in Threads
        PROVE  toolCalls'[d].at \in Waits <=> \E q \in DOMAIN process' : process'[q].lock = d
    <3>1. toolCalls'[d].at \in Waits => toolCalls'[d].of \in DOMAIN process'
      BY <1>2, <1>3, HasRuntime
    <3> QED
      BY <1>5, <3>1 DEF LocksHeld
  <2> QED
    BY <1>1, <1>2, <1>3, <2>1 DEF McpTypeOK, Runtime
<1>7. OwedAnAnswer'
  <2> SUFFICES ASSUME NEW d \in Threads
               PROVE  /\ toolCalls'[d].at = "returned" => toolCalls'[d].got = toolCalls'[d].id
                      /\ toolCalls'[d].at \in Waits => Owed(process'[toolCalls'[d].of], toolCalls'[d].id)
    BY DEF OwedAnAnswer, Owed
  <2>1. /\ toolCalls[d].at = "returned" => toolCalls[d].got = toolCalls[d].id
        /\ toolCalls[d].at \in Waits => Owed(process[toolCalls[d].of], toolCalls[d].id)
    BY DEF OwedAnAnswer, Owed
  <2> QED
    BY <1>2, <1>3, <2>1, HasRuntime
<1> QED
  BY <1>4, <1>5, <1>6, <1>7

\* What the queue of a reader holds when a line comes or goes.
LEMMA LineComes ==
    ASSUME NEW s \in Seq(Nat), NEW x \in Nat
    PROVE  Append(s, x) \in Seq(Nat) /\ Range(Append(s, x)) = Range(s) \cup {x}
<1>1. /\ Append(s, x) \in Seq(Nat) /\ DOMAIN Append(s, x) = 1 .. Len(s) + 1 /\ DOMAIN s = 1 .. Len(s)
      /\ Append(s, x)[Len(s) + 1] = x /\ \A i \in 1 .. Len(s) : Append(s, x)[i] = s[i]
  OBVIOUS
<1>2. Range(Append(s, x)) \subseteq Range(s) \cup {x}
  BY <1>1 DEF Range
<1>3. Range(s) \cup {x} \subseteq Range(Append(s, x))
  BY <1>1 DEF Range
<1> QED
  BY <1>1, <1>2, <1>3

LEMMA LineGoes ==
    ASSUME NEW s \in Seq(Nat), s # <<>>
    PROVE  /\ Head(s) \in Nat /\ Tail(s) \in Seq(Nat)
           /\ Range(s) = {Head(s)} \cup Range(Tail(s))
<1>1. /\ Head(s) \in Nat /\ Head(s) = s[1] /\ Tail(s) \in Seq(Nat) /\ Len(s) >= 1
      /\ DOMAIN Tail(s) = 1 .. Len(s) - 1 /\ DOMAIN s = 1 .. Len(s)
      /\ \A i \in 1 .. Len(s) - 1 : Tail(s)[i] = s[i + 1]
  OBVIOUS
<1>2. Range(Tail(s)) \subseteq Range(s)
  BY <1>1 DEF Range
<1>3. ASSUME NEW x \in Range(s), x # Head(s) PROVE x \in Range(Tail(s))
  <2>1. PICK i \in 1 .. Len(s) : x = s[i]
    BY <1>1 DEF Range
  <2>2. i - 1 \in 1 .. Len(s) - 1 /\ i = (i - 1) + 1
    BY <1>1, <1>3, <2>1
  <2>3. Tail(s)[i - 1] = x
    BY <1>1, <2>1, <2>2
  <2> QED
    BY <1>1, <2>2, <2>3 DEF Range
<1>4. Head(s) \in Range(s)
  BY <1>1 DEF Range
<1> QED
  BY <1>1, <1>2, <1>3, <1>4

\* A child process and its reader take nothing from anybody: an answer goes
\* from the server to the queue, and the end is read after it.
LEMMA ProcessMoves ==
    ASSUME McpInv, NEW p \in DOMAIN process,
           ProcessEnds(p) \/ ReaderEnds(p) \/ \E id \in process[p].asked : Answers(p, id)
    PROVE  McpInv'
<1>1. /\ process[p] \in Runtime /\ UNCHANGED <<runtime, toolCalls>>
      /\ process \in Seq(Runtime)
  BY HasRuntime DEF ProcessEnds, ReaderEnds, Answers
<1>2. ASSUME NEW id \in process[p].asked, Answers(p, id) PROVE McpInv'
  <2>1. PICK new : new = [process[p] EXCEPT !.asked = @ \ {id}, !.responses = Append(@, id)]
    OBVIOUS
  <2>2. new \in Runtime /\ process' = [process EXCEPT ![p] = new]
    <3>1. id \in Nat /\ process[p].responses \in Seq(Nat)
      BY <1>1, <1>2 DEF Runtime
    <3>2. new \in Runtime
      BY <1>1, <2>1, <3>1, LineComes DEF Runtime
    <3>3. process' = [process EXCEPT ![p] = new]
      BY <1>1, <1>2, <2>1 DEF Answers
    <3> QED
      BY <3>2, <3>3
  <2>3. OnlyProcess(p) /\ process'[p] = new
    BY <1>1, <2>2 DEF OnlyProcess
  <2>4. /\ Range(new.responses) = Range(process[p].responses) \cup {id}
        /\ new.asked = process[p].asked \ {id} /\ new.lock = process[p].lock
        /\ new.alive = process[p].alive /\ new.drained = process[p].drained
    <3>1. new.responses = Append(process[p].responses, id) /\ id \in Nat
      BY <1>1, <1>2, <2>1 DEF Runtime
    <3>2. process[p].responses \in Seq(Nat)
      BY <1>1 DEF Runtime
    <3>3. Range(new.responses) = Range(process[p].responses) \cup {id}
      BY <3>1, <3>2, LineComes
    <3> QED
      BY <1>1, <2>1, <3>3 DEF Runtime
  <2>5. process'[p].drained => ~process'[p].alive
    BY <2>3, <2>4 DEF McpInv, EndsOnce
  <2>6. \A i \in Nat : Owed(process[p], i) => Owed(process'[p], i)
    BY <2>3, <2>4 DEF Owed
  <2> QED
    BY <1>1, <2>3, <2>4, <2>5, <2>6, RuntimeStep
<1>3. CASE ProcessEnds(p)
  <2>1. PICK new : new = [process[p] EXCEPT !.alive = FALSE, !.asked = {}]
    OBVIOUS
  <2>2. new \in Runtime /\ process' = [process EXCEPT ![p] = new]
    BY <1>1, <1>3, <2>1 DEF Runtime, ProcessEnds
  <2>3. OnlyProcess(p) /\ process'[p] = new
    BY <1>1, <2>2 DEF OnlyProcess
  <2>4. new.lock = process[p].lock /\ ~new.alive /\ ~new.drained
    BY <1>1, <1>3, <2>1 DEF Runtime, ProcessEnds, McpInv, EndsOnce
  <2>5. \A i \in Nat : Owed(process'[p], i)
    BY <2>3, <2>4 DEF Owed
  <2> QED
    BY <1>1, <2>3, <2>4, <2>5, RuntimeStep
<1>4. CASE ReaderEnds(p)
  <2>1. PICK new : new = [process[p] EXCEPT !.drained = TRUE, !.responses = Append(@, Closed)]
    OBVIOUS
  <2>2. process[p].responses \in Seq(Nat) /\ Closed \in Nat
    BY <1>1 DEF Runtime, Closed
  <2>3. new \in Runtime /\ process' = [process EXCEPT ![p] = new]
    <3>1. new \in Runtime
      BY <1>1, <2>1, <2>2, LineComes DEF Runtime
    <3>2. process' = [process EXCEPT ![p] = new]
      BY <1>4, <2>1 DEF ReaderEnds
    <3> QED
      BY <3>1, <3>2
  <2>4. OnlyProcess(p) /\ process'[p] = new
    BY <1>1, <2>3 DEF OnlyProcess
  <2>5. new.responses = Append(process[p].responses, Closed)
    BY <1>1, <2>1 DEF Runtime
  <2>6. Closed \in Range(new.responses)
    BY <2>2, <2>5 DEF Range
  <2>7. new.lock = process[p].lock /\ ~new.alive
    BY <1>1, <1>4, <2>1 DEF Runtime, ReaderEnds
  <2>8. \A i \in Nat : Owed(process'[p], i)
    BY <2>4, <2>6, <2>7 DEF Owed
  <2> QED
    BY <1>1, <2>4, <2>7, <2>8, RuntimeStep
<1> QED
  BY <1>2, <1>3, <1>4
\* A request is written under the lock: the server has it, or the thread fails.
LEMMA SendKeeps ==
    ASSUME McpInv, NEW c \in Threads, Sends(c)
    PROVE  McpInv'
<1>1. PICK p : p = toolCalls[c].of
  OBVIOUS
<1>2. /\ process \in Seq(Runtime) /\ p \in DOMAIN process /\ process[p] \in Runtime
      /\ toolCalls[c] \in [at : CallStates, of : {p}, id : Nat, got : Nat]
      /\ toolCalls = [d \in Threads |-> toolCalls[d]]
  <2>1. toolCalls[c].at \notin {"new", "spawning"}
    BY DEF Sends
  <2> QED
    BY <1>1, <2>1, HasRuntime DEF McpInv, McpTypeOK
<1>3. /\ toolCalls[c].at \in {"initialize", "call"} /\ process[p].lock = Free /\ UNCHANGED runtime
      /\ process[p].requestId + 1 \in Nat
  BY <1>1, <1>2 DEF Sends, Unlocked, Runtime
<1>4. process[p].drained => ~process[p].alive
  BY <1>2 DEF McpInv, EndsOnce
<1>5. Free \notin Threads
  BY McpAssumption DEF Free
<1>6. CASE process[p].alive
  <2>1. PICK id \in Nat : id = process[p].requestId + 1
    BY <1>3
  <2>2. PICK new : new = [process[p] EXCEPT !.requestId = id, !.lock = c, !.asked = @ \cup {id}]
    OBVIOUS
  <2>3. PICK call : call = [toolCalls[c] EXCEPT !.at = Awaits(toolCalls[c].at), !.id = id]
    OBVIOUS
  <2>4. /\ new \in Runtime /\ new.lock = c /\ id \in new.asked
        /\ new.alive = process[p].alive /\ new.drained = process[p].drained
    BY <1>2, <2>2 DEF Runtime
  <2>5. /\ call \in [at : CallStates \ {"new", "spawning"}, of : {p}, id : Nat, got : Nat]
        /\ call.at \in Waits /\ call.id = id
    BY <1>2, <2>3 DEF CallStates, Waits, Awaits
  <2>6. process' = [process EXCEPT ![p] = new] /\ toolCalls' = [toolCalls EXCEPT ![c] = call]
    BY <1>1, <1>2, <1>6, <2>1, <2>2, <2>3 DEF Sends
  <2>7. OnlyProcess(p) /\ process'[p] = new
    BY <1>2, <2>4, <2>6 DEF OnlyProcess
  <2>8. OnlyThread(c) /\ toolCalls'[c] = call
    BY <1>1, <1>2, <2>5, <2>6 DEF OnlyThread
  <2>9. call.at # "returned" /\ Owed(new, call.id)
    BY <2>4, <2>5 DEF Waits, Owed
  <2> QED
    BY <1>1, <1>2, <1>3, <1>4, <2>4, <2>5, <2>7, <2>8, <2>9, ThreadStep
<1>7. CASE ~process[p].alive
  <2>1. PICK new : new = [process[p] EXCEPT !.requestId = process[p].requestId + 1]
    OBVIOUS
  <2>2. PICK call : call = [toolCalls[c] EXCEPT !.at = "raised"]
    OBVIOUS
  <2>3. new \in Runtime /\ new.lock = Free /\ ~new.alive
    BY <1>2, <1>3, <1>7, <2>1 DEF Runtime
  <2>4. /\ call \in [at : CallStates \ {"new", "spawning"}, of : {p}, id : Nat, got : Nat]
        /\ call.at = "raised"
    BY <1>2, <2>2 DEF CallStates
  <2>5. process' = [process EXCEPT ![p] = new] /\ toolCalls' = [toolCalls EXCEPT ![c] = call]
    BY <1>1, <1>2, <1>7, <2>1, <2>2 DEF Sends, Goes
  <2>6. OnlyProcess(p) /\ process'[p] = new
    BY <1>2, <2>3, <2>5 DEF OnlyProcess
  <2>7. OnlyThread(c) /\ toolCalls'[c] = call
    BY <1>1, <1>2, <2>4, <2>5 DEF OnlyThread
  <2>8. "raised" \notin Waits \cup {"returned"}
    BY DEF Waits
  <2> QED
    BY <1>1, <1>2, <1>3, <1>5, <2>3, <2>4, <2>6, <2>7, <2>8, ThreadStep
<1> QED
  BY <1>6, <1>7
\* A line that is not the thread's own answer and not the end is somebody's
\* who gave up; the thread goes on waiting for what it is owed.
LEMMA ReceiveKeeps ==
    ASSUME McpInv, NEW c \in Threads, Receives(c) \/ TimesOut(c)
    PROVE  McpInv'
<1>1. PICK p : p = toolCalls[c].of
  OBVIOUS
<1>2. /\ process \in Seq(Runtime) /\ p \in DOMAIN process /\ process[p] \in Runtime
      /\ toolCalls[c] \in [at : CallStates, of : {p}, id : Nat, got : Nat]
      /\ toolCalls = [d \in Threads |-> toolCalls[d]]
      /\ toolCalls[c].at \in Waits /\ UNCHANGED runtime
  <2>1. toolCalls[c].at \in Waits /\ UNCHANGED runtime
    BY DEF Receives, TimesOut
  <2> QED
    BY <1>1, <2>1, HasRuntime DEF McpInv, McpTypeOK
<1>3. /\ process[p].lock = c
      /\ process[p].drained => ~process[p].alive
      /\ Owed(process[p], toolCalls[c].id)
  BY <1>1, <1>2 DEF McpInv, EndsOnce, LocksHeld, OwedAnAnswer, Owed
<1>4. Free \notin Threads /\ "raised" \notin Waits \cup {"returned"}
  BY McpAssumption DEF Free, Waits
\* The thread leaves, with its answer or without one.
<1>5. ASSUME NEW responses \in Seq(Nat),
             process' = [process EXCEPT ![p].responses = responses, ![p].lock = Free],
             NEW call \in [at : CallStates \ ({"new", "spawning"} \cup Waits), of : {p}, id : Nat, got : Nat],
             toolCalls' = [toolCalls EXCEPT ![c] = call],
             call.at = "returned" => call.got = call.id
      PROVE  McpInv'
  <2>1. PICK new : new = [process[p] EXCEPT !.responses = responses, !.lock = Free]
    OBVIOUS
  <2>2. /\ new \in Runtime /\ new.lock = Free
        /\ new.alive = process[p].alive /\ new.drained = process[p].drained
    BY <1>2, <2>1 DEF Runtime
  <2>3. process' = [process EXCEPT ![p] = new]
    BY <1>2, <1>5, <2>1
  <2>4. OnlyProcess(p) /\ process'[p] = new
    BY <1>2, <2>2, <2>3 DEF OnlyProcess
  <2>5. OnlyThread(c) /\ toolCalls'[c] = call
    BY <1>1, <1>2, <1>5 DEF OnlyThread
  <2>6. call.at \notin Waits
    BY <1>5
  <2>7. /\ {process[p].lock, process'[p].lock} \subseteq {Free, c}
        /\ toolCalls'[c].at \in Waits <=> process'[p].lock = c
        /\ process'[p].drained => ~process'[p].alive
        /\ toolCalls'[c].at = "returned" => toolCalls'[c].got = toolCalls'[c].id
        /\ toolCalls'[c].at \in Waits => Owed(process'[p], toolCalls'[c].id)
    <3>1. process'[p].lock = Free /\ toolCalls'[c].at \notin Waits /\ Free # c
      BY <1>4, <2>2, <2>4, <2>5, <2>6
    <3>2. process'[p].drained => ~process'[p].alive
      BY <1>3, <2>2, <2>4
    <3>3. toolCalls'[c].at = "returned" => toolCalls'[c].got = toolCalls'[c].id
      BY <1>5, <2>5
    <3> QED
      BY <1>3, <3>1, <3>2, <3>3
  <2> QED
    BY <1>1, <1>2, <2>4, <2>5, <2>7, ThreadStep
<1>6. PICK raised : raised = [toolCalls[c] EXCEPT !.at = "raised"]
  OBVIOUS
<1>7. /\ raised \in [at : CallStates \ ({"new", "spawning"} \cup Waits), of : {p}, id : Nat, got : Nat]
      /\ raised.at = "raised"
  BY <1>2, <1>6 DEF CallStates, Waits
<1>8. CASE TimesOut(c)
  <2>1. process[p].responses \in Seq(Nat)
    BY <1>2 DEF Runtime
  <2>2. process' = [process EXCEPT ![p].responses = process[p].responses, ![p].lock = Free]
    BY <1>1, <1>2, <1>8 DEF TimesOut, Runtime
  <2>3. toolCalls' = [toolCalls EXCEPT ![c] = raised]
    BY <1>6, <1>8 DEF TimesOut, Goes
  <2> QED
    BY <1>5, <1>7, <2>1, <2>2, <2>3
<1>9. CASE Receives(c)
  <2>1. PICK line, rest : line = Head(process[p].responses) /\ rest = Tail(process[p].responses)
    OBVIOUS
  <2>2. /\ line \in Nat /\ rest \in Seq(Nat)
        /\ Range(process[p].responses) = {line} \cup Range(rest)
    <3>1. process[p].responses \in Seq(Nat) /\ process[p].responses # <<>>
      BY <1>1, <1>2, <1>9 DEF Runtime, Receives
    <3> QED
      BY <2>1, <3>1, LineGoes
  <2>3. CASE line = toolCalls[c].id \/ line = Closed
    <3>1. CASE line \notin {Closed, toolCalls[c].id}
      BY <2>3, <3>1
    <3>2. process' = [process EXCEPT ![p].responses = rest, ![p].lock = Free]
      BY <1>1, <1>2, <1>9, <2>1, <2>3 DEF Receives
    <3>3. \/ Goes(c, "raised")
          \/ /\ line = toolCalls[c].id
             /\ toolCalls' = [toolCalls EXCEPT ![c].got = line,
                                ![c].at = IF @ = "awaits call" THEN "returned" ELSE "notifying"]
      BY <1>1, <1>9, <2>1, <2>3 DEF Receives
    <3>4. CASE Goes(c, "raised")
      <4>1. toolCalls' = [toolCalls EXCEPT ![c] = raised]
        BY <1>6, <3>4 DEF Goes
      <4> QED
        BY <1>5, <1>7, <2>2, <3>2, <4>1
    <3>5. CASE /\ line = toolCalls[c].id
               /\ toolCalls' = [toolCalls EXCEPT ![c].got = line,
                                  ![c].at = IF @ = "awaits call" THEN "returned" ELSE "notifying"]
      <4>1. PICK call : call = [toolCalls[c] EXCEPT !.got = line,
                                   !.at = IF @ = "awaits call" THEN "returned" ELSE "notifying"]
        OBVIOUS
      <4>2. /\ call \in [at : CallStates \ ({"new", "spawning"} \cup Waits), of : {p}, id : Nat, got : Nat]
            /\ call.got = call.id
        BY <1>2, <2>2, <3>5, <4>1 DEF CallStates, Waits
      <4>3. toolCalls' = [toolCalls EXCEPT ![c] = call]
        BY <1>2, <3>5, <4>1
      <4> QED
        BY <1>5, <2>2, <3>2, <4>2, <4>3
    <3> QED
      BY <3>3, <3>4, <3>5
  <2>4. CASE line \notin {Closed, toolCalls[c].id}
    <3>1. PICK new : new = [process[p] EXCEPT !.responses = rest]
      OBVIOUS
    <3>2. /\ new \in Runtime /\ new.lock = process[p].lock /\ new.responses = rest
          /\ new.alive = process[p].alive /\ new.drained = process[p].drained
          /\ new.asked = process[p].asked
      BY <1>2, <2>2, <3>1 DEF Runtime
    <3>3. process' = [process EXCEPT ![p] = new] /\ UNCHANGED toolCalls
      BY <1>1, <1>2, <1>9, <2>1, <2>4, <3>1 DEF Receives
    <3>4. OnlyProcess(p) /\ process'[p] = new
      BY <1>2, <3>2, <3>3 DEF OnlyProcess
    <3>5. OnlyThread(c) /\ toolCalls'[c] = toolCalls[c]
      BY <1>1, <1>2, <3>3 DEF OnlyThread, Waits
    <3>6. Owed(new, toolCalls[c].id)
      BY <1>3, <2>2, <2>4, <3>2 DEF Owed
    <3>7. toolCalls[c].at # "returned"
      BY <1>2 DEF Waits
    <3>8. /\ {process[p].lock, process'[p].lock} \subseteq {Free, c}
          /\ toolCalls'[c].at \in Waits <=> process'[p].lock = c
          /\ process'[p].drained => ~process'[p].alive
          /\ toolCalls'[c].at = "returned" => toolCalls'[c].got = toolCalls'[c].id
          /\ toolCalls'[c].at \in Waits => Owed(process'[p], toolCalls'[c].id)
      <4>1. process'[p].lock = c /\ toolCalls'[c].at \in Waits
        BY <1>2, <1>3, <3>2, <3>4, <3>5
      <4>2. process'[p].drained => ~process'[p].alive
        BY <1>3, <3>2, <3>4
      <4>3. toolCalls'[c].at # "returned" /\ Owed(process'[p], toolCalls'[c].id)
        BY <3>4, <3>5, <3>6, <3>7
      <4> QED
        BY <1>3, <4>1, <4>2, <4>3
    <3> QED
      BY <1>1, <1>2, <3>4, <3>5, <3>8, ThreadStep
  <2> QED
    BY <2>3, <2>4
<1> QED
  BY <1>8, <1>9

\* Between its requests a thread moves without the lock, whoever holds it.
LEMMA BetweenRequests ==
    ASSUME McpInv, NEW c \in Threads, ChecksInitialized(c) \/ Notifies(c)
    PROVE  McpInv'
<1>1. PICK p : p = toolCalls[c].of
  OBVIOUS
<1>2. /\ process \in Seq(Runtime) /\ p \in DOMAIN process /\ process[p] \in Runtime
      /\ toolCalls[c] \in [at : CallStates, of : {p}, id : Nat, got : Nat]
      /\ toolCalls = [d \in Threads |-> toolCalls[d]]
      /\ toolCalls[c].at \in {"starting", "notifying"} /\ UNCHANGED runtime
  <2>1. toolCalls[c].at \in {"starting", "notifying"} /\ UNCHANGED runtime
    BY DEF ChecksInitialized, Notifies
  <2> QED
    BY <1>1, <2>1, HasRuntime DEF McpInv, McpTypeOK
<1>3. PICK to \in {"call", "initialize", "raised"} :
        /\ toolCalls' = [toolCalls EXCEPT ![c].at = to]
        /\ process' = process \/ process' = [process EXCEPT ![p].initialized = TRUE]
  BY <1>1 DEF ChecksInitialized, Notifies, Goes
<1>4. PICK new : /\ new = process[p] \/ new = [process[p] EXCEPT !.initialized = TRUE]
                 /\ process' = [process EXCEPT ![p] = new]
  BY <1>2, <1>3
<1>5. PICK call : call = [toolCalls[c] EXCEPT !.at = to]
  OBVIOUS
<1>6. /\ new \in Runtime /\ new.lock = process[p].lock /\ new.responses = process[p].responses
      /\ new.alive = process[p].alive /\ new.drained = process[p].drained
      /\ new.asked = process[p].asked
  BY <1>2, <1>4 DEF Runtime
<1>7. /\ call \in [at : CallStates \ {"new", "spawning"}, of : {p}, id : Nat, got : Nat]
      /\ call.at \notin Waits \cup {"returned"}
      /\ toolCalls' = [toolCalls EXCEPT ![c] = call]
  BY <1>2, <1>3, <1>5 DEF CallStates, Waits
<1>8. OnlyProcess(p) /\ process'[p] = new
  BY <1>2, <1>4, <1>6 DEF OnlyProcess
<1>9. OnlyThread(c) /\ toolCalls'[c] = call
  BY <1>1, <1>2, <1>7 DEF OnlyThread
<1>10. process[p].lock # c /\ (process[p].drained => ~process[p].alive)
  BY <1>2 DEF McpInv, LocksHeld, EndsOnce, Waits
<1>11. \A id \in Nat : Owed(process[p], id) => Owed(new, id)
  BY <1>6 DEF Owed
<1> QED
  BY <1>1, <1>2, <1>6, <1>7, <1>8, <1>9, <1>10, <1>11, ThreadStep

LEMMA NextKeepsMcp == McpInv /\ [McpNext]_mcpVars => McpInv'
<1>1. ASSUME McpInv, UNCHANGED <<process, toolCalls>>, runtime' \in {runtime, 0} PROVE McpInv'
  <2>1. 0 \in 0 .. Len(process)
    BY <1>1, HasRuntime
  <2> QED
    BY <1>1, <2>1 DEF McpInv, McpTypeOK, LocksHeld, Started, EndsOnce, OwedAnAnswer
<1>2. CASE UNCHANGED mcpVars
  BY <1>1, <1>2 DEF mcpVars
<1>3. CASE CloseServer
  BY <1>1, <1>3 DEF CloseServer
<1> QED
  BY <1>2, <1>3, ProcessMoves, JoinsRuntime, SendKeeps, ReceiveKeeps, BetweenRequests DEF McpNext

\* A thread is given the answer to its own request, and one that waits is owed
\* something, whoever times out, closes the server or starts a second process.
THEOREM McpOwedAnAnswer == McpSpec => []OwedAnAnswer
<1>1. McpInv => OwedAnAnswer
  BY DEF McpInv
<1> QED
  BY <1>1, InitMcp, NextKeepsMcp, PTL DEF McpSpec
=============================================================================
