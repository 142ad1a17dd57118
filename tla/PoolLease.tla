----------------------------- MODULE PoolLease ------------------------------
(***************************************************************************)
(* transport/leases.py: the transient HTTP clients that share one injected *)
(* connection pool.  A pool belongs to one event loop at a time; clients   *)
(* of other loops wait on a Future until the owner's last client has       *)
(* closed the pool.                                                        *)
(*                                                                         *)
(* A lease serialises its own acquire and close with an asyncio lock, so   *)
(* one program counter per lease says everything.  A critical section of   *)
(* _PoolState.lock is one step.  LoopLocalTransport only chooses which     *)
(* pool a lease gets: leases of different pools never meet.                *)
(***************************************************************************)
EXTENDS Integers, FiniteSets

CONSTANTS
    Lease,          \* _TransportLease objects of one pool
    Loop,           \* event loops
    MaxGenerations  \* bound: how often the pool may be opened

NoLoop == "none"
NoFuture == 0

ASSUME PoolAssumption ==
    /\ IsFiniteSet(Lease)
    /\ NoLoop \notin Loop
    /\ MaxGenerations \in Nat

VARIABLES
    home,       \* the loop that a lease is used on
    closed,     \* leases whose _closed is set
    pc,         \* how far a lease is
    awaited,    \* the idle future that a lease waits on, or will resolve
    loop,       \* _PoolState.loop
    users,      \* _PoolState.users
    closing,    \* _PoolState.closing
    failed,     \* _PoolState.failed
    idle,       \* _PoolState.idle
    generation, \* futures made so far
    resolved    \* futures whose result is set

poolVars == <<loop, users, closing, failed, idle, generation>>
vars == <<home, closed, pc, awaited, poolVars, resolved>>

Pc == {"unacquired", "acquiring", "waiting", "entering", "held", "undo",
       "cleanup", "reset", "resolve"}

TypeOK ==
    /\ home \in [Lease -> Loop]
    /\ closed \subseteq Lease
    /\ pc \in [Lease -> Pc]
    /\ awaited \in [Lease -> Nat]
    /\ loop \in Loop \cup {NoLoop}
    /\ users \in Nat
    /\ closing \in BOOLEAN
    /\ failed \in BOOLEAN
    /\ idle \in Nat
    /\ generation \in Nat
    /\ resolved \subseteq Nat

Init ==
    /\ home \in [Lease -> Loop]
    /\ closed = {}
    /\ pc = [l \in Lease |-> "unacquired"]
    /\ awaited = [l \in Lease |-> NoFuture]
    /\ loop = NoLoop
    /\ users = 0
    /\ closing = FALSE
    /\ failed = FALSE
    /\ idle = NoFuture
    /\ generation = 0
    /\ resolved = {}

Moves(l, from, to) ==
    /\ pc[l] = from
    /\ pc' = [pc EXCEPT ![l] = to]
    /\ UNCHANGED home

\* _acquire takes the lease's start lock.
Request(l) ==
    /\ l \notin closed
    /\ Moves(l, "unacquired", "acquiring")
    /\ UNCHANGED <<closed, awaited, poolVars, resolved>>

\* The body of _PoolState.acquire's loop, under the lock.
AcquireFails(l) ==
    /\ failed
    /\ Moves(l, "acquiring", "unacquired")
    /\ UNCHANGED <<closed, awaited, poolVars, resolved>>

AcquireFirst(l) ==
    /\ ~failed /\ loop = NoLoop
    /\ generation < MaxGenerations
    /\ Moves(l, "acquiring", "entering")
    /\ loop' = home[l]
    /\ generation' = generation + 1
    /\ idle' = generation + 1
    /\ users' = users + 1
    /\ UNCHANGED <<closed, awaited, closing, failed, resolved>>

\* Mutation: a pool that is being closed is handed out again.
MayShareClosing(l) == loop = home[l]

MayShare(l) == loop = home[l] /\ ~closing

AcquireShared(l) ==
    /\ ~failed /\ MayShare(l)
    /\ Moves(l, "acquiring", "entering")
    /\ users' = users + 1
    /\ UNCHANGED <<closed, awaited, loop, closing, failed, idle, generation, resolved>>

AcquireWaits(l) ==
    /\ ~failed /\ loop # NoLoop /\ ~MayShare(l)
    /\ Moves(l, "acquiring", "waiting")
    /\ awaited' = [awaited EXCEPT ![l] = idle]
    /\ UNCHANGED <<closed, poolVars, resolved>>

\* The future is set: look again.  A cancelled waiter gives up alone, the
\* shared future is shielded.
WaiterWakes(l) ==
    /\ awaited[l] \in resolved
    /\ Moves(l, "waiting", "acquiring")
    /\ awaited' = [awaited EXCEPT ![l] = NoFuture]
    /\ UNCHANGED <<closed, poolVars, resolved>>

WaiterCancelled(l) ==
    /\ Moves(l, "waiting", "unacquired")
    /\ awaited' = [awaited EXCEPT ![l] = NoFuture]
    /\ UNCHANGED <<closed, poolVars, resolved>>

\* transport.__aenter__(), which may fail or be cancelled.
Enter(l) ==
    /\ Moves(l, "entering", "held") \/ Moves(l, "entering", "undo")
    /\ UNCHANGED <<closed, awaited, poolVars, resolved>>

LastUser(n) == n = 1

\* _PoolState.release, up to the creation of the cleanup task.
Release(l, from) ==
    /\ users' = users - 1
    /\ IF LastUser(users)
       THEN /\ closing' = TRUE
            /\ Moves(l, from, "cleanup")
            /\ awaited' = [awaited EXCEPT ![l] = idle]
       ELSE /\ Moves(l, from, "unacquired")
            /\ UNCHANGED <<closing, awaited>>
    /\ UNCHANGED <<loop, failed, idle, generation, resolved>>

\* __aenter__ failed: the lease gives its use back and may be tried again.
UndoAcquire(l) == Release(l, "undo") /\ UNCHANGED closed

Close(l) == Release(l, "held") /\ closed' = closed \cup {l}

CloseUnused(l) ==
    /\ Moves(l, "unacquired", "unacquired")
    /\ closed' = closed \cup {l}
    /\ UNCHANGED <<awaited, poolVars, resolved>>

\* _close: transport.aclose() returns or raises, ...
AcloseEnds(l) ==
    /\ Moves(l, "cleanup", "reset")
    /\ failed' \in {failed, TRUE}
    /\ UNCHANGED <<closed, awaited, loop, users, closing, idle, generation, resolved>>

\* ... the state is reset in any case, ...
ResetPool(l) ==
    /\ Moves(l, "reset", "resolve")
    /\ loop' = NoLoop
    /\ closing' = FALSE
    /\ idle' = NoFuture
    /\ UNCHANGED <<closed, awaited, users, failed, generation, resolved>>

\* Mutation: the future read after the reset is resolved.
ResolveCurrentIdle(l) ==
    /\ Moves(l, "resolve", "unacquired")
    /\ resolved' = resolved \cup {idle}
    /\ awaited' = [awaited EXCEPT ![l] = NoFuture]
    /\ UNCHANGED <<closed, poolVars>>

\* ... and the future that release() had read is resolved.
ResolveIdle(l) ==
    /\ Moves(l, "resolve", "unacquired")
    /\ resolved' = resolved \cup {awaited[l]}
    /\ awaited' = [awaited EXCEPT ![l] = NoFuture]
    /\ UNCHANGED <<closed, poolVars>>

Acquire(l) == AcquireFails(l) \/ AcquireFirst(l) \/ AcquireShared(l) \/ AcquireWaits(l)
Cleanup(l) == AcloseEnds(l) \/ ResetPool(l) \/ ResolveIdle(l)

Next == \E l \in Lease :
    \/ Request(l) \/ Acquire(l) \/ WaiterWakes(l) \/ WaiterCancelled(l) \/ Enter(l)
    \/ UndoAcquire(l) \/ Close(l) \/ CloseUnused(l) \/ Cleanup(l)

\* Tasks that can run do run, and a client that uses the pool is closed at
\* some point (its async with block ends).
Fairness == \A l \in Lease :
    /\ WF_vars(Acquire(l)) /\ WF_vars(WaiterWakes(l)) /\ WF_vars(Enter(l))
    /\ WF_vars(UndoAcquire(l)) /\ WF_vars(Close(l)) /\ WF_vars(Cleanup(l))

Spec == Init /\ [][Next]_vars /\ Fairness
-----------------------------------------------------------------------------
(* Properties *)

Using(l) == pc[l] \in {"entering", "held", "undo"}

Closer(l) == pc[l] \in {"cleanup", "reset"}

\* Sockets never move between loops: whoever uses or closes the pool runs on
\* the loop that owns it.
OneLoop == \A l \in Lease : Using(l) \/ Closer(l) => loop = home[l]

\* The pool is closed by its last user, and nobody starts to use it again
\* before it is closed.
NeverClosedInUse ==
    \A k, l \in Lease : Closer(k) => ~Using(l) /\ (Closer(l) => k = l)

\* A waiter waits for a future that somebody is still going to resolve: the
\* current one, or the one a closer has taken from the reset state.
NoOrphanWaiter ==
    \A l \in Lease : pc[l] = "waiting" =>
        \/ awaited[l] \in resolved
        \/ awaited[l] = idle /\ \E k \in Lease : Using(k) \/ Closer(k)
        \/ \E k \in Lease : pc[k] = "resolve" /\ awaited[k] = awaited[l]

\* A waiter is let go once the owning loop stops taking new requests: its
\* present clients close, and the last of them wakes every waiter.  (While new
\* clients of the owner keep arriving, the others may wait for ever.)
WaitersReturn ==
    <>[][\A k \in Lease : ~Request(k)]_vars =>
        \A l \in Lease : pc[l] = "waiting" ~> pc[l] # "waiting"
=============================================================================
