----------------------------- MODULE ToolsProofs -----------------------------
(***************************************************************************)
(* The tools of a client, for any calls: a call is executed once and its   *)
(* answer is delivered or its failure is, a serialized toolset has one     *)
(* thread, of competing revisions one succeeds, and the value that the     *)
(* graph of tools was built on stays.                                      *)
(***************************************************************************)
EXTENDS LocalTools, ToolRuntime, FiniteSetTheorems, SequenceTheorems, TLAPS

-----------------------------------------------------------------------------
(* LocalTools                                                              *)

\* Every call that runs is noted, and what waits for a batch is in none.
CallsNoted ==
    /\ \A i \in Task : ~tasks[i].deferred => tasks[i].call \in seen
    /\ \A b \in Post : posts[b].tasks \cap pending = {}

Intact ==
    /\ \A i \in Task : tasks[i].at # "cancelled"
    /\ \A b \in Post : posts[b].at # "cancelled"

\* A stream that was not read to its end was left; and uploads are given up
\* only for a consumer that leaves twice, or that leaves after the end.
LeavingCounted ==
    /\ producer = "reading" => source = "open" /\ consumer = "reading"
    /\ source \in {"closed", "abandoned"} => producer = "done"
    /\ producer # "reading" /\ source \in {"open", "closed"} => cancels >= 1
    /\ cancels = 0 => Intact
    /\ cancels <= 1 /\ source \in {"open", "closed"} => Intact
    /\ consumer = "reading" => cancels = 0 /\ left = "no"
    /\ left = "end" => producer = "done" /\ Intact
    /\ consumer = "done" => producer = "done"

\* A batch is sent when its tools have ended, is empty when none has an answer,
\* and is waited for unless another one failed.
BatchesGathered ==
    /\ \A b \in Post : \A i \in posts[b].tasks :
          /\ posts[b].at \in {"posting", "sent", "empty"} => tasks[i].at \in {"ok", "none", "cancelled"}
          /\ posts[b].at = "empty" => tasks[i].at # "ok"
    /\ producer \in {"closing", "done"} /\ Failed = {} => Unsettled = {}

TaskRecord == [call : CallIds, deferred : BOOLEAN,
               at : {"running", "ok", "none", "raised", "cancelled"}]
PostRecord == [tasks : SUBSET Task,
               at : {"waiting", "posting", "sent", "empty", "failed", "cancelled"}]

\* What LocalTypeOK and ExecutedOnce say of the calls and the batches ...
CallsOnce ==
    /\ tasks \in Seq(TaskRecord) /\ posts \in Seq(PostRecord)
    /\ seen \subseteq CallIds /\ pending \subseteq Task
    /\ \A i \in Task : i \in pending \/ \E b \in Post : i \in posts[b].tasks
    /\ \A i, j \in Task : ~tasks[i].deferred /\ ~tasks[j].deferred
                             /\ tasks[i].call = tasks[j].call => i = j
    /\ \A b, c \in Post : b # c => posts[b].tasks \cap posts[c].tasks = {}

\* ... and of everything else.
ControlOK ==
    /\ starts \in 0 .. MaxStarts
    /\ source \in {"open", "ended", "failed", "closed", "abandoned"}
    /\ producer \in {"reading", "draining", "closing", "done"}
    /\ failure \in {"none", "source", "batch"} /\ cancelled \in BOOLEAN
    /\ consumer \in {"reading", "ending", "done"} /\ left \in {"no", "end", "error", "early"}
    /\ cancels \in 0 .. MaxCancels
    /\ producer # "reading" => pending = {}

LocalInv == CallsOnce /\ ControlOK /\ CallsNoted /\ LeavingCounted /\ BatchesGathered

LEMMA OnceInParts == ExecutedOnce <=> CallsOnce /\ ControlOK
<1>1. ASSUME posts \in Seq(PostRecord), pending \subseteq Task
      PROVE  (UNION {posts[b].tasks : b \in Post}) \cup pending = Task
                <=> \A i \in Task : i \in pending \/ \E b \in Post : i \in posts[b].tasks
  <2>1. \A b \in Post : posts[b] \in PostRecord
    BY <1>1 DEF Post
  <2>2. \A b \in Post : posts[b].tasks \subseteq Task
    BY <2>1 DEF PostRecord
  <2> DEFINE U == UNION {posts[b].tasks : b \in Post}
  <2>3. \A i : i \in U <=> \E b \in Post : i \in posts[b].tasks
    OBVIOUS
  <2> HIDE DEF U
  <2>4. U \subseteq Task
    BY <2>2, <2>3
  <2>5. U \cup pending = Task <=> \A i \in Task : i \in pending \/ i \in U
    BY <1>1, <2>4
  <2>6. U \cup pending = Task <=> \A i \in Task : i \in pending \/ \E b \in Post : i \in posts[b].tasks
    BY <2>3, <2>5
  <2> QED
    BY <2>6, Zenon DEF U
<1>2. /\ TaskRecord = [call : CallIds, deferred : BOOLEAN,
                       at : {"running", "ok", "none", "raised", "cancelled"}]
      /\ PostRecord = [tasks : SUBSET Task,
                       at : {"waiting", "posting", "sent", "empty", "failed", "cancelled"}]
  BY DEF TaskRecord, PostRecord
<1> QED
  BY <1>1, <1>2 DEF ExecutedOnce, LocalTypeOK, CallsOnce, ControlOK

LEMMA InitLocal == LocalInit => LocalInv
<1> SUFFICES ASSUME LocalInit PROVE LocalInv
  OBVIOUS
<1>1. Task = {} /\ Post = {} /\ tasks \in Seq(TaskRecord) /\ posts \in Seq(PostRecord)
  BY DEF LocalInit, Task, Post
<1>2. CallsOnce /\ CallsNoted
  BY <1>1 DEF LocalInit, CallsOnce, CallsNoted
<1>3. ControlOK
  <2>1. 0 \in 0 .. MaxStarts /\ 0 \in 0 .. MaxCancels
    BY LocalAssumption
  <2> QED
    BY <2>1 DEF LocalInit, ControlOK
<1>4. LeavingCounted /\ BatchesGathered
  BY <1>1 DEF LocalInit, LeavingCounted, BatchesGathered, Intact
<1> QED
  BY <1>2, <1>3, <1>4 DEF LocalInv

\* A step that only moves tools and batches on.
SameCalls ==
    /\ tasks' \in Seq(TaskRecord) /\ Len(tasks') = Len(tasks)
    /\ \A i \in Task : tasks'[i].call = tasks[i].call /\ tasks'[i].deferred = tasks[i].deferred
    /\ posts' \in Seq(PostRecord) /\ Len(posts') = Len(posts)
    /\ \A b \in Post : posts'[b].tasks = posts[b].tasks
    /\ UNCHANGED <<seen, pending>>

LEMMA SameCallsOnce ==
    ASSUME LocalInv, SameCalls
    PROVE  Task' = Task /\ Post' = Post /\ CallsOnce' /\ CallsNoted'
<1>1. /\ Task' = Task /\ Post' = Post /\ DOMAIN tasks' = Task /\ DOMAIN posts' = Post
      /\ DOMAIN tasks = Task /\ DOMAIN posts = Post
  BY DEF SameCalls, Task, Post, LocalInv, CallsOnce
<1>3. PostRecord' = PostRecord
  BY <1>1 DEF PostRecord
<1>4. CallsOnce'
  BY <1>1, <1>3 DEF SameCalls, LocalInv, CallsOnce
<1>5. CallsNoted'
  BY <1>1 DEF SameCalls, LocalInv, CallsNoted
<1> QED
  BY <1>1, <1>4, <1>5

\* The layer that was gathered becomes a batch.
LEMMA FlushKeeps ==
    ASSUME LocalInv, Flush, UNCHANGED <<tasks, seen>>
    PROVE  /\ CallsOnce' /\ CallsNoted' /\ pending' = {}
           /\ Task' = Task /\ Post \subseteq Post'
           /\ \A b \in Post : posts'[b] = posts[b]
           /\ \A b \in Post' \ Post : posts'[b].at = "waiting"
<1> DEFINE layer == [tasks |-> pending, at |-> "waiting"]
<1>1. pending' = {} /\ Task' = Task /\ PostRecord' = PostRecord
  BY DEF Flush, Task, PostRecord
<1>2. CASE pending = {}
  <2>1. posts' = posts /\ Post' = Post
    BY <1>2 DEF Flush, Post
  <2>2. SameCalls
    BY <1>1, <1>2, <2>1 DEF SameCalls, LocalInv, CallsOnce
  <2> QED
    BY <1>1, <2>1, <2>2, SameCallsOnce
<1>3. CASE pending # {}
  <2>1. layer \in PostRecord /\ posts \in Seq(PostRecord) /\ posts' = Append(posts, layer)
    BY <1>3 DEF LocalInv, CallsOnce, PostRecord, Flush
  <2>2. /\ posts' \in Seq(PostRecord) /\ Post = 1 .. Len(posts) /\ Post' = 1 .. Len(posts) + 1
        /\ Len(posts) \in Nat
        /\ posts'[Len(posts) + 1] = layer /\ \A b \in Post : posts'[b] = posts[b]
    BY <2>1 DEF Post
  <2>3. Post' = Post \cup {Len(posts) + 1} /\ Len(posts) + 1 \notin Post
    BY <2>2
  <2>4. ASSUME NEW i \in Task PROVE \E c \in Post' : i \in posts'[c].tasks
    <3>1. i \in pending \/ \E c \in Post : i \in posts[c].tasks
      BY DEF LocalInv, CallsOnce
    <3> QED
      BY <2>2, <2>3, <3>1
  <2>5. \A b, c \in Post' : b # c => posts'[b].tasks \cap posts'[c].tasks = {}
    BY <2>2, <2>3 DEF LocalInv, CallsOnce, CallsNoted
  <2>6. CallsOnce'
    BY <1>1, <2>2, <2>4, <2>5 DEF LocalInv, CallsOnce
  <2>7. CallsNoted'
    BY <1>1 DEF LocalInv, CallsNoted
  <2>8. \A b \in Post' \ Post : posts'[b].at = "waiting"
    BY <2>2, <2>3
  <2> QED
    BY <1>1, <2>2, <2>3, <2>6, <2>7, <2>8
<1> QED
  BY <1>2, <1>3

\* A call that is not a replay gets a task, and its identity is noted.
LEMMA StartKeeps ==
    ASSUME LocalInv, NEW k \in CallIds, NEW deferred \in BOOLEAN, ToolStart(k, deferred)
    PROVE  LocalInv'
<1> USE DEF LocalInv
<1>1. /\ UNCHANGED <<posts, source, producer, failure, cancelled, consumer, left, cancels>>
      /\ starts < MaxStarts /\ starts' = starts + 1 /\ producer = "reading" /\ source = "open"
  BY DEF ToolStart, ReadsSource, streamVars, readerVars
<1>2. ControlOK'
  BY <1>1, LocalAssumption DEF ControlOK
<1>3. CASE Replayed(k, deferred)
  <2>1. UNCHANGED <<tasks, seen, pending>>
    BY <1>3 DEF ToolStart, Replayed
  <2>2. SameCalls
    BY <1>1, <2>1 DEF SameCalls, CallsOnce
  <2>3. LeavingCounted' /\ BatchesGathered'
    BY <1>1, <2>1 DEF LeavingCounted, BatchesGathered, Intact, Task, Post, Failed, Unsettled
  <2> QED
    BY <1>2, <2>2, <2>3, SameCallsOnce
<1>4. CASE ~Replayed(k, deferred)
  <2> DEFINE task == [call |-> k, deferred |-> deferred, at |-> "running"]
             n == Len(tasks) + 1
  <2>1. /\ task \in TaskRecord /\ tasks \in Seq(TaskRecord) /\ tasks' = Append(tasks, task)
        /\ pending' = pending \cup {n} /\ (~deferred => k \notin seen)
        /\ seen' = IF deferred THEN seen ELSE seen \cup {k}
    BY <1>4 DEF ToolStart, CallsOnce, TaskRecord, Replayed
  <2>2. /\ tasks' \in Seq(TaskRecord) /\ Task = 1 .. Len(tasks) /\ Len(tasks) \in Nat
        /\ Task' = 1 .. n /\ tasks'[n] = task /\ \A i \in Task : tasks'[i] = tasks[i]
    BY <2>1 DEF Task
  <2>3. Task' = Task \cup {n} /\ n \notin Task
    BY <2>2
  <2>4. \A i, j \in Task' : ~tasks'[i].deferred /\ ~tasks'[j].deferred
                             /\ tasks'[i].call = tasks'[j].call => i = j
    BY <2>1, <2>2, <2>3 DEF CallsOnce, CallsNoted
  <2>5. Post' = Post /\ \A b \in Post : posts[b] \in PostRecord
    BY <1>1 DEF Post, CallsOnce
  <2>6. \A b \in Post : posts[b].tasks \subseteq Task
    BY <2>5 DEF PostRecord
  <2>7. CallsOnce'
    <3>1. posts' \in Seq(PostRecord')
      <4>1. PostRecord \subseteq PostRecord'
        BY <2>3 DEF PostRecord
      <4> QED
        BY <1>1, <4>1 DEF CallsOnce
    <3>2. pending' \subseteq Task' /\ seen' \subseteq CallIds
      BY <2>1, <2>3 DEF CallsOnce
    <3>4. \A i \in Task' : i \in pending' \/ \E b \in Post' : i \in posts'[b].tasks
      BY <1>1, <2>1, <2>3, <2>5 DEF CallsOnce
    <3>5. \A b, c \in Post' : b # c => posts'[b].tasks \cap posts'[c].tasks = {}
      BY <1>1, <2>5 DEF CallsOnce
    <3> QED
      BY <2>2, <2>4, <3>1, <3>2, <3>4, <3>5 DEF CallsOnce
  <2>8. CallsNoted'
    BY <1>1, <2>1, <2>2, <2>3, <2>5, <2>6 DEF CallsNoted
  <2>9. LeavingCounted'
    BY <1>1, <2>2, <2>3, <2>5 DEF LeavingCounted, Intact
  <2>10. BatchesGathered'
    BY <1>1, <2>2, <2>3, <2>5, <2>6 DEF BatchesGathered, Failed, Unsettled
  <2> QED
    BY <1>2, <2>7, <2>8, <2>9, <2>10
<1> QED
  BY <1>3, <1>4
\* A layer ends, the stream ends, or the consumer leaves while it is read.
LEMMA FlushStepKeeps ==
    ASSUME LocalInv, Flush, UNCHANGED <<tasks, starts, seen>>,
           producer = "reading", source = "open",
           consumer = "reading",
           source' \in {"open", "ended", "failed"}, failure' \in {"none", "source", "batch"},
           cancelled' \in BOOLEAN, producer' \in {"reading", "draining"},
           \/ UNCHANGED <<consumer, left, cancels>> /\ (producer' = "reading" <=> source' = "open")
           \/ /\ cancels' = cancels + 1 /\ producer' = "draining" /\ cancels < MaxCancels
              /\ consumer' = "ending" /\ left' \in {"error", "early"}
    PROVE  LocalInv'
<1> USE DEF LocalInv
<1>1. /\ CallsOnce' /\ CallsNoted' /\ pending' = {}
      /\ Task' = Task /\ Post \subseteq Post'
      /\ \A b \in Post : posts'[b] = posts[b]
      /\ \A b \in Post' \ Post : posts'[b].at = "waiting"
  BY FlushKeeps
<1>2. cancels' \in 0 .. MaxCancels /\ cancels' >= cancels /\ cancels \in Nat
  BY LocalAssumption DEF ControlOK
<1>3. ControlOK'
  BY <1>1, <1>2 DEF ControlOK
<1>4. Intact => Intact'
  BY <1>1 DEF Intact
<1>5. LeavingCounted'
  BY <1>2, <1>4 DEF LeavingCounted
<1>6. BatchesGathered'
  BY <1>1 DEF BatchesGathered
<1> QED
  BY <1>1, <1>3, <1>5, <1>6

\* The producer and the generator move; the calls and the batches do not.
LEMMA ControlStepKeeps ==
    ASSUME LocalInv, UNCHANGED <<tasks, posts, starts, seen, pending>>, ControlOK', LeavingCounted',
           producer' \in {"closing", "done"} =>
               producer \in {"closing", "done"} \/ Unsettled = {} \/ Failed # {}
    PROVE  LocalInv'
<1>1. SameCalls /\ Task' = Task /\ Post' = Post
  BY DEF SameCalls, LocalInv, CallsOnce, Task, Post
<1>2. BatchesGathered'
  BY <1>1 DEF LocalInv, BatchesGathered, Failed, Unsettled
<1> QED
  BY <1>1, <1>2, SameCallsOnce DEF LocalInv

\* A tool ends, or a batch does.
LEMMA ToolKeeps ==
    ASSUME LocalInv, NEW i \in Task, NEW how \in {"ok", "none", "raised"}, ToolEnds(i, how)
    PROVE  LocalInv'
<1> USE DEF LocalInv
<1>1. /\ UNCHANGED <<starts, seen, pending, posts, source, producer, failure, cancelled, consumer,
                      left, cancels>>
      /\ tasks[i].at = "running" /\ tasks' = [tasks EXCEPT ![i].at = how]
  BY DEF ToolEnds, Running, streamVars, readerVars
<1>2. /\ tasks \in Seq(TaskRecord) /\ Task = DOMAIN tasks /\ tasks[i] \in TaskRecord
      /\ posts \in Seq(PostRecord)
  BY DEF CallsOnce, Task
<1>3. [tasks[i] EXCEPT !.at = how] \in TaskRecord
  BY <1>2 DEF TaskRecord
<1>4. tasks' = [tasks EXCEPT ![i] = [tasks[i] EXCEPT !.at = how]]
  BY <1>1, <1>2
<1>5. /\ tasks' \in Seq(TaskRecord) /\ Len(tasks') = Len(tasks)
      /\ \A j \in Task \ {i} : tasks'[j] = tasks[j]
      /\ tasks'[i] = [tasks[i] EXCEPT !.at = how]
  BY <1>2, <1>3, <1>4
<1>6. /\ tasks'[i].at = how /\ tasks'[i].call = tasks[i].call
      /\ tasks'[i].deferred = tasks[i].deferred
  BY <1>2, <1>5 DEF TaskRecord
<1>7. SameCalls
  BY <1>1, <1>2, <1>5, <1>6 DEF SameCalls
<1>8. Task' = Task /\ Post' = Post /\ CallsOnce' /\ CallsNoted'
  BY <1>7, SameCallsOnce
<1>9. Intact' <=> Intact
  BY <1>1, <1>5, <1>6, <1>8 DEF Intact
<1>10. ControlOK' /\ LeavingCounted'
  BY <1>1, <1>9 DEF ControlOK, LeavingCounted
<1>11. \A b \in Post : posts[b].tasks \subseteq Task
  <2>1. \A b \in Post : posts[b] \in PostRecord
    BY <1>2 DEF Post
  <2> QED
    BY <2>1 DEF PostRecord
<1>12. BatchesGathered'
  <2>1. ASSUME NEW b \in Post, NEW j \in posts[b].tasks
        PROVE  /\ posts[b].at \in {"posting", "sent", "empty"} => tasks'[j].at \in {"ok", "none", "cancelled"}
               /\ posts[b].at = "empty" => tasks'[j].at # "ok"
    BY <1>1, <1>5, <1>6, <1>11 DEF BatchesGathered
  <2>2. Failed' = Failed /\ Unsettled' = Unsettled
    BY <1>1, <1>8 DEF Failed, Unsettled
  <2> QED
    BY <1>1, <1>8, <2>1, <2>2 DEF BatchesGathered
<1> QED
  BY <1>8, <1>10, <1>12

LEMMA UploadKeeps ==
    ASSUME LocalInv, UploadStep
    PROVE  LocalInv'
<1> USE DEF LocalInv
<1>1. PICK b \in Post, to \in {"posting", "sent", "empty", "failed"} :
        /\ posts[b].at \in {"waiting", "posting"} /\ PostMoves(b, to)
        /\ UNCHANGED <<tasks, starts, seen, pending, source, producer, failure, cancelled, consumer,
                       left, cancels>>
        /\ to # "failed" =>
              /\ \A i \in posts[b].tasks :
                    /\ tasks[i].at \in {"ok", "none", "cancelled"}
                    /\ to = "empty" => tasks[i].at # "ok"
  <2>1. PICK b \in Post : BatchGathers(b) \/ PostEnds(b, "sent") \/ PostEnds(b, "failed")
    BY DEF UploadStep
  <2>2. CASE PostEnds(b, "sent") \/ PostEnds(b, "failed")
    BY <2>2 DEF PostEnds, BatchesGathered, taskVars, streamVars, readerVars
  <2>3. CASE BatchGathers(b)
    <3>1. /\ posts[b].at = "waiting"
          /\ UNCHANGED <<tasks, starts, seen, pending, source, producer, failure, cancelled, consumer,
                         left, cancels>>
      BY <2>3 DEF BatchGathers, taskVars, streamVars, readerVars
    <3>2. \A i \in posts[b].tasks : tasks[i].at \in {"running", "ok", "none", "raised", "cancelled"}
      <4>0. posts[b] \in PostRecord
        BY DEF CallsOnce, Post
      <4>1. posts[b].tasks \subseteq Task
        BY <4>0 DEF PostRecord
      <4>2. \A i \in Task : tasks[i] \in TaskRecord
        BY DEF CallsOnce, Task
      <4> QED
        BY <4>1, <4>2 DEF TaskRecord
    <3>3. CASE PostMoves(b, "failed")
      BY <3>1, <3>3
    <3>4. CASE /\ \A i \in posts[b].tasks : tasks[i].at \notin {"raised", "running"}
               /\ PostMoves(b, IF {i \in posts[b].tasks : tasks[i].at = "ok"} = {} THEN "empty" ELSE "posting")
      BY <3>1, <3>2, <3>4
    <3> QED
      BY <2>3, <3>3, <3>4 DEF BatchGathers
  <2> QED
    BY <2>1, <2>2, <2>3
<1>2. posts \in Seq(PostRecord) /\ posts[b] \in PostRecord /\ tasks \in Seq(TaskRecord) /\ Post = DOMAIN posts
  BY DEF CallsOnce, Post
<1>3. [posts[b] EXCEPT !.at = to] \in PostRecord
  BY <1>2 DEF PostRecord
<1>4. posts' = [posts EXCEPT ![b] = [posts[b] EXCEPT !.at = to]]
  BY <1>1, <1>2 DEF PostMoves
<1>5. /\ posts' \in Seq(PostRecord) /\ Len(posts') = Len(posts)
      /\ \A c \in Post \ {b} : posts'[c] = posts[c]
      /\ posts'[b] = [posts[b] EXCEPT !.at = to]
  BY <1>2, <1>3, <1>4
<1>6. posts'[b].at = to /\ posts'[b].tasks = posts[b].tasks
  BY <1>2, <1>5 DEF PostRecord
<1>7. SameCalls
  BY <1>1, <1>2, <1>5, <1>6 DEF SameCalls
<1>8. Task' = Task /\ Post' = Post /\ CallsOnce' /\ CallsNoted'
  BY <1>7, SameCallsOnce
<1>9. Intact' <=> Intact
  BY <1>1, <1>5, <1>6, <1>8 DEF Intact
<1>10. ControlOK' /\ LeavingCounted'
  BY <1>1, <1>9 DEF ControlOK, LeavingCounted
<1>11. BatchesGathered'
  <2>1. ASSUME NEW c \in Post, NEW i \in posts[c].tasks
        PROVE  /\ posts'[c].at \in {"posting", "sent", "empty"} => tasks[i].at \in {"ok", "none", "cancelled"}
               /\ posts'[c].at = "empty" => tasks[i].at # "ok"
    BY <1>1, <1>5, <1>6 DEF BatchesGathered
  <2>2. b \in Unsettled
    BY <1>1 DEF Unsettled
  <2>3. ASSUME producer \in {"closing", "done"} PROVE Failed' # {}
    <3>1. PICK c \in Post : posts[c].at = "failed"
      BY <2>2, <2>3 DEF BatchesGathered, Failed
    <3>2. posts'[c].at = "failed"
      BY <1>1, <1>5, <3>1
    <3> QED
      BY <1>8, <3>2 DEF Failed
  <2>4. \A c \in Post : posts'[c].tasks = posts[c].tasks
    BY <1>5, <1>6
  <2> QED
    BY <1>1, <1>8, <2>1, <2>3, <2>4 DEF BatchesGathered
<1> QED
  BY <1>8, <1>10, <1>11
\* A cancellation that reaches the producer among its uploads takes those that
\* are not over, and the tools that they wait for.
LEMMA GivesUpKeeps ==
    ASSUME LocalInv, producer = "draining", CancelProducer, UNCHANGED <<starts, seen>>,
           cancels' = cancels + 1, cancels < MaxCancels, consumer' = "ending",
           left' \in {"early", left}, consumer \in {"reading", "ending"}
    PROVE  LocalInv'
<1> USE DEF LocalInv
<1>1. PICK reached \in SUBSET Task :
        /\ posts' = [b \in Post |-> IF b \in Unsettled THEN [posts[b] EXCEPT !.at = "cancelled"] ELSE posts[b]]
        /\ tasks' = [i \in Task |-> IF i \in reached \cap Running
                                    THEN [tasks[i] EXCEPT !.at = "cancelled"] ELSE tasks[i]]
        /\ producer' = "closing" /\ cancelled' = TRUE /\ UNCHANGED <<pending, source, failure>>
  <2> DEFINE layers == UNION {posts[c].tasks : c \in {d \in Unsettled : posts[d].at = "waiting"}}
  <2>1. \A b \in Post : posts[b] \in PostRecord
    BY DEF CallsOnce, Post
  <2>2. \A b \in Unsettled : posts[b].tasks \subseteq Task
    BY <2>1 DEF PostRecord, Unsettled
  <2>3. layers \in SUBSET Task
    BY <2>2
  <2> QED
    BY <2>3 DEF CancelProducer
<1>2. /\ tasks \in Seq(TaskRecord) /\ posts \in Seq(PostRecord)
      /\ Task = 1 .. Len(tasks) /\ Post = 1 .. Len(posts) /\ Len(tasks) \in Nat /\ Len(posts) \in Nat
      /\ \A i \in Task : tasks[i] \in TaskRecord
      /\ \A b \in Post : posts[b] \in PostRecord
  BY DEF CallsOnce, Task, Post
<1>3. ASSUME NEW i \in Task
      PROVE  /\ tasks'[i] \in TaskRecord
             /\ tasks'[i].call = tasks[i].call /\ tasks'[i].deferred = tasks[i].deferred
             /\ tasks'[i].at = tasks[i].at \/ (tasks'[i].at = "cancelled" /\ tasks[i].at = "running")
  <2>1. tasks[i] \in TaskRecord /\ i \in DOMAIN tasks
    BY <1>2
  <2>2. CASE i \in reached \cap Running
    <3>1. tasks'[i] = [tasks[i] EXCEPT !.at = "cancelled"] /\ tasks[i].at = "running"
      BY <1>1, <2>2 DEF Running
    <3> QED
      BY <2>1, <3>1 DEF TaskRecord
  <2>3. CASE i \notin reached \cap Running
    <3>1. tasks'[i] = tasks[i]
      BY <1>1, <2>3
    <3> QED
      BY <2>1, <3>1
  <2> QED
    BY <2>2, <2>3
<1>4. ASSUME NEW b \in Post
      PROVE  /\ posts'[b] \in PostRecord /\ posts'[b].tasks = posts[b].tasks
             /\ posts'[b].at = IF b \in Unsettled THEN "cancelled" ELSE posts[b].at
  BY <1>1, <1>2 DEF PostRecord
<1>5. tasks' \in Seq(TaskRecord) /\ Len(tasks') = Len(tasks)
  BY <1>1, <1>2, <1>3
<1>6. posts' \in Seq(PostRecord) /\ Len(posts') = Len(posts)
  BY <1>1, <1>2, <1>4
<1>7. SameCalls
  BY <1>1, <1>3, <1>4, <1>5, <1>6 DEF SameCalls
<1>8. Task' = Task /\ Post' = Post /\ CallsOnce' /\ CallsNoted'
  BY <1>7, SameCallsOnce
<1>9. cancels' \in 1 .. MaxCancels /\ cancels \in Nat
  BY LocalAssumption DEF ControlOK
<1>10. ControlOK'
  BY <1>1, <1>9 DEF ControlOK
<1>11. LeavingCounted'
  <2>1. source \in {"open", "ended", "failed"} /\ (source = "open" => cancels >= 1)
    BY DEF LeavingCounted, ControlOK
  <2>2. left # "end"
    BY DEF LeavingCounted
  <2> QED
    BY <1>1, <1>9, <2>1, <2>2 DEF LeavingCounted
<1>12. BatchesGathered'
  <2>1. Unsettled' = {}
    BY <1>4, <1>8 DEF Unsettled
  <2>2. \A b \in Post : posts[b].tasks \subseteq Task
    BY <1>2 DEF PostRecord
  <2>3. ASSUME NEW b \in Post, NEW i \in posts[b].tasks
        PROVE  /\ posts'[b].at \in {"posting", "sent", "empty"} => tasks'[i].at \in {"ok", "none", "cancelled"}
               /\ posts'[b].at = "empty" => tasks'[i].at # "ok"
    BY <1>3, <1>4, <2>2 DEF BatchesGathered
  <2> QED
    BY <1>4, <1>8, <2>1, <2>3 DEF BatchesGathered
<1> QED
  BY <1>8, <1>10, <1>11, <1>12

\* The generator is left while the producer is wherever it is.
LEMMA LeaveKeeps ==
    ASSUME LocalInv, CloseEarly \/ CancelAgain
    PROVE  LocalInv'
<1> USE DEF LocalInv
<1>1. /\ cancels < MaxCancels /\ cancels' = cancels + 1 /\ consumer' = "ending"
      /\ left' \in {"early", left} /\ consumer \in {"reading", "ending"}
      /\ consumer = "reading" => left' = "early"
      /\ UNCHANGED <<starts, seen>>
      /\ \/ CancelProducer
         \/ producer = "done" /\ consumer = "reading"
            /\ UNCHANGED <<tasks, pending, posts, source, producer, failure, cancelled>>
  BY DEF CloseEarly, CancelAgain, Leaves, streamVars
<1>2. cancels' \in 1 .. MaxCancels /\ cancels \in Nat /\ left' \in {"no", "end", "error", "early"}
  BY <1>1, LocalAssumption DEF ControlOK
<1>3. CASE producer = "draining" /\ CancelProducer
  BY <1>1, <1>3, GivesUpKeeps
<1>4. CASE producer = "reading" /\ CancelProducer
  <2>1. /\ Flush /\ producer' = "draining" /\ cancelled' = TRUE /\ UNCHANGED <<tasks, source, failure>>
    BY <1>4 DEF CancelProducer
  <2>2. /\ source = "open" /\ consumer = "reading" /\ left' = "early"
        /\ source' = "open" /\ failure' \in {"none", "source", "batch"}
    BY <1>1, <1>4, <2>1 DEF LeavingCounted, ControlOK
  <2> QED
    BY <1>1, <1>4, <2>1, <2>2, FlushStepKeeps
<1>5. CASE producer \in {"closing", "done"}
  <2>1. UNCHANGED <<tasks, posts, pending>> /\ producer' = "done"
    BY <1>1, <1>5 DEF CancelProducer
  <2>2. /\ failure' = failure /\ cancelled' \in BOOLEAN
        /\ \/ source' = source
           \/ source = "open" /\ producer = "closing" /\ source' = "abandoned"
    BY <1>1, <1>5 DEF CancelProducer, ControlOK
  <2>3. ControlOK'
    BY <1>1, <1>2, <1>5, <2>1, <2>2 DEF ControlOK
  <2>4. Intact' <=> Intact
    BY <2>1 DEF Intact, Task, Post
  <2>5. LeavingCounted'
    BY <1>1, <1>2, <1>5, <2>1, <2>2, <2>4 DEF LeavingCounted
  <2> QED
    BY <1>1, <1>5, <2>1, <2>3, <2>5, ControlStepKeeps
<1> QED
  BY <1>1, <1>3, <1>4, <1>5 DEF ControlOK
LEMMA NextKeepsLocal == LocalInv /\ [LocalNext]_toolVars => LocalInv'
<1> SUFFICES ASSUME LocalInv, [LocalNext]_toolVars PROVE LocalInv'
  OBVIOUS
<1> USE DEF LocalInv
<1>1. ASSUME NEW k \in CallIds, NEW deferred \in BOOLEAN, ToolStart(k, deferred) PROVE LocalInv'
  BY <1>1, StartKeeps
<1>2. CASE PhaseStarts
  BY <1>2, FlushStepKeeps DEF PhaseStarts, ReadsSource, LeavingCounted, ControlOK, streamVars, readerVars
<1>3. ASSUME NEW how \in {"ended", "failed"}, SourceEnds(how) PROVE LocalInv'
  BY <1>3, FlushStepKeeps DEF SourceEnds, ReadsSource, LeavingCounted, ControlOK, readerVars
<1>4. CASE CloseEarly \/ CancelAgain
  BY <1>4, LeaveKeeps
<1>5. CASE ToolStep
  BY <1>5, ToolKeeps DEF ToolStep
<1>6. CASE UploadStep
  BY <1>6, UploadKeeps
<1>7. CASE ProducerStep \/ ConsumerStep \/ UNCHANGED toolVars
  <2>1. UNCHANGED <<tasks, posts, starts, seen, pending, cancels>> /\ (Intact' <=> Intact)
    <3>1. UNCHANGED <<tasks, posts, starts, seen, pending, cancels>>
      BY <1>7 DEF ProducerStep, ConsumerStep, DrainEnds, SourceCloses, ReadFailure, ReadEnd, Returns,
         Leaves, CancelProducer, toolVars, taskVars, streamVars, readerVars
    <3> QED
      BY <3>1 DEF Intact, Task, Post
  <2>2. CASE ProducerStep
    <3>1. UNCHANGED <<cancelled, consumer, left>>
      BY <2>2 DEF ProducerStep, DrainEnds, SourceCloses, readerVars
    <3>2. /\ \/ producer = "draining" /\ producer' = "closing" /\ source' = source
             \/ /\ producer = "closing" /\ producer' = "done"
                /\ source' = IF source = "open" THEN "closed" ELSE source
          /\ failure' \in {failure, "batch"}
          /\ producer = "draining" => Unsettled = {} \/ Failed # {}
      BY <2>2 DEF ProducerStep, DrainEnds, SourceCloses, Drained
    <3>3. ControlOK'
      BY <2>1, <3>1, <3>2 DEF ControlOK
    <3>4. LeavingCounted'
      BY <2>1, <3>1, <3>2 DEF LeavingCounted
    <3> QED
      BY <2>1, <3>2, <3>3, <3>4, ControlStepKeeps
  <2>3. CASE ConsumerStep
    <3>1. /\ \/ /\ consumer = "reading" /\ producer \in {"closing", "done"} /\ producer' = "done"
                /\ consumer' = "ending" /\ left' = "error"
             \/ /\ consumer = "reading" /\ producer = "done" /\ producer' = "done"
                /\ consumer' = "ending" /\ left' = "end"
             \/ /\ consumer = "ending" /\ producer = "done" /\ producer' = "done"
                /\ consumer' = "done" /\ left' = left
          /\ \/ source' = source
             \/ source = "open" /\ producer = "closing" /\ source' = "abandoned"
          /\ failure' = failure /\ cancelled' \in {cancelled, TRUE}
      BY <2>3 DEF ConsumerStep, ReadFailure, ReadEnd, Returns, Leaves, CancelProducer, streamVars
    <3>2. ControlOK'
      BY <2>1, <3>1 DEF ControlOK
    <3>3. LeavingCounted'
      BY <2>1, <3>1 DEF LeavingCounted
    <3> QED
      BY <2>1, <3>1, <3>2, <3>3, ControlStepKeeps
  <2>4. CASE UNCHANGED toolVars
    BY <2>1, <2>4, ControlStepKeeps DEF toolVars, streamVars, readerVars, ControlOK, LeavingCounted
  <2> QED
    BY <1>7, <2>2, <2>3, <2>4
<1> QED
  BY <1>1, <1>2, <1>3, <1>4, <1>5, <1>6, <1>7 DEF LocalNext, LocalGoesOn

\* The invariant of the runner: what runs is noted, what waits is in no batch,
\* and nothing is given up while the stream is read.
THEOREM LocalInvariant == LocalSpec => []LocalInv
  BY InitLocal, NextKeepsLocal, PTL DEF LocalSpec

\* A call is executed once, however often the platform delivers it, and every
\* task is in at most one batch (is_replayed_local_call, flush_layer).
THEOREM ToolExecutedOnce == LocalSpec => []ExecutedOnce
<1>1. LocalInv => ExecutedOnce
  BY OnceInParts DEF LocalInv
<1> QED
  BY <1>1, LocalInvariant, PTL

\* A stream read to its end, or left once before it, has delivered the answers
\* that no failure took with it, and has left no tool behind.
THEOREM ToolAnswersDelivered == LocalSpec => []AnswersDelivered
<1>1. LocalInv => AnswersDelivered
  <2> SUFFICES ASSUME LocalInv, consumer = "done", Failed = {},
                      left = "end" \/ (source = "closed" /\ cancels = 1), NEW i \in Task
               PROVE  /\ tasks[i].at \in {"ok", "none"}
                      /\ tasks[i].at = "ok" =>
                            \E b \in Post : i \in posts[b].tasks /\ posts[b].at = "sent"
    BY DEF AnswersDelivered
  <2>1. producer = "done" /\ Intact /\ pending = {} /\ Unsettled = {}
    BY DEF LocalInv, LeavingCounted, ControlOK, BatchesGathered
  <2>2. PICK b \in Post : i \in posts[b].tasks
    BY <2>1 DEF LocalInv, CallsOnce
  <2>3. posts[b] \in PostRecord
    BY DEF LocalInv, CallsOnce, Post
  <2>4. posts[b].at \in {"sent", "empty"}
    BY <2>1, <2>3 DEF PostRecord, Intact, Unsettled, Failed
  <2> QED
    BY <2>1, <2>2, <2>4 DEF LocalInv, BatchesGathered, Intact
<1> QED
  BY <1>1, LocalInvariant, PTL

-----------------------------------------------------------------------------
(* ToolRuntime                                                             *)

CallsTyped ==
    /\ calls \in Scenarios
    /\ call \in [Call -> OnLoop \cup Suspended]
    /\ owns \in [Call -> BOOLEAN] /\ sets \in [Call -> Nat] /\ awaits \in [Call -> Nat]
    /\ fate \in [Call -> {Nothing, "ok", "error", "invalid", "skipped", "cancelled"}]
    /\ injected \in [Call -> Call \cup {Nothing}]
    /\ \A c \in Call : call[c] = "done" <=> fate[c] # Nothing
    /\ \A c, d \in Call : call[c] \in OnLoop /\ call[d] \in OnLoop => c = d

KeysTyped ==
    /\ reserved \subseteq Key /\ failures \subseteq Key /\ event \in [Key -> Nat]
    /\ results \in [Key -> Call \cup {Nothing}] /\ base \in [Key -> Call \cup {Nothing}]
    /\ branch \in [Call \X Key -> Call \cup {Nothing}] /\ fired \subseteq Key \X Nat

\* The lane holds every serialized call that was let in and has not left, each
\* once; the one whose thread may run is the first, and no other thread is
\* in the toolset.
InLane(c) == Serial(c) /\ call[c] \in {"queued", "running", "cancelling"}
Working(c) == Serial(c) /\ call[c] \in {"running", "cancelling"}

LaneKept ==
    /\ lane \in Seq(Call) /\ worker \subseteq Call
    /\ \A i, j \in DOMAIN lane : lane[i] = lane[j] => i = j
    /\ \A c \in Call : InLane(c) <=> \E i \in DOMAIN lane : lane[i] = c
    /\ \A c \in Call : Working(c) => lane # <<>> /\ lane[1] = c
    /\ \A c \in worker : Serial(c) => Working(c)

\* A key that others read is held by one call at a time, from its arrival until
\* it fails, and its result was written by a call that had reserved it.
Holds(c) == owns[c] /\ fate[c] \notin {"error", "invalid"}

OwnersKept ==
    /\ \A c \in Call : Revises(c) \/ call[c] = "new" => ~owns[c]
    /\ \A c \in Call : IsTarget(ToolOf(c)) /\ ~Tools[ToolOf(c)].asks /\ Holds(c) =>
          /\ ToolOf(c) \in reserved
          /\ \A d \in Call : Holds(d) /\ ToolOf(d) = ToolOf(c) => c = d
    /\ \A k \in Key : results[k] # Nothing =>
          owns[results[k]] /\ ToolOf(results[k]) = k /\ call[results[k]] = "done"

\* A revision that was let in holds the claim of its branch, alone, and follows
\* a call that was over; one that succeeded has been put in its place.
Live(c) == Revises(c) /\ call[c] \notin {"new", "refused", "done"}
Replaced(c) == Revises(c) /\ fate[c] = "ok"
SameBranch(c, d) == Root(c) = Root(d) /\ ToolOf(c) = ToolOf(d)
SameGeneration(c, d) == Root(c) = Root(d) /\ calls[c].parent = calls[d].parent

RevisionsKept ==
    /\ \A c \in Call : Live(c) => <<Root(c), ToolOf(c)>> \in claims
    /\ \A c, d \in Call : Live(c) /\ Live(d) /\ SameBranch(c, d) => c = d
    /\ \A c \in Call : Live(c) \/ Replaced(c) =>
          fate[calls[c].parent] # Nothing /\ ToolOf(calls[c].parent) = ToolOf(c)
    /\ \A c \in Call : Replaced(c) => branch[<<Root(c), ToolOf(c)>>] \notin {Nothing, calls[c].parent}
    /\ \A c, d \in Call : (Live(c) \/ Replaced(c)) /\ Replaced(d) /\ c # d => ~SameGeneration(c, d)

RuntimeInv == CallsTyped /\ KeysTyped /\ LaneKept /\ OwnersKept /\ RevisionsKept

Caller(c) == \A d \in Call : d # c => call[d] \notin OnLoop

LEMMA CallerAlone ==
    ASSUME CallsTyped, NEW c \in Call,
           (\E w \in OnLoop \cup Suspended : At(c, w)) \/ ~Busy
    PROVE  Caller(c)
BY DEF CallsTyped, Caller, At, Busy

LEMMA RuntimeCallsStep ==
    ASSUME CallsTyped, NEW c \in Call, NEW w \in OnLoop \cup Suspended, Caller(c),
           calls' = calls, Goes(c, w),
           owns' \in [Call -> BOOLEAN], sets' \in [Call -> Nat], awaits' \in [Call -> Nat],
           injected' \in [Call -> Call \cup {Nothing}],
           \/ (w # "done" /\ call[c] # "done" /\ fate' = fate)
           \/ /\ w = "done"
              /\ \E how \in {"ok", "error", "invalid", "skipped", "cancelled"} :
                    fate' = [fate EXCEPT ![c] = how]
    PROVE  CallsTyped'
<1> USE RuntimeAssumption DEF CallsTyped, Call, Goes
<1>1. calls' \in Scenarios /\ call' \in [Call -> OnLoop \cup Suspended]
  OBVIOUS
<1>2. fate' \in [Call -> {Nothing, "ok", "error", "invalid", "skipped", "cancelled"}]
  OBVIOUS
<1>3. \A d \in Call : call'[d] = "done" <=> fate'[d] # Nothing
  OBVIOUS
<1>4. \A d, e \in Call : call'[d] \in OnLoop /\ call'[e] \in OnLoop => d = e
  BY DEF Caller
<1> QED BY <1>1, <1>2, <1>3, <1>4

LEMMA InitRuntime == RuntimeInit => RuntimeInv
<1> SUFFICES ASSUME RuntimeInit PROVE RuntimeInv
  OBVIOUS
<1> USE RuntimeAssumption DEF RuntimeInit, Call, Key
<1>1. CallsTyped
  BY DEF CallsTyped, OnLoop, Suspended
<1>2. KeysTyped
  BY DEF KeysTyped
<1>3. LaneKept
  BY DEF LaneKept, InLane, Working
<1>4. OwnersKept
  BY DEF OwnersKept, Holds
<1>5. RevisionsKept
  BY DEF RevisionsKept, Live, Replaced
<1> QED BY <1>1, <1>2, <1>3, <1>4, <1>5 DEF RuntimeInv

\* What other calls see of a step of call c.
OnlyCall(c) ==
    /\ calls' = calls
    /\ \A d \in Call : d # c => call'[d] = call[d] /\ fate'[d] = fate[d] /\ owns'[d] = owns[d]

LEMMA LaneUntouched ==
    ASSUME LaneKept, NEW c \in Call, OnlyCall(c), lane' = lane, worker' \subseteq worker,
           InLane(c)' = InLane(c), Working(c)' = Working(c)
    PROVE  LaneKept'
<1>1. Call' = Call /\ (\A d \in Call : Serial(d)' = Serial(d))
  BY DEF OnlyCall, Call, Serial, ToolOf
<1>2. \A d \in Call : InLane(d)' = InLane(d) /\ Working(d)' = Working(d)
  BY <1>1 DEF OnlyCall, InLane, Working
<1> QED BY <1>1, <1>2 DEF LaneKept

LEMMA LaneEntered ==
    ASSUME CallsTyped, LaneKept, NEW c \in Call, OnlyCall(c), Enter(c)
    PROVE  LaneKept'
<1>1. Call' = Call /\ (\A d \in Call : Serial(d)' = Serial(d)) /\ call[c] = "entering"
      /\ call \in [Call -> OnLoop \cup Suspended] /\ lane \in Seq(Call)
      /\ (c \notin worker \/ ~Serial(c))
  BY DEF OnlyCall, Call, Serial, ToolOf, Enter, At, CallsTyped, LaneKept, Working
<1>2. CASE Serial(c)
  <2>1. lane' = Append(lane, c) /\ Len(lane') = Len(lane) + 1 /\ lane'[Len(lane) + 1] = c
        /\ (\A i \in 1..Len(lane) : lane'[i] = lane[i]) /\ lane' \in Seq(Call)
    BY <1>1, <1>2 DEF Enter
  <2>2. \A i \in DOMAIN lane : lane[i] # c
    BY <1>1 DEF LaneKept, InLane
  <2>3. \A i, j \in DOMAIN lane' : lane'[i] = lane'[j] => i = j
    BY <2>1, <2>2, <1>1 DEF LaneKept
  <2>4. InLane(c)' /\ (Working(c)' <=> lane = <<>>)
    BY <1>1, <1>2 DEF InLane, Working, Enter, Goes
  <2>5. \A d \in Call : d # c => InLane(d)' = InLane(d) /\ Working(d)' = Working(d)
    BY <1>1 DEF OnlyCall, InLane, Working
  <2>6. \A d \in Call : InLane(d)' <=> (\E i \in DOMAIN lane' : lane'[i] = d)
    BY <2>1, <2>4, <2>5, <1>1 DEF LaneKept
  <2>7. \A d \in Call : Working(d)' => lane' # <<>> /\ lane'[1] = d
    <3>1. CASE lane = <<>>
      BY <2>1, <2>4, <2>5, <3>1, <1>1 DEF LaneKept
    <3>2. CASE lane # <<>>
      BY <2>1, <2>4, <2>5, <3>2, <1>1 DEF LaneKept
    <3> QED BY <3>1, <3>2
  <2>8. worker' \subseteq Call /\ (\A d \in worker' : Serial(d) => Working(d)')
    BY <1>1, <1>2, <2>4, <2>5 DEF Enter, LaneKept
  <2> QED BY <1>1, <2>1, <2>3, <2>6, <2>7, <2>8 DEF LaneKept
<1>3. CASE ~Serial(c)
  <2>1. lane' = lane /\ worker' = worker \cup {c}
    BY <1>3 DEF Enter
  <2>2. \A d \in Call : InLane(d)' = InLane(d) /\ Working(d)' = Working(d)
    BY <1>1, <1>3 DEF OnlyCall, InLane, Working
  <2> QED BY <1>1, <1>3, <2>1, <2>2 DEF LaneKept
<1> QED BY <1>2, <1>3

LEMMA LaneOpened ==
    ASSUME CallsTyped, LaneKept, NEW c \in Call, OnlyCall(c), LaneOpens(c)
    PROVE  LaneKept'
<1>1. Call' = Call /\ (\A d \in Call : Serial(d)' = Serial(d)) /\ call[c] = "queued"
      /\ call'[c] = "running" /\ lane' = lane /\ worker' = worker \cup {c} /\ lane \in Seq(Call)
  BY DEF OnlyCall, Call, Serial, ToolOf, LaneOpens, At, CallsTyped, LaneKept, Goes
<1>2. \A d \in Call : d # c => InLane(d)' = InLane(d) /\ Working(d)' = Working(d)
  BY <1>1 DEF OnlyCall, InLane, Working
<1>3. InLane(c)' = InLane(c)
  BY <1>1 DEF InLane
<1>4. Head(lane) = lane[1] /\ lane[1] = c
  BY <1>1 DEF LaneOpens
<1>5. Working(c)' => lane # <<>>
  BY <1>1, <1>3 DEF Working, InLane, LaneKept
<1>6. Serial(c) => Working(c)'
  BY <1>1 DEF Working
<1> QED BY <1>1, <1>2, <1>3, <1>4, <1>5, <1>6 DEF LaneKept

LEMMA Concatenated ==
    ASSUME NEW S, NEW a \in Seq(S), NEW b \in Seq(S), NEW i \in 1..(Len(a) + Len(b))
    PROVE  (a \o b)[i] = IF i <= Len(a) THEN a[i] ELSE b[i - Len(a)]
OBVIOUS

LEMMA Shortened ==
    ASSUME NEW S, NEW s \in Seq(S), NEW k \in 1..Len(s)
    PROVE  /\ RemoveAt(s, k) \in Seq(S)
           /\ Len(RemoveAt(s, k)) = Len(s) - 1
           /\ \A i \in 1..(Len(s) - 1) : RemoveAt(s, k)[i] = IF i < k THEN s[i] ELSE s[i + 1]
<1> DEFINE a == SubSeq(s, 1, k - 1)
           b == SubSeq(s, k + 1, Len(s))
<1>1. /\ a \in Seq(S) /\ Len(a) = k - 1
      /\ \A i \in 1..(k - 1) : a[i] = s[i]
  OBVIOUS
<1>2. /\ b \in Seq(S) /\ Len(b) = Len(s) - k
      /\ \A i \in 1..(Len(s) - k) : b[i] = s[k + i]
  <2>1. CASE k = Len(s)
    BY <2>1
  <2>2. CASE k # Len(s)
    BY <2>2
  <2> QED BY <2>1, <2>2
<1> HIDE DEF a, b
<1>3. RemoveAt(s, k) = a \o b /\ RemoveAt(s, k) \in Seq(S)
      /\ Len(RemoveAt(s, k)) = Len(a) + Len(b)
  BY <1>1, <1>2 DEF RemoveAt, a, b
<1>4. ASSUME NEW i \in 1..(Len(s) - 1)
      PROVE  RemoveAt(s, k)[i] = IF i < k THEN s[i] ELSE s[i + 1]
  <2>1. i \in 1..(Len(a) + Len(b))
    BY <1>1, <1>2
  <2>2. RemoveAt(s, k)[i] = IF i <= Len(a) THEN a[i] ELSE b[i - Len(a)]
    BY <2>1, <1>1, <1>2, <1>3, Concatenated
  <2>3. CASE i < k
    BY <2>2, <2>3, <1>1
  <2>4. CASE ~(i < k)
    <3>1. i - Len(a) \in 1..(Len(s) - k) /\ k + (i - Len(a)) = i + 1
      BY <2>4, <1>1
    <3> QED BY <2>2, <2>4, <3>1, <1>1, <1>2
  <2> QED BY <2>3, <2>4
<1>5. Len(RemoveAt(s, k)) = Len(s) - 1
  BY <1>1, <1>2, <1>3
<1> QED BY <1>3, <1>4, <1>5

LEMMA FirstRemoved ==
    ASSUME NEW S, NEW s \in Seq(S), NEW k \in 1..Len(s),
           \A i, j \in DOMAIN s : s[i] = s[j] => i = j
    PROVE  RemoveFirst(s, s[k]) = RemoveAt(s, k)
<1>1. {i \in 1..Len(s) : s[i] = s[k]} = {k}
  OBVIOUS
<1>2. SelectInSeq(s, LAMBDA v : v = s[k]) = k
  BY <1>1 DEF SelectInSeq, Min
<1> QED BY <1>2 DEF RemoveFirst

LEMMA LaneLeft ==
    ASSUME LaneKept, NEW c \in Call, OnlyCall(c), lane' = RemoveFirst(lane, c), ~InLane(c)',
           worker' \subseteq worker, Serial(c) => c \notin worker'
    PROVE  LaneKept'
<1>1. Call' = Call /\ lane \in Seq(Call) /\ (\A d \in Call : Serial(d)' = Serial(d))
  BY DEF OnlyCall, Call, Serial, ToolOf, LaneKept
<1>2. ~Working(c)' /\ \A d \in Call : d # c => InLane(d)' = InLane(d) /\ Working(d)' = Working(d)
  BY <1>1 DEF OnlyCall, InLane, Working
<1>3. CASE InLane(c)
  <2>1. PICK k \in 1..Len(lane) : lane[k] = c
    BY <1>1, <1>3 DEF LaneKept
  <2>2. lane' = RemoveAt(lane, k)
    BY <1>1, <2>1, FirstRemoved DEF LaneKept
  <2>3. /\ lane' \in Seq(Call) /\ Len(lane') = Len(lane) - 1
        /\ \A i \in 1..(Len(lane) - 1) : lane'[i] = IF i < k THEN lane[i] ELSE lane[i + 1]
    BY <1>1, <2>2, Shortened
  <2>8. DOMAIN lane = 1..Len(lane) /\ DOMAIN lane' = 1..(Len(lane) - 1)
    BY <2>3, <1>1
  <2>9. ASSUME NEW i \in DOMAIN lane'
        PROVE  \E j \in DOMAIN lane : j = (IF i < k THEN i ELSE i + 1) /\ lane'[i] = lane[j]
    BY <2>3, <2>8, <1>1
  <2>4. \A i, j \in DOMAIN lane' : lane'[i] = lane'[j] => i = j
    BY <2>8, <2>9, <1>1 DEF LaneKept
  <2>5. ASSUME NEW d \in Call
        PROVE  InLane(d)' <=> \E i \in DOMAIN lane' : lane'[i] = d
    <3>1. ASSUME NEW i \in DOMAIN lane' PROVE lane'[i] # c
      BY <2>1, <2>8, <2>9, <1>1 DEF LaneKept
    <3>2. ASSUME NEW i \in DOMAIN lane' PROVE \E j \in DOMAIN lane : lane[j] = lane'[i]
      BY <2>9
    <3>3. ASSUME NEW j \in DOMAIN lane, j # k PROVE \E i \in DOMAIN lane' : lane'[i] = lane[j]
      <4>1. CASE j < k
        BY <4>1, <2>3, <2>8, <1>1
      <4>2. CASE j > k
        <5>1. j - 1 \in DOMAIN lane' /\ lane'[j - 1] = lane[j]
          BY <4>2, <2>3, <2>8, <1>1
        <5> QED BY <5>1
      <4> QED BY <3>3, <4>1, <4>2, <1>1
    <3>4. CASE d = c
      BY <3>1, <3>4
    <3>5. CASE d # c
      BY <3>2, <3>3, <3>5, <1>2, <2>1 DEF LaneKept
    <3> QED BY <3>4, <3>5
  <2>6. ASSUME NEW d \in Call, Working(d)' PROVE lane' # <<>> /\ lane'[1] = d
    <3>1. d # c /\ lane # <<>> /\ lane[1] = d
      BY <1>2, <2>6 DEF LaneKept
    <3>2. k # 1 /\ 1 \in 1..(Len(lane) - 1) /\ 1 < k
      BY <3>1, <2>1, <1>1
    <3> QED BY <3>1, <3>2, <2>3
  <2>7. worker' \subseteq Call /\ (\A d \in worker' : Serial(d) => Working(d)')
    BY <1>2 DEF LaneKept
  <2> QED BY <1>1, <2>3, <2>4, <2>5, <2>6, <2>7 DEF LaneKept
<1>4. CASE ~InLane(c)
  <2>1. lane' = lane
    BY <1>1, <1>4 DEF LaneKept, RemoveFirst
  <2>2. InLane(c)' = InLane(c) /\ Working(c)' = Working(c)
    BY <1>2, <1>4 DEF InLane, Working
  <2> QED BY <2>1, <2>2, LaneUntouched
<1> QED BY <1>3, <1>4

-----------------------------------------------------------------------------

LEMMA OwnersUntouched ==
    ASSUME CallsTyped, KeysTyped, OwnersKept, NEW c \in Call, OnlyCall(c),
           call'[c] # "new", call[c] = "done" => call'[c] = "done",
           owns' = owns, reserved' = reserved, results' = results,
           Holds(c)' => Holds(c)
    PROVE  OwnersKept'
<1>1. /\ Call' = Call
      /\ \A d \in Call : ToolOf(d)' = ToolOf(d) /\ Revises(d)' = Revises(d)
      /\ \A d \in Call : (Holds(d)' => Holds(d)) /\ (call[d] = "done" => call'[d] = "done")
  BY DEF OnlyCall, Call, ToolOf, Revises, Root, Holds
<1>2. \A d \in Call : Revises(d)' \/ call'[d] = "new" => ~owns'[d]
  BY <1>1 DEF OwnersKept, OnlyCall
<1>3. \A d \in Call : IsTarget(ToolOf(d)) /\ ~Tools[ToolOf(d)].asks /\ Holds(d)' =>
          ToolOf(d) \in reserved /\ \A e \in Call : Holds(e)' /\ ToolOf(e) = ToolOf(d) => d = e
  BY <1>1 DEF OwnersKept
<1>4. \A k \in Key : results[k] # Nothing =>
          owns[results[k]] /\ ToolOf(results[k]) = k /\ call'[results[k]] = "done"
  BY <1>1 DEF OwnersKept, KeysTyped
<1>5. \A k \in Key : results[k] # Nothing => results[k] \in Call
  BY DEF KeysTyped
<1> QED BY <1>1, <1>2, <1>3, <1>4, <1>5 DEF OwnersKept, IsTarget, Key

\* The end of a call: its key is free again, or it goes on holding it.
LEMMA OwnersEnd ==
    ASSUME CallsTyped, KeysTyped, OwnersKept, NEW c \in Call, OnlyCall(c),
           call[c] \notin {"new", "done"}, call'[c] = "done", owns' = owns,
           \/ reserved' = reserved
           \/ ~Holds(c)' /\ reserved' = IF owns[c] THEN reserved \ {ToolOf(c)} ELSE reserved,
           Holds(c)' => Holds(c), fate[c] = Nothing,
           \A k \in Key : results'[k] \in {results[k], Nothing} \/
                            (results'[k] = c /\ owns[c] /\ ToolOf(c) = k)
    PROVE  OwnersKept'
<1>1. /\ Call' = Call
      /\ \A d \in Call : ToolOf(d)' = ToolOf(d) /\ Revises(d)' = Revises(d)
      /\ \A d \in Call : (Holds(d)' => Holds(d)) /\ (call[d] = "done" => call'[d] = "done")
  BY DEF OnlyCall, Call, ToolOf, Revises, Root, Holds
<1>2. \A d \in Call : Revises(d)' \/ call'[d] = "new" => ~owns'[d]
  BY <1>1 DEF OwnersKept, OnlyCall
<1>3. owns[c] => Holds(c)
  BY RuntimeAssumption DEF Holds
<1>4. \A d \in Call : IsTarget(ToolOf(d)) /\ ~Tools[ToolOf(d)].asks /\ Holds(d)' =>
          ToolOf(d) \in reserved' /\ \A e \in Call : Holds(e)' /\ ToolOf(e) = ToolOf(d) => d = e
  BY <1>1, <1>3 DEF OwnersKept
<1>5. \A k \in Key : results'[k] # Nothing =>
          owns[results'[k]] /\ ToolOf(results'[k]) = k /\ call'[results'[k]] = "done"
  BY <1>1 DEF OwnersKept, KeysTyped
<1>6. \A k \in Key : results'[k] # Nothing => results'[k] \in Call
  BY DEF KeysTyped
<1> QED BY <1>1, <1>2, <1>4, <1>5, <1>6 DEF OwnersKept, IsTarget, Key

LEMMA OwnersArrive ==
    ASSUME CallsTyped, KeysTyped, OwnersKept, NEW c \in Call, OnlyCall(c), Arrive(c)
    PROVE  OwnersKept'
<1> DEFINE k == ToolOf(c)
           fresh == NewRound(c)
           taken == reserved \ (IF fresh THEN {k} ELSE {})
<1>1. /\ call[c] = "new" /\ call'[c] = "resolving" /\ ~Revises(c) /\ fate' = fate
      /\ owns' = [owns EXCEPT ![c] = Reserves(c, taken)]
      /\ reserved' = IF IsTarget(k) THEN taken \cup {k} ELSE taken
      /\ results' = [results EXCEPT ![k] = IF fresh THEN Nothing ELSE @]
  BY DEF Arrive, At, Goes, CallsTyped
<1>2. /\ Call' = Call
      /\ \A d \in Call : ToolOf(d)' = ToolOf(d) /\ Revises(d)' = Revises(d)
      /\ \A d \in Call : d # c => Holds(d)' = Holds(d) /\ call'[d] = call[d] /\ owns'[d] = owns[d]
  BY DEF OnlyCall, Call, ToolOf, Revises, Root, Holds
<1>3. \A d \in Call : Revises(d)' \/ call'[d] = "new" => ~owns'[d]
  BY <1>1, <1>2 DEF OwnersKept
<1>4. ASSUME NEW d \in Call, IsTarget(ToolOf(d)), ~Tools[ToolOf(d)].asks, Holds(d)'
      PROVE  ToolOf(d) \in reserved' /\ \A e \in Call : Holds(e)' /\ ToolOf(e) = ToolOf(d) => d = e
  <2>1. CASE ToolOf(d) # k
    BY <1>1, <1>2, <1>4, <2>1 DEF OwnersKept
  <2>2. CASE ToolOf(d) = k
    <3>1. ~fresh /\ taken = reserved /\ reserved' = reserved \cup {k}
      BY <1>1, <1>4, <2>2 DEF NewRound
    <3>2. Holds(c)' => k \notin reserved
      BY <1>1, <1>4, <2>2, <3>1 DEF Holds, Reserves, CallsTyped
    <3> QED BY <1>2, <1>4, <2>2, <3>1, <3>2 DEF OwnersKept
  <2> QED BY <2>1, <2>2
<1>5. \A j \in Key : results'[j] # Nothing => results'[j] = results[j] /\ results[j] # c
  BY <1>1 DEF KeysTyped, OwnersKept
<1>6. \A j \in Key : results'[j] # Nothing =>
          owns'[results'[j]] /\ ToolOf(results'[j]) = j /\ call'[results'[j]] = "done"
                /\ results'[j] \in Call
  BY <1>2, <1>5 DEF OwnersKept, KeysTyped
<1> QED BY <1>2, <1>3, <1>4, <1>6 DEF OwnersKept, IsTarget, Key

-----------------------------------------------------------------------------

LEMMA RevisionsUntouched ==
    ASSUME CallsTyped, RevisionsKept, NEW c \in Call, OnlyCall(c),
           Live(c)' => Live(c), Replaced(c)' => Replaced(c),
           fate[c] # Nothing => fate'[c] # Nothing,
           claims' = claims, branch' = branch
    PROVE  RevisionsKept'
<1>1. /\ Call' = Call
      /\ \A d \in Call : ToolOf(d)' = ToolOf(d) /\ Revises(d)' = Revises(d) /\ Root(d)' = Root(d)
      /\ \A d \in Call : calls'[d].parent = calls[d].parent
      /\ \A d \in Call : (Live(d)' => Live(d)) /\ (Replaced(d)' => Replaced(d))
      /\ \A d \in Call : fate[d] # Nothing => fate'[d] # Nothing
  BY DEF OnlyCall, Call, ToolOf, Revises, Root, Live, Replaced
<1>2. \A d, e \in Call : SameBranch(d, e)' = SameBranch(d, e) /\ SameGeneration(d, e)' = SameGeneration(d, e)
  BY <1>1 DEF SameBranch, SameGeneration
<1>3. \A d \in Call : Revises(d) => calls[d].parent \in Call
  BY RuntimeAssumption DEF CallsTyped, Call, Revises, Root
<1>4. \A d \in Call : ToolOf(calls[d].parent)' = ToolOf(calls[d].parent)
  BY DEF OnlyCall, ToolOf
<1>5. \A d \in Call : Live(d)' \/ Replaced(d)' =>
          fate'[calls[d].parent] # Nothing /\ ToolOf(calls[d].parent) = ToolOf(d)
  BY <1>1, <1>3 DEF RevisionsKept, Live, Replaced
<1> QED BY <1>1, <1>2, <1>4, <1>5 DEF RevisionsKept

LEMMA CallsKnown ==
    ASSUME CallsTyped
    PROVE  /\ Nothing \notin Call
           /\ \A c \in Call : ToolOf(c) \in Key /\ Root(c) \in Call \cup {Nothing}
           /\ \A c \in Call : Revises(c) => Root(c) \in Call /\ calls[c].parent \in Call
BY RuntimeAssumption DEF CallsTyped, Call, Key, Revises, Root, ToolOf

LEMMA OnlyCallFrame ==
    ASSUME CallsTyped, NEW c \in Call, OnlyCall(c)
    PROVE  /\ Call' = Call
           /\ \A d \in Call : /\ ToolOf(d)' = ToolOf(d) /\ Revises(d)' = Revises(d)
                              /\ Root(d)' = Root(d) /\ calls'[d].parent = calls[d].parent
                              /\ ToolOf(calls[d].parent)' = ToolOf(calls[d].parent)
           /\ \A d, e \in Call : SameBranch(d, e)' = SameBranch(d, e)
           /\ \A d, e \in Call : SameGeneration(d, e)' = SameGeneration(d, e)
           /\ \A d \in Call : d # c => Live(d)' = Live(d) /\ Replaced(d)' = Replaced(d)
BY DEF OnlyCall, Call, ToolOf, Revises, Root, Live, Replaced, SameBranch, SameGeneration

LEMMA RevisionAdmitted ==
    ASSUME CallsTyped, KeysTyped, RevisionsKept, NEW c \in Call, OnlyCall(c), fate' = fate,
           branch' = branch, call[c] = "new", call'[c] = "resolving",
           Revises(c), Admissible(c), claims' = claims \cup {<<Root(c), ToolOf(c)>>}
    PROVE  RevisionsKept'
<1> DEFINE k == ToolOf(c)
           r == Root(c)
           p == calls[c].parent
<1>1. /\ fate[p] # Nothing /\ ToolOf(p) = k /\ Visible(r, k) = p /\ <<r, k>> \notin claims
  BY RuntimeAssumption DEF Admissible, AdmissibleUnclaimed, Recorded
<1>2. /\ fate[c] = Nothing /\ ~Live(c) /\ ~Replaced(c) /\ Live(c)' /\ ~Replaced(c)'
  BY OnlyCallFrame, RuntimeAssumption DEF CallsTyped, Live, Replaced
<1>3. branch[<<r, k>>] \in {Nothing, p}
  BY <1>1 DEF Visible
<1>4. \A d \in Call : Live(d) => ~SameBranch(c, d)
  BY <1>1 DEF RevisionsKept, SameBranch
<1>5. \A d \in Call : Replaced(d) => ~SameGeneration(c, d)
  BY <1>1, <1>3 DEF RevisionsKept, SameGeneration
<1>6. \A d \in Call : Live(d)' => <<Root(d), ToolOf(d)>> \in claims'
  BY <1>2, OnlyCallFrame DEF RevisionsKept
<1>7. \A d, e \in Call : Live(d)' /\ Live(e)' /\ SameBranch(d, e) => d = e
  BY <1>2, <1>4, OnlyCallFrame DEF RevisionsKept, SameBranch
<1>8. \A d \in Call : Live(d)' \/ Replaced(d)' =>
          fate[calls[d].parent] # Nothing /\ ToolOf(calls[d].parent) = ToolOf(d)
  BY <1>1, <1>2, OnlyCallFrame DEF RevisionsKept
<1>9. \A d \in Call : Replaced(d)' => branch[<<Root(d), ToolOf(d)>>] \notin {Nothing, calls[d].parent}
  BY <1>2, OnlyCallFrame DEF RevisionsKept
<1>10. \A d, e \in Call : (Live(d)' \/ Replaced(d)') /\ Replaced(e)' /\ d # e => ~SameGeneration(d, e)
  BY <1>2, <1>5, OnlyCallFrame DEF RevisionsKept
<1> HIDE DEF k, r, p
<1> QED BY <1>6, <1>7, <1>8, <1>9, <1>10, OnlyCallFrame DEF RevisionsKept

LEMMA RevisionEnds ==
    ASSUME CallsTyped, KeysTyped, RevisionsKept, NEW c \in Call, OnlyCall(c),
           call[c] \notin {"new", "refused", "done"}, call'[c] = "done",
           fate[c] = Nothing, fate'[c] # Nothing,
           claims' = claims \ (IF Revises(c) THEN {<<Root(c), ToolOf(c)>>} ELSE {}),
           \/ branch' = branch
           \/ Revises(c) /\ branch' = [branch EXCEPT ![<<Root(c), ToolOf(c)>>] = c],
           Revises(c) /\ fate'[c] = "ok" => branch' = [branch EXCEPT ![<<Root(c), ToolOf(c)>>] = c]
    PROVE  RevisionsKept'
<1>1. /\ Live(c) <=> Revises(c)
      /\ ~Replaced(c) /\ ~Live(c)' /\ (Replaced(c)' => Live(c))
  BY OnlyCallFrame, RuntimeAssumption DEF Live, Replaced
<1>2. \A d \in Call : Live(d)' => <<Root(d), ToolOf(d)>> \in claims'
  <2> TAKE d \in Call
  <2> HAVE Live(d)'
  <2>1. d # c /\ Live(d) /\ <<Root(d), ToolOf(d)>> \in claims
    BY <1>1, OnlyCallFrame DEF RevisionsKept
  <2>2. Revises(c) => ~SameBranch(c, d)
    BY <1>1, <2>1 DEF RevisionsKept
  <2> QED BY <2>1, <2>2 DEF SameBranch
<1>3. \A d, e \in Call : Live(d)' /\ Live(e)' /\ SameBranch(d, e) => d = e
  BY <1>1, OnlyCallFrame DEF RevisionsKept
<1>4. \A d \in Call : Live(d)' \/ Replaced(d)' => calls[d].parent \in Call
          /\ fate[calls[d].parent] # Nothing /\ ToolOf(calls[d].parent) = ToolOf(d)
  BY <1>1, OnlyCallFrame, CallsKnown DEF RevisionsKept, Live, Replaced
<1>5. \A d \in Call : fate[d] # Nothing => fate'[d] # Nothing
  BY DEF OnlyCall
<1>6. ASSUME NEW d \in Call, Replaced(d)'
      PROVE  branch'[<<Root(d), ToolOf(d)>>] \notin {Nothing, calls[d].parent}
  <2>1. calls[d].parent # c
    BY <1>4, <1>6
  <2>2. <<Root(d), ToolOf(d)>> \in Call \X Key /\ c # Nothing
    BY <1>6, CallsKnown, OnlyCallFrame DEF Replaced
  <2>3. CASE d = c
    <3>1. Revises(c) /\ fate'[c] = "ok"
      BY <1>6, <2>3, OnlyCallFrame DEF Replaced
    <3>2. branch'[<<Root(c), ToolOf(c)>>] = c
      BY <3>1, <2>2, <2>3 DEF KeysTyped
    <3> QED BY <3>2, <2>1, <2>2, <2>3
  <2>4. CASE d # c
    <3>1. branch[<<Root(d), ToolOf(d)>>] \notin {Nothing, calls[d].parent}
      BY <1>6, <2>4, OnlyCallFrame DEF RevisionsKept
    <3>2. branch'[<<Root(d), ToolOf(d)>>] \in {branch[<<Root(d), ToolOf(d)>>], c}
      BY <2>2 DEF KeysTyped
    <3> QED BY <3>1, <3>2, <2>1, <2>2
  <2> QED BY <2>3, <2>4
<1>7. \A d, e \in Call : (Live(d)' \/ Replaced(d)') /\ Replaced(e)' /\ d # e => ~SameGeneration(d, e)
  <2> TAKE d, e \in Call
  <2> HAVE (Live(d)' \/ Replaced(d)') /\ Replaced(e)' /\ d # e
  <2>1. CASE e # c
    <3>1. (Live(d) \/ Replaced(d)) /\ Replaced(e)
      BY <1>1, <2>1, OnlyCallFrame
    <3> QED BY <3>1 DEF RevisionsKept
  <2>2. CASE e = c
    <3>1. d # c /\ (Live(d) \/ Replaced(d)) /\ Live(c)
      BY <1>1, <2>2, OnlyCallFrame
    <3>2. CASE Replaced(d)
      BY <2>2, <3>1, <3>2 DEF RevisionsKept, SameGeneration
    <3>3. CASE Live(d)
      <4>1. SameGeneration(d, c) => SameBranch(d, c)
        BY <3>1, <3>3 DEF RevisionsKept, SameGeneration, SameBranch
      <4> QED BY <4>1, <2>2, <3>1, <3>3 DEF RevisionsKept
    <3> QED BY <3>1, <3>2, <3>3
  <2> QED BY <2>1, <2>2
<1>8. \A d \in Call : Live(d)' \/ Replaced(d)' =>
          fate'[calls[d].parent] # Nothing /\ ToolOf(calls[d].parent) = ToolOf(d)
  BY <1>4, <1>5
<1> QED BY <1>2, <1>3, <1>6, <1>7, <1>8, OnlyCallFrame DEF RevisionsKept

-----------------------------------------------------------------------------

LEMMA StepOfOne ==
    ASSUME CallsTyped, NEW c \in Call, NEW w, Goes(c, w), calls' = calls,
           owns' = owns, fate' = fate \/ \E how : fate' = [fate EXCEPT ![c] = how]
    PROVE  OnlyCall(c)
BY DEF OnlyCall, Goes, CallsTyped

LEMMA AtPlace ==
    ASSUME CallsTyped, NEW c \in Call, NEW w \in OnLoop \cup Suspended, At(c, w)
    PROVE  /\ Caller(c) /\ call[c] = w
           /\ w # "done" => fate[c] = Nothing
<1>1. Caller(c)
  BY CallerAlone
<1> QED BY <1>1 DEF At, CallsTyped

\* A call goes from one place to another and changes nothing that others read.
LEMMA CallMoves ==
    ASSUME RuntimeInv, NEW c \in Call, Caller(c), call[c] \notin {"new", "refused", "done"},
           NEW w \in (OnLoop \cup Suspended) \ {"new", "refused", "done"}, Goes(c, w),
           UNCHANGED <<calls, owns, sets, fate, keyVars, revisionVars>>,
           awaits' \in [Call -> Nat], injected' \in [Call -> Call \cup {Nothing}],
           OnlyCall(c) => LaneKept'
    PROVE  RuntimeInv'
<1> USE DEF RuntimeInv
<1>1. OnlyCall(c)
  BY StepOfOne
<1>2. call'[c] = w /\ call[c] \in OnLoop \cup Suspended
  BY DEF Goes, CallsTyped
<1>3. CallsTyped'
  <2>1. owns' \in [Call -> BOOLEAN] /\ sets' \in [Call -> Nat]
    BY DEF CallsTyped
  <2> QED BY <2>1, RuntimeCallsStep
<1>4. KeysTyped'
  BY DEF KeysTyped, keyVars, revisionVars, Call
<1>5. OwnersKept'
  <2>1. Holds(c)' => Holds(c)
    BY DEF Holds
  <2> QED BY <2>1, <1>1, <1>2, OwnersUntouched DEF keyVars
<1>6. RevisionsKept'
  <2>1. (Live(c)' => Live(c)) /\ (Replaced(c)' => Replaced(c))
    BY <1>1, <1>2, OnlyCallFrame DEF Live, Replaced
  <2> QED BY <2>1, <1>1, RevisionsUntouched DEF revisionVars
<1> QED BY <1>1, <1>3, <1>4, <1>5, <1>6

LEMMA OutsideLane ==
    ASSUME LaneKept, NEW c \in Call, OnlyCall(c), UNCHANGED laneVars,
           call[c] \notin {"queued", "running", "cancelling"},
           call'[c] \notin {"queued", "running", "cancelling"}
    PROVE  LaneKept'
<1>1. InLane(c)' = InLane(c) /\ Working(c)' = Working(c)
  BY DEF InLane, Working
<1> QED BY <1>1, LaneUntouched DEF laneVars

LEMMA EarlyAnswer ==
    ASSUME RuntimeInv, NEW c \in Call, Refuse(c) \/ RefuseRevision(c)
    PROVE  RuntimeInv'
<1> USE DEF RuntimeInv
<1>1. /\ Caller(c) /\ fate[c] = Nothing /\ call[c] \in {"new", "refused"}
      /\ Goes(c, "done") /\ fate' = [fate EXCEPT ![c] = "error"]
      /\ UNCHANGED <<calls, owns, sets, awaits, injected, keyVars, revisionVars, laneVars>>
  BY AtPlace DEF Refuse, RefuseRevision, OnLoop, Suspended
<1>2. OnlyCall(c) /\ call'[c] = "done" /\ fate'[c] = "error"
  BY <1>1, StepOfOne DEF Goes, CallsTyped
<1>3. CallsTyped'
  <2>1. /\ owns' \in [Call -> BOOLEAN] /\ sets' \in [Call -> Nat] /\ awaits' \in [Call -> Nat]
        /\ injected' \in [Call -> Call \cup {Nothing}]
    BY <1>1 DEF CallsTyped
  <2>2. "done" \in OnLoop \cup Suspended
    BY DEF Suspended
  <2> QED BY <1>1, <2>1, <2>2, RuntimeCallsStep
<1>4. KeysTyped'
  BY <1>1 DEF KeysTyped, keyVars, revisionVars, Call
<1>5. LaneKept'
  BY <1>1, <1>2, OutsideLane
<1>6. OwnersKept'
  <2>1. ~Holds(c)'
    BY <1>2 DEF Holds
  <2> QED BY <2>1, <1>1, <1>2, OwnersUntouched DEF keyVars
<1>7. RevisionsKept'
  <2>1. ~Live(c)' /\ ~Replaced(c)'
    BY <1>2 DEF Live, Replaced
  <2> QED BY <2>1, <1>1, <1>2, RevisionsUntouched, RuntimeAssumption DEF revisionVars
<1> QED BY <1>3, <1>4, <1>5, <1>6, <1>7

LEMMA CallArrives ==
    ASSUME RuntimeInv, NEW c \in Call, Arrive(c)
    PROVE  RuntimeInv'
<1> USE DEF RuntimeInv
<1> DEFINE k == ToolOf(c)
           fresh == NewRound(c)
           taken == reserved \ (IF fresh THEN {k} ELSE {})
           number == IF fresh \/ event[k] = 0 THEN event[k] + 1 ELSE event[k]
<1>1. /\ Caller(c) /\ fate[c] = Nothing /\ call[c] = "new" /\ ~Revises(c) /\ k \in Key
      /\ Goes(c, "resolving")
  BY AtPlace, CallsKnown DEF Arrive, Suspended
<1>2. /\ results' = [results EXCEPT ![k] = IF fresh THEN Nothing ELSE @]
      /\ failures' = failures \ (IF fresh THEN {k} ELSE {})
      /\ event' = [event EXCEPT ![k] = number] /\ sets' = [sets EXCEPT ![c] = number]
      /\ owns' = [owns EXCEPT ![c] = Reserves(c, taken)]
      /\ reserved' = IF IsTarget(k) THEN taken \cup {k} ELSE taken
      /\ UNCHANGED <<calls, awaits, fate, injected, fired, base, branch, claims, laneVars>>
  BY DEF Arrive, revisionVars
<1>3. OnlyCall(c) /\ call'[c] = "resolving"
  BY <1>1, <1>2 DEF OnlyCall, Goes, CallsTyped
<1>4. number \in Nat /\ Reserves(c, taken) \in BOOLEAN
  BY <1>1 DEF KeysTyped, Reserves
<1>5. CallsTyped'
  <2>1. /\ owns' \in [Call -> BOOLEAN] /\ sets' \in [Call -> Nat] /\ awaits' \in [Call -> Nat]
        /\ injected' \in [Call -> Call \cup {Nothing}]
    BY <1>2, <1>4 DEF CallsTyped
  <2>2. "resolving" \in OnLoop \cup Suspended
    BY DEF OnLoop
  <2> QED BY <1>1, <1>2, <2>1, <2>2, RuntimeCallsStep
<1>6. KeysTyped'
  <2>1. reserved' \subseteq Key /\ failures' \subseteq Key
    BY <1>1, <1>2 DEF KeysTyped
  <2>2. event' \in [Key -> Nat]
    BY <1>2, <1>4 DEF KeysTyped
  <2>3. results' \in [Key -> Call \cup {Nothing}]
    BY <1>2 DEF KeysTyped
  <2> QED BY <2>1, <2>2, <2>3, <1>2 DEF KeysTyped, Call, Key
<1>7. LaneKept'
  BY <1>1, <1>2, <1>3, OutsideLane
<1>8. OwnersKept'
  BY <1>3, OwnersArrive
<1>9. RevisionsKept'
  <2>1. ~Live(c)' /\ ~Replaced(c)'
    BY <1>1, <1>3, OnlyCallFrame DEF Live, Replaced
  <2> QED BY <2>1, <1>1, <1>2, <1>3, RevisionsUntouched
<1> QED BY <1>5, <1>6, <1>7, <1>8, <1>9

LEMMA CallRevises ==
    ASSUME RuntimeInv, NEW c \in Call, Revise(c)
    PROVE  RuntimeInv'
<1> USE DEF RuntimeInv
<1>1. /\ Caller(c) /\ fate[c] = Nothing /\ call[c] = "new" /\ Revises(c)
      /\ UNCHANGED <<calls, owns, sets, awaits, fate, injected, keyVars, branch, laneVars>>
  BY AtPlace DEF Revise, Suspended
<1>2. PICK w \in {"resolving", "refused"} :
          /\ Goes(c, w)
          /\ \/ /\ w = "resolving" /\ Admissible(c)
                /\ claims' = claims \cup {<<Root(c), ToolOf(c)>>}
             \/ w = "refused" /\ claims' = claims
  BY DEF Revise
<1>3. OnlyCall(c) /\ call'[c] = w
  BY <1>1, <1>2 DEF OnlyCall, Goes, CallsTyped
<1>4. CallsTyped'
  <2>1. /\ owns' \in [Call -> BOOLEAN] /\ sets' \in [Call -> Nat] /\ awaits' \in [Call -> Nat]
        /\ injected' \in [Call -> Call \cup {Nothing}]
    BY <1>1 DEF CallsTyped
  <2>2. w \in OnLoop \cup Suspended /\ w # "done"
    BY DEF OnLoop
  <2> QED BY <1>1, <1>2, <2>1, <2>2, RuntimeCallsStep
<1>5. KeysTyped'
  BY <1>1 DEF KeysTyped, keyVars, Call
<1>6. LaneKept'
  BY <1>1, <1>3, OutsideLane
<1>7. OwnersKept'
  <2>1. Holds(c)' => Holds(c)
    BY <1>1 DEF Holds
  <2> QED BY <2>1, <1>1, <1>3, OwnersUntouched DEF keyVars
<1>8. RevisionsKept'
  <2>1. CASE w = "resolving"
    BY <2>1, <1>1, <1>2, <1>3, RevisionAdmitted
  <2>2. CASE w = "refused"
    <3>1. ~Live(c)' /\ ~Replaced(c)'
      BY <2>2, <1>1, <1>3, RuntimeAssumption DEF Live, Replaced
    <3> QED BY <3>1, <2>2, <1>1, <1>2, <1>3, RevisionsUntouched
  <2> QED BY <2>1, <2>2
<1> QED BY <1>4, <1>5, <1>6, <1>7, <1>8

LEMMA CallReads ==
    ASSUME RuntimeInv, NEW c \in Call,
           Resolve(c) \/ Retry(c) \/ Wake(c) \/ ResolveRevision(c)
    PROVE  RuntimeInv'
<1> USE DEF RuntimeInv
<1>1. Caller(c) /\ call[c] \in {"resolving", "retrying", "waiting"}
  BY AtPlace DEF Resolve, Retry, Wake, ResolveRevision, OnLoop, Suspended
<1>2. UNCHANGED <<calls, owns, sets, fate, keyVars, revisionVars, laneVars>>
  BY DEF Resolve, Retry, Wake, ResolveRevision
<1>3. PICK w \in {"resolving", "entering", "retrying", "waiting", "failing"} : Goes(c, w)
  BY DEF Resolve, Retry, Wake, ResolveRevision, Reading
<1>6. Reads(c) \in Key \cup {Nothing}
  BY CallsKnown, RuntimeAssumption DEF Reads, Key
<1>7. Reading(c) /\ Reads(c) \in Key => injected' \in [Call -> Call \cup {Nothing}]
  BY DEF Reading, CallsTyped, KeysTyped
<1>8. awaits' \in [Call -> Nat] /\ injected' \in [Call -> Call \cup {Nothing}]
  <2>1. CASE Resolve(c)
    <3>1. awaits' \in [Call -> Nat]
      BY <2>1, <1>6 DEF Resolve, CallsTyped, KeysTyped
    <3>2. injected' = injected \/ (Reading(c) /\ Reads(c) # Nothing)
      BY <2>1 DEF Resolve
    <3> QED BY <3>1, <3>2, <1>6, <1>7 DEF CallsTyped
  <2>2. CASE Retry(c)
    BY <2>2 DEF Retry, CallsTyped
  <2>3. CASE Wake(c)
    <3>1. Reads(c) \in Key
      BY <2>3 DEF Wake, KeysTyped
    <3> QED BY <2>3, <3>1, <1>7 DEF Wake, CallsTyped
  <2>4. CASE ResolveRevision(c)
    <3> DEFINE k == Reads(c)
               value == IF k = Nothing THEN Nothing
                        ELSE IF branch[<<Root(c), k>>] # Nothing THEN branch[<<Root(c), k>>]
                             ELSE base[k]
    <3>1. Root(c) \in Call
      BY <2>4, CallsKnown DEF ResolveRevision
    <3>2. value \in Call \cup {Nothing}
      <4>1. CASE k = Nothing
        BY <4>1
      <4>2. CASE k \in Key
        <5>1. branch[<<Root(c), k>>] \in Call \cup {Nothing} /\ base[k] \in Call \cup {Nothing}
          BY <3>1, <4>2 DEF KeysTyped
        <5> QED BY <5>1
      <4> QED BY <1>6, <4>1, <4>2
    <3>3. injected' = injected \/ injected' = [injected EXCEPT ![c] = value]
      BY <2>4 DEF ResolveRevision
    <3>4. awaits' = awaits
      BY <2>4 DEF ResolveRevision
    <3> HIDE DEF value
    <3> QED BY <3>2, <3>3, <3>4 DEF CallsTyped
  <2> QED BY <2>1, <2>2, <2>3, <2>4
<1>4. OnlyCall(c) => LaneKept'
  BY <1>1, <1>2, <1>3, OutsideLane DEF Goes, CallsTyped
<1>5. w \in (OnLoop \cup Suspended) \ {"new", "refused", "done"}
  BY DEF OnLoop, Suspended
<1> QED BY <1>1, <1>2, <1>3, <1>4, <1>5, <1>8, CallMoves

LEMMA CallEnters ==
    ASSUME RuntimeInv, NEW c \in Call, Enter(c) \/ LaneOpens(c)
    PROVE  RuntimeInv'
<1> USE DEF RuntimeInv
<1>1. Caller(c) /\ call[c] \in {"entering", "queued"}
  BY AtPlace DEF Enter, LaneOpens, OnLoop, Suspended
<1>2. UNCHANGED <<calls, owns, sets, awaits, fate, injected, keyVars, revisionVars>>
  BY DEF Enter, LaneOpens
<1>3. PICK w \in {"queued", "running"} : Goes(c, w)
  BY DEF Enter, LaneOpens
<1>4. OnlyCall(c) => LaneKept'
  BY LaneEntered, LaneOpened
<1>5. w \in (OnLoop \cup Suspended) \ {"new", "refused", "done"}
  BY DEF OnLoop, Suspended
<1>6. awaits' \in [Call -> Nat] /\ injected' \in [Call -> Call \cup {Nothing}]
  BY <1>2 DEF CallsTyped
<1> QED BY <1>1, <1>2, <1>3, <1>4, <1>5, <1>6, CallMoves

LEMMA TargetEnds ==
    ASSUME RuntimeInv, NEW c \in Call,
           NEW how \in {"succeeding", "skipping", "failing", "invalid"}, TargetReturns(c, how)
    PROVE  RuntimeInv'
<1> USE DEF RuntimeInv
<1>1. Caller(c) /\ call[c] = "running" /\ Goes(c, how) /\ call'[c] = how
  BY AtPlace DEF TargetReturns, Suspended, Goes, CallsTyped
<1>2. /\ UNCHANGED <<calls, owns, sets, awaits, fate, injected, keyVars, revisionVars>>
      /\ worker' = worker \ {c} /\ lane' = RemoveFirst(lane, c)
  BY DEF TargetReturns, LeaveLane
<1>3. OnlyCall(c) => LaneKept'
  <2>1. ~InLane(c)'
    BY <1>1 DEF InLane
  <2> QED BY <1>2, <2>1, LaneLeft
<1>4. how \in (OnLoop \cup Suspended) \ {"new", "refused", "done"}
  BY DEF OnLoop, Suspended
<1>5. awaits' \in [Call -> Nat] /\ injected' \in [Call -> Call \cup {Nothing}]
  BY <1>2 DEF CallsTyped
<1> QED BY <1>1, <1>2, <1>3, <1>4, <1>5, CallMoves

LEMMA CancelWaits ==
    ASSUME RuntimeInv, NEW c \in Call, Cancel(c), call[c] = "running", Serial(c)
    PROVE  RuntimeInv'
<1> USE DEF RuntimeInv
<1>1. /\ Caller(c) /\ Goes(c, "cancelling") /\ call'[c] = "cancelling"
      /\ UNCHANGED <<calls, owns, sets, awaits, fate, injected, keyVars, revisionVars, laneVars>>
  BY CallerAlone DEF Cancel, Goes, CallsTyped, keyVars, revisionVars, laneVars
<1>2. OnlyCall(c) => LaneKept'
  <2>1. OnlyCall(c) => InLane(c)' = InLane(c) /\ Working(c)' = Working(c)
    BY <1>1, OnlyCallFrame DEF InLane, Working, OnlyCall, Serial, ToolOf
  <2> QED BY <1>1, <2>1, LaneUntouched DEF laneVars
<1>3. "cancelling" \in (OnLoop \cup Suspended) \ {"new", "refused", "done"}
  BY DEF OnLoop, Suspended
<1>4. awaits' \in [Call -> Nat] /\ injected' \in [Call -> Call \cup {Nothing}]
  BY <1>1 DEF CallsTyped
<1> QED BY <1>1, <1>2, <1>3, <1>4, CallMoves

LEMMA ThreadLeftBehind ==
    ASSUME RuntimeInv, NEW c \in Call, CancelledTargetReturns(c), call[c] = "done"
    PROVE  RuntimeInv'
<1> USE DEF RuntimeInv
<1>1. UNCHANGED <<callVars, keyVars, revisionVars, lane>> /\ worker' = worker \ {c}
  BY DEF CancelledTargetReturns, keyVars, revisionVars
<1>2. OnlyCall(c)
  BY <1>1 DEF OnlyCall, callVars
<1>3. CallsTyped' /\ KeysTyped'
  BY <1>1 DEF CallsTyped, KeysTyped, callVars, keyVars, revisionVars, Call
<1>4. LaneKept'
  <2>1. InLane(c)' = InLane(c) /\ Working(c)' = Working(c)
    BY <1>1 DEF InLane, Working, Serial, ToolOf, callVars
  <2> QED BY <1>1, <1>2, <2>1, LaneUntouched
<1>5. OwnersKept'
  <2>1. Holds(c)' => Holds(c)
    BY <1>1 DEF Holds, callVars
  <2> QED BY <2>1, <1>1, <1>2, OwnersUntouched DEF callVars, keyVars
<1>6. RevisionsKept'
  <2>1. (Live(c)' => Live(c)) /\ (Replaced(c)' => Replaced(c))
    BY <1>1 DEF Live, Replaced, Revises, Root, callVars
  <2> QED BY <2>1, <1>1, <1>2, RevisionsUntouched DEF callVars, revisionVars
<1> QED BY <1>3, <1>4, <1>5, <1>6

-----------------------------------------------------------------------------

\* The common end of a call, whatever it leaves for the tools that read it.
LEMMA CallEnds ==
    ASSUME RuntimeInv, NEW c \in Call, Caller(c), call[c] \notin {"new", "refused", "done"},
           NEW how \in {"ok", "error", "invalid", "skipped", "cancelled"}, Ends(c, how),
           reserved' \subseteq Key, failures' \subseteq Key,
           results' \in [Key -> Call \cup {Nothing}], base' \in [Key -> Call \cup {Nothing}],
           OnlyCall(c) => LaneKept',
           \/ reserved' = reserved
           \/ how \in {"error", "invalid"} /\ reserved' = IF owns[c] THEN reserved \ {ToolOf(c)} ELSE reserved,
           \A k \in Key : results'[k] \in {results[k], Nothing} \/
                            (results'[k] = c /\ owns[c] /\ ToolOf(c) = k),
           \/ branch' = branch
           \/ Revises(c) /\ branch' = [branch EXCEPT ![<<Root(c), ToolOf(c)>>] = c],
           Revises(c) /\ how = "ok" => branch' = [branch EXCEPT ![<<Root(c), ToolOf(c)>>] = c]
    PROVE  RuntimeInv'
<1> USE DEF RuntimeInv
<1>1. /\ Goes(c, "done") /\ fate' = [fate EXCEPT ![c] = how]
      /\ claims' = claims \ (IF Revises(c) THEN {<<Root(c), ToolOf(c)>>} ELSE {})
      /\ UNCHANGED <<calls, owns, sets, awaits, injected, event, batches>>
  BY DEF Ends
<1>2. OnlyCall(c) /\ call'[c] = "done" /\ fate'[c] = how /\ fate[c] = Nothing /\ how # Nothing
  BY <1>1, StepOfOne, RuntimeAssumption DEF Goes, CallsTyped
<1>3. CallsTyped'
  <2>1. /\ owns' \in [Call -> BOOLEAN] /\ sets' \in [Call -> Nat] /\ awaits' \in [Call -> Nat]
        /\ injected' \in [Call -> Call \cup {Nothing}]
    BY <1>1 DEF CallsTyped
  <2>2. "done" \in OnLoop \cup Suspended
    BY DEF Suspended
  <2> QED BY <1>1, <2>1, <2>2, RuntimeCallsStep
<1>4. KeysTyped'
  <2>1. Call' = Call /\ Key' = Key
    BY <1>1 DEF Call, Key
  <2>2. branch' \in [Call \X Key -> Call \cup {Nothing}]
    BY DEF KeysTyped
  <2>3. fired' \subseteq Key \X Nat
    BY CallsKnown DEF KeysTyped, CallsTyped, Ends
  <2> QED BY <1>1, <2>1, <2>2, <2>3 DEF KeysTyped
<1>5. OwnersKept'
  <2>1. (Holds(c)' => Holds(c)) /\ (how \in {"error", "invalid"} => ~Holds(c)')
    BY <1>1, <1>2, RuntimeAssumption DEF Holds
  <2>2. \/ reserved' = reserved
        \/ ~Holds(c)' /\ reserved' = IF owns[c] THEN reserved \ {ToolOf(c)} ELSE reserved
    BY <2>1
  <2> QED BY <1>1, <1>2, <2>1, <2>2, OwnersEnd
<1>6. RevisionsKept'
  BY <1>1, <1>2, RevisionEnds
<1> QED BY <1>2, <1>3, <1>4, <1>5, <1>6

LEMMA CallSucceeds ==
    ASSUME RuntimeInv, NEW c \in Call, Succeed(c) \/ Unserializable(c)
    PROVE  RuntimeInv'
<1> USE DEF RuntimeInv
<1> DEFINE k == ToolOf(c)
<1>1. Caller(c) /\ call[c] = "succeeding" /\ k \in Key
  BY AtPlace, CallsKnown DEF Succeed, Unserializable, OnLoop
<1>2. PICK how \in {"ok", "error"} :
          /\ Ends(c, how) /\ Writes(c) /\ UNCHANGED laneVars
          /\ \/ reserved' = reserved
             \/ how = "error" /\ reserved' = IF owns[c] THEN reserved \ {k} ELSE reserved
  BY DEF Succeed, Unserializable
<1>3. failures' \in {failures, failures \ {k}, failures \cup {k}}
  BY DEF Succeed, Unserializable
<1>4. \/ /\ Revises(c) /\ branch' = [branch EXCEPT ![<<Root(c), k>>] = c]
         /\ UNCHANGED <<results, base>>
      \/ /\ ~Revises(c) /\ branch' = branch
         /\ results' = [results EXCEPT ![k] = IF owns[c] THEN c ELSE @]
         /\ base' = [base EXCEPT ![k] = IF owns[c] /\ @ = Nothing THEN c ELSE @]
  BY <1>2 DEF Writes
<1>5. results' \in [Key -> Call \cup {Nothing}] /\ base' \in [Key -> Call \cup {Nothing}]
  BY <1>4 DEF KeysTyped
<1>6. \A j \in Key : results'[j] = results[j] \/ (results'[j] = c /\ owns[c] /\ k = j)
  BY <1>4 DEF KeysTyped
<1>7. OnlyCall(c) => LaneKept'
  BY <1>1, <1>2, OutsideLane DEF Ends, Goes, CallsTyped
<1>8. reserved' \subseteq Key /\ failures' \subseteq Key
  BY <1>1, <1>2, <1>3 DEF KeysTyped
<1> QED BY <1>1, <1>2, <1>4, <1>5, <1>6, <1>7, <1>8, CallEnds

LEMMA CallSkipped ==
    ASSUME RuntimeInv, NEW c \in Call, Skip(c)
    PROVE  RuntimeInv'
<1> USE DEF RuntimeInv
<1> DEFINE k == ToolOf(c)
<1>1. Caller(c) /\ call[c] = "skipping" /\ k \in Key
  BY AtPlace, CallsKnown DEF Skip, OnLoop
<1>2. /\ Ends(c, "skipped") /\ UNCHANGED <<reserved, base, branch, laneVars>>
      /\ results' = [results EXCEPT ![k] = IF owns[c] THEN Nothing ELSE @]
      /\ failures' = IF owns[c] THEN failures \cup {k} ELSE failures
  BY DEF Skip
<1>3. OnlyCall(c) => LaneKept'
  BY <1>1, <1>2, OutsideLane DEF Ends, Goes, CallsTyped
<1>4. results' \in [Key -> Call \cup {Nothing}] /\ \A j \in Key : results'[j] \in {results[j], Nothing}
  BY <1>2 DEF KeysTyped
<1>5. reserved' \subseteq Key /\ failures' \subseteq Key /\ base' \in [Key -> Call \cup {Nothing}]
  BY <1>1, <1>2 DEF KeysTyped
<1> QED BY <1>1, <1>2, <1>3, <1>4, <1>5, CallEnds

LEMMA CallFails ==
    ASSUME RuntimeInv, NEW c \in Call, Fail(c)
    PROVE  RuntimeInv'
<1> USE DEF RuntimeInv
<1> DEFINE k == ToolOf(c)
<1>1. Caller(c) /\ call[c] \in {"failing", "invalid"} /\ k \in Key
  BY AtPlace, CallsKnown DEF Fail, OnLoop
<1>2. PICK how \in {"error", "invalid"} : Ends(c, how)
  BY DEF Fail
<1>3. /\ UNCHANGED <<results, base, branch, laneVars>> /\ failures' \in {failures, failures \cup {k}}
      /\ reserved' = IF owns[c] THEN reserved \ {k} ELSE reserved
  BY DEF Fail
<1>4. OnlyCall(c) => LaneKept'
  BY <1>1, <1>2, <1>3, OutsideLane DEF Ends, Goes, CallsTyped
<1>5. /\ reserved' \subseteq Key /\ failures' \subseteq Key
      /\ base' \in [Key -> Call \cup {Nothing}] /\ results' \in [Key -> Call \cup {Nothing}]
  BY <1>1, <1>3 DEF KeysTyped
<1> QED BY <1>1, <1>2, <1>3, <1>4, <1>5, CallEnds

LEMMA CallCancelled ==
    ASSUME RuntimeInv, NEW c \in Call,
           \/ Cancel(c) /\ ~(call[c] = "running" /\ Serial(c))
           \/ CancelledTargetReturns(c) /\ call[c] # "done"
    PROVE  RuntimeInv'
<1> USE DEF RuntimeInv
<1>1. Caller(c) /\ call[c] \in {"retrying", "waiting", "queued", "running", "cancelling"}
  BY CallerAlone DEF Cancel, CancelledTargetReturns
<1>2. /\ Ends(c, "cancelled") /\ lane' = RemoveFirst(lane, c)
      /\ worker' \in {worker, worker \ {c}} /\ UNCHANGED <<reserved, results, failures, base, branch>>
  BY DEF Cancel, CancelledTargetReturns, LeaveLane
<1>3. Serial(c) => c \notin worker'
  BY <1>2 DEF Cancel, CancelledTargetReturns, LaneKept, Working
<1>4. OnlyCall(c) => LaneKept'
  <2>1. ~InLane(c)'
    BY <1>2 DEF InLane, Ends, Goes, CallsTyped
  <2> QED BY <1>2, <1>3, <2>1, LaneLeft
<1>5. /\ reserved' \subseteq Key /\ failures' \subseteq Key
      /\ base' \in [Key -> Call \cup {Nothing}] /\ results' \in [Key -> Call \cup {Nothing}]
  BY <1>1, <1>2 DEF KeysTyped
<1> QED BY <1>1, <1>2, <1>4, <1>5, CallEnds

LEMMA NextRuntime == RuntimeInv /\ [RuntimeNext]_runtimeVars => RuntimeInv'
<1> SUFFICES ASSUME RuntimeInv, [RuntimeNext]_runtimeVars PROVE RuntimeInv'
  OBVIOUS
<1>1. CASE UNCHANGED runtimeVars
  <2> USE <1>1 DEF runtimeVars, callVars, keyVars, revisionVars, laneVars, Call
  <2>1. CallsTyped' /\ KeysTyped'
    BY DEF RuntimeInv, CallsTyped, KeysTyped
  <2>2. LaneKept'
    BY DEF RuntimeInv, LaneKept, InLane, Working, Serial, ToolOf
  <2>3. OwnersKept'
    BY DEF RuntimeInv, OwnersKept, Holds, Revises, Root, ToolOf
  <2>4. RevisionsKept'
    BY DEF RuntimeInv, RevisionsKept, Live, Replaced, SameBranch, SameGeneration, Revises, Root, ToolOf
  <2> QED BY <2>1, <2>2, <2>3, <2>4 DEF RuntimeInv
<1>2. ASSUME NEW c \in Call, CallGoesOn(c) \/ Cancel(c) PROVE RuntimeInv'
  <2>1. CASE Refuse(c) \/ RefuseRevision(c)
    BY <2>1, EarlyAnswer
  <2>2. CASE Arrive(c)
    BY <2>2, CallArrives
  <2>3. CASE Revise(c)
    BY <2>3, CallRevises
  <2>4. CASE Resolve(c) \/ Retry(c) \/ Wake(c) \/ ResolveRevision(c)
    BY <2>4, CallReads
  <2>5. CASE Enter(c) \/ LaneOpens(c)
    BY <2>5, CallEnters
  <2>6. CASE \E how \in {"succeeding", "skipping", "failing", "invalid"} : TargetReturns(c, how)
    BY <2>6, TargetEnds
  <2>7. CASE Succeed(c) \/ Unserializable(c)
    BY <2>7, CallSucceeds
  <2>8. CASE Skip(c)
    BY <2>8, CallSkipped
  <2>9. CASE Fail(c)
    BY <2>9, CallFails
  <2>10. CASE Cancel(c)
    BY <2>10, CancelWaits, CallCancelled
  <2>11. CASE CancelledTargetReturns(c)
    BY <2>11, ThreadLeftBehind, CallCancelled
  <2> QED BY <1>2, <2>1, <2>2, <2>3, <2>4, <2>5, <2>6, <2>7, <2>8, <2>9, <2>10, <2>11 DEF CallGoesOn
<1> QED BY <1>1, <1>2 DEF RuntimeNext

\* The invariant of the runtime: lanes, owners of keys and claims of revisions.
THEOREM RuntimeInvariant == RuntimeSpec => []RuntimeInv
BY InitRuntime, NextRuntime, PTL DEF RuntimeSpec

LEMMA AtMostOne ==
    ASSUME NEW S, \A x, y \in S : x = y
    PROVE  Cardinality(S) <= 1
<1>1. CASE S = {}
  BY <1>1, FS_EmptySet
<1>2. CASE S # {}
  <2>1. PICK x \in S : S = {x}
    BY <1>2
  <2> QED BY <2>1, FS_Singleton
<1> QED BY <1>1, <1>2

\* Two worker threads are never in a serialized toolset, whoever was cancelled
\* (_run_target and its lane), and every variable keeps its type.
THEOREM OneThreadInALane == RuntimeSpec => []OneSerialWriter
<1>1. RuntimeInv => OneSerialWriter
  <2> SUFFICES ASSUME RuntimeInv PROVE OneSerialWriter
    OBVIOUS
  <2> USE DEF RuntimeInv
  <2>1. Cardinality({c \in Call : call[c] \in OnLoop}) <= 1
    BY AtMostOne DEF CallsTyped
  <2>2. ToSet(lane) = {c \in Call : Serial(c) /\ call[c] \in {"queued", "running", "cancelling"}}
    <3>1. \A i \in DOMAIN lane : lane[i] \in Call
      BY DEF LaneKept
    <3> QED BY <3>1 DEF LaneKept, InLane, ToSet
  <2>3. RuntimeTypeOK
    BY <2>1, <2>2 DEF RuntimeTypeOK, CallsTyped, KeysTyped, LaneKept
  <2>4. Cardinality({c \in worker : Serial(c)}) <= 1
    <3>1. \A c, d \in {e \in worker : Serial(e)} : c = d
      BY DEF LaneKept
    <3> QED BY <3>1, AtMostOne
  <2> QED BY <2>3, <2>4 DEF OneSerialWriter
<1> QED BY <1>1, RuntimeInvariant, PTL

\* Of the revisions that replace one generation of a tool one succeeds
\* (_revision_context and its claim).
THEOREM OneRevisionSucceeds == RuntimeSpec => []RevisedOnce
<1>1. RuntimeInv => RevisedOnce
  BY DEF RuntimeInv, RevisionsKept, RevisedOnce, Replaced, SameGeneration
<1> QED BY <1>1, RuntimeInvariant, PTL

\* The value that the graph of tools was built on, of a tool that does not ask
\* and whose call ended ok, is not replaced or withdrawn by another call of the
\* tool (_record_success, owned_keys).
THEOREM PlannedValueIsKept == RuntimeSpec => PlannedValueStays
<1> DEFINE Stays == \A k \in Key :
               (IsTarget(k) /\ ~Tools[k].asks /\ results[k] # Nothing /\ fate[results[k]] = "ok")
                   => results'[k] = results[k]
<1>1. RuntimeInv /\ [RuntimeNext]_runtimeVars => [Stays]_runtimeVars
  <2> SUFFICES ASSUME RuntimeInv, RuntimeNext,
                      NEW k \in Key, IsTarget(k), ~Tools[k].asks, results[k] # Nothing,
                      fate[results[k]] = "ok"
               PROVE  results'[k] = results[k]
    OBVIOUS
  <2> DEFINE p == results[k]
  <2>1. p \in Call /\ owns[p] /\ ToolOf(p) = k /\ call[p] = "done" /\ Holds(p)
    BY RuntimeAssumption DEF RuntimeInv, KeysTyped, OwnersKept, Holds
  <2>2. ASSUME NEW c \in Call, owns[c], call[c] # "done" PROVE ToolOf(c) # k
    <3>1. Holds(c)
      BY <2>2, RuntimeAssumption DEF RuntimeInv, CallsTyped, Holds
    <3> QED BY <2>1, <2>2, <3>1 DEF RuntimeInv, OwnersKept
  <2> HIDE DEF p
  <2>3. PICK c \in Call : CallGoesOn(c) \/ Cancel(c)
    BY DEF RuntimeNext
  <2>4. CASE results' = results
    BY <2>4
  <2>5. CASE Arrive(c)
    <3>1. ToolOf(c) = k => ~NewRound(c)
      BY DEF NewRound
    <3> QED BY <2>5, <3>1 DEF Arrive, RuntimeInv, KeysTyped
  <2>6. CASE Succeed(c) \/ Unserializable(c) \/ Skip(c)
    <3>1. call[c] # "done"
      BY <2>6 DEF Succeed, Unserializable, Skip, At
    <3>2. owns[c] => ToolOf(c) # k
      BY <3>1, <2>2
    <3> QED BY <2>6, <3>2 DEF Succeed, Unserializable, Skip, Writes, RuntimeInv, KeysTyped
  <2>7. Arrive(c) \/ Succeed(c) \/ Unserializable(c) \/ Skip(c) \/ results' = results
    BY <2>3 DEF CallGoesOn, Refuse, Revise, Resolve, Retry, Wake, ResolveRevision, Enter, LaneOpens,
                TargetReturns, Fail, RefuseRevision, Cancel, CancelledTargetReturns, keyVars
  <2> QED BY <2>4, <2>5, <2>6, <2>7
<1>2. RuntimeSpec => [][Stays]_runtimeVars
  BY <1>1, RuntimeInvariant, PTL DEF RuntimeSpec
<1> QED BY <1>2 DEF PlannedValueStays
=============================================================================
