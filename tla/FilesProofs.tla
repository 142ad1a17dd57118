----------------------------- MODULE FilesProofs -----------------------------
(***************************************************************************)
(* The journal of LocalFileWatch for any number of files and events: its   *)
(* events reach the receiver in order and none is skipped, the cursor      *)
(* never runs ahead of it, and only a file that rested is recorded.        *)
(*                                                                         *)
(* The invariant numbers the events: what the receiver has accepted and    *)
(* what is still pending are 1, 2, 3, ... without a gap, the oldest        *)
(* pending event being the only one that may be on both sides.             *)
(*                                                                         *)
(* PrivatePublish for any threads, calls, files and mishaps: the vault has *)
(* one artifact of each file, and another only when a proof was lost, and  *)
(* an outcome attaches what was saved.                                     *)
(***************************************************************************)
EXTENDS LocalFileWatch, PrivatePublish, FiniteSetTheorems, SequenceTheorems, TLAPS

-----------------------------------------------------------------------------
(* LocalFileWatch                                                          *)

\* How many events are both pending and accepted: none or the head.
Overlap == IF HeadAccepted THEN 1 ELSE 0

Numbered ==
    /\ \A i \in 1 .. Len(accepted) : accepted[i].id = i
    /\ \A i \in 1 .. Len(pending) : pending[i].id = Len(accepted) + i - Overlap

\* settle() is called only for an event the receiver has.
SettlesAccepted == pc = "settle" => HeadAccepted

\* Nothing is journalled before the baseline.
BaselineFirst ==
    /\ pc = "baseline" => ~initialized
    /\ pc \in {"forget", "examine", "deliver", "settle"} => initialized
    /\ ~initialized => pending = <<>> /\ accepted = <<>>

\* The files still to be examined are files of this scan.
TodoPresent == /\ pc # "examine" => todo = {}
               /\ \A p \in todo : found[p] # Absent

WatchInv == TypeOK /\ TodoPresent /\ Numbered /\ SettlesAccepted /\ BaselineFirst

LEMMA InitWatch == Init => WatchInv /\ CursorIsJournalled
<1> SUFFICES ASSUME Init PROVE WatchInv /\ CursorIsJournalled
  OBVIOUS
<1>1. Nowhere \in Snapshot
  BY DEF Nowhere, Snapshot
<1>2. MaxPending \in Nat /\ MaxChanges \in Nat /\ MaxExits \in Nat
  BY WatchAssumption
<1>3. TypeOK
  <2>1. pending \in Seq(Event) /\ accepted \in Seq(Event) /\ Len(pending) = 0
    BY DEF Init
  <2>2. Len(pending) <= MaxPending
    BY <2>1, <1>2
  <2>3. changes \in 0 .. MaxChanges /\ exits \in 0 .. MaxExits
    BY <1>2 DEF Init
  <2>4. disk \in Snapshot
    BY DEF Init, Seen, Snapshot
  <2>5. /\ {based, files, found, candidates} \subseteq Snapshot
        /\ todo \subseteq Path /\ config \in Configurations
        /\ initialized \in BOOLEAN /\ pc = "closed"
    BY <1>1 DEF Init
  <2> QED
    BY <2>1, <2>2, <2>3, <2>4, <2>5 DEF TypeOK
<1>4. TodoPresent /\ Numbered /\ SettlesAccepted /\ BaselineFirst
  BY DEF Init, TodoPresent, Numbered, SettlesAccepted, BaselineFirst
<1>5. CursorIsJournalled
  BY DEF Init, CursorIsJournalled, Nowhere
<1> QED
  BY <1>3, <1>4, <1>5 DEF WatchInv

\* The length of the log, and its elements by number.
LEMMA LogNumbered ==
    ASSUME WatchInv
    PROVE  /\ Log \in Seq(Event)
           /\ Len(Log) = Len(accepted) + Len(pending) - Overlap
           /\ \A i \in 1 .. Len(accepted) : Log[i] = accepted[i]
           /\ \A i \in 1 .. Len(pending) : Log[Len(accepted) + i - Overlap] = pending[i]
<1> USE DEF WatchInv, TypeOK
<1>1. CASE HeadAccepted
  BY <1>1 DEF HeadAccepted, Log, Overlap
<1>2. CASE ~HeadAccepted
  BY <1>2 DEF Log, Overlap
<1> QED
  BY <1>1, <1>2

\* Recording an event: it is new, and the log grows by it.
LEMMA QueueGrowsLog ==
    ASSUME WatchInv, NEW p \in Path, Queue(p)
    PROVE  /\ Numbered'
           /\ HeadAccepted' <=> HeadAccepted
           /\ NewEvent(p) \in Event
           /\ \A i \in 1 .. Len(pending) : pending[i] # NewEvent(p)
           /\ \A i \in 1 .. Len(accepted) : accepted[i] # NewEvent(p)
           /\ Log' = Append(Log, NewEvent(p))
<1> USE DEF WatchInv, TypeOK
<1> DEFINE e == NewEvent(p)
<1>0. Overlap \in {0, 1} /\ (pending = <<>> => Overlap = 0)
  BY DEF Overlap, HeadAccepted
<1>1. e \in Event /\ e.id = Len(accepted) + Len(pending) - Overlap + 1
  <2>1. found[p] \in Identity
    BY DEF Queue, Examines, Snapshot, TodoPresent
  <2> QED
    BY <2>1, LogNumbered DEF NewEvent, Event
<1>2. pending' = Append(pending, e) /\ accepted' = accepted
  BY DEF Queue, Examines
<1>3. HeadAccepted' <=> HeadAccepted
  <2>1. CASE pending = <<>>
    <3>1. ~HeadAccepted /\ Head(pending') = e
      BY <1>1, <1>2, <2>1 DEF HeadAccepted
    <3>2. accepted # <<>> => accepted[Len(accepted)].id = Len(accepted)
      BY DEF Numbered
    <3> QED
      BY <1>1, <1>2, <2>1, <3>1, <3>2 DEF HeadAccepted, Overlap
  <2>2. CASE pending # <<>>
    <3>1. Head(pending') = Head(pending) /\ pending' # <<>>
      BY <1>1, <1>2, <2>2
    <3> QED
      BY <1>2, <2>2, <3>1 DEF HeadAccepted
  <2> QED
    BY <2>1, <2>2
<1>4. Numbered'
  <2>1. Overlap' = Overlap
    BY <1>3 DEF Overlap
  <2>2. /\ Len(pending') = Len(pending) + 1
        /\ pending'[Len(pending) + 1] = e
        /\ \A i \in 1 .. Len(pending) : pending'[i] = pending[i]
    BY <1>1, <1>2
  <2> QED
    <3>1. \A i \in 1 .. Len(accepted') : accepted'[i].id = i
      BY <1>2 DEF Numbered
    <3>2. ASSUME NEW i \in 1 .. Len(pending')
          PROVE  pending'[i].id = Len(accepted') + i - Overlap'
      <4>1. CASE i = Len(pending) + 1
        BY <1>0, <1>1, <1>2, <2>1, <2>2, <4>1
      <4>2. CASE i \in 1 .. Len(pending)
        BY <1>2, <2>1, <2>2, <4>2 DEF Numbered
      <4> QED
        BY <2>2, <4>1, <4>2
    <3> QED
      BY <3>1, <3>2 DEF Numbered
<1>5. \A i \in 1 .. Len(pending) : pending[i] # e
  BY <1>1 DEF Numbered, Overlap
<1>6. \A i \in 1 .. Len(accepted) : accepted[i] # e
  <2>1. e.id > Len(accepted)
    BY <1>0, <1>1
  <2> QED
    BY <2>1 DEF Numbered
<1>7. Log' = Append(Log, e)
  <2>1. CASE HeadAccepted
    <3>1. pending # <<>> /\ HeadAccepted'
      BY <1>3, <2>1 DEF HeadAccepted
    <3>2. Tail(pending') = Append(Tail(pending), e) /\ Tail(pending) \in Seq(Event)
      BY <1>1, <1>2, <3>1
    <3>3. Log = accepted \o Tail(pending) /\ Log' = accepted \o Tail(pending')
      BY <1>2, <2>1, <3>1 DEF Log
    <3>4. ASSUME NEW s \in Seq(Event), NEW t \in Seq(Event), NEW x \in Event
          PROVE  s \o Append(t, x) = Append(s \o t, x)
      OBVIOUS
    <3> QED
      BY <1>1, <3>2, <3>3, <3>4, SMTT(30)
  <2>2. CASE ~HeadAccepted
    BY <1>1, <1>2, <1>3, <2>2 DEF Log
  <2> QED
    BY <2>1, <2>2
<1> QED
  BY <1>1, <1>3, <1>4, <1>5, <1>6, <1>7

\* The receiver gets the oldest event, again or for the first time.
LEMMA ReceiveKeepsLog ==
    ASSUME WatchInv, pending # <<>>, Receive, UNCHANGED pending
    PROVE  Numbered' /\ HeadAccepted' /\ Log' = Log
<1> USE DEF WatchInv, TypeOK
<1>1. CASE HeadAccepted
  <2>1. accepted' = accepted /\ pending' = pending
    BY <1>1 DEF Receive
  <2> QED
    BY <1>1, <2>1 DEF Numbered, HeadAccepted, Overlap, Log
<1>2. CASE ~HeadAccepted
  <2>1. accepted' = Append(accepted, Head(pending)) /\ pending' = pending
    BY <1>2 DEF Receive
  <2>2. HeadAccepted'
    BY <2>1 DEF HeadAccepted
  <2>3. Numbered'
    BY <1>2, <2>1, <2>2 DEF Numbered, Overlap
  <2>4. Log' = Log
    BY <1>2, <2>1, <2>2 DEF Log
  <2> QED
    BY <2>2, <2>3, <2>4
<1> QED
  BY <1>1, <1>2

\* Settling the oldest event takes it from the overlap.
LEMMA SettleKeepsLog ==
    ASSUME WatchInv, Settle
    PROVE  HeadAccepted /\ Numbered' /\ ~HeadAccepted' /\ Log' = Log
<1> USE DEF WatchInv, TypeOK
<1>1. HeadAccepted /\ pending' = Tail(pending) /\ accepted' = accepted
  BY DEF Settle, Goes, SettlesAccepted
<1>2. ~HeadAccepted'
  <2>1. accepted # <<>> => accepted[Len(accepted)].id = Len(accepted)
    BY DEF Numbered
  <2>2. pending' # <<>> => Head(pending') = pending[2] /\ Len(pending) >= 2
    BY <1>1 DEF HeadAccepted
  <2>3. Len(pending) >= 2 => pending[2].id = Len(accepted) + 1
    BY <1>1 DEF Numbered, Overlap
  <2> QED
    BY <1>1, <2>1, <2>2, <2>3 DEF HeadAccepted
<1>3. Numbered'
  <2>1. Overlap = 1 /\ Overlap' = 0
    BY <1>1, <1>2 DEF Overlap
  <2>2. pending \in Seq(Event) /\ pending # <<>>
    BY <1>1 DEF HeadAccepted
  <2>3. ASSUME NEW i \in 1 .. Len(pending')
        PROVE  pending'[i].id = Len(accepted') + i - Overlap'
    <3>1. i \in Nat /\ i + 1 \in 1 .. Len(pending) /\ pending'[i] = pending[i + 1]
      BY <1>1, <2>2
    <3>2. pending[i + 1].id = Len(accepted) + (i + 1) - 1
      BY <2>1, <3>1 DEF Numbered
    <3> QED
      BY <1>1, <2>1, <3>1, <3>2
  <2>4. \A i \in 1 .. Len(accepted') : accepted'[i].id = i
    BY <1>1 DEF Numbered
  <2> QED
    BY <2>3, <2>4 DEF Numbered
<1>4. Log' = Log
  BY <1>1, <1>2 DEF Log
<1> QED
  BY <1>1, <1>2, <1>3, <1>4

\* The steps that leave the receiver and the journal's events alone.
QuietStep ==
    \/ \E p \in Path : Change(p) \/ Examine(p)
    \/ Open \/ Exit \/ ScanFiles \/ Baseline \/ Forget \/ ScanEnds \/ DeliveryEnds
    \/ SendFails /\ UNCHANGED accepted

LEMMA NextCases ==
    ASSUME Next
    PROVE  \/ QuietStep
           \/ \E p \in Path : Queue(p)
           \/ (SendFails \/ SendAccepted) /\ Receive
           \/ Settle
  BY DEF Next, Scan, QuietStep, SendFails, SendAccepted

LEMMA QuietPreservesInv ==
    ASSUME WatchInv, QuietStep
    PROVE  WatchInv' /\ Log' = Log /\ UNCHANGED <<pending, accepted>>
<1> USE DEF WatchInv
<1>1. UNCHANGED <<pending, accepted>>
  BY DEF QuietStep, Change, Examine, Examines, NothingNew, BecomesCandidate, Waits, Open,
         Exit, ScanFiles, Baseline, Forget, ScanEnds, DeliveryEnds, SendFails, journalVars
<1>2. Log' = Log /\ Numbered'
  BY <1>1 DEF Log, HeadAccepted, Numbered, Overlap
<1>3. TypeOK'
  <2>1. CASE \E p \in Path : Change(p)
    <3>1. PICK p \in Path : Change(p)
      BY <2>1
    <3>2. changes' \in 0 .. MaxChanges
      BY <3>1, WatchAssumption DEF Change, TypeOK
    <3>3. disk' \in Snapshot
      BY <3>1 DEF Change, Seen, TypeOK, Snapshot
    <3> QED
      BY <3>1, <3>2, <3>3 DEF Change, TypeOK, journalVars, processVars
  <2>2. CASE \E p \in Path : Examine(p)
    BY <2>2 DEF Examine, Examines, NothingNew, BecomesCandidate, Waits, Goes, TypeOK,
                Snapshot
  <2>3. CASE Open \/ ScanFiles \/ ScanEnds \/ DeliveryEnds \/ SendFails
    BY <1>1, <2>3 DEF Open, ScanFiles, ScanEnds, DeliveryEnds, SendFails, Goes, TypeOK,
                      journalVars
  <2>4. CASE Exit
    <3>1. Nowhere \in Snapshot
      BY DEF Nowhere, Snapshot
    <3> QED
      BY <2>4, <3>1, WatchAssumption DEF Exit, TypeOK, journalVars
  <2>5. CASE Baseline
    BY <2>5 DEF Baseline, Goes, TypeOK
  <2>6. CASE Forget
    BY <2>6 DEF Forget, Present, Goes, TypeOK, Snapshot
  <2> QED
    BY <2>1, <2>2, <2>3, <2>4, <2>5, <2>6 DEF QuietStep
<1>4. TodoPresent'
  BY DEF QuietStep, Change, Examine, Examines, NothingNew, BecomesCandidate, Waits, Open,
         Exit, ScanFiles, Baseline, Forget, ScanEnds, DeliveryEnds, SendFails, journalVars,
         processVars, Goes, TodoPresent, Present
<1>5. SettlesAccepted' /\ BaselineFirst'
  <2>1. pc' = "settle" => pc = "settle"
    BY DEF QuietStep, Change, Examine, Examines, NothingNew, BecomesCandidate, Waits, Open,
         Exit, ScanFiles, Baseline, Forget, ScanEnds, DeliveryEnds, SendFails,
         processVars, Goes
  <2>2. /\ pc' = "baseline" => ~initialized'
        /\ pc' \in {"forget", "examine", "deliver", "settle"} => initialized'
        /\ ~initialized' => ~initialized
    BY DEF QuietStep, Change, Examine, Examines, NothingNew, BecomesCandidate, Waits, Open,
         Exit, ScanFiles, Baseline, Forget, ScanEnds, DeliveryEnds, SendFails, journalVars,
         processVars, Goes, BaselineFirst
  <2> QED
    BY <1>1, <2>1, <2>2 DEF SettlesAccepted, BaselineFirst, HeadAccepted
<1> QED
  BY <1>1, <1>2, <1>3, <1>4, <1>5

LEMMA QueuePreservesInv ==
    ASSUME WatchInv, NEW p \in Path, Queue(p)
    PROVE  WatchInv'
<1> USE DEF WatchInv
<1>1. NewEvent(p) \in Event /\ Numbered'
  BY QueueGrowsLog
<1>2. found[p] \in Identity \cup {Absent}
  BY DEF TypeOK, Snapshot
<1>3. files' \in Snapshot /\ candidates' \in Snapshot
  BY <1>2 DEF Queue, TypeOK, Snapshot
<1>4. pending' \in Seq(Event) /\ Len(pending') <= MaxPending
  BY <1>1, WatchAssumption DEF Queue, HasRoom, TypeOK
<1>5. TypeOK'
  BY <1>3, <1>4 DEF Queue, Examines, Goes, TypeOK
<1>6. TodoPresent' /\ SettlesAccepted' /\ BaselineFirst'
  BY DEF Queue, Examines, Goes, TodoPresent, SettlesAccepted, BaselineFirst
<1> QED
  BY <1>1, <1>5, <1>6

LEMMA ReceivePreservesInv ==
    ASSUME WatchInv, SendFails \/ SendAccepted, Receive
    PROVE  WatchInv'
<1> USE DEF WatchInv
<1>1. pending # <<>> /\ UNCHANGED pending /\ pc = "deliver"
  BY DEF SendFails, SendAccepted, journalVars, Goes
<1>2. Numbered' /\ HeadAccepted'
  BY <1>1, ReceiveKeepsLog
<1>3. accepted' \in Seq(Event)
  BY <1>1 DEF Receive, TypeOK
<1>4. TypeOK'
  BY <1>3 DEF SendFails, SendAccepted, Goes, TypeOK, journalVars
<1>5. TodoPresent' /\ SettlesAccepted' /\ BaselineFirst'
  BY <1>1, <1>2 DEF SendFails, SendAccepted, Goes, TodoPresent, SettlesAccepted,
                    BaselineFirst, journalVars
<1> QED
  BY <1>2, <1>4, <1>5

LEMMA SettlePreservesInv ==
    ASSUME WatchInv, Settle
    PROVE  WatchInv'
<1> USE DEF WatchInv
<1>1. HeadAccepted /\ Numbered'
  BY SettleKeepsLog
<1>2. pending' \in Seq(Event) /\ Len(pending') <= MaxPending
  BY <1>1, WatchAssumption DEF Settle, HeadAccepted, TypeOK
<1>3. TypeOK'
  BY <1>2 DEF Settle, Goes, TypeOK
<1>4. TodoPresent' /\ SettlesAccepted' /\ BaselineFirst'
  BY <1>1 DEF Settle, Goes, TodoPresent, SettlesAccepted, BaselineFirst, HeadAccepted
<1> QED
  BY <1>1, <1>3, <1>4

LEMMA StutterPreservesInv ==
    ASSUME WatchInv, UNCHANGED vars
    PROVE  WatchInv' /\ Log' = Log
  BY DEF vars, journalVars, processVars, WatchInv, TypeOK, TodoPresent, Numbered, Overlap,
         HeadAccepted, SettlesAccepted, BaselineFirst, Log

THEOREM WatchInvariant == Spec => []WatchInv
<1>1. WatchInv /\ [Next]_vars => WatchInv'
  BY NextCases, QuietPreservesInv, QueuePreservesInv, ReceivePreservesInv,
     SettlePreservesInv, StutterPreservesInv
<1> QED
  BY <1>1, InitWatch, PTL DEF Spec

\* The events reach the receiver in order, none is skipped, and only the
\* oldest may be repeated, whatever fails and whenever the process ends.
THEOREM WatchDelivery == Spec => InOrderAtLeastOnce
<1>1. Init => Delivery!Init
  BY DEF Init, Delivery!Init
<1>2. WatchInv /\ [Next]_vars => [Delivery!Next]_<<pending, accepted>>
  <2> SUFFICES ASSUME WatchInv, Next PROVE [Delivery!Next]_<<pending, accepted>>
    BY DEF vars, journalVars
  <2>1. CASE QuietStep
    BY <2>1, QuietPreservesInv
  <2>2. ASSUME NEW p \in Path, Queue(p) PROVE Delivery!Record
    <3>1. pending' = Append(pending, NewEvent(p)) /\ UNCHANGED accepted
      BY <2>2 DEF Queue, Examines
    <3>2. pending \in Seq(Event) /\ accepted \in Seq(Event) /\ NewEvent(p) \in Event
      BY <2>2, QueueGrowsLog DEF WatchInv, TypeOK
    <3>3. pending' # <<>> /\ pending'[Len(pending')] = NewEvent(p)
      BY <3>1, <3>2
    <3>4. NewEvent(p) \notin Delivery!Elements(pending) \cup Delivery!Elements(accepted)
      BY <2>2, <3>2, QueueGrowsLog DEF Delivery!Elements
    <3> QED
      BY <3>1, <3>2, <3>3, <3>4 DEF Delivery!Record
  <2>3. CASE (SendFails \/ SendAccepted) /\ Receive
    BY <2>3 DEF SendFails, SendAccepted, Receive, HeadAccepted, journalVars,
                Delivery!Next, Delivery!Accept, Delivery!HeadAccepted
  <2>4. CASE Settle
    BY <2>4, SettleKeepsLog DEF Settle, HeadAccepted, Delivery!Next, Delivery!Settle,
                Delivery!HeadAccepted
  <2> QED
    BY <2>1, <2>2, <2>3, <2>4, NextCases DEF Delivery!Next
<1> QED
  BY <1>1, <1>2, WatchInvariant, PTL DEF Spec, InOrderAtLeastOnce, Delivery!Spec

\* The options of a watcher stay.
LEMMA OptionsStay ==
    ASSUME [Next]_vars
    PROVE  EmitExisting' = EmitExisting
<1>1. config' = config
  BY DEF Next, Change, Queue, Examines, Open, Exit, Scan, ScanFiles, Baseline, Forget, ScanEnds,
         Examine, NothingNew, BecomesCandidate, Waits, DeliveryEnds, SendFails, SendAccepted,
         Settle, vars
<1> QED
  BY <1>1 DEF EmitExisting

\* The log of a step grows at its end, if it grows at all; the cursor moves
\* with it.
LEMMA CursorFollowsLog ==
    ASSUME WatchInv, CursorIsJournalled, NEW p \in Path, Queue(p)
    PROVE  CursorIsJournalled'
<1> DEFINE e == NewEvent(p)
           n == Len(Log) + 1
<1>1. /\ Log \in Seq(Event) /\ e \in Event /\ Log' = Append(Log, e)
      /\ e.path = p /\ e.identity = found[p]
  BY LogNumbered, QueueGrowsLog DEF NewEvent
<1>2. files' = [files EXCEPT ![p] = found[p]] /\ files \in Snapshot
  BY DEF Queue, WatchInv, TypeOK
<1>3. /\ DOMAIN Log' = 1 .. n /\ DOMAIN Log = 1 .. Len(Log)
      /\ Len(Log') = n /\ Log'[n] = e
      /\ \A i \in 1 .. Len(Log) : Log'[i] = Log[i]
  BY <1>1
<1>0. EmitExisting' = EmitExisting
  BY OptionsStay DEF Next
<1> SUFFICES ASSUME NEW q \in Path, files'[q] # Absent
             PROVE  CursorIsJournalled!(q)'
  BY DEF CursorIsJournalled
<1>4. CASE q = p
  <2>1. Log'[n].path = q /\ Log'[n].identity = files'[q] /\ n + 1 .. Len(Log') = {}
    BY <1>1, <1>2, <1>3, <1>4 DEF Snapshot
  <2> QED
    BY <1>3, <2>1
<1>5. CASE q # p
  <2>1. files'[q] = files[q]
    BY <1>2, <1>5 DEF Snapshot
  <2>2. CASE ~EmitExisting /\ \A i \in DOMAIN Log : Log[i].path # q
    BY <1>0, <1>1, <1>3, <1>5, <2>2
  <2>3. CASE \E i \in DOMAIN Log : /\ Log[i].path = q /\ Log[i].identity = files[q]
                                   /\ \A j \in i + 1 .. Len(Log) : Log[j].path # q
    <3>1. PICK i \in DOMAIN Log : /\ Log[i].path = q /\ Log[i].identity = files[q]
                                  /\ \A j \in i + 1 .. Len(Log) : Log[j].path # q
      BY <2>3
    <3>2. \A j \in i + 1 .. Len(Log') : j = n \/ j \in i + 1 .. Len(Log)
      BY <1>3, <3>1
    <3>3. \A j \in i + 1 .. Len(Log') : Log'[j].path # q
      BY <1>1, <1>3, <1>5, <3>1, <3>2
    <3> QED
      BY <1>3, <2>1, <3>1, <3>3
  <2> QED
    BY <2>1, <2>2, <2>3 DEF CursorIsJournalled
<1> QED
  BY <1>4, <1>5

\* No other step moves the cursor beyond the baseline.
LEMMA CursorStays ==
    ASSUME WatchInv, CursorIsJournalled, Log' = Log,
           QuietStep \/ SendFails \/ SendAccepted \/ Settle \/ UNCHANGED vars
    PROVE  CursorIsJournalled'
<1>0. EmitExisting' = EmitExisting
  BY OptionsStay DEF Next, Scan, QuietStep
<1>1. CASE Baseline
  <2>1. CASE EmitExisting
    BY <1>0, <1>1, <2>1 DEF Baseline, CursorIsJournalled
  <2>2. CASE ~EmitExisting
    <3>1. pending = <<>> /\ accepted = <<>>
      BY <1>1 DEF Baseline, Goes, WatchInv, BaselineFirst
    <3>2. Log' = <<>>
      BY <3>1 DEF Log, HeadAccepted
    <3> QED
      BY <1>0, <2>2, <3>2 DEF CursorIsJournalled
  <2> QED
    BY <2>1, <2>2
<1>2. CASE Forget
  <2>1. \A p \in Path : files'[p] # Absent => files'[p] = files[p]
    BY <1>2 DEF Forget
  <2> QED
    BY <1>0, <2>1 DEF CursorIsJournalled
<1>3. CASE ~Baseline /\ ~Forget
  <2>1. files' = files
    BY <1>3 DEF QuietStep, Change, Examine, Examines, NothingNew, BecomesCandidate, Waits,
       Open, Exit, ScanFiles, ScanEnds, DeliveryEnds, SendFails, SendAccepted, Settle,
       journalVars, vars
  <2> QED
    BY <1>0, <2>1 DEF CursorIsJournalled
<1> QED
  BY <1>1, <1>2, <1>3

\* A process that ends at any moment has lost no event: what the cursor holds
\* is the baseline or is in the journal.
THEOREM WatchCursor == Spec => []CursorIsJournalled
<1>1. WatchInv /\ CursorIsJournalled /\ [Next]_vars => CursorIsJournalled'
  <2> SUFFICES ASSUME WatchInv, CursorIsJournalled, [Next]_vars
               PROVE  CursorIsJournalled'
    OBVIOUS
  <2>1. CASE UNCHANGED vars
    BY <2>1, StutterPreservesInv, CursorStays
  <2>2. CASE QuietStep
    BY <2>2, QuietPreservesInv, CursorStays
  <2>3. CASE (SendFails \/ SendAccepted) /\ Receive
    <3>1. pending # <<>> /\ UNCHANGED pending
      BY <2>3 DEF SendFails, SendAccepted, journalVars
    <3> QED
      BY <2>3, <3>1, ReceiveKeepsLog, CursorStays
  <2>4. CASE Settle
    BY <2>4, SettleKeepsLog, CursorStays
  <2> QED
    BY <2>1, <2>2, <2>3, <2>4, NextCases, CursorFollowsLog
<1> QED
  BY <1>1, WatchInvariant, InitWatch, PTL DEF Spec

\* The journal never holds more events than its limit, and the state of the
\* process is well-formed.
THEOREM WatchTypeOK == Spec => []TypeOK
<1>1. WatchInv => TypeOK
  BY DEF WatchInv
<1> QED
  BY <1>1, WatchInvariant, PTL

\* Where the log grows, the file at hand was found as the scan before found it.
LEMMA QueueTakesResting ==
    ASSUME WatchInv, NEW q \in Path, Queue(q), NEW p \in Path, files'[p] # files[p]
    PROVE  candidates[p] = files'[p]
<1>1. files' = [files EXCEPT ![q] = found[q]] /\ candidates[q] = found[q]
  BY DEF Queue, Resting
<1>2. p = q /\ files'[q] = found[q]
  BY <1>1 DEF WatchInv, TypeOK, Snapshot
<1> QED
  BY <1>1, <1>2

\* An event is written only for a file that looked the same in two scans, and
\* never for one that was seen changing between them.
THEOREM WatchOnlyRestingFiles == Spec => OnlyRestingFiles
<1> DEFINE Rested == \A p \in Path : Len(pending') > Len(pending) /\ files'[p] # files[p] =>
                        candidates[p] = files'[p]
<1>1. ASSUME WatchInv, [Next]_vars PROVE Rested
  <2>1. CASE \E q \in Path : Queue(q)
    BY <1>1, <2>1, QueueTakesResting
  <2>2. CASE QuietStep \/ Settle \/ (SendFails \/ SendAccepted) \/ UNCHANGED vars
    <3>1. pending \in Seq(Event) /\ (Settle => pending # <<>>)
      BY <1>1, SettleKeepsLog DEF WatchInv, TypeOK, HeadAccepted
    <3>2. pending' = pending \/ (Settle /\ pending' = Tail(pending))
      BY <1>1, <2>2, QuietPreservesInv DEF Settle, SendFails, SendAccepted, journalVars, vars
    <3>3. Len(pending') <= Len(pending)
      BY <3>1, <3>2
    <3> QED
      BY <3>1, <3>3
  <2> QED
    BY <1>1, <2>1, <2>2, NextCases
<1> QED
  BY <1>1, WatchInvariant, PTL DEF Spec, OnlyRestingFiles

-----------------------------------------------------------------------------
(* PrivatePublish                                                          *)

Stages == Unmade .. EffectFailed
Points == Requests \cup {"rests", "next", "pruned", "ended"}
PublisherRecord ==
    [at : Points, call : FileCall, file : Nat, read : [Output -> Nat], old : SUBSET Output,
     proof : Nat, grant : BOOLEAN, refs : SUBSET Output, failed : BOOLEAN]

\* The files of r's call that it is past.
Past(r) == {r.call} \X (1 .. IF r.at = "ended" THEN Files[r.call] ELSE r.file - 1)

SavedIn(made, o) == \E n \in DOMAIN made[o] : made[o][n] = Committed

\* What a thread knows of the proofs that were made, and what it has saved.
Good(r, made) ==
    /\ r \in PublisherRecord /\ r.file \in 1 .. Files[r.call]
    /\ \A o \in Output : r.read[o] <= Len(made[o])
    /\ r.at \in Requests => r.proof \in DOMAIN made[<<r.call, r.file>>]
    /\ \A o \in r.refs : SavedIn(made, o)
    /\ r.at # "rests" /\ ~r.failed => r.refs = Past(r)

Intents == [Output -> Seq(Stages)]

\* Every proof of an output that was made, but for one, was lost, and the one
\* is retained.
ProofsCounted ==
    \A o \in Output :
        /\ fileProofs[o] <= Len(intents[o])
        /\ Len(intents[o]) <= forgotten[o] + (IF fileProofs[o] = 0 THEN 0 ELSE 1)

PublishInv ==
    /\ fileProofs \in [Output -> Nat] /\ forgotten \in [Output -> Nat]
    /\ intents \in Intents /\ publishMishaps \in Nat
    /\ ProofsCounted
    /\ publisher \in [Publishers -> PublisherRecord]
    /\ \A p \in Publishers : Good(publisher[p], intents)

\* The vault keeps every proof, and what is committed stays so.
Grows(made, later) ==
    /\ later \in Intents
    /\ \A o \in Output :
          /\ Len(made[o]) <= Len(later[o])
          /\ \A n \in DOMAIN made[o] : made[o][n] = Committed => later[o][n] = Committed

-----------------------------------------------------------------------------
LEMMA SequenceFacts ==
    ASSUME NEW S, NEW s \in Seq(S)
    PROVE  Len(s) \in Nat /\ DOMAIN s = 1 .. Len(s)
  OBVIOUS

LEMMA FilesFacts ==
    ASSUME NEW c \in FileCall
    PROVE  Files[c] \in Nat /\ Files[c] > 0 /\ 1 \in 1 .. Files[c]
  BY PublishAssumption DEF PublishAssumption, FileCall

LEMMA OutputFacts ==
    ASSUME NEW c \in FileCall, NEW n \in 1 .. Files[c]
    PROVE  <<c, n>> \in Output
  <1>1. <<c, n>> \in {c} \X (1 .. Files[c])
    OBVIOUS
  <1> QED BY <1>1 DEF Output

LEMMA RestsGood ==
    ASSUME NEW made \in Intents
    PROVE  Rests \in PublisherRecord /\ Good(Rests, made)
  <1>1. Rests.call \in FileCall
    BY PublishAssumption DEF PublishAssumption, Rests, FileCall
  <1>2. Rests \in PublisherRecord
    BY <1>1 DEF Rests, PublisherRecord, NoProofs, Points
  <1>3. \A o \in Output : Len(made[o]) \in Nat
    BY SequenceFacts DEF Intents
  <1> QED BY <1>1, <1>2, <1>3, FilesFacts DEF Good, Rests, NoProofs, Requests

\* What a thread knows stays true while the vault goes on.
LEMMA GoodStays ==
    ASSUME NEW made \in Intents, NEW later, Grows(made, later), NEW r, Good(r, made)
    PROVE  Good(r, later)
  <1>1. /\ r \in PublisherRecord /\ r.file \in 1 .. Files[r.call]
        /\ r.at # "rests" /\ ~r.failed => r.refs = Past(r)
    BY DEF Good
  <1>2. \A o \in Output :
            /\ Len(made[o]) \in Nat /\ DOMAIN made[o] = 1 .. Len(made[o])
            /\ Len(later[o]) \in Nat /\ DOMAIN later[o] = 1 .. Len(later[o])
            /\ Len(made[o]) <= Len(later[o]) /\ DOMAIN made[o] \subseteq DOMAIN later[o]
    BY SequenceFacts DEF Grows, Intents
  <1>3. \A o \in Output : r.read[o] <= Len(later[o])
    BY <1>1, <1>2 DEF Good, PublisherRecord
  <1>4. r.at \in Requests => r.proof \in DOMAIN later[<<r.call, r.file>>]
    BY <1>1, <1>2, OutputFacts DEF Good, PublisherRecord
  <1>5. \A o \in r.refs : SavedIn(later, o)
    BY <1>1, <1>2 DEF Good, PublisherRecord, Grows, SavedIn
  <1> QED BY <1>1, <1>3, <1>4, <1>5 DEF Good

\* A thread moves, the vault goes on: the others know what they knew.
LEMMA OneMoves ==
    ASSUME PublishInv, NEW p \in Publishers, Grows(intents, intents'),
           NEW r, publisher' = [publisher EXCEPT ![p] = r], Good(r, intents')
    PROVE  /\ publisher' \in [Publishers -> PublisherRecord]
           /\ \A q \in Publishers : Good(publisher'[q], intents')
  <1>1. publisher' \in [Publishers -> PublisherRecord]
    BY DEF PublishInv, Good
  <1>2. ASSUME NEW q \in Publishers PROVE Good(publisher'[q], intents')
    <2>1. CASE q = p
      BY <2>1 DEF PublishInv
    <2>2. CASE q # p
      BY <2>2, GoodStays DEF PublishInv
    <2> QED BY <2>1, <2>2
  <1> QED BY <1>1, <1>2

LEMMA NothingGrows ==
    ASSUME PublishInv, UNCHANGED intents
    PROVE  Grows(intents, intents')
  <1>1. \A o \in Output : Len(intents[o]) \in Nat
    BY SequenceFacts DEF PublishInv, Intents
  <1> QED BY <1>1 DEF PublishInv, Grows

\* The vault goes on with one proof of an output, from a stage before the end.
LEMMA StageGrows ==
    ASSUME PublishInv, NEW o \in Output, NEW n \in DOMAIN intents[o], NEW stage \in Stages,
           intents' = [intents EXCEPT ![o][n] = stage], intents[o][n] = Committed => stage = Committed
    PROVE  Grows(intents, intents') /\ \A x \in Output : Len(intents'[x]) = Len(intents[x])
  <1>1. intents \in Intents /\ intents[o] \in Seq(Stages) /\ n \in 1 .. Len(intents[o])
    BY SequenceFacts DEF PublishInv, Intents
  <1>2. /\ [intents[o] EXCEPT ![n] = stage] \in Seq(Stages)
        /\ Len([intents[o] EXCEPT ![n] = stage]) = Len(intents[o])
        /\ \A j \in 1 .. Len(intents[o]) :
              [intents[o] EXCEPT ![n] = stage][j] = IF j = n THEN stage ELSE intents[o][j]
    BY <1>1, ExceptSeq
  <1>3. intents' = [intents EXCEPT ![o] = [intents[o] EXCEPT ![n] = stage]]
    BY <1>1 DEF Intents
  <1>4. intents' \in Intents
    BY <1>1, <1>2, <1>3 DEF Intents
  <1>5. \A x \in Output : Len(intents[x]) \in Nat /\ DOMAIN intents[x] = 1 .. Len(intents[x])
    BY SequenceFacts, <1>1 DEF Intents
  <1>6. \A x \in Output : Len(intents'[x]) = Len(intents[x])
    BY <1>1, <1>2, <1>3 DEF Intents
  <1>7. ASSUME NEW x \in Output, NEW j \in DOMAIN intents[x], intents[x][j] = Committed
        PROVE  intents'[x][j] = Committed
    <2>1. CASE x = o
      BY <2>1, <1>1, <1>2, <1>3, <1>5, <1>7 DEF Intents
    <2>2. CASE x # o
      BY <2>2, <1>1, <1>3, <1>7 DEF Intents
    <2> QED BY <2>1, <2>2
  <1> QED BY <1>4, <1>5, <1>6, <1>7 DEF Grows

\* A file is done: what follows it is known to be good, if it was saved or is not attached.
LEMMA DoneGood ==
    ASSUME PublishInv, NEW p \in Publishers, publisher[p].at # "rests", publisher[p].at # "ended",
           NEW saved, FileDone(p, saved), Grows(intents, intents'),
           saved = {} \/ (saved = {Publishing(p)} /\ SavedIn(intents', Publishing(p)))
    PROVE  /\ publisher' \in [Publishers -> PublisherRecord]
           /\ \A q \in Publishers : Good(publisher'[q], intents')
  <1> DEFINE me == publisher[p]
             ends == me.file = Files[me.call] \/ (me.call \in Whole /\ saved = {})
             r == [Rests EXCEPT !.at = IF ends THEN "ended" ELSE "next", !.call = me.call,
                                !.file = IF ends THEN 1 ELSE me.file + 1,
                                !.refs = me.refs \cup saved, !.failed = me.failed \/ saved = {}]
  <1>1. publisher' = [publisher EXCEPT ![p] = r]
    BY DEF FileDone
  <1>2. /\ me \in PublisherRecord /\ me.call \in FileCall /\ me.file \in 1 .. Files[me.call]
        /\ Good(me, intents) /\ Good(me, intents')
    BY GoodStays DEF PublishInv, Good, PublisherRecord
  <1>3. Files[me.call] \in Nat /\ 1 \in 1 .. Files[me.call] /\ Publishing(p) \in Output
    BY <1>2, FilesFacts, OutputFacts DEF Publishing
  <1>4. r \in PublisherRecord
    <2>1. Rests \in PublisherRecord
      BY RestsGood DEF PublishInv
    <2>2. me.refs \cup saved \in SUBSET Output
      BY <1>2, <1>3 DEF PublisherRecord
    <2>3. /\ (IF ends THEN "ended" ELSE "next") \in Points
          /\ (IF ends THEN 1 ELSE me.file + 1) \in Nat
          /\ (me.failed \/ saved = {}) \in BOOLEAN
      BY <1>2, <1>3 DEF Points
    <2> HIDE DEF ends, me
    <2> QED BY <1>2, <2>1, <2>2, <2>3 DEF PublisherRecord
  <1>5. /\ r.at = IF ends THEN "ended" ELSE "next"
        /\ r.call = me.call /\ r.file = IF ends THEN 1 ELSE me.file + 1
        /\ r.read = NoProofs
        /\ r.refs = me.refs \cup saved /\ r.failed = (me.failed \/ saved = {})
    BY DEF Rests
  <1>6. r.file \in 1 .. Files[r.call]
    BY <1>2, <1>3, <1>5
  <1>7. \A o \in Output : r.read[o] <= Len(intents'[o])
    BY <1>5, SequenceFacts DEF NoProofs, Grows, Intents
  <1>8. \A o \in r.refs : SavedIn(intents', o)
    BY <1>2, <1>5 DEF Good
  <1>9. ASSUME ~r.failed PROVE r.refs = Past(r)
    <2>1. saved = {Publishing(p)} /\ ~me.failed
      BY <1>5, <1>9
    <2>2. me.refs = {me.call} \X (1 .. me.file - 1)
      BY <1>2, <2>1 DEF Good, Past
    <2>3. (1 .. me.file - 1) \cup {me.file} = 1 .. me.file
      BY <1>2, <1>3
    <2>4. r.refs = {me.call} \X (1 .. me.file)
      BY <1>5, <2>1, <2>2, <2>3 DEF Publishing
    <2>5. ends <=> me.file = Files[me.call]
      BY <2>1
    <2>6. CASE ends
      BY <1>5, <2>4, <2>5, <2>6 DEF Past
    <2>7. CASE ~ends
      <3>1. r.at = "next" /\ r.file = me.file + 1 /\ r.file - 1 = me.file
        BY <1>2, <1>3, <1>5, <2>7
      <3> QED BY <1>5, <2>4, <3>1 DEF Past
    <2> QED BY <2>6, <2>7
  <1>10. Good(r, intents')
    <2>1. r.at \notin Requests
      BY <1>5 DEF Requests
    <2> HIDE DEF r
    <2> QED BY <1>4, <1>6, <1>7, <1>8, <1>9, <2>1 DEF Good
  <1> HIDE DEF r
  <1> QED BY <1>1, <1>10, OneMoves

\* A thread goes on with the file it is at.
LEMMA MoveGood ==
    ASSUME NEW made \in Intents, NEW me, Good(me, made), me.at # "rests", me.at # "ended",
           NEW r \in PublisherRecord, r.call = me.call, r.file = me.file, r.refs = me.refs,
           r.failed = me.failed, r.at # "rests", r.at # "ended",
           \A o \in Output : r.read[o] <= Len(made[o]),
           r.at \in Requests => r.proof \in DOMAIN made[<<me.call, me.file>>]
    PROVE  Good(r, made)
  BY DEF Good, Past

-----------------------------------------------------------------------------
(* Retained proofs *)

\* A copy without what is too old takes the place of the dictionary, and a new
\* proof may be added to it: whatever another thread put there is counted as lost.
LEMMA CopyCounted ==
    ASSUME PublishInv, NEW p \in Publishers, Forgets(p)
    PROVE  /\ Kept(p) \in [Output -> Nat] /\ forgotten' \in [Output -> Nat]
           /\ \A o \in Output :
                /\ Kept(p)[o] <= Len(intents[o])
                /\ Len(intents[o]) <= forgotten'[o] + (IF Kept(p)[o] = 0 THEN 0 ELSE 1)
                /\ Kept(p)[o] = 0 => Len(intents[o]) <= forgotten'[o]
  <1> DEFINE me == publisher[p]
  <1>1. /\ me \in PublisherRecord /\ me.read \in [Output -> Nat]
        /\ \A o \in Output : me.read[o] <= Len(intents[o])
    BY DEF PublishInv, Good, PublisherRecord
  <1>2. Kept(p) \in [Output -> Nat]
    BY <1>1 DEF Kept
  <1>3. \A o \in Output : Kept(p)[o] \in {0, me.read[o]} /\ Kept(p)[o] \in Nat
    BY <1>1 DEF Kept
  <1>4. \A o \in Output :
            forgotten'[o] = forgotten[o] + (IF fileProofs[o] \notin {0, Kept(p)[o]} THEN 1 ELSE 0)
    BY DEF Forgets
  <1>5. forgotten' \in [Output -> Nat]
    BY DEF Forgets, PublishInv
  <1>6. ASSUME NEW o \in Output
        PROVE  /\ Kept(p)[o] <= Len(intents[o])
               /\ Len(intents[o]) <= forgotten'[o] + (IF Kept(p)[o] = 0 THEN 0 ELSE 1)
               /\ Kept(p)[o] = 0 => Len(intents[o]) <= forgotten'[o]
    <2>1. /\ Len(intents[o]) \in Nat /\ forgotten[o] \in Nat /\ fileProofs[o] \in Nat
          /\ Len(intents[o]) <= forgotten[o] + (IF fileProofs[o] = 0 THEN 0 ELSE 1)
      BY SequenceFacts DEF PublishInv, Intents, ProofsCounted
    <2>2. Kept(p)[o] <= Len(intents[o])
      BY <1>1, <1>3, <2>1
    <2> HIDE DEF me
    <2> QED BY <1>3, <1>4, <2>1, <2>2
  <1> QED BY <1>2, <1>5, <1>6

LEMMA PruneStep ==
    ASSUME PublishInv, NEW p \in Publishers, Prunes(p)
    PROVE  PublishInv'
  <1> DEFINE me == publisher[p]
  <1>1. PICK aged \in SUBSET Held(fileProofs) :
          /\ Mishap(Cardinality(aged) + (IF \E q \in Publishers \ {p} : publisher[q].at = "pruned" THEN 1 ELSE 0))
          /\ publisher' = [publisher EXCEPT ![p].at = "pruned", ![p].read = fileProofs, ![p].old = aged]
    BY DEF Prunes
  <1>2. me.at = "next" /\ UNCHANGED <<fileProofs, forgotten, intents>>
    BY DEF Prunes
  <1> DEFINE r == [me EXCEPT !.at = "pruned", !.read = fileProofs, !.old = aged]
  <1>3. publisher' = [publisher EXCEPT ![p] = r]
    BY <1>1 DEF PublishInv
  <1>4. aged \subseteq Output
    BY DEF Held
  <1>5. Cardinality(aged) \in Nat
    BY <1>4, PublishAssumption, FS_Subset, FS_CardinalityType DEF PublishAssumption
  <1>6. publishMishaps' \in Nat
    BY <1>1, <1>5 DEF Mishap, PublishInv
  <1>7. Good(me, intents) /\ me \in PublisherRecord
    BY DEF PublishInv
  <1>8. r \in PublisherRecord
    BY <1>4, <1>7 DEF PublisherRecord, Points, PublishInv
  <1>9. Good(r, intents)
    <2>1. /\ r.at = "pruned" /\ r.read = fileProofs /\ r.call = me.call /\ r.file = me.file
          /\ r.refs = me.refs /\ r.failed = me.failed
      BY <1>7 DEF PublisherRecord
    <2>2. \A o \in Output : r.read[o] <= Len(intents[o])
      BY <2>1 DEF PublishInv, ProofsCounted
    <2>3. r.at \notin Requests
      BY <2>1 DEF Requests
    <2>4. intents \in Intents
      BY DEF PublishInv
    <2> HIDE DEF r, me
    <2> QED BY <1>2, <1>7, <1>8, <2>1, <2>2, <2>3, <2>4, MoveGood DEF me
  <1>10. Grows(intents, intents') /\ intents' = intents
    BY <1>2, NothingGrows
  <1> HIDE DEF r
  <1>11. /\ publisher' \in [Publishers -> PublisherRecord]
         /\ \A q \in Publishers : Good(publisher'[q], intents')
    BY <1>3, <1>9, <1>10, OneMoves
  <1> QED BY <1>2, <1>6, <1>11 DEF PublishInv, ProofsCounted

\* The thread goes on with a proof that the vault knows.
LEMMA ProofGood ==
    ASSUME PublishInv, NEW p \in Publishers, publisher[p].at = "pruned",
           Grows(intents, intents'), NEW n \in Nat \ {0}, n <= Len(intents'[Publishing(p)]), HasProof(p, n)
    PROVE  /\ publisher' \in [Publishers -> PublisherRecord]
           /\ \A q \in Publishers : Good(publisher'[q], intents')
  <1> DEFINE me == publisher[p]
             r == [me EXCEPT !.at = "admit", !.proof = n, !.read = NoProofs, !.old = {}]
  <1>1. publisher' = [publisher EXCEPT ![p] = r]
    BY DEF HasProof, PublishInv
  <1>2. Good(me, intents') /\ me \in PublisherRecord /\ intents' \in Intents
    BY GoodStays DEF PublishInv, Grows
  <1>3. r \in PublisherRecord
    BY <1>2 DEF PublisherRecord, Points, Requests, NoProofs
  <1>4. /\ r.at = "admit" /\ r.proof = n /\ r.read = NoProofs /\ r.call = me.call
        /\ r.file = me.file /\ r.refs = me.refs /\ r.failed = me.failed
    BY <1>2 DEF PublisherRecord
  <1>5. \A o \in Output : r.read[o] <= Len(intents'[o])
    BY <1>2, <1>4, SequenceFacts DEF NoProofs, Intents
  <1>6. Publishing(p) = <<me.call, me.file>> /\ Publishing(p) \in Output
    BY <1>2, OutputFacts DEF Publishing, Good, PublisherRecord
  <1>7. r.proof \in DOMAIN intents'[<<me.call, me.file>>]
    BY <1>2, <1>4, <1>6, SequenceFacts DEF Intents
  <1> HIDE DEF r, me
  <1>8. Good(r, intents')
    BY <1>2, <1>3, <1>4, <1>5, <1>7, MoveGood DEF me
  <1> QED BY <1>1, <1>8, OneMoves

LEMMA FindStep ==
    ASSUME PublishInv, NEW p \in Publishers, FindsProof(p)
    PROVE  PublishInv'
  <1>1. /\ publisher[p].at = "pruned" /\ Retained(p) # 0 /\ HasProof(p, Retained(p))
        /\ fileProofs' = Kept(p) /\ Forgets(p) /\ UNCHANGED <<intents, publishMishaps>>
    BY DEF FindsProof
  <1>2. Grows(intents, intents')
    BY <1>1, NothingGrows
  <1>3. Publishing(p) \in Output
    BY OutputFacts DEF Publishing, PublishInv, Good, PublisherRecord
  <1>4. Retained(p) \in Nat \ {0} /\ Retained(p) <= Len(intents[Publishing(p)])
    BY <1>1, <1>3, CopyCounted DEF Retained
  <1>5. /\ publisher' \in [Publishers -> PublisherRecord]
        /\ \A q \in Publishers : Good(publisher'[q], intents')
    BY <1>1, <1>2, <1>4, ProofGood
  <1>6. fileProofs' \in [Output -> Nat] /\ forgotten' \in [Output -> Nat] /\ ProofsCounted'
    BY <1>1, CopyCounted DEF ProofsCounted
  <1> QED BY <1>1, <1>5, <1>6 DEF PublishInv

LEMMA MakeStep ==
    ASSUME PublishInv, NEW p \in Publishers, MakesProof(p)
    PROVE  PublishInv'
  <1> DEFINE o == Publishing(p)
             n == Len(intents[o]) + 1
             more == Append(intents[o], Unmade)
  <1>1. /\ publisher[p].at = "pruned" /\ Kept(p)[o] = 0 /\ HasProof(p, n)
        /\ intents' = [intents EXCEPT ![o] = more]
        /\ fileProofs' = [Kept(p) EXCEPT ![o] = n] /\ Forgets(p) /\ UNCHANGED publishMishaps
    BY DEF MakesProof, Retained
  <1>2. o \in Output
    BY OutputFacts DEF Publishing, PublishInv, Good, PublisherRecord
  <1>3. intents \in Intents /\ intents[o] \in Seq(Stages) /\ Unmade \in Stages
    BY <1>2 DEF PublishInv, Intents, Stages, Unmade, EffectFailed
  <1>4. \A x \in Output : Len(intents[x]) \in Nat /\ DOMAIN intents[x] = 1 .. Len(intents[x])
    BY <1>3, SequenceFacts DEF Intents
  <1>5. more \in Seq(Stages) /\ Len(more) = n /\ \A j \in 1 .. Len(intents[o]) : more[j] = intents[o][j]
    BY <1>3, AppendProperties
  <1> HIDE DEF o, more
  <1>6. /\ intents' \in Intents
        /\ \A x \in Output : intents'[x] = IF x = o THEN more ELSE intents[x]
    BY <1>1, <1>2, <1>3, <1>5 DEF Intents
  <1>7. Grows(intents, intents')
    BY <1>2, <1>4, <1>5, <1>6 DEF Grows
  <1>8. n \in Nat \ {0} /\ n <= Len(intents'[Publishing(p)])
    BY <1>2, <1>4, <1>5, <1>6 DEF o
  <1>9. /\ publisher' \in [Publishers -> PublisherRecord]
        /\ \A q \in Publishers : Good(publisher'[q], intents')
    BY <1>1, <1>7, <1>8, ProofGood
  <1>10. fileProofs' \in [Output -> Nat] /\ forgotten' \in [Output -> Nat]
    BY <1>1, <1>2, <1>8, CopyCounted
  <1>11. ProofsCounted'
    <2>1. ASSUME NEW x \in Output
          PROVE  /\ fileProofs'[x] <= Len(intents'[x])
                 /\ Len(intents'[x]) <= forgotten'[x] + (IF fileProofs'[x] = 0 THEN 0 ELSE 1)
      <3>1. fileProofs'[x] = IF x = o THEN n ELSE Kept(p)[x]
        BY <1>1, <1>2, CopyCounted
      <3>2. /\ Kept(p)[x] <= Len(intents[x]) /\ forgotten'[x] \in Nat
            /\ Len(intents[x]) <= forgotten'[x] + (IF Kept(p)[x] = 0 THEN 0 ELSE 1)
            /\ Kept(p)[x] = 0 => Len(intents[x]) <= forgotten'[x]
        BY <1>1, CopyCounted
      <3>3. CASE x = o
        BY <1>1, <1>4, <1>5, <1>6, <3>1, <3>2, <3>3
      <3>4. CASE x # o
        BY <1>6, <3>1, <3>2, <3>4
      <3> QED BY <3>3, <3>4
    <2> QED BY <2>1 DEF ProofsCounted
  <1> QED BY <1>1, <1>6, <1>9, <1>10, <1>11 DEF PublishInv

LEMMA CrowdedStep ==
    ASSUME PublishInv, NEW p \in Publishers, TooManyProofs(p)
    PROVE  PublishInv'
  <1>1. /\ publisher[p].at = "pruned" /\ FileDone(p, {}) /\ fileProofs' = Kept(p)
        /\ Forgets(p) /\ UNCHANGED <<intents, publishMishaps>>
    BY DEF TooManyProofs, FileFails
  <1>2. /\ publisher' \in [Publishers -> PublisherRecord]
        /\ \A q \in Publishers : Good(publisher'[q], intents')
    BY <1>1, NothingGrows, DoneGood
  <1>3. fileProofs' \in [Output -> Nat] /\ forgotten' \in [Output -> Nat] /\ ProofsCounted'
    BY <1>1, CopyCounted DEF ProofsCounted
  <1> QED BY <1>1, <1>2, <1>3 DEF PublishInv

LEMMA RaiseStep ==
    ASSUME PublishInv, NEW p \in Publishers, PruningRaises(p)
    PROVE  PublishInv'
  <1>1. /\ publisher' = [publisher EXCEPT ![p] = Rests]
        /\ UNCHANGED <<fileProofs, forgotten, intents, publishMishaps>>
    BY DEF PruningRaises
  <1>2. Grows(intents, intents') /\ Good(Rests, intents')
    BY <1>1, NothingGrows, RestsGood DEF PublishInv
  <1>3. /\ publisher' \in [Publishers -> PublisherRecord]
        /\ \A q \in Publishers : Good(publisher'[q], intents')
    BY <1>1, <1>2, OneMoves
  <1> QED BY <1>1, <1>3 DEF PublishInv, ProofsCounted

-----------------------------------------------------------------------------
(* Calls and files *)

LEMMA TakeStep ==
    ASSUME PublishInv, NEW p \in Publishers, NEW c \in FileCall, TakesIn(p, c)
    PROVE  PublishInv'
  <1> DEFINE r == [Rests EXCEPT !.at = "next", !.call = c]
  <1>1. /\ publisher' = [publisher EXCEPT ![p] = r]
        /\ UNCHANGED <<fileProofs, forgotten, intents, publishMishaps>>
    BY DEF TakesIn
  <1>2. intents \in Intents /\ Rests \in PublisherRecord
    BY RestsGood DEF PublishInv
  <1>3. r \in PublisherRecord
    BY <1>2 DEF PublisherRecord, Points
  <1>4. /\ r.at = "next" /\ r.call = c /\ r.file = 1 /\ r.read = NoProofs
        /\ r.refs = {} /\ r.failed = FALSE
    BY DEF Rests
  <1>5. r.file \in 1 .. Files[r.call]
    BY <1>4, FilesFacts
  <1>6. \A o \in Output : r.read[o] <= Len(intents[o])
    BY <1>2, <1>4, SequenceFacts DEF NoProofs, Intents
  <1>7. r.refs = Past(r)
    <2>1. 1 .. r.file - 1 = {}
      BY <1>4
    <2> QED BY <1>4, <2>1 DEF Past
  <1> HIDE DEF r
  <1>8. Good(r, intents)
    BY <1>3, <1>4, <1>5, <1>6, <1>7 DEF Good, Requests
  <1>9. /\ publisher' \in [Publishers -> PublisherRecord]
        /\ \A q \in Publishers : Good(publisher'[q], intents')
    BY <1>1, <1>8, NothingGrows, OneMoves
  <1> QED BY <1>1, <1>9 DEF PublishInv, ProofsCounted

LEMMA RefuseStep ==
    ASSUME PublishInv, NEW p \in Publishers, FileRefused(p)
    PROVE  PublishInv'
  <1>1. /\ publisher[p].at = "next" /\ FileDone(p, {}) /\ publishMishaps' = publishMishaps + 1
        /\ UNCHANGED <<fileProofs, forgotten, intents>>
    BY DEF FileRefused, FileFails, Mishap
  <1>2. /\ publisher' \in [Publishers -> PublisherRecord]
        /\ \A q \in Publishers : Good(publisher'[q], intents')
    BY <1>1, NothingGrows, DoneGood
  <1> QED BY <1>1, <1>2 DEF PublishInv, ProofsCounted

-----------------------------------------------------------------------------
(* Requests *)

\* Whatever is asked for, what was committed stays so.
LEMMA AskGrows ==
    ASSUME PublishInv, NEW p \in Publishers, publisher[p].at \in Requests,
           NEW stage \in Unmade .. Queued, Reaches(p, stage) \/ UNCHANGED intents
    PROVE  Grows(intents, intents') /\ \A x \in Output : Len(intents'[x]) = Len(intents[x])
  <1> DEFINE o == Publishing(p)
             n == publisher[p].proof
  <1>1. o \in Output /\ n \in DOMAIN intents[o]
    BY OutputFacts DEF Publishing, PublishInv, Good, PublisherRecord
  <1>2. intents[o] \in Seq(Stages) /\ intents[o][n] \in Stages
    BY <1>1, SequenceFacts DEF PublishInv, Intents
  <1>3. CASE UNCHANGED intents
    BY <1>3, NothingGrows
  <1>4. CASE Reaches(p, stage)
    <2> DEFINE later == IF intents[o][n] < stage THEN stage ELSE intents[o][n]
    <2>1. intents' = [intents EXCEPT ![o][n] = later]
      BY <1>1, <1>4 DEF Reaches, PublishInv, Intents
    <2>2. later \in Stages /\ (intents[o][n] = Committed => later = Committed)
      BY <1>2 DEF Stages, Unmade, Queued, Committed, EffectFailed
    <2> HIDE DEF later, o, n
    <2> QED BY <1>1, <2>1, <2>2, StageGrows
  <1> QED BY <1>3, <1>4

\* The counts do not change where no proof is made or dropped.
LEMMA CountsStay ==
    ASSUME PublishInv, UNCHANGED <<fileProofs, forgotten>>,
           Grows(intents, intents'), \A x \in Output : Len(intents'[x]) = Len(intents[x]),
           publishMishaps' \in Nat, publisher' \in [Publishers -> PublisherRecord],
           \A q \in Publishers : Good(publisher'[q], intents')
    PROVE  PublishInv'
  BY DEF PublishInv, ProofsCounted, Grows

\* The thread goes on to another request for the same file.
LEMMA RequestGood ==
    ASSUME PublishInv, NEW p \in Publishers, publisher[p].at \in Requests,
           Grows(intents, intents'), NEW to \in Requests, NEW grant \in BOOLEAN,
           publisher' = [publisher EXCEPT ![p].at = to, ![p].grant = grant]
    PROVE  /\ publisher' \in [Publishers -> PublisherRecord]
           /\ \A q \in Publishers : Good(publisher'[q], intents')
  <1> DEFINE me == publisher[p]
             r == [me EXCEPT !.at = to, !.grant = grant]
  <1>1. publisher' = [publisher EXCEPT ![p] = r]
    BY DEF PublishInv
  <1>2. Good(me, intents') /\ me \in PublisherRecord /\ intents' \in Intents
    BY GoodStays DEF PublishInv, Grows
  <1>3. r \in PublisherRecord
    BY <1>2 DEF PublisherRecord, Points
  <1>4. /\ r.at = to /\ r.proof = me.proof /\ r.read = me.read /\ r.call = me.call
        /\ r.file = me.file /\ r.refs = me.refs /\ r.failed = me.failed
    BY <1>2 DEF PublisherRecord
  <1>5. \A o \in Output : r.read[o] <= Len(intents'[o])
    BY <1>2, <1>4 DEF Good
  <1>6. r.proof \in DOMAIN intents'[<<me.call, me.file>>]
    BY <1>2, <1>4 DEF Good
  <1>7. {me.at, r.at} \cap {"rests", "ended"} = {}
    BY <1>4 DEF Requests
  <1> HIDE DEF r, me
  <1>8. Good(r, intents')
    BY <1>2, <1>3, <1>4, <1>5, <1>6, <1>7, MoveGood DEF me
  <1> QED BY <1>1, <1>8, OneMoves

LEMMA GoesGood ==
    ASSUME PublishInv, NEW p \in Publishers, publisher[p].at \in Requests,
           Grows(intents, intents'), NEW to \in Requests, GoesTo(p, to)
    PROVE  /\ publisher' \in [Publishers -> PublisherRecord]
           /\ \A q \in Publishers : Good(publisher'[q], intents')
  <1>1. publisher[p] \in PublisherRecord
    BY DEF PublishInv
  <1>2. publisher[p].grant \in BOOLEAN
    BY <1>1 DEF PublisherRecord
  <1>3. publisher' = [publisher EXCEPT ![p].at = to, ![p].grant = publisher[p].grant]
    BY <1>1 DEF GoesTo, PublishInv, PublisherRecord
  <1> QED BY <1>2, <1>3, RequestGood

\* A file fails whatever the vault did.
LEMMA FailGood ==
    ASSUME PublishInv, NEW p \in Publishers, publisher[p].at \in Requests,
           Grows(intents, intents'), FileFails(p)
    PROVE  /\ publisher' \in [Publishers -> PublisherRecord]
           /\ \A q \in Publishers : Good(publisher'[q], intents')
  BY DoneGood DEF FileFails, Requests

LEMMA AskFails ==
    ASSUME PublishInv, NEW p \in Publishers, publisher[p].at \in Requests,
           NEW stage \in Unmade .. Queued, Reaches(p, stage) \/ UNCHANGED intents,
           UNCHANGED <<fileProofs, forgotten>>, Mishap(1) \/ UNCHANGED publishMishaps, FileFails(p)
    PROVE  PublishInv'
  <1>1. Grows(intents, intents') /\ \A x \in Output : Len(intents'[x]) = Len(intents[x])
    BY AskGrows
  <1>2. /\ publisher' \in [Publishers -> PublisherRecord]
        /\ \A q \in Publishers : Good(publisher'[q], intents')
    BY <1>1, FailGood
  <1>3. publishMishaps' \in Nat
    BY DEF Mishap, PublishInv
  <1> QED BY <1>1, <1>2, <1>3, CountsStay

LEMMA AskGoes ==
    ASSUME PublishInv, NEW p \in Publishers, publisher[p].at \in Requests,
           NEW stage \in Unmade .. Queued, Reaches(p, stage),
           UNCHANGED <<fileProofs, forgotten, publishMishaps>>,
           NEW to \in Requests, GoesTo(p, to)
    PROVE  PublishInv'
  <1>1. Grows(intents, intents') /\ \A x \in Output : Len(intents'[x]) = Len(intents[x])
    BY AskGrows
  <1>2. /\ publisher' \in [Publishers -> PublisherRecord]
        /\ \A q \in Publishers : Good(publisher'[q], intents')
    BY <1>1, GoesGood
  <1>3. publishMishaps' \in Nat
    BY DEF PublishInv
  <1> QED BY <1>1, <1>2, <1>3, CountsStay

LEMMA StageNumbers ==
    /\ {Unmade, Admitted, Granted, Redeemed, Queued} \subseteq Unmade .. Queued
    /\ {"admit", "approve", "redeem", "recover_ingestion", "ingest_file", "upload", "poll"} = Requests
  BY DEF Unmade, Admitted, Granted, Redeemed, Queued, Requests

LEMMA AdmitStep ==
    ASSUME PublishInv, NEW p \in Publishers, Admits(p)
    PROVE  PublishInv'
  <1>1. CASE Reaches(p, Admitted) /\ GoesTo(p, "approve") /\ UNCHANGED publishMishaps
    BY <1>1, AskGoes, StageNumbers DEF Admits, Asks
  <1>2. CASE Mishap(1) /\ FileFails(p) /\ (Reaches(p, Admitted) \/ UNCHANGED intents)
    BY <1>2, AskFails, StageNumbers DEF Admits, Asks
  <1> QED BY <1>1, <1>2 DEF Admits, Asks

LEMMA ApproveStep ==
    ASSUME PublishInv, NEW p \in Publishers, Approves(p)
    PROVE  PublishInv'
  <1> DEFINE delivered == Stage(p) < Granted
             to == AfterApproval(delivered)
  <1>1. CASE /\ Reaches(p, Granted) /\ UNCHANGED publishMishaps
             /\ publisher' = [publisher EXCEPT ![p].at = to, ![p].grant = delivered]
    <2>1. publisher[p].at \in Requests /\ UNCHANGED <<fileProofs, forgotten>>
      BY StageNumbers DEF Approves, Asks
    <2>2. Grows(intents, intents') /\ \A x \in Output : Len(intents'[x]) = Len(intents[x])
      BY <1>1, <2>1, AskGrows, StageNumbers
    <2>3. to \in Requests /\ delivered \in BOOLEAN
      BY StageNumbers DEF AfterApproval
    <2> HIDE DEF to, delivered
    <2>4. /\ publisher' \in [Publishers -> PublisherRecord]
          /\ \A q \in Publishers : Good(publisher'[q], intents')
      BY <1>1, <2>1, <2>2, <2>3, RequestGood
    <2>5. publishMishaps' \in Nat
      BY <1>1 DEF PublishInv
    <2> QED BY <2>1, <2>2, <2>4, <2>5, CountsStay
  <1>2. CASE Mishap(1) /\ FileFails(p) /\ (Reaches(p, Granted) \/ UNCHANGED intents)
    BY <1>2, AskFails, StageNumbers DEF Approves, Asks
  <1> QED BY <1>1, <1>2 DEF Approves, Asks

LEMMA RedeemStep ==
    ASSUME PublishInv, NEW p \in Publishers, Redeems(p)
    PROVE  PublishInv'
  <1> DEFINE stage == IF publisher[p].grant THEN Redeemed ELSE Unmade
  <1>1. /\ publisher[p].at \in Requests /\ UNCHANGED <<fileProofs, forgotten>>
        /\ stage \in Unmade .. Queued
    BY StageNumbers DEF Redeems, Asks
  <1>2. CASE Reaches(p, stage) /\ UNCHANGED publishMishaps /\ GoesTo(p, "ingest_file")
    BY <1>1, <1>2, AskGoes, StageNumbers
  <1>3. CASE FileFails(p) /\ (Mishap(1) \/ UNCHANGED publishMishaps) /\ (Reaches(p, stage) \/ UNCHANGED intents)
    BY <1>1, <1>3, AskFails
  <1> QED BY <1>2, <1>3 DEF Redeems, Asks

LEMMA RecoverStep ==
    ASSUME PublishInv, NEW p \in Publishers, Recovers(p)
    PROVE  PublishInv'
  <1>1. CASE Reaches(p, Redeemed) /\ GoesTo(p, "ingest_file") /\ UNCHANGED publishMishaps
    BY <1>1, AskGoes, StageNumbers DEF Recovers, Asks
  <1>2. CASE Mishap(1) /\ FileFails(p) /\ (Reaches(p, Redeemed) \/ UNCHANGED intents)
    BY <1>2, AskFails, StageNumbers DEF Recovers, Asks
  <1> QED BY <1>1, <1>2 DEF Recovers, Asks

LEMMA StartStep ==
    ASSUME PublishInv, NEW p \in Publishers, Starts(p)
    PROVE  PublishInv'
  <1> DEFINE to == IF Stage(p) >= Queued THEN "poll" ELSE "upload"
  <1>1. to \in Requests
    BY StageNumbers
  <1>2. CASE Reaches(p, Unmade) /\ GoesTo(p, to) /\ UNCHANGED publishMishaps
    BY <1>1, <1>2, AskGoes, StageNumbers DEF Starts, Asks
  <1>3. CASE Mishap(1) /\ FileFails(p) /\ (Reaches(p, Unmade) \/ UNCHANGED intents)
    BY <1>3, AskFails, StageNumbers DEF Starts, Asks
  <1> QED BY <1>2, <1>3 DEF Starts, Asks

LEMMA UploadStep ==
    ASSUME PublishInv, NEW p \in Publishers, Uploads(p)
    PROVE  PublishInv'
  <1>1. CASE Reaches(p, Queued) /\ GoesTo(p, "poll") /\ UNCHANGED publishMishaps
    BY <1>1, AskGoes, StageNumbers DEF Uploads, Asks
  <1>2. CASE Mishap(1) /\ FileFails(p) /\ (Reaches(p, Queued) \/ UNCHANGED intents)
    BY <1>2, AskFails, StageNumbers DEF Uploads, Asks
  <1> QED BY <1>1, <1>2 DEF Uploads, Asks

LEMMA PollStep ==
    ASSUME PublishInv, NEW p \in Publishers, Polls(p)
    PROVE  PublishInv'
  <1>1. /\ publisher[p].at = "poll" /\ publisher[p].at \in Requests
        /\ UNCHANGED <<fileProofs, forgotten>>
    BY StageNumbers DEF Polls, Asks
  <1>2. CASE /\ Reaches(p, Unmade) /\ UNCHANGED publishMishaps
             /\ Stage(p) = Committed /\ FileDone(p, {Publishing(p)})
    <2>1. Grows(intents, intents') /\ \A x \in Output : Len(intents'[x]) = Len(intents[x])
      BY <1>1, <1>2, AskGrows, StageNumbers
    <2>2. Publishing(p) \in Output /\ publisher[p].proof \in DOMAIN intents[Publishing(p)]
      BY <1>1, OutputFacts DEF Publishing, PublishInv, Good, PublisherRecord
    <2>3. publisher[p].proof \in DOMAIN intents'[Publishing(p)]
      BY <2>1, <2>2, SequenceFacts DEF Grows, PublishInv, Intents
    <2>4. SavedIn(intents', Publishing(p))
      BY <1>2, <2>1, <2>2, <2>3 DEF SavedIn, Stage, Grows
    <2>5. /\ publisher' \in [Publishers -> PublisherRecord]
          /\ \A q \in Publishers : Good(publisher'[q], intents')
      BY <1>1, <1>2, <2>1, <2>4, DoneGood
    <2>6. publishMishaps' \in Nat
      BY <1>2 DEF PublishInv
    <2> QED BY <1>1, <2>1, <2>5, <2>6, CountsStay
  <1>3. CASE FileFails(p) /\ (Mishap(1) \/ UNCHANGED publishMishaps) /\ (Reaches(p, Unmade) \/ UNCHANGED intents)
    BY <1>1, <1>3, AskFails, StageNumbers
  <1> QED BY <1>2, <1>3 DEF Polls, Asks

LEMMA VaultInv ==
    ASSUME PublishInv, VaultStep
    PROVE  PublishInv'
  <1>0. PICK o \in Output : \E n \in DOMAIN intents[o] : VaultWorks(o, n)
    BY DEF VaultStep
  <1>1. PICK n \in DOMAIN intents[o] : VaultWorks(o, n)
    BY <1>0
  <1>2. PICK stage \in {Committed, EffectFailed} : intents' = [intents EXCEPT ![o][n] = stage]
    BY <1>1 DEF VaultWorks
  <1>3. /\ stage \in Stages /\ intents[o][n] # Committed
        /\ UNCHANGED <<fileProofs, forgotten, publisher, publishMishaps>>
    BY <1>1 DEF VaultWorks, Stages, Unmade, Queued, Committed, EffectFailed
  <1>4. Grows(intents, intents') /\ \A x \in Output : Len(intents'[x]) = Len(intents[x])
    BY <1>2, <1>3, StageGrows
  <1>5. \A q \in Publishers : Good(publisher'[q], intents')
    BY <1>3, <1>4, GoodStays DEF PublishInv
  <1>6. publisher' \in [Publishers -> PublisherRecord] /\ publishMishaps' \in Nat
    BY <1>3 DEF PublishInv
  <1> QED BY <1>3, <1>4, <1>5, <1>6, CountsStay

-----------------------------------------------------------------------------
LEMMA PublishInitInv == PublishInit => PublishInv
  <1> SUFFICES ASSUME PublishInit PROVE PublishInv
    OBVIOUS
  <1>1. <<>> \in Seq(Stages) /\ Len(<<>>) = 0
    OBVIOUS
  <1>2. intents \in Intents /\ \A o \in Output : intents[o] = <<>>
    BY <1>1 DEF PublishInit, Intents
  <1>3. /\ fileProofs \in [Output -> Nat] /\ forgotten \in [Output -> Nat] /\ publishMishaps \in Nat
        /\ \A o \in Output : fileProofs[o] = 0 /\ forgotten[o] = 0
    BY DEF PublishInit, NoProofs
  <1>4. ProofsCounted
    BY <1>1, <1>2, <1>3 DEF ProofsCounted
  <1>5. \A p \in Publishers : publisher[p] = Rests
    BY DEF PublishInit
  <1>6. publisher \in [Publishers -> PublisherRecord] /\ \A p \in Publishers : Good(publisher[p], intents)
    BY <1>2, <1>5, RestsGood DEF PublishInit
  <1> QED BY <1>2, <1>3, <1>4, <1>6 DEF PublishInv

LEMMA PublishStepInv == PublishInv /\ [PublishNext]_publishVars => PublishInv'
  <1> SUFFICES ASSUME PublishInv, [PublishNext]_publishVars PROVE PublishInv'
    OBVIOUS
  <1>1. ASSUME NEW p \in Publishers, PublisherStep(p) PROVE PublishInv'
    BY <1>1, PruneStep, FindStep, MakeStep, CrowdedStep, AdmitStep, ApproveStep, RedeemStep,
       RecoverStep, StartStep, UploadStep, PollStep DEF PublisherStep
  <1>2. ASSUME NEW p \in Publishers, FileRefused(p) PROVE PublishInv'
    BY <1>2, RefuseStep
  <1>3. ASSUME NEW p \in Publishers, PruningRaises(p) PROVE PublishInv'
    BY <1>3, RaiseStep
  <1>4. ASSUME NEW p \in Publishers, NEW c \in FileCall, TakesIn(p, c) PROVE PublishInv'
    BY <1>4, TakeStep
  <1>5. CASE VaultStep
    BY <1>5, VaultInv
  <1>6. CASE UNCHANGED publishVars
    BY <1>6 DEF publishVars, PublishInv, ProofsCounted
  <1> QED BY <1>1, <1>2, <1>3, <1>4, <1>5, <1>6 DEF PublishNext

\* For every thread, call, file and mishap, the state of the publications is
\* what SavedOnce rests on (_file_upload_proof, _authorize, _bind_and_poll).
THEOREM PublishInvariant == PublishSpec => []PublishInv
  BY PublishInitInv, PublishStepInv, PTL DEF PublishSpec

\* There are no more copies than proofs that were made.
LEMMA CopiesOfProofs ==
    ASSUME PublishInv, NEW o \in Output
    PROVE  Cardinality(Copies(o)) <= Len(intents[o]) /\ Cardinality(Copies(o)) \in Nat
  <1>1. Len(intents[o]) \in Nat /\ Copies(o) \subseteq 1 .. Len(intents[o])
    BY SequenceFacts DEF PublishInv, Intents, Copies
  <1>2. IsFiniteSet(1 .. Len(intents[o])) /\ Cardinality(1 .. Len(intents[o])) = Len(intents[o])
    BY <1>1, FS_Interval
  <1> QED BY <1>1, <1>2, FS_Subset, FS_CardinalityType

\* Whatever is lost, the vault has one artifact of each file, and another only
\* for a proof that was lost (_file_upload_proof); and an outcome attaches what
\* was saved (_intake_batch, _intake_private_outcome).
THEOREM PublishSavedOnce == PublishSpec => []SavedOnce
  <1>1. PublishInv => SavedOnce
    <2> SUFFICES ASSUME PublishInv PROVE SavedOnce
      OBVIOUS
    <2>1. PublishTypeOK
      BY DEF PublishInv, PublishTypeOK, Intents, Stages, PublisherRecord, Points
    <2>2. ASSUME NEW o \in Output PROVE Cardinality(Copies(o)) <= 1 + forgotten[o]
      <3>1. Len(intents[o]) \in Nat /\ forgotten[o] \in Nat /\ Len(intents[o]) <= forgotten[o] + 1
        BY SequenceFacts DEF PublishInv, ProofsCounted, Intents
      <3> QED BY <3>1, CopiesOfProofs
    <2>3. ASSUME NEW p \in Publishers
          PROVE  /\ \A o \in publisher[p].refs : Copies(o) # {}
                 /\ publisher[p].at = "ended" /\ ~publisher[p].failed =>
                       publisher[p].refs = {publisher[p].call} \X (1 .. Files[publisher[p].call])
      BY DEF PublishInv, Good, SavedIn, Copies, Past
    <2> QED BY <2>1, <2>2, <2>3 DEF SavedOnce
  <1> QED BY <1>1, PublishInvariant, PTL
=============================================================================
