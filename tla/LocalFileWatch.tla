---------------------------- MODULE LocalFileWatch ----------------------------
(***************************************************************************)
(* local_file_watch.py and its FileJournal: a process that polls a         *)
(* directory, journals an event for every change that has come to rest,    *)
(* and delivers the journal to a receiver.                                 *)
(*                                                                         *)
(* One scan takes one snapshot and then commits one SQLite transaction     *)
(* after the other; the process may end between any two of them, and what  *)
(* is not in the journal is lost then.  Time is abstracted: a quiet period *)
(* may be over or not when it is looked at.  StateLock keeps the journal   *)
(* to one process.                                                         *)
(***************************************************************************)
EXTENDS Integers, Sequences, FiniteSets

CONSTANTS
    Path,           \* relative paths, as numbers in their sorted order
    Revision,       \* what (size, mtime_ns) of a file can be
    Marker,         \* what the completion marker of a file can be
    NoMarker,       \* no marker, or one that is older than its file
    Configurations, \* options of a watcher: completion_suffix is set, emit_existing
    MaxPending,     \* max_pending
    MaxChanges,     \* bound: changes made to the directory
    MaxExits        \* bound: how often the process ends

Absent == [rev |-> 0]
Identity == [rev : Revision, marker : Marker \cup {NoMarker}]

ASSUME WatchAssumption ==
    /\ Path \subseteq Nat /\ IsFiniteSet(Path)
    /\ 0 \notin Revision /\ NoMarker \notin Marker
    /\ Configurations \subseteq [marker : BOOLEAN, existing : BOOLEAN]
    /\ MaxPending \in Nat \ {0}
    /\ MaxChanges \in Nat /\ MaxExits \in Nat

VARIABLES
    config,         \* the options of this watcher
    disk,           \* the watched directory
    changes,        \* changes made so far
    initialized,    \* table baseline
    based,          \* history: what the scan found that took the baseline first
    files,          \* table files: the last identity dealt with
    pending,        \* table pending: events, oldest first
    pc,             \* where the process is in scan() and deliver_pending()
    found,          \* the snapshot of this scan
    todo,           \* paths of the snapshot that are not examined yet
    candidates,     \* _candidates: identities waiting for their quiet period
    exits,          \* how often the process has ended
    accepted        \* events accepted by the receiver, each once

journalVars == <<initialized, based, files, pending>>
processVars == <<pc, found, todo, candidates, exits>>
vars == <<config, disk, changes, journalVars, processVars, accepted>>

UsesMarker == config.marker
EmitExisting == config.existing

\* Without a suffix no marker is looked for.
Seen == {i \in Identity : UsesMarker \/ i.marker = NoMarker}

Snapshot == [Path -> Identity \cup {Absent}]
Event == [id : Nat, path : Path, identity : Identity, operation : {"created", "modified"}]

TypeOK ==
    /\ config \in Configurations
    /\ disk \in Snapshot
    /\ changes \in 0 .. MaxChanges
    /\ initialized \in BOOLEAN
    /\ {based, files} \subseteq Snapshot
    /\ pending \in Seq(Event) /\ Len(pending) <= MaxPending
    /\ pc \in {"closed", "scan", "baseline", "forget", "examine", "deliver", "settle"}
    /\ found \in Snapshot
    /\ todo \subseteq Path
    /\ candidates \in Snapshot
    /\ exits \in 0 .. MaxExits
    /\ accepted \in Seq(Event)

Nowhere == [p \in Path |-> Absent]

Init ==
    /\ config \in Configurations
    /\ disk \in [Path -> Seen \cup {Absent}]
    /\ changes = 0
    /\ initialized = FALSE
    /\ based = Nowhere /\ files = Nowhere
    /\ pending = <<>>
    /\ pc = "closed"
    /\ found = Nowhere
    /\ todo = {}
    /\ candidates = Nowhere
    /\ exits = 0
    /\ accepted = <<>>
-----------------------------------------------------------------------------
(* Other processes change the directory. *)

Change(p) ==
    /\ changes < MaxChanges
    /\ changes' = changes + 1
    /\ \E i \in (Seen \cup {Absent}) \ {disk[p]} : disk' = [disk EXCEPT ![p] = i]
    /\ UNCHANGED <<config, journalVars, processVars, accepted>>
-----------------------------------------------------------------------------
(* Opening and leaving the watcher *)

Goes(from, to) ==
    /\ pc = from
    /\ pc' = to

\* __enter__: journal and lock are opened.
Open ==
    /\ Goes("closed", "scan")
    /\ UNCHANGED <<config, disk, changes, journalVars, found, todo, candidates, exits, accepted>>

\* The stop event, an exception out of scan() or the end of the process.  A
\* watcher object that is entered again still has its candidates.
Exit ==
    /\ pc # "closed" /\ exits < MaxExits
    /\ exits' = exits + 1
    /\ pc' = "closed"
    /\ candidates' \in {candidates, Nowhere}
    /\ found' = Nowhere /\ todo' = {}
    /\ UNCHANGED <<config, disk, changes, journalVars, accepted>>
-----------------------------------------------------------------------------
(* scan *)

Present(s) == {p \in Path : s[p] # Absent}

ScanFiles ==
    /\ Goes("scan", IF initialized THEN "forget" ELSE "baseline")
    /\ found' = disk
    /\ UNCHANGED <<config, disk, changes, journalVars, todo, candidates, exits, accepted>>

\* Mutation: the observations are committed without the flag.
BaselineUnmarked ==
    /\ Goes("baseline", "forget")
    /\ based' = IF based = Nowhere THEN found ELSE based
    /\ files' = IF EmitExisting THEN files ELSE found
    /\ UNCHANGED <<config, disk, changes, initialized, pending, found, todo, candidates, exits,
                   accepted>>

\* FileJournal.baseline, one transaction.
Baseline ==
    /\ Goes("baseline", "forget")
    /\ initialized' = TRUE
    /\ based' = IF initialized THEN based ELSE found
    /\ files' = IF EmitExisting THEN files ELSE found
    /\ UNCHANGED <<config, disk, changes, pending, found, todo, candidates, exits, accepted>>

\* Mutation: only the candidates are forgotten.
ForgetNothing ==
    /\ Goes("forget", "examine")
    /\ candidates' = [p \in Path |-> IF found[p] = Absent THEN Absent ELSE candidates[p]]
    /\ todo' = Present(found)
    /\ UNCHANGED <<config, disk, changes, journalVars, found, exits, accepted>>

\* FileJournal.forget, one transaction; candidates that are gone go too.
Forget ==
    /\ Goes("forget", "examine")
    /\ files' = [p \in Path |-> IF found[p] = Absent THEN Absent ELSE files[p]]
    /\ candidates' = [p \in Path |-> IF found[p] = Absent THEN Absent ELSE candidates[p]]
    /\ todo' = Present(found)
    /\ UNCHANGED <<config, disk, changes, initialized, based, pending, found, exits, accepted>>

\* The body of the loop over sorted(found.items()).
Examines(p) ==
    /\ Goes("examine", "examine")
    /\ p \in todo /\ \A q \in todo : p <= q
    /\ todo' = todo \ {p}
    /\ UNCHANGED <<config, disk, changes, initialized, based, found, exits, accepted>>

SameRevision(p) == files[p] # Absent /\ files[p].rev = found[p].rev

\* The writer has yet to complete this revision with a marker of its own.
Incomplete(p) ==
    /\ UsesMarker
    /\ \/ found[p].marker = NoMarker
       \/ files[p] # Absent /\ found[p].marker = files[p].marker

\* _ready answers False and drops the candidate, ...
NothingNew(p) ==
    /\ Examines(p)
    /\ SameRevision(p) \/ Incomplete(p)
    /\ candidates' = [candidates EXCEPT ![p] = Absent]
    /\ UNCHANGED <<files, pending>>

\* ... starts a quiet period, ...
BecomesCandidate(p) ==
    /\ Examines(p)
    /\ ~SameRevision(p) /\ ~Incomplete(p) /\ candidates[p] # found[p]
    /\ candidates' = [candidates EXCEPT ![p] = found[p]]
    /\ UNCHANGED <<files, pending>>

\* Mutation: a candidate is ready although the file was written again.
RestingWhateverChanged(p) ==
    /\ ~SameRevision(p) /\ ~Incomplete(p)
    /\ candidates[p] # Absent

Resting(p) ==
    /\ ~SameRevision(p) /\ ~Incomplete(p)
    /\ candidates[p] = found[p]

\* ... or finds it not over.  A full journal is the other reason to wait.
Waits(p) ==
    /\ Examines(p)
    /\ Resting(p)
    /\ UNCHANGED <<files, pending, candidates>>

HasRoom == Len(pending) < MaxPending

HeadAccepted == /\ pending # <<>> /\ accepted # <<>>
                /\ accepted[Len(accepted)] = Head(pending)

\* Everything ever journalled, in order.
Log == accepted \o (IF HeadAccepted THEN Tail(pending) ELSE pending)

NewEvent(p) ==
    [id |-> Len(Log) + 1, path |-> p, identity |-> found[p],
     operation |-> IF files[p] # Absent THEN "modified" ELSE "created"]

\* Mutation: the cursor is advanced although the journal is full.
QueueOrDrop(p) ==
    /\ Examines(p)
    /\ Resting(p)
    /\ pending' = IF HasRoom THEN Append(pending, NewEvent(p)) ELSE pending
    /\ files' = [files EXCEPT ![p] = found[p]]
    /\ candidates' = [candidates EXCEPT ![p] = Absent]

\* FileJournal.append: event and cursor in one transaction.
Queue(p) ==
    /\ Examines(p)
    /\ Resting(p) /\ HasRoom
    /\ pending' = Append(pending, NewEvent(p))
    /\ files' = [files EXCEPT ![p] = found[p]]
    /\ candidates' = [candidates EXCEPT ![p] = Absent]

Examine(p) == NothingNew(p) \/ BecomesCandidate(p) \/ Waits(p)

ScanEnds ==
    /\ todo = {}
    /\ Goes("examine", "deliver")
    /\ UNCHANGED <<config, disk, changes, journalVars, found, todo, candidates, exits, accepted>>
-----------------------------------------------------------------------------
(* deliver_pending *)

\* The journal is empty, or the batch is used up.
DeliveryEnds ==
    /\ Goes("deliver", "scan")
    /\ UNCHANGED <<config, disk, changes, journalVars, found, todo, candidates, exits, accepted>>

Receive == accepted' = IF HeadAccepted THEN accepted ELSE Append(accepted, Head(pending))

\* The request or its answer is lost, or the receiver refuses.
SendFails ==
    /\ pending # <<>>
    /\ Goes("deliver", "scan")
    /\ Receive \/ UNCHANGED accepted
    /\ UNCHANGED <<config, disk, changes, journalVars, found, todo, candidates, exits>>

\* The answer is 202.
SendAccepted ==
    /\ pending # <<>>
    /\ Goes("deliver", "settle")
    /\ Receive
    /\ UNCHANGED <<config, disk, changes, journalVars, found, todo, candidates, exits>>

\* Mutation: the newest event is deleted.
SettleNewest ==
    /\ Goes("settle", "deliver")
    /\ pending' = SubSeq(pending, 1, Len(pending) - 1)
    /\ UNCHANGED <<config, disk, changes, initialized, based, files, found, todo, candidates,
                   exits, accepted>>

\* FileJournal.settle.  Nobody else deletes, so the event is still the first.
Settle ==
    /\ Goes("settle", "deliver")
    /\ pending' = Tail(pending)
    /\ UNCHANGED <<config, disk, changes, initialized, based, files, found, todo, candidates,
                   exits, accepted>>
-----------------------------------------------------------------------------
Scan == ScanFiles \/ Baseline \/ Forget \/ ScanEnds \/ \E p \in Path : Examine(p)

Next ==
    \/ \E p \in Path : Change(p) \/ Queue(p)
    \/ Open \/ Exit \/ Scan
    \/ DeliveryEnds \/ SendFails \/ SendAccepted \/ Settle

GoesOn == Open \/ Scan \/ DeliveryEnds \/ Settle

\* The watcher is started again and runs on.  A file that rests while it is
\* scanned over and over is found quiet, and a receiver that is tried over and
\* over answers.
Fairness ==
    /\ WF_vars(GoesOn)
    /\ SF_vars(SendAccepted)
    /\ \A p \in Path : SF_vars(Queue(p))

Spec == Init /\ [][Next]_vars /\ Fairness
-----------------------------------------------------------------------------
(* Properties *)

\* In order, nothing skipped, only the oldest event repeated: whatever the
\* process, the network and the receiver do.
Delivery == INSTANCE Outbox WITH outbox <- pending
InOrderAtLeastOnce == Delivery!Spec

\* The cursor never runs ahead of the journal: what it holds for a path is the
\* baseline, or exactly what the last event of that path says, at any moment
\* at which the process could end.
CursorIsJournalled ==
    \A p \in Path : files[p] # Absent =>
        \/ ~EmitExisting /\ \A i \in DOMAIN Log : Log[i].path # p
        \/ \E i \in DOMAIN Log :
            /\ Log[i].path = p /\ Log[i].identity = files[p]
            /\ \A j \in i + 1 .. Len(Log) : Log[j].path # p

\* An event is written for a file that looked the same in two scans: never for
\* one that was seen changing (the quiet period coalesces writes).
OnlyRestingFiles ==
    [][\A p \in Path : Len(pending') > Len(pending) /\ files'[p] # files[p] =>
        candidates[p] = files'[p]]_vars

\* What the receiver was last told of p: its last event, or, when there is
\* none, what was there when a watcher that does not report it began.
Told(p) ==
    LET events == {i \in DOMAIN Log : Log[i].path = p}
    IN IF events # {} THEN Log[CHOOSE i \in events : \A j \in events : j <= i].identity
       ELSE IF EmitExisting THEN Absent ELSE based[p]

\* Nothing is left to report: what is on the disk is what the receiver was
\* told, unless its writer never completed it with a marker of its own; and
\* what is gone is forgotten, so that its return is reported.
CaughtUp ==
    /\ pending = <<>>
    /\ \A p \in Path :
        IF disk[p] = Absent THEN files[p] = Absent
        ELSE \/ Told(p) # Absent /\ Told(p).rev = disk[p].rev
             \/ UsesMarker /\ \/ disk[p].marker = NoMarker
                              \/ /\ files[p] # Absent /\ Told(p) # Absent
                                 /\ Told(p).marker = disk[p].marker

\* Once the directory stops changing and the process stops ending, everything
\* is reported and accepted, however full the journal was.
EventuallyCaughtUp == <>[]CaughtUp
=============================================================================
