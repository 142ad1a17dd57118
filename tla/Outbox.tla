-------------------------------- MODULE Outbox --------------------------------
(***************************************************************************)
(* What the local file watcher promises about its events: they reach the   *)
(* receiver in the order they were recorded, none is skipped, and only the *)
(* oldest unsettled one may reach it more than once.                       *)
(***************************************************************************)
EXTENDS Integers, Sequences

CONSTANT Event

VARIABLES
    outbox,     \* recorded and not settled, oldest first
    accepted    \* what the receiver has accepted, each event once

Init == outbox = <<>> /\ accepted = <<>>

\* The receiver has the oldest event already.
HeadAccepted == /\ outbox # <<>> /\ accepted # <<>>
                /\ accepted[Len(accepted)] = Head(outbox)

Elements(s) == {s[i] : i \in DOMAIN s}

\* A new event, never seen before, goes to the end.
Record ==
    LET e == outbox'[Len(outbox')] IN
    /\ outbox' # <<>> /\ outbox' = Append(outbox, e)
    /\ e \in Event \ (Elements(outbox) \cup Elements(accepted))
    /\ UNCHANGED accepted

Accept ==
    /\ outbox # <<>> /\ ~HeadAccepted
    /\ accepted' = Append(accepted, Head(outbox))
    /\ UNCHANGED outbox

Settle ==
    /\ HeadAccepted
    /\ outbox' = Tail(outbox)
    /\ UNCHANGED accepted

Next == Record \/ Accept \/ Settle

Spec == Init /\ [][Next]_<<outbox, accepted>>
=============================================================================
