------------------------------ MODULE MCFiles ------------------------------
(* Local files that are watched, and private files that are published: two   *)
(* machines that share nothing are checked in one run, each on its own.      *)
EXTENDS LocalFileWatch, PrivatePublish, TLC

VARIABLE machine

\* A call that makes two files, and one that uses private data, which two
\* threads publish.
FilesOfCalls == "report" :> 2 @@ "redacted" :> 1
CallsOfThreads == "p1" :> {"report", "redacted"} @@ "p2" :> {"redacted"}

\* Without markers, with and without reporting what is there; with markers.
Watchers == {[marker |-> FALSE, existing |-> FALSE], [marker |-> FALSE, existing |-> TRUE],
             [marker |-> TRUE, existing |-> TRUE]}

\* What a watcher for markers finds at first, where it finds anything.
Completed == [rev |-> 1, marker |-> "m1"]

filesVars == <<machine, vars, publishVars>>
Watch == machine = "watch" /\ UNCHANGED <<machine, publishVars>>
Publish == machine = "publish" /\ UNCHANGED <<machine, vars>>

FilesInit ==
    /\ machine \in {"watch", "publish"} /\ Init /\ PublishInit
    /\ config.marker => disk = Nowhere \/ disk = [Nowhere EXCEPT ![1] = Completed]
    /\ machine = "publish" => disk = Nowhere /\ config = CHOOSE w \in Watchers : TRUE
FilesNext == (Watch /\ Next) \/ (Publish /\ PublishNext)

\* The fairness of both; as only one of them moves, it is stated of their
\* actions in pairs.
FilesSpec ==
    /\ FilesInit /\ [][FilesNext]_filesVars
    /\ WF_filesVars((Watch /\ GoesOn) \/ (Publish /\ VaultStep))
    /\ WF_filesVars(Publish /\ PublisherStep("p1"))
    /\ WF_filesVars(Publish /\ PublisherStep("p2"))
    /\ SF_filesVars((Watch /\ SendAccepted) \/ (Publish /\ Prunes("p1")))
    /\ SF_filesVars((Watch /\ Queue(1)) \/ (Publish /\ Prunes("p2")))
    /\ SF_filesVars((Watch /\ Queue(2)) \/ (Publish /\ \E p \in Publishers : TakesIn(p, "report")))
    /\ SF_filesVars(Publish /\ \E p \in Publishers : TakesIn(p, "redacted"))

\* EventuallyCaughtUp where the watcher is what moves, and ResumedUntilSaved
\* where publications are.
WatchCaughtUp == machine = "watch" => EventuallyCaughtUp
EventuallySaved == machine = "publish" => ResumedUntilSaved
=============================================================================
