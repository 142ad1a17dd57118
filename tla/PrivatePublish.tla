--------------------------- MODULE PrivatePublish ---------------------------
(***************************************************************************)
(* private_artifacts.py, private_file_intake.py and the batches of         *)
(* tool_files.py: the private files of a tool call are published to the    *)
(* vault, each under a proof that the client retains, so that a            *)
(* publication that was interrupted anywhere is resumed by the next.       *)
(***************************************************************************)
EXTENDS Integers, Sequences, FiniteSets

CONSTANTS
    Takes,              \* the calls whose outcomes each thread takes in
    Files,              \* how many files each tool call makes
    Whole,              \* calls that use private data: one file fails, all end
    MaxFileProofs,      \* _MAX_FILE_PROOFS
    MaxPublishMishaps   \* bound: lost requests, bad files, old proofs, races

Publishers == DOMAIN Takes
FileCall == DOMAIN Files
Output == UNION {{c} \X (1 .. Files[c]) : c \in FileCall}

ASSUME PublishAssumption ==
    /\ Takes \in [Publishers -> SUBSET FileCall]
    /\ Files \in [FileCall -> Nat \ {0}] /\ FileCall # {} /\ Whole \subseteq FileCall
    /\ IsFiniteSet(Output)
    /\ MaxFileProofs \in Nat /\ MaxPublishMishaps \in Nat

VARIABLES
    fileProofs,     \* _file_proofs: which of its proofs an output has, 0 for none
    forgotten,      \* how often a retained proof of an output was lost
    intents,        \* for each proof made, how far the vault is with the output
    publisher,      \* how far a thread is
    publishMishaps

publishVars == <<fileProofs, forgotten, intents, publisher, publishMishaps>>

\* The vault only goes on; what has failed stays failed.
Unmade == 0
Admitted == 1
Granted == 2
Redeemed == 3
Queued == 4
Committed == 5
EffectFailed == 6

Requests == {"admit", "approve", "redeem", "recover_ingestion", "ingest_file", "upload", "poll"}
NoProofs == [o \in Output |-> 0]
Rests == [at |-> "rests", call |-> CHOOSE c \in FileCall : TRUE, file |-> 1, read |-> NoProofs, old |-> {},
          proof |-> 0, grant |-> FALSE, refs |-> {}, failed |-> FALSE]

PublishTypeOK ==
    /\ fileProofs \in [Output -> Nat] /\ forgotten \in [Output -> Nat]
    /\ intents \in [Output -> Seq(Unmade .. EffectFailed)] /\ publishMishaps \in Nat
    /\ publisher \in [Publishers ->
          [at : Requests \cup {"rests", "next", "pruned", "ended"}, call : FileCall, file : Nat,
           read : [Output -> Nat], old : SUBSET Output, proof : Nat, grant : BOOLEAN,
           refs : SUBSET Output, failed : BOOLEAN]]

PublishInit ==
    /\ fileProofs = NoProofs /\ forgotten = NoProofs /\ intents = [o \in Output |-> <<>>]
    /\ publisher = [p \in Publishers |-> Rests] /\ publishMishaps = 0

Publishing(p) == <<publisher[p].call, publisher[p].file>>
Stage(p) == intents[Publishing(p)][publisher[p].proof]
Held(proofs) == {o \in Output : proofs[o] # 0}
Mishap(n) == publishMishaps + n <= MaxPublishMishaps /\ publishMishaps' = publishMishaps + n

-----------------------------------------------------------------------------
(* The files of a call, one after the other (_intake_batch), where a file   *)
(* that fails leaves the others; or in one go (_intake_private_outcome).    *)

TakesIn(p, c) ==
    /\ publisher[p].at \in {"rests", "ended"} /\ c \in Takes[p]
    /\ publisher' = [publisher EXCEPT ![p] = [Rests EXCEPT !.at = "next", !.call = c]]
    /\ UNCHANGED <<fileProofs, forgotten, intents, publishMishaps>>

FileDone(p, saved) ==
    LET me == publisher[p]
        ends == me.file = Files[me.call] \/ (me.call \in Whole /\ saved = {})
    IN publisher' = [publisher EXCEPT ![p] =
          [Rests EXCEPT !.at = IF ends THEN "ended" ELSE "next", !.call = me.call,
                        !.file = IF ends THEN 1 ELSE me.file + 1,
                        !.refs = me.refs \cup saved, !.failed = me.failed \/ saved = {}]]

FileFails(p) == FileDone(p, {})

\* The file is not what the tool described, or its source cannot be exported.
FileRefused(p) ==
    /\ publisher[p].at = "next" /\ Mishap(1) /\ FileFails(p)
    /\ UNCHANGED <<fileProofs, forgotten, intents>>

-----------------------------------------------------------------------------
(* _file_upload_proof.  Threads share the client and no lock: the entries   *)
(* that are not too old are copied, and the copy takes the place of a       *)
(* dictionary that another thread may have changed meanwhile.               *)

Prunes(p) ==
    /\ publisher[p].at = "next"
    /\ \E aged \in SUBSET Held(fileProofs) :
          LET races == \E q \in Publishers \ {p} : publisher[q].at = "pruned"
          IN /\ Mishap(Cardinality(aged) + (IF races THEN 1 ELSE 0))
             /\ publisher' = [publisher EXCEPT ![p].at = "pruned",
                                                ![p].read = fileProofs, ![p].old = aged]
    /\ UNCHANGED <<fileProofs, forgotten, intents>>

Kept(p) == [o \in Output |-> IF o \in publisher[p].old THEN 0 ELSE publisher[p].read[o]]

\* Mutation: every publication makes a proof of its own.
NeverRetained(p) == 0
Retained(p) == Kept(p)[Publishing(p)]

Forgets(p) ==
    forgotten' = [o \in Output |->
        forgotten[o] + (IF fileProofs[o] \notin {0, Kept(p)[o]} THEN 1 ELSE 0)]

HasProof(p, n) ==
    publisher' = [publisher EXCEPT ![p].at = "admit", ![p].proof = n,
                                   ![p].read = NoProofs, ![p].old = {}]

FindsProof(p) ==
    /\ publisher[p].at = "pruned" /\ Retained(p) # 0
    /\ HasProof(p, Retained(p)) /\ fileProofs' = Kept(p)
    /\ Forgets(p) /\ UNCHANGED <<intents, publishMishaps>>

MakesProof(p) ==
    LET o == Publishing(p)
        n == Len(intents[o]) + 1
    IN /\ publisher[p].at = "pruned" /\ Retained(p) = 0
       /\ Cardinality(Held(Kept(p))) < MaxFileProofs
       /\ intents' = [intents EXCEPT ![o] = Append(@, Unmade)]
       /\ HasProof(p, n) /\ fileProofs' = [Kept(p) EXCEPT ![o] = n]
       /\ Forgets(p) /\ UNCHANGED publishMishaps

\* Those published stay until they are too old.
TooManyProofs(p) ==
    /\ publisher[p].at = "pruned" /\ Retained(p) = 0
    /\ Cardinality(Held(Kept(p))) >= MaxFileProofs
    /\ FileFails(p) /\ fileProofs' = Kept(p)
    /\ Forgets(p) /\ UNCHANGED <<intents, publishMishaps>>

\* "dictionary changed size during iteration" ends the outcome, with all its files.
PruningRaises(p) ==
    /\ publisher[p].at = "pruned"
    /\ \E o \in Output : publisher[p].read[o] = 0 /\ fileProofs[o] # 0
    /\ publisher' = [publisher EXCEPT ![p] = Rests]
    /\ UNCHANGED <<fileProofs, forgotten, intents, publishMishaps>>

-----------------------------------------------------------------------------
(* The requests of a publication.  The vault does its part and the client   *)
(* goes on; or one of the two messages is lost, and the file fails.         *)
(* Requests between which nothing is stored are one step.                   *)

Reaches(p, stage) ==
    intents' = [intents EXCEPT ![Publishing(p)][publisher[p].proof] = IF @ < stage THEN stage ELSE @]

Asks(p, request, stage, next) ==
    /\ publisher[p].at = request
    /\ \/ Reaches(p, stage) /\ next /\ UNCHANGED publishMishaps
       \/ Mishap(1) /\ FileFails(p) /\ (Reaches(p, stage) \/ UNCHANGED intents)
    /\ UNCHANGED <<fileProofs, forgotten>>

GoesTo(p, to) == publisher' = [publisher EXCEPT ![p].at = to]

\* The work is prepared and admitted; the same proof makes the same work, which
\* the vault admits once.
Admits(p) == Asks(p, "admit", Admitted, GoesTo(p, "approve"))

\* Mutation: _authorize redeems the grant without looking whether it was delivered.
AlwaysRedeems(delivered) == "redeem"
AfterApproval(delivered) == IF delivered THEN "redeem" ELSE "recover_ingestion"

\* The credential of a grant is delivered once.
Approves(p) ==
    LET delivered == Stage(p) < Granted
    IN Asks(p, "approve", Granted,
            publisher' = [publisher EXCEPT ![p].at = AfterApproval(delivered), ![p].grant = delivered])

\* Without the credential a redemption is refused.
Redeems(p) ==
    LET valid == publisher[p].grant
    IN Asks(p, "redeem", IF valid THEN Redeemed ELSE Unmade,
            IF valid THEN GoesTo(p, "ingest_file") ELSE FileFails(p))

Recovers(p) == Asks(p, "recover_ingestion", Redeemed, GoesTo(p, "ingest_file"))

\* What is queued already is not sent again.
Starts(p) ==
    Asks(p, "ingest_file", Unmade, GoesTo(p, IF Stage(p) >= Queued THEN "poll" ELSE "upload"))

\* Both parts, to an upload of this publication alone, and its completion.
Uploads(p) == Asks(p, "upload", Queued, GoesTo(p, "poll"))

VaultWorks(o, n) ==
    /\ intents[o][n] = Queued
    /\ \E stage \in {Committed, EffectFailed} : intents' = [intents EXCEPT ![o][n] = stage]
    /\ UNCHANGED <<fileProofs, forgotten, publisher, publishMishaps>>

\* While it is queued the status is asked for again, until the deadline.
Polls(p) ==
    \/ Asks(p, "poll", Unmade, \/ Stage(p) = Committed /\ FileDone(p, {Publishing(p)})
                               \/ Stage(p) = EffectFailed /\ FileFails(p))
    \/ /\ publisher[p].at = "poll" /\ Stage(p) = Queued /\ FileFails(p)
       /\ UNCHANGED <<fileProofs, forgotten, intents, publishMishaps>>

VaultStep == \E o \in Output : \E n \in DOMAIN intents[o] : VaultWorks(o, n)
PublisherStep(p) ==
    \/ Prunes(p) \/ FindsProof(p) \/ MakesProof(p) \/ TooManyProofs(p) \/ Admits(p)
    \/ Approves(p) \/ Redeems(p) \/ Recovers(p) \/ Starts(p)
    \/ Uploads(p) \/ Polls(p)

PublishNext ==
    \/ \E p \in Publishers :
          \/ PublisherStep(p) \/ FileRefused(p) \/ PruningRaises(p) \/ \E c \in FileCall : TakesIn(p, c)
    \/ VaultStep

PublishSpec ==
    /\ PublishInit /\ [][PublishNext]_publishVars
    /\ \A p \in Publishers : WF_publishVars(PublisherStep(p)) /\ SF_publishVars(Prunes(p))
    /\ \A c \in FileCall : SF_publishVars(\E p \in Publishers : TakesIn(p, c))
    /\ WF_publishVars(VaultStep)

-----------------------------------------------------------------------------
(* Properties.                                                             *)

Copies(o) == {n \in DOMAIN intents[o] : intents[o][n] = Committed}

\* Whatever is lost, and however often a call is taken in again, by whichever
\* thread, the vault has one artifact of each of its files, and another only
\* when the proof of the first was lost; and the outcome attaches what was
\* saved: all files when it is a success.
SavedOnce ==
    /\ PublishTypeOK
    /\ \A o \in Output : Cardinality(Copies(o)) <= 1 + forgotten[o]
    /\ \A p \in Publishers :
          LET me == publisher[p]
          IN /\ \A o \in me.refs : Copies(o) # {}
             /\ me.at = "ended" /\ ~me.failed => me.refs = {me.call} \X (1 .. Files[me.call])

\* A file whose call is taken in again and again is saved in the end, at
\* whatever step it was interrupted before: unless the vault cannot, the proofs
\* of other outputs crowd its own out, or its call ends at an earlier file.
Hopeless(o) ==
    \/ (\E n \in DOMAIN intents[o] : intents[o][n] = EffectFailed)
    \/ (fileProofs[o] = 0 /\ Cardinality(Held(fileProofs)) >= MaxFileProofs)
ResumedUntilSaved ==
    \A o \in Output :
        LET before == IF o[1] \in Whole THEN {o[1]} \X (1 .. o[2] - 1) ELSE {}
        IN <>[](Copies(o) # {} \/ Hopeless(o) \/ \E e \in before : Hopeless(e))
=============================================================================
