------------------------------ MODULE MCEvidence ------------------------------
(***************************************************************************)
(* What the evidence of a proof rests on, each for TLC on its own: the     *)
(* exercises of the prover, the receipt of the implementation lane, the    *)
(* archive of the circuit as it is read, how it is come by, the root it is *)
(* installed in and proved from, the history of what is published, and the *)
(* canonical build of the guest.  A behaviour picks one of them, in part,  *)
(* and only that one moves.                                                *)
(***************************************************************************)
EXTENDS Integers, SequencesExt

CONSTANTS
    Parts,                  \* those the run takes
    \* Exercises and receipt, each with a bound on commits
    Label, Flaw, Lanes, MaxRuns, ExerciseCommits,
    MainPatch, LanePatch, ReceiptCommits,
    \* Acquisition: the objects of mirrors, and how their places are spelled
    Location, MirrorObject, ObjectAt, FirstStages, AcquisitionSteps, MaxMade,
    PublishedFact,          \* of the registry
    PublishedObservation,   \* of the exercises
    PublishedCommits,       \* bound on commits
    Installer, Gate, CircuitChanges,
    Sources, FirstSources, LockOf, Machine, OutOfOrder, Runner, MaxDesignations

\* One machine of all that take part in designations and builds may be out of order.
ASSUME OneOutOfOrder == \A m, n \in OutOfOrder : m = n

VARIABLES
    part,
    xRuns, xCommits, xHead, xMade,
    iCommits, iHead, iMade,
    nFile, nRecord, nPhase, nRead, nMeasured, nParser, nSwaps,
    qUpstream, qTag, qStored, qCopy, qTree, qHead, qPublished, qMade, qSteps,
    aRels, aCommits,
    cArchive, cTree, cStaging, cOthers, cWritable, cInstaller, cGate, cHost, cChanges,
    bMain, bBranch, bBuilds, bRecompute, bJobs

exercise == <<xRuns, xCommits, xHead, xMade>>
receipt == <<iCommits, iHead, iMade>>
inspection == <<nFile, nRecord, nPhase, nRead, nMeasured, nParser, nSwaps>>
acquisition ==
    <<qUpstream, qTag, qStored, qCopy, qTree, qHead, qPublished, qMade, qSteps>>
history == <<aRels, aCommits>>
circuit ==
    <<cArchive, cTree, cStaging, cOthers, cWritable, cInstaller, cGate, cHost, cChanges>>
rebuild == <<bMain, bBranch, bBuilds, bRecompute, bJobs>>

-----------------------------------------------------------------------------
(* Runs of the prover, and the receipt of the lane *)

Exercise ==
    INSTANCE ProofExercise WITH
        MaxCommits <- ExerciseCommits,
        runs <- xRuns, commits <- xCommits, head <- xHead, made <- xMade

Receipt ==
    INSTANCE ImplReceipt WITH
        Patch <- MainPatch, MaxCommits <- ReceiptCommits,
        commits <- iCommits, head <- iHead, made <- iMade

ASSUME FlawsAssumption == Exercise!FlawAssumption
ASSUME PatchesAssumption == Receipt!PatchAssumption

\* One machine for each of two runs.
TwoMachines == <<"h1", "h2">>

\* Changes of each kind of thing the receipt is bound to, or is not.
OnMain ==
    {[wrapper |-> "pinned"], [consumer |-> "new"], [archive |-> "none"],
     [REGISTRY |-> "invalid"], [other |-> "new"]}
OnTheLane ==
    {[archive |-> "a", availability |-> "ARCHIVED_VERIFIED_UNEXERCISED"],
     [archive |-> "none"], [plan |-> "open"], [other |-> "new"]}

-----------------------------------------------------------------------------
(* Archives that are one or two edits away from a sound one *)

At(kind, path, body) == [type |-> kind, path |-> path, body |-> body]
With(keys) == [type |-> "pax", keys |-> keys]
Mark == With({"metadata", "provenance"})
EndBlock == [type |-> "end"]

Upstream ==
    <<At("file", <<"._.">>, "double"), Mark, At("directory", <<>>, "none"),
      At("file", <<"._pk">>, "double"), Mark, At("file", <<"pk">>, "key"),
      At("file", <<"._vk">>, "double"), Mark, At("file", <<"vk">>, "key"), EndBlock>>
Plain ==
    <<At("directory", <<>>, "none"), At("directory", <<"d">>, "none"),
      At("file", <<"d", "x">>, "none"), With({"path"}), At("file", <<"pk">>, "key"),
      At("file", <<"vk">>, "key"), EndBlock>>
Forged == [Upstream EXCEPT ![9].body = "forged"]

Header ==
    {At("file", p, "key") :
        p \in {<<>>, <<"VK">>, <<"d">>, <<"D", "y">>, <<"a:b">>, <<"pk", "x">>}}
      \cup {At("directory", p, "none") : p \in {<<>>, <<"vk">>, <<"d">>, <<"D">>, <<"._vk">>}}
      \cup {At("file", p, "double") : p \in {<<"._vk">>, <<"._x">>, <<"d", "._vk">>, <<"d", "z">>}}
      \cup {At("file", <<"._vk">>, "twin"), At("directory", <<>>, "key"),
            At("file", <<"big">>, "big")}
      \cup {With({k}) : k \in {"provenance", "path", "elsewhere", "unknown", "value"}}
      \cup {EndBlock, [type |-> "other"]}

Edits(s) ==
    {s} \cup {RemoveAt(s, i) : i \in DOMAIN s}
      \cup {ReplaceAt(s, i, h) : i \in DOMAIN s, h \in Header \cup Range(s)}
      \cup {InsertAt(s, i, h) : i \in 1..(Len(s) + 1), h \in Header \cup Range(s)}
      \cup {SubSeq(s, 1, n) : n \in 0..Len(s)}
EditedOnce == Edits(Upstream) \cup Edits(Plain)
EditedTwice == UNION {{RemoveAt(s, i) : i \in 1..9 \cap DOMAIN s} : s \in Edits(Upstream)}

\* The record of an archive, with the listing of another as it may be.
Listed(t, shaped) ==
    {[path |-> t[i].path, body |-> t[i].body] : i \in {j \in DOMAIN t :
        t[j].type = "file" /\ (t[j].path[1] \in {"._.", "._pk", "._vk"}) = shaped}}
Record(s, t) == [archive |-> s, members |-> Listed(t, FALSE), metadata |-> Listed(t, TRUE)]

Inspection ==
    INSTANCE ArchiveInspection WITH
        Founded <- {[file |-> s, record |-> {}] : s \in EditedOnce \cup EditedTwice}
            \cup {[file |-> s, record |-> {Record(s, t)}] :
                    s \in EditedOnce \cup {Forged}, t \in {Upstream, Plain}},
        Swaps <- {Upstream, Plain, Forged}, MaxSwaps <- 2,
        maxEntries <- 9, maxTotalBytes <- 6,
        file <- nFile, record <- nRecord, phase <- nPhase, read <- nRead,
        measured <- nMeasured, parser <- nParser, swaps <- nSwaps

-----------------------------------------------------------------------------
(* How an archive is come by *)

Acquisition ==
    INSTANCE ArchiveAcquisition WITH
        Objects <- MirrorObject, Identity <- ObjectAt, Start <- FirstStages,
        MaxSteps <- AcquisitionSteps,
        upstream <- qUpstream, tag <- qTag, stored <- qStored, copy <- qCopy,
        tree <- qTree, head <- qHead, published <- qPublished, made <- qMade,
        steps <- qSteps

ASSUME MirrorsAssumption == Acquisition!MirrorAssumption

\* Two objects, one of them under two names, and a place that is no mirror.
OneAliased == [l1 |-> "o1", alias |-> "o1", l2 |-> "o2", odd |-> "none"]

-----------------------------------------------------------------------------
(* The history of what is published *)

History ==
    INSTANCE AppendOnlyHistory WITH
        Fact <- PublishedFact, Observation <- PublishedObservation,
        MaxCommits <- PublishedCommits, rels <- aRels, commits <- aCommits

-----------------------------------------------------------------------------
(* Installers and gates at one circuit root, and the build of the guest *)

Circuit ==
    INSTANCE CircuitRoot WITH
        MaxChanges <- CircuitChanges,
        archive <- cArchive, tree <- cTree, staging <- cStaging, others <- cOthers,
        writable <- cWritable, installer <- cInstaller, gate <- cGate, host <- cHost,
        changes <- cChanges

Rebuild ==
    INSTANCE CanonicalBuild WITH
        Subject <- Sources, First <- FirstSources,
        main <- bMain, branch <- bBranch, builds <- bBuilds, recompute <- bRecompute,
        jobs <- bJobs

\* Two sources may share a lockfile.
OneLock == [s \in Sources |-> "lock"]

-----------------------------------------------------------------------------
(* The behaviours *)

\* A part that does not move starts in one state only.
Init ==
    /\ part \in Parts
    /\ Exercise!Init /\ (part # "exercise" => xRuns = <<>>)
    /\ Receipt!Init /\ (part # "receipt" => Len(iCommits) = 2)
    /\ Acquisition!Init /\ (part # "acquisition" => qMade = {})
    /\ History!Init /\ (part # "history" => aRels = {"registry"})
    /\ Circuit!Init /\ (part # "circuit" => cArchive = "record" /\ cTree = "absent")
    /\ Rebuild!Init
    /\ IF part = "inspection" THEN Inspection!Init
       ELSE /\ nFile = <<>> /\ nRecord = {} /\ nPhase = "measure" /\ nRead = <<>>
            /\ nMeasured = <<>> /\ nParser = Inspection!NewParser /\ nSwaps = 0

Only(name) == part = name /\ UNCHANGED part

Next ==
    \/ Only("exercise") /\ Exercise!Next
       /\ UNCHANGED <<receipt, inspection, acquisition, history, circuit, rebuild>>
    \/ Only("receipt") /\ Receipt!Next
       /\ UNCHANGED <<exercise, inspection, acquisition, history, circuit, rebuild>>
    \/ Only("inspection") /\ Inspection!Next
       /\ UNCHANGED <<exercise, receipt, acquisition, history, circuit, rebuild>>
    \/ Only("acquisition") /\ Acquisition!Next
       /\ UNCHANGED <<exercise, receipt, inspection, history, circuit, rebuild>>
    \/ Only("history") /\ History!Next
       /\ UNCHANGED <<exercise, receipt, inspection, acquisition, circuit, rebuild>>
    \/ Only("circuit") /\ Circuit!Next
       /\ UNCHANGED <<exercise, receipt, inspection, acquisition, history, rebuild>>
    \/ Only("rebuild") /\ Rebuild!Next
       /\ UNCHANGED <<exercise, receipt, inspection, acquisition, history, circuit>>

Spec ==
    Init /\ [][Next]_<<part, exercise, receipt, inspection, acquisition, history, circuit, rebuild>>

-----------------------------------------------------------------------------
(* Properties, each as its module states it, of the part that moves *)

\* An accepted directory is of exercises that took place, each as the commit
\* that accepts it would have it (sp1-proof-exercise.ts:1617-1628).
AcceptedTookPlace == part = "exercise" => Exercise!AcceptedTookPlace

\* Two accepted directories that do not speak against each other make one
\* (sp1-proof-exercise.ts:14-20).
AcceptedMerge == Exercise!AcceptedMerge

\* A receipt that is taken says of the lane what the lane did
\* (sp1-impl-receipt-integration.ts:152-158).
TakenIsReviewed == part = "receipt" => Receipt!TakenIsReviewed

\* A receipt is superseded only where the availability moved on
\* (sp1-impl-receipt.ts:1365-1378).
SupersededMoved == part = "receipt" => Receipt!SupersededMoved

\* Both: what a receipt that is taken states is so, or was when it was taken.
ReceiptIsTrue == TakenIsReviewed /\ SupersededMoved

\* A receipt stays taken, whatever main does beside it
\* (sp1-impl-receipt.ts:1580-1582).
StaysTaken == Receipt!StaysTaken

\* An archive is taken if and only if it is what an archive may be
\* (sp1-circuit-archive.ts:1104-1109).
Judged == part = "inspection" => Inspection!Judged

\* What is accepted or installed is what was measured
\* (sp1-circuit-archive.ts:1139, sp1-circuit-install.ts:299).
ParsedAsAuthenticated == part = "inspection" => Inspection!ParsedAsAuthenticated

\* Both: an archive is judged as it is, and is what was judged.
ArchiveIsAsJudged == Judged /\ ParsedAsAuthenticated

\* An archive that counts was had by two hosts and is held in two objects
\* (sp1-proving-availability.ts:490-497).
ArchivedIsHeld == part = "acquisition" => Acquisition!ArchivedIsHeld

\* The status of proving and the state of the tooling speak of one archive and
\* of the same exercises (sp1-circuit-tooling.ts:831).
StatusIsOfState == part = "acquisition" => Acquisition!StatusIsOfState

\* Both: the status of proving rests on archives that are there and exercises that took place.
AvailabilityIsTrue == ArchivedIsHeld /\ StatusIsOfState

\* Where no edge of the history shows an error, nothing published is lost
\* (append-only-history.ts:6).
NothingPublishedIsLost == part = "history" => History!NothingPublishedIsLost

\* A proof that is put out was made by a host that read the record's bytes and
\* nothing else (sp1-prove-gate.ts:26).
ProofIsOfTheRecord == part = "circuit" => Circuit!ProofIsOfTheRecord

\* While a gate's host runs nothing can be added to the root
\* (sp1-prove-gate.ts:21).
LockedForTheRun == part = "circuit" => Circuit!LockedForTheRun

\* The newest designation is of the sources at HEAD and what they build
\* (sp1-canonical-build.ts:18).
LatestIsOfItsSubject == part = "rebuild" => Rebuild!LatestIsOfItsSubject
=============================================================================
