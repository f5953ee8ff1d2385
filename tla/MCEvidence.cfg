\* Three commits make two roots or branches and their merge; two runs of the prover; two
\* observations beside those there; one installer and two gates; two sources with one
\* lockfile, and one machine of three is out of order.  The archives are in the module.
SPECIFICATION Spec
CONSTANTS
    Parts = {"exercise", "receipt", "inspection", "acquisition", "history", "circuit",
             "rebuild"}
    Label <- TwoMachines
    Flaw = {"egress", "gate", "proof"}
    Lanes = {"attributed", "archive"}
    MaxRuns = 2
    ExerciseCommits = 3
    MainPatch <- OnMain
    LanePatch <- OnTheLane
    ReceiptCommits = 3
    Location = {"l1", "alias", "l2", "odd"}
    MirrorObject = {"o1", "o2"}
    ObjectAt <- OneAliased
    FirstStages = {"designated", "acquired", "mirrored", "exercised"}
    AcquisitionSteps = 1
    MaxMade = 2
    PublishedFact = {"a", "b"}
    PublishedObservation = {"o"}
    PublishedCommits = 3
    Installer = {"i1"}
    Gate = {"g1", "g2"}
    CircuitChanges = 2
    Sources = {"s1", "s2"}
    FirstSources = "s1"
    LockOf <- OneLock
    Machine = {"m1", "m2", "bad"}
    OutOfOrder = {"bad"}
    Runner = {"r1", "r2"}
    MaxDesignations = 2
INVARIANTS AcceptedTookPlace ReceiptIsTrue ArchiveIsAsJudged AvailabilityIsTrue
INVARIANTS NothingPublishedIsLost ProofIsOfTheRecord LatestIsOfItsSubject
PROPERTIES AcceptedMerge StaysTaken
CHECK_DEADLOCK FALSE
