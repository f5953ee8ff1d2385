SPECIFICATION Spec
CONSTANTS
    Parts = {"circuit"}
    Label <- TwoMachines
    Flaw = {"egress", "gate", "proof"}
    Lanes = {"attributed", "archive"}
    MaxRuns = 2
    ExerciseCommits = 3
    MainPatch <- OnMain
    LanePatch <- OnTheLane
    ReceiptCommits = 3
    Location = {"l1", "alias", "l2", "odd"}
    MirrorObject = {"o1", "o2"}
    ObjectAt <- OneAliased
    FirstStages = {"designated", "acquired", "mirrored", "exercised"}
    AcquisitionSteps = 1
    MaxMade = 2
    PublishedFact = {"a", "b"}
    PublishedObservation = {"o"}
    PublishedCommits = 3
    Installer = {"i1"}
    Gate = {"g1", "g2"}
    CircuitChanges = 2
    Sources = {"s1", "s2"}
    FirstSources = "s1"
    LockOf <- OneLock
    Machine = {"m1", "m2", "bad"}
    OutOfOrder = {"bad"}
    Runner = {"r1", "r2"}
    MaxDesignations = 2
INVARIANT LockedForTheRun
CHECK_DEADLOCK FALSE
