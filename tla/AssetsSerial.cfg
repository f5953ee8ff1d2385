SPECIFICATION Spec
CONSTANTS
    Parts = {"assets"}
    ContainmentMax = 1
    ContainmentBudget = 2
    ContainmentWindow = 3
    GenesisTime = 1
    RecoveryWindow = 2
    RecoveryDelay = 1
    BindDelay = 1
    ChallengeLimit = 1
    Spares = {"spare"}
    Thresholds = {2, 3}
    VerifierKinds = {"honest", "alwaysTrue"}
    PolicyKinds = {"allow", "deny"}
    QuorumShapes = {"honest", "duplicateIndex"}
    StatefulProfiles <- Stateful
    Generations = {1, 2}
    MaxTime = 4
    MaxCalls = 3
    MaxReplays = 2
    MaxBalance = 1
    AssetBindDelay = 1
    AssetContainment = 1
    AssetProfiles <- Listed
    MaxAssetTime = 3
    MaxSupply = 3
    MaxNonce = 2
    MaxAssetCalls = 3
INVARIANT SerialEquivalence
CHECK_DEADLOCK FALSE
