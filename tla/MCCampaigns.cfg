\* Both campaigns, each profile with its own.  Both verifiers and policies; a recovery
\* window of two, so that requests mature and expire within four units; three calls and two
\* replays.  With assets, one delay passes and one containment ends within three units;
\* three calls cover a refusal, what undoes its reason, and its replay.
SPECIFICATION Spec
CONSTANTS
    Parts = {"campaign", "assets"}
    ContainmentMax = 1
    ContainmentBudget = 2
    ContainmentWindow = 3
    GenesisTime = 1
    RecoveryWindow = 2
    RecoveryDelay = 1
    BindDelay = 1
    ChallengeLimit = 1
    Spares = {"spare"}
    Thresholds = {2, 3}
    VerifierKinds = {"honest", "alwaysTrue"}
    PolicyKinds = {"allow", "deny"}
    QuorumShapes = {"honest", "duplicateIndex"}
    StatefulProfiles <- Stateful
    Generations = {1, 2}
    MaxTime = 4
    MaxCalls = 3
    MaxReplays = 2
    MaxBalance = 1
    AssetBindDelay = 1
    AssetContainment = 1
    AssetProfiles <- Listed
    MaxAssetTime = 3
    MaxSupply = 3
    MaxNonce = 2
    MaxAssetCalls = 3
INVARIANT CampaignIsHonest
INVARIANTS NoAssetAlarm SerialOutward ExitReachable
CHECK_DEADLOCK FALSE
