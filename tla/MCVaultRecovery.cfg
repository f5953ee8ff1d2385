SPECIFICATION ArmedSpec
CONSTANTS
    g1 = g1
    g2 = g2
    g3 = g3
    Engine = {}
    NoEngine = NoEngine
    NoVault = NoVault
    NoRecovery = NoRecovery
    NoPending = NoPending
    NoFrame = NoFrame
    TransferFrame = TransferFrame
    EngineProposal = {}
    Threshold = {}
    Delay = {}
    LARGE_TX_PARAMS_UPDATE_DELAY = 1
    POLICY_ENGINE_UPDATE_DELAY = 1
    GOVERNANCE_GRACE_PERIOD = 1
    MaxTime = 3
    Owner = {o1}
    Account = {o1, g1, g2, g3}
    Recipient = {r1}
    EcdsaKey = {k1, k2}
    PqKey = {p1}
    ZeroAddress = ZeroAddress
    EmptyKey = EmptyKey
    Amount = {2}
    Deadline = {3}
    CreatableMode = {"Hybrid"}
    RECOVERY_DELAY = 1
    MAX_GUARDIANS = 3
    MaxNonce = 3
    MaxCredit = 2
SYMMETRY GuardianSymmetry
INVARIANT FlagsConsistent
PROPERTIES RecoveryNotDisplaced CredentialChangesAreComplete
CHECK_DEADLOCK FALSE
