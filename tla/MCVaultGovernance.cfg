SPECIFICATION Spec
CONSTANTS
    g1 = g1
    g2 = g2
    g3 = g3
    Engine = {e1}
    NoEngine = NoEngine
    NoVault = NoVault
    NoRecovery = NoRecovery
    NoPending = NoPending
    NoFrame = NoFrame
    TransferFrame = TransferFrame
    EngineProposal = {NoEngine, e1}
    Threshold = {0, 1}
    Delay = {1, 2}
    LARGE_TX_PARAMS_UPDATE_DELAY = 1
    POLICY_ENGINE_UPDATE_DELAY = 1
    GOVERNANCE_GRACE_PERIOD = 1
    MaxTime = 3
    Owner = {o1}
    Account = {o1}
    Recipient = {r1}
    EcdsaKey = {k1}
    PqKey = {p1}
    ZeroAddress = ZeroAddress
    EmptyKey = EmptyKey
    Amount = {1, 2}
    Deadline = {3}
    CreatableMode = {"EcdsaOnly"}
    RECOVERY_DELAY = 1
    MAX_GUARDIANS = 1
    MaxNonce = 1
    MaxCredit = 2
PROPERTIES LargeTxTimelocked QueuedPayoutHonoursTerms
CHECK_DEADLOCK FALSE
