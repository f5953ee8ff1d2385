\* Vault: two guardians, and an engine in force that may vanish for good.  Observer: a
\* second one comes after the first, one container is traced, one answer may be late.
SPECIFICATION LiveSumSpec
CONSTANTS
    g1 = g1
    g2 = g2
    g3 = g3
    Engine = {e1}
    NoEngine = NoEngine
    NoVault = NoVault
    NoRecovery = NoRecovery
    NoPending = NoPending
    NoFrame = NoFrame
    TransferFrame = TransferFrame
    EngineProposal = {}
    Threshold = {}
    Delay = {}
    LARGE_TX_PARAMS_UPDATE_DELAY = 1
    POLICY_ENGINE_UPDATE_DELAY = 1
    GOVERNANCE_GRACE_PERIOD = 1
    MaxTime = 2
    Owner = {o1}
    Account = {o1, g1, g2}
    Recipient = {r1}
    EcdsaKey = {k1}
    PqKey = {p1}
    ZeroAddress = ZeroAddress
    EmptyKey = EmptyKey
    Amount = {1, 2}
    Deadline = {2}
    CreatableMode = {"EcdsaOnly"}
    RECOVERY_DELAY = 1
    MAX_GUARDIANS = 2
    MaxNonce = 2
    MaxCredit = 2
    PhaseNames <- FewPhases
    MaxContainers = 1
    MaxTimeouts = 1
    MaxObservers = 2
INVARIANTS Conservation RunIsObserved
PROPERTIES EachAuthorisationPaysOnce RecoveryCompletes QueueNeverStuck StopsWhenToolIsDone
CHECK_DEADLOCK FALSE
