\* Rotation: two accounts; the delay is one unit and there is no grace, so that one
\* unit leaves room for a rotation and the proposal of another.
\* Composite: two of three modules fit in the list, so that one that leaves is
\* replaced, and the one in front as well as the one behind is moved; one of two
\* consumers is a vault.
\* Multisig: one or both of two signers and of two post-quantum keys are listed, in
\* either order; a payment of one unit out of two, and a deadline that passes.
\* Containment: episodes of two in a window of seven, for three windows: budgets run
\* out and come back, and windows cut episodes at both ends.
\* Control: two limits and none, two admitters; a delay of one and a grace period of
\* two leave a proposal two units to be applied, and time for a second one.
\* Ledger: four slots over a window of three: the ring wraps, fills up before the
\* window does, and entries of one second are split at the largest bookable amount.
SPECIFICATION PartsSpec
CONSTANTS
    ann = ann
    bob = bob
    w1 = w1
    w2 = w2
    w3 = w3
    idA = idA
    idB = idB
    k1 = k1
    MAX_ACTIVE_ENTRIES = 4
    MAX_BOOKABLE_AMOUNT = 2
    WINDOW = 3
    SpendAmount = {0, 1, 2, 3}
    SpendLimit = {0, 3, 6}
    LedgerTime = 5
    Module = {daily, weekly, sanctions}
    Ledger = {daily, weekly}
    Consumer = {vault, other}
    Vault = {vault}
    Payment = {payment}
    MAX_MODULES = 2
    MODULE_REMOVAL_DELAY = 1
    MODULE_REMOVAL_GRACE_PERIOD = 1
    EngineTime = 3
    MaxBooked = 1
    Owner = {o1}
    Signer = {1, 2}
    PqKey = {p1, p2}
    Amount = {1}
    Deadline = {0}
    MaxList = 2
    MultiSigTime = 1
    MaxPayments = 1
    MaxBalance = 2
    CONTAINMENT_MAX = 2
    CONTAINMENT_BUDGET = 4
    CONTAINMENT_WINDOW = 7
    GenesisTime = 1
    ContainmentTime = 20
    ControlTime = 5
    Limit = {0, 1, 2}
    Caller = {engine, composite}
    Key = {k1, k2}
    POLICY_CONTROL_DELAY = 1
    POLICY_CONTROL_GRACE_PERIOD = 2
    MaxNonce = 5
    MaxEpoch = 2
    Account = {ann, bob}
    NoAccount = NoAccount
    Wrapper = {w1, w2, w3}
    OtherVerifier = {otherVerifier}
    NoVerifier = NoVerifier
    Identity = {idA, idB}
    NoIdentity = NoIdentity
    WrapperPrincipal <- Principals
    WrapperIdentity <- Identities
    PQ_VERIFIER_UPDATE_DELAY = 1
    GOVERNANCE_GRACE_PERIOD = 0
    MaxTime = 1
INVARIANTS OwnerCannotHalt BucketsExact BudgetKept
PROPERTIES KeepsRollingLimit EvictedOnNotice PaidWithThresholds RecoveryDropsWeakening
CHECK_DEADLOCK FALSE
