\* A good and a lost signer, a known and an unknown commitment, a verifier inside
\* the root and a lying one outside; a spend with everything else in the middle of it.
SPECIFICATION Spec
CONSTANTS
    CONTAINMENT_MAX = 1
    CONTAINMENT_BUDGET = 2
    CONTAINMENT_WINDOW = 3
    GenesisTime = 1
    RECOVERY_DELAY = 1
    RECOVERY_EXPIRY = 1
    BIND_DELAY = 1
    CHALLENGE_LIMIT = 1
    Signers = {alice, lost}
    PqKeys = {pq}
    Held = {alice, pq}
    NoKey = none
    Orphan = orphan
    Verifiers = {honest, credulous}
    Admissible = {honest}
    Answering = {honest}
    Engines = {plane}
    NoEngine = none
    Amounts = {1}
    MaxBalance = 1
    MaxTime = 4
    MaxRequests = 2
    MaxOwnerActs = 2
    MaxGuardianActs = 3
    MaxSpends = 1
INVARIANT ChallengeBudget
PROPERTY RequestUndisturbed
CHECK_DEADLOCK FALSE
