------------------------------ MODULE MCVault ------------------------------
(* WalletWallVault for TLC: one vault, started where the operator has armed *)
(* the large-withdrawal parameters.                                         *)
EXTENDS WalletWallVault, TLC

CONSTANTS g1, g2, g3

GuardianSymmetry == Permutations({g1, g2, g3})

\* The contract after the operator armed the timelock: proposeLargeTxParams,
\* LARGE_TX_PARAMS_UPDATE_DELAY, applyLargeTxParams, with time counted from there.
ArmedInit ==
    /\ TenantInit
    /\ now = 0
    /\ paused = FALSE
    /\ largeTxThreshold = 1
    /\ largeTxDelay = 1
    /\ pendingLargeTx = NoLargeTx
    /\ policyEngine = NoEngine
    /\ pendingPolicyEngine = NoPolicyEngineUpdate
    /\ engineState \in [Engine -> Verdict]

ArmedSpec == ArmedInit /\ [][Next]_vars

\* The same, with a policy engine applied as well.
EngineInit ==
    /\ TenantInit
    /\ now = 0
    /\ paused = FALSE
    /\ largeTxThreshold = 1
    /\ largeTxDelay = 1
    /\ pendingLargeTx = NoLargeTx
    /\ policyEngine \in Engine
    /\ pendingPolicyEngine = NoPolicyEngineUpdate
    /\ engineState \in [Engine -> Verdict]
============================================================================
