-------------------------- MODULE VaultGovernance --------------------------
(***************************************************************************)
(* The operator's side of WalletWallVault.sol: block time, the pause       *)
(* switch, and the two time-locked parameters every vault of the contract  *)
(* reads - the large-withdrawal parameters and the policy engine.  (The    *)
(* third time-locked value, the PQ verifier, has rules of its own and is   *)
(* the subject of module VerifierRotation.)                                *)
(*                                                                         *)
(* A call that reverts leaves no trace, so a revert is the absence of a    *)
(* step; every conjunct without a prime below is one of the code's         *)
(* "if (...) revert" lines.                                                *)
(***************************************************************************)
EXTENDS Integers, FiniteSets

CONSTANTS
    Engine,                         \* policy engine contracts
    NoEngine,                       \* address(0): policy enforcement off
    EngineProposal,                 \* values the operator may propose as engine
    Threshold,                      \* values the operator may propose as threshold
    Delay,                          \* values the operator may propose as delay
    LARGE_TX_PARAMS_UPDATE_DELAY,
    POLICY_ENGINE_UPDATE_DELAY,
    GOVERNANCE_GRACE_PERIOD,
    MaxTime                         \* bound on block time

ASSUME GovernanceAssumption ==
    /\ NoEngine \notin Engine
    /\ EngineProposal \subseteq Engine \cup {NoEngine}
    /\ Threshold \subseteq Nat
    /\ Delay \subseteq Nat
    /\ LARGE_TX_PARAMS_UPDATE_DELAY \in Nat \ {0}
    /\ POLICY_ENGINE_UPDATE_DELAY \in Nat \ {0}
    /\ GOVERNANCE_GRACE_PERIOD \in Nat
    /\ MaxTime \in Nat

VARIABLES
    now,                    \* block.timestamp
    paused,                 \* OpenZeppelin Pausable
    largeTxThreshold, largeTxDelay,
    pendingLargeTx,         \* pendingLargeTxThreshold / Delay / ValidAfter
    policyEngine,
    pendingPolicyEngine,    \* pendingPolicyEngine / ValidAfter
    engineState             \* what each engine would answer right now

govVars == <<largeTxThreshold, largeTxDelay, pendingLargeTx,
             policyEngine, pendingPolicyEngine>>

\* Nothing announced: all three slots are zero, and validAfter = 0 is the flag
\* that apply and cancel test.
NoLargeTx == [threshold |-> 0, delay |-> 0, validAfter |-> 0]
NoPolicyEngineUpdate == [engine |-> NoEngine, validAfter |-> 0]

\* An engine permits or denies what it is asked, or is gone (no code, or every
\* call to it reverts).
Verdict == {"permit", "deny", "gone"}

\* Engines are contracts of their own: their code and rules can change between
\* any two calls to the vault.
HasCode(e) == e # NoEngine => engineState[e] # "gone"

Permits(e) == e # NoEngine => engineState[e] = "permit"

GovTypeOK ==
    /\ now \in 0..MaxTime
    /\ paused \in BOOLEAN
    /\ largeTxThreshold \in Nat
    /\ largeTxDelay \in Nat
    /\ pendingLargeTx \in [threshold : Nat, delay : Nat, validAfter : Nat]
    /\ policyEngine \in Engine \cup {NoEngine}
    /\ pendingPolicyEngine \in [engine : Engine \cup {NoEngine}, validAfter : Nat]
    /\ engineState \in [Engine -> Verdict]

GovInit ==
    /\ now = 0
    /\ paused = FALSE
    /\ largeTxThreshold = 0
    /\ largeTxDelay = 0
    /\ pendingLargeTx = NoLargeTx
    /\ policyEngine = NoEngine
    /\ pendingPolicyEngine = NoPolicyEngineUpdate
    /\ engineState \in [Engine -> Verdict]

-----------------------------------------------------------------------------
\* Slip: a proposal stays good for ever.
MatureForever(validAfter) == validAfter # 0 /\ now >= validAfter

\* Announced, its delay over, and (_requireNotExpired) its grace window, which
\* is closed on both ends, not over yet.
Mature(validAfter) ==
    /\ validAfter # 0
    /\ now >= validAfter
    /\ now <= validAfter + GOVERNANCE_GRACE_PERIOD

proposeLargeTxParams(threshold, delay) ==
    /\ threshold > 0 => delay # 0
    /\ pendingLargeTx' = [threshold |-> threshold, delay |-> delay,
                          validAfter |-> now + LARGE_TX_PARAMS_UPDATE_DELAY]
    /\ UNCHANGED <<largeTxThreshold, largeTxDelay, policyEngine,
                   pendingPolicyEngine, now, paused, engineState>>

applyLargeTxParams ==
    /\ Mature(pendingLargeTx.validAfter)
    /\ largeTxThreshold' = pendingLargeTx.threshold
    /\ largeTxDelay' = pendingLargeTx.delay
    /\ pendingLargeTx' = NoLargeTx
    /\ UNCHANGED <<policyEngine, pendingPolicyEngine, now, paused, engineState>>

cancelLargeTxParams ==
    /\ pendingLargeTx.validAfter # 0
    /\ pendingLargeTx' = NoLargeTx
    /\ UNCHANGED <<largeTxThreshold, largeTxDelay, policyEngine,
                   pendingPolicyEngine, now, paused, engineState>>

\* Proposing NoEngine is how enforcement is switched off, under the same delay.
proposePolicyEngine(e) ==
    /\ HasCode(e)
    /\ pendingPolicyEngine' = [engine |-> e,
                               validAfter |-> now + POLICY_ENGINE_UPDATE_DELAY]
    /\ UNCHANGED <<largeTxThreshold, largeTxDelay, pendingLargeTx,
                   policyEngine, now, paused, engineState>>

applyPolicyEngine ==
    /\ Mature(pendingPolicyEngine.validAfter)
    /\ HasCode(pendingPolicyEngine.engine)
    /\ policyEngine' = pendingPolicyEngine.engine
    /\ pendingPolicyEngine' = NoPolicyEngineUpdate
    /\ UNCHANGED <<largeTxThreshold, largeTxDelay, pendingLargeTx,
                   now, paused, engineState>>

cancelPolicyEngine ==
    /\ pendingPolicyEngine.validAfter # 0
    /\ pendingPolicyEngine' = NoPolicyEngineUpdate
    /\ UNCHANGED <<largeTxThreshold, largeTxDelay, pendingLargeTx,
                   policyEngine, now, paused, engineState>>

pause ==
    /\ ~paused
    /\ paused' = TRUE
    /\ UNCHANGED <<govVars, now, engineState>>

unpause ==
    /\ paused
    /\ paused' = FALSE
    /\ UNCHANGED <<govVars, now, engineState>>

\* The environment: blocks are mined, engines change their mind or disappear.
Tick ==
    /\ now < MaxTime
    /\ now' = now + 1
    /\ UNCHANGED <<govVars, paused, engineState>>

EngineChanges ==
    /\ \E e \in Engine, v \in Verdict :
          /\ engineState[e] # v
          /\ engineState' = [engineState EXCEPT ![e] = v]
    /\ UNCHANGED <<govVars, now, paused>>

OperatorNext ==
    \/ \E t \in Threshold, d \in Delay : proposeLargeTxParams(t, d)
    \/ applyLargeTxParams
    \/ cancelLargeTxParams
    \/ \E e \in EngineProposal : proposePolicyEngine(e)
    \/ applyPolicyEngine
    \/ cancelPolicyEngine
    \/ pause
    \/ unpause
-----------------------------------------------------------------------------
(* Each of the two parameters, seen as a value under a time lock. *)

NoticeOf(slotValue, validAfter, delay) ==
    IF validAfter = 0 THEN [posted |-> FALSE]
    ELSE [posted |-> TRUE, value |-> slotValue, since |-> validAfter - delay]

LargeTxTimelock == INSTANCE Timelock WITH
    Value <- (Threshold \cup {0}) \X (Delay \cup {0}),
    Delay <- LARGE_TX_PARAMS_UPDATE_DELAY,
    Grace <- GOVERNANCE_GRACE_PERIOD,
    clock <- now,
    value <- <<largeTxThreshold, largeTxDelay>>,
    notice <- NoticeOf(<<pendingLargeTx.threshold, pendingLargeTx.delay>>,
                       pendingLargeTx.validAfter, LARGE_TX_PARAMS_UPDATE_DELAY)

PolicyEngineTimelock == INSTANCE Timelock WITH
    Value <- EngineProposal \cup {NoEngine},
    Delay <- POLICY_ENGINE_UPDATE_DELAY,
    Grace <- GOVERNANCE_GRACE_PERIOD,
    clock <- now,
    value <- policyEngine,
    notice <- NoticeOf(pendingPolicyEngine.engine, pendingPolicyEngine.validAfter,
                       POLICY_ENGINE_UPDATE_DELAY)

\* The large-withdrawal threshold and delay change only after a full notice
\* period and before the notice lapses, once per notice (propose-, apply- and
\* cancelLargeTxParams implement Timelock).
LargeTxTimelocked == LargeTxTimelock!Spec

\* The same promise for the policy engine, switching it off included (propose-,
\* apply- and cancelPolicyEngine implement Timelock).
PolicyEngineTimelocked == PolicyEngineTimelock!Spec
============================================================================
