-------------------------- MODULE MCContractParts --------------------------
(***************************************************************************)
(* The contracts that share no state with one another, each for TLC on its *)
(* own: a behaviour picks one of them, in part, and only that one moves.   *)
(* Verifier rotation is this module's own state, that of the others is in  *)
(* records of variables with a prefix.  Each keeps its time.               *)
(***************************************************************************)
EXTENDS VerifierRotation, PolicyControlConstants, TLC

CONSTANTS
    ann, bob, w1, w2, w3, idA, idB,
    k1,
    \* Daily spend ledger
    MAX_ACTIVE_ENTRIES, MAX_BOOKABLE_AMOUNT, WINDOW,
    SpendAmount, SpendLimit, LedgerTime,
    \* Composite policy engine
    Module, Ledger, Consumer, Vault, Payment,
    MAX_MODULES, MODULE_REMOVAL_DELAY, MODULE_REMOVAL_GRACE_PERIOD,
    EngineTime, MaxBooked,
    \* Multi-signature vault
    Owner, Signer, PqKey, Amount, Deadline,
    MaxList, MultiSigTime, MaxPayments, MaxBalance,
    \* Containment
    CONTAINMENT_MAX, CONTAINMENT_BUDGET, CONTAINMENT_WINDOW, GenesisTime, ContainmentTime,
    \* Policy control
    ControlTime

\* Two deployments of one identity with different halt principals and a wrapper
\* of another identity.
Principals == (w1 :> ann) @@ (w2 :> bob) @@ (w3 :> bob)
Identities == (w1 :> idA) @@ (w2 :> idA) @@ (w3 :> idB)

VARIABLES
    part,
    lNow, lLimit, lRing, lHead, lCount, lSpent,
    eNow, eModules, ePending, eCaller, ePermits, eBooked, eAnnounced, eAdmitted,
    mNow, mPaused, mVerifier, mVaults, mSigned, mSpent,
    cNow, cState, cUntil, cPrevious, cEarlier, cStarts, cContainedAt,
    pNow, pKey, pEpoch, pPaused, pNonce, pLimit, pAdmitters, pCount, pController,
    pInitialized, pPending, pProposal

rotation == vars
ledger == <<lNow, lLimit, lRing, lHead, lCount, lSpent>>
engine == <<eNow, eModules, ePending, eCaller, ePermits, eBooked, eAnnounced, eAdmitted>>
multisig == <<mNow, mPaused, mVerifier, mVaults, mSigned, mSpent>>
budget == <<cNow, cState, cUntil, cPrevious, cEarlier, cStarts, cContainedAt>>
control ==
    <<pNow, pKey, pEpoch, pPaused, pNonce, pLimit, pAdmitters, pCount, pController,
      pInitialized, pPending, pProposal>>

DailyLedger ==
    INSTANCE DailySpendLedger WITH
        Amount <- SpendAmount, Limit <- SpendLimit, MaxTime <- LedgerTime,
        now <- lNow, limit <- lLimit, ring <- lRing, head <- lHead, count <- lCount,
        rollingSpent <- lSpent

Engine ==
    INSTANCE CompositePolicyEngine WITH
        MaxTime <- EngineTime,
        now <- eNow, modules <- eModules, pendingModuleRemovalValidAfter <- ePending,
        admissionCaller <- eCaller, permits <- ePermits, booked <- eBooked,
        announced <- eAnnounced, admitted <- eAdmitted

MultiSignature ==
    INSTANCE MultiSigVault WITH
        MaxTime <- MultiSigTime, MaxNonce <- MaxPayments,
        now <- mNow, paused <- mPaused, pqVerifier <- mVerifier, vaults <- mVaults,
        signed <- mSigned, spent <- mSpent

Budget ==
    INSTANCE ContainmentBudget WITH
        MaxTime <- ContainmentTime,
        now <- cNow, safeState <- cState, containedUntil <- cUntil,
        previousContainmentStart <- cPrevious, earlierContainmentStart <- cEarlier,
        starts <- cStarts, containedAt <- cContainedAt

Control ==
    INSTANCE PolicyControl WITH
        MaxTime <- ControlTime,
        now <- pNow, key <- pKey, policyControlEpoch <- pEpoch, bridgePaused <- pPaused,
        controlNonce <- pNonce, limit <- pLimit, admitters <- pAdmitters,
        admitterCount <- pCount, controller <- pController,
        controllerInitialized <- pInitialized, pending <- pPending, proposal <- pProposal

ASSUME PartsAssumption ==
    DailyLedger!LedgerAssumption /\ Engine!CompositeAssumption /\ MultiSignature!MultiSigAssumption

\* As in KernelContainment.
ASSUME BudgetAssumption ==
    /\ CONTAINMENT_MAX \in Nat \ {0}
    /\ CONTAINMENT_WINDOW \in Nat
    /\ CONTAINMENT_BUDGET = 2 * CONTAINMENT_MAX
    /\ CONTAINMENT_BUDGET < CONTAINMENT_WINDOW
    /\ GenesisTime \in Nat \ {0}

Parts == {"rotation", "ledger", "engine", "multisig", "budget", "control"}

\* A part that does not move starts in one state only.
PartsInit ==
    /\ part \in Parts
    /\ Init /\ DailyLedger!Init /\ Engine!Init /\ MultiSignature!Init /\ Budget!Init /\ Control!Init
    /\ part = "rotation" \/ (pqVerifier = w1 /\ owner = bob /\ report[w1] = WrapperReport(w1, FALSE)
                             /\ \A v \in Verifier \ {w1} :
                                   report[v] = IF v \in Wrapper THEN WrapperReport(v, FALSE)
                                                                ELSE Silence)
    /\ part = "engine" \/ \A m \in Module : ePermits[m] = Payment
    /\ part = "control" \/ pKey = k1
    /\ part = "multisig" \/ mVerifier = "honest"

Only(name) == part = name /\ UNCHANGED part

PartsNext ==
    \/ Only("rotation") /\ Next /\ UNCHANGED <<ledger, engine, multisig, budget, control>>
    \/ Only("ledger") /\ DailyLedger!Next /\ UNCHANGED <<rotation, engine, multisig, budget, control>>
    \/ Only("engine") /\ Engine!Next /\ UNCHANGED <<rotation, ledger, multisig, budget, control>>
    \/ Only("multisig") /\ MultiSignature!Next /\ UNCHANGED <<rotation, ledger, engine, budget, control>>
    \/ Only("budget") /\ Budget!Next /\ UNCHANGED <<rotation, ledger, engine, multisig, control>>
    \/ Only("control") /\ Control!Next /\ UNCHANGED <<rotation, ledger, engine, multisig, budget>>

PartsSpec == PartsInit /\ [][PartsNext]_<<part, rotation, ledger, engine, multisig, budget, control>>

-----------------------------------------------------------------------------
(* Properties, each as its module states it, of the part that moves *)

\* No interleaving of spends, limit changes, disarmings and time admits more
\* than the limit in any trailing window (DailySpendLimitPolicy.sol:936).
KeepsRollingLimit == DailyLedger!KeepsRollingLimit

\* A module drops out of the engine only after its own removal was on notice for
\* the delay and within the grace period (CompositePolicyEngine.sol:105).
EvictedOnNotice == Engine!EvictedOnNotice

\* A vault's bucket holds the payments of that vault and nothing else
\* (CompositePolicyEngine.sol:336).
BucketsExact == part = "engine" => Engine!BucketsExact

\* A multi-signature vault pays a request that enough different signers and keys
\* signed (WalletWallMultiSigVault.sol:239).
PaidWithThresholds == MultiSignature!PaidWithThresholds

\* No window holds more contained time than the budget
\* (VaultKernelPrototype.sol:1599), and the view says how much the trailing one
\* holds (:1652).
BudgetKept == part = "budget" => Budget!BudgetKept /\ Budget!ReportExact

\* Whatever was proposed before a recovery or a rotation is not concluded through
\* the bridge after it (DailySpendLimitPolicy.sol:613).
RecoveryDropsWeakening == Control!RecoveryDropsWeakening
=============================================================================
