----------------------------- MODULE MCCampaigns ------------------------------
(***************************************************************************)
(* The stateful test campaigns of both kernel generations, each for TLC on *)
(* its own: a behaviour picks one of them, in part, and only that one      *)
(* moves.                                                                  *)
(***************************************************************************)
EXTENDS Integers

CONSTANTS
    Parts,                  \* the campaigns the run takes
    \* Of the kernel under test
    ContainmentMax, ContainmentBudget, ContainmentWindow, GenesisTime,
    RecoveryWindow, RecoveryDelay, BindDelay, ChallengeLimit,
    \* Of the harness and its profiles
    Spares, Thresholds, VerifierKinds, PolicyKinds, QuorumShapes, StatefulProfiles, Generations,
    MaxTime, MaxCalls, MaxReplays, MaxBalance,
    \* Of the campaigns of generation 2, with bounds on time, supply, nonces and calls
    AssetBindDelay, AssetContainment, AssetProfiles,
    MaxAssetTime, MaxSupply, MaxNonce, MaxAssetCalls

VARIABLES
    part,
    sNow, sState, sUntil, sPrevious, sEarlier, sGeneration, sProfile, sKernel, sCtx,
    sAbstract, sHistory, sReplays, sAlarms, sRelayed, sRaised,
    aProfile, aChain, aCtx, aHistory, aAlarms, aUnserial

campaign ==
    <<sNow, sState, sUntil, sPrevious, sEarlier, sGeneration, sProfile, sKernel, sCtx,
      sAbstract, sHistory, sReplays, sAlarms, sRelayed, sRaised>>
assets == <<aProfile, aChain, aCtx, aHistory, aAlarms, aUnserial>>

-----------------------------------------------------------------------------
(* The profiles of prototype/vnext-kernel/stateful/profiles.ts, each cut    *)
(* down to the calls whose interplay it is about.                          *)

Plain(actors, kinds) ==
    [actors |-> actors, kinds |-> kinds, verifier |-> "honest", ecdsaOnlyFloor |-> FALSE,
     commitPqKey |-> FALSE, fabricate |-> FALSE]

\* A stranger lands what was refused while the vault was contained.
ReplayComposition ==
    Plain({"honest", "stranger"},
          {"SPEND", "ENTER_CONTAINMENT", "SET_POLICY", "ROTATE_CREDENTIAL", "REPLAY_PAST_CALL"})

RecoveryVsRoster ==
    Plain({"honest", "attacker-two-guardians"},
          {"INITIATE_RECOVERY", "EXECUTE_RECOVERY", "SET_GUARDIANS", "CANCEL_RECOVERY_BY_QUORUM"})

\* Both cancellations, expiry and what is sent again afterwards.
RecoveryLifecycle ==
    Plain({"honest", "attacker-one-guardian"},
          {"INITIATE_RECOVERY", "CANCEL_RECOVERY", "CANCEL_RECOVERY_BY_QUORUM",
           "EXECUTE_RECOVERY", "REPLAY_PAST_CALL"})

MixedRoots ==
    Plain({"honest", "attacker-guardian-plus-credential"},
          {"INITIATE_RECOVERY", "BIND_MIGRATION", "RETIRE", "EGRESS", "REPLAY_PAST_CALL"})

ByzantineVerifier ==
    [Plain({"honest", "attacker-ecdsa-only"}, {"SPEND", "SET_VERIFIER", "ROTATE_CREDENTIAL"})
        EXCEPT !.verifier = "alwaysTrue"]

CommitmentForgery ==
    [Plain({"honest", "attacker-ecdsa-only"},
           {"ROTATE_CREDENTIAL", "SET_VERIFIER", "INITIATE_RECOVERY", "EXECUTE_RECOVERY"})
        EXCEPT !.ecdsaOnlyFloor = TRUE, !.commitPqKey = TRUE, !.fabricate = TRUE]

Stateful ==
    {ReplayComposition, RecoveryVsRoster, RecoveryLifecycle, MixedRoots, ByzantineVerifier,
     CommitmentForgery}

Campaign ==
    INSTANCE StatefulCampaign WITH
        CONTAINMENT_MAX <- ContainmentMax, CONTAINMENT_BUDGET <- ContainmentBudget,
        CONTAINMENT_WINDOW <- ContainmentWindow,
        RECOVERY_DELAY <- RecoveryDelay, BIND_DELAY <- BindDelay,
        CHALLENGE_LIMIT <- ChallengeLimit, Profiles <- StatefulProfiles,
        now <- sNow, safeState <- sState, containedUntil <- sUntil,
        previousContainmentStart <- sPrevious, earlierContainmentStart <- sEarlier,
        generation <- sGeneration, profile <- sProfile, kernel <- sKernel, ctx <- sCtx,
        abstract <- sAbstract, history <- sHistory, replays <- sReplays, alarms <- sAlarms,
        relayed <- sRelayed, raised <- sRaised

ASSUME Campaign!CutsAreMinima

\* As in KernelContainment and StatefulCampaign.
ASSUME CampaignAssumption ==
    /\ ContainmentMax \in Nat \ {0}
    /\ ContainmentWindow \in Nat
    /\ ContainmentBudget = 2 * ContainmentMax
    /\ ContainmentBudget < ContainmentWindow
    /\ GenesisTime \in Nat \ {0}
    /\ Campaign!StatefulAssumption

-----------------------------------------------------------------------------
(* Those of prototype/vnext-kernel/generation-2/stateful/profiles.ts *)

AllModes ==
    {"VANILLA", "RETURN_FALSE_NO_MOVE", "RETURN_TRUE_NO_MOVE", "SHORT_PAY", "SENDER_FEE",
     "RECIPIENT_FEE", "DUST_SHORT", "REVERTS", "QUERY_REVERTS_AFTER_TRANSFER",
     "QUERY_LIES_EXACT_DEBIT"}
Hooks == {"readNonce", "replaySpend", "secondValidSpend", "egress", "contain", "bindMigration",
          "retire"}

Zoo ==
    [kinds |-> {"SPEND", "TOKEN_MODE", "TOKEN_BLOCKLIST", "DIRECT_TRANSFER"},
     actors |-> {"honest", "stranger"}, modes |-> AllModes, hooks |-> {}]
Reentrancy ==
    [kinds |-> {"SPEND", "ARM_HOOK", "ENTER_CONTAINMENT", "BIND_MIGRATION", "RETIRE",
                "EGRESS_TOKEN", "ADVANCE_TIME"},
     actors |-> {"honest", "attacker-ecdsa-only", "attacker-two-guardians", "stranger"},
     modes |-> {}, hooks |-> Hooks]
Migration ==
    [kinds |-> {"BIND_MIGRATION", "EGRESS_NATIVE", "EGRESS_TOKEN", "EGRESS_OTHER", "RETIRE",
                "TOKEN_BLOCKLIST", "TOKEN_MODE", "DESTINATION_MODE", "UNSOLICITED_TRANSFER",
                "ADVANCE_TIME"},
     actors |-> {"honest", "stranger"}, hooks |-> {},
     modes |-> {"VANILLA", "SHORT_PAY", "RETURN_TRUE_NO_MOVE", "QUERY_REVERTS_AFTER_TRANSFER",
                "QUERY_LIES_EXACT_DEBIT"}]
Relayed ==
    [kinds |-> {"SPEND", "RELAY_TAMPER", "CROSS_ASSET_REPLAY", "SET_POLICY", "ENTER_CONTAINMENT",
                "BIND_MIGRATION", "ADVANCE_TIME", "REPLAY_PAST_CALL"},
     actors |-> {"honest", "stranger"}, modes |-> {}, hooks |-> {}]
Planes ==
    [kinds |-> {"SPEND", "SET_POLICY", "DIRECT_TRANSFER", "TOKEN_REBASE", "FUND",
                "ENTER_CONTAINMENT", "ADVANCE_TIME"},
     actors |-> {"honest", "attacker-two-guardians", "stranger"}, modes |-> {}, hooks |-> {}]

Listed == {Zoo, Reentrancy, Migration, Relayed, Planes}

Assets ==
    INSTANCE StatefulAssets WITH
        BIND_DELAY <- AssetBindDelay, CONTAINMENT <- AssetContainment,
        Profiles <- AssetProfiles, MaxTime <- MaxAssetTime, MaxCalls <- MaxAssetCalls,
        profile <- aProfile, chain <- aChain, ctx <- aCtx, history <- aHistory,
        alarms <- aAlarms, unserial <- aUnserial

\* A token that calls back moves what it is asked for (profiles.ts: only the
\* reentrancy profiles arm a hook).
ASSUME AssetsAssumption ==
    /\ AssetBindDelay \in Nat
    /\ \A p \in AssetProfiles :
          p.hooks = {} \/ p.modes \subseteq {"VANILLA", "NO_RETURN", "RETURN_FALSE_BUT_MOVES"}

-----------------------------------------------------------------------------

FirstGeneration == CHOOSE g \in Generations : TRUE
FirstProfile == CHOOSE p \in StatefulProfiles : TRUE
FirstAssetProfile == CHOOSE p \in AssetProfiles : TRUE

\* A part that does not move starts in one state only.
Init ==
    /\ part \in Parts
    /\ Campaign!Init
    /\ part # "campaign" => sGeneration = FirstGeneration /\ sProfile = FirstProfile
    /\ Assets!Init /\ (part # "assets" => aProfile = FirstAssetProfile)

Only(name) == part = name /\ UNCHANGED part

Next ==
    \/ Only("campaign") /\ Campaign!Next /\ UNCHANGED assets
    \/ Only("assets") /\ Assets!Next /\ UNCHANGED campaign

Spec == Init /\ [][Next]_<<part, campaign, assets>>

-----------------------------------------------------------------------------
(* Properties, each as its module states it, of the part that moves *)

\* What a campaign reports on the real kernel has two causes only
\* (stateful/campaign.ts:455).
AlarmsExplained == part = "campaign" => Campaign!AlarmsExplained

\* The campaign's record says that a recovery is live exactly when one is
\* (stateful/model.ts:367).
EpisodeMirrorsRequest == part = "campaign" => Campaign!EpisodeMirrorsRequest

\* Generation 2 signs with, and charges for, what is really installed
\* (generation-2/stateful/actions.ts:292-299).
BeliefsFollowChain == part = "campaign" => Campaign!BeliefsFollowChain

\* The three together: a campaign raises no alarm for what it misread.
CampaignIsHonest == AlarmsExplained /\ EpisodeMirrorsRequest /\ BeliefsFollowChain

\* The generation-2 campaign reports nothing of the real candidate
\* (generation-2/stateful/campaign.ts:1144-1150).
NoAssetAlarm == part = "assets" => Assets!NoAssetAlarm

\* So it is for what leaves the vault (VaultKernelGen2Prototype.sol:1001-1071).
SerialOutward == part = "assets" => Assets!SerialOutward

\* "Nothing the hook does may produce an outcome no ordering of authorised acts
\* could" (generation-2/stateful/profiles.ts:141).
SerialEquivalence == part = "assets" => Assets!SerialEquivalence

\* From a binding a stranger takes every holding to the destination
\* (generation-2/stateful/campaign.ts:890-925).
ExitReachable == part = "assets" => Assets!ExitReachable
=============================================================================
