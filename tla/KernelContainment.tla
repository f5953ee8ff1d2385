------------------------- MODULE KernelContainment -------------------------
(***************************************************************************)
(* VaultKernelPrototype.sol: the safe state of a vault and the containment *)
(* that guardians can put it in.  Containment ends by the clock alone and  *)
(* writes nothing when it does: every decision asks EffectiveState.        *)
(*                                                                         *)
(* Every episode lasts CONTAINMENT_MAX.  Three starts are stored, 0 for    *)
(* none: the last one as containedUntil - CONTAINMENT_MAX.                 *)
(***************************************************************************)
EXTENDS Integers

CONSTANTS
    CONTAINMENT_MAX, CONTAINMENT_BUDGET, CONTAINMENT_WINDOW,
    GenesisTime             \* block.timestamp at the deployment

\* The asserts of the constructor.
ASSUME ContainmentAssumption ==
    /\ CONTAINMENT_MAX \in Nat \ {0}
    /\ CONTAINMENT_WINDOW \in Nat
    /\ CONTAINMENT_BUDGET = 2 * CONTAINMENT_MAX
    /\ CONTAINMENT_BUDGET < CONTAINMENT_WINDOW

ASSUME GenesisAssumption == GenesisTime \in Nat \ {0}

VARIABLES
    now,                            \* block.timestamp, never 0
    safeState,
    containedUntil,
    previousContainmentStart,
    earlierContainmentStart

containment == <<safeState, containedUntil, previousContainmentStart, earlierContainmentStart>>

\* RECOVERY_ONLY is declared by the code and never assigned.
SafeState == {"NORMAL", "CONTAINED", "MIGRATION_ONLY", "RETIRED"}

ContainmentInit ==
    /\ safeState = "NORMAL"
    /\ containedUntil = 0
    /\ previousContainmentStart = 0
    /\ earlierContainmentStart = 0

EffectiveState ==
    IF safeState = "CONTAINED" /\ now >= containedUntil THEN "NORMAL" ELSE safeState

RecoveryOpen == EffectiveState \in {"NORMAL", "CONTAINED"}

IsNormal == EffectiveState = "NORMAL"

LastStart == IF containedUntil = 0 THEN 0 ELSE containedUntil - CONTAINMENT_MAX

MayContain == EffectiveState = "NORMAL"

\* Slip: off by one at the edge of the window.
BudgetTooEarly ==
    previousContainmentStart # 0 => now + 1 >= previousContainmentStart + CONTAINMENT_WINDOW

\* The last start lies a whole episode back, so the one before it decides.
BudgetAllows ==
    previousContainmentStart # 0 => now >= previousContainmentStart + CONTAINMENT_WINDOW

\* What enterContainment does once the quorum stands.
Contain ==
    /\ MayContain
    /\ BudgetAllows
    /\ earlierContainmentStart' = previousContainmentStart
    /\ previousContainmentStart' = LastStart
    /\ containedUntil' = now + CONTAINMENT_MAX
    /\ safeState' = "CONTAINED"

\* What bindMigration and retire do; nothing leads back.
LeaveFor(state) ==
    /\ safeState' = state
    /\ UNCHANGED <<containedUntil, previousContainmentStart, earlierContainmentStart>>

-----------------------------------------------------------------------------
(* containmentUsedInWindow() *)

WindowFrom == IF now > CONTAINMENT_WINDOW THEN now - CONTAINMENT_WINDOW ELSE 0

\* The part of an episode inside WindowFrom .. now.
containedWithin(start) ==
    LET lo == IF start > WindowFrom THEN start ELSE WindowFrom
        hi == IF start + CONTAINMENT_MAX < now THEN start + CONTAINMENT_MAX ELSE now
    IN  IF start # 0 /\ hi > lo THEN hi - lo ELSE 0

containmentUsedInWindow ==
    containedWithin(LastStart) + containedWithin(previousContainmentStart)
        + containedWithin(earlierContainmentStart)
=============================================================================
