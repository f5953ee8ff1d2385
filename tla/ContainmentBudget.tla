------------------------- MODULE ContainmentBudget -------------------------
(***************************************************************************)
(* The containment of VaultKernelPrototype.sol by itself, next to a full   *)
(* record of when the vault was contained.  Guardians always agree to      *)
(* contain; authority may end by a migration at any time.                  *)
(***************************************************************************)
EXTENDS KernelContainment, FiniteSets

CONSTANT MaxTime                    \* bound on time

VARIABLES
    starts,                         \* history: when episodes started
    containedAt                     \* history: t for a contained time t .. t + 1

vars == <<now, containment, starts, containedAt>>

Init ==
    /\ now = GenesisTime
    /\ ContainmentInit
    /\ starts = {}
    /\ containedAt = {}

enterContainment ==
    /\ Contain
    /\ starts' = starts \cup {now}
    /\ UNCHANGED <<now, containedAt>>

bindMigration ==
    /\ safeState \in {"NORMAL", "CONTAINED"}
    /\ LeaveFor("MIGRATION_ONLY")
    /\ UNCHANGED <<now, starts, containedAt>>

\* BIND_DELAY is in module VaultKernel.
retire ==
    /\ safeState = "MIGRATION_ONLY"
    /\ LeaveFor("RETIRED")
    /\ UNCHANGED <<now, starts, containedAt>>

Tick ==
    /\ now < MaxTime
    /\ now' = now + 1
    /\ containedAt' = IF EffectiveState = "CONTAINED" THEN containedAt \cup {now} ELSE containedAt
    /\ UNCHANGED <<containment, starts>>

Next == enterContainment \/ bindMigration \/ retire \/ Tick

Spec == Init /\ [][Next]_vars

-----------------------------------------------------------------------------
(* Properties *)

Window(t) == t..(t + CONTAINMENT_WINDOW - 1)

\* I-CONTAINMENT-BUDGET (VaultKernelPrototype.sol:1599): no window, wherever it
\* begins, holds more contained time than the budget, though the code looks at
\* one stored start only (:1629).
BudgetKept ==
    \A t \in 0..now : Cardinality(containedAt \cap Window(t)) <= CONTAINMENT_BUDGET

\* "EXACT: the three most recent starts are consulted" (VaultKernelPrototype.sol:1652):
\* as long as authority has not ended, the view reports the contained time of
\* the trailing window, however the episodes straddle its edge.
Observed == Cardinality(containedAt \cap (now - CONTAINMENT_WINDOW)..(now - 1))

ReportExact ==
    safeState \in {"NORMAL", "CONTAINED"} => containmentUsedInWindow = Observed
=============================================================================
