------------------------------- MODULE MCLive -------------------------------
(***************************************************************************)
(* What has to come about, for TLC: recoveries and withdrawals of the      *)
(* vault end, and the observer of a proving run does.  A behaviour picks   *)
(* one of the two, in part, and only that one moves.                       *)
(***************************************************************************)
EXTENDS MCVault

CONSTANTS PhaseNames, MaxContainers, MaxTimeouts, MaxObservers

VARIABLES
    part,
    oTracefs, oTrace, oObserver, oToTool, oToObserver, oTool, oClient, oTimeouts, oLost

observing ==
    <<oTracefs, oTrace, oObserver, oToTool, oToObserver, oTool, oClient, oTimeouts, oLost>>

both == <<part, vars, observing>>

Observation ==
    INSTANCE ObserverRun WITH
        tracefs <- oTracefs, trace <- oTrace, observer <- oObserver, toTool <- oToTool,
        toObserver <- oToObserver, tool <- oTool, client <- oClient, timeouts <- oTimeouts,
        lostBeforeDone <- oLost

\* The phases of one run, without those that only repeat the same exchange.
FewPhases == <<"PROBES_BEFORE_BEGIN", "HOST_SPAWN", "HOST_EXIT", "PROBES_AFTER_END">>

ASSUME PhasesAssumption == Observation!PhaseAssumption

LiveInit ==
    /\ part \in {"vault", "observer"}
    /\ EngineInit /\ Observation!Init
    /\ part = "observer" => \A e \in Engine : engineState[e] = "permit"

Only(name) == part = name /\ UNCHANGED part

LiveNext ==
    \/ Only("vault") /\ Next /\ UNCHANGED observing
    \/ Only("observer") /\ Observation!Next /\ UNCHANGED vars

VaultDoes(A) == Only("vault") /\ A /\ UNCHANGED observing
ObserverDoes(A) == Only("observer") /\ A /\ UNCHANGED vars

\* CallsReturn of the vault, and the fairness of ObserverRun.
Fairness ==
    /\ WF_both(VaultDoes(checkReturns)) /\ WF_both(VaultDoes(transferReturns))
    /\ WF_both(ObserverDoes(Observation!ObserverStep))
    /\ WF_both(ObserverDoes(Observation!ClientStep))
    /\ WF_both(ObserverDoes(Observation!ToolStep))

LiveSumSpec == LiveInit /\ [][LiveNext]_both /\ Fairness

-----------------------------------------------------------------------------
(* Properties of the observer, each as its module states it *)

\* No answer to another request, and none that came too late, lets the tool go on
\* (sp1-egress-attribution.ts:1937).
ActsAreMarked == part = "observer" => Observation!ActsAreMarked

\* An observation is only written of a session that was clean from start to stop
\* (measure-sp1-attributed-proof-exercise.ts).
ObservationIsOfACleanRun == part = "observer" => Observation!ObservationIsOfACleanRun

\* Both: what the tool writes of its run is what the observer saw of it.
RunIsObserved == ActsAreMarked /\ ObservationIsOfACleanRun

\* Once the tool has said DONE or is gone, the observer comes to its end
\* (sp1-egress-observer.ts:1053-1113).
StopsWhenToolIsDone == Observation!StopsWhenToolIsDone

\* "Any loss stops the run" (sp1-egress-observer.ts:21).
LossStopsTheRun == Observation!LossStopsTheRun
=============================================================================
