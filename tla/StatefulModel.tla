---------------------------- MODULE StatefulModel ----------------------------
(***************************************************************************)
(* prototype/vnext-kernel/stateful/model.ts: the oracle of the stateful    *)
(* test campaigns.  It never predicts that a call succeeds.  It knows      *)
(* which authority roots an actor holds, how many of them each outcome     *)
(* costs, and what became of every recovery the harness itself began.      *)
(***************************************************************************)
EXTENDS Integers

CONSTANT RecoveryWindow             \* RECOVERY_DELAY + RECOVERY_EXPIRY: half open

Outcomes ==
    {"ASSET_MOVEMENT", "CREDENTIAL_REPLACEMENT", "VERIFIER_REPLACEMENT", "POLICY_CHANGE",
     "GUARDIAN_TRANSITION", "MIGRATION_BINDING", "CONTAINMENT", "RECOVERY_QUORUM_CANCEL"}

CredentialGated ==
    {"ASSET_MOVEMENT", "CREDENTIAL_REPLACEMENT", "VERIFIER_REPLACEMENT", "POLICY_CHANGE"}

\* The published number of roots, for a credential of one or two factors.
declaredCuts(credentialFactors, k) ==
    [outcome \in Outcomes |->
        CASE outcome \in CredentialGated ->
                 IF credentialFactors < k THEN credentialFactors ELSE k
          [] outcome = "MIGRATION_BINDING" -> k + 1
          [] OTHER -> k]

\* Roots counted by family: credential factors, and distinct guardian addresses.
NoRoots == [credential |-> 0, guardians |-> 0]

\* Each path has to be met in full; families are never pooled.
authorityPaths(outcome, credentialFactors, k) ==
    CASE outcome \in CredentialGated ->
             {[credential |-> credentialFactors, guardians |-> 0],
              [credential |-> 0, guardians |-> k]}
      [] outcome = "MIGRATION_BINDING" -> {[credential |-> 1, guardians |-> k]}
      [] OTHER -> {[credential |-> 0, guardians |-> k]}

judgeCut(held, outcome, credentialFactors, k) ==
    \E path \in authorityPaths(outcome, credentialFactors, k) :
        /\ held.credential >= path.credential
        /\ held.guardians >= path.guardians

\* The cut of an outcome is the cheapest of its paths.
CutsAreMinima ==
    \A factors \in 1..2, k \in 1..3, outcome \in Outcomes :
        LET cost == {path.credential + path.guardians :
                        path \in authorityPaths(outcome, factors, k)}
        IN  /\ declaredCuts(factors, k)[outcome] \in cost
            /\ \A c \in cost : c >= declaredCuts(factors, k)[outcome]

-----------------------------------------------------------------------------
(* Recovery evidence, on the harness's own clock *)

NoEpisode == [state |-> "NONE", expiresAt |-> 0, authorizedBy |-> NoRoots]

\* The harness's record at the start: nothing live, nothing bound.
freshAbstractState == [live |-> NoEpisode, migrationAuthorizedBy |-> NoRoots]

currentEpisode(s) == s.live

episodeIsLiveAt(s, at) ==
    currentEpisode(s).state = "LIVE" /\ at < currentEpisode(s).expiresAt

\* An initiation over an episode that has not run out is an overwrite.
recordInitiation(s, authorizedBy, at) ==
    [violation |-> currentEpisode(s).state = "LIVE" /\ at < currentEpisode(s).expiresAt,
     state |-> [s EXCEPT !.live = [state |-> "LIVE", expiresAt |-> at + RecoveryWindow,
                                   authorizedBy |-> authorizedBy]]]

\* Only an episode that has not run out can be cancelled.
recordCancellation(s, at) ==
    [violation |-> currentEpisode(s).state # "LIVE" \/ at >= currentEpisode(s).expiresAt,
     state |-> [s EXCEPT !.live = NoEpisode]]

recordExecution(s) == [s EXCEPT !.live = NoEpisode]

judgeRecoveryExecution(s, at) ==
    \/ currentEpisode(s).state # "LIVE"
    \/ at >= currentEpisode(s).expiresAt
=============================================================================
