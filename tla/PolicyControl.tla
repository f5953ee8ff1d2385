---------------------------- MODULE PolicyControl ----------------------------
(***************************************************************************)
(* Who may change the protection DailySpendLimitPolicy.sol gives one       *)
(* subject.  On the first path the owner's account calls the policy        *)
(* directly; once a controller is enrolled only the second path is open:   *)
(* PolicyControlBridge.sol, which takes intents signed with the vault's    *)
(* current credentials, bound to its policyControlEpoch.                   *)
(*                                                                         *)
(* Anybody may submit an intent; every intent that was or could have been  *)
(* signed with a key of the vault, past or present, is available.          *)
(***************************************************************************)
EXTENDS PolicyControlConstants

CONSTANT MaxTime                    \* bound on time

VARIABLES
    now,                            \* block.timestamp
    key, policyControlEpoch,        \* the vault's credentials and their epoch
    bridgePaused, controlNonce,     \* PolicyControlBridge
    limit, admitters, admitterCount,
    controller, controllerInitialized,
    pending,                        \* PendingWeakening
    proposal                        \* history: how and when pending came about

vars == <<now, key, policyControlEpoch, bridgePaused, controlNonce, limit, admitters,
          admitterCount, controller, controllerInitialized, pending, proposal>>

protection == <<limit, admitters, admitterCount, controller, controllerInitialized,
                pending, proposal>>

Intent == [by : Key, epoch : 0..MaxEpoch, nonce : 0..MaxNonce, deadline : 0..MaxTime]

NoPending == [exists |-> FALSE, newLimit |-> 0, validAfter |-> 0, expiresAt |-> 0,
              boundEpoch |-> 0, isUnenrollment |-> FALSE]

PendingWeakening == [exists : BOOLEAN, newLimit : Limit, validAfter : Nat, expiresAt : Nat,
                     boundEpoch : 0..MaxEpoch, isUnenrollment : BOOLEAN]

NoProposal == [path |-> "none", epoch |-> 0]

Init ==
    /\ now = 0
    /\ key \in Key
    /\ policyControlEpoch = 0
    /\ bridgePaused = FALSE
    /\ controlNonce = 0
    /\ limit = 0
    /\ admitters = {}
    /\ admitterCount = 0
    /\ controller = "none"
    /\ controllerInitialized = FALSE
    /\ pending = NoPending
    /\ proposal = NoProposal

-----------------------------------------------------------------------------
(* What both paths share. *)

\* _isWeakening: zero is the weakest limit, not the strongest.
IsWeakening(old, new) == old # 0 /\ (new = 0 \/ new > old)

\* An armed subject needs somebody who may book spends.
Strengthen(l) ==
    /\ l # limit
    /\ ~ IsWeakening(limit, l)
    /\ l # 0 => admitterCount # 0
    /\ limit' = l
    /\ UNCHANGED <<admitters, admitterCount, controller, controllerInitialized,
                   pending, proposal>>

\* _proposeWeakening: one slot, never overwritten.
Propose(l, epoch, unenroll, path) ==
    /\ ~ pending.exists
    /\ pending' = [exists |-> TRUE, newLimit |-> l,
                   validAfter |-> now + POLICY_CONTROL_DELAY,
                   expiresAt |-> now + POLICY_CONTROL_DELAY + POLICY_CONTROL_GRACE_PERIOD,
                   boundEpoch |-> epoch, isUnenrollment |-> unenroll]
    /\ proposal' = [path |-> path, epoch |-> policyControlEpoch]
    /\ UNCHANGED <<limit, admitters, admitterCount, controller, controllerInitialized>>

\* _applyWeakening
Apply ==
    /\ pending.exists
    /\ now >= pending.validAfter
    /\ now < pending.expiresAt
    /\ IF pending.isUnenrollment
         THEN controller' = "none" /\ UNCHANGED limit
         ELSE limit' = pending.newLimit /\ UNCHANGED controller
    /\ pending' = NoPending
    /\ proposal' = NoProposal
    /\ UNCHANGED <<admitters, admitterCount, controllerInitialized>>

Cancel ==
    /\ pending.exists
    /\ pending' = NoPending
    /\ proposal' = NoProposal
    /\ UNCHANGED <<limit, admitters, admitterCount, controller, controllerInitialized>>

\* LastAdmitterWhileArmed
Revocable(allowed) == allowed \/ admitterCount # 1 \/ limit = 0

\* A caller that is already what it should become changes nothing.
SetAdmitter(c, allowed) ==
    /\ allowed # (c \in admitters)
    /\ Revocable(allowed)
    /\ admitters' = IF allowed THEN admitters \cup {c} ELSE admitters \ {c}
    /\ admitterCount' = IF allowed THEN admitterCount + 1 ELSE admitterCount - 1
    /\ UNCHANGED <<limit, controller, controllerInitialized, pending, proposal>>

-----------------------------------------------------------------------------
(* Path 1: the owner's account, straight to the policy. *)

setDailyLimit(l) == Strengthen(l) \/ (IsWeakening(limit, l) /\ Propose(l, 0, FALSE, "owner"))
applyWeakening == Apply
cancelWeakening == Cancel
setAdmitter(c, allowed) == SetAdmitter(c, allowed)

\* ControllerPathRequired
OwnerPathOpen == controller = "none"

OwnerCall ==
    /\ OwnerPathOpen
    /\ \/ \E l \in Limit : setDailyLimit(l)
       \/ applyWeakening
       \/ cancelWeakening
       \/ \E c \in Caller, allowed \in BOOLEAN : setAdmitter(c, allowed)
    /\ UNCHANGED <<now, key, policyControlEpoch, bridgePaused, controlNonce>>

-----------------------------------------------------------------------------
(* Path 2: signed intents through the bridge. *)

bridgeEnrollController ==
    /\ ~ controllerInitialized
    /\ controller' = "bridge"
    /\ controllerInitialized' = TRUE
    /\ UNCHANGED <<limit, admitters, admitterCount, pending, proposal>>

bridgeStrengthenLimit(l) == controller = "bridge" /\ Strengthen(l)

bridgeProposeWeakening(l, epoch) ==
    /\ controller = "bridge"
    /\ IsWeakening(limit, l)
    /\ Propose(l, epoch, FALSE, "bridge")

bridgeProposeUnenrollController(epoch) ==
    /\ controller = "bridge"
    /\ Propose(0, epoch, TRUE, "bridge")

\* bridgeApplyWeakening and bridgeApplyUnenrollController: each concludes its own
\* kind, and only a proposal of the epoch the intent names.
bridgeApplyWeakening(epoch) ==
    /\ controller = "bridge"
    /\ ~ pending.isUnenrollment
    /\ pending.boundEpoch = epoch
    /\ Apply

bridgeApplyUnenrollController(epoch) ==
    /\ controller = "bridge"
    /\ pending.isUnenrollment
    /\ pending.boundEpoch = epoch
    /\ Apply

bridgeCancelWeakening == controller = "bridge" /\ Cancel

bridgeSetAdmitter(c, allowed) == controller = "bridge" /\ SetAdmitter(c, allowed)

\* Slip: the epoch of the intent is passed on unchecked.
VerifiedWithoutEpoch(intent) ==
    /\ now <= intent.deadline
    /\ intent.nonce = controlNonce
    /\ intent.by = key

\* _verifyAndConsume, the tests
Verified(intent) ==
    /\ now <= intent.deadline
    /\ intent.nonce = controlNonce
    /\ intent.epoch = policyControlEpoch
    /\ intent.by = key

\* A call the policy refuses reverts as a whole: the nonce is not consumed.
BridgeCall(intent) ==
    /\ ~ bridgePaused
    /\ Verified(intent)
    /\ controlNonce < MaxNonce
    /\ controlNonce' = controlNonce + 1
    /\ \/ bridgeEnrollController
       \/ \E l \in Limit : bridgeStrengthenLimit(l)
       \/ \E l \in Limit : bridgeProposeWeakening(l, intent.epoch)
       \/ bridgeProposeUnenrollController(intent.epoch)
       \/ bridgeApplyWeakening(intent.epoch)
       \/ bridgeApplyUnenrollController(intent.epoch)
       \/ bridgeCancelWeakening
       \/ \E c \in Caller, allowed \in BOOLEAN : bridgeSetAdmitter(c, allowed)
    /\ UNCHANGED <<now, key, policyControlEpoch, bridgePaused>>

\* A repeated admitter setting is accepted, consumes the nonce and changes nothing.
RepeatedSetAdmitter(intent) ==
    /\ ~ bridgePaused
    /\ Verified(intent)
    /\ controller = "bridge"
    /\ controlNonce < MaxNonce
    /\ controlNonce' = controlNonce + 1
    /\ UNCHANGED <<now, key, policyControlEpoch, bridgePaused, protection>>

\* pause: retirement for good.
pause ==
    /\ ~ bridgePaused
    /\ bridgePaused' = TRUE
    /\ UNCHANGED <<now, key, policyControlEpoch, controlNonce, protection>>

-----------------------------------------------------------------------------
\* rotateCredentials and executeRecovery of the vault; the new credentials may be
\* old ones.
CredentialsChange(k) ==
    /\ policyControlEpoch < MaxEpoch
    /\ policyControlEpoch' = policyControlEpoch + 1
    /\ key' = k
    /\ UNCHANGED <<now, bridgePaused, controlNonce, protection>>

Tick ==
    /\ now < MaxTime
    /\ now' = now + 1
    /\ UNCHANGED <<key, policyControlEpoch, bridgePaused, controlNonce, protection>>

Next ==
    \/ OwnerCall
    \/ \E intent \in Intent : BridgeCall(intent) \/ RepeatedSetAdmitter(intent)
    \/ pause
    \/ \E k \in Key : CredentialsChange(k)
    \/ Tick

Spec == Init /\ [][Next]_vars

-----------------------------------------------------------------------------
(* Properties *)

\* A subject with a limit has somebody who may book spends, and the count says
\* how many: _applyWeakening sets a limit without looking, and relies on the one
\* slot keeping a subject armed while a new limit waits
\* (DailySpendLimitPolicy.sol:616).
ArmedHasAdmitter ==
    /\ admitterCount = Cardinality(admitters)
    /\ limit # 0 => admitters # {}

\* Protection shrinks only on notice, whichever path, controller or credentials
\* (POLICY_CONTROL_DELAY, POLICY_CONTROL_GRACE_PERIOD).
PendingNotice ==
    IF ~ pending.exists THEN [posted |-> FALSE]
    ELSE [posted |-> TRUE,
          change |-> IF pending.isUnenrollment THEN [release |-> TRUE]
                     ELSE [release |-> FALSE, limit |-> pending.newLimit],
          since |-> pending.validAfter - POLICY_CONTROL_DELAY]

Lock ==
    INSTANCE WeakeningLock WITH
        Delay <- POLICY_CONTROL_DELAY, Grace <- POLICY_CONTROL_GRACE_PERIOD,
        clock <- now, notice <- PendingNotice,
        value <- [limit |-> limit, controlled |-> controller = "bridge"]

\* Every change of the limit and of the controller is a step of the lock.
WeakeningLocked == Lock!Spec

ByBridge == controlNonce' # controlNonce

Applied == pending.exists /\ (limit' # limit \/ controller' # controller) /\ ~ pending'.exists

\* "Rejects a proposal that matured under a since-superseded epoch"
\* (DailySpendLimitPolicy.sol:613): whatever was proposed before a recovery or a
\* rotation, on either path, is not concluded through the bridge after it.
RecoveryDropsWeakening == [][ByBridge /\ Applied => proposal.epoch = policyControlEpoch]_vars

\* What was proposed with the vault's credentials is never concluded by the
\* owner's account alone, however controllers come and go.
OwnerConcludesOwnOnly == [][~ ByBridge /\ Applied => proposal.path = "owner"]_vars

\* A retired bridge freezes what it controls (PolicyControlBridge.sol:312), a
\* mature weakening included: no path is left.
RetiredIsFrozen == [][bridgePaused /\ controller = "bridge" => UNCHANGED protection]_vars
=============================================================================
