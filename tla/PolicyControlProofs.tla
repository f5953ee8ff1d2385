------------------------ MODULE PolicyControlProofs ------------------------
(***************************************************************************)
(* Policy control for any limits, delegates, keys and delays: an armed     *)
(* subject never loses its last admitter, weakenings wait, a recovery      *)
(* drops them, and the two paths never finish each other's business        *)
(* unseen.                                                                 *)
(***************************************************************************)
EXTENDS PolicyControl, FiniteSetTheorems, TLAPS

USE ControlAssumption

-----------------------------------------------------------------------------
(* The inductive invariant. *)

Typed ==
    /\ now \in Nat
    /\ policyControlEpoch \in 0..MaxEpoch
    /\ limit \in Limit
    /\ admitters \subseteq Caller
    /\ controller \in {"none", "bridge"}
    /\ pending \in PendingWeakening
    /\ proposal \in [path : {"none", "owner", "bridge"}, epoch : 0..MaxEpoch]

\* A waiting limit is never the first one: its subject is armed and stays so.
WaitingIsArmed ==
    pending.exists /\ ~ pending.isUnenrollment /\ pending.newLimit # 0 => limit # 0

\* The epoch bound to a proposal, and the controller behind it.
ProposalKnown ==
    pending.exists =>
        /\ proposal.path \in {"owner", "bridge"}
        /\ proposal.epoch <= policyControlEpoch
        /\ proposal.path = "owner" => pending.boundEpoch = 0
        /\ proposal.path = "bridge" =>
              controller = "bridge" /\ pending.boundEpoch = proposal.epoch

\* A proposal can be applied for POLICY_CONTROL_GRACE_PERIOD.
GraceKept ==
    pending.exists => pending.expiresAt = pending.validAfter + POLICY_CONTROL_GRACE_PERIOD

IInv ==
    /\ Typed
    /\ ArmedHasAdmitter
    /\ WaitingIsArmed
    /\ ProposalKnown
    /\ GraceKept

-----------------------------------------------------------------------------
(* What a step does to the protection, with all that its callers add. *)

ClockAndEpochKept == UNCHANGED <<now, policyControlEpoch>>

Strengthens ==
    /\ ClockAndEpochKept
    /\ \E l \in Limit : Strengthen(l)

OwnerProposes ==
    /\ ClockAndEpochKept /\ ~ ByBridge
    /\ \E l \in Limit : IsWeakening(limit, l) /\ Propose(l, 0, FALSE, "owner")

BridgeProposes ==
    /\ ClockAndEpochKept
    /\ controller = "bridge"
    /\ \E l \in Limit, unenroll \in BOOLEAN :
          /\ unenroll \/ IsWeakening(limit, l)
          /\ Propose(l, policyControlEpoch, unenroll, "bridge")

OwnerApplies == ClockAndEpochKept /\ ~ ByBridge /\ controller = "none" /\ Apply

BridgeApplies ==
    ClockAndEpochKept /\ ByBridge /\ pending.boundEpoch = policyControlEpoch /\ Apply

Cancels == ClockAndEpochKept /\ Cancel

SetsAdmitter ==
    ClockAndEpochKept /\ \E c \in Caller, allowed \in BOOLEAN : SetAdmitter(c, allowed)

Enrolls == ClockAndEpochKept /\ bridgeEnrollController

Elsewhere ==
    /\ UNCHANGED protection
    /\ \/ ClockAndEpochKept
       \/ now' = now + 1 /\ policyControlEpoch' = policyControlEpoch
       \/ now' = now /\ policyControlEpoch' = policyControlEpoch + 1
                     /\ policyControlEpoch < MaxEpoch

LEMMA StepKinds ==
  ASSUME [Next]_vars, controlNonce \in Nat
  PROVE  \/ Strengthens \/ OwnerProposes \/ BridgeProposes \/ OwnerApplies
         \/ BridgeApplies \/ Cancels \/ SetsAdmitter \/ Enrolls \/ Elsewhere
<1>1. ASSUME OwnerCall
      PROVE  Strengthens \/ OwnerProposes \/ OwnerApplies \/ Cancels \/ SetsAdmitter
  <2>1. ClockAndEpochKept /\ ~ ByBridge /\ controller = "none"
    BY <1>1 DEF OwnerCall, OwnerPathOpen, ClockAndEpochKept, ByBridge
  <2> QED
    BY <1>1, <2>1 DEF OwnerCall, setDailyLimit, applyWeakening, cancelWeakening, setAdmitter,
       Strengthens, OwnerProposes, OwnerApplies, Cancels, SetsAdmitter
<1>2. ASSUME NEW intent \in Intent, BridgeCall(intent)
      PROVE  \/ Strengthens \/ BridgeProposes \/ BridgeApplies \/ Cancels \/ SetsAdmitter
             \/ Enrolls
  <2>1. ClockAndEpochKept /\ ByBridge /\ intent.epoch = policyControlEpoch
    BY <1>2 DEF BridgeCall, Verified, ClockAndEpochKept, ByBridge
  <2>2. ASSUME NEW l \in Limit, bridgeStrengthenLimit(l) PROVE Strengthens
    BY <2>1, <2>2 DEF bridgeStrengthenLimit, Strengthens
  <2>3. ASSUME NEW l \in Limit, bridgeProposeWeakening(l, intent.epoch) PROVE BridgeProposes
    BY <2>1, <2>3 DEF bridgeProposeWeakening, BridgeProposes
  <2>4. ASSUME bridgeProposeUnenrollController(intent.epoch) PROVE BridgeProposes
    BY <2>1, <2>4 DEF bridgeProposeUnenrollController, BridgeProposes
  <2>5. ASSUME \/ bridgeApplyWeakening(intent.epoch)
               \/ bridgeApplyUnenrollController(intent.epoch)
        PROVE  BridgeApplies
    BY <2>1, <2>5 DEF bridgeApplyWeakening, bridgeApplyUnenrollController, BridgeApplies
  <2>6. ASSUME bridgeCancelWeakening PROVE Cancels
    BY <2>1, <2>6 DEF bridgeCancelWeakening, Cancels
  <2>7. ASSUME NEW c \in Caller, NEW allowed \in BOOLEAN, bridgeSetAdmitter(c, allowed)
        PROVE  SetsAdmitter
    BY <2>1, <2>7 DEF bridgeSetAdmitter, SetsAdmitter
  <2>8. ASSUME bridgeEnrollController PROVE Enrolls
    BY <2>1, <2>8 DEF Enrolls
  <2> QED
    BY <1>2, <2>2, <2>3, <2>4, <2>5, <2>6, <2>7, <2>8 DEF BridgeCall
<1>3. ASSUME NEW intent \in Intent, RepeatedSetAdmitter(intent) PROVE Elsewhere
  BY <1>3 DEF RepeatedSetAdmitter, Elsewhere, ClockAndEpochKept
<1>4. ASSUME NEW k \in Key, CredentialsChange(k) PROVE Elsewhere
  BY <1>4 DEF CredentialsChange, Elsewhere
<1>5. ASSUME pause \/ Tick \/ UNCHANGED vars PROVE Elsewhere
  BY <1>5 DEF pause, Tick, vars, protection, Elsewhere, ClockAndEpochKept
<1> QED
  BY <1>1, <1>2, <1>3, <1>4, <1>5 DEF Next

-----------------------------------------------------------------------------
LEMMA AdmittersFinite ==
  ASSUME Typed
  PROVE  IsFiniteSet(admitters)
BY FS_Subset DEF Typed

LEMMA InitIInv == Init => IInv
<1> SUFFICES ASSUME Init PROVE IInv
  OBVIOUS
<1>1. pending = NoPending /\ ~ pending.exists
  BY DEF Init, NoPending
<1>2. NoPending \in PendingWeakening
  BY DEF NoPending, PendingWeakening
<1>3. NoProposal \in [path : {"none", "owner", "bridge"}, epoch : 0..MaxEpoch]
  BY DEF NoProposal
<1>4. Typed
  BY <1>1, <1>2, <1>3 DEF Init, Typed
<1>5. ArmedHasAdmitter
  BY FS_EmptySet DEF Init, ArmedHasAdmitter
<1> QED
  BY <1>1, <1>4, <1>5 DEF IInv, WaitingIsArmed, ProposalKnown, GraceKept

LEMMA StrengthenKeeps == ASSUME IInv, Strengthens PROVE IInv'
<1>1. PICK l \in Limit : Strengthen(l)
  BY DEF Strengthens
<1>2. /\ limit' = l /\ l # limit /\ ~ IsWeakening(limit, l)
      /\ l # 0 => admitterCount # 0
      /\ UNCHANGED <<now, policyControlEpoch, admitters, admitterCount, controller,
                     pending, proposal>>
  BY <1>1 DEF Strengthen, Strengthens, ClockAndEpochKept
<1>3. l # 0
  BY <1>2 DEF IsWeakening
<1>4. admitters # {}
  BY <1>2, <1>3, FS_EmptySet DEF IInv, ArmedHasAdmitter
<1> QED
  BY <1>2, <1>3, <1>4 DEF IInv, Typed, ArmedHasAdmitter, WaitingIsArmed, ProposalKnown, GraceKept

LEMMA ProposeKeeps ==
  ASSUME IInv, ClockAndEpochKept, NEW l \in Limit, NEW epoch \in 0..MaxEpoch,
         NEW unenroll \in BOOLEAN, NEW path \in {"owner", "bridge"},
         Propose(l, epoch, unenroll, path),
         unenroll \/ IsWeakening(limit, l),
         path = "owner" => epoch = 0,
         path = "bridge" => controller = "bridge" /\ epoch = policyControlEpoch
  PROVE  IInv'
<1> DEFINE p == [exists |-> TRUE, newLimit |-> l,
                 validAfter |-> now + POLICY_CONTROL_DELAY,
                 expiresAt |-> now + POLICY_CONTROL_DELAY + POLICY_CONTROL_GRACE_PERIOD,
                 boundEpoch |-> epoch, isUnenrollment |-> unenroll]
<1>1. /\ pending' = p
      /\ proposal' = [path |-> path, epoch |-> policyControlEpoch]
      /\ UNCHANGED <<now, policyControlEpoch, limit, admitters, admitterCount, controller>>
  BY DEF Propose, ClockAndEpochKept
<1>2. p \in PendingWeakening
  BY DEF PendingWeakening, IInv, Typed
<1>3. Typed'
  BY <1>1, <1>2 DEF IInv, Typed
<1>4. ProposalKnown'
  BY <1>1 DEF ProposalKnown, IInv, Typed
<1>5. WaitingIsArmed'
  BY <1>1 DEF WaitingIsArmed, IsWeakening
<1>6. GraceKept'
  BY <1>1 DEF GraceKept, IInv, Typed
<1> QED
  BY <1>1, <1>3, <1>4, <1>5, <1>6 DEF IInv, ArmedHasAdmitter

LEMMA ApplyKeeps == ASSUME IInv, ClockAndEpochKept, Apply PROVE IInv'
<1>1. /\ pending.exists
      /\ IF pending.isUnenrollment
           THEN controller' = "none" /\ UNCHANGED limit
           ELSE limit' = pending.newLimit /\ UNCHANGED controller
      /\ pending' = NoPending
      /\ proposal' = NoProposal
      /\ UNCHANGED <<now, policyControlEpoch, admitters, admitterCount>>
  BY DEF Apply, ClockAndEpochKept
<1>2. ~ NoPending.exists /\ NoPending \in PendingWeakening
  BY DEF NoPending, PendingWeakening
<1>3. NoProposal \in [path : {"none", "owner", "bridge"}, epoch : 0..MaxEpoch]
  BY DEF NoProposal
<1>4. pending.newLimit \in Limit
  BY DEF IInv, Typed, PendingWeakening
<1>5. Typed'
  BY <1>1, <1>2, <1>3, <1>4 DEF IInv, Typed
<1>6. ArmedHasAdmitter'
  BY <1>1 DEF IInv, ArmedHasAdmitter, WaitingIsArmed
<1> QED
  BY <1>1, <1>2, <1>5, <1>6 DEF IInv, WaitingIsArmed, ProposalKnown, GraceKept

LEMMA CancelKeeps == ASSUME IInv, Cancels PROVE IInv'
<1>1. /\ pending' = NoPending
      /\ proposal' = NoProposal
      /\ UNCHANGED <<now, policyControlEpoch, limit, admitters, admitterCount, controller>>
  BY DEF Cancels, Cancel, ClockAndEpochKept
<1>2. ~ NoPending.exists /\ NoPending \in PendingWeakening
  BY DEF NoPending, PendingWeakening
<1>3. NoProposal \in [path : {"none", "owner", "bridge"}, epoch : 0..MaxEpoch]
  BY DEF NoProposal
<1> QED
  BY <1>1, <1>2, <1>3
  DEF IInv, Typed, ArmedHasAdmitter, WaitingIsArmed, ProposalKnown, GraceKept

LEMMA SetAdmitterKeeps == ASSUME IInv, SetsAdmitter PROVE IInv'
<1>1. PICK c \in Caller, allowed \in BOOLEAN : SetAdmitter(c, allowed)
  BY DEF SetsAdmitter
<1>2. /\ allowed # (c \in admitters)
      /\ Revocable(allowed)
      /\ admitters' = IF allowed THEN admitters \cup {c} ELSE admitters \ {c}
      /\ admitterCount' = IF allowed THEN admitterCount + 1 ELSE admitterCount - 1
      /\ UNCHANGED <<now, policyControlEpoch, limit, controller, pending, proposal>>
  BY <1>1 DEF SetAdmitter, SetsAdmitter, ClockAndEpochKept
<1>3. IsFiniteSet(admitters) /\ admitterCount = Cardinality(admitters)
  BY AdmittersFinite DEF IInv, ArmedHasAdmitter
<1>4. ArmedHasAdmitter'
  <2>1. CASE allowed
    <3>1. Cardinality(admitters \cup {c}) = Cardinality(admitters) + 1
      BY <1>2, <1>3, <2>1, FS_AddElement
    <3> QED
      BY <1>2, <1>3, <2>1, <3>1 DEF ArmedHasAdmitter
  <2>2. CASE ~ allowed
    <3>1. /\ IsFiniteSet(admitters \ {c})
          /\ Cardinality(admitters \ {c}) = Cardinality(admitters) - 1
      BY <1>2, <1>3, <2>2, FS_RemoveElement
    <3>2. limit = 0 \/ admitterCount # 1
      BY <1>2, <2>2 DEF Revocable
    <3>3. Cardinality(admitters) \in Nat
      BY <1>3, FS_CardinalityType
    <3>4. limit # 0 => Cardinality(admitters \ {c}) # 0
      BY <1>3, <3>1, <3>2, <3>3
    <3>5. limit # 0 => admitters \ {c} # {}
      BY <3>4, FS_EmptySet
    <3> QED
      BY <1>2, <1>3, <2>2, <3>1, <3>5 DEF ArmedHasAdmitter
  <2> QED
    BY <2>1, <2>2
<1>5. Typed'
  BY <1>2 DEF IInv, Typed
<1> QED
  BY <1>2, <1>4, <1>5 DEF IInv, WaitingIsArmed, ProposalKnown, GraceKept

LEMMA OtherStepsKeep == ASSUME IInv, Enrolls \/ Elsewhere PROVE IInv'
<1>1. CASE Enrolls
  BY <1>1 DEF Enrolls, bridgeEnrollController, ClockAndEpochKept, IInv, Typed,
              ArmedHasAdmitter, WaitingIsArmed, ProposalKnown, GraceKept
<1>2. CASE Elsewhere
  <2>1. /\ UNCHANGED <<limit, admitters, admitterCount, controller, pending, proposal>>
        /\ now' \in Nat
        /\ policyControlEpoch' \in 0..MaxEpoch
        /\ policyControlEpoch' >= policyControlEpoch
    BY <1>2 DEF Elsewhere, protection, ClockAndEpochKept, IInv, Typed
  <2>2. ProposalKnown'
    BY <2>1 DEF IInv, Typed, ProposalKnown
  <2> QED
    BY <2>1, <2>2 DEF IInv, Typed, ArmedHasAdmitter, WaitingIsArmed, GraceKept
<1> QED
  BY <1>1, <1>2

LEMMA NextIInv == ASSUME IInv, controlNonce \in Nat, [Next]_vars PROVE IInv'
<1>1. ASSUME OwnerProposes PROVE IInv'
  <2>1. PICK l \in Limit : IsWeakening(limit, l) /\ Propose(l, 0, FALSE, "owner")
    BY <1>1 DEF OwnerProposes
  <2>2. 0 \in 0..MaxEpoch /\ ClockAndEpochKept
    BY <1>1 DEF OwnerProposes
  <2>3. FALSE \/ IsWeakening(limit, l)
    BY <2>1
  <2> QED
    BY <2>1, <2>2, <2>3, ProposeKeeps
<1>2. ASSUME BridgeProposes PROVE IInv'
  <2>1. PICK l \in Limit, unenroll \in BOOLEAN :
           /\ unenroll \/ IsWeakening(limit, l)
           /\ Propose(l, policyControlEpoch, unenroll, "bridge")
    BY <1>2 DEF BridgeProposes
  <2>2. policyControlEpoch \in 0..MaxEpoch
    BY DEF IInv, Typed
  <2> QED
    BY <1>2, <2>1, <2>2, ProposeKeeps DEF BridgeProposes
<1>3. ASSUME OwnerApplies \/ BridgeApplies PROVE IInv'
  BY <1>3, ApplyKeeps DEF OwnerApplies, BridgeApplies
<1> QED
  BY <1>1, <1>2, <1>3, StepKinds, StrengthenKeeps, CancelKeeps, SetAdmitterKeeps,
     OtherStepsKeep

\* The nonce only ever counts.
NonceTyped == controlNonce \in Nat

LEMMA NonceCounts == Spec => []NonceTyped
<1>1. Init => NonceTyped
  BY DEF Init, NonceTyped
<1>2. NonceTyped /\ [Next]_vars => NonceTyped'
  BY DEF NonceTyped, Next, OwnerCall, BridgeCall, RepeatedSetAdmitter, pause, CredentialsChange, Tick, vars
<1> QED
  BY <1>1, <1>2, PTL DEF Spec

THEOREM ControlInvariant == Spec => []IInv
<1>1. IInv /\ NonceTyped /\ [Next]_vars => IInv'
  BY NextIInv DEF NonceTyped
<1> QED
  BY <1>1, InitIInv, NonceCounts, PTL DEF Spec

-----------------------------------------------------------------------------
\* ArmedHasAdmitter: the count is exact and an armed subject has an admitter,
\* although _applyWeakening never asks.
THEOREM ArmedNeverOrphaned == Spec => []ArmedHasAdmitter
<1>1. IInv => ArmedHasAdmitter
  BY DEF IInv
<1> QED
  BY <1>1, ControlInvariant, PTL
-----------------------------------------------------------------------------
(* Action properties. *)

Inv == IInv /\ NonceTyped

LEMMA AlwaysInv == Spec => []Inv
BY ControlInvariant, NonceCounts, PTL DEF Inv

\* Only an application ends a proposal and changes what protects the owner.
LEMMA AppliedMeans ==
  ASSUME Inv, [Next]_vars, Applied
  PROVE  OwnerApplies \/ BridgeApplies
<1>1. /\ pending.exists /\ ~ pending'.exists
      /\ limit' # limit \/ controller' # controller
  BY DEF Applied
<1>2. ~ Strengthens /\ ~ SetsAdmitter /\ ~ Enrolls /\ ~ Elsewhere
  BY <1>1 DEF Strengthens, Strengthen, SetsAdmitter, SetAdmitter, Enrolls,
              bridgeEnrollController, Elsewhere, protection
<1>3. ~ OwnerProposes /\ ~ BridgeProposes /\ ~ Cancels
  BY <1>1 DEF OwnerProposes, BridgeProposes, Propose, Cancels, Cancel
<1> QED
  BY <1>2, <1>3, StepKinds DEF Inv, NonceTyped

\* RecoveryDropsWeakening: what was proposed before the vault's credentials
\* changed is not concluded through the bridge afterwards.
THEOREM RecoveryDrops == Spec => RecoveryDropsWeakening
<1>1. Inv /\ [Next]_vars => [ByBridge /\ Applied => proposal.epoch = policyControlEpoch]_vars
  <2> SUFFICES ASSUME Inv, [Next]_vars, ByBridge, Applied
               PROVE  proposal.epoch = policyControlEpoch
    OBVIOUS
  <2>1. pending.boundEpoch = policyControlEpoch
    BY AppliedMeans DEF OwnerApplies, BridgeApplies
  <2>2. /\ proposal.path \in {"owner", "bridge"}
        /\ proposal.epoch <= policyControlEpoch
        /\ proposal.path = "owner" => pending.boundEpoch = 0
        /\ proposal.path = "bridge" => pending.boundEpoch = proposal.epoch
    BY DEF Applied, Inv, IInv, ProposalKnown
  <2>3. proposal.epoch \in 0..MaxEpoch
    BY DEF Inv, IInv, Typed
  <2> QED
    BY <2>1, <2>2, <2>3
<1> QED
  BY <1>1, AlwaysInv, PTL DEF Spec, RecoveryDropsWeakening

\* OwnerConcludesOwnOnly: the owner's account never concludes what was proposed
\* with the vault's credentials.
THEOREM OwnerConcludesOwn == Spec => OwnerConcludesOwnOnly
<1>1. Inv /\ [Next]_vars => [~ ByBridge /\ Applied => proposal.path = "owner"]_vars
  <2> SUFFICES ASSUME Inv, [Next]_vars, ~ ByBridge, Applied
               PROVE  proposal.path = "owner"
    OBVIOUS
  <2>1. controller = "none"
    BY AppliedMeans DEF OwnerApplies, BridgeApplies
  <2> QED
    BY <2>1 DEF Applied, Inv, IInv, ProposalKnown
<1> QED
  BY <1>1, AlwaysInv, PTL DEF Spec, OwnerConcludesOwnOnly

\* RetiredIsFrozen: with the bridge paused and a controller enrolled neither path
\* changes anything.
THEOREM RetiredFrozen == Spec => RetiredIsFrozen
<1>1. [Next]_vars => [bridgePaused /\ controller = "bridge" => UNCHANGED protection]_vars
  BY DEF Next, OwnerCall, OwnerPathOpen, BridgeCall, RepeatedSetAdmitter, pause,
         CredentialsChange, Tick, vars
<1> QED
  BY <1>1, PTL DEF Spec, RetiredIsFrozen

-----------------------------------------------------------------------------
(* Every change is a step of WeakeningLock. *)

Protects == [limit |-> limit, controlled |-> controller = "bridge"]
View == <<now, Protects, PendingNotice>>

LEMMA LockStep ==
  ASSUME Inv, [Next]_vars
  PROVE  [Lock!Next]_View
<1> DEFINE Step == [Lock!Next]_View
           D == POLICY_CONTROL_DELAY
<1>0. /\ now \in Nat /\ limit \in Limit /\ D \in Nat
      /\ controller \in {"none", "bridge"}
      /\ POLICY_CONTROL_GRACE_PERIOD \in Nat
  BY DEF Inv, IInv, Typed
<1>1. ASSUME Strengthens PROVE Step
  <2>1. PICK l \in Limit : Strengthen(l)
    BY <1>1 DEF Strengthens
  <2>2. /\ limit' = l /\ ~ IsWeakening(limit, l)
        /\ UNCHANGED <<now, controller, pending>>
    BY <1>1, <2>1 DEF Strengthens, Strengthen, ClockAndEpochKept
  <2>3. Protects' = [limit |-> l, controlled |-> controller = "bridge"]
    BY <2>2 DEF Protects
  <2>4. Protects' \in Lock!Value
    BY <2>3 DEF Lock!Value
  <2>5. Protects.limit = limit /\ Protects'.limit = l
        /\ Protects'.controlled = Protects.controlled
    BY <2>2, <2>3 DEF Protects
  <2>6. ~ Lock!Weaker(Protects', Protects)
    BY <2>2, <2>5 DEF Lock!Weaker, Lock!LooserLimit, IsWeakening
  <2>7. UNCHANGED PendingNotice
    BY <2>2 DEF PendingNotice
  <2>8. Lock!Strengthen
    BY <2>2, <2>4, <2>6, <2>7 DEF Lock!Strengthen, Protects
  <2> QED
    BY <2>8 DEF Lock!Next
<1>2. ASSUME Enrolls PROVE Step
  <2>1. controller' = "bridge" /\ UNCHANGED <<now, limit, pending>>
    BY <1>2 DEF Enrolls, bridgeEnrollController, ClockAndEpochKept
  <2>2. Protects' = [limit |-> limit, controlled |-> TRUE]
    BY <2>1 DEF Protects
  <2>3. Protects' \in Lock!Value
    BY <1>0, <2>2 DEF Lock!Value
  <2>4. Protects.limit = limit /\ Protects'.limit = limit /\ Protects'.controlled
    BY <2>2 DEF Protects
  <2>5. ~ Lock!Weaker(Protects', Protects)
    BY <1>0, <2>4 DEF Lock!Weaker, Lock!LooserLimit
  <2>6. UNCHANGED PendingNotice
    BY <2>1 DEF PendingNotice
  <2>7. Lock!Strengthen
    BY <2>1, <2>3, <2>5, <2>6 DEF Lock!Strengthen, Protects
  <2> QED
    BY <2>7 DEF Lock!Next
<1>3. ASSUME NEW l \in Limit, NEW epoch, NEW unenroll \in BOOLEAN, NEW path,
             Propose(l, epoch, unenroll, path), ClockAndEpochKept
      PROVE  Step
  <2> DEFINE change == IF unenroll THEN [release |-> TRUE]
                       ELSE [release |-> FALSE, limit |-> l]
  <2>1. /\ ~ pending.exists
        /\ pending' = [exists |-> TRUE, newLimit |-> l,
                       validAfter |-> now + D,
                       expiresAt |-> now + D + POLICY_CONTROL_GRACE_PERIOD,
                       boundEpoch |-> epoch, isUnenrollment |-> unenroll]
        /\ UNCHANGED <<now, limit, controller>>
    BY <1>3 DEF Propose, ClockAndEpochKept
  <2>2. /\ pending'.exists /\ pending'.newLimit = l /\ pending'.validAfter = now + D
        /\ pending'.isUnenrollment = unenroll
    BY <2>1
  <2>3. (now + D) - D = now
    BY <1>0
  <2>4. PendingNotice' = [posted |-> TRUE, change |-> change, since |-> now]
    BY <2>2, <2>3 DEF PendingNotice
  <2>5. ~ PendingNotice.posted
    BY <2>1 DEF PendingNotice
  <2>6. change \in Lock!Change
    BY DEF Lock!Change, Lock!Release
  <2>7. Lock!Announce(change)
    BY <2>1, <2>4, <2>5 DEF Lock!Announce, Protects
  <2> QED
    BY <2>6, <2>7 DEF Lock!Next
<1>4. ASSUME OwnerProposes PROVE Step
  <2>1. PICK l \in Limit : Propose(l, 0, FALSE, "owner")
    BY <1>4 DEF OwnerProposes
  <2>2. FALSE \in BOOLEAN /\ ClockAndEpochKept
    BY <1>4 DEF OwnerProposes
  <2> QED
    BY <1>3, <2>1, <2>2
<1>5. ASSUME BridgeProposes PROVE Step
  <2>1. PICK l \in Limit, unenroll \in BOOLEAN :
           Propose(l, policyControlEpoch, unenroll, "bridge")
    BY <1>5 DEF BridgeProposes
  <2>2. ClockAndEpochKept
    BY <1>5 DEF BridgeProposes
  <2> QED
    BY <1>3, <2>1, <2>2
<1>6. ASSUME Cancels PROVE Step
  <2>1. /\ pending.exists /\ pending' = NoPending
        /\ UNCHANGED <<now, limit, controller>>
    BY <1>6 DEF Cancels, Cancel, ClockAndEpochKept
  <2>2. PendingNotice.posted /\ PendingNotice' = [posted |-> FALSE]
    BY <2>1 DEF PendingNotice, NoPending
  <2>3. Lock!WithdrawNotice
    BY <2>1, <2>2 DEF Lock!WithdrawNotice, Lock!NoNotice, Protects
  <2> QED
    BY <2>3 DEF Lock!Next
<1>7. ASSUME Apply, ClockAndEpochKept PROVE Step
  <2> DEFINE since == pending.validAfter - D
  <2>1. /\ pending.exists
        /\ now >= pending.validAfter /\ now < pending.expiresAt
        /\ IF pending.isUnenrollment
             THEN controller' = "none" /\ UNCHANGED limit
             ELSE limit' = pending.newLimit /\ UNCHANGED controller
        /\ pending' = NoPending
        /\ UNCHANGED now
    BY <1>7 DEF Apply, ClockAndEpochKept
  <2>2. pending.validAfter \in Nat
    BY DEF Inv, IInv, Typed, PendingWeakening
  <2>3. pending.expiresAt = pending.validAfter + POLICY_CONTROL_GRACE_PERIOD
    BY <2>1 DEF Inv, IInv, GraceKept
  <2>4. now - since >= D /\ now - since < D + POLICY_CONTROL_GRACE_PERIOD
    BY <1>0, <2>1, <2>2, <2>3
  <2>5. PendingNotice.posted /\ PendingNotice.since = since
    BY <2>1 DEF PendingNotice
  <2>6. PendingNotice' = [posted |-> FALSE]
    BY <2>1 DEF PendingNotice, NoPending
  <2>7. Protects' = Lock!After(PendingNotice.change, Protects)
    <3>1. CASE pending.isUnenrollment
      <4>1. PendingNotice.change = [release |-> TRUE]
        BY <2>1, <3>1 DEF PendingNotice
      <4>2. Protects' = [limit |-> limit, controlled |-> FALSE]
        BY <2>1, <3>1 DEF Protects
      <4>3. PendingNotice.change.release
        BY <4>1
      <4> QED
        BY <4>2, <4>3 DEF Lock!After, Protects
    <3>2. CASE ~ pending.isUnenrollment
      <4>1. PendingNotice.change = [release |-> FALSE, limit |-> pending.newLimit]
        BY <2>1, <3>2 DEF PendingNotice
      <4>2. Protects' = [limit |-> pending.newLimit, controlled |-> controller = "bridge"]
        BY <2>1, <3>2 DEF Protects
      <4>3. ~ PendingNotice.change.release /\ PendingNotice.change.limit = pending.newLimit
        BY <4>1
      <4> QED
        BY <4>2, <4>3 DEF Lock!After, Protects
    <3> QED
      BY <3>1, <3>2
  <2>8. Lock!Enact
    BY <2>1, <2>4, <2>5, <2>6, <2>7 DEF Lock!Enact, Lock!NoNotice, Protects
  <2> QED
    BY <2>8 DEF Lock!Next
<1>8. ASSUME SetsAdmitter PROVE Step
  <2>1. UNCHANGED <<now, limit, controller, pending>>
    BY <1>8 DEF SetsAdmitter, SetAdmitter, ClockAndEpochKept
  <2> QED
    BY <2>1 DEF View, Protects, PendingNotice
<1>9. ASSUME Elsewhere PROVE Step
  <2>1. UNCHANGED <<limit, controller, pending>> /\ (now' = now \/ now' = now + 1)
    BY <1>9 DEF Elsewhere, protection, ClockAndEpochKept
  <2>2. UNCHANGED <<Protects, PendingNotice>>
    BY <2>1 DEF Protects, PendingNotice
  <2>3. CASE now' = now
    BY <2>2, <2>3 DEF View
  <2>4. CASE now' = now + 1
    <3>1. now' > now
      BY <1>0, <2>4
    <3>2. Lock!TimePasses
      BY <2>2, <3>1 DEF Lock!TimePasses, Protects
    <3> QED
      BY <3>2 DEF Lock!Next
  <2> QED
    BY <2>1, <2>3, <2>4
<1> QED
  BY <1>1, <1>2, <1>4, <1>5, <1>6, <1>7, <1>8, <1>9, StepKinds
  DEF Inv, NonceTyped, OwnerApplies, BridgeApplies

\* WeakeningLocked: on both paths together protection grows at once and shrinks
\* only after the delay, within the grace period, as announced.
THEOREM PolicyControlImplementsLock == Spec => WeakeningLocked
<1>1. Init => Lock!Init
  <2> SUFFICES ASSUME Init PROVE Lock!Init
    OBVIOUS
  <2>1. now = 0 /\ limit = 0 /\ controller = "none" /\ pending = NoPending
    BY DEF Init
  <2>2. PendingNotice = [posted |-> FALSE]
    BY <2>1 DEF PendingNotice, NoPending
  <2>3. Protects \in Lock!Value
    BY <2>1 DEF Protects, Lock!Value
  <2> QED
    BY <2>1, <2>2, <2>3 DEF Lock!Init, Lock!NoNotice, Protects
<1>2. Inv /\ [Next]_vars => [Lock!Next]_View
  BY LockStep
<1>3. WeakeningLocked <=> Lock!Init /\ [][Lock!Next]_View
  BY DEF WeakeningLocked, Lock!Spec, View, Protects
<1> QED
  BY <1>1, <1>2, <1>3, AlwaysInv, PTL DEF Spec
=============================================================================
