-------------------------- MODULE VerifierRotation --------------------------
(***************************************************************************)
(* Who decides which contract checks post-quantum signatures: the rotation *)
(* of pqVerifier in WalletWallVault.sol, the rules of                      *)
(* VerifierRotationGuard.sol around it, and the two-step ownership of the  *)
(* contract, whose owner drives the rotation.  StablecoinVaultSimulator    *)
(* and WalletWallMultiSigVault carry the same text.                        *)
(*                                                                         *)
(* A verifier is either a ZKMLDSAVerifier (a Wrapper: immutable halt       *)
(* principal and identity, a one-way halt) or any other contract, which    *)
(* may answer the guard's probes with whatever it likes, differently each  *)
(* time, or lose its code.                                                 *)
(***************************************************************************)
EXTENDS Integers, FiniteSets

CONSTANTS
    Account, NoAccount,
    Wrapper,                        \* ZKMLDSAVerifier instances
    OtherVerifier,                  \* every other verifier contract
    NoVerifier,
    Identity, NoIdentity,           \* (SP1 verifier code hash, program vkey)
    WrapperPrincipal,               \* HALT_PRINCIPAL of each wrapper
    WrapperIdentity,                \* identity of each wrapper
    PQ_VERIFIER_UPDATE_DELAY,
    GOVERNANCE_GRACE_PERIOD,
    MaxTime                         \* bound on block time

Verifier == Wrapper \cup OtherVerifier

ASSUME RotationAssumption ==
    /\ NoAccount \notin Account
    /\ NoVerifier \notin Verifier
    /\ NoIdentity \notin Identity
    /\ Wrapper \cap OtherVerifier = {}
    /\ WrapperPrincipal \in [Wrapper -> Account]
    /\ WrapperIdentity \in [Wrapper -> Identity]
    /\ PQ_VERIFIER_UPDATE_DELAY \in Nat \ {0}
    /\ GOVERNANCE_GRACE_PERIOD \in Nat
    /\ MaxTime \in Nat

VARIABLES
    now,                        \* block.timestamp
    report,                     \* what each verifier answers to the probes
    owner, pendingOwner,        \* Ownable2Step
    pqVerifier,
    pqVerifierIdentity,         \* identity measured when pqVerifier went in
    pendingPQVerifier,          \* pendingPQVerifier / ValidAfter
    haltedVerifierIdentities,
    seenHalted,                 \* history: identities of wrappers halted in office
    installed                   \* history: every identity pqVerifier went in with

vars == <<now, report, owner, pendingOwner, pqVerifier, pqVerifierIdentity,
          pendingPQVerifier, haltedVerifierIdentities, seenHalted, installed>>

guardVars == <<pqVerifier, pqVerifierIdentity, haltedVerifierIdentities, installed>>

NoUpdate == [verifier |-> NoVerifier, validAfter |-> 0]

Report == [code : BOOLEAN, halted : BOOLEAN,
           principal : Account \cup {NoAccount}, identity : Identity \cup {NoIdentity}]

\* No code behind the address: every probe fails and reads as "none".
Silence == [code |-> FALSE, halted |-> FALSE,
            principal |-> NoAccount, identity |-> NoIdentity]

WrapperReport(w, isHalted) ==
    [code |-> TRUE, halted |-> isHalted,
     principal |-> WrapperPrincipal[w], identity |-> WrapperIdentity[w]]

TypeOK ==
    /\ now \in 0..MaxTime
    /\ report \in [Verifier -> Report]
    /\ owner \in Account
    /\ pendingOwner \in Account \cup {NoAccount}
    /\ pqVerifier \in Verifier
    /\ pqVerifierIdentity \in Identity \cup {NoIdentity}
    /\ \/ pendingPQVerifier = NoUpdate
       \/ pendingPQVerifier \in [verifier : Verifier, validAfter : Nat \ {0}]
    /\ haltedVerifierIdentities \subseteq Identity
    /\ seenHalted \subseteq Identity
    /\ installed \subseteq Identity \cup {NoIdentity}

-----------------------------------------------------------------------------
(* VerifierRotationGuard *)

IsHaltPrincipal(account, v) ==
    v # NoVerifier /\ report[v].principal = account

\* Slip: the verifier that is about to come into office is not looked at.
OwnableNow(account) == ~ IsHaltPrincipal(account, pqVerifier)

\* requireNotHaltPrincipal
MayOwn(account) ==
    /\ ~ IsHaltPrincipal(account, pqVerifier)
    /\ ~ IsHaltPrincipal(account, pendingPQVerifier.verifier)

\* requireAdmissibleRotation
AdmissibleRotation(target, caller) ==
    LET identity == report[target].identity IN
    /\ ~ IsHaltPrincipal(caller, target)
    /\ ~ report[target].halted
    /\ identity # NoIdentity =>
          /\ identity \notin haltedVerifierIdentities
          /\ ~ (identity = pqVerifierIdentity /\ report[pqVerifier].halted)

\* recordHaltedIdentity
RecordHaltedIdentity ==
    IF pqVerifierIdentity # NoIdentity /\ report[pqVerifier].halted
      THEN haltedVerifierIdentities \cup {pqVerifierIdentity}
      ELSE haltedVerifierIdentities

-----------------------------------------------------------------------------
(* The constructor: the deployer owns the contract.  requireAdmissible-    *)
(* InitialVerifier asks for no code at the address.                        *)

Init ==
    /\ now = 0
    /\ report \in [Verifier -> Report]
    /\ \A w \in Wrapper : report[w] = WrapperReport(w, report[w].halted)
    /\ \A v \in OtherVerifier : report[v].code \/ report[v] = Silence
    /\ owner \in Account
    /\ pendingOwner = NoAccount
    /\ pqVerifier \in Verifier
    /\ ~ IsHaltPrincipal(owner, pqVerifier)
    /\ ~ report[pqVerifier].halted
    /\ pqVerifierIdentity = report[pqVerifier].identity
    /\ pendingPQVerifier = NoUpdate
    /\ haltedVerifierIdentities = {}
    /\ seenHalted = {}
    /\ installed = {pqVerifierIdentity}

proposePQVerifier(target) ==
    /\ report[target].code
    /\ AdmissibleRotation(target, owner)
    /\ pendingPQVerifier' =
          [verifier |-> target, validAfter |-> now + PQ_VERIFIER_UPDATE_DELAY]
    /\ UNCHANGED <<now, report, owner, pendingOwner, guardVars, seenHalted>>

cancelPQVerifierUpdate ==
    /\ pendingPQVerifier.verifier # NoVerifier
    /\ pendingPQVerifier' = NoUpdate
    /\ UNCHANGED <<now, report, owner, pendingOwner, guardVars, seenHalted>>

\* _requireNotExpired and the readiness check before it.
Mature ==
    /\ now >= pendingPQVerifier.validAfter
    /\ now <= pendingPQVerifier.validAfter + GOVERNANCE_GRACE_PERIOD

applyPQVerifierUpdate ==
    LET target == pendingPQVerifier.verifier IN
    /\ target # NoVerifier
    /\ Mature
    /\ report[target].code
    /\ AdmissibleRotation(target, owner)
    /\ haltedVerifierIdentities' = RecordHaltedIdentity
    /\ pqVerifier' = target
    /\ pqVerifierIdentity' = report[target].identity
    /\ pendingPQVerifier' = NoUpdate
    /\ installed' = installed \cup {report[target].identity}
    /\ UNCHANGED <<now, report, owner, pendingOwner, seenHalted>>

-----------------------------------------------------------------------------
(* Ownable2Step, with the vault's _transferOwnership.  renounceOwnership   *)
(* always reverts.                                                         *)

transferOwnership(account) ==
    /\ pendingOwner' = account
    /\ UNCHANGED <<now, report, owner, pendingPQVerifier, guardVars, seenHalted>>

acceptOwnership ==
    /\ pendingOwner # NoAccount
    /\ MayOwn(pendingOwner)
    /\ owner' = pendingOwner
    /\ pendingOwner' = NoAccount
    /\ UNCHANGED <<now, report, pendingPQVerifier, guardVars, seenHalted>>

-----------------------------------------------------------------------------
(* The verifiers, and time *)

\* ZKMLDSAVerifier.halt, by the wrapper's principal: there is no way back.
halt(w) ==
    /\ ~ report[w].halted
    /\ report' = [report EXCEPT ![w] = WrapperReport(w, TRUE)]
    /\ seenHalted' = IF w = pqVerifier THEN seenHalted \cup {WrapperIdentity[w]}
                     ELSE seenHalted
    /\ UNCHANGED <<now, owner, pendingOwner, pendingPQVerifier, guardVars>>

\* Another contract behaves differently from now on.
Turn(v) ==
    /\ \E r \in Report :
          /\ r.code \/ r = Silence
          /\ r # report[v]
          /\ report' = [report EXCEPT ![v] = r]
    /\ UNCHANGED <<now, owner, pendingOwner, pendingPQVerifier, guardVars, seenHalted>>

Tick ==
    /\ now < MaxTime
    /\ now' = now + 1
    /\ UNCHANGED <<report, owner, pendingOwner, pendingPQVerifier, guardVars, seenHalted>>

Next ==
    \/ \E v \in Verifier : proposePQVerifier(v)
    \/ cancelPQVerifierUpdate
    \/ applyPQVerifierUpdate
    \/ \E a \in Account \cup {NoAccount} : transferOwnership(a)
    \/ acceptOwnership
    \/ \E w \in Wrapper : halt(w)
    \/ \E v \in OtherVerifier : Turn(v)
    \/ Tick

Spec == Init /\ [][Next]_vars

-----------------------------------------------------------------------------
(* Properties *)

\* Separation of duties (VerifierRotationGuard.sol:41, "may not own the
\* consumer"): whatever the order of proposals, ownership offers and
\* acceptances, nobody owns the contract who could halt the wrapper in office
\* or the one announced for it.
OwnerCannotHalt ==
    \A w \in Wrapper \cap {pqVerifier, pendingPQVerifier.verifier} :
        owner # WrapperPrincipal[w]

\* A halt is for good (VerifierRotationGuard.sol:111): once a wrapper was
\* halted in office its identity verifies nothing here any more - not after a
\* halt during the delay, not as a second deployment, not as an impostor.
HaltIsForGood ==
    pqVerifierIdentity \in seenHalted =>
        pqVerifier \in Wrapper /\ report[pqVerifier].halted

\* "A current verifier can refuse at most that one identity, whatever it
\* reports later" (VerifierRotationGuard.sol:98): identities are refused for
\* good only if a verifier went into office with them ...
OnlyInstalledAreRefused == haltedVerifierIdentities \subseteq installed

\* ... and an announced wrapper of any other identity, unless halted itself,
\* can be put into office in its window by the owner of that moment.
NoVeto ==
    LET target == pendingPQVerifier.verifier IN
    ( /\ target \in Wrapper
      /\ ~ report[target].halted
      /\ WrapperIdentity[target] \notin installed )
      => AdmissibleRotation(target, owner)

\* Whoever relies on the verifier has notice of every change
\* (PQ_VERIFIER_UPDATE_DELAY, GOVERNANCE_GRACE_PERIOD).
VerifierNotice ==
    IF pendingPQVerifier.verifier = NoVerifier THEN [posted |-> FALSE]
    ELSE [posted |-> TRUE, value |-> pendingPQVerifier.verifier,
          since |-> pendingPQVerifier.validAfter - PQ_VERIFIER_UPDATE_DELAY]

VerifierTimelock ==
    INSTANCE Timelock WITH
        Value <- Verifier, Delay <- PQ_VERIFIER_UPDATE_DELAY,
        Grace <- GOVERNANCE_GRACE_PERIOD,
        clock <- now, value <- pqVerifier, notice <- VerifierNotice

\* The verifier changes only to one announced, unaltered, for the delay.
VerifierTimelocked == VerifierTimelock!Spec
=============================================================================
