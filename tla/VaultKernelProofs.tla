-------------------------- MODULE VaultKernelProofs --------------------------
(***************************************************************************)
(* What holds of the kernel for every roster of keys and verifiers, every  *)
(* delay and challenge limit, and any number of requests, spends and       *)
(* nested calls of the policy plane.                                       *)
(***************************************************************************)
EXTENDS VaultKernel, SequenceTheorems, TLAPS

USE KernelAssumption, ContainmentAssumption, GenesisAssumption

Message == [generation : Nat, nonce : Nat]

Request ==
    [proposedSigner : Signers \cup {NoKey}, proposedPqKeyHash : Commitments,
     proposedVerifier : Verifiers \cup {NoKey},
     executableAt : Nat, expiresAt : Nat, challengesUsed : Nat, active : BOOLEAN]

Cancellation == [generation : Nat, nonce : Nat, request : Nat]

Domain == {"spend", "credential", "guardian", "migration"}

Typed ==
    /\ now \in Nat
    /\ requirePq \in BOOLEAN
    /\ credentialGeneration \in Nat /\ guardianGeneration \in Nat
    /\ nonces \in [Domain -> Nat]
    /\ recovery \in Request
    /\ migration \in [bound : BOOLEAN, boundAt : Nat]
    /\ balance \in Nat
    /\ frames \in Seq([message : Message, amount : Nat])
    /\ requests \in Nat /\ challenges \in Nat
    /\ cancellations \subseteq Cancellation
    /\ paid \in Seq(Message)

\* A request in force names a verifier of the root.
ActiveNamesVerifier == recovery.active => recovery.proposedVerifier \in Admissible

\* What the guardians signed to cancel and can still submit is for the request
\* they have in front of them.
CancellationsCurrent ==
    \A c \in cancellations :
        c.nonce < nonces.guardian \/ (c.nonce = nonces.guardian /\ c.request = requests)

\* A bound vault is past recovery, and retires late enough.
BoundIsOver ==
    /\ migration.bound => safeState \in {"MIGRATION_ONLY", "RETIRED"} /\ ~Live
    /\ safeState = "RETIRED" => now >= migration.boundAt + BIND_DELAY

\* The nonce of a spend is behind the counter; no two spends, open or paid, share one.
NoncesApart ==
    /\ \A i \in 1..Len(paid) : paid[i].nonce < nonces.spend
    /\ \A i \in 1..Len(frames) : frames[i].message.nonce < nonces.spend
    /\ \A i, j \in 1..Len(paid) : paid[i].nonce = paid[j].nonce => i = j
    /\ \A i, j \in 1..Len(frames) :
         frames[i].message.nonce = frames[j].message.nonce => i = j
    /\ \A i \in 1..Len(frames), j \in 1..Len(paid) : frames[i].message.nonce # paid[j].nonce

IInv ==
    /\ Typed
    /\ ActiveNamesVerifier
    /\ ChallengeBudget
    /\ CommitmentExhibited
    /\ CancellationsCurrent
    /\ BoundIsOver
    /\ NoncesApart

-----------------------------------------------------------------------------
(* Types *)

LEMMA ConsumeTyped ==
    ASSUME NEW domain \in Domain, Typed, Consume(domain)
    PROVE  /\ nonces' \in [Domain -> Nat]
           /\ nonces'[domain] = nonces[domain] + 1
           /\ \A d \in Domain : d # domain => nonces'[d] = nonces[d]
  BY DEF Typed, Consume

LEMMA PayTyped ==
    ASSUME Typed, NEW message \in Message, NEW amount \in Nat,
           NEW rest \in Seq([message : Message, amount : Nat]),
           Pay(message, amount, rest)
    PROVE  /\ balance' \in Nat
           /\ frames' \in Seq([message : Message, amount : Nat])
           /\ paid' \in Seq(Message)
           /\ UNCHANGED <<requests, challenges, cancellations>>
  BY DEF Typed, Pay

LEMMA HeadFrame ==
    ASSUME Typed, frames # <<>>
    PROVE  /\ Head(frames).message \in Message
           /\ Head(frames).amount \in Nat
           /\ Tail(frames) \in Seq([message : Message, amount : Nat])
<1> DEFINE Frame == [message : Message, amount : Nat]
<1>1. frames \in Seq(Frame)
  BY DEF Typed
<1>2. Head(frames) \in Frame /\ Tail(frames) \in Seq(Frame)
  <2> HIDE DEF Frame
  <2> QED  BY <1>1, HeadTailProperties
<1> QED  BY <1>2

LEMMA OpenedTyped ==
    ASSUME Typed, NEW signer \in Signers, NEW key \in Commitments, NEW verifier \in Admissible
    PROVE  Opened(signer, key, verifier) \in Request
<1>1. now + RECOVERY_DELAY \in Nat /\ now + RECOVERY_DELAY + RECOVERY_EXPIRY \in Nat
  BY DEF Typed
<1>2. recovery.challengesUsed \in Nat
  BY DEF Typed, Request
<1>3. verifier \in Verifiers \cup {NoKey}
  OBVIOUS
<1> QED  BY <1>1, <1>2, <1>3 DEF Opened, Request

LEMMA NoRequestTyped == NoRequest \in Request
  BY DEF NoRequest, Request, Commitments

\* What a call of the credential, of the guardians, or a recovery leaves alone.
LEMMA ClosedTyped ==
    ASSUME Typed
    PROVE  /\ [recovery EXCEPT !.active = FALSE] \in Request
           /\ [recovery EXCEPT !.active = FALSE, !.challengesUsed = @ + 1] \in Request
<1>1. recovery \in Request
  BY DEF Typed
<1>2. recovery.challengesUsed + 1 \in Nat
  BY <1>1 DEF Request
<1>3. [recovery EXCEPT !.active = FALSE] \in Request
  BY <1>1 DEF Request
<1>4. [recovery EXCEPT !.challengesUsed = @ + 1] \in Request
  BY <1>1, <1>2 DEF Request
<1>5. [recovery EXCEPT !.active = FALSE, !.challengesUsed = @ + 1] \in Request
  BY <1>1, <1>2 DEF Request
<1> QED  BY <1>3, <1>5

LEMMA TypedInit == Init => Typed
<1> SUFFICES ASSUME Init PROVE Typed
  OBVIOUS
<1>1. nonces \in [Domain -> Nat]
  BY DEF Init, Domain
<1>2. recovery \in Request
  BY NoRequestTyped DEF Init
<1> QED  BY <1>1, <1>2 DEF Init, Typed

LEMMA TypedStep == Typed /\ [Next]_vars => Typed'
<1> SUFFICES ASSUME Typed, [Next]_vars PROVE Typed'
  OBVIOUS
<1>1. CASE execute
  <2>1. nonces' \in [Domain -> Nat]
    BY <1>1, ConsumeTyped DEF execute, ConsumeSpend, Domain
  <2>2. PICK amount \in Amounts :
          LET message == [generation |-> credentialGeneration, nonce |-> nonces.spend]
          IN  IF policyEngine = NoEngine
              THEN Pay(message, amount, frames)
              ELSE /\ frames' = <<[message |-> message, amount |-> amount]>> \o frames
                   /\ UNCHANGED <<balance, records>>
    BY <1>1 DEF execute
  <2> DEFINE message == [generation |-> credentialGeneration, nonce |-> nonces.spend]
  <2>3. message \in Message /\ amount \in Nat
    BY DEF Typed, Message, Domain
  <2>4. /\ balance' \in Nat /\ paid' \in Seq(Message)
        /\ frames' \in Seq([message : Message, amount : Nat])
        /\ UNCHANGED <<requests, challenges, cancellations>>
    <3>1. CASE policyEngine = NoEngine
      <4>1. frames \in Seq([message : Message, amount : Nat])
        BY DEF Typed
      <4> QED  BY <2>2, <2>3, <3>1, <4>1, PayTyped
    <3>2. CASE policyEngine # NoEngine
      <4>1. [message |-> message, amount |-> amount] \in [message : Message, amount : Nat]
        BY <2>3
      <4>2. frames' = <<[message |-> message, amount |-> amount]>> \o frames
        BY <2>2, <3>2
      <4> HIDE DEF message
      <4> QED  BY <2>2, <3>2, <4>1, <4>2 DEF Typed, records
    <3> QED  BY <3>1, <3>2
  <2> QED  BY <1>1, <2>1, <2>4 DEF execute, Typed, credentials
<1>2. CASE admitReturns
  <2>1. /\ balance' \in Nat /\ paid' \in Seq(Message)
        /\ frames' \in Seq([message : Message, amount : Nat])
        /\ UNCHANGED <<requests, challenges, cancellations>>
    BY <1>2, HeadFrame, PayTyped DEF admitReturns
  <2> QED  BY <1>2, <2>1 DEF admitReturns, Typed, credentials
<1>3. CASE rotateCredential \/ setVerifier \/ setPolicy
  <2>1. nonces' \in [Domain -> Nat]
    BY <1>3, ConsumeTyped DEF rotateCredential, setVerifier, setPolicy, OwnerAct, Domain
  <2>2. requirePq' \in BOOLEAN /\ credentialGeneration' \in Nat
    BY <1>3 DEF rotateCredential, setVerifier, setPolicy, InstallCredential, credentials, Typed
  <2>3. OwnerAct
    BY <1>3 DEF rotateCredential, setVerifier, setPolicy
  <2> QED  BY <2>1, <2>2, <2>3 DEF OwnerAct, Typed, records
<1>4. CASE setGuardians \/ enterContainment \/ initiateRecovery \/ cancelRecoveryByQuorum
  <2>1. GuardianAct
    BY <1>4 DEF setGuardians, enterContainment, initiateRecovery, cancelRecoveryByQuorum
  <2>2. nonces' \in [Domain -> Nat]
    BY <2>1, ConsumeTyped DEF GuardianAct, Domain
  <2>3. recovery' \in Request
    <3>1. CASE setGuardians \/ enterContainment
      BY <3>1 DEF setGuardians, enterContainment, Typed
    <3>2. CASE initiateRecovery
      BY <3>2, OpenedTyped DEF initiateRecovery
    <3>3. CASE cancelRecoveryByQuorum
      BY <3>3, ClosedTyped DEF cancelRecoveryByQuorum
    <3> QED  BY <1>4, <3>1, <3>2, <3>3
  <2>4. /\ guardianGeneration' \in Nat /\ requests' \in Nat
        /\ UNCHANGED <<challenges, cancellations, paid>>
    <3>1. CASE setGuardians \/ enterContainment
      BY <3>1 DEF setGuardians, enterContainment, Typed, records
    <3>2. CASE initiateRecovery
      BY <3>2 DEF initiateRecovery, Typed
    <3>3. CASE cancelRecoveryByQuorum
      BY <3>3 DEF cancelRecoveryByQuorum, Typed, records
    <3> QED  BY <1>4, <3>1, <3>2, <3>3
  <2> QED  BY <2>1, <2>2, <2>3, <2>4 DEF GuardianAct, Typed, credentials
<1>5. CASE signCancellation
  <2>1. [generation |-> guardianGeneration, nonce |-> nonces.guardian, request |-> requests]
          \in Cancellation
    BY DEF Typed, Cancellation, Domain
  <2>2. cancellations' \subseteq Cancellation
    BY <1>5, <2>1 DEF signCancellation, Typed
  <2> QED  BY <1>5, <2>2 DEF signCancellation, Typed, credentials
<1>6. CASE cancelRecovery
  <2>1. nonces' \in [Domain -> Nat]
    BY <1>6, ConsumeTyped DEF cancelRecovery, Domain
  <2>2. recovery' \in Request
    <3>1. recovery' = [recovery EXCEPT !.active = FALSE, !.challengesUsed = @ + 1]
      BY <1>6 DEF cancelRecovery
    <3> QED  BY <3>1, ClosedTyped
  <2>3. challenges' \in Nat
    <3>1. challenges' = challenges + 1
      BY <1>6 DEF cancelRecovery
    <3> QED  BY <3>1 DEF Typed
  <2> QED  BY <1>6, <2>1, <2>2, <2>3 DEF cancelRecovery, Typed, credentials
<1>7. CASE executeRecovery
  <2>1. recovery' \in Request
    BY <1>7, NoRequestTyped DEF executeRecovery
  <2>2. requirePq' \in BOOLEAN /\ credentialGeneration' \in Nat
    BY <1>7 DEF executeRecovery, InstallCredential, Typed
  <2> QED  BY <1>7, <2>1, <2>2 DEF executeRecovery, Typed
<1>8. CASE bindMigration
  <2>1. nonces' \in [Domain -> Nat]
    BY <1>8, ConsumeTyped DEF bindMigration, Domain
  <2>2. migration' \in [bound : BOOLEAN, boundAt : Nat]
    BY <1>8 DEF bindMigration, Typed
  <2> QED  BY <1>8, <2>1, <2>2 DEF bindMigration, Typed, credentials, records
<1>9. CASE retire \/ egress \/ receive \/ Tick
  <2>1. now' \in Nat /\ balance' \in Nat
    BY <1>9 DEF retire, egress, receive, Tick, Typed
  <2> QED  BY <1>9, <2>1 DEF retire, egress, receive, Tick, Typed, credentials, records
<1>10. CASE UNCHANGED vars
  BY <1>10 DEF vars, Typed, credentials, records
<1> QED  BY <1>1, <1>2, <1>3, <1>4, <1>5, <1>6, <1>7, <1>8, <1>9, <1>10 DEF Next
-----------------------------------------------------------------------------
(* Who writes what *)

LEMMA RecoveryWriters ==
    [Next]_vars =>
        \/ initiateRecovery \/ cancelRecoveryByQuorum \/ cancelRecovery \/ executeRecovery
        \/ UNCHANGED <<recovery, requests, challenges>>
<1> SUFFICES ASSUME [Next]_vars
             PROVE  \/ initiateRecovery \/ cancelRecoveryByQuorum
                    \/ cancelRecovery \/ executeRecovery
                    \/ UNCHANGED <<recovery, requests, challenges>>
  OBVIOUS
<1>1. CASE execute
  BY <1>1 DEF execute, Pay, records
<1>2. CASE admitReturns
  BY <1>2 DEF admitReturns, Pay
<1>3. CASE rotateCredential \/ setVerifier \/ setPolicy
  BY <1>3 DEF rotateCredential, setVerifier, setPolicy, OwnerAct, records
<1>4. CASE setGuardians \/ enterContainment
  BY <1>4 DEF setGuardians, enterContainment, records
<1>5. CASE signCancellation
  BY <1>5 DEF signCancellation
<1>6. CASE bindMigration \/ retire \/ egress \/ receive \/ Tick
  BY <1>6 DEF bindMigration, retire, egress, receive, Tick, records
<1>7. CASE UNCHANGED vars
  BY <1>7 DEF vars, records
<1> QED  BY <1>1, <1>2, <1>3, <1>4, <1>5, <1>6, <1>7 DEF Next

LEMMA CredentialWriters ==
    [Next]_vars =>
        \/ rotateCredential \/ setVerifier \/ executeRecovery
        \/ UNCHANGED <<ecdsaSigner, pqPublicKeyHash, pqVerifier, requirePq, credentialGeneration>>
<1> SUFFICES ASSUME [Next]_vars
             PROVE  \/ rotateCredential \/ setVerifier \/ executeRecovery
                    \/ UNCHANGED <<ecdsaSigner, pqPublicKeyHash, pqVerifier, requirePq,
                                   credentialGeneration>>
  OBVIOUS
<1>1. CASE execute \/ admitReturns \/ setPolicy
  BY <1>1 DEF execute, admitReturns, setPolicy, credentials
<1>2. CASE setGuardians \/ enterContainment \/ initiateRecovery \/ cancelRecoveryByQuorum
  BY <1>2 DEF setGuardians, enterContainment, initiateRecovery, cancelRecoveryByQuorum,
     GuardianAct, credentials
<1>3. CASE signCancellation \/ cancelRecovery
  BY <1>3 DEF signCancellation, cancelRecovery, credentials
<1>4. CASE bindMigration \/ retire \/ egress \/ receive \/ Tick
  BY <1>4 DEF bindMigration, retire, egress, receive, Tick, credentials
<1>5. CASE UNCHANGED vars
  BY <1>5 DEF vars, credentials
<1> QED  BY <1>1, <1>2, <1>3, <1>4, <1>5 DEF Next

LEMMA AuthorityWriters ==
    [Next]_vars =>
        \/ enterContainment \/ bindMigration \/ retire
        \/ UNCHANGED <<safeState, migration>>
<1> SUFFICES ASSUME [Next]_vars
             PROVE  \/ enterContainment \/ bindMigration \/ retire
                    \/ UNCHANGED <<safeState, migration>>
  OBVIOUS
<1>1. CASE execute \/ admitReturns
  BY <1>1 DEF execute, admitReturns, containment
<1>2. CASE rotateCredential \/ setVerifier \/ setPolicy
  BY <1>2 DEF rotateCredential, setVerifier, setPolicy, OwnerAct, containment
<1>3. CASE setGuardians \/ initiateRecovery \/ cancelRecoveryByQuorum
  BY <1>3 DEF setGuardians, initiateRecovery, cancelRecoveryByQuorum, GuardianAct, containment
<1>4. CASE signCancellation \/ cancelRecovery \/ executeRecovery
  BY <1>4 DEF signCancellation, cancelRecovery, executeRecovery, containment
<1>5. CASE egress \/ receive \/ Tick
  BY <1>5 DEF egress, receive, Tick, containment
<1>6. CASE UNCHANGED vars
  BY <1>6 DEF vars, containment
<1> QED  BY <1>1, <1>2, <1>3, <1>4, <1>5, <1>6 DEF Next

LEMMA PaymentWriters ==
    Typed /\ [Next]_vars =>
        \/ execute \/ admitReturns
        \/ UNCHANGED <<frames, paid>> /\ nonces'.spend = nonces.spend
<1> SUFFICES ASSUME Typed, [Next]_vars
             PROVE  \/ execute \/ admitReturns
                    \/ UNCHANGED <<frames, paid>> /\ nonces'.spend = nonces.spend
  OBVIOUS
<1>1. CASE rotateCredential \/ setVerifier \/ setPolicy
  <2>1. OwnerAct
    BY <1>1 DEF rotateCredential, setVerifier, setPolicy
  <2> QED  BY <2>1 DEF OwnerAct, Consume, Typed, Domain, records
<1>2. CASE setGuardians \/ enterContainment \/ initiateRecovery \/ cancelRecoveryByQuorum
  <2>1. GuardianAct /\ UNCHANGED paid
    BY <1>2 DEF setGuardians, enterContainment, initiateRecovery, cancelRecoveryByQuorum, records
  <2> QED  BY <2>1 DEF GuardianAct, Consume, Typed, Domain
<1>3. CASE signCancellation \/ executeRecovery
  BY <1>3 DEF signCancellation, executeRecovery
<1>4. CASE cancelRecovery
  BY <1>4 DEF cancelRecovery, Consume, Typed, Domain
<1>5. CASE bindMigration
  BY <1>5 DEF bindMigration, Consume, Typed, Domain, records
<1>6. CASE retire \/ egress \/ receive \/ Tick
  BY <1>6 DEF retire, egress, receive, Tick, records
<1>7. CASE UNCHANGED vars
  BY <1>7 DEF vars, records
<1> QED  BY <1>1, <1>2, <1>3, <1>4, <1>5, <1>6, <1>7 DEF Next

LEMMA CancellationWriters ==
    Typed /\ [Next]_vars =>
        \/ signCancellation
        \/ /\ UNCHANGED cancellations
           /\ \/ nonces'.guardian = nonces.guardian + 1
              \/ UNCHANGED requests /\ nonces'.guardian = nonces.guardian
<1> SUFFICES ASSUME Typed, [Next]_vars, ~signCancellation
             PROVE  /\ UNCHANGED cancellations
                    /\ \/ nonces'.guardian = nonces.guardian + 1
                       \/ UNCHANGED requests /\ nonces'.guardian = nonces.guardian
  OBVIOUS
<1>1. CASE execute
  <2>1. UNCHANGED <<requests, cancellations>>
    BY <1>1 DEF execute, Pay, records
  <2>2. nonces'.guardian = nonces.guardian
    BY <1>1 DEF execute, ConsumeSpend, Consume, Typed, Domain
  <2> QED  BY <2>1, <2>2
<1>2. CASE admitReturns
  BY <1>2 DEF admitReturns, Pay
<1>3. CASE rotateCredential \/ setVerifier \/ setPolicy
  <2>1. OwnerAct
    BY <1>3 DEF rotateCredential, setVerifier, setPolicy
  <2> QED  BY <2>1 DEF OwnerAct, Consume, Typed, Domain, records
<1>4. CASE setGuardians \/ enterContainment \/ initiateRecovery \/ cancelRecoveryByQuorum
  <2>1. GuardianAct /\ UNCHANGED cancellations
    BY <1>4 DEF setGuardians, enterContainment, initiateRecovery, cancelRecoveryByQuorum, records
  <2>2. nonces'.guardian = nonces.guardian + 1
    BY <2>1 DEF GuardianAct, Consume, Typed, Domain
  <2> QED  BY <2>1, <2>2
<1>5. CASE cancelRecovery
  BY <1>5 DEF cancelRecovery, Consume, Typed, Domain
<1>6. CASE executeRecovery
  BY <1>6 DEF executeRecovery
<1>7. CASE bindMigration
  BY <1>7 DEF bindMigration, Consume, Typed, Domain, records
<1>8. CASE retire \/ egress \/ receive \/ Tick
  BY <1>8 DEF retire, egress, receive, Tick, records
<1>9. CASE UNCHANGED vars
  BY <1>9 DEF vars, records
<1> QED  BY <1>1, <1>2, <1>3, <1>4, <1>5, <1>6, <1>7, <1>8, <1>9 DEF Next

LEMMA TimePasses ==
    Typed /\ [Next]_vars => now' \in Nat /\ now' >= now
<1> SUFFICES ASSUME Typed, [Next]_vars, ~Tick PROVE now' = now
  BY DEF Tick, Typed
<1>1. CASE rotateCredential \/ setVerifier \/ setPolicy
  BY <1>1 DEF rotateCredential, setVerifier, setPolicy, OwnerAct
<1>2. CASE setGuardians \/ enterContainment \/ initiateRecovery \/ cancelRecoveryByQuorum
  BY <1>2 DEF setGuardians, enterContainment, initiateRecovery, cancelRecoveryByQuorum, GuardianAct
<1>3. CASE execute \/ admitReturns \/ signCancellation \/ cancelRecovery \/ executeRecovery
  BY <1>3 DEF execute, admitReturns, signCancellation, cancelRecovery, executeRecovery
<1>4. CASE bindMigration \/ retire \/ egress \/ receive
  BY <1>4 DEF bindMigration, retire, egress, receive
<1>5. CASE UNCHANGED vars
  BY <1>5 DEF vars
<1> QED  BY <1>1, <1>2, <1>3, <1>4, <1>5 DEF Next
-----------------------------------------------------------------------------
(* The invariant, conjunct by conjunct *)

LEMMA ActiveNamesVerifierStep ==
    Typed /\ ActiveNamesVerifier /\ [Next]_vars => ActiveNamesVerifier'
<1> SUFFICES ASSUME Typed, ActiveNamesVerifier, [Next]_vars PROVE ActiveNamesVerifier'
  OBVIOUS
<1>1. CASE initiateRecovery
  BY <1>1 DEF initiateRecovery, Opened, ActiveNamesVerifier
<1>2. CASE cancelRecoveryByQuorum \/ cancelRecovery
  <2>1. recovery'.active = FALSE
    BY <1>2 DEF cancelRecoveryByQuorum, cancelRecovery, Typed, Request
  <2> QED  BY <2>1 DEF ActiveNamesVerifier
<1>3. CASE executeRecovery
  BY <1>3 DEF executeRecovery, NoRequest, ActiveNamesVerifier
<1>4. CASE UNCHANGED <<recovery, requests, challenges>>
  BY <1>4 DEF ActiveNamesVerifier
<1> QED  BY <1>1, <1>2, <1>3, <1>4, RecoveryWriters

LEMMA ChallengeBudgetStep ==
    Typed /\ ChallengeBudget /\ [Next]_vars => ChallengeBudget'
<1> SUFFICES ASSUME Typed, ChallengeBudget, [Next]_vars PROVE ChallengeBudget'
  OBVIOUS
<1>1. CASE initiateRecovery
  BY <1>1 DEF initiateRecovery, Opened, ChallengeBudget
<1>2. CASE cancelRecoveryByQuorum
  BY <1>2 DEF cancelRecoveryByQuorum, records, ChallengeBudget, Typed, Request
<1>3. CASE cancelRecovery
  <2>1. recovery'.challengesUsed = recovery.challengesUsed + 1
    BY <1>3 DEF cancelRecovery, Typed, Request
  <2>2. challenges' = challenges + 1 /\ recovery.challengesUsed < CHALLENGE_LIMIT
    BY <1>3 DEF cancelRecovery
  <2> QED  BY <2>1, <2>2 DEF ChallengeBudget, Typed
<1>4. CASE executeRecovery
  BY <1>4 DEF executeRecovery, NoRequest, ChallengeBudget
<1>5. CASE UNCHANGED <<recovery, requests, challenges>>
  BY <1>5 DEF ChallengeBudget
<1> QED  BY <1>1, <1>2, <1>3, <1>4, <1>5, RecoveryWriters

LEMMA CommitmentExhibitedStep ==
    Typed /\ ActiveNamesVerifier /\ CommitmentExhibited /\ [Next]_vars => CommitmentExhibited'
<1> SUFFICES ASSUME Typed, ActiveNamesVerifier, CommitmentExhibited, [Next]_vars
             PROVE  CommitmentExhibited'
  OBVIOUS
<1>1. ASSUME NEW signer, NEW key, NEW verifier \in Admissible,
             Possesses(signer, key, verifier), InstallCredential(signer, key, verifier)
      PROVE  CommitmentExhibited'
  BY <1>1 DEF Possesses, InstallCredential, CommitmentExhibited, Typed
<1>2. CASE rotateCredential
  <2>1. PICK signer \in Signers, key \in Commitments :
          Possesses(signer, key, pqVerifier) /\ InstallCredential(signer, key, pqVerifier)
    BY <1>2 DEF rotateCredential
  <2> QED  BY <2>1, <1>1 DEF CommitmentExhibited
<1>3. CASE setVerifier
  BY <1>3 DEF setVerifier, CommitmentExhibited, Typed
<1>4. CASE executeRecovery
  BY <1>4, <1>1 DEF executeRecovery, ActiveNamesVerifier
<1>5. CASE UNCHANGED <<ecdsaSigner, pqPublicKeyHash, pqVerifier, requirePq, credentialGeneration>>
  BY <1>5 DEF CommitmentExhibited
<1> QED  BY <1>2, <1>3, <1>4, <1>5, CredentialWriters

LEMMA CancellationsCurrentStep ==
    Typed /\ CancellationsCurrent /\ [Next]_vars => CancellationsCurrent'
<1> SUFFICES ASSUME Typed, CancellationsCurrent, [Next]_vars,
                    NEW c \in cancellations'
             PROVE  \/ c.nonce < nonces'.guardian
                    \/ c.nonce = nonces'.guardian /\ c.request = requests'
  BY DEF CancellationsCurrent
<1>1. nonces.guardian \in Nat
  BY DEF Typed, Domain
<1>2. CASE signCancellation
  <2>1. UNCHANGED <<nonces, requests>>
    BY <1>2 DEF signCancellation
  <2>2. \/ c \in cancellations
        \/ c.nonce = nonces.guardian /\ c.request = requests
    BY <1>2 DEF signCancellation
  <2> QED  BY <2>1, <2>2 DEF CancellationsCurrent
<1>3. CASE /\ UNCHANGED cancellations
           /\ \/ nonces'.guardian = nonces.guardian + 1
              \/ UNCHANGED requests /\ nonces'.guardian = nonces.guardian
  <2>1. c \in cancellations /\ c.nonce \in Nat
    BY <1>3 DEF Typed, Cancellation
  <2>2. c.nonce < nonces.guardian \/ (c.nonce = nonces.guardian /\ c.request = requests)
    BY <2>1 DEF CancellationsCurrent
  <2> QED  BY <1>1, <1>3, <2>1, <2>2
<1> QED  BY <1>2, <1>3, CancellationWriters

LEMMA BoundIsOverStep ==
    Typed /\ Typed' /\ BoundIsOver /\ [Next]_vars => BoundIsOver'
<1> SUFFICES ASSUME Typed, Typed', BoundIsOver, [Next]_vars PROVE BoundIsOver'
  OBVIOUS
<1>1. now' \in Nat /\ now \in Nat /\ now' >= now
  BY TimePasses DEF Typed
<1>2. /\ recovery.expiresAt \in Nat /\ migration.boundAt \in Nat
      /\ migration.bound \in BOOLEAN /\ recovery.active \in BOOLEAN
  BY DEF Typed, Request
\* An old request does not come back to life by itself, nor a bound vault to recovery.
<1>3. ASSUME ~Live, UNCHANGED recovery PROVE ~Live'
  BY <1>1, <1>2, <1>3 DEF Live
<1>4. migration.bound => UNCHANGED recovery
  <2> SUFFICES ASSUME migration.bound PROVE UNCHANGED recovery
    OBVIOUS
  <2>1. ~RecoveryOpen
    BY DEF BoundIsOver, RecoveryOpen, EffectiveState
  <2> QED
    BY <2>1, RecoveryWriters DEF initiateRecovery, cancelRecoveryByQuorum, cancelRecovery,
       executeRecovery
<1>5. CASE enterContainment
  <2>1. safeState' = "CONTAINED" /\ migration' = migration
    BY <1>5 DEF enterContainment, Contain, GuardianAct
  <2>2. ~migration.bound
    BY <1>5 DEF enterContainment, Contain, MayContain, EffectiveState, BoundIsOver
  <2> QED  BY <2>1, <2>2 DEF BoundIsOver
<1>6. CASE bindMigration
  <2>1. safeState' = "MIGRATION_ONLY" /\ UNCHANGED recovery /\ ~Live
    BY <1>6 DEF bindMigration, LeaveFor
  <2> QED  BY <2>1, <1>3 DEF BoundIsOver
<1>7. CASE retire
  <2>1. /\ safeState' = "RETIRED" /\ migration' = migration /\ now' = now
        /\ migration.bound /\ now >= migration.boundAt + BIND_DELAY
    BY <1>7 DEF retire, LeaveFor
  <2> QED  BY <2>1, <1>3, <1>4 DEF BoundIsOver
<1>8. CASE UNCHANGED <<safeState, migration>>
  <2>1. migration'.bound => safeState' \in {"MIGRATION_ONLY", "RETIRED"} /\ ~Live'
    BY <1>8, <1>3, <1>4 DEF BoundIsOver
  <2>2. safeState' = "RETIRED" => now' >= migration'.boundAt + BIND_DELAY
    BY <1>8, <1>1, <1>2 DEF BoundIsOver
  <2> QED  BY <2>1, <2>2 DEF BoundIsOver
<1> QED  BY <1>5, <1>6, <1>7, <1>8, AuthorityWriters
LEMMA NoncesTyped ==
    /\ \A s \in Seq(Message) : \A i \in 1..Len(s) : s[i].nonce \in Nat
    /\ \A s \in Seq([message : Message, amount : Nat]) :
         \A i \in 1..Len(s) : s[i].message.nonce \in Nat
<1>1. ASSUME NEW s \in Seq(Message), NEW i \in 1..Len(s) PROVE s[i].nonce \in Nat
  <2>1. s[i] \in Message
    OBVIOUS
  <2> QED  BY <2>1 DEF Message
<1>2. ASSUME NEW s \in Seq([message : Message, amount : Nat]), NEW i \in 1..Len(s)
      PROVE  s[i].message.nonce \in Nat
  <2> DEFINE Frame == [message : Message, amount : Nat]
  <2>1. s[i] \in Frame
    <3>1. s \in Seq(Frame)
      OBVIOUS
    <3> HIDE DEF Frame
    <3> QED  BY <3>1
  <2>2. s[i].message \in Message
    BY <2>1
  <2> QED  BY <2>2 DEF Message
<1> QED  BY <1>1, <1>2

\* A payment adds a spend that was open, or the one just made, to those paid out.
LEMMA PayNonces ==
    ASSUME Typed, NEW message \in Message, NEW amount,
           NEW rest \in Seq([message : Message, amount : Nat]),
           Pay(message, amount, rest),
           nonces'.spend \in Nat, nonces.spend <= nonces'.spend,
           message.nonce < nonces'.spend,
           \A i \in 1..Len(paid) : paid[i].nonce < nonces.spend,
           \A i \in 1..Len(rest) : rest[i].message.nonce < nonces.spend,
           \A i, j \in 1..Len(paid) : paid[i].nonce = paid[j].nonce => i = j,
           \A i, j \in 1..Len(rest) : rest[i].message.nonce = rest[j].message.nonce => i = j,
           \A i \in 1..Len(rest), j \in 1..Len(paid) : rest[i].message.nonce # paid[j].nonce,
           \A i \in 1..Len(paid) : paid[i].nonce # message.nonce,
           \A i \in 1..Len(rest) : rest[i].message.nonce # message.nonce
    PROVE  NoncesApart'
<1>1. /\ paid' = Append(paid, message) /\ frames' = rest
      /\ paid \in Seq(Message) /\ nonces.spend \in Nat
  BY DEF Pay, Typed, Domain
<1>2. /\ Len(paid') = Len(paid) + 1 /\ Len(paid) \in Nat
      /\ \A i \in 1..Len(paid) : paid'[i] = paid[i]
      /\ paid'[Len(paid) + 1] = message
  BY <1>1, AppendProperties
<1>3. \A i \in 1..Len(paid) : paid[i].nonce \in Nat
  BY <1>1, NoncesTyped
<1>4. \A i \in 1..Len(rest) : rest[i].message.nonce \in Nat
  BY NoncesTyped
<1>5. \A i \in 1..Len(paid') : i \in 1..Len(paid) \/ i = Len(paid) + 1
  BY <1>2
<1>6. \A i \in 1..Len(paid') : paid'[i].nonce < nonces'.spend
  BY <1>1, <1>2, <1>3, <1>5
<1>7. \A i \in 1..Len(frames') : frames'[i].message.nonce < nonces'.spend
  BY <1>1, <1>4
<1>8. \A i, j \in 1..Len(paid') : paid'[i].nonce = paid'[j].nonce => i = j
  BY <1>2, <1>5
<1>9. \A i \in 1..Len(frames'), j \in 1..Len(paid') :
        frames'[i].message.nonce # paid'[j].nonce
  BY <1>1, <1>2, <1>5
<1> QED  BY <1>1, <1>6, <1>7, <1>8, <1>9 DEF NoncesApart

\* An opened spend is put in front of those it is nested in.
LEMMA OpenNonces ==
    ASSUME Typed, NoncesApart, NEW frame \in [message : Message, amount : Nat],
           frames' = <<frame>> \o frames, UNCHANGED paid,
           frame.message.nonce = nonces.spend, nonces'.spend = nonces.spend + 1
    PROVE  NoncesApart'
<1> DEFINE Frame == [message : Message, amount : Nat]
<1>1. frames \in Seq(Frame) /\ <<frame>> \in Seq(Frame) /\ nonces.spend \in Nat
  BY DEF Typed, Domain
<1>2. /\ Len(frames') = Len(frames) + 1 /\ Len(frames) \in Nat
      /\ \A i \in 1..(Len(frames) + 1) : frames'[i] = IF i <= 1 THEN frame ELSE frames[i - 1]
  <2> HIDE DEF Frame
  <2>1. /\ Len(<<frame>> \o frames) = Len(<<frame>>) + Len(frames)
        /\ \A i \in 1..(Len(<<frame>>) + Len(frames)) :
             (<<frame>> \o frames)[i] = IF i <= Len(<<frame>>) THEN <<frame>>[i]
                                        ELSE frames[i - Len(<<frame>>)]
    BY <1>1, ConcatProperties
  <2>2. Len(<<frame>>) = 1 /\ <<frame>>[1] = frame /\ Len(frames) \in Nat
    BY <1>1
  <2> QED  BY <2>1, <2>2
<1>3. \A i \in 1..Len(frames') :
        \/ i = 1 /\ frames'[i] = frame
        \/ i - 1 \in 1..Len(frames) /\ frames'[i] = frames[i - 1]
  BY <1>2
<1>4. \A i \in 1..Len(frames) : frames[i].message.nonce \in Nat
  BY <1>1, NoncesTyped
<1>5. \A i \in 1..Len(paid) : paid[i].nonce \in Nat
  BY NoncesTyped DEF Typed
<1>6. \A i \in 1..Len(paid') : paid'[i].nonce < nonces'.spend
  BY <1>1, <1>5 DEF NoncesApart
<1>7. \A i \in 1..Len(frames') : frames'[i].message.nonce < nonces'.spend
  <2> TAKE i \in 1..Len(frames')
  <2>1. CASE i = 1 /\ frames'[i] = frame
    BY <1>1, <2>1
  <2>2. CASE i - 1 \in 1..Len(frames) /\ frames'[i] = frames[i - 1]
    <3>1. PICK k \in 1..Len(frames) : k = i - 1
      BY <2>2
    <3>2. frames[k].message.nonce < nonces.spend /\ frames[k].message.nonce \in Nat
      BY <1>4 DEF NoncesApart
    <3> QED  BY <1>1, <2>2, <3>1, <3>2
  <2> QED  BY <1>3, <2>1, <2>2
\* Behind the first, the nonces are those of the frames before.
<1>8. \A i, j \in 1..Len(frames') :
        frames'[i].message.nonce = frames'[j].message.nonce => i = j
  <2> SUFFICES ASSUME NEW i \in 1..Len(frames'), NEW j \in 1..Len(frames'),
                      frames'[i].message.nonce = frames'[j].message.nonce
               PROVE  i = j
    OBVIOUS
  <2>1. ASSUME NEW k \in 1..Len(frames) PROVE frames[k].message.nonce # nonces.spend
    BY <1>1, <1>4 DEF NoncesApart
  <2>2. CASE i = 1 /\ frames'[i] = frame
    BY <1>3, <2>1, <2>2
  <2>3. CASE j = 1 /\ frames'[j] = frame
    BY <1>3, <2>1, <2>3
  <2>4. CASE /\ i - 1 \in 1..Len(frames) /\ frames'[i] = frames[i - 1]
             /\ j - 1 \in 1..Len(frames) /\ frames'[j] = frames[j - 1]
    <3>1. PICK k \in 1..Len(frames), l \in 1..Len(frames) : k = i - 1 /\ l = j - 1
      BY <2>4
    <3>2. k = l
      BY <2>4, <3>1 DEF NoncesApart
    <3> QED  BY <3>1, <3>2
  <2> QED  BY <1>3, <2>2, <2>3, <2>4
<1>9. \A i \in 1..Len(frames'), j \in 1..Len(paid') :
        frames'[i].message.nonce # paid'[j].nonce
  <2> TAKE i \in 1..Len(frames'), j \in 1..Len(paid')
  <2>1. j \in 1..Len(paid) /\ paid'[j] = paid[j] /\ paid[j].nonce < nonces.spend
    BY DEF NoncesApart
  <2>2. CASE i = 1 /\ frames'[i] = frame
    BY <1>1, <1>5, <2>1, <2>2
  <2>3. CASE i - 1 \in 1..Len(frames) /\ frames'[i] = frames[i - 1]
    BY <2>1, <2>3 DEF NoncesApart
  <2> QED  BY <1>3, <2>2, <2>3
<1> QED  BY <1>6, <1>7, <1>8, <1>9 DEF NoncesApart

LEMMA NoncesApartStep ==
    Typed /\ NoncesApart /\ [Next]_vars => NoncesApart'
<1> SUFFICES ASSUME Typed, NoncesApart, [Next]_vars PROVE NoncesApart'
  OBVIOUS
<1>1. /\ frames \in Seq([message : Message, amount : Nat]) /\ paid \in Seq(Message)
      /\ nonces.spend \in Nat
  BY DEF Typed, Domain
<1>2. CASE execute
  <2> DEFINE message == [generation |-> credentialGeneration, nonce |-> nonces.spend]
  <2>1. PICK amount \in Amounts :
          IF policyEngine = NoEngine
          THEN Pay(message, amount, frames)
          ELSE /\ frames' = <<[message |-> message, amount |-> amount]>> \o frames
               /\ UNCHANGED <<balance, records>>
    BY <1>2 DEF execute
  <2>2. nonces'.spend = nonces.spend + 1
    BY <1>2 DEF execute, ConsumeSpend, Consume, Typed, Domain
  <2>3. message \in Message /\ message.nonce = nonces.spend
    BY <1>1 DEF Message, Typed
  <2>4. CASE policyEngine = NoEngine
    <3>1. Pay(message, amount, frames)
      BY <2>1, <2>4
    <3>2. \A i \in 1..Len(paid) : paid[i].nonce # message.nonce
      BY <1>1, <2>3 DEF NoncesApart, Message
    <3>3. \A i \in 1..Len(frames) : frames[i].message.nonce # message.nonce
      BY <1>1, <2>3 DEF NoncesApart, Message
    <3>4. /\ nonces'.spend \in Nat /\ nonces.spend <= nonces'.spend
          /\ message.nonce < nonces'.spend
      BY <1>1, <2>2, <2>3
    <3>5. /\ \A i \in 1..Len(paid) : paid[i].nonce < nonces.spend
          /\ \A i \in 1..Len(frames) : frames[i].message.nonce < nonces.spend
          /\ \A i, j \in 1..Len(paid) : paid[i].nonce = paid[j].nonce => i = j
          /\ \A i, j \in 1..Len(frames) :
               frames[i].message.nonce = frames[j].message.nonce => i = j
          /\ \A i \in 1..Len(frames), j \in 1..Len(paid) :
               frames[i].message.nonce # paid[j].nonce
      BY DEF NoncesApart
    <3> HIDE DEF message
    <3> QED  BY <1>1, <2>3, <3>1, <3>2, <3>3, <3>4, <3>5, PayNonces
  <2>5. CASE policyEngine # NoEngine
    <3> DEFINE frame == [message |-> message, amount |-> amount]
    <3>1. frame \in [message : Message, amount : Nat] /\ frame.message.nonce = nonces.spend
      BY <2>3
    <3>2. frames' = <<frame>> \o frames /\ UNCHANGED paid
      BY <2>1, <2>5 DEF records
    <3> HIDE DEF frame, message
    <3> QED  BY <2>2, <3>1, <3>2, OpenNonces
  <2> QED  BY <2>4, <2>5
<1>3. CASE admitReturns
  <2> DEFINE message == Head(frames).message
             rest == Tail(frames)
             Frame == [message : Message, amount : Nat]
  <2>1. /\ frames # <<>> /\ Pay(message, Head(frames).amount, rest)
        /\ nonces'.spend = nonces.spend
    BY <1>3 DEF admitReturns
  <2>2. message \in Message /\ rest \in Seq(Frame)
    BY <2>1, HeadFrame
  <2>3. /\ Len(rest) = Len(frames) - 1 /\ Len(frames) \in Nat
        /\ \A i \in 1..Len(rest) : rest[i] = frames[i + 1]
    <3>1. frames \in Seq(Frame)
      BY <1>1
    <3> HIDE DEF Frame
    <3> QED  BY <2>1, <3>1, HeadTailProperties
  <2>4. Head(frames) = frames[1] /\ 1 \in 1..Len(frames)
    BY <1>1, <2>1
  <2>5. \A i \in 1..Len(rest) : i + 1 \in 1..Len(frames) /\ i + 1 # 1
    BY <2>3
  <2>6. /\ message.nonce < nonces.spend
        /\ \A i \in 1..Len(rest) : rest[i].message.nonce < nonces.spend
        /\ \A i, j \in 1..Len(rest) : rest[i].message.nonce = rest[j].message.nonce => i = j
        /\ \A i \in 1..Len(rest), j \in 1..Len(paid) : rest[i].message.nonce # paid[j].nonce
        /\ \A i \in 1..Len(paid) : paid[i].nonce # message.nonce
        /\ \A i \in 1..Len(rest) : rest[i].message.nonce # message.nonce
    BY <2>3, <2>4, <2>5 DEF NoncesApart
  <2>7. /\ nonces'.spend \in Nat /\ nonces.spend <= nonces'.spend
        /\ message.nonce < nonces'.spend
    BY <1>1, <2>1, <2>6
  <2>8. /\ \A i \in 1..Len(paid) : paid[i].nonce < nonces.spend
        /\ \A i, j \in 1..Len(paid) : paid[i].nonce = paid[j].nonce => i = j
    BY DEF NoncesApart
  <2> HIDE DEF message, rest
  <2> QED  BY <2>1, <2>2, <2>6, <2>7, <2>8, PayNonces
<1>4. CASE UNCHANGED <<frames, paid>> /\ nonces'.spend = nonces.spend
  BY <1>4 DEF NoncesApart
<1> QED  BY <1>2, <1>3, <1>4, PaymentWriters

LEMMA IInvInit == Init => IInv
<1> SUFFICES ASSUME Init PROVE IInv
  OBVIOUS
<1>1. Typed
  BY TypedInit
<1>2. ActiveNamesVerifier /\ ChallengeBudget
  BY DEF Init, NoRequest, ActiveNamesVerifier, ChallengeBudget
<1>3. CommitmentExhibited
  BY DEF Init, CommitmentExhibited
<1>4. CancellationsCurrent
  BY DEF Init, CancellationsCurrent
<1>5. BoundIsOver
  BY DEF Init, ContainmentInit, BoundIsOver
<1>6. NoncesApart
  BY DEF Init, NoncesApart
<1> QED  BY <1>1, <1>2, <1>3, <1>4, <1>5, <1>6 DEF IInv

LEMMA IInvStep == IInv /\ [Next]_vars => IInv'
  BY TypedStep, ActiveNamesVerifierStep, ChallengeBudgetStep, CommitmentExhibitedStep,
     CancellationsCurrentStep, BoundIsOverStep, NoncesApartStep DEF IInv

LEMMA Inductive == Spec => []IInv
  BY IInvInit, IInvStep, PTL DEF Spec
-----------------------------------------------------------------------------
(* The properties *)

\* ChallengeBudget: however requests come and go, the credential challenges at
\* most CHALLENGE_LIMIT of them between two recoveries.
THEOREM ChallengesBounded == Spec => []ChallengeBudget
  BY Inductive, PTL DEF IInv

\* CommitmentExhibited: initialize, rotateCredential, setVerifier and
\* executeRecovery install no credential that nobody has.
THEOREM CredentialsExhibited == Spec => []CommitmentExhibited
  BY Inductive, PTL DEF IInv

\* EachSpendOnce: a plane that calls execute again, to any depth, gets no
\* message paid twice.
THEOREM SpendsPayOnce == Spec => []EachSpendOnce
<1>1. IInv => EachSpendOnce
  BY DEF IInv, NoncesApart, EachSpendOnce
<1> QED  BY <1>1, Inductive, PTL

LEMMA RequestKeptStep == IInv /\ [Next]_vars => RequestKept
<1> SUFFICES ASSUME IInv, [Next]_vars, Live PROVE RequestKept
  BY DEF RequestKept
<1>1. ~initiateRecovery
  BY DEF initiateRecovery
<1>2. CASE cancelRecoveryByQuorum
  <2>1. PICK request \in 1..requests : CancellationFor(request) \in cancellations
    BY <1>2 DEF cancelRecoveryByQuorum
  <2>2. /\ CancellationFor(request).nonce = nonces.guardian
        /\ CancellationFor(request).request = request
    BY DEF CancellationFor
  <2>3. nonces.guardian \in Nat
    BY DEF IInv, Typed, Domain
  <2>4. request = requests
    BY <2>1, <2>2, <2>3 DEF IInv, CancellationsCurrent
  <2>5. recovery'.active = FALSE
    BY <1>2 DEF cancelRecoveryByQuorum, IInv, Typed, Request
  <2> QED  BY <2>1, <2>4, <2>5 DEF RequestKept
<1>3. CASE cancelRecovery
  <2>1. recovery'.active = FALSE /\ challenges' = challenges + 1
    BY <1>3 DEF cancelRecovery, IInv, Typed, Request
  <2> QED  BY <2>1 DEF RequestKept
<1>4. CASE executeRecovery
  BY <1>4 DEF executeRecovery, InstallCredential, InstalledAsProposed, RequestKept
<1>5. CASE UNCHANGED <<recovery, requests, challenges>>
  BY <1>5 DEF RequestKept
<1> QED  BY <1>1, <1>2, <1>3, <1>4, <1>5, RecoveryWriters

\* RequestUndisturbed: a live request is only ended by the four ways the code
\* has for it, a quorum's cancellation meant for another request is not one of
\* them, and a migration never freezes it.
THEOREM RequestsStand == Spec => RequestUndisturbed
<1>1. IInv /\ [Next]_vars => [RequestKept]_vars
  BY RequestKeptStep
<1>2. IInv => (migration.bound => ~Live)
  BY DEF IInv, BoundIsOver
<1> QED  BY <1>1, <1>2, Inductive, PTL DEF Spec, RequestUndisturbed, RequestStands

\* What a payment leaves of the open calls and the money.
LEMMA PaymentShrinks ==
    ASSUME Typed, admitReturns PROVE Len(frames') < Len(frames)
<1> DEFINE Frame == [message : Message, amount : Nat]
<1>1. frames \in Seq(Frame) /\ frames # <<>> /\ frames' = Tail(frames)
  BY DEF Typed, admitReturns, Pay
<1>2. Len(Tail(frames)) = Len(frames) - 1 /\ Len(frames) \in Nat
  <2> HIDE DEF Frame
  <2> QED  BY <1>1, HeadTailProperties
<1> QED  BY <1>1, <1>2

LEMMA ContainedKeptStep == IInv /\ [Next]_vars => ContainedKept
<1> SUFFICES ASSUME IInv, [Next]_vars, EffectiveState = "CONTAINED" PROVE ContainedKept
  BY DEF ContainedKept
<1>1. Len(frames) \in Nat /\ balance \in Nat
  BY DEF IInv, Typed
<1>2. ~IsNormal /\ ~MayContain
  BY DEF IsNormal, MayContain
<1>3. CASE admitReturns
  <2>1. Len(frames') < Len(frames) /\ Len(frames') <= Len(frames)
    <3>1. Len(frames') < Len(frames)
      BY <1>3, PaymentShrinks DEF IInv
    <3>2. Len(frames') \in Nat
      BY TypedStep DEF IInv, Typed
    <3> QED  BY <1>1, <3>1, <3>2
  <2> QED  BY <1>3, <2>1 DEF admitReturns, credentials, ContainedKept
<1>4. CASE initiateRecovery \/ cancelRecoveryByQuorum
  BY <1>1, <1>4 DEF initiateRecovery, cancelRecoveryByQuorum, GuardianAct,
     credentials, ContainedKept
<1>5. CASE signCancellation \/ cancelRecovery
  BY <1>1, <1>5 DEF signCancellation, cancelRecovery, credentials, ContainedKept
<1>6. CASE executeRecovery
  <2>1. Live /\ now >= recovery.executableAt /\ InstalledAsProposed
    BY <1>6 DEF executeRecovery, InstallCredential, InstalledAsProposed, Live, IInv, Typed, Request
  <2>2. UNCHANGED <<policyEngine, guardianGeneration, requirePq, frames, balance>>
    BY <1>6 DEF executeRecovery, InstallCredential
  <2> QED  BY <1>1, <2>1, <2>2 DEF ContainedKept
<1>7. CASE bindMigration \/ retire
  BY <1>1, <1>7 DEF bindMigration, retire, credentials, ContainedKept
<1>8. CASE egress
  BY <1>1, <1>8 DEF egress, credentials, ContainedKept
<1>9. CASE receive
  <2>1. balance' >= balance
    BY <1>1, <1>9 DEF receive
  <2> QED  BY <1>1, <1>9, <2>1 DEF receive, credentials, ContainedKept
<1>10. CASE Tick
  BY <1>1, <1>10 DEF Tick, credentials, ContainedKept
<1>11. CASE UNCHANGED vars
  BY <1>1, <1>11 DEF vars, credentials, ContainedKept
<1> QED
  BY <1>2, <1>3, <1>4, <1>5, <1>6, <1>7, <1>8, <1>9, <1>10, <1>11
  DEF Next, execute, rotateCredential, setVerifier, setPolicy, OwnerAct, setGuardians,
      enterContainment, Contain

\* ContainmentHolds: whoever submits whatever was signed before, a contained
\* vault starts no payment and changes hands by a mature request only.
THEOREM ContainmentContains == Spec => ContainmentHolds
<1>1. IInv /\ [Next]_vars => [ContainedKept]_vars
  BY ContainedKeptStep
<1> QED  BY <1>1, Inductive, PTL DEF Spec, ContainmentHolds

LEMMA BoundKeptStep == IInv /\ [Next]_vars => BoundKept
<1> SUFFICES ASSUME IInv, [Next]_vars, migration.bound PROVE BoundKept
  BY DEF BoundKept
<1>1. /\ Len(frames) \in Nat /\ balance \in Nat
      /\ safeState = "RETIRED" => now >= migration.boundAt + BIND_DELAY
  BY DEF IInv, Typed, BoundIsOver
<1>2. ~IsNormal /\ ~MayContain /\ ~RecoveryOpen /\ ~Live
  BY DEF IInv, BoundIsOver, IsNormal, MayContain, RecoveryOpen, EffectiveState
<1>3. CASE admitReturns
  <2>1. Len(frames') < Len(frames) /\ Len(frames') <= Len(frames)
    <3>1. Len(frames') < Len(frames)
      BY <1>3, PaymentShrinks DEF IInv
    <3>2. Len(frames') \in Nat
      BY TypedStep DEF IInv, Typed
    <3> QED  BY <1>1, <3>1, <3>2
  <2> QED  BY <1>1, <1>3, <2>1 DEF admitReturns, containment, BoundKept
<1>4. CASE retire
  BY <1>1, <1>4 DEF retire, LeaveFor, BoundKept
<1>5. CASE egress
  BY <1>1, <1>5 DEF egress, containment, BoundKept
<1>6. CASE receive
  <2>1. ~(balance' < balance)
    BY <1>1, <1>6 DEF receive
  <2> QED  BY <1>1, <1>6, <2>1 DEF receive, containment, BoundKept
<1>7. CASE Tick
  BY <1>1, <1>7 DEF Tick, containment, BoundKept
<1>8. CASE UNCHANGED vars
  BY <1>1, <1>8 DEF vars, containment, BoundKept
<1> QED
  BY <1>2, <1>3, <1>4, <1>5, <1>6, <1>7, <1>8
  DEF Next, execute, rotateCredential, setVerifier, setPolicy, OwnerAct, setGuardians,
      enterContainment, Contain, initiateRecovery, signCancellation, cancelRecoveryByQuorum,
      cancelRecovery, executeRecovery, bindMigration

\* AuthorityEnds: nothing signed before a migration was bound has an effect
\* after it, but for payments that were open.
THEOREM BoundVaultMovesOn == Spec => AuthorityEnds
<1>1. IInv /\ [Next]_vars => [BoundKept]_vars
  BY BoundKeptStep
<1> QED  BY <1>1, Inductive, PTL DEF Spec, AuthorityEnds
=============================================================================
