---------------------------- MODULE VaultKernel ----------------------------
(***************************************************************************)
(* VaultKernelPrototype.sol: one vault of the vNext kernel, from genesis   *)
(* to retirement.                                                          *)
(*                                                                         *)
(* Signatures are abstracted to who can make them: whoever holds a key     *)
(* signs anything with it, now or earlier, and anybody submits it, so a    *)
(* call needs the current keys and the nonce of its domain and nothing     *)
(* else.  The exception is a cancellation by the guardians, where it       *)
(* matters for which request they signed.  Deadlines only refuse more.     *)
(* A quorum stands for the roster: its members change with the generation. *)
(*                                                                         *)
(* execute calls the policy plane and there is no mutex: between the call  *)
(* and its return, within one transaction, every action may happen.  A     *)
(* plane that denies reverts to a state the model has anyway.  Everything  *)
(* is done when execute and egress call their recipients, so what those    *)
(* call in turn comes as a later action.                                   *)
(***************************************************************************)
EXTENDS KernelContainment, Sequences

CONSTANTS
    RECOVERY_DELAY, RECOVERY_EXPIRY, BIND_DELAY, CHALLENGE_LIMIT,
    Signers, PqKeys,                \* addresses; hashes of known PQ public keys
    Held,                           \* the keys of both kinds somebody can sign with
    NoKey, Orphan,                  \* no commitment; a hash of nothing known
    Verifiers, Admissible,          \* contracts; those of the verifier root
    Answering,                      \* admissible ones that are not dead
    Engines, NoEngine,              \* policy planes; address(0)
    Amounts, MaxBalance, MaxTime, MaxRequests, MaxOwnerActs, MaxGuardianActs, MaxSpends

Commitments == PqKeys \cup {NoKey, Orphan}

ASSUME KernelAssumption ==
    /\ RECOVERY_DELAY \in Nat /\ RECOVERY_EXPIRY \in Nat
    /\ BIND_DELAY \in Nat /\ BIND_DELAY >= RECOVERY_DELAY
    /\ CHALLENGE_LIMIT \in Nat
    /\ Held \subseteq Signers \cup PqKeys
    /\ {NoKey, Orphan} \cap PqKeys = {} /\ NoKey # Orphan
    /\ Answering \subseteq Admissible /\ Admissible \subseteq Verifiers
    /\ NoEngine \notin Engines
    /\ Amounts \subseteq Nat /\ MaxBalance \in Nat /\ MaxTime \in Nat

VARIABLES
    ecdsaSigner, pqPublicKeyHash, pqVerifier, requirePq, credentialGeneration,
    policyEngine,
    guardianGeneration,
    nonces,                         \* by domain
    recovery, migration,
    balance,
    frames,                         \* open calls of execute, the innermost first
    requests,                       \* history: recoveries initiated
    challenges,                     \* history: by the credential since a recovery
    cancellations,                  \* what a quorum signed to cancel a request
    paid                            \* history: the spends paid out, in order

credentials == <<ecdsaSigner, pqPublicKeyHash, pqVerifier, requirePq, credentialGeneration>>
records == <<requests, challenges, cancellations, paid>>
vars == <<now, containment, credentials, policyEngine, guardianGeneration, nonces,
          recovery, migration, balance, frames, records>>

NoRequest ==
    [proposedSigner |-> NoKey, proposedPqKeyHash |-> NoKey, proposedVerifier |-> NoKey,
     executableAt |-> 0, expiresAt |-> 0, challengesUsed |-> 0, active |-> FALSE]

\* initialize: the signer is taken on trust, the commitment is exhibited.
Init ==
    /\ now = GenesisTime
    /\ ContainmentInit
    /\ ecdsaSigner \in Signers \cap Held
    /\ requirePq \in BOOLEAN
    /\ pqPublicKeyHash \in PqKeys \cup {NoKey}
    /\ requirePq => pqPublicKeyHash # NoKey
    /\ pqVerifier \in Admissible
    /\ credentialGeneration = 1 /\ guardianGeneration = 1
    /\ policyEngine = NoEngine
    /\ nonces = [spend |-> 0, credential |-> 0, guardian |-> 0, migration |-> 0]
    /\ recovery = NoRequest
    /\ migration = [bound |-> FALSE, boundAt |-> 0]
    /\ balance = MaxBalance
    /\ frames = <<>>
    /\ requests = 0 /\ challenges = 0 /\ cancellations = {} /\ paid = <<>>

-----------------------------------------------------------------------------
(* Who may act *)

\* Slip: the guardians' calls share one signature.
ConsumeAllButGuardian(domain) ==
    nonces' = IF domain = "guardian" THEN nonces ELSE [nonces EXCEPT ![domain] = @ + 1]

Consume(domain) == nonces' = [nonces EXCEPT ![domain] = @ + 1]

Verifies(verifier, key) ==
    \/ verifier \in Verifiers \ Admissible
    \/ verifier \in Answering /\ key \in Held

FloorAuthorises == ecdsaSigner \in Held

Authorised ==
    /\ FloorAuthorises
    /\ requirePq => pqPublicKeyHash \in PqKeys /\ Verifies(pqVerifier, pqPublicKeyHash)

\* The incoming keys are possessed; a dormant commitment is only exhibited.
Possesses(signer, key, verifier) ==
    /\ signer \in Held
    /\ requirePq => key \in PqKeys /\ Verifies(verifier, key)
    /\ ~requirePq /\ key # NoKey => key \in PqKeys

\* _recoveryIsLive: an expired request leaves its flag standing.
Live == recovery.active /\ now < recovery.expiresAt

InstallCredential(signer, key, verifier) ==
    /\ ecdsaSigner' = signer
    /\ pqPublicKeyHash' = key
    /\ pqVerifier' = verifier
    /\ credentialGeneration' = credentialGeneration + 1
    /\ UNCHANGED requirePq

-----------------------------------------------------------------------------
(* The credential *)

ConsumeSpend == Consume("spend")

Pay(message, amount, rest) ==
    /\ amount <= balance
    /\ balance' = balance - amount
    /\ frames' = rest
    /\ paid' = Append(paid, message)
    /\ UNCHANGED <<requests, challenges, cancellations>>

execute ==
    /\ IsNormal /\ Authorised
    /\ nonces.spend < MaxSpends
    /\ ConsumeSpend
    /\ \E amount \in Amounts :
         LET message == [generation |-> credentialGeneration, nonce |-> nonces.spend]
         IN  IF policyEngine = NoEngine
             THEN Pay(message, amount, frames)
             ELSE /\ frames' = <<[message |-> message, amount |-> amount]>> \o frames
                  /\ UNCHANGED <<balance, records>>
    /\ UNCHANGED <<now, containment, credentials, policyEngine, guardianGeneration,
                   recovery, migration>>

\* The plane admits; what it asked before it called is not asked again.
admitReturns ==
    /\ frames # <<>>
    /\ Pay(Head(frames).message, Head(frames).amount, Tail(frames))
    /\ UNCHANGED <<now, containment, credentials, policyEngine, guardianGeneration, nonces,
                   recovery, migration>>

\* A call in the credential's own domain.
OwnerAct ==
    /\ IsNormal /\ Authorised
    /\ nonces.credential < MaxOwnerActs
    /\ Consume("credential")
    /\ UNCHANGED <<now, containment, guardianGeneration, recovery, migration, balance, frames, records>>

rotateCredential ==
    /\ OwnerAct
    /\ \E signer \in Signers, key \in Commitments :
         /\ Possesses(signer, key, pqVerifier)
         /\ InstallCredential(signer, key, pqVerifier)
    /\ UNCHANGED policyEngine

\* Arming requirePq asks for the key again; nothing disarms it.
setVerifier ==
    /\ OwnerAct
    /\ \E verifier \in Admissible, armed \in BOOLEAN :
         /\ requirePq => armed
         /\ ~requirePq /\ armed => pqPublicKeyHash \in PqKeys
         /\ pqVerifier' = verifier
         /\ requirePq' = armed
    /\ UNCHANGED <<ecdsaSigner, pqPublicKeyHash, credentialGeneration, policyEngine>>

setPolicy ==
    /\ OwnerAct
    /\ policyEngine' \in Engines \cup {NoEngine}
    /\ UNCHANGED credentials

-----------------------------------------------------------------------------
(* The guardians *)

\* A call in the guardians' domain, with a quorum of the roster in office.
GuardianAct ==
    /\ nonces.guardian < MaxGuardianActs
    /\ Consume("guardian")
    /\ UNCHANGED <<now, credentials, policyEngine, migration, balance, frames>>

setGuardians ==
    /\ IsNormal
    /\ GuardianAct
    /\ guardianGeneration' = guardianGeneration + 1
    /\ UNCHANGED <<containment, recovery, records>>

enterContainment ==
    /\ Contain
    /\ GuardianAct
    /\ UNCHANGED <<guardianGeneration, recovery, records>>

\* Slip: every request brings new challenges.
OpenedAfresh(signer, key, verifier) ==
    [proposedSigner |-> signer, proposedPqKeyHash |-> key, proposedVerifier |-> verifier,
     executableAt |-> now + RECOVERY_DELAY,
     expiresAt |-> now + RECOVERY_DELAY + RECOVERY_EXPIRY,
     challengesUsed |-> 0, active |-> TRUE]

Opened(signer, key, verifier) ==
    [proposedSigner |-> signer, proposedPqKeyHash |-> key, proposedVerifier |-> verifier,
     executableAt |-> now + RECOVERY_DELAY,
     expiresAt |-> now + RECOVERY_DELAY + RECOVERY_EXPIRY,
     challengesUsed |-> recovery.challengesUsed, active |-> TRUE]

initiateRecovery ==
    /\ RecoveryOpen /\ ~Live
    /\ requests < MaxRequests
    /\ GuardianAct
    /\ \E signer \in Signers, key \in Commitments, verifier \in Admissible :
         recovery' = Opened(signer, key, verifier)
    /\ requests' = requests + 1
    /\ UNCHANGED <<containment, guardianGeneration, challenges, cancellations, paid>>

\* Off-chain: a quorum signs to cancel the request it sees.
signCancellation ==
    /\ Live
    /\ cancellations' = cancellations \cup
         {[generation |-> guardianGeneration, nonce |-> nonces.guardian, request |-> requests]}
    /\ UNCHANGED <<now, containment, credentials, policyEngine, guardianGeneration, nonces,
                   recovery, migration, balance, frames, requests, challenges, paid>>

CancellationFor(request) ==
    [generation |-> guardianGeneration, nonce |-> nonces.guardian, request |-> request]

cancelRecoveryByQuorum ==
    /\ RecoveryOpen /\ Live
    /\ GuardianAct
    /\ \E request \in 1..requests : CancellationFor(request) \in cancellations
    /\ recovery' = [recovery EXCEPT !.active = FALSE]
    /\ UNCHANGED <<containment, guardianGeneration, records>>

\* The credential's challenge: the ECDSA key alone, a bounded number of times.
cancelRecovery ==
    /\ RecoveryOpen /\ Live
    /\ recovery.challengesUsed < CHALLENGE_LIMIT
    /\ FloorAuthorises
    /\ Consume("credential")
    /\ recovery' = [recovery EXCEPT !.active = FALSE, !.challengesUsed = @ + 1]
    /\ challenges' = challenges + 1
    /\ UNCHANGED <<now, containment, credentials, policyEngine, guardianGeneration, migration,
                   balance, frames, requests, cancellations, paid>>

\* Whoever has the proposed keys; the only place that clears the challenges.
executeRecovery ==
    /\ RecoveryOpen
    /\ recovery.active /\ recovery.executableAt <= now /\ now < recovery.expiresAt
    /\ Possesses(recovery.proposedSigner, recovery.proposedPqKeyHash, recovery.proposedVerifier)
    /\ InstallCredential(recovery.proposedSigner, recovery.proposedPqKeyHash,
                         recovery.proposedVerifier)
    /\ recovery' = NoRequest
    /\ challenges' = 0
    /\ UNCHANGED <<now, containment, policyEngine, guardianGeneration, nonces, migration,
                   balance, frames, requests, cancellations, paid>>

-----------------------------------------------------------------------------
(* The end *)

\* Credential and quorum together, except over a live request.
bindMigration ==
    /\ EffectiveState # "RETIRED"
    /\ ~migration.bound
    /\ ~Live
    /\ FloorAuthorises
    /\ Consume("migration")
    /\ migration' = [bound |-> TRUE, boundAt |-> now]
    /\ LeaveFor("MIGRATION_ONLY")
    /\ UNCHANGED <<now, credentials, policyEngine, guardianGeneration, recovery, balance,
                   frames, records>>

retire ==
    /\ migration.bound
    /\ now >= migration.boundAt + BIND_DELAY
    /\ LeaveFor("RETIRED")
    /\ UNCHANGED <<now, credentials, policyEngine, guardianGeneration, nonces, recovery,
                   migration, balance, frames, records>>

\* Everything to the destination, if that is still the code that was bound.
egress ==
    /\ migration.bound
    /\ balance' = 0
    /\ UNCHANGED <<now, containment, credentials, policyEngine, guardianGeneration, nonces,
                   recovery, migration, frames, records>>

receive ==
    /\ \E amount \in Amounts : balance' = balance + amount /\ balance' <= MaxBalance
    /\ UNCHANGED <<now, containment, credentials, policyEngine, guardianGeneration, nonces,
                   recovery, migration, frames, records>>

\* Not while a transaction is open.
Tick ==
    /\ frames = <<>>
    /\ now < MaxTime
    /\ now' = now + 1
    /\ UNCHANGED <<containment, credentials, policyEngine, guardianGeneration, nonces,
                   recovery, migration, balance, frames, records>>

Next ==
    \/ execute \/ admitReturns
    \/ rotateCredential \/ setVerifier \/ setPolicy
    \/ setGuardians \/ enterContainment
    \/ initiateRecovery \/ signCancellation \/ cancelRecoveryByQuorum
    \/ cancelRecovery \/ executeRecovery
    \/ bindMigration \/ retire \/ egress \/ receive
    \/ Tick

Spec == Init /\ [][Next]_vars

-----------------------------------------------------------------------------
(* Properties *)

\* I-RECOVERY-CHALLENGE-EPOCH (VaultKernelPrototype.sol:167-176): the credential
\* ends at most CHALLENGE_LIMIT requests between two recoveries, however requests
\* expire, are cancelled and are made again, and only those count that were live.
ChallengeBudget ==
    /\ challenges <= CHALLENGE_LIMIT
    /\ recovery.challengesUsed = challenges

InstalledAsProposed ==
    <<ecdsaSigner', pqPublicKeyHash', pqVerifier'>> =
        <<recovery.proposedSigner, recovery.proposedPqKeyHash, recovery.proposedVerifier>>

\* A live request stands as the guardians made it until it is executed,
\* challenged, cancelled by a quorum that meant this request, or expired;
\* a migration never freezes one (VaultKernelPrototype.sol:1484-1490 and :1695).
RequestKept ==
    Live => \/ recovery' = recovery /\ requests' = requests
            \/ InstalledAsProposed
            \/ challenges' = challenges + 1 /\ ~recovery'.active
            \/ CancellationFor(requests) \in cancellations /\ ~recovery'.active

RequestStands == [][RequestKept]_vars

RequestUndisturbed == RequestStands /\ [](migration.bound => ~Live)

\* I-COMMITMENT-EXHIBITED-AT-ADMISSION, I-DECLARATION-EXHIBITED: whatever installed
\* the credential, somebody holds its signer, its commitment is of a known key
\* whenever there is one, and the armed floor always has one to ask for.
CommitmentExhibited ==
    /\ ecdsaSigner \in Held
    /\ pqPublicKeyHash \in PqKeys \cup {NoKey}
    /\ requirePq => pqPublicKeyHash \in PqKeys
    /\ pqVerifier \in Admissible

\* A spend that the credential signed once is paid once, whatever the plane
\* calls back (VaultKernelPrototype.sol:961-969).
EachSpendOnce ==
    \A i, j \in 1..Len(paid) : paid[i] = paid[j] => i = j

\* While the vault is contained only a mature request changes who controls it,
\* to what the guardians proposed; nothing else of the owner moves, and no new
\* payment starts.
ContainedKept ==
    EffectiveState = "CONTAINED" =>
        /\ UNCHANGED <<policyEngine, guardianGeneration, requirePq>>
        /\ Len(frames') <= Len(frames)
        /\ balance' >= balance \/ Len(frames') < Len(frames) \/ migration.bound
        /\ \/ UNCHANGED credentials
           \/ Live /\ now >= recovery.executableAt /\ InstalledAsProposed

ContainmentHolds == [][ContainedKept]_vars

\* After a migration is bound nobody has authority again: the vault only moves on
\* to RETIRED, after BIND_DELAY, and what it holds leaves as a whole, but for
\* payments that were open when it was bound.
BoundKept ==
    migration.bound =>
        /\ UNCHANGED <<credentials, policyEngine, guardianGeneration, recovery, migration>>
        /\ safeState' \in {safeState, "RETIRED"}
        /\ safeState' = "RETIRED" => now >= migration.boundAt + BIND_DELAY
        /\ balance' < balance => balance' = 0 \/ Len(frames') < Len(frames)
        /\ Len(frames') <= Len(frames)

AuthorityEnds == [][BoundKept]_vars
=============================================================================
