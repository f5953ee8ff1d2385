-------------------------- MODULE WalletWallVault --------------------------
(***************************************************************************)
(* WalletWallVault.sol: one contract holding a vault per owner, with       *)
(* signed withdrawals, delayed large withdrawals, guardian recovery and    *)
(* guardian (treasury) approval of large withdrawals.                      *)
(*                                                                         *)
(* Signatures.  Every message any key could ever sign is assumed to be     *)
(* available to everybody at every moment, any number of times: delayed,   *)
(* reordered and duplicated submissions are all covered, and what keeps a  *)
(* message from acting twice is the code alone.  es and ps name the ECDSA  *)
(* address recovered from, and the PQ key that verifies, the signatures    *)
(* sent along.  An EIP-712 hash is injective, so the operation id of a     *)
(* withdrawal is the request itself.                                       *)
(*                                                                         *)
(* Calls.  A call to the contract is one step unless it hands control to   *)
(* another contract that may call back: policyEngine.check runs before the *)
(* effects of withdraw and queueWithdrawal, recipient.call after those of  *)
(* withdraw and finalizeWithdrawal.  frame records such an open call;      *)
(* while it is open, only functions without the nonReentrant modifier can  *)
(* run, and block time stands still.  (PQ verification and revalidate are  *)
(* view calls and cannot call back into a state change.)                   *)
(***************************************************************************)
EXTENDS VaultGovernance

CONSTANTS
    Owner,          \* addresses that may own a vault
    Account,        \* non-zero addresses that may be guardians (owners included)
    Recipient,      \* non-zero withdrawal recipients
    EcdsaKey,       \* non-zero ECDSA signer addresses
    PqKey,          \* non-empty PQ public keys
    ZeroAddress,    \* address(0) as an ECDSA signer
    EmptyKey,       \* a PQ public key of length 0
    Amount,         \* amounts sent in or asked for
    Deadline,       \* deadlines of signed messages
    CreatableMode,  \* modes createVault accepts under the installed verifier
    RECOVERY_DELAY,
    MAX_GUARDIANS,
    MaxNonce,       \* bound on a vault's nonce
    MaxCredit,      \* bound on the total a vault is ever credited
    NoVault, NoRecovery, NoPending,     \* mapping entries whose exists is false
    NoFrame, TransferFrame              \* see frame

Mode == {"EcdsaOnly", "PqOnly", "Hybrid"}

ASSUME VaultAssumption ==
    /\ Owner \subseteq Account
    /\ IsFiniteSet(Account)
    /\ ZeroAddress \notin EcdsaKey
    /\ EmptyKey \notin PqKey
    /\ Amount \subseteq Nat
    /\ Deadline \subseteq Nat
    /\ CreatableMode \subseteq Mode
    /\ RECOVERY_DELAY \in Nat
    /\ MAX_GUARDIANS \in Nat \ {0}
    /\ MaxNonce \in Nat
    /\ MaxCredit \in Nat

VARIABLES
    vaults,                 \* signer, key, nonce, balance, mode
    policyControlEpoch,
    vaultGuardians,         \* the guardian list, which has no duplicates, as a set
    recoveryRequests,
    recoverySupports,       \* the guardians whose flag is set
    pendingWithdrawals,
    treasuryQuorumThreshold,
    treasuryApprovalCount,
    treasuryApprovals,      \* per operation, the accounts whose flag is set
    frame,                  \* the open external call, if any
    credited, paidOut,      \* history: wei ever credited to / paid from a vault
    queuedUnder             \* history: epoch of the signatures of the pending one

accountVars == <<vaults, policyControlEpoch>>
guardianVars == <<vaultGuardians, treasuryQuorumThreshold>>
recoveryVars == <<recoveryRequests, recoverySupports>>
approvalVars == <<treasuryApprovalCount, treasuryApprovals>>
historyVars == <<credited, paidOut, queuedUnder>>
tenantVars == <<vaults, policyControlEpoch, vaultGuardians, recoveryRequests,
                recoverySupports, pendingWithdrawals, treasuryQuorumThreshold,
                treasuryApprovalCount, treasuryApprovals, frame,
                credited, paidOut, queuedUnder>>
operatorVars == <<now, paused, largeTxThreshold, largeTxDelay, pendingLargeTx,
                  policyEngine, pendingPolicyEngine, engineState>>
vars == <<tenantVars, operatorVars>>

-----------------------------------------------------------------------------
(* State. *)

Nonce == 0..MaxNonce
Signer == EcdsaKey \cup {ZeroAddress}
PublicKey == PqKey \cup {EmptyKey}

\* struct Withdrawal.  The field types of the request already exclude the zero
\* recipient; a zero amount is rejected by the guard.
Withdrawal == [vaultOwner : Owner, recipient : Recipient, amount : Amount,
               nonce : Nonce, deadline : Deadline, vaultMode : Mode]

\* The exists flag of the three structs below is TRUE in every record, and an
\* entry of the mapping that does not exist is NoVault, NoRecovery, NoPending.
VaultOwner == [ecdsaSigner : Signer, pqPublicKey : PublicKey, nonce : Nonce,
               balance : Nat, mode : Mode]

RecoveryRequest == [newEcdsaSigner : Signer, newPQPublicKey : PublicKey,
                    executeAfter : Nat, supportCount : Nat]

\* owner, recipient, amount and nonce of struct PendingWithdrawal are those of
\* the request the operation id stands for.
PendingWithdrawal ==
    [operationId : Withdrawal, queuedAt : Nat, readyAt : Nat,
     policyEngineAtQueue : Engine \cup {NoEngine}]

\* A call stopped in policyEngine.check: fn is the function that made it, and
\* epoch (history) the policyControlEpoch its signatures were checked under.
CheckFrame == [fn : {"withdraw", "queueWithdrawal"},
               request : {r \in Withdrawal : r.nonce < MaxNonce},
               engine : Engine, epoch : Nat]

ASSUME MarkerAssumption ==
    /\ NoVault \notin VaultOwner
    /\ NoRecovery \notin RecoveryRequest
    /\ NoPending \notin PendingWithdrawal
    /\ NoFrame \notin CheckFrame
    /\ TransferFrame \notin CheckFrame
    /\ NoFrame # TransferFrame

TenantTypeOK ==
    /\ vaults \in [Owner -> VaultOwner \cup {NoVault}]
    /\ policyControlEpoch \in [Owner -> Nat]
    /\ vaultGuardians \in [Owner -> SUBSET Account]
    /\ recoveryRequests \in [Owner -> RecoveryRequest \cup {NoRecovery}]
    /\ recoverySupports \in [Owner -> SUBSET Account]
    /\ pendingWithdrawals \in [Owner -> PendingWithdrawal \cup {NoPending}]
    /\ treasuryQuorumThreshold \in [Owner -> Nat]
    /\ treasuryApprovalCount \in [Withdrawal -> Nat]
    /\ treasuryApprovals \in [Withdrawal -> SUBSET Account]
    /\ frame \in CheckFrame \cup {NoFrame, TransferFrame}
    /\ credited \in [Owner -> Nat]
    /\ paidOut \in [Owner -> Nat]
    /\ queuedUnder \in [Owner -> Nat]

\* Every variable holds a value of its Solidity type.
TypeOK == GovTypeOK /\ TenantTypeOK

TenantInit ==
    /\ vaults = [o \in Owner |-> NoVault]
    /\ policyControlEpoch = [o \in Owner |-> 0]
    /\ vaultGuardians = [o \in Owner |-> {}]
    /\ recoveryRequests = [o \in Owner |-> NoRecovery]
    /\ recoverySupports = [o \in Owner |-> {}]
    /\ pendingWithdrawals = [o \in Owner |-> NoPending]
    /\ treasuryQuorumThreshold = [o \in Owner |-> 0]
    /\ treasuryApprovalCount = [op \in Withdrawal |-> 0]
    /\ treasuryApprovals = [op \in Withdrawal |-> {}]
    /\ frame = NoFrame
    /\ credited = [o \in Owner |-> 0]
    /\ paidOut = [o \in Owner |-> 0]
    /\ queuedUnder = [o \in Owner |-> 0]

-----------------------------------------------------------------------------
(* Modifiers and helpers. *)

whenNotPaused == ~paused
nonReentrant == frame = NoFrame
InCheck == frame \notin {NoFrame, TransferFrame}

HasVault(o) == vaults[o] # NoVault
HasRecovery(o) == recoveryRequests[o] # NoRecovery
HasPending(o) == pendingWithdrawals[o] # NoPending

NeedEcdsa(mode) == mode \in {"EcdsaOnly", "Hybrid"}
NeedPq(mode) == mode \in {"PqOnly", "Hybrid"}

\* _validateCredentials
ValidCredentials(mode, signer, key) ==
    /\ NeedEcdsa(mode) => signer # ZeroAddress
    /\ NeedPq(mode) => key # EmptyKey

\* The signatures sent along are those of the credentials of vault v.
SignedByCurrent(v, es, ps) ==
    /\ NeedEcdsa(v.mode) => es = v.ecdsaSigner
    /\ NeedPq(v.mode) => ps = v.pqPublicKey

\* Slip: half the guardians instead of a majority.
HalfIsEnough(o) == (Cardinality(vaultGuardians[o]) + 1) \div 2

\* _requiredRecoverySupports
RequiredRecoverySupports(o) == (Cardinality(vaultGuardians[o]) \div 2) + 1

\* _clearTreasuryApprovalsForOp, which returns early when nothing was counted
\* and otherwise resets the flags of the present guardians only.
ClearTreasuryApprovals(o, op) ==
    IF treasuryApprovalCount[op] = 0
    THEN UNCHANGED approvalVars
    ELSE /\ treasuryApprovalCount' = [treasuryApprovalCount EXCEPT ![op] = 0]
         /\ treasuryApprovals' =
               [treasuryApprovals EXCEPT ![op] = @ \ vaultGuardians[o]]

ClearPendingApprovals(o) ==
    IF HasPending(o)
    THEN ClearTreasuryApprovals(o, pendingWithdrawals[o].operationId)
    ELSE UNCHANGED approvalVars

\* What cancelling the pending withdrawal, if there is one, puts back.
Refund(o) ==
    IF HasPending(o)
    THEN pendingWithdrawals[o].operationId.amount ELSE 0

\* Slip: the queue is not emptied.
KeepQueued(o) == UNCHANGED <<approvalVars, pendingWithdrawals>>

\* The pending withdrawal, if there is one, ceases to exist.
Dequeue(o) ==
    /\ ClearPendingApprovals(o)
    /\ pendingWithdrawals' = [pendingWithdrawals EXCEPT ![o] = NoPending]

\* The tail that rotateCredentials and executeRecovery share: install the
\* credentials, burn a nonce, open a new policy-control epoch, and cancel and
\* refund whatever the old credentials had queued.
InstallCredentials(o, signer, key) ==
    /\ vaults[o].nonce < MaxNonce
    /\ vaults' = [vaults EXCEPT ![o].ecdsaSigner = signer,
                               ![o].pqPublicKey = key,
                               ![o].nonce = @ + 1,
                               ![o].balance = @ + Refund(o)]
    /\ policyControlEpoch' = [policyControlEpoch EXCEPT ![o] = @ + 1]
    /\ Dequeue(o)

-----------------------------------------------------------------------------
(* Accounts and deposits. *)

createVault(o, signer, key, mode, value) ==
    /\ whenNotPaused
    /\ ~HasVault(o)
    /\ mode \in CreatableMode
    /\ ValidCredentials(mode, signer, key)
    /\ credited[o] + value <= MaxCredit
    /\ vaults' = [vaults EXCEPT ![o] =
                    [ecdsaSigner |-> signer, pqPublicKey |-> key, nonce |-> 0,
                     balance |-> value, mode |-> mode]]
    /\ credited' = [credited EXCEPT ![o] = @ + value]
    /\ UNCHANGED <<policyControlEpoch, guardianVars, recoveryVars, approvalVars,
                   pendingWithdrawals, frame, paidOut, queuedUnder, operatorVars>>

\* deposit and depositFor: anybody may credit any existing vault.
_deposit(o, value) ==
    /\ whenNotPaused
    /\ value # 0
    /\ HasVault(o)
    /\ credited[o] + value <= MaxCredit
    /\ vaults' = [vaults EXCEPT ![o].balance = @ + value]
    /\ credited' = [credited EXCEPT ![o] = @ + value]
    /\ UNCHANGED <<policyControlEpoch, guardianVars, recoveryVars, approvalVars,
                   pendingWithdrawals, frame, paidOut, queuedUnder, operatorVars>>

\* Both the current credentials and the new ones sign.  A recovery that is
\* under way is left alone.
rotateCredentials(o, newSigner, newKey, deadline, es, ps) ==
    /\ nonReentrant
    /\ whenNotPaused
    /\ HasVault(o)
    /\ now <= deadline
    /\ ValidCredentials(vaults[o].mode, newSigner, newKey)
    /\ SignedByCurrent(vaults[o], es, ps)
    /\ InstallCredentials(o, newSigner, newKey)
    /\ UNCHANGED <<guardianVars, recoveryVars, frame, historyVars, operatorVars>>

-----------------------------------------------------------------------------
(* Guardians and recovery. *)

\* Slip: the flags of the guardians who supported it stay set.
EndKeepingSupports(o) ==
    /\ recoveryRequests' = [recoveryRequests EXCEPT ![o] = NoRecovery]
    /\ UNCHANGED recoverySupports

\* Delete the request and reset the support flags of the present guardians.
EndRecovery(o) ==
    /\ recoveryRequests' = [recoveryRequests EXCEPT ![o] = NoRecovery]
    /\ recoverySupports' = [recoverySupports EXCEPT ![o] = @ \ vaultGuardians[o]]

\* guardians is the set of a list that passed the zero and duplicate checks.
AcceptableGuardians(o, guardians) ==
    /\ HasVault(o)
    /\ guardians # {}
    /\ Cardinality(guardians) <= MAX_GUARDIANS
    /\ treasuryQuorumThreshold[o] <= Cardinality(guardians)
    /\ o \notin guardians

setGuardians(o, guardians) ==
    /\ AcceptableGuardians(o, guardians)
    /\ EndRecovery(o)
    /\ ClearPendingApprovals(o)
    /\ vaultGuardians' = [vaultGuardians EXCEPT ![o] = guardians]
    /\ UNCHANGED <<accountVars, pendingWithdrawals, treasuryQuorumThreshold,
                   frame, historyVars, operatorVars>>

\* Slip: maturity alone makes a request replaceable.
ReplaceableOnceMature(o) ==
    HasRecovery(o) => now >= recoveryRequests[o].executeAfter

\* A request may be replaced only once it has matured without a majority.
ReplaceableRecovery(o) ==
    HasRecovery(o) =>
        /\ now >= recoveryRequests[o].executeAfter
        /\ recoveryRequests[o].supportCount < RequiredRecoverySupports(o)

initiateRecovery(g, o, newSigner, newKey) ==
    /\ whenNotPaused
    /\ HasVault(o)
    /\ ReplaceableRecovery(o)
    /\ ValidCredentials(vaults[o].mode, newSigner, newKey)
    /\ g \in vaultGuardians[o]
    /\ recoveryRequests' = [recoveryRequests EXCEPT ![o] =
                               [newEcdsaSigner |-> newSigner,
                                newPQPublicKey |-> newKey,
                                executeAfter |-> now + RECOVERY_DELAY,
                                supportCount |-> 0]]
    /\ recoverySupports' = [recoverySupports EXCEPT ![o] = @ \ vaultGuardians[o]]
    /\ UNCHANGED <<accountVars, guardianVars, approvalVars, pendingWithdrawals,
                   frame, historyVars, operatorVars>>

supportRecovery(g, o) ==
    /\ HasRecovery(o)
    /\ g \in vaultGuardians[o]
    /\ g \notin recoverySupports[o]
    /\ recoverySupports' = [recoverySupports EXCEPT ![o] = @ \cup {g}]
    /\ recoveryRequests' = [recoveryRequests EXCEPT ![o].supportCount = @ + 1]
    /\ UNCHANGED <<accountVars, guardianVars, approvalVars, pendingWithdrawals,
                   frame, historyVars, operatorVars>>

\* Slip: more than the required supports are asked for.
ExecutableAboveMajority(o) ==
    /\ nonReentrant
    /\ whenNotPaused
    /\ HasRecovery(o)
    /\ now >= recoveryRequests[o].executeAfter
    /\ recoveryRequests[o].supportCount > RequiredRecoverySupports(o)

ExecutableRecovery(o) ==
    /\ nonReentrant
    /\ whenNotPaused
    /\ HasRecovery(o)
    /\ now >= recoveryRequests[o].executeAfter
    /\ recoveryRequests[o].supportCount >= RequiredRecoverySupports(o)

\* Anybody may execute; the installed pair is the one the request names.
executeRecovery(o) ==
    /\ ExecutableRecovery(o)
    /\ InstallCredentials(o, recoveryRequests[o].newEcdsaSigner,
                             recoveryRequests[o].newPQPublicKey)
    /\ EndRecovery(o)
    /\ UNCHANGED <<guardianVars, frame, historyVars, operatorVars>>

cancelRecovery(o) ==
    /\ HasRecovery(o)
    /\ EndRecovery(o)
    /\ UNCHANGED <<accountVars, guardianVars, approvalVars, pendingWithdrawals,
                   frame, historyVars, operatorVars>>

-----------------------------------------------------------------------------
(* Withdrawals. *)

\* The checks withdraw and queueWithdrawal have in common.
Admissible(r, es, ps) ==
    LET v == vaults[r.vaultOwner] IN
    /\ HasVault(r.vaultOwner)
    /\ now <= r.deadline
    /\ r.amount # 0
    /\ r.nonce = v.nonce
    /\ r.nonce < MaxNonce
    /\ r.vaultMode = v.mode
    /\ v.balance >= r.amount
    /\ SignedByCurrent(v, es, ps)

\* vault.nonce = request.nonce + 1; vault.balance -= request.amount.  The
\* subtraction is checked arithmetic: it reverts rather than wrap.
Debit(r) ==
    /\ vaults[r.vaultOwner].balance >= r.amount
    /\ vaults' = [vaults EXCEPT ![r.vaultOwner].nonce = r.nonce + 1,
                               ![r.vaultOwner].balance = @ - r.amount]

\* withdraw from its effects on: debit, then hand control to the recipient.
WithdrawEffects(r) ==
    /\ Debit(r)
    /\ paidOut' = [paidOut EXCEPT ![r.vaultOwner] = @ + r.amount]
    /\ frame' = TransferFrame
    /\ UNCHANGED <<policyControlEpoch, guardianVars, recoveryVars, approvalVars,
                   pendingWithdrawals, credited, queuedUnder, operatorVars>>

ReadyAt == now + largeTxDelay

\* queueWithdrawal from its effects on.  largeTxDelay is read here, after the
\* engine has run; the engine recorded is the one that was called.
QueueEffects(r, engine, epoch) ==
    /\ Debit(r)
    /\ pendingWithdrawals' = [pendingWithdrawals EXCEPT ![r.vaultOwner] =
                                 [operationId |-> r,
                                  queuedAt |-> now, readyAt |-> ReadyAt,
                                  policyEngineAtQueue |-> engine]]
    /\ queuedUnder' = [queuedUnder EXCEPT ![r.vaultOwner] = epoch]
    /\ frame' = NoFrame
    /\ UNCHANGED <<policyControlEpoch, guardianVars, recoveryVars, approvalVars,
                   credited, paidOut, operatorVars>>

\* policyEngine.check is entered; the call goes on in checkReturns.
OpenCheck(function, r) ==
    /\ Permits(policyEngine)
    /\ frame' = [fn |-> function, request |-> r,
                 engine |-> policyEngine, epoch |-> policyControlEpoch[r.vaultOwner]]
    /\ UNCHANGED <<accountVars, guardianVars, recoveryVars, approvalVars,
                   pendingWithdrawals, historyVars, operatorVars>>

withdraw(r, es, ps) ==
    /\ nonReentrant
    /\ whenNotPaused
    /\ Admissible(r, es, ps)
    /\ largeTxThreshold = 0 \/ r.amount <= largeTxThreshold
    /\ IF policyEngine = NoEngine THEN WithdrawEffects(r)
                                  ELSE OpenCheck("withdraw", r)

queueWithdrawal(r, es, ps) ==
    /\ nonReentrant
    /\ whenNotPaused
    /\ Admissible(r, es, ps)
    /\ ~HasPending(r.vaultOwner)
    /\ largeTxThreshold # 0
    /\ r.amount > largeTxThreshold
    /\ IF policyEngine = NoEngine
       THEN QueueEffects(r, NoEngine, policyControlEpoch[r.vaultOwner])
       ELSE OpenCheck("queueWithdrawal", r)

checkReturns ==
    /\ InCheck
    /\ \/ frame.fn = "withdraw" /\ WithdrawEffects(frame.request)
       \/ frame.fn = "queueWithdrawal"
            /\ QueueEffects(frame.request, frame.engine, frame.epoch)

\* After recipient.call nothing is left but the event and the guard's release.
transferReturns ==
    /\ frame = TransferFrame
    /\ frame' = NoFrame
    /\ UNCHANGED <<accountVars, guardianVars, recoveryVars, approvalVars,
                   pendingWithdrawals, historyVars, operatorVars>>

IsPending(o, op) ==
    /\ HasPending(o)
    /\ pendingWithdrawals[o].operationId = op

\* Slip: only the engine in force now is asked.
PermitsUnderCurrentEngine(pending) == Permits(policyEngine)

\* Gate 2: the engine in force when the withdrawal was queued and, if different,
\* the engine in force now must both permit it.
PermitsQueued(pending) ==
    /\ Permits(pending.policyEngineAtQueue)
    /\ Permits(policyEngine)

\* Only the owner finalizes.
finalizeWithdrawal(o, op) ==
    /\ nonReentrant
    /\ whenNotPaused
    /\ IsPending(o, op)
    /\ now >= pendingWithdrawals[o].readyAt
    /\ treasuryQuorumThreshold[o] > 0 =>
          treasuryApprovalCount[op] >= treasuryQuorumThreshold[o]
    /\ PermitsQueued(pendingWithdrawals[o])
    /\ Dequeue(o)
    /\ paidOut' = [paidOut EXCEPT ![o] = @ + op.amount]
    /\ frame' = TransferFrame
    /\ UNCHANGED <<accountVars, guardianVars, recoveryVars, credited,
                   queuedUnder, operatorVars>>

\* Slip: the way out is closed while paused.
CancellableUnlessPaused(o, op) == nonReentrant /\ whenNotPaused /\ IsPending(o, op)

Cancellable(o, op) == nonReentrant /\ IsPending(o, op)

\* The owner's way out of a queued withdrawal, open even while paused.
cancelPendingWithdrawal(o, op) ==
    /\ Cancellable(o, op)
    /\ Dequeue(o)
    /\ vaults' = [vaults EXCEPT ![o].balance = @ + op.amount]
    /\ UNCHANGED <<policyControlEpoch, guardianVars, recoveryVars, frame,
                   historyVars, operatorVars>>

-----------------------------------------------------------------------------
(* Treasury approval. *)

setTreasuryQuorumThreshold(o, threshold) ==
    /\ HasVault(o)
    /\ threshold > 0 => threshold <= Cardinality(vaultGuardians[o])
    /\ treasuryQuorumThreshold' = [treasuryQuorumThreshold EXCEPT ![o] = threshold]
    /\ UNCHANGED <<accountVars, vaultGuardians, recoveryVars, approvalVars,
                   pendingWithdrawals, frame, historyVars, operatorVars>>

MayApprove(g, o, op) ==
    /\ IsPending(o, op)
    /\ g \in vaultGuardians[o]
    /\ g \notin treasuryApprovals[op]

approveTreasuryWithdrawal(g, o, op) ==
    /\ MayApprove(g, o, op)
    /\ treasuryApprovals' = [treasuryApprovals EXCEPT ![op] = @ \cup {g}]
    /\ treasuryApprovalCount' = [treasuryApprovalCount EXCEPT ![op] = @ + 1]
    /\ UNCHANGED <<accountVars, guardianVars, recoveryVars, pendingWithdrawals,
                   frame, historyVars, operatorVars>>

-----------------------------------------------------------------------------
(* The contract. *)

\* Calls on behalf of, or about, the vault of owner o.
AccountCall(o) ==
    \/ \E signer \in Signer, key \in PublicKey, mode \in Mode, value \in Amount :
          createVault(o, signer, key, mode, value)
    \/ \E value \in Amount : _deposit(o, value)
    \/ \E signer \in Signer, key \in PublicKey, deadline \in Deadline,
          es \in EcdsaKey, ps \in PublicKey :
          rotateCredentials(o, signer, key, deadline, es, ps)

RecoveryCall(o) ==
    \/ \E guardians \in SUBSET Account : setGuardians(o, guardians)
    \/ \E g \in Account, signer \in Signer, key \in PublicKey :
          initiateRecovery(g, o, signer, key)
    \/ \E g \in Account : supportRecovery(g, o)
    \/ executeRecovery(o)
    \/ cancelRecovery(o)

WithdrawalCall(r) ==
    \/ \E es \in EcdsaKey, ps \in PublicKey : withdraw(r, es, ps)
    \/ \E es \in EcdsaKey, ps \in PublicKey : queueWithdrawal(r, es, ps)
    \/ finalizeWithdrawal(r.vaultOwner, r)
    \/ cancelPendingWithdrawal(r.vaultOwner, r)
    \/ \E g \in Account : approveTreasuryWithdrawal(g, r.vaultOwner, r)

\* The operator may act in the middle of an open call (it may be the contract
\* that was called); blocks and the engines' own changes come between calls.
OperatorCall ==
    /\ OperatorNext
    /\ UNCHANGED tenantVars

Environment ==
    /\ frame = NoFrame
    /\ Tick \/ EngineChanges
    /\ UNCHANGED tenantVars

Init == GovInit /\ TenantInit

Next ==
    \/ \E o \in Owner : AccountCall(o) \/ RecoveryCall(o)
    \/ \E o \in Owner, t \in 0..MAX_GUARDIANS : setTreasuryQuorumThreshold(o, t)
    \/ \E r \in Withdrawal : WithdrawalCall(r)
    \/ checkReturns
    \/ transferReturns
    \/ OperatorCall
    \/ Environment

Spec == Init /\ [][Next]_vars

-----------------------------------------------------------------------------
(* Safety. *)

Balance(o) == IF HasVault(o) THEN vaults[o].balance ELSE 0

\* No wei is created, lost or paid twice: what a vault was ever credited is
\* what it holds, plus what is queued, plus what it paid, at every moment and
\* in the middle of every open call (the ledger of vaults[].balance and
\* pendingWithdrawals against the ETH moved by deposit and recipient.call).
Conservation ==
    \A o \in Owner :
        credited[o] = Balance(o) + Refund(o) + paidOut[o]

\* An address without a vault has nothing else either.  executeRecovery,
\* finalizeWithdrawal and cancelPendingWithdrawal write vaults[owner] without
\* asking whether it exists, and rely on this.
NothingWithoutVault ==
    \A o \in Owner :
        ~HasVault(o) =>
            /\ ~HasRecovery(o)
            /\ ~HasPending(o)
            /\ vaultGuardians[o] = {}
            /\ treasuryQuorumThreshold[o] = 0
            /\ InCheck => frame.request.vaultOwner # o

\* The support counter executeRecovery trusts is the number of present
\* guardians who supported the present request; no flag outlives its request
\* or its guardian (setGuardians, initiateRecovery, executeRecovery and
\* cancelRecovery each reset flags of the current list only).
SupportsConsistent ==
    \A o \in Owner :
        /\ recoverySupports[o] \subseteq vaultGuardians[o]
        /\ IF HasRecovery(o)
           THEN recoveryRequests[o].supportCount = Cardinality(recoverySupports[o])
           ELSE recoverySupports[o] = {}

\* Approvals are counted exactly, come from present guardians, and exist for
\* the operation that is pending and for no other: none is left behind by
\* _clearTreasuryApprovalsForOp (which touches only the current guardians and
\* may return early) for a later operation to inherit.
ApprovalsConsistent ==
    \A op \in Withdrawal :
        /\ treasuryApprovalCount[op] = Cardinality(treasuryApprovals[op])
        /\ treasuryApprovals[op] \subseteq vaultGuardians[op.vaultOwner]
        /\ treasuryApprovals[op] # {} =>
              /\ HasPending(op.vaultOwner)
              /\ pendingWithdrawals[op.vaultOwner].operationId = op

\* What counts towards a majority or a quorum is what present guardians said of
\* the present request and the present operation.
FlagsConsistent == SupportsConsistent /\ ApprovalsConsistent

\* An armed treasury quorum can always be met by the present guardians, so
\* neither setTreasuryQuorumThreshold nor setGuardians can lock finalization.
QuorumReachable ==
    \A o \in Owner :
        treasuryQuorumThreshold[o] <= Cardinality(vaultGuardians[o])

\* A pending withdrawal was authorised by the credentials in force: every path
\* that replaces credentials cancels it, including a recovery executed while
\* queueWithdrawal is waiting for the policy engine.
PendingUnderCurrentCredentials ==
    \A o \in Owner :
        HasPending(o) =>
            /\ queuedUnder[o] = policyControlEpoch[o]
            /\ pendingWithdrawals[o].operationId.vaultOwner = o
            /\ pendingWithdrawals[o].operationId.nonce < vaults[o].nonce

\* While policyEngine.check runs, nothing that withdraw or queueWithdrawal
\* verified before it can be undone by a call made from inside: the nonce, the
\* credentials, the balance and the free queue slot are still as checked.
OpenCallStillValid ==
    InCheck =>
        LET r == frame.request  v == vaults[r.vaultOwner] IN
        /\ HasVault(r.vaultOwner)
        /\ v.nonce = r.nonce
        /\ v.balance >= r.amount
        /\ frame.epoch = policyControlEpoch[r.vaultOwner]
        /\ frame.fn = "queueWithdrawal" =>
              ~HasPending(r.vaultOwner)

-----------------------------------------------------------------------------
(* What a step may never do. *)

Approved(o) ==
    /\ HasRecovery(o)
    /\ 2 * Cardinality(recoverySupports[o]) > Cardinality(vaultGuardians[o])

Immature(o) == HasRecovery(o) /\ now < recoveryRequests[o].executeAfter

SameRequest(o) ==
    /\ recoveryRequests'[o] # NoRecovery
    /\ recoveryRequests'[o].newEcdsaSigner = recoveryRequests[o].newEcdsaSigner
    /\ recoveryRequests'[o].newPQPublicKey = recoveryRequests[o].newPQPublicKey
    /\ recoveryRequests'[o].executeAfter = recoveryRequests[o].executeAfter
    /\ recoverySupports[o] \subseteq recoverySupports'[o]

\* A request that has not matured, or that a majority of the guardians
\* supports, is never exchanged for another one: initiateRecovery cannot push
\* an approved recovery aside, and the request can only end.
KeepsRecovery(o) ==
    Approved(o) \/ Immature(o) =>
        recoveryRequests'[o] = NoRecovery \/ SameRequest(o)

RecoveryNotDisplaced == [][\A o \in Owner : KeepsRecovery(o)]_vars

CredentialChange(o) ==
    /\ HasVault(o)
    /\ \/ vaults'[o].ecdsaSigner # vaults[o].ecdsaSigner
       \/ vaults'[o].pqPublicKey # vaults[o].pqPublicKey

\* Credentials of an existing vault change only together with a new nonce, a
\* new policy-control epoch and an empty queue; and if the step also ends a
\* recovery, that recovery had matured and a majority of the present guardians
\* had supported it (rotateCredentials, executeRecovery).
CompleteChange(o) ==
    CredentialChange(o) =>
        /\ vaults'[o].nonce = vaults[o].nonce + 1
        /\ policyControlEpoch'[o] = policyControlEpoch[o] + 1
        /\ pendingWithdrawals'[o] = NoPending
        /\ recoveryRequests'[o] # recoveryRequests[o] =>
              Approved(o) /\ ~Immature(o)

CredentialChangesAreComplete == [][\A o \in Owner : CompleteChange(o)]_vars

\* Each authorisation pays at most once: a payment either burns the nonce it
\* was signed for or uses up the pending withdrawal, which had burnt its own.
PaysOnce(o) ==
    paidOut'[o] # paidOut[o] =>
        \/ vaults'[o].nonce = vaults[o].nonce + 1
        \/ HasPending(o) /\ pendingWithdrawals'[o] = NoPending

EachAuthorisationPaysOnce == [][\A o \in Owner : PaysOnce(o)]_vars

\* A queued withdrawal is paid on the terms it was queued under, whatever the
\* operator has done since: its own delay has passed, as many distinct present
\* guardians as the quorum asks for approved it, and both the engine of queue
\* time and the engine of now permit it (finalizeWithdrawal).
HonoursTerms(o) ==
    (HasPending(o) /\ pendingWithdrawals'[o] = NoPending /\ paidOut'[o] # paidOut[o]) =>
        LET p == pendingWithdrawals[o] IN
        /\ now >= p.readyAt
        /\ Cardinality(treasuryApprovals[p.operationId] \cap vaultGuardians[o])
              >= treasuryQuorumThreshold[o]
        /\ Permits(p.policyEngineAtQueue)
        /\ Permits(policyEngine)

QueuedPayoutHonoursTerms == [][\A o \in Owner : HonoursTerms(o)]_vars

-----------------------------------------------------------------------------
(* Liveness. *)

\* Gas is finite: the engine and the recipient return.
CallsReturn == WF_vars(checkReturns) /\ WF_vars(transferReturns)

\* Anybody may call executeRecovery and somebody does; the operator does not
\* leave the contract paused for good.
RecoveryFairness ==
    /\ \A o \in Owner : SF_vars(executeRecovery(o))
    /\ WF_vars(unpause /\ UNCHANGED tenantVars)

\* A majority-backed matured recovery is eventually executed, unless the owner
\* ends it or the nonce bound is hit.
RecoveryCompletes ==
    RecoveryFairness =>
        \A o \in Owner :
            (Approved(o) /\ now >= recoveryRequests[o].executeAfter)
                ~> (~Approved(o) \/ vaults[o].nonce = MaxNonce)

\* The owner wants its money back: it cancels whenever it can.  Nothing is
\* assumed of the operator, who may pause for good, or of the engines.
OwnerExitFairness ==
    \A o \in Owner : SF_vars(\E op \in Withdrawal : cancelPendingWithdrawal(o, op))

\* Every queued withdrawal eventually leaves the queue, even if the contract
\* stays paused and every policy engine has disappeared.
QueueNeverStuck ==
    OwnerExitFairness =>
        \A o \in Owner : HasPending(o) ~> ~HasPending(o)
============================================================================
