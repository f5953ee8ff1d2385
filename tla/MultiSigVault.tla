---------------------------- MODULE MultiSigVault ----------------------------
(***************************************************************************)
(* WalletWallMultiSigVault.sol: a vault pays when m of its n ECDSA signers *)
(* and p of its q post-quantum keys signed the request.  The rotation of   *)
(* the verifier is in module VerifierRotation; here the verifier in office *)
(* may be honest, may answer yes to everything, or may be halted.          *)
(*                                                                         *)
(* Anybody may submit a request with any list of the signatures made so    *)
(* far, in any order and with repetitions.                                 *)
(***************************************************************************)
EXTENDS Integers, Sequences, FiniteSets, SequencesExt

CONSTANTS
    Owner,
    Signer,                         \* addresses of ECDSA keys, in their order
    PqKey,
    Amount, Deadline,
    MaxList,                        \* bound on lists of signers, keys, signatures
    MaxTime, MaxNonce, MaxBalance   \* bounds on time, payments and deposits

MultiSigAssumption ==
    /\ Signer \subseteq Nat \ {0}
    /\ Amount \subseteq Nat \ {0}
    /\ Deadline \subseteq Nat
    /\ MaxList \in Nat /\ MaxTime \in Nat /\ MaxNonce \in Nat /\ MaxBalance \in Nat

VARIABLES
    now,                            \* block.timestamp
    paused,
    pqVerifier,
    vaults,
    signed,                         \* who signed which request
    spent                           \* history: requests that were paid

vars == <<now, paused, pqVerifier, vaults, signed, spent>>

NoVault == [exists |-> FALSE, ecdsaSigners |-> <<>>, ecdsaThreshold |-> 0,
            pqPublicKeys |-> <<>>, pqThreshold |-> 0, nonce |-> 0, balance |-> 0]

Request == [vaultOwner : Owner, amount : Amount, nonce : 0..(MaxNonce - 1),
            deadline : Deadline]

Lists(S) == UNION {[1..n -> S] : n \in 0..MaxList}

Threshold == 0..(MaxList + 1)

Init ==
    /\ now = 0
    /\ paused = FALSE
    /\ pqVerifier \in {"honest", "credulous"}
    /\ vaults = [o \in Owner |-> NoVault]
    /\ signed = {}
    /\ spent = {}

-----------------------------------------------------------------------------
(* createVault, deposit, depositFor *)

\* InvalidThreshold, DuplicateSigner
Enough(list, threshold) ==
    /\ threshold # 0
    /\ threshold <= Len(list)
    /\ IsInjective(list)

createVault(o, signers, m, keys, p) ==
    /\ ~ paused
    /\ ~ vaults[o].exists
    /\ Enough(signers, m)
    /\ Enough(keys, p)
    /\ vaults' = [vaults EXCEPT ![o] =
                     [exists |-> TRUE, ecdsaSigners |-> signers, ecdsaThreshold |-> m,
                      pqPublicKeys |-> keys, pqThreshold |-> p, nonce |-> 0, balance |-> 0]]
    /\ UNCHANGED <<now, paused, pqVerifier, signed, spent>>

deposit(o, amount) ==
    /\ ~ paused
    /\ vaults[o].exists
    /\ vaults[o].balance + amount <= MaxBalance
    /\ vaults' = [vaults EXCEPT ![o].balance = @ + amount]
    /\ UNCHANGED <<now, paused, pqVerifier, signed, spent>>

-----------------------------------------------------------------------------
(* withdraw *)

\* Slip: a signature may be repeated.
NotDescending(list) == \A i \in 1..(Len(list) - 1) : list[i] <= list[i + 1]

\* Each signer above the one before, each key index above the one before.
Ascending(list) == \A i \in 1..(Len(list) - 1) : list[i] < list[i + 1]

VerifiesPQ(k, request) ==
    \/ pqVerifier = "credulous"
    \/ pqVerifier = "honest" /\ <<k, request>> \in signed

\* _verifySignatures, with the counts withdraw looks at first: every signature
\* must be good, whether it is needed for the threshold or not.
Verified(v, request, signers, indices) ==
    /\ Len(signers) >= v.ecdsaThreshold
    /\ Len(indices) >= v.pqThreshold
    /\ Ascending(signers)
    /\ \A s \in ToSet(signers) : s \in ToSet(v.ecdsaSigners) /\ <<s, request>> \in signed
    /\ Ascending(indices)
    /\ \A i \in ToSet(indices) :
          i \in DOMAIN v.pqPublicKeys /\ VerifiesPQ(v.pqPublicKeys[i], request)

Pay(v, amount) == [v EXCEPT !.nonce = @ + 1, !.balance = @ - amount]

\* All of it is written before the recipient is called; what the recipient does
\* in its call (a deposit, a new vault) is a step of its own after this one.
withdraw(request, signers, indices) ==
    LET v == vaults[request.vaultOwner] IN
    /\ ~ paused
    /\ v.exists
    /\ now <= request.deadline
    /\ request.nonce = v.nonce
    /\ v.balance >= request.amount
    /\ Verified(v, request, signers, indices)
    /\ vaults' = [vaults EXCEPT ![request.vaultOwner] = Pay(v, request.amount)]
    /\ spent' = spent \cup {request}
    /\ UNCHANGED <<now, paused, pqVerifier, signed>>

-----------------------------------------------------------------------------
\* The owner of the contract, the verifier, the holders of the keys, and time.
SetPaused ==
    /\ paused' = ~ paused
    /\ UNCHANGED <<now, pqVerifier, vaults, signed, spent>>

\* applyPQVerifierUpdate, or a halt of the verifier in office.
VerifierChanges ==
    /\ pqVerifier' \in {"honest", "credulous", "halted"} \ {pqVerifier}
    /\ UNCHANGED <<now, paused, vaults, signed, spent>>

Sign(k, request) ==
    /\ signed' = signed \cup {<<k, request>>}
    /\ UNCHANGED <<now, paused, pqVerifier, vaults, spent>>

Tick ==
    /\ now < MaxTime
    /\ now' = now + 1
    /\ UNCHANGED <<paused, pqVerifier, vaults, signed, spent>>

Next ==
    \/ \E o \in Owner, signers \in Lists(Signer), keys \in Lists(PqKey), m, p \in Threshold :
          createVault(o, signers, m, keys, p)
    \/ \E o \in Owner, a \in Amount : deposit(o, a)
    \/ \E r \in Request, signers \in Lists(Signer), indices \in Lists(1..MaxList) :
          withdraw(r, signers, indices)
    \/ SetPaused
    \/ VerifierChanges
    \/ \E k \in Signer \cup PqKey, r \in Request : Sign(k, r)
    \/ Tick

Spec == Init /\ [][Next]_vars

-----------------------------------------------------------------------------
(* Properties *)

SignersOf(v, r) == {s \in ToSet(v.ecdsaSigners) : <<s, r>> \in signed}
PqKeysOf(v, r) == {k \in ToSet(v.pqPublicKeys) : <<k, r>> \in signed}

\* A vault pays only a request that m different signers signed and, while the
\* verifier is honest, p different post-quantum keys, whatever list is submitted
\* (WalletWallMultiSigVault.sol:239); a verifier that says yes to everything
\* leaves the m signers standing (:22).
Backed(v, r) ==
    /\ Cardinality(SignersOf(v, r)) >= v.ecdsaThreshold
    /\ pqVerifier = "honest" => Cardinality(PqKeysOf(v, r)) >= v.pqThreshold
    /\ pqVerifier # "halted"

PaidWithThresholds ==
    [][\A r \in spent' \ spent : Backed(vaults[r.vaultOwner], r)]_vars
=============================================================================
