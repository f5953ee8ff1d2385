------------------------- MODULE ContractPartsProofs -------------------------
(***************************************************************************)
(* The contracts of MCContractParts, for any number of accounts, modules,  *)
(* signers and keys, any ring and any delays: the engine books and evicts  *)
(* exactly, a multi-signature vault pays what enough signed, containment   *)
(* and policy control keep what they promise, the rotation of the verifier *)
(* keeps its owner honest and implements Timelock, and the ring of the     *)
(* spend ledger implements RollingLimit.                                   *)
(***************************************************************************)
EXTENDS MCContractParts, Sequences, Functions, FiniteSetTheorems, WellFoundedInduction, TLAPS

-----------------------------------------------------------------------------
(* The composite policy engine. *)

EngineTyped ==
    /\ eNow \in Nat
    /\ eModules \in Seq(Module)
    /\ ePending \in [Module -> Nat]
    /\ eAnnounced \in [Module -> Nat \cup {Engine!Never}]
    /\ eBooked \in [Ledger -> [Consumer -> Nat]]
    /\ eAdmitted \in [Ledger -> [Vault -> Nat]]

\* A removal becomes possible the delay after its announcement.
NoticeDated ==
    \A m \in Module :
        ePending[m] # 0 =>
            /\ eAnnounced[m] # Engine!Never
            /\ ePending[m] = eAnnounced[m] + MODULE_REMOVAL_DELAY

EngineInv == EngineTyped /\ NoticeDated /\ Engine!BucketsExact

LEMMA EngineAssumed ==
    /\ Ledger \subseteq Module
    /\ Vault \subseteq Consumer
    /\ MODULE_REMOVAL_DELAY \in Nat \ {0}
    /\ MODULE_REMOVAL_GRACE_PERIOD \in Nat
BY PartsAssumption DEF Engine!CompositeAssumption

LEMMA EngineStarts == Engine!Init => EngineInv
<1> SUFFICES ASSUME Engine!Init PROVE EngineInv
  OBVIOUS
<1>1. EngineTyped
  BY DEF Engine!Init, EngineTyped
<1>2. NoticeDated
  BY DEF Engine!Init, NoticeDated
<1>3. Engine!BucketsExact
  BY EngineAssumed DEF Engine!Init, Engine!BucketsExact
<1> QED
  BY <1>1, <1>2, <1>3 DEF EngineInv

\* What the slot of the removed module held, and the shortened list, are modules
\* that were in the list; each of them is still there, but for the removed one.
LEMMA SwapAndPopRemovesOne ==
  ASSUME EngineTyped, NEW k \in Engine!InService
  PROVE  /\ Engine!SwapAndPop(k) \in Seq(Module)
         /\ \A m \in Engine!InService \ {k} : m \in Engine!ToSet(Engine!SwapAndPop(k))
<1> DEFINE n == Len(eModules)
           j == CHOOSE i \in DOMAIN eModules : eModules[i] = k
           moved == [eModules EXCEPT ![j] = eModules[n]]
<1>1. eModules \in Seq(Module) /\ n \in Nat /\ DOMAIN eModules = 1..n
  BY DEF EngineTyped
<1>2. j \in 1..n /\ eModules[j] = k
  BY <1>1 DEF Engine!InService, Engine!ToSet
<1>3. n > 0 /\ eModules[n] \in Module
  BY <1>1, <1>2
<1>4. Engine!SwapAndPop(k) = SubSeq(moved, 1, n - 1)
  <2>1. Len(moved) = n
    BY <1>1, <1>2
  <2> QED
    BY <2>1 DEF Engine!SwapAndPop, Engine!Front, Engine!Last
<1> HIDE DEF j
<1>5. moved \in Seq(Module) /\ Len(moved) = n
  BY <1>1, <1>2, <1>3
<1>6. /\ SubSeq(moved, 1, n - 1) \in Seq(Module)
      /\ Len(SubSeq(moved, 1, n - 1)) = n - 1
      /\ \A i \in 1..(n - 1) : SubSeq(moved, 1, n - 1)[i] = moved[i]
  BY <1>1, <1>3, <1>5
<1>7. ASSUME NEW m \in Engine!InService, m # k
      PROVE  \E i \in 1..(n - 1) : moved[i] = m
  <2>1. PICK i \in 1..n : eModules[i] = m
    BY <1>1 DEF Engine!InService, Engine!ToSet
  <2>2. i # j
    BY <1>2, <1>7, <2>1
  <2>3. CASE i = n
    BY <1>1, <1>2, <2>1, <2>2, <2>3
  <2>4. CASE i # n
    BY <1>1, <1>2, <2>1, <2>2, <2>4
  <2> QED
    BY <2>3, <2>4
<1>8. ASSUME NEW m \in Engine!InService \ {k}
      PROVE  m \in Engine!ToSet(Engine!SwapAndPop(k))
  <2>1. PICK i \in 1..(n - 1) : moved[i] = m
    BY <1>7
  <2>2. DOMAIN SubSeq(moved, 1, n - 1) = 1..(n - 1)
    BY <1>3, <1>6
  <2>3. SubSeq(moved, 1, n - 1)[i] = m
    BY <1>6, <2>1
  <2> QED
    BY <1>4, <2>2, <2>3 DEF Engine!ToSet
<1> QED
  BY <1>4, <1>6, <1>8

LEMMA CheckKeepsEngine ==
  ASSUME EngineInv, NEW caller \in Consumer, NEW consumer \in Consumer,
         NEW p \in Payment, Engine!check(caller, consumer, p)
  PROVE  EngineInv'
<1>1. /\ consumer = caller
      /\ caller \in Vault => Engine!Permitted(p)
      /\ eBooked' = [l \in Ledger |-> Engine!Book(l, p, caller)]
      /\ eAdmitted' =
            IF caller \notin Vault THEN eAdmitted
            ELSE [l \in Ledger |-> IF l \in Engine!InService
                                     THEN [eAdmitted[l] EXCEPT ![caller] = @ + 1]
                                     ELSE eAdmitted[l]]
      /\ UNCHANGED <<eNow, eModules, ePending, eAnnounced>>
  BY DEF Engine!check, Engine!MayAdmitFor
<1>2. EngineTyped'
  <2>1. \A l \in Ledger : Engine!Book(l, p, caller) \in [Consumer -> Nat]
    BY DEF EngineInv, EngineTyped, Engine!Book
  <2>2. eBooked' \in [Ledger -> [Consumer -> Nat]]
    BY <1>1, <2>1
  <2>3. eAdmitted' \in [Ledger -> [Vault -> Nat]]
    BY <1>1 DEF EngineInv, EngineTyped
  <2> QED
    BY <1>1, <2>2, <2>3 DEF EngineInv, EngineTyped
<1>3. NoticeDated'
  BY <1>1 DEF EngineInv, NoticeDated
<1>4. caller \in Vault => Engine!Asked(p) = Engine!InService
  BY <1>1 DEF Engine!Permitted, Engine!Asked, Engine!InService, Engine!ToSet
<1>5. ASSUME NEW l \in Ledger, NEW v \in Vault
      PROVE  eBooked'[l][v] = eAdmitted'[l][v]
  <2>1. eBooked[l] \in [Consumer -> Nat] /\ eAdmitted[l] \in [Vault -> Nat] /\ v \in Consumer
    BY EngineAssumed DEF EngineInv, EngineTyped
  <2>2. eBooked[l][v] = eAdmitted[l][v]
    BY DEF EngineInv, Engine!BucketsExact
  <2>3. eBooked'[l] = Engine!Book(l, p, caller)
    BY <1>1
  <2>4. CASE caller \notin Vault
    BY <1>1, <2>1, <2>2, <2>3, <2>4 DEF Engine!Book
  <2>5. CASE caller \in Vault
    <3>1. eAdmitted'[l] = IF l \in Engine!InService
                            THEN [eAdmitted[l] EXCEPT ![caller] = @ + 1] ELSE eAdmitted[l]
      BY <1>1, <2>5
    <3>2. eBooked'[l] = IF l \in Engine!InService
                          THEN [eBooked[l] EXCEPT ![caller] = @ + 1] ELSE eBooked[l]
      BY <1>4, <2>3, <2>5 DEF Engine!Book
    <3> QED
      BY <2>1, <2>2, <3>1, <3>2
  <2> QED
    BY <2>4, <2>5
<1> QED
  BY <1>2, <1>3, <1>5 DEF EngineInv, Engine!BucketsExact

LEMMA EngineMoves ==
  ASSUME EngineInv, Engine!Next
  PROVE  EngineInv'
<1>1. ASSUME NEW m \in Module, Engine!addModule(m) PROVE EngineInv'
  <2>1. eModules' = Append(eModules, m) /\ eModules' \in Seq(Module)
    BY <1>1 DEF Engine!addModule, EngineInv, EngineTyped
  <2> QED
    BY <1>1, <2>1 DEF Engine!addModule, Engine!ledgers, EngineInv, EngineTyped, NoticeDated,
                      Engine!BucketsExact
<1>2. ASSUME NEW m \in Module, Engine!proposeRemoveModule(m) PROVE EngineInv'
  <2>1. EngineTyped'
    BY <1>2, EngineAssumed DEF Engine!proposeRemoveModule, Engine!ledgers, EngineInv, EngineTyped
  <2>2. NoticeDated'
    <3> SUFFICES ASSUME NEW k \in Module, ePending'[k] # 0
                 PROVE  /\ eAnnounced'[k] # Engine!Never
                        /\ ePending'[k] = eAnnounced'[k] + MODULE_REMOVAL_DELAY
      BY DEF NoticeDated
    <3>1. ePending'[m] = eNow + MODULE_REMOVAL_DELAY /\ eAnnounced'[m] = eNow /\ eNow \in Nat
      BY <1>2 DEF Engine!proposeRemoveModule, EngineInv, EngineTyped
    <3>2. CASE k = m
      BY <3>1, <3>2 DEF Engine!Never
    <3>3. CASE k # m
      BY <1>2, <3>3 DEF Engine!proposeRemoveModule, EngineInv, EngineTyped, NoticeDated
    <3> QED
      BY <3>2, <3>3
  <2>3. UNCHANGED <<eBooked, eAdmitted>>
    BY <1>2 DEF Engine!proposeRemoveModule, Engine!ledgers
  <2> QED
    BY <2>1, <2>2, <2>3 DEF EngineInv, Engine!BucketsExact
<1>3. ASSUME NEW m \in Module,
             \/ Engine!applyRemoveModule(m)
             \/ Engine!cancelRemoveModule(m)
      PROVE  EngineInv'
  <2>1. /\ \/ UNCHANGED eModules
           \/ m \in Engine!InService /\ eModules' = Engine!SwapAndPop(m)
        /\ ePending' = [ePending EXCEPT ![m] = 0]
        /\ eAnnounced' = [eAnnounced EXCEPT ![m] = Engine!Never]
        /\ UNCHANGED <<eNow, eBooked, eAdmitted>>
    BY <1>3 DEF Engine!applyRemoveModule, Engine!cancelRemoveModule, Engine!ClearPending,
                Engine!ledgers
  <2>2. eModules' \in Seq(Module)
    BY <2>1, SwapAndPopRemovesOne DEF EngineInv, EngineTyped
  <2>3. EngineTyped'
    BY <2>1, <2>2 DEF EngineInv, EngineTyped
  <2>4. NoticeDated'
    BY <2>1 DEF EngineInv, EngineTyped, NoticeDated
  <2> QED
    BY <2>1, <2>3, <2>4 DEF EngineInv, Engine!BucketsExact
<1>4. ASSUME \/ \E m \in Module : Engine!ModuleTurns(m)
             \/ \E c \in Consumer, allowed \in BOOLEAN : Engine!setAdmissionCaller(c, allowed)
             \/ Engine!Tick
      PROVE  EngineInv'
  <2>1. /\ eNow' = eNow \/ eNow' = eNow + 1
        /\ UNCHANGED <<eModules, ePending, eAnnounced, eBooked, eAdmitted>>
    BY <1>4 DEF Engine!ModuleTurns, Engine!setAdmissionCaller, Engine!Tick, Engine!ledgers
  <2> QED
    BY <2>1 DEF EngineInv, EngineTyped, NoticeDated, Engine!BucketsExact
<1> QED
  BY <1>1, <1>2, <1>3, <1>4, CheckKeepsEngine DEF Engine!Next

\* What drops out in a step of the engine was on notice.
LEMMA EngineEvictsOnNotice ==
  ASSUME EngineInv, Engine!Next, NEW m \in Engine!InService \ Engine!InService'
  PROVE  Engine!OnNotice(m)
<1>1. eModules \in Seq(Module)
  BY DEF EngineInv, EngineTyped
<1>2. ASSUME NEW k \in Module, Engine!addModule(k) PROVE FALSE
  <2>1. eModules' = Append(eModules, k)
    BY <1>2 DEF Engine!addModule
  <2>2. PICK i \in 1..Len(eModules) : eModules[i] = m
    BY <1>1 DEF Engine!InService, Engine!ToSet
  <2>3. i \in DOMAIN eModules' /\ eModules'[i] = m
    BY <1>1, <2>1, <2>2
  <2> QED
    BY <2>3 DEF Engine!InService, Engine!ToSet
<1>3. ASSUME NEW k \in Module, Engine!applyRemoveModule(k) PROVE Engine!OnNotice(m)
  <2>1. /\ ePending[k] # 0
        /\ eNow >= ePending[k]
        /\ eNow <= ePending[k] + MODULE_REMOVAL_GRACE_PERIOD
        /\ k \in Engine!InService
        /\ eModules' = Engine!SwapAndPop(k)
    BY <1>3 DEF Engine!applyRemoveModule
  <2>2. m = k
    BY <2>1, SwapAndPopRemovesOne DEF EngineInv, Engine!InService, Engine!ToSet
  <2>3. ePending[k] = eAnnounced[k] + MODULE_REMOVAL_DELAY /\ eAnnounced[k] \in Nat
    BY <2>1 DEF EngineInv, EngineTyped, NoticeDated
  <2>4. eNow \in Nat
    BY DEF EngineInv, EngineTyped
  <2> QED
    BY <2>1, <2>2, <2>3, <2>4, EngineAssumed DEF Engine!OnNotice, Engine!Never
<1>4. ASSUME UNCHANGED eModules PROVE FALSE
  BY <1>4 DEF Engine!InService
<1> QED
  BY <1>2, <1>3, <1>4 DEF Engine!Next, Engine!proposeRemoveModule, Engine!cancelRemoveModule,
     Engine!ModuleTurns, Engine!setAdmissionCaller, Engine!check, Engine!Tick

THEOREM EngineInvariant == PartsSpec => []EngineInv
<1>1. PartsInit => EngineInv
  BY EngineStarts DEF PartsInit
<1>2. EngineInv /\ [PartsNext]_<<part, rotation, ledger, engine, multisig, budget, control>>
        => EngineInv'
  <2>1. EngineInv /\ UNCHANGED engine => EngineInv'
    BY DEF engine, EngineInv, EngineTyped, NoticeDated, Engine!BucketsExact
  <2> QED
    BY <2>1, EngineMoves DEF PartsNext
<1> QED
  BY <1>1, <1>2, PTL DEF PartsSpec

\* BucketsExact: whoever may call check, with whatever modules in whatever order
\* and state, a bucket of a vault counts that vault's payments.
THEOREM VaultBucketsAreExact == PartsSpec => []BucketsExact
<1>1. EngineInv => BucketsExact
  BY DEF EngineInv, BucketsExact
<1> QED
  BY <1>1, EngineInvariant, PTL

\* EvictedOnNotice: swapping and popping takes the announced module out of the
\* list and no other, inside its own window.
THEOREM EvictionsAreAnnounced == PartsSpec => EvictedOnNotice
<1> DEFINE Announced == \A m \in Engine!InService \ Engine!InService' : Engine!OnNotice(m)
<1>1. EngineInv /\ [PartsNext]_<<part, rotation, ledger, engine, multisig, budget, control>>
        => [Announced]_Engine!vars
  <2>1. UNCHANGED engine => UNCHANGED Engine!vars
    BY DEF engine, Engine!vars
  <2>2. EngineInv /\ Engine!Next => Announced
    BY EngineEvictsOnNotice
  <2> QED
    BY <2>1, <2>2 DEF PartsNext
<1>2. EvictedOnNotice <=> [][Announced]_Engine!vars
  BY DEF EvictedOnNotice, Engine!EvictedOnNotice
<1> QED
  BY <1>1, <1>2, EngineInvariant, PTL DEF PartsSpec

-----------------------------------------------------------------------------
(* Lists. *)

LEMMA LeastNatural ==
  ASSUME NEW T, T \subseteq Nat, T # {}
  PROVE  \E x \in T : \A y \in T : x <= y
<1>1. IsWellFoundedOn(OpToRel(<, Nat), Nat)
  BY NatLessThanWellFounded
<1>2. PICK x \in T : \A y \in T : ~ (<<y, x>> \in OpToRel(<, Nat))
  BY <1>1, WFMin, Zenon
<1>3. \A y \in T : ~ (y < x)
  BY <1>2 DEF OpToRel
<1> QED
  BY <1>3

\* The code compares neighbours only; that orders the whole list.
LEMMA AscendingOrders ==
  ASSUME NEW s \in Seq(Nat), MultiSignature!Ascending(s),
         NEW i \in 1..Len(s), NEW j \in 1..Len(s), i < j
  PROVE  s[i] < s[j]
<1> DEFINE T == {k \in Nat : i < k /\ k <= Len(s) /\ ~ (s[i] < s[k])}
<1>1. SUFFICES ASSUME T # {} PROVE FALSE
  OBVIOUS
<1>2. PICK k \in T : \A y \in T : k <= y
  BY <1>1, LeastNatural
<1>3. k - 1 \in 1..(Len(s) - 1) /\ k \in 1..Len(s) /\ i <= k - 1
  BY <1>2
<1>4. s[k - 1] < s[k]
  BY <1>3 DEF MultiSignature!Ascending
<1>5. i = k - 1 \/ s[i] < s[k - 1]
  BY <1>2, <1>3
<1>6. s[i] \in Nat /\ s[k - 1] \in Nat /\ s[k] \in Nat
  BY <1>3
<1> QED
  BY <1>2, <1>4, <1>5, <1>6

LEMMA AscendingNeverRepeats ==
  ASSUME NEW s \in Seq(Nat), MultiSignature!Ascending(s),
         NEW i \in 1..Len(s), NEW j \in 1..Len(s), i # j
  PROVE  s[i] # s[j]
<1>1. s[i] \in Nat /\ s[j] \in Nat
  OBVIOUS
<1>2. CASE i < j
  BY <1>1, <1>2, AscendingOrders
<1>3. CASE j < i
  BY <1>1, <1>3, AscendingOrders
<1> QED
  BY <1>2, <1>3

\* A set holds as many elements as a list names that repeats none.
LEMMA SizeOfNamed ==
  ASSUME NEW n \in Nat, NEW S, IsFiniteSet(S), NEW f \in [1..n -> S],
         \A i, j \in 1..n : i # j => f[i] # f[j]
  PROVE  n <= Cardinality(S)
<1>1. f \in Injection(1..n, S)
  BY DEF Injection, IsInjective
<1>2. Cardinality(1..n) <= Cardinality(S)
  BY <1>1, FS_Injection
<1>3. Cardinality(1..n) = n
  BY FS_Interval
<1> QED
  BY <1>2, <1>3

LEMMA ListedAreFinite ==
  ASSUME NEW A, NEW s \in Seq(A)
  PROVE  IsFiniteSet(MultiSignature!ToSet(s))
<1>1. IsFiniteSet(1..Len(s))
  BY FS_Interval
<1>2. s \in Surjection(1..Len(s), MultiSignature!ToSet(s))
  BY DEF Surjection, MultiSignature!ToSet
<1> QED
  BY <1>1, <1>2, FS_Surjection

-----------------------------------------------------------------------------
(* The multi-signature vault. *)

VaultRecord ==
    [exists : BOOLEAN, ecdsaSigners : Seq(Signer), ecdsaThreshold : Nat,
     pqPublicKeys : Seq(PqKey), pqThreshold : Nat, nonce : Nat, balance : Int]

\* What createVault saw to.
WellFormed(v) ==
    v.exists => /\ v.ecdsaThreshold # 0
                /\ v.pqThreshold # 0
                /\ \A i, j \in DOMAIN v.pqPublicKeys :
                      v.pqPublicKeys[i] = v.pqPublicKeys[j] => i = j

MultiSigInv ==
    /\ mVaults \in [Owner -> VaultRecord]
    /\ \A o \in Owner : WellFormed(mVaults[o])

LEMMA SignersAssumed ==
    (\A s \in Signer : s \in Nat) /\ (\A a \in Amount : a \in Nat) /\ MaxList \in Nat
BY PartsAssumption DEF MultiSignature!MultiSigAssumption

LEMMA ListsAreSequences ==
  ASSUME NEW S, NEW s \in MultiSignature!Lists(S)
  PROVE  s \in Seq(S)
<1>1. PICK n \in 0..MaxList : s \in [1..n -> S]
  BY DEF MultiSignature!Lists
<1>2. n \in Nat
  BY SignersAssumed
<1> QED
  BY <1>1, <1>2

LEMMA MultiSigStarts == MultiSignature!Init => MultiSigInv
<1> SUFFICES ASSUME MultiSignature!Init PROVE MultiSigInv
  OBVIOUS
<1>1. mVaults = [o \in Owner |-> MultiSignature!NoVault]
  BY DEF MultiSignature!Init
<1>2. MultiSignature!NoVault \in VaultRecord /\ ~ MultiSignature!NoVault.exists
  BY DEF MultiSignature!NoVault, VaultRecord
<1> QED
  BY <1>1, <1>2 DEF MultiSigInv, WellFormed

LEMMA CreateKeepsMultiSig ==
  ASSUME MultiSigInv, NEW o \in Owner, NEW signers \in Seq(Signer), NEW keys \in Seq(PqKey),
         NEW m \in Nat, NEW p \in Nat, MultiSignature!createVault(o, signers, m, keys, p)
  PROVE  MultiSigInv'
<1> DEFINE v == [exists |-> TRUE, ecdsaSigners |-> signers, ecdsaThreshold |-> m,
                 pqPublicKeys |-> keys, pqThreshold |-> p, nonce |-> 0, balance |-> 0]
<1>1. /\ mVaults' = [mVaults EXCEPT ![o] = v]
      /\ MultiSignature!Enough(signers, m)
      /\ MultiSignature!Enough(keys, p)
  BY DEF MultiSignature!createVault
<1>2. v \in VaultRecord
  BY DEF VaultRecord
<1>3. WellFormed(v)
  BY <1>1 DEF WellFormed, MultiSignature!Enough, MultiSignature!IsInjective
<1> QED
  BY <1>1, <1>2, <1>3 DEF MultiSigInv

\* Deposits and payments leave the lists and the thresholds alone.
LEMMA BalanceKeepsMultiSig ==
  ASSUME MultiSigInv, NEW o \in Owner, NEW n \in Nat, NEW b \in Int,
         mVaults' = [mVaults EXCEPT ![o] = [mVaults[o] EXCEPT !.nonce = n, !.balance = b]]
  PROVE  MultiSigInv'
<1> DEFINE v == [mVaults[o] EXCEPT !.nonce = n, !.balance = b]
<1>1. mVaults[o] \in VaultRecord /\ WellFormed(mVaults[o])
  BY DEF MultiSigInv
<1>2. v \in VaultRecord
  BY <1>1 DEF VaultRecord
<1>3. /\ v.exists = mVaults[o].exists
      /\ v.ecdsaThreshold = mVaults[o].ecdsaThreshold
      /\ v.pqThreshold = mVaults[o].pqThreshold
      /\ v.pqPublicKeys = mVaults[o].pqPublicKeys
  BY <1>1 DEF VaultRecord
<1>4. WellFormed(v)
  BY <1>1, <1>3 DEF WellFormed
<1> QED
  BY <1>2, <1>4 DEF MultiSigInv

LEMMA MultiSigMoves ==
  ASSUME MultiSigInv, MultiSignature!Next
  PROVE  MultiSigInv'
<1>1. ASSUME NEW o \in Owner, NEW signers \in MultiSignature!Lists(Signer),
             NEW keys \in MultiSignature!Lists(PqKey),
             NEW m \in MultiSignature!Threshold, NEW p \in MultiSignature!Threshold,
             MultiSignature!createVault(o, signers, m, keys, p)
      PROVE  MultiSigInv'
  <2>1. signers \in Seq(Signer) /\ keys \in Seq(PqKey)
    BY ListsAreSequences
  <2>2. m \in Nat /\ p \in Nat
    BY SignersAssumed DEF MultiSignature!Threshold
  <2> QED
    BY <1>1, <2>1, <2>2, CreateKeepsMultiSig
<1>2. ASSUME NEW o \in Owner, NEW a \in Amount, MultiSignature!deposit(o, a) PROVE MultiSigInv'
  <2>1. mVaults[o] \in VaultRecord /\ a \in Int
    BY SignersAssumed DEF MultiSigInv
  <2>2. mVaults[o].nonce \in Nat /\ mVaults[o].balance + a \in Int
    BY <2>1 DEF VaultRecord
  <2>3. mVaults' = [mVaults EXCEPT ![o] = [mVaults[o] EXCEPT !.balance = mVaults[o].balance + a]]
    BY <1>2 DEF MultiSignature!deposit, MultiSigInv
  <2>4. [mVaults[o] EXCEPT !.balance = mVaults[o].balance + a]
          = [mVaults[o] EXCEPT !.nonce = mVaults[o].nonce, !.balance = mVaults[o].balance + a]
    BY <2>1 DEF VaultRecord
  <2> QED
    BY <2>2, <2>3, <2>4, BalanceKeepsMultiSig
<1>3. ASSUME NEW r \in MultiSignature!Request, NEW signers, NEW indices,
             MultiSignature!withdraw(r, signers, indices)
      PROVE  MultiSigInv'
  <2> DEFINE o == r.vaultOwner
             v == mVaults[o]
  <2>0. o \in Owner /\ r.amount \in Amount
    BY DEF MultiSignature!Request
  <2>1. o \in Owner /\ r.amount \in Int
    BY <2>0, SignersAssumed
  <2>2. v \in VaultRecord
    BY <2>1 DEF MultiSigInv
  <2>3. v.nonce + 1 \in Nat /\ v.balance - r.amount \in Int
    BY <2>1, <2>2 DEF VaultRecord
  <2>4. mVaults' = [mVaults EXCEPT ![o] = [v EXCEPT !.nonce = v.nonce + 1,
                                                    !.balance = v.balance - r.amount]]
    BY <1>3, <2>2 DEF MultiSignature!withdraw, MultiSignature!Pay, VaultRecord
  <2> HIDE DEF o
  <2> QED
    BY <2>1, <2>3, <2>4, BalanceKeepsMultiSig
<1>4. ASSUME UNCHANGED mVaults PROVE MultiSigInv'
  BY <1>4 DEF MultiSigInv, WellFormed
<1> QED
  BY <1>1, <1>2, <1>3, <1>4 DEF MultiSignature!Next, MultiSignature!SetPaused,
     MultiSignature!VerifierChanges, MultiSignature!Sign, MultiSignature!Tick

\* Every name in an ascending list of good signatures counts once.
LEMMA EnoughSigned ==
  ASSUME MultiSigInv, NEW r \in MultiSignature!Request,
         NEW signers \in Seq(Signer), NEW indices \in Seq(1..MaxList),
         mVaults[r.vaultOwner].exists,
         MultiSignature!Verified(mVaults[r.vaultOwner], r, signers, indices)
  PROVE  MultiSignature!Backed(mVaults[r.vaultOwner], r)
<1> DEFINE v == mVaults[r.vaultOwner]
<1>1. v \in VaultRecord /\ WellFormed(v) /\ v.exists
  BY DEF MultiSigInv, MultiSignature!Request
<1>2. /\ v.ecdsaSigners \in Seq(Signer) /\ v.pqPublicKeys \in Seq(PqKey)
      /\ v.ecdsaThreshold \in Nat \ {0} /\ v.pqThreshold \in Nat \ {0}
  BY <1>1 DEF VaultRecord, WellFormed
<1> HIDE DEF v
<1>3. /\ Len(signers) >= v.ecdsaThreshold
      /\ Len(indices) >= v.pqThreshold
      /\ MultiSignature!Ascending(signers)
      /\ MultiSignature!Ascending(indices)
      /\ \A s \in MultiSignature!ToSet(signers) : s \in MultiSignature!SignersOf(v, r)
      /\ \A i \in MultiSignature!ToSet(indices) :
            /\ i \in DOMAIN v.pqPublicKeys
            /\ MultiSignature!VerifiesPQ(v.pqPublicKeys[i], r)
  BY DEF MultiSignature!Verified, MultiSignature!SignersOf, v
<1>4. signers \in Seq(Nat) /\ indices \in Seq(Nat)
  <2>1. \A i \in 1..Len(signers) : signers[i] \in Nat
    BY SignersAssumed
  <2>2. \A i \in 1..Len(indices) : indices[i] \in Nat
    BY SignersAssumed
  <2> QED
    BY <2>1, <2>2
<1>5. Cardinality(MultiSignature!SignersOf(v, r)) >= v.ecdsaThreshold
  <2> DEFINE S == MultiSignature!SignersOf(v, r)
  <2>1. IsFiniteSet(S)
    BY <1>2, ListedAreFinite, FS_Subset DEF MultiSignature!SignersOf
  <2>2. signers \in [1..Len(signers) -> S]
    BY <1>3 DEF MultiSignature!ToSet
  <2>3. \A i, j \in 1..Len(signers) : i # j => signers[i] # signers[j]
    BY <1>3, <1>4, AscendingNeverRepeats
  <2>4. Len(signers) <= Cardinality(S)
    BY <2>1, <2>2, <2>3, SizeOfNamed
  <2> QED
    BY <1>2, <1>3, <2>1, <2>4, FS_CardinalityType
<1>6. ASSUME mVerifier = "honest"
      PROVE  Cardinality(MultiSignature!PqKeysOf(v, r)) >= v.pqThreshold
  <2> DEFINE S == MultiSignature!PqKeysOf(v, r)
             key == [i \in 1..Len(indices) |-> v.pqPublicKeys[indices[i]]]
  <2>1. IsFiniteSet(S)
    BY <1>2, ListedAreFinite, FS_Subset DEF MultiSignature!PqKeysOf
  <2>2. \A i \in 1..Len(indices) :
           indices[i] \in DOMAIN v.pqPublicKeys /\ v.pqPublicKeys[indices[i]] \in S
    BY <1>3, <1>6 DEF MultiSignature!ToSet, MultiSignature!VerifiesPQ, MultiSignature!PqKeysOf
  <2>3. key \in [1..Len(indices) -> S]
    BY <2>2
  <2>4. \A i, j \in 1..Len(indices) : i # j => indices[i] # indices[j]
    BY <1>3, <1>4, AscendingNeverRepeats
  <2>5. \A i, j \in 1..Len(indices) : i # j => key[i] # key[j]
    BY <1>1, <2>2, <2>4 DEF WellFormed
  <2> HIDE DEF key
  <2>6. Len(indices) <= Cardinality(S)
    BY <2>1, <2>3, <2>5, SizeOfNamed
  <2> QED
    BY <1>2, <1>3, <2>1, <2>6, FS_CardinalityType
<1>7. mVerifier # "halted"
  <2>1. 1 \in DOMAIN indices
    BY <1>2, <1>3
  <2>2. MultiSignature!VerifiesPQ(v.pqPublicKeys[indices[1]], r)
    BY <1>3, <2>1 DEF MultiSignature!ToSet
  <2> QED
    BY <2>2 DEF MultiSignature!VerifiesPQ
<1>8. \A S : MultiSignature!Cardinality(S) = Cardinality(S)
  BY DEF MultiSignature!Cardinality, Cardinality
<1> QED
  BY <1>5, <1>6, <1>7, <1>8 DEF MultiSignature!Backed, v

THEOREM MultiSigInvariant == PartsSpec => []MultiSigInv
<1>1. PartsInit => MultiSigInv
  BY MultiSigStarts DEF PartsInit
<1>2. MultiSigInv /\ [PartsNext]_<<part, rotation, ledger, engine, multisig, budget, control>>
        => MultiSigInv'
  <2>1. MultiSigInv /\ UNCHANGED multisig => MultiSigInv'
    BY DEF multisig, MultiSigInv, WellFormed
  <2> QED
    BY <2>1, MultiSigMoves DEF PartsNext
<1> QED
  BY <1>1, <1>2, PTL DEF PartsSpec

\* PaidWithThresholds: whoever submits whatever list, _verifySignatures counts no
\* signer and no key twice.
THEOREM PaymentsReachThresholds == PartsSpec => PaidWithThresholds
<1> DEFINE AllBacked ==
             \A r \in mSpent' \ mSpent : MultiSignature!Backed(mVaults[r.vaultOwner], r)
<1>1. MultiSigInv /\ MultiSignature!Next => AllBacked
  <2> SUFFICES ASSUME MultiSigInv, MultiSignature!Next, NEW r \in mSpent' \ mSpent
               PROVE  MultiSignature!Backed(mVaults[r.vaultOwner], r)
    OBVIOUS
  <2>1. PICK q \in MultiSignature!Request, signers \in MultiSignature!Lists(Signer),
             indices \in MultiSignature!Lists(1..MaxList) :
               MultiSignature!withdraw(q, signers, indices)
    BY DEF MultiSignature!Next, MultiSignature!createVault, MultiSignature!deposit,
           MultiSignature!SetPaused, MultiSignature!VerifierChanges, MultiSignature!Sign,
           MultiSignature!Tick
  <2>2. /\ mVaults[q.vaultOwner].exists
        /\ MultiSignature!Verified(mVaults[q.vaultOwner], q, signers, indices)
        /\ mSpent' = mSpent \cup {q}
    BY <2>1 DEF MultiSignature!withdraw
  <2>3. r = q
    BY <2>2
  <2>4. signers \in Seq(Signer) /\ indices \in Seq(1..MaxList)
    BY ListsAreSequences
  <2> QED
    BY <2>2, <2>3, <2>4, EnoughSigned
<1>2. MultiSigInv /\ [PartsNext]_<<part, rotation, ledger, engine, multisig, budget, control>>
        => [AllBacked]_MultiSignature!vars
  <2>1. UNCHANGED multisig => UNCHANGED MultiSignature!vars
    BY DEF multisig, MultiSignature!vars
  <2> HIDE DEF AllBacked
  <2> QED
    BY <1>1, <2>1 DEF PartsNext
<1>3. PaidWithThresholds <=> [][AllBacked]_MultiSignature!vars
  BY DEF PaidWithThresholds, MultiSignature!PaidWithThresholds
<1> QED
  BY <1>2, <1>3, MultiSigInvariant, PTL DEF PartsSpec

-----------------------------------------------------------------------------
(* The containment budget, for episodes and windows of every length: the   *)
(* two starts that the code stores keep all episodes so far apart that no  *)
(* window holds more than the budget.                                      *)

USE BudgetAssumption

LEMMA BudgetCounts == \A S : Budget!Cardinality(S) = Cardinality(S)
  BY DEF Budget!Cardinality, Cardinality

LEMMA IntervalSize ==
    ASSUME NEW a \in Int, NEW b \in Int
    PROVE  /\ IsFiniteSet(a..b)
           /\ Cardinality(a..b) \in Nat
           /\ a <= b + 1 => Cardinality(a..b) = b - a + 1
           /\ a > b => Cardinality(a..b) = 0
<1>1. IsFiniteSet(a..b) /\ Cardinality(a..b) = IF a > b THEN 0 ELSE b - a + 1
  BY FS_Interval
<1>2. Cardinality(a..b) \in Nat
  BY <1>1, FS_CardinalityType
<1> QED  BY <1>1, <1>2

LEMMA UnionSize ==
    ASSUME NEW A, NEW B, IsFiniteSet(A), IsFiniteSet(B)
    PROVE  /\ IsFiniteSet(A \cup B)
           /\ Cardinality(A \cup B) <= Cardinality(A) + Cardinality(B)
<1>1. /\ IsFiniteSet(A \cup B)
      /\ Cardinality(A \cup B) = Cardinality(A) + Cardinality(B) - Cardinality(A \cap B)
  BY FS_Union
<1>2. IsFiniteSet(A \cap B)
  BY FS_Subset
<1>3. Cardinality(A \cap B) \in Nat /\ Cardinality(A) \in Nat /\ Cardinality(B) \in Nat
  BY <1>2, FS_CardinalityType
<1> QED  BY <1>1, <1>3

\* A set covered by three intervals is at most as large as they are together.
LEMMA ThreeIntervals ==
    ASSUME NEW D,
           NEW a1 \in Int, NEW a2 \in Int, a1 <= a2 + 1,
           NEW b1 \in Int, NEW b2 \in Int, b1 <= b2 + 1,
           NEW c1 \in Int, NEW c2 \in Int, c1 <= c2 + 1,
           D \subseteq (a1..a2 \cup b1..b2) \cup c1..c2,
           (a2 - a1 + 1) + (b2 - b1 + 1) + (c2 - c1 + 1) <= CONTAINMENT_BUDGET
    PROVE  Cardinality(D) <= CONTAINMENT_BUDGET
<1>1. /\ IsFiniteSet(a1..a2) /\ Cardinality(a1..a2) = a2 - a1 + 1
      /\ IsFiniteSet(b1..b2) /\ Cardinality(b1..b2) = b2 - b1 + 1
      /\ IsFiniteSet(c1..c2) /\ Cardinality(c1..c2) = c2 - c1 + 1
  BY IntervalSize
<1>2. /\ IsFiniteSet(a1..a2 \cup b1..b2)
      /\ Cardinality(a1..a2 \cup b1..b2) <= (a2 - a1 + 1) + (b2 - b1 + 1)
  BY <1>1, UnionSize
<1> DEFINE U == (a1..a2 \cup b1..b2) \cup c1..c2
<1>3. /\ IsFiniteSet(U)
      /\ Cardinality(U) <= Cardinality(a1..a2 \cup b1..b2) + (c2 - c1 + 1)
  BY <1>1, <1>2, UnionSize
<1>4. IsFiniteSet(D) /\ Cardinality(D) <= Cardinality(U)
  BY <1>3, FS_Subset
<1>5. /\ Cardinality(D) \in Nat /\ Cardinality(U) \in Nat
      /\ Cardinality(a1..a2 \cup b1..b2) \in Nat
  BY <1>2, <1>3, <1>4, FS_CardinalityType
<1> HIDE DEF U
<1> QED  BY <1>2, <1>3, <1>4, <1>5

-----------------------------------------------------------------------------
(* Episodes far enough apart keep the budget *)

Apart(S) ==
    /\ \A a, b \in S : a < b => a + CONTAINMENT_MAX <= b
    /\ \A a, b, c \in S : a < b /\ b < c => a + CONTAINMENT_WINDOW <= c

Covered(C, S) == \A x \in C : \E s \in S : s <= x /\ x < s + CONTAINMENT_MAX

\* The heart of the two-start rule: of the episodes that meet a window, either
\* there are two, or the first and the last are cut by its edges and are
\* together no longer than one.
LEMMA ApartKeepsBudget ==
    ASSUME NEW S, NEW C, NEW t \in Nat,
           S \subseteq Nat, C \subseteq Nat, Apart(S), Covered(C, S)
    PROVE  Cardinality(C \cap Budget!Window(t)) <= CONTAINMENT_BUDGET
<1> DEFINE MAX == CONTAINMENT_MAX
           W == CONTAINMENT_WINDOW
           D == C \cap Budget!Window(t)
           Met == {s \in S : s < t + W /\ t < s + MAX}
<1>0. MAX \in Nat /\ MAX > 0 /\ W \in Nat /\ CONTAINMENT_BUDGET = MAX + MAX
  BY SMT
<1>1. \A x \in D : x \in Nat /\ t <= x /\ x <= t + W - 1
  BY <1>0 DEF Budget!Window
<1>2. \A x \in D : \E s \in Met : s <= x /\ x < s + MAX
  BY <1>0, <1>1 DEF Covered
<1>3. \A s \in Met : s \in Nat /\ s < t + W /\ t < s + MAX
  OBVIOUS
<1>4. \A a, b \in Met : a < b => a + MAX <= b
  BY DEF Apart
<1>5. \A a, b, c \in Met : a < b /\ b < c => a + W <= c
  BY DEF Apart
<1> HIDE DEF D, Met, MAX, W
<1>a. CASE \E a, c \in Met : a + W <= c
  <2>1. PICK a \in Met, c \in Met : a + W <= c
    BY <1>a
  <2>2. \A s \in Met : s = a \/ s = c \/ (a < s /\ s < c)
    BY <1>0, <1>3, <1>4, <2>1
  <2>3. \A r, s \in Met : ~ (a < r /\ r < s /\ s < c)
    <3> SUFFICES ASSUME NEW r \in Met, NEW s \in Met, a < r, r < s, s < c
                 PROVE  FALSE
      OBVIOUS
    <3>1. a + MAX <= r
      BY <1>4
    <3>2. r + W <= c
      BY <1>5
    <3> QED  BY <3>1, <3>2, <1>0, <1>3
  <2>4. PICK b \in Int : \A s \in Met : s = a \/ s = b \/ s = c
    <3>1. CASE \E s \in Met : a < s /\ s < c
      <4>1. PICK s \in Met : a < s /\ s < c
        BY <3>1
      <4>2. \A r \in Met : r = a \/ r = s \/ r = c
        BY <4>1, <2>2, <2>3, <1>3
      <4> QED  BY <4>2, <1>3
    <3>2. CASE ~ \E s \in Met : a < s /\ s < c
      <4>1. \A r \in Met : r = a \/ r = 0 \/ r = c
        BY <3>2, <2>2
      <4> QED  BY <4>1
    <3> QED  BY <3>1, <3>2
  <2>5. a \in Nat /\ c \in Nat /\ t < a + MAX /\ c < t + W
    BY <1>3
  <2>6. D \subseteq (t..(a + MAX - 1) \cup b..(b + MAX - 1)) \cup c..(t + W - 1)
    <3> SUFFICES ASSUME NEW x \in D
                 PROVE  x \in t..(a + MAX - 1) \/ x \in b..(b + MAX - 1) \/ x \in c..(t + W - 1)
      OBVIOUS
    <3>1. PICK s \in Met : s <= x /\ x < s + MAX
      BY <1>2
    <3> QED  BY <3>1, <2>4, <2>5, <1>0, <1>1, <1>3
  <2>8. /\ t \in Int /\ a + MAX - 1 \in Int /\ t <= (a + MAX - 1) + 1
        /\ b \in Int /\ b + MAX - 1 \in Int /\ b <= (b + MAX - 1) + 1
        /\ c \in Int /\ t + W - 1 \in Int /\ c <= (t + W - 1) + 1
    BY <2>5, <1>0
  <2>9. PICK e \in Int, f \in Int, g \in Int :
            e = a + MAX - 1 /\ f = b + MAX - 1 /\ g = t + W - 1
    BY <2>8
  <2>10. /\ t \in Int /\ b \in Int /\ c \in Int /\ t <= e + 1 /\ b <= f + 1 /\ c <= g + 1
         /\ (e - t + 1) + (f - b + 1) + (g - c + 1) <= CONTAINMENT_BUDGET
    BY <1>0, <2>1, <2>5, <2>8, <2>9
  <2>11. D \subseteq (t..e \cup b..f) \cup c..g
    BY <2>6, <2>9
  <2>12. Cardinality(D) <= CONTAINMENT_BUDGET
    BY <2>10, <2>11, ThreeIntervals
  <2> QED  BY <2>12 DEF D
<1>b. CASE ~ \E a, c \in Met : a + W <= c
  <2>1. \A r, s, u \in Met : ~ (r < s /\ s < u)
    BY <1>b, <1>5
  <2>2. PICK a \in Int, b \in Int : \A s \in Met : s = a \/ s = b
    <3>1. CASE Met = {}
      BY <3>1
    <3>2. CASE Met # {}
      <4>1. PICK a \in Met : TRUE
        BY <3>2
      <4>2. CASE \A s \in Met : s = a
        BY <4>2, <1>3
      <4>3. CASE \E s \in Met : s # a
        <5>1. PICK b \in Met : b # a
          BY <4>3
        <5>2. \A s \in Met : s = a \/ s = b
          BY <5>1, <2>1, <1>3
        <5> QED  BY <5>2, <1>3
      <4> QED  BY <4>2, <4>3
    <3> QED  BY <3>1, <3>2
  <2>3. D \subseteq (a..(a + MAX - 1) \cup b..(b + MAX - 1)) \cup 1..0
    BY <2>2, <1>0, <1>1, <1>2, <1>3
  <2>5. /\ a + MAX - 1 \in Int /\ a <= (a + MAX - 1) + 1
        /\ b + MAX - 1 \in Int /\ b <= (b + MAX - 1) + 1
        /\ 1 \in Int /\ 0 \in Int /\ 1 <= 0 + 1
    BY <1>0
  <2>6. PICK e \in Int, f \in Int, x \in Int, y \in Int :
            e = a + MAX - 1 /\ f = b + MAX - 1 /\ x = 1 /\ y = 0
    BY <2>5
  <2>7. /\ a <= e + 1 /\ b <= f + 1 /\ x <= y + 1
        /\ (e - a + 1) + (f - b + 1) + (y - x + 1) <= CONTAINMENT_BUDGET
    BY <1>0, <2>5, <2>6
  <2>8. D \subseteq (a..e \cup b..f) \cup x..y
    BY <2>3, <2>6
  <2>9. Cardinality(D) <= CONTAINMENT_BUDGET
    BY <2>7, <2>8, ThreeIntervals
  <2> QED  BY <2>9 DEF D
<1> QED  BY <1>a, <1>b

-----------------------------------------------------------------------------
(* The inductive invariant *)

BudgetTyped ==
    /\ cNow \in Nat \ {0}
    /\ cState \in Budget!SafeState
    /\ cUntil \in Nat
    /\ cPrevious \in Nat
    /\ cEarlier \in Nat
    /\ cStarts \subseteq Nat
    /\ cContainedAt \subseteq Nat

\* What the stored words say of the episodes: the last and the one before it.
LastStored ==
    IF cUntil = 0
    THEN cStarts = {} /\ cState # "CONTAINED"
    ELSE /\ Budget!LastStart \in cStarts
         /\ 0 < Budget!LastStart /\ Budget!LastStart <= cNow
         /\ \A s \in cStarts : s <= Budget!LastStart
         /\ cState # "NORMAL"

PreviousStored ==
    IF cPrevious = 0
    THEN \A s \in cStarts : s = Budget!LastStart
    ELSE \A s \in cStarts : s = Budget!LastStart \/ s <= cPrevious

EpisodesCover == Covered(cContainedAt, cStarts)

BudgetInv == BudgetTyped /\ LastStored /\ PreviousStored /\ EpisodesCover /\ Apart(cStarts)

LEMMA BudgetStarts == Budget!Init => BudgetInv
  BY DEF Budget!Init, Budget!ContainmentInit, BudgetInv, BudgetTyped, LastStored,
     PreviousStored, EpisodesCover,
         Apart, Covered, Budget!SafeState

LEMMA EnterKeepsBudget ==
    ASSUME BudgetInv, Budget!enterContainment
    PROVE  BudgetInv'
<1> DEFINE last == cUntil - CONTAINMENT_MAX
<1>0. /\ CONTAINMENT_MAX \in Nat /\ CONTAINMENT_MAX > 0 /\ CONTAINMENT_WINDOW \in Nat
      /\ cNow \in Nat /\ cNow > 0 /\ cUntil \in Nat /\ cStarts \subseteq Nat
      /\ cPrevious \in Nat
  BY DEF BudgetInv, BudgetTyped
<1>1. /\ cNow' = cNow /\ cStarts' = cStarts \cup {cNow} /\ cContainedAt' = cContainedAt
      /\ cUntil' = cNow + CONTAINMENT_MAX
      /\ cPrevious' = Budget!LastStart
      /\ cEarlier' = cPrevious
      /\ cState' = "CONTAINED"
  BY DEF Budget!enterContainment, Budget!Contain
<1>2. Budget!LastStart' = cNow
  BY <1>0, <1>1 DEF Budget!LastStart
<1>3. cStarts = {} \/ (cUntil # 0 /\ cNow >= cUntil)
  BY DEF Budget!enterContainment, Budget!Contain, Budget!MayContain, Budget!EffectiveState,
     BudgetInv, LastStored
<1>4. \A s \in cStarts : s + CONTAINMENT_MAX <= cNow
  <2>1. cUntil # 0 => Budget!LastStart = cUntil - CONTAINMENT_MAX
    BY DEF Budget!LastStart
  <2> QED  BY <1>0, <1>3, <2>1 DEF BudgetInv, LastStored
<1>5. \A a, b \in cStarts : a < b => a + CONTAINMENT_WINDOW <= cNow
  <2> SUFFICES ASSUME NEW a \in cStarts, NEW b \in cStarts, a < b
               PROVE  a + CONTAINMENT_WINDOW <= cNow
    OBVIOUS
  <2>1. b <= Budget!LastStart /\ Budget!LastStart \in Nat
    BY <1>0 DEF BudgetInv, LastStored
  <2>2. a # Budget!LastStart
    BY <1>0, <2>1
  <2>3. cPrevious # 0 /\ a <= cPrevious
    BY <2>2 DEF BudgetInv, PreviousStored
  <2>4. cNow >= cPrevious + CONTAINMENT_WINDOW
    BY <2>3 DEF Budget!enterContainment, Budget!Contain, Budget!BudgetAllows
  <2> QED  BY <1>0, <2>3, <2>4
<1>6. BudgetTyped'
  <2>1. Budget!LastStart \in Nat
    BY <1>0 DEF BudgetInv, LastStored, Budget!LastStart
  <2> QED  BY <1>0, <1>1, <2>1 DEF BudgetInv, BudgetTyped, Budget!SafeState
<1>7. LastStored'
  BY <1>0, <1>1, <1>2, <1>4 DEF LastStored
<1>8. PreviousStored'
  <2>1. Budget!LastStart = 0 => cStarts = {}
    BY DEF BudgetInv, LastStored
  <2>2. Budget!LastStart # 0 => \A s \in cStarts : s <= Budget!LastStart
    BY DEF BudgetInv, LastStored, Budget!LastStart
  <2> QED  BY <1>1, <1>2, <2>1, <2>2 DEF PreviousStored
<1>9. EpisodesCover'
  BY <1>1 DEF BudgetInv, EpisodesCover, Covered
<1>10. Apart(cStarts)'
  <2>1. \A a, b \in cStarts' : a < b => a + CONTAINMENT_MAX <= b
    BY <1>0, <1>1, <1>4 DEF BudgetInv, Apart
  <2>2. \A a, b, c \in cStarts' : a < b /\ b < c => a + CONTAINMENT_WINDOW <= c
    <3> SUFFICES ASSUME NEW a \in cStarts', NEW b \in cStarts', NEW c \in cStarts', a < b, b < c
                 PROVE  a + CONTAINMENT_WINDOW <= c
      OBVIOUS
    <3>1. a \in cStarts /\ b \in cStarts
      BY <1>0, <1>1, <1>4
    <3>2. CASE c \in cStarts
      BY <3>1, <3>2 DEF BudgetInv, Apart
    <3>3. CASE c = cNow
      BY <3>1, <3>3, <1>5
    <3> QED  BY <3>2, <3>3, <1>1
  <2> QED  BY <2>1, <2>2 DEF Apart
<1> QED  BY <1>6, <1>7, <1>8, <1>9, <1>10 DEF BudgetInv

LEMMA TickKeepsBudget ==
    ASSUME BudgetInv, Budget!Tick
    PROVE  BudgetInv'
<1>1. /\ cNow' = cNow + 1 /\ cStarts' = cStarts
      /\ UNCHANGED <<cState, cUntil, cPrevious, cEarlier>>
  BY DEF Budget!Tick, Budget!containment
<1>2. Budget!LastStart' = Budget!LastStart
  BY <1>1 DEF Budget!LastStart
<1>3. BudgetTyped' /\ LastStored' /\ PreviousStored' /\ Apart(cStarts)'
  <2>1. BudgetTyped'
    BY <1>1 DEF BudgetInv, BudgetTyped, Budget!Tick
  <2>2. LastStored'
    BY <1>1, <1>2 DEF BudgetInv, BudgetTyped, LastStored, Budget!LastStart
  <2>3. PreviousStored' /\ Apart(cStarts)'
    BY <1>1, <1>2 DEF BudgetInv, PreviousStored, Apart
  <2> QED  BY <2>1, <2>2, <2>3
<1>4. EpisodesCover'
  <2>1. CASE Budget!EffectiveState = "CONTAINED"
    <3>1. cUntil # 0 /\ cNow < cUntil
      BY <2>1 DEF Budget!EffectiveState, BudgetInv, BudgetTyped, LastStored
    <3>2. Budget!LastStart \in cStarts /\ Budget!LastStart <= cNow
          /\ cNow < Budget!LastStart + CONTAINMENT_MAX
      BY <3>1 DEF BudgetInv, BudgetTyped, LastStored, Budget!LastStart
    <3>3. cContainedAt' = cContainedAt \cup {cNow}
      BY <2>1 DEF Budget!Tick
    <3> QED  BY <1>1, <3>2, <3>3 DEF BudgetInv, EpisodesCover, Covered
  <2>2. CASE Budget!EffectiveState # "CONTAINED"
    BY <1>1, <2>2 DEF Budget!Tick, BudgetInv, EpisodesCover, Covered
  <2> QED  BY <2>1, <2>2
<1> QED  BY <1>3, <1>4 DEF BudgetInv

LEMMA LeavingKeepsBudget ==
    ASSUME BudgetInv, Budget!bindMigration \/ Budget!retire
    PROVE  BudgetInv'
<1>1. /\ UNCHANGED <<cNow, cStarts, cContainedAt, cUntil, cPrevious, cEarlier>>
      /\ cState' \in {"MIGRATION_ONLY", "RETIRED"}
  BY DEF Budget!bindMigration, Budget!retire, Budget!LeaveFor
<1>2. Budget!LastStart' = Budget!LastStart
  BY <1>1 DEF Budget!LastStart
<1> QED  BY <1>1, <1>2 DEF BudgetInv, BudgetTyped, LastStored, PreviousStored, EpisodesCover,
            Covered, Apart, Budget!SafeState

LEMMA BudgetStep == BudgetInv /\ [Budget!Next]_Budget!vars => BudgetInv'
<1> SUFFICES ASSUME BudgetInv, [Budget!Next]_Budget!vars
             PROVE  BudgetInv'
  OBVIOUS
<1>1. CASE Budget!enterContainment
  BY <1>1, EnterKeepsBudget
<1>2. CASE Budget!bindMigration \/ Budget!retire
  BY <1>2, LeavingKeepsBudget
<1>3. CASE Budget!Tick
  BY <1>3, TickKeepsBudget
<1>4. CASE UNCHANGED Budget!vars
  <2>1. Budget!LastStart' = Budget!LastStart
    BY <1>4 DEF Budget!vars, Budget!containment, Budget!LastStart
  <2> QED  BY <1>4, <2>1 DEF Budget!vars, Budget!containment, BudgetInv, BudgetTyped,
              LastStored, PreviousStored, EpisodesCover, Covered, Apart
<1> QED  BY <1>1, <1>2, <1>3, <1>4 DEF Budget!Next

-----------------------------------------------------------------------------
\* Containment is a duty cycle: whenever guardians enter it, as early as
\* enterContainment lets them, no window of CONTAINMENT_WINDOW holds more
\* contained time than CONTAINMENT_BUDGET.
THEOREM ContainmentStaysWithinBudget == Budget!Spec => []Budget!BudgetKept
<1>1. BudgetInv => Budget!BudgetKept
  <2> SUFFICES ASSUME BudgetInv, NEW t \in 0..cNow
               PROVE  Cardinality(cContainedAt \cap Budget!Window(t)) <= CONTAINMENT_BUDGET
    BY BudgetCounts DEF Budget!BudgetKept
  <2>1. t \in Nat /\ cStarts \subseteq Nat /\ cContainedAt \subseteq Nat
    BY DEF BudgetInv, BudgetTyped
  <2>2. Apart(cStarts) /\ Covered(cContainedAt, cStarts)
    BY DEF BudgetInv, EpisodesCover
  <2> QED  BY <2>1, <2>2, ApartKeepsBudget
<1> QED  BY <1>1, BudgetStarts, BudgetStep, PTL DEF Budget!Spec

-----------------------------------------------------------------------------
(* The view of the time used *)

\* Of the three starts that are stored the first is the newest, and all others lie
\* before the third.
EarlierStored ==
    /\ 0 \notin cStarts
    /\ cPrevious # 0 =>
          cPrevious \in cStarts /\ cPrevious < Budget!LastStart
    /\ cEarlier # 0 =>
          /\ cEarlier \in cStarts
          /\ 0 < cPrevious /\ cEarlier < cPrevious
    /\ \A s \in cStarts :
          s \in {Budget!LastStart, cPrevious} \/ s <= cEarlier

\* As long as authority has not ended, time is contained if and only if an episode
\* covers it.
Contained(x) == x < cNow /\ \E s \in cStarts : s <= x /\ x < s + CONTAINMENT_MAX
RecordedExactly ==
    cState \in {"NORMAL", "CONTAINED"} => \A x \in Int : x \in cContainedAt <=> Contained(x)

ViewInv == BudgetInv /\ EarlierStored /\ RecordedExactly

LEMMA ViewStart == Budget!Init => ViewInv
<1> SUFFICES ASSUME Budget!Init
             PROVE  EarlierStored /\ RecordedExactly
  BY BudgetStarts DEF ViewInv
<1> QED  BY DEF Budget!Init, Budget!ContainmentInit, EarlierStored, RecordedExactly, Contained

LEMMA ViewEnter ==
    ASSUME ViewInv, Budget!enterContainment
    PROVE  EarlierStored' /\ RecordedExactly'
<1>0. /\ CONTAINMENT_MAX \in Nat /\ CONTAINMENT_MAX > 0
      /\ cNow \in Nat /\ cNow > 0 /\ cUntil \in Nat /\ cStarts \subseteq Nat
      /\ cPrevious \in Nat /\ cEarlier \in Nat
  BY DEF ViewInv, BudgetInv, BudgetTyped
<1>1. /\ cNow' = cNow /\ cStarts' = cStarts \cup {cNow} /\ cContainedAt' = cContainedAt
      /\ cUntil' = cNow + CONTAINMENT_MAX
      /\ cPrevious' = Budget!LastStart
      /\ cEarlier' = cPrevious
      /\ cState' = "CONTAINED"
  BY DEF Budget!enterContainment, Budget!Contain
<1>2. Budget!LastStart' = cNow
  BY <1>0, <1>1 DEF Budget!LastStart
<1>3. /\ cState \in {"NORMAL", "CONTAINED"}
      /\ cStarts = {} \/ (cUntil # 0 /\ cNow >= cUntil)
  BY DEF Budget!enterContainment, Budget!Contain, Budget!MayContain, Budget!EffectiveState,
     ViewInv, BudgetInv, LastStored
<1>4. Budget!LastStart # 0 =>
         Budget!LastStart \in cStarts /\ 0 < Budget!LastStart /\ Budget!LastStart < cNow
  BY <1>0, <1>3 DEF Budget!LastStart, ViewInv, BudgetInv, LastStored
<1>5. EarlierStored'
  <2>1. Budget!LastStart = 0 => cStarts = {}
    BY DEF ViewInv, BudgetInv, LastStored
  <2>2. \A s \in cStarts : s = Budget!LastStart \/ s <= cPrevious
    BY <1>0 DEF ViewInv, BudgetInv, PreviousStored, EarlierStored
  <2> QED
    BY <1>0, <1>1, <1>2, <1>4, <2>1, <2>2 DEF ViewInv, EarlierStored
<1>6. RecordedExactly'
  BY <1>0, <1>1, <1>3 DEF ViewInv, RecordedExactly, Contained
<1> QED  BY <1>5, <1>6

LEMMA ViewTick ==
    ASSUME ViewInv, Budget!Tick
    PROVE  EarlierStored' /\ RecordedExactly'
<1>0. /\ CONTAINMENT_MAX \in Nat /\ CONTAINMENT_MAX > 0
      /\ cNow \in Nat /\ cUntil \in Nat /\ cStarts \subseteq Nat
  BY DEF ViewInv, BudgetInv, BudgetTyped
<1>1. /\ cNow' = cNow + 1 /\ cStarts' = cStarts
      /\ UNCHANGED <<cState, cUntil, cPrevious, cEarlier>>
  BY DEF Budget!Tick, Budget!containment
<1>2. EarlierStored'
  BY <1>1 DEF ViewInv, EarlierStored, Budget!LastStart
<1>3. ASSUME cState \in {"NORMAL", "CONTAINED"}, NEW x \in Int
      PROVE  x \in cContainedAt' <=> Contained(x)'
  <2>1. x \in cContainedAt <=> Contained(x)
    BY <1>3 DEF ViewInv, RecordedExactly
  <2>2. CASE Budget!EffectiveState = "CONTAINED"
    <3>1. /\ Budget!LastStart \in cStarts /\ Budget!LastStart <= cNow
          /\ cNow < Budget!LastStart + CONTAINMENT_MAX
          /\ cContainedAt' = cContainedAt \cup {cNow}
      BY <1>0, <2>2 DEF Budget!EffectiveState, ViewInv, BudgetInv, LastStored,
         Budget!LastStart, Budget!Tick
    <3> QED  BY <1>0, <1>1, <2>1, <3>1 DEF Contained
  <2>3. CASE Budget!EffectiveState # "CONTAINED"
    <3>1. cContainedAt' = cContainedAt /\ \A s \in cStarts : s + CONTAINMENT_MAX <= cNow
      BY <1>0, <1>3, <2>3 DEF Budget!EffectiveState, ViewInv, BudgetInv, LastStored,
         Budget!LastStart, Budget!Tick
    <3> QED  BY <1>0, <1>1, <2>1, <3>1 DEF Contained
  <2> QED  BY <2>2, <2>3
<1> QED  BY <1>1, <1>2, <1>3 DEF RecordedExactly

LEMMA ViewStep == ViewInv /\ [Budget!Next]_Budget!vars => ViewInv'
<1> SUFFICES ASSUME ViewInv, [Budget!Next]_Budget!vars
             PROVE  EarlierStored' /\ RecordedExactly'
  BY BudgetStep DEF ViewInv
<1>1. CASE Budget!enterContainment
  BY <1>1, ViewEnter
<1>2. CASE Budget!Tick
  BY <1>2, ViewTick
<1>3. CASE Budget!bindMigration \/ Budget!retire
  <2>1. /\ UNCHANGED <<cNow, cStarts, cContainedAt, cUntil, cPrevious, cEarlier>>
        /\ cState' \in {"MIGRATION_ONLY", "RETIRED"}
    BY <1>3 DEF Budget!bindMigration, Budget!retire, Budget!LeaveFor
  <2> QED  BY <2>1 DEF ViewInv, EarlierStored, RecordedExactly, Budget!LastStart
<1>4. CASE UNCHANGED Budget!vars
  BY <1>4 DEF Budget!vars, Budget!containment, ViewInv, EarlierStored, RecordedExactly,
     Contained, Budget!LastStart
<1> QED  BY <1>1, <1>2, <1>3, <1>4 DEF Budget!Next

\* The part of an episode that a window holds; for start 0, none.
HeldPart(start) ==
    IF start = 0 THEN {}
    ELSE {x \in Budget!WindowFrom..(cNow - 1) : start <= x /\ x < start + CONTAINMENT_MAX}

LEMMA PartSize ==
    ASSUME cNow \in Nat, NEW start \in Nat
    PROVE  /\ IsFiniteSet(HeldPart(start))
           /\ Cardinality(HeldPart(start)) = Budget!containedWithin(start)
           /\ Budget!containedWithin(start) \in Nat
<1> DEFINE lo == IF start > Budget!WindowFrom THEN start ELSE Budget!WindowFrom
           hi == IF start + CONTAINMENT_MAX < cNow THEN start + CONTAINMENT_MAX ELSE cNow
<1>1. /\ CONTAINMENT_MAX \in Nat /\ CONTAINMENT_WINDOW \in Nat /\ Budget!WindowFrom \in Nat
      /\ lo \in Nat /\ hi \in Nat
  BY DEF Budget!WindowFrom
<1>2. CASE start = 0
  BY <1>2, FS_EmptySet DEF HeldPart, Budget!containedWithin
<1>3. CASE start # 0
  <2>1. HeldPart(start) = lo..(hi - 1)
    BY <1>1, <1>3 DEF HeldPart
  <2>2. Budget!containedWithin(start) = IF hi > lo THEN hi - lo ELSE 0
    BY <1>3 DEF Budget!containedWithin
  <2> HIDE DEF lo, hi
  <2>3. /\ IsFiniteSet(lo..(hi - 1))
        /\ Cardinality(lo..(hi - 1)) = IF lo > hi - 1 THEN 0 ELSE hi - 1 - lo + 1
    BY <1>1, FS_Interval
  <2> QED  BY <1>1, <2>1, <2>2, <2>3
<1> QED  BY <1>2, <1>3

LEMMA ThreeDisjoint ==
    ASSUME NEW A, NEW B, NEW C, IsFiniteSet(A), IsFiniteSet(B), IsFiniteSet(C),
           A \cap B = {}, A \cap C = {}, B \cap C = {}
    PROVE  Cardinality(A \cup B \cup C) = Cardinality(A) + Cardinality(B) + Cardinality(C)
<1>1. /\ IsFiniteSet(A \cup B)
      /\ Cardinality(A \cup B) = Cardinality(A) + Cardinality(B) - Cardinality(A \cap B)
  BY FS_Union
<1>2. Cardinality(A \cup B \cup C) =
         Cardinality(A \cup B) + Cardinality(C) - Cardinality((A \cup B) \cap C)
  <2> DEFINE AB == A \cup B
  <2>1. IsFiniteSet(AB)
    BY <1>1
  <2> HIDE DEF AB
  <2>2. Cardinality(AB \cup C) = Cardinality(AB) + Cardinality(C) - Cardinality(AB \cap C)
    BY <2>1, FS_Union
  <2> QED  BY <2>2 DEF AB
<1>3. (A \cup B) \cap C = {}
  OBVIOUS
<1>4. Cardinality({}) = 0
  BY FS_EmptySet
<1>5. Cardinality(A) \in Nat /\ Cardinality(B) \in Nat /\ Cardinality(C) \in Nat
  BY FS_CardinalityType
<1>6. Cardinality(A \cap B) = 0 /\ Cardinality((A \cup B) \cap C) = 0
  BY <1>3, <1>4
<1>7. \A m, n, k, l \in Nat : k = m + n - 0 => k + l - 0 = m + n + l
  OBVIOUS
<1>8. Cardinality(A \cup B) \in Nat
  BY <1>1, FS_CardinalityType
<1> QED  BY <1>1, <1>2, <1>5, <1>6, <1>7, <1>8

\* Whatever older episodes there were has left the window.
LEMMA ViewShows == ViewInv => Budget!ReportExact
<1> SUFFICES ASSUME ViewInv, cState \in {"NORMAL", "CONTAINED"}
             PROVE  Budget!containmentUsedInWindow = Budget!Observed
  BY DEF Budget!ReportExact
<1> DEFINE last == Budget!LastStart
           prev == cPrevious
           earl == cEarlier
           D == cContainedAt \cap (cNow - CONTAINMENT_WINDOW)..(cNow - 1)
<1>1. /\ CONTAINMENT_MAX \in Nat /\ CONTAINMENT_MAX > 0 /\ CONTAINMENT_WINDOW \in Nat
      /\ cNow \in Nat /\ cStarts \subseteq Nat /\ cContainedAt \subseteq Nat
      /\ prev \in Nat /\ earl \in Nat /\ Budget!WindowFrom \in Nat
  BY DEF ViewInv, BudgetInv, BudgetTyped, Budget!WindowFrom
<1>2. /\ last \in Nat /\ last <= cNow
      /\ last # 0 => last \in cStarts /\ \A s \in cStarts : s <= last
      /\ last = 0 => cStarts = {}
  <2>1. CASE cUntil = 0
    BY <1>1, <2>1 DEF ViewInv, BudgetInv, LastStored, Budget!LastStart
  <2>2. CASE cUntil # 0
    <3>1. /\ Budget!LastStart \in cStarts /\ 0 < Budget!LastStart /\ Budget!LastStart <= cNow
          /\ \A s \in cStarts : s <= Budget!LastStart
      BY <2>2 DEF ViewInv, BudgetInv, LastStored
    <3> QED  BY <1>1, <3>1
  <2> QED  BY <2>1, <2>2
<1>3. /\ prev # 0 => prev \in cStarts /\ prev < last
      /\ earl # 0 => earl \in cStarts /\ 0 < prev /\ earl < prev
      /\ \A s \in cStarts : s \in {last, prev} \/ s <= earl
  BY DEF ViewInv, EarlierStored
<1>4. /\ \A a, b \in cStarts : a < b => a + CONTAINMENT_MAX <= b
      /\ \A a, b, c \in cStarts : a < b /\ b < c => a + CONTAINMENT_WINDOW <= c
  BY DEF ViewInv, BudgetInv, Apart
<1>5. \A x \in Int : x \in cContainedAt <=> Contained(x)
  BY DEF ViewInv, RecordedExactly
<1> HIDE DEF last, prev, earl
<1>6. D = HeldPart(last) \cup HeldPart(prev) \cup HeldPart(earl)
  <2>1. ASSUME NEW x \in D
        PROVE  x \in HeldPart(last) \cup HeldPart(prev) \cup HeldPart(earl)
    <3>1. /\ x \in Nat /\ x >= cNow - CONTAINMENT_WINDOW /\ x < cNow
          /\ x \in Budget!WindowFrom..(cNow - 1)
      BY <1>1 DEF Budget!WindowFrom
    <3>2. PICK s \in cStarts : s <= x /\ x < s + CONTAINMENT_MAX
      BY <1>5, <3>1 DEF Contained
    <3>3. s # 0 /\ s \in Nat
      BY <1>1 DEF ViewInv, EarlierStored
    <3>4. CASE s \in {last, prev, earl}
      BY <3>1, <3>2, <3>3, <3>4 DEF HeldPart
    <3>5. CASE s \notin {last, prev, earl}
      <4>1. s < earl /\ earl \in cStarts /\ prev \in cStarts /\ last \in cStarts
            /\ earl < prev /\ prev < last
        BY <1>1, <1>2, <1>3, <3>3, <3>5
      <4>2. s + CONTAINMENT_MAX <= earl /\ earl + CONTAINMENT_WINDOW <= last
        BY <1>4, <4>1
      <4> QED  BY <1>1, <1>2, <3>1, <3>2, <3>3, <4>2
    <3> QED  BY <3>4, <3>5
  <2>2. ASSUME NEW s \in {last, prev, earl}, NEW x \in HeldPart(s)
        PROVE  x \in D
    <3>1. /\ x \in Budget!WindowFrom..(cNow - 1) /\ s \in cStarts /\ s <= x /\ x < s + CONTAINMENT_MAX
      BY <1>2, <1>3, <2>2 DEF HeldPart
    <3>2. x \in cContainedAt
      BY <1>1, <1>5, <3>1 DEF Contained
    <3> QED  BY <1>1, <3>1, <3>2 DEF Budget!WindowFrom
  <2> QED  BY <2>1, <2>2
<1>7. /\ HeldPart(last) \cap HeldPart(prev) = {} /\ HeldPart(last) \cap HeldPart(earl) = {}
      /\ HeldPart(prev) \cap HeldPart(earl) = {}
  <2> SUFFICES ASSUME NEW s \in {last, prev, earl}, NEW u \in {last, prev, earl}, s < u
               PROVE  HeldPart(s) \cap HeldPart(u) = {}
    BY <1>1, <1>2, <1>3 DEF HeldPart
  <2>1. CASE s = 0
    BY <2>1 DEF HeldPart
  <2>2. CASE s # 0
    <3>1. s \in cStarts /\ u \in cStarts /\ s + CONTAINMENT_MAX <= u
      BY <1>1, <1>2, <1>3, <1>4, <2>2
    <3> QED  BY <1>1, <2>2, <3>1 DEF HeldPart
  <2> QED  BY <2>1, <2>2
<1>8. Cardinality(D) =
         Cardinality(HeldPart(last)) + Cardinality(HeldPart(prev)) + Cardinality(HeldPart(earl))
  BY <1>1, <1>2, <1>6, <1>7, PartSize, ThreeDisjoint
<1>9. Cardinality(D) =
         Budget!containedWithin(last) + Budget!containedWithin(prev) + Budget!containedWithin(earl)
  BY <1>1, <1>2, <1>8, PartSize
<1>10. Cardinality(D) = Budget!Observed
  BY BudgetCounts DEF Budget!Observed
<1> QED  BY <1>9, <1>10 DEF last, prev, earl, Budget!containmentUsedInWindow

\* What the view reports is the contained time of the trailing window, no more and no
\* less, as long as authority has not ended (VaultKernelPrototype.sol:1652).
THEOREM ContainmentReportExact == Budget!Spec => []Budget!ReportExact
  BY ViewStart, ViewStep, ViewShows, PTL DEF Budget!Spec

HIDE BudgetAssumption

LEMMA BudgetRuns == PartsSpec => Budget!Spec
<1>1. PartsInit => Budget!Init
  BY DEF PartsInit
<1>2. [PartsNext]_<<part, rotation, ledger, engine, multisig, budget, control>>
        => [Budget!Next]_Budget!vars
  <2>1. UNCHANGED budget => UNCHANGED Budget!vars
    BY DEF budget, Budget!vars, Budget!containment
  <2> QED
    BY <2>1 DEF PartsNext
<1> QED
  BY <1>1, <1>2, PTL DEF PartsSpec, Budget!Spec

\* BudgetKept: enterContainment looks at one stored start, and no window of any
\* behaviour is contained beyond the budget; the view reports the time contained.
THEOREM BudgetNeverExceeded == PartsSpec => []BudgetKept
<1>1. Budget!BudgetKept /\ Budget!ReportExact => BudgetKept
  BY DEF BudgetKept
<1> QED
  BY <1>1, ContainmentStaysWithinBudget, ContainmentReportExact, BudgetRuns, PTL

-----------------------------------------------------------------------------
(* Policy control, proved of the module by itself in PolicyControlProofs. *)

ControlAlone ==
    INSTANCE PolicyControlProofs WITH
        MaxTime <- ControlTime,
        now <- pNow, key <- pKey, policyControlEpoch <- pEpoch, bridgePaused <- pPaused,
        controlNonce <- pNonce, limit <- pLimit, admitters <- pAdmitters,
        admitterCount <- pCount, controller <- pController,
        controllerInitialized <- pInitialized, pending <- pPending, proposal <- pProposal

LEMMA ControlBasics ==
    /\ Control!vars = ControlAlone!vars
    /\ Control!protection = ControlAlone!protection
    /\ Control!Intent = ControlAlone!Intent
    /\ Control!Init <=> ControlAlone!Init
    /\ Control!Apply <=> ControlAlone!Apply
    /\ Control!Cancel <=> ControlAlone!Cancel
    /\ \A l : Control!Strengthen(l) <=> ControlAlone!Strengthen(l)
    /\ \A a, b : Control!IsWeakening(a, b) <=> ControlAlone!IsWeakening(a, b)
    /\ \A l, e, u, p : Control!Propose(l, e, u, p) <=> ControlAlone!Propose(l, e, u, p)
    /\ \A c, a : Control!SetAdmitter(c, a) <=> ControlAlone!SetAdmitter(c, a)
<1>1. Control!vars = ControlAlone!vars /\ Control!protection = ControlAlone!protection
  BY DEF Control!vars, ControlAlone!vars, Control!protection, ControlAlone!protection
<1>2. Control!Intent = ControlAlone!Intent
  BY DEF Control!Intent, ControlAlone!Intent
<1>3. Control!Init <=> ControlAlone!Init
  BY DEF Control!Init, ControlAlone!Init, Control!NoPending, ControlAlone!NoPending,
         Control!NoProposal, ControlAlone!NoProposal
<1>4. Control!Apply <=> ControlAlone!Apply
  BY DEF Control!Apply, ControlAlone!Apply, Control!NoPending, ControlAlone!NoPending,
         Control!NoProposal, ControlAlone!NoProposal
<1>5. Control!Cancel <=> ControlAlone!Cancel
  BY DEF Control!Cancel, ControlAlone!Cancel, Control!NoPending, ControlAlone!NoPending,
         Control!NoProposal, ControlAlone!NoProposal
<1>6. \A a, b : Control!IsWeakening(a, b) <=> ControlAlone!IsWeakening(a, b)
  BY DEF Control!IsWeakening, ControlAlone!IsWeakening
<1>7. \A l : Control!Strengthen(l) <=> ControlAlone!Strengthen(l)
  BY <1>6 DEF Control!Strengthen, ControlAlone!Strengthen
<1>8. \A l, e, u, p : Control!Propose(l, e, u, p) <=> ControlAlone!Propose(l, e, u, p)
  BY DEF Control!Propose, ControlAlone!Propose
<1>9. \A c, a : Control!SetAdmitter(c, a) <=> ControlAlone!SetAdmitter(c, a)
  BY DEF Control!SetAdmitter, ControlAlone!SetAdmitter, Control!Revocable, ControlAlone!Revocable
<1> QED
  BY <1>1, <1>2, <1>3, <1>4, <1>5, <1>6, <1>7, <1>8, <1>9

LEMMA ControlCalls ==
    /\ Control!OwnerCall <=> ControlAlone!OwnerCall
    /\ \A i : Control!BridgeCall(i) <=> ControlAlone!BridgeCall(i)
    /\ \A i : Control!RepeatedSetAdmitter(i) <=> ControlAlone!RepeatedSetAdmitter(i)
<1>1. Control!OwnerCall <=> ControlAlone!OwnerCall
  BY ControlBasics DEF Control!OwnerCall, ControlAlone!OwnerCall, Control!OwnerPathOpen,
     ControlAlone!OwnerPathOpen, Control!setDailyLimit, ControlAlone!setDailyLimit,
     Control!applyWeakening, ControlAlone!applyWeakening, Control!cancelWeakening,
     ControlAlone!cancelWeakening, Control!setAdmitter, ControlAlone!setAdmitter
<1>2. \A i : Control!Verified(i) <=> ControlAlone!Verified(i)
  BY DEF Control!Verified, ControlAlone!Verified
<1>3. \A i : Control!BridgeCall(i) <=> ControlAlone!BridgeCall(i)
  <2>1. Control!bridgeEnrollController <=> ControlAlone!bridgeEnrollController
    BY DEF Control!bridgeEnrollController, ControlAlone!bridgeEnrollController
  <2>2. \A l : Control!bridgeStrengthenLimit(l) <=> ControlAlone!bridgeStrengthenLimit(l)
    BY ControlBasics DEF Control!bridgeStrengthenLimit, ControlAlone!bridgeStrengthenLimit
  <2>3. \A l, e : Control!bridgeProposeWeakening(l, e) <=> ControlAlone!bridgeProposeWeakening(l, e)
    BY ControlBasics DEF Control!bridgeProposeWeakening, ControlAlone!bridgeProposeWeakening
  <2>4. \A e : Control!bridgeProposeUnenrollController(e)
                 <=> ControlAlone!bridgeProposeUnenrollController(e)
    BY ControlBasics DEF Control!bridgeProposeUnenrollController,
                         ControlAlone!bridgeProposeUnenrollController
  <2>5. \A e : /\ Control!bridgeApplyWeakening(e) <=> ControlAlone!bridgeApplyWeakening(e)
               /\ Control!bridgeApplyUnenrollController(e)
                    <=> ControlAlone!bridgeApplyUnenrollController(e)
    BY ControlBasics DEF Control!bridgeApplyWeakening, ControlAlone!bridgeApplyWeakening,
       Control!bridgeApplyUnenrollController, ControlAlone!bridgeApplyUnenrollController
  <2>6. Control!bridgeCancelWeakening <=> ControlAlone!bridgeCancelWeakening
    BY ControlBasics DEF Control!bridgeCancelWeakening, ControlAlone!bridgeCancelWeakening
  <2>7. \A c, a : Control!bridgeSetAdmitter(c, a) <=> ControlAlone!bridgeSetAdmitter(c, a)
    BY ControlBasics DEF Control!bridgeSetAdmitter, ControlAlone!bridgeSetAdmitter
  <2> QED
    BY <1>2, <2>1, <2>2, <2>3, <2>4, <2>5, <2>6, <2>7
       DEF Control!BridgeCall, ControlAlone!BridgeCall
<1>4. \A i : Control!RepeatedSetAdmitter(i) <=> ControlAlone!RepeatedSetAdmitter(i)
  BY <1>2, ControlBasics DEF Control!RepeatedSetAdmitter, ControlAlone!RepeatedSetAdmitter,
     Control!protection, ControlAlone!protection
<1> QED
  BY <1>1, <1>3, <1>4

LEMMA ControlRunsAlone == PartsSpec => ControlAlone!Spec
<1>1. PartsInit => ControlAlone!Init
  BY ControlBasics DEF PartsInit
<1>2. Control!Next => ControlAlone!Next
  BY ControlBasics, ControlCalls DEF Control!Next, ControlAlone!Next, Control!pause,
     ControlAlone!pause, Control!CredentialsChange, ControlAlone!CredentialsChange,
     Control!Tick, ControlAlone!Tick, Control!protection, ControlAlone!protection
<1>3. [PartsNext]_<<part, rotation, ledger, engine, multisig, budget, control>>
        => [ControlAlone!Next]_ControlAlone!vars
  <2>1. UNCHANGED control => UNCHANGED ControlAlone!vars
    BY DEF control, ControlAlone!vars
  <2> QED
    BY <1>2, <2>1 DEF PartsNext
<1> QED
  BY <1>1, <1>3, PTL DEF PartsSpec, ControlAlone!Spec

\* RecoveryDropsWeakening: _applyWeakening compares the epoch the proposal is bound
\* to, so that nothing from before a recovery is concluded through the bridge.
THEOREM RecoveriesDropWeakenings == PartsSpec => RecoveryDropsWeakening
<1>1. ControlAlone!Spec => ControlAlone!RecoveryDropsWeakening
  BY ControlAlone!RecoveryDrops, ControlAssumption DEF IsFiniteSet, ControlAlone!IsFiniteSet
<1>2. ControlAlone!RecoveryDropsWeakening
        <=> [][ControlAlone!ByBridge /\ ControlAlone!Applied
                 => pProposal.epoch = pEpoch]_ControlAlone!vars
  BY DEF ControlAlone!RecoveryDropsWeakening
<1>3. RecoveryDropsWeakening
        <=> [][Control!ByBridge /\ Control!Applied => pProposal.epoch = pEpoch]_Control!vars
  BY DEF RecoveryDropsWeakening, Control!RecoveryDropsWeakening
<1>4. [ControlAlone!ByBridge /\ ControlAlone!Applied => pProposal.epoch = pEpoch]_ControlAlone!vars
        => [Control!ByBridge /\ Control!Applied => pProposal.epoch = pEpoch]_Control!vars
  BY ControlBasics DEF Control!ByBridge, ControlAlone!ByBridge, Control!Applied,
     ControlAlone!Applied, Control!vars, ControlAlone!vars
<1> QED
  BY <1>1, <1>2, <1>3, <1>4, ControlRunsAlone, PTL

-----------------------------------------------------------------------------
(* The rotation of the verifier: its inductive invariant. *)

USE RotationAssumption

\* A wrapper reports its immutables.
HonestWrappers == \A w \in Wrapper : report[w] = WrapperReport(w, report[w].halted)

\* The identity measured on the way in is the wrapper's own.
TrulyMeasured == pqVerifier \in Wrapper => pqVerifierIdentity = WrapperIdentity[pqVerifier]

\* An identity halted in office is remembered, or its wrapper is still there.
Remembered ==
    \A i \in seenHalted :
        \/ i \in haltedVerifierIdentities
        \/ pqVerifier \in Wrapper /\ report[pqVerifier].halted /\ i = pqVerifierIdentity

\* What is refused is not in office.
NotInOffice == pqVerifierIdentity \notin haltedVerifierIdentities

\* The verifier in office is one that was installed.
OfficeInstalled == pqVerifierIdentity \in installed

IInv ==
    /\ TypeOK
    /\ HonestWrappers
    /\ TrulyMeasured
    /\ Remembered
    /\ NotInOffice
    /\ OfficeInstalled
    /\ OnlyInstalledAreRefused
    /\ OwnerCannotHalt

-----------------------------------------------------------------------------
LEMMA WrapperReports ==
  ASSUME NEW w \in Wrapper, NEW h \in BOOLEAN
  PROVE  /\ WrapperReport(w, h) \in Report
         /\ WrapperReport(w, h).halted = h
         /\ WrapperReport(w, h).code
         /\ WrapperReport(w, h).principal = WrapperPrincipal[w]
         /\ WrapperReport(w, h).identity = WrapperIdentity[w]
BY DEF WrapperReport, Report

\* What the guard asks of an honest wrapper, it answers truly.
LEMMA WrapperAnswers ==
  ASSUME TypeOK, HonestWrappers, NEW w \in Wrapper
  PROVE  /\ report[w].principal = WrapperPrincipal[w]
         /\ report[w].identity = WrapperIdentity[w]
         /\ report[w].halted \in BOOLEAN
<1>1. report[w] \in Report
  BY DEF TypeOK, Verifier
<1>2. report[w].halted \in BOOLEAN
  BY <1>1 DEF Report
<1>3. report[w] = WrapperReport(w, report[w].halted)
  BY DEF HonestWrappers
<1> QED
  BY <1>2, <1>3, WrapperReports

LEMMA InitIInv == Init => IInv
<1> SUFFICES ASSUME Init PROVE IInv
  OBVIOUS
<1>1. TypeOK
  <2>1. pqVerifier \in Verifier /\ report \in [Verifier -> Report]
    BY DEF Init
  <2>2. report[pqVerifier].identity \in Identity \cup {NoIdentity}
    BY <2>1 DEF Report
  <2> QED
    BY <2>1, <2>2 DEF Init, TypeOK
<1>2. HonestWrappers
  BY DEF Init, HonestWrappers
<1>3. TrulyMeasured
  BY <1>1, <1>2, WrapperAnswers DEF Init, TrulyMeasured
<1>4. Remembered /\ NotInOffice /\ OfficeInstalled /\ OnlyInstalledAreRefused
  BY DEF Init, Remembered, NotInOffice, OfficeInstalled, OnlyInstalledAreRefused
<1>5. OwnerCannotHalt
  <2> SUFFICES ASSUME NEW w \in Wrapper, w \in {pqVerifier, pendingPQVerifier.verifier}
               PROVE  owner # WrapperPrincipal[w]
    BY DEF OwnerCannotHalt
  <2>1. w = pqVerifier
    BY DEF Init, NoUpdate, Verifier
  <2>2. report[w].principal = WrapperPrincipal[w]
    BY <1>1, <1>2, WrapperAnswers
  <2>3. pqVerifier # NoVerifier
    BY DEF Init
  <2> QED
    BY <2>1, <2>2, <2>3 DEF Init, IsHaltPrincipal
<1> QED
  BY <1>1, <1>2, <1>3, <1>4, <1>5 DEF IInv

-----------------------------------------------------------------------------
\* The owner cannot halt an honest target the guard let pass.
LEMMA AdmittedTarget ==
  ASSUME IInv, NEW v \in Verifier, AdmissibleRotation(v, owner)
  PROVE  /\ v \in Wrapper => owner # WrapperPrincipal[v]
         /\ v \in Wrapper => report[v].identity = WrapperIdentity[v]
         /\ report[v].identity \in Identity \cup {NoIdentity}
<1>1. report[v].identity \in Identity \cup {NoIdentity}
  BY DEF IInv, TypeOK, Report
<1>2. v # NoVerifier
  OBVIOUS
<1>3. report[v].principal # owner
  BY <1>2 DEF AdmissibleRotation, IsHaltPrincipal
<1> QED
  BY <1>1, <1>3, WrapperAnswers DEF IInv

LEMMA ProposeKeepsIInv ==
  ASSUME IInv, NEW v \in Verifier, proposePQVerifier(v)
  PROVE  IInv'
<1>1. /\ pendingPQVerifier' =
            [verifier |-> v, validAfter |-> now + PQ_VERIFIER_UPDATE_DELAY]
      /\ UNCHANGED <<now, report, owner, pendingOwner, pqVerifier, pqVerifierIdentity,
                     haltedVerifierIdentities, installed, seenHalted>>
  BY DEF proposePQVerifier, guardVars
<1>2. now + PQ_VERIFIER_UPDATE_DELAY \in Nat \ {0}
  BY DEF IInv, TypeOK
<1>3. TypeOK'
  BY <1>1, <1>2 DEF IInv, TypeOK
<1>4. OwnerCannotHalt'
  <2>1. pendingPQVerifier'.verifier = v
    BY <1>1
  <2>2. AdmissibleRotation(v, owner)
    BY DEF proposePQVerifier
  <2> QED
    BY <1>1, <2>1, <2>2, AdmittedTarget DEF IInv, OwnerCannotHalt
<1> QED
  BY <1>1, <1>3, <1>4 DEF IInv, HonestWrappers, TrulyMeasured, Remembered, NotInOffice,
                          OfficeInstalled, OnlyInstalledAreRefused

LEMMA CancelKeepsIInv ==
  ASSUME IInv, cancelPQVerifierUpdate
  PROVE  IInv'
<1>1. /\ pendingPQVerifier' = NoUpdate
      /\ UNCHANGED <<now, report, owner, pendingOwner, pqVerifier, pqVerifierIdentity,
                     haltedVerifierIdentities, installed, seenHalted>>
  BY DEF cancelPQVerifierUpdate, guardVars
<1>2. pendingPQVerifier'.verifier \notin Wrapper
  BY <1>1 DEF NoUpdate, Verifier
<1> QED
  BY <1>1, <1>2 DEF IInv, TypeOK, HonestWrappers, TrulyMeasured, Remembered, NotInOffice,
                    OfficeInstalled, OnlyInstalledAreRefused, OwnerCannotHalt

LEMMA ApplyKeepsIInv ==
  ASSUME IInv, applyPQVerifierUpdate
  PROVE  IInv'
<1> DEFINE v == pendingPQVerifier.verifier
<1>1. /\ v # NoVerifier
      /\ AdmissibleRotation(v, owner)
      /\ haltedVerifierIdentities' = RecordHaltedIdentity
      /\ pqVerifier' = v
      /\ pqVerifierIdentity' = report[v].identity
      /\ pendingPQVerifier' = NoUpdate
      /\ installed' = installed \cup {report[v].identity}
      /\ UNCHANGED <<now, report, owner, pendingOwner, seenHalted>>
  BY DEF applyPQVerifierUpdate
<1>2. v \in Verifier
  BY <1>1 DEF IInv, TypeOK, NoUpdate
<1>3. report[v].identity \in Identity \cup {NoIdentity}
  BY <1>1, <1>2, AdmittedTarget
<1>4. /\ pqVerifierIdentity \in Identity \cup {NoIdentity}
      /\ pqVerifierIdentity \in installed
      /\ haltedVerifierIdentities \subseteq Identity
      /\ haltedVerifierIdentities \subseteq installed
  BY DEF IInv, TypeOK, OfficeInstalled, OnlyInstalledAreRefused
<1>5. RecordHaltedIdentity \subseteq Identity /\ RecordHaltedIdentity \subseteq installed
  BY <1>4 DEF RecordHaltedIdentity
<1>6. TypeOK'
  BY <1>1, <1>2, <1>3, <1>5 DEF IInv, TypeOK
<1>7. TrulyMeasured'
  BY <1>1, <1>2, AdmittedTarget DEF TrulyMeasured
<1>8. NotInOffice'
  <2> SUFFICES ASSUME report[v].identity \in RecordHaltedIdentity PROVE FALSE
    BY <1>1 DEF NotInOffice
  <2>1. report[v].identity # NoIdentity
    BY <1>5
  <2> QED
    BY <1>1, <2>1 DEF AdmissibleRotation, RecordHaltedIdentity
<1>9. Remembered'
  <2> SUFFICES ASSUME NEW i \in seenHalted PROVE i \in RecordHaltedIdentity
    BY <1>1 DEF Remembered
  <2>1. i # NoIdentity
    BY DEF IInv, TypeOK
  <2> QED
    BY <2>1 DEF IInv, Remembered, RecordHaltedIdentity
<1>10. OfficeInstalled' /\ OnlyInstalledAreRefused'
  BY <1>1, <1>5 DEF OfficeInstalled, OnlyInstalledAreRefused
<1>11. HonestWrappers'
  BY <1>1 DEF IInv, HonestWrappers
<1>12. OwnerCannotHalt'
  <2>1. pendingPQVerifier'.verifier \notin Wrapper
    BY <1>1 DEF NoUpdate, Verifier
  <2> QED
    BY <1>1, <1>2, <2>1, AdmittedTarget DEF OwnerCannotHalt
<1> QED
  BY <1>6, <1>7, <1>8, <1>9, <1>10, <1>11, <1>12 DEF IInv

LEMMA AcceptKeepsIInv ==
  ASSUME IInv, acceptOwnership
  PROVE  IInv'
<1>1. /\ pendingOwner # NoAccount
      /\ MayOwn(pendingOwner)
      /\ owner' = pendingOwner
      /\ pendingOwner' = NoAccount
      /\ UNCHANGED <<now, report, pendingPQVerifier, pqVerifier, pqVerifierIdentity,
                     haltedVerifierIdentities, installed, seenHalted>>
  BY DEF acceptOwnership, guardVars
<1>2. TypeOK'
  BY <1>1 DEF IInv, TypeOK
<1>3. OwnerCannotHalt'
  <2> SUFFICES ASSUME NEW w \in Wrapper, w \in {pqVerifier, pendingPQVerifier.verifier}
               PROVE  pendingOwner # WrapperPrincipal[w]
    BY <1>1 DEF OwnerCannotHalt
  <2>1. w # NoVerifier
    BY DEF Verifier
  <2> QED
    BY <1>1, <2>1, WrapperAnswers DEF IInv, MayOwn, IsHaltPrincipal
<1> QED
  BY <1>1, <1>2, <1>3 DEF IInv, HonestWrappers, TrulyMeasured, Remembered, NotInOffice,
                          OfficeInstalled, OnlyInstalledAreRefused

LEMMA HaltKeepsIInv ==
  ASSUME IInv, NEW w \in Wrapper, halt(w)
  PROVE  IInv'
<1>1. /\ report' = [report EXCEPT ![w] = WrapperReport(w, TRUE)]
      /\ seenHalted' = IF w = pqVerifier THEN seenHalted \cup {WrapperIdentity[w]}
                       ELSE seenHalted
      /\ UNCHANGED <<now, owner, pendingOwner, pendingPQVerifier, pqVerifier,
                     pqVerifierIdentity, haltedVerifierIdentities, installed>>
  BY DEF halt, guardVars
<1>2. report \in [Verifier -> Report] /\ w \in Verifier
  BY DEF IInv, TypeOK, Verifier
<1>3. report'[w] = WrapperReport(w, TRUE) /\ report'[w].halted
  BY <1>1, <1>2, WrapperReports
<1>4. \A u \in Verifier \ {w} : report'[u] = report[u]
  BY <1>1, <1>2
<1>5. TypeOK'
  <2>1. report' \in [Verifier -> Report]
    BY <1>1, <1>2, WrapperReports
  <2>2. seenHalted' \subseteq Identity
    BY <1>1 DEF IInv, TypeOK
  <2> QED
    BY <1>1, <2>1, <2>2 DEF IInv, TypeOK
<1>6. HonestWrappers'
  <2> SUFFICES ASSUME NEW u \in Wrapper PROVE report'[u] = WrapperReport(u, report'[u].halted)
    BY DEF HonestWrappers, WrapperReport
  <2>1. CASE u = w
    BY <1>3, <2>1 DEF WrapperReport
  <2>2. CASE u # w
    BY <1>4, <2>2 DEF IInv, HonestWrappers, Verifier
  <2> QED
    BY <2>1, <2>2
<1>7. Remembered'
  <2> SUFFICES ASSUME NEW i \in seenHalted'
               PROVE  \/ i \in haltedVerifierIdentities
                      \/ /\ pqVerifier \in Wrapper
                         /\ report'[pqVerifier].halted
                         /\ i = pqVerifierIdentity
    BY <1>1 DEF Remembered
  <2>1. CASE i \in seenHalted
    BY <1>3, <1>4, <2>1 DEF IInv, Remembered, Verifier
  <2>2. CASE i \notin seenHalted
    BY <1>1, <1>3, <2>2 DEF IInv, TrulyMeasured
  <2> QED
    BY <2>1, <2>2
<1> QED
  BY <1>1, <1>5, <1>6, <1>7 DEF IInv, TrulyMeasured, NotInOffice, OfficeInstalled,
                                OnlyInstalledAreRefused, OwnerCannotHalt

LEMMA TurnKeepsIInv ==
  ASSUME IInv, NEW v \in OtherVerifier, Turn(v)
  PROVE  IInv'
<1>1. PICK r \in Report : report' = [report EXCEPT ![v] = r]
  BY DEF Turn
<1>2. UNCHANGED <<now, owner, pendingOwner, pendingPQVerifier, pqVerifier,
                  pqVerifierIdentity, haltedVerifierIdentities, installed, seenHalted>>
  BY DEF Turn, guardVars
<1>3. report' \in [Verifier -> Report]
  BY <1>1 DEF IInv, TypeOK
<1>4. \A w \in Wrapper : report'[w] = report[w]
  BY <1>1 DEF IInv, TypeOK, Verifier
<1>5. TypeOK'
  BY <1>2, <1>3 DEF IInv, TypeOK
<1>6. HonestWrappers'
  BY <1>4 DEF IInv, HonestWrappers, WrapperReport
<1>7. Remembered'
  BY <1>2, <1>4 DEF IInv, Remembered
<1> QED
  BY <1>2, <1>5, <1>6, <1>7 DEF IInv, TrulyMeasured, NotInOffice, OfficeInstalled,
                                OnlyInstalledAreRefused, OwnerCannotHalt

LEMMA NextKeepsIInv == IInv /\ [Next]_vars => IInv'
<1> SUFFICES ASSUME IInv, [Next]_vars PROVE IInv'
  OBVIOUS
<1>1. ASSUME NEW a \in Account \cup {NoAccount}, transferOwnership(a) PROVE IInv'
  BY <1>1 DEF transferOwnership, guardVars, IInv, TypeOK, HonestWrappers, TrulyMeasured,
              Remembered, NotInOffice, OfficeInstalled, OnlyInstalledAreRefused,
              OwnerCannotHalt
<1>2. CASE Tick
  BY <1>2 DEF Tick, guardVars, IInv, TypeOK, HonestWrappers, TrulyMeasured,
              Remembered, NotInOffice, OfficeInstalled, OnlyInstalledAreRefused,
              OwnerCannotHalt
<1>3. CASE UNCHANGED vars
  BY <1>3 DEF vars, IInv, TypeOK, HonestWrappers, TrulyMeasured,
              Remembered, NotInOffice, OfficeInstalled, OnlyInstalledAreRefused,
              OwnerCannotHalt
<1> QED
  BY <1>1, <1>2, <1>3, ProposeKeepsIInv, CancelKeepsIInv, ApplyKeepsIInv,
     AcceptKeepsIInv, HaltKeepsIInv, TurnKeepsIInv DEF Next

THEOREM RotationInvariant == Spec => []IInv
BY InitIInv, NextKeepsIInv, PTL DEF Spec

-----------------------------------------------------------------------------
\* TypeOK of every reachable state.
THEOREM RotationTypeOK == Spec => []TypeOK
<1>1. IInv => TypeOK
  BY DEF IInv
<1> QED
  BY <1>1, RotationInvariant, PTL

\* OwnerCannotHalt: proposals, ownership offers and acceptances in any order
\* leave nobody as owner who could halt the wrapper in office or the next one.
THEOREM OwnerNeverHalts == Spec => []OwnerCannotHalt
<1>1. IInv => OwnerCannotHalt
  BY DEF IInv
<1> QED
  BY <1>1, RotationInvariant, PTL

\* HaltIsForGood: recordHaltedIdentity and requireAdmissibleRotation together
\* keep an identity out once its wrapper was halted in office.
THEOREM HaltedStaysHalted == Spec => []HaltIsForGood
<1>1. IInv => HaltIsForGood
  BY DEF IInv, HaltIsForGood, Remembered, NotInOffice
<1> QED
  BY <1>1, RotationInvariant, PTL

\* OnlyInstalledAreRefused: no verifier can talk the contract into refusing an
\* identity it did not go into office with.
THEOREM RefusalsAreEarned == Spec => []OnlyInstalledAreRefused
<1>1. IInv => OnlyInstalledAreRefused
  BY DEF IInv
<1> QED
  BY <1>1, RotationInvariant, PTL

\* NoVeto: whatever the verifier in office reports, it cannot block an announced
\* wrapper of an identity that was never in office.
THEOREM NobodyVetoes == Spec => []NoVeto
<1>1. IInv => NoVeto
  <2> SUFFICES ASSUME IInv, pendingPQVerifier.verifier \in Wrapper,
                      ~ report[pendingPQVerifier.verifier].halted,
                      WrapperIdentity[pendingPQVerifier.verifier] \notin installed
               PROVE  AdmissibleRotation(pendingPQVerifier.verifier, owner)
    BY DEF NoVeto
  <2> DEFINE w == pendingPQVerifier.verifier
  <2>1. report[w].principal = WrapperPrincipal[w] /\ report[w].identity = WrapperIdentity[w]
    BY WrapperAnswers DEF IInv
  <2>2. owner # WrapperPrincipal[w]
    BY DEF IInv, OwnerCannotHalt
  <2>3. /\ WrapperIdentity[w] \notin haltedVerifierIdentities
        /\ WrapperIdentity[w] # pqVerifierIdentity
    BY DEF IInv, OnlyInstalledAreRefused, OfficeInstalled
  <2> QED
    BY <2>1, <2>2, <2>3 DEF AdmissibleRotation, IsHaltPrincipal
<1> QED
  BY <1>1, RotationInvariant, PTL

-----------------------------------------------------------------------------
(* The rotation implements Timelock. *)

View == <<now, pqVerifier, VerifierNotice>>

LEMMA TimelockStep ==
  ASSUME TypeOK, [Next]_vars
  PROVE  [VerifierTimelock!Next]_View
<1> DEFINE D == PQ_VERIFIER_UPDATE_DELAY
           Step == [VerifierTimelock!Next]_View
<1>0. now \in Nat /\ D \in Nat /\ GOVERNANCE_GRACE_PERIOD \in Nat
  BY DEF TypeOK
<1>1. ASSUME NEW v \in Verifier, proposePQVerifier(v) PROVE Step
  <2>1. /\ pendingPQVerifier' = [verifier |-> v, validAfter |-> now + D]
        /\ UNCHANGED <<now, pqVerifier>>
    BY <1>1 DEF proposePQVerifier, guardVars
  <2>2. pendingPQVerifier'.verifier = v /\ pendingPQVerifier'.validAfter = now + D
    BY <2>1
  <2>3. VerifierNotice' = [posted |-> TRUE, value |-> v, since |-> (now + D) - D]
    BY <2>1, <2>2 DEF VerifierNotice
  <2>4. (now + D) - D = now
    BY <1>0
  <2>5. VerifierTimelock!Announce(v)
    BY <2>1, <2>3, <2>4 DEF VerifierTimelock!Announce, VerifierTimelock!Notice
  <2> QED
    BY <2>5 DEF VerifierTimelock!Next
<1>2. CASE cancelPQVerifierUpdate
  <2>1. /\ pendingPQVerifier.verifier # NoVerifier
        /\ pendingPQVerifier' = NoUpdate
        /\ UNCHANGED <<now, pqVerifier>>
    BY <1>2 DEF cancelPQVerifierUpdate, guardVars
  <2>2. VerifierNotice.posted /\ VerifierNotice' = [posted |-> FALSE]
    BY <2>1 DEF VerifierNotice, NoUpdate
  <2>3. VerifierTimelock!WithdrawNotice
    BY <2>1, <2>2 DEF VerifierTimelock!WithdrawNotice, VerifierTimelock!NoNotice
  <2> QED
    BY <2>3 DEF VerifierTimelock!Next
<1>3. CASE applyPQVerifierUpdate
  <2> DEFINE t == pendingPQVerifier.validAfter
  <2>1. /\ pendingPQVerifier.verifier # NoVerifier
        /\ Mature
        /\ pqVerifier' = pendingPQVerifier.verifier
        /\ pendingPQVerifier' = NoUpdate
        /\ UNCHANGED now
    BY <1>3 DEF applyPQVerifierUpdate
  <2>2. t \in Nat
    BY <2>1 DEF TypeOK, NoUpdate
  <2>3. /\ now - (t - D) >= D
        /\ now - (t - D) <= D + GOVERNANCE_GRACE_PERIOD
    BY <1>0, <2>1, <2>2 DEF Mature
  <2>4. VerifierNotice = [posted |-> TRUE, value |-> pendingPQVerifier.verifier,
                          since |-> t - D]
    BY <2>1 DEF VerifierNotice
  <2>5. VerifierNotice' = [posted |-> FALSE]
    BY <2>1 DEF VerifierNotice, NoUpdate
  <2>6. VerifierTimelock!Enact
    BY <2>1, <2>3, <2>4, <2>5 DEF VerifierTimelock!Enact, VerifierTimelock!NoNotice
  <2> QED
    BY <2>6 DEF VerifierTimelock!Next
<1>4. CASE Tick
  <2>1. now' > now /\ UNCHANGED <<pqVerifier, pendingPQVerifier>>
    BY <1>0, <1>4 DEF Tick, guardVars
  <2>2. UNCHANGED VerifierNotice
    BY <2>1 DEF VerifierNotice
  <2>3. VerifierTimelock!TimePasses
    BY <2>1, <2>2 DEF VerifierTimelock!TimePasses
  <2> QED
    BY <2>3 DEF VerifierTimelock!Next
<1>5. ASSUME \/ \E a \in Account \cup {NoAccount} : transferOwnership(a)
             \/ acceptOwnership
             \/ \E w \in Wrapper : halt(w)
             \/ \E v \in OtherVerifier : Turn(v)
             \/ UNCHANGED vars
      PROVE  Step
  <2>1. UNCHANGED <<now, pqVerifier, pendingPQVerifier>>
    BY <1>5 DEF transferOwnership, acceptOwnership, halt, Turn, guardVars, vars
  <2> QED
    BY <2>1 DEF View, VerifierNotice
<1> QED
  BY <1>1, <1>2, <1>3, <1>4, <1>5 DEF Next

\* VerifierTimelocked: propose-, cancel- and applyPQVerifierUpdate implement the
\* time lock; the verifier every account relies on never changes unannounced.
THEOREM RotationImplementsTimelock == Spec => VerifierTimelocked
<1>1. Init => VerifierTimelock!Init
  BY DEF Init, NoUpdate, VerifierNotice, VerifierTimelock!Init, VerifierTimelock!NoNotice
<1>2. TypeOK /\ [Next]_vars => [VerifierTimelock!Next]_View
  BY TimelockStep
<1>3. VerifierTimelocked <=> VerifierTimelock!Init /\ [][VerifierTimelock!Next]_View
  BY DEF VerifierTimelocked, VerifierTimelock!Spec, View
<1> QED
  BY <1>1, <1>2, <1>3, RotationTypeOK, PTL DEF Spec

-----------------------------------------------------------------------------
(* Sums over finite sets. *)

\* What holds of a set when it holds of what is left without any one element.
LEMMA SubsetInduction ==
    ASSUME NEW S, IsFiniteSet(S), NEW G, {} \in G,
           \A s \in SUBSET S : s # {} /\ (\A x \in s : s \ {x} \in G) => s \in G
    PROVE  SUBSET S \subseteq G
<1> DEFINE Bad == {Cardinality(s) : s \in (SUBSET S) \ G}
<1> SUFFICES ASSUME NEW t \in SUBSET S, t \notin G
             PROVE  FALSE
  OBVIOUS
<1>1. \A s \in SUBSET S : IsFiniteSet(s) /\ Cardinality(s) \in Nat
  BY FS_Subset, FS_CardinalityType
<1>2. Bad \subseteq Nat /\ Bad # {}
  BY <1>1
<1>3. PICK k \in Bad : \A l \in Bad : k <= l
  <2> HIDE DEF Bad
  <2> QED
    BY <1>2, LeastNatural
<1>4. PICK s \in (SUBSET S) \ G : k = Cardinality(s)
  OBVIOUS
<1>5. s # {} /\ IsFiniteSet(s)
  BY <1>1
<1>6. ASSUME NEW x \in s  PROVE s \ {x} \in G
  <2>1. Cardinality(s \ {x}) = k - 1
    BY <1>4, <1>5, FS_RemoveElement
  <2>2. ~ (k <= k - 1)
    BY <1>2
  <2>3. Cardinality(s \ {x}) \notin Bad
    BY <1>3, <2>1, <2>2
  <2>4. s \ {x} \in SUBSET S
    OBVIOUS
  <2> QED
    BY <2>3, <2>4
<1> QED
  BY <1>4, <1>5, <1>6

One(S) == CHOOSE x \in S : TRUE
Rest(S) == S \ {One(S)}

Adds(g, f, S) == g = [s \in SUBSET S |-> IF s = {} THEN 0 ELSE f[One(s)] + g[Rest(s)]]

Sum(f, S) == SumFunctionOnSet(f, S)

LEMMA SumDef ==
    ASSUME NEW f, NEW S  PROVE Sum(f, S) = (CHOOSE g : Adds(g, f, S))[S]
BY DEF Sum, SumFunctionOnSet, FoldFunctionOnSet, MapThenFoldSet, Adds, One, Rest

LEMMA OneOf == ASSUME NEW S, S # {}  PROVE One(S) \in S
BY DEF One

\* There is one function that adds, and it adds the parts of a set too.
LEMMA AddsOnce ==
    ASSUME NEW f, NEW S, IsFiniteSet(S), NEW g, Adds(g, f, S), NEW h, Adds(h, f, S)
    PROVE  g = h
<1> DEFINE G == {s \in SUBSET S : g[s] = h[s]}
<1>1. {} \in G
  BY DEF Adds
<1>2. ASSUME NEW s \in SUBSET S, s # {}, \A x \in s : s \ {x} \in G
      PROVE  s \in G
  <2>1. Rest(s) \in G
    BY <1>2, OneOf DEF Rest
  <2>2. g[s] = f[One(s)] + g[Rest(s)] /\ h[s] = f[One(s)] + h[Rest(s)]
    BY <1>2 DEF Adds
  <2> QED
    BY <2>1, <2>2
<1>3. SUBSET S \subseteq G
  <2> HIDE DEF G
  <2> QED
    BY <1>1, <1>2, SubsetInduction
<1>4. /\ g = [s \in SUBSET S |-> g[s]]
      /\ h = [s \in SUBSET S |-> h[s]]
  BY DEF Adds
<1> QED
  BY <1>3, <1>4

LEMMA AddsPart ==
    ASSUME NEW f, NEW S, NEW g, Adds(g, f, S), NEW T, T \in SUBSET S,
           NEW h, h = [s \in SUBSET T |-> g[s]]
    PROVE  Adds(h, f, T)
<1>1. \A s \in SUBSET T : s \in SUBSET S /\ Rest(s) \in SUBSET T
  BY DEF Rest
<1>2. \A s \in SUBSET T : g[s] = IF s = {} THEN 0 ELSE f[One(s)] + g[Rest(s)]
  BY <1>1 DEF Adds
<1>3. \A s \in SUBSET T : h[s] = IF s = {} THEN 0 ELSE f[One(s)] + h[Rest(s)]
  BY <1>1, <1>2
<1>4. h = [s \in SUBSET T |-> h[s]]
  OBVIOUS
<1> QED
  BY <1>3, <1>4 DEF Adds

LEMMA AddsExists ==
    ASSUME NEW f, NEW S, IsFiniteSet(S)
    PROVE  \E g : Adds(g, f, S)
<1> DEFINE G == {s \in SUBSET S : \E g : Adds(g, f, s)}
<1>1. {} \in G
  <2> DEFINE g == [s \in SUBSET {} |-> 0]
  <2>1. Adds(g, f, {})
    BY DEF Adds
  <2> QED
    BY <2>1
<1>2. ASSUME NEW s \in SUBSET S, s # {}, \A x \in s : s \ {x} \in G
      PROVE  s \in G
  <2> DEFINE T == Rest(s)
             of(t) == CHOOSE g : Adds(g, f, t)
             g == [t \in SUBSET s |-> IF t = {} THEN 0 ELSE f[One(t)] + of(Rest(t))[Rest(t)]]
  <2>1. \A t \in SUBSET s : t # s => Adds(of(t), f, t)
    <3> SUFFICES ASSUME NEW t \in SUBSET s, t # s
                 PROVE  \E h : Adds(h, f, t)
      OBVIOUS
    <3>1. PICK x \in s : x \notin t
      OBVIOUS
    <3>2. PICK h : Adds(h, f, s \ {x})
      BY <1>2
    <3>3. t \in SUBSET (s \ {x})
      BY <3>1
    <3> DEFINE v == [u \in SUBSET t |-> h[u]]
    <3>4. v = [u \in SUBSET t |-> h[u]]
      OBVIOUS
    <3> HIDE DEF v
    <3>5. Adds(v, f, t)
      BY <3>2, <3>3, <3>4, AddsPart
    <3> QED
      BY <3>5
  <2>2. \A t \in SUBSET s : t # {} => Rest(t) \in SUBSET s /\ Rest(t) # s
    <3> SUFFICES ASSUME NEW t \in SUBSET s, t # {}
                 PROVE  Rest(t) \in SUBSET s /\ Rest(t) # s
      OBVIOUS
    <3>1. One(t) \in t
      BY OneOf
    <3> QED
      BY <3>1 DEF Rest
  <2>3. \A t \in SUBSET s : t # s => of(t)[t] = g[t]
    <3> SUFFICES ASSUME NEW t \in SUBSET s, t # s
                 PROVE  of(t)[t] = g[t]
      OBVIOUS
    <3>1. Adds(of(t), f, t)
      BY <2>1
    <3>2. CASE t = {}
      BY <3>1, <3>2 DEF Adds
    <3>3. CASE t # {}
      <4> DEFINE r == Rest(t)
      <4>1. r \in SUBSET t /\ r \in SUBSET s /\ r # s
        BY <2>2, <3>3 DEF Rest
      <4>2. Adds(of(r), f, r)
        BY <2>1, <4>1
      <4>3. Adds([u \in SUBSET r |-> of(t)[u]], f, r)
        <5> DEFINE v == [u \in SUBSET r |-> of(t)[u]]
        <5>1. Adds(of(t), f, t) /\ r \in SUBSET t
          BY <3>1, <4>1
        <5>2. v = [u \in SUBSET r |-> of(t)[u]]
          OBVIOUS
        <5> HIDE DEF v, r, of
        <5>3. Adds(v, f, r)
          BY <5>1, <5>2, AddsPart
        <5> QED
          BY <5>2, <5>3
      <4>4. IsFiniteSet(r)
        BY <4>1, FS_Subset
      <4>5. of(r) = [u \in SUBSET r |-> of(t)[u]]
        <5> HIDE DEF of, r
        <5> QED
          BY <4>2, <4>3, <4>4, AddsOnce
      <4>6. of(Rest(t))[Rest(t)] = of(t)[Rest(t)]
        <5>1. of(r)[r] = of(t)[r]
          <6> HIDE DEF of, r
          <6> QED
            BY <4>5
        <5> HIDE DEF of
        <5> QED
          BY <5>1
      <4>7. of(t)[t] = f[One(t)] + of(t)[Rest(t)]
        <5> HIDE DEF of, r
        <5> QED
          BY <3>1, <3>3 DEF Adds
      <4>8. g[t] = f[One(t)] + of(Rest(t))[Rest(t)]
        <5> HIDE DEF of
        <5> QED
          BY <3>3
      <4> HIDE DEF of, g, r
      <4> QED
        BY <4>6, <4>7, <4>8, Zenon
    <3> QED
      BY <3>2, <3>3
  <2>4. ASSUME NEW t \in SUBSET s
        PROVE  g[t] = IF t = {} THEN 0 ELSE f[One(t)] + g[Rest(t)]
    <3>1. g[t] = IF t = {} THEN 0 ELSE f[One(t)] + of(Rest(t))[Rest(t)]
      <4> HIDE DEF of
      <4> QED
        OBVIOUS
    <3>2. t # {} => of(Rest(t))[Rest(t)] = g[Rest(t)]
      <4> HIDE DEF of, g
      <4> QED
        BY <2>2, <2>3
    <3> HIDE DEF of, g
    <3> QED
      BY <3>1, <3>2
  <2>5. g = [t \in SUBSET s |-> g[t]]
    OBVIOUS
  <2>6. Adds(g, f, s)
    <3> HIDE DEF g
    <3> QED
      BY <2>4, <2>5 DEF Adds
  <2> QED
    BY <2>6
<1>3. SUBSET S \subseteq G
  <2> HIDE DEF G
  <2> QED
    BY <1>1, <1>2, SubsetInduction
<1> QED
  BY <1>3

LEMMA SumEmpty == ASSUME NEW f  PROVE Sum(f, {}) = 0
<1>1. IsFiniteSet({})
  BY FS_EmptySet
<1>2. Adds(CHOOSE g : Adds(g, f, {}), f, {})
  BY <1>1, AddsExists
<1> QED
  BY <1>2, SumDef DEF Adds

LEMMA SumStep ==
    ASSUME NEW f, NEW S, IsFiniteSet(S), S # {}
    PROVE  Sum(f, S) = f[One(S)] + Sum(f, Rest(S))
<1> DEFINE g == CHOOSE g : Adds(g, f, S)
           r == Rest(S)
<1>1. Adds(g, f, S)
  BY AddsExists
<1>2. r \in SUBSET S /\ IsFiniteSet(r)
  BY FS_Subset DEF Rest
<1>3. Adds([s \in SUBSET r |-> g[s]], f, r)
  <2> DEFINE v == [s \in SUBSET r |-> g[s]]
  <2>1. v = [s \in SUBSET r |-> g[s]]
    OBVIOUS
  <2> HIDE DEF v, g, r
  <2>2. Adds(v, f, r)
    BY <1>1, <1>2, <2>1, AddsPart
  <2> QED
    BY <2>1, <2>2
<1>4. \A h : Adds(h, f, r) => h[r] = g[r]
  <2> HIDE DEF g, r
  <2> SUFFICES ASSUME NEW h, Adds(h, f, r)
               PROVE  h[r] = g[r]
    OBVIOUS
  <2>1. h = [s \in SUBSET r |-> g[s]]
    BY <1>2, <1>3, AddsOnce
  <2> QED
    BY <2>1
<1>5. Sum(f, r) = g[r]
  <2> HIDE DEF g, r
  <2>1. Adds(CHOOSE h : Adds(h, f, r), f, r)
    BY <1>3
  <2> QED
    BY <1>4, <2>1, SumDef
<1>6. g[S] = f[One(S)] + g[r]
  <2> HIDE DEF g
  <2> QED
    BY <1>1 DEF Adds
<1>7. Sum(f, S) = g[S]
  BY SumDef
<1> HIDE DEF g
<1> QED
  BY <1>5, <1>6, <1>7

LEMMA SumSame ==
    ASSUME NEW f, NEW g, NEW S, IsFiniteSet(S), \A x \in S : f[x] = g[x]
    PROVE  Sum(f, S) = Sum(g, S)
<1> DEFINE G == {s \in SUBSET S : Sum(f, s) = Sum(g, s)}
<1>1. {} \in G
  BY SumEmpty
<1>2. ASSUME NEW s \in SUBSET S, s # {}, \A x \in s : s \ {x} \in G
      PROVE  s \in G
  <2>1. One(s) \in s /\ IsFiniteSet(s)
    BY <1>2, OneOf, FS_Subset
  <2>2. Sum(f, Rest(s)) = Sum(g, Rest(s))
    BY <1>2, <2>1 DEF Rest
  <2> QED
    BY <1>2, <2>1, <2>2, SumStep
<1>3. SUBSET S \subseteq G
  <2> HIDE DEF G
  <2> QED
    BY <1>1, <1>2, SubsetInduction
<1> QED
  BY <1>3

LEMMA SumType ==
    ASSUME NEW f, NEW S, IsFiniteSet(S), \A x \in S : f[x] \in Nat
    PROVE  Sum(f, S) \in Nat
<1> DEFINE G == {s \in SUBSET S : Sum(f, s) \in Nat}
<1>1. {} \in G
  BY SumEmpty
<1>2. ASSUME NEW s \in SUBSET S, s # {}, \A x \in s : s \ {x} \in G
      PROVE  s \in G
  <2>1. One(s) \in s /\ IsFiniteSet(s)
    BY <1>2, OneOf, FS_Subset
  <2>2. Sum(f, Rest(s)) \in Nat /\ f[One(s)] \in Nat
    BY <1>2, <2>1 DEF Rest
  <2>3. Sum(f, s) = f[One(s)] + Sum(f, Rest(s))
    BY <1>2, <2>1, SumStep
  <2> QED
    BY <2>2, <2>3
<1>3. SUBSET S \subseteq G
  <2> HIDE DEF G
  <2> QED
    BY <1>1, <1>2, SubsetInduction
<1> QED
  BY <1>3

\* Any element may come off first.
LEMMA SumRemove ==
    ASSUME NEW f, NEW S, IsFiniteSet(S), \A x \in S : f[x] \in Nat, NEW y \in S
    PROVE  Sum(f, S) = f[y] + Sum(f, S \ {y})
<1> DEFINE G == {s \in SUBSET S : \A x \in s : Sum(f, s) = f[x] + Sum(f, s \ {x})}
<1>1. {} \in G
  OBVIOUS
<1>2. ASSUME NEW s \in SUBSET S, s # {}, \A x \in s : s \ {x} \in G, NEW x \in s
      PROVE  Sum(f, s) = f[x] + Sum(f, s \ {x})
  <2> DEFINE o == One(s)
  <2>1. o \in s /\ IsFiniteSet(s)
    BY <1>2, OneOf, FS_Subset
  <2>2. Sum(f, s) = f[o] + Sum(f, s \ {o})
    BY <1>2, <2>1, SumStep DEF Rest
  <2>3. CASE x = o
    BY <2>2, <2>3
  <2>4. CASE x # o
    <3> HIDE DEF o
    <3>1. Sum(f, s \ {o}) = f[x] + Sum(f, (s \ {o}) \ {x})
      BY <1>2, <2>1, <2>4
    <3>2. Sum(f, s \ {x}) = f[o] + Sum(f, (s \ {x}) \ {o})
      BY <1>2, <2>1, <2>4
    <3>3. (s \ {o}) \ {x} = (s \ {x}) \ {o}
      OBVIOUS
    <3>4. IsFiniteSet((s \ {x}) \ {o})
      BY <2>1, FS_Subset
    <3>5. Sum(f, (s \ {x}) \ {o}) \in Nat
      BY <3>4, SumType
    <3>6. f[x] \in Nat /\ f[o] \in Nat
      BY <1>2, <2>1
    <3> DEFINE all == Sum(f, s)
               butO == Sum(f, s \ {o})
               butX == Sum(f, s \ {x})
               others == Sum(f, (s \ {x}) \ {o})
    <3>7. /\ all = f[o] + butO /\ butO = f[x] + others /\ butX = f[o] + others
          /\ others \in Nat
      BY <2>2, <3>1, <3>2, <3>3, <3>5
    <3> HIDE DEF all, butO, butX, others
    <3>8. all = f[x] + butX
      BY <3>6, <3>7
    <3> QED
      BY <3>8 DEF all, butX
  <2> QED
    BY <2>3, <2>4
<1>3. SUBSET S \subseteq G
  <2>1. ASSUME NEW s \in SUBSET S, s # {}, \A x \in s : s \ {x} \in G
        PROVE  s \in G
    BY <1>2, <2>1
  <2> HIDE DEF G
  <2> QED
    BY <1>1, <2>1, SubsetInduction
<1> QED
  BY <1>3

LEMMA SumAdd ==
    ASSUME NEW f, NEW S, IsFiniteSet(S), NEW y, y \notin S, \A x \in S \cup {y} : f[x] \in Nat
    PROVE  Sum(f, S \cup {y}) = f[y] + Sum(f, S)
<1>1. IsFiniteSet(S \cup {y}) /\ (S \cup {y}) \ {y} = S
  BY FS_AddElement
<1> QED
  BY <1>1, SumRemove

\* One value more at one place.
LEMMA SumMore ==
    ASSUME NEW f, NEW g, NEW S, IsFiniteSet(S), NEW y \in S, NEW a \in Nat,
           \A x \in S : f[x] \in Nat, g[y] = f[y] + a, \A x \in S \ {y} : g[x] = f[x]
    PROVE  Sum(g, S) = Sum(f, S) + a
<1>1. IsFiniteSet(S \ {y})
  BY FS_RemoveElement
<1>2. \A x \in S : g[x] \in Nat
  OBVIOUS
<1>3. Sum(g, S \ {y}) = Sum(f, S \ {y}) /\ Sum(f, S \ {y}) \in Nat
  BY <1>1, SumSame, SumType
<1>4. Sum(f, S) = f[y] + Sum(f, S \ {y}) /\ Sum(g, S) = g[y] + Sum(g, S \ {y})
  BY <1>2, SumRemove
<1> QED
  BY <1>3, <1>4

LEMMA SumDifference ==
    ASSUME NEW f, NEW S, IsFiniteSet(S), \A x \in S : f[x] \in Nat, NEW T \in SUBSET S
    PROVE  Sum(f, S) = Sum(f, T) + Sum(f, S \ T)
<1> DEFINE G == {s \in SUBSET T : Sum(f, S) = Sum(f, s) + Sum(f, S \ s)}
<1>1. {} \in G
  <2>1. S \ {} = S /\ Sum(f, S) \in Nat
    BY SumType
  <2> QED
    BY <2>1, SumEmpty
<1>2. ASSUME NEW s \in SUBSET T, s # {}, \A x \in s : s \ {x} \in G
      PROVE  s \in G
  <2>1. PICK x \in s : TRUE
    BY <1>2
  <2>2. Sum(f, S) = Sum(f, s \ {x}) + Sum(f, S \ (s \ {x}))
    BY <1>2
  <2>3. IsFiniteSet(s) /\ IsFiniteSet(S \ (s \ {x})) /\ IsFiniteSet(s \ {x}) /\ IsFiniteSet(S \ s)
    BY FS_Subset
  <2>4. Sum(f, s) = f[x] + Sum(f, s \ {x})
    BY <2>1, <2>3, SumRemove
  <2>5. Sum(f, S \ (s \ {x})) = f[x] + Sum(f, S \ s)
    <3>1. (S \ (s \ {x})) \ {x} = S \ s /\ x \in S \ (s \ {x})
      BY <2>1
    <3> QED
      BY <2>3, <3>1, SumRemove
  <2>6. Sum(f, s \ {x}) \in Nat /\ Sum(f, S \ s) \in Nat /\ f[x] \in Nat
    BY <2>1, <2>3, SumType
  <2> QED
    BY <2>2, <2>4, <2>5, <2>6
<1>3. IsFiniteSet(T)
  BY FS_Subset
<1>4. SUBSET T \subseteq G
  <2> HIDE DEF G
  <2> QED
    BY <1>1, <1>2, <1>3, SubsetInduction
<1> QED
  BY <1>4

\* A sum by keys.
LEMMA SumByKey ==
    ASSUME NEW f, NEW S, IsFiniteSet(S), \A x \in S : f[x] \in Nat,
           NEW T, IsFiniteSet(T), NEW key, \A x \in S : key[x] \in T
    PROVE  Sum([t \in T |-> Sum(f, {x \in S : key[x] = t})], T) = Sum(f, S)
<1> DEFINE Of(s) == [t \in T |-> Sum(f, {x \in s : key[x] = t})]
           G == {s \in SUBSET S : Sum(Of(s), T) = Sum(f, s)}
<1>0. \A s \in SUBSET S, t \in T : IsFiniteSet({x \in s : key[x] = t})
                                    /\ Sum(f, {x \in s : key[x] = t}) \in Nat
  <2> SUFFICES ASSUME NEW s \in SUBSET S, NEW t \in T
               PROVE  IsFiniteSet({x \in s : key[x] = t}) /\ Sum(f, {x \in s : key[x] = t}) \in Nat
    OBVIOUS
  <2>1. IsFiniteSet({x \in s : key[x] = t})
    BY FS_Subset
  <2> QED
    BY <2>1, SumType
<1>1. {} \in G
  <2> DEFINE H == {u \in SUBSET T : Sum(Of({}), u) = 0}
  <2>1. \A t \in T : Of({})[t] = 0
    <3>1. \A t \in T : {x \in {} : key[x] = t} = {}
      OBVIOUS
    <3> QED
      BY <3>1, SumEmpty
  <2> HIDE DEF Of
  <2>2. {} \in H
    BY SumEmpty
  <2>3. ASSUME NEW u \in SUBSET T, u # {}, \A x \in u : u \ {x} \in H
        PROVE  u \in H
    <3>1. One(u) \in u /\ IsFiniteSet(u)
      BY <2>3, OneOf, FS_Subset
    <3>2. Sum(Of({}), Rest(u)) = 0 /\ Of({})[One(u)] = 0
      BY <2>1, <2>3, <3>1 DEF Rest
    <3> QED
      BY <2>3, <3>1, <3>2, SumStep
  <2>4. SUBSET T \subseteq H
    <3> HIDE DEF H
    <3> QED
      BY <2>2, <2>3, SubsetInduction
  <2> QED
    BY <2>4, SumEmpty
<1>2. ASSUME NEW s \in SUBSET S, s # {}, \A x \in s : s \ {x} \in G
      PROVE  s \in G
  <2>1. PICK x \in s : TRUE
    BY <1>2
  <2> DEFINE b == Of(s \ {x})
             a == Of(s)
             k == key[x]
  <2>2. k \in T /\ f[x] \in Nat
    BY <2>1
  <2>3. \A t \in T : b[t] \in Nat
    BY <1>0
  <2>4. \A t \in T \ {k} : a[t] = b[t]
    <3>1. \A t \in T \ {k} : {y \in s : key[y] = t} = {y \in s \ {x} : key[y] = t}
      OBVIOUS
    <3> QED
      BY <3>1
  <2>5. a[k] = b[k] + f[x]
    <3> DEFINE u == {y \in s : key[y] = k}
    <3>1. {y \in s \ {x} : key[y] = k} = u \ {x} /\ x \in u
      BY <2>1
    <3>2. IsFiniteSet(u) /\ \A y \in u : f[y] \in Nat
      BY <1>0, <2>2
    <3>3. a[k] = Sum(f, u) /\ b[k] = Sum(f, u \ {x})
      BY <2>2, <3>1
    <3>4. Sum(f, u) = f[x] + Sum(f, u \ {x})
      <4> HIDE DEF u
      <4> QED
        BY <3>1, <3>2, SumRemove
    <3>5. b[k] \in Nat
      BY <2>2, <2>3
    <3> HIDE DEF u, a, b
    <3> QED
      BY <2>2, <3>3, <3>4, <3>5
  <2>6. Sum(a, T) = Sum(b, T) + f[x]
    <3> HIDE DEF a, b, k
    <3> QED
      BY <2>2, <2>3, <2>4, <2>5, SumMore
  <2>7. Sum(b, T) = Sum(f, s \ {x})
    BY <1>2, <2>1
  <2>8. IsFiniteSet(s) /\ \A y \in s : f[y] \in Nat
    BY FS_Subset
  <2>9. Sum(f, s) = f[x] + Sum(f, s \ {x})
    BY <2>1, <2>8, SumRemove
  <2>10. Sum(f, s \ {x}) \in Nat
    <3>1. IsFiniteSet(s \ {x})
      BY <2>8, FS_RemoveElement
    <3> QED
      BY <2>8, <3>1, SumType
  <2>11. Sum(a, T) = Sum(f, s)
    <3> HIDE DEF a, b
    <3> QED
      BY <2>2, <2>6, <2>7, <2>9, <2>10
  <2> QED
    BY <2>11
<1>3. SUBSET S \subseteq G
  <2> HIDE DEF G
  <2> QED
    BY <1>1, <1>2, SubsetInduction
<1> QED
  BY <1>3

-----------------------------------------------------------------------------
(* The spend ledger implements the limit over a full list of spends. *)

LedgerTyped ==
    /\ lNow \in 0..LedgerTime
    /\ lLimit \in SpendLimit
    /\ lRing \in [DailyLedger!Slot -> [at : Nat, amount : Nat]]
    /\ lHead \in DailyLedger!Slot
    /\ lCount \in 0..MAX_ACTIVE_ENTRIES

\* Entries in use are in the order of their times, none of them in the future.
EntriesInOrder ==
    /\ \A i \in 0..(lCount - 1) : lRing[DailyLedger!Nth(i)].at <= lNow
    /\ \A i, j \in 0..(lCount - 1) :
          i <= j => lRing[DailyLedger!Nth(i)].at <= lRing[DailyLedger!Nth(j)].at

\* The running total is what the entries in use add up to.
TotalKept == lSpent = Sum(DailyLedger!AmountOf, DailyLedger!Prefix(lCount))

LedgerInv == LedgerTyped /\ EntriesInOrder /\ TotalKept

LEMMA LedgerAssumed ==
    /\ MAX_ACTIVE_ENTRIES \in Nat \ {0}
    /\ MAX_BOOKABLE_AMOUNT \in Nat
    /\ WINDOW \in Nat \ {0}
    /\ SpendAmount \subseteq Nat
    /\ SpendLimit \subseteq Nat /\ 0 \in SpendLimit
    /\ LedgerTime \in Nat
BY PartsAssumption DEF DailyLedger!LedgerAssumption

LEMMA SameSum ==
    ASSUME NEW f, NEW S  
    PROVE  /\ DailyLedger!SumFunctionOnSet(f, S) = Sum(f, S)
           /\ DailyLedger!Rolling!SumFunctionOnSet(f, S) = Sum(f, S)
BY DEF Sum, SumFunctionOnSet, FoldFunctionOnSet, MapThenFoldSet,
   DailyLedger!SumFunctionOnSet, DailyLedger!FoldFunctionOnSet, DailyLedger!MapThenFoldSet,
   DailyLedger!Rolling!SumFunctionOnSet, DailyLedger!Rolling!FoldFunctionOnSet,
   DailyLedger!Rolling!MapThenFoldSet

\* A place up to one lap behind the first slot, brought back into the ring.
Lap(x) == IF x < MAX_ACTIVE_ENTRIES THEN x ELSE x - MAX_ACTIVE_ENTRIES

LEMMA Wraps ==
    ASSUME NEW x \in 0..(2 * MAX_ACTIVE_ENTRIES - 1)
    PROVE  x % MAX_ACTIVE_ENTRIES = Lap(x)
BY LedgerAssumed DEF Lap

\* The ring: the slots after the head, each once.
LEMMA Slots ==
    ASSUME LedgerTyped
    PROVE  /\ IsFiniteSet(DailyLedger!Slot)
           /\ \A k \in 0..MAX_ACTIVE_ENTRIES :
                 /\ DailyLedger!Nth(k) \in DailyLedger!Slot
                 /\ DailyLedger!Nth(k) = Lap(lHead + k)
                 /\ DailyLedger!Prefix(k) \subseteq DailyLedger!Slot
                 /\ IsFiniteSet(DailyLedger!Prefix(k))
           /\ \A i, j \in 0..(MAX_ACTIVE_ENTRIES - 1) :
                 DailyLedger!Nth(i) = DailyLedger!Nth(j) => i = j
<1>1. MAX_ACTIVE_ENTRIES \in Nat \ {0} /\ lHead \in 0..(MAX_ACTIVE_ENTRIES - 1)
  BY LedgerAssumed DEF LedgerTyped, DailyLedger!Slot
<1>2. IsFiniteSet(DailyLedger!Slot)
  BY <1>1, FS_Interval DEF DailyLedger!Slot
<1>3. ASSUME NEW k \in 0..MAX_ACTIVE_ENTRIES
      PROVE  DailyLedger!Nth(k) = Lap(lHead + k)
  <2>1. lHead + k \in 0..(2 * MAX_ACTIVE_ENTRIES - 1)
    BY <1>1
  <2>2. (lHead + k) % MAX_ACTIVE_ENTRIES = Lap(lHead + k)
    BY <2>1, Wraps
  <2> QED
    BY <2>2, Zenon DEF DailyLedger!Nth, DailyLedger!Masked
<1>4. \A k \in 0..MAX_ACTIVE_ENTRIES : DailyLedger!Nth(k) \in DailyLedger!Slot
  BY <1>1, <1>3 DEF DailyLedger!Slot, Lap
<1>5. ASSUME NEW k \in 0..MAX_ACTIVE_ENTRIES
      PROVE  DailyLedger!Prefix(k) \subseteq DailyLedger!Slot /\ IsFiniteSet(DailyLedger!Prefix(k))
  <2>1. DailyLedger!Prefix(k) \subseteq DailyLedger!Slot
    BY <1>1, <1>4 DEF DailyLedger!Prefix
  <2> QED
    BY <1>2, <2>1, FS_Subset
<1>6. \A i, j \in 0..(MAX_ACTIVE_ENTRIES - 1) :
                 DailyLedger!Nth(i) = DailyLedger!Nth(j) => i = j
  BY <1>1, <1>3 DEF Lap
<1> QED
  BY <1>2, <1>3, <1>4, <1>5, <1>6

\* What the loop over the expired entries drops: all of them and no other.
LEMMA DropsTheExpired ==
    ASSUME LedgerTyped, EntriesInOrder
    PROVE  /\ DailyLedger!Dropped \in 0..lCount
           /\ \A i \in 0..(lCount - 1) :
                 DailyLedger!Expired(DailyLedger!Nth(i)) <=> i < DailyLedger!Dropped
<1> DEFINE Live == {i \in 0..(lCount - 1) : ~ DailyLedger!Expired(DailyLedger!Nth(i))} \cup {lCount}
           Stops(k) == /\ \A i \in 0..(k - 1) : DailyLedger!Expired(DailyLedger!Nth(i))
                       /\ k = lCount \/ ~ DailyLedger!Expired(DailyLedger!Nth(k))
<1>1. lCount \in Nat /\ lNow \in Nat /\ WINDOW \in Nat
  BY LedgerAssumed DEF LedgerTyped
<1>2. \E k \in 0..lCount : Stops(k)
  <2>1. Live \subseteq Nat /\ Live # {}
    BY <1>1
  <2>2. PICK k \in Live : \A l \in Live : k <= l
    <3> HIDE DEF Live
    <3> QED
      BY <2>1, LeastNatural
  <2>3. k \in 0..lCount
    BY <1>1
  <2>4. \A i \in 0..(k - 1) : DailyLedger!Expired(DailyLedger!Nth(i))
    <3> SUFFICES ASSUME NEW i \in 0..(k - 1)  PROVE DailyLedger!Expired(DailyLedger!Nth(i))
      OBVIOUS
    <3>1. ~ (k <= i) /\ i \in 0..(lCount - 1)
      BY <1>1, <2>3
    <3> QED
      BY <2>2, <3>1
  <2>5. k = lCount \/ ~ DailyLedger!Expired(DailyLedger!Nth(k))
    OBVIOUS
  <2> QED
    BY <2>3, <2>4, <2>5
<1>3. DailyLedger!Dropped = CHOOSE k \in 0..lCount : Stops(k)
  BY DEF DailyLedger!Dropped
<1> DEFINE d == DailyLedger!Dropped
<1>4. d \in 0..lCount /\ Stops(d)
  <2> HIDE DEF Stops
  <2> QED
    BY <1>2, <1>3
<1>5. ASSUME NEW i \in 0..(lCount - 1), ~ (i < d)
      PROVE  ~ DailyLedger!Expired(DailyLedger!Nth(i))
  <2>1. d \in 0..(lCount - 1) /\ d <= i
    BY <1>1, <1>4, <1>5
  <2>2. ~ DailyLedger!Expired(DailyLedger!Nth(d))
    BY <1>1, <1>4, <2>1
  <2>3. lRing[DailyLedger!Nth(d)].at <= lRing[DailyLedger!Nth(i)].at
    BY <2>1 DEF EntriesInOrder
  <2>4. DailyLedger!Nth(d) \in DailyLedger!Slot /\ DailyLedger!Nth(i) \in DailyLedger!Slot
    <3>1. i \in 0..MAX_ACTIVE_ENTRIES /\ d \in 0..MAX_ACTIVE_ENTRIES
      BY <1>1, <1>4, <2>1, LedgerAssumed DEF LedgerTyped
    <3> HIDE DEF d
    <3> QED
      BY <3>1, Slots
  <2>5. lRing[DailyLedger!Nth(d)].at \in Nat /\ lRing[DailyLedger!Nth(i)].at \in Nat
    BY <2>4 DEF LedgerTyped
  <2> HIDE DEF d
  <2> QED
    BY <1>1, <2>2, <2>3, <2>5 DEF DailyLedger!Expired
<1>6. \A i \in 0..(lCount - 1) : i < d => DailyLedger!Expired(DailyLedger!Nth(i))
  BY <1>1, <1>4
<1> HIDE DEF d
<1> QED
  BY <1>4, <1>5, <1>6 DEF d

\* What is live is what the window holds, and the total of it is what _liveAt says.
LEMMA LiveIsInWindow ==
    ASSUME LedgerInv
    PROVE  /\ DailyLedger!InWindow \subseteq DailyLedger!Slot
           /\ IsFiniteSet(DailyLedger!InWindow)
           /\ DailyLedger!InWindow =
                 {DailyLedger!Nth(i) : i \in DailyLedger!Dropped..(lCount - 1)}
           /\ DailyLedger!_liveAt.spent = Sum(DailyLedger!AmountOf, DailyLedger!InWindow)
           /\ DailyLedger!_liveAt.spent \in Nat
<1> DEFINE d == DailyLedger!Dropped
           W == DailyLedger!InWindow
           P == DailyLedger!Prefix(lCount)
           Q == DailyLedger!Prefix(d)
           f == DailyLedger!AmountOf
<1>1. LedgerTyped /\ EntriesInOrder /\ lSpent = Sum(f, P)
  BY DEF LedgerInv, TotalKept
<1>2. /\ d \in 0..lCount
      /\ \A i \in 0..(lCount - 1) : DailyLedger!Expired(DailyLedger!Nth(i)) <=> i < d
  BY <1>1, DropsTheExpired
<1>3. lCount \in 0..MAX_ACTIVE_ENTRIES /\ MAX_ACTIVE_ENTRIES \in Nat /\ d \in 0..MAX_ACTIVE_ENTRIES
  BY <1>1, <1>2, LedgerAssumed DEF LedgerTyped
<1>4. /\ P \subseteq DailyLedger!Slot /\ IsFiniteSet(P)
      /\ Q \subseteq DailyLedger!Slot /\ IsFiniteSet(Q)
  BY <1>1, <1>3, Slots
<1>5. \A n \in DailyLedger!Slot : lRing[n].at \in Nat /\ lRing[n].amount \in Nat /\ f[n] = lRing[n].amount
  BY <1>1 DEF LedgerTyped, DailyLedger!AmountOf
<1>6. \A n \in P : lNow - lRing[n].at < WINDOW <=> ~ DailyLedger!Expired(n)
  <2>1. lNow \in Nat /\ WINDOW \in Nat
    BY <1>1, LedgerAssumed DEF LedgerTyped
  <2> QED
    BY <1>4, <1>5, <2>1 DEF DailyLedger!Expired
<1>7. W = {n \in P : ~ DailyLedger!Expired(n)}
  BY <1>6 DEF DailyLedger!InWindow
<1>8. W = {DailyLedger!Nth(i) : i \in d..(lCount - 1)}
  <2> HIDE DEF d, W
  <2> QED
    BY <1>2, <1>3, <1>7 DEF DailyLedger!Prefix
<1>9. Q \subseteq P /\ W = P \ Q
  <2> HIDE DEF d, W
  <2> QED
    BY <1>2, <1>3, <1>7 DEF DailyLedger!Prefix
<1>10. Sum(f, P) = Sum(f, Q) + Sum(f, W)
  <2> HIDE DEF f, P, Q, W
  <2> QED
    BY <1>4, <1>5, <1>9, SumDifference
<1>11. Sum(f, W) \in Nat /\ Sum(f, Q) \in Nat /\ IsFiniteSet(W) /\ W \subseteq DailyLedger!Slot
  <2>1. IsFiniteSet(W) /\ W \subseteq DailyLedger!Slot
    <3> HIDE DEF P, Q, W
    <3> QED
      BY <1>4, <1>9, FS_Subset
  <2> HIDE DEF f, P, Q, W
  <2> QED
    BY <1>4, <1>5, <2>1, SumType
<1>12. DailyLedger!_liveAt.spent = lSpent - Sum(f, Q)
  BY SameSum DEF DailyLedger!_liveAt
<1> HIDE DEF f, P, Q, W, d
<1>13. DailyLedger!_liveAt.spent = Sum(f, W)
  BY <1>1, <1>10, <1>11, <1>12
<1> QED
  BY <1>8, <1>11, <1>13 DEF W, d, f

\* The head moved past what is dropped: the live entries are the first ones now.
LEMMA HeadMoves ==
    ASSUME LedgerTyped, EntriesInOrder, lHead' = DailyLedger!_liveAt.head
    PROVE  /\ lHead' \in DailyLedger!Slot
           /\ \A j \in 0..(MAX_ACTIVE_ENTRIES - DailyLedger!Dropped) :
                 DailyLedger!Nth(j)' = DailyLedger!Nth(DailyLedger!Dropped + j)
<1> DEFINE d == DailyLedger!Dropped
           M == MAX_ACTIVE_ENTRIES
<1>1. M \in Nat \ {0} /\ d \in 0..M /\ lHead \in 0..(M - 1)
  BY LedgerAssumed, DropsTheExpired DEF LedgerTyped, DailyLedger!Slot
<1>2. lHead' = DailyLedger!Nth(d)
  BY DEF DailyLedger!_liveAt
<1>3. \A k \in 0..M : /\ DailyLedger!Nth(k) \in DailyLedger!Slot
                      /\ DailyLedger!Nth(k) = Lap(lHead + k)
  BY Slots
<1>4. ASSUME NEW j \in 0..(M - d)
      PROVE  DailyLedger!Nth(j)' = DailyLedger!Nth(d + j)
  <2> HIDE DEF d, M
  <2>1. DailyLedger!Nth(j)' = (lHead' + j) % M
    BY DEF DailyLedger!Nth, DailyLedger!Masked, M
  <2>2. d + j \in 0..M
    BY <1>1
  <2>3. lHead' \in 0..(M - 1) /\ lHead' = Lap(lHead + d)
    BY <1>1, <1>2, <1>3 DEF DailyLedger!Slot, M
  <2>4. lHead' + j \in 0..(2 * M - 1)
    BY <1>1, <2>3
  <2>5. (lHead' + j) % M = Lap(lHead' + j)
    BY <2>4, Wraps DEF M
  <2>6. DailyLedger!Nth(d + j) = Lap(lHead + (d + j))
    BY <1>3, <2>2
  <2> QED
    BY <1>1, <2>1, <2>3, <2>5, <2>6 DEF Lap, M
<1> QED
  BY <1>1, <1>2, <1>3, <1>4

\* Where the ring is written: behind the last entry, or in it.
LEMMA WrittenSlots ==
    ASSUME LedgerTyped, EntriesInOrder
    PROVE  /\ DailyLedger!_liveAt.count = lCount - DailyLedger!Dropped
           /\ DailyLedger!Masked(DailyLedger!_liveAt.head + DailyLedger!_liveAt.count) =
                 DailyLedger!Nth(lCount)
           /\ DailyLedger!_liveAt.count # 0 => DailyLedger!Newest = DailyLedger!Nth(lCount - 1)
<1> DEFINE d == DailyLedger!Dropped
           M == MAX_ACTIVE_ENTRIES
           h == DailyLedger!Nth(d)
<1>1. M \in Nat \ {0} /\ d \in 0..lCount /\ lCount \in 0..M /\ lHead \in 0..(M - 1)
  BY LedgerAssumed, DropsTheExpired DEF LedgerTyped, DailyLedger!Slot
<1>2. DailyLedger!_liveAt.count = lCount - d /\ DailyLedger!_liveAt.head = h
  BY DEF DailyLedger!_liveAt
<1>3. \A k \in 0..M : /\ DailyLedger!Nth(k) \in 0..(M - 1)
                      /\ DailyLedger!Nth(k) = Lap(lHead + k)
  BY Slots DEF DailyLedger!Slot
<1>4. ASSUME NEW k \in d..lCount
      PROVE  DailyLedger!Masked(h + (k - d)) = DailyLedger!Nth(k)
  <2>1. k \in 0..M /\ d \in 0..M
    BY <1>1
  <2>2. h \in 0..(M - 1) /\ h = Lap(lHead + d)
    BY <1>3, <2>1
  <2>3. DailyLedger!Nth(k) = Lap(lHead + k)
    BY <1>3, <2>1
  <2> HIDE DEF d, M, h
  <2>4. h + (k - d) \in 0..(2 * M - 1)
    BY <1>1, <2>2
  <2>5. (h + (k - d)) % M = Lap(h + (k - d))
    BY <2>4, Wraps DEF M
  <2>6. DailyLedger!Masked(h + (k - d)) = (h + (k - d)) % M
    BY DEF DailyLedger!Masked, M
  <2> QED
    BY <1>1, <2>2, <2>3, <2>5, <2>6 DEF Lap, M
<1>5. DailyLedger!Masked(h + (lCount - d)) = DailyLedger!Nth(lCount)
  <2> HIDE DEF d, h
  <2>1. lCount \in d..lCount
    BY <1>1
  <2> QED
    BY <1>4, <2>1
<1>6. ASSUME lCount - d # 0
      PROVE  DailyLedger!Newest = DailyLedger!Nth(lCount - 1)
  <2>1. DailyLedger!Newest = DailyLedger!Masked(h + ((lCount - d) - 1))
    BY <1>2 DEF DailyLedger!Newest
  <2> HIDE DEF d, h
  <2>2. lCount - 1 \in d..lCount /\ (lCount - d) - 1 = (lCount - 1) - d
    BY <1>1, <1>6
  <2> QED
    BY <1>4, <2>1, <2>2
<1> QED
  BY <1>2, <1>5, <1>6

\* What a write makes of the ring: the window holds what it held, and the new entry.
LEMMA AfterWrite ==
    ASSUME LedgerInv, UNCHANGED <<lNow, lLimit>>,
           lRing' \in [DailyLedger!Slot -> [at : Nat, amount : Nat]],
           lHead' = DailyLedger!_liveAt.head,
           NEW more \in {0, 1}, lCount' = DailyLedger!_liveAt.count + more,
           lCount' \in 0..MAX_ACTIVE_ENTRIES,
           \A n \in DailyLedger!InWindow : lRing'[n].at = lRing[n].at,
           more = 1 => lRing'[DailyLedger!Nth(lCount)].at = lNow,
           NEW W, W = DailyLedger!InWindow \cup
                         {n \in {DailyLedger!Nth(lCount)} : more = 1}
    PROVE  /\ LedgerTyped'
           /\ EntriesInOrder'
           /\ DailyLedger!Prefix(lCount)' = W
           /\ DailyLedger!InWindow' = W
<1> DEFINE d == DailyLedger!Dropped
           M == MAX_ACTIVE_ENTRIES
           V == DailyLedger!InWindow
<1>1. /\ LedgerTyped /\ EntriesInOrder
      /\ M \in Nat \ {0} /\ lCount \in 0..M /\ lNow \in Nat /\ WINDOW \in Nat \ {0}
  BY LedgerAssumed DEF LedgerInv, LedgerTyped
<1>2. /\ d \in 0..lCount
      /\ \A i \in 0..(lCount - 1) : DailyLedger!Expired(DailyLedger!Nth(i)) <=> i < d
      /\ lCount' = (lCount - d) + more
  BY <1>1, DropsTheExpired, WrittenSlots
<1>3. /\ lHead' \in DailyLedger!Slot
      /\ \A j \in 0..(M - d) : DailyLedger!Nth(j)' = DailyLedger!Nth(d + j)
  BY <1>1, HeadMoves
<1>4. \A k \in 0..M : DailyLedger!Nth(k) \in DailyLedger!Slot
  BY <1>1, Slots
<1>5. V = {DailyLedger!Nth(i) : i \in d..(lCount - 1)}
  BY LiveIsInWindow
<1>6. LedgerTyped'
  BY <1>1, <1>3 DEF LedgerTyped, DailyLedger!Slot
<1> DEFINE at(i) == lRing[DailyLedger!Nth(i)].at
<1>7. \A i \in 0..(lCount - 1) : at(i) \in Nat /\ at(i) <= lNow
  BY <1>1, <1>4 DEF LedgerTyped, EntriesInOrder
<1>8. \A i, j \in 0..(lCount - 1) : i <= j => at(i) <= at(j)
  BY <1>1 DEF EntriesInOrder
<1>9. \A j \in 0..(lCount' - 1) : d + j \in d..lCount /\ DailyLedger!Nth(j)' = DailyLedger!Nth(d + j)
  <2> HIDE DEF d, M
  <2> SUFFICES ASSUME NEW j \in 0..(lCount' - 1)
               PROVE  d + j \in d..lCount /\ DailyLedger!Nth(j)' = DailyLedger!Nth(d + j)
    OBVIOUS
  <2>1. j \in 0..(M - d) /\ d + j \in d..lCount
    BY <1>1, <1>2
  <2> QED
    BY <1>3, <2>1
<1>10. \A j \in 0..(lCount' - 1) :
          lRing'[DailyLedger!Nth(j)'].at = IF d + j = lCount THEN lNow ELSE at(d + j)
  <2> SUFFICES ASSUME NEW j \in 0..(lCount' - 1)
               PROVE  lRing'[DailyLedger!Nth(j)'].at = IF d + j = lCount THEN lNow ELSE at(d + j)
    OBVIOUS
  <2>1. DailyLedger!Nth(j)' = DailyLedger!Nth(d + j) /\ d + j \in d..lCount
    BY <1>9
  <2>2. CASE d + j = lCount
    <3>1. more = 1
      <4> HIDE DEF d, M
      <4> QED
        BY <1>1, <1>2, <2>2
    <3> HIDE DEF d
    <3> QED
      BY <2>1, <2>2, <3>1
  <2>3. CASE d + j # lCount
    <3>1. d + j \in d..(lCount - 1)
      <4> HIDE DEF d
      <4> QED
        BY <1>1, <1>2, <2>1, <2>3
    <3>2. DailyLedger!Nth(d + j) \in V
      <4> HIDE DEF d, V
      <4> QED
        BY <1>5, <3>1
    <3> HIDE DEF d
    <3> QED
      BY <2>1, <2>3, <3>2
  <2> QED
    BY <2>2, <2>3
<1>11. EntriesInOrder'
  <2> HIDE DEF d, at
  <2>1. \A j \in 0..(lCount' - 1) : lRing'[DailyLedger!Nth(j)'].at <= lNow'
    <3> SUFFICES ASSUME NEW j \in 0..(lCount' - 1)
                 PROVE  lRing'[DailyLedger!Nth(j)'].at <= lNow'
      OBVIOUS
    <3>1. d + j \in d..lCount
      BY <1>9
    <3> QED
      BY <1>1, <1>2, <1>7, <1>10, <3>1
  <2>2. ASSUME NEW i \in 0..(lCount' - 1), NEW j \in 0..(lCount' - 1), i <= j
        PROVE  lRing'[DailyLedger!Nth(i)'].at <= lRing'[DailyLedger!Nth(j)'].at
    <3>1. d + j \in d..lCount /\ d + i \in d..lCount /\ d + i <= d + j
      BY <1>1, <1>2, <1>9, <2>2
    <3> QED
      BY <1>1, <1>2, <1>7, <1>8, <1>10, <2>2, <3>1
  <2> QED
    BY <2>1, <2>2 DEF EntriesInOrder
<1>12. DailyLedger!Prefix(lCount)' = {DailyLedger!Nth(j)' : j \in 0..(lCount' - 1)}
  BY DEF DailyLedger!Prefix
<1>13. {DailyLedger!Nth(j)' : j \in 0..(lCount' - 1)} = W
  <2> DEFINE s == DailyLedger!Nth(lCount)
             N(i) == DailyLedger!Nth(i)
  <2>1. \A j \in 0..(lCount' - 1) : DailyLedger!Nth(j)' = N(d + j) /\ d + j \in d..lCount
    BY <1>9
  <2>2. W = {N(i) : i \in d..(lCount - 1)} \cup {n \in {N(lCount)} : more = 1}
    BY <1>5
  <2> HIDE DEF N, d
  <2>3. {DailyLedger!Nth(j)' : j \in 0..(lCount' - 1)} = {N(d + j) : j \in 0..(lCount' - 1)}
    BY <2>1
  <2>4. {N(d + j) : j \in 0..(lCount' - 1)} =
          {N(i) : i \in d..(lCount - 1)} \cup {n \in {N(lCount)} : more = 1}
    <3>1. ASSUME NEW j \in 0..(lCount' - 1)
          PROVE  N(d + j) \in {N(i) : i \in d..(lCount - 1)} \cup {n \in {N(lCount)} : more = 1}
      <4>1. d + j \in d..(lCount - 1) \/ (d + j = lCount /\ more = 1)
        BY <1>1, <1>2
      <4> QED
        BY <4>1
    <3>2. ASSUME NEW i \in d..(lCount - 1)
          PROVE  N(i) \in {N(d + j) : j \in 0..(lCount' - 1)}
      <4>1. i - d \in 0..(lCount' - 1) /\ d + (i - d) = i
        BY <1>1, <1>2
      <4>2. N(d + (i - d)) \in {N(d + j) : j \in 0..(lCount' - 1)}
        BY <4>1
      <4> QED
        BY <4>1, <4>2
    <3>3. ASSUME more = 1
          PROVE  N(lCount) \in {N(d + j) : j \in 0..(lCount' - 1)}
      <4>1. lCount - d \in 0..(lCount' - 1) /\ d + (lCount - d) = lCount
        BY <1>1, <1>2, <3>3
      <4>2. N(d + (lCount - d)) \in {N(d + j) : j \in 0..(lCount' - 1)}
        BY <4>1
      <4> QED
        BY <4>1, <4>2
    <3> QED
      BY <3>1, <3>2, <3>3
  <2> QED
    BY <2>2, <2>3, <2>4
<1>14. \A n \in W : lNow' - lRing'[n].at < WINDOW
  <2>1. \A n \in V : lNow' - lRing'[n].at < WINDOW
    <3>1. \A n \in V : lNow - lRing[n].at < WINDOW
      BY DEF DailyLedger!InWindow
    <3> QED
      BY <3>1
  <2>2. more = 1 => lNow' - lRing'[DailyLedger!Nth(lCount)].at < WINDOW
    BY <1>1
  <2> QED
    BY <2>1, <2>2
<1>15. DailyLedger!InWindow' = W
  BY <1>12, <1>13, <1>14 DEF DailyLedger!InWindow
<1> QED
  BY <1>6, <1>11, <1>12, <1>13, <1>15

LEMMA LedgerAmounts ==
    ASSUME LedgerTyped
    PROVE  \A n \in DailyLedger!Slot :
              /\ DailyLedger!AmountOf[n] = lRing[n].amount
              /\ lRing[n].amount \in Nat
              /\ lRing[n].at \in Nat
BY DEF LedgerTyped, DailyLedger!AmountOf

\* A zero amount drops what has expired and leaves what the window holds.
LEMMA NothingBooked ==
    ASSUME LedgerInv, DailyLedger!bookNothing
    PROVE  /\ LedgerInv'
           /\ \A t : DailyLedger!SpentAt(t)' = DailyLedger!SpentAt(t)
<1> DEFINE W == DailyLedger!InWindow
<1>1. LedgerTyped /\ EntriesInOrder
  BY DEF LedgerInv
<1>2. /\ lRing' = lRing /\ lNow' = lNow /\ lLimit' = lLimit
      /\ lHead' = DailyLedger!_liveAt.head
      /\ lCount' = DailyLedger!_liveAt.count + 0
      /\ lSpent' = DailyLedger!_liveAt.spent
  BY <1>1, LiveIsInWindow, WrittenSlots, DropsTheExpired
  DEF DailyLedger!bookNothing, DailyLedger!Save, LedgerTyped
<1>3. lCount' \in 0..MAX_ACTIVE_ENTRIES
  <2>1. /\ DailyLedger!Dropped \in 0..lCount /\ lCount \in 0..MAX_ACTIVE_ENTRIES
        /\ MAX_ACTIVE_ENTRIES \in Nat /\ lCount' = (lCount - DailyLedger!Dropped) + 0
    BY <1>1, <1>2, WrittenSlots, DropsTheExpired, LedgerAssumed DEF LedgerTyped
  <2> QED
    BY <2>1
<1>4. lRing' \in [DailyLedger!Slot -> [at : Nat, amount : Nat]]
  BY <1>1, <1>2 DEF LedgerTyped
<1>5. /\ LedgerTyped' /\ EntriesInOrder'
      /\ DailyLedger!Prefix(lCount)' = W
      /\ DailyLedger!InWindow' = W
  <2>1. W = W \cup {n \in {DailyLedger!Nth(lCount)} : 0 = 1}
    OBVIOUS
  <2> HIDE DEF W
  <2> QED
    BY <1>2, <1>3, <1>4, <2>1, AfterWrite DEF W
<1>6. DailyLedger!AmountOf' = DailyLedger!AmountOf
  BY <1>2 DEF DailyLedger!AmountOf
<1>7. TotalKept'
  BY <1>2, <1>5, <1>6, LiveIsInWindow DEF TotalKept
<1>8. \A t : DailyLedger!SpentAt(t)' = DailyLedger!SpentAt(t)
  BY <1>2, <1>5, <1>6 DEF DailyLedger!SpentAt
<1> QED
  BY <1>5, <1>7, <1>8 DEF LedgerInv

\* The amount is added to the newest entry, which is of this second.
LEMMA NewestBooked ==
    ASSUME LedgerInv, NEW a \in Nat, DailyLedger!bookIntoNewest(a)
    PROVE  /\ LedgerInv'
           /\ \A t : DailyLedger!SpentAt(t)' = DailyLedger!SpentAt(t) + (IF t = lNow THEN a ELSE 0)
<1> DEFINE W == DailyLedger!InWindow
           n == DailyLedger!Newest
           f == DailyLedger!AmountOf
           g == DailyLedger!AmountOf'
           d == DailyLedger!Dropped
<1>1. LedgerTyped /\ EntriesInOrder
  BY DEF LedgerInv
<1>2. /\ lRing' = [lRing EXCEPT ![n].amount = @ + a] /\ lNow' = lNow /\ lLimit' = lLimit
      /\ lHead' = DailyLedger!_liveAt.head
      /\ lCount' = DailyLedger!_liveAt.count
      /\ lSpent' = DailyLedger!_liveAt.spent + a
      /\ DailyLedger!_liveAt.count # 0 /\ lRing[n].at = lNow
  BY DEF DailyLedger!bookIntoNewest, DailyLedger!Save, DailyLedger!Coalesces
<1>3. /\ d \in 0..lCount /\ lCount \in 0..MAX_ACTIVE_ENTRIES /\ MAX_ACTIVE_ENTRIES \in Nat
      /\ lCount' = lCount - d /\ lCount - d # 0 /\ n = DailyLedger!Nth(lCount - 1)
  BY <1>1, <1>2, WrittenSlots, DropsTheExpired, LedgerAssumed DEF LedgerTyped
<1>4. W \subseteq DailyLedger!Slot /\ IsFiniteSet(W) /\ n \in W
  <2>1. lCount - 1 \in d..(lCount - 1)
    BY <1>3
  <2> HIDE DEF d, n
  <2> QED
    BY <1>3, <2>1, LiveIsInWindow DEF d
<1>5. lRing' \in [DailyLedger!Slot -> [at : Nat, amount : Nat]]
  <2> HIDE DEF n, W
  <2> QED
    BY <1>1, <1>2, <1>4 DEF LedgerTyped
<1>6. /\ \A x \in DailyLedger!Slot : lRing'[x].at = lRing[x].at
      /\ \A x \in DailyLedger!Slot \ {n} : lRing'[x].amount = lRing[x].amount
      /\ lRing'[n].amount = lRing[n].amount + a
  <2> HIDE DEF n, W
  <2> QED
    BY <1>1, <1>2, <1>4 DEF LedgerTyped
<1>7. /\ LedgerTyped' /\ EntriesInOrder'
      /\ DailyLedger!Prefix(lCount)' = W
      /\ DailyLedger!InWindow' = W
  <2>1. W = W \cup {x \in {DailyLedger!Nth(lCount)} : 0 = 1}
    OBVIOUS
  <2>2. lCount' = DailyLedger!_liveAt.count + 0 /\ lCount' \in 0..MAX_ACTIVE_ENTRIES
    <3> HIDE DEF d
    <3> QED
      BY <1>2, <1>3
  <2>3. UNCHANGED <<lNow, lLimit>>
    BY <1>2
  <2>4. \A x \in W : lRing'[x].at = lRing[x].at
    BY <1>4, <1>6
  <2>5. 0 \in {0, 1} /\ (0 = 1 => lRing'[DailyLedger!Nth(lCount)].at = lNow)
    OBVIOUS
  <2>6. lHead' = DailyLedger!_liveAt.head
    BY <1>2
  <2> HIDE DEF W, n
  <2> QED
    BY <1>5, <2>1, <2>2, <2>3, <2>4, <2>5, <2>6, AfterWrite DEF W
<1>8. /\ \A x \in DailyLedger!Slot : f[x] \in Nat /\ f[x] = lRing[x].amount
      /\ \A x \in DailyLedger!Slot \ {n} : g[x] = f[x]
      /\ g[n] = f[n] + a
  <2>1. \A x \in DailyLedger!Slot : g[x] = lRing'[x].amount
    BY DEF DailyLedger!AmountOf
  <2> HIDE DEF g, f, n, W
  <2> QED
    BY <1>1, <1>4, <1>6, <2>1, LedgerAmounts DEF f
<1>9. Sum(g, W) = Sum(f, W) + a
  <2> HIDE DEF g, f, n, W
  <2> QED
    BY <1>4, <1>8, SumMore
<1>10. TotalKept'
  <2>1. DailyLedger!_liveAt.spent = Sum(f, W)
    BY LiveIsInWindow
  <2> QED
    BY <1>2, <1>7, <1>9, <2>1 DEF TotalKept
<1>11. ASSUME NEW t
       PROVE  DailyLedger!SpentAt(t)' = DailyLedger!SpentAt(t) + (IF t = lNow THEN a ELSE 0)
  <2> DEFINE U == {x \in W : lRing[x].at = t}
  <2>1. DailyLedger!SpentAt(t) = Sum(f, U)
    BY SameSum DEF DailyLedger!SpentAt
  <2>2. DailyLedger!SpentAt(t)' = Sum(g, {x \in DailyLedger!InWindow' : lRing'[x].at = t})
    BY SameSum DEF DailyLedger!SpentAt
  <2>3. {x \in DailyLedger!InWindow' : lRing'[x].at = t} = U
    <3> HIDE DEF W
    <3> QED
      BY <1>4, <1>6, <1>7
  <2>4. IsFiniteSet(U) /\ U \subseteq DailyLedger!Slot /\ (n \in U <=> t = lNow)
    <3> HIDE DEF W, n
    <3>1. U \subseteq W
      OBVIOUS
    <3>2. n \in U <=> t = lNow
      BY <1>2, <1>4
    <3> HIDE DEF U
    <3> QED
      BY <1>4, <3>1, <3>2, FS_Subset
  <2>5. Sum(f, U) \in Nat
    <3> HIDE DEF U, f
    <3> QED
      BY <1>8, <2>4, SumType
  <2> HIDE DEF U, f, g, n, W
  <2>6. CASE t = lNow
    <3>1. Sum(g, U) = Sum(f, U) + a
      BY <1>8, <2>4, <2>6, SumMore
    <3> QED
      BY <2>1, <2>2, <2>3, <2>6, <3>1
  <2>7. CASE t # lNow
    <3>1. Sum(g, U) = Sum(f, U)
      BY <1>8, <2>4, <2>7, SumSame
    <3>2. DailyLedger!SpentAt(t)' = Sum(f, U)
      BY <2>2, <2>3, <3>1
    <3> QED
      BY <2>1, <2>5, <2>7, <3>2
  <2> QED
    BY <2>6, <2>7
<1> QED
  BY <1>7, <1>10, <1>11 DEF LedgerInv

\* The amount gets an entry of its own, behind the last one, in a slot the window
\* has no use for.
LEMMA NewEntryBooked ==
    ASSUME LedgerInv, NEW a \in Nat, DailyLedger!bookNewEntry(a),
           DailyLedger!_liveAt.count # MAX_ACTIVE_ENTRIES
    PROVE  /\ LedgerInv'
           /\ \A t : DailyLedger!SpentAt(t)' = DailyLedger!SpentAt(t) + (IF t = lNow THEN a ELSE 0)
<1> DEFINE W == DailyLedger!InWindow
           n == DailyLedger!Nth(lCount)
           f == DailyLedger!AmountOf
           g == DailyLedger!AmountOf'
           d == DailyLedger!Dropped
<1>1. LedgerTyped /\ EntriesInOrder
  BY DEF LedgerInv
<1>2. /\ lRing' = [lRing EXCEPT ![n] = [at |-> lNow, amount |-> a]] /\ lNow' = lNow /\ lLimit' = lLimit
      /\ lHead' = DailyLedger!_liveAt.head
      /\ lCount' = DailyLedger!_liveAt.count + 1
      /\ lSpent' = DailyLedger!_liveAt.spent + a
  BY <1>1, WrittenSlots DEF DailyLedger!bookNewEntry, DailyLedger!Save
<1>3. /\ d \in 0..lCount /\ lCount \in 0..MAX_ACTIVE_ENTRIES /\ MAX_ACTIVE_ENTRIES \in Nat /\ lNow \in Nat
      /\ lCount' = (lCount - d) + 1 /\ lCount - d # MAX_ACTIVE_ENTRIES
  BY <1>1, <1>2, WrittenSlots, DropsTheExpired, LedgerAssumed DEF LedgerTyped
<1>4. W \subseteq DailyLedger!Slot /\ IsFiniteSet(W) /\ n \in DailyLedger!Slot
  BY <1>1, <1>3, LiveIsInWindow, Slots
<1>5. lRing' \in [DailyLedger!Slot -> [at : Nat, amount : Nat]]
  <2> HIDE DEF n, W
  <2> QED
    BY <1>1, <1>2, <1>3, <1>4 DEF LedgerTyped
<1>6. /\ \A x \in DailyLedger!Slot \ {n} : lRing'[x] = lRing[x]
      /\ lRing'[n].amount = a /\ lRing'[n].at = lNow
  <2> HIDE DEF n, W
  <2> QED
    BY <1>1, <1>2, <1>4 DEF LedgerTyped
<1>7. n \notin W
  <2> HIDE DEF d
  <2>1. lCount \in d..lCount /\ lCount - d < MAX_ACTIVE_ENTRIES
    BY <1>3
  <2>2. ASSUME n \in W  PROVE FALSE
    <3>1. PICK i \in d..(lCount - 1) : n = DailyLedger!Nth(i)
      BY <2>2, LiveIsInWindow DEF d
    <3>2. lHead \in 0..(MAX_ACTIVE_ENTRIES - 1) /\ i \in 0..MAX_ACTIVE_ENTRIES
      BY <1>1, <1>3 DEF LedgerTyped, DailyLedger!Slot
    <3>3. n = Lap(lHead + lCount)
      BY <1>1, <1>3, Slots
    <3>4. DailyLedger!Nth(i) = Lap(lHead + i)
      BY <1>1, <3>2, Slots
    <3>5. lHead \in Int /\ i \in Int /\ lCount \in Int /\ MAX_ACTIVE_ENTRIES \in Int
      BY <1>3, <3>2
    <3>6. i < lCount /\ lCount < MAX_ACTIVE_ENTRIES + i
      BY <1>3, <2>1
    <3> DEFINE x == lHead + lCount
               y == lHead + i
               M == MAX_ACTIVE_ENTRIES
    <3>7. x \in Int /\ y \in Int /\ M \in Int /\ y < x /\ x - M < y /\ M > 0
      BY <3>5, <3>6, LedgerAssumed
    <3>8. (IF x < M THEN x ELSE x - M) = (IF y < M THEN y ELSE y - M)
      BY <3>1, <3>3, <3>4, Zenon DEF Lap
    <3> HIDE DEF x, y, M
    <3> QED
      BY <3>7, <3>8
  <2> QED
    BY <2>2
<1>8. /\ LedgerTyped' /\ EntriesInOrder'
      /\ DailyLedger!Prefix(lCount)' = W \cup {n}
      /\ DailyLedger!InWindow' = W \cup {n}
  <2>1. W \cup {n} = W \cup {x \in {n} : 1 = 1}
    OBVIOUS
  <2>2. lCount' \in 0..MAX_ACTIVE_ENTRIES
    <3> HIDE DEF d
    <3> QED
      BY <1>3
  <2>3. UNCHANGED <<lNow, lLimit>>
    BY <1>2
  <2>4. \A x \in W : lRing'[x].at = lRing[x].at
    <3> HIDE DEF W, n
    <3> QED
      BY <1>4, <1>6, <1>7
  <2>5. 1 = 1 => lRing'[n].at = lNow
    BY <1>6
  <2> HIDE DEF W, n
  <2> QED
    BY <1>2, <1>5, <2>1, <2>2, <2>3, <2>4, <2>5, AfterWrite DEF W, n
<1>9. /\ \A x \in DailyLedger!Slot : f[x] \in Nat
      /\ \A x \in DailyLedger!Slot \ {n} : g[x] = f[x]
      /\ g[n] = a
  <2>1. \A x \in DailyLedger!Slot : g[x] = lRing'[x].amount
    BY DEF DailyLedger!AmountOf
  <2>2. \A x \in DailyLedger!Slot : f[x] \in Nat /\ f[x] = lRing[x].amount
    BY <1>1, LedgerAmounts
  <2> HIDE DEF g, f, n, W
  <2> QED
    BY <1>4, <1>6, <2>1, <2>2
<1>10. ASSUME NEW U \in SUBSET W
       PROVE  /\ IsFiniteSet(U) /\ Sum(f, U) \in Nat
              /\ Sum(g, U) = Sum(f, U)
              /\ Sum(g, U \cup {n}) = Sum(f, U) + a
  <2> HIDE DEF f, g, n, W
  <2>1. IsFiniteSet(U) /\ n \notin U /\ U \subseteq DailyLedger!Slot
    BY <1>4, <1>7, FS_Subset
  <2>2. Sum(f, U) \in Nat
    BY <1>9, <2>1, SumType
  <2>3. \A x \in U : g[x] = f[x]
    BY <1>9, <2>1
  <2>4. Sum(g, U) = Sum(f, U)
    BY <2>1, <2>3, SumSame
  <2>5. \A x \in U \cup {n} : g[x] \in Nat
    BY <1>9, <2>1, <2>3
  <2>6. Sum(g, U \cup {n}) = g[n] + Sum(g, U)
    BY <2>1, <2>5, SumAdd
  <2> QED
    BY <1>9, <2>1, <2>2, <2>4, <2>6
<1>11. TotalKept'
  <2>1. DailyLedger!_liveAt.spent = Sum(f, W)
    BY LiveIsInWindow
  <2>2. Sum(g, W \cup {n}) = Sum(f, W) + a
    <3> HIDE DEF f, g, n, W
    <3> QED
      BY <1>10
  <2> QED
    BY <1>2, <1>8, <2>1, <2>2 DEF TotalKept
<1>12. ASSUME NEW t
       PROVE  DailyLedger!SpentAt(t)' = DailyLedger!SpentAt(t) + (IF t = lNow THEN a ELSE 0)
  <2> DEFINE U == {x \in W : lRing[x].at = t}
             V == {x \in DailyLedger!InWindow' : lRing'[x].at = t}
  <2>1. DailyLedger!SpentAt(t) = Sum(f, U)
    BY SameSum DEF DailyLedger!SpentAt
  <2>2. DailyLedger!SpentAt(t)' = Sum(g, V)
    BY SameSum DEF DailyLedger!SpentAt
  <2>3. V = IF t = lNow THEN U \cup {n} ELSE U
    <3> HIDE DEF W, n
    <3>1. \A x \in W : lRing'[x] = lRing[x]
      BY <1>4, <1>6, <1>7
    <3> QED
      BY <1>6, <1>8, <3>1
  <2>4. U \in SUBSET W
    OBVIOUS
  <2> HIDE DEF U, V, f, g, n, W
  <2>5. Sum(f, U) \in Nat /\ Sum(g, U) = Sum(f, U) /\ Sum(g, U \cup {n}) = Sum(f, U) + a
    BY <1>10, <2>4
  <2>6. CASE t = lNow
    BY <2>1, <2>2, <2>3, <2>5, <2>6
  <2>7. CASE t # lNow
    BY <2>1, <2>2, <2>3, <2>5, <2>7
  <2> QED
    BY <2>6, <2>7
<1> QED
  BY <1>8, <1>11, <1>12 DEF LedgerInv

\* What the full list adds up to is what _liveAt says is spent.
LEMMA TotalIsLive ==
    ASSUME LedgerInv
    PROVE  /\ DailyLedger!Rolling!Total = DailyLedger!_liveAt.spent
           /\ \A t : DailyLedger!SpentAt(t) \in Nat
<1> DEFINE W == DailyLedger!InWindow
           f == DailyLedger!AmountOf
           T == 0..LedgerTime
           key == [n \in W |-> lRing[n].at]
<1>1. LedgerTyped /\ EntriesInOrder
  BY DEF LedgerInv
<1>2. /\ W \subseteq DailyLedger!Slot /\ IsFiniteSet(W)
      /\ W = {DailyLedger!Nth(i) : i \in DailyLedger!Dropped..(lCount - 1)}
      /\ DailyLedger!_liveAt.spent = Sum(f, W)
  BY LiveIsInWindow
<1>3. \A n \in W : f[n] \in Nat /\ lRing[n].at \in Nat
  BY <1>1, <1>2, LedgerAmounts
<1>4. \A n \in W : lRing[n].at \in T
  <2> SUFFICES ASSUME NEW n \in W  PROVE lRing[n].at \in T
    OBVIOUS
  <2>1. PICK i \in DailyLedger!Dropped..(lCount - 1) : n = DailyLedger!Nth(i)
    BY <1>2
  <2>2. i \in 0..(lCount - 1) /\ lNow \in 0..LedgerTime /\ LedgerTime \in Nat
    BY <1>1, DropsTheExpired, LedgerAssumed DEF LedgerTyped
  <2>3. lRing[n].at <= lNow
    BY <1>1, <2>1, <2>2 DEF EntriesInOrder
  <2> HIDE DEF W
  <2> QED
    BY <1>3, <2>2, <2>3
<1>5. IsFiniteSet(T)
  BY LedgerAssumed, FS_Interval
<1>6. ASSUME NEW t
      PROVE  DailyLedger!SpentAt(t) = Sum(f, {n \in W : key[n] = t}) /\ DailyLedger!SpentAt(t) \in Nat
  <2> DEFINE U == {n \in W : lRing[n].at = t}
  <2>1. DailyLedger!SpentAt(t) = Sum(f, U)
    BY SameSum DEF DailyLedger!SpentAt
  <2>2. U = {n \in W : key[n] = t}
    OBVIOUS
  <2>3. U \subseteq W
    OBVIOUS
  <2> HIDE DEF U, f, W, key
  <2>4. Sum(f, U) \in Nat
    BY <1>2, <1>3, <2>3, FS_Subset, SumType
  <2> QED
    BY <2>1, <2>2, <2>4
<1>7. DailyLedger!Rolling!Total = Sum([t \in T |-> DailyLedger!SpentAt(t)], T)
  BY SameSum DEF DailyLedger!Rolling!Total
<1>8. [t \in T |-> DailyLedger!SpentAt(t)] = [t \in T |-> Sum(f, {n \in W : key[n] = t})]
  <2> HIDE DEF T, f, W, key
  <2> QED
    BY <1>6
<1>9. \A n \in W : key[n] \in T
  BY <1>4
<1>10. Sum([t \in T |-> Sum(f, {n \in W : key[n] = t})], T) = Sum(f, W)
  <2> HIDE DEF T, f, W, key
  <2> QED
    BY <1>2, <1>3, <1>5, <1>9, SumByKey
<1>11. DailyLedger!Rolling!Total = DailyLedger!_liveAt.spent
  <2> HIDE DEF T, f, W, key
  <2> QED
    BY <1>2, <1>7, <1>8, <1>10, Zenon
<1> QED
  BY <1>6, <1>11

SpentList == [t \in 0..LedgerTime |-> DailyLedger!SpentAt(t)]

LedgerView == <<lNow, lLimit, SpentList>>

LEMMA LedgerStarts == DailyLedger!Init => LedgerInv /\ DailyLedger!Rolling!Init
<1> SUFFICES ASSUME DailyLedger!Init  PROVE LedgerInv /\ DailyLedger!Rolling!Init
  OBVIOUS
<1>1. /\ lNow = 0 /\ lLimit = 0 /\ lHead = 0 /\ lCount = 0 /\ lSpent = 0
      /\ lRing \in [DailyLedger!Slot -> [at : Nat, amount : Nat]]
  BY DEF DailyLedger!Init
<1>2. LedgerTyped
  BY <1>1, LedgerAssumed DEF LedgerTyped, DailyLedger!Slot
<1>3. EntriesInOrder
  BY <1>1 DEF EntriesInOrder
<1>4. DailyLedger!Prefix(lCount) = {}
  BY <1>1 DEF DailyLedger!Prefix
<1>5. TotalKept
  BY <1>1, <1>4, SumEmpty DEF TotalKept
<1>6. ASSUME NEW t  PROVE DailyLedger!SpentAt(t) = 0
  <2>1. {n \in DailyLedger!InWindow : lRing[n].at = t} = {}
    BY <1>4 DEF DailyLedger!InWindow
  <2> QED
    BY <2>1, SumEmpty, SameSum DEF DailyLedger!SpentAt
<1>7. DailyLedger!Rolling!Init
  BY <1>1, <1>6, LedgerAssumed DEF DailyLedger!Rolling!Init
<1> QED
  BY <1>2, <1>3, <1>5, <1>7 DEF LedgerInv

\* A call that is admitted is a spend the full list admits.
LEMMA CheckAdmits ==
    ASSUME LedgerInv, NEW a \in SpendAmount, DailyLedger!check(a)
    PROVE  LedgerInv' /\ [DailyLedger!Rolling!Next]_LedgerView
<1>1. a \in Nat /\ lLimit \in Nat /\ lLimit # 0 /\ DailyLedger!Answer(a) = "admitted"
  BY LedgerAssumed DEF DailyLedger!check, LedgerInv, LedgerTyped
<1>2. DailyLedger!_liveAt.spent \in Nat
  BY LiveIsInWindow
<1>3. /\ DailyLedger!_liveAt.spent + a <= lLimit
      /\ a = 0 \/ DailyLedger!Coalesces(a) \/ DailyLedger!_liveAt.count # MAX_ACTIVE_ENTRIES
  <2> DEFINE s == DailyLedger!_liveAt.spent
             full == /\ a # 0
                     /\ ~ DailyLedger!Coalesces(a)
                     /\ DailyLedger!_liveAt.count = MAX_ACTIVE_ENTRIES
  <2>1. DailyLedger!Answer(a) =
          CASE a > MAX_BOOKABLE_AMOUNT -> "amount exceeds bookable range"
            [] a <= MAX_BOOKABLE_AMOUNT /\ s + a > lLimit -> "daily limit exceeded"
            [] OTHER -> IF full THEN "daily spend ledger full" ELSE "admitted"
    BY DEF DailyLedger!Answer
  <2> HIDE DEF s, full
  <2>2. s \in Nat /\ MAX_BOOKABLE_AMOUNT \in Nat
    BY <1>2, LedgerAssumed DEF s
  <2>3. s + a <= lLimit /\ ~ full
    BY <1>1, <2>1, <2>2
  <2> QED
    BY <2>3 DEF s, full
<1>4. CASE a = 0
  <2>1. DailyLedger!bookNothing
    BY <1>4 DEF DailyLedger!check
  <2>2. lNow' = lNow /\ lLimit' = lLimit
    BY <2>1 DEF DailyLedger!bookNothing
  <2>3. LedgerInv' /\ SpentList' = SpentList
    BY <2>1, NothingBooked DEF SpentList
  <2> QED
    BY <2>2, <2>3 DEF LedgerView
<1>5. CASE a # 0
  <2>1. DailyLedger!bookIntoNewest(a) \/ DailyLedger!bookNewEntry(a)
    BY <1>5 DEF DailyLedger!check
  <2>2. lNow' = lNow /\ lLimit' = lLimit
    BY <2>1 DEF DailyLedger!bookIntoNewest, DailyLedger!bookNewEntry
  <2>3. /\ LedgerInv'
        /\ \A t : DailyLedger!SpentAt(t)' = DailyLedger!SpentAt(t) + (IF t = lNow THEN a ELSE 0)
    BY <1>1, <1>3, <1>5, <2>1, NewestBooked, NewEntryBooked DEF DailyLedger!bookNewEntry
  <2>4. SpentList' = [SpentList EXCEPT ![lNow] = @ + a]
    <3>1. \A t : DailyLedger!SpentAt(t) \in Nat
      BY TotalIsLive
    <3>2. lNow \in 0..LedgerTime
      BY DEF LedgerInv, LedgerTyped
    <3> DEFINE T == 0..LedgerTime
               before(t) == DailyLedger!SpentAt(t)
               after(t) == DailyLedger!SpentAt(t)'
    <3>3. SpentList = [t \in T |-> before(t)] /\ SpentList' = [t \in T |-> after(t)]
      BY DEF SpentList
    <3>4. \A t \in T : after(t) = IF t = lNow THEN before(t) + a ELSE before(t)
      BY <1>1, <2>3, <3>1
    <3> HIDE DEF T, before, after
    <3> QED
      BY <3>2, <3>3, <3>4 DEF T
  <2>5. DailyLedger!Rolling!Admit(a)
    BY <1>1, <1>3, <2>2, <2>4, TotalIsLive
    DEF DailyLedger!Rolling!Admit, DailyLedger!Rolling!Unlimited, SpentList
  <2>6. DailyLedger!Rolling!Next
    BY <2>5 DEF DailyLedger!Rolling!Next
  <2> QED
    BY <2>3, <2>6
<1> QED
  BY <1>4, <1>5

\* Time takes out of the window what the full list forgets.
LEMMA TickForgets ==
    ASSUME LedgerInv, DailyLedger!Tick
    PROVE  LedgerInv' /\ [DailyLedger!Rolling!Next]_LedgerView
<1> DEFINE W == DailyLedger!InWindow
           P == DailyLedger!Prefix(lCount)
           f == DailyLedger!AmountOf
<1>1. /\ lNow \in Nat /\ lNow < LedgerTime /\ lNow' = lNow + 1 /\ LedgerTime \in Nat /\ WINDOW \in Nat \ {0}
      /\ UNCHANGED <<lLimit, lRing, lHead, lCount, lSpent>>
  BY LedgerAssumed DEF DailyLedger!Tick, LedgerInv, LedgerTyped
<1>2. P' = P /\ f' = f
  BY <1>1 DEF DailyLedger!Prefix, DailyLedger!Nth, DailyLedger!AmountOf
<1>3. LedgerTyped /\ LedgerTyped' /\ EntriesInOrder
  BY <1>1 DEF LedgerInv, LedgerTyped
<1>4. EntriesInOrder'
  <2>1. ASSUME NEW i \in 0..(lCount - 1)
        PROVE  DailyLedger!Nth(i)' = DailyLedger!Nth(i) /\ lRing[DailyLedger!Nth(i)].at <= lNow'
    <3>1. lRing[DailyLedger!Nth(i)].at <= lNow
      BY <1>3 DEF EntriesInOrder
    <3>2. i \in 0..MAX_ACTIVE_ENTRIES
      BY <1>3, LedgerAssumed DEF LedgerTyped
    <3>3. lRing[DailyLedger!Nth(i)].at \in Nat
      BY <1>3, <3>2, Slots, LedgerAmounts
    <3>4. DailyLedger!Nth(i)' = DailyLedger!Nth(i)
      BY <1>1 DEF DailyLedger!Nth
    <3> QED
      BY <1>1, <3>1, <3>3, <3>4
  <2> QED
    BY <1>1, <1>3, <2>1 DEF EntriesInOrder
<1>5. LedgerInv'
  BY <1>1, <1>2, <1>3, <1>4 DEF LedgerInv, TotalKept
<1>6. \A n \in P : lRing[n].at \in Nat
  <2>1. P \subseteq DailyLedger!Slot
    BY <1>3, Slots DEF LedgerTyped
  <2> HIDE DEF P
  <2> QED
    BY <1>3, <2>1, LedgerAmounts
<1>7. ASSUME NEW t \in 0..LedgerTime
      PROVE  DailyLedger!SpentAt(t)' = IF lNow' - t < WINDOW THEN DailyLedger!SpentAt(t) ELSE 0
  <2> DEFINE U == {n \in W : lRing[n].at = t}
             V == {n \in DailyLedger!InWindow' : lRing'[n].at = t}
  <2>1. DailyLedger!SpentAt(t) = Sum(f, U)
    BY SameSum DEF DailyLedger!SpentAt
  <2>2. DailyLedger!SpentAt(t)' = Sum(f, V)
    <3>1. DailyLedger!SpentAt(t)' = Sum(f', V)
      BY SameSum DEF DailyLedger!SpentAt
    <3> HIDE DEF f, V
    <3> QED
      BY <1>2, <3>1
  <2>3. W = {n \in P : lNow - lRing[n].at < WINDOW}
    BY DEF DailyLedger!InWindow
  <2>4. DailyLedger!InWindow' = {n \in P : lNow' - lRing[n].at < WINDOW}
    <3>1. DailyLedger!InWindow' = {n \in P' : lNow' - lRing'[n].at < WINDOW}
      BY DEF DailyLedger!InWindow
    <3> HIDE DEF P
    <3> QED
      BY <1>1, <1>2, <3>1
  <2>5. V = IF lNow' - t < WINDOW THEN U ELSE {}
    <3> HIDE DEF P, W
    <3> QED
      BY <1>1, <1>6, <2>3, <2>4
  <2> HIDE DEF f, U, V
  <2> QED
    BY <2>1, <2>2, <2>5, SumEmpty
<1>8. SpentList' = [t \in 0..LedgerTime |-> IF lNow' - t < WINDOW THEN SpentList[t] ELSE 0]
  BY <1>7 DEF SpentList
<1>9. lNow' \in {t \in 0..LedgerTime : t > lNow}
  BY <1>1
<1>10. DailyLedger!Rolling!TimePasses
  BY <1>1, <1>8, <1>9 DEF DailyLedger!Rolling!TimePasses, SpentList
<1> QED
  BY <1>5, <1>10 DEF DailyLedger!Rolling!Next

LEMMA LedgerStep ==
    ASSUME LedgerInv, DailyLedger!Next \/ UNCHANGED ledger
    PROVE  LedgerInv' /\ [DailyLedger!Rolling!Next]_LedgerView
<1>1. ASSUME NEW a \in SpendAmount, DailyLedger!check(a)
      PROVE  LedgerInv' /\ [DailyLedger!Rolling!Next]_LedgerView
  BY <1>1, CheckAdmits
<1>2. CASE DailyLedger!Tick
  BY <1>2, TickForgets
<1>3. ASSUME UNCHANGED <<lNow, lRing, lHead, lCount, lSpent>>, lLimit' \in SpendLimit
      PROVE  LedgerInv' /\ SpentList' = SpentList
  <2>1. LedgerInv'
    BY <1>3 DEF LedgerInv, LedgerTyped, EntriesInOrder, TotalKept, DailyLedger!Nth, DailyLedger!Prefix,
                DailyLedger!AmountOf
  <2>2. SpentList' = SpentList
    BY <1>3 DEF SpentList, DailyLedger!SpentAt, DailyLedger!InWindow, DailyLedger!Prefix, DailyLedger!Nth,
                DailyLedger!AmountOf
  <2> QED
    BY <2>1, <2>2
<1>4. ASSUME NEW l \in SpendLimit, DailyLedger!ChangeLimit(l)
      PROVE  LedgerInv' /\ [DailyLedger!Rolling!Next]_LedgerView
  <2>1. UNCHANGED <<lNow, lRing, lHead, lCount, lSpent>> /\ lLimit' \in SpendLimit
    BY <1>4 DEF DailyLedger!ChangeLimit
  <2>2. LedgerInv' /\ SpentList' = SpentList
    BY <1>3, <2>1
  <2>3. DailyLedger!Rolling!ChangeLimit
    BY <2>1, <2>2 DEF DailyLedger!Rolling!ChangeLimit, SpentList
  <2> QED
    BY <2>2, <2>3 DEF DailyLedger!Rolling!Next
<1>5. CASE UNCHANGED ledger
  <2>1. UNCHANGED <<lNow, lRing, lHead, lCount, lSpent>> /\ lLimit' = lLimit /\ lLimit \in SpendLimit
    BY <1>5 DEF ledger, LedgerInv, LedgerTyped
  <2>2. LedgerInv' /\ SpentList' = SpentList
    BY <1>3, <2>1
  <2> QED
    BY <2>1, <2>2 DEF LedgerView
<1> QED
  BY <1>1, <1>2, <1>4, <1>5 DEF DailyLedger!Next

\* KeepsRollingLimit: no interleaving of spends, limit changes, disarmings and time
\* admits more than the limit in any trailing window, or forgets a spend: the ring
\* of any size, over any window, implements the limit over a full list.
THEOREM RingKeepsRollingLimit == PartsSpec => KeepsRollingLimit
<1>1. PartsInit => LedgerInv /\ DailyLedger!Rolling!Init
  BY LedgerStarts DEF PartsInit
<1>2. LedgerInv /\ [PartsNext]_<<part, rotation, ledger, engine, multisig, budget, control>>
        => LedgerInv' /\ [DailyLedger!Rolling!Next]_LedgerView
  <2> SUFFICES ASSUME LedgerInv, [PartsNext]_<<part, rotation, ledger, engine, multisig, budget, control>>
               PROVE  LedgerInv' /\ [DailyLedger!Rolling!Next]_LedgerView
    OBVIOUS
  <2>1. DailyLedger!Next \/ UNCHANGED ledger
    BY DEF PartsNext
  <2> QED
    BY <2>1, LedgerStep
<1>3. KeepsRollingLimit <=> DailyLedger!Rolling!Init /\ [][DailyLedger!Rolling!Next]_LedgerView
  BY DEF KeepsRollingLimit, DailyLedger!KeepsRollingLimit, DailyLedger!Rolling!Spec, LedgerView, SpentList
<1> QED
  BY <1>1, <1>2, <1>3, PTL DEF PartsSpec
=============================================================================
