------------------------ MODULE CompositePolicyEngine ------------------------
(***************************************************************************)
(* CompositePolicyEngine.sol: a list of policy modules that must all       *)
(* permit a payment.  Modules are added at once and leave only on notice;  *)
(* registered consumers have their payments checked, and a module that is  *)
(* a ledger (DailySpendLimitPolicy) books what it permits.                 *)
(*                                                                         *)
(* A call that reverts is the absence of a step.  A vault reverts when it  *)
(* is denied; any other consumer may live with the denial.                 *)
(***************************************************************************)
EXTENDS Integers, Sequences, SequencesExt

CONSTANTS
    Module,                         \* contracts that can be a module
    Ledger,                         \* those that book what they permit
    Consumer,                       \* contracts that may be registered
    Vault,                          \* consumers that revert when denied
    Payment,                        \* what modules tell apart
    MAX_MODULES,
    MODULE_REMOVAL_DELAY,
    MODULE_REMOVAL_GRACE_PERIOD,
    MaxTime, MaxBooked              \* bounds on time and on bookings

CompositeAssumption ==
    /\ Ledger \subseteq Module
    /\ Vault \subseteq Consumer
    /\ MAX_MODULES \in Nat
    /\ MODULE_REMOVAL_DELAY \in Nat \ {0}
    /\ MODULE_REMOVAL_GRACE_PERIOD \in Nat
    /\ MaxTime \in Nat /\ MaxBooked \in Nat

VARIABLES
    now,                            \* block.timestamp
    modules,
    pendingModuleRemovalValidAfter, \* 0: none
    admissionCaller,
    permits,                        \* the payments each module permits
    booked,                         \* payments each ledger holds against a consumer
    announced,                      \* history: when the open removal was proposed
    admitted                        \* history: payments of a vault while a ledger was in

vars == <<now, modules, pendingModuleRemovalValidAfter, admissionCaller, permits,
          booked, announced, admitted>>

Never == -1

InService == ToSet(modules)

Init ==
    /\ now = 0
    /\ modules = <<>>
    /\ pendingModuleRemovalValidAfter = [m \in Module |-> 0]
    /\ admissionCaller = {}
    /\ permits \in [Module -> SUBSET Payment]
    /\ booked = [l \in Ledger |-> [c \in Consumer |-> 0]]
    /\ announced = [m \in Module |-> Never]
    /\ admitted = [l \in Ledger |-> [v \in Vault |-> 0]]

-----------------------------------------------------------------------------
(* The owner of the composite *)

ledgers == <<permits, booked, admitted>>

HasRoom == Len(modules) < MAX_MODULES

addModule(m) ==
    /\ HasRoom
    /\ m \notin InService
    /\ modules' = Append(modules, m)
    /\ UNCHANGED <<now, pendingModuleRemovalValidAfter, admissionCaller, announced, ledgers>>

\* A second proposal restarts the delay.
proposeRemoveModule(m) ==
    /\ m \in InService
    /\ pendingModuleRemovalValidAfter' =
          [pendingModuleRemovalValidAfter EXCEPT ![m] = now + MODULE_REMOVAL_DELAY]
    /\ announced' = [announced EXCEPT ![m] = now]
    /\ UNCHANGED <<now, modules, admissionCaller, ledgers>>

ClearPending(m) == [pendingModuleRemovalValidAfter EXCEPT ![m] = 0]

\* Slip: the last module is popped before it is moved.
PopLast(m) == Front(modules)

\* The last module takes the place of m; the order is not kept.
SwapAndPop(m) ==
    LET i == CHOOSE j \in DOMAIN modules : modules[j] = m
    IN  Front([modules EXCEPT ![i] = Last(modules)])

applyRemoveModule(m) ==
    LET validAfter == pendingModuleRemovalValidAfter[m] IN
    /\ validAfter # 0
    /\ now >= validAfter
    /\ now <= validAfter + MODULE_REMOVAL_GRACE_PERIOD
    /\ m \in InService
    /\ modules' = SwapAndPop(m)
    /\ pendingModuleRemovalValidAfter' = ClearPending(m)
    /\ announced' = [announced EXCEPT ![m] = Never]
    /\ UNCHANGED <<now, admissionCaller, ledgers>>

cancelRemoveModule(m) ==
    /\ pendingModuleRemovalValidAfter[m] # 0
    /\ pendingModuleRemovalValidAfter' = ClearPending(m)
    /\ announced' = [announced EXCEPT ![m] = Never]
    /\ UNCHANGED <<now, modules, admissionCaller, ledgers>>

setAdmissionCaller(c, allowed) ==
    /\ admissionCaller' = IF allowed THEN admissionCaller \cup {c} ELSE admissionCaller \ {c}
    /\ UNCHANGED <<now, modules, pendingModuleRemovalValidAfter, announced, ledgers>>

-----------------------------------------------------------------------------
(* check: the modules are asked in the order of the list, up to the first  *)
(* that denies; the ledgers among those that permitted have booked.        *)

Denier(p) == {i \in DOMAIN modules : p \notin permits[modules[i]]}

Permitted(p) == Denier(p) = {}

Asked(p) == {modules[i] : i \in {j \in DOMAIN modules : \A d \in Denier(p) : j < d}}

\* Slip: the subject's consumer is taken from the caller's word.
AnyRegistered(caller, consumer) == caller \in admissionCaller

MayAdmitFor(caller, consumer) == caller \in admissionCaller /\ consumer = caller

Book(l, p, consumer) ==
    IF l \in Asked(p) THEN [booked[l] EXCEPT ![consumer] = @ + 1] ELSE booked[l]

\* A denial that the caller does not turn into a revert leaves what was booked.
check(caller, consumer, p) ==
    /\ MayAdmitFor(caller, consumer)
    /\ \A l \in Ledger \cap Asked(p) : booked[l][consumer] < MaxBooked
    /\ caller \in Vault => Permitted(p)
    /\ booked' = [l \in Ledger |-> Book(l, p, consumer)]
    /\ admitted' =
          IF caller \notin Vault THEN admitted
          ELSE [l \in Ledger |-> IF l \in InService
                                   THEN [admitted[l] EXCEPT ![caller] = @ + 1]
                                   ELSE admitted[l]]
    /\ UNCHANGED <<now, modules, pendingModuleRemovalValidAfter, admissionCaller,
                   permits, announced>>

-----------------------------------------------------------------------------
\* A module's own state makes it stricter or more lenient.
ModuleTurns(m) ==
    /\ \E s \in SUBSET Payment : permits' = [permits EXCEPT ![m] = s]
    /\ UNCHANGED <<now, modules, pendingModuleRemovalValidAfter, admissionCaller,
                   booked, announced, admitted>>

Tick ==
    /\ now < MaxTime
    /\ now' = now + 1
    /\ UNCHANGED <<modules, pendingModuleRemovalValidAfter, admissionCaller, announced, ledgers>>

Next ==
    \/ \E m \in Module :
          \/ addModule(m)
          \/ proposeRemoveModule(m)
          \/ applyRemoveModule(m)
          \/ cancelRemoveModule(m)
          \/ ModuleTurns(m)
    \/ \E c \in Consumer, allowed \in BOOLEAN : setAdmissionCaller(c, allowed)
    \/ \E caller, consumer \in Consumer, p \in Payment : check(caller, consumer, p)
    \/ Tick

Spec == Init /\ [][Next]_vars

-----------------------------------------------------------------------------
(* Properties *)

\* "Any removal executable right now was announced within the last
\* MODULE_REMOVAL_DELAY + MODULE_REMOVAL_GRACE_PERIOD"
\* (CompositePolicyEngine.sol:105): whatever a step does to the list, a module
\* that drops out is one whose own removal was on notice that long, and not one
\* that was moved.
OnNotice(m) ==
    /\ announced[m] # Never
    /\ now - announced[m] >= MODULE_REMOVAL_DELAY
    /\ now - announced[m] <= MODULE_REMOVAL_DELAY + MODULE_REMOVAL_GRACE_PERIOD

EvictedOnNotice == [][\A m \in InService \ InService' : OnNotice(m)]_vars

\* A vault's bucket holds the payments of that vault and nothing else: no other
\* consumer books into it (CompositePolicyEngine.sol:336), a payment denied by a
\* later module leaves nothing in an earlier one, and no payment gets past a
\* ledger in service.
BucketsExact == \A l \in Ledger, v \in Vault : booked[l][v] = admitted[l][v]
=============================================================================
