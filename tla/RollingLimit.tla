---------------------------- MODULE RollingLimit ----------------------------
(***************************************************************************)
(* What a daily limit promises, with a full list of what was spent and     *)
(* when: a spend is admitted only if everything admitted in the trailing   *)
(* Window, itself included, stays within the limit of that moment; nothing *)
(* admitted is forgotten before, or held against the owner after, Window.  *)
(***************************************************************************)
EXTENDS Integers, Functions

CONSTANTS Time, Amount, Limit, Window

VARIABLES clock, limit, spent

\* A limit of zero is no limit, and nothing is noted.
Unlimited == limit = 0

Total == SumFunctionOnSet(spent, Time)

Init ==
    /\ clock \in Time
    /\ limit \in Limit
    /\ spent = [t \in Time |-> 0]

Admit(a) ==
    /\ ~ Unlimited
    /\ Total + a <= limit
    /\ spent' = [spent EXCEPT ![clock] = @ + a]
    /\ UNCHANGED <<clock, limit>>

ChangeLimit ==
    /\ limit' \in Limit
    /\ UNCHANGED <<clock, spent>>

TimePasses ==
    /\ clock' \in {t \in Time : t > clock}
    /\ spent' = [t \in Time |-> IF clock' - t < Window THEN spent[t] ELSE 0]
    /\ UNCHANGED limit

Next ==
    \/ \E a \in Amount : Admit(a)
    \/ ChangeLimit
    \/ TimePasses

Spec == Init /\ [][Next]_<<clock, limit, spent>>
=============================================================================
