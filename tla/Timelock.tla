------------------------------ MODULE Timelock ------------------------------
(***************************************************************************)
(* What every time-locked value of this repository promises the people who *)
(* depend on it: the value in force changes only to one that has been on   *)
(* public notice, unaltered, for at least Delay; a notice that nobody acts *)
(* on lapses Grace after it became enactable; enacting or withdrawing a    *)
(* notice takes it down, so one notice is good for one change.             *)
(***************************************************************************)
EXTENDS Integers

CONSTANTS Value, Delay, Grace

VARIABLES clock, value, notice

NoNotice == [posted |-> FALSE]
Notice(v, t) == [posted |-> TRUE, value |-> v, since |-> t]

Init ==
    /\ clock \in Nat
    /\ value \in Value
    /\ notice = NoNotice

\* A new notice replaces an older one and starts its own delay.
Announce(v) ==
    /\ notice' = Notice(v, clock)
    /\ UNCHANGED <<clock, value>>

WithdrawNotice ==
    /\ notice.posted
    /\ notice' = NoNotice
    /\ UNCHANGED <<clock, value>>

Enact ==
    /\ notice.posted
    /\ clock - notice.since >= Delay
    /\ clock - notice.since <= Delay + Grace
    /\ value' = notice.value
    /\ notice' = NoNotice
    /\ UNCHANGED clock

TimePasses ==
    /\ clock' > clock
    /\ UNCHANGED <<value, notice>>

Next ==
    \/ \E v \in Value : Announce(v)
    \/ WithdrawNotice
    \/ Enact
    \/ TimePasses

Spec == Init /\ [][Next]_<<clock, value, notice>>
=============================================================================
