--------------------------- MODULE WeakeningLock ---------------------------
(***************************************************************************)
(* What policy control promises: protection may grow at once and shrinks   *)
(* only on notice.  A notice cannot be altered or replaced, only taken     *)
(* down; it can be enacted after Delay and lapses Grace later.             *)
(***************************************************************************)
EXTENDS Integers

CONSTANTS Limit, Delay, Grace

VARIABLES clock, value, notice

\* What protects the owner: a limit (0: none) and whether a controller stands
\* between the owner's account and the limit.
Value == [limit : Limit, controlled : BOOLEAN]

LooserLimit(new, old) == old # 0 /\ (new = 0 \/ new > old)

Weaker(v, w) == LooserLimit(v.limit, w.limit) \/ (w.controlled /\ ~ v.controlled)

\* A notice announces a limit or the release of control.
Release == [release |-> TRUE]
Change == {Release} \cup [release : {FALSE}, limit : Limit]

After(change, v) ==
    IF change.release THEN [v EXCEPT !.controlled = FALSE]
    ELSE [v EXCEPT !.limit = change.limit]

NoNotice == [posted |-> FALSE]

Init ==
    /\ clock \in Nat
    /\ value \in Value
    /\ notice = NoNotice

Strengthen ==
    /\ value' \in Value
    /\ ~ Weaker(value', value)
    /\ UNCHANGED <<clock, notice>>

Announce(change) ==
    /\ ~ notice.posted
    /\ notice' = [posted |-> TRUE, change |-> change, since |-> clock]
    /\ UNCHANGED <<clock, value>>

WithdrawNotice ==
    /\ notice.posted
    /\ notice' = NoNotice
    /\ UNCHANGED <<clock, value>>

Enact ==
    /\ notice.posted
    /\ clock - notice.since >= Delay
    /\ clock - notice.since < Delay + Grace
    /\ value' = After(notice.change, value)
    /\ notice' = NoNotice
    /\ UNCHANGED clock

TimePasses ==
    /\ clock' > clock
    /\ UNCHANGED <<value, notice>>

Next ==
    \/ Strengthen
    \/ \E change \in Change : Announce(change)
    \/ WithdrawNotice
    \/ Enact
    \/ TimePasses

Spec == Init /\ [][Next]_<<clock, value, notice>>
=============================================================================
