-------------------------- MODULE DailySpendLedger --------------------------
(***************************************************************************)
(* The spend ledger of DailySpendLimitPolicy.sol for one subject: a ring   *)
(* of MAX_ACTIVE_ENTRIES entries, its head, its count and a running total, *)
(* and check, the only function that writes them.  Who may call check and  *)
(* how the limit changes is the subject of module PolicyControl; here any  *)
(* admitter may call and the limit may become anything at any time.        *)
(*                                                                         *)
(* A denial and a revert leave the ledger as it is: they are the absence   *)
(* of a step, and Answer says which of them a call would get.              *)
(***************************************************************************)
EXTENDS Integers, Functions

CONSTANTS
    MAX_ACTIVE_ENTRIES,     \* a power of two: & _RING_MASK is % of it
    MAX_BOOKABLE_AMOUNT,    \* largest amount an entry can hold
    WINDOW,
    Amount,                 \* amounts a caller may ask for
    Limit,                  \* limits the subject may have
    MaxTime                 \* bound on block time

LedgerAssumption ==
    /\ MAX_ACTIVE_ENTRIES \in Nat \ {0}
    /\ MAX_BOOKABLE_AMOUNT \in Nat
    /\ WINDOW \in Nat \ {0}
    /\ Amount \subseteq Nat
    /\ Limit \subseteq Nat /\ 0 \in Limit
    /\ MaxTime \in Nat

VARIABLES
    now,                    \* block.timestamp
    limit,
    ring, head, count,
    rollingSpent            \* sum of what was live as of the last write

vars == <<now, limit, ring, head, count, rollingSpent>>

Slot == 0..(MAX_ACTIVE_ENTRIES - 1)

\* i & _RING_MASK
Masked(i) == i % MAX_ACTIVE_ENTRIES

-----------------------------------------------------------------------------
\* The k-th entry after the head, and the slots of the first k.
Nth(k) == Masked(head + k)
Prefix(k) == {Nth(i) : i \in 0..(k - 1)}

AmountOf == [i \in Slot |-> ring[i].amount]

\* Slip: an entry is dropped one second early.
ExpiredEarly(i) == ring[i].at + WINDOW <= now + 1

Expired(i) == ring[i].at + WINDOW <= now

\* How many entries the loop of _liveAt drops: it stops at the first live one.
Dropped ==
    CHOOSE k \in 0..count :
        /\ \A i \in 0..(k - 1) : Expired(Nth(i))
        /\ k = count \/ ~ Expired(Nth(k))

\* _liveAt: head, count and total with the expired prefix taken off.
_liveAt ==
    [head  |-> Nth(Dropped),
     count |-> count - Dropped,
     spent |-> rollingSpent - SumFunctionOnSet(AmountOf, Prefix(Dropped))]

Newest == Masked(_liveAt.head + _liveAt.count - 1)

Coalesces(amount) ==
    /\ _liveAt.count # 0
    /\ ring[Newest].at = now
    /\ ring[Newest].amount + amount <= MAX_BOOKABLE_AMOUNT

\* What check answers an admitter of an armed subject, in the order of its tests.
Answer(amount) ==
    CASE amount > MAX_BOOKABLE_AMOUNT -> "amount exceeds bookable range"
      [] amount <= MAX_BOOKABLE_AMOUNT /\ _liveAt.spent + amount > limit ->
            "daily limit exceeded"
      [] OTHER ->
            IF /\ amount # 0
               /\ ~ Coalesces(amount)
               /\ _liveAt.count = MAX_ACTIVE_ENTRIES
            THEN "daily spend ledger full" ELSE "admitted"

-----------------------------------------------------------------------------
Init ==
    /\ now = 0
    /\ limit = 0
    /\ ring = [i \in Slot |-> [at |-> 0, amount |-> 0]]
    /\ head = 0
    /\ count = 0
    /\ rollingSpent = 0

Save(live, entries, amount) ==
    /\ head' = live.head
    /\ count' = entries
    /\ rollingSpent' = live.spent + amount

\* A zero amount books nothing; it saves what has expired, if anything has.
bookNothing ==
    /\ _liveAt.count # count
    /\ Save(_liveAt, _liveAt.count, 0)
    /\ UNCHANGED <<now, limit, ring>>

bookIntoNewest(amount) ==
    /\ Coalesces(amount)
    /\ ring' = [ring EXCEPT ![Newest].amount = @ + amount]
    /\ Save(_liveAt, _liveAt.count, amount)
    /\ UNCHANGED <<now, limit>>

bookNewEntry(amount) ==
    /\ ~ Coalesces(amount)
    /\ ring' = [ring EXCEPT ![Masked(_liveAt.head + _liveAt.count)] =
                                [at |-> now, amount |-> amount]]
    /\ Save(_liveAt, _liveAt.count + 1, amount)
    /\ UNCHANGED <<now, limit>>

\* An unarmed subject (limit 0) spends without being booked.
check(amount) ==
    /\ limit # 0
    /\ Answer(amount) = "admitted"
    /\ \/ amount = 0 /\ bookNothing
       \/ amount # 0 /\ (bookIntoNewest(amount) \/ bookNewEntry(amount))

\* setDailyLimit, applyWeakening and their bridge counterparts.
ChangeLimit(l) ==
    /\ l # limit
    /\ limit' = l
    /\ UNCHANGED <<now, ring, head, count, rollingSpent>>

Tick ==
    /\ now < MaxTime
    /\ now' = now + 1
    /\ UNCHANGED <<limit, ring, head, count, rollingSpent>>

Next ==
    \/ \E a \in Amount : check(a)
    \/ \E l \in Limit : ChangeLimit(l)
    \/ Tick

Spec == Init /\ [][Next]_vars

-----------------------------------------------------------------------------
(* Properties *)

\* The slots in use that hold an entry of the trailing window, found by looking
\* at every one of them.
InWindow == {i \in Prefix(count) : now - ring[i].at < WINDOW}

\* The ring implements the limit over a full list of spends.
SpentAt(t) == SumFunctionOnSet(AmountOf, {i \in InWindow : ring[i].at = t})

Rolling ==
    INSTANCE RollingLimit WITH
        Time <- 0..MaxTime, Window <- WINDOW,
        clock <- now, spent <- [t \in 0..MaxTime |-> SpentAt(t)]

\* No interleaving of spends, limit changes, disarmings and time admits more
\* than the limit in any trailing window, or forgets a spend.
KeepsRollingLimit == Rolling!Spec
=============================================================================
