----------------------- MODULE PolicyControlConstants -----------------------
(* The parameters of PolicyControl. *)
EXTENDS Integers, FiniteSets

CONSTANTS
    Limit,                          \* limits the owner may ask for
    Caller,                         \* delegates a subject may have
    Key,                            \* credentials the vault may have
    POLICY_CONTROL_DELAY,
    POLICY_CONTROL_GRACE_PERIOD,
    MaxNonce, MaxEpoch              \* bounds on intents, credential changes

ASSUME ControlAssumption ==
    /\ Limit \subseteq Nat /\ 0 \in Limit
    /\ IsFiniteSet(Caller)
    /\ POLICY_CONTROL_DELAY \in Nat \ {0}
    /\ POLICY_CONTROL_GRACE_PERIOD \in Nat \ {0}
    /\ MaxNonce \in Nat /\ MaxEpoch \in Nat
=============================================================================
