--------------------------- MODULE StatefulAssets ---------------------------
(***************************************************************************)
(* prototype/vnext-kernel/generation-2/stateful/: the ERC-20 world of the  *)
(* generation 2 campaigns.  The admitted token changes its behaviour in    *)
(* the middle of a history, fails or lies about its balance, and calls     *)
(* back into the vault from inside a transfer; the harness judges each     *)
(* step by the token's real ledger.                                        *)
(*                                                                         *)
(* The credential and the guardians stay what they are at genesis, on the  *)
(* floor without a second factor; what replaces them is StatefulCampaign.  *)
(* A fee is one unit of any amount.                                        *)
(***************************************************************************)
EXTENDS Integers, FiniteSets

CONSTANTS
    BIND_DELAY, CONTAINMENT,
    Profiles,               \* those of G2_PROFILES that the run takes
    MaxTime, MaxSupply, MaxNonce, MaxCalls

VARIABLES
    profile,
    chain,                  \* the vault, its token, and who holds what
    ctx,                    \* what the harness keeps
    history,                \* the calls it sent
    alarms,                 \* the properties it reported as violated
    unserial                \* history: the spends that no order of calls explains

vars == <<profile, chain, ctx, history, alarms, unserial>>

Model == INSTANCE StatefulModel WITH RecoveryWindow <- 1

None == "none"

-----------------------------------------------------------------------------
(* Actors, on a floor of one factor and a quorum of two *)

rootsNow(actor) ==
    CASE actor = "honest" -> [credential |-> 1, guardians |-> 3]
      [] actor = "attacker-ecdsa-only" -> [credential |-> 1, guardians |-> 0]
      [] actor = "attacker-two-guardians" -> [credential |-> 0, guardians |-> 2]
      [] OTHER -> Model!NoRoots

Joined(roots, others) ==
    [family \in {"credential", "guardians"} |->
        IF roots[family] > others[family] THEN roots[family] ELSE others[family]]

HoldsCredential(actor) == rootsNow(actor).credential = 1
HoldsQuorum(actor) == rootsNow(actor).guardians >= 2

-----------------------------------------------------------------------------
(* The chain *)

NoHook == [kind |-> None]
Quiet == [fired |-> None, succeeded |-> FALSE, seen |-> 0, transfers |-> 0, published |-> 0]

\* A vault with two units of its asset, one of native value, and its sibling.
deployGen2World ==
    [now |-> 1, safeState |-> "NORMAL", containedUntil |-> 0, policy |-> None, boundAt |-> 0,
     nonces |-> [spend |-> 0, credential |-> 0, guardian |-> 0, migration |-> 0],
     asset |-> [vault |-> 2, recipient |-> 0, destination |-> 0, sink |-> 0], supply |-> 2,
     native |-> [vault |-> 2, destination |-> 0],
     other |-> [vault |-> 0, destination |-> 0], hostility |-> 0,
     sibling |-> [asset |-> 2, nonce |-> 0],
     mode |-> "VANILLA", poison |-> [kind |-> None, balance |-> 0], frozen |-> {},
     hook |-> NoHook, destinationMode |-> "ACCEPT", log |-> Quiet]

\* The token's answer about the vault, after a transfer that spoilt it too.
BalanceFails(w) == w.poison.kind = "fails"
balanceOf(w) == IF w.poison.kind = "lies" THEN w.poison.balance ELSE w.asset.vault

Refused(w) == [ok |-> FALSE, w |-> w]
Done(w) == [ok |-> TRUE, w |-> w]

\* What a transfer by the vault takes from it, and what arrives.
Debit(mode, amount) ==
    CASE mode = "SHORT_PAY" -> amount \div 2
      [] mode = "SENDER_FEE" /\ amount > 0 -> amount + 1
      [] mode = "DUST_SHORT" /\ amount > 0 -> amount - 1
      [] OTHER -> amount

Credit(mode, amount) ==
    CASE mode = "SENDER_FEE" -> amount
      [] mode = "RECIPIENT_FEE" /\ amount > 0 -> amount - 1
      [] OTHER -> Debit(mode, amount)

NoMove == {"RETURN_FALSE_NO_MOVE", "RETURN_TRUE_NO_MOVE"}
QueryFails == {"QUERY_REVERTS_AFTER_TRANSFER", "QUERY_SHORT_AFTER_TRANSFER"}

\* What is not credited of what is debited, the token keeps.
Settled(asset, to, debit, credit) ==
    [h \in DOMAIN asset |->
        asset[h] - (IF h = "vault" THEN debit ELSE 0) + (IF h = to THEN credit ELSE 0)
                 + (IF h = "sink" THEN debit - credit ELSE 0)]

Moved(w, to, amount) ==
    CASE w.mode \in NoMove -> Done(w)
      [] w.mode \in QueryFails -> Done([w EXCEPT !.poison = [kind |-> "fails", balance |-> 0]])
      [] w.mode = "QUERY_LIES_EXACT_DEBIT" ->
             IF w.asset.vault < amount THEN Refused(w)
             ELSE Done([w EXCEPT !.poison = [kind |-> "lies", balance |-> w.asset.vault - amount]])
      [] OTHER ->
             IF w.asset.vault < Debit(w.mode, amount) THEN Refused(w)
             ELSE Done([w EXCEPT !.asset = Settled(w.asset, to, Debit(w.mode, amount),
                                                   Credit(w.mode, amount))])

\* The token's transfer, as long as no hook is armed.
PlainTransfer(w, to, amount) ==
    IF w.frozen \cap {"vault", to} # {} \/ w.mode = "REVERTS" THEN Refused(w)
    ELSE Moved([w EXCEPT !.log.transfers = @ + 1], to, amount)

-----------------------------------------------------------------------------
(* The vault *)

EffectiveState(w) ==
    IF w.safeState = "CONTAINED" /\ w.now >= w.containedUntil THEN "NORMAL" ELSE w.safeState

IsNormal(w) == EffectiveState(w) = "NORMAL"

\* Slip: a retired vault is closed.
MaturedAndOpen(w) ==
    w.boundAt # 0 /\ w.now >= w.boundAt + BIND_DELAY /\ w.safeState # "RETIRED"

\* The delay is over: for egress and retire, and for good.
Matured(w) == w.boundAt # 0 /\ w.now >= w.boundAt + BIND_DELAY

\* Signed by the credential: for this vault, recipient, amount and nonce.
Authorised(w, c) ==
    c.signed /\ c.covers = <<c.to, c.amount>> /\ c.vault = "this" /\ c.nonce = w.nonces.spend

\* What execute requires before the nonce and the transfer.
MaySpend(w, c) ==
    IsNormal(w) /\ Authorised(w, c) /\ w.policy \notin {"deny", "codeless"} /\ ~BalanceFails(w)

\* Slip: the token's word is enough.
ExactlyUnmeasured(w, c, paid) == IF paid.ok THEN Done(paid.w) ELSE Refused(w)

\* The decrease the vault observes is the amount, or nothing happened.
Exactly(w, c, paid) ==
    IF paid.ok /\ ~BalanceFails(paid.w) /\ balanceOf(w) - balanceOf(paid.w) = c.amount
    THEN Done(paid.w) ELSE Refused(w)

SpendNonce(w, nonce) == [w EXCEPT !.nonces.spend = nonce + 1]

\* execute; paid is what becomes of the transfer, once the nonce is spent.
Spend(w, c, paid) == IF MaySpend(w, c) THEN Exactly(w, c, paid) ELSE Refused(w)

Published(w, amount) == Done([w EXCEPT !.log.published = @ + amount])

\* What the destination keeps of native value.
Kept(w) == IF w.destinationMode = "BOUNCE_HALF" THEN w.native.vault - w.native.vault \div 2
                                                ELSE w.native.vault

EgressNative(w) ==
    IF w.native.vault = 0 THEN Published(w, 0)
    ELSE IF w.destinationMode \in {"BOUNCE_ALL", "REFUSE"} THEN Refused(w)
    ELSE Published([w EXCEPT !.native = [vault |-> w.native.vault - Kept(w),
                                         destination |-> @.destination + Kept(w)]], Kept(w))

\* Whatever has left the vault is published; nothing left is a failure.
Emptied(w, paid) ==
    IF paid.ok /\ ~BalanceFails(paid.w) /\ balanceOf(paid.w) < balanceOf(w)
    THEN Published(paid.w, balanceOf(w) - balanceOf(paid.w))
    ELSE Refused(w)

EgressToken(w, paid) ==
    IF BalanceFails(w) THEN Refused(w)
    ELSE IF balanceOf(w) = 0 THEN Published(w, 0)
    ELSE Emptied(w, paid)

\* A hostile holding reverts, or its balance reads as none.
EgressOther(w) ==
    IF w.hostility = 2 \/ w.other.vault = 0 THEN Published(w, 0)
    ELSE IF w.hostility = 1 THEN Refused(w)
    ELSE Published([w EXCEPT !.other = [vault |-> 0,
                                        destination |-> @.destination + w.other.vault]],
                   w.other.vault)

\* One holding to the bound destination, for anybody, for ever.
Egress(w, asset, paid) ==
    IF ~Matured(w) THEN Refused(w)
    ELSE CASE asset = "EGRESS_NATIVE" -> EgressNative(w)
           [] asset = "EGRESS_TOKEN" -> EgressToken(w, paid)
           [] OTHER -> EgressOther(w)

\* The budget is two episodes in a window, and no run is longer than a window.
EnterContainment(w, c) ==
    IF IsNormal(w) /\ c.quorum /\ c.nonce = w.nonces.guardian /\ w.nonces.guardian < 2
    THEN Done([w EXCEPT !.nonces.guardian = @ + 1, !.safeState = "CONTAINED",
                        !.containedUntil = w.now + CONTAINMENT])
    ELSE Refused(w)

\* What the signatures commit to besides the destination.
BindingContext(w) == <<w.policy, EffectiveState(w)>>

BindMigration(w, c) ==
    IF /\ w.boundAt = 0 /\ c.destination = "bound" /\ c.quorum /\ c.signed
       /\ c.nonce = w.nonces.migration /\ c.context = BindingContext(w)
    THEN Done([w EXCEPT !.nonces.migration = @ + 1, !.boundAt = w.now,
                        !.safeState = "MIGRATION_ONLY"])
    ELSE Refused(w)

SetPolicy(w, c) ==
    IF IsNormal(w) /\ c.signed /\ c.nonce = w.nonces.credential
    THEN Done([w EXCEPT !.nonces.credential = @ + 1, !.policy = c.policy])
    ELSE Refused(w)

Egresses == {"EGRESS_NATIVE", "EGRESS_TOKEN", "EGRESS_OTHER"}

\* A call into the vault, with what becomes of the transfer of a spend and of an egress.
Call(w, c, paid, emptied) ==
    CASE c.kind = "SPEND" -> Spend(w, c, paid)
      [] c.kind \in Egresses -> Egress(w, c.kind, emptied)
      [] c.kind = "ENTER_CONTAINMENT" -> EnterContainment(w, c)
      [] c.kind = "BIND_MIGRATION" -> BindMigration(w, c)
      [] c.kind = "SET_POLICY" -> SetPolicy(w, c)
      [] c.kind = "RETIRE" ->
             IF Matured(w) THEN Done([w EXCEPT !.safeState = "RETIRED"]) ELSE Refused(w)
      [] OTHER -> Done(w)                             \* a getter

\* The call that a hook makes, by when it is armed no more.
Nested(w, c) ==
    Call(w, c, PlainTransfer(SpendNonce(w, c.nonce), c.to, c.amount),
         PlainTransfer(w, "destination", balanceOf(w)))

Logged(w, nested) ==
    [nested.w EXCEPT
        !.log.fired = w.hook.kind, !.log.succeeded = nested.ok,
        !.log.seen = IF w.hook.kind = "readNonce" THEN w.nonces.spend ELSE 0]

\* The stored call, once, whatever becomes of it.
Fired(w) == Logged(w, Nested([w EXCEPT !.hook = NoHook], w.hook.call))

\* The token's transfer: with a hook before the debit or after it.
Entered(w) == IF w.hook.kind # None /\ ~w.hook.after THEN Fired(w) ELSE w
Left(r) == IF r.ok /\ r.w.hook.kind # None THEN Done(Fired(r.w)) ELSE r

Transfer(w, to, amount) ==
    IF w.frozen \cap {"vault", to} # {} \/ w.mode = "REVERTS" THEN Refused(w)
    ELSE Left(Moved(Entered([w EXCEPT !.log.transfers = @ + 1]), to, amount))

\* Slip: the nonce is spent when the transfer is over.
ExecNonceLast(w, c) ==
    LET done == Call(w, c, Transfer(w, c.to, c.amount), Transfer(w, "destination", balanceOf(w)))
    IN  IF done.ok /\ c.kind = "SPEND" THEN Done(SpendNonce(done.w, c.nonce)) ELSE done

\* A transaction to the vault.
Exec(w, c) ==
    Call(w, c, Transfer(SpendNonce(w, c.nonce), c.to, c.amount),
         Transfer(w, "destination", balanceOf(w)))

-----------------------------------------------------------------------------
(* What the harness concludes from a step *)

LYING_TO_THE_SENDER == {"QUERY_LIES_EXACT_DEBIT"}
RECIPIENT_LEG_ONLY == {"RECIPIENT_FEE"}
NonceBearing == {"SPEND", "SET_POLICY", "ENTER_CONTAINMENT", "BIND_MIGRATION"}
SIGNED_HOOKS == {"replaySpend", "secondValidSpend", "contain", "bindMigration"}

LeftTheVault ==
    \/ chain'.asset.vault < chain.asset.vault
    \/ chain'.native.vault < chain.native.vault
    \/ chain'.other.vault < chain.other.vault

\* By what changed; the token's own rebase is nobody's.
observed(kind) ==
    (IF LeftTheVault /\ kind # "TOKEN_REBASE" THEN {"ASSET_MOVEMENT"} ELSE {})
    \cup (IF chain'.policy # chain.policy THEN {"POLICY_CHANGE"} ELSE {})
    \cup (IF chain.boundAt = 0 /\ chain'.boundAt # 0 THEN {"MIGRATION_BINDING"} ELSE {})
    \cup (IF chain.safeState # "CONTAINED" /\ chain'.safeState = "CONTAINED"
          THEN {"CONTAINMENT"} ELSE {})

Violated(property, condition) == IF condition THEN {property} ELSE {}

\* A spend that went through.
SpendAlarms(call, log) ==
    LET debit == chain.asset.vault - chain'.asset.vault
        nested == log.succeeded /\ log.fired \in {"secondValidSpend", "egress"}
        honest == chain.mode \notin LYING_TO_THE_SENDER
    IN  Violated("P-PLANE-SUBTRACTIVE", chain.policy = "deny")
        \cup Violated("P-NONCE-ON-SPEND", chain'.nonces.spend <= chain.nonces.spend)
        \cup Violated("P-SPEND-COMPLETED-TRANSFER", log.transfers = 0)
        \cup Violated("P-SETTLEMENT-EXACT",
                 honest /\ call.to # "vault" /\ ~nested /\ debit # call.amount)
        \cup Violated("P-SPEND-PAYS-RECIPIENT",
                 /\ honest /\ chain.mode \notin RECIPIENT_LEG_ONLY
                 /\ call.to = "recipient" /\ ~nested
                 /\ chain'.asset.recipient - chain.asset.recipient # call.amount)
        \cup Violated("P-SPEND-TOUCHES-ONLY-ASSET",
                 chain'.other.vault # chain.other.vault \/ chain'.native.vault < chain.native.vault)
        \cup Violated("P-NONCE-SPENT-BEFORE-TOKEN-RUNS",
                 log.fired = "readNonce" /\ log.succeeded /\ log.seen <= chain.nonces.spend)
        \cup Violated("P-REENTRY-NO-REPLAY", log.fired = "replaySpend" /\ log.succeeded)

\* An egress, or a replay of one, that went through.
EgressAlarms(kind, log) ==
    LET lost == CASE kind = "EGRESS_NATIVE" -> chain.native.vault - chain'.native.vault
                  [] kind = "EGRESS_TOKEN" -> chain.asset.vault - chain'.asset.vault
                  [] OTHER -> chain.other.vault - chain'.other.vault
        gained == CASE kind = "EGRESS_NATIVE" -> chain'.native.destination - chain.native.destination
                    [] kind = "EGRESS_TOKEN" -> chain'.asset.destination - chain.asset.destination
                    [] OTHER -> chain'.other.destination - chain.other.destination
        lying == kind = "EGRESS_TOKEN" /\ chain.mode \in LYING_TO_THE_SENDER
        oneLeg == kind = "EGRESS_TOKEN" /\ chain.mode \in RECIPIENT_LEG_ONLY
    IN  Violated("P-EGRESS-RECIPIENT", ~oneLeg /\ gained # lost)
        \cup Violated("P-EGRESS-PUBLISHES-THE-TRUTH", ~lying /\ log.published # lost)

\* Whatever the step was.
StepAlarms(kind, charged) ==
    UNION {Violated("P-CUT", ~Model!judgeCut(charged, o, 1, 2)) : o \in observed(kind)}
    \cup Violated("P-CONSERVATION",
             chain'.asset.vault + chain'.asset.recipient + chain'.asset.destination
                 + chain'.asset.sink # chain'.supply)
    \cup Violated("P-CROSS-ASSET", chain'.sibling # chain.sibling)
    \cup Violated("P-MIGRATION-TIME",
             /\ LeftTheVault /\ kind # "TOKEN_REBASE" /\ chain.boundAt # 0 /\ ctx'.boundAt # 0
             /\ chain'.now < ctx'.boundAt + BIND_DELAY)

-----------------------------------------------------------------------------
(* The harness *)

freshCtx == [hookRoots |-> Model!NoRoots, boundAt |-> 0, migrationBy |-> Model!NoRoots]

Same(w) == [w EXCEPT !.log = Quiet]

\* "Serial equivalence": one order of the two calls, or the outer call alone, does
\* the same with a token that calls nobody.
SerialFor(before, call, r) ==
    LET silent == [before EXCEPT !.hook = NoHook]
        inner == before.hook.call
        Ends(last) == last.ok /\ Same(last.w) = Same(r.w)
        Then(first, b) == first.ok /\ Ends(Exec(first.w, b))
    IN  IF ~r.ok \/ r.w.log.fired = None THEN TRUE
        ELSE IF r.w.log.succeeded
        THEN Then(Exec(silent, call), inner) \/ Then(Exec(silent, inner), call)
        ELSE Ends(Exec(silent, call))

\* A settled call that no order explains, by where it pays.
Unserial(before, call, r) ==
    IF SerialFor(before, call, r) THEN {}
    ELSE IF call.kind = "SPEND" /\ call.to = "vault" THEN {"to itself"} ELSE {"outward"}

\* The roots of a fired hook's own signatures are charged too.
ChargedWith(roots, log) ==
    IF log.succeeded /\ log.fired \in SIGNED_HOOKS THEN Joined(roots, ctx.hookRoots) ELSE roots

\* A binding is noted when it is mined, one from inside a hook as well.
Noted(charged) ==
    IF chain.boundAt = 0 /\ chain'.boundAt # 0
    THEN [ctx EXCEPT !.boundAt = chain'.now, !.migrationBy = charged]
    ELSE ctx

NotReplayed == [kind |-> None, ok |-> FALSE]

\* A transaction to the vault, with the hook armed as in before; prior is the call it
\* replays and what became of that.
Transact(kind, before, call, roots, prior) ==
    \E r \in {Exec(before, call)} :
        LET log == r.w.log IN
        /\ chain' = Same(r.w)
        /\ ctx' = Noted(ChargedWith(roots, log))
        /\ unserial' = unserial \cup Unserial(before, call, r)
        /\ alarms' = alarms
             \cup StepAlarms(kind, ChargedWith(roots, log))
             \cup (IF r.ok /\ kind = "SPEND" THEN SpendAlarms(call, log) ELSE {})
             \cup (IF r.ok /\ call.kind \in Egresses THEN EgressAlarms(call.kind, log) ELSE {})
             \cup Violated("P-UNAUTHORISED-INPUT-NEVER-SETTLES", r.ok /\ kind = "RELAY_TAMPER")
             \cup Violated("P-CROSS-ASSET", r.ok /\ kind = "CROSS_ASSET_REPLAY")
             \cup Violated("P-NO-REPLAY", r.ok /\ prior.ok /\ prior.kind \in NonceBearing)
        /\ UNCHANGED profile

Does(kind, actor) == kind \in profile.kinds /\ actor \in profile.actors

\* attempt: sent, and remembered where something replays it.
Attempt(kind, actor, before, call, roots) ==
    /\ Transact(kind, before, call, roots, NotReplayed)
    /\ IF "REPLAY_PAST_CALL" \in profile.kinds
       THEN /\ Cardinality(history) < MaxCalls
            /\ history' = history \cup {[kind |-> kind, call |-> call, roots |-> rootsNow(actor),
                                         ok |-> Exec(before, call).ok]}
       ELSE UNCHANGED history

\* A lever on the token or on time: no authority is charged.
Lever(kind, next) ==
    /\ kind \in profile.kinds
    /\ chain' = next
    /\ alarms' = alarms \cup StepAlarms(kind, Model!NoRoots)
    /\ UNCHANGED <<profile, ctx, history, unserial>>

-----------------------------------------------------------------------------
(* The action kinds *)

SpendCall(actor, to, amount, nonce) ==
    [kind |-> "SPEND", signed |-> HoldsCredential(actor), vault |-> "this",
     covers |-> <<to, amount>>, to |-> to, amount |-> amount, nonce |-> nonce]

\* A hook that replays sits inside the very spend it replays.
ArmedFor(call) ==
    IF chain.hook.kind = "replaySpend" THEN [chain EXCEPT !.hook.call = call] ELSE chain

\* Of little, of everything or of nothing; to the recipient or to the vault itself.
SPEND(actor) ==
    /\ Does("SPEND", actor)
    /\ chain.nonces.spend < MaxNonce
    /\ \E amount \in {0, 1, chain.asset.vault}, to \in {"recipient", "vault"} :
         LET call == SpendCall(actor, to, amount, chain.nonces.spend)
         IN  Attempt("SPEND", actor, ArmedFor(call), call, rootsNow(actor))

\* Somebody rewrites a field of what the credential signed.
RELAY_TAMPER(actor) ==
    /\ Does("RELAY_TAMPER", actor)
    /\ chain.nonces.spend < MaxNonce
    /\ \E field \in {"recipient", "amount"} :
         LET call == SpendCall("honest", "recipient", 1, chain.nonces.spend)
         IN  Attempt("RELAY_TAMPER", actor, chain,
                 IF field = "recipient" THEN [call EXCEPT !.to = "vault"]
                                        ELSE [call EXCEPT !.amount = 2],
                 rootsNow(actor))

SiblingAccepts(call) == Authorised([chain EXCEPT !.nonces.spend = chain.sibling.nonce],
                                   [call EXCEPT !.vault = IF @ = "sibling" THEN "this" ELSE "sibling"])

\* A signature for this vault at the vault of the other asset, or the reverse.
CROSS_ASSET_REPLAY(actor) ==
    /\ Does("CROSS_ASSET_REPLAY", actor)
    /\ chain.nonces.spend < MaxNonce
    /\ LET call == SpendCall("honest", "recipient", 1, chain.nonces.spend) IN
       \/ /\ chain' = IF SiblingAccepts(call)
                      THEN [chain EXCEPT !.sibling = [asset |-> @.asset - 1, nonce |-> @.nonce + 1]]
                      ELSE chain
          /\ alarms' = alarms \cup StepAlarms("CROSS_ASSET_REPLAY", Model!NoRoots)
                 \cup Violated("P-CROSS-ASSET", SiblingAccepts(call))
          /\ UNCHANGED <<profile, ctx, history, unserial>>
       \/ Attempt("CROSS_ASSET_REPLAY", actor, chain, [call EXCEPT !.vault = "sibling"],
                  rootsNow(actor))

SET_POLICY(actor) ==
    /\ Does("SET_POLICY", actor)
    /\ chain.nonces.credential < MaxNonce
    /\ \E policy \in {None, "deny", "codeless"} :
         Attempt("SET_POLICY", actor, chain,
             [kind |-> "SET_POLICY", signed |-> HoldsCredential(actor), policy |-> policy,
              nonce |-> chain.nonces.credential], rootsNow(actor))

ContainCall(actor) ==
    [kind |-> "ENTER_CONTAINMENT", quorum |-> HoldsQuorum(actor), nonce |-> chain.nonces.guardian]

ENTER_CONTAINMENT(actor) ==
    /\ Does("ENTER_CONTAINMENT", actor)
    /\ chain.nonces.guardian < MaxNonce
    /\ Attempt("ENTER_CONTAINMENT", actor, chain, ContainCall(actor), rootsNow(actor))

BindCall(actor, destination) ==
    [kind |-> "BIND_MIGRATION", destination |-> destination, quorum |-> HoldsQuorum(actor),
     signed |-> HoldsCredential(actor), nonce |-> chain.nonces.migration,
     context |-> BindingContext(chain)]

\* To the destination, to code it does not have, or to the vault itself.
BIND_MIGRATION(actor) ==
    /\ Does("BIND_MIGRATION", actor)
    /\ \E destination \in {"bound", "wrongHash", "self"} :
         Attempt("BIND_MIGRATION", actor, chain, BindCall(actor, destination), rootsNow(actor))

\* What anybody may finish is charged to those who bound it.
RETIRE(actor) ==
    Does("RETIRE", actor) /\ Attempt("RETIRE", actor, chain, [kind |-> "RETIRE"], ctx.migrationBy)

EGRESS(actor) ==
    \E kind \in Egresses :
        /\ Does(kind, actor)
        /\ Attempt(kind, actor, chain, [kind |-> kind], ctx.migrationBy)

\* The call that the token will make, signed with what the armer holds now.
HookCall(actor, kind) ==
    CASE kind = "readNonce" -> [kind |-> "NONCES"]
      [] kind = "replaySpend" -> SpendCall(actor, "recipient", 1, chain.nonces.spend)
      [] kind = "secondValidSpend" -> SpendCall(actor, "recipient", 1, chain.nonces.spend + 1)
      [] kind = "egress" -> [kind |-> "EGRESS_TOKEN"]
      [] kind = "contain" -> ContainCall(actor)
      [] kind = "bindMigration" -> BindCall(actor, "bound")
      [] OTHER -> [kind |-> "RETIRE"]

ARM_HOOK(actor) ==
    /\ Does("ARM_HOOK", actor)
    /\ \E kind \in profile.hooks, after \in BOOLEAN :
         chain' = [chain EXCEPT !.hook = [kind |-> kind, call |-> HookCall(actor, kind),
                                          after |-> after]]
    /\ ctx' = [ctx EXCEPT !.hookRoots = rootsNow(actor)]
    /\ UNCHANGED <<profile, history, alarms, unserial>>

\* What was spent once is charged to the replayer, what was refused to its author.
ReplayAttribution(actor, old) ==
    IF old.call.kind \in Egresses \cup {"RETIRE"} THEN ctx.migrationBy
    ELSE IF old.ok THEN rootsNow(actor) ELSE old.roots

REPLAY_PAST_CALL(actor) ==
    /\ Does("REPLAY_PAST_CALL", actor)
    /\ \E old \in history :
         Transact("REPLAY_PAST_CALL", chain, old.call, ReplayAttribution(actor, old),
                  [kind |-> old.kind, ok |-> old.ok])
    /\ UNCHANGED history

DIRECT_TRANSFER ==
    /\ chain.supply < MaxSupply
    /\ Lever("DIRECT_TRANSFER", [chain EXCEPT !.asset.vault = @ + 1, !.supply = @ + 1])

\* A balance that moves with no transfer.
TOKEN_REBASE ==
    \/ /\ chain.supply < MaxSupply
       /\ Lever("TOKEN_REBASE", [chain EXCEPT !.asset.vault = @ + 1, !.supply = @ + 1])
    \/ /\ chain.asset.vault > 0
       /\ Lever("TOKEN_REBASE", [chain EXCEPT !.asset.vault = @ - 1, !.supply = @ - 1])

FUND ==
    /\ chain.native.vault + chain.native.destination < MaxSupply
    /\ Lever("FUND", [chain EXCEPT !.native.vault = @ + 1])

UNSOLICITED_TRANSFER ==
    /\ chain.other.vault + chain.other.destination < 1
    /\ \E hostility \in 0..2 :
         Lever("UNSOLICITED_TRANSFER",
               [chain EXCEPT !.hostility = hostility, !.other.vault = @ + 1])

TOKEN_MODE ==
    \E mode \in profile.modes :
        Lever("TOKEN_MODE", [chain EXCEPT !.mode = mode, !.poison = [kind |-> None, balance |-> 0]])

TOKEN_BLOCKLIST ==
    \E target \in {"vault", "recipient", "destination"} :
        Lever("TOKEN_BLOCKLIST",
              [chain EXCEPT !.frozen = IF target \in @ THEN @ \ {target} ELSE @ \cup {target}])

DESTINATION_MODE ==
    \E mode \in {"ACCEPT", "BOUNCE_ALL", "BOUNCE_HALF", "REFUSE"} :
        Lever("DESTINATION_MODE", [chain EXCEPT !.destinationMode = mode])

ADVANCE_TIME ==
    /\ chain.now < MaxTime
    /\ Lever("ADVANCE_TIME", [chain EXCEPT !.now = @ + 1])

Init ==
    /\ profile \in Profiles
    /\ chain = deployGen2World /\ ctx = freshCtx /\ history = {} /\ alarms = {} /\ unserial = {}

Next ==
    \/ \E actor \in profile.actors :
         \/ SPEND(actor) \/ RELAY_TAMPER(actor) \/ CROSS_ASSET_REPLAY(actor)
         \/ SET_POLICY(actor) \/ ENTER_CONTAINMENT(actor) \/ BIND_MIGRATION(actor)
         \/ RETIRE(actor) \/ EGRESS(actor) \/ ARM_HOOK(actor) \/ REPLAY_PAST_CALL(actor)
    \/ DIRECT_TRANSFER \/ TOKEN_REBASE \/ FUND \/ UNSOLICITED_TRANSFER
    \/ TOKEN_MODE \/ TOKEN_BLOCKLIST \/ DESTINATION_MODE \/ ADVANCE_TIME

Spec == Init /\ [][Next]_vars

-----------------------------------------------------------------------------
(* Properties *)

\* The campaign reports nothing of the real candidate, whatever the token does and
\* whatever is sent again (generation-2/stateful/campaign.ts:1144-1150).
NoAssetAlarm == alarms = {}

\* A spend that leaves the vault and an egress do with a token's callback only what
\* they and the call in it do one after the other
\* (VaultKernelGen2Prototype.sol:1001-1071, the hooks of actions.ts:544-647).
SerialOutward == "outward" \notin unserial

\* "Nothing the hook does may produce an outcome no ordering of authorised acts
\* could" (generation-2/stateful/profiles.ts:141).
SerialEquivalence == unserial = {}

\* The levers put right, as at the end of a history.
Restored ==
    [chain EXCEPT !.mode = "VANILLA", !.poison = [kind |-> None, balance |-> 0], !.hook = NoHook,
                  !.frozen = {}, !.hostility = 0, !.destinationMode = "ACCEPT",
                  !.now = IF chain.boundAt # 0 /\ chain.boundAt + BIND_DELAY > @
                          THEN chain.boundAt + BIND_DELAY ELSE @]

\* Whatever happened, from a binding a stranger takes every holding to the
\* destination, the admitted one last (terminalControls, campaign.ts:890-925).
ExitReachable ==
    chain.boundAt # 0 =>
        LET unsolicited == Exec(Restored, [kind |-> "EGRESS_OTHER"])
            native == Exec(unsolicited.w, [kind |-> "EGRESS_NATIVE"])
            admitted == Exec(native.w, [kind |-> "EGRESS_TOKEN"])
        IN  /\ unsolicited.ok /\ native.ok /\ admitted.ok
            /\ admitted.w.asset.vault = 0 /\ admitted.w.native.vault = 0
            /\ admitted.w.other.vault = 0
=============================================================================
