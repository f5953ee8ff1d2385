-------------------------- MODULE StatefulCampaign --------------------------
(***************************************************************************)
(* prototype/vnext-kernel/stateful/ and generation-2/stateful/: the random *)
(* campaigns that drive a real kernel and judge every step.  The harness   *)
(* signs with the keys it BELIEVES are installed, charges each outcome to  *)
(* roots it believes the actor holds, and keeps every call so that it can  *)
(* be sent again.  Generation 2 re-reads its beliefs after every step.     *)
(*                                                                         *)
(* Keys are labels.  A call carries the labels it was signed with; signed  *)
(* with a key the actor does not hold it carries Decoy.  One asset; the    *)
(* levers of generation 2 on its token are StatefulAssets.                 *)
(***************************************************************************)
EXTENDS KernelContainment, StatefulModel, Sequences

CONSTANTS
    RECOVERY_DELAY, BIND_DELAY, CHALLENGE_LIMIT,
    Spares,                         \* spareCred and sparePq, by one label
    Thresholds, VerifierKinds, PolicyKinds, QuorumShapes,
    Profiles,                       \* those of PROFILES that the run takes
    Generations,                    \* of the harness: 1, 2
    MaxTime, MaxCalls, MaxReplays, MaxBalance

VARIABLES
    generation, profile,
    kernel,                         \* the storage of the vault under test
    ctx,                            \* what the harness believes is installed
    abstract,                       \* its record of what it did (model.ts)
    history,                        \* every call it sent
    replays,
    alarms,                         \* the properties it reported as violated
    relayed,                        \* history: a refused call was landed by a replay
    raised                          \* history: k went up over an approved request

beliefs == <<generation, profile>>
vars == <<now, containment, beliefs, kernel, ctx, abstract, history, replays, alarms,
          relayed, raised>>

-----------------------------------------------------------------------------
(* Actors *)

Genesis == "genesis"
Decoy == "decoy"
NoKey == "none"
Founders == <<"g0", "g1", "g2">>
Successors == <<"h0", "h1", "h2">>

\* A spare is a key of its own; what a profile says of the floor is yes or no.
StatefulAssumption ==
    /\ {RECOVERY_DELAY, RecoveryWindow, BIND_DELAY, CHALLENGE_LIMIT, MaxBalance} \subseteq Nat
    /\ Spares \cap {Genesis, Decoy, NoKey} = {} /\ NoKey \notin VerifierKinds
    /\ Thresholds \subseteq Nat /\ Generations \subseteq {1, 2}
    /\ \A p \in Profiles : {p.ecdsaOnlyFloor, p.commitPqKey, p.fabricate} \subseteq BOOLEAN

\* The actors of the profiles, by the genesis material they hold.
Owned(actor) ==
    CASE actor = "attacker-ecdsa-only" -> {"cred"}
      [] actor = "attacker-pq-only" -> {"pq"}
      [] actor = "attacker-one-guardian" -> {"g0"}
      [] actor = "attacker-guardian-plus-credential" -> {"g0", "cred"}
      [] actor = "attacker-two-guardians" -> {"g0", "g1"}
      [] OTHER -> {}

\* "*": all material, whatever is rotated.
ownsCred(actor, label) == actor = "honest" \/ (label = Genesis /\ "cred" \in Owned(actor))
ownsPq(actor, label) == actor = "honest" \/ (label = Genesis /\ "pq" \in Owned(actor))
ownsSeat(actor, label) == actor = "honest" \/ label \in Owned(actor)

\* Guardian roots are distinct addresses, never seats.
rootsNow(actor) ==
    [credential |->
        (IF ownsCred(actor, ctx.cred) THEN 1 ELSE 0)
        + (IF ctx.requirePq /\ (ownsPq(actor, ctx.pq) \/ ctx.verifier = "alwaysTrue")
           THEN 1 ELSE 0),
     guardians |->
        LET seats == {ctx.roster[i] : i \in 1..3}
            held == {label \in seats : ownsSeat(actor, label)}
        IN  IF held = {} THEN 0
            ELSE IF \E g \in held : held = {g} THEN 1
            ELSE IF held = seats /\ ctx.roster[1] # ctx.roster[2] THEN 3 ELSE 2]

credSigningKey(actor) == IF ownsCred(actor, ctx.cred) THEN ctx.cred ELSE Decoy
pqSigningKey(actor) == IF ownsPq(actor, ctx.pq) THEN ctx.pq ELSE Decoy

\* The seats a proof names, each with the key that signed for it.
buildQuorum(actor, shape) ==
    LET by(seat) == IF ownsSeat(actor, ctx.roster[seat]) THEN ctx.roster[seat] ELSE Decoy
        held(seat) == IF ownsSeat(actor, ctx.roster[seat]) THEN <<seat>> ELSE <<>>
        ascending == held(1) \o held(2) \o held(3)
        seats == CASE shape = "honest" -> ascending
                   [] shape = "forgeMissing" -> <<1, 2, 3>>
                   [] shape = "duplicateIndex" -> <<1, 1>>
                   [] shape = "descendingIndices" -> <<3, 2, 1>>
                   [] shape = "outOfRangeIndex" -> <<1, 6>>
                   [] OTHER -> <<>>
    IN  [members |-> ctx.roster,
         attests |-> [i \in DOMAIN seats |->
                        [seat |-> seats[i],
                         by |-> IF seats[i] \in 1..3 THEN by(seats[i]) ELSE Decoy]]]

-----------------------------------------------------------------------------
(* The kernel under test *)

NoRequest ==
    [active |-> FALSE, spare |-> NoKey, verifier |-> NoKey, executableAt |-> 0,
     expiresAt |-> 0, challengesUsed |-> 0]

\* deployWorld: what a profile's vault is born with.
deployWorld(p) ==
    [signer |-> Genesis,
     pq |-> IF p.ecdsaOnlyFloor /\ ~p.commitPqKey THEN NoKey ELSE Genesis,
     verifier |-> p.verifier, requirePq |-> ~p.ecdsaOnlyFloor, credentialGeneration |-> 1,
     policy |-> "none",
     roster |-> Founders, threshold |-> 2, guardianGeneration |-> 1,
     nonces |-> [spend |-> 0, credential |-> 0, guardian |-> 0, migration |-> 0],
     recovery |-> NoRequest, boundAt |-> 0, balance |-> MaxBalance]

Live == kernel.recovery.active /\ now < kernel.recovery.expiresAt

Answers(verifier) == verifier \in {"honest", "alwaysTrue"}

FloorAuthorises(c) == c.cred = kernel.signer

\* Slip: one of the two factors is enough.
AuthorisesByEither(c) ==
    \/ FloorAuthorises(c)
    \/ kernel.requirePq /\ c.pq = kernel.pq /\ Answers(kernel.verifier)

\* The committed key, and the verifier's answer to it.
Authorises(c) ==
    /\ FloorAuthorises(c)
    /\ kernel.requirePq => c.pq = kernel.pq /\ Answers(kernel.verifier)

QuorumMet(c) ==
    /\ c.quorum.members = kernel.roster
    /\ Len(c.quorum.attests) >= kernel.threshold
    /\ \A i \in DOMAIN c.quorum.attests :
         /\ c.quorum.attests[i].seat \in 1..3
         /\ c.quorum.attests[i].by = kernel.roster[c.quorum.attests[i].seat]
         /\ i > 1 => c.quorum.attests[i - 1].seat < c.quorum.attests[i].seat

\* A signed call is for one domain, at the nonce and generation it was built with.
Current(c) ==
    /\ c.nonce = kernel.nonces[c.domain]
    /\ c.generation = IF c.domain = "spend" \/ c.domain = "credential"
                      THEN kernel.credentialGeneration ELSE kernel.guardianGeneration

\* The incoming keys: proven when PQ is required, otherwise exhibited.
Possesses(c, spare, verifier) ==
    /\ c.body.pop = spare
    /\ kernel.requirePq => Answers(verifier)
    /\ c.body.exhibit = c.body.hash

Accepts(c) ==
    CASE c.kind = "SPEND" ->
             /\ Current(c) /\ IsNormal /\ Authorises(c)
             /\ kernel.policy \notin {"deny", "codeless"}
             /\ kernel.balance >= c.body.amount
      [] c.kind = "ROTATE_CREDENTIAL" ->
             /\ Current(c) /\ IsNormal /\ Authorises(c)
             /\ Possesses(c, c.body.spare, kernel.verifier)
      [] c.kind = "SET_VERIFIER" ->
             /\ Current(c) /\ IsNormal /\ Authorises(c)
             /\ kernel.requirePq => c.body.requirePq
             /\ ~kernel.requirePq /\ c.body.requirePq =>
                    c.body.exhibit = kernel.pq /\ kernel.pq # NoKey
      [] c.kind = "SET_POLICY" -> Current(c) /\ IsNormal /\ Authorises(c)
      [] c.kind = "SET_GUARDIANS" ->
             /\ Current(c) /\ IsNormal /\ QuorumMet(c)
             /\ c.body.roster[1] # c.body.roster[2]
      [] c.kind = "INITIATE_RECOVERY" -> Current(c) /\ RecoveryOpen /\ ~Live /\ QuorumMet(c)
      [] c.kind = "CANCEL_RECOVERY" ->
             /\ Current(c) /\ RecoveryOpen /\ Live /\ FloorAuthorises(c)
             /\ kernel.recovery.challengesUsed < CHALLENGE_LIMIT
      [] c.kind = "CANCEL_RECOVERY_BY_QUORUM" ->
             Current(c) /\ RecoveryOpen /\ Live /\ QuorumMet(c)
      [] c.kind = "EXECUTE_RECOVERY" ->
             /\ RecoveryOpen /\ Live /\ now >= kernel.recovery.executableAt
             /\ c.body.spare = kernel.recovery.spare
             /\ c.body.executableAt = kernel.recovery.executableAt
             /\ Possesses(c, kernel.recovery.spare, kernel.recovery.verifier)
      [] c.kind = "ENTER_CONTAINMENT" ->
             Current(c) /\ QuorumMet(c) /\ MayContain /\ BudgetAllows
      [] c.kind = "BIND_MIGRATION" ->
             /\ Current(c) /\ EffectiveState # "RETIRED" /\ kernel.boundAt = 0 /\ ~Live
             /\ QuorumMet(c) /\ FloorAuthorises(c)
      [] c.kind = "RETIRE" -> kernel.boundAt # 0 /\ now >= kernel.boundAt + BIND_DELAY
      [] OTHER ->                       \* EGRESS; only generation 2 makes it wait
             kernel.boundAt # 0 /\ (generation = 2 => now >= kernel.boundAt + BIND_DELAY)

\* A request that is cancelled keeps what it proposed.
Dropped == [kernel.recovery EXCEPT !.active = FALSE]
Challenged == [Dropped EXCEPT !.challengesUsed = @ + 1]

Spent(domain) == [kernel.nonces EXCEPT ![domain] = @ + 1]

\* What an accepted call leaves behind.
Landed(c) ==
    CASE c.kind = "SPEND" ->
             [kernel EXCEPT !.nonces = Spent("spend"), !.balance = @ - c.body.amount]
      [] c.kind = "ROTATE_CREDENTIAL" ->
             [kernel EXCEPT !.nonces = Spent("credential"), !.signer = c.body.spare,
                            !.pq = c.body.hash, !.credentialGeneration = @ + 1]
      [] c.kind = "SET_VERIFIER" ->
             [kernel EXCEPT !.nonces = Spent("credential"), !.verifier = c.body.verifier,
                            !.requirePq = c.body.requirePq]
      [] c.kind = "SET_POLICY" ->
             [kernel EXCEPT !.nonces = Spent("credential"), !.policy = c.body.policy]
      [] c.kind = "SET_GUARDIANS" ->
             [kernel EXCEPT !.nonces = Spent("guardian"), !.roster = c.body.roster,
                            !.threshold = c.body.threshold, !.guardianGeneration = @ + 1]
      [] c.kind = "INITIATE_RECOVERY" ->
             [kernel EXCEPT !.nonces = Spent("guardian"),
                !.recovery = [active |-> TRUE, spare |-> c.body.spare,
                              verifier |-> c.body.verifier, executableAt |-> now + RECOVERY_DELAY,
                              expiresAt |-> now + RecoveryWindow,
                              challengesUsed |-> kernel.recovery.challengesUsed]]
      [] c.kind = "CANCEL_RECOVERY" ->
             [kernel EXCEPT !.nonces = Spent("credential"), !.recovery = Challenged]
      [] c.kind = "CANCEL_RECOVERY_BY_QUORUM" ->
             [kernel EXCEPT !.nonces = Spent("guardian"), !.recovery = Dropped]
      [] c.kind = "EXECUTE_RECOVERY" ->
             [kernel EXCEPT !.signer = kernel.recovery.spare, !.pq = kernel.recovery.spare,
                            !.verifier = kernel.recovery.verifier,
                            !.credentialGeneration = @ + 1, !.recovery = NoRequest]
      [] c.kind = "ENTER_CONTAINMENT" -> [kernel EXCEPT !.nonces = Spent("guardian")]
      [] c.kind = "BIND_MIGRATION" ->
             [kernel EXCEPT !.nonces = Spent("migration"), !.boundAt = now]
      [] c.kind = "RETIRE" -> kernel
      [] OTHER -> [kernel EXCEPT !.balance = 0]

SafeStateAfter(c) ==
    CASE c.kind = "ENTER_CONTAINMENT" -> Contain
      [] c.kind = "BIND_MIGRATION" -> LeaveFor("MIGRATION_ONLY")
      [] c.kind = "RETIRE" -> LeaveFor("RETIRED")
      [] OTHER -> UNCHANGED containment

-----------------------------------------------------------------------------
(* What the harness concludes from a step *)

\* By what changed, never by which call was made.
detectOutcomes ==
    {o \in Outcomes :
        CASE o = "ASSET_MOVEMENT" -> kernel'.balance < kernel.balance
          [] o = "CREDENTIAL_REPLACEMENT" ->
                 kernel'.signer # kernel.signer \/ kernel'.pq # kernel.pq
          [] o = "VERIFIER_REPLACEMENT" -> kernel'.verifier # kernel.verifier
          [] o = "POLICY_CHANGE" -> kernel'.policy # kernel.policy
          [] o = "GUARDIAN_TRANSITION" ->
                 kernel'.roster # kernel.roster \/ kernel'.threshold # kernel.threshold
          [] o = "MIGRATION_BINDING" -> kernel.boundAt = 0 /\ kernel'.boundAt # 0
          [] o = "CONTAINMENT" -> safeState # "CONTAINED" /\ safeState' = "CONTAINED"
          [] OTHER ->
                 /\ kernel.recovery.active /\ ~kernel'.recovery.active
                 /\ kernel'.recovery.challengesUsed = kernel.recovery.challengesUsed
                 /\ kernel'.credentialGeneration = kernel.credentialGeneration
                 /\ kernel'.recovery.spare = kernel.recovery.spare}

\* The cut is that of the state the step had to clear.
UnentitledOutcome(charged) ==
    \E o \in detectOutcomes :
        ~judgeCut(charged, o, IF kernel.requirePq THEN 2 ELSE 1, kernel.threshold)

\* Challenges go up by one, and to none when a recovery installs what it proposed.
ChallengeEpochHolds ==
    LET before == kernel.recovery
        after == kernel'.recovery
        recovered == /\ before.active /\ after.spare = NoKey
                     /\ kernel'.credentialGeneration = kernel.credentialGeneration + 1
                     /\ kernel'.signer = before.spare /\ kernel'.verifier = before.verifier
    IN  IF recovered THEN after.challengesUsed = 0
        ELSE after.challengesUsed \in {before.challengesUsed, before.challengesUsed + 1}

\* GLOBAL_INVARIANTS on what only grows, never returns, or is bounded.
StateGlobals ==
    /\ kernel'.credentialGeneration >= kernel.credentialGeneration
    /\ kernel'.guardianGeneration >= kernel.guardianGeneration
    /\ \A d \in DOMAIN kernel.nonces : kernel'.nonces[d] >= kernel.nonces[d]
    /\ kernel.requirePq => kernel'.requirePq
    /\ kernel.boundAt # 0 => kernel'.boundAt = kernel.boundAt
    /\ safeState = "RETIRED" => safeState' = "RETIRED"
    /\ containmentUsedInWindow' <= CONTAINMENT_BUDGET

\* Those on the recovery request and the commitment; SD-4 is a known defect and
\* not reported as a violation.
RecoveryGlobals ==
    /\ ChallengeEpochHolds
    /\ kernel'.recovery.challengesUsed <= CHALLENGE_LIMIT
    /\ kernel'.recovery.active =>
          NoKey \notin {kernel'.recovery.spare, kernel'.recovery.verifier}
    /\ kernel'.pq # Decoy
    /\ kernel'.requirePq => kernel'.pq # NoKey

checkGlobals == StateGlobals /\ RecoveryGlobals

\* One step of runPlan's judgement.
Judge(kind, charged, violation, usedStalePossession) ==
    alarms' = alarms
        \cup (IF UnentitledOutcome(charged) THEN {"P-CUT"} ELSE {})
        \cup (IF usedStalePossession THEN {"P-INCOMING-POSSESSION"} ELSE {})
        \cup (IF kind = "SPEND" /\ ctx.policy = "deny" /\ kernel'.balance < kernel.balance
              THEN {"P-PLANE-SUBTRACTIVE"} ELSE {})
        \cup (IF violation THEN {"P-MODEL"} ELSE {})
        \cup (IF checkGlobals THEN {} ELSE {"G"})

-----------------------------------------------------------------------------
(* The harness's bookkeeping *)

freshCtx(p, k) ==
    [cred |-> Genesis, pq |-> Genesis, roster |-> k.roster, verifier |-> p.verifier,
     requirePq |-> ~p.ecdsaOnlyFloor, policy |-> "none"]

\* Slip: reads the keys back only, as generation 1's own bookkeeping covers the rest.
SyncKeysOnly(believed) ==
    [believed EXCEPT !.cred = kernel'.signer,
                     !.pq = IF kernel'.pq \in {NoKey, Decoy} THEN @ ELSE kernel'.pq]

\* Generation 2: after every step, what it knows the key of is read back.
syncModelFromChain(believed) ==
    [believed EXCEPT !.cred = kernel'.signer,
                     !.pq = IF kernel'.pq \in {NoKey, Decoy} THEN @ ELSE kernel'.pq,
                     !.verifier = kernel'.verifier, !.policy = kernel'.policy,
                     !.requirePq = kernel'.requirePq]

Believe(believed) ==
    ctx' = IF generation = 2 THEN syncModelFromChain(believed) ELSE believed

\* What a successful direct call makes the harness believe.
OnSuccess(c) ==
    CASE c.kind = "ROTATE_CREDENTIAL" ->
             [ctx EXCEPT !.cred = c.body.spare,
                         !.pq = IF c.body.hash = Decoy THEN @ ELSE c.body.spare]
      [] c.kind = "SET_VERIFIER" ->
             [ctx EXCEPT !.verifier = c.body.verifier, !.requirePq = c.body.requirePq]
      [] c.kind = "SET_POLICY" -> [ctx EXCEPT !.policy = c.body.policy]
      [] c.kind = "SET_GUARDIANS" -> [ctx EXCEPT !.roster = c.body.roster]
      [] c.kind = "EXECUTE_RECOVERY" ->
             [ctx EXCEPT !.cred = c.body.spare, !.pq = c.body.spare,
                         !.verifier = kernel.recovery.verifier]
      [] OTHER -> ctx

\* What it records of a call that succeeded, and whether that contradicts its record.
Recorded(c, roots) ==
    CASE c.kind = "INITIATE_RECOVERY" -> recordInitiation(abstract, roots, now)
      [] c.kind \in {"CANCEL_RECOVERY", "CANCEL_RECOVERY_BY_QUORUM"} ->
             recordCancellation(abstract, now)
      [] c.kind = "EXECUTE_RECOVERY" ->
             [violation |-> judgeRecoveryExecution(abstract, now),
              state |-> recordExecution(abstract)]
      [] c.kind = "BIND_MIGRATION" ->
             [violation |-> FALSE, state |-> [abstract EXCEPT !.migrationAuthorizedBy = roots]]
      [] OTHER -> [violation |-> FALSE, state |-> abstract]

\* Permissionless calls are charged to the decision they finish.
AttributedTo(c, roots) ==
    CASE c.kind \in {"EGRESS", "RETIRE"} -> abstract.migrationAuthorizedBy
      [] c.kind = "EXECUTE_RECOVERY" -> abstract.live.authorizedBy
      [] OTHER -> roots

Kept(c, roots, ok) == [call |-> c, roots |-> roots, ok |-> ok]

Raises(c) == c.kind = "SET_GUARDIANS" /\ c.body.threshold > kernel.threshold /\ Live

\* attempt: build, send, record, judge.  A refusal is data and changes nothing.
Attempt(actor, c, provesOutgoing) ==
    /\ Len(history) < MaxCalls
    /\ UNCHANGED <<now, beliefs, replays, relayed>>
    /\ \/ /\ Accepts(c)
          /\ kernel' = Landed(c) /\ SafeStateAfter(c)
          /\ Believe(OnSuccess(c))
          /\ abstract' = Recorded(c, rootsNow(actor)).state
          /\ history' = Append(history, Kept(c, rootsNow(actor), TRUE))
          /\ Judge(c.kind, AttributedTo(c, rootsNow(actor)),
                   Recorded(c, rootsNow(actor)).violation, provesOutgoing)
          /\ raised' = (raised \/ Raises(c))
       \/ /\ ~Accepts(c)
          /\ history' = Append(history, Kept(c, rootsNow(actor), FALSE))
          /\ UNCHANGED <<kernel, containment, ctx, abstract, alarms, raised>>

-----------------------------------------------------------------------------
(* The action kinds *)

Does(kind, actor) == kind \in profile.kinds /\ actor \in profile.actors

\* Under both keys of the credential; the PQ leg only when the chain asks for it.
SignedByBoth(kind, domain, actor, body) ==
    [kind |-> kind, domain |-> domain, nonce |-> kernel.nonces[domain],
     generation |-> kernel.credentialGeneration, cred |-> credSigningKey(actor),
     pq |-> IF kernel.requirePq THEN pqSigningKey(actor) ELSE NoKey, body |-> body]

SignedByQuorum(kind, actor, shape, body) ==
    [kind |-> kind, domain |-> "guardian", nonce |-> kernel.nonces["guardian"],
     generation |-> kernel.guardianGeneration, quorum |-> buildQuorum(actor, shape),
     body |-> body]

\* A call whose kind says everything.
NoBody == [none |-> {}]

\* To the recipient, or to the vault itself, which moves nothing.
SPEND(actor) ==
    /\ Does("SPEND", actor)
    /\ \E amount \in {0, 1} :
         Attempt(actor, SignedByBoth("SPEND", "spend", actor, [amount |-> amount]), FALSE)

\* popStale signs with the outgoing key; fabricate installs a hash of nothing.
ROTATE_CREDENTIAL(actor) ==
    /\ Does("ROTATE_CREDENTIAL", actor)
    /\ \E spare \in Spares, popStale \in BOOLEAN, fabricate \in {FALSE, profile.fabricate} :
         Attempt(actor,
             SignedByBoth("ROTATE_CREDENTIAL", "credential", actor,
                 [spare |-> spare, hash |-> IF fabricate THEN Decoy ELSE spare,
                  exhibit |-> IF fabricate THEN ctx.pq ELSE spare,
                  pop |-> IF popStale THEN ctx.cred ELSE spare]),
             popStale /\ ctx.cred # spare)

\* The declaring edge exhibits the genesis key, whatever is committed by then.
SET_VERIFIER(actor) ==
    /\ Does("SET_VERIFIER", actor)
    /\ \E verifier \in VerifierKinds, raisePq \in BOOLEAN :
         Attempt(actor,
             SignedByBoth("SET_VERIFIER", "credential", actor,
                 [verifier |-> verifier, requirePq |-> kernel.requirePq \/ raisePq,
                  exhibit |-> Genesis]),
             FALSE)

SET_POLICY(actor) ==
    /\ Does("SET_POLICY", actor)
    /\ \E policy \in PolicyKinds :
         Attempt(actor, SignedByBoth("SET_POLICY", "credential", actor, [policy |-> policy]),
                 FALSE)

\* A fresh roster, or the present one with a member seated twice.
SET_GUARDIANS(actor) ==
    /\ Does("SET_GUARDIANS", actor)
    /\ \E shape \in QuorumShapes, threshold \in Thresholds,
          roster \in {Successors, <<ctx.roster[1], ctx.roster[1], ctx.roster[2]>>} :
         Attempt(actor,
             SignedByQuorum("SET_GUARDIANS", actor, shape,
                 [threshold |-> threshold, roster |-> roster]),
             FALSE)

INITIATE_RECOVERY(actor) ==
    /\ Does("INITIATE_RECOVERY", actor)
    /\ \E shape \in QuorumShapes, spare \in Spares, verifier \in VerifierKinds :
         Attempt(actor,
             SignedByQuorum("INITIATE_RECOVERY", actor, shape,
                 [spare |-> spare, verifier |-> verifier]),
             FALSE)

CANCEL_RECOVERY(actor) ==
    /\ Does("CANCEL_RECOVERY", actor)
    /\ Attempt(actor,
           [kind |-> "CANCEL_RECOVERY", domain |-> "credential",
            nonce |-> kernel.nonces["credential"], generation |-> kernel.credentialGeneration,
            cred |-> credSigningKey(actor)],
           FALSE)

CANCEL_RECOVERY_BY_QUORUM(actor) ==
    /\ Does("CANCEL_RECOVERY_BY_QUORUM", actor)
    /\ \E shape \in QuorumShapes :
         Attempt(actor, SignedByQuorum("CANCEL_RECOVERY_BY_QUORUM", actor, shape, NoBody),
                 FALSE)

\* Anybody: the keys of the proposal on chain, or the outgoing ones.
EXECUTE_RECOVERY(actor) ==
    /\ Does("EXECUTE_RECOVERY", actor)
    /\ \E popStale \in BOOLEAN :
         LET r == kernel.recovery
             proposed == IF r.spare = NoKey THEN ctx.cred ELSE r.spare
         IN  Attempt(actor,
                 [kind |-> "EXECUTE_RECOVERY",
                  body |-> [spare |-> r.spare, executableAt |-> r.executableAt,
                            hash |-> r.spare, exhibit |-> proposed,
                            pop |-> IF popStale THEN ctx.cred ELSE proposed]],
                 popStale /\ r.spare # NoKey /\ ctx.cred # r.spare)

ENTER_CONTAINMENT(actor) ==
    /\ Does("ENTER_CONTAINMENT", actor)
    /\ \E shape \in QuorumShapes :
         Attempt(actor, SignedByQuorum("ENTER_CONTAINMENT", actor, shape, NoBody), FALSE)

BIND_MIGRATION(actor) ==
    /\ Does("BIND_MIGRATION", actor)
    /\ \E shape \in QuorumShapes :
         Attempt(actor,
             [kind |-> "BIND_MIGRATION", domain |-> "migration",
              nonce |-> kernel.nonces["migration"], generation |-> kernel.guardianGeneration,
              quorum |-> buildQuorum(actor, shape), cred |-> credSigningKey(actor)],
             FALSE)

RETIRE(actor) == Does("RETIRE", actor) /\ Attempt(actor, [kind |-> "RETIRE"], FALSE)

EGRESS(actor) == Does("EGRESS", actor) /\ Attempt(actor, [kind |-> "EGRESS"], FALSE)

\* A spent authorisation is charged to the replayer, an unspent one to its author.
ReplayAttribution(actor, old) ==
    IF old.call.kind \in {"EGRESS", "RETIRE", "EXECUTE_RECOVERY"}
    THEN AttributedTo(old.call, old.roots)
    ELSE IF old.ok THEN rootsNow(actor) ELSE old.roots

\* Slip: a replay moves no record.
RecordedByDirectCallsOnly(old) == [violation |-> FALSE, state |-> abstract]

\* The records a replay moves: in generation 1 those of recoveries only.
RecordedByReplay(old) ==
    IF old.call.kind = "BIND_MIGRATION" /\ generation = 1
    THEN [violation |-> FALSE, state |-> abstract]
    ELSE Recorded(old.call, old.roots)

\* adoptRoster, in generation 2.
BelievedAfterReplay(old) ==
    IF old.call.kind = "SET_GUARDIANS" /\ generation = 2
    THEN [ctx EXCEPT !.roster = old.call.body.roster] ELSE ctx

\* Any earlier call, word for word, from anybody.
REPLAY_PAST_CALL(actor) ==
    /\ Does("REPLAY_PAST_CALL", actor)
    /\ replays < MaxReplays
    /\ UNCHANGED <<now, beliefs, history>>
    /\ replays' = replays + 1
    /\ \E i \in DOMAIN history :
         LET old == history[i] IN
         /\ Accepts(old.call)
         /\ kernel' = Landed(old.call) /\ SafeStateAfter(old.call)
         /\ Believe(BelievedAfterReplay(old))
         /\ abstract' = RecordedByReplay(old).state
         /\ Judge("REPLAY_PAST_CALL", ReplayAttribution(actor, old),
                  RecordedByReplay(old).violation, FALSE)
         /\ relayed' = TRUE
         /\ raised' = (raised \/ Raises(old.call))

FUND ==
    /\ kernel.balance < MaxBalance
    /\ kernel' = [kernel EXCEPT !.balance = @ + 1]
    /\ UNCHANGED <<now, containment, beliefs, ctx, abstract, history, replays, alarms,
                   relayed, raised>>

ADVANCE_TIME ==
    /\ now < MaxTime
    /\ now' = now + 1
    /\ UNCHANGED <<containment, beliefs, kernel, ctx, abstract, history, replays, alarms,
                   relayed, raised>>

Init ==
    /\ now = 1 /\ ContainmentInit
    /\ generation \in Generations
    /\ profile \in Profiles
    /\ kernel = deployWorld(profile)
    /\ ctx = freshCtx(profile, deployWorld(profile))
    /\ abstract = freshAbstractState
    /\ history = <<>> /\ replays = 0 /\ alarms = {} /\ relayed = FALSE /\ raised = FALSE

Next ==
    \/ \E actor \in profile.actors :
         \/ SPEND(actor) \/ ROTATE_CREDENTIAL(actor) \/ SET_VERIFIER(actor)
         \/ SET_POLICY(actor) \/ SET_GUARDIANS(actor)
         \/ INITIATE_RECOVERY(actor) \/ CANCEL_RECOVERY(actor)
         \/ CANCEL_RECOVERY_BY_QUORUM(actor) \/ EXECUTE_RECOVERY(actor)
         \/ ENTER_CONTAINMENT(actor) \/ BIND_MIGRATION(actor)
         \/ RETIRE(actor) \/ EGRESS(actor) \/ REPLAY_PAST_CALL(actor)
    \/ FUND \/ ADVANCE_TIME

Spec == Init /\ [][Next]_vars

-----------------------------------------------------------------------------
(* Properties *)

\* What it does report on the real kernel has two causes only, whatever is sent,
\* refused and sent again: a replay that generation 1 does not follow, and a
\* threshold raised over a request the guardians have already approved.
AlarmsExplained ==
    alarms # {} =>
        \/ raised /\ alarms = {"P-CUT"}
        \/ generation = 1 /\ relayed

\* The harness's own record says that a recovery is live exactly when one is,
\* through refusals, replays, expiry and cancellation (model.ts:367).
EpisodeMirrorsRequest == episodeIsLiveAt(abstract, now) <=> Live

\* Generation 2 signs with, and charges for, what is really installed
\* (generation-2/stateful/actions.ts:292-299).
BeliefsFollowChain ==
    generation = 2 =>
        /\ ctx.cred = kernel.signer /\ ctx.verifier = kernel.verifier
        /\ ctx.requirePq = kernel.requirePq /\ ctx.policy = kernel.policy
        /\ ctx.roster = kernel.roster
        /\ kernel.pq # NoKey => ctx.pq = kernel.pq
=============================================================================
