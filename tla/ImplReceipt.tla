----------------------------- MODULE ImplReceipt -----------------------------
(***************************************************************************)
(* The implementation lane's receipt (scripts/lib/sp1-impl-receipt.ts): a  *)
(* lane derives it from its tree and its base on main; the merge that      *)
(* takes it into main binds it (sp1-impl-receipt-integration.ts); and from *)
(* then on every descendant is judged by what that merge carries, except   *)
(* for proving availability, which a supersession holds at an earlier      *)
(* commit of main (generate-sp1-impl-receipt.ts).                          *)
(*                                                                         *)
(* A tree holds two contracts, the records the receipt reads, the rules    *)
(* that its probes run, the proving availability with the archive it is    *)
(* derived from, and the receipt, its binding and its supersession, each   *)
(* in a set that is empty while there is none.                             *)
(***************************************************************************)
EXTENDS GitHistory

CONSTANTS
    Patch,          \* what another pull request changes on main, as a record
    LanePatch       \* what is changed on the branch

vars == history

None == "none"

-----------------------------------------------------------------------------
(* A tree *)

\* Every validator's record, but for proving availability: "valid", "invalid", or what a
\* valid one may show: a rebuild that drifted, a chain that diverges, gaps in a ruleset.
Source ==
    {"TD1_RECEIPT", "TD2_RECORD", "DESIGNATIONS", "WRAPPER_BUILDS", "REGISTRY",
     "CHAIN_EXECUTION", "CANONICAL_REBUILD", "RULESET"}

\* The decision functions, "sound", "open" to the attack, or "shut" to its control too.
Rule == {"plan", "registry", "designations", "walk", "reads"}

PROTECTED_SUBJECT_PATHS == {"wrapper", "consumer"}

Bound == {"receipt", "binding", "supersession"}
\* Beside what the receipt reads there is what it does not.
File ==
    PROTECTED_SUBJECT_PATHS \cup Source \cup Rule \cup Bound
        \cup {"availability", "archive", "other"}

First ==
    [f \in File |->
        CASE f = "wrapper" -> "unpinned"
          [] f \in {"consumer", "other"} -> "old"
          [] f \in Source -> "valid"
          [] f \in Rule -> "sound"
          [] f = "availability" -> "OWNER_DOWNLOAD_REQUIRED"
          [] f = "archive" -> None
          [] OTHER -> {}]

\* What each file of a tree may hold, those of the receipt apart.
Holding ==
    [f \in File \ Bound |->
        CASE f = "wrapper" -> {"unpinned", "pinned", "unhalted", "rejournaled"}
          [] f \in {"consumer", "other"} -> {"old", "new"}
          [] f \in Source ->
                {"valid", "invalid"} \cup
                    (CASE f = "CANONICAL_REBUILD" -> {"drift"}
                       [] f = "CHAIN_EXECUTION" -> {"diverges"}
                       [] f = "RULESET" -> {"gaps"}
                       [] OTHER -> {})
          [] f \in Rule -> {"sound", "open", "shut"}
          [] f = "availability" -> {"OWNER_DOWNLOAD_REQUIRED", "ARCHIVED_VERIFIED_UNEXERCISED"}
          [] f = "archive" -> {None, "a"}]

PatchAssumption ==
    \A patch \in Patch \cup LanePatch :
        \A f \in DOMAIN patch : f \in File \ Bound /\ patch[f] \in Holding[f]

Patched(tree, patch) == [f \in File |-> IF f \in DOMAIN patch THEN patch[f] ELSE tree[f]]

\* What a commit holds of these paths.
protectedAt(n, paths) == [f \in paths |-> Tree(n)[f]]

-----------------------------------------------------------------------------
(* Proving availability *)

LIVE_AVAILABILITY_STATUSES == {"OWNER_DOWNLOAD_REQUIRED"}

\* The record has to be what the archives derive.
availabilityOf(tree) ==
    IF tree.archive = None THEN "OWNER_DOWNLOAD_REQUIRED" ELSE "ARCHIVED_VERIFIED_UNEXERCISED"

liveAvailability(tree) ==
    LET valid == tree.availability = availabilityOf(tree) IN
    [errors |-> ~ valid,
     status |-> IF valid THEN tree.availability ELSE None,
     acceptedRecord |-> IF valid THEN tree.archive ELSE None]

\* Superseded, it is the file as it was at the historical subject, and has no errors.
provingAvailabilityInputs(n, historical) ==
    IF historical = {} THEN [errors |-> liveAvailability(Tree(n)).errors,
                             status |-> liveAvailability(Tree(n)).status,
                             bytes |-> Tree(n).availability]
    ELSE LET then == Tree(CHOOSE c \in historical : TRUE).availability
         IN [errors |-> FALSE, status |-> then, bytes |-> then]

-----------------------------------------------------------------------------
(* What is derived *)

\* The wrapper as compiled: pinned to the verifier's code and comparing chain ids in full,
\* its halt checked first, its journal the old one.
wrapperAstFacts(tree) ==
    [constructorPinsCodehash |-> tree.wrapper # "unpinned",
     chainIdComparedFullWidth |-> tree.wrapper # "unpinned",
     verifyChecksHaltFirst |-> tree.wrapper # "unhalted",
     journalTypes |-> IF tree.wrapper = "rejournaled" THEN "uint256" ELSE "uint64"]

\* A refusal counts only when the same call without the attack is accepted.
passed(rule) == rule = "sound"

probeOverrides(tree) == passed(tree.plan)
probeHaltedIdentityElsewhere(tree) == passed(tree.registry) /\ passed(tree.plan)
probeIdentityReuse(tree) == passed(tree.designations)
probeRegistryHistory(tree) == passed(tree.walk)
probeFinalityReads(tree) == passed(tree.reads)

contractsChangedSince(base, tree) == {f \in PROTECTED_SUBJECT_PATHS : Tree(base)[f] # tree[f]}

LANE_CONTRACT_CHANGES == {"wrapper"}

\* Gaps are shown by a ruleset record that is well formed only.
rulesetInput(tree) == [errors |-> tree.RULESET = "invalid", gaps |-> tree.RULESET = "gaps"]

recordFailures(i) ==
    {s \in Source : i.tree[s] = "invalid"} \cup IF i.proving.errors THEN {"PROVING"} ELSE {}

F1_CHAIN_ID_FIX(i) ==
    IF ~ i.ast.chainIdComparedFullWidth THEN "TRUNCATING"
    ELSE IF i.ast.journalTypes # i.journalTypesAtBase THEN "PROOF_FORMAT_CHANGED"
    ELSE IF i.tree.DESIGNATIONS = "invalid" THEN "GUEST_CHANGE_NOT_EXCLUDED"
    ELSE "FULL_WIDTH_WRAPPER_ONLY"

TD2_HALT_INVARIANTS_PRESERVED(i) ==
    IF i.contractsChanged # LANE_CONTRACT_CHANGES THEN "CHANGED_OUTSIDE_THE_WRAPPER"
    ELSE IF ~ i.ast.verifyChecksHaltFirst THEN "WEAKENED"
    ELSE IF i.tree.TD2_RECORD = "invalid" THEN "TD2_RECORD_INVALID"
    ELSE "PRESERVED"

\* Only what was shown is a STOP: what an invalid record says is not.
stopConditions(i) ==
    {c \in {"CANONICAL_BUILD_DOES_NOT_REPRODUCE", "PER_CHAIN_VERDICTS_DIVERGE",
            "PIN_BYPASSABLE_VIA_GATEWAY_ROUTING", "PRODUCTION_VALUES_OVERRIDABLE",
            "REGISTRY_HISTORY_REWRITABLE_UNDETECTED",
            "HALTED_IDENTITY_REPUBLISHABLE_BY_ADDRESS_CHANGE",
            "CROSS_CHAIN_FIX_NEEDS_NEW_MUTABLE_PRINCIPAL",
            "F1_CHANGES_GUEST_ELF_VKEY_OR_PROOF_FORMAT", "RPC_FAILURE_FAILS_OPEN",
            "TD2_INVARIANTS_WEAKENED"} :
        CASE c = "CANONICAL_BUILD_DOES_NOT_REPRODUCE" -> i.tree.CANONICAL_REBUILD = "drift"
          [] c = "PER_CHAIN_VERDICTS_DIVERGE" -> i.tree.CHAIN_EXECUTION = "diverges"
          [] c = "PIN_BYPASSABLE_VIA_GATEWAY_ROUTING" -> ~ i.ast.constructorPinsCodehash
          [] c = "PRODUCTION_VALUES_OVERRIDABLE" -> ~ probeOverrides(i.tree)
          [] c = "REGISTRY_HISTORY_REWRITABLE_UNDETECTED" ->
                ~ probeRegistryHistory(i.tree) \/ rulesetInput(i.tree).gaps
          [] c = "HALTED_IDENTITY_REPUBLISHABLE_BY_ADDRESS_CHANGE" ->
                ~ probeIdentityReuse(i.tree) \/ ~ probeHaltedIdentityElsewhere(i.tree)
          [] c = "CROSS_CHAIN_FIX_NEEDS_NEW_MUTABLE_PRINCIPAL" ->
                i.contractsChanged # LANE_CONTRACT_CHANGES
          [] c = "F1_CHANGES_GUEST_ELF_VKEY_OR_PROOF_FORMAT" ->
                F1_CHAIN_ID_FIX(i) = "PROOF_FORMAT_CHANGED"
          [] c = "RPC_FAILURE_FAILS_OPEN" -> ~ probeFinalityReads(i.tree)
          [] OTHER -> TD2_HALT_INVARIANTS_PRESERVED(i) \in {"WEAKENED", "CHANGED_OUTSIDE_THE_WRAPPER"}}

\* The statuses that say that the lane did what it is for.
statuses(i) ==
    {k \in {"SP1_DIRECT_VERIFIER_PIN", "PROGRAM_IDENTITY_DECISION", "PROGRAM_VKEY_DESIGNATION",
            "CANONICAL_BUILD_STATUS", "SUCCESSOR_DESIGNATION_STATUS",
            "REGISTRY_APPEND_ONLY_STATUS", "REGISTRY_BUILD_PROVENANCE_STATUS",
            "CROSS_CHAIN_HALTED_IDENTITY_STATUS", "PER_CHAIN_EXECUTION_CHECK",
            "MULTISIG_AUTHORIZATION_CLASS_PRESERVED"} :
        CASE k = "SP1_DIRECT_VERIFIER_PIN" ->
                i.ast.constructorPinsCodehash /\ i.tree.WRAPPER_BUILDS = "valid"
          [] k = "PROGRAM_IDENTITY_DECISION" -> i.tree.TD1_RECEIPT = "valid"
          [] k = "PROGRAM_VKEY_DESIGNATION" -> i.tree.DESIGNATIONS = "valid"
          [] k = "CANONICAL_BUILD_STATUS" -> i.tree.CANONICAL_REBUILD = "valid"
          [] k = "SUCCESSOR_DESIGNATION_STATUS" -> probeIdentityReuse(i.tree)
          [] k = "REGISTRY_APPEND_ONLY_STATUS" -> i.tree.REGISTRY = "valid"
          [] k = "REGISTRY_BUILD_PROVENANCE_STATUS" ->
                i.tree.REGISTRY = "valid" /\ i.tree.WRAPPER_BUILDS = "valid"
          [] k = "CROSS_CHAIN_HALTED_IDENTITY_STATUS" -> probeHaltedIdentityElsewhere(i.tree)
          [] k = "PER_CHAIN_EXECUTION_CHECK" -> i.tree.CHAIN_EXECUTION = "valid"
          [] OTHER -> i.contractsChanged = LANE_CONTRACT_CHANGES}

\* What production needs beside what no lane can give its own receipt: a real proof, an
\* archive exercised, and the owner's review.
prerequisites(i) ==
    (statuses(i) \cap {"SP1_DIRECT_VERIFIER_PIN", "PROGRAM_VKEY_DESIGNATION",
                       "PER_CHAIN_EXECUTION_CHECK"})
        \cup {p \in {"RECORDS_VALID", "CANONICAL_RELEASE_REBUILD_TWO_HOSTS", "NO_STOP_TRIGGERED"} :
                CASE p = "RECORDS_VALID" -> recordFailures(i) = {}
                  [] p = "NO_STOP_TRIGGERED" -> stopConditions(i) = {}
                  [] OTHER -> i.tree.CANONICAL_REBUILD = "valid"}

BUILT == "BUILT_AND_TESTED_AWAITING_OWNER_REVIEW"

\* A STOP outranks invalid evidence, which outranks a lane that is built and tested.
verdict(stops, failures) ==
    IF stops # {} THEN "STOP" ELSE IF failures # {} THEN "EVIDENCE_INVALID" ELSE BUILT

deriveImplReceipt(i) ==
    [baseCommit |-> i.baseCommit, contractsChanged |-> i.contractsChanged,
     f1 |-> F1_CHAIN_ID_FIX(i), halt |-> TD2_HALT_INVARIANTS_PRESERVED(i),
     proving |-> IF i.proving.errors THEN "INVALID" ELSE i.proving.status,
     statuses |-> statuses(i), met |-> prerequisites(i),
     stops |-> stopConditions(i), failures |-> recordFailures(i),
     verdict |-> verdict(stopConditions(i), recordFailures(i)),
     evidence |-> [s \in Source |-> i.tree[s]], wrapper |-> i.tree.wrapper,
     availability |-> i.proving.bytes]

\* What is read of commit n, which the working tree is a clean checkout of.
readImplReceiptInputs(n, base, historical) ==
    [baseCommit |-> base, tree |-> Tree(n), ast |-> wrapperAstFacts(Tree(n)),
     journalTypesAtBase |-> wrapperAstFacts(Tree(base)).journalTypes,
     contractsChanged |-> contractsChangedSince(base, Tree(n)),
     proving |-> provingAvailabilityInputs(n, historical)]

carriesReceipt(n) == Tree(n).receipt # {}

\* The base is a commit of main from before the receipt, behind HEAD, and the latest of
\* main in the history of the commit that wrote the receipt.
baseCommitErrors(base, at, n) ==
    \/ carriesReceipt(base)
    \/ base \notin mainline
    \/ ~ inHistory(base, n)
    \/ \E c \in mainline : c > base /\ c # at /\ inHistory(c, at)

-----------------------------------------------------------------------------
(* The binding to the merge *)

\* The commit that last wrote the receipt, as git log finds it: at a merge it follows a
\* parent the file is the same as.
writer[n \in DOMAIN commits] ==
    LET parents == commits[n].parents
        unchanged == {i \in DOMAIN parents : Tree(parents[i]).receipt = Tree(n).receipt}
    IN IF unchanged = {} THEN n
       ELSE writer[parents[CHOOSE i \in unchanged : \A j \in unchanged : i <= j]]

\* Slip: the latest merge that carries the receipt.
LatestMerge ==
    LET carrying == {c \in mainline : carriesReceipt(c) /\ Len(commits[c].parents) = 2}
    IN IF carrying = {} THEN head["main"] ELSE CHOOSE c \in carrying : \A d \in carrying : d <= c

\* Where the receipt first entered main.
Entry ==
    LET carrying == {c \in mainline : carriesReceipt(c)}
    IN CHOOSE c \in carrying : \A d \in carrying : c <= d

\* Slip: that main did not move under the lane is left to the comparison with the base.
BaseMainline(merge) ==
    \A r \in Tree(merge).receipt :
        /\ r.baseCommit \in mainline
        /\ inHistory(r.baseCommit, writer[commits[merge].parents[2]])

\* The base is where the lane began, and main's contracts did not move between it and the
\* merge.
BaseHolds(merge) ==
    /\ BaseMainline(merge)
    /\ \A r \in Tree(merge).receipt :
          protectedAt(r.baseCommit, PROTECTED_SUBJECT_PATHS)
            = protectedAt(commits[merge].parents[1], PROTECTED_SUBJECT_PATHS)

\* The binding git derives, in a set; none when there is none to derive.
deriveReceiptIntegration ==
    IF \A c \in mainline : ~ carriesReceipt(c) THEN {}
    ELSE LET merge == Entry IN
         IF /\ Len(commits[merge].parents) = 2
            /\ Tree(merge) = Tree(commits[merge].parents[2])
            /\ BaseHolds(merge)
         THEN {[merge |-> merge, reviewed |-> commits[merge].parents[2],
                base |-> (CHOOSE r \in Tree(merge).receipt : TRUE).baseCommit,
                writtenAt |-> writer[commits[merge].parents[2]]]}
         ELSE {}

\* The committed binding is what is derived, and there is one.
receiptIntegrationErrors(n) ==
    Tree(n).binding = {} \/ Tree(n).binding # deriveReceiptIntegration

descendantDriftErrors(n, merge) ==
    LET paths == PROTECTED_SUBJECT_PATHS \cup {"receipt"} IN
    ~ inHistory(merge, n) \/ protectedAt(n, paths) # protectedAt(merge, paths)

-----------------------------------------------------------------------------
(* Supersession *)

\* Slip: a supersession stands whatever became of the record that justified it.
PinnedOnly(s, n) ==
    \/ {s.receipt} # Tree(n).receipt
    \/ s.historicalSubject \notin mainline
    \/ ~ inHistory(s.historicalSubject, n)
    \/ Tree(s.historicalSubject).receipt # Tree(n).receipt
    \/ Tree(s.historicalSubject).availability \notin LIVE_AVAILABILITY_STATUSES

\* It pins the receipt's bytes and a commit of main where they were live, and is justified
\* by a live record that validates and has moved on, for the archive that it names.
implSupersessionErrors(s, n) ==
    LET live == liveAvailability(Tree(n)) IN
    \/ PinnedOnly(s, n)
    \/ live.errors
    \/ live.status \in LIVE_AVAILABILITY_STATUSES
    \/ s.supersededBy # live.acceptedRecord

\* The historical subject, none while the receipt is live; "invalid" binds nothing.
boundSupersession(n) == {s.historicalSubject : s \in Tree(n).supersession}
invalidSupersession(n) == \E s \in Tree(n).supersession : implSupersessionErrors(s, n)

-----------------------------------------------------------------------------

compareReceipt(n, derived) == Tree(n).receipt # {derived}

\* Why the receipt that commit n holds is not what its tree derives.
implReceiptErrors(n) ==
    \/ receiptIntegrationErrors(n)
    \/ \E r \in deriveReceiptIntegration :
          \/ descendantDriftErrors(n, r.merge)
          \/ invalidSupersession(n)
          \/ baseCommitErrors(r.base, r.writtenAt, n)
          \/ compareReceipt(n, deriveImplReceipt(readImplReceiptInputs(n, r.base, boundSupersession(n))))

-----------------------------------------------------------------------------
(* Steps *)

\* The lane derives its receipt at the base it states and commits it.
generate(base) ==
    LET n == head["pr"] IN
    /\ ~ baseCommitErrors(base, n, n)
    /\ commit("pr", [Tree(n) EXCEPT !.receipt =
                        {deriveImplReceipt(readImplReceiptInputs(n, base, {}))}])

\* The binding is written, over an older one if there is any.
integrate(b) ==
    /\ deriveReceiptIntegration # {}
    /\ commit(b, [Tree(head[b]) EXCEPT !.binding = deriveReceiptIntegration])

\* A supersession is written once.
supersede(b) ==
    LET n == head[b] IN
    /\ Tree(n).supersession = {}
    /\ \E r \in Tree(n).receipt :
          LET s == [receipt |-> r, historicalSubject |-> mergeBase(n, head["main"]),
                    supersededBy |-> Tree(n).archive]
          IN /\ ~ implSupersessionErrors(s, n)
             /\ commit(b, [Tree(n) EXCEPT !.supersession = {s}])

change(b, patch) ==
    /\ Patched(Tree(head[b]), patch) # Tree(head[b])
    /\ commit(b, Patched(Tree(head[b]), patch))

\* A file of the receipt is removed, or put back as an earlier commit had it.
withdraw(b, file) ==
    /\ Tree(head[b])[file] # {}
    /\ commit(b, [Tree(head[b]) EXCEPT ![file] = {}])

restore(b, file, n) ==
    /\ n \in ancestors[head[b]] /\ Tree(n)[file] # Tree(head[b])[file]
    /\ commit(b, [Tree(head[b]) EXCEPT ![file] = Tree(n)[file]])

merge(into, from, squashed) ==
    LET base == Tree(mergeBase(head[into], head[from]))
        ours == Tree(head[into])
        theirs == Tree(head[from]) IN
    /\ \A f \in File : ~ Conflict(base[f], ours[f], theirs[f])
    /\ mergeCommit(into, from, squashed, [f \in File |-> ThreeWay(base[f], ours[f], theirs[f])])

-----------------------------------------------------------------------------

Pinned == [First EXCEPT !.wrapper = "pinned"]

\* Main with the lane's work, its receipt, the merge and the binding; the first commits of
\* it are where a lane begins.
Integrated ==
    LET work == Linear(<<First, Pinned>>)
        receipt ==
            [baseCommit |-> 1, contractsChanged |-> {"wrapper"},
             f1 |-> "FULL_WIDTH_WRAPPER_ONLY", halt |-> "PRESERVED",
             proving |-> "OWNER_DOWNLOAD_REQUIRED", stops |-> {}, failures |-> {},
             statuses |-> {"SP1_DIRECT_VERIFIER_PIN", "PROGRAM_IDENTITY_DECISION",
                           "PROGRAM_VKEY_DESIGNATION", "CANONICAL_BUILD_STATUS",
                           "SUCCESSOR_DESIGNATION_STATUS", "REGISTRY_APPEND_ONLY_STATUS",
                           "REGISTRY_BUILD_PROVENANCE_STATUS",
                           "CROSS_CHAIN_HALTED_IDENTITY_STATUS", "PER_CHAIN_EXECUTION_CHECK",
                           "MULTISIG_AUTHORIZATION_CLASS_PRESERVED"},
             met |-> {"SP1_DIRECT_VERIFIER_PIN", "PROGRAM_VKEY_DESIGNATION",
                      "PER_CHAIN_EXECUTION_CHECK", "RECORDS_VALID",
                      "CANONICAL_RELEASE_REBUILD_TWO_HOSTS", "NO_STOP_TRIGGERED"},
             verdict |-> BUILT, evidence |-> [s \in Source |-> "valid"],
             wrapper |-> "pinned", availability |-> "OWNER_DOWNLOAD_REQUIRED"]
        written == [Pinned EXCEPT !.receipt = {receipt}]
        binding == [merge |-> 4, reviewed |-> 3, base |-> 1, writtenAt |-> 3]
    IN work \o
       <<[parents |-> <<2>>, tree |-> written],
         [parents |-> <<1, 3>>, tree |-> written],
         [parents |-> <<4>>, tree |-> [written EXCEPT !.binding = {binding}]]>>

\* A lane whose change main has taken meanwhile, and that has taken main since.
Overtaken ==
    SubSeq(Integrated, 1, 3) \o
    <<[parents |-> <<1>>, tree |-> Pinned],
      [parents |-> <<3, 4>>, tree |-> Integrated[3].tree]>>

\* A lane that did its work, one that wrote its receipt, and one that is merged and bound;
\* or one that was overtaken.
Init ==
    /\ made = 0
    /\ \/ \E last \in {2, 3, 5} :
             /\ commits = SubSeq(Integrated, 1, last)
             /\ head = [b \in Branch |-> IF b = "main" /\ last < 5 THEN 1 ELSE last]
       \/ /\ commits = Overtaken
          /\ head = [b \in Branch |-> IF b = "main" THEN 4 ELSE 5]

Next ==
    \/ \E base \in DOMAIN commits : generate(base)
    \/ \E b \in Branch : integrate(b) \/ supersede(b)
    \/ \E patch \in Patch : change("main", patch)
    \/ \E patch \in LanePatch : change("pr", patch)
    \/ \E file \in Bound : withdraw("main", file)
    \/ \E file \in Bound, n \in DOMAIN commits : restore("main", file, n)
    \/ merge("main", "pr", FALSE) \/ merge("main", "pr", TRUE) \/ merge("pr", "main", FALSE)
    \/ newBranch

Spec == Init /\ [][Next]_vars

-----------------------------------------------------------------------------
(* Properties *)

\* A receipt that is taken says of the lane what the lane did: the contracts are those of
\* the head that was merged, the changes it states are what that merge brought to main, with
\* nothing of main's among or under them, and when it says built and tested no rule is open
\* and no record invalid in the very tree it is taken in
\* (sp1-impl-receipt-integration.ts:152-158).
TakenIsReviewed ==
    \A b \in Branch :
        LET n == head[b] IN
        ~ implReceiptErrors(n) =>
            \A k \in Tree(n).binding, r \in Tree(n).receipt :
                LET before == commits[k.merge].parents[1] IN
                /\ protectedAt(n, PROTECTED_SUBJECT_PATHS)
                     = protectedAt(k.reviewed, PROTECTED_SUBJECT_PATHS)
                /\ r \in Tree(k.reviewed).receipt
                /\ r.contractsChanged = contractsChangedSince(before, Tree(k.merge))
                /\ r.verdict = BUILT =>
                      /\ \A rule \in Rule : Tree(n)[rule] = "sound"
                      /\ \A s \in Source : Tree(n)[s] = "valid"
                      /\ Tree(n).wrapper = "pinned"

\* Where a receipt is taken that states another proving availability than the tree has, the
\* availability really moved, to that of an archive that is there, and the receipt was on
\* main with the one it states (sp1-impl-receipt.ts:1365-1378).
SupersededMoved ==
    \A b \in Branch :
        LET n == head[b] IN
        ~ implReceiptErrors(n) =>
            \A r \in Tree(n).receipt :
                \/ /\ r.availability = Tree(n).availability
                   /\ r.proving = IF liveAvailability(Tree(n)).errors THEN "INVALID"
                                  ELSE liveAvailability(Tree(n)).status
                \/ /\ Tree(n).archive # None
                   /\ Tree(n).availability = "ARCHIVED_VERIFIED_UNEXERCISED"
                   /\ \E c \in mainline \cap ancestors[n] :
                         r \in Tree(c).receipt /\ r.availability = Tree(c).availability

\* A receipt once taken on main is not refused for what main does beside it: a commit that
\* changes nothing the receipt reads leaves it taken, however it came
\* (sp1-impl-receipt.ts:1580-1582, the false STOP).
StaysTaken ==
    [][ (/\ ~ implReceiptErrors(head["main"])
         /\ head["main"]' # head["main"]
         /\ \A f \in File \ {"other"} : commits'[head["main"]'].tree[f] = Tree(head["main"])[f])
        => ~ implReceiptErrors(head["main"])' ]_vars
=============================================================================
