# WalletWall Vault: formal model

TLA+ model, TLC runs and TLAPS proofs for the contracts of this repository, for
the campaigns that test its kernel, and for the tooling around a proof.
`PROJECT.json` maps every definition to the source lines it translates.

## 1. Inventory

| Part | State it keeps | Operations | Why it is hard |
| --- | --- | --- | --- |
| `WalletWallVault.sol`, accounts | per owner: credentials (ECDSA signer, PQ key, mode), nonce, balance, policy-control epoch | `createVault`, `deposit`, `depositFor`, `rotateCredentials` | signatures can be submitted late, twice, by anybody; rotation must take back what old keys queued |
| – withdrawals | the one pending withdrawal of an owner, with its own `readyAt` and engine | `withdraw`, `queueWithdrawal`, `finalizeWithdrawal`, `cancelPendingWithdrawal` | two external calls give control away; parameters change while a withdrawal waits |
| – recovery | guardian list, one request, support flags and count | `setGuardians`, `initiateRecovery`, `supportRecovery`, `executeRecovery`, `cancelRecovery` | flags of one request must not leak into another; the guardian list changes under a counted majority |
| – treasury approval | quorum, approval flags and count per operation | `setTreasuryQuorumThreshold`, `approveTreasuryWithdrawal` | flags and counts are cleared through the current guardian list, with an early return |
| – governance | large-withdrawal parameters, policy engine, pause, each pending value | propose / apply / cancel, `pause`, `unpause` | delay, grace window, replaced and repeated proposals |
| – PQ verifier and ownership (`VerifierRotationGuard.sol`) | verifier, its identity, pending verifier, halted identities, owner, pending owner | propose / apply / cancel, `recordHaltedIdentity`, `transferOwnership`, `acceptOwnership` | a verifier can be halted, or the owner can change, between two steps of a rotation |
| `DailySpendLimitPolicy.sol` | ring of 32 entries, limit, admitters, pending weakening | `check`, limit and admitter changes on two authority paths | rolling window kept incrementally; weakening is delayed, strengthening is not |
| `PolicyControlBridge.sol` | control nonces, one-way pause | signed intents | intents bound to an epoch that recovery advances |
| `CompositePolicyEngine.sol` | module list, pending removals | add, propose / apply / cancel removal, `check` | swap-and-pop and delayed removal |
| `WalletWallMultiSigVault.sol` | signers, PQ keys, thresholds, nonce | `withdraw`, verifier rotation | distinctness of signers and keys |
| `StablecoinVaultSimulator.sol` | as `WalletWallVault`, over an ERC-20 | as `WalletWallVault` | as `WalletWallVault` |
| `VaultKernelPrototype.sol` | credentials and their floor, guardian roster, containment, recovery, migration | `execute`, three credential calls, `setGuardians`, recovery with two kinds of cancellation, `enterContainment`, `bindMigration`, `retire`, `egress` | containment budget over a rolling window, recovery with bounded challenges that ends by the clock, a policy plane that calls back without a mutex |
| generation-2 kernel (`VaultKernelGen2Prototype.sol`) | as the kernel, and one admitted ERC-20 token | `execute` and `egress` settle by the decrease of the vault's balance | the token fails, lies, short-pays and calls back |
| PQ verifiers, stateless policies | nothing, or an owner-edited set | `verify`, `check` | – |
| stateful campaigns (`prototype/vnext-kernel/stateful/`, `generation-2/stateful/`) | what the harness believes is installed, the recoveries it began, every call it sent | some twenty action kinds, replays, judgement of each step | beliefs drift from the chain; a replay settles later what was refused; an episode ends by the clock |
| egress observer and its tool (`sp1-egress-observer.ts`, `measure-sp1-attributed-proof-exercise.ts`) | a tracing session, two pipes, phase of each process | `START` to `DONE`, markers, heartbeats, `FAIL`, shutdown | losses, late answers, either process dying at any moment |
| egress attribution (`sp1-egress-attribution.ts`) | attempts, sockets, packets and unjoined events of one trace | joins by port, length, namespace and order | two senders that look alike; calls still open at the end; a boundary that changes |
| circuit root (`sp1-circuit-install.ts`, `sp1-prove-gate.ts`) | a directory tree and its permissions | install by staging and rename; lock, identity, host run, re-verification | installers, gates and the owner in one directory; kills between any two steps |
| host advisories (`sp1-host-advisories.ts`) | record, claims, observation; lockfiles; RustSec | measure, derive, validate offline, compare in a networked job | the world moves while it is measured |
| trust target (`sp1-td1-decision.ts`) | what was read of each chain, options and their levers | read state and verdicts, derive, consume | chains differ; providers lie; gateways change afterwards |
| append-only history (`append-only-history.ts` and its users) | none: git's history is the input | a walk over every edge | merges that take a side, several roots, shrinking files that grow back |
| wrapper registry (`sp1-registry.ts`, `sp1-registration.ts`, `sp1-published-records.ts`), binding gate (`verifier-binding.ts`) and deployment (`zk-verifier-deployment.ts`) | a fact log on `main`, one checkout per operator | register, record a halt, deploy, gate a consumer | scripts race pull requests, halts and reorganisations |
| designations and canonical build (`sp1-designation.ts`, `sp1-canonical-build.ts`, `sp1-canonical/`) | designation chain on `main`, artefacts of a workflow run | designate, two builds, recompute, verdict, gate | a runner that is out of order; branches that are not rebased |
| proof exercises (`sp1-proof-exercise.ts`) | runs, verifications and records, each committed before the next is made | run, verify, derive, judge a directory of records at any commit | what a run is bound to moves between run, verification and record, and on another branch |
| implementation receipt (`sp1-impl-receipt.ts` and its integration and supersession) | the receipt, the binding of the merge that took it, a supersession | derive on a lane, take into `main`, supersede, judge at any descendant | `main` moves beside the lane; true and squashed merges; what is bound and what may change |
| circuit archive (`sp1-circuit-archive.ts`, `sp1-circuit-install.ts`) | the state of the parser, what each pass has read | measure, parse, extract | every pass reads the file anew; the rules for entries refuse by their order and by what is still open |
| archive acquisition (`sp1-circuit-acquisition.ts`, `sp1-circuit-tooling.ts`, `sp1-proving-availability.ts`) | upstream archive, mirrors, observations, record, status of proving | acquire on two hosts, copy, read back, derive the record, derive the status | upstream and the registry's tag move; downloads end early; copies come and go |
| other records, verifier and attestor CLIs, ZK programs | files | functions from files to a record or an exit code | – |

The vault calls a policy engine (`check` before a withdrawal takes effect,
`revalidate` at finalization), a PQ verifier (a view call) and the recipient of
a payment. The composite engine calls its modules, of which the daily limit is
one; the bridge calls the daily limit policy and reads the vault's
`policyControlEpoch`.

Around a proof the parts meet through files. The observer's trace is what the
attribution reads; the gate proves with the circuit root the installer filled; the
canonical build says which guest a designation names, the registry which wrappers
carry that designation and which of them are halted, and the binding gate reads the
registry before a consumer's owner proposes a wrapper through the rotation of
`VerifierRotation`. The append-only walk protects the registry and the proof
exercises; the trust target decides which upstream verifier a wrapper may rest on. The
archive the installers extract is acquired, mirrored and recorded first; an exercise is a
run of the gate under the observer; the receipt binds the records of all of these, and
the status of proving says which archive can be had and what was exercised with it.

What makes each part correct:

- **Accounts, withdrawals, recovery, approval.** No ETH is created, lost or paid
  twice, in the middle of an open external call included. Replacing credentials
  takes everything back that the old ones authorised. A recovery needs a majority
  of the guardians of the moment it is executed and cannot be pushed aside once it
  has one. A queued withdrawal is paid on the terms it was queued under. The owner
  can always get a queued amount back.
- **Governance and verifier rotation.** Each parameter changes only on notice, once
  per notice and not too late. Who can halt the verifier never owns the contract; a
  halted identity stays refused; a lying verifier cannot keep its successor out.
- **Daily limit.** What is admitted in any trailing window stays within the limit;
  the ring and its running total are an exact picture of that window.
- **Policy control.** Protection shrinks only on notice, and what was proposed under
  credentials that are gone is not concluded by their successors.
- **Composite engine.** No module leaves without notice; a vault's bucket in a
  ledger holds that vault's payments only.
- **Kernel.** Containment never exceeds its budget in any window. A live recovery
  stands until it is executed, challenged, cancelled as such or expired, and the
  credential challenges a bounded number of times. No credential is installed that
  nobody has. A contained vault moves only by recovery, and a bound one not at all.
- **Multi-signature vault.** Payment takes m different signers and p different keys,
  once per request, and no vault is created that its signers cannot use.
- **Generation-2 kernel.** Whatever the token does, a spend takes exactly its amount
  and nothing it calls back achieves what no order of the calls would; from a binding
  on, anybody can take every holding to the destination.
- **Campaigns.** A step is never charged to roots its actors lack, nor a defect
  missed because the harness's record of a recovery differs from the chain's; what is
  reported on the real kernel has known causes.
- **Observer and attribution.** The tool never acts before its marker is in the
  trace; an observation is written of clean sessions only; evidence that reads as
  complete is of a window in which nothing got past the boundary; a refused packet is
  attributed to its sender or to nobody.
- **Circuit root and archive.** A published proof was made from the record's bytes only.
  An archive is taken exactly when it is one that may be taken, and what is accepted or
  installed is what was measured.
- **Exercises and receipt.** What is accepted took place, as the accepting commit would
  have it, and what two branches accept their merge accepts. A receipt that is taken
  says of the lane what the lane did, and stays taken whatever `main` does beside it.
- **Acquisition.** An archive that counts was had by two hosts and is held in two
  objects; the status of proving and the state of the tooling speak of one archive.
- **Advisories and trust target.** A valid record rests on today's files; a job that
  reports nothing leaves nothing to reassess; a viable option accepts valid proofs and
  nothing else; its listed levers are all that can change it.
- **Published records.** Nothing published is lost; a registered fact is final on its
  chain; a halt can be published, stops every script that starts after it, and reaches
  every consumer of the identity on its chain.
- **Canonical build.** The latest designation is of the sources at `HEAD` and of what
  they build.

## 2. Modules

| Module | Models | Rests on |
| --- | --- | --- |
| `Timelock` | abstract: a value under a delay and a grace period | – |
| `WeakeningLock` | abstract: protection that grows at once and shrinks on notice | – |
| `RollingLimit` | abstract: a limit over a full list of spends | – |
| `VaultGovernance` | operator parameters, policy engine, pause, block time | instantiates `Timelock` twice |
| `WalletWallVault` | every tenant call of `WalletWallVault.sol`, composed with the operator | extends `VaultGovernance` |
| `VerifierRotation` | PQ verifier rotation, `VerifierRotationGuard`, halts, ownership | instantiates `Timelock` |
| `DailySpendLedger` | the ring of `DailySpendLimitPolicy.sol` and its `check` | instantiates `RollingLimit` |
| `PolicyControl` | limit, admitters, controller, pending weakening; `PolicyControlBridge.sol` | instantiates `WeakeningLock` |
| `CompositePolicyEngine` | module list, delayed removal, `check` with bookings | – |
| `MultiSigVault` | `WalletWallMultiSigVault.sol` without its verifier rotation | – |
| `KernelContainment` | safe state and containment of `VaultKernelPrototype.sol` | – |
| `ContainmentBudget` | containment by itself, with a full record of contained time | extends `KernelContainment` |
| `VaultKernel` | every state-changing call of the kernel | extends `KernelContainment` |
| `StatefulModel` | the campaigns' oracle (`stateful/model.ts`): roots, cuts, recovery episodes | – |
| `StatefulCampaign` | the harness of both generations next to a kernel and its calls | extends `KernelContainment`, `StatefulModel` |
| `StatefulAssets` | generation 2's ERC-20 world: token modes, hooks, settlement, the per-step judgement | instantiates `StatefulModel` |
| `ObserverRun` | observer, tool, pipes, tracefs session | – |
| `EgressAttribution` | derivation of attributed evidence next to the kernel it reads | – |
| `GitHistory` | external: commits, two branches, true and squashed merges | – |
| `ProofExercise` | runs, verifications, records, and their judgement at a commit | extends `GitHistory` |
| `ImplReceipt` | lane, receipt, binding, supersession, and their judgement | extends `GitHistory` |
| `ArchiveInspection` | measure, parse and extract an archive that may change meanwhile | – |
| `ArchiveAcquisition` | upstream, hosts, mirrors, record, status of proving | – |
| `CircuitRoot` | installers, prove gates and their hosts, the owner | – |
| `HostAdvisories` | measurement, record, offline verdict, drift job, and the world | – |
| `TrustTarget` | reads, verdicts, options, levers, and a consumer afterwards | – |
| `AppendOnlyHistory` | the walk over git's edges for two kinds of record | – |
| `WrapperRegistry` | fact log, scripts, binding gate, consumers, chains that reorganise | – |
| `CanonicalBuild` | designations, builds, recompute, verdict, gate | – |
| `PolicyControlConstants` | parameters of `PolicyControl` with their assumption | – |
| `MCVault` | initial states of the vault for TLC | `WalletWallVault` |
| `MCLive`, `MCContractParts`, `MCCampaigns`, `MCProving`, `MCEvidence` | sums: several components with no common state, one of them moving in a behaviour (`part`); the idle ones are pinned to one initial state, so a run costs the sum of its parts and not their product | instantiate the components |
| `*Proofs` | theorems and proofs | the module they are about |

A sum states each property of a part for the behaviours in which that part moves.
Where two of them answer one question it states them together: `RunIsObserved`,
`EgressIsAttributed`, `QuietMeansNothingNew`, `HaltTakesEffect`, `CampaignIsHonest`,
`ReceiptIsTrue`, `ArchiveIsAsJudged` and `AvailabilityIsTrue` are conjunctions.

Definitions carry the names of the functions, structs and variables they model.
A definition marked *Slip* is a plausible mistake in the definition that follows it;
`PROJECT.json` pairs each property with a slip under which TLC finds it violated.

### Conventions

- A call that reverts leaves no trace, so a revert is the absence of a step. A
  conjunct without a prime is a `revert` line of the code.
- Every function an outsider may call is an action whose caller and arguments are
  chosen freely from small sets: relayers, duplicates, late and reordered
  submissions need no actions of their own.
- A signature is the key that made it. Every message a key could sign is available
  to everybody at any time, so only nonce, deadline, epoch and key in the code keep
  it from acting. (`MultiSigVault` is the exception: it tracks who signed what,
  because its property is about that.) EIP-712 hashes are injective, so an
  operation id is the request it stands for.
- Block time is a counter that stands still inside a call. Constants such as
  `RECOVERY_DELAY` (7 days) are one or two units in the runs and any natural number
  in the proofs.
- History variables record what the code does not: `credited`, `paidOut` and
  `queuedUnder` (vault), `seenHalted` and `installed` (rotation), `proposal` (policy
  control), `announced` and `admitted` (composite), `spent` (multisig), `starts` and
  `containedAt` (containment), `challenges` and `paid` (kernel), `unserial` (assets),
  `crossed` and a packet's sender (attribution). No guard reads them.

### Open calls (`frame`)

`withdraw` and `queueWithdrawal` call the policy engine before their effects;
`withdraw` and `finalizeWithdrawal` call the recipient after theirs. Between the two
halves the callee may call back, and every function without `nonReentrant` is
enabled: deposits, guardian and recovery calls, approvals, operator calls.
`checkReturns` and `transferReturns` are the second halves. PQ verification and
`revalidate` are view calls and part of the step that makes them.

`largeTxDelay` is read after the engine has run, as in the code, while the engine
that is recorded is the one that was called.

### Verifiers and engines

A policy engine may change its answer, or disappear, between any two steps. In
`VerifierRotation` a wrapper (`ZKMLDSAVerifier`) has an immutable principal and
identity and a halt without return, as its code has; any other verifier answers
the guard's probes as it likes, differently each time. Properties about principals
and halts are stated for wrappers, which alone have them.

### Kernel

Whoever holds the current keys signs anything, so a call needs the keys, the nonce
of its domain and the state, and messages signed earlier are covered. Only a
quorum's cancellation is kept as a message (`cancellations`), with the request it
was meant for, because it does not name one in the code. Some keys are lost and some
commitments have no known preimage. `execute` opens a frame while the policy plane
runs and `admitReturns` pays; frames nest, every other action may come in between,
and time stands still. A denial reverts what happened since, to a state the model
has anyway. Containment is in a module of its own because its budget shows only over
several windows, far beyond the time the other calls need.

### Policy control

An intent is a record of deadline, nonce, epoch and key. `BridgeCall` is
`_verifyAndConsume` and the policy function of each entry point in one step,
because the policy's revert undoes the nonce. The owner's account may call the
policy directly at any time (`OwnerCall`). Credentials change through
`CredentialsChange`, the effect of `rotateCredentials` and `executeRecovery` on the
epoch, and may come back to an earlier key.

### Campaigns

Keys are labels: a call carries the labels it was signed with, and a key its signer
does not hold signs with a decoy. The harness of generation 1 updates its beliefs by
what it sent, that of generation 2 reads them back from the chain, and `Generations`
picks. The kernel next to it is a small one with the guards of the contract, so that a
wrong judgement and a wrong kernel can be told apart. `StatefulAssets` executes a call,
the call that its token makes out of it, and, for the judgement, the two one after the
other with a silent token. There the credential and the guardians stay what they were at
genesis, a fee is one unit, and the containment budget is two episodes;
`FACTORY_DEPLOY_TWIN`, tokens that return nothing and a token that returns `false` and
moves all the same are left out.

### Around a proof

- *Observer.* The tool acts and asks again; what it measures is left out. The nonce of
  a session names its tracefs instance, so what a dead observer leaves behind can be
  told from what the next one makes. Two observers at once, the 30 s wait for `READY`
  and what docker leaves behind are left out.
- *Attribution.* An event reaches the derivation as its probe fires; the derivation
  never reads who sent a packet, which is kept beside it. Assumed of the environment:
  calls return before the capture stops (`CallsReturn`; without it, see Findings), the
  boundary does not change inside the window without the derivation's being told, a
  socket is closed with nothing of it in flight, a lone `SYN` carries nothing, raw
  sockets are packet sockets.
- *Circuit root.* A tree or an archive is the record's bytes, other bytes of the same
  names and lengths, or more than them. Every process may be killed between any two
  steps. What the owner does with the permissions of a locked root is left out, as the
  code leaves it out (`sp1-prove-gate.ts:30`).
- *Advisories.* One vulnerability or informational advisory over two locked versions
  and one yanked crate, in one lockfile that ships and one that does not; one fact of
  each sort stands for the catalogue. World and repository change during a measurement
  too.
- *Trust target.* What can be wrong is wrong on one chain (`Home`), and one provider
  lies in one way at a time. What a chain's own governance does is left out.
- *History.* Commits of any parents and any content; a shallow clone and unparsable
  text are refused by the code before the walk and are left out.
- *Registry.* A wrapper is deployed, halted and final or not yet; a reorganisation takes
  back what is not final, and what the owner of a consumer sent is mined again. Pull
  requests are merged when they extend `main`. Local chains with their mocks, the build
  a wrapper was compiled from and a lying RPC endpoint are left out. A proposal that
  expires is in `VerifierRotation`.
- *Canonical build.* The first designation is taken to be right and the gate to be
  required. One machine is out of order: it builds and recomputes anything, but says
  which machine it is. Image, entry point and incomplete builds are abstracted.

## 3. Runs

A property that is proved for all constants is not run again unless it is among the
deepest of its component: the runs ask what the proofs do not answer, and the proofs
need no small instance.

| Run | Question | Bounds |
| --- | --- | --- |
| `vault_recovery` | recovery, guardians, approval, rotation in every order | one Hybrid vault, 3 guardians (the smallest set whose majority is neither one nor all; a quorum may be up to 3), two signers, 3 nonces, time 3 |
| `vault_governance` | parameters and engine changed around a queued withdrawal | one vault, two delays, engine or none, time 4: a proposal can lapse and be repeated |
| `live` | a mature, approved recovery is executed; a queued amount comes back; the observer ends; what an observation and a marker mean | vault: two guardians, an engine in force that may vanish and that calls back, as the recipient does, pause at any time, two amounts on either side of the threshold, time 2, 2 nonces. Observer: four of the phases (before, the host's start and end, after), one container, one timeout, two observers one after the other: the second meets what the first left |
| `contract_parts` | rotation; ring against rolling window; buckets and evictions; thresholds; recovery and pending weakenings; contained time | rotation: two accounts, two wrappers of one identity, one of another, one liar, a delay of one and no grace, time 1: a rotation and the proposal of the next. Ledger: 4 slots, window 3, entries split at 2, time 5: the ring wraps, fills and drains. Composite: list of 2, two ledgers and a plain module, a vault and another consumer, time 3. Multisig: two signers, two keys, lists of up to 2, one payment, balance 2. Control: two limits and none, two admitters, two keys, two credential changes, time 5, 5 nonces. Containment: episodes of 2, window of 7, time 20: almost three windows |
| `kernel` | recovery requests and everything that can happen to them; a plane that calls back | a good and a lost signer, a known and an unknown commitment, a verifier inside the root and a lying one outside; 2 requests, 3 calls of guardians, 2 of the owner, one spend with everything else in the middle of it, time 4 |
| `campaigns` | beliefs, records and judgements of both harnesses; the token world | six profiles of generation 1 and five of generation 2, each cut down to the calls whose interplay it is about; 3 calls and 2 replays: a refusal, what undoes its reason, and its replay; time 4 and 3: one delay passes, a request matures and expires |
| `proving` | what is read and decided around a proof, and who is bound to a wrapper | attribution: seven sets of sockets that can be confused, 2 attempts, 1 answer or change; advisories: 3 changes of world and repository; target: two chains; registry: twice two wrappers, two operators, two consumers and three facts: two of an identity on one chain, one of them deployed by hand (`TwinWrappers`), and an identity on two chains (`WrapperOnEachChain`) |
| `evidence` | what the evidence of a proof rests on | exercises: two runs on two machines, three commits on two branches, each flaw, two lanes of change; receipt: five kinds of change on `main` and four on the lane, three commits; archive: every archive one or two edits away from two sound ones, with the record of the same or another, two swaps; acquisition: two objects, one of them under two names, a place that is no mirror, two observations beside those there; history: 3 commits (two branches or roots and their merge), two facts, one record; circuit: one installer, two gates, two changes by the owner; rebuild: two sources of one lockfile, three machines with one out of order, two designations |
| `observer_loss`, `egress_open_calls`, `circuit_root_lock`, `assets_serial` | findings, see below | as `live`, `proving`, `evidence`, `campaigns` |

`MCVault` starts from `ArmedInit` or `EngineInit`: the state after the operator has
armed the large-withdrawal threshold (and installed an engine) and time is counted
from there, which `VaultGovernance` reaches in a few steps. `vault_governance`
starts from the constructor's state. `WrapperRegistry` starts from each of the
`Founded` sets of wrappers that are registered and final already. Guardians are
symmetric in `vault_recovery`, which checks no liveness. Deadlock is not checked: a
bound on time, nonces, commits or changes ends the behaviours, and a tool that has
exited, a merged history or an empty session has nothing left to do.

Bounds that are not in the code: `MaxTime`, `MaxNonce`, `MaxCredit`, `MaxEpoch`,
`MaxBooked`, `MaxList`, `MaxBalance`, `GenesisTime`, `MaxRequests`, `MaxOwnerActs`,
`MaxGuardianActs`, `MaxSpends`, `MaxCalls`, `MaxReplays`, `MaxSupply`,
`MaxContainers`, `MaxTimeouts`, `MaxObservers`, `MaxAttempts`, `MaxEvents`,
`MaxChanges`, `MaxCommits`, `MaxFacts`, `MaxDesignations`, `MaxRuns`, `MaxSwaps`,
`MaxSteps`, `MaxMade`. Each is a guard or a set in
the module that names it.

### Fairness

Of the contract `live` assumes that calls return (`checkReturns`, `transferReturns`: gas
is finite). What each promise needs of people is a hypothesis of the property:

- `RecoveryFairness` in `RecoveryCompletes`: anybody may call `executeRecovery`, so
  strong fairness says that somebody who keeps trying gets a block while it is
  enabled; `unpause` is weakly fair, because the promise is about an operator who
  does not keep the contract paused for good.
- `OwnerExitFairness` in `QueueNeverStuck`: the owner keeps trying to cancel; nothing
  is assumed of the operator or of engines.

Of the observer run it assumes that each of three threads of control goes on while it
can: the observer's event loop, the client that reads its answers, and the tool. An
event loop runs every callback that is ready, so weak fairness of each is what the
operating system gives. Nothing is assumed of losses, timeouts or deaths, and none of
them has to happen.

### Findings

Each is checked by a run that expects the violation.

- `observer_loss`: a loss does not stop the run (`sp1-egress-observer.ts:20`). The
  observer marks `FAIL`, tells the tool and waits for the tool's output to end; the tool
  sets `process.exitCode` only (`run-script.ts:4`), and the pipe it keeps open keeps it
  alive. What does hold: once the tool is done or gone the observer ends
  (`StopsWhenToolIsDone`), and no observation is written (`ObservationIsOfACleanRun`).
- `egress_open_calls`: the port of an attempt is known when its call returns. A call
  still open when the capture stops is therefore no candidate for any refused packet, its
  packet is joined to another attempt, and the evidence reads as complete
  (`sp1-egress-attribution.ts:1474`, against `:1489` and `:1700`). With `CallsReturn`,
  `CompleteMeansContained` and `JoinedToItsSender` hold.
- `circuit_root_lock`: two gates on one root. Each restores the mode it found, so the
  first to end makes the root writable while the other's host runs
  (`sp1-prove-gate.ts:221`, against `:21`). The re-verification after the run still
  catches what the window let in: `ProofIsOfTheRecord` holds.
- `assets_serial`: `execute` settles by the decrease of the vault's own balance, so a
  spend signed to the vault itself is satisfied by the decrease of a spend nested in it,
  although in either order the outer one alone reverts
  (`VaultKernelGen2Prototype.sol:1068`, against `generation-2/stateful/profiles.ts:141`).
  For spends that leave the vault the sentence holds (`SerialOutward`).

Smaller disagreements and remarks, met while modelling and not run:

- The comments on `applyWeakening` and `cancelWeakening` (`DailySpendLimitPolicy.sol:542`,
  `:552`) say the direct path reverts once the subject has *ever* enrolled a controller;
  the code reverts while one is active, and after `bridgeApplyUnenrollController` the path
  is open again, as the comment at `:516` says. `OwnerConcludesOwnOnly` is the promise
  that does hold.
- A token that short-pays and calls `egress` back makes the vault publish the nested
  decrease twice (`VaultKernelGen2Prototype.sol:1861-1896`,
  `generation-2/stateful/invariants.ts:316-318`); no profile draws the two together.
- `supportRecovery` names no request (`WalletWallVault.sol:523`): a support sent for one
  request and mined after another was initiated counts for the other.
- The binding gate is asked when a verifier is proposed. Between proposal and
  application a halt can be published that nobody asks about again.
- A killed gate leaves the circuit root locked; the second of two releases leaves it
  read-only; `renameSync` replaces an empty directory despite
  `sp1-circuit-install.ts:16`; a staging directory left behind makes every gate refuse
  with `UNEXPECTED_ENTRY` until somebody removes it.
- `stateCorroborated` (`sp1-td1-decision.ts:976`) is derived and never read;
  `deriveProgramIdentity` counts hosts for which no ELF is recorded (`:1433-1449`).
- `NEW_FINDING` of an advisory already claimed for one version is suppressed for the
  other (`sp1-host-advisories.ts:3083`); `MatchLeavesNothing` holds because the other
  reports of the job cover it.
- Canonical build: the subject of a bundle is not bound to what was built from it; a
  pull request with two successors merges the first unreproduced; a push to `main` whose
  rebuild failed can be followed by a green gate on an unrelated push; going back to an
  earlier subject leaves its validation stale.

### Why two kernel properties are no stronger

`ReportExact` is stated while authority has not ended: `bindMigration` is open to a
contained vault and ends the containment, but leaves `containedUntil` as it is, so
`containmentUsedInWindow` goes on counting the episode to its full length.

`AuthorityEnds` excepts payments that were open when the migration was bound:
`execute` asks for `NORMAL` before it calls the policy plane and not after
(`VaultKernelPrototype.sol:967`), and the plane may submit a `bindMigration` that
credential and quorum have signed.

## 4. Proofs

TLAPS proves, for every value of the constants that the named assumptions of the
modules allow:

| Module | Theorems |
| --- | --- |
| `ObserverAndVaultProofs` | `VaultTypeOK`, `NoAccountOutOfThinAir`, `LargeTxImplementsTimelock`, `PolicyEngineImplementsTimelock`, `MoneyConserved`, `FlagsCounted`, `QuorumAlwaysReachable`, `ReentrancyHarmless`, `NothingQueuedByOldCredentials`, `RecoveryNeverDisplaced`, `PayoutsHonourTerms`, `AuthorisationsPayOnce`, `CredentialsChangeCompletely`; observer: `ToolsRunIsObserved` |
| `ContractPartsProofs` | rotation: `RotationTypeOK`, `OwnerNeverHalts`, `HaltedStaysHalted`, `RefusalsAreEarned`, `NobodyVetoes`, `RotationImplementsTimelock`; composite engine: `VaultBucketsAreExact`, `EvictionsAreAnnounced`; multi-signature vault: `PaymentsReachThresholds`; spend ledger: `RingKeepsRollingLimit`; containment: `ContainmentStaysWithinBudget`, `ContainmentReportExact`, `BudgetNeverExceeded`; policy control in the sum: `RecoveriesDropWeakenings` |
| `PolicyControlProofs` | `ArmedNeverOrphaned`, `RecoveryDrops`, `OwnerConcludesOwn`, `RetiredFrozen`, `PolicyControlImplementsLock` |
| `VaultKernelProofs` | `ChallengesBounded`, `CredentialsExhibited`, `SpendsPayOnce`, `RequestsStand`, `ContainmentContains`, `BoundVaultMovesOn` |
| `CampaignProofs` | `CampaignFollowsKernel`, `CampaignStaysHonest`; token world: `AssetWorld`, `ExitStaysReachable`, `NoAlarmRaised`, `OutwardCallsSerial` |
| `EvidenceProofs` | `HistoryLosesNothing`, `GateKeepsItsPromise`, `DesignatedIsBuilt`, `AvailabilityRestsOnArchives`, `AcceptedExercisesTookPlace`, `MergedExercisesStayAccepted`, `TakenReceiptsAreTrue`, `TakenReceiptsStayTaken` |
| `WrapperRegistryProofs` | `PublishedFactsAreFinal`, `HaltsCanBePublished`, `HaltsAreHeeded`, `OneHaltReaches` |
| `ProvingProofs` | `RegistryIsFinal`, `HaltsTakeEffect`, `ViableStaysExact`, `LeversAreNamed`, `QuietIsHonest`, `EgressAccountsForPackets` |

The argument is the same everywhere: an inductive invariant `IInv` (`Typed` for the
vault's types), a lemma per action or per kind of step that it is preserved, and the
property from it. Action properties and refinements follow from `IInv` and one step.

- *Vault.* Type correctness is not inductive alone: the writes of `executeRecovery`,
  `finalizeWithdrawal` and `cancelPendingWithdrawal` to a vault do not ask whether it
  exists and rely on `NothingWithoutVault`; `Typed` is the conjunction of the two.
  (The balance of the continuation after a callback stays natural by the checked
  subtraction, which is a guard of the step.) `IInv` is `Typed`
  with `SupportsConsistent`, `QuorumReachable`, `ApprovalsConsistent`,
  `PendingUnderCurrentCredentials`, `OpenCallStillValid` and `Conservation`. They
  need each other: approvals are cleared through the guardian list, so that no flag
  stays behind holds only because flags always belong to present guardians, and what
  an interrupted `queueWithdrawal` writes is right only because the open call is
  still valid.
- *Observer and tool.* `ObserverInv` has five parts. The session as the observer has it
  (`SessionInv`): the trace holds the phases of the list before the next, in order, and
  a session without failures that closes has lost nothing. What the tool has done is
  marked, and what it wrote is of a `CleanEnd` (`ToolInv`). Of the requests the tool has
  queued at most one is of its script, and it is the one the tool waits for
  (`QueueInv`): containers are named without waiting. The request that is waited for is
  under way, or answered, or neither, and nothing else is in the pipes but the news of a
  failure (`Exchange`, in `PipeInv`), so an answer is never taken for another's. What
  makes this inductive is the client: a late answer is a failure, and a client that
  failed asks no more, so an `ACK` that comes after all finds nobody waiting.
  `STOPPED` is only sent of a `CleanEnd`. `PhasesAssumption`: phases differ from each
  other and from the other words; `PHASES` does, and so does any part of it.
- *Rotation.* `IInv` has `TypeOK`, `OwnerCannotHalt`, `OnlyInstalledAreRefused` and
  five facts about the past: a wrapper reports its own principal and identity
  (`HonestWrappers`); identities in office were measured and remembered
  (`TrulyMeasured`, `OfficeInstalled`); an identity seen halted is refused unless its
  halted wrapper is still in office (`Remembered`); a refused identity is not in
  office (`NotInOffice`).
- *Policy control.* `IInv` has `Typed`, `ArmedHasAdmitter`, `WaitingIsArmed` (a
  weakening to a new limit that is not zero can only wait while the subject is armed,
  because the one slot keeps limit and admitters from being taken away meanwhile),
  `ProposalKnown` (a proposal of the direct path carries epoch 0, one of the bridge
  the epoch of its day and a controller that is still enrolled) and `GraceKept`.

- *Containment.* The code compares the clock with one stored start. `BudgetInv` says what
  the stored words mean for all episodes ever: the last one began at `LastStart`, all
  but it no later than `previousContainmentStart`, and episodes are `Apart`: each
  begins after the one before has ended, and a whole window after the one before
  that. `ApartKeepsBudget` counts: of the episodes that meet a window there are at
  most two, or the first and the last are cut by its edges and are together no longer
  than one.

- *Kernel.* `IInv` has the types, `ChallengeBudget`, `CommitmentExhibited` and four
  facts they and the action properties need. A request in force names a verifier of
  the root (`ActiveNamesVerifier`). A cancellation that can still be submitted is for
  the request in front of the guardians, because initiating takes a nonce of the same
  domain (`CancellationsCurrent`). A bound vault is past recovery and is retired late
  enough (`BoundIsOver`). No two spends, open or paid, share a nonce, and all nonces
  are behind the counter (`NoncesApart`), which is what the code relies on instead of
  a mutex. The lemmas called `...Writers` say which calls write which state.

- *Contained time as the code reports it.* `containmentUsedInWindow` adds up three
  cut episodes of which the code keeps the starts. `ViewInv` says that they are the
  last three of all, and that the seconds that were really spent contained
  (`containedAt`) are those of the episodes; `PartSize` counts the seconds of one
  episode in the window, `ThreeDisjoint` adds them up.

- *Composite engine.* `EngineInv` is typing, `BucketsExact` (what a vault's bucket in a
  ledger has booked is what was admitted of that vault) and `NoticeDated` (a removal
  that is pending becomes possible its delay after it was announced), from which an
  eviction step can only be one on notice. `SwapAndPopRemovesOne` is what the
  swap-and-pop does to the list: it loses the one module.
- *Multi-signature vault.* What is proved of a payment is that as many *different*
  signers as the threshold signed it. The code compares neighbours only: a list is
  accepted when each signer is above the one before. `AscendingOrders` makes of this, by
  the least index where it fails, that all are apart (`AscendingNeverRepeats`);
  `MultiSigInv` says that the vault's own lists are such lists, with
  thresholds no longer than they are.
- *Spend ledger.* `LedgerInv`: the entries in use, from the head on, are in the order of
  their times, and the running total is what they add up to. So the loop that moves the head
  past expired entries drops all of them and nothing else (`DropsTheExpired`), and what
  `_liveAt` returns is the sum over the trailing window (`LiveIsInWindow`). `SpentList`, the
  list the ring stands for, is that sum split by time; a spend that goes into the newest
  entry changes it where a new entry would, since that entry is of the same time. Sums are
  the community modules' folds over the slots. `AddsExists` shows that such a fold exists
  for a finite set, by an induction over its subsets that is a lemma of the module
  (`SubsetInduction`, with a set of sets where the library's theorem has an operator);
  `SumAdd`, `SumDifference` and `SumByKey` calculate with it.
- *The sum of the contracts.* `RecoveriesDropWeakenings` carries the theorem of the
  policy control over to the sum, by an instance of the module that proves it; the
  containment is proved of the sum's own instance. Assumptions on the constants are
  those of the sum (`BudgetAssumption`, `ControlAssumption`).

- *Campaigns.* `CampaignStaysHonest` is about every profile, any spare keys, thresholds,
  delays and verifiers, and plans of any length (`StatefulAssumption`: a spare is a key
  of its own and no verifier is the missing key). Nothing of `CampaignIsHonest` is
  inductive alone, as the harness judges a step by the keys its sender is *believed* to
  own. `CampaignInv` therefore says what it rests on. What the harness believes is what
  the chain holds, as long as it follows (`Match` under `Following`: generation 1 stops
  following with its first replay, generation 2 reads the chain again). Each call that is
  kept for a replay was sent by an owner of what it takes, judged by the chain of its day
  or by none that can still accept it (`AllKept`: nonces only grow, and a generation is
  part of what is signed). The recorded episode is the live request (`Mirror`), which as
  many guardians approved as now execute it, unless a threshold was raised over it
  (`Approved`). A binding ends all other authority and was paid for (`Bound`). The stored
  starts of containment lie apart (`Episodes`), so that the harness's own budget check
  never fires. A proof goes call by call: `Lands` says what a call that the kernel accepts
  changes, `CredentialCharged` and `QuorumCharged` what it cost whoever sent it, and the
  judgement of the step is compared with the two.

- *History.* `HistoryInv`: where all edges behind a commit are clean, its tree holds
  what each tree behind it held. Holding is transitive for logs that extend each other
  and for records that stay, and a merge has both sides behind it.
- *Circuit root.* `GateSound` says for each gate what its progress means. Other gates,
  installers and the owner may change the root between any two of its steps, and the
  lock does not keep them out (see Findings). What keeps it sound is `same`, the code's
  comparison of the installation with the one it identified, repeated after the host.
- *Canonical build.* `RebuildInv`: builds are of the branch they were made of, a branch
  that nothing was done to is `main`, and a comparison that passed reproduced. Two
  machines that agree include one in order, by `OneOutOfOrder`: at most one machine is
  not. Without it two of them may agree on anything.

- *Acquisition.* `AcquisitionInv`: an observation in the tree was made, under the name of
  the machine its marker says (`ObservationsMade`), whatever name it was copied under since;
  a recorded mirror was read (`MirrorsMade`). The conditions of the record, that the two
  machines differ and the two locations name two objects, do the rest. `MirrorAssumption`:
  every object has a place, and "upstream" is not one of them.
- *What git walks.* Ancestors and first parents are recursive functions over commits, and
  `ancestors[n]` is more than the parents of `n` only if such a function exists.
  `WalkExists` makes one commit by commit, as every commit is after its parents
  (`Ordered`); `WalksAgree` says that what is added to a history does not change what is
  seen from the commits that are there. `EdgesCarry` is what an edge-by-edge walk is for:
  what no edge loses is not lost from any commit behind.
- *Exercises.* `ExerciseInv`: the history is `Ordered`, and every file in it, merged,
  renamed or not, is of a run that was made; a verification says of a run what the verifier
  said (`Filed`). That the tool, the archive and the host of the run's commit are those of
  the accepting one is looked at when a directory is judged, not when a record is derived.
  `MergedExercisesStayAccepted` shows that a merge of two accepted directories has every
  file of both (`MergedHasAll`): an accepted directory holds records and what they were
  derived from and nothing else, records of the base are on both sides since no edge
  loses them, and one slot has one record, so that both sides say the same of a slot they
  share. The attempt made the property sharper: beyond the bounds of the run, a side that
  dropped an observation it never recorded takes it from the other side's record in the
  merge, and the directory is refused; the property now excludes that case by name.
- *Receipt.* `TakenReceiptsAreTrue` needs types only: each file of each tree holds what it
  may hold (`Holding`). The rest is about the derivation: `TakenIsDerived` says what a
  receipt without errors is, `BuiltIsSound` that no verdict is `BUILT` over an open rule or an
  invalid record, the rebuild and the rulings of a STOP included. `PatchAssumption`: what
  `main` and the lane write is something a file may hold. The proof made one property
  sharper: a receipt may be taken whose availability record is invalid, if it says
  `INVALID` of it, as `EVIDENCE_INVALID` receipts do (`SupersededMoved`).
  `TakenReceiptsStayTaken` compares two histories, one a commit longer. The commits are
  `Ordered` (`ReceiptHistory`), so that everything seen from the old ones is as it was
  (`WalksKept`, `WriterKept`), and main's next commit adds itself to the mainline and no
  other: the first commit that carries a receipt, its binding and its writer stay, and the
  derivation is of inputs that agree in every field it reads (`DerivedAlike`).

- *Registry.* `IInv`: what is final stays in the latest state (`FinalInLatest`); each
  fact, published or in a checkout, is shown by its chain for good (`FactsShown`); the
  log keeps its rules (`registryValid`); a script that binds has a checkout that is
  the beginning of `main`, and knows of the halts published before it started
  (`BindsByPublished`, `NoneLetThroughLate`); and a consumer is let through to the first
  wrapper of its identity and chain in `main` and to no other (`AdmittedAreFirst`). The
  last is why one halt reaches all consumers: scripts that never see each other read
  logs that begin alike, and the first entry of one is the first entry of all.
- *Trust target.* `TargetInv` keeps, past the measurement, what it measured: a gateway
  without an owner keeps its routes (`OwnersRoute`), what was read is so where runtime
  and ownership do not let it change (`ReadingsHold`, `ExecutionsHold`), and a consumer
  that was deployed has what its option promised and the levers it was listed with
  (`Deployed`). `LeversAreNamed` splits the steps of the gateways' owners by option.
- *Advisories.* Only that claims are well formed needs induction. The rest is about the
  derivations: the offline verdict compares the record with a new derivation, and the
  record and the drift job judge a dependency alike (`JudgedAlike`), so that what the
  job has nothing to say of would be recorded as it is. `AdvisoryFound` says that a
  dependency that an advisory hits is among the findings of whoever looks at it.
- *Egress attribution.* `EgressAccountsForPackets` states `EgressIsAttributed` for every
  set of sockets, namespaces, ports, destinations and lengths (`EgressAssumption`: an
  address is known by name, the host has no packet sockets). Its hypothesis
  `CallsReturn` is needed: `egress_open_calls` is the counterexample without it.
  `EgressInv` relates the trace to the kernel it was read from: the derivation holds the
  calls open that the threads are in (`CallsMirrored`) and the connections that there are
  (`SessionsHeld`); unless somebody crafts packets, each one in the air or refused is of
  an attempt entered before, with the header of its socket (`PacketsKnown`); a datagram
  sent whole is refused once (`WholeOnce`); what got past was sent without an error
  (`SentReturnsWell`), and no namespace has both crossed and been refused in one window
  (`BoundaryHolds`). The rest is about the joins at the end. `JoinedStepwise` makes of
  the community modules' fold the refusals one by one, and `JoinedUpTo` is what holds
  after the first `k`. One datagram may well be charged with the packet of another that
  looks the same, so it counts: of datagrams that are alike (`Mates`: one socket,
  destination, length and side of the window, none refused in segments) no more are
  charged than were refused. Therefore, when a datagram was refused whole, one that is as
  it and was entered in time is still free (`FreeMate`) and is among the candidates, and
  whoever is named is of the same socket and side of the window (`NamedRightly`). A
  connection, and a datagram in segments, fits as "one of several" and is named alone or
  not at all. `CrossedUncharged` ends it: a datagram of the window that got past has no
  packet charged to it, and so counts as sent.
- *Token world.* `AssetWorld` is by the depth of the calls: what a transfer may be is
  `PlainTransfer` or one hooked call inside it, and a hooked call makes no further one.
  `World` has what its steps need of each other: holders sum to the supply (`Balanced`),
  a balance is misreported only by a token in the lying mode, and the vault has a
  binding time exactly when it is bound to leave. `Frame` names the fields a call leaves
  alone, so that the effects of the three egress calls compose. `ExitStaysReachable`
  follows: restored, the token pays exactly and calls nobody, and the three egress calls
  of a stranger succeed one after the other, whatever the token did before.
  `NoAlarmRaised` needs more (`CampaignSound`). Of the chain: an armed token is tame, it
  moves what it is asked for; its hook makes a call of the hook's kind that carries
  nothing its armer does not have (`HookMade`); and a hook that replays replays no later
  spend than the next one. Of the harness: the binding it noted is the chain's, and was
  charged with one credential and a quorum; what it sent and saw settle is spent
  (`Spent`), and of what was refused it kept the roots of the author, who could have
  signed what it carries (`Backed`). From there each call has one effect (`CallEffect`),
  which is at most its own and that of the one call inside it, and every alarm asks
  whether that effect was paid for. The assumption is `AssetsAssumption`: only profiles
  whose token moves what it is asked for arm a hook, as in `profiles.ts`. Without it the
  theorem is false (see Findings: a token that short-pays and calls `egress` back).
  `OutwardCallsSerial` compares a call that has another in it with the same two calls
  made in turn. The order that explains it is always the call first, the hook's call
  second. A hook that fires after the debit finds what the second call would find but
  for the log, which no call reads (`CalledAfter`, `LogBlind`). A hook that fires before
  finds a vault that has yet to pay. A spend must see exactly its amount leave, and an
  egress takes all that is held, so the hook's call left the vault what it held, and it
  does the same when it comes afterwards (`CalledBefore`, `CallsAgain`). A spend to the
  vault itself is not outward: the finding of the run `assets_serial`.
  What the actions of the harness may do is said once, for `AssetWorld` and for
  `CampaignSound`: what each sends (`Makes`) and what each lever changes (`Pulls`).
- *The sum around a proof.* The registries of the runs are instances of one module, and
  `WrapperRegistryProofs` is about any of them, from `RegistryAssumption`; `TwinsAlike`
  and `ChainsAlike` say that an instance of the proof module speaks of the same states
  and steps.

Model-checked only: the liveness properties (fairness is out of the prover's
reach), and `ArchiveIsAsJudged`, whose parser folds over an archive.

## 5. Not modelled

- The contents of signatures, proofs and calldata; gas; ETH sent without a call
  (never credited by the code).
- Stateless policies: the vault model lets any engine change its answer at any time.
- View functions (`revalidate` appears as the answer of an engine).
- `StablecoinVaultSimulator`: the machine of `WalletWallVault` over a token; planned.
- The factories of the kernels, which compute addresses and refuse configurations.
- The other evidence records (`sp1-observer-qualification.ts`, `sp1-circuit-fixtures.ts`,
  `sp1-pa3d-record.ts`, `sp1-p1-stop-receipt.ts`, `reproducibility-evidence.ts` and their
  like): functions from committed files to a record and a verdict, run again and compared
  with what is committed. They keep no state and do one thing at a time; what they could
  get wrong is a field they forget to compare, which their own mutation tests enumerate.
- The admission matrix of generation 2: a table of tokens and what is expected of them.
- Verifier and attestor command lines, ZK guest and host: one input, one output.
- Which action a campaign draws, how it shrinks a failing plan, and its catalogue of
  seeded defects.

## 6. Plan

1. `StablecoinVault`: the vault's machine over a token pooled by all tenants: what
   the contract holds covers what it owes.
2. Liveness of the kernel's recovery: guardians who persist are not held up by
   challenges for ever (needs the time of a request relative to the clock).
