-------------------------- MODULE WrapperRegistry --------------------------
(***************************************************************************)
(* What the repository publishes about its ZKMLDSAVerifier wrappers, and   *)
(* the tooling that acts on it: the registry of wrappers and halts, a fact *)
(* log on main (scripts/lib/sp1-registry.ts), extended from what a chain   *)
(* has made final (sp1-registration.ts), read back by whoever deploys a    *)
(* wrapper (zk-verifier-deployment.ts) or binds a consumer to one          *)
(* (verifier-binding.ts), each from a checkout that has to be what main    *)
(* holds when the script starts (sp1-published-records.ts).                *)
(*                                                                         *)
(* Scripts on different chains run at once, and take their steps while     *)
(* pull requests are merged, wrappers are halted, and chains reorganise.   *)
(* Consumers are those of VerifierRotation, with one proposal at a time;   *)
(* their owner sends what the tooling lets through, and applies it later.  *)
(* Chains are external.                                                    *)
(***************************************************************************)
EXTENDS Naturals, Sequences, FiniteSets, SequencesExt

CONSTANTS
    Operator,           \* who runs scripts, each from a checkout
    Wrapper,            \* addresses
    Stray,              \* wrappers deployed without this tooling
    Consumer,
    Chain,
    ChainOf,            \* of a wrapper or consumer
    IdentityOf,         \* of a wrapper: verifier code hash and program key
    Designated,         \* identities some designation has
    NewConsumer,        \* consumers not deployed yet
    Founded,            \* sets of wrappers that are registered at the start
    MaxFacts            \* bound on the log

NotDeployed == "not deployed"
OffPath == "off the SP1 path"
Nothing == "nothing"

RegistryAssumption ==
    /\ \A founders \in Founded : founders \subseteq Wrapper /\ IsFiniteSet(founders)
    /\ {NotDeployed, OffPath, Nothing} \cap Wrapper = {}
    /\ MaxFacts \in Nat

VARIABLES
    latest, final,      \* Wrapper -> its state in the latest and the final block
    main,               \* the published log
    clone,              \* Operator -> the log in its checkout
    run,                \* Operator -> the script it is in
    verifier,           \* Consumer -> what it verifies through
    pending,            \* Consumer -> what its owner has proposed
    haltedIdentities    \* Consumer -> identities it recorded as halted

chains == <<latest, final>>
consumers == <<verifier, pending, haltedIdentities>>
vars == <<chains, main, clone, run, consumers>>

Idle == [at |-> "idle"]

Registered(w) == [kind |-> "registered", wrapper |-> w]
Halted(w) == [kind |-> "halted", wrapper |-> w]
Fact == {Registered(w) : w \in Wrapper} \cup {Halted(w) : w \in Wrapper}

-----------------------------------------------------------------------------
(* The registry's own rules *)

registered(log) == {w \in Wrapper : Registered(w) \in ToSet(log)}
recordedHalted(log) == {w \in Wrapper : Halted(w) \in ToSet(log)}
haltedIn(log) == {IdentityOf[w] : w \in recordedHalted(log)}

\* No wrapper is registered twice, none of an identity that was halted before it,
\* and a halt is of a registered wrapper, once.
registryValid(log) ==
    \A i \in DOMAIN log :
        LET before == SubSeq(log, 1, i - 1)
            w == log[i].wrapper
        IN IF log[i].kind = "registered"
           THEN w \notin registered(before) /\ IdentityOf[w] \notin haltedIn(before)
           ELSE w \in registered(before) \ recordedHalted(before)

\* Slip: a checkout that is behind will do, as long as it was published.
OncePublished(log) == IsPrefix(log, main)

\* publishedRecordsErrors and the validation after it, for who deploys and binds.
published(log) == log = main /\ registryValid(log)

\* The registration script may hold facts that are not merged yet.
mayExtendPublished(log) == IsPrefix(main, log) /\ registryValid(log)

-----------------------------------------------------------------------------
(* Facts, measured where the chain is final *)

\* Slip: a fact is measured in the latest block.
MeasuredAtLatest(w) == latest[w]

measured(w) == final[w]

\* Slip: a wrapper that was halted before it was registered is not registered.
RegistersActiveOnly(w, log) ==
    /\ measured(w) = "active"
    /\ IdentityOf[w] \in Designated
    /\ registryValid(Append(log, Registered(w)))

registrationFact(w, log) ==
    /\ measured(w) # Nothing
    /\ IdentityOf[w] \in Designated
    /\ registryValid(Append(log, Registered(w)))

haltFact(w, log) ==
    /\ w \in registered(log)
    /\ measured(w) = "halted"
    /\ registryValid(Append(log, Halted(w)))

-----------------------------------------------------------------------------
(* The binding gate *)

registeredOn(chain, log) == {w \in registered(log) : ChainOf[w] = chain}

\* The registry and the chain agree on what is halted.
agreesWithChain(chain, log) ==
    \A w \in registeredOn(chain, log) :
        latest[w] = IF w \in recordedHalted(log) THEN "halted" ELSE "active"

\* What the consumer itself refuses (VerifierRotationGuard).
admissibleOnChain(c, w) ==
    /\ latest[w] = "active"
    /\ IdentityOf[w] \notin haltedIdentities[c]
    /\ verifier[c] \in Wrapper =>
          ~ (latest[verifier[c]] = "halted" /\ IdentityOf[verifier[c]] = IdentityOf[w])

twins(w, log) ==
    {v \in registeredOn(ChainOf[w], log) \ {w} : IdentityOf[v] = IdentityOf[w]}

\* Slip: another active wrapper of the identity is no matter.
BindableBesideTwins(c, w, log) ==
    /\ agreesWithChain(ChainOf[c], log)
    /\ admissibleOnChain(c, w)
    /\ IdentityOf[w] \notin haltedIn(log)
    /\ w \in registered(log)
    /\ IdentityOf[w] \in Designated

\* bindingRefusals gives none.
bindable(c, w, log) ==
    /\ agreesWithChain(ChainOf[c], log)
    /\ admissibleOnChain(c, w)
    /\ IdentityOf[w] \notin haltedIn(log)
    /\ w \in registered(log)
    /\ \A v \in twins(w, log) : latest[v] # "active"
    /\ IdentityOf[w] \in Designated

-----------------------------------------------------------------------------

Init ==
    /\ \E founders \in Founded :
          /\ latest = [w \in Wrapper |-> IF w \in founders THEN "active" ELSE Nothing]
          /\ main = SetToSeq({Registered(w) : w \in founders})
    /\ final = latest
    /\ clone = [o \in Operator |-> main]
    /\ run = [o \in Operator |-> Idle]
    /\ verifier = [c \in Consumer |-> IF c \in NewConsumer THEN NotDeployed ELSE OffPath]
    /\ pending = [c \in Consumer |-> Nothing]
    /\ haltedIdentities = [c \in Consumer |-> {}]

Goes(o, to) == run' = [run EXCEPT ![o] = to]

(* The chains *)

deployStray(w) ==
    /\ w \in Stray /\ latest[w] = Nothing
    /\ latest' = [latest EXCEPT ![w] = "active"]
    /\ UNCHANGED <<final, main, clone, run, consumers>>

\* One way, by the wrapper's halt principal.
halt(w) ==
    /\ latest[w] = "active"
    /\ latest' = [latest EXCEPT ![w] = "halted"]
    /\ UNCHANGED <<final, main, clone, run, consumers>>

finalize(chain) ==
    /\ final' = [w \in Wrapper |-> IF ChainOf[w] = chain THEN latest[w] ELSE final[w]]
    /\ final' # final
    /\ UNCHANGED <<latest, main, clone, run, consumers>>

\* What was not final is gone; what consumers were sent is mined again.
reorganize(chain) ==
    /\ latest' = [w \in Wrapper |-> IF ChainOf[w] = chain THEN final[w] ELSE latest[w]]
    /\ latest' # latest
    /\ UNCHANGED <<final, main, clone, run, consumers>>

(* The repository *)

\* Main as it is, or as it was at an earlier time.
checkout(o) ==
    /\ run[o] = Idle
    /\ \E n \in 0..Len(main) : clone' = [clone EXCEPT ![o] = SubSeq(main, 1, n)]
    /\ clone' # clone
    /\ UNCHANGED <<chains, main, run, consumers>>

\* A pull request: its history has to extend main's, edge by edge.
merge(o) ==
    /\ run[o] = Idle
    /\ clone[o] # main
    /\ IsPrefix(main, clone[o]) /\ registryValid(clone[o])
    /\ main' = clone[o]
    /\ UNCHANGED <<chains, clone, run, consumers>>

(* register-sp1-wrapper.ts *)

startRegistration(o) ==
    /\ run[o] = Idle
    /\ mayExtendPublished(clone[o]) /\ Len(clone[o]) < MaxFacts
    /\ Goes(o, [at |-> "registering"])
    /\ UNCHANGED <<chains, main, clone, consumers>>

appendFact(o, fact) ==
    /\ run[o].at = "registering"
    /\ \/ fact.kind = "registered" /\ registrationFact(fact.wrapper, clone[o])
       \/ fact.kind = "halted" /\ haltFact(fact.wrapper, clone[o])
    /\ clone' = [clone EXCEPT ![o] = Append(@, fact)]
    /\ Goes(o, Idle)
    /\ UNCHANGED <<chains, main, consumers>>

(* deploy-zk-verifier.ts: the plan, and the deployment with its read-back *)

planWrapperDeployment(o, w) ==
    /\ run[o] = Idle /\ w \notin Stray
    /\ published(clone[o])
    /\ IdentityOf[w] \in Designated \ haltedIn(clone[o])
    /\ Goes(o, [at |-> "deploying", wrapper |-> w])
    /\ UNCHANGED <<chains, main, clone, consumers>>

deployPlannedWrapper(o) ==
    /\ run[o].at = "deploying"
    /\ LET w == run[o].wrapper IN
          latest' = IF latest[w] = Nothing THEN [latest EXCEPT ![w] = "active"] ELSE latest
    /\ Goes(o, Idle)
    /\ UNCHANGED <<final, main, clone, consumers>>

(* deploy.ts, deploy-multisig.ts and propose-verifier-update.ts *)

\* The records are fetched and compared; late, that main has them halted.
startBinding(o, c, w) ==
    /\ run[o] = Idle /\ ChainOf[w] = ChainOf[c]
    /\ published(clone[o])
    /\ Goes(o, [at |-> "binding", consumer |-> c, wrapper |-> w,
                late |-> IdentityOf[w] \in haltedIn(main)])
    /\ UNCHANGED <<chains, main, clone, consumers>>

\* The gate reads the chain at one block.
assertBindable(o) ==
    /\ run[o].at = "binding"
    /\ IF bindable(run[o].consumer, run[o].wrapper, clone[o])
       THEN Goes(o, [run[o] EXCEPT !.at = "sending"])
       ELSE Goes(o, Idle)
    /\ UNCHANGED <<chains, main, clone, consumers>>

\* Its transaction deploys the consumer or proposes the rotation, if the
\* consumer still admits the wrapper.
send(o) ==
    /\ run[o].at = "sending"
    /\ LET c == run[o].consumer
           w == run[o].wrapper
       IN IF ~ admissibleOnChain(c, w) THEN UNCHANGED consumers
          ELSE IF verifier[c] = NotDeployed
          THEN /\ verifier' = [verifier EXCEPT ![c] = w]
               /\ UNCHANGED <<pending, haltedIdentities>>
          ELSE /\ pending' = [pending EXCEPT ![c] = w]
               /\ UNCHANGED <<verifier, haltedIdentities>>
    /\ Goes(o, Idle)
    /\ UNCHANGED <<chains, main, clone>>

\* applyPQVerifierUpdate, by the owner, 172,800 seconds later at the earliest.
applyRotation(c) ==
    /\ pending[c] # Nothing
    /\ admissibleOnChain(c, pending[c])
    /\ haltedIdentities' =
          [haltedIdentities EXCEPT ![c] =
              IF verifier[c] \in Wrapper /\ latest[verifier[c]] = "halted"
              THEN @ \cup {IdentityOf[verifier[c]]} ELSE @]
    /\ verifier' = [verifier EXCEPT ![c] = pending[c]]
    /\ pending' = [pending EXCEPT ![c] = Nothing]
    /\ UNCHANGED <<chains, main, clone, run>>

Next ==
    \/ \E w \in Wrapper : deployStray(w) \/ halt(w)
    \/ \E chain \in Chain : finalize(chain) \/ reorganize(chain)
    \/ \E c \in Consumer : applyRotation(c)
    \/ \E o \in Operator :
          \/ checkout(o) \/ merge(o) \/ startRegistration(o)
          \/ deployPlannedWrapper(o) \/ assertBindable(o) \/ send(o)
          \/ \E fact \in Fact : appendFact(o, fact)
          \/ \E w \in Wrapper : planWrapperDeployment(o, w)
          \/ \E c \in Consumer, w \in Wrapper : startBinding(o, c, w)

Spec == Init /\ [][Next]_vars

-----------------------------------------------------------------------------

State == {Nothing, "active", "halted"}

TypeOK ==
    /\ latest \in [Wrapper -> State] /\ final \in [Wrapper -> State]
    /\ main \in Seq(Fact) /\ clone \in [Operator -> Seq(Fact)]
    /\ verifier \in [Consumer -> Wrapper \cup {NotDeployed, OffPath}]
    /\ pending \in [Consumer -> Wrapper \cup {Nothing}]

\* Wrappers a consumer was let through to and may still be verifying with.
admittedTo(c) ==
    ({verifier[c], pending[c]} \cap Wrapper) \cup
    {run[o].wrapper : o \in {p \in Operator : run[p].at = "sending" /\ run[p].consumer = c}}

\* On a chain, all consumers of an identity are on one wrapper of it, so that one
\* halt reaches them all: also when two scripts each found their own wrapper to
\* be the only one, from logs of different lengths (verifier-binding.ts:486-495).
OneHaltReachesAll ==
    \A c, d \in Consumer : \A v \in admittedTo(c), w \in admittedTo(d) :
        ChainOf[v] = ChainOf[w] /\ IdentityOf[v] = IdentityOf[w] => v = w

\* Each published fact is what its chain shows for good: a reorganisation takes
\* none of them back, so the gate is never shut by a registry that says more than
\* the chain does (sp1-registration.ts:10-13).
FactsAreFinal ==
    \A i \in DOMAIN main :
        LET w == main[i].wrapper IN
        IF main[i].kind = "halted" THEN final[w] = "halted" ELSE final[w] # Nothing

\* Whatever was registered and halted before, and in whatever order: the halt of
\* a designated wrapper can be published, unless its identity's is already
\* (sp1-registration.ts:100-102).
HaltCanBePublished ==
    \A w \in Wrapper :
        /\ final[w] = "halted"
        /\ IdentityOf[w] \in Designated \ haltedIn(main)
        => IF w \in registered(main) THEN haltFact(w, main)
           ELSE /\ registrationFact(w, main)
                /\ haltFact(w, Append(main, Registered(w)))

\* Once main has an identity's halt, a script that starts afterwards lets no
\* consumer, on any chain, through to a wrapper of it
\* (sp1-published-records.ts:5-12).
NoneLetThroughLate == \A o \in Operator : run[o].at = "sending" => ~ run[o].late
=============================================================================
