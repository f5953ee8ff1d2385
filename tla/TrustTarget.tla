---------------------------- MODULE TrustTarget ----------------------------
(***************************************************************************)
(* scripts/lib/sp1-td1-decision.ts: which SP1 verifier a WalletWall        *)
(* verifier is to trust, decided from what was measured on every chain.    *)
(* The state of each chain and the verdicts of its verifier are read at    *)
(* different times and through providers that may lie; from the decision   *)
(* on, the owners of gateways go on adding and freezing routes.            *)
(*                                                                         *)
(* External are the chains, the upstream gateway (write-once routes, a     *)
(* one-way freeze, an owner or none) and the probes of                     *)
(* contracts/mocks/Sp1TrustTargetProbes.sol, which stand for a consumer of *)
(* each option.                                                            *)
(***************************************************************************)
EXTENDS Naturals, FiniteSets

CONSTANTS
    Chain,              \* the chains the selection requires
    Home                \* the one of them where flaws are and a consumer is deployed

VARIABLES
    runtime,            \* what the verifier's mainnet bytes can do
    code, pairing,      \* Chain -> the code at its address; the pairing precompile is there
    moved,              \* what the runtime reads of its environment has changed
    gateway,            \* upstream's, by chain, and WalletWall's: owner and routes
    lies,               \* Chain -> what its first provider lies about
    state, execution,   \* Chain -> what was read, what was executed
    options,            \* the options on the table
    consumer            \* a verifier deployed under one option, on Home

vars == <<runtime, code, pairing, moved, gateway, lies, state, execution, options, consumer>>

None == "none"
Unmeasured == [agree |-> FALSE]
NoConsumer == [option |-> None]
Selector == {"pinned", "other"}
Gateway == Chain \cup {"walletwall"}

\* Proofs under the pinned selector; "crafted" is one under another selector.
Proof == {"valid", "tampered", "canary", "crafted"}

ChainsAssumption == Home \in Chain /\ IsFiniteSet(Chain) /\ "walletwall" \notin Chain

-----------------------------------------------------------------------------
(* What a consumer of each option accepts *)

Option(id, length, components, pins) ==
    [id |-> id, length |-> length, components |-> components, pins |-> pins]

FULL_GATEWAY_PINS == {"selector", "routeVerifier", "gatewayCode", "verifierCode"}

A  == Option("A", 3, {"sp1Verifier"}, {"verifierCode"})
AF == Option("AF", 4, {"sp1Verifier", "upstreamFreezeBit"}, FULL_GATEWAY_PINS)
B  == Option("B", 5, {"upstreamGateway", "sp1Verifier"}, FULL_GATEWAY_PINS)
B0 == Option("B0", 5, {"upstreamGateway", "sp1Verifier"}, {"selector"})
C  == Option("C", 4, {"walletwallGateway", "sp1Verifier"}, {})
D  == Option("D", 4, {"upstreamGateway", "sp1Verifier"}, {})

\* The verifier's own bytes, those of the same template where they read or lost
\* their state, and the odd-word canary where the pairing precompile is missing.
RunVerifier(c, proof) ==
    \/ proof = "valid"
    \/ code[c] # "target" \/ (runtime = "environment" /\ moved)
    \/ proof = "canary" /\ ~ pairing[c]

SelectorOf(proof) == IF proof = "crafted" THEN "other" ELSE "pinned"

\* A gateway's verifyProof: an unknown or frozen route reverts.
Route(g, c, proof) ==
    LET route == gateway[g].routes[SelectorOf(proof)] IN
    /\ ~ route.frozen
    /\ \/ route.verifier = "target" /\ RunVerifier(c, proof)
       \/ route.verifier = "squatter"

Accepts(option, c, proof) ==
    /\ "selector" \in option.pins => SelectorOf(proof) = "pinned"
    /\ CASE "upstreamGateway" \in option.components -> Route(c, c, proof)
         [] "walletwallGateway" \in option.components -> Route("walletwall", c, proof)
         [] OTHER -> /\ "upstreamFreezeBit" \in option.components
                          => ~ gateway[c].routes["pinned"].frozen
                     /\ proof # "crafted" /\ RunVerifier(c, proof)

\* The checks of a probe's constructor.
Constructible(option, c) ==
    /\ "routeVerifier" \in option.pins => gateway[c].routes["pinned"].verifier = "target"
    /\ "verifierCode" \in option.pins => code[c] = "target"

-----------------------------------------------------------------------------
(* Measurements *)

\* A provider that lies about a chain is contradicted by the second one.
readChain(c) ==
    LET target == [code |-> IF lies[c] = "code" THEN "target" ELSE code[c],
                   owner |-> IF lies[c] = "owner" THEN FALSE ELSE gateway[c].owner,
                   routed |-> gateway[c].routes["pinned"] = [verifier |-> "target", frozen |-> FALSE]]
    IN  /\ consumer = NoConsumer
        /\ state' = [state EXCEPT ![c] =
                       [agree |-> lies[c] # "code", stateCorroborated |-> lies[c] = None,
                        read |-> target]]
        /\ UNCHANGED <<runtime, code, pairing, moved, gateway, lies, execution, options, consumer>>

\* The calls the receipt names, sent to the verifier of each chain.
expectedChainCalls == {"valid", "tampered", "canary"}

executeOnChain(c) ==
    /\ consumer = NoConsumer
    /\ execution' = [execution EXCEPT ![c] =
                       [agree |-> lies[c] # "verdicts",
                        accepted |-> IF lies[c] = "verdicts" THEN {"valid"}
                                     ELSE {p \in expectedChainCalls : RunVerifier(c, p)}]]
    /\ UNCHANGED <<runtime, code, pairing, moved, gateway, lies, state, options, consumer>>

-----------------------------------------------------------------------------
(* Derivations *)

\* Slip: a real proof and its tampered copy are all that is asked for.
VerdictsWithoutCanary == [valid |-> TRUE, tampered |-> FALSE]

REQUIRED_CHAIN_VERDICTS == [valid |-> TRUE, tampered |-> FALSE, canary |-> FALSE]

\* The opcode scan of the mainnet bytes: no reachable SELFDESTRUCT or DELEGATECALL, no
\* reads beyond the call's inputs.
RuntimeIsClosed == runtime = "closed"

\* The state read shows one code on every chain, both providers agree, and the
\* verdicts on every chain are the required ones.
established ==
    /\ RuntimeIsClosed
    /\ \A c \in Chain :
         /\ state[c].agree /\ state[c].read.code = "target"
         /\ execution[c].agree
         /\ \A p \in DOMAIN REQUIRED_CHAIN_VERDICTS :
               (p \in execution[c].accepted) = REQUIRED_CHAIN_VERDICTS[p]

Owned == {c \in Chain : state[c].read.owner}

Unrouted == {c \in Chain : ~ state[c].read.routed}

Everywhere == Chain

\* Levers of principals that are not WalletWall's timelocked rotation, as the chains
\* they reach.
widen(option) ==
    LET routePinHolds == FULL_GATEWAY_PINS \subseteq option.pins
        upstream == IF "upstreamGateway" \notin option.components \/ routePinHolds THEN {}
                    ELSE IF "selector" \in option.pins THEN Unrouted \cup {"unmeasured"}
                    ELSE Owned
    IN  upstream \cup (IF "walletwallGateway" \in option.components THEN Everywhere ELSE {})
                 \cup (IF established THEN {} ELSE Everywhere)

\* Slip: a freeze bit that is only read does not count.
DisableOfRoutedOnly(option) ==
    (IF "upstreamGateway" \in option.components THEN Owned ELSE {})
    \cup (IF "walletwallGateway" \in option.components THEN Everywhere ELSE {})

disable(option) ==
    (IF option.components \cap {"upstreamGateway", "upstreamFreezeBit"} # {} THEN Owned ELSE {})
    \cup (IF "walletwallGateway" \in option.components THEN Everywhere ELSE {})

viable(option) == established /\ widen(option) = {}

\* Each gateway's owner, in the map of gatewayOwnerLevers, is a principal of its own.
External(option) ==
    IF "walletwallGateway" \in option.components THEN 1 ELSE Cardinality(disable(option))

\* Fewer external principals that can stop it, then the shorter path.
decideTrustTarget ==
    {o \in options :
       /\ viable(o)
       /\ \A p \in options : viable(p) =>
            \/ External(o) < External(p)
            \/ External(o) = External(p) /\ o.length <= p.length}

deploy(option) ==
    /\ consumer = NoConsumer /\ Constructible(option, Home)
    /\ \A d \in Chain : state[d] # Unmeasured /\ execution[d] # Unmeasured
    /\ consumer' = [option |-> option, viable |-> viable(option),
                    decided |-> option \in decideTrustTarget,
                    corroborated |-> \A d \in Chain : state[d].stateCorroborated,
                    widen |-> widen(option), disable |-> disable(option)]
    /\ UNCHANGED <<runtime, code, pairing, moved, gateway, lies, state, execution, options>>

-----------------------------------------------------------------------------
(* What others do *)

\* WalletWall's gateway is not measured: what is done to it before a consumer is
\* there is as good as done after.
Reachable(g) ==
    g = "walletwall" => consumer # NoConsumer /\ "walletwallGateway" \in consumer.option.components

\* addRoute takes the selector from the verifier's own VERIFIER_HASH, once.
addRoute(g) ==
    /\ gateway[g].owner /\ Reachable(g)
    /\ \E s \in Selector, v \in {"target", "squatter"} :
         /\ v = "target" => s = "pinned"
         /\ gateway[g].routes[s].verifier = None
         /\ gateway' = [gateway EXCEPT ![g].routes[s].verifier = v]
    /\ UNCHANGED <<runtime, code, pairing, moved, lies, state, execution, options, consumer>>

freezeRoute(g) ==
    /\ gateway[g].owner /\ Reachable(g)
    /\ \E s \in Selector :
         /\ gateway[g].routes[s].verifier # None /\ ~ gateway[g].routes[s].frozen
         /\ gateway' = [gateway EXCEPT ![g].routes[s].frozen = TRUE]
    /\ UNCHANGED <<runtime, code, pairing, moved, lies, state, execution, options, consumer>>

\* A runtime that can destroy itself is replaced at its address, one that reads its
\* environment is moved by it.
moveVerifier(c) ==
    /\ \/ runtime = "destructible" /\ code' = [code EXCEPT ![c] = "other"] /\ UNCHANGED moved
       \/ runtime = "environment" /\ moved' = TRUE /\ UNCHANGED code
    /\ UNCHANGED <<runtime, pairing, gateway, lies, state, execution, options, consumer>>

-----------------------------------------------------------------------------

NoRoute == [verifier |-> None, frozen |-> FALSE]

\* The target is routed on some chains and gateways have owners or none; Home may
\* have one flaw.
Init ==
    /\ runtime \in {"closed", "destructible", "environment"}
    /\ code \in {[c \in Chain |-> IF c = Home THEN h ELSE "target"] : h \in {"target", "other"}}
    /\ pairing \in {[c \in Chain |-> c # Home \/ h] : h \in BOOLEAN}
    /\ lies \in {[c \in Chain |-> IF c = Home THEN h ELSE None] :
                    h \in {None, "code", "owner", "verdicts"}}
    /\ moved = FALSE
    /\ \E owned, routed \in SUBSET Chain :
          gateway = [g \in Gateway |->
                       [owner |-> g \in owned \cup {"walletwall"},
                        routes |-> [s \in Selector |->
                            IF s = "pinned" /\ g \in routed \cup {"walletwall"}
                            THEN [NoRoute EXCEPT !.verifier = "target"] ELSE NoRoute]]]
    /\ state = [c \in Chain |-> Unmeasured] /\ execution = [c \in Chain |-> Unmeasured]
    /\ options \in {{A, AF, B, B0, C, D}, {AF, B, B0, C, D}, {B, B0, C, D}}
    /\ consumer = NoConsumer

\* No flaw, no owner, no route.
Unflawed ==
    /\ Init
    /\ runtime = "closed" /\ options = {A, AF, B, B0, C, D}
    /\ \A c \in Chain :
         /\ code[c] = "target" /\ pairing[c] /\ lies[c] = None
         /\ gateway[c] = [owner |-> FALSE, routes |-> [s \in Selector |-> NoRoute]]

Next ==
    \/ \E c \in Chain : readChain(c) \/ executeOnChain(c)
    \/ \E option \in options : deploy(option)
    \/ moveVerifier(Home)
    \/ \E g \in {Home, "walletwall"} : addRoute(g) \/ freezeRoute(g)

Spec == Init /\ [][Next]_vars

-----------------------------------------------------------------------------
(* Properties *)

Accepted == {p \in Proof : Accepts(consumer.option, Home, p)}

\* "Only options whose accepted relation no principal outside WalletWall's timelocked
\* rotation can widen are viable" (sp1-td1-decision.ts:1297): the consumer of a
\* viable option never accepts anything but valid proofs, whatever happens after the
\* measurements.  Who owns a gateway is not among the reads that must agree
\* (:721-722): an option other than the direct one needs both providers to agree on it.
ViableIsExact ==
    consumer # NoConsumer /\ consumer.viable
    /\ (consumer.corroborated \/ (consumer.decided /\ A \in options))
    => Accepted \subseteq {"valid"}

\* The levers an option is listed with are all there are: a step of somebody else
\* that makes a consumer accept more, or less, is one of them on its chain.
ChangesAreNamed ==
    [][consumer # NoConsumer /\ consumer.corroborated =>
         /\ ~ (Accepted' \subseteq Accepted) => Home \in consumer.widen
         /\ ~ (Accepted \subseteq Accepted') => Home \in consumer.disable]_vars
=============================================================================
