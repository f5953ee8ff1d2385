------------------------------ MODULE MCProving ------------------------------
(***************************************************************************)
(* What stands around a proof, each for TLC on its own: the tracing        *)
(* evidence of a run, the advisories of the proving host, the verifier to  *)
(* trust, and the wrappers with who is bound to them.  A behaviour picks   *)
(* one of them, in part, and only that one moves.                          *)
(***************************************************************************)
EXTENDS Integers, Sequences

CONSTANTS
    Parts,          \* those the run takes
    \* The tracing evidence
    EgressSocket, EgressNetns, EgressProbe, EgressPort, EgressCasts, EgressDest,
    EgressLength, MaxAttempts, MaxEvents,
    CallsReturn,    \* the capture goes on until open calls have returned
    AdvisoryChanges,    \* bound on changes beside the host's advisories
    \* The verifier to trust
    TargetChain, TargetHome,
    \* Registries: records of a module's constants
    OneChain, TwoChains

VARIABLES
    part,
    eDerived, eWindow, eCalls, eAir, eSession, eCrossed, eCast, ePast, eSpent,
    hRustsec, hYanked, hPatched, hHead, hDisk, hHarness, hArchives, hTool, hSuperseded,
    hClaims, hObservation, hRecord, hRun, hChanges,
    tRuntime, tCode, tPairing, tMoved, tGateway, tLies, tState, tExecution, tOptions,
    tConsumer,
    rLatest, rFinal, rMain, rClone, rRun, rVerifier, rPending, rHaltedIdentities

egress == <<eDerived, eWindow, eCalls, eAir, eSession, eCrossed, eCast, ePast, eSpent>>
advisories ==
    <<hRustsec, hYanked, hPatched, hHead, hDisk, hHarness, hArchives, hTool, hSuperseded,
      hClaims, hObservation, hRecord, hRun, hChanges>>
target ==
    <<tRuntime, tCode, tPairing, tMoved, tGateway, tLies, tState, tExecution, tOptions,
      tConsumer>>
registry ==
    <<rLatest, rFinal, rMain, rClone, rRun, rVerifier, rPending, rHaltedIdentities>>

-----------------------------------------------------------------------------
(* Tracing: two containers and the host, sockets that share a source port   *)

Sockets == {"u1", "u2", "p1", "p2", "h", "t1", "t2", "x2", "th"}
Pairs ==
    {{"u1", "u2"}, {"p1", "p2"}, {"h"}, {"u1", "t2"}, {"t1", "t2"}, {"x2"},
     {"th"}}
Home ==
    [p1 |-> "c1", p2 |-> "c2", u1 |-> "c1", u2 |-> "c2", h |-> "host", t2 |-> "c2",
     x2 |-> "c2", t1 |-> "c1", th |-> "host"]
Kinds ==
    [p1 |-> "ping", p2 |-> "ping", u1 |-> "udp", u2 |-> "udp", h |-> "udp", t2 |-> "tcp",
     x2 |-> "pkt", t1 |-> "tcp", th |-> "tcp"]
Ports ==
    [p1 |-> 1, p2 |-> 1, u1 |-> 1, u2 |-> 1, h |-> 2, t2 |-> 1, x2 |-> 1, t1 |-> 1, th |-> 2]

Egress ==
    INSTANCE EgressAttribution WITH
        Socket <- EgressSocket, Casts <- EgressCasts, Netns <- EgressNetns,
        Probe <- EgressProbe, Port <- EgressPort, Dest <- EgressDest,
        Length <- EgressLength,
        derived <- eDerived, window <- eWindow, calls <- eCalls, air <- eAir,
        session <- eSession, crossed <- eCrossed, cast <- eCast, past <- ePast,
        spent <- eSpent

ASSUME EgressAssumption == Egress!EgressAssumption

-----------------------------------------------------------------------------
(* The host's advisories, and the verifier to trust *)

Advisories ==
    INSTANCE HostAdvisories WITH
        MaxChanges <- AdvisoryChanges,
        rustsec <- hRustsec, yanked <- hYanked, patched <- hPatched, head <- hHead,
        disk <- hDisk, harness <- hHarness, archives <- hArchives, tool <- hTool,
        superseded <- hSuperseded, claims <- hClaims, observation <- hObservation,
        record <- hRecord, run <- hRun, changes <- hChanges

\* What can be wrong is on one of the chains.
Target ==
    INSTANCE TrustTarget WITH
        Chain <- TargetChain, Home <- TargetHome,
        runtime <- tRuntime, code <- tCode, pairing <- tPairing, moved <- tMoved,
        gateway <- tGateway, lies <- tLies, state <- tState, execution <- tExecution,
        options <- tOptions, consumer <- tConsumer

ASSUME TargetAssumption == Target!ChainsAssumption

-----------------------------------------------------------------------------
(* The registry of wrappers with its consumers *)

Everywhere == {"w1", "w2", "w3", "c1", "c2", "c3"}
OnChain == [x \in Everywhere |-> IF x \in {"w3", "c3"} THEN "B" ELSE "A"]
OneIdentity == [w \in Everywhere |-> "I"]

\* Two wrappers of an identity on one chain, one of them put there by hand.
TwinWrappers ==
    [operators |-> {"o1", "o2"}, wrappers |-> {"w1", "w2"}, strays |-> {"w2"},
     consumers |-> {"c1", "c2"}, chains |-> {"A"}, chainOf |-> OnChain,
     identityOf |-> OneIdentity, designated |-> {"I"}, newConsumers |-> {"c1"},
     founded |-> {{"w1"}, {"w1", "w2"}}, maxFacts |-> 3]

\* An identity on two chains.
WrapperOnEachChain ==
    [operators |-> {"o1", "o2"}, wrappers |-> {"w1", "w3"}, strays |-> {},
     consumers |-> {"c1", "c3"}, chains |-> {"A", "B"}, chainOf |-> OnChain,
     identityOf |-> OneIdentity, designated |-> {"I"}, newConsumers |-> {"c1"},
     founded |-> {{}, {"w1", "w3"}}, maxFacts |-> 3]

Twins ==
    INSTANCE WrapperRegistry WITH
        Operator <- OneChain.operators, Wrapper <- OneChain.wrappers, Stray <- OneChain.strays,
        Consumer <- OneChain.consumers, Chain <- OneChain.chains, ChainOf <- OneChain.chainOf,
        IdentityOf <- OneChain.identityOf, Designated <- OneChain.designated,
        NewConsumer <- OneChain.newConsumers, Founded <- OneChain.founded,
        MaxFacts <- OneChain.maxFacts,
        latest <- rLatest, final <- rFinal, main <- rMain, clone <- rClone, run <- rRun,
        verifier <- rVerifier, pending <- rPending, haltedIdentities <- rHaltedIdentities

Chains ==
    INSTANCE WrapperRegistry WITH
        Operator <- TwoChains.operators, Wrapper <- TwoChains.wrappers, Stray <- TwoChains.strays,
        Consumer <- TwoChains.consumers, Chain <- TwoChains.chains, ChainOf <- TwoChains.chainOf,
        IdentityOf <- TwoChains.identityOf, Designated <- TwoChains.designated,
        NewConsumer <- TwoChains.newConsumers, Founded <- TwoChains.founded,
        MaxFacts <- TwoChains.maxFacts,
        latest <- rLatest, final <- rFinal, main <- rMain, clone <- rClone, run <- rRun,
        verifier <- rVerifier, pending <- rPending, haltedIdentities <- rHaltedIdentities

ASSUME RegistriesAssumption == Twins!RegistryAssumption /\ Chains!RegistryAssumption

-----------------------------------------------------------------------------

\* A part that does not move starts in one state only.
Init ==
    /\ part \in Parts
    /\ Egress!Init /\ (part # "egress" => eCast = (CHOOSE c \in EgressCasts : TRUE) /\ ePast = {})
    /\ Advisories!Init /\ (part # "advisories" => hRustsec.kind = "unmaintained")
    /\ IF part = "target" THEN Target!Init ELSE Target!Unflawed
    /\ IF part = "chains" THEN Chains!Init
       ELSE Twins!Init /\ (part # "twins" => Len(rMain) = 1)

Only(name) == part = name /\ UNCHANGED part

Next ==
    \/ Only("egress") /\ Egress!Next /\ UNCHANGED <<advisories, target, registry>>
    \/ Only("advisories") /\ Advisories!Next /\ UNCHANGED <<egress, target, registry>>
    \/ Only("target") /\ Target!Next /\ UNCHANGED <<egress, advisories, registry>>
    \/ Only("twins") /\ Twins!Next /\ UNCHANGED <<egress, advisories, target>>
    \/ Only("chains") /\ Chains!Next /\ UNCHANGED <<egress, advisories, target>>

Spec == Init /\ [][Next]_<<part, egress, advisories, target, registry>>

-----------------------------------------------------------------------------
(* Properties, each as its module states it, of the part that moves *)

\* Complete evidence is of a window in which nothing that matters got past the
\* boundary (sp1-egress-attribution.ts:1708).
CompleteMeansContained == part = "egress" => Egress!CompleteMeansContained

\* A refused packet joins an attempt of the socket that sent it
\* (sp1-egress-attribution.ts:1489).
JoinedToItsSender == part = "egress" => Egress!JoinedToItsSender

\* Both: complete evidence accounts for each packet, and by its sender.
EgressIsAttributed == CompleteMeansContained /\ JoinedToItsSender

\* A valid record is what today's host and evidence derive
\* (sp1-host-advisories.ts:20).
ValidRestsOnToday == part = "advisories" => Advisories!ValidRestsOnToday

\* The job that finds nothing to report leaves nothing to reassess
\* (sp1-host-advisories.ts:3083).
MatchLeavesNothing == part = "advisories" => Advisories!MatchLeavesNothing

\* Both: neither the record nor the job is quiet while there is something to reassess.
QuietMeansNothingNew == ValidRestsOnToday /\ MatchLeavesNothing

\* The consumer of a viable option never accepts anything but valid proofs
\* (sp1-td1-decision.ts:1297).
ViableIsExact == part = "target" => Target!ViableIsExact

\* The levers an option is listed with are all there are
\* (sp1-td1-decision.ts:1079-1209).
ChangesAreNamed == Target!ChangesAreNamed

\* All consumers of an identity on a chain are on one wrapper of it
\* (verifier-binding.ts:486).
OneHaltReachesAll == part = "twins" => Twins!OneHaltReachesAll

\* A published fact is what its chain shows for good (sp1-registration.ts:10).
FactsAreFinal ==
    /\ part = "twins" => Twins!FactsAreFinal
    /\ part = "chains" => Chains!FactsAreFinal

\* The halt of a designated wrapper can be published (sp1-registration.ts:100).
HaltCanBePublished ==
    /\ part = "twins" => Twins!HaltCanBePublished
    /\ part = "chains" => Chains!HaltCanBePublished

\* A published halt stops every script that starts after it
\* (sp1-published-records.ts:5).
NoneLetThroughLate == part = "chains" => Chains!NoneLetThroughLate

\* All three: a halt can be published, is heeded, and reaches every consumer.
HaltTakesEffect == HaltCanBePublished /\ NoneLetThroughLate /\ OneHaltReachesAll
=============================================================================
