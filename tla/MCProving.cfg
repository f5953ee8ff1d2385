\* Every part; a trust target on a home chain and another one, a registry with two
\* wrappers on one chain and one with a wrapper on each of two chains.
SPECIFICATION Spec
CONSTANTS
    Parts = {"egress", "advisories", "target", "twins", "chains"}
    EgressSocket <- Sockets
    EgressNetns <- Home
    EgressProbe <- Kinds
    EgressPort <- Ports
    EgressCasts <- Pairs
    EgressDest = {"resolver"}
    EgressLength = {1, 2}
    MaxAttempts = 2
    MaxEvents = 1
    CallsReturn = TRUE
    AdvisoryChanges = 3
    TargetChain = {"home", "away"}
    TargetHome = "home"
    OneChain <- TwinWrappers
    TwoChains <- WrapperOnEachChain
INVARIANTS EgressIsAttributed QuietMeansNothingNew ViableIsExact
INVARIANTS HaltTakesEffect FactsAreFinal
PROPERTY ChangesAreNamed
CHECK_DEADLOCK FALSE
