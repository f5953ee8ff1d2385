SPECIFICATION Spec
CONSTANTS
    Parts = {"egress"}
    EgressSocket <- Sockets
    EgressNetns <- Home
    EgressProbe <- Kinds
    EgressPort <- Ports
    EgressCasts <- Pairs
    EgressDest = {"resolver"}
    EgressLength = {1, 2}
    MaxAttempts = 2
    MaxEvents = 1
    CallsReturn = FALSE
    AdvisoryChanges = 3
    TargetChain = {"home", "away"}
    TargetHome = "home"
    OneChain <- TwinWrappers
    TwoChains <- WrapperOnEachChain
INVARIANT CompleteMeansContained
CHECK_DEADLOCK FALSE
