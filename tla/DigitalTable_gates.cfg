CONSTANTS
    Nodes <- CyclicNodes
    Gates <- CyclicGates
    Inputs = {"a"}
    Outputs = {"out"}
    Kind <- CyclicKind
    IA <- CyclicIA
    IB <- CyclicIB
    O <- CyclicO
    NoNode = NoNode
    Budget = 6
SPECIFICATION FairSpec
INVARIANTS Settled StaleArePending
PROPERTY ClkReturns
