CONSTANTS
    Nodes <- AcyclicNodes
    Gates <- AcyclicGates
    Inputs = {"a", "b"}
    Outputs = {"out"}
    Kind <- AcyclicKind
    IA <- AcyclicIA
    IB <- AcyclicIB
    O <- AcyclicO
    NoNode = NoNode
    Budget = 40
SPECIFICATION ResetSpec
INVARIANT SettledWhenQueueEmpty
