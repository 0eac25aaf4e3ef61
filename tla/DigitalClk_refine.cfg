CONSTANTS
    SimulateModule <- VerilogSimulate
    ModuleTree <- VerilogInitTree
    NoNode = NoNode
    Netlists <- RefineNetlists
    Voltages = {0}
    Times = {0, 1}
    MaxAge = 1
    UsrInit = "X"
    Budget = 9
    Track = FALSE
SPECIFICATION Spec
PROPERTY ImplementsTable
