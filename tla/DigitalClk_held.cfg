CONSTANTS
    SimulateModule <- VerilogSimulate
    ModuleTree <- VerilogInitTree
    NoNode = NoNode
    Netlists <- HeldNetlists
    Voltages = {0, 2, 5}
    Times = {0, 1}
    MaxAge = 2
    UsrInit = "L"
    Budget = 200
    Track = FALSE
SPECIFICATION LoopSpec
PROPERTY HeldLevelRead
