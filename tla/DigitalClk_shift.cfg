CONSTANTS
    SimulateModule <- VerilogSimulate
    ModuleTree <- VerilogInitTree
    NoNode = NoNode
    Netlists <- ShiftNetlists
    Voltages = {0}
    Times = {0}
    MaxAge = 0
    UsrInit = "L"
    Budget = 50
    Track = TRUE
SPECIFICATION Spec
INVARIANT EdgeSemantics
