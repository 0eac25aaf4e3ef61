CONSTANTS
    SimulateModule <- VerilogSimulate
    ModuleTree <- VerilogInitTree
    NoNode = NoNode
    Netlists <- AnalogNetlists
    Voltages = {0, 2, 5}
    Times = {0, 1}
    MaxAge = 2
    UsrInit = "L"
    Budget = 200
    Track = TRUE
SPECIFICATION Spec
INVARIANTS NoWrongRail AnalogFollowed LastDriveSettled ModuleDrivesAll
