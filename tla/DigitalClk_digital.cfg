CONSTANTS
    SimulateModule <- VerilogSimulate
    ModuleTree <- VerilogInitTree
    NoNode = NoNode
    Netlists <- DigitalNetlists
    Voltages = {0}
    Times = {0}
    MaxAge = 0
    UsrInit = "X"
    Budget = 200
    Track = TRUE
SPECIFICATION Spec
INVARIANTS QueueDrained OutputsFollow EdgesTakenOnce DelaysOneTick ModulesInStep
