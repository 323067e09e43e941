SPECIFICATION FlowSpec
CONSTANTS
    r1 = r1
    r2 = r2
    Procs <- MCTwoProcs
    NoProc = NoProc
    Foreign = Foreign
    App = App
    BreakIsSticky = TRUE
    Port = 2020
    HasToken = FALSE
    Resets <- MCResets
INVARIANTS
    ResetModeEnds
