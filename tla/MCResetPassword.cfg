SPECIFICATION FlowSpec
CONSTANTS
    r1 = r1
    r2 = r2
    Procs <- MCProcs
    NoProc = NoProc
    Foreign = Foreign
    App = App
    BreakIsSticky = FALSE
    Port = 2020
    HasToken = TRUE
    Resets <- MCResets
CONSTRAINT ThirdWithoutResets
SYMMETRY Symmetry
INVARIANTS
    TypeOK
    OneServer
    SessionHasChild
    ResetModeIsHeld
