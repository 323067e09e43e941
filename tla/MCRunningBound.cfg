SPECIFICATION Spec
CONSTANTS
    Procs <- MCProcs
    NoProc = NoProc
    Foreign = Foreign
    App = App
    BreakIsSticky = TRUE
    Port = 2020
    HasToken = FALSE
PROPERTIES
    RunningMeansBound
