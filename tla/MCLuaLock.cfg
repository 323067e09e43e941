SPECIFICATION Spec
CONSTANTS
    main = main
    w1 = w1
    w2 = w2
    Threads <- MCThreads
    Main = main
    NoThread = NoThread
    MaxDepth = 2
    MaxFrames = 2
SYMMETRY MCSymmetry
INVARIANTS
    TypeOK
    DepthMirrorsMutex
    DepthCountsSections
    MutualExclusion
    LoopHoldsNothing
PROPERTIES
    CloseWaitsForSections
    SectionSpec
