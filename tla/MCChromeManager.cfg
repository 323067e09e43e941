SPECIFICATION Spec
CONSTANTS
    c1 = c1
    c2 = c2
    t1 = t1
    t2 = t2
    Tokens <- MCTokens
    NoToken = NoToken
    Ports <- MCPorts
    TakenPorts <- MCTaken
    MaxListeners = 2
    Callers <- MCCallers
    MaxChromes = 2
    MaxPolls = 1
    MaxActivity = 3
INVARIANTS
    TypeOK
    OneListener
    NoOrphanChrome
PROPERTIES
    EndpointComesUp
CHECK_DEADLOCK FALSE
