SPECIFICATION Spec
CONSTANTS
    Ports = {8080, 9090}
    DefaultPort = 8080
    WithApp = FALSE
    MaxSecrets = 3
    MaxRuns = 3
CHECK_DEADLOCK FALSE
PROPERTIES
    PortKept
