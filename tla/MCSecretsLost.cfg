SPECIFICATION Spec
CONSTANTS
    Ports = {8080, 9090}
    DefaultPort = 8080
    WithApp = TRUE
    MaxSecrets = 3
    MaxRuns = 3
PROPERTIES
    SecretsStable
