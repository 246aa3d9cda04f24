SPECIFICATION Spec
CONSTANTS
    Empty = Empty
    Malformed = Malformed
    Unset = Unset
    Origins <- EveryOrigin
    Deployments <- EveryDeployment
    Settings <- EverySetting
    Environs <- EveryEnviron
    Programs <- EveryProgram
    Probes <- EveryProbe
    MaxRotations = 1
INVARIANTS
    ConfigurationFailsEarly
    NetworkIsAuthenticated
    TokenIsProtected
    OwnOriginWorks
    SettingsDecide
    ProbeSeesService
