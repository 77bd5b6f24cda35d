SPECIFICATION StartupSpec
CONSTANTS
    s1 = s1
    k1 = k1
    Given = Given
    None = None
    Torn = Torn
    Servers <- OneServer
    Clients <- OneClient
    MaxStarts <- MCStarts
INVARIANTS
    TypeOK
    CertsMatchCA
    UpMeansConsistent
    FailedStartLeavesNothing
    SettingsAsDocumented
PROPERTIES
    CAStable
    StartWorks
CHECK_DEADLOCK FALSE
