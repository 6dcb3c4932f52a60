CONSTANTS
    v4 = v4  v6 = v6  s1 = s1  s2 = s2  anyip = anyip  n4 = n4  n6 = n6  none = none
    V4 = v4  V6 = v6  AnyIP = anyip  None = none
    Families <- MCFamilies
    Services <- MCServices
    Specs <- MCSpecs
    InitialServices <- MCInitialServices
    Addresses <- MCAddresses
    NodeIP <- MCNodeIP
    IPTables <- MCIPTables
    Configs <- MCConfigs
    Nodes <- MCNodes
    HealthTimeout = 1
    MaxChanges = 2
    MaxFailures = 1
SPECIFICATION MCSpec
INVARIANTS CleanSwitch LocalTrafficKnown LateChangesReported AnswersCurrent
PROPERTY EventuallyCurrent
CHECK_DEADLOCK FALSE
