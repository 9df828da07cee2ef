SPECIFICATION Spec
CONSTANTS
    Configs <- MCConfigs
    MaxFaults = 1
    StaleRuns = {"old"}
CHECK_DEADLOCK FALSE
INVARIANTS
    GroupsAgree
PROPERTIES
    RunEnds
