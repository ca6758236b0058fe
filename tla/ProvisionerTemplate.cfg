CONSTANTS
    Refs = {"none", "params"}
    Parameters <- MCParameters
    InitialParams <- MCInitialParams
    MaxChanges = 2
    MaxLag = 1
    MaxFaults = 0
SPECIFICATION ProvisionerSpec
PROPERTY ParametersPinned
CHECK_DEADLOCK FALSE
