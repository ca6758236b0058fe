CONSTANTS
    Refs = {"none", "params"}
    Parameters <- MCParameters
    InitialParams <- MCInitialParams
    MaxChanges = 2
    MaxLag = 1
    MaxFaults = 1
SPECIFICATION ProvisionerSpec
 
PROPERTY AcceptedMeansProvisioned EventuallyProvisioned
CHECK_DEADLOCK FALSE
