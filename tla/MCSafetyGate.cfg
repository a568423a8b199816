SPECIFICATION Spec
CONSTANTS
    Steps <- MCSteps
    Invokers <- MCInvokers
    NetLimits <- MCNetLimits
    TickSizes = {20, 59}
    MaxNow = 121
    SkipSteps <- MCSkipSteps
    MaxSkips = 2
INVARIANTS
    
    ElevationNeverWeakens
PROPERTY
    HaltCadence
