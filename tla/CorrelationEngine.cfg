SPECIFICATION Spec
CONSTANTS
    Size = 3
    Retention = 2
    SystemNamespaces = {"kube-system"}
    Deliveries <- MCDeliveries
    Unused = Unused
    MaxTime = 3
    MaxChanges = 4
    SLONamespace = "own"
    Selectors <- MCSelectors
    NoSelector = NoSelector
    WindowBefore = 2
    WindowAfter = 2
    HighWindow = 0
    MediumWindow = 6
    UsesLLM = TRUE
    NoReport = NoReport
    NoTrigger = NoTrigger
CHECK_DEADLOCK FALSE
INVARIANTS
    TypeOK
    WindowIsComplete
    KindsInOrder
    ReportIsExact
    SummaryBlamesTop
    CausesFirst
PROPERTIES
    LogSpec
