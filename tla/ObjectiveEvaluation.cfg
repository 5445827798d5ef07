SPECIFICATION Spec
CONSTANTS
    NaN = NaN
    ServerErrors = {"500"}
    NoTemplate = NoTemplate
    NoQuery = NoQuery
    NoData = NoData
    NotANumber = NotANumber
    NoWindow = NoWindow
    NoRule = NoRule
    NoService = NoService
    NoBudget = NoBudget
    Objectives <- MCObjectives
    Services <- MCServices
    Varying <- MCVarying
    WindowedRates <- MCWindowedRates
    BurnRateSets <- MCBurnRateSets
INVARIANTS
    PhaseIsWorst
    BudgetAddsUp
    SteadyServiceIsJudgedRight
    AlertsAgreeWithPhase
    AlertsHaveData
    CustomAlertMeansConsumption
    BacktestAgrees
PROPERTIES
    PhaseIsMonotone
