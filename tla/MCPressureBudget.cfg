CONSTANTS
    Unit = 32
    Pressures = {0, 20, 32}
    MinBudget <- MCMin
    MaxBudget <- MCMax
    SmoothPercent = 80
    RhoLowPercent = 55
    RhoHighPercent = 75
SPECIFICATION Spec
INVARIANTS TypeOK BudgetsInRange PressureTightens
PROPERTIES BudgetApproachesRaw
