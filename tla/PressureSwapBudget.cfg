CONSTANTS
    Unit = 32
    Pressures = {0, 32}
    MinBudget <- MCDecodeMin
    MaxBudget <- MCDecodeMax
    SmoothPercent = 80
    RhoLowPercent = 55
    RhoHighPercent = 75
SPECIFICATION FairSpec
PROPERTIES SwapPressureCutsSwapIns
