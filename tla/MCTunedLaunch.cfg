SPECIFICATION TunedSpec
CONSTANTS
    Threads = {t1, t2}
    Names <- MCNames
    Params <- MCParams
    Constexpr <- MCConstexpr
    Fixed = {}
    MaxLayers = 3
    Chains <- MCChains
    None = None
INVARIANTS RunsAlone AsTuned NoMismatch LevelsRight
CHECK_DEADLOCK FALSE
SYMMETRY Symmetry
