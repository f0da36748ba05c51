SPECIFICATION Spec
CONSTANTS
    Declared <- MCDeclared
    Dimensioned = {"d"}
    Transformed = {"s"}
    ValidatorsOf <- MCValidatorsOf
    Conditional <- MCConditional
    AllowFail = {}
    Coords = {"c1", "c2"}
    Values <- MCValues
    Results = {"CONTINUE", "SKIP", "TIMEOUT"}
    Returns <- MCReturns
    AlwaysFail = FALSE
    AllowUnset = FALSE
    StopOnFail = {2}
    MaxSets <- MCMaxSets
    MaxReads = 1
INVARIANTS
    MeasurementsJudged
    PassIsMeasured
    RecordShowsValues
    FailuresReported
PROPERTIES
    RecordsFrozen
