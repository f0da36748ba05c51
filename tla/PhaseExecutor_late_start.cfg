SPECIFICATION Spec
CONSTANTS
    HasStart = FALSE
    Setup = 0
    Main = 1
    Teardown = 1
    RepeatLimit = 1
    MaxAborts = 1
    BodyResults = {"CONTINUE"}
    RunIf = {}
    ForceRepeat = {}
    RepeatOnTimeout = {}
    RepeatOnFail = {}
    StopOnFail = {}
    Diagnosed = {}
    StopOnFirstFailure = FALSE
    FailureExceptions = FALSE
INVARIANTS
    NoPhaseAfterAbort
