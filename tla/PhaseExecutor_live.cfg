SPECIFICATION Spec
CONSTANTS
    HasStart = FALSE
    Setup = 1
    Main = 0
    Teardown = 1
    RepeatLimit = 1
    MaxAborts = 2
    BodyResults = {"CONTINUE"}
    RunIf = {}
    ForceRepeat = {}
    RepeatOnTimeout = {}
    RepeatOnFail = {}
    StopOnFail = {}
    Diagnosed = {}
    StopOnFirstFailure = TRUE
    FailureExceptions = FALSE
PROPERTIES
    Termination
    AbortReturns
