SPECIFICATION Spec
CONSTANTS
    HasStart = TRUE
    Setup = 0
    Main = 1
    Teardown = 1
    RepeatLimit = 1
    MaxAborts = 2
    BodyResults = {"CONTINUE"}
    RunIf = {}
    ForceRepeat = {}
    RepeatOnTimeout = {}
    RepeatOnFail = {}
    StopOnFail = {}
    Diagnosed = {}
    StopOnFirstFailure = FALSE
    FailureExceptions = FALSE
INVARIANTS
    TeardownProtected
    TeardownNotCancelled
    OwnTestApi
    TeardownRuns
    AtMostOneLatePhase
