SPECIFICATION Spec
CONSTANTS
    HasStart = FALSE
    Setup = 0
    Main = 1
    Teardown = 1
    RepeatLimit = 2
    MaxAborts = 0
    BodyResults = {"CONTINUE", "REPEAT"}
    RunIf = {2}
    ForceRepeat = {}
    RepeatOnTimeout = {1}
    RepeatOnFail = {1}
    StopOnFail = {2}
    Diagnosed = {1}
    StopOnFirstFailure = FALSE
    FailureExceptions = FALSE
INVARIANTS
    TypeOK
    PassIsEarned
