SPECIFICATION Spec
CONSTANTS
    CallerSets = {{w1, w2}, {main, w1}}
    Main = main
    Callbacks = 2
    CanBreak = TRUE
    MaxExecutes = 3
    MaxSigints = 3
INVARIANTS
    OneExecutor
    RunsComplete
    SigintAborts
PROPERTIES
    SigintHandled
    ExecuteReturns
    InterruptedRunIsOutput
CHECK_DEADLOCK FALSE
