SPECIFICATION Spec
CONSTANTS
    Trees <- MCTrees
    Results = {"PASS", "FAIL", "FAIL_SUBTEST", "DECLINED", "EXC"}
    StopOnFirstFailure = FALSE
    MaxAborts = 2
INVARIANTS
    TeardownIffEntered
    PassIsEarned
PROPERTIES
    OnlyTeardowns
