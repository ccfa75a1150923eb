\* A run either stops after writing its files, after deciding not to
\* generate, or on an HTTP error: the script exits in each case.
CONSTANTS
    a = a
    b = b
    c = c
    x = x
    z = z
    TestOrder <- MCTestOrder
    SourceExcludes <- MCSourceExcludes
    StaleTests <- MCStaleTests
    Runtimes <- MCRuntimes
    TargetResmokeTime = 10
    MaxSubSuites = 2
    MaxTestsPerSuite = 2
    FallbackNumSubSuites = 2
    RepeatSuites = 1
    UseDefaultTimeouts = FALSE
    tk = tk
    X = X
    Y = Y
    v = v
    TaskName <- MCTaskName
    PriorExecutions = 2
    Variant = v
    DependsOn <- MCDependsOn
    IsPatch = FALSE
    BuildTasks <- MCBuildTasks
    ResmokeArgs <- MCResmokeArgs
    SuiteMentionsRepeat = FALSE
SPECIFICATION Spec
CHECK_DEADLOCK FALSE
INVARIANT TimeoutRoundedUp
