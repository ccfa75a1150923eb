\* The script goes on to GenerateSubSuites once the options are read.
CONSTANTS
    Keys <- MCKeys
    Values <- MCValues
SPECIFICATION Spec
CHECK_DEADLOCK FALSE
INVARIANT BooleanOptionsHonoured
