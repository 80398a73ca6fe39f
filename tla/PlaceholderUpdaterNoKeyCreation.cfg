\* One file, against spec 8.14.
CONSTANTS
    NFiles = 1
    Keys <- MCKeys
SPECIFICATION Spec
INVARIANT NoKeyCreation
CHECK_DEADLOCK FALSE
