\* One file with one testcase is enough to disagree on "Passed:".
CONSTANTS
    Ids = {"A::b"}
    Times = {1}
    MaxFiles = 1
    MaxCases = 1
SPECIFICATION Spec
INVARIANT PassedCountsPassingCases
CHECK_DEADLOCK FALSE
