\* One uploader whose perf_result batch may be rolled back.
CONSTANTS
    Uploaders = {u1}
    Idents = {i1, i2}
    RepeatableRead = TRUE
SPECIFICATION Spec
CHECK_DEADLOCK FALSE
INVARIANTS
    ReportedImpliesStored
