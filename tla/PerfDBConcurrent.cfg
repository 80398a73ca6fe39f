\* Two uploaders racing on the shared schema, InnoDB default isolation.
CONSTANTS
    Uploaders = {u1, u2}
    Idents = {i1, i2}
    RepeatableRead = TRUE
SPECIFICATION Spec
CHECK_DEADLOCK FALSE
INVARIANTS
    TypeOK
PROPERTIES
    StoreRefinement
