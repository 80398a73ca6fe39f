\* Placeholders: two files.  Renamer: two configs over three names, room
\* for a file already canonical, one to move, a free target, and each
\* kind of collision.  JUnit merge: two files of up to two testcases over
\* two identities, enough for an override across files, a duplicate
\* inside one file, and a skipped missing or unparsable file.
CONSTANTS
    NFiles = 2
    Configs = {c1, c2}
    NNames = 3
    Ids = {"A::b", "A::c"}
    Times = {1}
    MaxFiles = 2
    MaxCases = 2
SPECIFICATION Spec
INVARIANTS
    TypeOK
    RenamedToCanonical
    MergeKeepsLastAtFirstPosition
\* Each tool exits after its single pass.
CHECK_DEADLOCK FALSE
