\* Run record: two of the seven field_mapping fields stand for all of them
\* (they are handled by the same loop), up to two metric rows for the clock
\* scan.  Accumulation: up to three rows drawn from MCRows, two identities.
\* Precision: commands of up to two words.  JUnit log: maps of up to three
\* of the five MCKeys in any order, against each of the four MCTestNames.
CONSTANTS
    DirectFields = {"driver", "hostname"}
    RunRows = 2
    Idents = {"i1", "i2"}
    CaseRows = 3
    MaxWords = 2
    JUnitKeys = 3
SPECIFICATION Spec
INVARIANTS
    TypeOK
    MeasuredClocksOnly
    ResultOrderIsFirstSeen
    ResultValuesLastWins
\* Each part stops: the run record after the clock scan or the early return,
\* the accumulation in "done" or "crashed", the precision and the JUnit log once computed.
CHECK_DEADLOCK FALSE
