------------------------------ MODULE PerfStore ------------------------------
(***************************************************************************)
(* What the performance database promises its readers (the report page    *)
(* that joins runs, cases and perf_result): a set of known case            *)
(* identities that only grows, a set of runs, and for each run the         *)
(* identities of its results, published all at once and only for cases    *)
(* that exist.  Duplicate case rows are invisible at this level.           *)
(***************************************************************************)
CONSTANTS Idents, RunIds

VARIABLES
    caseSet,   \* identities that have a row in cases
    runSet,    \* ids of runs
    stored     \* published results: [run, ident]

vars == <<caseSet, runSet, stored>>

Init ==
    /\ caseSet \subseteq Idents
    /\ runSet = {}
    /\ stored = {}

AddCase(i) ==
    /\ caseSet' = caseSet \cup {i}
    /\ UNCHANGED <<runSet, stored>>

AddRun(r) ==
    /\ r \notin runSet
    /\ runSet' = runSet \cup {r}
    /\ UNCHANGED <<caseSet, stored>>

(* All results of run r appear in one step, for existing cases only. *)
Publish(r, S) ==
    /\ r \in runSet
    /\ \A row \in stored : row.run # r
    /\ S # {}
    /\ S \subseteq caseSet
    /\ stored' = stored \cup {[run |-> r, ident |-> i] : i \in S}
    /\ UNCHANGED <<caseSet, runSet>>

Next ==
    \/ \E i \in Idents : AddCase(i)
    \/ \E r \in RunIds : AddRun(r)
    \/ \E r \in runSet, S \in SUBSET caseSet : Publish(r, S)

Spec == Init /\ [][Next]_vars

=============================================================================
