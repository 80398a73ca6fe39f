------------------------------ MODULE MCPerfDB ------------------------------
(* Model-checking instance of PerfDB: the refinement mapping onto         *)
(* PerfStore and the bound on the model.                                  *)
EXTENDS PerfDB

(* The report's view of the tables: the identities of the case rows, the  *)
(* runs, and each perf_result row as its run and its case's identity.     *)
Store == INSTANCE PerfStore WITH
    caseSet <- {cases[c] : c \in 1..Len(cases)},
    runSet  <- runs,
    stored  <- {[run |-> row.run, ident |-> cases[row.case]] : row \in perfResult},
    RunIds  <- 1..Cardinality(Uploaders)

(* The uploader publishes its results as the report promises. *)
StoreRefinement == Store!Spec

=============================================================================
