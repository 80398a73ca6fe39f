------------------------------- MODULE PerfDB -------------------------------
(***************************************************************************)
(* The database half of the performance uploader (trt_perf_parser.py,      *)
(* class TRTPerfDB and main()).  Several CI steps may run the uploader at  *)
(* the same time against the one shared TRT_perf schema.  Each uploader    *)
(* holds one pymysql connection (autocommit off) and, given its formatted  *)
(* results (one case identity per result, no repeats: they are the keys    *)
(* of cases_results), does:                                                *)
(*   create_run_table      INSERT into runs; commit, or rollback and -1    *)
(*   get_or_create_case_id SELECT the case; if absent INSERT and commit    *)
(*   insert_perf_results   executemany into perf_result; commit, or        *)
(*                         rollback the whole batch                        *)
(*   main                  print the report link once run_id != -1         *)
(* The tables are append-only: cases[id] is the identity of case row id,   *)
(* run and case ids are the auto-increment values (lastrowid).             *)
(***************************************************************************)
EXTENDS Integers, Sequences, FiniteSets

CONSTANTS
    Uploaders,      \* concurrent uploader processes (model values)
    Idents,         \* case identities (framework, network, bs, precision, cmd)
    RepeatableRead  \* TRUE: InnoDB default isolation, a transaction reads
                    \* from the snapshot taken by its first SELECT

ASSUME RepeatableRead \in BOOLEAN

NoRun == -1         \* run_id = -1 of create_run_table
NoSnapshot == -1    \* no read view open on the connection

VARIABLES
    cases,       \* the cases table: cases[id] = identity of row id
    runs,        \* ids of the rows of the runs table
    nextRunId,   \* next auto-increment value of runs
    perfResult,  \* rows of perf_result: [run, case]; ident is the identity
                 \* of the result the row was built from (observation only)
    work,        \* work[u]: identities of u's results_data, in order
    pc,          \* where uploader u is in main()
    runId,       \* run_id returned by create_run_table
    idx,         \* index of the result insert_perf_results is resolving
    caseIds,     \* case ids resolved so far (the case_id column of sql_result_data)
    snapshot,    \* Len(cases) when the connection's read view was taken
    reported     \* main() printed the TRTPerf report link

vars == <<cases, runs, nextRunId, perfResult, work, pc, runId, idx,
          caseIds, snapshot, reported>>

(* Sequences over S without repeats, of length 1..Len(S). *)
DistinctSeqs(S) ==
    UNION { {f \in [1..n -> S] : \A i, j \in 1..n : i # j => f[i] # f[j]}
            : n \in 1..Cardinality(S) }

PC == {"create_run", "select", "insert", "insert_results", "done", "crashed"}

RowType == [run : Nat, case : Nat, ident : Idents]

TypeOK ==
    /\ cases \in Seq(Idents)
    /\ runs \subseteq 1..nextRunId
    /\ nextRunId \in Nat \ {0}
    /\ perfResult \subseteq RowType
    /\ work \in [Uploaders -> DistinctSeqs(Idents)]
    /\ pc \in [Uploaders -> PC]
    /\ runId \in [Uploaders -> Nat \cup {NoRun}]
    /\ idx \in [Uploaders -> Nat \ {0}]
    /\ caseIds \in [Uploaders -> Seq(Nat)]
    /\ snapshot \in [Uploaders -> Nat \cup {NoSnapshot}]
    /\ reported \in [Uploaders -> BOOLEAN]

(* Cases left by earlier uploads: the table is global across all runs.    *)
(* Every uploader here has results (main skips the DB when it has none).  *)
Init ==
    /\ cases \in {<<>>} \cup DistinctSeqs(Idents)
    /\ runs = {}
    /\ nextRunId = 1
    /\ perfResult = {}
    /\ work \in [Uploaders -> DistinctSeqs(Idents)]
    /\ pc = [u \in Uploaders |-> "create_run"]
    /\ runId = [u \in Uploaders |-> NoRun]
    /\ idx = [u \in Uploaders |-> 1]
    /\ caseIds = [u \in Uploaders |-> <<>>]
    /\ snapshot = [u \in Uploaders |-> NoSnapshot]
    /\ reported = [u \in Uploaders |-> FALSE]

(* Where the loop over results_data goes after resolving result idx[u]. *)
AfterResolve(u) == IF idx[u] = Len(work[u]) THEN "insert_results" ELSE "select"

(* Bug variants of the steps below: each is what a plausible slip in that *)
(* code would do, kept to show which property notices it.                 *)
CreateRunTableNoGuard(u) ==      \* main() without its run_id != -1 check
    /\ pc[u] = "create_run"
    /\ \/ /\ runs' = runs \cup {nextRunId}
          /\ runId' = [runId EXCEPT ![u] = nextRunId]
          /\ nextRunId' = nextRunId + 1
       \/ UNCHANGED <<runs, runId, nextRunId>>
    /\ pc' = [pc EXCEPT ![u] = "select"]
    /\ snapshot' = [snapshot EXCEPT ![u] = NoSnapshot]
    /\ UNCHANGED <<cases, perfResult, work, idx, caseIds, reported>>

CreateRunTableIdBeforeCommit(u) ==  \* run_id = lastrowid kept although commit failed
    /\ pc[u] = "create_run"
    /\ \/ runs' = runs \cup {nextRunId}
       \/ UNCHANGED runs
    /\ runId' = [runId EXCEPT ![u] = nextRunId]
    /\ nextRunId' = nextRunId + 1
    /\ pc' = [pc EXCEPT ![u] = "select"]
    /\ snapshot' = [snapshot EXCEPT ![u] = NoSnapshot]
    /\ UNCHANGED <<cases, perfResult, work, idx, caseIds, reported>>

(* create_run_table: INSERT and commit, or on any exception rollback and   *)
(* return -1, after which main() skips insert_perf_results and closes.     *)
CreateRunTable(u) ==
    /\ pc[u] = "create_run"
    /\ \/ /\ runs' = runs \cup {nextRunId}
          /\ runId' = [runId EXCEPT ![u] = nextRunId]
          /\ nextRunId' = nextRunId + 1
          /\ pc' = [pc EXCEPT ![u] = "select"]
       \/ /\ pc' = [pc EXCEPT ![u] = "done"]
          /\ UNCHANGED <<runs, runId, nextRunId>>
    /\ snapshot' = [snapshot EXCEPT ![u] = NoSnapshot]
    /\ UNCHANGED <<cases, perfResult, work, idx, caseIds, reported>>

(* The rows of cases the connection sees: under REPEATABLE READ those of   *)
(* the read view (taken now if none is open), else every committed row.   *)
ReadView(u) ==
    IF RepeatableRead /\ snapshot[u] # NoSnapshot THEN snapshot[u] ELSE Len(cases)

(* get_or_create_case_id, the SELECT: return case_id[0][0] of the rows     *)
(* matching the identity (no ORDER BY: any of them), or go on to INSERT.   *)
SelectCase(u) ==
    LET view    == ReadView(u)
        ident   == work[u][idx[u]]
        matches == {c \in 1..view : cases[c] = ident}
    IN
    /\ pc[u] = "select"
    /\ snapshot' = [snapshot EXCEPT ![u] = IF RepeatableRead THEN view ELSE NoSnapshot]
    /\ \/ /\ matches # {}
          /\ \E c \in matches : caseIds' = [caseIds EXCEPT ![u] = Append(@, c)]
          /\ idx' = [idx EXCEPT ![u] = @ + 1]
          /\ pc' = [pc EXCEPT ![u] = AfterResolve(u)]
       \/ /\ matches = {}
          /\ pc' = [pc EXCEPT ![u] = "insert"]
          /\ UNCHANGED <<caseIds, idx>>
    /\ UNCHANGED <<cases, runs, nextRunId, perfResult, work, runId, reported>>

(* get_or_create_case_id, the INSERT: commit and return lastrowid.         *)
InsertCase(u) ==
    /\ pc[u] = "insert"
    /\ cases' = Append(cases, work[u][idx[u]])
    /\ caseIds' = [caseIds EXCEPT ![u] = Append(@, Len(cases) + 1)]
    /\ idx' = [idx EXCEPT ![u] = @ + 1]
    /\ pc' = [pc EXCEPT ![u] = AfterResolve(u)]
    /\ snapshot' = [snapshot EXCEPT ![u] = NoSnapshot]
    /\ UNCHANGED <<runs, nextRunId, perfResult, work, runId, reported>>

(* get_or_create_case_id has no try: a failed SELECT or INSERT raises out  *)
(* of main(); the process dies and its open transaction is rolled back.    *)
CaseQueryFails(u) ==
    /\ pc[u] \in {"select", "insert"}
    /\ pc' = [pc EXCEPT ![u] = "crashed"]
    /\ snapshot' = [snapshot EXCEPT ![u] = NoSnapshot]
    /\ UNCHANGED <<cases, runs, nextRunId, perfResult, work, runId, idx,
                   caseIds, reported>>

(* insert_perf_results' executemany and commit (or rollback of the whole   *)
(* batch, caught and printed), then main() prints the report link since    *)
(* run_id != -1, and closes the connection.                                *)
InsertPerfResults(u) ==
    LET rows == {[run |-> runId[u], case |-> caseIds[u][k], ident |-> work[u][k]]
                   : k \in 1..Len(work[u])}
    IN
    /\ pc[u] = "insert_results"
    /\ \/ perfResult' = perfResult \cup rows
       \/ UNCHANGED perfResult
    /\ reported' = [reported EXCEPT ![u] = TRUE]
    /\ pc' = [pc EXCEPT ![u] = "done"]
    /\ snapshot' = [snapshot EXCEPT ![u] = NoSnapshot]
    /\ UNCHANGED <<cases, runs, nextRunId, work, runId, idx, caseIds>>

Next ==
    \E u \in Uploaders :
        \/ CreateRunTable(u)
        \/ SelectCase(u)
        \/ InsertCase(u)
        \/ CaseQueryFails(u)
        \/ InsertPerfResults(u)

Spec == Init /\ [][Next]_vars

-----------------------------------------------------------------------------
(* Rows of perf_result written for run r. *)
RowsOf(r) == {row \in perfResult : row.run = r}

(* main() prints the TRTPerf report link only after the results of the run *)
(* were inserted (spec 4.7: "on successful insertion, prints a link").     *)
ReportedImpliesStored ==
    \A u \in Uploaders : reported[u] =>
        {row.ident : row \in RowsOf(runId[u])} = {work[u][k] : k \in 1..Len(work[u])}

=============================================================================
