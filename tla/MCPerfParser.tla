---------------------------- MODULE MCPerfParser ----------------------------
(***************************************************************************)
(* The four parts of TRTPerfParser (trt_perf_parser.py) that build what    *)
(* the uploader stores, checked in one model: the run record (RunInfo),    *)
(* the per-case accumulation of the metric rows (CaseAccumulator), the     *)
(* precision of a case key (CasePrecision) and the JUnit log of a case     *)
(* (JUnitLogLookup).  A behaviour exercises one of them (part, fixed in    *)
(* the initial state); the variables of the others hold Off and never      *)
(* change.  The parts share no variable in the models:  *)
(* each property is its module's property, asserted for its behaviours.   *)
(***************************************************************************)
EXTENDS Naturals

CONSTANTS
    DirectFields, RunRows,      \* RunInfo: field_mapping keys, rows scanned for clocks
    Idents, CaseRows,           \* CaseAccumulator: identities, rows of the CSV
    MaxWords,                   \* CasePrecision: words of a command
    JUnitKeys                   \* JUnitLogLookup: keys of junit_log_map

Off == "off"
Parts == {"runinfo", "cases", "precision", "junitlog"}

(* Metric rows for the accumulation: two cases, rows that set each scalar *)
(* field, LATENCY and INFERENCE_TIME sharing one perf_data name, a row    *)
(* with its own log and one resolved through the JUnit map, one row per   *)
(* skip reason, and the malformed values float() rejects.                 *)
Row(state, kind, net, metric, value, ident, raw, junit, total) ==
    [state |-> state, kind |-> kind, net |-> net, metric |-> metric, value |-> value,
     ident |-> ident, raw |-> raw, junit |-> junit, total |-> total]

MCRows == {
    Row("passed", "perf", TRUE, "LATENCY", "v1", "i1", "L1", "", "t1"),
    Row("passed", "perf", TRUE, "INFERENCE_TIME", "v2", "i1", "", "J1", "t2"),
    Row("passed", "builder_allCache", TRUE, "BUILD_TIME", "v1", "i2", "", "", "t1"),
    Row("passed", "perf", TRUE, "TOKENS_PER_SEC", "v2", "i2", "L2", "", "t2"),
    Row("passed", "perf", TRUE, "SERVER_P99_TTFT", "err", "i2", "", "J1", "t1"),
    Row("failed", "perf", TRUE, "LATENCY", "v2", "i1", "L2", "", "t1"),
    Row("passed", "builder", TRUE, "BUILD_TIME", "v2", "i1", "", "", "t1"),
    Row("passed", "onnx", TRUE, "LATENCY", "v2", "i2", "", "", "t2"),
    Row("passed", "perf", FALSE, "LATENCY", "v2", "i1", "", "", "t2"),
    Row("passed", "perf", TRUE, "", "v2", "i2", "", "", "t2"),
    Row("passed", "perf", TRUE, "LATENCY", "", "i1", "", "", "t2"),
    Row("passed", "perf", TRUE, "LATENCY", "err", "i1", "", "", "t1"),
    Row("passed", "perf", TRUE, "BUILD_TIME", "v2", "i1", "", "", "")
}

(* JUnit keys and test names over the tokens of one network: the empty  *)
(* key of a "[]" testcase, keys that are pieces of the parameters, one    *)
(* with a maxbs token and one with tp and gpus tokens; parameters with    *)
(* the default maxbs:512/maxnt:2048 tokens and with a gpus token, and a   *)
(* test name without brackets.                                            *)
Tok(fam, val) == [fam |-> fam, val |-> val]
Net == Tok("llama", 0)
Bs8 == Tok("bs", 8)
MaxBs == Tok("maxbs", 512)
MaxNt == Tok("maxnt", 2048)
Gpus2 == Tok("gpus", 2)
Tp2 == Tok("tp", 2)

MCKeys == {<<>>, <<Net>>, <<Net, Bs8>>, <<Net, Bs8, MaxBs>>, <<Net, Bs8, Gpus2, Tp2>>}
MCTestNames ==
    {[bracket |-> TRUE, tokens |-> t] :
        t \in {<<Net, Bs8>>, <<Net, Bs8, MaxBs, MaxNt>>, <<Net, Bs8, Gpus2>>}}
    \cup {[bracket |-> FALSE, tokens |-> <<Net, Bs8>>]}

VARIABLES
    part,
    riInfo, riCli, riPc, riRow, riNRows, riSmCol, riMemCol,
    caPc, caHasTotal, caSeen, caOrder, caAcc, caOut,
    cpCommand, cpGpu, cpPrecision,
    jlMap, jlTestName, jlLooked, jlLog

riVars == <<riInfo, riCli, riPc, riRow, riNRows, riSmCol, riMemCol>>
caVars == <<caPc, caHasTotal, caSeen, caOrder, caAcc, caOut>>
cpVars == <<cpCommand, cpGpu, cpPrecision>>
jlVars == <<jlMap, jlTestName, jlLooked, jlLog>>
vars == <<part, riVars, caVars, cpVars, jlVars>>

RI == INSTANCE RunInfo
        WITH MaxRows <- RunRows, runInfo <- riInfo, cli <- riCli, pc <- riPc, row <- riRow,
             nRows <- riNRows, smCol <- riSmCol, memCol <- riMemCol
CA == INSTANCE CaseAccumulator
        WITH Rows <- MCRows, MaxRows <- CaseRows, pc <- caPc, hasTotal <- caHasTotal,
             seen <- caSeen, order <- caOrder, acc <- caAcc, out <- caOut
CP == INSTANCE CasePrecision
        WITH command <- cpCommand, gpu <- cpGpu, precision <- cpPrecision
JL == INSTANCE JUnitLogLookup
        WITH Keys <- MCKeys, TestNames <- MCTestNames, MaxKeys <- JUnitKeys,
             junitLogMap <- jlMap, testName <- jlTestName,
             looked <- jlLooked, log <- jlLog

RIIdle == /\ riInfo = Off /\ riCli = Off /\ riPc = Off /\ riRow = Off
          /\ riNRows = Off /\ riSmCol = Off /\ riMemCol = Off
CAIdle == /\ caPc = Off /\ caHasTotal = Off /\ caSeen = Off /\ caOrder = Off
          /\ caAcc = Off /\ caOut = Off
CPIdle == /\ cpCommand = Off /\ cpGpu = Off /\ cpPrecision = Off
JLIdle == /\ jlMap = Off /\ jlTestName = Off /\ jlLooked = Off /\ jlLog = Off

Init ==
    \/ part = "runinfo" /\ RI!Init /\ CAIdle /\ CPIdle /\ JLIdle
    \/ part = "cases" /\ CA!Init /\ RIIdle /\ CPIdle /\ JLIdle
    \/ part = "precision" /\ CP!Init /\ RIIdle /\ CAIdle /\ JLIdle
    \/ part = "junitlog" /\ JL!Init /\ RIIdle /\ CAIdle /\ CPIdle

Next ==
    \/ part = "runinfo" /\ RI!Next /\ UNCHANGED <<part, caVars, cpVars, jlVars>>
    \/ part = "cases" /\ CA!Next /\ UNCHANGED <<part, riVars, cpVars, jlVars>>
    \/ part = "precision" /\ CP!Next /\ UNCHANGED <<part, riVars, caVars, jlVars>>
    \/ part = "junitlog" /\ JL!Next /\ UNCHANGED <<part, riVars, caVars, cpVars>>

Spec == Init /\ [][Next]_vars

-----------------------------------------------------------------------------
(* Each part's variables have their types while it runs. *)
TypeOK ==
    /\ part \in Parts
    /\ part = "runinfo" => RI!TypeOK
    /\ part = "cases" => CA!TypeOK
    /\ part = "precision" => CP!TypeOK
    /\ part = "junitlog" => JL!TypeOK

(* get_gpu_clocks' unconditional overwrite: after it, the clocks hold     *)
(* only measured values, the monitor's or a metric row's (RunInfo).       *)
MeasuredClocksOnly == part = "runinfo" => RI!MeasuredClocksOnly

(* process_perf_data/format_results_for_db: upload rows in first-seen     *)
(* order of their case identity (CaseAccumulator).                        *)
ResultOrderIsFirstSeen == part = "cases" => CA!ResultOrderIsFirstSeen

(* The same: the last value per metric, the first row's log              *)
(* (CaseAccumulator).                                                     *)
ResultValuesLastWins == part = "cases" => CA!ResultValuesLastWins

(* get_precision_from_command: the precision the command names, else the  *)
(* GPU generation's default (CasePrecision).                              *)
PrecisionMatchesReference == part = "precision" => CP!PrecisionMatchesReference

(* process_perf_data: a row without raw_result gets the log of the JUnit  *)
(* testcase whose parameter equals its own before one merely contained   *)
(* in its name or relaxed-matched (JUnitLogLookup).                       *)
LogLookupPriority == part = "junitlog" => JL!LogLookupPriority

=============================================================================
