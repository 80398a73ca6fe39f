------------------------------ MODULE RunInfo ------------------------------
(***************************************************************************)
(* How TRTPerfParser (trt_perf_parser.py) assembles the run record that    *)
(* create_run_table stores: the constructor takes the CLI values, then     *)
(* process_perf_data calls get_session_properties, get_gpu_clocks and      *)
(* scans the metric rows for sm_clk/mem_clk.  A field's value is abstracted *)
(* to where it came from ("" when empty), which is what precedence between *)
(* the sources is about.  Inputs (what the CLI, the CSV files and the      *)
(* GitHub/Jenkins lookups yield) are chosen when the step reads them.      *)
(***************************************************************************)
EXTENDS Naturals

CONSTANTS
    DirectFields,  \* keys of field_mapping in get_session_properties
    MaxRows        \* rows of the metric CSV scanned for clocks

ASSUME MaxRows \in Nat

Clocks == {"sm_clock", "mem_clock"}
Extracted == {"gpu", "os", "cpu"}          \* parsed out of OrderedDict strings
CliFields == DirectFields \cup Extracted \cup Clocks
Fields == CliFields \cup {"commit_time"}

Src == {"", "cli", "props", "monitor", "row", "github", "job"}
Empty == ""

VARIABLES
    runInfo,   \* runInfo[f]: source of run_info[f], "" when empty
    cli,       \* CLI fields given non-empty
    pc,        \* step of process_perf_data reached; "nocsv" after its early return
    row,       \* metric rows scanned so far by the clock loop
    nRows,     \* data rows of the metric CSV
    smCol,     \* the metric CSV has an sm_clk column
    memCol     \* the metric CSV has a mem_clk column

vars == <<runInfo, cli, pc, row, nRows, smCol, memCol>>

TypeOK ==
    /\ runInfo \in [Fields -> Src]
    /\ cli \subseteq CliFields
    /\ pc \in {"construct", "csv", "props", "clocks", "scan", "rows", "done", "nocsv"}
    /\ row \in 0..MaxRows
    /\ nRows \in 0..MaxRows
    /\ smCol \in BOOLEAN
    /\ memCol \in BOOLEAN

Init ==
    /\ runInfo = [f \in Fields |-> Empty]
    /\ cli = {}
    /\ pc = "construct"
    /\ row = 0
    /\ nRows = 0
    /\ smCol = FALSE
    /\ memCol = FALSE

(* _get_commit_time: GitHub by commit hash, else the Jenkins job log, each *)
(* lookup yielding a time, nothing, or an exception that is printed.       *)
CommitTimeSources == {Empty, "github", "job"}

(* TRTPerfParser.__init__: every CLI value stripped; commit_time from the  *)
(* CLI or else from _get_commit_time.                                      *)
Construct ==
    /\ pc = "construct"
    /\ \E given \in SUBSET CliFields, fetched \in CommitTimeSources, cliCommit \in BOOLEAN :
          /\ cli' = given
          /\ runInfo' = [f \in Fields |->
                           IF f = "commit_time"
                           THEN IF cliCommit THEN "cli" ELSE fetched
                           ELSE IF f \in given THEN "cli" ELSE Empty]
    /\ pc' = "csv"
    /\ UNCHANGED <<row, nRows, smCol, memCol>>

(* process_perf_data returns at once when the metric CSV is missing. *)
CheckMetricCsv ==
    /\ pc = "csv"
    /\ \/ pc' = "nocsv"
       \/ pc' = "props"
    /\ UNCHANGED <<runInfo, cli, row, nRows, smCol, memCol>>

(* Fill f from src only if run_info[f] is still empty. *)
FillEmpty(info, f, src) == IF info[f] = Empty THEN [info EXCEPT ![f] = src] ELSE info

(* The field_mapping loop and the gpu/os/cpu extraction: each field of fs *)
(* that is still empty takes src.                                         *)
FillEmptyAll(info, fs, src) ==
    [f \in DOMAIN info |-> IF f \in fs /\ info[f] = Empty THEN src ELSE info[f]]

(* get_session_properties: with a properties CSV that has a row, each     *)
(* mapped column fills its field if empty; gpu/os/cpu come from regex     *)
(* matches on the OrderedDict strings; sm_clk/mem_clk, then the "Graph/   *)
(* Memory Clock(MHz)" columns, fill the clocks if still empty (an empty   *)
(* cell leaves the clock empty).                                          *)
GetSessionProperties ==
    /\ pc = "props"
    /\ \/ UNCHANGED runInfo                     \* no file, or no data row
       \/ \E direct \in SUBSET DirectFields, extracted \in SUBSET Extracted,
             smCell \in {"absent", "empty", "value"}, graphCell \in {"absent", "empty", "value"},
             memCell \in {"absent", "empty", "value"}, memGraphCell \in {"absent", "empty", "value"} :
            LET Cell(c) == IF c = "value" THEN "props" ELSE Empty
                Clock(info, f, c) == IF c # "absent" THEN FillEmpty(info, f, Cell(c)) ELSE info
                i1 == FillEmptyAll(runInfo, direct \cup extracted, "props")
                i2 == Clock(Clock(i1, "sm_clock", smCell), "mem_clock", memCell)
            IN runInfo' = Clock(Clock(i2, "sm_clock", graphCell), "mem_clock", memGraphCell)
    /\ pc' = "clocks"
    /\ UNCHANGED <<cli, row, nRows, smCol, memCol>>

(* Bug variant: the monitoring SM clock stored under the CSV column name *)
(* "sm_clk", a key run_info does not have.                              *)
GetGpuClocksKeyTypo ==
    /\ pc = "clocks"
    /\ \E hasMem \in BOOLEAN :
         runInfo' = [f \in DOMAIN runInfo \cup {"sm_clk"} |->
                       CASE f = "sm_clk" -> "monitor"
                         [] f = "mem_clock" -> IF hasMem THEN "monitor" ELSE Empty
                         [] OTHER -> runInfo[f]]
    /\ pc' = "scan"
    /\ UNCHANGED <<cli, row, nRows, smCol, memCol>>

(* Bug variant: get_gpu_clocks sets a clock only while it is empty. *)
GetGpuClocksKeepSet ==
    /\ pc = "clocks"
    /\ \E hasSm, hasMem \in BOOLEAN :
         runInfo' = FillEmpty(FillEmpty(runInfo, "sm_clock", IF hasSm THEN "monitor" ELSE Empty),
                              "mem_clock", IF hasMem THEN "monitor" ELSE Empty)
    /\ pc' = "scan"
    /\ UNCHANGED <<cli, row, nRows, smCol, memCol>>

(* get_gpu_clocks: without the monitoring file, or on any exception while *)
(* reading it, both clocks are set to ""; otherwise each is the most      *)
(* frequent value of its column, or "" when the column is missing.  The   *)
(* assignment is unconditional.                                           *)
GetGpuClocks ==
    /\ pc = "clocks"
    /\ \/ runInfo' = [runInfo EXCEPT !["sm_clock"] = Empty, !["mem_clock"] = Empty]
       \/ \E hasSm, hasMem \in BOOLEAN :
            runInfo' = [runInfo EXCEPT !["sm_clock"] = IF hasSm THEN "monitor" ELSE Empty,
                                       !["mem_clock"] = IF hasMem THEN "monitor" ELSE Empty]
    /\ pc' = "scan"
    /\ UNCHANGED <<cli, row, nRows, smCol, memCol>>

(* read_csv of the metric file: its rows and which clock columns its     *)
(* header has (csv.DictReader gives every row every column).              *)
ReadMetricCsv ==
    /\ pc = "scan"
    /\ nRows' \in 0..MaxRows
    /\ smCol' \in BOOLEAN
    /\ memCol' \in BOOLEAN
    /\ pc' = "rows"
    /\ UNCHANGED <<runInfo, cli, row>>

(* One turn of the clock loop of process_perf_data: an empty clock takes  *)
(* the row's cell when the column exists (the cell may itself be empty);  *)
(* the loop breaks once both clocks are set or the rows run out.          *)
BackfillRow ==
    /\ pc = "rows"
    /\ row < nRows
    /\ \E smCell, memCell \in {"row", Empty} :
          LET i1 == IF smCol THEN FillEmpty(runInfo, "sm_clock", smCell) ELSE runInfo
              i2 == IF memCol THEN FillEmpty(i1, "mem_clock", memCell) ELSE i1
          IN /\ runInfo' = i2
             /\ pc' = IF i2["sm_clock"] # Empty /\ i2["mem_clock"] # Empty
                      THEN "done" ELSE "rows"
    /\ row' = row + 1
    /\ UNCHANGED <<cli, nRows, smCol, memCol>>

(* The loop ends with the last row. *)
RowsExhausted ==
    /\ pc = "rows"
    /\ row = nRows
    /\ pc' = "done"
    /\ UNCHANGED <<runInfo, cli, row, nRows, smCol, memCol>>

Next ==
    \/ Construct
    \/ CheckMetricCsv
    \/ GetSessionProperties
    \/ GetGpuClocks
    \/ ReadMetricCsv
    \/ BackfillRow
    \/ RowsExhausted

Spec == Init /\ [][Next]_vars

-----------------------------------------------------------------------------
(* get_gpu_clocks runs after get_session_properties and assigns both      *)
(* clocks unconditionally (spec 4.7), and the row scan only fills empty    *)
(* ones: once process_perf_data has read the metric CSV, a clock holds the *)
(* monitoring file's mode, a metric row's value, or nothing, never the     *)
(* --sm-clock/--mem-clock value or a session-properties column.            *)
MeasuredClocksOnly ==
    pc \in {"scan", "rows", "done"} => \A c \in Clocks : runInfo[c] \in {Empty, "monitor", "row"}

=============================================================================
