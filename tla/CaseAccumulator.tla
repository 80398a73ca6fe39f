--------------------------- MODULE CaseAccumulator ---------------------------
(***************************************************************************)
(* The row loop of TRTPerfParser.process_perf_data and                     *)
(* format_results_for_db (trt_perf_parser.py): metric CSV rows are         *)
(* filtered, keyed by their case identity and accumulated into the         *)
(* insertion-ordered dict cases_results, which is then flattened into the  *)
(* rows insert_perf_results uploads.                                       *)
(*                                                                         *)
(* A row is a record of what the loop tests.  Its case identity (the       *)
(* 5-tuple built by get_precision_from_command, extract_batch_from_network, *)
(* format_command and the test_perf_metric network override) is the field  *)
(* ident; its log is raw_result, or what the JUnit log map lookup resolves *)
(* to.  A metric value is a token standing for a numeral: "err" is the     *)
(* non-numeric value the harness writes, on which float() raises.          *)
(***************************************************************************)
EXTENDS Naturals, Sequences, SequencesExt

CONSTANTS
    Rows,       \* the rows a metric CSV may contain
    Idents,     \* case identities
    MaxRows     \* rows in the metric CSV

ASSUME MaxRows \in Nat

None == "None"          \* a metric never set
Zero == "0.0"           \* format_results_for_db's default for None
Err == "err"            \* a perf_metric float() cannot parse

(* Metric types routed into the scalar fields of a case. *)
GpuTimeTypes == {"INFERENCE_TIME", "LATENCY", "SERVER_E2EL", "SERVER_MEDIAN_E2EL"}
BuildTimeTypes == {"BUILD_TIME"}
ThroughputTypes == {"TOKEN_THROUGHPUT", "TOKENS_PER_SEC"}

(* metrics_map, restricted to the types the rows use; an unmapped type is  *)
(* lower-cased, which is injective on the upper-case types, so it keeps    *)
(* its own name here.                                                       *)
MetricsMap ==
    ("LATENCY" :> "run_time__msec") @@ ("INFERENCE_TIME" :> "run_time__msec")
    @@ ("BUILD_TIME" :> "engine_build_time__sec") @@ ("TOKENS_PER_SEC" :> "tokens_per__sec")
    @@ ("TOKEN_THROUGHPUT" :> "tokens_per__sec")

MappedMetric(t) == IF t \in DOMAIN MetricsMap THEN MetricsMap[t] ELSE t

VARIABLES
    pc,         \* "rows" in the loop, "format", "done", or "crashed"
    hasTotal,   \* the CSV header has a total_time__sec column
    seen,       \* rows read so far, in file order
    order,      \* keys of cases_results, in insertion order
    acc,        \* cases_results: key -> accumulator
    out         \* format_results_for_db()

vars == <<pc, hasTotal, seen, order, acc, out>>

(* The CSV has been read: its header fixes whether total_time__sec exists. *)
Init ==
    /\ pc = "rows"
    /\ hasTotal \in BOOLEAN
    /\ seen = <<>>
    /\ order = <<>>
    /\ acc = <<>>
    /\ out = <<>>

(* The continue statements at the top of the loop. *)
Kept(r) ==
    /\ r.state # "failed"
    /\ r.kind # "onnx"
    /\ r.kind # "builder"          \* test_builder_perf.py:: without allCache
    /\ r.net
    /\ r.metric # ""
    /\ r.value # ""

(* raw_result, else the JUnit log map lookup. *)
LogOf(r) == IF r.raw # "" THEN r.raw ELSE r.junit

Values == {None, Zero} \cup {r.value : r \in Rows} \cup {r.total : r \in Rows}
Logs == {LogOf(r) : r \in Rows}
MetricNames == {MappedMetric(r.metric) : r \in Rows}
PerfData == UNION {[D -> Values] : D \in SUBSET MetricNames}
Accumulator == [gpu : Values, total : Values, build : Values, tput : Values,
                perf : PerfData, log : Logs]

TypeOK ==
    /\ pc \in {"rows", "format", "done", "crashed"}
    /\ hasTotal \in BOOLEAN
    /\ seen \in BoundedSeq(Rows, MaxRows)
    /\ order \in BoundedSeq(Idents, MaxRows)
    /\ DOMAIN acc = ToSet(order)
    /\ \A k \in DOMAIN acc : acc[k] \in Accumulator
    /\ out \in Seq([ident : Idents, gpu : Values, total : Values, build : Values,
                    tput : Values, perf : PerfData, log : Logs])

(* float() of the row's values that the loop converts. *)
Raises(r) ==
    \/ r.metric \in GpuTimeTypes \cup BuildTimeTypes \cup ThroughputTypes /\ r.value = Err
    \/ hasTotal /\ r.total \in {"", Err}

NewCase(r) == [gpu |-> None, total |-> None, build |-> None, tput |-> None,
               perf |-> <<>>, log |-> LogOf(r)]

(* Bug variant: the log is refreshed by every row of the case. *)
UpdateLogEveryRow(c, r) ==
    [c EXCEPT
        !.gpu = IF r.metric \in GpuTimeTypes THEN r.value ELSE @,
        !.build = IF r.metric \in BuildTimeTypes THEN r.value ELSE @,
        !.tput = IF r.metric \in ThroughputTypes THEN r.value ELSE @,
        !.perf = (MappedMetric(r.metric) :> r.value) @@ @,
        !.total = IF hasTotal THEN r.total ELSE @,
        !.log = LogOf(r)]

(* The updates the loop body makes to one case's accumulator. *)
Update(c, r) ==
    [c EXCEPT
        !.gpu = IF r.metric \in GpuTimeTypes THEN r.value ELSE @,
        !.build = IF r.metric \in BuildTimeTypes THEN r.value ELSE @,
        !.tput = IF r.metric \in ThroughputTypes THEN r.value ELSE @,
        !.perf = (MappedMetric(r.metric) :> r.value) @@ @,
        !.total = IF hasTotal THEN r.total ELSE @]

(* Bug variant: a case that is updated moves to the end of the order. *)
InsertKeyMoveToEnd(o, k) == Append(SelectSeq(o, LAMBDA x : x # k), k)

(* A dict assignment: a new key goes last, an existing one keeps its place. *)
InsertKey(o, k) == IF k \in ToSet(o) THEN o ELSE Append(o, k)

(* One iteration of the row loop. *)
ProcessRow ==
    /\ pc = "rows"
    /\ Len(seen) < MaxRows
    /\ \E r \in Rows :
          /\ seen' = Append(seen, r)
          /\ IF ~Kept(r)
             THEN UNCHANGED <<pc, order, acc>>
             ELSE IF Raises(r)
             THEN /\ pc' = "crashed"
                  /\ UNCHANGED <<order, acc>>
             ELSE LET new == r.ident \notin DOMAIN acc
                      c == IF new THEN NewCase(r) ELSE acc[r.ident]
                  IN /\ order' = InsertKey(order, r.ident)
                     /\ acc' = (r.ident :> Update(c, r)) @@ acc
                     /\ UNCHANGED pc
    /\ UNCHANGED <<hasTotal, out>>

(* The loop runs out of rows. *)
EndOfRows ==
    /\ pc = "rows"
    /\ pc' = "format"
    /\ UNCHANGED <<hasTotal, seen, order, acc, out>>

OrZero(v) == IF v = None THEN Zero ELSE v

(* format_results_for_db: one row per case in insertion order. *)
FormatResults ==
    /\ pc = "format"
    /\ out' = [n \in 1..Len(order) |->
                 LET c == acc[order[n]] IN
                 [ident |-> order[n], gpu |-> OrZero(c.gpu), total |-> OrZero(c.total),
                  build |-> OrZero(c.build), tput |-> OrZero(c.tput),
                  perf |-> c.perf, log |-> c.log]]
    /\ pc' = "done"
    /\ UNCHANGED <<hasTotal, seen, order, acc>>

Next == ProcessRow \/ EndOfRows \/ FormatResults

Spec == Init /\ [][Next]_vars

-----------------------------------------------------------------------------
(* Reference definition of the upload rows, from the rows read: the kept  *)
(* rows, the first position of each case identity among them, and for     *)
(* each case the last kept row that sets a field.                          *)
KeptRows == SelectSeq(seen, Kept)

FirstPositions ==
    {i \in 1..Len(KeptRows) : \A j \in 1..(i - 1) : KeptRows[j].ident # KeptRows[i].ident}

RefOrder == [n \in 1..Cardinality(FirstPositions) |->
                KeptRows[SetToSortSeq(FirstPositions, <)[n]].ident]

LastOf(id, Test(_)) == SelectLastInSeq(KeptRows, LAMBDA r : r.ident = id /\ Test(r))

LastValue(id, types) ==
    LET i == LastOf(id, LAMBDA r : r.metric \in types) IN
    IF i = 0 THEN Zero ELSE KeptRows[i].value

RefRow(id) ==
    LET rows == {KeptRows[i] : i \in {j \in 1..Len(KeptRows) : KeptRows[j].ident = id}}
        names == {MappedMetric(r.metric) : r \in rows}
    IN [ident |-> id,
        gpu |-> LastValue(id, GpuTimeTypes),
        total |-> IF hasTotal THEN KeptRows[LastOf(id, LAMBDA r : TRUE)].total ELSE Zero,
        build |-> LastValue(id, BuildTimeTypes),
        tput |-> LastValue(id, ThroughputTypes),
        perf |-> [m \in names |->
                    KeptRows[LastOf(id, LAMBDA r : MappedMetric(r.metric) = m)].value],
        log |-> LogOf(KeptRows[SelectInSeq(KeptRows, LAMBDA r : r.ident = id)])]

(* The upload rows come in the order in which each case identity first    *)
(* appears among the kept metric rows (spec 9: an update keeps the        *)
(* position of the first insertion into cases_results).                  *)
ResultOrderIsFirstSeen ==
    pc = "done" => [n \in DOMAIN out |-> out[n].ident] = RefOrder

(* Each upload row carries, per metric field, the value of the last kept  *)
(* row of its case that sets it (0.0 if none), every mapped metric of its *)
(* rows in perf_data with its last value, the total time of its last row, *)
(* and the log resolved for its first row (spec 3: later numeric fields    *)
(* overwrite earlier ones; the log is set when the case is created).      *)
ResultValuesLastWins ==
    pc = "done" => \A n \in DOMAIN out : out[n] = RefRow(out[n].ident)

=============================================================================
