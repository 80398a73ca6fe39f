----------------------------- MODULE JUnitMerge -----------------------------
(***************************************************************************)
(* merge_junit_xmls (merge_junit_xml.py): input files are read in order,   *)
(* every <testcase> is stored in an OrderedDict under classname::name (a   *)
(* later one replaces the earlier element but keeps its position), totals  *)
(* are counted over the survivors, and one <testsuite> is written and a    *)
(* summary printed.                                                        *)
(*                                                                         *)
(* A testcase is abstracted to its identity, the set of its failure /      *)
(* error / skipped children and its time attribute: a numeral, or text   *)
(* that float() rejects.                                                   *)
(***************************************************************************)
EXTENDS Integers, Sequences, SequencesExt, FiniteSets

CONSTANTS
    Ids,        \* classname::name identities
    Times,      \* numeric time attributes
    MaxFiles,   \* input files on the command line
    MaxCases    \* testcases per file

NotANumber == -1    \* a time attribute float() rejects

Markups == {{}, {"failure"}, {"error"}, {"skipped"}, {"failure", "error"}}
TestCase == [id : Ids, markup : Markups, time : Times \cup {NotANumber}]
InputFile == [kind : {"missing", "unparsable"}, cases : {<<>>}]
             \cup [kind : {"ok"}, cases : BoundedSeq(TestCase, MaxCases)]

VARIABLES
    inputs,     \* input_files
    next,       \* index of the next input file
    cases,      \* test_cases: the OrderedDict, as a sequence of testcases
    totals,     \* the counters written into the <testsuite> attributes
    passed,     \* the "Passed:" number of the printed summary
    output,     \* the testcases of the written <testsuite>
    pc

vars == <<inputs, next, cases, totals, passed, output, pc>>

Totals == [tests : Nat, failures : Nat, errors : Nat, skipped : Nat, time : Nat]
NoTotals == [tests |-> 0, failures |-> 0, errors |-> 0, skipped |-> 0, time |-> 0]

TypeOK ==
    /\ inputs \in Seq(InputFile) /\ Len(inputs) <= MaxFiles
    /\ next \in 1..(MaxFiles + 1)
    /\ cases \in Seq(TestCase)
    /\ totals \in Totals
    /\ passed \in Int
    /\ output \in Seq(TestCase)
    /\ pc \in {"read", "done"}

Init ==
    /\ inputs \in BoundedSeq(InputFile, MaxFiles)
    /\ inputs # <<>>                       \* main exits with usage otherwise
    /\ next = 1
    /\ cases = <<>>
    /\ totals = NoTotals
    /\ passed = 0
    /\ output = <<>>
    /\ pc = "read"

(* Bug variant: an identity already stored keeps its first testcase. *)
StoreFirstWins(d, tc) ==
    IF SelectInSeq(d, LAMBDA x : x.id = tc.id) = 0 THEN Append(d, tc) ELSE d

(* test_cases[test_id] = testcase *)
Store(d, tc) ==
    LET i == SelectInSeq(d, LAMBDA x : x.id = tc.id) IN
    IF i = 0 THEN Append(d, tc) ELSE [d EXCEPT ![i] = tc]

(* The testcase loop of one file. *)
StoreAll(d, s) == FoldLeft(Store, d, s)

(* One turn of the file loop: a missing or unparsable file is skipped     *)
(* with a message; otherwise its testcases are stored in document order.  *)
ReadFile ==
    /\ pc = "read"
    /\ next <= Len(inputs)
    /\ cases' = IF inputs[next].kind = "ok" THEN StoreAll(cases, inputs[next].cases) ELSE cases
    /\ next' = next + 1
    /\ UNCHANGED <<inputs, totals, passed, output, pc>>

(* float(time) with ValueError ignored. *)
TimeOf(tc) == IF tc.time \in Nat THEN tc.time ELSE 0

(* The statistics loop over the surviving testcases. *)
Count(d) ==
    [tests |-> Len(d),
     failures |-> Cardinality({i \in DOMAIN d : "failure" \in d[i].markup}),
     errors |-> Cardinality({i \in DOMAIN d : "error" \in d[i].markup}),
     skipped |-> Cardinality({i \in DOMAIN d : "skipped" \in d[i].markup}),
     time |-> FoldSeq(LAMBDA tc, t : TimeOf(tc) + t, 0, d)]

(* After the file loop: count, write the <testsuite>, print the summary. *)
WriteMerged ==
    /\ pc = "read"
    /\ next > Len(inputs)
    /\ totals' = Count(cases)
    /\ output' = cases
    /\ passed' = totals'.tests - totals'.failures - totals'.errors - totals'.skipped
    /\ pc' = "done"
    /\ UNCHANGED <<inputs, next, cases>>

Next == ReadFile \/ WriteMerged

Spec == Init /\ [][Next]_vars

-----------------------------------------------------------------------------
(* Every testcase of the parsed input files, in reading order. *)
AllRead == FlattenSeq([i \in DOMAIN inputs |-> inputs[i].cases])

FirstPositions ==
    {i \in DOMAIN AllRead : \A j \in 1..(i - 1) : AllRead[j].id # AllRead[i].id}

(* The written suite has one testcase per identity read, placed where the  *)
(* identity was first seen and taken whole from the latest file that has  *)
(* it (spec 4.1 and 8.1: a later file's testcase replaces the earlier one  *)
(* outright, in the earlier one's position).                              *)
MergeKeepsLastAtFirstPosition ==
    pc = "done" =>
        output = [n \in 1..Cardinality(FirstPositions) |->
                    LET id == AllRead[SetToSortSeq(FirstPositions, <)[n]].id
                    IN AllRead[SelectLastInSeq(AllRead, LAMBDA tc : tc.id = id)]]

(* The printed "Passed:" count is the number of surviving testcases with  *)
(* no failure, error or skipped child (spec 4.1: the summary reports       *)
(* passed/failed/errors/skipped).                                         *)
PassedCountsPassingCases ==
    pc = "done" =>
        passed = Cardinality({i \in DOMAIN output : output[i].markup = {}})

=============================================================================
