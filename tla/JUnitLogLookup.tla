--------------------------- MODULE JUnitLogLookup ---------------------------
(***************************************************************************)
(* The log of a performance case in trt_perf_parser.py when its metric row *)
(* has no raw_result: process_perf_data walks junit_log_map (built by      *)
(* parse_junit_xml, one key per JUnit testcase in file order) and takes    *)
(* the first key that equals the test parameter, occurs in the test name,  *)
(* or matches the parameter under _relaxed_match; nothing found leaves the *)
(* log empty.                                                              *)
(*                                                                         *)
(* A test parameter or JUnit key is a hyphen-joined string, abstracted to  *)
(* the sequence of its "-"-separated tokens; a token is a record of its    *)
(* family (the text before ":") and value.  A key occurs in a test name    *)
(* when its tokens are a contiguous piece of the name's tokens: with       *)
(* tokens none of which contains the text of another, that is what the     *)
(* substring test finds.  Every name starts with its network token, so    *)
(* re.sub(r'-?maxbs:512', ...) always takes a leading "-" with the token.  *)
(* The log of a key is its testcase's system-out, named by the key.        *)
(***************************************************************************)
EXTENDS Naturals, Sequences, SequencesExt

CONSTANTS
    Keys,       \* candidate junit_log_map keys (token sequences)
    TestNames,  \* candidate test names: [bracket : BOOLEAN, tokens : Seq]
    MaxKeys     \* keys of one junit_log_map

NoLog == <<>>       \* log_val = "": the empty token sequence

VARIABLES
    junitLogMap,    \* the keys of junit_log_map, in insertion order
    testName,       \* the row's test_name
    looked,         \* the lookup has run
    log             \* log_val

vars == <<junitLogMap, testName, looked, log>>

(* The bracketed test parameter, "" when the name has no brackets. *)
TestParam(name) == IF name.bracket THEN name.tokens ELSE <<>>

HasFamily(s, fam) == \E i \in DOMAIN s : s[i].fam = fam
FirstOf(s, fam) == s[SelectInSeq(s, LAMBDA t : t.fam = fam)].val

(* _relaxed_match: drop the default maxbs:512 and maxnt:2048 tokens of   *)
(* the parameter when the key has no such family, and the key's tp tokens *)
(* when the key has tp, the parameter has none, and the parameter's first *)
(* gpus value is the key's first tp value; then compare.                  *)
RelaxedMatch(param, key) ==
    LET p1 == IF HasFamily(key, "maxbs") THEN param
              ELSE Remove(param, [fam |-> "maxbs", val |-> 512])
        p2 == IF HasFamily(key, "maxnt") THEN p1
              ELSE Remove(p1, [fam |-> "maxnt", val |-> 2048])
        k2 == IF /\ HasFamily(key, "tp") /\ ~HasFamily(p2, "tp")
                 /\ HasFamily(p2, "gpus")
                 /\ FirstOf(p2, "gpus") = FirstOf(key, "tp")
              THEN SelectSeq(key, LAMBDA t : t.fam # "tp")
              ELSE key
    IN p2 = k2

(* The three tests of one loop iteration, behind "if k and test_name". *)
KeyMatches(k, name) ==
    LET param == TestParam(name) IN
    /\ k # <<>>
    /\ name.tokens # <<>>
    /\ \/ param # <<>> /\ k = param
       \/ k \in SubSeqs(name.tokens)
       \/ param # <<>> /\ RelaxedMatch(param, k)

(* The loop over junit_log_map.items(): the first key that matches in    *)
(* any of the three ways, then break.                                     *)
LookupLog(map, name) ==
    LET i == SelectInSeq(map, LAMBDA k : KeyMatches(k, name))
    IN IF i > 0 THEN map[i] ELSE NoLog

TypeOK ==
    /\ junitLogMap \in Seq(Keys) /\ Len(junitLogMap) <= MaxKeys
    /\ testName \in TestNames
    /\ looked \in BOOLEAN
    /\ log \in Keys \cup {NoLog}

(* parse_junit_xml: one key per testcase, a repeated name keeping its    *)
(* first position.                                                        *)
Init ==
    /\ junitLogMap \in {m \in BoundedSeq(Keys, MaxKeys) : IsInjective(m)}
    /\ testName \in TestNames
    /\ looked = FALSE
    /\ log = NoLog

(* The lookup of process_perf_data for a row without raw_result. *)
Lookup ==
    /\ ~looked
    /\ looked' = TRUE
    /\ log' = LookupLog(junitLogMap, testName)
    /\ UNCHANGED <<junitLogMap, testName>>

Next == Lookup

Spec == Init /\ [][Next]_vars

-----------------------------------------------------------------------------
(* Reference: the key the spec's priority order picks, an exact match of *)
(* the parameter over any containment, containment over a relaxed match. *)
RefLog(map, name) ==
    LET param == TestParam(name)
        Pick(test(_)) == SelectInSeq(map, LAMBDA k : k # <<>> /\ test(k))
        exact == Pick(LAMBDA k : param # <<>> /\ k = param)
        within == Pick(LAMBDA k : k \in SubSeqs(name.tokens))
        relaxed == Pick(LAMBDA k : param # <<>> /\ RelaxedMatch(param, k))
    IN IF name.tokens = <<>> THEN NoLog
       ELSE IF exact > 0 THEN map[exact]
       ELSE IF within > 0 THEN map[within]
       ELSE IF relaxed > 0 THEN map[relaxed]
       ELSE NoLog

(* process_perf_data: a row without raw_result gets the log of the JUnit  *)
(* testcase whose parameter equals its own when there is one, else of    *)
(* one contained in its name, else of a relaxed match (spec 4.7).         *)
LogLookupPriority ==
    looked => log = RefLog(junitLogMap, testName)

=============================================================================
