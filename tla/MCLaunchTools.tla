---------------------------- MODULE MCLaunchTools ----------------------------
(***************************************************************************)
(* The launch-time tools of the perf jobs, checked in one model:           *)
(* load_cluster_config.py (ClusterConfig), submit.py followed by          *)
(* calculate_hardware_nodes.py --check-nodes (Launch), and                 *)
(* parse_unified_testlist.py (TestListParser).  A behaviour is one         *)
(* invocation of one of them (tool, fixed in the initial state); the       *)
(* variables of the others hold Off and never change.                      *)
(***************************************************************************)
EXTENDS Integers

CONSTANTS
    Clusters, Keys, MaxLines,               \* ClusterConfig
    Names, Gpns, Counts, MaxServers,        \* Launch
    ListLines, ListTests                    \* TestListParser: lines or groups, tests per group

Off == "off"
Tools == {"cluster", "launch", "testlist"}

(* Values: plain, in matching double quotes, and with mismatched quotes.  *)
MCValues == {<<"", "v1", "">>, <<"dq", "v1", "dq">>, <<"sq", "v2", "dq">>}

(* Parallel sizes [tp, pp, cp]: world sizes 1, 2 and 4. *)
R(t, p, c) == [tp |-> t, pp |-> p, cp |-> c]
MCRoles == {R(1, 1, 1), R(2, 1, 1), R(2, 2, 1)}

(* Test ids for the mode classification.  Server configs on a 4-GPU     *)
(* node: one that fits, one over the node by its gpus field, one over it *)
(* by tp * ep, a disagg_run_type ctx entry, and one that fits because of *)
(* its own gpus_per_node.  Every ordered pair of the first kinds is      *)
(* tried, with and without a server-config name, and a file without      *)
(* hardware.gpus_per_node.  IdNoName and IdNoOverride are                *)
(* TestListParser's NoName and NoOverride.                               *)
IdNoName == "none"
IdNoOverride == -1

Srv(name, gpus, gpn, tp, ep, runType) ==
    [name |-> name, gpus |-> gpus, gpn |-> gpn, tp |-> tp, ep |-> ep, pp |-> 1, cp |-> 1,
     runType |-> runType]

Fits == Srv("n1", 4, IdNoOverride, 4, 1, "none")
ByGpus == Srv("n2", 8, IdNoOverride, 1, 1, "none")
ByParallel == Srv("n2", 0, IdNoOverride, 4, 2, "none")
CtxEntry == Srv("n1", 0, IdNoOverride, 1, 0, "ctx")
OwnNode == Srv("n2", 8, 8, 8, 1, "none")

Found(gpn, servers) == [found |-> TRUE, gpn |-> gpn, servers |-> servers]
NotFound == [found |-> FALSE, gpn |-> 0, servers |-> <<>>]

Configs ==
    {Found(4, <<a, b>>) : a, b \in {Fits, ByParallel, CtxEntry}}
    \cup {Found(4, <<ByGpus>>), Found(4, <<OwnNode>>), Found(0, <<ByGpus>>)}

Id(disaggName, short, sname, aggr, disaggHit, multiPat, ctxAndGen) ==
    [disaggName |-> disaggName, short |-> short, sname |-> sname, aggr |-> aggr,
     disaggHit |-> disaggHit, multiPat |-> multiPat, ctxAndGen |-> ctxAndGen]

MCIds ==
    {Id(FALSE, FALSE, s, c, FALSE, FALSE, FALSE) : s \in {IdNoName, "n2"}, c \in Configs}
    \cup {Id(FALSE, FALSE, IdNoName, NotFound, d, m, g) : <<d, m, g>> \in
            {<<FALSE, FALSE, FALSE>>, <<TRUE, FALSE, FALSE>>, <<FALSE, TRUE, FALSE>>, <<FALSE, FALSE, TRUE>>}}
    \cup {Id(TRUE, FALSE, IdNoName, NotFound, FALSE, FALSE, FALSE),
          Id(FALSE, TRUE, IdNoName, NotFound, FALSE, FALSE, FALSE)}

(* A config whose single-node first entry precedes a multi-node one, and *)
(* an id resolved by the naming fallback.                                 *)
MCYamlIds ==
    {Id(FALSE, FALSE, IdNoName, Found(4, <<Fits, ByParallel>>), FALSE, FALSE, FALSE),
     Id(FALSE, FALSE, IdNoName, NotFound, FALSE, TRUE, FALSE)}

VARIABLES
    tool,
    ccPc, ccCluster, ccLines, ccCurrent, ccConfigs, ccExit, ccOutput,
    lPc, lDisagg, lTestName, lCfg, lHw, lWritten, lScript, lCalcExit,
    tlPc, tlFilter, tlShape, tlLines, tlGroups, tlByMode, tlStats

ccVars == <<ccPc, ccCluster, ccLines, ccCurrent, ccConfigs, ccExit, ccOutput>>
lVars == <<lPc, lDisagg, lTestName, lCfg, lHw, lWritten, lScript, lCalcExit>>
tlVars == <<tlPc, tlFilter, tlShape, tlLines, tlGroups, tlByMode, tlStats>>
vars == <<tool, ccVars, lVars, tlVars>>

CC == INSTANCE ClusterConfig
        WITH Values <- MCValues, pc <- ccPc, cluster <- ccCluster, lines <- ccLines,
             current <- ccCurrent, configs <- ccConfigs, exitCode <- ccExit,
             output <- ccOutput
L == INSTANCE Launch
        WITH Roles <- MCRoles, pc <- lPc, disagg <- lDisagg, testName <- lTestName,
             cfg <- lCfg, hw <- lHw, written <- lWritten, script <- lScript,
             calcExit <- lCalcExit
TL == INSTANCE TestListParser
        WITH Ids <- MCIds, YamlIds <- MCYamlIds, MaxLines <- ListLines, MaxTests <- ListTests,
             pc <- tlPc, filter <- tlFilter, shape <- tlShape, lines <- tlLines,
             groups <- tlGroups, byMode <- tlByMode, stats <- tlStats

CCIdle == /\ ccPc = Off /\ ccCluster = Off /\ ccLines = Off /\ ccCurrent = Off
          /\ ccConfigs = Off /\ ccExit = Off /\ ccOutput = Off
LIdle == /\ lPc = Off /\ lDisagg = Off /\ lTestName = Off /\ lCfg = Off /\ lHw = Off
         /\ lWritten = Off /\ lScript = Off /\ lCalcExit = Off
TLIdle == /\ tlPc = Off /\ tlFilter = Off /\ tlShape = Off /\ tlLines = Off
          /\ tlGroups = Off /\ tlByMode = Off /\ tlStats = Off

Init ==
    \/ tool = "cluster" /\ CC!Init /\ LIdle /\ TLIdle
    \/ tool = "launch" /\ L!Init /\ CCIdle /\ TLIdle
    \/ tool = "testlist" /\ TL!Init /\ CCIdle /\ LIdle

Next ==
    \/ tool = "cluster" /\ CC!Next /\ UNCHANGED <<tool, lVars, tlVars>>
    \/ tool = "launch" /\ L!Next /\ UNCHANGED <<tool, ccVars, tlVars>>
    \/ tool = "testlist" /\ TL!Next /\ UNCHANGED <<tool, ccVars, lVars>>

Spec == Init /\ [][Next]_vars

-----------------------------------------------------------------------------
(* Each tool's variables have their types while it runs. *)
TypeOK ==
    /\ tool \in Tools
    /\ tool = "cluster" => CC!TypeOK
    /\ tool = "launch" => L!TypeOK
    /\ tool = "testlist" => TL!TypeOK

(* load_cluster_config main: exit 0 exactly for a cluster with a header,  *)
(* printing the keys of its last section (ClusterConfig).                 *)
LookupMatchesReference == tool = "cluster" => CC!LookupMatchesReference

(* submit.py: the launch script's GPUs cover its servers, each on whole   *)
(* nodes (Launch).                                                         *)
LaunchCoversWorkers == tool = "launch" => L!LaunchCoversWorkers

(* submit.py: a gen-only-no-context launch allocates no ctx nodes         *)
(* (Launch).                                                               *)
GenOnlyLaunchHasNoCtxNodes == tool = "launch" => L!GenOnlyLaunchHasNoCtxNodes

(* parse_unified_testlist.py: every test is listed once, under the mode  *)
(* its mark or the inference gives it, in file order (TestListParser).    *)
EntriesMatchReference == tool = "testlist" => TL!EntriesMatchReference

(* parse_unified_testlist.py, as spec 4.5 and 9 describe it: a test whose *)
(* config has a single-node first and a multi-node later server config    *)
(* is not listed as multi-agg (TestListParser).                           *)
KnownLimitationSingleAgg == tool = "testlist" => TL!KnownLimitationSingleAgg

=============================================================================
