------------------------------- MODULE Launch -------------------------------
(***************************************************************************)
(* The two programs that turn one performance YAML config into a SLURM     *)
(* node count: jenkins/scripts/perf/local/submit.py, which writes the     *)
(* launch script, and jenkins_test/scripts/calculate_hardware_nodes.py,   *)
(* whose --check-nodes N verifies a node count for the same config.  A     *)
(* behaviour runs submit.py main to its end and, for a disaggregated       *)
(* launch script, then runs the calculator on the same config with the     *)
(* script's totalNodes as --check-nodes.                                   *)
(*                                                                         *)
(* The test string of --test-list is abstracted to what parse_test_string *)
(* tests of it, a config to the fields get_hardware_config and             *)
(* calculate_hardware_nodes read, and the launch script to the values it  *)
(* exports that the properties compare.                                    *)
(***************************************************************************)
EXTENDS Integers, Sequences, SequencesExt

CONSTANTS
    Names,      \* server-config names
    Gpns,       \* hardware.gpus_per_node values
    Counts,     \* num_ctx_servers / num_gen_servers values
    Roles,      \* [tp, pp, cp] of a worker_config role or a server config
    MaxServers  \* entries of server_configs

NoValue == -1           \* a hardware key that is absent (get returns None)
NoName == ""            \* test_name None, or an empty tail
Absent == [nodes |-> NoValue]   \* no config, hardware config or script yet

(* The benchmark.mode strings and the substrings the code looks for in    *)
(* them ("x in mode"); "" is the (benchmark_mode or "") of aggregated mode. *)
Modes == {"e2e", "gen_only", "gen_only_no_context"}
Substrings == ("" :> {}) @@ ("e2e" :> {"e2e"}) @@ ("gen_only" :> {"gen_only"})
              @@ ("gen_only_no_context" :> {"gen_only", "gen_only_no_context"})
ModeHas(mode, s) == s \in Substrings[mode]

(* benchmark.concurrency_list: an int, a string of digits, or other text. *)
Concurrencies == {"int", "digits", "text"}

Server == [name : Names, role : Roles]
Config == [gpn : Gpns \cup {NoValue}, nCtx : Counts \cup {NoValue},
           nGen : Counts \cup {NoValue}, ctx : Roles, gen : Roles, mode : Modes,
           conc : Concurrencies, servers : Seq(Server)]

(* The configs a run may load.  An aggregated config is read for          *)
(* gpus_per_node and server_configs (lists of up to MaxServers entries),  *)
(* a disaggregated one for the hardware counts, worker roles and          *)
(* benchmark section; fields a mode never reads keep one value.           *)
AggrConfigs == [gpn : Gpns \cup {NoValue}, nCtx : {NoValue}, nGen : {NoValue},
                ctx : {CHOOSE r \in Roles : TRUE}, gen : {CHOOSE r \in Roles : TRUE},
                mode : {"e2e"}, conc : {"int"},
                servers : UNION {[1..n -> Server] : n \in 0..MaxServers}]
DisaggConfigs == [gpn : Gpns \cup {NoValue}, nCtx : Counts \cup {NoValue},
                  nGen : Counts \cup {NoValue}, ctx : Roles, gen : Roles, mode : Modes,
                  conc : Concurrencies, servers : {<<>>}]

(* What parse_test_string tests of the --test-list string: the brackets,  *)
(* the number of "-" parts, the prefix, the tail name, and whether the     *)
(* config file it names exists.                                            *)
TestString == [brackets : BOOLEAN, parts : 1..3, prefix : {"aggr", "disagg_upload", "other"},
               name : Names, exists : BOOLEAN]

VARIABLES
    pc,         \* step of submit.py main, then of the calculator
    disagg,     \* --mode disaggregated
    testName,   \* test_name after argument handling
    cfg,        \* the loaded YAML config
    hw,         \* get_hardware_config(...)
    written,    \* files submit.py has written
    script,     \* the exports of the written launch script
    calcExit    \* exit status of calculate_hardware_nodes.py

vars == <<pc, disagg, testName, cfg, hw, written, script, calcExit>>

Steps == {"args", "load", "configs", "testlist", "launch", "chmod", "check", "done", "failed"}
Hardware == [nodes : Int, gpus : Int, nCtx : Int, nGen : Int, perCtx : Int, perGen : Int]

TypeOK ==
    /\ pc \in Steps
    /\ disagg \in BOOLEAN
    /\ testName \in Names \cup {NoName}
    /\ cfg \in Config \cup {Absent}
    /\ hw \in Hardware \cup {Absent}
    /\ written \subseteq {"test_list.txt", "launch.sh"}
    /\ script \in [nodes : Int, gpus : Int, nCtx : Int, genOnly : BOOLEAN,
                   kvOverlapOff : BOOLEAN] \cup {Absent}
    /\ calcExit \in {NoValue, 0, 1}

Init ==
    /\ pc = "args"
    /\ disagg \in BOOLEAN
    /\ testName = NoName
    /\ cfg = Absent
    /\ hw = Absent
    /\ written = {}
    /\ script = Absent
    /\ calcExit = NoValue

-----------------------------------------------------------------------------
(* submit.py *)

(* parse_test_string: the outcome for a test string, the test name or     *)
(* "error" for each ValueError or FileNotFoundError it raises.            *)
ParseTestString(t, isDisagg) ==
    IF ~t.brackets \/ t.parts < 2 THEN "error"
    ELSE IF isDisagg /\ t.prefix # "disagg_upload" THEN "error"
    ELSE IF ~isDisagg /\ t.prefix # "aggr" THEN "error"
    ELSE IF ~t.exists THEN "error"
    ELSE IF ~isDisagg /\ t.parts > 2 THEN t.name
    ELSE NoName

(* main up to the config load: --test-list wins over --config-file, and   *)
(* aggregated mode needs a test name.                                      *)
ParseArgs ==
    /\ pc = "args"
    /\ \/ \E t \in TestString :
             LET r == ParseTestString(t, disagg) IN
             IF r = "error" \/ (~disagg /\ r = NoName)
             THEN pc' = "failed" /\ UNCHANGED testName
             ELSE pc' = "load" /\ testName' = r
       \/ \E given \in Names \cup {NoName} :      \* --config-file, --test-name
             IF ~disagg /\ given = NoName
             THEN pc' = "failed" /\ UNCHANGED testName
             ELSE pc' = "load" /\ testName' = IF disagg THEN NoName ELSE given
       \/ pc' = "failed" /\ UNCHANGED testName    \* neither given
    /\ UNCHANGED <<disagg, cfg, hw, written, script, calcExit>>

(* open(config_yaml) and yaml.safe_load, which may raise. *)
LoadConfig ==
    /\ pc = "load"
    /\ \/ pc' = "failed" /\ UNCHANGED cfg
       \/ pc' = "configs" /\ cfg' \in IF disagg THEN DisaggConfigs ELSE AggrConfigs
    /\ UNCHANGED <<disagg, testName, hw, written, script, calcExit>>

WorldSize(r) == r.tp * r.pp * r.cp

(* Bug variant: the per-server node count rounded down. *)
CeilDivFloor(a, b) == a \div b

(* (gpus + gpus_per_node - 1) // gpus_per_node *)
CeilDiv(a, b) == (a + b - 1) \div b

(* get_hardware_config; Absent for each ValueError, and for the           *)
(* ZeroDivisionError of gpus_per_node 0.                                  *)
HardwareConfig(c, isDisagg, name, benchmarkMode) ==
    IF c.gpn = NoValue THEN Absent
    ELSE IF ~isDisagg
    THEN LET k == SelectInSeq(c.servers, LAMBDA s : s.name = name) IN
         IF k = 0 \/ c.gpn = 0 THEN Absent
         ELSE LET n == CeilDiv(WorldSize(c.servers[k].role), c.gpn) IN
              [nodes |-> n, gpus |-> n * c.gpn, nCtx |-> NoValue, nGen |-> NoValue,
               perCtx |-> n, perGen |-> NoValue]
    ELSE LET nCtx == IF ModeHas(benchmarkMode, "gen_only_no_context") THEN 0 ELSE c.nCtx
             perCtx == CeilDiv(WorldSize(c.ctx), c.gpn)
             perGen == CeilDiv(WorldSize(c.gen), c.gpn)
         IN IF nCtx = NoValue \/ c.nGen = NoValue \/ c.gpn = 0 THEN Absent
            ELSE [nodes |-> nCtx * perCtx + c.nGen * perGen,
                  gpus |-> (nCtx * perCtx + c.nGen * perGen) * c.gpn,
                  nCtx |-> nCtx, nGen |-> c.nGen, perCtx |-> perCtx, perGen |-> perGen]

(* Bug variant: get_hardware_config called without the benchmark mode. *)
BenchmarkModeArgDropped(isDisagg, mode) == ""

(* benchmark_mode=benchmark_config.get("mode", "e2e") if is_disagg else None *)
BenchmarkModeArg(isDisagg, mode) == IF isDisagg THEN mode ELSE ""

(* get_env_config, get_benchmark_config (int() of a non-numeric           *)
(* concurrency string raises) and get_hardware_config.                     *)
GetConfigs ==
    /\ pc = "configs"
    /\ LET h == HardwareConfig(cfg, disagg, testName, BenchmarkModeArg(disagg, cfg.mode)) IN
       IF (disagg /\ cfg.conc = "text") \/ h = Absent
       THEN pc' = "failed" /\ UNCHANGED hw
       ELSE pc' = "testlist" /\ hw' = h
    /\ UNCHANGED <<disagg, testName, cfg, written, script, calcExit>>

(* generate_pytest_command, then the test list file is written. *)
WriteTestList ==
    /\ pc = "testlist"
    /\ written' = written \cup {"test_list.txt"}
    /\ pc' = "launch"
    /\ UNCHANGED <<disagg, testName, cfg, hw, script, calcExit>>

(* The export block: totalNodes/totalGpus, numCtxServers (disaggregated   *)
(* only), TRTLLM_DISAGG_BENCHMARK_GEN_ONLY for a gen_only_no_context mode, *)
(* else TRTLLM_DISABLE_KV_CACHE_TRANSFER_OVERLAP for a gen_only mode.     *)
Exports(h, isDisagg, mode) ==
    [nodes |-> h.nodes, gpus |-> h.gpus, nCtx |-> IF isDisagg THEN h.nCtx ELSE NoValue,
     genOnly |-> isDisagg /\ ModeHas(mode, "gen_only_no_context"),
     kvOverlapOff |-> isDisagg /\ ~ModeHas(mode, "gen_only_no_context")
                      /\ ModeHas(mode, "gen_only")]

(* The draft launch script is read (open raises if it is missing), and    *)
(* the sbatch lines, exports, srun arguments and draft are written to the *)
(* launch script.                                                          *)
WriteLaunch ==
    /\ pc = "launch"
    /\ \/ pc' = "failed" /\ UNCHANGED <<written, script>>
       \/ /\ pc' = "chmod"
          /\ written' = written \cup {"launch.sh"}
          /\ script' = Exports(hw, disagg, cfg.mode)
    /\ UNCHANGED <<disagg, testName, cfg, hw, calcExit>>

(* os.chmod of the launch, run and install scripts: the last two are      *)
(* assumed to exist and raise if they do not.                              *)
Chmod ==
    /\ pc = "chmod"
    /\ \/ pc' = "failed"
       \/ pc' = IF disagg THEN "check" ELSE "done"
    /\ UNCHANGED <<disagg, testName, cfg, hw, written, script, calcExit>>

-----------------------------------------------------------------------------
(* calculate_hardware_nodes.py *)

(* calculate_nodes: math.ceil(world_size * num_servers / gpus_per_node) *)
CalculateNodes(ws, n, gpn) == CeilDiv(ws * n, gpn)

(* calculate_hardware_nodes: total_nodes, or NoValue for the TypeError of *)
(* a missing gpus_per_node and the ZeroDivisionError of 0.                 *)
CalculateHardwareNodes(c) ==
    IF c.gpn \in {NoValue, 0} THEN NoValue
    ELSE LET nCtx == IF ModeHas(c.mode, "gen_only") \/ c.nCtx = NoValue THEN 0 ELSE c.nCtx
             nGen == IF c.nGen = NoValue THEN 0 ELSE c.nGen
             ctxNodes == IF nCtx > 0 THEN CalculateNodes(WorldSize(c.ctx), nCtx, c.gpn) ELSE 0
         IN ctxNodes + CalculateNodes(WorldSize(c.gen), nGen, c.gpn)

(* main with --check-nodes set to the launch script's totalNodes: exit 1  *)
(* on an exception or a mismatch, else 0.                                  *)
CheckNodes ==
    /\ pc = "check"
    /\ LET total == CalculateHardwareNodes(cfg) IN
       calcExit' = IF total # NoValue /\ total = script.nodes THEN 0 ELSE 1
    /\ pc' = "done"
    /\ UNCHANGED <<disagg, testName, cfg, hw, written, script>>

Next ==
    \/ ParseArgs
    \/ LoadConfig
    \/ GetConfigs
    \/ WriteTestList
    \/ WriteLaunch
    \/ Chmod
    \/ CheckNodes

Spec == Init /\ [][Next]_vars

-----------------------------------------------------------------------------
(* The GPUs the servers of a launched config need: the first server       *)
(* config named by the test, or every ctx server (none in a               *)
(* gen_only_no_context mode) and every gen server.                         *)
Demand ==
    IF ~disagg
    THEN WorldSize(cfg.servers[SelectInSeq(cfg.servers, LAMBDA s : s.name = testName)].role)
    ELSE (IF ModeHas(cfg.mode, "gen_only_no_context") THEN 0 ELSE cfg.nCtx) * WorldSize(cfg.ctx)
         + cfg.nGen * WorldSize(cfg.gen)

(* submit.py: a written launch script asks SLURM (--ntasks=totalGpus) for *)
(* at least as many GPUs as its servers use, each server on whole nodes   *)
(* (get_hardware_config's rounding up).                                    *)
LaunchCoversWorkers ==
    script # Absent =>
        /\ script.gpus >= Demand
        /\ hw.perCtx * cfg.gpn >= IF disagg THEN WorldSize(cfg.ctx) ELSE Demand
        /\ disagg => hw.perGen * cfg.gpn >= WorldSize(cfg.gen)

(* submit.py: a launch script that exports TRTLLM_DISAGG_BENCHMARK_GEN_ONLY *)
(* (main's mode test, line 445) allocates no ctx server and only the gen   *)
(* servers' nodes (get_hardware_config's separate mode test, line 134).    *)
GenOnlyLaunchHasNoCtxNodes ==
    script # Absent /\ script.genOnly =>
        /\ script.nCtx = 0
        /\ script.nodes = cfg.nGen * CeilDiv(WorldSize(cfg.gen), cfg.gpn)

=============================================================================
