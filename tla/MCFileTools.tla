----------------------------- MODULE MCFileTools -----------------------------
(***************************************************************************)
(* The three command-line tools that rewrite or produce files, checked in  *)
(* one model: update_yaml_placeholders.py, rename_configs.py and           *)
(* merge_junit_xml.py.  A behaviour is one invocation of one of them       *)
(* (tool, fixed in the initial state); the variables of the two tools not  *)
(* invoked hold Off and never change.  The tools share no state, so each   *)
(* property is the property of its own module, asserted for the           *)
(* behaviours of its tool.                                                 *)
(***************************************************************************)
EXTENDS Naturals

CONSTANTS
    NFiles,                     \* PlaceholderUpdater: YAML files found
    Configs, NNames,            \* Renamer: configs, file names
    Ids, Times, MaxFiles, MaxCases  \* JUnitMerge: identities, times, bounds

Off == "off"
Tools == {"placeholders", "renamer", "junit"}

(* Two allow-listed slurm keys and one environment key stand for the      *)
(* eight of template_updates: each is handled by the same loop.           *)
FileKeys == [s \in {"slurm", "environment"} |->
               IF s = "slurm" THEN {"partition", "account"} ELSE {"model_path"}]

VARIABLES
    tool,
    puFiles, puOrig, puNext, puUpdated,
    rnDisk, rnBefore, rnCanon, rnScanned, rnOps, rnExecute, rnPc,
    jmInputs, jmNext, jmCases, jmTotals, jmPassed, jmOutput, jmPc

puVars == <<puFiles, puOrig, puNext, puUpdated>>
rnVars == <<rnDisk, rnBefore, rnCanon, rnScanned, rnOps, rnExecute, rnPc>>
jmVars == <<jmInputs, jmNext, jmCases, jmTotals, jmPassed, jmOutput, jmPc>>
vars == <<tool, puVars, rnVars, jmVars>>

PU == INSTANCE PlaceholderUpdater
        WITH Keys <- FileKeys, files <- puFiles, orig <- puOrig, next <- puNext,
             updated <- puUpdated
RN == INSTANCE Renamer
        WITH disk <- rnDisk, before <- rnBefore, canon <- rnCanon, scanned <- rnScanned,
             ops <- rnOps, execute <- rnExecute, pc <- rnPc
JM == INSTANCE JUnitMerge
        WITH inputs <- jmInputs, next <- jmNext, cases <- jmCases, totals <- jmTotals,
             passed <- jmPassed, output <- jmOutput, pc <- jmPc

PUIdle == /\ puFiles = Off /\ puOrig = Off /\ puNext = Off /\ puUpdated = Off
RNIdle == /\ rnDisk = Off /\ rnBefore = Off /\ rnCanon = Off /\ rnScanned = Off
          /\ rnOps = Off /\ rnExecute = Off /\ rnPc = Off
JMIdle == /\ jmInputs = Off /\ jmNext = Off /\ jmCases = Off /\ jmTotals = Off
          /\ jmPassed = Off /\ jmOutput = Off /\ jmPc = Off

Init ==
    \/ tool = "placeholders" /\ PU!Init /\ RNIdle /\ JMIdle
    \/ tool = "renamer" /\ RN!Init /\ PUIdle /\ JMIdle
    \/ tool = "junit" /\ JM!Init /\ PUIdle /\ RNIdle

Next ==
    \/ tool = "placeholders" /\ PU!Next /\ UNCHANGED <<tool, rnVars, jmVars>>
    \/ tool = "renamer" /\ RN!Next /\ UNCHANGED <<tool, puVars, jmVars>>
    \/ tool = "junit" /\ JM!Next /\ UNCHANGED <<tool, puVars, rnVars>>

Spec == Init /\ [][Next]_vars

-----------------------------------------------------------------------------
(* Each tool's variables have their types while it runs. *)
TypeOK ==
    /\ tool \in Tools
    /\ tool = "placeholders" => PU!TypeOK
    /\ tool = "renamer" => RN!TypeOK
    /\ tool = "junit" => JM!TypeOK

(* rename_configs: when canonical names do not collide, an executed       *)
(* rename leaves every parsable config under its canonical name (Renamer). *)
RenamedToCanonical == tool = "renamer" => RN!RenamedToCanonical

(* merge_junit_xmls: each test id appears once, at its first position,    *)
(* with the element of the latest file that has it (JUnitMerge).          *)
MergeKeepsLastAtFirstPosition == tool = "junit" => JM!MergeKeepsLastAtFirstPosition

=============================================================================
