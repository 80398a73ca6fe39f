---------------------------- MODULE CasePrecision ----------------------------
(***************************************************************************)
(* The precision part of a performance case's identity in                  *)
(* trt_perf_parser.py: process_perf_data takes the row's command and calls *)
(* get_precision_from_command, which tests the command text for fixed      *)
(* substrings in a fixed order and, when none is found, falls back on      *)
(* is_pre_ampere_arch(run_info["gpu"]).                                    *)
(*                                                                         *)
(* A command is abstracted to the set of its words that matter, and a     *)
(* word to the tested substrings it contains (Hits); a GPU name to the     *)
(* entries of PRE_AMPERE_GPUS it contains, case-insensitively (Matches).   *)
(* Both tables list what the substring tests find in those strings.        *)
(***************************************************************************)
EXTENDS Naturals, FiniteSets, Sequences, SequencesExt

CONSTANTS
    MaxWords    \* words of one command

Precisions == {"FP16", "INT8", "BF16", "FP32", "FP8", "FP4", "TF32"}

(* Command words: dtype arguments, precision flags and model names. *)
Words == {"--dtype=float16", "--dtype=bfloat16", "--dtype=float32", "--fp16", "--bf16",
          "--int8", "--fp8", "--fp4", "--noTF32", "llama_nvfp4", "llama_fp8"}

(* The substrings of get_precision_from_command that occur in each word. *)
Hits ==
    ("--dtype=float16" :> {"float16"}) @@ ("--dtype=bfloat16" :> {"float16", "bfloat16"})
    @@ ("--dtype=float32" :> {"float32"}) @@ ("--fp16" :> {"--fp16", "-fp16"})
    @@ ("--bf16" :> {"--bf16", "-bf16"}) @@ ("--int8" :> {"int8", "--int8", "-int8"})
    @@ ("--fp8" :> {"fp8", "--fp8", "-fp8"}) @@ ("--fp4" :> {"fp4", "--fp4", "-fp4"})
    @@ ("--noTF32" :> {"--noTF32"}) @@ ("llama_nvfp4" :> {"fp4", "nvfp4"})
    @@ ("llama_fp8" :> {"fp8"})

(* The if/elif chain: each precision with the substrings that select it. *)
PrecisionChecks ==
    << <<"FP16", {"float16", "--fp16", "-fp16"}>>,
       <<"INT8", {"int8", "--int8", "-int8"}>>,
       <<"BF16", {"bfloat16", "--bf16", "-bf16"}>>,
       <<"FP32", {"float32", "--noTF32", "-fp32"}>>,
       <<"FP8", {"fp8", "--fp8", "-fp8"}>>,
       <<"FP4", {"fp4", "nvfp4", "--fp4", "-fp4"}>> >>

(* run_info["gpu"] values (with "NVIDIA" stripped) and the entries of     *)
(* PRE_AMPERE_GPUS each contains, lower-cased.                             *)
Gpus == {"Tesla V100-SXM2-16GB", "Tesla T4", "Quadro RTX 6000", "A100-SXM4-80GB",
         "H100 80GB HBM3", "RTX 6000 Ada Generation", "L40S"}
Matches ==
    ("Tesla V100-SXM2-16GB" :> {"V100"}) @@ ("Tesla T4" :> {"T4"})
    @@ ("Quadro RTX 6000" :> {"RTX 6000"}) @@ ("A100-SXM4-80GB" :> {})
    @@ ("H100 80GB HBM3" :> {}) @@ ("RTX 6000 Ada Generation" :> {"RTX 6000"})
    @@ ("L40S" :> {})

(* is_pre_ampere_arch: some listed name is a substring of the GPU name. *)
IsPreAmpereArch(gpu) == Matches[gpu] # {}

(* get_precision_from_command: the first check whose substrings occur in  *)
(* the command, else FP32 on a pre-Ampere GPU and TF32 otherwise.          *)
GetPrecisionFromCommand(cmd, gpu) ==
    LET hits == UNION {Hits[w] : w \in cmd}
        k == SelectInSeq(PrecisionChecks, LAMBDA c : c[2] \cap hits # {})
    IN IF k > 0 THEN PrecisionChecks[k][1]
       ELSE IF IsPreAmpereArch(gpu) THEN "FP32" ELSE "TF32"

VARIABLES
    command,    \* the row's "command" field
    gpu,        \* run_info["gpu"]
    precision   \* the precision of the case key, "" before it is computed

vars == <<command, gpu, precision>>

TypeOK ==
    /\ command \subseteq Words /\ Cardinality(command) <= MaxWords
    /\ gpu \in Gpus
    /\ precision \in Precisions \cup {""}

Init ==
    /\ command \in {c \in SUBSET Words : Cardinality(c) <= MaxWords}
    /\ gpu \in Gpus
    /\ precision = ""

(* precision = get_precision_from_command(command), upper-cased in the    *)
(* case key.                                                               *)
Classify ==
    /\ precision = ""
    /\ precision' = GetPrecisionFromCommand(command, gpu)
    /\ UNCHANGED <<command, gpu>>

Next == Classify

Spec == Init /\ [][Next]_vars

-----------------------------------------------------------------------------
(* Reference: the precision each word names, and the GPU generations.     *)
Names ==
    ("--dtype=float16" :> "FP16") @@ ("--dtype=bfloat16" :> "BF16")
    @@ ("--dtype=float32" :> "FP32") @@ ("--fp16" :> "FP16") @@ ("--bf16" :> "BF16")
    @@ ("--int8" :> "INT8") @@ ("--fp8" :> "FP8") @@ ("--fp4" :> "FP4")
    @@ ("--noTF32" :> "FP32") @@ ("llama_nvfp4" :> "FP4") @@ ("llama_fp8" :> "FP8")
PreAmpere == {"Tesla V100-SXM2-16GB", "Tesla T4", "Quadro RTX 6000"}

(* get_precision_from_command: a command whose words all name one         *)
(* precision gets that precision, and a command that names none gets FP32 *)
(* on a GPU older than Ampere and TF32 on Ampere or newer (spec 4.7).      *)
PrecisionMatchesReference ==
    precision # "" =>
        LET named == {Names[w] : w \in command} IN
        /\ Cardinality(named) = 1 => precision = CHOOSE p \in named : TRUE
        /\ named = {} => precision = IF gpu \in PreAmpere THEN "FP32" ELSE "TF32"

=============================================================================
