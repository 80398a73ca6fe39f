---------------------------- MODULE ClusterConfig ----------------------------
(***************************************************************************)
(* load_cluster_config.py: parse_config_file reads an INI-style file line  *)
(* by line into configs[cluster][key] = value, get_cluster_config picks    *)
(* the named cluster, and main prints it (JSON, export or KEY=VALUE lines; *)
(* the formatting is left out) or exits 1.                                 *)
(*                                                                         *)
(* A line is abstracted to what the loop tests of it after strip(): a      *)
(* blank, comment or other line the loop ignores, a [name] header (the    *)
(* name after strip(), "" for "[ ]"), or a KEY=VALUE line whose value is  *)
(* a token with the quote characters found at each end.                   *)
(***************************************************************************)
EXTENDS Naturals, Sequences, SequencesExt

CONSTANTS
    Clusters,   \* section names
    Keys,       \* keys of KEY=VALUE lines
    Values,     \* values: <<quote at start, text inside, quote at end>>
    MaxLines    \* lines of the file

NoCluster == ""         \* current_cluster None, or the "" of "[ ]"
(* The quotes are removed when the value starts and ends with the same    *)
(* quote character.                                                        *)
Strip(v) == IF v[1] = v[3] /\ v[1] # "" THEN <<"", v[2], "">> ELSE v

Value == {Strip(v) : v \in Values} \cup Values

Line == [kind : {"other"}] \cup [kind : {"header"}, name : Clusters \cup {NoCluster}]
        \cup [kind : {"kv"}, key : Keys, value : Values]

VARIABLES
    pc,         \* "open", "read", "lookup" or "done"
    cluster,    \* the positional cluster argument
    lines,      \* lines read so far
    current,    \* current_cluster
    configs,    \* configs: cluster -> (key -> value)
    exitCode,   \* main's return value, -1 while running
    output      \* the cluster's mapping that main prints

vars == <<pc, cluster, lines, current, configs, exitCode, output>>

Section == UNION {[D -> Value] : D \in SUBSET Keys}

TypeOK ==
    /\ pc \in {"open", "read", "lookup", "done"}
    /\ cluster \in Clusters
    /\ lines \in Seq(Line) /\ Len(lines) <= MaxLines
    /\ current \in Clusters \cup {NoCluster}
    /\ DOMAIN configs \subseteq Clusters
    /\ \A c \in DOMAIN configs : configs[c] \in Section
    /\ exitCode \in {-1, 0, 1}
    /\ output \in Section

Init ==
    /\ pc = "open"
    /\ cluster \in Clusters
    /\ lines = <<>>
    /\ current = NoCluster
    /\ configs = <<>>
    /\ exitCode = -1
    /\ output = <<>>

(* os.path.exists: a missing file raises FileNotFoundError, which main    *)
(* catches and returns 1.                                                  *)
OpenFile ==
    /\ pc = "open"
    /\ \/ pc' = "read" /\ UNCHANGED exitCode
       \/ pc' = "done" /\ exitCode' = 1
    /\ UNCHANGED <<cluster, lines, current, configs, output>>

(* Bug variant: a repeated header keeps the section it already has. *)
HeaderKeep(cfgs, name) == IF name \in DOMAIN cfgs THEN cfgs ELSE (name :> <<>>) @@ cfgs

(* configs[current_cluster] = {} *)
Header(cfgs, name) == (name :> <<>>) @@ cfgs

(* One turn of the loop: a header sets current_cluster, and a non-empty   *)
(* name (re)starts its section; a KEY=VALUE line is stored under the      *)
(* current cluster when there is one; any other line is skipped.          *)
ReadLine ==
    /\ pc = "read"
    /\ Len(lines) < MaxLines
    /\ \E l \in Line :
          /\ lines' = Append(lines, l)
          /\ \/ l.kind = "other" /\ UNCHANGED <<current, configs>>
             \/ /\ l.kind = "header"
                /\ current' = l.name
                /\ configs' = IF l.name # NoCluster THEN Header(configs, l.name) ELSE configs
             \/ /\ l.kind = "kv"
                /\ configs' = IF current # NoCluster
                              THEN [configs EXCEPT ![current] = (l.key :> Strip(l.value)) @@ @]
                              ELSE configs
                /\ UNCHANGED current
    /\ UNCHANGED <<cluster, exitCode, output, pc>>

EndOfFile ==
    /\ pc = "read"
    /\ pc' = "lookup"
    /\ UNCHANGED <<cluster, lines, current, configs, exitCode, output>>

(* Bug variant: get_cluster_config returns the whole parsed map. *)
GetClusterConfigAll(cfgs, name) == cfgs

GetClusterConfig(cfgs, name) == cfgs[name]

(* get_cluster_config: an unknown cluster raises ValueError (exit 1);    *)
(* otherwise main prints its mapping and returns 0.                       *)
Lookup ==
    /\ pc = "lookup"
    /\ IF cluster \in DOMAIN configs
       THEN output' = GetClusterConfig(configs, cluster) /\ exitCode' = 0
       ELSE exitCode' = 1 /\ UNCHANGED output
    /\ pc' = "done"
    /\ UNCHANGED <<cluster, lines, current, configs>>

Next == OpenFile \/ ReadLine \/ EndOfFile \/ Lookup

Spec == Init /\ [][Next]_vars

-----------------------------------------------------------------------------
(* Reference: the section of cluster c is the run of lines after the last *)
(* [c] header up to the next header of any name; each key takes the value *)
(* of its last line there, with matching quotes removed.                   *)
IsHeader(l) == l.kind = "header"

LastHeader(c) == SelectLastInSeq(lines, LAMBDA l : IsHeader(l) /\ l.name = c)

SectionLines(c) ==
    {j \in (LastHeader(c) + 1)..Len(lines) :
        /\ lines[j].kind = "kv"
        /\ \A m \in (LastHeader(c) + 1)..j : ~IsHeader(lines[m])}

RefSection(c) ==
    LET js == SectionLines(c)
        ks == {lines[j].key : j \in js}
        last(k) == CHOOSE j \in js : lines[j].key = k /\ \A i \in js : lines[i].key = k => i <= j
    IN [k \in ks |-> Strip(lines[last(k)].value)]

(* main: it exits 0 exactly when the file has a [cluster] header, and     *)
(* then prints the keys of the last such section with their last values   *)
(* (a repeated header restarts the section; keys before any header or     *)
(* after "[ ]" belong to no cluster).                                      *)
LookupMatchesReference ==
    pc = "done" =>
        /\ exitCode = 0 <=> LastHeader(cluster) # 0
        /\ exitCode = 0 => output = RefSection(cluster)

=============================================================================
