------------------------- MODULE PlaceholderUpdater -------------------------
(***************************************************************************)
(* update_yaml_placeholders.py: main() runs update_yaml_file over every    *)
(* *.yaml under test_configs in sorted order; each call loads the file,    *)
(* sets the allow-listed keys of its slurm and environment sections to     *)
(* the template values where they differ, and writes the file back only   *)
(* if something changed.                                                   *)
(*                                                                         *)
(* A file is empty (safe_load gives nothing) or has each section absent,  *)
(* null (a key with no value, which safe_load gives as None) or a mapping *)
(* of its keys to "site" (a site-specific value) or "ph" (the template's   *)
(* placeholder).                                                           *)
(***************************************************************************)
EXTENDS Naturals, FiniteSets

CONSTANTS
    NFiles,     \* YAML files found
    Keys        \* Keys[s]: the keys of section s a file may have

Sections == {"slurm", "environment"}
Ph == "ph"

(* template_updates: every key it names under a section. *)
Template == [s \in Sections |-> Keys[s]]

Absent == [kind |-> "absent", map |-> <<>>]
Section(s) ==
    [kind : {"absent", "null"}, map : {<<>>}]
    \cup [kind : {"map"}, map : UNION {[D -> {"site", Ph}] : D \in SUBSET Keys[s]}]
EmptyDoc == [empty |-> TRUE, slurm |-> Absent, environment |-> Absent]
Content ==
    {EmptyDoc} \cup [empty : {FALSE}, slurm : Section("slurm"), environment : Section("environment")]
Files == 1..NFiles

VARIABLES
    files,      \* contents on disk
    orig,       \* contents before the run
    next,       \* next file of the sorted list
    updated     \* updated_count

vars == <<files, orig, next, updated>>

TypeOK ==
    /\ files \in [Files -> Content]
    /\ orig \in [Files -> Content]
    /\ next \in 1..(NFiles + 1)
    /\ updated \in 0..NFiles

Init ==
    /\ files \in [Files -> Content]
    /\ orig = files
    /\ next = 1
    /\ updated = 0

IsMap(v) == v.kind = "map"

(* data[s].get(key) *)
Get(m, k) == IF k \in DOMAIN m THEN m[k] ELSE "None"

(* Bug variant: the environment loop iterating the slurm key list, so the *)
(* slurm keys are written into every section.                             *)
UpdateSectionSlurmKeys(v, s) ==
    [v EXCEPT !.map = [k \in DOMAIN @ \cup Template["slurm"] |->
                         IF k \in Template["slurm"] THEN Ph ELSE @[k]]]

(* The loop over one section's template keys: old_val != new_val => set. *)
UpdateSection(v, s) ==
    [v EXCEPT !.map = [k \in DOMAIN @ \cup Template[s] |-> IF k \in Template[s] THEN Ph ELSE @[k]]]

SectionChanged(m, s) == \E k \in Template[s] : Get(m, k) # Ph

(* update_yaml_file: an empty document is skipped; a section that is null *)
(* makes .get raise, which is caught and the file left unwritten; else    *)
(* the updated data is written if any key changed.  Returns "modified".   *)
UpdateYamlFile(d) ==
    IF d.empty \/ \E s \in Sections : d[s].kind = "null"
    THEN <<d, FALSE>>
    ELSE LET changed == \E s \in Sections : IsMap(d[s]) /\ SectionChanged(d[s].map, s)
             new == [d EXCEPT !.slurm = IF IsMap(@) THEN UpdateSection(@, "slurm") ELSE @,
                              !.environment = IF IsMap(@) THEN UpdateSection(@, "environment") ELSE @]
         IN IF changed THEN <<new, TRUE>> ELSE <<d, FALSE>>

(* One turn of main's file loop. *)
ProcessFile ==
    /\ next <= NFiles
    /\ LET r == UpdateYamlFile(files[next]) IN
          /\ files' = [files EXCEPT ![next] = r[1]]
          /\ updated' = IF r[2] THEN updated + 1 ELSE updated
    /\ next' = next + 1
    /\ UNCHANGED orig

Next == ProcessFile

Spec == Init /\ [][Next]_vars

-----------------------------------------------------------------------------
RunDone == next = NFiles + 1

(* A key missing from a section is not added (spec 8.14: a slurm section  *)
(* without partition keeps having no partition key).                     *)
NoKeyCreation ==
    \A f \in Files, s \in Sections :
        DOMAIN files[f][s].map \subseteq DOMAIN orig[f][s].map

=============================================================================
