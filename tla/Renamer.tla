------------------------------ MODULE Renamer ------------------------------
(***************************************************************************)
(* rename_configs (rename_configs.py): every YAML file under test_configs  *)
(* is visited in sorted order and, when extract_new_filename gives a name  *)
(* other than its own, a rename is queued; with --execute and a yes, the   *)
(* queue is applied in order with Path.rename, each failure printed.       *)
(*                                                                         *)
(* One directory is modelled (a rename stays in its file's parent).  File  *)
(* names are 1..NNames in sorted order; a file's canonical name is a       *)
(* function of its contents, so it is fixed per file, or Error when        *)
(* extract_new_filename raises.                                            *)
(***************************************************************************)
EXTENDS Naturals, Sequences, FiniteSets

CONSTANTS
    Configs,    \* the YAML files, by identity
    NNames      \* file names, in sorted order

Names == 1..NNames
None == 0
Error == 0

VARIABLES
    disk,       \* disk[n]: the file named n, or None
    before,     \* disk when the tool started
    canon,      \* canon[c]: extract_new_filename of file c, or Error
    scanned,    \* names visited by the scan loop so far
    ops,        \* rename_operations: <<old name, new name>>
    execute,    \* --execute given and the rename confirmed
    pc

vars == <<disk, before, canon, scanned, ops, execute, pc>>

TypeOK ==
    /\ disk \in [Names -> Configs \cup {None}]
    /\ before \in [Names -> Configs \cup {None}]
    /\ canon \in [Configs -> Names \cup {Error}]
    /\ scanned \in 0..NNames
    /\ ops \in Seq(Names \X Names)
    /\ execute \in BOOLEAN
    /\ pc \in {"scan", "rename", "done"}

(* Each file has one name; extract_new_filename is a function of content. *)
Init ==
    /\ disk \in [Names -> Configs \cup {None}]
    /\ \A c \in Configs : Cardinality({n \in Names : disk[n] = c}) = 1
    /\ before = disk
    /\ canon \in [Configs -> Names \cup {Error}]
    /\ scanned = 0
    /\ ops = <<>>
    /\ execute \in BOOLEAN
    /\ pc = "scan"

(* Bug variant: the queued pair in the wrong order. *)
QueueSwapped(q, old, new) == Append(q, <<new, old>>)

(* rename_operations.append((yaml_file, new_path, new_name)) *)
Queue(q, old, new) == Append(q, <<old, new>>)

(* One turn of the scan loop over sorted(yaml_files): a name with no file *)
(* is not in the list; an exception is printed and the file skipped.      *)
ScanFile ==
    /\ pc = "scan"
    /\ scanned < NNames
    /\ LET n == scanned + 1
           c == disk[n]
       IN ops' = IF c # None /\ canon[c] # Error /\ canon[c] # n
                 THEN Queue(ops, n, canon[c]) ELSE ops
    /\ scanned' = scanned + 1
    /\ UNCHANGED <<disk, before, canon, execute, pc>>

(* The summary; renaming needs --execute, queued operations and a yes.    *)
EndScan ==
    /\ pc = "scan"
    /\ scanned = NNames
    /\ pc' = IF execute /\ ops # <<>> THEN "rename" ELSE "done"
    /\ UNCHANGED <<disk, before, canon, scanned, ops, execute>>

(* old_path.rename(new_path): a missing source raises and is printed; an  *)
(* existing target is replaced.                                           *)
RenameNext ==
    /\ pc = "rename"
    /\ ops # <<>>
    /\ LET old == Head(ops)[1]
           new == Head(ops)[2]
       IN disk' = IF disk[old] = None THEN disk
                  ELSE [disk EXCEPT ![new] = disk[old], ![old] = None]
    /\ ops' = Tail(ops)
    /\ pc' = IF Tail(ops) = <<>> THEN "done" ELSE "rename"
    /\ UNCHANGED <<before, canon, scanned, execute>>

Next == ScanFile \/ EndScan \/ RenameNext

Spec == Init /\ [][Next]_vars

-----------------------------------------------------------------------------
(* No canonical name is shared, or held by another file at the start. *)
NoCollision ==
    \A c \in Configs : canon[c] # Error =>
        /\ \A d \in Configs \ {c} : canon[d] # canon[c]
        /\ before[canon[c]] \in {None, c}

(* With no collision, an executed rename leaves every file that could be  *)
(* parsed under its canonical name (spec 4.8, 8.13).                      *)
RenamedToCanonical ==
    pc = "done" /\ execute /\ NoCollision =>
        \A c \in Configs : canon[c] # Error => disk[canon[c]] = c

=============================================================================
