------------------------ MODULE MCPlaceholderUpdater ------------------------
(* Two allow-listed slurm keys and one environment key stand for the      *)
(* eight of template_updates: each is handled by the same loop.           *)
EXTENDS PlaceholderUpdater

MCKeys == [s \in Sections |->
             IF s = "slurm" THEN {"partition", "account"} ELSE {"model_path"}]
=============================================================================
