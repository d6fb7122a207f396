----------------------------- MODULE MCBackup -----------------------------
(* Backup for TLC.                                                         *)
EXTENDS Backup

AllModes == {{"local"}, {"cloud"}, {"local", "cloud"}}

Writes == {"local"} :> 1 @@ {"cloud"} :> 2 @@ {"local", "cloud"} :> 0

Interchange == Permutations(Runner) \cup Permutations(Content)
===========================================================================
