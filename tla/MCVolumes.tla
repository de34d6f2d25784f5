----------------------------- MODULE MCVolumes -----------------------------
(***************************************************************************)
(* The volumes for TLC: one generation next to any trouble, a second one   *)
(* when there was none.                                                    *)
(***************************************************************************)
EXTENDS VolumeGenerations
CONSTANTS first, second

InTurn == volumes[second] # None => volumes[first] # None /\ troubles = 0
MCSpec == GenerationInit /\ [][GenerationNext /\ InTurn']_generationVars

\* Verified backups and retained candidates are states that production had, and
\* what is selected is complete (backup-nine-volumes.mjs,
\* restore-nine-backup.mjs, provision-production.mjs).
BackupsAreTrue == GenerationTypeOK /\ BackupsAreSnapshots /\ SelectedIsWhole
=============================================================================
