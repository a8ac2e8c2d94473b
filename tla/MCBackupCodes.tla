----------------------------- MODULE MCBackupCodes -----------------------------
(* Backup codes on a few sets of two codes.                                *)
EXTENDS BackupCodes, TLC

(* Identities, sets, requests and the codes of a set are interchangeable.  *)
Symmetry == Permutations(Ids) \cup Permutations(Requests)
            \cup Permutations(Slots) \cup Permutations(Identities)

=============================================================================
