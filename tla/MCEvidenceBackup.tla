---------------------------- MODULE MCEvidenceBackup ----------------------------
(* The instance TLC checks: one recording, two runs of the retention       *)
(* command and the backup.                                                 *)
EXTENDS EvidenceBackup

CONSTANTS f1, w1, w2

OneFile    == {f1}
TwoWorkers == {w1, w2}
=============================================================================
