--------------------------- MODULE MCBackupRestore ---------------------------
(* A host, and two operators who back up and restore.                      *)
EXTENDS BackupRestore, TLC

CONSTANTS h, r1, r2

MCCalls == (h :> {"host"}) @@ (r1 :> {"backup", "restore"}) @@ (r2 :> {"restore"})
=============================================================================
