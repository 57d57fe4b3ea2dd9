---------------------------- MODULE MCBackupRestore ----------------------------
(* The small instances of BackupRestore that TLC checks. *)
EXTENDS BackupRestore
================================================================================
