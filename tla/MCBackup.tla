------------------------------ MODULE MCBackup ------------------------------
(* Backup for TLC: a master, a slave and one file.                          *)
EXTENDS Backup

CONSTANTS bs1, bs2, file1

MCMaster == {bs1}
MCBoth == {bs1, bs2}
MCSlave == {bs2}
MCFile == {file1}
=============================================================================
