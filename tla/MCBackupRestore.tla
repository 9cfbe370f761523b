--------------------------- MODULE MCBackupRestore ---------------------------
\* Small instances of BackupRestore.
EXTENDS BackupRestore

CONSTANTS march, june, p1, p2, restore1, restore2
=============================================================================
