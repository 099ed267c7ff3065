--------------------------- MODULE MCSnapshotStore ---------------------------
\* Two processes on one session id, and one process alone, with every
\* interleaving of saves, file-system calls, failures and crashes.
EXTENDS SnapshotStore
=============================================================================
