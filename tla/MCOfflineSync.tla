---------------------------- MODULE MCOfflineSync ----------------------------
\* Small instances of OfflineSync.
EXTENDS OfflineSync
=============================================================================
