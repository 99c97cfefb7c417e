---------------------------- MODULE MCTaskManager ----------------------------
EXTENDS TaskManager
=============================================================================
