-------------------------- MODULE MCSyncLifecycle --------------------------
(* An instance of SyncLifecycle for TLC. *)
EXTENDS SyncLifecycle
=============================================================================
