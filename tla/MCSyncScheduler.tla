--------------------------- MODULE MCSyncScheduler ---------------------------
(* Values for checking SyncScheduler with TLC. *)
EXTENDS SyncScheduler

TicksAndNaps == {1, 3}
TicksAndSetBacks == {1, -1}

=============================================================================
