--------------------------- MODULE MCSyncService ---------------------------
(* Small instances of the sequencer's sync service.                        *)
EXTENDS SyncService

FirstToThird == {1, 2, 3}
Clock2 == {0, 3}
=============================================================================
