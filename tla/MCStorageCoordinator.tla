------------------------ MODULE MCStorageCoordinator -------------------------
(* StorageCoordinator on queues of one and two messages.                    *)
EXTENDS StorageCoordinator
=============================================================================
