--------------------------- MODULE MCOfflineQueue ---------------------------
(* Model-checking instance of OfflineQueue: two entry names, two events,  *)
(* two drainer processes (the run daemon and a queue-drain invocation).   *)
EXTENDS OfflineQueue

MCNames == {"n1", "n2"}
MCEvents == {"e1", "e2"}
=============================================================================
