---------------------------- MODULE MCLogRecorder ----------------------------
(* Bounded instance of LogRecorder: up to five records in batches of two.  *)
EXTENDS LogRecorder
=============================================================================
