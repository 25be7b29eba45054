---------------------------- MODULE MCWasiReplay -----------------------------
(* WasiReplay with 8 values per 32 bit integer, logs of one call of any kind *)
(* and logs of up to MaxDeep calls on the standard streams.                  *)
EXTENDS WasiReplay
=============================================================================
