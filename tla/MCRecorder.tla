----------------------------- MODULE MCRecorder -----------------------------
(***************************************************************************)
(* Recorder with four ticks of two clock units, a stream of two batches,   *)
(* polls of up to two and a half periods, and backoffs shorter and longer  *)
(* than a period.                                                          *)
(***************************************************************************)
EXTENDS Recorder

MCBackoff == <<1, 5>>
=============================================================================
