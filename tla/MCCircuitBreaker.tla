--------------------------- MODULE MCCircuitBreaker ---------------------------
(***************************************************************************)
(* Small instances of CircuitBreaker for TLC.                              *)
(***************************************************************************)
EXTENDS CircuitBreaker

CONSTANTS llm, tts, c1, c2
=============================================================================
