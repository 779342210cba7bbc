--------------------------- MODULE MCDecoderHint ---------------------------
(* The decoders that run alone, with three frame durations: one is twice   *)
(* another, which vh264 takes for the same rate.                           *)
EXTENDS DecoderHint
=============================================================================
