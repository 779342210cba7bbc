---------------------------- MODULE MCVvc1Frames ----------------------------
(* Two buffers: pictures in one are shown as two fields, in the other whole. *)
(* Pools of three vframes are just enough for both to be shown, as the       *)
(* code's 16 are enough for its 4 buffers.                                   *)
EXTENDS Vvc1Frames, TLC

CONSTANTS b1, b2, s1, s2, s3

MCScans == b1 :> {TRUE} @@ b2 :> {FALSE}
=============================================================================
