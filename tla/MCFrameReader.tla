---------------------------- MODULE MCFrameReader ----------------------------
(* Instances of FrameReader for TLC, with short length fields: lengths     *)
(* below 2 are in the first byte, 2 and 3 have a byte of their own, from 4 *)
(* on they have two.                                                       *)
EXTENDS FrameReader

MCPayloads == {<<>>, <<0, 1>>, <<1, 0, 1>>, <<0, 1, 1, 0>>}
MCControls == {<<>>, <<1, 0>>}
MCMasks == {<<0, 1>>}
=============================================================================
