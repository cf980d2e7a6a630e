---------------------------- MODULE MCFrameCodec ----------------------------
(* A small instance of FrameCodec for TLC: every combination of addressing  *)
(* modes with equal and different PANs, and every command.                  *)
EXTENDS FrameCodec, TLC

MCExtendeds == {<<0, 18, 75, 0, 14, 137, 104, 255>>}
MCSequenceNumbers == {{}, {255}}
MCPayloads == {<<>>, <<1, 0>>}
=============================================================================
