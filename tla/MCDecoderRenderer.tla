------------------------- MODULE MCDecoderRenderer -------------------------
(***************************************************************************)
(* A stream of three IDR frames whose units arrive with equal, falling and  *)
(* rising times.                                                            *)
(***************************************************************************)
EXTENDS DecoderRenderer
=============================================================================
