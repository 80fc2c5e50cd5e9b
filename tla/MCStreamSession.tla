-------------------------- MODULE MCStreamSession --------------------------
(***************************************************************************)
(* Two sessions: the second is created while the first is still being      *)
(* stopped, or was left behind connecting.                                 *)
(***************************************************************************)
EXTENDS StreamSession
=============================================================================
