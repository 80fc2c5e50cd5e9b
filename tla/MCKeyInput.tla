----------------------------- MODULE MCKeyInput -----------------------------
(***************************************************************************)
(* Both keys of Shift, one of every other modifier, and the Z of the grab  *)
(* combination; two toggles may be pending.                                *)
(***************************************************************************)
EXTENDS KeyInput
=============================================================================
