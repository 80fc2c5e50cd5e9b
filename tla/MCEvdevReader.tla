---------------------------- MODULE MCEvdevReader ----------------------------
(***************************************************************************)
(* A mouse and a keyboard that come and go, and an entry more than that,   *)
(* for the thread that ends and its successor.                             *)
(***************************************************************************)
EXTENDS EvdevReader
=============================================================================
