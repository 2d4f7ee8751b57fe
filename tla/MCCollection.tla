---------------------------- MODULE MCCollection ----------------------------
(***************************************************************************)
(* Two production sources and an experimental one.                         *)
(***************************************************************************)
EXTENDS Collection, TLC

CONSTANTS hmd, itel, doro

MCScope == <<hmd, itel>>
=============================================================================
