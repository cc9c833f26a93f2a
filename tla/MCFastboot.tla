------------------------------ MODULE MCFastboot ------------------------------
(***************************************************************************)
(* Module Fastboot for TLC.                                                *)
(***************************************************************************)
EXTENDS Fastboot
=============================================================================
