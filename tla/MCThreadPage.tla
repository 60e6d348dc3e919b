---------------------------- MODULE MCThreadPage ----------------------------
(***************************************************************************)
(* The instance of ThreadPage for TLC.                                     *)
(***************************************************************************)
EXTENDS ThreadPage, MCPoller
=============================================================================
