----------------------------- MODULE MCConsole -----------------------------
(* The console on a screen of a few cells.                                 *)
EXTENDS Console
=============================================================================
