----------------------------- MODULE MCStartup -----------------------------
(* Constants of Startup for TLC.                                           *)
EXTENDS Startup, TLC
=============================================================================
