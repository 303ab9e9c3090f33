---------------------------- MODULE MCConfigSync ----------------------------
(* Model-checking instance of ConfigSync.                                  *)
EXTENDS ConfigSync
=============================================================================
