------------------------------- MODULE MCCas -------------------------------
(* Small instances of Cas for TLC: all constants come from the .cfg files. *)
EXTENDS Cas
=============================================================================
