-------------------------- MODULE MCCdbMessageJob --------------------------
(* CdbMessageJob on a small instance: three messages, of which the last     *)
(* cannot be scanned, and two callers.                                      *)
EXTENDS CdbMessageJob
=============================================================================
