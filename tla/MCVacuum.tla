------------------------------ MODULE MCVacuum ------------------------------
(* Small instances of Vacuum.                                              *)
EXTENDS Vacuum
============================================================================
