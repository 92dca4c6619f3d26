---------------------------- MODULE MCGcWatch ----------------------------
(***************************************************************************)
(* GcWatch with two stores, two process numbers and a pipe of nine bytes.  *)
(***************************************************************************)
EXTENDS GcWatch

CONSTANTS s1, s2
=============================================================================
