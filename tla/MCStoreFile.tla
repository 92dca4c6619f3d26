---------------------------- MODULE MCStoreFile ----------------------------
(* A small instance of StoreFile: pages of two bytes, two pages to a       *)
(* segment, two segments to the largest region.                            *)
EXTENDS StoreFile, TLC

CONSTANTS p1, p2, p3
============================================================================
