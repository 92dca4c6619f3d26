------------------------------ MODULE MCHamt ------------------------------
(***************************************************************************)
(* Hamt with three slots to a node and two levels of internal nodes.  The  *)
(* keys ka, kb and ke have the same hash, kc shares its first digit with   *)
(* them, kd shares none.                                                   *)
(***************************************************************************)
EXTENDS Hamt

CONSTANTS ka, kb, kc, kd, ke, va, vb

MCHash ==
  [k \in Keys |-> [i \in 0 .. 1 |-> CASE i = 0 -> IF k = kd THEN 0 ELSE 1
                                    [] i = 1 -> IF k = kc THEN 2 ELSE 1]]

(* Keys with the same hash, and values, can be exchanged.                  *)
Symmetry == Permutations({ka, kb, ke}) \cup Permutations({va, vb})

=============================================================================
