------------------------------ MODULE MCStore ------------------------------
(* Small instances of Store.                                               *)
EXTENDS StoreInv, TLC

CONSTANTS c1, c2, p1, p2, v1, v2

(* Two connections, each in a process of its own.                          *)
TwoProcesses == (c1 :> p1) @@ (c2 :> p2)

(* Two connections of one process.                                         *)
OneProcess == (c1 :> p1) @@ (c2 :> p1)

(* One connection.                                                         *)
Alone == c1 :> p1

(* Exchanging the connections together with their processes, or the        *)
(* values, changes nothing.                                                *)
Exchange == (c1 :> c2) @@ (c2 :> c1) @@ (p1 :> p2) @@ (p2 :> p1)
Same == (c1 :> c1) @@ (c2 :> c2) @@ (p1 :> p1) @@ (p2 :> p2)
Symmetry ==
  {p @@ v : p \in {Exchange, Same}, v \in Permutations({v1, v2})}
============================================================================
