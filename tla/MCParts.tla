------------------------------ MODULE MCParts ------------------------------
(* Small instances of Parts.                                               *)
EXTENDS Parts

Verbs == {<<"g">>}

(* One part that is not full, or three that are, with blanks at the ends   *)
(* of parts and in the path.                                               *)
Paths == {<<>>, <<" ", "a", " ", "b">>}
============================================================================
