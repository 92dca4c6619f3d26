------------------------------- MODULE MCWeb -------------------------------
(***************************************************************************)
(* Web for TLC.  A client sends one frame at once, of every kind there is, *)
(* or a text in two fragments that cut a character and a ping in between.  *)
(***************************************************************************)
EXTENDS Web

Frame(op, fin, piece) == [op |-> op, fin |-> fin, piece |-> piece]

SomeBursts ==
  {<<Frame(op, TRUE, "t")>> : op \in {"text", "binary", "continuation", "ping", "pong", "close", "bad"}}
  \cup {<<Frame(op, FALSE, "l")>> : op \in {"text", "ping"}}
  \cup {<<Frame("text", FALSE, "l"), Frame("ping", TRUE, "t"), Frame("continuation", TRUE, "t")>>}
=============================================================================
