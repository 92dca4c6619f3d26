--------------------------- MODULE RevisionStore ---------------------------
(***************************************************************************)
(* What a pstore database promises its clients: a growing sequence of      *)
(* revisions, each a map from keys to values that never changes; readers   *)
(* that each see exactly one of them; and one writer at a time, who builds *)
(* the next revision on the newest one, reads its own writes, and          *)
(* publishes all of them or nothing.                                       *)
(***************************************************************************)
EXTENDS Integers, Sequences

CONSTANTS Conn, Key, Val, NoVal,
          NoConn,     \* no connection is writing
          NoView      \* the connection is closed, in a call, or spoilt

VARIABLES revisions, writer, view

avars == <<revisions, writer, view>>

Map == [Key -> Val \cup {NoVal}]
Last == revisions[Len(revisions)]

Init ==
  /\ revisions = <<[k \in Key |-> NoVal]>>
  /\ writer = NoConn
  /\ view = [c \in Conn |-> NoView]

(* open() and sync() settle on some revision: the newest one, or the one   *)
(* asked for.                                                              *)
Settle(c) ==
  /\ writer # c
  /\ \E g \in DOMAIN revisions : view' = [view EXCEPT ![c] = revisions[g]]
  /\ UNCHANGED <<revisions, writer>>

(* A call begins, or the connection is closed.                             *)
Leave(c) ==
  /\ writer # c
  /\ view' = [view EXCEPT ![c] = NoView]
  /\ UNCHANGED <<revisions, writer>>

(* begin(): from here on the connection sees the newest revision, and      *)
(* nobody else can write.                                                  *)
Begin(c) ==
  /\ writer = NoConn
  /\ writer' = c
  /\ view' = [view EXCEPT ![c] = Last]
  /\ UNCHANGED revisions

Put(c, k, v) ==
  /\ writer = c
  /\ view' = [view EXCEPT ![c][k] = v]
  /\ UNCHANGED <<revisions, writer>>

Commit(c) ==
  /\ writer = c
  /\ revisions' = Append(revisions, view[c])
  /\ writer' = NoConn
  /\ UNCHANGED view

(* rollback(), or the transaction object destroyed without commit(): the   *)
(* connection is as it was, unless it had written.                         *)
Abort(c) ==
  /\ writer = c
  /\ writer' = NoConn
  /\ \/ view[c] = Last /\ UNCHANGED view
     \/ view' = [view EXCEPT ![c] = NoView]
  /\ UNCHANGED revisions

(* A process dies and takes all of its connections along.                  *)
Vanish(C) ==
  /\ writer' = IF writer \in C THEN NoConn ELSE writer
  /\ view' = [c \in Conn |-> IF c \in C THEN NoView ELSE view[c]]
  /\ UNCHANGED revisions

Next ==
  \/ \E c \in Conn :
       \/ Settle(c) \/ Leave(c) \/ Begin(c) \/ Commit(c) \/ Abort(c)
       \/ \E k \in Key, v \in Val : Put(c, k, v)
  \/ \E C \in SUBSET Conn : Vanish(C)

Spec == Init /\ [][Next]_avars
============================================================================
