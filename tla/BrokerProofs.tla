---------------------------- MODULE BrokerProofs ----------------------------
(***************************************************************************)
(* Proofs about Broker, for any number of read threads and of messages and *)
(* any capacity of the pipe: up to its shutdown the broker loses nothing.  *)
(***************************************************************************)
EXTENDS Broker, FiniteSetTheorems, SequenceTheorems, TLAPS

(* Everything that can be under way.                                       *)
Verbs == ClientVerbs \cup {read_loop_quit_command, command_loop_quit_command,
                           "wake"}

(* The types the proofs need.                                              *)
TypeInv ==
  /\ fifo \in Seq(Verbs) /\ queue \in Seq(Verbs)
  /\ sent \in Nat /\ processed \in Nat
  /\ reader \in [Reader -> {"starting", "reading", "check", "exited"}]
  /\ buf \in [Reader -> Verbs \cup {None}]
  /\ msg \in Verbs \cup {None}
  /\ done \in BOOLEAN /\ notified \in BOOLEAN
  /\ pushing.todo \in Seq(Verbs)

(* A read thread has a message exactly between read () and push_command;   *)
(* the command thread has one exactly while it deals with it.              *)
HoldsInv ==
  /\ \A r \in Reader : reader[r] = "check" <=> buf[r] # None
  /\ cmd = "pop" => msg = None
  /\ cmd \in {"parse", "parsing", "handle"} => msg # None

(* Only shutdown () puts other messages than those of the clients on their *)
(* way, and it has set done by then.                                       *)
QuietInv ==
  ~done => /\ fifo \in Seq(ClientVerbs) /\ queue \in Seq(ClientVerbs)
           /\ \A r \in Reader : buf[r] \in ClientVerbs \cup {None}
           /\ msg \in ClientVerbs \cup {None}
           /\ pushing.todo = <<>>
           /\ cmd # "shutdown"

(* Together: the invariant that every step preserves.                      *)
BrokerInvariant == TypeInv /\ HoldsInv /\ QuietInv /\ Conserved

----------------------------------------------------------------------------
(* The invariant holds when create_worker_threads has run.                 *)
LEMMA InitInvariant == Init => BrokerInvariant
<1> SUFFICES ASSUME Init PROVE BrokerInvariant
  OBVIOUS
<1>1. TypeInv
  <2>1. /\ fifo = <<>> /\ queue = <<>> /\ pushing.todo = <<>>
        /\ done = FALSE /\ notified = FALSE
    BY DEF Init, NotPushing
  <2>2. /\ reader \in [Reader -> {"starting", "reading", "check", "exited"}]
        /\ buf \in [Reader -> Verbs \cup {None}]
        /\ msg \in Verbs \cup {None} /\ sent \in Nat /\ processed \in Nat
    BY DEF Init
  <2>3. <<>> \in Seq(Verbs)
    OBVIOUS
  <2> QED BY <2>1, <2>2, <2>3 DEF TypeInv
<1>2. HoldsInv
  BY DEF Init, HoldsInv
<1>3. QuietInv
  BY DEF Init, QuietInv, NotPushing
<1>4. Conserved
  <2>1. {r \in Reader : buf[r] # None} = {}
    BY DEF Init
  <2> QED BY <2>1, FS_EmptySet DEF Init, Conserved
<1> QED BY <1>1, <1>2, <1>3, <1>4 DEF BrokerInvariant

(* Adding and taking away one full buffer.                                 *)
LEMMA BuffersCounted ==
  ASSUME NEW S \in SUBSET Reader, NEW r \in Reader
  PROVE  /\ Cardinality(S) \in Nat
         /\ r \notin S => Cardinality(S \cup {r}) = Cardinality(S) + 1
         /\ r \in S => Cardinality(S) = Cardinality(S \ {r}) + 1
<1>1. IsFiniteSet(S)
  BY FS_Subset, BrokerAssumption
<1>2. Cardinality(S) \in Nat
  BY <1>1, FS_CardinalityType
<1>3. r \notin S => Cardinality(S \cup {r}) = Cardinality(S) + 1
  BY <1>1, FS_AddElement
<1>4. ASSUME r \in S PROVE Cardinality(S) = Cardinality(S \ {r}) + 1
  <2>1. IsFiniteSet(S \ {r})
    BY <1>1, FS_Subset
  <2>2. (S \ {r}) \cup {r} = S
    BY <1>4
  <2> QED BY <2>1, <2>2, FS_AddElement
<1> QED BY <1>2, <1>3, <1>4

(* The verbs are all different.                                            *)
LEMMA VerbsDiffer ==
  /\ ClientVerbs \subseteq Verbs /\ None \notin Verbs
  /\ {read_loop_quit_command, command_loop_quit_command}
       \subseteq Verbs \ ClientVerbs
BY DEF Verbs, ClientVerbs, None, read_loop_quit_command,
       command_loop_quit_command

(* What shutdown () pushes.                                                *)
LEMMA QuitCommandsType == QuitCommands \in Seq(Verbs)
<1>1. Cardinality(Reader) \in Nat
  BY BrokerAssumption, FS_CardinalityType
<1>2. [i \in 1..Cardinality(Reader) |-> read_loop_quit_command] \in Seq(Verbs)
  BY <1>1, VerbsDiffer
<1>3. <<command_loop_quit_command>> \in Seq(Verbs)
  BY VerbsDiffer
<1> QED BY <1>2, <1>3, ConcatProperties DEF QuitCommands

----------------------------------------------------------------------------
(* A message enters the pipe, or a shutdown is asked for from outside.     *)
LEMMA ClientStep ==
  ASSUME BrokerInvariant, NEW v \in ClientVerbs, ClientSend(v) \/ Signal
  PROVE  BrokerInvariant'
<1>1. TypeInv /\ HoldsInv /\ QuietInv /\ Conserved /\ v \in Verbs
  BY VerbsDiffer DEF BrokerInvariant
<1>2. CASE ClientSend(v)
  <2>1. /\ sent' = sent + 1 /\ fifo' = Append(fifo, v)
        /\ UNCHANGED <<reader, buf, queue, cmd, msg, notified, done, pushing,
                       processed>>
    BY <1>2 DEF ClientSend
  <2>2. TypeInv'
    BY <1>1, <2>1 DEF TypeInv
  <2>3. HoldsInv'
    BY <1>1, <2>1 DEF HoldsInv
  <2>4. QuietInv'
    BY <1>1, <2>1 DEF QuietInv
  <2>5. Conserved'
    <3>1. Len(fifo') = Len(fifo) + 1 /\ Len(fifo) \in Nat /\ Len(queue) \in Nat
      BY <1>1, <2>1 DEF TypeInv
    <3>2. PICK r \in Reader : TRUE
      BY BrokerAssumption
    <3>3. Cardinality({i \in Reader : buf[i] # None}) \in Nat
      BY <3>2, BuffersCounted
    <3> QED BY <1>1, <2>1, <3>1, <3>3 DEF Conserved, TypeInv
  <2> QED BY <2>2, <2>3, <2>4, <2>5 DEF BrokerInvariant
<1>3. CASE Signal
  BY <1>1, <1>3
     DEF Signal, BrokerInvariant, TypeInv, HoldsInv, QuietInv, Conserved
<1> QED BY <1>2, <1>3

(* Threads that touch no message.                                          *)
LEMMA MessagesUntouched ==
  ASSUME BrokerInvariant,
         UNCHANGED <<fifo, sent, reader, buf, queue, msg, done, pushing,
                     processed>>,
         cmd' = cmd \/ {cmd, cmd'} \subseteq {"parse", "parsing", "handle"}
                  \/ cmd' = "exited",
         notified' \in BOOLEAN, notified => notified'
  PROVE  BrokerInvariant'
BY DEF BrokerInvariant, TypeInv, HoldsInv, QuietInv, Conserved

(* A read thread passes messages on, one at a time. Only once the shutdown *)
(* has begun does it drop one.                                             *)
LEMMA ReaderStep ==
  ASSUME BrokerInvariant, NEW r \in Reader, ReaderNext(r) \/ ReaderFails(r)
  PROVE  BrokerInvariant'
<1> DEFINE n == Cardinality({i \in Reader : buf[i] # None})
<1>1. TypeInv /\ HoldsInv /\ QuietInv /\ Conserved
  BY DEF BrokerInvariant
<1>2. /\ UNCHANGED <<sent, cmd, msg, done, pushing, processed>>
      /\ notified' \in BOOLEAN /\ (notified => notified')
  BY <1>1 DEF ReaderNext, ReaderOpen, ReaderRead, ReaderCheck, ReaderFails,
              ReaderFrame, TypeInv
<1>3. /\ reader \in [Reader -> {"starting", "reading", "check", "exited"}]
      /\ buf \in [Reader -> Verbs \cup {None}]
      /\ fifo \in Seq(Verbs) /\ queue \in Seq(Verbs)
  BY <1>1 DEF TypeInv
<1>4. CASE ReaderOpen(r)
  <2>1. /\ UNCHANGED <<fifo, buf, queue, notified>> /\ reader[r] = "starting"
        /\ reader' = [reader EXCEPT ![r] = "reading"]
    BY <1>4 DEF ReaderOpen
  <2>2. TypeInv'
    BY <1>1, <1>2, <1>3, <2>1 DEF TypeInv
  <2>3. HoldsInv'
    BY <1>1, <1>2, <1>3, <2>1 DEF HoldsInv
  <2> QED BY <1>1, <1>2, <2>1, <2>2, <2>3
          DEF BrokerInvariant, QuietInv, Conserved
<1>5. CASE ReaderRead(r)
  <2>1. /\ fifo # <<>> /\ reader[r] = "reading"
        /\ buf' = [buf EXCEPT ![r] = Head(fifo)] /\ fifo' = Tail(fifo)
        /\ reader' = [reader EXCEPT ![r] = "check"]
        /\ UNCHANGED <<queue, notified>>
    BY <1>5 DEF ReaderRead
  <2>2. /\ Head(fifo) \in Verbs /\ fifo' \in Seq(Verbs) /\ Head(fifo) # None
        /\ Len(fifo) = Len(fifo') + 1 /\ Len(fifo') \in Nat
    BY <1>3, <2>1, VerbsDiffer
  <2>3. TypeInv'
    BY <1>1, <1>2, <1>3, <2>1, <2>2 DEF TypeInv
  <2>4. HoldsInv'
    BY <1>1, <1>2, <1>3, <2>1, <2>2 DEF HoldsInv
  <2>5. QuietInv'
    <3> SUFFICES ASSUME ~done PROVE QuietInv'
      BY <1>2 DEF QuietInv
    <3>1. fifo \in Seq(ClientVerbs)
      BY <1>1 DEF QuietInv
    <3>2. Head(fifo) \in ClientVerbs /\ fifo' \in Seq(ClientVerbs)
      BY <2>1, <3>1
    <3> QED BY <1>1, <1>2, <1>3, <2>1, <3>2 DEF QuietInv
  <2>6. Conserved'
    <3>1. {i \in Reader : buf'[i] # None} =
            {i \in Reader : buf[i] # None} \cup {r}
      BY <1>3, <2>1, <2>2
    <3>2. r \notin {i \in Reader : buf[i] # None}
      BY <1>1, <2>1 DEF HoldsInv
    <3>3. n \in Nat /\ Cardinality({i \in Reader : buf'[i] # None}) = n + 1
      BY <3>1, <3>2, BuffersCounted
    <3> HIDE DEF n
    <3> SUFFICES ASSUME ~done, ~notified
                 PROVE  sent = Len(fifo') + (n + 1) + Len(queue)
                                 + (IF msg = None THEN 0 ELSE 1) + processed
      BY <1>2, <2>1, <3>3 DEF Conserved
    <3>4. sent = Len(fifo) + n + Len(queue)
                   + (IF msg = None THEN 0 ELSE 1) + processed
      BY <1>1 DEF Conserved, n
    <3> QED BY <1>1, <2>2, <3>3, <3>4 DEF TypeInv
  <2> QED BY <2>3, <2>4, <2>5, <2>6 DEF BrokerInvariant
<1>6. CASE ReaderCheck(r) /\ ~done
  <2>1. /\ reader[r] = "check" /\ queue' = Append(queue, buf[r])
        /\ buf' = [buf EXCEPT ![r] = None]
        /\ reader' = [reader EXCEPT ![r] = "reading"]
        /\ UNCHANGED <<fifo, notified>>
    BY <1>6 DEF ReaderCheck
  <2>2. buf[r] # None /\ buf[r] \in ClientVerbs /\ queue \in Seq(ClientVerbs)
    BY <1>1, <1>6, <2>1 DEF HoldsInv, QuietInv
  <2>3. /\ queue' \in Seq(Verbs) /\ queue' \in Seq(ClientVerbs)
        /\ Len(queue') = Len(queue) + 1 /\ Len(queue) \in Nat
    BY <1>3, <2>1, <2>2
  <2>4. TypeInv'
    BY <1>1, <1>2, <1>3, <2>1, <2>3 DEF TypeInv
  <2>5. HoldsInv'
    BY <1>1, <1>2, <1>3, <2>1 DEF HoldsInv
  <2>6. QuietInv'
    BY <1>1, <1>2, <1>3, <2>1, <2>3 DEF QuietInv
  <2>7. Conserved'
    <3>1. {i \in Reader : buf'[i] # None} =
            {i \in Reader : buf[i] # None} \ {r}
      BY <1>3, <2>1
    <3> DEFINE m == Cardinality({i \in Reader : buf'[i] # None})
    <3>2. m \in Nat /\ n = m + 1
      BY <2>2, <3>1, BuffersCounted, Zenon
    <3> HIDE DEF n, m
    <3> SUFFICES ASSUME ~notified
                 PROVE  sent = Len(fifo) + m + Len(queue')
                                 + (IF msg = None THEN 0 ELSE 1) + processed
      BY <1>2, <2>1 DEF Conserved, m
    <3>3. sent = Len(fifo) + n + Len(queue)
                   + (IF msg = None THEN 0 ELSE 1) + processed
      BY <1>1, <1>6 DEF Conserved, n
    <3>4. Len(fifo) \in Nat /\ processed \in Nat
      BY <1>1 DEF TypeInv
    <3> QED BY <2>3, <3>2, <3>3, <3>4
  <2> QED BY <2>4, <2>5, <2>6, <2>7 DEF BrokerInvariant
<1>7. CASE ReaderEnds(r) /\ (done \/ notified') /\ queue' = queue
  <2>1. /\ reader' = [reader EXCEPT ![r] = "exited"]
        /\ buf' = [buf EXCEPT ![r] = None]
        /\ fifo' = <<>> \/ fifo' = fifo
    BY <1>7 DEF ReaderEnds
  <2> <<>> \in Seq(Verbs) /\ <<>> \in Seq(ClientVerbs)
    OBVIOUS
  <2>2. TypeInv'
    BY <1>1, <1>2, <1>3, <1>7, <2>1 DEF TypeInv
  <2>3. HoldsInv'
    BY <1>1, <1>2, <1>3, <2>1 DEF HoldsInv
  <2>4. QuietInv'
    BY <1>1, <1>2, <1>3, <1>7, <2>1 DEF QuietInv
  <2> QED BY <1>2, <1>7, <2>2, <2>3, <2>4 DEF BrokerInvariant, Conserved
<1> QED BY <1>4, <1>5, <1>6, <1>7 DEF ReaderNext, ReaderFails, ReaderCheck

(* A step by which, or before which, the shutdown has begun.               *)
LEMMA ShuttingDownStep ==
  ASSUME BrokerInvariant, done' = TRUE,
         UNCHANGED <<sent, reader, buf, processed, notified>>,
         fifo' \in Seq(Verbs), queue' \in Seq(Verbs),
         pushing'.todo \in Seq(Verbs),
         \/ cmd' = cmd /\ msg' = msg
         \/ cmd' = "parse" /\ msg' \in Verbs
         \/ cmd' \in {"pop", "exited"} /\ msg' = None
         \/ cmd' = "shutdown" /\ msg' = msg
  PROVE  BrokerInvariant'
<1>1. TypeInv /\ HoldsInv
  BY DEF BrokerInvariant
<1>2. TypeInv'
  BY <1>1, VerbsDiffer DEF TypeInv
<1>3. HoldsInv'
  BY <1>1, VerbsDiffer DEF HoldsInv
<1> QED BY <1>2, <1>3 DEF BrokerInvariant, QuietInv, Conserved

(* A step of shutdown () in either of the threads that may call it.        *)
LEMMA ShutdownPushStep ==
  ASSUME BrokerInvariant, NEW who, ShutdownPush(who)
  PROVE  BrokerInvariant'
<1>1. TypeInv /\ QuietInv
  BY DEF BrokerInvariant
<1>2. done = TRUE /\ pushing.todo # <<>>
  BY <1>1 DEF ShutdownPush, QuietInv, TypeInv
<1>3. /\ queue' = Append(queue, Head(pushing.todo))
      /\ pushing' = [pushing EXCEPT !.todo = Tail(pushing.todo)]
      /\ UNCHANGED <<sent, reader, buf, processed, notified, done, fifo, cmd,
                     msg>>
  BY DEF ShutdownPush
<1>4. /\ queue \in Seq(Verbs) /\ fifo \in Seq(Verbs)
      /\ pushing.todo \in Seq(Verbs)
  BY <1>1 DEF TypeInv
<1>5. queue' \in Seq(Verbs) /\ Tail(pushing.todo) \in Seq(Verbs)
  BY <1>2, <1>3, <1>4
<1>6. pushing'.todo = Tail(pushing.todo) \/ pushing'.todo = pushing.todo
  BY <1>3
<1> QED BY <1>2, <1>3, <1>4, <1>5, <1>6, ShuttingDownStep

(* The command thread takes messages off the queue. Up to the shutdown it  *)
(* finds those of the clients only, and what is not a SUICIDE command it   *)
(* processes.                                                              *)
LEMMA CmdStep ==
  ASSUME BrokerInvariant, CmdNextStep
  PROVE  BrokerInvariant'
<1>1. TypeInv /\ HoldsInv /\ QuietInv /\ Conserved
  BY DEF BrokerInvariant
<1>2. /\ fifo \in Seq(Verbs) /\ queue \in Seq(Verbs) /\ done \in BOOLEAN
      /\ pushing.todo \in Seq(Verbs) /\ notified \in BOOLEAN
  BY <1>1 DEF TypeInv
<1>3. CASE CmdPop
  <2>1. CASE commands_done
    BY <1>1, <1>3, <2>1, MessagesUntouched DEF CmdPop, CmdFrame, TypeInv
  <2>2. CASE ~commands_done
    <3>1. /\ queue # <<>> /\ cmd = "pop" /\ cmd' = "parse"
          /\ msg' = Head(queue) /\ queue' = Tail(queue)
          /\ UNCHANGED <<sent, reader, buf, processed, notified, done, fifo,
                         pushing>>
      BY <1>3, <2>2 DEF CmdPop, CmdFrame
    <3>2. /\ msg = None /\ msg' \in Verbs /\ msg' # None
          /\ queue' \in Seq(Verbs)
          /\ Len(queue) = Len(queue') + 1 /\ Len(queue') \in Nat
      BY <1>1, <1>2, <3>1, VerbsDiffer DEF HoldsInv
    <3>3. CASE done
      BY <1>1, <1>2, <3>1, <3>2, <3>3, ShuttingDownStep
    <3>4. CASE ~done
      <4>1. TypeInv'
        BY <1>1, <3>1, <3>2 DEF TypeInv
      <4>2. HoldsInv'
        BY <1>1, <3>1, <3>2 DEF HoldsInv
      <4>3. QuietInv'
        <5>1. queue \in Seq(ClientVerbs)
          BY <1>1, <3>4 DEF QuietInv
        <5>2. msg' \in ClientVerbs /\ queue' \in Seq(ClientVerbs)
          BY <3>1, <5>1
        <5> QED BY <1>1, <3>1, <3>4, <5>2 DEF QuietInv
      <4>4. Conserved'
        <5> DEFINE n == Cardinality({i \in Reader : buf[i] # None})
        <5>1. PICK r \in Reader : TRUE
          BY BrokerAssumption
        <5>2. n \in Nat
          BY <5>1, BuffersCounted
        <5> HIDE DEF n
        <5>3. Len(fifo) \in Nat /\ processed \in Nat
          BY <1>1 DEF TypeInv
        <5> SUFFICES ASSUME ~notified
                     PROVE  sent = Len(fifo) + n + Len(queue') + 1 + processed
          BY <3>1, <3>2 DEF Conserved, n
        <5>4. sent = Len(fifo) + n + Len(queue) + 0 + processed
          BY <1>1, <3>2, <3>4 DEF Conserved, n
        <5> QED BY <3>2, <5>2, <5>3, <5>4
      <4> QED BY <4>1, <4>2, <4>3, <4>4 DEF BrokerInvariant
    <3> QED BY <3>3, <3>4
  <2> QED BY <2>1, <2>2
<1>4. CASE CmdParse \/ CmdParsed
  BY <1>1, <1>2, <1>4, MessagesUntouched DEF CmdParse, CmdParsed, CmdFrame
<1>5. CASE CmdQuit \/ CmdCquit \/ CmdSuicideDone
  <2>1. done = TRUE
    <3>1. CASE CmdQuit \/ CmdCquit
      BY <1>1, <1>2, <3>1, VerbsDiffer DEF CmdQuit, CmdCquit, QuietInv
    <3>2. CASE CmdSuicideDone
      BY <1>1, <1>2, <3>2 DEF CmdSuicideDone, QuietInv
    <3> QED BY <1>5, <3>1, <3>2
  <2>2. /\ UNCHANGED <<sent, reader, buf, processed, notified, done, queue,
                       pushing>>
        /\ cmd' \in {"pop", "exited"} /\ msg' = None
        /\ fifo' = fifo \/ fifo' = Append(fifo, "wake")
    BY <1>5 DEF CmdQuit, CmdCquit, CmdSuicideDone, CmdNext, CmdFrame
  <2>3. fifo' \in Seq(Verbs)
    <3>1. "wake" \in Verbs
      BY DEF Verbs
    <3>2. fifo \in Seq(Verbs) /\ (fifo' = fifo \/ fifo' = Append(fifo, "wake"))
      BY <1>2, <2>2, Zenon
    <3> QED BY ONLY <3>1, <3>2, SMTT(20)
  <2> QED BY <1>2, <2>1, <2>2, <2>3, ShuttingDownStep
<1>6. CASE CmdSuicide
  <2>1. /\ UNCHANGED <<sent, reader, buf, processed, notified, fifo, queue,
                       msg>>
        /\ cmd' = "shutdown" /\ ShutdownEnter("command")
    BY <1>6 DEF CmdSuicide, CmdFrame
  <2>2. done' = TRUE /\ pushing'.todo \in Seq(Verbs)
    BY <1>2, <2>1, QuitCommandsType DEF ShutdownEnter
  <2> QED BY <1>2, <2>1, <2>2, ShuttingDownStep
<1>7. CASE CmdNop
  <2>1. /\ cmd = "handle" /\ msg = "NOP" /\ cmd' = "pop" /\ msg' = None
        /\ processed' = processed + 1
        /\ UNCHANGED <<sent, reader, buf, notified, done, fifo, queue, pushing>>
    BY <1>7 DEF CmdNop, CmdFrame
  <2>2. TypeInv'
    BY <1>1, <2>1 DEF TypeInv
  <2>3. HoldsInv'
    BY <1>1, <2>1 DEF HoldsInv
  <2>4. QuietInv'
    BY <1>1, <2>1 DEF QuietInv
  <2>5. Conserved'
    <3> DEFINE n == Cardinality({i \in Reader : buf[i] # None})
    <3>1. PICK r \in Reader : TRUE
      BY BrokerAssumption
    <3>2. n \in Nat
      BY <3>1, BuffersCounted
    <3> HIDE DEF n
    <3>3. Len(fifo) \in Nat /\ Len(queue) \in Nat /\ processed \in Nat
      BY <1>1 DEF TypeInv
    <3> SUFFICES ASSUME ~notified, ~done
                 PROVE  sent = Len(fifo) + n + Len(queue) + 0 + (processed + 1)
      BY <2>1 DEF Conserved, n
    <3>4. msg # None
      BY <2>1 DEF None
    <3>5. sent = Len(fifo) + n + Len(queue) + 1 + processed
      BY <1>1, <3>4 DEF Conserved, n
    <3> QED BY <3>2, <3>3, <3>5
  <2> QED BY <2>2, <2>3, <2>4, <2>5 DEF BrokerInvariant
<1> QED BY <1>3, <1>4, <1>5, <1>6, <1>7, ShutdownPushStep DEF CmdNextStep

(* The quit thread empties the queue only after it was notified.           *)
LEMMA QuitStep ==
  ASSUME BrokerInvariant, QuitNext
  PROVE  BrokerInvariant'
<1>1. TypeInv /\ HoldsInv /\ QuietInv /\ Conserved
  BY DEF BrokerInvariant
<1>2. CASE QuitClear
  <2>1. /\ notified = TRUE /\ queue' = <<>>
        /\ UNCHANGED <<sent, reader, buf, processed, notified, done, fifo, cmd,
                       msg, pushing>>
    BY <1>1, <1>2 DEF QuitClear, QuitFrame, TypeInv
  <2>2. <<>> \in Seq(Verbs) /\ <<>> \in Seq(ClientVerbs)
    OBVIOUS
  <2>3. TypeInv'
    BY <1>1, <2>1, <2>2 DEF TypeInv
  <2>4. HoldsInv'
    BY <1>1, <2>1 DEF HoldsInv
  <2>5. QuietInv'
    BY <1>1, <2>1, <2>2 DEF QuietInv
  <2> QED BY <2>1, <2>3, <2>4, <2>5 DEF BrokerInvariant, Conserved
<1>3. CASE QuitEnter
  <2>1. /\ UNCHANGED <<sent, reader, buf, processed, notified, fifo, queue,
                       msg, cmd>>
        /\ ShutdownEnter("quit")
    BY <1>3 DEF QuitEnter, QuitFrame
  <2>2. done' = TRUE /\ pushing'.todo \in Seq(Verbs)
    BY <1>1, <2>1, QuitCommandsType DEF ShutdownEnter, TypeInv
  <2> QED BY <1>1, <2>1, <2>2, ShuttingDownStep DEF TypeInv
<1>4. CASE QuitExit
  BY <1>1, <1>4, MessagesUntouched DEF QuitExit, QuitFrame, TypeInv
<1> QED BY <1>2, <1>3, <1>4, ShutdownPushStep DEF QuitNext

(* Every step of every thread and of the clients keeps the invariant.      *)
LEMMA NextStep ==
  ASSUME BrokerInvariant, [Next]_vars
  PROVE  BrokerInvariant'
<1>1. CASE ScavNext \/ MainNext \/ UNCHANGED vars
  <2>1. /\ UNCHANGED <<fifo, sent, reader, buf, queue, msg, done, pushing,
                       processed, cmd>>
        /\ notified' = notified \/ notified' = TRUE
    BY <1>1, Zenon DEF ScavNext, ScavStart, ScavWake, ScavLock, ScavErased, ScavFrame,
                MainNext, MainJoin, MainExit, vars
  <2>2. notified' \in BOOLEAN /\ (notified => notified')
    BY <2>1 DEF BrokerInvariant, TypeInv
  <2> QED BY <2>1, <2>2, MessagesUntouched
<1>2. CASE Signal
  <2>1. "NOP" \in ClientVerbs
    BY DEF ClientVerbs
  <2> QED BY <1>2, <2>1, ClientStep
<1> QED BY <1>1, <1>2, ClientStep, ReaderStep, CmdStep, QuitStep DEF Next

----------------------------------------------------------------------------
(* BrokerInvariant holds in every state of every execution.                *)
THEOREM BrokerInvariantHolds == Spec => []BrokerInvariant
<1>1. Init => BrokerInvariant
  BY InitInvariant
<1>2. BrokerInvariant /\ [Next]_vars => BrokerInvariant'
  BY NextStep
<1> QED BY <1>1, <1>2, PTL DEF Spec

(* However many threads read from the pipe and whichever of them gets a    *)
(* message, each is in one place on its way to the command thread, or has  *)
(* been processed, until a shutdown begins.                                *)
THEOREM NoMessageLost == Spec => []Conserved
<1>1. BrokerInvariant => Conserved
  BY DEF BrokerInvariant
<1> QED BY <1>1, BrokerInvariantHolds, PTL
============================================================================
