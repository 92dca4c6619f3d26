------------------------------- MODULE Broker -------------------------------
(***************************************************************************)
(* The threads of pstore-brokerd from the pipe to the end of the process:  *)
(* readers, command thread, scavenger, quit thread and main               *)
(* (lib/broker/read_loop_posix.cpp, command.cpp, scavenger.cpp, quit.cpp,  *)
(* tools/brokerd/main.cpp). What a message says is its verb; messages in   *)
(* several parts are the subject of module Parts; the vacuum processes     *)
(* that GC commands start are left out.                                    *)
(***************************************************************************)
EXTENDS Integers, Sequences, FiniteSets, Functions

CONSTANTS
  Reader,        \* the read threads
  FifoCap,       \* messages that the pipe holds
  MaxMessages,   \* bound on the messages that clients send
  Allow          \* what may happen besides, see Liberties

(***************************************************************************)
(* What the shutdown does not survive:                                     *)
(*   early_request    it is asked for while a read thread is still starting *)
(*   second_request   a signal arrives after a SUICIDE command              *)
(* and what it does:                                                       *)
(*   read_error       select () or read () fails in a read thread           *)
(***************************************************************************)
Liberties == {"early_request", "second_request", "read_error"}

ASSUME BrokerAssumption ==
  /\ IsFiniteSet(Reader) /\ Reader # {}
  /\ FifoCap \in Nat /\ FifoCap >= Cardinality(Reader)
  /\ MaxMessages \in Nat
  /\ Allow \subseteq Liberties

VARIABLES
  fifo,            \* the pipe
  sent,            \* number of messages that clients have sent
  reader, buf,     \* program counters and buffers of the read threads
  queue,           \* command_processor::messages_
  cmd, msg,        \* program counter of the command thread, its message
  commands_done,   \* command_processor::commands_done_
  cmds_mut,        \* owner of command_processor::cmds_mut_
  scav, scav_mut,  \* the scavenger, and the owner of its mut_
  quit, notified,  \* the quit thread, and the pipe of quit_info
  done,            \* the global flag
  pushing,         \* who is inside shutdown (), and what it has yet to push
  main,
  processed        \* history: number of client messages processed

vars == <<fifo, sent, reader, buf, queue, cmd, msg, commands_done, cmds_mut,
          scav, scav_mut, quit, notified, done, pushing, main, processed>>

None == "none"
ClientVerbs == {"NOP", "SUICIDE"}
read_loop_quit_command == "_QUIT"
command_loop_quit_command == "_CQUIT"
NotPushing == [who |-> None, todo |-> <<>>]

(* create_worker_threads has run.                                          *)
Init ==
  /\ fifo = <<>> /\ sent = 0
  /\ reader = [r \in Reader |-> "starting"] /\ buf = [r \in Reader |-> None]
  /\ queue = <<>>
  /\ cmd = "pop" /\ msg = None /\ commands_done = FALSE
  /\ cmds_mut = None
  /\ scav = "starting" /\ scav_mut = None
  /\ quit = "wait" /\ notified = FALSE
  /\ done = FALSE /\ pushing = NotPushing
  /\ main = "join"
  /\ processed = 0

(* A read thread has the pipe open.                                        *)
Open == {r \in Reader : reader[r] \in {"reading", "check"}}

(* A shutdown has been asked for.                                          *)
Asked ==
  \/ notified \/ done
  \/ "SUICIDE" \in Range(queue) \cup Range(fifo) \cup Range(buf) \cup {msg}

(* When a shutdown may be asked for.                                       *)
MayAsk ==
  /\ "early_request" \notin Allow
       => \A r \in Reader : reader[r] # "starting"
  /\ "second_request" \notin Allow => ~Asked

----------------------------------------------------------------------------
(* Clients: writer::write to a pipe that somebody reads and that has room. *)
ClientSend(v) ==
  /\ sent < MaxMessages
  /\ Open # {} /\ Len(fifo) < FifoCap
  /\ v = "SUICIDE" => MayAsk
  /\ sent' = sent + 1
  /\ fifo' = Append(fifo, v)
  /\ UNCHANGED <<reader, buf, queue, cmd, msg, commands_done, cmds_mut, scav,
                 scav_mut, quit, notified, done, pushing, main, processed>>

(* SIGINT or SIGTERM.                                                      *)
Signal ==
  /\ MayAsk
  /\ ~notified
  /\ notified' = TRUE
  /\ UNCHANGED <<fifo, sent, reader, buf, queue, cmd, msg, commands_done,
                 cmds_mut, scav, scav_mut, quit, done, pushing, main,
                 processed>>

----------------------------------------------------------------------------
(* read_loop.                                                              *)

ReaderFrame ==
  UNCHANGED <<sent, cmd, msg, commands_done, cmds_mut, scav, scav_mut, quit,
              done, pushing, main, processed>>

(* open_server_pipe.                                                       *)
ReaderOpen(r) ==
  /\ reader[r] = "starting"
  /\ reader' = [reader EXCEPT ![r] = "reading"]
  /\ UNCHANGED <<fifo, buf, queue, notified>>
  /\ ReaderFrame

(* The pipe's descriptors are closed; with the last of them what is in the *)
(* pipe is gone.                                                           *)
ReaderEnds(r) ==
  /\ reader' = [reader EXCEPT ![r] = "exited"]
  /\ buf' = [buf EXCEPT ![r] = None]
  /\ fifo' = IF Open = {r} THEN <<>> ELSE fifo

(* Mutant: the message stays in the pipe.                                  *)
ReaderPeeks(r) ==
  /\ reader[r] = "reading"
  /\ fifo # <<>>
  /\ buf' = [buf EXCEPT ![r] = Head(fifo)]
  /\ reader' = [reader EXCEPT ![r] = "check"]
  /\ UNCHANGED <<fifo, queue, notified>>
  /\ ReaderFrame

(* Threads compete for a message; the loser finds the pipe empty and waits *)
(* again.                                                                  *)
ReaderRead(r) ==
  /\ reader[r] = "reading"
  /\ fifo # <<>>
  /\ buf' = [buf EXCEPT ![r] = Head(fifo)]
  /\ fifo' = Tail(fifo)
  /\ reader' = [reader EXCEPT ![r] = "check"]
  /\ UNCHANGED <<queue, notified>>
  /\ ReaderFrame

(* Mutant: the flag is looked at only when the pipe was empty.             *)
ReaderCheckLate(r) ==
  /\ reader[r] = "check"
  /\ IF done /\ fifo = <<>>
     THEN ReaderEnds(r) /\ UNCHANGED queue
     ELSE /\ queue' = Append(queue, buf[r])
          /\ buf' = [buf EXCEPT ![r] = None]
          /\ reader' = [reader EXCEPT ![r] = "reading"]
          /\ UNCHANGED fifo
  /\ UNCHANGED notified
  /\ ReaderFrame

(* The done flag is looked at after each message, and then the message is  *)
(* dropped.                                                                *)
ReaderCheck(r) ==
  /\ reader[r] = "check"
  /\ IF done
     THEN ReaderEnds(r) /\ UNCHANGED queue
     ELSE /\ queue' = Append(queue, buf[r])
          /\ buf' = [buf EXCEPT ![r] = None]
          /\ reader' = [reader EXCEPT ![r] = "reading"]
          /\ UNCHANGED fifo
  /\ UNCHANGED notified
  /\ ReaderFrame

(* An exception: notify_quit_thread, and the thread ends. A signal that    *)
(* interrupts select () is one such.                                       *)
ReaderFails(r) ==
  /\ "read_error" \in Allow
  /\ notified \/ MayAsk
  /\ reader[r] = "reading"
  /\ ReaderEnds(r)
  /\ notified' = TRUE
  /\ UNCHANGED queue
  /\ ReaderFrame

----------------------------------------------------------------------------
(* shutdown, called by the command thread and by the quit thread.          *)

(* What it pushes on the command queue.                                    *)
QuitCommands ==
  [i \in 1..Cardinality(Reader) |-> read_loop_quit_command]
    \o <<command_loop_quit_command>>

(* done.compare_exchange_strong: only the first caller goes on.            *)
ShutdownEnter(who) ==
  IF done THEN UNCHANGED <<done, pushing>>
  ELSE /\ done' = TRUE
       /\ pushing' = [who |-> who, todo |-> QuitCommands]

(* scavenger::shutdown needs the scavenger's mutex; the scavenger then     *)
(* sees done. Each push is a step.                                         *)
ShutdownPush(who) ==
  /\ pushing.who = who
  /\ pushing.todo = QuitCommands => scav_mut = None
  /\ pushing.todo # <<>>
  /\ queue' = Append(queue, Head(pushing.todo))
  /\ pushing' = [pushing EXCEPT !.todo = Tail(@)]
  /\ UNCHANGED <<fifo, sent, reader, buf, cmd, msg, commands_done, cmds_mut,
                 scav, scav_mut, quit, notified, done, main, processed>>

ShutdownLeave == pushing.todo = <<>>

----------------------------------------------------------------------------
(* command_processor::thread_entry.                                        *)

CmdFrame ==
  UNCHANGED <<sent, reader, buf, scav, scav_mut, quit, notified, main>>

CmdPop ==
  /\ cmd = "pop"
  /\ IF commands_done
     THEN cmd' = "exited" /\ UNCHANGED <<msg, queue>>
     ELSE /\ queue # <<>>
          /\ msg' = Head(queue)
          /\ queue' = Tail(queue)
          /\ cmd' = "parse"
  /\ UNCHANGED <<fifo, commands_done, cmds_mut, done, pushing, processed>>
  /\ CmdFrame

(* command_processor::parse, under cmds_mut_.                              *)
CmdParse ==
  /\ cmd = "parse"
  /\ cmds_mut = None
  /\ cmds_mut' = "command"
  /\ cmd' = "parsing"
  /\ UNCHANGED <<fifo, queue, msg, commands_done, done, pushing, processed>>
  /\ CmdFrame

CmdParsed ==
  /\ cmd = "parsing"
  /\ cmds_mut' = None
  /\ cmd' = "handle"
  /\ UNCHANGED <<fifo, queue, msg, commands_done, done, pushing, processed>>
  /\ CmdFrame

(* The handler has returned: on to the next message.                       *)
CmdNext(pc) ==
  /\ cmd' = pc
  /\ msg' = None
  /\ UNCHANGED <<queue, cmds_mut, processed>>
  /\ CmdFrame

(* command_processor::quit: a message wakes one reader. A pipe that nobody *)
(* reads or that is full is an exception, which ends the thread.           *)
CmdQuit ==
  /\ cmd = "handle" /\ msg = read_loop_quit_command
  /\ IF ~done THEN CmdNext("pop") /\ UNCHANGED fifo
     ELSE IF Open = {} \/ Len(fifo) >= FifoCap
     THEN CmdNext("exited") /\ UNCHANGED fifo
     ELSE CmdNext("pop") /\ fifo' = Append(fifo, "wake")
  /\ UNCHANGED <<commands_done, done, pushing>>

CmdCquit ==
  /\ cmd = "handle" /\ msg = command_loop_quit_command
  /\ commands_done' = TRUE
  /\ CmdNext("pop")
  /\ UNCHANGED <<fifo, done, pushing>>

CmdSuicide ==
  /\ cmd = "handle" /\ msg = "SUICIDE"
  /\ ShutdownEnter("command")
  /\ cmd' = "shutdown"
  /\ UNCHANGED <<fifo, msg, queue, commands_done, cmds_mut, processed>>
  /\ CmdFrame

CmdSuicideDone ==
  /\ cmd = "shutdown"
  /\ pushing.who = "command" => ShutdownLeave
  /\ CmdNext("pop")
  /\ UNCHANGED <<fifo, commands_done, done, pushing>>

(* Any other verb.                                                         *)
CmdNop ==
  /\ cmd = "handle" /\ msg = "NOP"
  /\ cmd' = "pop" /\ msg' = None
  /\ processed' = processed + 1
  /\ UNCHANGED <<fifo, queue, commands_done, cmds_mut, done, pushing>>
  /\ CmdFrame

----------------------------------------------------------------------------
(* scavenger::thread_entry. It holds its mutex except while it waits, and  *)
(* the wait ends after ten minutes at the latest.                          *)

ScavFrame ==
  UNCHANGED <<fifo, sent, reader, buf, queue, cmd, msg, commands_done, quit,
              notified, done, pushing, main, processed>>

ScavStart ==
  /\ scav = "starting"
  /\ scav_mut = None
  /\ scav' = "waiting"
  /\ UNCHANGED <<scav_mut, cmds_mut>>
  /\ ScavFrame

ScavWake ==
  /\ scav = "waiting"
  /\ scav_mut = None
  /\ IF done THEN scav' = "exited" /\ UNCHANGED scav_mut
     ELSE scav' = "scavenge" /\ scav_mut' = "scavenger"
  /\ UNCHANGED cmds_mut
  /\ ScavFrame

(* command_processor::scavenge.                                            *)
ScavLock ==
  /\ scav = "scavenge"
  /\ cmds_mut = None
  /\ cmds_mut' = "scavenger"
  /\ scav' = "erasing"
  /\ UNCHANGED scav_mut
  /\ ScavFrame

ScavErased ==
  /\ scav = "erasing"
  /\ cmds_mut' = None
  /\ scav' = "waiting" /\ scav_mut' = None
  /\ ScavFrame

----------------------------------------------------------------------------
(* quit_thread.                                                            *)

QuitFrame ==
  UNCHANGED <<fifo, sent, reader, buf, cmd, msg, commands_done, cmds_mut, scav,
              scav_mut, notified, main, processed>>

QuitClear ==
  /\ quit = "wait"
  /\ notified
  /\ queue' = <<>>
  /\ quit' = "enter"
  /\ UNCHANGED <<done, pushing>>
  /\ QuitFrame

QuitEnter ==
  /\ quit = "enter"
  /\ ShutdownEnter("quit")
  /\ quit' = "shutdown"
  /\ UNCHANGED queue
  /\ QuitFrame

QuitExit ==
  /\ quit = "shutdown"
  /\ pushing.who = "quit" => ShutdownLeave
  /\ quit' = "exited"
  /\ UNCHANGED <<queue, done, pushing>>
  /\ QuitFrame

(* main waits for the worker threads, then for the quit thread.            *)
MainJoin ==
  /\ main = "join"
  /\ cmd = "exited" /\ scav = "exited" /\ \A r \in Reader : reader[r] = "exited"
  /\ main' = "join_quit"
  /\ notified' = TRUE
  /\ UNCHANGED <<fifo, sent, reader, buf, queue, cmd, msg, commands_done,
                 cmds_mut, scav, scav_mut, quit, done, pushing, processed>>

MainExit ==
  /\ main = "join_quit"
  /\ quit = "exited"
  /\ main' = "exited"
  /\ UNCHANGED <<fifo, sent, reader, buf, queue, cmd, msg, commands_done,
                 cmds_mut, scav, scav_mut, quit, notified, done, pushing,
                 processed>>

----------------------------------------------------------------------------
ReaderNext(r) == ReaderOpen(r) \/ ReaderRead(r) \/ ReaderCheck(r)
CmdNextStep ==
  \/ CmdPop \/ CmdParse \/ CmdParsed \/ CmdQuit \/ CmdCquit \/ CmdSuicide
  \/ CmdSuicideDone \/ CmdNop \/ ShutdownPush("command")
ScavNext == ScavStart \/ ScavWake \/ ScavLock \/ ScavErased
QuitNext == QuitClear \/ QuitEnter \/ QuitExit \/ ShutdownPush("quit")
MainNext == MainJoin \/ MainExit

Next ==
  \/ \E v \in ClientVerbs : ClientSend(v)
  \/ Signal
  \/ \E r \in Reader : ReaderNext(r) \/ ReaderFails(r)
  \/ CmdNextStep \/ ScavNext \/ QuitNext \/ MainNext

Spec == Init /\ [][Next]_vars

(* The operating system runs every thread that can run; the scavenger's    *)
(* timed wait ends.                                                        *)
Fairness ==
  /\ \A r \in Reader : WF_vars(ReaderNext(r))
  /\ WF_vars(CmdNextStep) /\ WF_vars(ScavNext) /\ WF_vars(QuitNext)
  /\ WF_vars(MainNext)

FairSpec == Spec /\ Fairness

----------------------------------------------------------------------------
(* Until a shutdown begins no message is lost or processed twice: each one *)
(* is in the pipe, in a reader's buffer, in the queue or with the command  *)
(* thread, or has been processed.                                          *)
Conserved ==
  ~done /\ ~notified =>
    sent = Len(fifo) + Cardinality({r \in Reader : buf[r] # None})
             + Len(queue) + (IF msg = None THEN 0 ELSE 1) + processed

(* A shutdown that has been asked for ends the process.                    *)
ShutdownEnds == notified \/ done ~> main = "exited"
============================================================================
