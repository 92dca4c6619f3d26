------------------------------- MODULE Parts -------------------------------
(***************************************************************************)
(* Commands on their way to the broker: a sender cuts a command into parts *)
(* that fit the pipe's packets (lib/broker_intf/send_message.cpp), the     *)
(* broker's read threads deliver them in any order, and the command thread *)
(* puts them together again (lib/broker/parser.cpp), while the scavenger   *)
(* throws away what stays incomplete (lib/broker/command.cpp).             *)
(***************************************************************************)
EXTENDS Integers, Sequences, FiniteSetsExt

CONSTANTS
  Pid,            \* process ids of senders
  payload_chars,  \* characters in a part
  Verb, Path,     \* what is sent: sequences of characters
  MaxMessages,    \* bound on the commands that are sent
  MaxProcesses,   \* bound on the processes that bear one pid
  delete_threshold, sleep_time,  \* of the scavenger, in ticks
  MaxTime         \* bound on the clock

Blank == " "
NUL == "NUL"

(* What verbs and paths are made of. They are C strings: none holds a NUL. *)
Char == UNION {Range(s) : s \in Verb \cup Path}

ASSUME PartsAssumption ==
  /\ payload_chars \in Nat \ {0} /\ MaxMessages \in Nat /\ MaxProcesses \in Nat
  /\ delete_threshold \in Nat /\ sleep_time \in Nat \ {0} /\ MaxTime \in Nat
  /\ \A v \in Verb : v # <<>> /\ Blank \notin Range(v)
  /\ Verb \cup Path \subseteq Seq(Char) /\ NUL \notin Char

VARIABLES
  process,     \* how many processes have had this pid
  message_id,  \* the sender's counter
  todo,        \* parts that the sender has yet to write
  transit,     \* parts in the pipe, with a read thread or on the queue
  cmds,        \* command_processor::cmds_
  running,     \* the command thread
  now,         \* the clock
  woken,       \* when the scavenger last ran
  scavenging,  \* the scavenger is at work
  earliest,    \* its earliest_time
  asked,       \* history: commands that were sent
  got,         \* history: commands that were put together
  dropped      \* history: messages of which a part was lost or scavenged

vars == <<process, message_id, todo, transit, cmds, running, now, woken,
          scavenging, earliest, asked, got, dropped>>

Init ==
  /\ process = [p \in Pid |-> 1]
  /\ message_id = [p \in Pid |-> 0]
  /\ todo = [p \in Pid |-> <<>>]
  /\ transit = {}
  /\ cmds = [k \in {} |-> {}]
  /\ running = TRUE
  /\ now = 0 /\ woken = 0 /\ scavenging = FALSE /\ earliest = 0
  /\ asked = {} /\ got = <<>> /\ dropped = {}

----------------------------------------------------------------------------
(* send_message.                                                           *)

(* The payload of a command.                                               *)
Payload(verb, path) == IF path = <<>> THEN verb ELSE verb \o <<Blank>> \o path

num_parts(payload) == (Len(payload) + payload_chars - 1) \div payload_chars

(* message_type::get_payload: what is left of the array is filled up.      *)
get_payload(s) ==
  [i \in 1..payload_chars |-> IF i <= Len(s) THEN s[i] ELSE NUL]

Chunk(payload, part) ==
  SubSeq(payload, part * payload_chars + 1,
         Min({Len(payload), (part + 1) * payload_chars}))

(* The parts of a message. The field by is not sent: it tells apart the    *)
(* processes that have had the pid.                                        *)
MessageParts(p, payload) ==
  [i \in 1..num_parts(payload) |->
     [sender_id |-> p, by |-> process[p], message_id |-> message_id[p],
      part_no |-> i - 1, num_parts |-> num_parts(payload),
      payload |-> get_payload(Chunk(payload, i - 1))]]

Id(m) == [sender_id |-> m.sender_id, by |-> m.by, message_id |-> m.message_id]

BrokerFrame ==
  UNCHANGED <<cmds, running, now, woken, scavenging, earliest, got>>

SendBegin(p, verb, path) ==
  /\ todo[p] = <<>>
  /\ Cardinality(asked) < MaxMessages
  /\ todo' = [todo EXCEPT ![p] = MessageParts(p, Payload(verb, path))]
  /\ message_id' = [message_id EXCEPT ![p] = @ + 1]
  /\ asked' = asked \cup
       {[sender_id |-> p, by |-> process[p], message_id |-> message_id[p],
         verb |-> verb, path |-> path]}
  /\ UNCHANGED <<process, transit, dropped>>
  /\ BrokerFrame

(* writer::write.                                                          *)
SendPart(p) ==
  /\ todo[p] # <<>>
  /\ transit' = transit \cup {Head(todo[p])}
  /\ todo' = [todo EXCEPT ![p] = Tail(@)]
  /\ UNCHANGED <<process, message_id, asked, dropped>>
  /\ BrokerFrame

(* writer::write gives up after max_retries: with error_on_timeout it      *)
(* raises, without it the sender goes on with the next part.               *)
SendTimeout(p) ==
  /\ todo[p] # <<>>
  /\ dropped' = dropped \cup {Id(Head(todo[p]))}
  /\ \/ todo' = [todo EXCEPT ![p] = <<>>]
     \/ todo' = [todo EXCEPT ![p] = Tail(@)]
  /\ UNCHANGED <<process, message_id, transit, asked>>
  /\ BrokerFrame

(* The process ends, in the middle of a message perhaps, and another one   *)
(* gets its pid; its counter starts anew. Processes that send nothing are  *)
(* left out.                                                               *)
SenderEnds(p) ==
  /\ process[p] < MaxProcesses
  /\ message_id[p] > 0
  /\ process' = [process EXCEPT ![p] = @ + 1]
  /\ message_id' = [message_id EXCEPT ![p] = 0]
  /\ dropped' = dropped \cup {Id(m) : m \in Range(todo[p])}
  /\ todo' = [todo EXCEPT ![p] = <<>>]
  /\ UNCHANGED <<transit, asked>>
  /\ BrokerFrame

----------------------------------------------------------------------------
(* parse.                                                                  *)

extract_payload(m) ==
  SubSeq(m.payload, 1, Max({i \in 0..payload_chars :
                              i = 0 \/ m.payload[i] # NUL}))

skip_ws(s) == IF s # <<>> /\ Head(s) = Blank THEN Tail(s) ELSE s

(* Where the word that s begins with ends.                                 *)
WordEnd(s) == Min({i \in 0..Len(s) : i = Len(s) \/ s[i + 1] = Blank})

(* The command in a complete payload.                                      *)
Command(s) ==
  LET n == WordEnd(skip_ws(s))
  IN [verb |-> SubSeq(skip_ws(s), 1, n),
      path |-> skip_ws(SubSeq(skip_ws(s), n + 1, Len(skip_ws(s))))]

(* Mutant: the number of the message alone is the key.                     *)
KeyWithoutSender(m) == <<m.message_id>>

Key(m) == <<m.sender_id, m.message_id>>

(* Mutant: one part too many is waited for.                                *)
CompleteOneMore(set, m) == DOMAIN set.s = 0..set.size

Complete(set, m) == DOMAIN set.s = 0..(set.size - 1)

(* The set of parts that m belongs to; a new one has room for all of them. *)
Pieces(m) ==
  IF Key(m) \in DOMAIN cmds THEN [cmds[Key(m)] EXCEPT !.arrive_time = now]
  ELSE [arrive_time |-> now, size |-> m.num_parts, s |-> [i \in {} |-> {}]]

(* std::map::operator[] and an assignment.                                 *)
Put(f, k, v) == [x \in DOMAIN f \cup {k} |-> IF x = k THEN v ELSE f[x]]

WithPart(set, m) ==
  LET piece == [text |-> extract_payload(m), from |-> Id(m)]
  IN [set EXCEPT !.s = Put(@, m.part_no, piece)]

(* The parts in their order, one after the other.                          *)
Join(set) ==
  LET text[i \in 0..set.size] ==
        IF i = 0 THEN <<>>
        ELSE text[i - 1] \o
             (IF i - 1 \in DOMAIN set.s THEN set.s[i - 1].text ELSE <<>>)
  IN text[set.size]

Senders(set) == {set.s[i].from : i \in DOMAIN set.s}

Receive(m) ==
  /\ running
  /\ m \in transit
  /\ transit' = transit \ {m}
  /\ \E set \in {Pieces(m)}, full \in {WithPart(Pieces(m), m)} :
        \/ /\ set.size # m.num_parts  \* number_of_parts_mismatch
           /\ cmds' = Put(cmds, Key(m), set)
           /\ running' = FALSE
           /\ UNCHANGED got
        \/ /\ set.size = m.num_parts
           /\ m.part_no \notin DOMAIN set.s /\ Complete(full, m)
           /\ cmds' = Restrict(cmds, DOMAIN cmds \ {Key(m)})
           /\ \E complete_command \in {Join(full)} :
                got' = Append(got, [command |-> Command(complete_command),
                                    from |-> Senders(full)])
           /\ UNCHANGED running
        \/ /\ set.size = m.num_parts
           /\ m.part_no \in DOMAIN set.s \/ ~Complete(full, m)
           /\ cmds' = Put(cmds, Key(m), full)
           /\ UNCHANGED <<got, running>>
  /\ UNCHANGED <<process, message_id, todo, now, woken, scavenging, earliest,
                 asked, dropped>>

----------------------------------------------------------------------------
(* The scavenger wakes after sleep_time, or earlier without a reason.      *)
(* Between the moment that it works out earliest_time and the moment it    *)
(* has the mutex the command thread may run.                               *)
ScavengeBegin ==
  /\ ~scavenging
  /\ scavenging' = TRUE
  /\ earliest' = now - delete_threshold
  /\ UNCHANGED <<process, message_id, todo, transit, cmds, running, now, woken,
                 asked, got, dropped>>

(* Mutant: nothing is ever old enough.                                     *)
StaleNever == {}

Stale == {k \in DOMAIN cmds : cmds[k].arrive_time < earliest}

Scavenge ==
  /\ scavenging
  /\ dropped' = dropped \cup UNION {Senders(cmds[k]) : k \in Stale}
  /\ cmds' = Restrict(cmds, DOMAIN cmds \ Stale)
  /\ scavenging' = FALSE /\ earliest' = 0
  /\ woken' = now
  /\ UNCHANGED <<process, message_id, todo, transit, running, now, asked, got>>

(* Time passes, and the scavenger is not late.                             *)
Tick ==
  /\ now < MaxTime
  /\ ~scavenging /\ now - woken < sleep_time
  /\ now' = now + 1
  /\ UNCHANGED <<process, message_id, todo, transit, cmds, running, woken,
                 scavenging, earliest, asked, got, dropped>>

----------------------------------------------------------------------------
Deliver == \E m \in transit : Receive(m)

Next ==
  \/ \E p \in Pid :
       \/ \E verb \in Verb, path \in Path : SendBegin(p, verb, path)
       \/ SendPart(p) \/ SendTimeout(p) \/ SenderEnds(p)
  \/ Deliver
  \/ ScavengeBegin \/ Scavenge \/ Tick

Spec == Init /\ [][Next]_vars

(* The read threads and the command thread run; each part gets its turn.   *)
FairSpec ==
  /\ Spec
  /\ WF_vars(Deliver)
  /\ \A p \in Pid : WF_vars(SendPart(p) \/ SendTimeout(p))

----------------------------------------------------------------------------
(* Only one process with this pid has sent anything.                       *)
PidUnique(p) == \A a, b \in asked :
                  a.sender_id = p /\ b.sender_id = p => a.by = b.by

(* What the broker acts on is what was sent, as long as no two processes   *)
(* bore the sender's pid: each command it puts together comes from one     *)
(* message, has that message's verb and path, and no message is acted on   *)
(* twice.                                                                  *)
CommandsAsSent ==
  \A i \in DOMAIN got :
    (\A id \in got[i].from : PidUnique(id.sender_id)) =>
      /\ \E a \in asked :
           /\ got[i].from = {Id(a)}
           /\ got[i].command = [verb |-> a.verb, path |-> a.path]
      /\ \A j \in DOMAIN got : i # j => got[i].from \cap got[j].from = {}

(* An incomplete message is kept no longer than the threshold and one      *)
(* sleep of the scavenger after its last part.                             *)
ResidueBounded ==
  \A k \in DOMAIN cmds :
    now - cmds[k].arrive_time <= delete_threshold + sleep_time

(* A message all of whose parts were written, and none of whose parts was  *)
(* scavenged while another was on its way, is acted on, as long as no two  *)
(* processes bore the sender's pid.                                        *)
Delivered ==
  \A p \in Pid, n \in 0..MaxMessages-1 :
    LET id == [sender_id |-> p, by |-> 1, message_id |-> n]
    IN (\E a \in asked : Id(a) = id)
         ~> \/ id \in dropped \/ ~PidUnique(p)
            \/ \E i \in DOMAIN got : id \in got[i].from
============================================================================
