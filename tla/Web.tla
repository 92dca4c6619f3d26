-------------------------------- MODULE Web --------------------------------
(***************************************************************************)
(* The broker's web server: the thread that accepts connections            *)
(* (httpd::server) and is told to quit (httpd::quit), one thread for every *)
(* WebSockets session (ws_server_loop), and the threads that publish on    *)
(* the channels the sessions subscribe to (support/pubsub.hpp).            *)
(*                                                                         *)
(* A session echoes the messages of its client and passes on those of its  *)
(* channel.  Text is abstracted to pieces that matter to validity: "l" and *)
(* "t" are the two halves of a character, so that a message that is cut    *)
(* between them is text only when it is put together again.  Clients send  *)
(* whole frames and whole requests, and do not send for ever.              *)
(***************************************************************************)
EXTENDS Naturals, Sequences, FiniteSets, FiniteSetsExt

CONSTANTS
  Session,       \* the clients that ask for a WebSockets session
  Channel,       \* the channels
  NoChannel,     \* a URI that names no channel
  Bursts,        \* sequences of frames that clients send at once
  MaxEvents      \* bound: requests, bursts and messages published, in all

(* Half of a character, or all that is missing of one; and the frames that *)
(* can come in, with one piece of payload each.                            *)
Piece == {"l", "t"}
Frames ==
  [op : {"text", "binary", "continuation", "ping", "pong", "close", "bad"},
   fin : BOOLEAN, piece : Piece]

ASSUME WebAssumption ==
  /\ NoChannel \notin Channel /\ Session \cap {"page", "wake"} = {}
  /\ Bursts \subseteq Seq(Frames) /\ MaxEvents \in Nat

VARIABLES
  status,      \* server_status::state_
  expected,    \* the state that the server's loop expects to find
  server,      \* where the server's thread is
  backlog,     \* connections that wait to be accepted
  events,      \* how many requests, bursts and messages there have been
  quit,        \* where the thread that calls httpd::quit is
  sent,        \* the frames a client has sent
  inbox,       \* those that have not been read from the socket
  buffer,      \* those that are in the session's buffered_reader
  hungup,      \* clients that have closed their connection
  uri,         \* what the URI of a client's request names
  session,     \* where a session's thread is
  avail,       \* what block_for_input has returned
  done,        \* the session's loop is to end
  command,     \* the message that is being put together
  out,         \* what a session has sent to its client
  subscribers, \* of a channel
  queue,       \* a subscriber's messages
  pipe,        \* the bytes in the pipe of a channel's condition variable
  publisher,   \* where the thread that publishes on a channel is
  published,   \* how many messages have been pushed to subscribers
  since        \* how many there were when a session subscribed

serverVars == <<status, expected, server, backlog, events, quit>>
clientVars == <<sent, hungup, uri>>
sessionVars == <<inbox, buffer, session, avail, done, command, out, since>>
channelVars == <<subscribers, queue, pipe, publisher, published>>
vars == <<serverVars, clientVars, sessionVars, channelVars>>

Unknown == [op |-> "unknown", payload |-> <<>>]

(* The opcodes with bit 3 set, as "unknown" has it too.                    *)
is_control_frame_opcode(op) == op \in {"close", "ping", "pong", "unknown"}

(* is_valid_utf8, of pieces of characters.                                 *)
is_valid_utf8(p) ==
  /\ Len(p) % 2 = 0
  /\ \A i \in DOMAIN p : p[i] = IF i % 2 = 1 THEN "l" ELSE "t"

Init ==
  /\ status = "initializing" /\ expected = "initializing"
  /\ server = "check" /\ backlog = <<>> /\ events = 0 /\ quit = "running"
  /\ sent = [s \in Session |-> <<>>] /\ hungup = {} /\ uri = [s \in Session |-> NoChannel]
  /\ inbox = sent /\ buffer = sent /\ out = sent
  /\ session = [s \in Session |-> "none"]
  /\ avail = [s \in Session |-> {}]
  /\ done = [s \in Session |-> FALSE]
  /\ command = [s \in Session |-> Unknown]
  /\ since = [s \in Session |-> 0]
  /\ subscribers = [c \in Channel |-> {}]
  /\ queue = [s \in Session |-> <<>>]
  /\ pipe = [c \in Channel |-> 0]
  /\ publisher = [c \in Channel |-> "idle"]
  /\ published = [c \in Channel |-> 0]

----------------------------------------------------------------------------
(* httpd::server, httpd::quit and server_status.                           *)

(* The head of the loop: server_status::listening compares and exchanges   *)
(* in one step.                                                            *)
ListeningAlways ==
  /\ server = "check"
  /\ status' = "listening" /\ expected' = "listening" /\ server' = "accept"
  /\ UNCHANGED <<backlog, events, quit, clientVars, sessionVars, channelVars>>
Listening ==
  /\ server = "check"
  /\ IF status = expected
     THEN status' = "listening" /\ expected' = "listening" /\ server' = "accept"
     ELSE server' = "join" /\ UNCHANGED <<status, expected>>
  /\ UNCHANGED <<backlog, events, quit, clientVars, sessionVars, channelVars>>

(* A connection is accepted and its request read.  A page, an error and    *)
(* the connection of quit() leave nothing behind.  A session gets a thread *)
(* with the reader as it is: some of the client's first frames may be in   *)
(* its buffer.                                                             *)
ServePage ==
  /\ server = "accept" /\ backlog # <<>> /\ Head(backlog) \notin Session
  /\ backlog' = Tail(backlog) /\ server' = "check"
  /\ UNCHANGED <<status, expected, events, quit, clientVars, sessionVars, channelVars>>

Upgrade(s, n) ==
  /\ server = "accept" /\ backlog # <<>> /\ Head(backlog) = s
  /\ backlog' = Tail(backlog) /\ server' = "check"
  /\ buffer' = [buffer EXCEPT ![s] = SubSeq(inbox[s], 1, n)]
  /\ inbox' = [inbox EXCEPT ![s] = SubSeq(@, n + 1, Len(@))]
  /\ session' = [session EXCEPT ![s] = "subscribe"]
  /\ UNCHANGED <<status, expected, events, quit, clientVars, channelVars, avail, done, command,
                 out, since>>

(* The answer to a client that has gone cannot be sent.                    *)
UpgradeFails(s) ==
  /\ server = "accept" /\ backlog # <<>> /\ Head(backlog) = s /\ s \in hungup
  /\ backlog' = Tail(backlog) /\ server' = "check"
  /\ session' = [session EXCEPT ![s] = "refused"]
  /\ UNCHANGED <<status, expected, events, quit, clientVars, channelVars, inbox, buffer, avail,
                 done, command, out, since>>

(* The sessions are joined when the loop has ended.                        *)
Join ==
  /\ server = "join"
  /\ \A s \in Session : session[s] \in {"none", "waiting", "refused", "ended"}
  /\ server' = "ended"
  /\ UNCHANGED <<status, expected, backlog, events, quit, clientVars, sessionVars, channelVars>>

ServerNext ==
  \/ Listening \/ ServePage \/ Join
  \/ \E s \in Session : UpgradeFails(s) \/ \E n \in 0 .. Len(inbox[s]) : Upgrade(s, n)

(* quit: the exchange, then a connection when the server may be waiting    *)
(* for one.                                                                *)
Shutdown ==
  /\ quit = "running"
  /\ quit' = IF status = "listening" THEN "connect" ELSE "done"
  /\ status' = "closing"
  /\ UNCHANGED <<expected, server, backlog, events, clientVars, sessionVars, channelVars>>
Connect ==
  /\ quit = "connect" /\ quit' = "done"
  /\ backlog' = Append(backlog, "wake")
  /\ UNCHANGED <<status, expected, server, events, clientVars, sessionVars, channelVars>>

----------------------------------------------------------------------------
(* The clients.                                                            *)

Event == events < MaxEvents /\ events' = events + 1

AskForPage ==
  /\ server # "ended" /\ Event
  /\ backlog' = Append(backlog, "page")
  /\ UNCHANGED <<status, expected, server, quit, clientVars, sessionVars, channelVars>>

(* The names of the clients mean nothing: it is the next one that comes.   *)
AskForSession(c) ==
  /\ server # "ended" /\ Event
  /\ \E s \in Session : session[s] = "none"
  /\ LET s == CHOOSE t \in Session : session[t] = "none" IN
     /\ uri' = [uri EXCEPT ![s] = c]
     /\ session' = [session EXCEPT ![s] = "waiting"]
     /\ backlog' = Append(backlog, s)
  /\ UNCHANGED <<status, expected, server, quit, sent, hungup, inbox, buffer, avail, done, command,
                 out, since, channelVars>>

Connected(s) == session[s] \notin {"none", "refused", "ended"} /\ s \notin hungup

SendFrames(s, b) ==
  /\ Connected(s) /\ Event
  /\ sent' = [sent EXCEPT ![s] = @ \o b]
  /\ inbox' = [inbox EXCEPT ![s] = @ \o b]
  /\ UNCHANGED <<hungup, uri, status, expected, server, backlog, quit, channelVars, buffer, session,
                 avail, done, command, out, since>>

HangUp(s) ==
  /\ Connected(s)
  /\ hungup' = hungup \cup {s}
  /\ UNCHANGED <<sent, uri, serverVars, channelVars, sessionVars>>

----------------------------------------------------------------------------
(* A session: ws_server_loop.                                              *)

At(s, here, there) == session[s] = here /\ session' = [session EXCEPT ![s] = there]

(* channel::new_subscriber, when the URI names a channel.                  *)
Subscribe(s) ==
  /\ At(s, "subscribe", "select")
  /\ LET c == uri[s] IN
     IF c = NoChannel THEN UNCHANGED <<subscribers, since>>
     ELSE /\ subscribers' = [subscribers EXCEPT ![c] = @ \cup {s}]
          /\ since' = [since EXCEPT ![s] = published[c]]
  /\ UNCHANGED <<serverVars, clientVars, inbox, buffer, avail, done, command, out, queue, pipe,
                 publisher, published>>

(* block_for_input: what the reader holds is input, and then nobody looks  *)
(* at the pipe.  A select that times out starts again.                     *)
ReadableSocket(s) == IF inbox[s] # <<>> \/ s \in hungup THEN {"socket"} ELSE {}
Readable(s) ==
  {x \in {"socket", "cv"} :
     IF x = "socket" THEN inbox[s] # <<>> \/ s \in hungup
     ELSE uri[s] # NoChannel /\ pipe[uri[s]] > 0}
BlockForInput(s) ==
  /\ session[s] = "select"
  /\ IF buffer[s] # <<>> THEN avail' = [avail EXCEPT ![s] = {"socket"}]
     ELSE Readable(s) # {} /\ avail' = [avail EXCEPT ![s] = Readable(s)]
  /\ session' = [session EXCEPT ![s] = IF "socket" \in avail'[s] THEN "read" ELSE "reset"]
  /\ UNCHANGED <<serverVars, clientVars, channelVars, inbox, buffer, done, command, out, since>>

Sent(op, payload) == [op |-> op, payload |-> payload]

(* check_message_complete, after frame f has been added to the message m:  *)
(* what is sent, what becomes of the message, and whether the loop ends.   *)
Reply(send, m, end) == [send |-> send, command |-> m, done |-> end]
complete_by_piece(f, m) ==
  IF ~f.fin THEN Reply(<<>>, m, FALSE)
  ELSE IF m.op = "text" /\ ~is_valid_utf8(<<f.piece>>) THEN Reply(<<Sent("close", <<>>)>>, m, TRUE)
  ELSE Reply(<<Sent(m.op, m.payload)>>, Unknown, FALSE)
check_message_complete(f, m) ==
  IF ~f.fin THEN Reply(<<>>, m, FALSE)
  ELSE IF m.op = "text" /\ ~is_valid_utf8(m.payload) THEN Reply(<<Sent("close", <<>>)>>, m, TRUE)
  ELSE Reply(<<Sent(m.op, m.payload)>>, Unknown, FALSE)

(* socket_read, for a frame that read_frame has returned or has refused.   *)
RefusedUnlessOpen(f, m) ==
  \/ f.op = "bad"
  \/ is_control_frame_opcode(f.op) /\ ~f.fin
  \/ f.op \in {"text", "binary"} /\ m # Unknown
Refused(f, m) ==
  \/ f.op = "bad"
  \/ is_control_frame_opcode(f.op) /\ ~f.fin
  \/ f.op = "continuation" /\ is_control_frame_opcode(m.op)
  \/ f.op \in {"text", "binary"} /\ m # Unknown
socket_read(f, m) ==
  CASE Refused(f, m) \/ f.op = "close" -> Reply(<<Sent("close", <<>>)>>, m, TRUE)
    [] ~Refused(f, m) /\ f.op = "ping" -> Reply(<<Sent("pong", <<f.piece>>)>>, m, FALSE)
    [] ~Refused(f, m) /\ f.op = "pong" -> Reply(<<>>, m, FALSE)
    [] ~Refused(f, m) /\ f.op = "continuation" ->
         check_message_complete(f, [m EXCEPT !.payload = Append(@, f.piece)])
    [] ~Refused(f, m) /\ f.op \in {"text", "binary"} ->
         check_message_complete(f, [op |-> f.op, payload |-> <<f.piece>>])

(* The reader refills an empty buffer with some of what has arrived; the   *)
(* end of the connection is insufficient_data.                             *)
AfterRead(s, end) == IF "cv" \in avail[s] THEN "reset" ELSE IF end THEN "end" ELSE "select"
SocketRead(s, n) ==
  /\ session[s] = "read"
  /\ IF buffer[s] = <<>> THEN n > 0 ELSE n = 0
  /\ LET held == buffer[s] \o SubSeq(inbox[s], 1, n)
         r == socket_read(Head(held), command[s])
     IN /\ session' = [session EXCEPT ![s] = AfterRead(s, r.done)]
        /\ out' = [out EXCEPT ![s] = @ \o r.send]
        /\ command' = [command EXCEPT ![s] = r.command]
        /\ done' = [done EXCEPT ![s] = r.done]
        /\ buffer' = [buffer EXCEPT ![s] = Tail(held)]
  /\ inbox' = [inbox EXCEPT ![s] = SubSeq(@, n + 1, Len(@))]
  /\ UNCHANGED <<serverVars, clientVars, channelVars, avail, since>>
EndOfStream(s) ==
  /\ buffer[s] = <<>> /\ inbox[s] = <<>> /\ s \in hungup
  /\ At(s, "read", AfterRead(s, TRUE))
  /\ out' = [out EXCEPT ![s] = Append(@, Sent("close", <<>>))]
  /\ done' = [done EXCEPT ![s] = TRUE]
  /\ UNCHANGED <<serverVars, clientVars, channelVars, inbox, buffer, avail, command, since>>

(* The channel: a byte is read from the pipe, then the subscriber's queue  *)
(* is emptied.  When another session has taken the byte, reset() raises:   *)
(* the thread's handler logs that and the session is over.                 *)
Reset(s) ==
  /\ At(s, "reset", "pop") /\ pipe[uri[s]] > 0
  /\ pipe' = [pipe EXCEPT ![uri[s]] = @ - 1]
  /\ UNCHANGED <<serverVars, clientVars, inbox, buffer, avail, done, command, out, since,
                 subscribers, queue, publisher, published>>
ResetRaises(s) ==
  /\ At(s, "reset", "ended") /\ pipe[uri[s]] = 0
  /\ subscribers' = [subscribers EXCEPT ![uri[s]] = @ \ {s}]
  /\ queue' = [queue EXCEPT ![s] = <<>>]
  /\ UNCHANGED <<serverVars, clientVars, inbox, buffer, avail, done, command, out, since, pipe,
                 publisher, published>>
Pop(s) ==
  /\ session[s] = "pop" /\ queue[s] # <<>>
  /\ out' = [out EXCEPT ![s] = Append(@, Sent("push", Head(queue[s])))]
  /\ queue' = [queue EXCEPT ![s] = Tail(@)]
  /\ UNCHANGED <<serverVars, clientVars, inbox, buffer, session, avail, done, command, since,
                 subscribers, pipe, publisher, published>>
Popped(s) ==
  /\ At(s, "pop", "loop") /\ queue[s] = <<>>
  /\ UNCHANGED <<serverVars, clientVars, channelVars, inbox, buffer, avail, done, command, out,
                 since>>

(* Once more round the loop, or the end: the subscription goes with it     *)
(* (channel::remove).                                                      *)
Loop(s) ==
  /\ At(s, "loop", IF done[s] THEN "end" ELSE "select")
  /\ UNCHANGED <<serverVars, clientVars, channelVars, inbox, buffer, avail, done, command, out,
                 since>>
End(s) ==
  /\ At(s, "end", "ended")
  /\ subscribers' = [c \in Channel |-> subscribers[c] \ {s}]
  /\ queue' = [queue EXCEPT ![s] = <<>>]
  /\ UNCHANGED <<serverVars, clientVars, inbox, buffer, avail, done, command, out, since, pipe,
                 publisher, published>>

SessionNext(s) ==
  \/ Subscribe(s) \/ BlockForInput(s) \/ EndOfStream(s) \/ Reset(s) \/ ResetRaises(s) \/ Pop(s)
  \/ Popped(s) \/ Loop(s) \/ End(s) \/ \E n \in 0 .. Len(inbox[s]) : SocketRead(s, n)

----------------------------------------------------------------------------
(* channel::publish: the message is made without the lock, and only when   *)
(* there was a subscriber; then it is pushed to those that there are by    *)
(* now, and the pipe gets a byte.                                          *)

Render(c) ==
  /\ publisher[c] = "idle" /\ subscribers[c] # {} /\ Event
  /\ publisher' = [publisher EXCEPT ![c] = "push"]
  /\ UNCHANGED <<status, expected, server, backlog, quit, clientVars, sessionVars, subscribers, queue,
                 pipe, published>>
PushNewest(c) ==
  /\ publisher[c] = "push"
  /\ publisher' = [publisher EXCEPT ![c] = "idle"]
  /\ published' = [published EXCEPT ![c] = @ + 1]
  /\ queue' = [s \in Session |-> IF s \in subscribers[c] THEN <<published'[c]>> ELSE queue[s]]
  /\ pipe' = [pipe EXCEPT ![c] = @ + 1]
  /\ UNCHANGED <<serverVars, clientVars, sessionVars, subscribers>>
Push(c) ==
  /\ publisher[c] = "push"
  /\ publisher' = [publisher EXCEPT ![c] = "idle"]
  /\ published' = [published EXCEPT ![c] = @ + 1]
  /\ queue' = [s \in Session |->
                 IF s \in subscribers[c] THEN Append(queue[s], published'[c]) ELSE queue[s]]
  /\ pipe' = [pipe EXCEPT ![c] = @ + 1]
  /\ UNCHANGED <<serverVars, clientVars, sessionVars, subscribers>>

Next ==
  \/ ServerNext \/ Shutdown \/ Connect \/ AskForPage
  \/ \E s \in Session : HangUp(s) \/ SessionNext(s)
  \/ \E c \in Channel \cup {NoChannel} : AskForSession(c)
  \/ \E s \in Session, b \in Bursts : SendFrames(s, b)
  \/ \E c \in Channel : Render(c) \/ Push(c)

(* Threads run on; clients do as they please.                              *)
Spec ==
  /\ Init /\ [][Next]_vars
  /\ WF_vars(ServerNext) /\ WF_vars(Connect)
  /\ \A s \in Session : WF_vars(SessionNext(s))
  /\ \A c \in Channel : WF_vars(Push(c))

----------------------------------------------------------------------------
(* A set of positions in ascending order, and what a sequence has there.   *)
Rank(S, k) == Cardinality({l \in S : l <= k})
Listed(S) == [n \in 1 .. Cardinality(S) |-> CHOOSE k \in S : Rank(S, k) = n]
Subsequence(q, S) == [n \in DOMAIN Listed(S) |-> q[Listed(S)[n]]]

(* The frames that a session has handled, and what RFC 6455 makes of them: *)
(* whether a message is open when frame j arrives, whether j completes one *)
(* and which, and whether the connection must be failed at j.              *)
Handled(s) == SubSeq(sent[s], 1, Len(sent[s]) - Len(inbox[s]) - Len(buffer[s]))
Begins(f) == f.op \in {"text", "binary"}
IsData(f) == Begins(f) \/ f.op = "continuation"
Open(fs, j) ==
  \E i \in 1 .. j - 1 : Begins(fs[i]) /\ \A k \in i .. j - 1 : ~(IsData(fs[k]) /\ fs[k].fin)
Completes(fs, j) ==
  IsData(fs[j]) /\ fs[j].fin /\ ((fs[j].op = "continuation") <=> Open(fs, j))
Beginning(fs, j) == Max({k \in 1 .. j : Begins(fs[k])})
Message(fs, j) ==
  LET i == Beginning(fs, j)
      data == Subsequence(fs, {k \in i .. j : IsData(fs[k])})
  IN Sent(fs[i].op, [n \in DOMAIN data |-> data[n].piece])
IsText(m) == m.op = "text" => is_valid_utf8(m.payload)
Fails(fs, j) ==
  \/ fs[j].op \in {"bad", "close"}
  \/ fs[j].op \in {"ping", "pong"} /\ ~fs[j].fin
  \/ IsData(fs[j]) /\ ((fs[j].op = "continuation") # Open(fs, j))
  \/ Completes(fs, j) /\ ~IsText(Message(fs, j))

(* A client gets back exactly its complete messages, in order and each put *)
(* together from all of its fragments, whatever control frames come in     *)
(* between and however the frames fall into the reader's buffer            *)
(* (socket_read, check_message_complete, the reader that upgrade_to_ws     *)
(* moves).  A text is judged as a whole: a fragment may cut a character.   *)
EchoesAsSent ==
  \A s \in Session :
    LET fs == Handled(s)
        echoes == {i \in DOMAIN out[s] : out[s][i].op \in {"text", "binary"}}
        ends == Listed({j \in DOMAIN fs : Completes(fs, j) /\ ~Fails(fs, j)})
    IN Subsequence(out[s], echoes) = [n \in DOMAIN ends |-> Message(fs, ends[n])]

(* The connection is failed at the first frame that demands it and at no   *)
(* other: the session then reads nothing more, and says so with one close  *)
(* frame, after which there is neither an echo nor a pong.  The only other *)
(* reason for a close frame is the end of the stream (socket_read, done in *)
(* ws_server_loop).                                                        *)
ClosesOnce ==
  \A s \in Session :
    LET fs == Handled(s)
        closes == {i \in DOMAIN out[s] : out[s][i].op = "close"}
    IN /\ \A j \in 1 .. Len(fs) - 1 : ~Fails(fs, j)
       /\ Cardinality(closes) = IF done[s] THEN 1 ELSE 0
       /\ fs # <<>> /\ Fails(fs, Len(fs)) => done[s]
       /\ done[s] => \/ s \in hungup /\ Len(fs) = Len(sent[s])
                     \/ fs # <<>> /\ Fails(fs, Len(fs))
       /\ \A i \in closes, k \in DOMAIN out[s] : k > i => out[s][k].op = "push"

(* A subscriber is sent the messages of its channel from the one after it  *)
(* subscribed, in order, none left out and none twice, and what it has not *)
(* been sent yet is in its queue (publish, new_subscriber, pop).           *)
PushedInOrder ==
  \A s \in Session :
    LET pushed == Subsequence(out[s], {i \in DOMAIN out[s] : out[s][i].op = "push"})
        numbers == [i \in DOMAIN pushed |-> pushed[i].payload] \o queue[s]
    IN /\ numbers = [i \in 1 .. Len(numbers) |-> since[s] + i]
       /\ \A c \in Channel : s \in subscribers[c] => Len(numbers) = published[c] - since[s]

(* Nobody else has asked for this session's channel.                       *)
Alone(s) == \A t \in Session \ {s} : uri[t] # uri[s]

(* What is queued for a session is sent, or the session ends, without any  *)
(* help from its client or another message, as long as the session has the *)
(* channel for itself: no wakeup is lost between the reset of the pipe,    *)
(* the emptying of the queue and the next wait (ws_server_loop, publish).  *)
Delivered ==
  \A s \in Session : (queue[s] # <<>> /\ Alone(s)) ~> (queue[s] = <<>> \/ ~Alone(s))

(* After quit() the server's thread ends, in whatever state quit() found   *)
(* the server and whoever was ahead of its connection in the backlog,      *)
(* provided that the clients of its sessions hang up: it tells no session  *)
(* to end, and joins them all (quit, server_status, server).               *)
ServerEnds ==
  <>[](quit # "running" /\ \A s \in Session : ~Connected(s))
    => <>(server = "ended")
=============================================================================
