------------------------------ MODULE GcWatch ------------------------------
(***************************************************************************)
(* The part of the broker that runs vacuum processes: the command thread   *)
(* starts one for a store (gc_watch_thread::start_vacuum), the watcher     *)
(* thread reaps them (gc_watch_thread::watcher), the thread that shuts the *)
(* broker down tells the watcher to end (gc_watch_thread::stop).  SIGCHLD  *)
(* and the two calls wake the watcher with a byte in a pipe                *)
(* (descriptor_condition_variable).  Child processes run, are stopped and  *)
(* continued, and exit whenever they like, and a process number that was   *)
(* reaped may be used by a process that is none of the broker's.           *)
(***************************************************************************)
EXTENDS Naturals, FiniteSets

CONSTANTS
  Paths, NoPath,        \* the stores, and no store
  Pids, NoPid,          \* process numbers, and none
  max_gc_processes,
  PipeSize,             \* bytes the pipe holds
  MaxRequests,          \* bound: calls of start_vacuum
  MaxStops              \* bound: times that children are stopped

ASSUME GcWatchAssumption ==
  /\ NoPath \notin Paths /\ NoPid \notin Pids
  /\ max_gc_processes \in Nat
  /\ PipeSize \in Nat \ {0}
  /\ MaxRequests \in Nat /\ MaxStops \in Nat

VARIABLES
  mut,        \* who holds mut_
  left,       \* processes_, from the store to the process
  right,      \* and from the process to the store
  done,       \* done_
  pipe,       \* bytes in the pipe of cv_
  handler,    \* SIGCHLD is handled
  sigchld,    \* SIGCHLD is pending
  command,    \* where the command thread is in start_vacuum
  path,       \* the store it was called for
  child,      \* the process it has forked
  watcher,    \* where the watcher thread is
  cur,        \* the process that waitpid has just returned
  quit,       \* where the thread that calls stop() is
  proc,       \* what each process number stands for
  works,      \* the store that a child works on
  reported,   \* children that waitpid has returned because they were stopped
  unreported, \* stopped children that it has not returned yet
  asked,      \* children that have been sent SIGINT
  late,       \* children started after the watcher sent SIGINT to the others
  requests, stops

threads == <<mut, done, pipe, handler, command, path, child, watcher, cur, quit, requests>>
maps == <<left, right>>
system == <<sigchld, proc, works, reported, unreported, asked, late, stops>>
vars == <<mut, done, pipe, handler, command, path, child, watcher, cur, quit, requests,
          left, right, sigchld, proc, works, reported, unreported, asked, late, stops>>

Children == {p \in Pids : proc[p] \in {"running", "stopped", "zombie"}}

Init ==
  /\ mut = "free" /\ done = FALSE /\ pipe = 0
  /\ handler = FALSE /\ sigchld = FALSE
  /\ command = "idle" /\ path = NoPath /\ child = NoPid
  /\ watcher = "start" /\ cur = NoPid /\ quit = "running"
  /\ left = [s \in Paths |-> NoPid]
  /\ right = [p \in Pids |-> NoPath]
  /\ proc = [p \in Pids |-> "free"]
  /\ works = [p \in Pids |-> NoPath]
  /\ reported = {} /\ unreported = {} /\ asked = {} /\ late = {}
  /\ requests = 0 /\ stops = 0

---------------------------------------------------------------------------
(* start_vacuum, on the command thread.  When the store has a process or   *)
(* there are too many it returns and changes nothing.                      *)

StartVacuumAgain(s) ==
  /\ command = "idle" /\ mut = "free"
  /\ requests < MaxRequests
  /\ Cardinality({t \in Paths : left[t] # NoPid}) < max_gc_processes
  /\ mut' = "command" /\ command' = "fork" /\ path' = s
  /\ requests' = requests + 1
  /\ UNCHANGED <<done, pipe, handler, child, watcher, cur, quit, maps, system>>

StartVacuum(s) ==
  /\ command = "idle" /\ mut = "free"
  /\ requests < MaxRequests
  /\ left[s] = NoPid
  /\ Cardinality({t \in Paths : left[t] # NoPid}) < max_gc_processes
  /\ mut' = "command" /\ command' = "fork" /\ path' = s
  /\ requests' = requests + 1
  /\ UNCHANGED <<done, pipe, handler, child, watcher, cur, quit, maps, system>>

Fork(p) ==
  /\ command = "fork"
  /\ proc[p] = "free"
  /\ proc' = [proc EXCEPT ![p] = "running"]
  /\ works' = [works EXCEPT ![p] = path]
  /\ reported' = reported \ {p}
  /\ asked' = asked \ {p}
  /\ late' = IF watcher = "ended" THEN late \cup {p} ELSE late \ {p}
  /\ child' = p /\ command' = "set"
  /\ UNCHANGED <<mut, done, pipe, handler, path, watcher, cur, quit, requests, maps,
                 sigchld, unreported, stops>>

ForkFails ==
  /\ command = "fork"
  /\ command' = "idle" /\ mut' = "free"
  /\ UNCHANGED <<done, pipe, handler, path, child, watcher, cur, quit, requests, maps, system>>

(* bimap::set for a store that is not there.                               *)
SetProcess ==
  /\ command = "set"
  /\ left' = [left EXCEPT ![path] = child]
  /\ right' = [right EXCEPT ![child] = IF @ = NoPath THEN path ELSE @]
  /\ command' = "notify"
  /\ UNCHANGED <<mut, done, pipe, handler, path, child, watcher, cur, quit, requests, system>>

NotifyNobody ==
  /\ command = "notify"
  /\ command' = "idle" /\ mut' = "free"
  /\ UNCHANGED <<done, pipe, handler, path, child, watcher, cur, quit, requests, maps, system>>

(* The write to the pipe is repeated while the pipe is full.               *)
NotifyStarted ==
  /\ command = "notify"
  /\ pipe < PipeSize
  /\ pipe' = pipe + 1
  /\ command' = "idle" /\ mut' = "free"
  /\ UNCHANGED <<done, handler, path, child, watcher, cur, quit, requests, maps, system>>

(* stop().                                                                 *)
Stop ==
  /\ quit = "running" /\ mut = "free"
  /\ done' = TRUE /\ quit' = "notify"
  /\ UNCHANGED <<mut, pipe, handler, command, path, child, watcher, cur, requests, maps, system>>

StopSilently ==
  /\ quit = "notify"
  /\ quit' = "ended"
  /\ UNCHANGED <<mut, done, pipe, handler, command, path, child, watcher, cur, requests, maps,
                 system>>

NotifyStop ==
  /\ quit = "notify"
  /\ pipe < PipeSize
  /\ pipe' = pipe + 1 /\ quit' = "ended"
  /\ UNCHANGED <<mut, done, handler, command, path, child, watcher, cur, requests, maps, system>>

---------------------------------------------------------------------------
(* The watcher thread.                                                     *)

Register ==
  /\ watcher = "start"
  /\ handler' = TRUE /\ watcher' = "poll"
  /\ UNCHANGED <<mut, done, pipe, command, path, child, cur, quit, requests, maps, system>>

(* wait() has released the mutex; it takes one byte from the pipe.         *)
Poll ==
  /\ watcher = "poll"
  /\ pipe > 0
  /\ pipe' = pipe - 1 /\ watcher' = "relock"
  /\ UNCHANGED <<mut, done, handler, command, path, child, cur, quit, requests, maps, system>>

Woken ==
  /\ watcher = "relock" /\ mut = "free" /\ ~done
  /\ mut' = "watcher" /\ watcher' = "reap"
  /\ UNCHANGED <<done, pipe, handler, command, path, child, cur, quit, requests, maps, system>>

CleanUpUnlocked ==
  /\ watcher = "relock" /\ done
  /\ asked' = asked \cup {p \in Pids : right[p] # NoPath}
  /\ watcher' = "ended"
  /\ UNCHANGED <<mut, done, pipe, handler, command, path, child, cur, quit, requests, maps,
                 sigchld, proc, works, reported, unreported, late, stops>>

(* The loop is left and every process in the map is sent SIGINT.           *)
CleanUp ==
  /\ watcher = "relock" /\ mut = "free" /\ done
  /\ asked' = asked \cup {p \in Pids : right[p] # NoPath}
  /\ watcher' = "ended"
  /\ UNCHANGED <<mut, done, pipe, handler, command, path, child, cur, quit, requests, maps,
                 sigchld, proc, works, reported, unreported, late, stops>>

(* waitpid returns a child that has exited or, because of WUNTRACED, one   *)
(* that was stopped.                                                       *)
ReapExited(p) ==
  /\ watcher = "reap"
  /\ proc[p] = "zombie"
  /\ proc' = [proc EXCEPT ![p] = "free"]
  /\ cur' = p /\ watcher' = "forget"
  /\ UNCHANGED <<mut, done, pipe, handler, command, path, child, quit, requests, maps,
                 sigchld, works, reported, unreported, asked, late, stops>>

ReapStopped(p) ==
  /\ watcher = "reap"
  /\ p \in unreported
  /\ unreported' = unreported \ {p}
  /\ reported' = reported \cup {p}
  /\ cur' = p /\ watcher' = "forget"
  /\ UNCHANGED <<mut, done, pipe, handler, command, path, child, quit, requests, maps,
                 sigchld, proc, works, asked, late, stops>>

ForgetNothing ==
  /\ watcher = "forget"
  /\ watcher' = "reap"
  /\ UNCHANGED <<mut, done, pipe, handler, command, path, child, cur, quit, requests, maps,
                 system>>

(* getl(pid), which enters a process it does not find, and eraser(pid).    *)
Forget ==
  /\ watcher = "forget"
  /\ left' = [s \in Paths |-> IF s = right[cur] THEN NoPid ELSE left[s]]
  /\ right' = [right EXCEPT ![cur] = NoPath]
  /\ watcher' = "reap"
  /\ UNCHANGED <<mut, done, pipe, handler, command, path, child, cur, quit, requests, system>>

WaitAfterOne ==
  /\ watcher = "reap"
  /\ mut' = "free" /\ watcher' = "poll"
  /\ UNCHANGED <<done, pipe, handler, command, path, child, cur, quit, requests, maps, system>>

WaitAgain ==
  /\ watcher = "reap"
  /\ unreported = {} /\ \A p \in Pids : proc[p] # "zombie"
  /\ mut' = "free" /\ watcher' = "poll"
  /\ UNCHANGED <<done, pipe, handler, command, path, child, cur, quit, requests, maps, system>>

---------------------------------------------------------------------------
(* The operating system.  A signal that is not handled is dropped.         *)

ChildExits(p) ==
  /\ proc[p] \in {"running", "stopped"}
  /\ proc' = [proc EXCEPT ![p] = "zombie"]
  /\ unreported' = unreported \ {p}
  /\ sigchld' = (sigchld \/ handler)
  /\ UNCHANGED <<threads, maps, works, reported, asked, late, stops>>

ChildStops(p) ==
  /\ proc[p] = "running"
  /\ stops < MaxStops
  /\ proc' = [proc EXCEPT ![p] = "stopped"]
  /\ unreported' = unreported \cup {p}
  /\ sigchld' = (sigchld \/ handler)
  /\ stops' = stops + 1
  /\ UNCHANGED <<threads, maps, works, reported, asked, late>>

ChildContinues(p) ==
  /\ proc[p] = "stopped"
  /\ proc' = [proc EXCEPT ![p] = "running"]
  /\ unreported' = unreported \ {p}
  /\ sigchld' = (sigchld \/ handler)
  /\ UNCHANGED <<threads, maps, works, reported, asked, late, stops>>

(* child_signal.                                                           *)
Deliver ==
  /\ sigchld
  /\ pipe < PipeSize
  /\ pipe' = pipe + 1 /\ sigchld' = FALSE
  /\ UNCHANGED <<mut, done, handler, command, path, child, watcher, cur, quit, requests, maps,
                 proc, works, reported, unreported, asked, late, stops>>

OtherProcess(p) ==
  /\ proc[p] \in {"free", "other"}
  /\ proc' = [proc EXCEPT ![p] = IF @ = "free" THEN "other" ELSE "free"]
  /\ UNCHANGED <<threads, maps, sigchld, works, reported, unreported, asked, late, stops>>

---------------------------------------------------------------------------

Command == SetProcess \/ NotifyStarted \/ ForkFails \/ \E p \in Pids : Fork(p)

Watcher ==
  \/ Register \/ Poll \/ Woken \/ CleanUp \/ Forget \/ WaitAgain
  \/ \E p \in Pids : ReapExited(p) \/ ReapStopped(p)

Environment ==
  \E p \in Pids : ChildExits(p) \/ ChildStops(p) \/ ChildContinues(p) \/ OtherProcess(p)

Next ==
  \/ \E s \in Paths : StartVacuum(s)
  \/ Command \/ Stop \/ NotifyStop \/ Watcher \/ Deliver \/ Environment

Spec == Init /\ [][Next]_vars

(* Threads are scheduled and a pending signal is delivered.  Requests,     *)
(* stop() and what the children do need not happen.                        *)
FairSpec ==
  Spec /\ WF_vars(Command) /\ WF_vars(Watcher) /\ WF_vars(NotifyStop) /\ WF_vars(Deliver)

---------------------------------------------------------------------------

TypeOK ==
  /\ mut \in {"free", "command", "watcher"}
  /\ left \in [Paths -> Pids \cup {NoPid}]
  /\ right \in [Pids -> Paths \cup {NoPath}]
  /\ done \in BOOLEAN /\ handler \in BOOLEAN /\ sigchld \in BOOLEAN
  /\ pipe \in 0 .. PipeSize
  /\ command \in {"idle", "fork", "set", "notify"}
  /\ command # "idle" => path \in Paths
  /\ command = "set" => child \in Pids
  /\ watcher \in {"start", "poll", "relock", "reap", "forget", "ended"}
  /\ watcher = "forget" => cur \in Pids
  /\ quit \in {"running", "notify", "ended"}
  /\ proc \in [Pids -> {"free", "other", "running", "stopped", "zombie"}]
  /\ works \in [Pids -> Paths \cup {NoPath}]
  /\ unreported \subseteq {p \in Pids : proc[p] = "stopped"}
  /\ requests \in 0 .. MaxRequests /\ stops \in 0 .. MaxStops

(* The two maps of processes_ stay the inverse of each other, whatever     *)
(* order processes are entered and forgotten in and however process        *)
(* numbers are used again.                                                 *)
MapsAgree == \A s \in Paths, p \in Pids : left[s] = p <=> right[p] = s

(* A process in the map is a child of the broker that works on the store   *)
(* it is entered for; only between waitpid and eraser, when nobody else    *)
(* has the mutex, may it be gone.  So SIGINT never reaches a stranger.     *)
TrackedAreChildren ==
  \A p \in Pids : right[p] # NoPath =>
    /\ works[p] = right[p]
    /\ p \in Children \/ (watcher = "forget" /\ cur = p)

(* Two children never work on one store, unless waitpid has returned one   *)
(* of them because it was stopped: the watcher takes it for ended.         *)
OneVacuumPerStore ==
  \A p, q \in Children :
    works[p] = works[q] /\ p # q => p \in reported \/ q \in reported

(* A watcher that waits, or has not begun to, is going to be woken when a  *)
(* child has exited or was stopped, and when stop() was called: there is a *)
(* byte in the pipe, a signal pending or a thread about to write.          *)
NoLostWakeup ==
  watcher \in {"start", "poll"} =>
    /\ (unreported # {} \/ \E p \in Pids : proc[p] = "zombie") =>
         pipe > 0 \/ sigchld \/ command \in {"set", "notify"}
    /\ done => pipe > 0 \/ quit = "notify"

(* When the watcher has ended every child has been sent SIGINT, but for    *)
(* those taken for ended and those that start_vacuum, which does not look  *)
(* at done_, has started since.                                            *)
EveryChildAsked ==
  watcher = "ended" => Children \subseteq asked \cup reported \cup late

(* A child that exits is reaped, so that its store can be vacuumed again,  *)
(* unless the broker is shut down.                                         *)
ChildReaped ==
  \A p \in Pids : (proc[p] = "zombie") ~> (proc[p] # "zombie" \/ done)

(* stop() ends the watcher.                                                *)
WatcherEnds == done ~> (watcher = "ended")

=============================================================================
