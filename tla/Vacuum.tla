------------------------------- MODULE Vacuum -------------------------------
(***************************************************************************)
(* pstore-vacuumd: the threads that copy the live contents of a store into *)
(* a new file while other processes may use the store (lib/vacuum,         *)
(* tools/vacuum/main.cpp).                                                 *)
(*                                                                         *)
(* Every stretch of code that holds wst.start_watch_mutex is one action,   *)
(* so the mutex itself is not a variable. All waits on start_watch_cv have *)
(* a time limit: a waiting thread may go on whether it was notified or     *)
(* not, and the notifications are left out.                                *)
(***************************************************************************)
EXTENDS Integers, FiniteSets

CONSTANTS
  Client,       \* other processes that open the store
  Key,          \* what the write index holds
  NoFile,       \* the path leads to no file
  MaxCommits,   \* bound on the commits of the clients
  MaxOpens,     \* bound on how often they open the store
  MaxClock      \* bound on the clock, in units of latest_time ()

ASSUME VacuumAssumption ==
  /\ {MaxCommits, MaxOpens, MaxClock} \subseteq Nat
  /\ NoFile \notin [Key -> 0..MaxCommits]

VARIABLES
  src,            \* the newest revision of the store: the commit that wrote each key
  revisions,      \* history: all of its revisions
  gc,             \* the committed contents of "<path>.gc"
  path,           \* history: what the path of the store leads to
  clock, mtime,   \* the time, and database::latest_time () of the source
  openers,        \* clients that hold the shared lock of an open store
  opens,          \* how often they have opened it
  done, modified, watch_running,    \* vacuum::status
  start_watch,    \* vacuum::wst
  daemon_mode,    \* user_options::daemon_mode
  main,           \* program counters of main (), copy (), watch (), quit_thread ()
  copy, watch, quit,
  notified,       \* quit_info: a byte is in the pipe
  refs,           \* threads that own a reference to the source database
  snapshot,       \* the source as of the copy thread's last sync ()
  batch,          \* what the transaction on the destination holds
  todo,           \* keys that are still to be copied
  start_time,     \* watch (): start_time
  sync_time,      \* history: the clock at the last sync ()
  retry           \* history: the current copy is not the first one

env == <<src, revisions, path, clock, mtime, openers, opens>>
flags == <<done, modified, watch_running, start_watch>>
threads == <<main, copy, watch, quit, notified, refs>>
data == <<gc, snapshot, batch, todo, start_time, sync_time, retry>>
vars == <<env, flags, threads, data, daemon_mode>>

Nothing == [k \in Key |-> 0]

(* A key that was never written is not in the index.                       *)
Present(m) == {k \in Key : m[k] # 0}

(* main () has opened the store and its quit thread is running. The        *)
(* switches never set daemon_mode: it holds whatever was in memory.        *)
Init ==
  /\ src = Nothing /\ revisions = {Nothing}
  /\ gc = NoFile /\ path = "source"
  /\ clock = 0 /\ mtime = 0
  /\ openers = {} /\ opens = 0
  /\ done = FALSE /\ modified = FALSE /\ watch_running = FALSE
  /\ start_watch = FALSE
  /\ daemon_mode \in BOOLEAN
  /\ main = "create_copy" /\ copy = "none" /\ watch = "none" /\ quit = "wait"
  /\ notified = FALSE
  /\ refs = {"main"}
  /\ snapshot = Nothing /\ batch = Nothing /\ todo = {}
  /\ start_time = 0 /\ sync_time = 0 /\ retry = FALSE

----------------------------------------------------------------------------
(* The other processes, and the clock.                                     *)

Tick ==
  /\ clock < MaxClock
  /\ clock' = clock + 1
  /\ UNCHANGED <<src, revisions, path, mtime, openers, opens, flags, threads,
                 data, daemon_mode>>

Commits == Cardinality(revisions) - 1

ClientOpen(c) ==
  /\ c \notin openers
  /\ opens < MaxOpens
  /\ openers' = openers \cup {c}
  /\ opens' = opens + 1
  /\ UNCHANGED <<src, revisions, path, clock, mtime, flags, threads, data,
                 daemon_mode>>

ClientCommit(c, k) ==
  /\ c \in openers
  /\ Commits < MaxCommits
  /\ src' = [src EXCEPT ![k] = Commits + 1]
  /\ revisions' = revisions \cup {src'}
  /\ mtime' = clock
  /\ UNCHANGED <<path, clock, openers, opens, flags, threads, data,
                 daemon_mode>>

ClientClose(c) ==
  /\ c \in openers
  /\ openers' = openers \ {c}
  /\ UNCHANGED <<src, revisions, path, clock, mtime, opens, flags, threads,
                 data, daemon_mode>>

----------------------------------------------------------------------------
(* main ().                                                                *)

MainCreateCopy ==
  /\ main = "create_copy"
  /\ main' = "create_watch" /\ copy' = "top"
  /\ refs' = refs \cup {"copy"}
  /\ UNCHANGED <<env, flags, watch, quit, notified, data, daemon_mode>>

MainCreateWatch ==
  /\ main = "create_watch"
  /\ main' = "release" /\ watch' = "created"
  /\ refs' = refs \cup {"watch"}
  /\ UNCHANGED <<env, flags, copy, quit, notified, data, daemon_mode>>

MainRelease ==
  /\ main = "release"
  /\ main' = "join"
  /\ refs' = refs \ {"main"}
  /\ UNCHANGED <<env, flags, copy, watch, quit, notified, data, daemon_mode>>

(* Both joins, then notify_quit_thread ().                                 *)
MainJoin ==
  /\ main = "join"
  /\ copy = "exited" /\ watch = "exited"
  /\ main' = "join_quit"
  /\ notified' = TRUE
  /\ UNCHANGED <<env, flags, copy, watch, quit, refs, data, daemon_mode>>

MainExit ==
  /\ main = "join_quit"
  /\ quit = "exited"
  /\ main' = "exited"
  /\ UNCHANGED <<env, flags, copy, watch, quit, notified, refs, data,
                 daemon_mode>>

(* A signal arrives: signal_handler ().                                    *)
Signal ==
  /\ main # "exited"
  /\ ~notified
  /\ notified' = TRUE
  /\ UNCHANGED <<env, flags, main, copy, watch, quit, refs, data,
                 daemon_mode>>

(* Mutant: done is not set.                                                *)
QuitThreadSilent ==
  /\ quit = "wait"
  /\ notified
  /\ quit' = "exited"
  /\ UNCHANGED <<env, flags, main, copy, watch, notified, refs, data,
                 daemon_mode>>

(* quit_thread ().                                                         *)
QuitThread ==
  /\ quit = "wait"
  /\ notified
  /\ done' = TRUE
  /\ quit' = "exited"
  /\ UNCHANGED <<env, modified, watch_running, start_watch, main, copy, watch,
                 notified, refs, data, daemon_mode>>

----------------------------------------------------------------------------
(* copy ().                                                                *)

CopyGoes(pc) ==
  /\ copy' = pc
  /\ refs' = IF pc = "exited" THEN refs \ {"copy"} ELSE refs
  /\ UNCHANGED <<env, main, watch, quit, notified, daemon_mode>>

(* The head of the loop, and precopy_delay.                                *)
CopyTop ==
  /\ copy = "top"
  /\ CopyGoes(IF done THEN "exited" ELSE IF daemon_mode THEN "delay"
              ELSE "start")
  /\ UNCHANGED <<flags, data>>

CopyDelay ==
  /\ copy = "delay"
  /\ CopyGoes(IF done THEN "exited" ELSE "start")
  /\ UNCHANGED <<flags, data>>

(* start_watching, under the mutex.                                        *)
CopyStart ==
  /\ copy = "start"
  /\ snapshot' = src /\ sync_time' = clock
  /\ start_watch' = TRUE
  /\ modified' = FALSE
  /\ CopyGoes("open")
  /\ UNCHANGED <<done, watch_running, gc, batch, todo, start_time, retry>>

(* The destination is opened, or created. get_index never returns a null   *)
(* pointer here, so the test of it is left out.                            *)
CopyOpen ==
  /\ copy = "open"
  /\ gc' = IF gc = NoFile THEN Nothing ELSE gc
  /\ CopyGoes("begin")
  /\ UNCHANGED <<flags, snapshot, batch, todo, start_time, sync_time, retry>>

(* A signal since the head of the loop: nothing is copied, and the code    *)
(* goes on as if all had been.                                             *)
CopyBegin ==
  /\ copy = "begin"
  /\ IF done THEN CopyGoes("stop") /\ UNCHANGED <<batch, todo>>
     ELSE /\ CopyGoes("loop")
          /\ batch' = gc
          /\ todo' = Present(snapshot)
  /\ UNCHANGED <<flags, gc, snapshot, start_time, sync_time, retry>>

(* One iteration: the key is copied, then modified is looked at.           *)
CopyKey(k) ==
  /\ copy = "loop"
  /\ k \in todo
  /\ batch' = [batch EXCEPT ![k] = snapshot[k]]
  /\ todo' = todo \ {k}
  /\ CopyGoes(IF modified THEN "rollback" ELSE "loop")
  /\ UNCHANGED <<flags, gc, snapshot, start_time, sync_time, retry>>

(* Mutant: the transaction is committed all the same.                      *)
CopyRollbackCommits ==
  /\ copy = "rollback"
  /\ gc' = batch
  /\ retry' = TRUE
  /\ CopyGoes("top")
  /\ UNCHANGED <<flags, snapshot, batch, todo, start_time, sync_time>>

CopyRollback ==
  /\ copy = "rollback"
  /\ retry' = TRUE
  /\ CopyGoes("top")
  /\ UNCHANGED <<flags, gc, snapshot, batch, todo, start_time, sync_time>>

CopyCommit ==
  /\ copy = "loop"
  /\ todo = {}
  /\ gc' = batch
  /\ CopyGoes("stop")
  /\ UNCHANGED <<flags, snapshot, batch, todo, start_time, sync_time, retry>>

(* Mutant: the other threads are not told.                                 *)
CopyStopQuietly ==
  /\ copy = "stop"
  /\ CopyGoes("spin")
  /\ UNCHANGED <<flags, data>>

(* stop ().                                                                *)
CopyStop ==
  /\ copy = "stop"
  /\ done' = TRUE
  /\ CopyGoes("spin")
  /\ UNCHANGED <<modified, watch_running, start_watch, data>>

(* Waiting for the watch thread, then both databases are let go.           *)
CopySpin ==
  /\ copy = "spin"
  /\ ~watch_running
  /\ copy' = "rename"
  /\ refs' = refs \ {"copy"}
  /\ UNCHANGED <<env, main, watch, quit, notified, daemon_mode, flags, data>>

(* file_handle::rename by way of rename_noreplace: what the new name leads *)
(* to afterwards. The caller ignores the result.                           *)
rename_noreplace(from, to) == IF to = NoFile THEN from ELSE to

CopyRename ==
  /\ copy = "rename"
  /\ path' = rename_noreplace("gc", path)
  /\ copy' = "top"
  /\ UNCHANGED <<src, revisions, clock, mtime, openers, opens, flags, main,
                 watch, quit, notified, refs, data, daemon_mode>>

----------------------------------------------------------------------------
(* watch ().                                                               *)

WatchCreated ==
  /\ watch = "created"
  /\ watch' = "begin"
  /\ watch_running' = TRUE
  /\ UNCHANGED <<env, done, modified, start_watch, main, copy, quit, notified,
                 refs, data, daemon_mode>>

(* One look at the store, given the time of the last one: the thread then  *)
(* waits in the inner loop. can_lock fails while a client has it open.     *)
Poll(since) ==
  /\ start_time' = mtime
  /\ modified' = (mtime > since \/ openers # {})
  /\ watch' = "inner"
  /\ UNCHANGED <<done, watch_running>>

(* The head of the outer loop: start_time is set, then the thread waits    *)
(* until it is asked to watch.                                             *)
Outer ==
  /\ start_time' = mtime
  /\ start_watch' = FALSE
  /\ watch' = "outer"
  /\ UNCHANGED <<done, modified, watch_running>>

WatchEnds ==
  /\ watch' = "reset"
  /\ UNCHANGED <<flags, start_time>>

WatchFrame ==
  UNCHANGED <<env, main, copy, quit, notified, refs, gc, snapshot, batch, todo,
              sync_time, retry, daemon_mode>>

(* The thread has the mutex for the first time.                            *)
WatchBegin ==
  /\ watch = "begin"
  /\ \/ done /\ WatchEnds
     \/ ~done /\ ~start_watch /\ Outer
     \/ ~done /\ start_watch /\ start_watch' = FALSE /\ Poll(mtime)
  /\ WatchFrame

(* Mutant: the time is taken when the watch starts.                        *)
WatchOuterAfresh ==
  /\ watch = "outer"
  /\ \/ done /\ WatchEnds
     \/ ~done /\ start_watch /\ start_watch' = FALSE /\ Poll(mtime)
  /\ WatchFrame

(* Asked to watch, since the head of the outer loop.                       *)
WatchOuter ==
  /\ watch = "outer"
  /\ \/ done /\ WatchEnds
     \/ ~done /\ start_watch /\ start_watch' = FALSE /\ Poll(start_time)
  /\ WatchFrame

(* The wait of the inner loop ends. Once modified, the outer loop comes    *)
(* round until a new copy starts.                                          *)
WatchInner ==
  /\ watch = "inner"
  /\ \/ done /\ WatchEnds
     \/ ~done /\ modified /\ Outer
     \/ ~done /\ ~modified /\ Poll(start_time) /\ UNCHANGED start_watch
  /\ WatchFrame

WatchReset ==
  /\ watch = "reset"
  /\ watch' = "stopped"
  /\ refs' = refs \ {"watch"}
  /\ UNCHANGED <<env, flags, main, copy, quit, notified, data, daemon_mode>>

WatchStopped ==
  /\ watch = "stopped"
  /\ watch' = "exited"
  /\ watch_running' = FALSE
  /\ UNCHANGED <<env, done, modified, start_watch, main, copy, quit, notified,
                 refs, data, daemon_mode>>

----------------------------------------------------------------------------
Main == MainCreateCopy \/ MainCreateWatch \/ MainRelease \/ MainJoin \/ MainExit
Copy ==
  \/ CopyTop \/ CopyDelay \/ CopyStart \/ CopyOpen \/ CopyBegin
  \/ \E k \in Key : CopyKey(k)
  \/ CopyRollback \/ CopyCommit \/ CopyStop \/ CopySpin \/ CopyRename
Watch ==
  \/ WatchCreated \/ WatchBegin \/ WatchOuter \/ WatchInner \/ WatchReset
  \/ WatchStopped
Clients ==
  \/ Tick
  \/ \E c \in Client :
       \/ ClientOpen(c) \/ ClientClose(c)
       \/ \E k \in Key : ClientCommit(c, k)

(* When main () has returned only the clients are left.                    *)
Next == Main \/ Copy \/ Watch \/ QuitThread \/ Signal \/ Clients

Spec == Init /\ [][Next]_vars

(* The operating system runs every thread that can run, and timed waits    *)
(* end.                                                                    *)
Fairness ==
  WF_vars(Main) /\ WF_vars(Copy) /\ WF_vars(Watch) /\ WF_vars(QuitThread)

FairSpec == Spec /\ Fairness

----------------------------------------------------------------------------
(* The new file is a whole revision of the store, or still empty: a copy   *)
(* that was aborted leaves nothing behind.                                 *)
GcIsARevision == gc = NoFile \/ gc \in revisions

(* During a copy, a change of the source in a later tick than the sync has *)
(* been noticed by the watch thread or will be at its next look.           *)
Noticed ==
  copy \in {"open", "begin", "loop"} /\ watch \in {"outer", "inner"}
    /\ mtime > sync_time
  => modified \/ mtime > start_time

(* That is so in every copy but the first, whose watch may start late      *)
(* (watch, start_watching).                                                *)
ChangeNoticedByRetry == retry => Noticed

(* The process ends once it has been sent a signal, in whatever state.     *)
SignalEnds == notified ~> main = "exited"

(* When the clients leave the store alone at last, the vacuum gets done.   *)
VacuumEnds == <>[](openers = {}) => <>(main = "exited")
============================================================================
