--------------------------- MODULE GcWatchProofs ---------------------------
(***************************************************************************)
(* Proofs that the properties of GcWatch hold for any number of stores,    *)
(* process numbers and requests, and any size of the pipe.                 *)
(***************************************************************************)
EXTENDS GcWatch, TLAPS

(* Whoever is between taking and releasing the mutex holds it.             *)
MutexHeld ==
  /\ mut = "command" <=> command # "idle"
  /\ mut = "watcher" <=> watcher \in {"reap", "forget"}

HandlerSet == handler <=> watcher # "start"

(* A child is in the map under the store it works on, once start_vacuum    *)
(* has entered it and until waitpid has returned it.                       *)
ChildrenTracked ==
  \A p \in Pids : proc[p] \in {"running", "stopped", "zombie"} =>
    /\ works[p] \in Paths
    /\ p \in reported \/ right[p] = works[p] \/ (command = "set" /\ child = p)

(* Nobody else enters a process for the store that start_vacuum is busy    *)
(* with.                                                                   *)
StartReserved ==
  /\ command \in {"fork", "set"} => left[path] = NoPid
  /\ command = "set" =>
       right[child] = NoPath /\ works[child] = path /\ child \in Children

(* The process that the watcher forgets is gone or was stopped.            *)
ForgetsEnded == watcher = "forget" => cur \in reported \/ cur \notin Children

(* Before SIGCHLD is handled the byte of start_vacuum stays in the pipe.   *)
FirstWakeup ==
  watcher = "start" /\ (\E p \in Pids : proc[p] \in {"running", "stopped", "zombie"}) =>
    pipe > 0 \/ command \in {"set", "notify"}

Tracking == MapsAgree /\ TrackedAreChildren /\ ChildrenTracked /\ StartReserved /\ ForgetsEnded

(* stop() needs the mutex.                                                 *)
ReapingUndone == watcher \in {"reap", "forget"} => ~done

Waking == HandlerSet /\ FirstWakeup /\ ReapingUndone /\ NoLostWakeup

IInv == TypeOK /\ MutexHeld /\ Tracking /\ Waking /\ EveryChildAsked

(* The invariant holds in the initial state.                               *)
LEMMA InitIInv == Init => IInv
<1> SUFFICES ASSUME Init PROVE IInv
  OBVIOUS
<1>1. TypeOK
  <2>1. done \in BOOLEAN /\ handler \in BOOLEAN /\ sigchld \in BOOLEAN
    BY Zenon DEF Init
  <2>2. pipe \in 0 .. PipeSize /\ requests \in 0 .. MaxRequests /\ stops \in 0 .. MaxStops
    BY GcWatchAssumption DEF Init
  <2> QED
    BY <2>1, <2>2 DEF Init, TypeOK
<1>2. MutexHeld /\ HandlerSet /\ FirstWakeup /\ ReapingUndone /\ NoLostWakeup /\ EveryChildAsked
  BY DEF Init, MutexHeld, HandlerSet, FirstWakeup, ReapingUndone, NoLostWakeup, EveryChildAsked
<1>3. Tracking
  BY GcWatchAssumption DEF Init, Tracking, MapsAgree, TrackedAreChildren, ChildrenTracked, StartReserved,
      ForgetsEnded
<1> QED
  BY <1>1, <1>2, <1>3 DEF IInv, Waking

(* Every step keeps the types, the ownership of the mutex and the handler. *)
LEMMA StepTyped == TypeOK /\ MutexHeld /\ HandlerSet /\ [Next]_vars =>
                     TypeOK' /\ MutexHeld' /\ HandlerSet'
<1> SUFFICES ASSUME TypeOK, MutexHeld, HandlerSet, [Next]_vars
             PROVE  TypeOK' /\ MutexHeld' /\ HandlerSet'
  OBVIOUS
<1> USE GcWatchAssumption DEF TypeOK, MutexHeld, HandlerSet, maps, system, threads
<1>1. ASSUME NEW s \in Paths, StartVacuum(s) PROVE TypeOK' /\ MutexHeld' /\ HandlerSet'
  BY <1>1 DEF StartVacuum
<1>2. ASSUME NEW p \in Pids, Fork(p) PROVE TypeOK' /\ MutexHeld' /\ HandlerSet'
  BY <1>2 DEF Fork
<1>3. CASE ForkFails
  BY <1>3 DEF ForkFails
<1>4. CASE SetProcess
  BY <1>4 DEF SetProcess
<1>5. CASE NotifyStarted
  BY <1>5 DEF NotifyStarted
<1>6. CASE Stop
  BY <1>6 DEF Stop
<1>7. CASE NotifyStop
  BY <1>7 DEF NotifyStop
<1>8. CASE Register
  BY <1>8 DEF Register
<1>9. CASE Poll
  BY <1>9 DEF Poll
<1>10. CASE Woken
  BY <1>10 DEF Woken
<1>11. CASE CleanUp
  BY <1>11 DEF CleanUp
<1>12. ASSUME NEW p \in Pids, ReapExited(p) PROVE TypeOK' /\ MutexHeld' /\ HandlerSet'
  BY <1>12 DEF ReapExited
<1>13. ASSUME NEW p \in Pids, ReapStopped(p) PROVE TypeOK' /\ MutexHeld' /\ HandlerSet'
  BY <1>13 DEF ReapStopped
<1>14. CASE Forget
  BY <1>14 DEF Forget
<1>15. CASE WaitAgain
  BY <1>15 DEF WaitAgain
<1>16. ASSUME NEW p \in Pids, ChildExits(p) PROVE TypeOK' /\ MutexHeld' /\ HandlerSet'
  BY <1>16 DEF ChildExits
<1>17. ASSUME NEW p \in Pids, ChildStops(p) PROVE TypeOK' /\ MutexHeld' /\ HandlerSet'
  BY <1>17 DEF ChildStops
<1>18. ASSUME NEW p \in Pids, ChildContinues(p) PROVE TypeOK' /\ MutexHeld' /\ HandlerSet'
  BY <1>18 DEF ChildContinues
<1>19. CASE Deliver
  <2>1. sigchld' \in BOOLEAN
    BY <1>19, Zenon DEF Deliver
  <2>2. pipe' \in 0 .. PipeSize
    BY <1>19 DEF Deliver
  <2> QED
    BY <1>19, <2>1, <2>2 DEF Deliver
<1>20. ASSUME NEW p \in Pids, OtherProcess(p) PROVE TypeOK' /\ MutexHeld' /\ HandlerSet'
  BY <1>20 DEF OtherProcess
<1>21. CASE UNCHANGED vars
  BY <1>21 DEF vars
<1> QED
  BY <1>1, <1>2, <1>3, <1>4, <1>5, <1>6, <1>7, <1>8, <1>9, <1>10, <1>11, <1>12, <1>13, <1>14,
     <1>15, <1>16, <1>17, <1>18, <1>19, <1>20, <1>21, Zenon DEF Next, Command, Watcher, Environment

(* Every step keeps the map and the children in agreement.                 *)
LEMMA StepTracking == TypeOK /\ MutexHeld /\ Tracking /\ [Next]_vars => Tracking'
<1> SUFFICES ASSUME TypeOK, MutexHeld, Tracking, [Next]_vars PROVE Tracking'
  OBVIOUS
<1> USE GcWatchAssumption DEF TypeOK, MutexHeld, Tracking, MapsAgree, TrackedAreChildren,
        ChildrenTracked, StartReserved, ForgetsEnded, Children, maps, system, threads
<1>1. ASSUME NEW s \in Paths, StartVacuum(s) PROVE Tracking'
  BY <1>1 DEF StartVacuum
<1>2. ASSUME NEW p \in Pids, Fork(p) PROVE Tracking'
  BY <1>2 DEF Fork
<1>3. CASE ForkFails
  BY <1>3 DEF ForkFails
<1>4. CASE SetProcess
  <2>1. left' = [left EXCEPT ![path] = child] /\ right' = [right EXCEPT ![child] = path]
    BY <1>4 DEF SetProcess
  <2>2. path \in Paths /\ child \in Pids
    BY <1>4 DEF SetProcess
  <2>3. MapsAgree'
    BY <1>4, <2>1, <2>2 DEF SetProcess
  <2>4. TrackedAreChildren'
    BY <1>4, <2>1, <2>2 DEF SetProcess
  <2>5. ChildrenTracked' /\ StartReserved' /\ ForgetsEnded'
    BY <1>4, <2>1, <2>2 DEF SetProcess
  <2> QED
    BY <2>3, <2>4, <2>5
<1>5. CASE NotifyStarted
  BY <1>5 DEF NotifyStarted
<1>6. CASE Stop
  BY <1>6 DEF Stop
<1>7. CASE NotifyStop
  BY <1>7 DEF NotifyStop
<1>8. CASE Register
  BY <1>8 DEF Register
<1>9. CASE Poll
  BY <1>9 DEF Poll
<1>10. CASE Woken
  BY <1>10 DEF Woken
<1>11. CASE CleanUp
  BY <1>11 DEF CleanUp
<1>12. ASSUME NEW p \in Pids, ReapExited(p) PROVE Tracking'
  BY <1>12 DEF ReapExited
<1>13. ASSUME NEW p \in Pids, ReapStopped(p) PROVE Tracking'
  BY <1>13 DEF ReapStopped
<1>14. CASE Forget
  <2>1. cur \in Pids
    BY <1>14 DEF Forget
  <2>2. MapsAgree'
    BY <1>14, <2>1 DEF Forget
  <2>3. TrackedAreChildren'
    BY <1>14, <2>1 DEF Forget
  <2>4. ChildrenTracked' /\ StartReserved' /\ ForgetsEnded'
    BY <1>14, <2>1 DEF Forget
  <2> QED
    BY <2>2, <2>3, <2>4
<1>15. CASE WaitAgain
  BY <1>15 DEF WaitAgain
<1>16. ASSUME NEW p \in Pids, ChildExits(p) PROVE Tracking'
  BY <1>16 DEF ChildExits
<1>17. ASSUME NEW p \in Pids, ChildStops(p) PROVE Tracking'
  BY <1>17 DEF ChildStops
<1>18. ASSUME NEW p \in Pids, ChildContinues(p) PROVE Tracking'
  BY <1>18 DEF ChildContinues
<1>19. CASE Deliver
  BY <1>19 DEF Deliver
<1>20. ASSUME NEW p \in Pids, OtherProcess(p) PROVE Tracking'
  BY <1>20 DEF OtherProcess
<1>21. CASE UNCHANGED vars
  BY <1>21 DEF vars
<1> QED
  BY <1>1, <1>2, <1>3, <1>4, <1>5, <1>6, <1>7, <1>8, <1>9, <1>10, <1>11, <1>12, <1>13, <1>14,
     <1>15, <1>16, <1>17, <1>18, <1>19, <1>20, <1>21, Zenon
     DEF Next, Command, Watcher, Environment

(* Every step keeps the promise of a wakeup.                               *)
LEMMA StepWaking == TypeOK /\ MutexHeld /\ Waking /\ HandlerSet' /\ [Next]_vars => Waking'
<1> SUFFICES ASSUME TypeOK, MutexHeld, Waking, HandlerSet', [Next]_vars PROVE Waking'
  OBVIOUS
<1> USE GcWatchAssumption DEF TypeOK, MutexHeld, Waking, FirstWakeup, ReapingUndone, NoLostWakeup,
        HandlerSet, maps, system, threads
<1>1. ASSUME NEW s \in Paths, StartVacuum(s) PROVE Waking'
  BY <1>1 DEF StartVacuum
<1>2. ASSUME NEW p \in Pids, Fork(p) PROVE Waking'
  BY <1>2 DEF Fork
<1>3. CASE ForkFails
  BY <1>3 DEF ForkFails
<1>4. CASE SetProcess
  BY <1>4 DEF SetProcess
<1>5. CASE NotifyStarted
  BY <1>5 DEF NotifyStarted
<1>6. CASE Stop
  BY <1>6 DEF Stop
<1>7. CASE NotifyStop
  BY <1>7 DEF NotifyStop
<1>8. CASE Register
  BY <1>8 DEF Register
<1>9. CASE Poll
  BY <1>9 DEF Poll
<1>10. CASE Woken
  BY <1>10 DEF Woken
<1>11. CASE CleanUp
  BY <1>11 DEF CleanUp
<1>12. ASSUME NEW p \in Pids, ReapExited(p) PROVE Waking'
  BY <1>12 DEF ReapExited
<1>13. ASSUME NEW p \in Pids, ReapStopped(p) PROVE Waking'
  BY <1>13 DEF ReapStopped
<1>14. CASE Forget
  BY <1>14 DEF Forget
<1>15. CASE WaitAgain
  BY <1>15 DEF WaitAgain
<1>16. ASSUME NEW p \in Pids, ChildExits(p) PROVE Waking'
  BY <1>16 DEF ChildExits
<1>17. ASSUME NEW p \in Pids, ChildStops(p) PROVE Waking'
  BY <1>17 DEF ChildStops
<1>18. ASSUME NEW p \in Pids, ChildContinues(p) PROVE Waking'
  BY <1>18 DEF ChildContinues
<1>19. CASE Deliver
  BY <1>19 DEF Deliver
<1>20. ASSUME NEW p \in Pids, OtherProcess(p) PROVE Waking'
  BY <1>20 DEF OtherProcess
<1>21. CASE UNCHANGED vars
  BY <1>21 DEF vars
<1> QED
  BY <1>1, <1>2, <1>3, <1>4, <1>5, <1>6, <1>7, <1>8, <1>9, <1>10, <1>11, <1>12, <1>13, <1>14,
     <1>15, <1>16, <1>17, <1>18, <1>19, <1>20, <1>21, Zenon
     DEF Next, Command, Watcher, Environment

(* Every step keeps it true that the watcher has asked the children.       *)
LEMMA StepAsked ==
  TypeOK /\ MutexHeld /\ Tracking /\ EveryChildAsked /\ [Next]_vars => EveryChildAsked'
<1> SUFFICES ASSUME TypeOK, MutexHeld, Tracking, EveryChildAsked, [Next]_vars
             PROVE  EveryChildAsked'
  OBVIOUS
<1> USE GcWatchAssumption DEF TypeOK, MutexHeld, Tracking, ChildrenTracked, EveryChildAsked,
        Children, maps, system, threads
<1>1. ASSUME NEW s \in Paths, StartVacuum(s) PROVE EveryChildAsked'
  BY <1>1 DEF StartVacuum
<1>2. ASSUME NEW p \in Pids, Fork(p) PROVE EveryChildAsked'
  BY <1>2 DEF Fork
<1>3. CASE ForkFails
  BY <1>3 DEF ForkFails
<1>4. CASE SetProcess
  BY <1>4 DEF SetProcess
<1>5. CASE NotifyStarted
  BY <1>5 DEF NotifyStarted
<1>6. CASE Stop
  BY <1>6 DEF Stop
<1>7. CASE NotifyStop
  BY <1>7 DEF NotifyStop
<1>8. CASE Register
  BY <1>8 DEF Register
<1>9. CASE Poll
  BY <1>9 DEF Poll
<1>10. CASE Woken
  BY <1>10 DEF Woken
<1>11. CASE CleanUp
  BY <1>11 DEF CleanUp
<1>12. ASSUME NEW p \in Pids, ReapExited(p) PROVE EveryChildAsked'
  BY <1>12 DEF ReapExited
<1>13. ASSUME NEW p \in Pids, ReapStopped(p) PROVE EveryChildAsked'
  BY <1>13 DEF ReapStopped
<1>14. CASE Forget
  BY <1>14 DEF Forget
<1>15. CASE WaitAgain
  BY <1>15 DEF WaitAgain
<1>16. ASSUME NEW p \in Pids, ChildExits(p) PROVE EveryChildAsked'
  BY <1>16 DEF ChildExits
<1>17. ASSUME NEW p \in Pids, ChildStops(p) PROVE EveryChildAsked'
  BY <1>17 DEF ChildStops
<1>18. ASSUME NEW p \in Pids, ChildContinues(p) PROVE EveryChildAsked'
  BY <1>18 DEF ChildContinues
<1>19. CASE Deliver
  BY <1>19 DEF Deliver
<1>20. ASSUME NEW p \in Pids, OtherProcess(p) PROVE EveryChildAsked'
  BY <1>20 DEF OtherProcess
<1>21. CASE UNCHANGED vars
  BY <1>21 DEF vars
<1> QED
  BY <1>1, <1>2, <1>3, <1>4, <1>5, <1>6, <1>7, <1>8, <1>9, <1>10, <1>11, <1>12, <1>13, <1>14,
     <1>15, <1>16, <1>17, <1>18, <1>19, <1>20, <1>21, Zenon
     DEF Next, Command, Watcher, Environment

(* Every step keeps the whole invariant.                                   *)
LEMMA StepIInv == IInv /\ [Next]_vars => IInv'
BY StepTyped, StepTracking, StepWaking, StepAsked DEF IInv, Waking

(* Two children that nobody takes for ended have different stores: each is *)
(* the one its store is mapped to, or the one about to be entered for a    *)
(* store that has none.                                                    *)
LEMMA TrackingOneVacuum == TypeOK /\ Tracking => OneVacuumPerStore
<1> SUFFICES ASSUME TypeOK, Tracking,
                    NEW p \in Children, NEW q \in Children,
                    works[p] = works[q], p # q, p \notin reported, q \notin reported
             PROVE  FALSE
  BY DEF OneVacuumPerStore
<1> USE GcWatchAssumption DEF Tracking, Children
<1>1. p \in Pids /\ q \in Pids /\ works[p] \in Paths
  BY DEF ChildrenTracked
<1>2. right[p] = works[p] \/ (command = "set" /\ child = p)
  BY <1>1 DEF ChildrenTracked
<1>3. right[q] = works[q] \/ (command = "set" /\ child = q)
  BY <1>1 DEF ChildrenTracked
<1>4. CASE right[p] = works[p] /\ right[q] = works[q]
  BY <1>1, <1>4 DEF MapsAgree
<1>5. CASE command = "set" /\ child = p /\ right[q] = works[q]
  BY <1>1, <1>5 DEF MapsAgree, StartReserved
<1>6. CASE command = "set" /\ child = q /\ right[p] = works[p]
  BY <1>1, <1>6 DEF MapsAgree, StartReserved
<1> QED
  BY <1>2, <1>3, <1>4, <1>5, <1>6

(* The inductive invariant holds in every reachable state.                 *)
LEMMA SpecIInv == Spec => []IInv
BY InitIInv, StepIInv, PTL DEF Spec

(* The two maps of processes_ are always the inverse of each other: no     *)
(* order of bimap::set, getl and eraser leaves a process in one of them.   *)
THEOREM MapsAgreeAlways == Spec => []MapsAgree
<1>1. IInv => MapsAgree
  BY DEF IInv, Tracking
<1> QED
  BY SpecIInv, <1>1, PTL

(* gc_watch_thread::kill only ever reaches a child of the broker, working  *)
(* on the store it was entered for.                                        *)
THEOREM TrackedAreChildrenAlways == Spec => []TrackedAreChildren
<1>1. IInv => TrackedAreChildren
  BY DEF IInv, Tracking
<1> QED
  BY SpecIInv, <1>1, PTL

(* start_vacuum never starts a second vacuum of a store while the first    *)
(* runs, however many stores there are and however numbers are reused.     *)
THEOREM OneVacuumPerStoreAlways == Spec => []OneVacuumPerStore
<1>1. IInv => OneVacuumPerStore
  BY TrackingOneVacuum DEF IInv
<1> QED
  BY SpecIInv, <1>1, PTL

(* No wakeup of the watcher is lost between the wait, the signal handler   *)
(* and the two threads that notify it.                                     *)
THEOREM NoLostWakeupAlways == Spec => []NoLostWakeup
<1>1. IInv => NoLostWakeup
  BY DEF IInv, Waking
<1> QED
  BY SpecIInv, <1>1, PTL

(* When the watcher has ended, every child has been sent SIGINT but those  *)
(* it takes for ended and those started since.                             *)
THEOREM EveryChildAskedAlways == Spec => []EveryChildAsked
<1>1. IInv => EveryChildAsked
  BY DEF IInv
<1> QED
  BY SpecIInv, <1>1, PTL

=============================================================================
