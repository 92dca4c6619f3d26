---------------------------- MODULE VacuumProofs ----------------------------
(***************************************************************************)
(* Proofs about Vacuum, for any number of clients, keys, commits and       *)
(* ticks: what the copy thread leaves in the new file, and what the watch  *)
(* thread cannot miss.                                                     *)
(***************************************************************************)
EXTENDS Vacuum, FiniteSetTheorems, TLAPS

Map == [Key -> Nat]

(* The types the proofs need.                                              *)
TypeInv ==
  /\ revisions \subseteq Map /\ IsFiniteSet(revisions)
  /\ {Nothing, src, snapshot} \subseteq revisions
  /\ {clock, mtime, start_time, sync_time} \subseteq Nat
  /\ done \in BOOLEAN /\ modified \in BOOLEAN
  /\ start_watch \in BOOLEAN /\ retry \in BOOLEAN

(* Nothing has been committed to the new file.                             *)
Fresh == gc \in {NoFile, Nothing}

(* A copy is committed at most once: the thread then sets done and comes   *)
(* to the head of its loop only to leave. Until then the transaction on    *)
(* the new file is laid over an empty store, and holds the keys of the     *)
(* snapshot that are no longer to be copied, and no others.                *)
CopyInv ==
  /\ main = "create_copy" => copy = "none"
  /\ Fresh \/ gc \in revisions
  /\ copy \in {"none", "delay", "start", "open", "begin", "loop", "rollback"}
       => Fresh
  /\ copy \in {"begin", "loop"} => gc = Nothing
  /\ copy \in {"spin", "rename"} => done
  /\ copy = "top" => Fresh \/ done
  /\ copy = "loop"
       => /\ todo \subseteq Present(snapshot)
          /\ batch = [k \in Key |-> IF k \in todo THEN 0 ELSE snapshot[k]]

(* The watch thread has been through the head of its loop.                 *)
Watched == watch \notin {"none", "created", "begin"}

(* Only the watch thread sets modified, and a copy is only repeated after  *)
(* it did. The time it compares with is never ahead of the store's; while  *)
(* it waits to be asked, a request means that modified has been reset.     *)
WatchInv ==
  /\ start_time <= mtime /\ mtime <= clock
  /\ main \in {"create_copy", "create_watch"} => watch = "none"
  /\ modified \/ retry \/ copy = "rollback" => Watched
  /\ watch = "outer" /\ start_watch => ~modified
  /\ ChangeNoticedByRetry

(* Together: the invariant that every step preserves.                      *)
VacuumInvariant == TypeInv /\ CopyInv /\ WatchInv

----------------------------------------------------------------------------
(* It holds when main () has opened the store.                             *)
LEMMA InitInvariant == Init => VacuumInvariant
<1> SUFFICES ASSUME Init PROVE VacuumInvariant
  OBVIOUS
<1>1. TypeInv
  <2>1. Nothing \in Map
    BY DEF Nothing, Map
  <2>2. IsFiniteSet(revisions)
    BY FS_Singleton DEF Init
  <2>3. /\ revisions = {Nothing} /\ src = Nothing /\ snapshot = Nothing
        /\ {clock, mtime, start_time, sync_time} \subseteq Nat
        /\ done = FALSE /\ modified = FALSE /\ start_watch = FALSE
        /\ retry = FALSE
    BY DEF Init
  <2> QED BY <2>1, <2>2, <2>3 DEF TypeInv
<1>2. CopyInv
  BY DEF Init, CopyInv, Fresh
<1>3. WatchInv
  BY DEF Init, WatchInv, Watched, ChangeNoticedByRetry, Noticed
<1> QED BY <1>1, <1>2, <1>3 DEF VacuumInvariant

(* What the copy thread works on does not change under it: steps of the    *)
(* other threads keep its part of the invariant.                           *)
LEMMA CopyUndisturbed ==
  ASSUME CopyInv, UNCHANGED <<gc, copy, todo, batch, snapshot>>,
         main' = "create_copy" => main = "create_copy",
         done => done', revisions \subseteq revisions'
  PROVE  CopyInv'
BY DEF CopyInv, Fresh, Present

(* main (), quit_thread () and the signal handler only start and stop the  *)
(* other threads.                                                          *)
LEMMA MainStep ==
  ASSUME VacuumInvariant, Main \/ QuitThread \/ Signal
  PROVE  VacuumInvariant'
<1>1. TypeInv /\ CopyInv /\ WatchInv
  BY DEF VacuumInvariant
<1>2. CASE MainCreateCopy
  <2>1. TypeInv'
    BY <1>1, <1>2 DEF MainCreateCopy, TypeInv, env, flags, data
  <2>2. CopyInv'
    BY <1>1, <1>2 DEF MainCreateCopy, CopyInv, Fresh, env, flags, data
  <2>3. WatchInv'
    BY <1>1, <1>2 DEF MainCreateCopy, WatchInv, Watched, ChangeNoticedByRetry,
                      Noticed, env, flags, data
  <2> QED BY <2>1, <2>2, <2>3 DEF VacuumInvariant
<1>3. CASE MainCreateWatch
  <2>1. TypeInv'
    BY <1>1, <1>3 DEF MainCreateWatch, TypeInv, env, flags, data
  <2>2. CopyInv'
    BY <1>1, <1>3, CopyUndisturbed DEF MainCreateWatch, env, flags, data
  <2>3. WatchInv'
    BY <1>1, <1>3 DEF MainCreateWatch, WatchInv, Watched,
                      ChangeNoticedByRetry, Noticed, env, flags, data
  <2> QED BY <2>1, <2>2, <2>3 DEF VacuumInvariant
<1>4. CASE MainRelease \/ MainJoin \/ MainExit \/ QuitThread \/ Signal
  <2>1. /\ UNCHANGED <<env, data, modified, start_watch, copy, watch>>
        /\ done' \in BOOLEAN /\ (done => done')
        /\ main' \in {"create_copy", "create_watch"} => main' = main
    BY <1>1, <1>4
       DEF MainRelease, MainJoin, MainExit, QuitThread, Signal, flags, TypeInv
  <2>2. TypeInv'
    BY <1>1, <2>1 DEF TypeInv, env, data
  <2>3. CopyInv'
    BY <1>1, <2>1, CopyUndisturbed DEF env, data
  <2>4. WatchInv'
    <3>1. retry' = retry /\ copy' = copy /\ retry \in BOOLEAN
      BY <1>1, <2>1 DEF data, TypeInv
    <3> QED BY <1>1, <2>1, <3>1
            DEF env, data, WatchInv, Watched, ChangeNoticedByRetry, Noticed
  <2> QED BY <2>2, <2>3, <2>4 DEF VacuumInvariant
<1> QED BY <1>2, <1>3, <1>4 DEF Main

(* A step of another process, or of the clock. A commit that the watch     *)
(* thread could miss would have to happen in the tick of an earlier one.   *)
LEMMA ClientStep ==
  ASSUME VacuumInvariant, Clients
  PROVE  VacuumInvariant'
<1>1. TypeInv /\ CopyInv /\ WatchInv
  BY DEF VacuumInvariant
<1>2. UNCHANGED <<flags, threads, data>>
  BY DEF Clients, Tick, ClientOpen, ClientCommit, ClientClose
<1>3. TypeInv' /\ revisions \subseteq revisions'
  <2>1. CASE /\ UNCHANGED <<src, revisions, mtime>>
             /\ clock' \in {clock, clock + 1}
    BY <1>1, <1>2, <2>1 DEF TypeInv, flags, data
  <2>2. ASSUME NEW c \in Client, NEW k \in Key, ClientCommit(c, k)
        PROVE  TypeInv' /\ revisions \subseteq revisions'
    <3>1. Cardinality(revisions) \in Nat
      BY <1>1, FS_CardinalityType DEF TypeInv
    <3>2. src \in Map /\ revisions' = revisions \cup {src'}
      BY <1>1, <2>2 DEF TypeInv, ClientCommit
    <3>3. src' \in Map
      BY <2>2, <3>1, <3>2 DEF ClientCommit, Commits, Map
    <3>4. IsFiniteSet(revisions')
      BY <1>1, <3>2, FS_AddElement DEF TypeInv
    <3> QED BY <1>1, <1>2, <2>2, <3>2, <3>3, <3>4
            DEF TypeInv, ClientCommit, flags, data
  <2> QED BY <1>1, <2>1, <2>2 DEF Clients, Tick, ClientOpen, ClientClose
<1>4. CopyInv'
  BY <1>1, <1>2, <1>3, CopyUndisturbed DEF flags, threads, data
<1>5. WatchInv'
  <2>1. /\ mtime' \in {mtime, clock} /\ mtime \in Nat /\ clock \in Nat
        /\ start_time \in Nat /\ clock' \in {clock, clock + 1}
        /\ mtime' = clock => clock' = clock \/ mtime = clock
    BY <1>1 DEF Clients, Tick, ClientOpen, ClientCommit, ClientClose, TypeInv
  <2> QED BY <1>1, <1>2, <2>1 DEF WatchInv, Watched, ChangeNoticedByRetry,
                 Noticed, flags, threads, data
<1> QED BY <1>3, <1>4, <1>5 DEF VacuumInvariant

(* A step of copy ().                                                      *)
LEMMA CopyStep ==
  ASSUME VacuumInvariant, Copy
  PROVE  VacuumInvariant'
<1> USE DEF CopyGoes, env, flags, data
<1>1. TypeInv /\ CopyInv /\ WatchInv
  BY DEF VacuumInvariant
<1>2. UNCHANGED <<src, revisions, clock, mtime, main, watch, start_time>>
  BY Zenon DEF Copy, CopyTop, CopyDelay, CopyStart, CopyOpen, CopyBegin, CopyKey,
         CopyRollback, CopyCommit, CopyStop, CopySpin, CopyRename
<1>3. CASE CopyTop \/ CopyDelay \/ CopyStop \/ CopySpin \/ CopyRename
  <2>1. TypeInv'
    BY <1>1, <1>2, <1>3, Zenon
       DEF TypeInv, CopyTop, CopyDelay, CopyStop, CopySpin, CopyRename
  <2>2. CopyInv'
    BY <1>1, <1>2, <1>3 DEF CopyInv, Fresh, TypeInv,
           CopyTop, CopyDelay, CopyStop, CopySpin, CopyRename
  <2>3. WatchInv'
    BY <1>1, <1>2, <1>3 DEF WatchInv, Watched, ChangeNoticedByRetry, Noticed,
           CopyTop, CopyDelay, CopyStop, CopySpin, CopyRename
  <2> QED BY <2>1, <2>2, <2>3 DEF VacuumInvariant
<1>4. CASE CopyStart
  <2>1. TypeInv'
    BY <1>1, <1>2, <1>4 DEF TypeInv, CopyStart
  <2>2. CopyInv'
    BY <1>1, <1>2, <1>4 DEF CopyInv, Fresh, CopyStart
  <2>3. WatchInv'
    BY <1>1, <1>2, <1>4 DEF WatchInv, Watched, ChangeNoticedByRetry, Noticed,
           CopyStart, TypeInv
  <2> QED BY <2>1, <2>2, <2>3 DEF VacuumInvariant
<1>5. CASE CopyOpen \/ CopyBegin
  <2>1. TypeInv'
    BY <1>1, <1>2, <1>5 DEF TypeInv, CopyOpen, CopyBegin
  <2>2. CopyInv'
    <3>1. CASE CopyOpen
      BY <1>1, <1>2, <3>1 DEF CopyInv, Fresh, CopyOpen, TypeInv
    <3>2. CASE CopyBegin
      <4>1. snapshot \in Map /\ snapshot' = snapshot
        BY <1>1, <3>2, Zenon DEF TypeInv, CopyBegin
      <4>2. CASE copy' = "loop"
        <5>1. batch' = Nothing /\ todo' = Present(snapshot)
          BY <1>1, <3>2, <4>2 DEF CopyBegin, CopyInv
        <5>2. batch' = [k \in Key |-> IF k \in todo' THEN 0 ELSE snapshot'[k]]
          BY <4>1, <5>1 DEF Nothing, Present, Map
        <5>3. todo' \subseteq Present(snapshot)'
          BY <4>1, <5>1 DEF Present
        <5> QED BY <1>1, <1>2, <3>2, <4>2, <5>2, <5>3
                DEF CopyInv, Fresh, CopyBegin
      <4> QED BY <1>1, <1>2, <3>2, <4>2 DEF CopyInv, Fresh, CopyBegin
    <3> QED BY <1>5, <3>1, <3>2
  <2>3. WatchInv'
    BY <1>1, <1>2, <1>5 DEF WatchInv, Watched, ChangeNoticedByRetry, Noticed,
           CopyOpen, CopyBegin
  <2> QED BY <2>1, <2>2, <2>3 DEF VacuumInvariant
<1>6. ASSUME NEW k \in Key, CopyKey(k)
      PROVE  VacuumInvariant'
  <2>1. TypeInv'
    BY <1>1, <1>2, <1>6, Zenon DEF TypeInv, CopyKey
  <2>2. CopyInv'
    <3>1. /\ copy = "loop" /\ snapshot' = snapshot /\ gc' = gc
          /\ copy' \in {"loop", "rollback"}
          /\ todo' = todo \ {k} /\ batch' = [batch EXCEPT ![k] = snapshot[k]]
      BY <1>6 DEF CopyKey
    <3>2. /\ todo \subseteq Present(snapshot)
          /\ batch = [i \in Key |-> IF i \in todo THEN 0 ELSE snapshot[i]]
      BY <1>1, <3>1 DEF CopyInv
    <3>3. batch' = [i \in Key |-> IF i \in todo' THEN 0 ELSE snapshot'[i]]
      BY <3>1, <3>2
    <3>4. todo' \subseteq Present(snapshot)'
      BY <3>1, <3>2 DEF Present
    <3> QED BY <1>1, <1>2, <3>1, <3>3, <3>4 DEF CopyInv, Fresh
  <2>3. WatchInv'
    BY <1>1, <1>2, <1>6 DEF WatchInv, Watched, ChangeNoticedByRetry, Noticed,
           CopyKey
  <2> QED BY <2>1, <2>2, <2>3 DEF VacuumInvariant
<1>7. CASE CopyRollback
  <2>1. TypeInv'
    BY <1>1, <1>2, <1>7 DEF TypeInv, CopyRollback
  <2>2. CopyInv'
    BY <1>1, <1>2, <1>7 DEF CopyInv, Fresh, CopyRollback
  <2>3. WatchInv'
    BY <1>1, <1>2, <1>7 DEF WatchInv, Watched, ChangeNoticedByRetry, Noticed,
           CopyRollback
  <2> QED BY <2>1, <2>2, <2>3 DEF VacuumInvariant
<1>8. CASE CopyCommit
  <2>1. TypeInv'
    BY <1>1, <1>2, <1>8 DEF TypeInv, CopyCommit
  <2>2. CopyInv'
    <3>1. snapshot \in Map /\ snapshot \in revisions
      BY <1>1 DEF TypeInv
    <3>2. batch = snapshot
      BY <1>1, <1>8, <3>1 DEF CopyInv, CopyCommit, Map
    <3> QED BY <1>1, <1>2, <1>8, <3>1, <3>2 DEF CopyInv, Fresh, CopyCommit
  <2>3. WatchInv'
    BY <1>1, <1>2, <1>8 DEF WatchInv, Watched, ChangeNoticedByRetry, Noticed,
           CopyCommit
  <2> QED BY <2>1, <2>2, <2>3 DEF VacuumInvariant
<1> QED BY <1>3, <1>4, <1>5, <1>6, <1>7, <1>8 DEF Copy

(* A step of watch (). Outside the head of its loop it compares with the   *)
(* time of its last look, so what it forgets in start_time it has put in   *)
(* modified.                                                               *)
LEMMA WatchStep ==
  ASSUME VacuumInvariant, Watch
  PROVE  VacuumInvariant'
<1> USE DEF env, flags, data, WatchFrame, WatchEnds, Outer, Poll
<1>1. TypeInv /\ CopyInv /\ WatchInv
  BY DEF VacuumInvariant
<1>2. /\ UNCHANGED <<src, revisions, clock, mtime, main, copy, done, gc, todo,
                     batch, snapshot, sync_time, retry>>
      /\ modified' \in BOOLEAN /\ start_watch' \in BOOLEAN
      /\ start_time' \in {start_time, mtime}
  BY <1>1, Zenon DEF Watch, WatchCreated, WatchBegin, WatchOuter, WatchInner,
         WatchReset, WatchStopped, TypeInv
<1>3. TypeInv'
  BY <1>1, <1>2 DEF TypeInv
<1>4. CopyInv'
  BY <1>1, <1>2, CopyUndisturbed
<1>5. WatchInv'
  <2>1. CASE WatchCreated \/ WatchReset \/ WatchStopped
    BY <1>1, <1>2, <2>1 DEF WatchInv, Watched, ChangeNoticedByRetry, Noticed,
           WatchCreated, WatchReset, WatchStopped
  <2>2. CASE WatchBegin
    BY <1>1, <1>2, <2>2 DEF WatchInv, Watched, ChangeNoticedByRetry, Noticed,
           WatchBegin, TypeInv
  <2>3. CASE WatchOuter
    BY <1>1, <1>2, <2>3 DEF WatchInv, Watched, ChangeNoticedByRetry, Noticed,
           WatchOuter, TypeInv
  <2>4. CASE WatchInner
    BY <1>1, <1>2, <2>4 DEF WatchInv, Watched, ChangeNoticedByRetry, Noticed,
           WatchInner, TypeInv
  <2> QED BY <2>1, <2>2, <2>3, <2>4 DEF Watch
<1> QED BY <1>3, <1>4, <1>5 DEF VacuumInvariant

----------------------------------------------------------------------------
(* VacuumInvariant holds in every state of every execution.                *)
THEOREM VacuumInvariantHolds == Spec => []VacuumInvariant
<1>1. Init => VacuumInvariant
  BY InitInvariant
<1>2. VacuumInvariant /\ [Next]_vars => VacuumInvariant'
  <2> SUFFICES ASSUME VacuumInvariant, [Next]_vars PROVE VacuumInvariant'
    OBVIOUS
  <2>1. CASE UNCHANGED vars
    BY <2>1, Zenon DEF vars, env, flags, threads, data, VacuumInvariant, TypeInv,
                CopyInv, WatchInv, Fresh, Watched, ChangeNoticedByRetry,
                Noticed, Present
  <2>2. CASE Next
    BY <2>2, MainStep, CopyStep, WatchStep, ClientStep DEF Next
  <2> QED BY <2>1, <2>2
<1> QED BY <1>1, <1>2, PTL DEF Spec

(* Whatever the clients commit while copy () runs, and wherever it is told *)
(* to stop, the new file holds a whole revision of the store.              *)
THEOREM CopyIsWhole == Spec => []GcIsARevision
<1>1. VacuumInvariant => GcIsARevision
  BY DEF VacuumInvariant, TypeInv, CopyInv, Fresh, GcIsARevision
<1> QED BY <1>1, VacuumInvariantHolds, PTL

(* From its second round on copy () cannot miss a change: watch () has     *)
(* noticed it or will at its next look.                                    *)
THEOREM RetriesMissNothing == Spec => []ChangeNoticedByRetry
<1>1. VacuumInvariant => ChangeNoticedByRetry
  BY DEF VacuumInvariant, WatchInv
<1> QED BY <1>1, VacuumInvariantHolds, PTL
============================================================================
