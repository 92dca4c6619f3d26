---------------------------- MODULE CreateStore ----------------------------
(***************************************************************************)
(* How processes come by the store file (database::open): one that does    *)
(* not find it builds a new store in a temporary file beside it, renames   *)
(* that to the path, which must not replace a file that is there by now,   *)
(* and then opens whatever is at the path.  Several processes do so at the *)
(* same time, and may be killed at any step.                               *)
(***************************************************************************)
EXTENDS Naturals, FiniteSets

CONSTANTS
  Process, NoProcess,
  Reader,       \* the processes that open with access_mode::read_only
  Renames       \* how the file system can rename: "renameat2", "linkat"

ASSUME CreateAssumption == NoProcess \notin Process /\ Reader \subseteq Process

VARIABLES
  pc,        \* where each process is in database::open
  kind,      \* what rename_noreplace can use on this file system
  dir,       \* whose file is at the path
  temp,      \* processes whose temporary file has its name in the directory
  contents,  \* of the file that a process has made
  handle     \* whose file a process has open at the end

createVars == <<pc, kind, dir, temp, contents, handle>>

CreateInit ==
  /\ pc = [p \in Process |-> "open"]
  /\ kind \in Renames
  /\ dir = NoProcess /\ temp = {}
  /\ contents = [p \in Process |-> "none"]
  /\ handle = [p \in Process |-> NoProcess]

At(p, here, there) == pc[p] = here /\ pc' = [pc EXCEPT ![p] = there]

(* file_handle::open of a file that must be there.                         *)
OpenedFile(p) == handle' = [handle EXCEPT ![p] = dir]

(* The first open, which allows that there is no file.  Only a writable    *)
(* connection goes on to make one.                                         *)
OpenExisting(p) ==
  /\ dir # NoProcess
  /\ At(p, "open", "opened")
  /\ OpenedFile(p)
  /\ UNCHANGED <<kind, dir, temp, contents>>

NotFound(p) ==
  /\ dir = NoProcess
  /\ At(p, "open", IF p \in Reader THEN "failed" ELSE "unique")
  /\ UNCHANGED <<kind, dir, temp, contents, handle>>

(* The temporary file: mkstemp gives it a name that nobody else has.       *)
Unique(p) ==
  /\ At(p, "unique", "build")
  /\ temp' = temp \cup {p}
  /\ contents' = [contents EXCEPT ![p] = "part"]
  /\ UNCHANGED <<kind, dir, handle>>

(* build_new_store has written everything and the file is long enough.     *)
BuildNewStore(p) ==
  /\ At(p, "build", "rename")
  /\ contents' = [contents EXCEPT ![p] = "whole"]
  /\ UNCHANGED <<kind, dir, temp, handle>>

(* An exception in it: the deleter removes the temporary file.             *)
BuildFails(p) ==
  /\ At(p, "build", "failed")
  /\ temp' = temp \ {p}
  /\ UNCHANGED <<kind, dir, contents, handle>>

(* rename_noreplace.  A file at the path is EEXIST, for which rename only  *)
(* returns false, and open takes no notice: it releases the deleter in     *)
(* either case.                                                            *)
RenameReplacing(p) ==
  /\ kind = "renameat2"
  /\ At(p, "rename", "reopen")
  /\ dir' = p /\ temp' = temp \ {p}
  /\ UNCHANGED <<kind, contents, handle>>
Rename(p) ==
  /\ kind = "renameat2" /\ dir = NoProcess
  /\ At(p, "rename", "reopen")
  /\ dir' = p /\ temp' = temp \ {p}
  /\ UNCHANGED <<kind, contents, handle>>

Link(p) ==
  /\ kind = "linkat" /\ dir = NoProcess
  /\ At(p, "rename", "unlink")
  /\ dir' = p
  /\ UNCHANGED <<kind, temp, contents, handle>>

Unlink(p) ==
  /\ At(p, "unlink", "reopen")
  /\ temp' = temp \ {p}
  /\ UNCHANGED <<kind, dir, contents, handle>>

AlreadyThereRaises(p) ==
  /\ dir # NoProcess
  /\ At(p, "rename", "failed")
  /\ UNCHANGED <<kind, dir, temp, contents, handle>>
AlreadyThere(p) ==
  /\ dir # NoProcess
  /\ At(p, "rename", "reopen")
  /\ UNCHANGED <<kind, dir, temp, contents, handle>>

(* The second open: the file must exist.                                   *)
Reopen(p) ==
  /\ At(p, "reopen", IF dir = NoProcess THEN "failed" ELSE "opened")
  /\ OpenedFile(p)
  /\ UNCHANGED <<kind, dir, temp, contents>>

(* The process is killed while it has a temporary file.  (Before that it   *)
(* is as if it had not come.)                                              *)
Killed(p) ==
  /\ pc[p] \in {"build", "rename", "unlink", "reopen"}
  /\ pc' = [pc EXCEPT ![p] = "killed"]
  /\ UNCHANGED <<kind, dir, temp, contents, handle>>

Steps(p) ==
  \/ OpenExisting(p) \/ NotFound(p) \/ Unique(p) \/ BuildNewStore(p) \/ BuildFails(p)
  \/ Rename(p) \/ Link(p) \/ Unlink(p) \/ AlreadyThere(p) \/ Reopen(p)

CreateNext == \E p \in Process : Steps(p) \/ Killed(p)
============================================================================
