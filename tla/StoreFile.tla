----------------------------- MODULE StoreFile -----------------------------
(***************************************************************************)
(* Creating the store file and reaching its bytes, together: processes     *)
(* race to create the file, and those that have it open map it and write   *)
(* to it.  One of them, Self, is modelled with its mappings; of the others *)
(* there is what they do to the file.                                      *)
(***************************************************************************)
EXTENDS Storage, CreateStore

CONSTANT Self

vars == <<storageVars, createVars>>

Init == StorageInit /\ CreateInit

ConnectionStep ==
  /\ pc[Self] = "opened"
  /\ ConnectionNext
  /\ UNCHANGED createVars

OthersStep ==
  /\ \E p \in Process \ (Reader \cup {Self}) : pc[p] = "opened"
  /\ OthersNext
  /\ UNCHANGED createVars

CreateStep == CreateNext /\ UNCHANGED storageVars

Next == CreateStep \/ ConnectionStep \/ OthersStep

(* A process that is not killed goes on with open().                       *)
Fairness == \A p \in Process : WF_vars(Steps(p) /\ UNCHANGED storageVars)

Spec == Init /\ [][Next]_vars /\ Fairness

----------------------------------------------------------------------------
(* Every block a client may ask database::get for consists of exactly the  *)
(* bytes of the file at its addresses, in order, whether it lies in one    *)
(* region or is put together by storage::copy from two, three or more, and *)
(* whatever was mapped, dropped and mapped again: table entries that       *)
(* map_bytes left behind when it shrank are overwritten before their use.  *)
AccessExact ==
  \A a \in 0 .. logical : \A n \in 0 .. (logical - a) :
    n > 0 => Accessed(a, n) = {<<a + i, i>> : i \in Bytes(0, n)}

(* At whatever step a process is killed, all that lies below the end of    *)
(* the head revision has been stored: the last shadow buffer, the          *)
(* trailer's, is copied back before the header is pointed at the trailer.  *)
CommittedStored == Bytes(0, head + TrailerSize) \subseteq stored

ReadOnlyPage(a) == <<address_to_pointer(a, sat).region.id, a>> \in readonly

(* Protection is exact, also when a mapping takes the place of one that    *)
(* has gone.  What this connection found or committed stays protected      *)
(* against wild writes for as long as it is mapped: every whole page of it *)
(* is read-only in the mapping that the table leads to.  And no page that  *)
(* a transaction still has to write to is read-only: neither the header's, *)
(* nor one that holds an address that is not committed (protect).          *)
ProtectionExact ==
  \A a \in {a \in 0 .. MaxSize - 1 : a % PageSize = 0} :
    /\ a >= LeaderSize /\ Bytes(a, PageSize) \subseteq sealed => ReadOnlyPage(a)
    /\ a < MappedEnd(regions) /\ (a < LeaderSize \/ a + PageSize > head + TrailerSize)
         => ~ReadOnlyPage(a)

(* Whoever has opened the path has the one store that is still there, with *)
(* all that build_new_store writes: nobody's commits go to a file that     *)
(* another process's creation has replaced or that is incomplete.          *)
OneWholeStore ==
  /\ \A p \in Process : pc[p] = "opened" => handle[p] = dir
  /\ dir # NoProcess => contents[dir] = "whole"

(* open() finds a store in the end: a process that got past the first open *)
(* and was neither killed nor hit by an error in build_new_store opens it. *)
CreatorOpens ==
  \A p \in Process : pc[p] = "rename" ~> pc[p] \in {"opened", "killed"}
============================================================================
