------------------------------- MODULE Store -------------------------------
(***************************************************************************)
(* The transactional core of pstore: one store file, the connections        *)
(* (pstore::database objects) that several processes hold on it, their      *)
(* transactions, their syncs between revisions and the index cached by each *)
(* connection (lib/core/database.cpp, lib/core/transaction.cpp,             *)
(* lib/core/file_header.cpp, lib/core/index_types.cpp).                     *)
(*                                                                         *)
(* The file is a function from addresses to the objects that start there.  *)
(* The five indices of a store go through the same code one after another; *)
(* the module has one of them, as the map from keys to the addresses of    *)
(* their leaves that its tree represents.                                  *)
(***************************************************************************)
EXTENDS Integers, Sequences, FiniteSets

CONSTANTS
  Conn,             \* database objects
  Process,          \* operating system processes
  ProcOf,           \* the process each database object lives in
  Key, Val,         \* what the index maps, and to what
  NoVal, Garbage,   \* an absent key; bytes that are no leaf
  NoProc,           \* the transaction lock is free
  LeaderSize,       \* sizeof (header) + sizeof (lock_block)
  TrailerSize,      \* sizeof (trailer)
  HeaderBlockSize,  \* sizeof (index::header_block), with the tree's nodes
  LeafSize,         \* one serialized key/value pair
  WordAlign,        \* alignof (trailer), alignof (header_block)
  AllocSizes,       \* sizes a client asks transaction::allocate for
  MinRegion,        \* storage::min_region_size
  SmallFiles,       \* PSTORE_POSIX_SMALL_FILES
  Allow,            \* what clients may do, see Liberties
  MaxSize,          \* bound on the logical size of the store
  MaxGeneration     \* bound on the number of transactions committed

(***************************************************************************)
(* The library accepts the following uses but, as the runs show, does not  *)
(* survive them.                                                           *)
(*   late_allocate       allocate() on a transaction after its commit()     *)
(*   unknown_revision    sync() to a revision that does not exist           *)
(*   reuse_after_rollback   using a connection after a rolled back          *)
(*                          transaction that had changed an index           *)
(***************************************************************************)
Liberties == {"late_allocate", "unknown_revision", "reuse_after_rollback"}

ASSUME ConstantsAssumption ==
  /\ ProcOf \in [Conn -> Process]
  /\ NoProc \notin Process \cup Conn
  /\ NoVal \notin Val /\ Garbage \notin Val /\ Garbage # NoVal
  /\ {LeaderSize, TrailerSize, HeaderBlockSize, LeafSize, WordAlign,
      MinRegion} \subseteq Nat \ {0}
  /\ AllocSizes \subseteq Nat \ {0}
  /\ MaxSize \in Nat /\ MaxGeneration \in Nat
  /\ LeaderSize % WordAlign = 0 /\ TrailerSize % WordAlign = 0
  /\ LeaderSize + TrailerSize <= MaxSize
  /\ SmallFiles \in BOOLEAN
  /\ Allow \subseteq Liberties

Null == 0          \* address::null ()

Addr == 0..MaxSize
Generation == 0..MaxGeneration
HeadRevision == MaxGeneration + 2    \* larger than every revision number
MaybeVal == Val \cup {NoVal}

(***************************************************************************)
(* What the file holds.                                                    *)
(***************************************************************************)
Free == [kind |-> "free", bytes |-> 0]
Trailer == [kind : {"trailer"}, bytes : {TrailerSize}, generation : Generation,
            size : Nat, prev_generation : Addr, index_record : Addr]
HeaderBlock == [kind : {"index"}, bytes : {HeaderBlockSize},
                map : [Key -> Addr]]
Leaf == [kind : {"leaf"}, bytes : {LeafSize}, key : Key, val : Val]
Object == {Free} \cup Trailer \cup HeaderBlock \cup Leaf

VARIABLES
  disk,        \* the contents of the file, shared by every mapping of it
  file_size,   \* its physical size
  footer_pos,  \* header::footer_pos, in the file
  tlock,       \* the process owning the transaction_lock byte range
  state,       \* of each connection: "closed", "mapped" or "open"
  fpos,        \* database::size_.footer_pos_
  logical,     \* database::size_.logical_
  regions,     \* the file offsets at which storage::regions_ end
  cache,       \* database::indices_
  txn,         \* the transaction object of the connection
  pend,        \* the progress of a call of sync()
  hist,        \* history: what each commit meant to store, and where
  intent       \* history: what the open transaction means to store

vars == <<disk, file_size, footer_pos, tlock, state, fpos, logical, regions,
          cache, txn, pend, hist, intent>>

NoIndex == [loaded |-> FALSE, revision |-> 0, heap |-> FALSE,
            map |-> [k \in Key |-> Null]]
NoTxn == [phase |-> "none", first |-> Null, size |-> 0, dbsize |-> 0,
          new_footer |-> Null]
NoSync == [phase |-> "none", revision |-> HeadRevision, pos |-> Null]
Empty == [k \in Key |-> NoVal]

----------------------------------------------------------------------------
(* Storage: how an object reaches the file and how the file changes size.  *)

(* The contents after object o is written at address a: whatever it        *)
(* overlaps is no longer there.                                            *)
Write(d, a, o) ==
  [x \in Addr |-> IF x = a THEN o
                  ELSE IF x < a + o.bytes /\ x + d[x].bytes > a THEN Free
                  ELSE d[x]]

(* The contents that survive when the file is given the size n.            *)
Truncated(d, n) == [x \in Addr |-> IF x + d[x].bytes > n THEN Free ELSE d[x]]

calc_alignment(v, align) == IF v % align = 0 THEN 0 ELSE align - (v % align)

(* Mutant: rounds down.                                                    *)
round_down(n) == MinRegion * (n \div MinRegion)

round_up(n) == MinRegion * ((n + MinRegion - 1) \div MinRegion)

(* regions_.back ()->end (), or 0.                                         *)
RegionsEnd(R) ==
  IF R = {} THEN 0 ELSE CHOOSE b \in R : \A b2 \in R : b2 <= b

(* storage::map_bytes and region::factory::append: growing adds a region;  *)
(* shrinking discards the regions that start beyond the new size. Growing  *)
(* gives the file the size this connection needs, whatever it was.         *)
map_bytes(R, n) ==
  IF n > RegionsEnd(R) THEN R \cup {round_up(n)}
  ELSE {b \in R : \A b2 \in R : b2 < b => b2 <= n}

(* Mutant: a small file is also cut to measure by sync.                    *)
FileCutToMap(R, n, size) == IF n > RegionsEnd(R) THEN n ELSE size

FileAfterMap(R, n, size) ==
  IF n > RegionsEnd(R) /\ ~SmallFiles THEN round_up(n) ELSE size

(* The size of the file after database::allocate or truncate moves the     *)
(* logical size to n: small files are cut to measure.                      *)
FileAfterResize(R, n, size) ==
  IF SmallFiles THEN n ELSE FileAfterMap(R, n, size)

(* Mutant: the logical size does not follow the footer.                    *)
KeepFirst(a, b) == a

max(a, b) == IF a >= b THEN a ELSE b

----------------------------------------------------------------------------
(* Reading.                                                                *)

(* trailer::validate.                                                      *)
validate(d, pos) ==
  \/ pos = Null
  \/ /\ pos >= LeaderSize
     /\ pos % WordAlign = 0
     /\ d[pos].kind = "trailer"
     /\ pos >= TrailerSize => d[pos].prev_generation <= pos - TrailerSize
     /\ pos >= d[pos].size
     /\ pos - d[pos].size =
          IF d[pos].prev_generation = Null THEN LeaderSize
          ELSE d[pos].prev_generation + TrailerSize

(* hamt_map::find for a key whose leaf should be at address a.             *)
ValueAt(d, a, k) ==
  IF a = Null THEN NoVal
  ELSE IF d[a].kind # "leaf" THEN Garbage
  ELSE IF d[a].key # k THEN NoVal
  ELSE d[a].val

(* The leaves the index of the revision whose trailer is at pos leads to.  *)
IndexMap(d, pos) ==
  IF d[pos].index_record = Null THEN [k \in Key |-> Null]
  ELSE d[d[pos].index_record].map

get_current_revision(c) == disk[fpos[c]].generation

(* Mutant: an index that is not cached is created, not read.               *)
get_new_index(c, create) ==
  IF cache[c].loaded THEN cache[c]
  ELSE [NoIndex EXCEPT !.loaded = create, !.revision = get_current_revision(c)]

(* index::get_index: the cached index or else the one that the trailer     *)
(* this connection is synced to records.                                   *)
get_index(c, create) ==
  IF cache[c].loaded THEN cache[c]
  ELSE IF disk[fpos[c]].index_record = Null /\ ~create THEN NoIndex
  ELSE [loaded |-> TRUE, revision |-> get_current_revision(c),
        heap |-> FALSE, map |-> IndexMap(disk, fpos[c])]

----------------------------------------------------------------------------
(* A store as build_new_store leaves it.                                   *)
Init ==
  /\ disk = [x \in Addr |->
               IF x = LeaderSize
               THEN [kind |-> "trailer", bytes |-> TrailerSize,
                     generation |-> 0, size |-> 0, prev_generation |-> Null,
                     index_record |-> Null]
               ELSE Free]
  /\ file_size = IF SmallFiles THEN LeaderSize + TrailerSize
                 ELSE max(MinRegion, LeaderSize + TrailerSize)
  /\ footer_pos = LeaderSize
  /\ tlock = NoProc
  /\ state = [c \in Conn |-> "closed"]
  /\ fpos = [c \in Conn |-> LeaderSize]
  /\ logical = [c \in Conn |-> 0]
  /\ regions = [c \in Conn |-> {}]
  /\ cache = [c \in Conn |-> NoIndex]
  /\ txn = [c \in Conn |-> NoTxn]
  /\ pend = [c \in Conn |-> NoSync]
  /\ hist = <<[pos |-> LeaderSize, map |-> Empty]>>
  /\ intent = [c \in Conn |-> Empty]

----------------------------------------------------------------------------
(* Opening and closing a connection.                                       *)

(* No call is in progress; a transaction object is alive.                  *)
Idle(c) == state[c] = "open" /\ pend[c].phase = "none"
Live(c) == Idle(c) /\ txn[c].phase = "live"

(* A cached index whose root is in the heap has been changed and not yet   *)
(* flushed. Outside a transaction only a rollback leaves one behind;       *)
(* careful clients then close the connection or sync it elsewhere.         *)
Usable(c) == cache[c].heap => "reuse_after_rollback" \in Allow

(* database::database, first half: storage_ maps the file as it is.        *)
OpenMap(c) ==
  /\ state[c] = "closed"
  /\ state' = [state EXCEPT ![c] = "mapped"]
  /\ regions' = [regions EXCEPT ![c] = {round_up(file_size)}]
  /\ UNCHANGED <<disk, file_size, footer_pos, tlock, fpos, logical, cache,
                 txn, pend, hist, intent>>

(* Second half: get_footer_pos, finish_init. An inconsistent file raises   *)
(* and the half-built object goes away.                                    *)
OpenFooter(c) ==
  /\ state[c] = "mapped"
  /\ IF /\ footer_pos >= LeaderSize
        /\ footer_pos + TrailerSize <= file_size
        /\ validate(disk, footer_pos)
     THEN /\ state' = [state EXCEPT ![c] = "open"]
          /\ fpos' = [fpos EXCEPT ![c] = footer_pos]
          /\ logical' = [logical EXCEPT ![c] = footer_pos + TrailerSize]
          /\ UNCHANGED regions
     ELSE /\ state' = [state EXCEPT ![c] = "closed"]
          /\ regions' = [regions EXCEPT ![c] = {}]
          /\ UNCHANGED <<fpos, logical>>
  /\ UNCHANGED <<disk, file_size, footer_pos, tlock, cache, txn, pend, hist,
                 intent>>

(* What is left of the connections in C when their objects are gone: the   *)
(* operating system drops every lock of a process that closes a file.      *)
Gone(C) ==
  /\ state' = [c \in Conn |-> IF c \in C THEN "closed" ELSE state[c]]
  /\ fpos' = [c \in Conn |-> IF c \in C THEN LeaderSize ELSE fpos[c]]
  /\ logical' = [c \in Conn |-> IF c \in C THEN 0 ELSE logical[c]]
  /\ regions' = [c \in Conn |-> IF c \in C THEN {} ELSE regions[c]]
  /\ cache' = [c \in Conn |-> IF c \in C THEN NoIndex ELSE cache[c]]
  /\ txn' = [c \in Conn |-> IF c \in C THEN NoTxn ELSE txn[c]]
  /\ pend' = [c \in Conn |-> IF c \in C THEN NoSync ELSE pend[c]]
  /\ intent' = [c \in Conn |-> IF c \in C THEN Empty ELSE intent[c]]
  /\ tlock' = IF \E c \in C : tlock = ProcOf[c] THEN NoProc ELSE tlock
  /\ UNCHANGED <<disk, file_size, footer_pos, hist>>

(* ~database.                                                              *)
Close(c) ==
  /\ Idle(c)
  /\ txn[c].phase = "none"
  /\ Gone({c})

(* The process is killed, at any point of any call.                        *)
Crash(p) ==
  /\ \E c \in Conn : ProcOf[c] = p /\ state[c] # "closed"
  /\ Gone({c \in Conn : ProcOf[c] = p})

----------------------------------------------------------------------------
(* database::sync.                                                         *)

(* The call raises. If it was begin() that called, its lock goes with it.  *)
SyncRaises(c) ==
  /\ pend' = [pend EXCEPT ![c] = NoSync]
  /\ IF txn[c].phase = "begin"
     THEN /\ txn' = [txn EXCEPT ![c] = NoTxn]
          /\ tlock' = IF tlock = ProcOf[c] THEN NoProc ELSE tlock
     ELSE UNCHANGED <<txn, tlock>>
  /\ UNCHANGED cache

(* Mutant: the cached indices survive.                                     *)
SyncKeepsCache(c) ==
  /\ pend' = [pend EXCEPT ![c] = NoSync]
  /\ UNCHANGED <<cache, txn, tlock>>

(* The call returns, having dropped the cached indices.                    *)
SyncReturns(c) ==
  /\ pend' = [pend EXCEPT ![c] = NoSync]
  /\ cache' = [cache EXCEPT ![c] = NoIndex]
  /\ UNCHANGED <<txn, tlock>>

(* A client asks for revision r. A revision older than the current one is  *)
(* looked for from there; anything else starts with the head.              *)
SyncCall(c, r) ==
  /\ Idle(c)
  /\ txn[c].phase = "none"
  /\ r # get_current_revision(c)
  /\ r # HeadRevision /\ "unknown_revision" \notin Allow
       => r <= disk[footer_pos].generation
  /\ pend' = [pend EXCEPT ![c] =
                [phase |-> IF r < get_current_revision(c) THEN "walk"
                           ELSE "load",
                 revision |-> r, pos |-> fpos[c]]]
  /\ UNCHANGED <<disk, file_size, footer_pos, tlock, state, fpos, logical,
                 regions, cache, txn, hist, intent>>

(* The atomic read of the header's footer_pos, and the early out.          *)
SyncLoad(c) ==
  /\ pend[c].phase = "load"
  /\ pend' = [pend EXCEPT ![c] =
                IF pend[c].revision = HeadRevision /\ footer_pos = fpos[c]
                THEN NoSync
                ELSE [pend[c] EXCEPT !.phase = "apply", !.pos = footer_pos]]
  /\ UNCHANGED <<disk, file_size, footer_pos, tlock, state, fpos, logical,
                 regions, cache, txn, hist, intent>>

(* From the file size check to the validation of the new footer.           *)
SyncApply(c) ==
  LET pos == pend[c].pos
      end == pos + TrailerSize
  IN
  /\ pend[c].phase = "apply"
  /\ IF end > file_size
     THEN /\ SyncRaises(c)
          /\ UNCHANGED <<disk, file_size, fpos, logical, regions>>
     ELSE /\ file_size' = FileAfterMap(regions[c], end, file_size)
          /\ disk' = Truncated(disk, file_size')
          /\ regions' = [regions EXCEPT ![c] = map_bytes(regions[c], end)]
          /\ fpos' = [fpos EXCEPT ![c] = pos]
          /\ logical' = [logical EXCEPT ![c] = max(logical[c], end)]
          /\ IF ~validate(disk', pos) THEN SyncRaises(c)
             ELSE IF pend[c].revision = HeadRevision THEN SyncReturns(c)
             ELSE /\ pend' = [pend EXCEPT ![c].phase = "walk"]
                  /\ UNCHANGED <<txn, tlock, cache>>
  /\ UNCHANGED <<footer_pos, state, hist, intent>>

(* Mutant: the walk does not move.                                         *)
OlderStuck(tail, pos) == pos

(* The trailer before the one at pos.                                      *)
Older(tail, pos) == tail.prev_generation

(* One iteration of the loop of older_revision_footer_pos, with the        *)
(* statements that follow it in sync when it ends the loop.                *)
SyncWalk(c) ==
  LET pos == pend[c].pos
      tail == disk[pos]
  IN
  /\ pend[c].phase = "walk"
  /\ IF pend[c].revision > tail.generation
     THEN SyncRaises(c) /\ UNCHANGED <<fpos, logical>>
     ELSE IF tail.generation = pend[c].revision
     THEN /\ SyncReturns(c)
          /\ fpos' = [fpos EXCEPT ![c] = pos]
          /\ logical' = [logical EXCEPT ![c] =
                           max(logical[c], pos + TrailerSize)]
     ELSE /\ IF validate(disk, Older(tail, pos))
             THEN /\ pend' = [pend EXCEPT ![c].pos = Older(tail, pos)]
                  /\ UNCHANGED <<txn, tlock, cache>>
             ELSE SyncRaises(c)
          /\ UNCHANGED <<fpos, logical>>
  /\ UNCHANGED <<disk, file_size, footer_pos, state, regions, hist, intent>>

----------------------------------------------------------------------------
(* transaction_base, transaction.                                          *)

(* Mutant: the lock is not waited for.                                     *)
LockIgnored(c) == TRUE

(* range_lock::lock and fcntl (F_SETLKW): a POSIX range lock belongs to a  *)
(* process, so it never keeps out another connection of the same process.  *)
LockFree(c) == tlock \in {NoProc, ProcOf[c]}

(* begin: transaction_mutex::lock waits for the lock; the constructor then *)
(* syncs to the head.                                                      *)
BeginLock(c) ==
  /\ Idle(c)
  /\ txn[c].phase = "none"
  /\ Usable(c)
  /\ LockFree(c)
  /\ tlock' = ProcOf[c]
  /\ txn' = [txn EXCEPT ![c] = [NoTxn EXCEPT !.phase = "begin"]]
  /\ pend' = [pend EXCEPT ![c] = [NoSync EXCEPT !.phase = "load"]]
  /\ UNCHANGED <<disk, file_size, footer_pos, state, fpos, logical, regions,
                 cache, hist, intent>>

(* The sync is done: the constructor notes the size of the store.          *)
BeginReady(c) ==
  /\ Idle(c)
  /\ txn[c].phase = "begin"
  /\ txn' = [txn EXCEPT ![c].phase = "live", ![c].dbsize = logical[c]]
  /\ intent' = [intent EXCEPT ![c] = hist[Len(hist)].map]
  /\ UNCHANGED <<disk, file_size, footer_pos, tlock, state, fpos, logical,
                 regions, cache, pend, hist>>

(* Where database::allocate puts n bytes when the logical size is l.       *)
Placed(l, align) == l + calc_alignment(l, align)

(* Mutants: only the last allocation counts; padding does not count.       *)
GrownOnce(t, a, l, m) ==
  [t EXCEPT !.first = IF t.first = Null THEN a ELSE t.first, !.size = m - l]

GrownUnpadded(t, a, l, m) ==
  [t EXCEPT !.first = IF t.first = Null THEN a ELSE t.first,
            !.size = t.size + (m - a)]

(* transaction_base::allocate as it changes the transaction, when the      *)
(* logical size goes from l to m and the new storage is at a.              *)
Grown(t, a, l, m) ==
  [t EXCEPT !.first = IF t.first = Null THEN a ELSE t.first,
            !.size = t.size + (m - l)]

(* allocate (or alloc_rw) called by the client. The store has grown before *)
(* a transaction that is already over raises cannot_allocate_after_commit. *)
Allocate(c, n, align) ==
  LET a == Placed(logical[c], align)
      m == a + n
      over == txn[c].first = Null /\ txn[c].size # 0
  IN
  /\ Live(c)
  /\ over => "late_allocate" \in Allow
  /\ m <= MaxSize
  /\ regions' = [regions EXCEPT ![c] = map_bytes(regions[c], m)]
  /\ file_size' = FileAfterResize(regions[c], m, file_size)
  /\ disk' = Truncated(disk, file_size')
  /\ logical' = [logical EXCEPT ![c] = m]
  /\ txn' = IF over THEN txn
            ELSE [txn EXCEPT ![c] = Grown(txn[c], a, logical[c], m)]
  /\ UNCHANGED <<footer_pos, tlock, state, fpos, cache, pend, hist, intent>>

(* index::get_index by a client that only reads.                           *)
LoadIndex(c) ==
  /\ Idle(c)
  /\ txn[c].phase \in {"none", "live"}
  /\ ~cache[c].loaded
  /\ cache' = [cache EXCEPT ![c] = get_index(c, TRUE)]
  /\ UNCHANGED <<disk, file_size, footer_pos, tlock, state, fpos, logical,
                 regions, txn, pend, hist, intent>>

(* hamt_map::insert_or_assign: store_leaf_node appends the pair to the     *)
(* transaction, the tree in memory then leads to it.                       *)
Insert(c, k, v) ==
  LET index == get_index(c, TRUE)
      a == Placed(logical[c], 1)
      m == a + LeafSize
      leaf == [kind |-> "leaf", bytes |-> LeafSize, key |-> k, val |-> v]
  IN
  /\ Live(c)
  /\ ~(txn[c].first = Null /\ txn[c].size # 0)
  /\ index.revision = get_current_revision(c)
  /\ m <= MaxSize
  /\ regions' = [regions EXCEPT ![c] = map_bytes(regions[c], m)]
  /\ file_size' = FileAfterResize(regions[c], m, file_size)
  /\ disk' = Write(Truncated(disk, file_size'), a, leaf)
  /\ logical' = [logical EXCEPT ![c] = m]
  /\ txn' = [txn EXCEPT ![c] = Grown(txn[c], a, logical[c], m)]
  /\ cache' = [cache EXCEPT ![c] =
                  [index EXCEPT !.map[k] = a, !.heap = TRUE]]
  /\ intent' = [intent EXCEPT ![c][k] = v]
  /\ UNCHANGED <<footer_pos, tlock, state, fpos, pend, hist>>

(* transaction_base::commit up to the complete trailer: flush_indices      *)
(* writes the index whether it changed or not, then the trailer follows.   *)
(* Nothing of it can be reached from the header yet.                       *)
CommitWrite(c) ==
  LET generation == disk[footer_pos].generation + 1
      index == get_index(c, FALSE)
      a == Placed(logical[c], WordAlign)
      l == IF index.loaded THEN a + HeaderBlockSize ELSE logical[c]
      p == Placed(l, WordAlign)
      m == p + TrailerSize
      R == IF index.loaded THEN map_bytes(regions[c], l) ELSE regions[c]
      f == IF index.loaded THEN FileAfterResize(regions[c], l, file_size)
           ELSE file_size
      block == [kind |-> "index", bytes |-> HeaderBlockSize,
                map |-> index.map]
      d == Truncated(disk, f)
      flushed == IF index.loaded THEN Write(d, a, block) ELSE d
      t == [kind |-> "trailer", bytes |-> TrailerSize,
            generation |-> generation,
            size |-> Grown(txn[c], a, logical[c], m).size - TrailerSize,
            prev_generation |-> footer_pos,
            index_record |-> IF index.loaded THEN a
                             ELSE disk[footer_pos].index_record]
  IN
  /\ Live(c)
  /\ txn[c].first # Null
  /\ generation <= MaxGeneration /\ m <= MaxSize
  /\ index.loaded => index.revision = get_current_revision(c)
  /\ regions' = [regions EXCEPT ![c] = map_bytes(R, m)]
  /\ file_size' = FileAfterResize(R, m, f)
  /\ disk' = Write(Truncated(flushed, file_size'), p, t)
  /\ logical' = [logical EXCEPT ![c] = m]
  /\ cache' = IF index.loaded
              THEN [cache EXCEPT ![c] = [index EXCEPT !.revision = generation,
                                                      !.heap = FALSE]]
              ELSE cache
  /\ txn' = [txn EXCEPT ![c] = [Grown(txn[c], a, logical[c], m) EXCEPT
                                 !.phase = "commit", !.new_footer = p]]
  /\ UNCHANGED <<footer_pos, tlock, state, fpos, pend, hist, intent>>

(* database::set_new_footer and the end of commit: one store publishes the *)
(* transaction. The lock is kept until the object is destroyed.            *)
CommitPublish(c) ==
  /\ Idle(c)
  /\ txn[c].phase = "commit"
  /\ fpos' = [fpos EXCEPT ![c] = txn[c].new_footer]
  /\ logical' = [logical EXCEPT ![c] =
                   max(logical[c], txn[c].new_footer + TrailerSize)]
  /\ footer_pos' = txn[c].new_footer
  /\ txn' = [txn EXCEPT ![c].phase = "live", ![c].first = Null]
  /\ hist' = Append(hist, [pos |-> txn[c].new_footer, map |-> intent[c]])
  /\ intent' = [intent EXCEPT ![c] = Empty]
  /\ UNCHANGED <<disk, file_size, tlock, state, regions, cache, pend>>

(* What rollback does to the storage of an open transaction:               *)
(* database::truncate back to the size at the start. The cached index is   *)
(* left alone.                                                             *)
Undo(c) ==
  /\ intent' = [intent EXCEPT ![c] = Empty]
  /\ IF txn[c].first # Null /\ logical[c] > txn[c].dbsize
     THEN /\ regions' = [regions EXCEPT
                          ![c] = map_bytes(regions[c], txn[c].dbsize)]
          /\ file_size' = FileAfterResize(regions[c], txn[c].dbsize, file_size)
          /\ disk' = Truncated(disk, file_size')
          /\ logical' = [logical EXCEPT ![c] = txn[c].dbsize]
     ELSE UNCHANGED <<disk, file_size, regions, logical>>

Rollback(c) ==
  /\ Live(c)
  /\ txn[c].first # Null
  /\ Undo(c)
  /\ txn' = [txn EXCEPT ![c].first = Null]
  /\ UNCHANGED <<footer_pos, tlock, state, fpos, cache, pend, hist>>

(* ~transaction: roll back what was not committed, release the lock.       *)
EndTransaction(c) ==
  /\ Live(c)
  /\ Undo(c)
  /\ txn' = [txn EXCEPT ![c] = NoTxn]
  /\ tlock' = IF tlock = ProcOf[c] THEN NoProc ELSE tlock
  /\ UNCHANGED <<footer_pos, state, fpos, cache, pend, hist>>

----------------------------------------------------------------------------
ConnNext(c) ==
  \/ OpenMap(c) \/ OpenFooter(c) \/ Close(c)
  \/ \E r \in 0..HeadRevision : SyncCall(c, r)
  \/ SyncLoad(c) \/ SyncApply(c) \/ SyncWalk(c)
  \/ BeginLock(c) \/ BeginReady(c)
  \/ \E n \in AllocSizes : Allocate(c, n, 1)
  \/ LoadIndex(c)
  \/ \E k \in Key, v \in Val : Insert(c, k, v)
  \/ CommitWrite(c) \/ CommitPublish(c)
  \/ Rollback(c) \/ EndTransaction(c)

Next == (\E c \in Conn : ConnNext(c)) \/ (\E p \in Process : Crash(p))

Spec == Init /\ [][Next]_vars

(* sync() is plain sequential code: a thread inside it keeps running.      *)
Fairness == \A c \in Conn :
  WF_vars(SyncLoad(c) \/ SyncApply(c) \/ SyncWalk(c))

FairSpec == Spec /\ Fairness

----------------------------------------------------------------------------
Index == [loaded : BOOLEAN, revision : Generation, heap : BOOLEAN,
          map : [Key -> Addr]]
Transaction == [phase : {"none", "begin", "live", "commit"}, first : Addr,
                size : Nat, dbsize : Addr, new_footer : Addr]
SyncProgress == [phase : {"none", "load", "apply", "walk"},
                 revision : 0..HeadRevision, pos : Addr]
Revision == [pos : Addr, map : [Key -> MaybeVal]]

(* Every variable has the type of the member or record it stands for.      *)
TypeOK ==
  /\ disk \in [Addr -> Object]
  /\ file_size \in Nat
  /\ footer_pos \in Addr
  /\ tlock \in Process \cup {NoProc}
  /\ state \in [Conn -> {"closed", "mapped", "open"}]
  /\ fpos \in [Conn -> Addr]
  /\ logical \in [Conn -> Addr]
  /\ regions \in [Conn -> SUBSET Nat]
  /\ cache \in [Conn -> Index]
  /\ txn \in [Conn -> Transaction]
  /\ pend \in [Conn -> SyncProgress]
  /\ hist \in Seq(Revision)
  /\ intent \in [Conn -> [Key -> MaybeVal]]

(* What a client reads through an index that maps keys to the leaves m.    *)
Lookup(d, m) == [k \in Key |-> ValueAt(d, m[k], k)]

(* The index object the trailer at pos records is there.                   *)
HasIndex(d, pos) ==
  d[pos].kind = "trailer"
  /\ (d[pos].index_record # Null => d[d[pos].index_record].kind = "index")

(* A committed revision reads back exactly as its transaction built it,    *)
(* whatever is committed, rolled back or cut short by a crash afterwards.  *)
HistoryIntact ==
  \A g \in DOMAIN hist :
    /\ HasIndex(disk, hist[g].pos)
    /\ Lookup(disk, IndexMap(disk, hist[g].pos)) = hist[g].map

(* The header leads to the newest trailer and each trailer to the one      *)
(* before: older_revision_footer_pos finds every revision, and every step  *)
(* of it passes trailer::validate.                                         *)
TrailerChain ==
  /\ footer_pos = hist[Len(hist)].pos
  /\ \A g \in DOMAIN hist :
       /\ validate(disk, hist[g].pos)
       /\ disk[hist[g].pos].generation = g - 1
       /\ disk[hist[g].pos].prev_generation =
            IF g = 1 THEN Null ELSE hist[g - 1].pos

(* A connection outside a transaction reads, through its cached index, the *)
(* revision it says it is synced to: sync() drops the cache when it moves. *)
SnapshotReads ==
  \A c \in Conn :
    Idle(c) /\ txn[c].phase = "none" /\ cache[c].loaded /\ Usable(c)
      => /\ cache[c].revision = get_current_revision(c)
         /\ Lookup(disk, cache[c].map) = hist[cache[c].revision + 1].map

(* What a connection may address is mapped, and is in the file: getro of   *)
(* anything below the logical size finds a segment.                        *)
MappedCovers ==
  \A c \in Conn :
    Idle(c) => /\ logical[c] <= RegionsEnd(regions[c])
               /\ logical[c] <= file_size

(* At most one connection is between begin() and the end of its            *)
(* transaction, and it builds on the newest revision.                      *)
SingleWriter ==
  \A c \in Conn :
    txn[c].phase \in {"live", "commit"} =>
      /\ fpos[c] = footer_pos
      /\ \A c2 \in Conn \ {c} : txn[c2].phase = "none"

(* What lies below the newest trailer's end never changes.                 *)
AppendOnly ==
  [][\A x \in Addr : x < footer_pos + TrailerSize => disk'[x] = disk[x]]_vars

(* A call of sync() comes to an end, however far back the revision is and  *)
(* whatever is committed meanwhile.                                        *)
SyncTerminates ==
  \A c \in Conn : pend[c].phase # "none" ~> pend[c].phase = "none"

----------------------------------------------------------------------------
(* The abstract specification, and how this one implements it.             *)

(* The transaction object of c can still change the store.                 *)
Writing(c) ==
  \/ txn[c].phase = "commit"
  \/ txn[c].phase = "live" /\ ~(txn[c].first = Null /\ txn[c].size # 0)

(* What the clients of c see between calls.                                *)
View(c) ==
  IF Idle(c) /\ txn[c].phase # "begin" /\ (cache[c].heap => Writing(c))
  THEN Lookup(disk, get_index(c, TRUE).map)
  ELSE NoProc

(* What has been committed, who may change the store, and what all see.    *)
Revisions == [g \in DOMAIN hist |-> hist[g].map]
Writer ==
  IF \E c \in Conn : Writing(c) THEN CHOOSE c \in Conn : Writing(c) ELSE NoProc
Views == [c \in Conn |-> View(c)]

Abstract == INSTANCE RevisionStore WITH
  NoConn <- NoProc, NoView <- NoProc,
  revisions <- Revisions, writer <- Writer, view <- Views

(* The store behaves as a sequence of revisions with snapshot readers and  *)
(* one atomic writer: see RevisionStore.                                   *)
ImplementsRevisionStore == Abstract!Spec
============================================================================
