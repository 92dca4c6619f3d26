------------------------------ MODULE Storage ------------------------------
(***************************************************************************)
(* How one connection reaches the bytes of the store: the file is mapped   *)
(* in regions, a table of segments (sat_) leads from an address to its     *)
(* region, a request that lies in one region gets a pointer into it and    *)
(* one that does not gets a shadow buffer that is copied back when the     *)
(* pointer is released, and committed pages are made read-only.  Regions   *)
(* come and go with the transactions of this connection and with what the  *)
(* others add to the file.                                                 *)
(*                                                                         *)
(* A pointer into mapping r is [region |-> r, at |-> its distance from the *)
(* start of the mapping].  What the bytes hold is left out, but for        *)
(* whether the value that belongs there has been stored yet.               *)
(***************************************************************************)
EXTENDS Naturals, Sequences, FiniteSets, FiniteSetsExt

CONSTANTS
  SegmentSize,     \* address::segment_size, the size of the smallest region
  FullRegion,      \* storage::full_region_size
  PageSize,
  HeaderSize, LeaderSize, TrailerSize,
  AllocSizes,      \* what clients ask alloc_rw for
  MaxSize,         \* bound: the file does not grow beyond this
  MaxPointers      \* bound: writable pointers that are alive at a time

ASSUME StorageAssumption ==
  /\ PageSize \in Nat \ {0} /\ SegmentSize % PageSize = 0
  /\ SegmentSize \in Nat \ {0}
  /\ FullRegion \in Nat \ {0} /\ FullRegion % SegmentSize = 0
  /\ {HeaderSize, LeaderSize, TrailerSize} \subseteq Nat \ {0}
  /\ HeaderSize < LeaderSize /\ AllocSizes \subseteq Nat \ {0}
  /\ MaxSize \in Nat /\ MaxSize % SegmentSize = 0
  /\ LeaderSize + TrailerSize <= MaxSize /\ MaxPointers \in Nat

VARIABLES
  file,       \* size of the file
  head,       \* header_->footer_pos, which all processes see
  stored,     \* addresses that hold what was meant for them
  regions,    \* regions_
  sat,        \* *sat_
  readonly,   \* pages that were made read-only: <<mapping, file offset>>
  logical,    \* size_.logical_size()
  synced,     \* size_.footer_pos()
  txn,        \* the transaction of this connection
  pointers,   \* the writable pointers that have not been released
  sealed      \* addresses this connection has passed to protect

connection == <<regions, sat, readonly, logical, synced, txn, pointers, sealed>>
storageVars == <<file, head, stored, regions, sat, readonly, logical, synced, txn, pointers,
                 sealed>>

NoRegion == [id |-> 0, offset |-> 0, size |-> 0]
NoEntry == [region |-> NoRegion, at |-> 0]
NoTxn == [phase |-> "none", first |-> 0, dbsize |-> 0]

Segments == 0 .. (MaxSize \div SegmentSize) - 1
Minimum(a, b) == IF a < b THEN a ELSE b
Maximum(a, b) == IF a > b THEN a ELSE b
Pieces(n, size) == (n + size - 1) \div size
round_up(n, size) == Pieces(n, size) * size
round_down(n, size) == n - (n % size)
Bytes(a, n) == a .. (a + n - 1)

----------------------------------------------------------------------------
(* Regions and the segment table.                                          *)

RegionEnd(r) == r.offset + r.size
MappedEnd(rs) == IF rs = <<>> THEN 0 ELSE RegionEnd(rs[Len(rs)])

(* The mappings that exist: a shared pointer in the list, in the table or  *)
(* with a client keeps one alive.  A new one may be put where an old one   *)
(* was.                                                                    *)
Alive(rs, table, ps) ==
  {rs[i].id : i \in DOMAIN rs} \cup {table[s].region.id : s \in Segments} \cup
  {p.to.region.id : p \in ps}
NewMapping(i, used) ==
  CHOOSE n \in 1 .. 2 * Cardinality(Segments) + MaxPointers :
    n \notin used /\ Cardinality((1 .. n) \ used) = i

(* region_builder::append: as many full regions as fit, then the rest.     *)
region_size(bytes, i) == Minimum(FullRegion, bytes - (i - 1) * FullRegion)
append(rs, offset, bytes_to_map, used) ==
  LET bytes == round_up(bytes_to_map, SegmentSize) IN
  rs \o [i \in 1 .. Pieces(bytes, FullRegion) |->
           [id |-> NewMapping(i, used),
            offset |-> offset + (i - 1) * FullRegion,
            size |-> region_size(bytes, i)]]

(* storage::update_master_pointers and slice_region_into_segments: the     *)
(* regions after the first old_length are cut into segments, one after     *)
(* the other, from the end of the regions that were there.  The asserts    *)
(* that the entries were null are not in a release build.                  *)
last_sat_entry(rs, old_length) ==
  IF old_length > 0 THEN RegionEnd(rs[old_length]) \div SegmentSize ELSE 0
update_master_pointers(rs, old_length, table) ==
  LET new == (old_length + 1) .. Len(rs)
      slices(k) == Pieces(rs[k].size, SegmentSize)
      at[k \in new] == IF k = old_length + 1 THEN last_sat_entry(rs, old_length)
                       ELSE at[k - 1] + slices(k - 1)
      slice(s) == {k \in new : s \in Bytes(at[k], slices(k))}
  IN [s \in Segments |->
        IF slice(s) = {} THEN table[s]
        ELSE LET k == CHOOSE k \in slice(s) : TRUE
             IN [region |-> rs[k], at |-> (s - at[k]) * SegmentSize]]

(* storage::map_bytes.  Growing sizes the file and maps the new part;      *)
(* shrinking drops regions from the end until one begins within the new    *)
(* size.  The loop that should clear the entries of a dropped region       *)
(* clears copies of them: the table keeps the entries, and so the mapping. *)
regions_kept(rs, new_size) ==
  SubSeq(rs, 1, Max({0} \cup {i \in DOMAIN rs : rs[i].offset <= new_size}))
map_bytes(new_size) ==
  LET old_size == MappedEnd(regions)
      grown == append(regions, old_size, round_up(new_size, SegmentSize) - old_size,
                      Alive(regions, sat, pointers))
  IN IF new_size > old_size
     THEN /\ regions' = grown
          /\ sat' = update_master_pointers(grown, Len(regions), sat)
          /\ file' = round_up(new_size, SegmentSize)
     ELSE /\ regions' = IF new_size < old_size THEN regions_kept(regions, new_size) ELSE regions
          /\ UNCHANGED <<sat, file>>

----------------------------------------------------------------------------
(* From an address to memory.                                              *)

(* storage::address_to_pointer.                                            *)
address_to_pointer(a, table) ==
  LET e == table[a \div SegmentSize]
  IN [region |-> e.region, at |-> e.at + (a % SegmentSize)]

(* storage::request_spans_regions.                                         *)
request_spans_regions(a, size, table) ==
  /\ size # 0
  /\ table[a \div SegmentSize].region # table[(a + size - 1) \div SegmentSize].region

(* The bytes of the file at n bytes of memory from pointer p, each with    *)
(* its place in the block: what lies outside of the mapping is no part of  *)
(* the file.                                                               *)
Reached(p, done, n) ==
  {<<p.region.offset + p.at + i, done + i>> :
     i \in {i \in Bytes(0, n) : p.at + i < p.region.size}}

(* storage::copy, between the store and a buffer: the pairs of a byte of   *)
(* the file and a byte of the buffer that are copied.  CopyRest does the   *)
(* regions after the first; l is the segment and what has been copied.     *)
(* Beyond the table there is no region.                                    *)
CopyRest(segment, copied, size) ==
  LET rest[l \in Nat \X (0 .. size)] ==
        LET region == sat[l[1]].region
            copy_size == Minimum(size - l[2], region.size)
        IN IF l[2] = size \/ l[1] \notin Segments \/ copy_size = 0 THEN {}
           ELSE Reached([region |-> region, at |-> 0], l[2], copy_size) \cup
                rest[<<l[1] + Pieces(copy_size, SegmentSize), l[2] + copy_size>>]
  IN rest[<<segment + Pieces(copied, SegmentSize), copied>>]
first_piece_of_segment(p, a, size) == Minimum(SegmentSize - (a % SegmentSize), size)
first_piece(p, a, size) == Minimum(p.region.size - p.at, size)
copy(a, size) ==
  LET in_store_ptr == address_to_pointer(a, sat)
      copy_size == first_piece(in_store_ptr, a, size)
  IN Reached(in_store_ptr, 0, copy_size) \cup
     CopyRest(a \div SegmentSize, copy_size, size)

(* What a client that gets a block from database::get has to do with.      *)
Accessed(a, size) ==
  IF request_spans_regions(a, size, sat) THEN copy(a, size)
  ELSE Reached(address_to_pointer(a, sat), 0, size)

(* storage::protect: the whole pages of an interval, and none that holds a *)
(* part of the leader.                                                     *)
last_page_touched(last) == round_up(last, PageSize)
last_page(last) == round_down(last, PageSize)
protect(ro, rs, table, first, last) ==
  LET from(r) == Max({r.offset, round_down(first, PageSize), round_up(LeaderSize, PageSize)})
      to(r) == Minimum(RegionEnd(r), last_page(last))
      pages(r) == {<<address_to_pointer(from(r), table).region.id, a>> :
                     a \in {a \in from(r) .. to(r) - 1 : a % PageSize = 0}}
  IN ro \cup UNION {pages(rs[i]) : i \in DOMAIN rs}

----------------------------------------------------------------------------
(* The connection.                                                         *)

NotOpen == regions = <<>>

StorageInit ==
  /\ head = LeaderSize
  /\ file = round_up(LeaderSize + TrailerSize, SegmentSize)
  /\ stored = Bytes(0, LeaderSize + TrailerSize)
  /\ regions = <<>> /\ sat = [s \in Segments |-> NoEntry]
  /\ readonly = {} /\ sealed = {}
  /\ logical = 0 /\ synced = 0
  /\ txn = NoTxn /\ pointers = {}

(* database::database and finish_init: all of the file is mapped.  (That   *)
(* the footer may move between the two is in module Store.)                *)
Open ==
  /\ NotOpen
  /\ LET rs == append(<<>>, 0, file, {})
         table == update_master_pointers(rs, 0, sat)
     IN /\ regions' = rs /\ sat' = table
        /\ readonly' = protect({}, rs, table, HeaderSize, head + TrailerSize)
  /\ synced' = head /\ logical' = head + TrailerSize
  /\ sealed' = HeaderSize .. (head + TrailerSize - 1)
  /\ UNCHANGED <<file, head, stored, txn, pointers>>

(* The pages of mappings that have gone are nobody's.                      *)
KeepPages(ro) == {p \in ro : p[1] \in Alive(regions', sat', pointers')}

(* database::sync, to the head revision: nothing to do when it is the      *)
(* revision that the connection has.                                       *)
SyncToHead ==
  IF head = synced THEN UNCHANGED <<regions, sat, file, logical, synced, readonly>>
  ELSE /\ map_bytes(head + TrailerSize)
       /\ synced' = head
       /\ logical' = Maximum(logical, head + TrailerSize)
       /\ readonly' = KeepPages(readonly)

Sync ==
  /\ ~NotOpen /\ txn.phase = "none" /\ head # synced
  /\ UNCHANGED <<head, stored, txn, pointers, sealed>>
  /\ SyncToHead

(* begin(): with the transaction lock held.                                *)
Begin ==
  /\ ~NotOpen /\ txn.phase = "none"
  /\ UNCHANGED <<head, stored, pointers, sealed>>
  /\ SyncToHead
  /\ txn' = [phase |-> "live", first |-> 0, dbsize |-> logical']

(* transaction_base::alloc_rw: database::allocate, then get.  The block    *)
(* the client is given is filled before it is released.                    *)
Block(a, size, good) ==
  LET shadow == request_spans_regions(a, size, sat')
  IN [addr |-> a, size |-> size, good |-> good, shadow |-> shadow,
      to |-> IF shadow THEN NoEntry ELSE address_to_pointer(a, sat')]
alloc_rw(size, phase) ==
  /\ logical + size <= MaxSize
  /\ map_bytes(logical + size)
  /\ logical' = logical + size
  /\ stored' = stored \ Bytes(logical, size)
  /\ pointers' = pointers \cup {Block(logical, size, Bytes(0, size))}
  /\ txn' = [txn EXCEPT !.phase = phase, !.first = IF @ = 0 THEN logical ELSE @]
  /\ readonly' = KeepPages(readonly)
  /\ UNCHANGED <<head, synced, sealed>>

Alloc(size) ==
  /\ txn.phase = "live"
  /\ Cardinality(pointers) < MaxPointers
  /\ alloc_rw(size, "live")

(* transaction_base::getrw: a pointer to what the transaction has written  *)
(* before; a shadow buffer begins as a copy.  Clients do not ask for bytes *)
(* that they have another writable pointer to.                             *)
GetRw(a, size) ==
  /\ txn.phase = "live" /\ txn.first # 0
  /\ Cardinality(pointers) < MaxPointers
  /\ a >= txn.first /\ a + size <= logical
  /\ \A p \in pointers : Bytes(a, size) \cap Bytes(p.addr, p.size) = {}
  /\ UNCHANGED <<file, head, stored, regions, sat, readonly, logical, synced, txn, sealed>>
  /\ LET right == {m \in Accessed(a, size) : m[1] \in stored /\ m[1] = a + m[2]}
     IN pointers' = pointers \cup {Block(a, size, {m[2] : m \in right})}

(* The last reference goes: the deleter of get_spanning copies a shadow    *)
(* buffer back; other pointers have written to the mapping all along.      *)
Release(p) ==
  /\ LET moved == IF p.shadow THEN copy(p.addr, p.size) ELSE Reached(p.to, 0, p.size)
         right == {m \in moved : m[1] = p.addr + m[2] /\ m[2] \in p.good}
     IN stored' = (stored \ {m[1] : m \in moved}) \cup {m[1] : m \in right}
  /\ pointers' = pointers \ {p}
  /\ UNCHANGED <<file, head, regions, sat, logical, synced, txn, sealed>>
  /\ readonly' = KeepPages(readonly)

(* transaction_base::commit: the trailer is allocated and filled, and its  *)
(* pointer released at the end of the inner block; then the header is      *)
(* pointed at it, then the transaction is protected.  Clients have let go  *)
(* of their pointers.                                                      *)
CommitTrailer ==
  /\ txn.phase = "live" /\ txn.first # 0 /\ pointers = {}
  /\ alloc_rw(TrailerSize, "trailer")

SetNewFooterEarly ==
  /\ txn.phase = "trailer"
  /\ head' = logical - TrailerSize /\ synced' = head'
  /\ txn' = [txn EXCEPT !.phase = "footer"]
  /\ UNCHANGED <<file, stored, regions, sat, readonly, logical, pointers, sealed>>
SetNewFooter ==
  /\ txn.phase = "trailer" /\ pointers = {}
  /\ head' = logical - TrailerSize /\ synced' = head'
  /\ txn' = [txn EXCEPT !.phase = "footer"]
  /\ UNCHANGED <<file, stored, regions, sat, readonly, logical, pointers, sealed>>

ProtectCommitted ==
  /\ txn.phase = "footer"
  /\ readonly' = protect(readonly, regions, sat, txn.first, head + TrailerSize)
  /\ sealed' = sealed \cup (txn.first .. head + TrailerSize - 1)
  /\ txn' = NoTxn
  /\ UNCHANGED <<file, head, stored, regions, sat, logical, synced, pointers>>

(* transaction_base::rollback: database::truncate when the store has grown.*)
Rollback ==
  /\ txn.phase = "live" /\ pointers = {}
  /\ IF txn.first # 0 /\ logical > txn.dbsize
     THEN /\ map_bytes(txn.dbsize) /\ logical' = txn.dbsize
     ELSE UNCHANGED <<regions, sat, file, logical>>
  /\ txn' = NoTxn
  /\ UNCHANGED <<head, stored, synced, pointers, sealed>>
  /\ readonly' = KeepPages(readonly)

ConnectionNext ==
  \/ Open \/ Sync \/ Begin \/ CommitTrailer \/ SetNewFooter \/ ProtectCommitted \/ Rollback
  \/ \E n \in AllocSizes : Alloc(n) \/ \E a \in LeaderSize .. MaxSize - 1 : GetRw(a, n)
  \/ \E p \in pointers : Release(p)

(* Other processes, when they hold the transaction lock: one commits size  *)
(* bytes, or rolls them back and leaves the file as long as it made it.    *)
(* One that has to map more gives the file the size it needs.              *)
OtherCommits(size) ==
  /\ txn.phase = "none"
  /\ LET end == head + 2 * TrailerSize + size IN
     /\ end <= MaxSize
     /\ head' = end - TrailerSize
     /\ stored' = stored \cup (head .. end - 1)
     /\ file' \in {n \in {file, round_up(end, SegmentSize)} : n >= end}
  /\ UNCHANGED connection

OtherRollsBack(size) ==
  /\ txn.phase = "none"
  /\ head + TrailerSize + size <= MaxSize
  /\ file' = Maximum(file, round_up(head + TrailerSize + size, SegmentSize))
  /\ file' # file
  /\ UNCHANGED <<head, stored, connection>>

OthersNext == \E n \in AllocSizes : OtherCommits(n) \/ OtherRollsBack(n)
============================================================================
