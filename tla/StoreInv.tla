----------------------------- MODULE StoreInv -----------------------------
(***************************************************************************)
(* The inductive invariant of Store: what holds between any two steps of   *)
(* the processes when the store is used as it has to be (SafeUse).         *)
(***************************************************************************)
EXTENDS Store

(* Connections of one process do not share the file, clients keep off the  *)
(* calls that the library does not survive, and no connection can cut the  *)
(* file: it is in small-file mode, or fits the smallest region.            *)
SafeUse ==
  /\ Allow = {}
  /\ \A c, c2 \in Conn : ProcOf[c] = ProcOf[c2] => c = c2
  /\ SmallFiles \/ MaxSize <= MinRegion

(* The end of what has been committed.                                     *)
End == footer_pos + TrailerSize

LeafOf(k, v) == [kind |-> "leaf", bytes |-> LeafSize, key |-> k, val |-> v]

(* What starts below n also ends there.                                    *)
EndsBelow(d, n) == \A x \in Addr : x < n => x + d[x].bytes <= n

(* Through the leaves m, which are below n, a client reads the map w.      *)
Reads(d, m, w, n) ==
  \A k \in Key :
    \/ m[k] = Null /\ w[k] = NoVal
    \/ /\ m[k] # Null
       /\ w[k] \in Val
       /\ m[k] + LeafSize <= n
       /\ d[m[k]] = LeafOf(k, w[k])

(* The index that the trailer at pos records is below it and reads as w.   *)
Stored(d, pos, w) ==
  IF d[pos].index_record = Null THEN w = Empty
  ELSE /\ d[pos].index_record + HeaderBlockSize <= pos
       /\ d[d[pos].index_record].kind = "index"
       /\ Reads(d, d[d[pos].index_record].map, w, pos)

(* The trailer at pos is that of generation g and follows the one at prev. *)
TrailerAt(d, pos, g, prev) ==
  /\ d[pos].kind = "trailer"
  /\ pos % WordAlign = 0
  /\ d[pos].generation = g
  /\ d[pos].prev_generation = prev
  /\ prev + TrailerSize <= pos
  /\ d[pos].size = pos - (prev + TrailerSize)

(* What has been committed is there, in order, and ends at End.            *)
HistoryInv ==
  /\ Len(hist) \in 1..(MaxGeneration + 1)
  /\ footer_pos = hist[Len(hist)].pos
  /\ EndsBelow(disk, End)
  /\ hist[1].pos = LeaderSize
  /\ disk[LeaderSize].kind = "trailer"
  /\ disk[LeaderSize].generation = 0
  /\ disk[LeaderSize].size = 0
  /\ disk[LeaderSize].prev_generation = Null
  /\ \A g \in 2..Len(hist) :
       TrailerAt(disk, hist[g].pos, g - 1, hist[g - 1].pos)
  /\ \A g, h \in DOMAIN hist :
       g < h => hist[g].pos + TrailerSize <= hist[h].pos
  /\ \A g \in DOMAIN hist : Stored(disk, hist[g].pos, hist[g].map)

(* The file holds all of it, and is never cut.                             *)
FileInv ==
  /\ SmallFiles \/ MaxSize <= file_size
  /\ \A x \in Addr : /\ disk[x] = Free \/ x + disk[x].bytes <= file_size
                     /\ x + disk[x].bytes <= MaxSize

(* p is the position of a committed trailer, of a generation from r up.    *)
InHist(p, r) == \E g \in DOMAIN hist : hist[g].pos = p /\ r <= g - 1

(* A transaction is open or may be opened: Writing without the commit.     *)
Growing(c) ==
  txn[c].phase = "live" /\ ~(txn[c].first = Null /\ txn[c].size # 0)

(* The process that has a transaction holds the lock; a connection that is *)
(* not open has neither a transaction nor a call in progress.              *)
LockInv(c) ==
  /\ txn[c].phase # "none" => tlock = ProcOf[c] /\ state[c] = "open"
  /\ txn[c].phase = "begin" => txn[c].first = Null /\ txn[c].size = 0
  /\ pend[c].phase # "none" => state[c] = "open"
  /\ txn[c].phase \in {"live", "commit"} => pend[c].phase = "none"

(* A call of sync() deals with committed trailers and finds its revision.  *)
SyncInv(c) ==
  /\ InHist(fpos[c], 0)
  /\ pend[c].phase \in {"load", "apply"} /\ pend[c].revision # HeadRevision
       => txn[c].phase = "none" /\ pend[c].revision <= Len(hist) - 1
  /\ pend[c].phase = "apply"
       => InHist(pend[c].pos, IF pend[c].revision = HeadRevision THEN 0
                              ELSE pend[c].revision)
  /\ pend[c].phase = "walk"
       => txn[c].phase = "none" /\ InHist(pend[c].pos, pend[c].revision)
  /\ txn[c].phase = "begin" /\ pend[c].phase = "apply"
       => pend[c].pos = footer_pos
  /\ txn[c].phase = "begin" /\ pend[c].phase = "none" => fpos[c] = footer_pos

(* Where the connection would put the next object.                         *)
SizeInv(c) ==
  /\ state[c] = "open" => fpos[c] + TrailerSize <= logical[c]
  /\ state[c] = "open" /\ txn[c].phase \in {"none", "begin"}
       => logical[c] <= End
  /\ txn[c].phase = "live" => fpos[c] = footer_pos
  /\ txn[c].phase = "live" /\ ~Growing(c) => logical[c] = End
  /\ Growing(c) => /\ txn[c].dbsize = End
                   /\ logical[c] = End + txn[c].size
                   /\ txn[c].first # Null => txn[c].size # 0

(* The cached index is that of the current revision, until the transaction *)
(* changes it; then it reads as the transaction means it to.               *)
CacheInv(c) ==
  /\ cache[c].heap => cache[c].loaded
  /\ cache[c].loaded => state[c] = "open"
  /\ pend[c].phase # "walk" /\ txn[c].phase # "commit" /\ cache[c].loaded
       /\ ~cache[c].heap
       => cache[c] = [loaded |-> TRUE, revision |-> get_current_revision(c),
                      heap |-> FALSE, map |-> IndexMap(disk, fpos[c])]
  /\ txn[c].phase = "begin" => ~cache[c].heap
  /\ Growing(c) => IF cache[c].loaded
                   THEN /\ cache[c].revision = get_current_revision(c)
                        /\ Reads(disk, cache[c].map, intent[c], logical[c])
                   ELSE intent[c] = hist[Len(hist)].map

(* The trailer is complete, and nothing leads to it yet.                   *)
CommitInv(c) ==
  txn[c].phase = "commit" =>
    LET p == txn[c].new_footer IN
    /\ fpos[c] = footer_pos
    /\ Len(hist) <= MaxGeneration
    /\ logical[c] = p + TrailerSize
    /\ txn[c].size # 0
    /\ EndsBelow(disk, p + TrailerSize)
    /\ TrailerAt(disk, p, Len(hist), footer_pos)
    /\ Stored(disk, p, intent[c])
    /\ ~cache[c].heap
    /\ cache[c].loaded
         => cache[c] = [loaded |-> TRUE, revision |-> disk[p].generation,
                        heap |-> FALSE, map |-> IndexMap(disk, p)]
    /\ ~cache[c].loaded => intent[c] = hist[Len(hist)].map

ConnInv(c) ==
  LockInv(c) /\ SyncInv(c) /\ SizeInv(c) /\ CacheInv(c) /\ CommitInv(c)

(* Together: the invariant that every step of the store preserves.         *)
StoreInvariant ==
  TypeOK /\ HistoryInv /\ FileInv /\ \A c \in Conn : ConnInv(c)
============================================================================
