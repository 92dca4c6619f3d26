--------------------------- MODULE StoreTheorems ---------------------------
(* The safety properties of Store, for every number of connections,        *)
(* processes, keys, values and revisions, and for every layout of the      *)
(* file, as long as the store is used safely (SafeUse). First the steps    *)
(* that write: allocating, inserting, undoing and committing; last, that   *)
(* Store implements RevisionStore.                                         *)
EXTENDS StoreReadProofs, SequenceTheorems

(* Allocating and inserting.                                               *)

(* A step of a growing transaction: the store grows to m, with the new     *)
(* storage at a. What the step writes and what the cache becomes is left   *)
(* to the caller.                                                          *)
LEMMA GrowStep ==
  ASSUME SafeUse, StoreInvariant, NEW c \in Conn, Live(c), Growing(c),
         NEW a \in Nat, NEW m \in Nat, logical[c] <= a, a < m, m <= MaxSize,
         UNCHANGED <<footer_pos, tlock, state, fpos, pend, hist>>,
         regions' = [regions EXCEPT ![c] = map_bytes(regions[c], m)],
         logical' = [logical EXCEPT ![c] = m],
         txn' = [txn EXCEPT ![c] = Grown(txn[c], a, logical[c], m)],
         disk' \in [Addr -> Object],
         \A x \in Addr : x < End => disk'[x] = disk[x],
         EndsBelow(disk', End),
         file_size' \in Nat, SmallFiles \/ MaxSize <= file_size',
         Fits(disk', file_size'),
         intent' \in [Conn -> [Key -> MaybeVal]], cache' \in [Conn -> Index],
         \A c2 \in Conn \ {c} :
           cache'[c2] = cache[c2] /\ intent'[c2] = intent[c2],
         CacheInv(c)'
  PROVE  StoreInvariant' /\ txn'[c].first # Null /\ txn'[c].phase = "live"
<1> DEFINE t == Grown(txn[c], a, logical[c], m)
<1>1. TypeOK /\ HistoryInv /\ ConnInv(c) /\ FileInv
  BY DEF StoreInvariant
<1>2. /\ state[c] = "open" /\ pend[c].phase = "none" /\ txn[c].phase = "live"
  BY DEF Live, Idle
<1>3. /\ txn[c] \in Transaction /\ txn[c].size \in Nat /\ txn[c].first \in Addr
      /\ logical[c] \in Nat
  BY <1>1, SizeFacts, Zenon DEF TypeOK, Transaction
<1>4. /\ fpos[c] = footer_pos /\ txn[c].dbsize = End
      /\ logical[c] = End + txn[c].size /\ tlock = ProcOf[c]
  BY <1>1, <1>2 DEF ConnInv, SizeInv, LockInv
<1>5. /\ a \in Addr /\ m \in Addr /\ a # Null /\ txn[c].size + (m - logical[c]) \in Nat
      /\ txn[c].size + (m - logical[c]) # 0
      /\ m = End + (txn[c].size + (m - logical[c])) /\ End <= m
  <2>1. End \in Nat /\ 0 < End /\ MaxSize \in Nat
    BY EndFacts, SizeFacts
  <2>2. /\ txn[c].size + (m - logical[c]) \in Nat
        /\ txn[c].size + (m - logical[c]) # 0
        /\ m = End + (txn[c].size + (m - logical[c])) /\ End <= m
    BY <1>3, <1>4, <2>1
  <2>3. a \in Addr /\ m \in Addr /\ a # Null
    BY <1>3, <1>4, <2>1 DEF Addr, Null
  <2> QED BY <2>2, <2>3
<1>6. /\ t \in Transaction
      /\ t.phase = "live" /\ t.first # Null /\ t.dbsize = End
      /\ t.size = txn[c].size + (m - logical[c])
  <2>1. (IF txn[c].first = Null THEN a ELSE txn[c].first) \in Addr \ {Null}
    BY <1>3, <1>5
  <2>2. t = [txn[c] EXCEPT
               !.first = IF txn[c].first = Null THEN a ELSE txn[c].first,
               !.size = txn[c].size + (m - logical[c])]
    BY DEF Grown
  <2>3. t \in Transaction
    BY <1>3, <1>5, <2>1, <2>2, Zenon DEF Transaction
  <2>4. /\ t.phase = txn[c].phase /\ t.dbsize = txn[c].dbsize
        /\ t.first = IF txn[c].first = Null THEN a ELSE txn[c].first
        /\ t.size = txn[c].size + (m - logical[c])
    BY <1>3, <2>2 DEF Transaction
  <2> HIDE DEF t
  <2> QED BY <1>2, <1>4, <2>1, <2>3, <2>4
<1>7. /\ txn'[c] = t /\ logical'[c] = m
  BY <1>1 DEF TypeOK
<1> HIDE DEF t
<1>8. TypeOK'
  <2>1. txn' \in [Conn -> Transaction]
    BY <1>1, <1>6 DEF TypeOK, t
  <2>2. logical' \in [Conn -> Addr]
    BY <1>1, <1>5 DEF TypeOK
  <2>3. regions' \in [Conn -> SUBSET Nat]
    BY <1>1, RegionFacts DEF TypeOK
  <2> QED BY <1>1, <2>1, <2>2, <2>3 DEF TypeOK
<1>9. FileInv'
  BY DEF FileInv, Fits
<1>10. LockInv(c)'
  BY <1>1, <1>2, <1>4, <1>6, <1>7 DEF LockInv
<1>11. SyncInv(c)'
  BY <1>1, <1>2, <1>4, <1>6, <1>7 DEF ConnInv, SyncInv, InHist
<1>12. SizeInv(c)'
  <2>1. End' = End
    BY DEF End
  <2>2. footer_pos + TrailerSize <= m
    <3>1. End = footer_pos + TrailerSize
      BY EndFacts
    <3> QED BY <1>5, <3>1
  <2> QED BY <1>2, <1>4, <1>5, <1>6, <1>7, <2>1, <2>2, Zenon
             DEF SizeInv, Growing
<1>13. CommitInv(c)'
  BY <1>6, <1>7, Zenon DEF CommitInv
<1>14. \A c2 \in Conn \ {c} : Untouched(c2)
  BY <1>1 DEF Untouched, TypeOK
<1>15. StoreInvariant'
  BY <1>4, <1>8, <1>9, <1>10, <1>11, <1>12, <1>13, <1>14, StepFrame, Zenon
  DEF ConnInv
<1> QED BY <1>6, <1>7, <1>15

(* How the index of a transaction appears in a file where everything that  *)
(* was below the logical size is still there.                              *)
LEMMA CacheKept ==
  ASSUME SafeUse, StoreInvariant, NEW c \in Conn, Live(c), Growing(c),
         UNCHANGED <<footer_pos, state, fpos, hist, cache, intent>>,
         disk' \in [Addr -> Object],
         \A x \in Addr : x < End => disk'[x] = disk[x],
         EndsBelow(disk', End),
         \A x \in Addr : x < logical[c] /\ x + disk[x].bytes <= logical[c]
                           => disk'[x] = disk[x],
         logical'[c] \in Nat, logical[c] <= logical'[c],
         txn'[c].phase = "live"
  PROVE  CacheInv(c)'
<1>1. TypeOK /\ HistoryInv /\ ConnInv(c)
  BY Zenon DEF StoreInvariant
<1>2. /\ state[c] = "open" /\ pend[c].phase = "none" /\ txn[c].phase = "live"
      /\ fpos[c] = footer_pos /\ Len(hist) \in DOMAIN hist
      /\ hist[Len(hist)].pos = footer_pos
  BY <1>1, HeadFacts, Zenon DEF Live, Idle, ConnInv, SizeInv, HistoryInv
<1>3. /\ disk'[fpos[c]] = disk[fpos[c]]
      /\ IndexMap(disk', fpos[c]) = IndexMap(disk, fpos[c])
  BY <1>1, <1>2, HistoryFrame, Zenon
<1>4. get_current_revision(c)' = get_current_revision(c)
  BY <1>3 DEF get_current_revision
<1>5. cache[c].loaded => Reads(disk', cache[c].map, intent[c], logical'[c])
  <2> HAVE cache[c].loaded
  <2>1. Reads(disk, cache[c].map, intent[c], logical[c])
    BY <1>1 DEF ConnInv, CacheInv
  <2>2. /\ cache[c].map \in [Key -> Addr] /\ intent[c] \in [Key -> MaybeVal]
        /\ disk \in [Addr -> Object] /\ logical[c] \in Nat
    BY <1>1, SizeFacts, Zenon DEF TypeOK, Index
  <2>3. Reads(disk', cache[c].map, intent[c], logical[c])
    BY <2>1, <2>2, ReadsKept, Zenon
  <2> QED BY <2>2, <2>3, ReadsWider
<1>6. /\ cache[c].heap => cache[c].loaded
      /\ cache[c].loaded /\ ~cache[c].heap
           => cache[c] = [loaded |-> TRUE, revision |-> get_current_revision(c),
                          heap |-> FALSE, map |-> IndexMap(disk, fpos[c])]
      /\ IF cache[c].loaded THEN cache[c].revision = get_current_revision(c)
         ELSE intent[c] = hist[Len(hist)].map
  BY <1>1, <1>2, Zenon DEF ConnInv, CacheInv
<1> QED BY <1>2, <1>3, <1>4, <1>5, <1>6, Zenon DEF CacheInv

(* What ends by l ends by any later m.                                     *)
LEMMA EndsWithin ==
  ASSUME NEW d \in [Addr -> Object], NEW l \in Nat, NEW m \in Nat, l <= m
  PROVE  \A x \in Addr : x + d[x].bytes <= l => x + d[x].bytes <= m
<1> SUFFICES ASSUME NEW x \in Addr, x + d[x].bytes <= l
             PROVE  x + d[x].bytes <= m
  OBVIOUS
<1>1. x \in Nat /\ d[x].bytes \in Nat
  BY SizeFacts, ObjectBytes
<1> QED BY <1>1

(* The file after a growing transaction has made room up to m.             *)
LEMMA RoomFacts ==
  ASSUME SafeUse, StoreInvariant, NEW c \in Conn, Growing(c),
         NEW R, NEW m \in Nat, logical[c] <= m, m <= MaxSize,
         NEW f, f = FileAfterResize(R, m, file_size)
  PROVE  /\ f \in Nat /\ m <= f /\ (SmallFiles \/ MaxSize <= f)
         /\ Truncated(disk, f) \in [Addr -> Object]
         /\ Fits(Truncated(disk, f), f)
         /\ EndsBelow(Truncated(disk, f), End)
         /\ \A x \in Addr : x < End => Truncated(disk, f)[x] = disk[x]
         /\ \A x \in Addr : x + disk[x].bytes <= m
                              => Truncated(disk, f)[x] = disk[x]
         /\ End <= logical[c] /\ logical[c] \in Nat
<1>1. /\ disk \in [Addr -> Object] /\ file_size \in Nat
      /\ logical[c] \in Nat /\ txn[c].size \in Nat
      /\ logical[c] = End + txn[c].size
  <2>1. TypeOK /\ SizeInv(c)
    BY DEF StoreInvariant, ConnInv
  <2> QED BY <2>1, SizeFacts, Zenon DEF TypeOK, Transaction, SizeInv
<1>2. /\ SmallFiles \/ MaxSize <= file_size
      /\ \A x \in Addr : x + disk[x].bytes <= MaxSize
      /\ EndsBelow(disk, End)
  BY DEF StoreInvariant, FileInv, HistoryInv
<1>3. End \in Nat /\ End <= m /\ 0 < m /\ End <= logical[c]
  BY <1>1, EndFacts
<1>4. /\ f \in Nat /\ m <= f /\ (SmallFiles \/ MaxSize <= f)
      /\ Truncated(disk, f) \in [Addr -> Object]
      /\ Fits(Truncated(disk, f), f)
      /\ \A x \in Addr : x + disk[x].bytes <= m
                           => Truncated(disk, f)[x] = disk[x]
      /\ End <= f
  <2>1. f \in Nat /\ m <= f /\ (SmallFiles \/ MaxSize <= f) /\ End <= f
    BY <1>1, <1>2, <1>3, SizeAfterResize
  <2> QED BY <1>1, <1>2, <2>1, ResizeFacts
<1>5. /\ EndsBelow(Truncated(disk, f), End)
      /\ \A x \in Addr : x < End => Truncated(disk, f)[x] = disk[x]
  BY <1>1, <1>2, <1>3, <1>4, ResizeFacts
<1> QED BY <1>1, <1>3, <1>4, <1>5, Zenon

(* allocate() grows the store behind what is committed.                    *)
LEMMA AllocateStep ==
  ASSUME SafeUse, StoreInvariant, NEW c \in Conn, NEW n \in AllocSizes,
         Allocate(c, n, 1)
  PROVE  StoreInvariant' /\ \A x \in Addr : x < End => disk'[x] = disk[x]
<1> DEFINE a == Placed(logical[c], 1)
           m == a + n
<1>1. Live(c) /\ Growing(c) /\ m <= MaxSize
  BY DEF Allocate, SafeUse, Growing, Live
<1>2. /\ UNCHANGED <<footer_pos, tlock, state, fpos, cache, pend, hist, intent>>
      /\ regions' = [regions EXCEPT ![c] = map_bytes(regions[c], m)]
      /\ file_size' = FileAfterResize(regions[c], m, file_size)
      /\ disk' = Truncated(disk, file_size')
      /\ logical' = [logical EXCEPT ![c] = m]
      /\ txn' = [txn EXCEPT ![c] = Grown(txn[c], a, logical[c], m)]
  BY DEF Allocate, SafeUse
<1>3. TypeOK /\ logical[c] \in Nat /\ n \in Nat /\ 0 < n
  <2>1. TypeOK /\ logical[c] \in Addr
    BY DEF StoreInvariant, TypeOK
  <2>2. n \in Nat \ {0}
    BY ConstantsAssumption
  <2>3. n \in Nat /\ 0 < n
    BY <2>2
  <2> QED BY <2>1, <2>3, SizeFacts, Zenon
<1>4. a \in Nat /\ logical[c] <= a
  <2>1. 1 \in Nat /\ 1 > 0
    OBVIOUS
  <2> QED BY <1>3, <2>1, PlacedFacts, Zenon
<1> HIDE DEF a
<1>5. m \in Nat /\ a < m /\ logical[c] <= m
  BY <1>3, <1>4
<1> HIDE DEF m
<1>6. /\ file_size' \in Nat /\ (SmallFiles \/ MaxSize <= file_size')
      /\ disk' \in [Addr -> Object] /\ Fits(disk', file_size')
      /\ EndsBelow(disk', End)
      /\ \A x \in Addr : x < End => disk'[x] = disk[x]
      /\ \A x \in Addr : x + disk[x].bytes <= m => disk'[x] = disk[x]
  <2>1. /\ Growing(c) /\ m <= MaxSize
        /\ file_size' = FileAfterResize(regions[c], m, file_size)
        /\ disk' = Truncated(disk, file_size')
    BY <1>1, <1>2
  <2> QED BY <1>5, <2>1, RoomFacts
<1>7. \A x \in Addr : x < logical[c] /\ x + disk[x].bytes <= logical[c]
                        => disk'[x] = disk[x]
  <2>1. \A x \in Addr : x + disk[x].bytes <= logical[c]
                           => x + disk[x].bytes <= m
    BY <1>3, <1>5, EndsWithin DEF TypeOK
  <2> QED BY <1>6, <2>1, Zenon
<1>8. logical'[c] = m /\ txn'[c].phase = "live"
  BY <1>1, <1>2, <1>3 DEF TypeOK, Grown, Transaction, Live
<1>9. CacheInv(c)'
  BY <1>1, <1>2, <1>5, <1>6, <1>7, <1>8, CacheKept, Zenon
<1>10. intent' \in [Conn -> [Key -> MaybeVal]] /\ cache' \in [Conn -> Index]
  BY <1>2, <1>3 DEF TypeOK
<1> QED BY <1>1, <1>2, <1>4, <1>5, <1>6, <1>9, <1>10, GrowStep, Zenon

(* A leaf appended to the store and entered in the index: the index reads  *)
(* as before, with the new value for the key.                              *)
LEMMA ReadsInserted ==
  ASSUME NEW d \in [Addr -> Object], NEW m \in [Key -> Addr],
         NEW w \in [Key -> MaybeVal], NEW n \in Nat, Reads(d, m, w, n),
         NEW k \in Key, NEW v \in Val, NEW a \in Addr, a # Null,
         a + LeafSize <= n, d[a] = LeafOf(k, v)
  PROVE  Reads(d, [m EXCEPT ![k] = a], [w EXCEPT ![k] = v], n)
BY DEF Reads

(* An insertion appends its leaf; the index in memory reads as intended.   *)
LEMMA InsertStep ==
  ASSUME SafeUse, StoreInvariant, NEW c \in Conn, NEW k \in Key, NEW v \in Val,
         Insert(c, k, v)
  PROVE  StoreInvariant' /\ \A x \in Addr : x < End => disk'[x] = disk[x]
<1> DEFINE index == get_index(c, TRUE)
           a == Placed(logical[c], 1)
           m == a + LeafSize
           leaf == LeafOf(k, v)
           d == Truncated(disk, file_size')
           index2 == [index EXCEPT !.map[k] = a, !.heap = TRUE]
<1>1. Live(c) /\ Growing(c) /\ m <= MaxSize
  BY DEF Insert, Growing, Live
<1>2. /\ UNCHANGED <<footer_pos, tlock, state, fpos, pend, hist>>
      /\ regions' = [regions EXCEPT ![c] = map_bytes(regions[c], m)]
      /\ file_size' = FileAfterResize(regions[c], m, file_size)
      /\ disk' = Write(d, a, leaf)
      /\ logical' = [logical EXCEPT ![c] = m]
      /\ txn' = [txn EXCEPT ![c] = Grown(txn[c], a, logical[c], m)]
      /\ cache' = [cache EXCEPT ![c] = index2]
      /\ intent' = [intent EXCEPT ![c][k] = v]
  BY DEF Insert, LeafOf
<1>3. TypeOK /\ logical[c] \in Nat /\ HistoryInv /\ ConnInv(c)
  <2>1. TypeOK /\ logical[c] \in Addr /\ HistoryInv /\ ConnInv(c)
    BY DEF StoreInvariant, TypeOK
  <2> QED BY <2>1, SizeFacts, Zenon
<1>4. a \in Nat /\ logical[c] <= a
  <2>1. 1 \in Nat /\ 1 > 0
    OBVIOUS
  <2> QED BY <1>3, <2>1, PlacedFacts
<1>5. /\ index \in Index /\ index.loaded
      /\ index.revision = get_current_revision(c)
      /\ Reads(disk, index.map, intent[c], logical[c])
  BY <1>1, IndexReads, Zenon
<1> HIDE DEF a, index
<1>6. m \in Nat /\ a < m /\ logical[c] <= m /\ a \in Addr
  BY <1>1, <1>3, <1>4, SizeFacts DEF Addr
<1>7. leaf \in Object /\ leaf.bytes = LeafSize /\ leaf.bytes > 0
  BY SizeFacts DEF LeafOf, Object, Leaf
<1> HIDE DEF leaf
<1>8. /\ file_size' \in Nat /\ (SmallFiles \/ MaxSize <= file_size')
      /\ m <= file_size'
      /\ d \in [Addr -> Object] /\ Fits(d, file_size') /\ EndsBelow(d, End)
      /\ \A x \in Addr : x < End => d[x] = disk[x]
      /\ \A x \in Addr : x + disk[x].bytes <= m => d[x] = disk[x]
      /\ End <= logical[c]
  BY <1>1, <1>2, <1>6, RoomFacts
<1> HIDE DEF d
<1>9. End \in Nat /\ End <= a /\ 0 < End
  BY <1>3, <1>4, <1>8, EndFacts
<1>10. /\ disk' \in [Addr -> Object] /\ Fits(disk', file_size')
       /\ EndsBelow(disk', End)
       /\ \A x \in Addr : x < End => disk'[x] = disk[x]
       /\ disk'[a] = leaf
  <2>1. disk' \in [Addr -> Object] /\ disk'[a] = leaf
    BY <1>2, <1>6, <1>7, <1>8, WriteFacts
  <2>2. EndsBelow(disk', End) /\ \A x \in Addr : x < End => disk'[x] = d[x]
    BY <1>2, <1>6, <1>7, <1>8, <1>9, WriteFacts
  <2>3. Fits(disk', file_size')
    BY <1>1, <1>2, <1>6, <1>7, <1>8, WriteFits
  <2> QED BY <1>8, <2>1, <2>2, <2>3, Zenon
<1>11. \A x \in Addr : x < logical[c] /\ x + disk[x].bytes <= logical[c]
                         => disk'[x] = disk[x]
  <2>1. \A x \in Addr : x < a /\ x + d[x].bytes <= a => disk'[x] = d[x]
    BY <1>2, <1>6, <1>7, <1>8, WriteFacts
  <2>2. \A x \in Addr : x + disk[x].bytes <= logical[c]
                           => x + disk[x].bytes <= m /\ x + disk[x].bytes <= a
    BY <1>3, <1>4, <1>6, EndsWithin, Zenon DEF TypeOK
  <2> SUFFICES ASSUME NEW x \in Addr, x < logical[c],
                      x + disk[x].bytes <= logical[c]
               PROVE  disk'[x] = disk[x]
    OBVIOUS
  <2>3. x < a
    BY <1>3, <1>4, SizeFacts
  <2>4. d[x] = disk[x]
    BY <1>8, <2>2
  <2> QED BY <2>1, <2>2, <2>3, <2>4, Zenon
<1>12. /\ index2 \in Index /\ index2.loaded /\ index2.heap
       /\ index2.revision = get_current_revision(c)
       /\ index2.map = [index.map EXCEPT ![k] = a]
  BY <1>5, <1>6, Zenon DEF Index
<1>13. Reads(disk', [index.map EXCEPT ![k] = a], [intent[c] EXCEPT ![k] = v], m)
  <2>1. /\ index.map \in [Key -> Addr] /\ intent[c] \in [Key -> MaybeVal]
        /\ disk \in [Addr -> Object]
    BY <1>3, <1>5 DEF TypeOK, Index
  <2>2. Reads(disk', index.map, intent[c], logical[c])
    BY <1>3, <1>5, <1>10, <1>11, <2>1, ReadsKept, Zenon
  <2>3. Reads(disk', index.map, intent[c], m)
    BY <1>3, <1>6, <1>10, <2>1, <2>2, ReadsWider, Zenon
  <2>4. a # Null /\ m <= m
    BY <1>4, <1>6, <1>9 DEF Null
  <2>5. disk'[a] = LeafOf(k, v)
    BY <1>10 DEF leaf
  <2> QED BY <1>6, <1>10, <2>1, <2>3, <2>4, <2>5, ReadsInserted, Zenon
<1>14. /\ logical'[c] = m /\ cache'[c] = index2
       /\ intent'[c] = [intent[c] EXCEPT ![k] = v]
       /\ txn'[c].phase = "live" /\ pend[c].phase = "none" /\ state[c] = "open"
  BY <1>1, <1>2, <1>3 DEF TypeOK, Grown, Transaction, Live, Idle
<1>15. get_current_revision(c)' = get_current_revision(c)
  <2>1. fpos[c] = footer_pos /\ footer_pos \in Addr /\ footer_pos < End
    <3>1. fpos[c] = footer_pos
      BY <1>1, <1>3, Zenon DEF ConnInv, SizeInv, Live
    <3> QED BY <3>1, EndFacts
  <2> QED BY <1>2, <1>10, <2>1 DEF get_current_revision
<1> HIDE DEF index2
<1>16. CacheInv(c)'
  BY <1>2, <1>12, <1>13, <1>14, <1>15, ZenonT(30) DEF CacheInv
<1>17. /\ intent' \in [Conn -> [Key -> MaybeVal]] /\ cache' \in [Conn -> Index]
       /\ \A c2 \in Conn \ {c} :
            cache'[c2] = cache[c2] /\ intent'[c2] = intent[c2]
  <2>1. [intent[c] EXCEPT ![k] = v] \in [Key -> MaybeVal]
    BY <1>3 DEF TypeOK, MaybeVal
  <2> QED BY <1>2, <1>3, <1>12, <2>1, Zenon DEF TypeOK
<1> HIDE DEF m
<1> QED BY <1>1, <1>2, <1>4, <1>6, <1>8, <1>10, <1>16, <1>17, GrowStep, Zenon
----------------------------------------------------------------------------
(* What writing to the file, and cutting it, keeps.                        *)

(* Everything that lies below n in d is also in d2.                        *)
Keeps(d, d2, n) ==
  \A x \in Addr : x < n /\ x + d[x].bytes <= n => d2[x] = d[x]

(* d2 has the committed part of d, which ends at e.                        *)
SameBelow(d, d2, e) ==
  EndsBelow(d2, e) /\ \A x \in Addr : x < e => d2[x] = d[x]

(* What writing an object at a, in a file large enough for it, keeps.      *)
LEMMA WriteStep ==
  ASSUME NEW d \in [Addr -> Object], NEW f \in Nat, Fits(d, f),
         NEW a \in Addr, NEW o \in Object, o.bytes > 0,
         a + o.bytes <= f, a + o.bytes <= MaxSize,
         NEW n \in Nat, n <= a, NEW e \in Nat, e <= a, EndsBelow(d, e)
  PROVE  /\ Write(d, a, o) \in [Addr -> Object]
         /\ Fits(Write(d, a, o), f)
         /\ Write(d, a, o)[a] = o
         /\ Keeps(d, Write(d, a, o), n)
         /\ SameBelow(d, Write(d, a, o), e)
         /\ EndsBelow(Write(d, a, o), a + o.bytes)
<1>1. /\ Write(d, a, o) \in [Addr -> Object]
      /\ Write(d, a, o)[a] = o
      /\ EndsBelow(Write(d, a, o), a + o.bytes)
  BY WriteFacts
<1>2. SameBelow(d, Write(d, a, o), e)
  BY WriteFacts DEF SameBelow
<1>3. Fits(Write(d, a, o), f)
  BY WriteFits
<1>4. Keeps(d, Write(d, a, o), n)
  <2> SUFFICES ASSUME NEW x \in Addr, x < n, x + d[x].bytes <= n
               PROVE  Write(d, a, o)[x] = d[x]
    BY DEF Keeps
  <2>1. x \in Nat /\ a \in Nat /\ d[x].bytes \in Nat
    BY SizeFacts, ObjectBytes
  <2>2. x < a /\ x + d[x].bytes <= a
    BY <2>1
  <2> QED BY <2>2, WriteFacts
<1> QED BY <1>1, <1>2, <1>3, <1>4, Zenon

(* What giving the file the size f keeps.                                  *)
LEMMA TruncateStep ==
  ASSUME NEW d \in [Addr -> Object], \A x \in Addr : x + d[x].bytes <= MaxSize,
         NEW f \in Nat, NEW n \in Nat, n <= f,
         NEW e \in Nat, e <= f, EndsBelow(d, e)
  PROVE  /\ Truncated(d, f) \in [Addr -> Object]
         /\ Fits(Truncated(d, f), f)
         /\ Keeps(d, Truncated(d, f), n)
         /\ SameBelow(d, Truncated(d, f), e)
         /\ \A x \in Addr : x + d[x].bytes <= f => Truncated(d, f)[x] = d[x]
<1>1. /\ Truncated(d, f) \in [Addr -> Object] /\ Fits(Truncated(d, f), f)
      /\ \A x \in Addr : x + d[x].bytes <= n => Truncated(d, f)[x] = d[x]
      /\ \A x \in Addr : x + d[x].bytes <= f => Truncated(d, f)[x] = d[x]
  BY ResizeFacts
<1>2. SameBelow(d, Truncated(d, f), e)
  BY ResizeFacts DEF SameBelow
<1> QED BY <1>1, <1>2 DEF Keeps

(* The two kinds of keeping compose.                                       *)
LEMMA KeepTwice ==
  ASSUME NEW d, NEW d2, NEW d3, NEW n, NEW e
  PROVE  /\ Keeps(d, d2, n) /\ Keeps(d2, d3, n) => Keeps(d, d3, n)
         /\ SameBelow(d, d2, e) /\ SameBelow(d2, d3, e) => SameBelow(d, d3, e)
BY Zenon DEF Keeps, SameBelow

(* The index that commit flushes: the one the transaction works on, unless *)
(* there is none, and then nothing has been stored.                        *)
LEMMA CommittedIndex ==
  ASSUME StoreInvariant, NEW c \in Conn, Growing(c)
  PROVE  /\ get_index(c, FALSE) \in Index
         /\ get_index(c, FALSE).loaded
              => /\ get_index(c, FALSE).revision = get_current_revision(c)
                 /\ Reads(disk, get_index(c, FALSE).map, intent[c], logical[c])
         /\ ~get_index(c, FALSE).loaded
              => /\ ~cache[c].loaded /\ intent[c] = Empty
                 /\ disk[footer_pos].index_record = Null
<1>1. TypeOK /\ HistoryInv /\ ConnInv(c)
  BY DEF StoreInvariant
<1>2. fpos[c] = footer_pos
  BY <1>1, Zenon DEF ConnInv, SizeInv, Growing
<1>3. CASE cache[c].loaded \/ disk[fpos[c]].index_record # Null
  <2>1. get_index(c, FALSE) = get_index(c, TRUE)
    BY <1>3, Zenon DEF get_index
  <2> QED BY <2>1, IndexReads, Zenon
<1>4. CASE ~(cache[c].loaded \/ disk[fpos[c]].index_record # Null)
  <2>1. get_index(c, FALSE) = NoIndex
    BY <1>4, Zenon DEF get_index
  <2>2. NoIndex \in Index /\ ~NoIndex.loaded
    BY SizeFacts DEF NoIndex, Index, Generation, Addr, Null
  <2>3. intent[c] = hist[Len(hist)].map
    BY <1>1, <1>4, Zenon DEF ConnInv, CacheInv
  <2>4. /\ footer_pos = hist[Len(hist)].pos /\ Len(hist) \in DOMAIN hist
        /\ Stored(disk, footer_pos, hist[Len(hist)].map)
    <3>1. footer_pos = hist[Len(hist)].pos /\ Len(hist) \in DOMAIN hist
      BY <1>1, HeadFacts, Zenon DEF HistoryInv
    <3> QED BY <1>1, <3>1, Zenon DEF HistoryInv
  <2>5. intent[c] = Empty
    BY <1>2, <1>4, <2>3, <2>4, Zenon DEF Stored
  <2> QED BY <1>2, <1>4, <2>1, <2>2, <2>5, Zenon
<1> QED BY <1>3, <1>4, Zenon

(* The file after commit has written an index block at a.                  *)
LEMMA FlushFile ==
  ASSUME StoreInvariant, NEW c \in Conn, Growing(c),
         NEW a \in Addr, logical[c] <= a, a + HeaderBlockSize <= MaxSize,
         NEW block \in HeaderBlock, NEW f \in Nat, a + HeaderBlockSize <= f
  PROVE  /\ Write(Truncated(disk, f), a, block) \in [Addr -> Object]
         /\ Fits(Write(Truncated(disk, f), a, block), f)
         /\ Write(Truncated(disk, f), a, block)[a] = block
         /\ Keeps(disk, Write(Truncated(disk, f), a, block), logical[c])
         /\ SameBelow(disk, Write(Truncated(disk, f), a, block), End)
<1> DEFINE L == logical[c]
           d == Truncated(disk, f)
<1>1. /\ disk \in [Addr -> Object] /\ L \in Nat /\ EndsBelow(disk, End)
      /\ \A x \in Addr : x + disk[x].bytes <= MaxSize
  BY SizeFacts, Zenon DEF StoreInvariant, TypeOK, FileInv, HistoryInv
<1>2. End \in Nat /\ End <= L /\ a \in Nat
  <2>1. L = End + txn[c].size /\ txn[c].size \in Nat
    BY Zenon DEF StoreInvariant, ConnInv, SizeInv, TypeOK, Transaction
  <2> QED BY <1>1, <2>1, EndFacts, SizeFacts
<1>3. block \in Object /\ block.bytes = HeaderBlockSize /\ block.bytes > 0
  BY SizeFacts DEF Object, HeaderBlock
<1>4. L <= f /\ End <= f /\ End <= a
  BY <1>1, <1>2, SizeFacts
<1>5. /\ d \in [Addr -> Object] /\ Fits(d, f)
      /\ Keeps(disk, d, L) /\ SameBelow(disk, d, End)
  BY <1>1, <1>2, <1>4, TruncateStep, Zenon
<1>6. EndsBelow(d, End)
  BY <1>5 DEF SameBelow
<1> HIDE DEF d
<1>7. /\ Write(d, a, block) \in [Addr -> Object]
      /\ Fits(Write(d, a, block), f) /\ Write(d, a, block)[a] = block
      /\ Keeps(d, Write(d, a, block), L)
      /\ SameBelow(d, Write(d, a, block), End)
  <2>1. /\ d \in [Addr -> Object] /\ f \in Nat /\ Fits(d, f) /\ a \in Addr
        /\ block \in Object /\ block.bytes > 0 /\ a + block.bytes <= f
        /\ a + block.bytes <= MaxSize /\ L \in Nat /\ L <= a
        /\ End \in Nat /\ End <= a /\ EndsBelow(d, End)
    BY <1>1, <1>2, <1>3, <1>4, <1>5, <1>6, Zenon
  <2> HIDE DEF L
  <2> QED BY ONLY <2>1, WriteStep, SMTT(20)
<1>8. /\ Keeps(disk, Write(d, a, block), L)
      /\ SameBelow(disk, Write(d, a, block), End)
  BY <1>5, <1>7, KeepTwice, Zenon
<1> QED BY <1>7, <1>8, Zenon DEF d

(* A transaction that grows from l to m counts every byte in between.      *)
LEMMA GrownSize ==
  ASSUME NEW t \in Transaction, NEW a, NEW l, NEW m
  PROVE  Grown(t, a, l, m).size = t.size + (m - l)
BY DEF Grown, Transaction

(* A trailer is a record of its fields.                                    *)
LEMMA TrailerRecord ==
  ASSUME NEW g \in Generation, NEW s \in Nat, NEW q \in Addr, NEW r \in Addr
  PROVE  [kind |-> "trailer", bytes |-> TrailerSize, generation |-> g,
          size |-> s, prev_generation |-> q, index_record |-> r] \in Trailer
BY DEF Trailer

(* The file after commit has written the trailer t at p.                   *)
LEMMA TrailerFile ==
  ASSUME NEW d \in [Addr -> Object], \A x \in Addr : x + d[x].bytes <= MaxSize,
         NEW n \in Nat, NEW e \in Nat, EndsBelow(d, e),
         NEW p \in Addr, n <= p, e <= p, p + TrailerSize <= MaxSize,
         NEW t \in Trailer, NEW f \in Nat, p + TrailerSize <= f
  PROVE  /\ Write(Truncated(d, f), p, t) \in [Addr -> Object]
         /\ Fits(Write(Truncated(d, f), p, t), f)
         /\ Write(Truncated(d, f), p, t)[p] = t
         /\ Keeps(d, Write(Truncated(d, f), p, t), n)
         /\ SameBelow(d, Write(Truncated(d, f), p, t), e)
         /\ EndsBelow(Write(Truncated(d, f), p, t), p + TrailerSize)
<1> DEFINE d1 == Truncated(d, f)
<1>1. t \in Object /\ t.bytes = TrailerSize /\ t.bytes > 0 /\ p \in Nat
  BY SizeFacts DEF Object, Trailer
<1>2. n <= f /\ e <= f
  BY <1>1, SizeFacts
<1>3. /\ d1 \in [Addr -> Object] /\ Fits(d1, f)
      /\ Keeps(d, d1, n) /\ SameBelow(d, d1, e)
  BY <1>2, TruncateStep
<1>4. EndsBelow(d1, e)
  BY <1>3 DEF SameBelow
<1> HIDE DEF d1
<1>5. /\ Write(d1, p, t) \in [Addr -> Object]
      /\ Fits(Write(d1, p, t), f) /\ Write(d1, p, t)[p] = t
      /\ Keeps(d1, Write(d1, p, t), n) /\ SameBelow(d1, Write(d1, p, t), e)
      /\ EndsBelow(Write(d1, p, t), p + TrailerSize)
  BY <1>1, <1>3, <1>4, WriteStep
<1>6. Keeps(d, Write(d1, p, t), n) /\ SameBelow(d, Write(d1, p, t), e)
  BY <1>3, <1>5, KeepTwice, Zenon
<1> QED BY <1>5, <1>6, Zenon DEF d1

(* An index handle is determined by its four fields.                       *)
LEMMA IndexEqual ==
  ASSUME NEW x \in Index, NEW y \in Index, x.loaded = y.loaded,
         x.revision = y.revision, x.heap = y.heap, x.map = y.map
  PROVE  x = y
BY DEF Index

(* The handle of an index that flush has given the generation g.           *)
LEMMA FlushedIndex ==
  ASSUME NEW x \in Index, x.loaded, NEW g \in Generation
  PROVE  /\ [x EXCEPT !.revision = g, !.heap = FALSE] \in Index
         /\ [x EXCEPT !.revision = g, !.heap = FALSE] =
              [loaded |-> TRUE, revision |-> g, heap |-> FALSE, map |-> x.map]
<1> DEFINE y == [x EXCEPT !.revision = g, !.heap = FALSE]
           z == [loaded |-> TRUE, revision |-> g, heap |-> FALSE, map |-> x.map]
<1>1. y \in Index
  BY Zenon DEF Index
<1>2. z \in Index
  BY DEF Index
<1>3. y.revision = g /\ y.map = x.map /\ z.revision = g /\ z.map = x.map
  BY DEF Index
<1>4. y.heap = FALSE /\ z.heap = FALSE
  BY DEF Index
<1>5. x.loaded = TRUE
  BY DEF Index
<1>6. y.loaded = x.loaded
  BY Zenon DEF Index
<1>7. z.loaded = TRUE
  OBVIOUS
<1> HIDE DEF y, z
<1>8. y = z
  BY <1>1, <1>2, <1>3, <1>4, <1>5, <1>6, <1>7, IndexEqual, Zenon
<1> QED BY <1>1, <1>8 DEF y, z
----------------------------------------------------------------------------
(* Undoing a transaction.                                                  *)

(* Undoing a transaction takes the connection back to the committed end    *)
(* and leaves everything before it as it is.                               *)
LEMMA UndoFacts ==
  ASSUME SafeUse, StoreInvariant, NEW c \in Conn, Live(c), Undo(c)
  PROVE  /\ disk' \in [Addr -> Object] /\ SameBelow(disk, disk', End)
         /\ file_size' \in Nat /\ (SmallFiles \/ MaxSize <= file_size')
         /\ Fits(disk', file_size')
         /\ regions' \in [Conn -> SUBSET Nat]
         /\ \A c2 \in Conn \ {c} : logical'[c2] = logical[c2]
         /\ logical' \in [Conn -> Addr] /\ logical'[c] = End
<1>1. /\ TypeOK /\ ConnInv(c) /\ txn[c].phase = "live"
      /\ disk \in [Addr -> Object] /\ Fits(disk, file_size)
      /\ EndsBelow(disk, End) /\ (SmallFiles \/ MaxSize <= file_size)
      /\ \A x \in Addr : x + disk[x].bytes <= MaxSize
      /\ file_size \in Nat
  BY Zenon DEF Live, StoreInvariant, TypeOK, HistoryInv, FileInv, Fits
<1>2. End \in Nat /\ 0 < End /\ End \in Addr /\ End <= MaxSize
  BY EndFacts
<1>3. CASE txn[c].first # Null /\ logical[c] > txn[c].dbsize
  <2>1. txn[c].dbsize = End
    BY <1>1, <1>3, Zenon DEF ConnInv, SizeInv, Growing
  <2>2. /\ regions' = [regions EXCEPT ![c] = map_bytes(regions[c], End)]
        /\ file_size' = FileAfterResize(regions[c], End, file_size)
        /\ disk' = Truncated(disk, file_size')
        /\ logical' = [logical EXCEPT ![c] = End]
    BY <1>3, <2>1, Zenon DEF Undo
  <2>3. /\ file_size' \in Nat /\ End <= file_size'
        /\ SmallFiles \/ MaxSize <= file_size'
    BY <1>1, <1>2, <2>2, SizeAfterResize, Zenon
  <2>4. /\ disk' \in [Addr -> Object] /\ Fits(disk', file_size')
        /\ SameBelow(disk, disk', End)
    BY <1>1, <1>2, <2>2, <2>3, TruncateStep, Zenon
  <2>5. regions' \in [Conn -> SUBSET Nat]
    BY <1>1, <1>2, <2>2, RegionFacts, Zenon DEF TypeOK
  <2>6. logical' \in [Conn -> Addr] /\ logical'[c] = End
        /\ \A c2 \in Conn \ {c} : logical'[c2] = logical[c2]
    BY <1>1, <1>2, <2>2, Zenon DEF TypeOK
  <2> QED BY <2>3, <2>4, <2>5, <2>6, Zenon
<1>4. CASE ~(txn[c].first # Null /\ logical[c] > txn[c].dbsize)
  <2>1. UNCHANGED <<disk, file_size, regions, logical>>
    BY <1>4, Zenon DEF Undo
  <2>2. logical[c] = End
    <3>1. txn[c].size \in Nat
      BY <1>1 DEF TypeOK, Transaction
    <3>2. CASE Growing(c)
      <4>1. /\ txn[c].dbsize = End /\ logical[c] = End + txn[c].size
            /\ txn[c].first # Null => txn[c].size # 0
            /\ txn[c].first = Null => txn[c].size = 0
        BY <1>1, <3>2, Zenon DEF ConnInv, SizeInv, Growing
      <4> QED BY <1>2, <1>4, <3>1, <4>1
    <3>3. CASE ~Growing(c)
      BY <1>1, <3>3, Zenon DEF ConnInv, SizeInv
    <3> QED BY <3>2, <3>3
  <2> QED BY <1>1, <2>1, <2>2, Zenon DEF SameBelow, TypeOK
<1> QED BY <1>3, <1>4, Zenon

(* The transaction object of c is gone, or can no longer change the store. *)
Over(c) ==
  \/ txn'[c].phase = "none"
  \/ /\ txn'[c].phase = "live" /\ txn'[c].first = Null /\ txn'[c].size # 0
     /\ tlock' = ProcOf[c]

(* A step that undoes the transaction of c, whether the transaction object *)
(* stays (rollback) or goes (its destructor).                              *)
LEMMA UndoStep ==
  ASSUME SafeUse, StoreInvariant, NEW c \in Conn, Live(c), Undo(c),
         UNCHANGED <<footer_pos, state, fpos, cache, pend, hist>>,
         txn' \in [Conn -> Transaction],
         \A c2 \in Conn \ {c} : txn'[c2] = txn[c2],
         tlock' \in Process \cup {NoProc}, Over(c)
  PROVE  StoreInvariant' /\ \A x \in Addr : x < End => disk'[x] = disk[x]
<1>1. TypeOK /\ HistoryInv /\ ConnInv(c)
  BY DEF StoreInvariant
<1>2. /\ state[c] = "open" /\ pend[c].phase = "none" /\ txn[c].phase = "live"
      /\ fpos[c] = footer_pos /\ tlock = ProcOf[c]
  BY <1>1, Zenon DEF Live, Idle, ConnInv, SizeInv, LockInv
<1>3. /\ disk' \in [Addr -> Object] /\ SameBelow(disk, disk', End)
      /\ file_size' \in Nat /\ (SmallFiles \/ MaxSize <= file_size')
      /\ Fits(disk', file_size') /\ regions' \in [Conn -> SUBSET Nat]
      /\ \A c2 \in Conn \ {c} : logical'[c2] = logical[c2]
      /\ logical' \in [Conn -> Addr] /\ logical'[c] = End
  BY UndoFacts, Zenon
<1>4. EndsBelow(disk', End) /\ \A x \in Addr : x < End => disk'[x] = disk[x]
  BY <1>3, Zenon DEF SameBelow
<1>5. intent' = [intent EXCEPT ![c] = Empty]
  BY Zenon DEF Undo
<1>6. TypeOK'
  <2>1. intent' \in [Conn -> [Key -> MaybeVal]]
    BY <1>1, <1>5, Zenon DEF TypeOK, Empty, MaybeVal
  <2> QED BY <1>1, <1>3, <2>1, Zenon DEF TypeOK
<1>7. FileInv'
  BY <1>3, Zenon DEF FileInv, Fits
<1>8. LockInv(c)'
  BY <1>2, Zenon DEF LockInv, Over
<1>9. SyncInv(c)'
  BY <1>1, <1>2, Zenon DEF ConnInv, SyncInv, InHist, Over
<1>10. SizeInv(c)'
  <2>1. End' = End /\ End <= End /\ fpos[c] + TrailerSize <= End
    <3>1. End' = End
      BY DEF End
    <3>2. End \in Nat /\ End = footer_pos + TrailerSize
      BY EndFacts
    <3>3. fpos[c] + TrailerSize = End
      BY <1>2, <3>2, Zenon
    <3>4. End <= End
      BY <3>2
    <3> QED BY <3>1, <3>3, <3>4, Zenon
  <2> QED BY <1>2, <1>3, <2>1, Zenon DEF SizeInv, Growing, Over
<1>11. CacheInv(c)'
  <2>1. Len(hist) \in DOMAIN hist /\ hist[Len(hist)].pos = footer_pos
    BY <1>1, HeadFacts, Zenon DEF HistoryInv
  <2>2. /\ disk'[fpos[c]] = disk[fpos[c]]
        /\ IndexMap(disk', fpos[c]) = IndexMap(disk, fpos[c])
    BY <1>1, <1>2, <1>3, <1>4, <2>1, HistoryFrame
  <2>3. get_current_revision(c)' = get_current_revision(c)
    BY <2>2, Zenon DEF get_current_revision
  <2> QED BY <1>1, <1>2, <2>2, <2>3, Zenon
             DEF ConnInv, CacheInv, Growing, Over
<1>12. CommitInv(c)'
  BY Zenon DEF CommitInv, Over
<1>13. \A c2 \in Conn \ {c} : Untouched(c2)
  BY <1>1, <1>3, <1>5, Zenon DEF Untouched, TypeOK
<1> QED BY <1>2, <1>4, <1>6, <1>7, <1>8, <1>9, <1>10, <1>11, <1>12, <1>13,
           StepFrame, Zenon DEF ConnInv

(* rollback() returns to the committed end.                                *)
LEMMA RollbackStep ==
  ASSUME SafeUse, StoreInvariant, NEW c \in Conn, Rollback(c)
  PROVE  StoreInvariant' /\ \A x \in Addr : x < End => disk'[x] = disk[x]
<1>1. /\ Live(c) /\ Undo(c) /\ txn[c].first # Null
      /\ txn' = [txn EXCEPT ![c].first = Null]
      /\ UNCHANGED <<footer_pos, tlock, state, fpos, cache, pend, hist>>
  BY DEF Rollback
<1>2. /\ txn \in [Conn -> Transaction] /\ tlock \in Process \cup {NoProc}
      /\ SizeInv(c) /\ LockInv(c) /\ txn[c] \in Transaction
      /\ txn[c].phase = "live"
  BY <1>1 DEF StoreInvariant, TypeOK, ConnInv, Live
<1>3. txn[c].size # 0 /\ tlock = ProcOf[c]
  BY <1>1, <1>2 DEF SizeInv, Growing, LockInv
<1>4. Null \in Addr
  BY SizeFacts DEF Null, Addr
<1>5. [txn[c] EXCEPT !.first = Null] \in Transaction
  BY <1>2, <1>4 DEF Transaction
<1>6. /\ txn'[c].phase = "live" /\ txn'[c].first = Null /\ txn'[c].size # 0
      /\ txn' \in [Conn -> Transaction]
      /\ \A c2 \in Conn \ {c} : txn'[c2] = txn[c2]
  <2> DEFINE t == [txn[c] EXCEPT !.first = Null]
  <2>1. t.phase = "live" /\ t.first = Null /\ t.size = txn[c].size
    BY <1>2 DEF Transaction
  <2>2. txn'[c] = t /\ \A c2 \in Conn \ {c} : txn'[c2] = txn[c2]
    BY <1>1, <1>2
  <2>3. txn' \in [Conn -> Transaction]
    BY <1>1, <1>2, <1>5
  <2> HIDE DEF t
  <2> QED BY <1>3, <2>1, <2>2, <2>3, Zenon
<1>7. Over(c)
  BY <1>1, <1>3, <1>6 DEF Over
<1> QED BY <1>1, <1>2, <1>6, <1>7, UndoStep, Zenon

(* The destructor of a transaction rolls back and frees the lock.          *)
LEMMA EndTransactionStep ==
  ASSUME SafeUse, StoreInvariant, NEW c \in Conn, EndTransaction(c)
  PROVE  StoreInvariant' /\ \A x \in Addr : x < End => disk'[x] = disk[x]
<1>1. /\ Live(c) /\ Undo(c) /\ txn' = [txn EXCEPT ![c] = NoTxn]
      /\ tlock' = IF tlock = ProcOf[c] THEN NoProc ELSE tlock
      /\ UNCHANGED <<footer_pos, state, fpos, cache, pend, hist>>
  BY DEF EndTransaction
<1>2. txn \in [Conn -> Transaction] /\ tlock \in Process \cup {NoProc}
  BY DEF StoreInvariant, TypeOK
<1>3. NoTxn \in Transaction /\ NoTxn.phase = "none"
  BY SizeFacts DEF NoTxn, Transaction, Addr, Null
<1>4. /\ txn'[c].phase = "none" /\ txn' \in [Conn -> Transaction]
      /\ \A c2 \in Conn \ {c} : txn'[c2] = txn[c2]
      /\ tlock' \in Process \cup {NoProc}
  BY <1>1, <1>2, <1>3, Zenon
<1>5. Over(c)
  BY <1>4, Zenon DEF Over
<1> QED BY <1>1, <1>4, <1>5, UndoStep, Zenon
----------------------------------------------------------------------------
(* The two steps of a commit.                                              *)

(* commit() leaves a complete trailer that nothing leads to yet.           *)
LEMMA CommitWriteStep ==
  ASSUME SafeUse, StoreInvariant, NEW c \in Conn, CommitWrite(c)
  PROVE  StoreInvariant' /\ \A x \in Addr : x < End => disk'[x] = disk[x]
<1> DEFINE L == logical[c]
           generation == disk[footer_pos].generation + 1
           index == get_index(c, FALSE)
           a == Placed(L, WordAlign)
           l == IF index.loaded THEN a + HeaderBlockSize ELSE L
           p == Placed(l, WordAlign)
           m == p + TrailerSize
           R == IF index.loaded THEN map_bytes(regions[c], l) ELSE regions[c]
           f == IF index.loaded THEN FileAfterResize(regions[c], l, file_size)
                ELSE file_size
           block == [kind |-> "index", bytes |-> HeaderBlockSize,
                     map |-> index.map]
           flushed == IF index.loaded
                      THEN Write(Truncated(disk, f), a, block)
                      ELSE Truncated(disk, f)
           i == IF index.loaded THEN a ELSE disk[footer_pos].index_record
           s == Grown(txn[c], a, L, m).size - TrailerSize
           t == [kind |-> "trailer", bytes |-> TrailerSize,
                 generation |-> generation, size |-> s,
                 prev_generation |-> footer_pos, index_record |-> i]
           x2 == [index EXCEPT !.revision = generation, !.heap = FALSE]
           t2 == [Grown(txn[c], a, L, m) EXCEPT !.phase = "commit",
                                                !.new_footer = p]
<1>1. /\ Live(c) /\ Growing(c)
      /\ generation <= MaxGeneration /\ m <= MaxSize
  BY Zenon DEF CommitWrite, Growing, Live
<1>2. /\ UNCHANGED <<footer_pos, tlock, state, fpos, pend, hist, intent>>
      /\ regions' = [regions EXCEPT ![c] = map_bytes(R, m)]
      /\ file_size' = FileAfterResize(R, m, f)
      /\ disk' = Write(Truncated(flushed, file_size'), p, t)
      /\ logical' = [logical EXCEPT ![c] = m]
      /\ cache' = IF index.loaded THEN [cache EXCEPT ![c] = x2] ELSE cache
      /\ txn' = [txn EXCEPT ![c] = t2]
  BY DEF CommitWrite
<1>3. TypeOK /\ HistoryInv /\ ConnInv(c)
  BY DEF StoreInvariant
<1>4. /\ L \in Nat /\ txn[c].size \in Nat /\ txn[c].dbsize = End
      /\ L = End + txn[c].size /\ fpos[c] = footer_pos /\ tlock = ProcOf[c]
      /\ state[c] = "open" /\ pend[c].phase = "none" /\ txn[c].phase = "live"
  <2>1. L \in Nat /\ txn[c].size \in Nat
    BY <1>3, SizeFacts, Zenon DEF TypeOK, Transaction
  <2>2. state[c] = "open" /\ pend[c].phase = "none" /\ txn[c].phase = "live"
    BY <1>1, Zenon DEF Live, Idle
  <2> QED BY <1>1, <1>3, <2>1, <2>2, Zenon DEF ConnInv, SizeInv, LockInv
<1>5. generation = Len(hist) /\ generation \in Generation /\ footer_pos \in Addr
  <2>1. generation = Len(hist) /\ Len(hist) \in Nat /\ footer_pos \in Addr
    BY <1>3, HeadFacts
  <2> QED BY <1>1, <2>1, SizeFacts DEF Generation
<1> HIDE DEF generation
<1>6. /\ End \in Nat /\ 0 < End /\ End = footer_pos + TrailerSize
      /\ MaxSize \in Nat /\ TrailerSize \in Nat /\ TrailerSize > 0
      /\ HeaderBlockSize \in Nat /\ HeaderBlockSize > 0
      /\ WordAlign \in Nat /\ WordAlign > 0 /\ footer_pos \in Nat
  BY <1>3, EndFacts, HeadFacts, SizeFacts, Zenon
<1>7. a \in Nat /\ L <= a
  BY <1>4, <1>6, PlacedFacts, Zenon
<1> HIDE DEF a, index
<1>8. l \in Nat /\ L <= l /\ (index.loaded => L <= a /\ l = a + HeaderBlockSize)
  BY <1>4, <1>6, <1>7
<1> HIDE DEF l
<1>9. p \in Nat /\ l <= p /\ p % WordAlign = 0
  BY <1>6, <1>8, PlacedFacts
<1> HIDE DEF p
<1>10. /\ p \in Addr /\ m \in Addr /\ m \in Nat /\ L < m /\ End <= p /\ L <= p
       /\ index.loaded => a \in Addr /\ a # Null /\ a + HeaderBlockSize <= p
  BY <1>1, <1>4, <1>6, <1>7, <1>8, <1>9 DEF Addr, Null
<1>11. /\ index \in Index
       /\ index.loaded => Reads(disk, index.map, intent[c], L)
       /\ ~index.loaded => /\ ~cache[c].loaded /\ intent[c] = Empty
                           /\ disk[footer_pos].index_record = Null
  BY <1>1, CommittedIndex, Zenon DEF index
<1>12. /\ block \in HeaderBlock /\ t \in Trailer
       /\ t.size = p - (footer_pos + TrailerSize)
  <2>1. block \in HeaderBlock
    BY <1>11, Zenon DEF HeaderBlock, Index
  <2>2. i \in Addr
    BY <1>6, <1>10, <1>11 DEF Addr, Null
  <2>3. txn[c].size + (m - L) - TrailerSize = p - (footer_pos + TrailerSize)
    BY <1>4, <1>6, <1>9
  <2>4. txn[c].size + (m - L) - TrailerSize \in Nat
    <3>1. /\ p \in Nat /\ End \in Nat /\ End <= p
          /\ End = footer_pos + TrailerSize
      BY <1>6, <1>9, <1>10, Zenon
    <3>2. p - End \in Nat
      BY ONLY <3>1, SMTT(20)
    <3> QED BY <2>3, <3>1, <3>2, Zenon
  <2> HIDE DEF i, m
  <2>5. s = p - (footer_pos + TrailerSize) /\ s \in Nat
    <3>1. txn[c] \in Transaction
      BY <1>3 DEF TypeOK
    <3>2. Grown(txn[c], a, L, m).size = txn[c].size + (m - L)
      BY <3>1, GrownSize
    <3>3. s = txn[c].size + (m - L) - TrailerSize
      <4>1. txn[c].size \in Nat /\ L \in Nat /\ m \in Nat /\ TrailerSize \in Nat
        BY <1>4, <1>6, <1>10, Zenon
      <4> QED BY ONLY <3>2, <4>1, SMTT(20)
    <3> HIDE DEF s
    <3> QED BY <2>3, <2>4, <3>3, Zenon
  <2> HIDE DEF s
  <2>6. t \in Trailer
    BY <1>5, <2>2, <2>5, TrailerRecord, Zenon
  <2>7. t.size = s
    OBVIOUS
  <2> HIDE DEF t, block
  <2> QED BY <2>1, <2>5, <2>6, <2>7
<1>13. /\ t.kind = "trailer" /\ t.generation = generation
       /\ t.prev_generation = footer_pos /\ t.index_record = i
       /\ block.kind = "index" /\ block.map = index.map
  BY Zenon
<1> HIDE DEF t, block
<1>14. /\ file_size' \in Nat /\ (SmallFiles \/ MaxSize <= file_size')
       /\ disk' \in [Addr -> Object] /\ Fits(disk', file_size')
       /\ disk'[p] = t /\ (index.loaded => disk'[a] = block)
       /\ Keeps(disk, disk', L) /\ SameBelow(disk, disk', End)
       /\ EndsBelow(disk', p + TrailerSize)
  <2>1. /\ disk \in [Addr -> Object] /\ file_size \in Nat
        /\ Fits(disk, file_size) /\ EndsBelow(disk, End)
        /\ SmallFiles \/ MaxSize <= file_size
        /\ \A x \in Addr : disk[x] = Free \/ x + disk[x].bytes <= file_size
    BY Zenon DEF StoreInvariant, TypeOK, FileInv, HistoryInv, Fits
  <2>2. /\ f \in Nat /\ (SmallFiles \/ MaxSize <= f)
        /\ flushed \in [Addr -> Object] /\ Fits(flushed, f)
        /\ Keeps(disk, flushed, L) /\ SameBelow(disk, flushed, End)
        /\ index.loaded => flushed[a] = block
    <3>1. CASE index.loaded
      <4>1. f = FileAfterResize(regions[c], l, file_size)
            /\ flushed = Write(Truncated(disk, f), a, block)
        BY <3>1
      <4>2. 0 < l /\ l <= MaxSize /\ l = a + HeaderBlockSize
        BY <1>1, <1>4, <1>6, <1>7, <1>8, <1>9, <3>1
      <4> HIDE DEF f, flushed
      <4>3. f \in Nat /\ l <= f /\ (SmallFiles \/ MaxSize <= f)
        BY <1>8, <2>1, <4>1, <4>2, SizeAfterResize, Zenon
      <4>4. a + HeaderBlockSize <= f /\ a + HeaderBlockSize <= MaxSize
            /\ a \in Addr
        BY <1>10, <3>1, <4>2, <4>3, Zenon
      <4>5. Growing(c) /\ logical[c] <= a /\ block \in HeaderBlock
        BY <1>1, <1>7, <1>12
      <4>6. /\ Write(Truncated(disk, f), a, block) \in [Addr -> Object]
            /\ Fits(Write(Truncated(disk, f), a, block), f)
            /\ Write(Truncated(disk, f), a, block)[a] = block
            /\ Keeps(disk, Write(Truncated(disk, f), a, block), logical[c])
            /\ SameBelow(disk, Write(Truncated(disk, f), a, block), End)
        BY <4>3, <4>4, <4>5, FlushFile, Zenon
      <4> QED BY <4>1, <4>3, <4>6, Zenon
    <3>2. CASE ~index.loaded
      <4>1. f = file_size /\ flushed = disk
        BY <2>1, <3>2, TruncatedFacts, Zenon
      <4> QED BY <2>1, <3>2, <4>1, Zenon DEF Keeps, SameBelow
    <3> QED BY <3>1, <3>2, Zenon
  <2> HIDE DEF f, flushed, R
  <2>3. /\ file_size' \in Nat /\ m <= file_size'
        /\ SmallFiles \/ MaxSize <= file_size'
    <3>1. m \in Nat /\ 0 < m /\ m <= MaxSize
      BY <1>1, <1>4, <1>10
    <3> HIDE DEF m
    <3> QED BY <1>2, <2>2, <3>1, SizeAfterResize, Zenon
  <2>4. /\ \A x \in Addr : x + flushed[x].bytes <= MaxSize
        /\ EndsBelow(flushed, End)
    BY <2>2, Zenon DEF Fits, SameBelow
  <2>5. /\ disk' \in [Addr -> Object] /\ Fits(disk', file_size')
        /\ disk'[p] = t /\ Keeps(flushed, disk', L)
        /\ SameBelow(flushed, disk', End)
        /\ EndsBelow(disk', p + TrailerSize)
    BY <1>1, <1>2, <1>4, <1>6, <1>10, <1>12, <2>2, <2>3, <2>4, TrailerFile, SMTT(20)
  <2>6. Keeps(flushed, disk', p)
    BY <1>1, <1>2, <1>6, <1>9, <1>10, <1>12, <2>2, <2>3, <2>4, TrailerFile, SMTT(20)
  <2>7. index.loaded => disk'[a] = block
    <3> HAVE index.loaded
    <3>1. flushed[a] = block /\ block.bytes = HeaderBlockSize
      BY <1>12, <2>2 DEF HeaderBlock
    <3>2. a \in Addr /\ a < p /\ a + flushed[a].bytes <= p
      BY <1>6, <1>7, <1>9, <1>10, <3>1
    <3> QED BY <2>6, <3>1, <3>2 DEF Keeps
  <2>8. Keeps(disk, disk', L) /\ SameBelow(disk, disk', End)
    BY <2>2, <2>5, KeepTwice, Zenon
  <2> QED BY <2>3, <2>5, <2>7, <2>8, Zenon
<1> HIDE DEF flushed, f
<1>15. /\ t2 \in Transaction /\ t2.phase = "commit" /\ t2.new_footer = p
       /\ t2.size # 0
  <2>1. txn[c] \in Transaction /\ txn[c].first \in Addr
    BY <1>3 DEF TypeOK, Transaction
  <2>2. txn[c].first # Null
    BY DEF CommitWrite
  <2>3. txn[c].size + (m - L) \in Nat /\ txn[c].size + (m - L) # 0
    BY <1>4, <1>10
  <2> HIDE DEF m
  <2>4. Grown(txn[c], a, L, m) = [txn[c] EXCEPT !.first = txn[c].first,
                                                !.size = txn[c].size + (m - L)]
    BY <2>2 DEF Grown
  <2>5. t2 = [txn[c] EXCEPT !.first = txn[c].first, !.phase = "commit",
                !.size = txn[c].size + (m - L), !.new_footer = p]
    BY <2>1, <2>4, Zenon DEF Transaction
  <2> QED BY <1>10, <2>1, <2>3, <2>5, Zenon DEF Transaction
<1>16. index.loaded => /\ x2 \in Index
                       /\ x2 = [loaded |-> TRUE, revision |-> generation,
                                heap |-> FALSE, map |-> index.map]
  BY <1>5, <1>11, FlushedIndex, Zenon
<1>17. /\ txn'[c] = t2 /\ logical'[c] = m
       /\ cache'[c] = IF index.loaded THEN x2 ELSE cache[c]
  BY <1>2, <1>3 DEF TypeOK
<1> HIDE DEF t2, x2
<1>18. TypeOK'
  <2>1. txn' \in [Conn -> Transaction]
    BY <1>2, <1>3, <1>15, Zenon DEF TypeOK
  <2>2. cache' \in [Conn -> Index]
    BY <1>2, <1>3, <1>16, Zenon DEF TypeOK
  <2>3. logical' \in [Conn -> Addr]
    BY <1>2, <1>3, <1>10, Zenon DEF TypeOK
  <2>4. R \in SUBSET Nat
    <3>1. regions[c] \in SUBSET Nat
      BY <1>3 DEF TypeOK
    <3> QED BY <1>8, <3>1, RegionFacts
  <2> HIDE DEF R, m
  <2>5. regions' \in [Conn -> SUBSET Nat]
    <3>1. map_bytes(R, m) \in SUBSET Nat
      BY <1>10, <2>4, RegionFacts, Zenon
    <3> QED BY <1>2, <1>3, <3>1, Zenon DEF TypeOK
  <2> QED BY <1>2, <1>3, <1>14, <2>1, <2>2, <2>3, <2>5, Zenon DEF TypeOK
<1>19. FileInv'
  BY <1>14 DEF FileInv, Fits
<1>20. LockInv(c)' /\ SyncInv(c)'
  BY <1>2, <1>3, <1>4, <1>15, <1>17, Zenon
     DEF ConnInv, LockInv, SyncInv, InHist
<1>21. SizeInv(c)'
  <2>1. footer_pos + TrailerSize <= m
    BY <1>6, <1>9, <1>10
  <2> QED BY <1>2, <1>4, <1>15, <1>17, <2>1, Zenon DEF SizeInv, Growing
<1>22. Stored(disk', p, intent[c])
       /\ (index.loaded => IndexMap(disk', p) = index.map)
  <2>1. CASE index.loaded
    <3>1. disk'[p].index_record = a /\ a # Null /\ a + HeaderBlockSize <= p
          /\ disk'[a].kind = "index" /\ disk'[a].map = index.map
      BY <1>10, <1>13, <1>14, <2>1, Zenon
    <3>2. Reads(disk', index.map, intent[c], p)
      <4>1. /\ index.map \in [Key -> Addr] /\ intent[c] \in [Key -> MaybeVal]
            /\ disk \in [Addr -> Object]
        BY <1>3, <1>11, Zenon DEF TypeOK, Index
      <4>2. Reads(disk', index.map, intent[c], L)
        BY <1>4, <1>11, <1>14, <2>1, <4>1, ReadsKept, Zenon DEF Keeps
      <4> QED BY <1>4, <1>9, <1>10, <1>14, <4>1, <4>2, ReadsWider, Zenon
    <3> QED BY <3>1, <3>2, Zenon DEF Stored, IndexMap
  <2>2. CASE ~index.loaded
    <3>1. disk'[p].index_record = Null /\ intent[c] = Empty
      BY <1>11, <1>13, <1>14, <2>2, Zenon
    <3> QED BY <2>2, <3>1, Zenon DEF Stored
  <2> QED BY <2>1, <2>2
<1>23. TrailerAt(disk', p, Len(hist), footer_pos)
  BY <1>5, <1>6, <1>9, <1>10, <1>12, <1>13, <1>14, Zenon DEF TrailerAt
<1>24. /\ ~cache'[c].heap
       /\ cache'[c].loaded
            => cache'[c] = [loaded |-> TRUE, revision |-> disk'[p].generation,
                            heap |-> FALSE, map |-> IndexMap(disk', p)]
       /\ ~cache'[c].loaded => intent[c] = hist[Len(hist)].map
  <2>1. CASE index.loaded
    <3>1. cache'[c] = x2 /\ IndexMap(disk', p) = index.map
      BY <1>17, <1>22, <2>1, Zenon
    <3>2. disk'[p].generation = generation
      BY <1>13, <1>14, Zenon
    <3>3. x2 = [loaded |-> TRUE, revision |-> generation,
                heap |-> FALSE, map |-> index.map]
      BY <1>16, <2>1
    <3>4. cache'[c] = [loaded |-> TRUE, revision |-> generation,
                       heap |-> FALSE, map |-> index.map]
      BY <3>1, <3>3, Zenon
    <3>5. ~cache'[c].heap /\ cache'[c].loaded
      BY <3>4
    <3> QED BY <3>1, <3>2, <3>4, <3>5, Zenon
  <2>2. CASE ~index.loaded
    <3>1. ~cache[c].loaded /\ ~cache[c].heap
      BY <1>3, <1>11, <2>2, Zenon DEF ConnInv, CacheInv
    <3>2. intent[c] = hist[Len(hist)].map
      BY <1>1, <1>3, <3>1, Zenon DEF ConnInv, CacheInv
    <3> QED BY <1>17, <2>2, <3>1, <3>2, Zenon
  <2> QED BY <2>1, <2>2, Zenon
<1>25. CommitInv(c)'
  BY <1>1, <1>2, <1>4, <1>5, <1>14, <1>15, <1>17, <1>22, <1>23, <1>24, Zenon
  DEF CommitInv
<1>26. CacheInv(c)'
  BY <1>2, <1>4, <1>15, <1>17, <1>24, Zenon DEF CacheInv, Growing
<1>27. \A c2 \in Conn \ {c} : Untouched(c2)
  BY <1>2, <1>3, Zenon DEF Untouched, TypeOK
<1>28. EndsBelow(disk', End) /\ \A x \in Addr : x < End => disk'[x] = disk[x]
  BY <1>14 DEF SameBelow
<1> QED BY <1>2, <1>4, <1>18, <1>19, <1>20, <1>21, <1>25, <1>26, <1>27, <1>28,
           StepFrame, Zenon DEF ConnInv

(* Setting the new footer adds exactly one revision.                       *)
LEMMA CommitPublishStep ==
  ASSUME SafeUse, StoreInvariant, NEW c \in Conn, CommitPublish(c)
  PROVE  StoreInvariant' /\ disk' = disk
<1> DEFINE p == txn[c].new_footer
           n == Len(hist)
<1>1. TypeOK /\ HistoryInv /\ ConnInv(c) /\ FileInv
  BY DEF StoreInvariant
<1>2. /\ state[c] = "open" /\ pend[c].phase = "none" /\ txn[c].phase = "commit"
  BY DEF CommitPublish, Idle
<1>3. /\ disk' = disk /\ file_size' = file_size /\ tlock' = tlock
      /\ state' = state /\ regions' = regions /\ cache' = cache
      /\ pend' = pend /\ footer_pos' = p
      /\ fpos' = [fpos EXCEPT ![c] = p]
      /\ logical' = [logical EXCEPT ![c] = max(logical[c], p + TrailerSize)]
      /\ txn' = [txn EXCEPT ![c].phase = "live", ![c].first = Null]
      /\ hist' = Append(hist, [pos |-> p, map |-> intent[c]])
      /\ intent' = [intent EXCEPT ![c] = Empty]
  BY DEF CommitPublish
<1>4. /\ fpos[c] = footer_pos /\ n <= MaxGeneration
      /\ logical[c] = p + TrailerSize /\ txn[c].size # 0
      /\ EndsBelow(disk, p + TrailerSize)
      /\ TrailerAt(disk, p, n, footer_pos)
      /\ Stored(disk, p, intent[c]) /\ ~cache[c].heap
      /\ cache[c].loaded
           => cache[c] = [loaded |-> TRUE, revision |-> disk[p].generation,
                          heap |-> FALSE, map |-> IndexMap(disk, p)]
      /\ tlock = ProcOf[c]
  BY <1>1, <1>2, Zenon DEF ConnInv, CommitInv, LockInv
<1>5. /\ txn[c] \in Transaction /\ p \in Addr /\ logical[c] \in Addr
      /\ logical[c] \in Nat /\ intent[c] \in [Key -> MaybeVal]
      /\ max(logical[c], p + TrailerSize) = logical[c]
  BY <1>1, <1>4, SizeFacts, Zenon DEF TypeOK, Transaction, max
<1>6. HistoryInv'
  BY <1>1, <1>3, <1>4, <1>5, HistoryExtended, Zenon DEF Extended
<1>7. /\ n \in Nat /\ DOMAIN hist = 1..n
      /\ Len(hist') = n + 1 /\ hist'[n + 1].pos = p
      /\ \A g \in 1..n : hist'[g] = hist[g]
      /\ DOMAIN hist' = 1..(n + 1)
      /\ hist' \in Seq(Revision)
  <2>1. [pos |-> p, map |-> intent[c]] \in Revision
    BY <1>5, Zenon DEF Revision
  <2>2. hist \in Seq(Revision)
    BY <1>1 DEF TypeOK
  <2> QED BY <1>3, <2>1, <2>2
<1>8. /\ txn'[c].phase = "live" /\ txn'[c].first = Null
      /\ txn'[c].size # 0 /\ fpos'[c] = p /\ logical'[c] = logical[c]
      /\ [txn[c] EXCEPT !.phase = "live", !.first = Null] \in Transaction
  <2> DEFINE t == [txn[c] EXCEPT !.phase = "live", !.first = Null]
  <2>1. Null \in Addr
    BY SizeFacts DEF Null, Addr
  <2>2. /\ t \in Transaction /\ t.phase = "live" /\ t.first = Null
        /\ t.size = txn[c].size
    BY <1>5, <2>1, Zenon DEF Transaction
  <2>3. txn'[c] = t /\ fpos'[c] = p /\ logical'[c] = logical[c]
    BY <1>1, <1>3, <1>5 DEF TypeOK
  <2> HIDE DEF t
  <2>4. txn'[c].phase = "live" /\ txn'[c].first = Null /\ txn'[c].size # 0
    BY <1>4, <2>2, <2>3, Zenon
  <2> QED BY <2>2, <2>3, <2>4 DEF t
<1>9. TypeOK'
  <2>1. txn' \in [Conn -> Transaction]
    BY <1>1, <1>3, <1>8 DEF TypeOK
  <2>2. intent' \in [Conn -> [Key -> MaybeVal]]
    BY <1>1, <1>3 DEF TypeOK, Empty, MaybeVal
  <2>3. fpos' \in [Conn -> Addr] /\ logical' \in [Conn -> Addr]
    BY <1>1, <1>3, <1>5 DEF TypeOK
  <2> QED BY <1>1, <1>3, <1>5, <1>7, <2>1, <2>2, <2>3, Zenon DEF TypeOK
<1>10. FileInv'
  BY <1>1, <1>3 DEF FileInv
<1>11. End' = p + TrailerSize /\ End <= End' /\ End \in Nat /\ End' \in Nat
  <2>1. End' = p + TrailerSize
    BY <1>3 DEF End
  <2>2. End <= p
    BY <1>4, Zenon DEF TrailerAt, End
  <2>3. p \in Nat /\ End \in Nat /\ TrailerSize \in Nat
    BY <1>5, EndFacts, SizeFacts, Zenon
  <2> QED BY <2>1, <2>2, <2>3
<1>12. \A q, r : InHist(q, r) => InHist(q, r)'
  BY <1>7 DEF InHist
<1>13. ConnInv(c)'
  <2>1. LockInv(c)'
    BY <1>2, <1>3, <1>4, <1>8, Zenon DEF LockInv
  <2>2. SyncInv(c)'
    <3>1. InHist(fpos[c], 0)'
      <4>1. n + 1 \in DOMAIN hist' /\ 0 <= (n + 1) - 1
        BY <1>7
      <4> QED BY <1>7, <1>8, <4>1, Zenon DEF InHist
    <3> QED BY <1>2, <1>3, <1>8, <3>1, Zenon DEF SyncInv
  <2>3. SizeInv(c)'
    <3>1. logical'[c] = End' /\ fpos'[c] = footer_pos'
      BY <1>3, <1>4, <1>8, <1>11, Zenon
    <3>2. fpos'[c] + TrailerSize <= logical'[c] /\ logical'[c] <= End'
      BY <1>4, <1>5, <1>8, <1>11, <3>1
    <3>3. ~Growing(c)' /\ txn'[c].phase = "live"
      BY <1>8 DEF Growing
    <3> QED BY <3>1, <3>2, <3>3, Zenon DEF SizeInv
  <2>4. CacheInv(c)'
    BY <1>2, <1>3, <1>4, <1>8, Zenon
       DEF CacheInv, Growing, get_current_revision
  <2>5. CommitInv(c)'
    BY <1>8 DEF CommitInv
  <2> QED BY <2>1, <2>2, <2>3, <2>4, <2>5, Zenon DEF ConnInv
<1>14. ASSUME NEW c2 \in Conn \ {c} PROVE ConnInv(c2)'
  <2>1. ConnInv(c2) /\ txn[c2].phase = "none"
    BY <1>4, Alone, Zenon DEF StoreInvariant
  <2>2. Untouched(c2)
    BY <1>1, <1>3 DEF Untouched, TypeOK
  <2>3. LockInv(c2)'
    BY <1>3, <2>1, <2>2, Zenon DEF ConnInv, LockInv, Untouched
  <2>4. SyncInv(c2)'
    <3>1. \A r \in Nat : r <= n - 1 => r <= Len(hist') - 1
      BY <1>7
    <3>2. pend[c2].revision \in Nat
      BY <1>1, SizeFacts DEF TypeOK, SyncProgress, HeadRevision
    <3> QED BY <1>3, <1>12, <2>1, <2>2, <3>1, <3>2, Zenon
            DEF ConnInv, SyncInv, Untouched
  <2>5. SizeInv(c2)'
    <3>1. logical[c2] \in Nat
      BY <1>1, SizeFacts, Zenon DEF TypeOK
    <3>2. logical[c2] <= End => logical[c2] <= End'
      BY <1>11, <3>1
    <3> QED BY <2>1, <2>2, <3>2, Zenon
               DEF ConnInv, SizeInv, Untouched, Growing
  <2>6. CacheInv(c2)'
    BY <1>3, <2>1, <2>2, Zenon
    DEF ConnInv, CacheInv, Untouched, Growing, get_current_revision
  <2>7. CommitInv(c2)'
    BY <2>1, <2>2, Zenon DEF CommitInv, Untouched
  <2> QED BY <2>3, <2>4, <2>5, <2>6, <2>7, Zenon DEF ConnInv
<1> QED BY <1>3, <1>6, <1>9, <1>10, <1>13, <1>14, Zenon DEF StoreInvariant
----------------------------------------------------------------------------
(* Every step of a connection or of the operating system keeps the         *)
(* invariant and everything that has been committed.                       *)
LEMMA NextStep ==
  ASSUME SafeUse, StoreInvariant, [Next]_vars
  PROVE  StoreInvariant' /\ \A x \in Addr : x < End => disk'[x] = disk[x]
<1>1. CASE UNCHANGED vars
  <2>1. StoreInvariant'
    BY <1>1, StutterStep
  <2> QED BY <1>1, <2>1 DEF vars
<1>2. ASSUME NEW c \in Conn, ConnNext(c)
      PROVE  StoreInvariant' /\ \A x \in Addr : x < End => disk'[x] = disk[x]
  <2>1. CASE OpenMap(c)
    BY <2>1, OpenMapStep, Zenon DEF OpenMap
  <2>2. CASE OpenFooter(c)
    BY <2>2, OpenFooterStep, Zenon DEF OpenFooter
  <2>3. CASE Close(c)
    <3>1. Gone({c}) /\ {c} \subseteq Conn
      BY <2>3 DEF Close
    <3> QED BY <3>1, GoneStep, Zenon DEF Gone
  <2>4. CASE \E r \in 0..HeadRevision : SyncCall(c, r)
    BY <2>4, SyncCallStep, Zenon DEF SyncCall
  <2>5. CASE SyncLoad(c)
    BY <2>5, SyncLoadStep, Zenon DEF SyncLoad
  <2>6. CASE SyncApply(c)
    BY <2>6, SyncApplyStep
  <2>7. CASE SyncWalk(c)
    BY <2>7, SyncWalkStep DEF SyncWalk
  <2>8. CASE BeginLock(c)
    BY <2>8, BeginLockStep, Zenon DEF BeginLock
  <2>9. CASE BeginReady(c)
    BY <2>9, BeginReadyStep, Zenon DEF BeginReady
  <2>10. CASE \E n \in AllocSizes : Allocate(c, n, 1)
    BY <2>10, AllocateStep, Zenon
  <2>11. CASE LoadIndex(c)
    BY <2>11, LoadIndexStep, Zenon DEF LoadIndex
  <2>12. CASE \E k \in Key, v \in Val : Insert(c, k, v)
    BY <2>12, InsertStep, Zenon
  <2>13. CASE CommitWrite(c)
    BY <2>13, CommitWriteStep
  <2>14. CASE CommitPublish(c)
    BY <2>14, CommitPublishStep
  <2>15. CASE Rollback(c)
    BY <2>15, RollbackStep
  <2>16. CASE EndTransaction(c)
    BY <2>16, EndTransactionStep
  <2> QED BY <1>2, <2>1, <2>2, <2>3, <2>4, <2>5, <2>6, <2>7, <2>8, <2>9,
             <2>10, <2>11, <2>12, <2>13, <2>14, <2>15, <2>16, Zenon DEF ConnNext
<1>3. ASSUME NEW p \in Process, Crash(p)
      PROVE  StoreInvariant' /\ \A x \in Addr : x < End => disk'[x] = disk[x]
  BY <1>3, CrashStep, Zenon DEF Crash, Gone
<1> QED BY <1>1, <1>2, <1>3, Zenon DEF Next
----------------------------------------------------------------------------
(* StoreInvariant holds in every state of every execution.                 *)
THEOREM StoreInvariantHolds ==
  ASSUME SafeUse
  PROVE  Spec => []StoreInvariant
<1>1. Init => StoreInvariant
  BY InitInvariant
<1>2. StoreInvariant /\ [Next]_vars => StoreInvariant'
  BY NextStep
<1> QED BY <1>1, <1>2, PTL DEF Spec

(* Every variable keeps its type.                                          *)
THEOREM TypeCorrect ==
  ASSUME SafeUse
  PROVE  Spec => []TypeOK
<1>1. StoreInvariant => TypeOK
  BY DEF StoreInvariant
<1> QED BY <1>1, StoreInvariantHolds, PTL

(* What a client reads through leaves that Reads describes.                *)
LEMMA LookupReads ==
  ASSUME NEW d \in [Addr -> Object], NEW m \in [Key -> Addr],
         NEW w \in [Key -> MaybeVal], NEW n, Reads(d, m, w, n)
  PROVE  Lookup(d, m) = w
<1>1. ASSUME NEW k \in Key PROVE ValueAt(d, m[k], k) = w[k]
  <2>1. CASE m[k] = Null
    BY <2>1 DEF Reads, ValueAt
  <2>2. CASE m[k] # Null
    <3>1. d[m[k]] = LeafOf(k, w[k])
      BY <2>2 DEF Reads
    <3>2. /\ LeafOf(k, w[k]).kind = "leaf" /\ LeafOf(k, w[k]).key = k
          /\ LeafOf(k, w[k]).val = w[k]
      BY DEF LeafOf
    <3> QED BY <2>2, <3>1, <3>2 DEF ValueAt
  <2> QED BY <2>1, <2>2
<1> QED BY <1>1 DEF Lookup

(* Every committed revision, read from the file through the trailer that   *)
(* commit wrote for it, is exactly what its transaction meant to store.    *)
THEOREM HistoryStaysIntact ==
  ASSUME SafeUse
  PROVE  Spec => []HistoryIntact
<1>1. StoreInvariant => HistoryIntact
  <2> SUFFICES ASSUME StoreInvariant, NEW g \in DOMAIN hist
               PROVE  /\ HasIndex(disk, hist[g].pos)
                      /\ Lookup(disk, IndexMap(disk, hist[g].pos)) = hist[g].map
    BY DEF HistoryIntact
  <2>1. /\ TypeOK /\ HistoryInv /\ disk \in [Addr -> Object]
        /\ Stored(disk, hist[g].pos, hist[g].map)
    BY Zenon DEF StoreInvariant, TypeOK, HistoryInv
  <2>2. /\ disk[hist[g].pos].kind = "trailer" /\ End \in Nat /\ End <= End
        /\ hist[g].map \in [Key -> MaybeVal]
    <3>1. End \in Nat /\ End <= End
      BY EndFacts
    <3> QED BY <2>1, <3>1, RevisionFacts, Zenon
  <2>3. /\ IndexMap(disk, hist[g].pos) \in [Key -> Addr]
        /\ Reads(disk, IndexMap(disk, hist[g].pos), hist[g].map, End)
    BY <2>1, <2>2, HistoryReads, Zenon
  <2>4. Lookup(disk, IndexMap(disk, hist[g].pos)) = hist[g].map
    BY <2>1, <2>2, <2>3, LookupReads, Zenon
  <2> QED BY <2>1, <2>2, <2>4, Zenon DEF HasIndex, Stored
<1> QED BY <1>1, StoreInvariantHolds, PTL

(* The header and the trailers are a chain that older_revision_footer_pos  *)
(* can follow from the newest revision to the first.                       *)
THEOREM TrailersAreChained ==
  ASSUME SafeUse
  PROVE  Spec => []TrailerChain
<1>1. StoreInvariant => TrailerChain
  <2> SUFFICES ASSUME StoreInvariant, NEW g \in DOMAIN hist
               PROVE  /\ footer_pos = hist[Len(hist)].pos
                      /\ validate(disk, hist[g].pos)
                      /\ disk[hist[g].pos].generation = g - 1
                      /\ disk[hist[g].pos].prev_generation =
                           IF g = 1 THEN Null ELSE hist[g - 1].pos
    <3>1. StoreInvariant => footer_pos = hist[Len(hist)].pos
      BY Zenon DEF StoreInvariant, HistoryInv
    <3> QED BY <3>1, Zenon DEF TrailerChain
  <2>1. TypeOK /\ HistoryInv /\ footer_pos = hist[Len(hist)].pos
    BY Zenon DEF StoreInvariant, HistoryInv
  <2>2. /\ validate(disk, hist[g].pos) /\ disk[hist[g].pos].generation = g - 1
        /\ g \in 1..Len(hist) /\ Len(hist) \in Nat
    BY <2>1, HistoryValid, HeadFacts, Zenon
  <2>3. CASE g = 1
    BY <2>1, <2>2, <2>3, Zenon DEF HistoryInv
  <2>4. CASE g # 1
    <3>1. g \in 2..Len(hist)
      BY <2>2, <2>4
    <3> QED BY <2>1, <2>2, <2>4, <3>1, Zenon DEF HistoryInv, TrailerAt
  <2> QED BY <2>1, <2>2, <2>3, <2>4, Zenon
<1> QED BY <1>1, StoreInvariantHolds, PTL

(* At most one connection is inside a transaction, and it builds on the    *)
(* newest revision: the lock of transaction_mutex serves its purpose.      *)
THEOREM WritersAreSerialized ==
  ASSUME SafeUse
  PROVE  Spec => []SingleWriter
<1>1. StoreInvariant => SingleWriter
  <2> SUFFICES ASSUME StoreInvariant, NEW c \in Conn,
                      txn[c].phase \in {"live", "commit"}
               PROVE  /\ fpos[c] = footer_pos
                      /\ \A c2 \in Conn \ {c} : txn[c2].phase = "none"
    BY DEF SingleWriter
  <2>1. LockInv(c) /\ SizeInv(c) /\ CommitInv(c)
    BY DEF StoreInvariant, ConnInv
  <2>2. tlock = ProcOf[c]
    BY <2>1, Zenon DEF LockInv
  <2>3. fpos[c] = footer_pos
    BY <2>1, Zenon DEF SizeInv, CommitInv
  <2> QED BY <2>2, <2>3, Alone, Zenon
<1> QED BY <1>1, StoreInvariantHolds, PTL

(* Outside a transaction a connection reads the revision it is synced to,  *)
(* also through an index it cached before other processes committed.       *)
THEOREM SnapshotsAreStable ==
  ASSUME SafeUse
  PROVE  Spec => []SnapshotReads
<1>1. StoreInvariant => SnapshotReads
  <2> SUFFICES ASSUME StoreInvariant, NEW c \in Conn, Idle(c),
                      txn[c].phase = "none", cache[c].loaded, Usable(c)
               PROVE  /\ cache[c].revision = get_current_revision(c)
                      /\ Lookup(disk, cache[c].map) =
                           hist[cache[c].revision + 1].map
    BY Zenon DEF SnapshotReads
  <2>1. TypeOK /\ HistoryInv /\ CacheInv(c) /\ InHist(fpos[c], 0)
    BY Zenon DEF StoreInvariant, ConnInv, SyncInv
  <2>2. pend[c].phase = "none" /\ ~cache[c].heap
    BY Zenon DEF Idle, Usable, SafeUse
  <2>3. PICK g \in DOMAIN hist : hist[g].pos = fpos[c]
    BY <2>1 DEF InHist
  <2>4. /\ get_current_revision(c) = g - 1 /\ g \in Nat
        /\ hist[g].map \in [Key -> MaybeVal] /\ End \in Nat /\ End <= End
    <3>1. /\ get_current_revision(c) = g - 1 /\ g \in 1..Len(hist)
          /\ Len(hist) \in Nat /\ hist[g].map \in [Key -> MaybeVal] /\ End \in Nat
      BY <2>1, <2>3, HeadFacts, Zenon DEF get_current_revision
    <3>2. g \in Nat /\ End <= End
      BY ONLY <3>1, SMTT(20)
    <3> QED BY <3>1, <3>2, Zenon
  <2>5. cache[c] = [loaded |-> TRUE, revision |-> get_current_revision(c),
                    heap |-> FALSE, map |-> IndexMap(disk, fpos[c])]
    BY <2>1, <2>2, Zenon DEF CacheInv
  <2>6. /\ cache[c].revision = get_current_revision(c)
        /\ cache[c].map = IndexMap(disk, hist[g].pos)
    <3>1. /\ cache[c].revision = get_current_revision(c)
          /\ cache[c].map = IndexMap(disk, fpos[c])
      BY ONLY <2>5, SMTT(20)
    <3> QED BY <2>3, <3>1, Zenon
  <2>7. /\ IndexMap(disk, hist[g].pos) \in [Key -> Addr]
        /\ Reads(disk, IndexMap(disk, hist[g].pos), hist[g].map, End)
    BY <2>1, <2>4, HistoryReads, Zenon
  <2>8. Lookup(disk, IndexMap(disk, hist[g].pos)) = hist[g].map
    BY <2>1, <2>4, <2>7, LookupReads, Zenon DEF TypeOK
  <2>9. cache[c].revision + 1 = g
    <3>1. cache[c].revision = g - 1 /\ g \in Nat
      BY <2>4, <2>6, Zenon
    <3> QED BY ONLY <3>1, SMTT(20)
  <2> QED BY <2>6, <2>8, <2>9, Zenon
<1> QED BY <1>1, StoreInvariantHolds, PTL

(* No step changes what lies below the end of the newest trailer.          *)
THEOREM CommittedBytesNeverChange ==
  ASSUME SafeUse
  PROVE  Spec => AppendOnly
<1>1. StoreInvariant /\ [Next]_vars
        => [\A x \in Addr : x < footer_pos + TrailerSize
                              => disk'[x] = disk[x]]_vars
  BY NextStep DEF End
<1> QED BY <1>1, StoreInvariantHolds, PTL DEF Spec, AppendOnly

-----------------------------------------------------------------------------
(* Store implements RevisionStore: whatever the processes do, and wherever *)
(* they are killed, clients see revisions, readers that stay on one of     *)
(* them and one atomic writer. The steps of Store that a client can see    *)
(* are those at which sync() and open() settle, begin() has its lock and   *)
(* the head, a leaf is inserted, the footer is set, or a transaction ends. *)

(* The connection shows its clients something.                             *)
Settled(c) ==
  Idle(c) /\ txn[c].phase # "begin" /\ (cache[c].heap => Writing(c))

(* What a trailer's index leads to, read as a client does.                 *)
LEMMA StoredLookup ==
  ASSUME NEW d \in [Addr -> Object], NEW p \in Addr, d[p].kind = "trailer",
         NEW w \in [Key -> MaybeVal], Stored(d, p, w)
  PROVE  Lookup(d, IndexMap(d, p)) = w
<1> DEFINE i == d[p].index_record
<1>1. d[p] \in Trailer
  BY ObjectBytes
<1>2. i \in Addr
  BY <1>1 DEF Trailer
<1>3. CASE i = Null
  BY <1>3, Zenon DEF Stored, IndexMap, Lookup, ValueAt, Empty
<1>4. CASE i # Null
  <2>1. /\ IndexMap(d, p) = d[i].map /\ d[i].kind = "index"
        /\ Reads(d, d[i].map, w, p)
    BY <1>4, Zenon DEF Stored, IndexMap
  <2>2. d[i].map \in [Key -> Addr]
    <3>1. d[i] \in HeaderBlock
      BY <1>2, <2>1, ObjectBytes, Zenon
    <3> QED BY <3>1, Zenon DEF HeaderBlock
  <2> QED BY <2>1, <2>2, LookupReads, Zenon
<1> QED BY <1>3, <1>4, Zenon

(* What the clients of a connection see: a writer what it has built so     *)
(* far, any other the revision its connection is synced to.                *)
Shows(c) ==
  /\ ~Settled(c) => View(c) = NoProc
  /\ Settled(c) /\ Writing(c) => View(c) = intent[c]
  /\ Settled(c) /\ ~Writing(c)
       => /\ \E g \in DOMAIN hist : hist[g].pos = fpos[c]
          /\ \A g \in DOMAIN hist :
               hist[g].pos = fpos[c] => View(c) = hist[g].map

(* The index that a connection reads through leads there.                  *)
LEMMA ViewFacts ==
  ASSUME StoreInvariant, NEW c \in Conn
  PROVE  Shows(c)
<1>1. /\ TypeOK /\ HistoryInv /\ ConnInv(c) /\ disk \in [Addr -> Object]
      /\ intent[c] \in [Key -> MaybeVal]
  BY Zenon DEF StoreInvariant, TypeOK
<1>2. ~Settled(c) => View(c) = NoProc
  BY Zenon DEF Settled, View
<1>3. Settled(c) => View(c) = Lookup(disk, get_index(c, TRUE).map)
  BY ZenonT(30) DEF Settled, View
<1>4. ASSUME NEW g \in DOMAIN hist
      PROVE  Lookup(disk, IndexMap(disk, hist[g].pos)) = hist[g].map
  <2>1. /\ hist[g].pos \in Addr /\ hist[g].map \in [Key -> MaybeVal]
        /\ disk[hist[g].pos].kind = "trailer"
    BY <1>1, RevisionFacts, Zenon
  <2>2. Stored(disk, hist[g].pos, hist[g].map)
    BY <1>1, Zenon DEF HistoryInv
  <2> QED BY <1>1, <2>1, <2>2, StoredLookup, Zenon
<1>5. ~cache[c].loaded => get_index(c, TRUE).map = IndexMap(disk, fpos[c])
  BY Zenon DEF get_index
<1>6. ASSUME Settled(c), Writing(c)
      PROVE  View(c) = intent[c]
  <2>1. CASE Growing(c)
    <3>1. get_index(c, TRUE) \in Index
          /\ Reads(disk, get_index(c, TRUE).map, intent[c], logical[c])
      BY <2>1, IndexReads, Zenon
    <3>2. get_index(c, TRUE).map \in [Key -> Addr]
      BY <3>1, Zenon DEF Index
    <3> QED BY <1>1, <1>3, <1>6, <3>1, <3>2, LookupReads, Zenon
  <2>2. CASE txn[c].phase = "commit"
    <3> DEFINE p == txn[c].new_footer
    <3>1. /\ p \in Addr /\ disk[p].kind = "trailer"
          /\ Stored(disk, p, intent[c]) /\ fpos[c] = footer_pos
          /\ cache[c].loaded => cache[c].map = IndexMap(disk, p)
          /\ ~cache[c].loaded => intent[c] = hist[Len(hist)].map
      <4>1. p \in Addr
        BY <1>1, Zenon DEF TypeOK, Transaction
      <4>2. CommitInv(c)
        BY <1>1, Zenon DEF ConnInv
      <4>3. /\ disk[p].kind = "trailer" /\ Stored(disk, p, intent[c]) /\ fpos[c] = footer_pos
            /\ ~cache[c].loaded => intent[c] = hist[Len(hist)].map
            /\ cache[c].loaded
                 => cache[c] = [loaded |-> TRUE, revision |-> disk[p].generation,
                                heap |-> FALSE, map |-> IndexMap(disk, p)]
        BY <2>2, <4>2, Zenon DEF CommitInv, TrailerAt
      <4>4. cache[c].loaded => cache[c].map = IndexMap(disk, p)
        <5> DEFINE m == IndexMap(disk, p)
        <5>1. cache[c].loaded
                => cache[c] = [loaded |-> TRUE, revision |-> disk[p].generation,
                               heap |-> FALSE, map |-> m]
          BY <4>3, Zenon
        <5> HIDE DEF m, p
        <5>2. cache[c].loaded => cache[c].map = m
          BY ONLY <5>1, SMTT(20)
        <5> QED BY <5>2, Zenon DEF m, p
      <4> QED BY <4>1, <4>3, <4>4, Zenon
    <3>2. CASE cache[c].loaded
      <4>1. get_index(c, TRUE).map = IndexMap(disk, p)
        BY <3>1, <3>2, Zenon DEF get_index
      <4> QED BY <1>1, <1>3, <1>6, <3>1, <4>1, StoredLookup, Zenon
    <3>3. CASE ~cache[c].loaded
      <4>1. Len(hist) \in DOMAIN hist /\ hist[Len(hist)].pos = fpos[c]
        BY <1>1, <3>1, HeadFacts, Zenon DEF HistoryInv
      <4> QED BY <1>3, <1>4, <1>5, <1>6, <3>1, <3>3, <4>1, Zenon
    <3> QED BY <3>2, <3>3, SMTT(20)
  <2> QED BY <1>6, <2>1, <2>2, Zenon DEF Writing, Growing
<1>7. ASSUME Settled(c), ~Writing(c), NEW g \in DOMAIN hist,
             hist[g].pos = fpos[c]
      PROVE  View(c) = hist[g].map
  <2>1. get_index(c, TRUE).map = IndexMap(disk, fpos[c])
    <3>1. CASE cache[c].loaded
      <4>1. cache[c] = [loaded |-> TRUE, revision |-> get_current_revision(c),
                        heap |-> FALSE, map |-> IndexMap(disk, fpos[c])]
        BY <1>1, <1>7, <3>1, Zenon
           DEF ConnInv, CacheInv, Settled, Idle, Writing
      <4>2. cache[c].map = IndexMap(disk, fpos[c])
        BY ONLY <4>1, SMTT(20)
      <4> QED BY <3>1, <4>2, Zenon DEF get_index
    <3> QED BY <1>5, <3>1, ZenonT(30)
  <2> QED BY <1>3, <1>4, <1>7, <2>1, Zenon
<1>8. \E g \in DOMAIN hist : hist[g].pos = fpos[c]
  BY <1>1, Zenon DEF ConnInv, SyncInv, InHist
<1> QED BY <1>2, <1>6, <1>7, <1>8, Zenon DEF Shows

(* Writer is the connection in a transaction, and there is no other.       *)
WriterIs ==
  /\ \A c \in Conn : Writing(c) <=> Writer = c
  /\ (\A c \in Conn : ~Writing(c)) <=> Writer = NoProc

(* The lock of transaction_mutex leaves one writer at most.                *)
LEMMA WriterFacts ==
  ASSUME SafeUse, StoreInvariant
  PROVE  WriterIs
<1>1. ASSUME NEW c \in Conn, NEW c2 \in Conn, Writing(c), Writing(c2)
      PROVE  c = c2
  <2>1. txn[c].phase # "none" /\ txn[c2].phase # "none"
    BY <1>1 DEF Writing
  <2>2. tlock = ProcOf[c] /\ tlock = ProcOf[c2]
    BY <2>1, Zenon DEF StoreInvariant, ConnInv, LockInv
  <2> QED BY <2>2, Zenon DEF SafeUse
<1>2. NoProc \notin Conn
  BY ConstantsAssumption
<1> QED BY <1>1, <1>2 DEF Writer, WriterIs

(* Both, before and after a step.                                          *)
LEMMA FactsNext ==
  ASSUME SafeUse
  PROVE  (StoreInvariant => WriterIs /\ \A c \in Conn : Shows(c))'
<1>1. StoreInvariant => WriterIs /\ \A c \in Conn : Shows(c)
  BY ViewFacts, WriterFacts
<1> QED BY <1>1, PTL

(* A connection that a step leaves alone shows the same: the revisions     *)
(* before it are still there.                                              *)
LEMMA ViewKept ==
  ASSUME SafeUse, StoreInvariant, StoreInvariant', NEW c \in Conn, Untouched(c),
         \A g \in DOMAIN hist : g \in DOMAIN hist' /\ hist'[g] = hist[g]
  PROVE  View(c)' = View(c) /\ Writing(c)' = Writing(c)
<1>1. Writing(c)' = Writing(c) /\ Settled(c)' = Settled(c)
  BY DEF Untouched, Writing, Settled, Idle
<1>2. Shows(c) /\ Shows(c)'
  BY ViewFacts, FactsNext, SMTT(20)
<1> QED BY <1>1, <1>2, Zenon DEF Untouched, Shows

----------------------------------------------------------------------------
(* A step of c is a step of c alone.                                       *)
LEMMA OthersUntouched ==
  ASSUME TypeOK, NEW c \in Conn, ConnNext(c)
  PROVE  \A c2 \in Conn \ {c} : Untouched(c2)
<1> USE DEF TypeOK, Untouched
<1>1. CASE OpenMap(c)
  BY <1>1 DEF OpenMap
<1>2. CASE OpenFooter(c)
  BY <1>2, Zenon DEF OpenFooter
<1>3. CASE Close(c)
  BY <1>3, Zenon DEF Close, Gone
<1>4. ASSUME NEW r, SyncCall(c, r) PROVE \A c2 \in Conn \ {c} : Untouched(c2)
  BY <1>4, Zenon DEF SyncCall
<1>5. CASE SyncLoad(c)
  BY <1>5 DEF SyncLoad
<1>6. CASE SyncApply(c)
  BY <1>6 DEF SyncApply, SyncRaises, SyncReturns
<1>7. CASE SyncWalk(c)
  BY <1>7, Zenon DEF SyncWalk, SyncRaises, SyncReturns
<1>8. CASE BeginLock(c) \/ BeginReady(c)
  BY <1>8, Zenon DEF BeginLock, BeginReady
<1>9. ASSUME NEW n, Allocate(c, n, 1) PROVE \A c2 \in Conn \ {c} : Untouched(c2)
  BY <1>9, Zenon DEF Allocate
<1>10. CASE LoadIndex(c)
  BY <1>10, Zenon DEF LoadIndex
<1>11. ASSUME NEW k, NEW v, Insert(c, k, v)
       PROVE  \A c2 \in Conn \ {c} : Untouched(c2)
  BY <1>11 DEF Insert
<1>12. CASE CommitWrite(c)
  BY <1>12, Zenon DEF CommitWrite
<1>13. CASE CommitPublish(c)
  BY <1>13 DEF CommitPublish
<1>14. CASE Rollback(c) \/ EndTransaction(c)
  BY <1>14, Zenon DEF Rollback, EndTransaction, Undo
<1> QED BY <1>1, <1>2, <1>3, <1>4, <1>5, <1>6, <1>7, <1>8, <1>9, <1>10, <1>11,
           <1>12, <1>13, <1>14, Zenon DEF ConnNext

(* What the other connections show, and who else writes, stays as it is.   *)
LEMMA OneMoves ==
  ASSUME SafeUse, StoreInvariant, StoreInvariant', NEW c \in Conn,
         \A c2 \in Conn \ {c} : Untouched(c2),
         \A g \in DOMAIN hist : g \in DOMAIN hist' /\ hist'[g] = hist[g]
  PROVE  /\ Views' = [Views EXCEPT ![c] = View(c)']
         /\ \A c2 \in Conn \ {c} : Writing(c2)' = Writing(c2)
<1>1. \A c2 \in Conn \ {c} :
        View(c2)' = View(c2) /\ Writing(c2)' = Writing(c2)
  BY ViewKept, Zenon
<1>2. /\ Views = [c2 \in Conn |-> View(c2)]
      /\ Views' = [c2 \in Conn |-> View(c2)']
  BY DEF Views
<1>3. ASSUME NEW c2 \in Conn
      PROVE  View(c2)' = IF c2 = c THEN View(c)' ELSE View(c2)
  BY <1>1, Zenon
<1> HIDE DEF View
<1>4. [Views EXCEPT ![c] = View(c)'] =
        [c2 \in Conn |-> IF c2 = c THEN View(c)' ELSE View(c2)]
  BY <1>2
<1> QED BY <1>1, <1>2, <1>3, <1>4, Zenon

(* A step of a connection that does not write, in which its clients come   *)
(* to see a revision or nothing, is open() or sync() settling, or a call   *)
(* beginning.                                                              *)
LEMMA ReaderMoves ==
  ASSUME SafeUse, StoreInvariant, StoreInvariant', NEW c \in Conn,
         \A c2 \in Conn \ {c} : Untouched(c2), hist' = hist,
         ~Writing(c), ~Writing(c)'
  PROVE  Abstract!Next
<1>1. /\ Views' = [Views EXCEPT ![c] = View(c)']
      /\ \A c2 \in Conn \ {c} : Writing(c2)' = Writing(c2)
  BY OneMoves
<1>2. WriterIs /\ WriterIs' /\ Shows(c)'
  BY WriterFacts, FactsNext, Zenon
<1>3. Revisions' = Revisions /\ Writer' = Writer /\ Writer # c
  <2>1. Revisions' = Revisions
    BY DEF Revisions
  <2>2. Writer # c
    BY <1>2 DEF WriterIs
  <2>3. CASE \A d \in Conn : ~Writing(d)
    <3>1. \A d \in Conn : ~Writing(d)'
      BY <1>1, <2>3
    <3> QED BY <1>2, <2>1, <2>2, <2>3, <3>1, Zenon DEF WriterIs
  <2>4. ASSUME NEW d \in Conn, Writing(d) PROVE Writer' = Writer
    <3>1. Writing(d)'
      BY <1>1, <2>4, Zenon
    <3> QED BY <1>2, <2>4, <3>1, Zenon DEF WriterIs
  <2> QED BY <2>1, <2>2, <2>3, <2>4, Zenon
<1>4. CASE View(c)' = NoProc
  <2>1. Abstract!Leave(c)
    BY <1>1, <1>3, <1>4, Zenon DEF Abstract!Leave
  <2> QED BY <2>1 DEF Abstract!Next
<1>5. CASE View(c)' # NoProc
  <2>1. PICK g \in DOMAIN hist : View(c)' = hist[g].map
    BY <1>2, <1>5, Zenon DEF Shows
  <2>2. g \in DOMAIN Revisions /\ Revisions[g] = hist[g].map
    BY DEF Revisions
  <2>3. Abstract!Settle(c)
    BY <1>1, <1>3, <2>1, <2>2, Zenon DEF Abstract!Settle
  <2> QED BY <2>3 DEF Abstract!Next
<1> QED BY <1>4, <1>5, Zenon

(* A step of the writer that changes nothing in what it has built.         *)
LEMMA WriterRests ==
  ASSUME SafeUse, StoreInvariant, StoreInvariant', NEW c \in Conn,
         \A c2 \in Conn \ {c} : Untouched(c2), hist' = hist,
         Writing(c), Writing(c)', Settled(c), Settled(c)',
         intent'[c] = intent[c]
  PROVE  UNCHANGED Abstract!avars
<1>1. /\ Views' = [Views EXCEPT ![c] = View(c)']
      /\ \A c2 \in Conn \ {c} : Writing(c2)' = Writing(c2)
  BY OneMoves, Zenon
<1>2. WriterIs /\ WriterIs' /\ Shows(c) /\ Shows(c)'
  BY WriterFacts, ViewFacts, FactsNext, Zenon
<1>3. View(c)' = View(c)
  BY <1>2, Zenon DEF Shows
<1>4. Views' = Views
  BY <1>1, <1>3, Zenon DEF Views
<1>5. Writer' = Writer
  BY <1>2, Zenon DEF WriterIs
<1>6. Revisions' = Revisions
  BY DEF Revisions
<1> QED BY <1>4, <1>5, <1>6, Zenon DEF Abstract!avars

----------------------------------------------------------------------------
(* The steps that the clients see.                                         *)

(* The newest revision, as the abstract specification has it.              *)
LEMMA NewestRevision ==
  ASSUME TypeOK, HistoryInv
  PROVE  /\ Abstract!Last = hist[Len(hist)].map
         /\ Len(Revisions) = Len(hist) /\ Revisions \in Seq([Key -> MaybeVal])
<1>1. /\ hist \in Seq(Revision) /\ Len(hist) \in Nat
      /\ DOMAIN hist = 1..Len(hist) /\ Len(hist) \in DOMAIN hist
      /\ \A g \in DOMAIN hist : hist[g].map \in [Key -> MaybeVal]
  BY HeadFacts, Zenon DEF TypeOK
<1>2. Revisions \in Seq([Key -> MaybeVal]) /\ Len(Revisions) = Len(hist)
  BY <1>1 DEF Revisions
<1> QED BY <1>1, <1>2, Zenon DEF Abstract!Last, Revisions

(* begin() has the lock and is at the head.                                *)
LEMMA BeginSeen ==
  ASSUME SafeUse, StoreInvariant, StoreInvariant', NEW c \in Conn, BeginReady(c),
         \A c2 \in Conn \ {c} : Untouched(c2)
  PROVE  Abstract!Begin(c)
<1>1. /\ TypeOK /\ HistoryInv /\ hist' = hist /\ state' = state
      /\ pend' = pend /\ cache' = cache /\ tlock = ProcOf[c]
      /\ txn[c].phase = "begin" /\ Idle(c) /\ ~cache[c].heap
      /\ txn[c].first = Null /\ txn[c].size = 0
  BY Zenon DEF StoreInvariant, ConnInv, LockInv, CacheInv, BeginReady
<1>2. /\ txn'[c].phase = "live" /\ txn'[c].first = Null /\ txn'[c].size = 0
      /\ intent'[c] = hist[Len(hist)].map
  BY <1>1 DEF BeginReady, TypeOK, Transaction
<1>3. /\ Views' = [Views EXCEPT ![c] = View(c)']
      /\ \A c2 \in Conn \ {c} : Writing(c2)' = Writing(c2)
  BY <1>1, OneMoves, Zenon
<1>4. WriterIs /\ WriterIs' /\ Shows(c)'
  BY WriterFacts, FactsNext, Zenon
<1>5. Settled(c)' /\ Writing(c)'
  BY <1>1, <1>2, Zenon DEF Settled, Idle, Writing
<1>6. View(c)' = Abstract!Last
  BY <1>1, <1>2, <1>4, <1>5, NewestRevision, Zenon DEF Shows
<1>7. Writer = NoProc
  <2>1. \A c2 \in Conn \ {c} : txn[c2].phase = "none"
    BY <1>1, Alone, Zenon
  <2>2. \A c2 \in Conn : ~Writing(c2)
    BY <1>1, <2>1, Zenon DEF Writing
  <2> QED BY <1>4, <2>2, Zenon DEF WriterIs
<1>8. Writer' = c /\ Revisions' = Revisions
  BY <1>1, <1>4, <1>5, Zenon DEF WriterIs, Revisions
<1> QED BY <1>3, <1>6, <1>7, <1>8, Zenon DEF Abstract!Begin

(* A transaction that has grown is open.                                   *)
LEMMA StillGrowing ==
  ASSUME StoreInvariant, NEW c \in Conn, Growing(c),
         \E m : txn'[c] = Grown(txn[c], Placed(logical[c], 1), logical[c], m)
  PROVE  Writing(c)' /\ txn'[c].phase = "live"
<1>1. TypeOK /\ txn[c] \in Transaction /\ txn[c].phase = "live"
  BY Zenon DEF StoreInvariant, TypeOK, Growing
<1>2. logical[c] \in Nat /\ 0 < logical[c]
  <2>1. txn[c].size \in Nat
    BY <1>1 DEF Transaction
  <2>2. logical[c] = End + txn[c].size
    BY Zenon DEF StoreInvariant, ConnInv, SizeInv
  <2> QED BY <2>1, <2>2, EndFacts
<1>3. Placed(logical[c], 1) \in Nat /\ logical[c] <= Placed(logical[c], 1)
  BY <1>2, PlacedFacts
<1>4. Placed(logical[c], 1) # Null
  BY <1>2, <1>3 DEF Null
<1>5. txn'[c].phase = "live" /\ txn'[c].first # Null
  BY <1>1, <1>4 DEF Grown, Transaction
<1> QED BY <1>5, Zenon DEF Writing

(* A leaf is inserted: the writer reads its own write.                     *)
LEMMA InsertSeen ==
  ASSUME SafeUse, StoreInvariant, StoreInvariant', NEW c \in Conn,
         NEW k \in Key, NEW v \in Val, Insert(c, k, v),
         \A c2 \in Conn \ {c} : Untouched(c2)
  PROVE  Abstract!Put(c, k, v)
<1>1. /\ TypeOK /\ hist' = hist /\ state' = state /\ pend' = pend
      /\ Idle(c) /\ Growing(c) /\ txn[c].phase = "live"
      /\ intent' = [intent EXCEPT ![c][k] = v]
  BY DEF StoreInvariant, Insert, Live, Growing
<1>2. Writing(c) /\ Settled(c)
  BY <1>1 DEF Writing, Settled, Growing
<1>3. Writing(c)' /\ Settled(c)'
  <2>1. \E m : txn'[c] = Grown(txn[c], Placed(logical[c], 1), logical[c], m)
    BY <1>1 DEF Insert, TypeOK
  <2>2. Writing(c)' /\ txn'[c].phase = "live"
    BY <1>1, <2>1, StillGrowing, Zenon
  <2> QED BY <1>1, <2>2, Zenon DEF Settled, Idle
<1>4. /\ Views' = [Views EXCEPT ![c] = View(c)']
      /\ \A c2 \in Conn \ {c} : Writing(c2)' = Writing(c2)
  BY <1>1, OneMoves
<1>5. WriterIs /\ WriterIs' /\ Shows(c) /\ Shows(c)'
  BY WriterFacts, ViewFacts, FactsNext, Zenon
<1>6. View(c) = intent[c] /\ View(c)' = [intent[c] EXCEPT ![k] = v]
  <2>1. intent'[c] = [intent[c] EXCEPT ![k] = v]
    BY <1>1 DEF TypeOK
  <2> QED BY <1>2, <1>3, <1>5, <2>1, Zenon DEF Shows
<1>7. Writer = c /\ Writer' = c /\ Revisions' = Revisions
  BY <1>1, <1>2, <1>3, <1>5, Zenon DEF WriterIs, Revisions
<1>8. Views[c] = View(c)
  BY DEF Views
<1> QED BY <1>4, <1>6, <1>7, <1>8, Zenon DEF Abstract!Put

(* The footer is set: all of the transaction becomes the newest revision,  *)
(* which the connection goes on to show.                                   *)
LEMMA CommitSeen ==
  ASSUME SafeUse, StoreInvariant, StoreInvariant', NEW c \in Conn,
         CommitPublish(c), \A c2 \in Conn \ {c} : Untouched(c2)
  PROVE  Abstract!Commit(c)
<1> DEFINE n == Len(hist)
           e == [pos |-> txn[c].new_footer, map |-> intent[c]]
<1>1. /\ TypeOK /\ HistoryInv /\ state' = state /\ pend' = pend
      /\ cache' = cache /\ Idle(c) /\ txn[c].phase = "commit"
      /\ hist' = Append(hist, e) /\ ~cache[c].heap /\ txn[c].size # 0
  BY Zenon DEF StoreInvariant, ConnInv, CommitInv, CommitPublish
<1>2. /\ txn'[c].phase = "live" /\ txn'[c].first = Null /\ txn'[c].size # 0
      /\ fpos'[c] = txn[c].new_footer
  BY <1>1 DEF CommitPublish, TypeOK, Transaction
<1>3. /\ hist \in Seq(Revision) /\ n \in Nat /\ DOMAIN hist = 1..n
      /\ e \in Revision /\ intent[c] \in [Key -> MaybeVal]
  BY <1>1, SMTT(20) DEF TypeOK, Revision, Transaction
<1>4. /\ \A g \in DOMAIN hist : g \in DOMAIN hist' /\ hist'[g] = hist[g]
      /\ DOMAIN hist' = 1..(n + 1) /\ hist'[n + 1] = e
  <2>1. /\ hist \in Seq(Revision) /\ e \in Revision /\ n \in Nat
        /\ DOMAIN hist = 1..n /\ hist' = Append(hist, e)
    BY <1>1, <1>3, Zenon
  <2> HIDE DEF e
  <2>2. /\ Append(hist, e)[n + 1] = e
        /\ \A g \in 1..n : Append(hist, e)[g] = hist[g]
        /\ DOMAIN Append(hist, e) = 1..(n + 1)
    BY ONLY <2>1, SMTT(20)
  <2>3. \A g \in 1..n : g \in 1..(n + 1)
    <3> HIDE DEF n
    <3>1. n \in Nat
      BY <2>1, Zenon
    <3> QED BY ONLY <3>1, SMTT(20)
  <2> QED BY <2>1, <2>2, <2>3, Zenon
<1>5. Writing(c) /\ Settled(c) /\ ~Writing(c)' /\ Settled(c)'
  BY <1>1, <1>2, Zenon DEF Writing, Settled, Idle
<1>6. /\ Views' = [Views EXCEPT ![c] = View(c)']
      /\ \A c2 \in Conn \ {c} : Writing(c2)' = Writing(c2)
  BY <1>4, OneMoves, Zenon
<1>7. WriterIs /\ WriterIs' /\ Shows(c) /\ Shows(c)'
  BY WriterFacts, ViewFacts, FactsNext, Zenon
<1>8. View(c) = intent[c] /\ View(c)' = intent[c]
  <2>1. n + 1 \in DOMAIN hist' /\ hist'[n + 1].pos = fpos'[c]
        /\ hist'[n + 1].map = intent[c]
    <3>1. /\ DOMAIN hist' = 1..(n + 1) /\ hist'[n + 1] = e /\ n \in Nat
          /\ fpos'[c] = txn[c].new_footer
      BY <1>2, <1>3, <1>4, Zenon
    <3>2. e.pos = txn[c].new_footer /\ e.map = intent[c]
      BY Zenon
    <3> HIDE DEF e, n
    <3>3. n + 1 \in 1..(n + 1)
      <4>1. n \in Nat
        BY <3>1, Zenon
      <4> QED BY ONLY <4>1, SMTT(20)
    <3> QED BY <3>1, <3>2, <3>3, Zenon
  <2> QED BY <1>5, <1>7, <2>1, ZenonT(30) DEF Shows
<1>9. Views' = Views /\ Views[c] = intent[c]
  BY <1>6, <1>8, Zenon DEF Views
<1>10. Writer = c /\ Writer' = NoProc
  BY <1>5, <1>6, <1>7, Zenon DEF WriterIs
<1>11. Revisions' = Append(Revisions, intent[c])
  <2> DEFINE R == Revisions
             A == Append(R, intent[c])
  <2>1. /\ R \in Seq([Key -> MaybeVal]) /\ Len(R) = n
        /\ \A g \in 1..n : R[g] = hist[g].map
    BY <1>1, <1>3, NewestRevision, ZenonT(30) DEF Revisions
  <2>2. /\ A \in Seq([Key -> MaybeVal]) /\ Len(A) = n + 1 /\ A[n + 1] = intent[c]
        /\ \A g \in 1..n : A[g] = R[g]
    <3> DEFINE M == [Key -> MaybeVal]
               w == intent[c]
    <3>1. R \in Seq(M) /\ w \in M /\ n \in Nat /\ Len(R) = n
      BY <1>3, <2>1, Zenon
    <3> HIDE DEF R, M, w, n
    <3>2. /\ Append(R, w) \in Seq(M) /\ Len(Append(R, w)) = n + 1
          /\ Append(R, w)[n + 1] = w /\ \A g \in 1..n : Append(R, w)[g] = R[g]
      BY ONLY <3>1, SMTT(20)
    <3> QED BY <3>2, Zenon DEF M, w
  <2>3. R' = [g \in 1..(n + 1) |-> hist'[g].map]
    BY <1>4, Zenon DEF Revisions
  <2>4. \A g \in 1..(n + 1) : hist'[g].map = A[g]
    <3> SUFFICES ASSUME NEW g \in 1..(n + 1) PROVE hist'[g].map = A[g]
      BY Zenon
    <3>1. g \in 1..n \/ g = n + 1
      <4>1. g \in 1..(n + 1) /\ n \in Nat
        BY <1>3, Zenon
      <4> HIDE DEF n
      <4> QED BY ONLY <4>1, SMTT(20)
    <3>2. e.map = intent[c]
      BY Zenon
    <3> HIDE DEF e, R, A, n
    <3> QED BY <1>3, <1>4, <2>1, <2>2, <3>1, <3>2, Zenon
  <2>5. A = [g \in 1..(n + 1) |-> A[g]]
    <3>1. Len(A) = n + 1 /\ A \in Seq([Key -> MaybeVal])
      BY <2>2, Zenon
    <3> HIDE DEF A, n
    <3> QED BY ONLY <3>1, SMTT(20)
  <2> HIDE DEF R, A
  <2> QED BY <2>3, <2>4, <2>5, Zenon DEF R, A
<1> QED BY <1>9, <1>10, <1>11, Zenon DEF Abstract!Commit

(* A transaction that did not change the index leaves it as it was.        *)
LEMMA UnchangedIndex ==
  ASSUME StoreInvariant, NEW c \in Conn, Growing(c), ~cache[c].heap
  PROVE  intent[c] = hist[Len(hist)].map
<1>1. /\ TypeOK /\ HistoryInv /\ CacheInv(c) /\ LockInv(c)
      /\ txn[c].phase = "live" /\ fpos[c] = footer_pos
      /\ disk \in [Addr -> Object] /\ intent[c] \in [Key -> MaybeVal]
  BY Zenon DEF StoreInvariant, ConnInv, SizeInv, TypeOK, Growing
<1>2. CASE cache[c].loaded
  <2> DEFINE m == IndexMap(disk, footer_pos)
  <2>1. cache[c] = [loaded |-> TRUE, revision |-> get_current_revision(c),
                    heap |-> FALSE, map |-> m]
    BY <1>1, <1>2, ZenonT(30) DEF CacheInv, LockInv
  <2>2. Reads(disk, m, intent[c], logical[c])
    <3>1. Reads(disk, cache[c].map, intent[c], logical[c])
      <4>1. Growing(c) => IF cache[c].loaded
                          THEN /\ cache[c].revision = get_current_revision(c)
                               /\ Reads(disk, cache[c].map, intent[c], logical[c])
                          ELSE intent[c] = hist[Len(hist)].map
        BY <1>1, Zenon DEF CacheInv
      <4> QED BY <1>2, <4>1, Zenon
    <3>2. cache[c].map = m
      <4> HIDE DEF m
      <4> QED BY ONLY <2>1, SMTT(20)
    <3> QED BY <3>1, <3>2, Zenon
  <2>3. /\ footer_pos = hist[Len(hist)].pos /\ Len(hist) \in DOMAIN hist
        /\ End \in Nat
    BY <1>1, HeadFacts, Zenon DEF HistoryInv
  <2>4. hist[Len(hist)].map \in [Key -> MaybeVal]
    BY <1>1, <2>3, RevisionFacts, Zenon
  <2>5. m \in [Key -> Addr] /\ Reads(disk, m, hist[Len(hist)].map, End)
    <3>1. End \in Nat
      BY <2>3, Zenon
    <3>2. End <= End
      BY ONLY <3>1, SMTT(20)
    <3> QED BY <1>1, <2>3, <3>2, HistoryReads, Zenon
  <2> HIDE DEF m
  <2> QED BY <1>1, <2>2, <2>4, <2>5, LookupReads, Zenon
<1>3. CASE ~cache[c].loaded
  BY <1>1, <1>3, Zenon DEF CacheInv
<1> QED BY <1>2, <1>3

(* The transaction ends without a commit: what it had built is gone, and   *)
(* the connection is at the newest revision or shows nothing.              *)
LEMMA AbortSeen ==
  ASSUME SafeUse, StoreInvariant, StoreInvariant', NEW c \in Conn,
         \A c2 \in Conn \ {c} : Untouched(c2), Live(c), Growing(c),
         UNCHANGED <<state, fpos, cache, pend, hist>>,
         ~Writing(c)', txn'[c].phase # "begin"
  PROVE  Abstract!Abort(c)
<1>1. /\ TypeOK /\ HistoryInv /\ Idle(c) /\ fpos[c] = footer_pos
      /\ Writing(c) /\ Settled(c)
  BY Zenon
     DEF StoreInvariant, ConnInv, SizeInv, Growing, Live, Writing, Settled
<1>2. /\ Views' = [Views EXCEPT ![c] = View(c)']
      /\ \A c2 \in Conn \ {c} : Writing(c2)' = Writing(c2)
  BY OneMoves, Zenon
<1>3. WriterIs /\ WriterIs' /\ Shows(c) /\ Shows(c)'
  BY WriterFacts, ViewFacts, FactsNext, Zenon
<1>4. Writer = c /\ Writer' = NoProc /\ Revisions' = Revisions
  BY <1>1, <1>2, <1>3, Zenon DEF WriterIs, Revisions
<1>5. Settled(c)' <=> ~cache[c].heap
  BY <1>1, Zenon DEF Settled, Idle
<1>6. CASE cache[c].heap
  <2>1. View(c)' = NoProc
    BY <1>3, <1>5, <1>6, Zenon DEF Shows
  <2> QED BY <1>2, <1>4, <2>1, Zenon DEF Abstract!Abort
<1>7. CASE ~cache[c].heap
  <2>1. View(c) = hist[Len(hist)].map
    BY <1>1, <1>3, <1>7, UnchangedIndex, Zenon DEF Shows
  <2>2. Len(hist) \in DOMAIN hist /\ hist[Len(hist)].pos = fpos[c]
    BY <1>1, HeadFacts, Zenon DEF HistoryInv
  <2>3. View(c)' = hist[Len(hist)].map
    BY <1>3, <1>5, <1>7, <2>2, Zenon DEF Shows
  <2>4. Views' = Views /\ Views[c] = Abstract!Last
    BY <1>1, <1>2, <2>1, <2>3, NewestRevision, Zenon DEF Views
  <2> QED BY <1>4, <2>4, Zenon DEF Abstract!Abort
<1> QED BY <1>6, <1>7, Zenon

(* A process is killed: nothing of its transactions is seen.               *)
LEMMA CrashSeen ==
  ASSUME SafeUse, StoreInvariant, StoreInvariant', NEW p \in Process, Crash(p)
  PROVE  Abstract!Next
<1> DEFINE C == {c \in Conn : ProcOf[c] = p}
<1>1. Gone(C) /\ TypeOK /\ hist' = hist
  BY Zenon DEF Crash, Gone, StoreInvariant
<1>2. ASSUME NEW c \in C
      PROVE  View(c)' = NoProc /\ ~Writing(c)'
  <2>1. state'[c] = "closed" /\ txn'[c] = NoTxn
    BY <1>1, <1>2, Zenon DEF Gone
  <2>2. ~Settled(c)' /\ ~Writing(c)'
    <3>1. txn'[c].phase = "none"
      <4>1. NoTxn.phase = "none"
        BY Zenon DEF NoTxn
      <4> QED BY <2>1, <4>1, Zenon
    <3> QED BY <2>1, <3>1, Zenon DEF Settled, Idle, Writing
  <2> QED BY <2>2, FactsNext, Zenon DEF Shows
<1>3. ASSUME NEW c \in Conn \ C
      PROVE  View(c)' = View(c) /\ Writing(c)' = Writing(c)
  <2>1. Untouched(c)
    BY <1>1, Zenon DEF Gone, Untouched
  <2> QED BY <1>1, <2>1, ViewKept, Zenon
<1>4. WriterIs /\ WriterIs'
  BY WriterFacts, FactsNext, Zenon
<1>5. Writer' = IF Writer \in C THEN NoProc ELSE Writer
  <2>1. CASE Writer \in C
    <3>1. \A c \in Conn \ C : ~Writing(c)
      BY <1>4, <2>1, Zenon DEF WriterIs
    <3>2. \A c \in Conn : ~Writing(c)'
      BY <1>2, <1>3, <3>1, Zenon
    <3> QED BY <1>4, <2>1, <3>2, Zenon DEF WriterIs
  <2>2. ASSUME NEW c \in Conn \ C, Writing(c)
        PROVE  Writer = c /\ Writer' = c
    BY <1>3, <1>4, <2>2, Zenon DEF WriterIs
  <2>3. CASE \A c \in Conn : ~Writing(c)
    <3>1. \A c \in Conn : ~Writing(c)'
      BY <1>2, <1>3, <2>3, Zenon
    <3> QED BY <1>4, <2>1, <2>3, <3>1, Zenon DEF WriterIs
  <2>4. ASSUME NEW c \in C, Writing(c) PROVE Writer \in C
    BY <1>4, <2>4, Zenon DEF WriterIs
  <2> HIDE DEF C
  <2> QED BY <2>1, <2>2, <2>3, <2>4, Zenon
<1>6. Views' = [c \in Conn |-> IF c \in C THEN NoProc ELSE Views[c]]
  <2>1. \A c \in Conn : View(c)' = IF c \in C THEN NoProc ELSE View(c)
    BY <1>2, <1>3
  <2> HIDE DEF C
  <2> QED BY <2>1 DEF Views
<1>7. Revisions' = Revisions
  BY <1>1 DEF Revisions
<1>8. Abstract!Vanish(C)
  <2> HIDE DEF C
  <2> QED BY <1>5, <1>6, <1>7, Zenon DEF Abstract!Vanish
<1> QED BY <1>8, Zenon DEF Abstract!Next

----------------------------------------------------------------------------
(* Every step of a connection is one that the abstract store can take, or  *)
(* is not seen.                                                            *)
LEMMA ConnSeen ==
  ASSUME SafeUse, StoreInvariant, StoreInvariant', NEW c \in Conn, ConnNext(c)
  PROVE  [Abstract!Next]_(Abstract!avars)
<1>1. /\ TypeOK /\ LockInv(c) /\ SizeInv(c)
      /\ \A c2 \in Conn \ {c} : Untouched(c2)
  BY OthersUntouched DEF StoreInvariant, ConnInv
<1>2. CASE OpenMap(c) \/ OpenFooter(c) \/ Close(c) \/ BeginLock(c)
  <2>1. txn[c].phase = "none" /\ hist' = hist
    BY <1>1, <1>2, Zenon
    DEF OpenMap, OpenFooter, Close, BeginLock, Gone, LockInv
  <2>2. txn'[c].phase \in {"none", "begin"}
    BY <1>1, <1>2, <2>1
    DEF OpenMap, OpenFooter, Close, BeginLock, Gone, NoTxn, TypeOK
  <2> QED BY <1>1, <2>1, <2>2, ReaderMoves, Zenon DEF Writing
<1>3. ASSUME NEW r \in 0..HeadRevision, SyncCall(c, r)
      PROVE  Abstract!Next
  <2>1. txn[c].phase = "none" /\ hist' = hist /\ txn' = txn
    BY <1>3, Zenon DEF SyncCall
  <2> QED BY <1>1, <2>1, ReaderMoves, Zenon DEF Writing
<1>4. CASE SyncLoad(c) \/ SyncApply(c) \/ SyncWalk(c)
  <2>1. txn[c].phase \in {"none", "begin"} /\ hist' = hist
    BY <1>1, <1>4, Zenon
    DEF SyncLoad, SyncApply, SyncWalk, LockInv, TypeOK, Transaction
  <2>2. txn'[c] \in {txn[c], NoTxn}
    BY <1>1, <1>4, Zenon
    DEF SyncLoad, SyncApply, SyncWalk, SyncRaises, SyncReturns, TypeOK
  <2>3. txn'[c].phase \in {"none", "begin"}
    <3>1. NoTxn.phase = "none"
      BY ONLY SMTT(20) DEF NoTxn
    <3> QED BY <2>1, <2>2, <3>1, Zenon
  <2> QED BY <1>1, <2>1, <2>3, ReaderMoves, Zenon DEF Writing
<1>5. CASE BeginReady(c)
  BY <1>1, <1>5, BeginSeen, Zenon DEF Abstract!Next
<1>6. ASSUME NEW n \in AllocSizes, Allocate(c, n, 1)
      PROVE  UNCHANGED Abstract!avars
  <2>1. /\ Growing(c) /\ Live(c)
        /\ UNCHANGED <<state, pend, cache, hist, intent>>
        /\ \E m : txn'[c] = Grown(txn[c], Placed(logical[c], 1), logical[c], m)
    BY <1>1, <1>6, Zenon DEF Allocate, Growing, Live, SafeUse, TypeOK
  <2>2. Writing(c)' /\ txn'[c].phase = "live"
    BY <2>1, StillGrowing, Zenon
  <2> QED BY <1>1, <2>1, <2>2, WriterRests, Zenon
          DEF Writing, Growing, Live, Settled, Idle
<1>7. CASE LoadIndex(c)
  <2>1. /\ Idle(c) /\ txn[c].phase \in {"none", "live"}
        /\ UNCHANGED <<state, pend, txn, hist, intent>>
    BY <1>7, Zenon DEF LoadIndex
  <2>2. CASE Writing(c)
    BY <1>1, <2>1, <2>2, WriterRests, Zenon DEF Writing, Settled, Idle
  <2>3. CASE ~Writing(c)
    BY <1>1, <2>1, <2>3, ReaderMoves, Zenon DEF Writing
  <2> QED BY <2>2, <2>3
<1>8. ASSUME NEW k \in Key, NEW v \in Val, Insert(c, k, v)
      PROVE  Abstract!Next
  BY <1>1, <1>8, InsertSeen, Zenon DEF Abstract!Next
<1>9. CASE CommitWrite(c)
  <2>1. /\ Growing(c) /\ Live(c) /\ UNCHANGED <<state, pend, hist, intent>>
        /\ \E a, m, p :
             txn' = [txn EXCEPT ![c] = [Grown(txn[c], a, logical[c], m) EXCEPT
                                         !.phase = "commit", !.new_footer = p]]
    BY <1>9, Zenon DEF CommitWrite, Growing, Live
  <2>2. txn'[c].phase = "commit"
    BY <1>1, <2>1 DEF TypeOK, Grown, Transaction
  <2> QED BY <1>1, <2>1, <2>2, WriterRests, Zenon
          DEF Writing, Growing, Live, Settled, Idle
<1>10. CASE CommitPublish(c)
  BY <1>1, <1>10, CommitSeen, Zenon DEF Abstract!Next
<1>11. CASE Rollback(c)
  <2>1. /\ Growing(c) /\ Live(c) /\ txn[c].size # 0
        /\ UNCHANGED <<state, fpos, cache, pend, hist>>
    BY <1>1, <1>11, Zenon DEF Rollback, Growing, Live, SizeInv
  <2>2. /\ txn'[c].phase = "live" /\ txn'[c].first = Null
        /\ txn'[c].size = txn[c].size
    BY <1>1, <1>11, <2>1, Zenon DEF Rollback, TypeOK, Transaction, Live
  <2>3. ~Writing(c)' /\ txn'[c].phase # "begin"
    BY <2>1, <2>2, Zenon DEF Writing
  <2> QED BY <1>1, <2>1, <2>3, AbortSeen, Zenon DEF Abstract!Next
<1>12. CASE EndTransaction(c)
  <2>1. /\ Live(c) /\ UNCHANGED <<state, fpos, cache, pend, hist>>
        /\ txn'[c] = NoTxn
    BY <1>1, <1>12, Zenon DEF EndTransaction, TypeOK
  <2>2. ~Writing(c)' /\ txn'[c].phase # "begin"
    <3>0. txn'[c] = NoTxn
      BY <2>1, Zenon
    <3>1. txn'[c].phase = "none"
      <4>1. NoTxn.phase = "none"
        BY Zenon DEF NoTxn
      <4> QED BY <3>0, <4>1, Zenon
    <3> QED BY <3>1, Zenon DEF Writing
  <2>3. CASE Growing(c)
    BY <1>1, <2>1, <2>2, <2>3, AbortSeen, Zenon DEF Abstract!Next
  <2>4. CASE ~Growing(c)
    BY <1>1, <2>1, <2>2, <2>4, ReaderMoves, Zenon DEF Writing, Growing, Live
  <2> QED BY <2>3, <2>4, Zenon
<1> QED BY <1>2, <1>3, <1>4, <1>5, <1>6, <1>7, <1>8, <1>9, <1>10, <1>11,
           <1>12, Zenon
        DEF ConnNext

(* A new store has one empty revision and nobody looks at it.              *)
LEMMA InitSeen ==
  ASSUME SafeUse, Init
  PROVE  Abstract!Init
<1>1. StoreInvariant
  BY InitInvariant
<1>2. Revisions = <<[k \in Key |-> NoVal]>>
  <2> DEFINE e == [pos |-> LeaderSize, map |-> Empty]
  <2>1. hist = <<e>>
    BY Zenon DEF Init
  <2>2. e.map = [k \in Key |-> NoVal]
    BY Zenon DEF Empty
  <2> HIDE DEF e
  <2>3. [g \in DOMAIN <<e>> |-> <<e>>[g].map] = <<e.map>>
    BY ONLY SMTT(20)
  <2> QED BY <2>1, <2>2, <2>3, Zenon DEF Revisions
<1>3. \A c \in Conn : ~Settled(c) /\ ~Writing(c)
  BY Zenon DEF Init, Settled, Idle, Writing, NoTxn
<1>4. Views = [c \in Conn |-> NoProc]
  BY <1>1, <1>3, ViewFacts, Zenon DEF Views, Shows
<1>5. Writer = NoProc
  BY <1>3 DEF Writer
<1> QED BY <1>2, <1>4, <1>5, Zenon DEF Abstract!Init

(* The store implements its abstract specification.                        *)
THEOREM RevisionStoreImplemented ==
  ASSUME SafeUse
  PROVE  Spec => ImplementsRevisionStore
<1>1. Init => Abstract!Init
  BY InitSeen
<1>2. StoreInvariant /\ StoreInvariant' /\ [Next]_vars
        => [Abstract!Next]_(Abstract!avars)
  <2> SUFFICES ASSUME StoreInvariant, StoreInvariant', [Next]_vars
               PROVE  [Abstract!Next]_(Abstract!avars)
    OBVIOUS
  <2>1. CASE UNCHANGED vars
    <3>1. UNCHANGED <<Revisions, Writer, Views>>
      BY <2>1, Zenon DEF vars, Revisions, Writer, Views, View, Writing, Idle, Lookup,
                  get_index, get_current_revision
    <3> QED BY <3>1, SMTT(20) DEF Abstract!avars
  <2>2. CASE \E c \in Conn : ConnNext(c)
    BY <2>2, ConnSeen
  <2>3. CASE \E p \in Process : Crash(p)
    BY <2>3, CrashSeen, Zenon
  <2> QED BY <2>1, <2>2, <2>3, Zenon DEF Next
<1> QED BY <1>1, <1>2, StoreInvariantHolds, PTL
        DEF Spec, ImplementsRevisionStore, Abstract!Spec

-----------------------------------------------------------------------------
(* What is mapped.                                                         *)

(* A connection that is not closed has one region, with room for the       *)
(* largest store.                                                          *)
WholeMapped(R, s) == s = "closed" \/ \E r \in Nat : MaxSize <= r /\ R = {r}
MapInv == \A c \in Conn : WholeMapped(regions[c], state[c])

(* map_bytes leaves such a region alone.                                   *)
LEMMA MapKept ==
  ASSUME NEW r \in Nat, MaxSize <= r, NEW n \in Addr
  PROVE  map_bytes({r}, n) = {r}
<1>1. n \in Nat /\ n <= r /\ ~(n > r) /\ ~(r < r)
  BY SizeFacts DEF Addr
<1>2. RegionsEnd({r}) = r
  <2>1. r <= r
    OBVIOUS
  <2> QED BY <2>1 DEF RegionsEnd
<1>3. {b \in {r} : \A b2 \in {r} : b2 < b => b2 <= n} = {r}
  BY <1>1, Zenon
<1> QED BY <1>1, <1>2, <1>3, Zenon DEF map_bytes

(* A connection maps the size it is to have.                               *)
LEMMA Remap ==
  ASSUME regions \in [Conn -> SUBSET Nat], MapInv, NEW c \in Conn, state[c] # "closed",
         NEW n \in Addr, state' = state,
         regions' = [regions EXCEPT ![c] = map_bytes(regions[c], n)]
  PROVE  MapInv' /\ map_bytes(regions[c], n) = regions[c]
<1>1. PICK r \in Nat : MaxSize <= r /\ regions[c] = {r}
  BY Zenon DEF MapInv, WholeMapped
<1>2. map_bytes(regions[c], n) = regions[c]
  BY <1>1, MapKept, Zenon
<1>3. regions' = regions
  <2> DEFINE R == map_bytes(regions[c], n)
  <2>1. R = regions[c] /\ regions' = [regions EXCEPT ![c] = R]
    BY <1>2, Zenon
  <2> HIDE DEF R
  <2> QED BY <2>1
<1>4. MapInv'
  BY <1>3 DEF MapInv
<1> QED BY <1>2, <1>4, Zenon

(* The sizes that a connection maps are sizes a store may have.            *)
LEMMA ConnMaps ==
  ASSUME SafeUse, ~SmallFiles, StoreInvariant, StoreInvariant', MapInv,
         NEW c \in Conn, ConnNext(c)
  PROVE  MapInv'
<1>1. /\ TypeOK /\ regions \in [Conn -> SUBSET Nat] /\ state \in [Conn -> {"closed", "mapped", "open"}]
      /\ logical \in [Conn -> Addr] /\ txn \in [Conn -> Transaction]
      /\ pend \in [Conn -> SyncProgress] /\ file_size \in Nat /\ MaxSize <= file_size
  BY Zenon DEF StoreInvariant, TypeOK, FileInv
<1>2. logical'[c] \in Addr
  <2>1. logical' \in [Conn -> Addr]
    BY Zenon DEF StoreInvariant, TypeOK
  <2> QED BY <2>1, Zenon
<1>3. CASE UNCHANGED <<regions, state>>
  BY <1>3 DEF MapInv
<1>4. CASE OpenMap(c)
  <2> DEFINE r == round_up(file_size)
  <2>1. r \in Nat /\ MaxSize <= r
    BY <1>1, SizeFacts, RoundUpFacts DEF SafeUse
  <2> HIDE DEF r
  <2>2. regions' = [regions EXCEPT ![c] = {r}] /\ state' = [state EXCEPT ![c] = "mapped"]
    BY <1>4, Zenon DEF OpenMap, r
  <2>3. regions'[c] = {r} /\ \A d \in Conn : d # c => regions'[d] = regions[d] /\ state'[d] = state[d]
    BY <1>1, <2>2
  <2> QED BY <2>1, <2>3, Zenon DEF MapInv, WholeMapped
<1>5. CASE OpenFooter(c)
  <2>1. /\ state[c] = "mapped"
        /\ \/ state' = [state EXCEPT ![c] = "open"] /\ regions' = regions
           \/ state' = [state EXCEPT ![c] = "closed"] /\ regions' = [regions EXCEPT ![c] = {}]
    BY <1>5, Zenon DEF OpenFooter
  <2>2. /\ state'[c] = "closed" \/ regions'[c] = regions[c]
        /\ \A d \in Conn : d # c => regions'[d] = regions[d] /\ state'[d] = state[d]
    BY <1>1, <2>1
  <2>3. state[c] # "closed"
    BY <2>1
  <2> QED BY <2>2, <2>3, Zenon DEF MapInv, WholeMapped
<1>6. CASE Close(c)
  <2>1. /\ state' = [d \in Conn |-> IF d \in {c} THEN "closed" ELSE state[d]]
        /\ regions' = [d \in Conn |-> IF d \in {c} THEN {} ELSE regions[d]]
    BY <1>6, Zenon DEF Close, Gone
  <2>2. state'[c] = "closed" /\ \A d \in Conn : d # c => regions'[d] = regions[d] /\ state'[d] = state[d]
    BY <2>1
  <2> QED BY <2>2, Zenon DEF MapInv, WholeMapped
<1>7. CASE SyncApply(c)
  <2> DEFINE n == pend[c].pos + TrailerSize
  <2>1. CASE UNCHANGED regions
    BY <1>3, <1>7, <2>1, Zenon DEF SyncApply
  <2>2. CASE ~UNCHANGED regions
    <3>1. /\ regions' = [regions EXCEPT ![c] = map_bytes(regions[c], n)]
          /\ logical' = [logical EXCEPT ![c] = max(logical[c], n)] /\ state' = state
      BY <1>7, <2>2, Zenon DEF SyncApply
    <3>2. state[c] # "closed"
      <4>1. pend[c].phase = "apply" /\ LockInv(c)
        BY <1>7, Zenon DEF SyncApply, StoreInvariant, ConnInv
      <4> QED BY <4>1, Zenon DEF LockInv
    <3>3. pend[c].pos \in Addr /\ logical[c] \in Addr
      BY <1>1 DEF SyncProgress
    <3>4. max(logical[c], n) \in Addr
      BY <1>1, <1>2, <3>1
    <3>5. n \in Addr
      BY <3>3, <3>4, SizeFacts DEF Addr, max
    <3> HIDE DEF n
    <3> QED BY <1>1, <3>1, <3>2, <3>5, Remap, Zenon
  <2> QED BY <2>1, <2>2, Zenon
<1>8. ASSUME Live(c) PROVE state[c] # "closed"
  BY <1>8 DEF Live, Idle
<1>9. ASSUME Live(c), NEW n, logical' = [logical EXCEPT ![c] = n], state' = state,
             regions' = [regions EXCEPT ![c] = map_bytes(regions[c], n)]
      PROVE  MapInv'
  <2>1. n \in Addr
    BY <1>1, <1>2, <1>9
  <2> QED BY <1>1, <1>8, <1>9, <2>1, Remap, Zenon
<1>10. ASSUME NEW n, Allocate(c, n, 1) PROVE MapInv'
  <2> DEFINE m == Placed(logical[c], 1) + n
  <2>1. Live(c) /\ logical' = [logical EXCEPT ![c] = m] /\ state' = state
        /\ regions' = [regions EXCEPT ![c] = map_bytes(regions[c], m)]
    BY <1>10, Zenon DEF Allocate
  <2> HIDE DEF m
  <2> QED BY <1>9, <2>1, Zenon
<1>11. ASSUME NEW k, NEW v, Insert(c, k, v) PROVE MapInv'
  <2> DEFINE m == Placed(logical[c], 1) + LeafSize
  <2>1. Live(c) /\ logical' = [logical EXCEPT ![c] = m] /\ state' = state
        /\ regions' = [regions EXCEPT ![c] = map_bytes(regions[c], m)]
    BY <1>11, Zenon DEF Insert
  <2> HIDE DEF m
  <2> QED BY <1>9, <2>1, Zenon
<1>12. CASE Rollback(c) \/ EndTransaction(c)
  <2>1. Live(c) /\ Undo(c) /\ state' = state
    BY <1>12, Zenon DEF Rollback, EndTransaction
  <2> DEFINE m == txn[c].dbsize
  <2>2. CASE UNCHANGED regions
    BY <1>3, <2>1, <2>2, Zenon
  <2>3. CASE ~UNCHANGED regions
    <3>1. logical' = [logical EXCEPT ![c] = m]
          /\ regions' = [regions EXCEPT ![c] = map_bytes(regions[c], m)]
      BY <2>1, <2>3, Zenon DEF Undo
    <3> HIDE DEF m
    <3> QED BY <1>9, <2>1, <3>1, Zenon
  <2> QED BY <2>2, <2>3, Zenon
<1>13. CASE CommitWrite(c)
  <2> DEFINE index == get_index(c, FALSE)
             a == Placed(logical[c], WordAlign)
             l == IF index.loaded THEN a + HeaderBlockSize ELSE logical[c]
             m == Placed(l, WordAlign) + TrailerSize
             R == IF index.loaded THEN map_bytes(regions[c], l) ELSE regions[c]
  <2>1. /\ Live(c) /\ m <= MaxSize /\ state' = state
        /\ logical' = [logical EXCEPT ![c] = m]
        /\ regions' = [regions EXCEPT ![c] = map_bytes(R, m)]
    BY <1>13, Zenon DEF CommitWrite
  <2>2. a \in Nat /\ logical[c] \in Nat /\ logical[c] <= a
    <3>1. logical[c] \in Nat
      BY <1>1 DEF Addr
    <3> QED BY <3>1, SizeFacts, PlacedFacts, Zenon
  <2> HIDE DEF a, index
  <2>3. l \in Nat
    BY <2>2, SizeFacts
  <2> HIDE DEF l
  <2>4. l \in Addr
    <3>1. Placed(l, WordAlign) \in Nat /\ l <= Placed(l, WordAlign)
      BY <2>3, SizeFacts, PlacedFacts, Zenon
    <3> QED BY <2>1, <2>3, <3>1, SizeFacts DEF Addr
  <2>5. PICK r \in Nat : MaxSize <= r /\ regions[c] = {r}
    BY <1>8, <2>1, Zenon DEF MapInv, WholeMapped
  <2>6. R = regions[c]
    BY <2>4, <2>5, MapKept, Zenon
  <2> HIDE DEF R, m
  <2>7. regions' = [regions EXCEPT ![c] = map_bytes(regions[c], m)]
    BY <2>1, <2>6, Zenon
  <2> QED BY <1>9, <2>1, <2>7, Zenon
<1>14. ASSUME \/ \E r \in 0..HeadRevision : SyncCall(c, r)
              \/ SyncLoad(c) \/ SyncWalk(c) \/ BeginLock(c) \/ BeginReady(c)
              \/ LoadIndex(c) \/ CommitPublish(c)
       PROVE  UNCHANGED <<regions, state>>
  BY <1>14, Zenon DEF SyncCall, SyncLoad, SyncWalk, BeginLock, BeginReady, LoadIndex,
                      CommitPublish
<1> QED BY <1>3, <1>4, <1>5, <1>6, <1>7, <1>10, <1>11, <1>12, <1>13, <1>14, Zenon
        DEF ConnNext

(* Where the store fits the smallest region, what a connection may address *)
(* is mapped and is in the file, whatever other processes do to it between *)
(* the halves of open, between two syncs or after a crash.                 *)
THEOREM MappingCoversStore ==
  ASSUME SafeUse, ~SmallFiles
  PROVE  Spec => []MappedCovers
<1>1. Init => MapInv
  <2>1. Init => \A c \in Conn : state[c] = "closed"
    BY Zenon DEF Init
  <2> QED BY <2>1, Zenon DEF MapInv, WholeMapped
<1>2. StoreInvariant /\ StoreInvariant' /\ MapInv /\ [Next]_vars => MapInv'
  <2> SUFFICES ASSUME StoreInvariant, StoreInvariant', MapInv, [Next]_vars
               PROVE  MapInv'
    OBVIOUS
  <2>1. CASE UNCHANGED vars
    BY <2>1, Zenon DEF vars, MapInv
  <2>2. ASSUME NEW c \in Conn, ConnNext(c) PROVE MapInv'
    BY <2>2, ConnMaps, Zenon
  <2>3. ASSUME NEW p \in Process, Crash(p) PROVE MapInv'
    <3> DEFINE C == {c \in Conn : ProcOf[c] = p}
    <3>1. /\ state' = [c \in Conn |-> IF c \in C THEN "closed" ELSE state[c]]
          /\ regions' = [c \in Conn |-> IF c \in C THEN {} ELSE regions[c]]
      BY <2>3, Zenon DEF Crash, Gone
    <3> HIDE DEF C
    <3>2. \A c \in Conn : state'[c] = "closed" \/ (state'[c] = state[c] /\ regions'[c] = regions[c])
      BY <3>1
    <3> QED BY <3>2, Zenon DEF MapInv, WholeMapped
  <2> QED BY <2>1, <2>2, <2>3, Zenon DEF Next
<1>3. StoreInvariant /\ MapInv => MappedCovers
  <2> SUFFICES ASSUME StoreInvariant, MapInv, NEW c \in Conn, Idle(c)
               PROVE  logical[c] <= RegionsEnd(regions[c]) /\ logical[c] <= file_size
    BY Zenon DEF MappedCovers
  <2>1. /\ logical \in [Conn -> Addr] /\ file_size \in Nat /\ MaxSize <= file_size
    BY Zenon DEF StoreInvariant, TypeOK, FileInv
  <2>2. state[c] # "closed"
    BY DEF Idle
  <2>3. PICK r \in Nat : MaxSize <= r /\ regions[c] = {r}
    BY <2>2, Zenon DEF MapInv, WholeMapped
  <2>4. RegionsEnd({r}) = r
    <3>1. r <= r
      OBVIOUS
    <3> QED BY <3>1 DEF RegionsEnd
  <2>5. logical[c] \in Nat /\ logical[c] <= MaxSize
    BY <2>1, SizeFacts DEF Addr
  <2>6. logical[c] <= r /\ logical[c] <= file_size
    BY <2>1, <2>3, <2>5, SizeFacts
  <2> QED BY <2>3, <2>4, <2>6, Zenon
<1> QED BY <1>1, <1>2, <1>3, StoreInvariantHolds, PTL DEF Spec
============================================================================
