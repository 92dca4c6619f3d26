-------------------------- MODULE StoreReadProofs --------------------------
(* The facts about the file that the proofs about Store rest on, and that  *)
(* its inductive invariant, StoreInvariant, is established by Init and     *)
(* preserved by the steps that do not grow the store: opening and closing  *)
(* a connection, losing its process, sync(), the start of a transaction    *)
(* and loading an index.                                                   *)
EXTENDS StoreInv, TLAPS

(* The sizes are positive and every address is a natural number.           *)
LEMMA SizeFacts ==
  /\ LeaderSize \in Nat /\ LeaderSize > 0
  /\ TrailerSize \in Nat /\ TrailerSize > 0
  /\ HeaderBlockSize \in Nat /\ HeaderBlockSize > 0
  /\ LeafSize \in Nat /\ LeafSize > 0
  /\ WordAlign \in Nat /\ WordAlign > 0
  /\ MinRegion \in Nat /\ MinRegion > 0
  /\ MaxSize \in Nat /\ MaxGeneration \in Nat
  /\ LeaderSize + TrailerSize <= MaxSize
  /\ Addr \subseteq Nat
BY ConstantsAssumption DEF Addr

(* Every object has a size; only Free has none.                            *)
LEMMA ObjectBytes ==
  ASSUME NEW o \in Object
  PROVE  /\ o.bytes \in Nat
         /\ o.kind = "trailer" => o \in Trailer
         /\ o.kind = "index" => o \in HeaderBlock
         /\ o.kind = "leaf" => o \in Leaf
BY SizeFacts DEF Object, Free, Trailer, HeaderBlock, Leaf

(* A step that changes nothing keeps the invariant.                        *)
LEMMA StutterStep ==
  ASSUME StoreInvariant, UNCHANGED vars
  PROVE  StoreInvariant'
<1>1. TypeOK'
  BY DEF vars, StoreInvariant, TypeOK
<1>2. HistoryInv'
  BY DEF vars, StoreInvariant, HistoryInv, End
<1>3. FileInv'
  BY DEF vars, StoreInvariant, FileInv
<1>4. ASSUME NEW c \in Conn PROVE ConnInv(c)'
  BY Zenon
     DEF vars, StoreInvariant, ConnInv, LockInv, SyncInv, SizeInv, CacheInv,
         CommitInv, InHist, Growing, End, get_current_revision
<1> QED BY <1>1, <1>2, <1>3, <1>4 DEF StoreInvariant

(* What Write yields: an object below a that does not reach a stays, and   *)
(* nothing that starts below the end of the new object reaches beyond it.  *)
LEMMA WriteFacts ==
  ASSUME NEW d \in [Addr -> Object], NEW a \in Addr, NEW o \in Object,
         o.bytes > 0
  PROVE  /\ Write(d, a, o) \in [Addr -> Object]
         /\ Write(d, a, o)[a] = o
         /\ \A x \in Addr : x < a /\ x + d[x].bytes <= a
                              => Write(d, a, o)[x] = d[x]
         /\ EndsBelow(Write(d, a, o), a + o.bytes)
         /\ \A n \in Nat : n <= a /\ EndsBelow(d, n)
              => /\ EndsBelow(Write(d, a, o), n)
                 /\ \A x \in Addr : x < n => Write(d, a, o)[x] = d[x]
         /\ \A x \in Addr : Write(d, a, o)[x] \in {Free, d[x], o}
<1>1. Free \in Object /\ Free.bytes = 0
  BY DEF Object, Free
<1>2. \A x \in Addr : d[x].bytes \in Nat /\ d[x] \in Object
  BY ObjectBytes
<1>3. a \in Nat /\ o.bytes \in Nat
  BY ObjectBytes, SizeFacts
<1>4. \A x \in Addr : x \in Nat
  BY SizeFacts
<1>5. Write(d, a, o) \in [Addr -> Object] /\ Write(d, a, o)[a] = o
  BY <1>1, <1>2 DEF Write
<1>6. \A x \in Addr : x < a /\ x + d[x].bytes <= a
                              => Write(d, a, o)[x] = d[x]
  BY <1>2, <1>3, <1>4 DEF Write
<1>7. EndsBelow(Write(d, a, o), a + o.bytes)
  BY <1>1, <1>2, <1>3, <1>4 DEF Write, EndsBelow
<1>8. ASSUME NEW n \in Nat, n <= a, EndsBelow(d, n)
      PROVE  /\ EndsBelow(Write(d, a, o), n)
             /\ \A x \in Addr : x < n => Write(d, a, o)[x] = d[x]
  <2>1. \A x \in Addr : x < n => Write(d, a, o)[x] = d[x]
    BY <1>2, <1>3, <1>4, <1>6, <1>8 DEF EndsBelow
  <2> QED BY <2>1, <1>8 DEF EndsBelow
<1>9. \A x \in Addr : Write(d, a, o)[x] \in {Free, d[x], o}
  BY DEF Write
<1> QED BY <1>5, <1>6, <1>7, <1>8, <1>9

(* What Truncated yields: what ends below n stays.                         *)
LEMMA TruncatedFacts ==
  ASSUME NEW d \in [Addr -> Object], NEW n \in Nat
  PROVE  /\ Truncated(d, n) \in [Addr -> Object]
         /\ \A x \in Addr : x + d[x].bytes <= n => Truncated(d, n)[x] = d[x]
         /\ \A x \in Addr : Truncated(d, n)[x] \in {Free, d[x]}
         /\ \A x \in Addr : Truncated(d, n)[x] = Free
                              \/ x + Truncated(d, n)[x].bytes <= n
         /\ (\A x \in Addr : d[x] = Free \/ x + d[x].bytes <= n)
              => Truncated(d, n) = d
         /\ \A e \in Nat : e <= n /\ EndsBelow(d, e)
              => /\ EndsBelow(Truncated(d, n), e)
                 /\ \A x \in Addr : x < e => Truncated(d, n)[x] = d[x]
<1>1. Free \in Object /\ Free.bytes = 0
  BY DEF Object, Free
<1>2. \A x \in Addr : d[x].bytes \in Nat /\ d[x] \in Object /\ x \in Nat
  BY ObjectBytes, SizeFacts
<1>3. Truncated(d, n) \in [Addr -> Object]
  BY <1>1, <1>2 DEF Truncated
<1>4. /\ \A x \in Addr : x + d[x].bytes <= n => Truncated(d, n)[x] = d[x]
      /\ \A x \in Addr : Truncated(d, n)[x] \in {Free, d[x]}
      /\ \A x \in Addr : Truncated(d, n)[x] = Free
                              \/ x + Truncated(d, n)[x].bytes <= n
  BY <1>1, <1>2 DEF Truncated
<1>5. ASSUME \A x \in Addr : d[x] = Free \/ x + d[x].bytes <= n
      PROVE  Truncated(d, n) = d
  <2>1. \A x \in Addr : Truncated(d, n)[x] = d[x]
    BY <1>5, <1>4
  <2> QED BY <2>1, <1>3
<1>6. ASSUME NEW e \in Nat, e <= n, EndsBelow(d, e)
      PROVE  /\ EndsBelow(Truncated(d, n), e)
             /\ \A x \in Addr : x < e => Truncated(d, n)[x] = d[x]
  <2>1. \A x \in Addr : x < e => Truncated(d, n)[x] = d[x]
    BY <1>2, <1>4, <1>6 DEF EndsBelow
  <2> QED BY <2>1, <1>6 DEF EndsBelow
<1> QED BY <1>3, <1>4, <1>5, <1>6

(* calc_alignment moves an address up to the next multiple.                *)
LEMMA PlacedFacts ==
  ASSUME NEW l \in Nat, NEW align \in Nat, align > 0
  PROVE  /\ Placed(l, align) \in Nat
         /\ l <= Placed(l, align)
         /\ Placed(l, align) % align = 0
<1> DEFINE q == l \div align
           r == l % align
<1>1. q \in Nat /\ r \in Nat /\ r < align /\ l = align * q + r
  BY SMT
<1>2. CASE r = 0
  BY <1>1, <1>2 DEF Placed, calc_alignment
<1>3. CASE r # 0
  <2>1. Placed(l, align) = align * (q + 1)
    BY <1>1, <1>3 DEF Placed, calc_alignment
  <2>2. (align * (q + 1)) % align = 0
    BY <1>1, SMT
  <2> QED BY <1>1, <1>3, <2>1, <2>2 DEF Placed, calc_alignment
<1> QED BY <1>2, <1>3

(* A region is never smaller than the minimum.                             *)
LEMMA RoundUpFacts ==
  ASSUME NEW n \in Nat
  PROVE  round_up(n) \in Nat /\ (n > 0 => MinRegion <= round_up(n))
<1> DEFINE q == (n + MinRegion - 1) \div MinRegion
<1>1. MinRegion \in Nat /\ MinRegion > 0
  BY SizeFacts
<1>2. q \in Nat /\ (n > 0 => q >= 1)
  BY <1>1, SMT
<1>3. MinRegion * q \in Nat /\ (n > 0 => MinRegion <= MinRegion * q)
  BY <1>1, <1>2, SMT
<1> QED BY <1>3 DEF round_up

(* Mapping n bytes does not cut the file in safe use.                      *)
LEMMA FileFacts ==
  ASSUME SafeUse, NEW R, NEW n \in Nat, 0 < n, n <= MaxSize,
         NEW size \in Nat, SmallFiles \/ MaxSize <= size
  PROVE  /\ FileAfterMap(R, n, size) \in Nat
         /\ FileAfterResize(R, n, size) \in Nat
         /\ SmallFiles => FileAfterMap(R, n, size) = size
         /\ SmallFiles => FileAfterResize(R, n, size) = n
         /\ ~SmallFiles => /\ MaxSize <= FileAfterMap(R, n, size)
                           /\ MaxSize <= FileAfterResize(R, n, size)
BY RoundUpFacts, SizeFacts DEF SafeUse, FileAfterMap, FileAfterResize

(* Regions end at natural numbers.                                         *)
LEMMA RegionFacts ==
  ASSUME NEW R \in SUBSET Nat, NEW n \in Nat
  PROVE  map_bytes(R, n) \in SUBSET Nat
<1>1. R \cup {round_up(n)} \subseteq Nat
  BY RoundUpFacts, Zenon
<1> QED BY <1>1, Zenon, Zenon DEF map_bytes

(* The leaves of an index stay readable when nothing below e changes.      *)
LEMMA ReadsSame ==
  ASSUME NEW d \in [Addr -> Object], NEW d2 \in [Addr -> Object],
         NEW e \in Nat, \A x \in Addr : x < e => d2[x] = d[x],
         NEW m \in [Key -> Addr], NEW w \in [Key -> MaybeVal],
         Reads(d, m, w, e)
  PROVE  Reads(d2, m, w, e)
<1>1. ASSUME NEW k \in Key, m[k] # Null, m[k] + LeafSize <= e
      PROVE  d2[m[k]] = d[m[k]]
  <2>1. m[k] \in Addr /\ m[k] \in Nat
    BY SizeFacts, Zenon
  <2>2. m[k] < e
    BY <1>1, <2>1, SizeFacts
  <2> QED BY <2>1, <2>2
<1> QED BY <1>1 DEF Reads

(* Reading from fewer addresses than allowed is fine.                      *)
LEMMA ReadsWider ==
  ASSUME NEW d \in [Addr -> Object], NEW m \in [Key -> Addr],
         NEW w \in [Key -> MaybeVal], NEW n \in Nat, NEW n2 \in Nat, n <= n2,
         Reads(d, m, w, n)
  PROVE  Reads(d, m, w, n2)
<1>1. \A k \in Key : m[k] \in Nat
  BY SizeFacts, Zenon
<1> QED BY <1>1, SizeFacts DEF Reads

(* What is stored below e stays stored when nothing below e changes.       *)
LEMMA StoredSame ==
  ASSUME NEW d \in [Addr -> Object], NEW d2 \in [Addr -> Object],
         NEW e \in Nat, \A x \in Addr : x < e => d2[x] = d[x],
         NEW pos \in Addr, pos < e, d[pos].kind = "trailer",
         NEW w \in [Key -> MaybeVal], Stored(d, pos, w)
  PROVE  Stored(d2, pos, w) /\ IndexMap(d2, pos) = IndexMap(d, pos)
<1> DEFINE i == d[pos].index_record
<1>1. d2[pos] = d[pos] /\ i \in Addr
  BY ObjectBytes DEF Trailer
<1>2. CASE i = Null
  BY <1>1, <1>2 DEF Stored, IndexMap
<1>3. CASE i # Null
  <2>1. i < e /\ i + HeaderBlockSize <= pos /\ d[i].kind = "index"
    <3>1. i \in Nat /\ pos \in Nat
      BY <1>1, SizeFacts, Zenon
    <3>2. i + HeaderBlockSize <= pos /\ d[i].kind = "index"
      BY <1>3 DEF Stored
    <3> QED BY <3>1, <3>2, SizeFacts
  <2>2. d2[i] = d[i] /\ d[i].map \in [Key -> Addr]
    BY <1>1, <2>1, ObjectBytes DEF HeaderBlock
  <2>3. Reads(d, d[i].map, w, pos)
    BY <1>3 DEF Stored
  <2>4. pos \in Nat /\ \A x \in Addr : x < pos => d2[x] = d[x]
    BY SizeFacts
  <2>5. Reads(d2, d[i].map, w, pos)
    BY <2>2, <2>3, <2>4, ReadsSame
  <2> QED BY <1>1, <1>3, <2>1, <2>2, <2>5 DEF Stored, IndexMap
<1> QED BY <1>2, <1>3
----------------------------------------------------------------------------
(* The committed trailers are where the history says.                      *)
LEMMA HeadFacts ==
  ASSUME TypeOK, HistoryInv
  PROVE  /\ footer_pos \in Addr /\ footer_pos \in Nat
         /\ End \in Nat /\ End = footer_pos + TrailerSize /\ 0 < End
         /\ Len(hist) \in Nat /\ DOMAIN hist = 1..Len(hist)
         /\ Len(hist) \in DOMAIN hist /\ 1 \in DOMAIN hist
         /\ \A g \in DOMAIN hist :
              /\ hist[g].pos \in Addr /\ hist[g].pos \in Nat
              /\ hist[g].map \in [Key -> MaybeVal]
              /\ LeaderSize <= hist[g].pos /\ hist[g].pos <= footer_pos
              /\ hist[g].pos < End
              /\ disk[hist[g].pos].kind = "trailer"
              /\ disk[hist[g].pos] \in Trailer
              /\ disk[hist[g].pos].generation = g - 1
         /\ disk[footer_pos].generation = Len(hist) - 1
<1>1. /\ Len(hist) \in Nat /\ DOMAIN hist = 1..Len(hist)
      /\ Len(hist) \in DOMAIN hist /\ 1 \in DOMAIN hist
      /\ \A g \in DOMAIN hist : hist[g] \in Revision
  BY SizeFacts DEF TypeOK, HistoryInv
<1>2. /\ footer_pos \in Addr /\ footer_pos \in Nat
      /\ End \in Nat /\ End = footer_pos + TrailerSize /\ 0 < End
  BY SizeFacts DEF TypeOK, End
<1>3. ASSUME NEW g \in DOMAIN hist
      PROVE  /\ hist[g].pos \in Addr /\ hist[g].pos \in Nat
             /\ hist[g].map \in [Key -> MaybeVal]
             /\ LeaderSize <= hist[g].pos /\ hist[g].pos <= footer_pos
             /\ hist[g].pos < End
             /\ disk[hist[g].pos].kind = "trailer"
             /\ disk[hist[g].pos] \in Trailer
             /\ disk[hist[g].pos].generation = g - 1
  <2>1. /\ hist[g].pos \in Addr /\ hist[g].pos \in Nat
        /\ hist[g].map \in [Key -> MaybeVal]
        /\ hist[1].pos = LeaderSize
        /\ footer_pos = hist[Len(hist)].pos
    BY <1>1, SizeFacts, Zenon DEF Revision, HistoryInv
  <2>2. g = 1 \/ hist[1].pos + TrailerSize <= hist[g].pos
    BY <1>1 DEF HistoryInv
  <2>3. g = Len(hist) \/ hist[g].pos + TrailerSize <= hist[Len(hist)].pos
    BY <1>1 DEF HistoryInv
  <2>4. LeaderSize <= hist[g].pos /\ hist[g].pos <= footer_pos
    BY <1>2, <2>1, <2>2, <2>3, SizeFacts
  <2>5. /\ disk[hist[g].pos].kind = "trailer"
        /\ disk[hist[g].pos].generation = g - 1
    <3>1. CASE g = 1
      BY <3>1, <2>1 DEF HistoryInv
    <3>2. CASE g # 1
      <4>1. g \in 2..Len(hist)
        BY <1>1, <3>2
      <4> QED BY <4>1 DEF HistoryInv, TrailerAt
    <3> QED BY <3>1, <3>2
  <2>6. disk[hist[g].pos] \in Trailer
    BY <2>1, <2>5, ObjectBytes DEF TypeOK
  <2>7. hist[g].pos < End
    BY <1>2, <2>1, <2>4, SizeFacts
  <2> QED BY <2>1, <2>4, <2>5, <2>6, <2>7, Zenon
<1>4. disk[footer_pos].generation = Len(hist) - 1
  BY <1>1, <1>3 DEF HistoryInv
<1> QED BY <1>1, <1>2, <1>3, <1>4

(* A step that leaves the history, and the file below End, alone keeps     *)
(* HistoryInv.                                                             *)
LEMMA HistoryFrame ==
  ASSUME TypeOK, HistoryInv, UNCHANGED <<footer_pos, hist>>,
         disk' \in [Addr -> Object],
         \A x \in Addr : x < End => disk'[x] = disk[x],
         EndsBelow(disk', End)
  PROVE  /\ HistoryInv'
         /\ \A g \in DOMAIN hist :
              /\ disk'[hist[g].pos] = disk[hist[g].pos]
              /\ IndexMap(disk', hist[g].pos) = IndexMap(disk, hist[g].pos)
<1>1. disk \in [Addr -> Object] /\ End' = End
  BY DEF TypeOK, End
<1>2. ASSUME NEW g \in DOMAIN hist
      PROVE  /\ disk'[hist[g].pos] = disk[hist[g].pos]
             /\ IndexMap(disk', hist[g].pos) = IndexMap(disk, hist[g].pos)
             /\ Stored(disk', hist[g].pos, hist[g].map)
  <2>1. Stored(disk, hist[g].pos, hist[g].map)
    BY DEF HistoryInv
  <2>2. /\ hist[g].pos \in Addr /\ hist[g].pos < End /\ End \in Nat
        /\ disk[hist[g].pos].kind = "trailer"
        /\ hist[g].map \in [Key -> MaybeVal]
    BY HeadFacts
  <2>3. /\ IndexMap(disk', hist[g].pos) = IndexMap(disk, hist[g].pos)
        /\ Stored(disk', hist[g].pos, hist[g].map)
    BY <1>1, <2>1, <2>2, StoredSame
  <2> QED BY <2>2, <2>3
<1>3. \A g \in 2..Len(hist) :
        TrailerAt(disk', hist[g].pos, g - 1, hist[g - 1].pos)
  <2>1. \A g \in 2..Len(hist) : g \in DOMAIN hist
    BY HeadFacts
  <2> QED BY <2>1, <1>2, Zenon DEF HistoryInv, TrailerAt
<1>4. disk'[LeaderSize] = disk[LeaderSize]
  BY <1>2, HeadFacts, Zenon DEF HistoryInv
<1> QED BY <1>1, <1>2, <1>3, <1>4, Zenon DEF HistoryInv

(* Nothing that belongs to connection c changes.                           *)
Untouched(c) ==
  /\ state'[c] = state[c] /\ fpos'[c] = fpos[c] /\ logical'[c] = logical[c]
  /\ cache'[c] = cache[c] /\ txn'[c] = txn[c] /\ pend'[c] = pend[c]
  /\ intent'[c] = intent[c]

(* A connection is not disturbed by a step of another one that keeps what  *)
(* is committed, unless it has a transaction itself.                       *)
LEMMA ConnFrame ==
  ASSUME TypeOK, HistoryInv, UNCHANGED <<footer_pos, hist>>,
         disk' \in [Addr -> Object],
         \A x \in Addr : x < End => disk'[x] = disk[x],
         EndsBelow(disk', End),
         NEW c \in Conn, ConnInv(c), Untouched(c),
         txn[c].phase = "none" \/ (disk' = disk /\ tlock' = tlock)
  PROVE  ConnInv(c)'
<1>1. End' = End
  BY DEF End
<1>2. \A g \in DOMAIN hist :
        /\ disk'[hist[g].pos] = disk[hist[g].pos]
        /\ IndexMap(disk', hist[g].pos) = IndexMap(disk, hist[g].pos)
  BY HistoryFrame, Zenon
<1>3. InHist(fpos[c], 0)
  BY Zenon DEF ConnInv, SyncInv
<1>4. /\ disk'[fpos[c]] = disk[fpos[c]]
      /\ IndexMap(disk', fpos[c]) = IndexMap(disk, fpos[c])
  BY <1>2, <1>3 DEF InHist
<1>5. get_current_revision(c)' = get_current_revision(c)
  BY <1>4 DEF get_current_revision, Untouched
<1>6. Growing(c)' = Growing(c)
  BY DEF Growing, Untouched
<1>7. LockInv(c)'
  BY DEF ConnInv, LockInv, Untouched
<1>8. SyncInv(c)'
  BY Zenon DEF ConnInv, SyncInv, Untouched, InHist
<1>9. SizeInv(c)'
  BY <1>1, <1>6, Zenon DEF ConnInv, SizeInv, Untouched
<1>10. CASE txn[c].phase = "none"
  <2>1. ~Growing(c)
    BY <1>10 DEF Growing
  <2>2. CacheInv(c)'
    BY <1>4, <1>5, <1>6, <2>1, Zenon DEF ConnInv, CacheInv, Untouched
  <2>3. CommitInv(c)'
    BY <1>10, Zenon DEF CommitInv, Untouched
  <2> QED BY <1>7, <1>8, <1>9, <2>2, <2>3, Zenon DEF ConnInv
<1>11. CASE disk' = disk
  <2>1. CacheInv(c)'
    BY <1>4, <1>5, <1>6, <1>11, Zenon DEF ConnInv, CacheInv, Untouched
  <2>2. CommitInv(c)'
    BY <1>11, Zenon DEF ConnInv, CommitInv, Untouched
  <2> QED BY <1>7, <1>8, <1>9, <2>1, <2>2 DEF ConnInv
<1> QED BY <1>10, <1>11

(* Who can take the lock, or has it, is alone.                             *)
LEMMA Alone ==
  ASSUME SafeUse, StoreInvariant, NEW c \in Conn,
         tlock \in {NoProc, ProcOf[c]}, NEW c2 \in Conn \ {c}
  PROVE  txn[c2].phase = "none"
<1>1. LockInv(c2) /\ ProcOf[c2] # ProcOf[c] /\ ProcOf[c2] # NoProc
  BY ConstantsAssumption DEF StoreInvariant, ConnInv, SafeUse
<1> QED BY <1>1, Zenon DEF LockInv

(* What is left to show for a step of c that leaves the history alone.     *)
LEMMA StepFrame ==
  ASSUME SafeUse, StoreInvariant, UNCHANGED <<footer_pos, hist>>,
         NEW c \in Conn, \A c2 \in Conn \ {c} : Untouched(c2),
         \/ disk' = disk /\ tlock' = tlock
         \/ tlock \in {NoProc, ProcOf[c]},
         \A x \in Addr : x < End => disk'[x] = disk[x],
         EndsBelow(disk', End),
         TypeOK', FileInv', ConnInv(c)'
  PROVE  StoreInvariant'
<1>1. TypeOK /\ HistoryInv /\ disk' \in [Addr -> Object]
  BY DEF StoreInvariant, TypeOK
<1>2. HistoryInv'
  BY <1>1, HistoryFrame, Zenon
<1>3. ASSUME NEW c2 \in Conn \ {c} PROVE ConnInv(c2)'
  <2>1. txn[c2].phase = "none" \/ (disk' = disk /\ tlock' = tlock)
    BY Alone
  <2>2. ConnInv(c2) /\ Untouched(c2)
    BY DEF StoreInvariant
  <2> QED BY <1>1, <2>1, <2>2, ConnFrame
<1> QED BY <1>2, <1>3 DEF StoreInvariant

(* The same for a step that does not touch the file.                       *)
LEMMA QuietFrame ==
  ASSUME SafeUse, StoreInvariant, UNCHANGED <<disk, footer_pos, hist>>,
         NEW c \in Conn, \A c2 \in Conn \ {c} : Untouched(c2),
         tlock' = tlock \/ tlock \in {NoProc, ProcOf[c]},
         TypeOK', FileInv', ConnInv(c)'
  PROVE  StoreInvariant'
BY StepFrame, Zenon DEF StoreInvariant, HistoryInv
----------------------------------------------------------------------------
(* A new store satisfies the invariant.                                    *)
LEMMA InitInvariant ==
  ASSUME SafeUse, Init
  PROVE  StoreInvariant
<1> DEFINE t == [kind |-> "trailer", bytes |-> TrailerSize,
                 generation |-> 0, size |-> 0, prev_generation |-> Null,
                 index_record |-> Null]
<1>1. Free \in Object /\ Free.bytes = 0 /\ t \in Object
  BY SizeFacts DEF Object, Free, Trailer, Generation, Addr, Null
<1>2. LeaderSize \in Addr /\ Null \in Addr /\ 0 \in Addr
  BY SizeFacts DEF Addr, Null
<1>3. /\ disk \in [Addr -> Object] /\ disk[LeaderSize] = t
      /\ \A x \in Addr : x # LeaderSize => disk[x] = Free
  BY <1>1, <1>2 DEF Init
<1>4. /\ file_size \in Nat /\ LeaderSize + TrailerSize <= file_size
      /\ SmallFiles \/ MaxSize <= file_size
  BY SizeFacts DEF Init, max, SafeUse
<1>5. /\ hist \in Seq(Revision) /\ Len(hist) = 1 /\ hist[1].pos = LeaderSize
      /\ hist[1].map = Empty /\ DOMAIN hist = {1}
  BY <1>2 DEF Init, Revision, Empty, MaybeVal
<1>6. TypeOK
  <2>1. NoIndex \in Index /\ NoTxn \in Transaction
    BY <1>2, SizeFacts DEF NoIndex, Index, NoTxn, Transaction, Generation
  <2>2. NoSync \in SyncProgress /\ Empty \in [Key -> MaybeVal]
    BY <1>2, SizeFacts
    DEF NoSync, SyncProgress, HeadRevision, Empty, MaybeVal
  <2> QED BY <1>2, <1>3, <1>4, <1>5, <2>1, <2>2, Zenon DEF Init, TypeOK
<1>7. HistoryInv
  <2>1. EndsBelow(disk, End)
    BY <1>1, <1>3, SizeFacts DEF EndsBelow, End, Init
  <2>2. Stored(disk, hist[1].pos, hist[1].map)
    BY <1>3, <1>5 DEF Stored
  <2>3. footer_pos = LeaderSize
    BY DEF Init
  <2> QED BY <1>3, <1>5, <2>1, <2>2, <2>3, SizeFacts DEF HistoryInv
<1>8. FileInv
  BY <1>1, <1>3, <1>4, SizeFacts DEF FileInv, Addr
<1>9. ASSUME NEW c \in Conn PROVE ConnInv(c)
  <2>1. InHist(LeaderSize, 0)
    BY <1>5 DEF InHist
  <2>2. /\ state[c] = "closed" /\ fpos[c] = LeaderSize
        /\ txn[c].phase = "none" /\ pend[c].phase = "none"
        /\ ~cache[c].loaded /\ ~cache[c].heap
    BY Zenon DEF Init, NoTxn, NoSync, NoIndex
  <2>3. LockInv(c) /\ SizeInv(c) /\ CacheInv(c) /\ CommitInv(c)
    BY <2>2, Zenon DEF LockInv, SizeInv, CacheInv, CommitInv, Growing
  <2>4. SyncInv(c)
    BY <2>1, <2>2, Zenon DEF SyncInv
  <2> QED BY <2>3, <2>4 DEF ConnInv
<1> QED BY <1>6, <1>7, <1>8, <1>9 DEF StoreInvariant
----------------------------------------------------------------------------
(* What every step may use.                                                *)

(* The end of the history is inside the file.                              *)
LEMMA EndFacts ==
  ASSUME StoreInvariant
  PROVE  /\ End \in Addr /\ End \in Nat /\ End <= MaxSize
         /\ End <= file_size /\ file_size \in Nat
         /\ End = footer_pos + TrailerSize /\ 0 < End
         /\ footer_pos \in Addr /\ footer_pos < End
<1>1. /\ footer_pos \in Addr /\ End \in Nat
      /\ End = footer_pos + TrailerSize /\ 0 < End
      /\ disk[footer_pos] \in Trailer /\ footer_pos \in Nat
  BY HeadFacts, Zenon DEF StoreInvariant, HistoryInv
<1>2. disk[footer_pos].bytes = TrailerSize /\ disk[footer_pos] # Free
  BY <1>1 DEF Trailer, Free
<1>3. footer_pos + TrailerSize <= file_size /\ footer_pos + TrailerSize <= MaxSize
  BY <1>1, <1>2, Zenon DEF StoreInvariant, FileInv
<1>4. footer_pos < End
  BY <1>1, SizeFacts
<1> QED BY <1>1, <1>3, <1>4, SizeFacts DEF StoreInvariant, TypeOK, Addr

(* The newest trailer is one of the committed ones.                        *)
LEMMA HeadInHist ==
  ASSUME TypeOK, HistoryInv, NEW r, r <= Len(hist) - 1
  PROVE  InHist(footer_pos, r)
<1>1. Len(hist) \in DOMAIN hist /\ hist[Len(hist)].pos = footer_pos
  BY HeadFacts, Zenon DEF HistoryInv
<1> QED BY <1>1 DEF InHist

(* A committed revision, its trailer and its place.                        *)
LEMMA RevisionFacts ==
  ASSUME TypeOK, HistoryInv, NEW g \in DOMAIN hist
  PROVE  /\ hist[g].pos \in Addr /\ hist[g].pos <= footer_pos
         /\ hist[g].map \in [Key -> MaybeVal]
         /\ disk[hist[g].pos].kind = "trailer"
BY HeadFacts, Zenon

(* Every committed trailer passes trailer::validate.                       *)
LEMMA HistoryValid ==
  ASSUME TypeOK, HistoryInv, NEW g \in DOMAIN hist
  PROVE  validate(disk, hist[g].pos)
<1>1. /\ hist[g].pos \in Nat /\ LeaderSize <= hist[g].pos
      /\ disk[hist[g].pos].kind = "trailer"
      /\ DOMAIN hist = 1..Len(hist) /\ Len(hist) \in Nat
  BY HeadFacts
<1>2. CASE g = 1
  BY <1>1, <1>2, SizeFacts, ConstantsAssumption
  DEF validate, HistoryInv, Null
<1>3. CASE g # 1
  <2>1. g \in 2..Len(hist) /\ g - 1 \in DOMAIN hist
    BY <1>1, <1>3
  <2>2. TrailerAt(disk, hist[g].pos, g - 1, hist[g - 1].pos)
    BY <2>1, Zenon DEF HistoryInv
  <2>3. hist[g - 1].pos \in Nat /\ LeaderSize <= hist[g - 1].pos
    BY <2>1, HeadFacts, Zenon
  <2>4. /\ disk[hist[g].pos].prev_generation = hist[g - 1].pos
        /\ disk[hist[g].pos].size
             = hist[g].pos - (hist[g - 1].pos + TrailerSize)
        /\ hist[g - 1].pos + TrailerSize <= hist[g].pos
        /\ hist[g].pos % WordAlign = 0
    BY <2>2, Zenon DEF TrailerAt
  <2> DEFINE pos == hist[g].pos
             prev == hist[g - 1].pos
  <2>5. pos \in Nat /\ prev \in Nat /\ LeaderSize <= prev /\ prev + TrailerSize <= pos
    BY <1>1, <2>3, <2>4, Zenon
  <2> HIDE DEF pos, prev
  <2>6. /\ pos >= LeaderSize /\ prev <= pos - TrailerSize /\ prev # Null
        /\ pos >= pos - (prev + TrailerSize)
        /\ pos - (pos - (prev + TrailerSize)) = prev + TrailerSize
    BY <2>5, SizeFacts DEF Null
  <2> QED BY <1>1, <2>4, <2>6, Zenon DEF validate, pos, prev
<1> QED BY <1>2, <1>3

(* The index of a committed revision reads as it was meant to.             *)
LEMMA HistoryReads ==
  ASSUME TypeOK, HistoryInv, NEW g \in DOMAIN hist, NEW n \in Nat, End <= n
  PROVE  /\ IndexMap(disk, hist[g].pos) \in [Key -> Addr]
         /\ Reads(disk, IndexMap(disk, hist[g].pos), hist[g].map, n)
<1> DEFINE p == hist[g].pos
           i == disk[p].index_record
<1>1. /\ p \in Addr /\ p \in Nat /\ disk[p] \in Trailer /\ p <= n
      /\ hist[g].map \in [Key -> MaybeVal] /\ i \in Addr
      /\ disk \in [Addr -> Object]
  <2>1. /\ p \in Addr /\ p \in Nat /\ disk[p] \in Trailer /\ p < End
        /\ End \in Nat /\ hist[g].map \in [Key -> MaybeVal]
    BY HeadFacts, Zenon
  <2>2. disk[p].index_record \in Addr
    BY <2>1, Zenon DEF Trailer
  <2>3. p <= n
    BY <2>1
  <2> QED BY <2>1, <2>2, <2>3, Zenon DEF TypeOK
<1>2. Stored(disk, p, hist[g].map)
  BY Zenon DEF HistoryInv
<1>3. CASE i = Null
  BY <1>1, <1>2, <1>3, SizeFacts, Zenon
  DEF IndexMap, Reads, Stored, Empty, Null, Addr
<1>4. CASE i # Null
  <2>1. /\ IndexMap(disk, p) = disk[i].map
        /\ disk[i].kind = "index"
        /\ Reads(disk, disk[i].map, hist[g].map, p)
    BY <1>2, <1>4, Zenon DEF IndexMap, Stored
  <2>2. disk[i].map \in [Key -> Addr]
    <3>1. disk[i] \in HeaderBlock
      BY <1>1, <2>1, ObjectBytes, Zenon
    <3> QED BY <3>1, Zenon DEF HeaderBlock
  <2> QED BY <1>1, <2>1, <2>2, ReadsWider, Zenon
<1> QED BY <1>3, <1>4, Zenon
----------------------------------------------------------------------------
(* Opening and closing.                                                    *)

(* Mapping the file touches nothing that is committed.                     *)
LEMMA OpenMapStep ==
  ASSUME SafeUse, StoreInvariant, NEW c \in Conn, OpenMap(c)
  PROVE  StoreInvariant'
<1> USE DEF StoreInvariant
<1>1. TypeOK'
  BY RoundUpFacts, Zenon DEF TypeOK, OpenMap
<1>2. FileInv'
  BY Zenon DEF OpenMap, FileInv
<1>3. ConnInv(c)'
  BY Zenon DEF OpenMap, TypeOK, ConnInv, LockInv, SyncInv, SizeInv, CacheInv,
         CommitInv, Growing, InHist, get_current_revision, End
<1>4. \A c2 \in Conn \ {c} : Untouched(c2)
  BY DEF OpenMap, Untouched, TypeOK
<1> QED BY <1>1, <1>2, <1>3, <1>4, QuietFrame, Zenon DEF OpenMap

(* A connection opens at a committed trailer, which always validates.      *)
LEMMA OpenFooterStep ==
  ASSUME SafeUse, StoreInvariant, NEW c \in Conn, OpenFooter(c)
  PROVE  StoreInvariant'
<1>1. TypeOK /\ TypeOK'
  <2>1. TypeOK /\ footer_pos \in Addr /\ footer_pos + TrailerSize \in Addr
    BY EndFacts, Zenon DEF StoreInvariant, End
  <2>2. /\ state \in [Conn -> {"closed", "mapped", "open"}]
        /\ fpos \in [Conn -> Addr] /\ logical \in [Conn -> Addr]
        /\ regions \in [Conn -> SUBSET Nat]
    BY <2>1, Zenon DEF TypeOK
  <2>3. /\ \/ /\ state' = [state EXCEPT ![c] = "open"]
              /\ fpos' = [fpos EXCEPT ![c] = footer_pos]
              /\ logical' = [logical EXCEPT ![c] = footer_pos + TrailerSize]
              /\ regions' = regions
           \/ /\ state' = [state EXCEPT ![c] = "closed"]
              /\ regions' = [regions EXCEPT ![c] = {}]
              /\ fpos' = fpos /\ logical' = logical
        /\ UNCHANGED <<disk, file_size, footer_pos, tlock, cache, txn, pend,
                       hist, intent>>
    BY Zenon DEF OpenFooter
  <2>4. state' \in [Conn -> {"closed", "mapped", "open"}]
    BY <2>2, <2>3, Zenon
  <2>5. fpos' \in [Conn -> Addr]
    BY <2>1, <2>2, <2>3, Zenon
  <2>6. logical' \in [Conn -> Addr]
    BY <2>1, <2>2, <2>3, Zenon
  <2>7. regions' \in [Conn -> SUBSET Nat]
    BY <2>2, <2>3, Zenon
  <2> QED BY <2>1, <2>3, <2>4, <2>5, <2>6, <2>7, Zenon DEF TypeOK
<1>2. FileInv'
  BY Zenon DEF StoreInvariant, OpenFooter, FileInv
<1>3. ConnInv(c) /\ state[c] = "mapped"
  BY DEF StoreInvariant, OpenFooter
<1>4. ConnInv(c)'
  <2>1. InHist(footer_pos, 0)
    BY HeadInHist, HeadFacts DEF StoreInvariant
  <2>2. /\ txn[c].phase = "none" /\ pend[c].phase = "none"
        /\ ~cache[c].loaded /\ ~cache[c].heap
    BY <1>1, <1>3, Zenon DEF ConnInv, LockInv, CacheInv, TypeOK, Index
  <2>3. /\ txn' = txn /\ pend' = pend /\ cache' = cache /\ hist' = hist
        /\ footer_pos' = footer_pos
    BY DEF OpenFooter
  <2>4. LockInv(c)' /\ CacheInv(c)' /\ CommitInv(c)'
    BY <2>2, <2>3, Zenon DEF LockInv, CacheInv, CommitInv, Growing
  <2>5. fpos'[c] \in {fpos[c], footer_pos}
    BY <1>1 DEF OpenFooter, TypeOK
  <2>6. SyncInv(c)'
    BY <1>3, <2>1, <2>2, <2>3, <2>5, Zenon DEF ConnInv, SyncInv, InHist
  <2>7. state'[c] = "open" => fpos'[c] + TrailerSize = End /\ logical'[c] = End
    BY <1>1, EndFacts DEF OpenFooter, TypeOK
  <2>8. End' = End /\ End \in Nat
    BY <2>3, EndFacts DEF End
  <2>9. SizeInv(c)'
    BY <2>2, <2>3, <2>7, <2>8 DEF SizeInv, Growing
  <2> QED BY <2>4, <2>6, <2>9 DEF ConnInv
<1>5. \A c2 \in Conn \ {c} : Untouched(c2)
  BY <1>1 DEF OpenFooter, Untouched, TypeOK
<1> QED BY <1>1, <1>2, <1>4, <1>5, QuietFrame, Zenon DEF OpenFooter

(* Connections that go away take only their own state and lock along.      *)
LEMMA GoneStep ==
  ASSUME SafeUse, StoreInvariant, NEW c \in Conn, Gone({c})
  PROVE  StoreInvariant'
<1>1. TypeOK'
  <2>1. LeaderSize \in Addr /\ Null \in Addr /\ 0 \in Addr
    BY SizeFacts DEF Addr, Null
  <2>2. NoIndex \in Index /\ NoTxn \in Transaction
    BY <2>1, SizeFacts DEF NoIndex, Index, NoTxn, Transaction, Generation
  <2>3. NoSync \in SyncProgress /\ Empty \in [Key -> MaybeVal]
    BY <2>1, SizeFacts
    DEF NoSync, SyncProgress, HeadRevision, Empty, MaybeVal
  <2> QED BY <2>1, <2>2, <2>3, Zenon DEF StoreInvariant, TypeOK, Gone
<1>2. FileInv'
  BY Zenon DEF StoreInvariant, Gone, FileInv
<1>3. ConnInv(c)'
  <2>1. InHist(LeaderSize, 0)
    <3>1. 1 \in DOMAIN hist /\ hist[1].pos = LeaderSize
      BY HeadFacts, Zenon DEF StoreInvariant, HistoryInv
    <3>2. 0 <= 1 - 1
      OBVIOUS
    <3> QED BY <3>1, <3>2, Zenon DEF InHist
  <2>2. /\ state'[c] = "closed" /\ fpos'[c] = LeaderSize /\ hist' = hist
        /\ txn'[c].phase = "none" /\ pend'[c].phase = "none"
        /\ ~cache'[c].loaded /\ ~cache'[c].heap
    BY Zenon DEF Gone, NoTxn, NoSync, NoIndex
  <2>3. LockInv(c)' /\ SizeInv(c)' /\ CacheInv(c)' /\ CommitInv(c)'
    BY <2>2, Zenon DEF LockInv, SizeInv, CacheInv, CommitInv, Growing
  <2>4. SyncInv(c)'
    BY <2>1, <2>2, Zenon DEF SyncInv, InHist
  <2> QED BY <2>3, <2>4 DEF ConnInv
<1>4. \A c2 \in Conn \ {c} : Untouched(c2)
  BY Zenon DEF Gone, Untouched
<1>5. tlock' = tlock \/ tlock \in {NoProc, ProcOf[c]}
  BY Zenon DEF Gone
<1> QED BY <1>1, <1>2, <1>3, <1>4, <1>5, QuietFrame, Zenon DEF Gone

(* A killed process leaves the store as a closed connection would.         *)
LEMMA CrashStep ==
  ASSUME SafeUse, StoreInvariant, NEW p \in Process, Crash(p)
  PROVE  StoreInvariant'
<1>1. PICK c \in Conn : ProcOf[c] = p
  BY DEF Crash
<1>2. {c2 \in Conn : ProcOf[c2] = p} = {c}
  BY <1>1 DEF SafeUse
<1> QED BY <1>2, GoneStep, Zenon DEF Crash
----------------------------------------------------------------------------
(* A sequence with one element more.                                       *)
LEMMA OneMore ==
  ASSUME NEW S, NEW s \in Seq(S), NEW e \in S
  PROVE  /\ Len(Append(s, e)) = Len(s) + 1 /\ Append(s, e)[Len(s) + 1] = e
         /\ \A g \in 1..Len(s) : Append(s, e)[g] = s[g]
         /\ DOMAIN Append(s, e) = 1..(Len(s) + 1)
OBVIOUS

(* A trailer at p, of a revision that reads as w, follows the history and  *)
(* becomes its end.                                                        *)
Extended(p, w) ==
  /\ Len(hist) <= MaxGeneration
  /\ EndsBelow(disk, p + TrailerSize)
  /\ TrailerAt(disk, p, Len(hist), footer_pos)
  /\ Stored(disk, p, w)
  /\ disk' = disk /\ footer_pos' = p
  /\ hist' = Append(hist, [pos |-> p, map |-> w])

(* That makes the history one longer.                                      *)
LEMMA HistoryExtended ==
  ASSUME TypeOK, HistoryInv, NEW p \in Addr, NEW w \in [Key -> MaybeVal],
         Extended(p, w)
  PROVE  HistoryInv'
<1> DEFINE n == Len(hist)
<1>1. /\ n \in Nat /\ DOMAIN hist = 1..n /\ n \in DOMAIN hist /\ n >= 1
      /\ hist \in Seq(Revision) /\ hist[n].pos = footer_pos
      /\ footer_pos \in Nat
  <2>1. hist \in Seq(Revision) /\ hist[n].pos = footer_pos
    BY Zenon DEF TypeOK, HistoryInv
  <2>2. n \in Nat /\ DOMAIN hist = 1..n /\ n \in DOMAIN hist /\ footer_pos \in Nat
    BY HeadFacts, Zenon
  <2> HIDE DEF n
  <2>3. n >= 1
    BY <2>2
  <2> QED BY <2>1, <2>2, <2>3, Zenon
<1>2. TrailerSize \in Nat /\ MaxGeneration \in Nat /\ p \in Nat
  BY SizeFacts
<1>3. /\ Len(hist') = n + 1 /\ hist'[n + 1] = [pos |-> p, map |-> w]
      /\ \A g \in 1..n : hist'[g] = hist[g]
      /\ DOMAIN hist' = 1..(n + 1)
  <2>1. [pos |-> p, map |-> w] \in Revision
    BY DEF Revision
  <2>2. hist' = Append(hist, [pos |-> p, map |-> w])
    BY DEF Extended
  <2> QED BY <1>1, <2>1, <2>2, OneMore
<1>4. hist'[n + 1].pos = p /\ hist'[n + 1].map = w
  <2>1. hist'[n + 1] = [pos |-> p, map |-> w]
    BY <1>3, Zenon
  <2> QED BY ONLY <2>1, SMTT(20)
<1>5. \A g \in 1..n : hist[g].pos \in Nat /\ hist[g].pos <= footer_pos
  BY <1>1, HeadFacts, Zenon
<1>6. footer_pos + TrailerSize <= p
  BY DEF Extended, TrailerAt
<1>7. \A g \in 2..(n + 1) :
        TrailerAt(disk, hist'[g].pos, g - 1, hist'[g - 1].pos)
  <2> SUFFICES ASSUME NEW g \in 2..(n + 1)
               PROVE  TrailerAt(disk, hist'[g].pos, g - 1, hist'[g - 1].pos)
    OBVIOUS
  <2>1. CASE g = n + 1
    <3>1. g - 1 = n /\ n \in 1..n
      BY <1>1, <2>1
    <3> QED BY <1>1, <1>3, <1>4, <2>1, <3>1, Zenon DEF Extended
  <2>2. CASE g # n + 1
    <3>1. g \in 2..n /\ g \in 1..n /\ g - 1 \in 1..n
      BY <1>1, <2>2
    <3> QED BY <1>3, <3>1, Zenon DEF HistoryInv
  <2> QED BY <2>1, <2>2, Zenon
<1>8. \A g, h \in 1..(n + 1) :
        g < h => hist'[g].pos + TrailerSize <= hist'[h].pos
  <2> SUFFICES ASSUME NEW g \in 1..(n + 1), NEW h \in 1..(n + 1), g < h
               PROVE  hist'[g].pos + TrailerSize <= hist'[h].pos
    BY Zenon
  <2>1. g \in 1..n
    BY <1>1
  <2>2. CASE h = n + 1
    BY <1>1, <1>2, <1>3, <1>4, <1>5, <1>6, <2>1, <2>2
  <2>3. CASE h # n + 1
    <3>1. h \in 1..n
      BY <1>1, <2>3
    <3> QED BY <1>1, <1>3, <2>1, <3>1, Zenon DEF HistoryInv
  <2> QED BY <2>2, <2>3, Zenon
<1>9. \A g \in 1..(n + 1) : Stored(disk, hist'[g].pos, hist'[g].map)
  <2> SUFFICES ASSUME NEW g \in 1..(n + 1)
               PROVE  Stored(disk, hist'[g].pos, hist'[g].map)
    OBVIOUS
  <2>1. CASE g = n + 1
    BY <1>4, <2>1, Zenon DEF Extended
  <2>2. CASE g # n + 1
    <3>1. g \in 1..n
      BY <1>1, <2>2
    <3> QED BY <1>1, <1>3, <3>1, Zenon DEF HistoryInv
  <2> QED BY <2>1, <2>2, Zenon
<1>10. Len(hist') \in 1..(MaxGeneration + 1)
  BY <1>1, <1>2, <1>3 DEF Extended
<1>11. /\ hist'[1].pos = LeaderSize /\ footer_pos' = hist'[Len(hist')].pos
       /\ EndsBelow(disk', End')
  <2>1. hist'[1] = hist[1]
    BY <1>1, <1>3
  <2> QED BY <1>3, <1>4, <2>1, Zenon DEF HistoryInv, End, Extended
<1> HIDE DEF n
<1> QED BY <1>3, <1>7, <1>8, <1>9, <1>10, <1>11, Zenon
        DEF HistoryInv, Extended
----------------------------------------------------------------------------
(* database::sync.                                                         *)

(* sync() never raises: the trailers it meets are valid and in the file.   *)
(* Moving to a newer trailer keeps the file and drops the stale index.     *)
LEMMA SyncApplyStep ==
  ASSUME SafeUse, StoreInvariant, NEW c \in Conn, SyncApply(c)
  PROVE  StoreInvariant' /\ disk' = disk
<1> DEFINE pos == pend[c].pos
           end == pos + TrailerSize
<1>1. TypeOK /\ HistoryInv /\ ConnInv(c) /\ FileInv
  BY DEF StoreInvariant
<1>2. /\ pend[c].phase = "apply" /\ state[c] = "open"
      /\ txn[c].phase \in {"none", "begin"}
  BY <1>1 DEF SyncApply, ConnInv, LockInv, TypeOK, Transaction
<1>3. PICK g \in DOMAIN hist :
        /\ hist[g].pos = pos
        /\ pend[c].revision # HeadRevision => pend[c].revision <= g - 1
  BY <1>1, <1>2, Zenon DEF ConnInv, SyncInv, InHist
<1>4. /\ pos \in Addr /\ end \in Nat /\ 0 < end /\ end <= End
      /\ end <= MaxSize /\ end <= file_size /\ end \in Addr
  <2>1. pos \in Addr /\ pos <= footer_pos
    BY <1>1, <1>3, RevisionFacts, Zenon
  <2>2. pos \in Nat /\ footer_pos \in Nat
    BY <2>1, EndFacts, SizeFacts, Zenon
  <2> HIDE DEF pos
  <2>3. end \in Nat /\ 0 < end /\ end <= End
    BY <2>1, <2>2, EndFacts, SizeFacts
  <2> HIDE DEF end
  <2>4. end <= MaxSize /\ end <= file_size /\ MaxSize \in Nat
    BY <2>3, EndFacts, SizeFacts
  <2> QED BY <2>1, <2>3, <2>4 DEF Addr
<1>5. validate(disk, pos)
  BY <1>1, <1>3, HistoryValid
<1>6. /\ file_size' = FileAfterMap(regions[c], end, file_size)
      /\ disk' = Truncated(disk, file_size')
      /\ regions' = [regions EXCEPT ![c] = map_bytes(regions[c], end)]
      /\ fpos' = [fpos EXCEPT ![c] = pos]
      /\ logical' = [logical EXCEPT ![c] = max(logical[c], end)]
      /\ IF ~validate(disk', pos) THEN SyncRaises(c)
         ELSE IF pend[c].revision = HeadRevision THEN SyncReturns(c)
         ELSE /\ pend' = [pend EXCEPT ![c].phase = "walk"]
              /\ UNCHANGED <<txn, tlock, cache>>
      /\ UNCHANGED <<footer_pos, state, hist, intent>>
  <2>1. ~(end > file_size)
    BY <1>1, <1>4 DEF TypeOK
  <2> QED BY <2>1 DEF SyncApply
<1>7. /\ file_size' \in Nat
      /\ SmallFiles => file_size' = file_size
      /\ ~SmallFiles => MaxSize <= file_size'
  BY <1>1, <1>4, <1>6, FileFacts, Zenon DEF TypeOK, FileInv
<1>8. disk' = disk
  <2>1. disk \in [Addr -> Object]
    BY <1>1 DEF TypeOK
  <2>2. \A x \in Addr : x \in Nat /\ disk[x].bytes \in Nat
    BY <2>1, ObjectBytes, SizeFacts
  <2>3. \A x \in Addr : disk[x] = Free \/ x + disk[x].bytes <= file_size'
    BY <1>1, <1>7, <2>2, SizeFacts DEF FileInv, TypeOK
  <2> QED BY <1>6, <1>7, <2>1, <2>3, TruncatedFacts
<1>9. /\ tlock' = tlock /\ txn' = txn
      /\ \/ /\ pend[c].revision = HeadRevision
            /\ pend' = [pend EXCEPT ![c] = NoSync]
            /\ cache' = [cache EXCEPT ![c] = NoIndex]
         \/ /\ pend[c].revision # HeadRevision
            /\ pend' = [pend EXCEPT ![c].phase = "walk"]
            /\ cache' = cache
  BY <1>5, <1>6, <1>8 DEF SyncReturns
<1>10. /\ logical[c] \in Nat /\ logical'[c] \in Addr
       /\ logical'[c] = max(logical[c], end) /\ fpos'[c] = pos
  BY <1>1, <1>4, <1>6, SizeFacts DEF TypeOK, max
<1>11. \/ /\ pend'[c].phase = "none"
          /\ ~cache'[c].loaded /\ ~cache'[c].heap
       \/ /\ pend'[c].phase = "walk" /\ pend'[c].pos = pos
          /\ pend'[c].revision = pend[c].revision
          /\ pend[c].revision # HeadRevision /\ txn[c].phase = "none"
          /\ cache'[c] = cache[c]
  BY <1>1, <1>2, <1>9
  DEF TypeOK, SyncProgress, NoSync, NoIndex, ConnInv, SyncInv
<1>12. TypeOK'
  <2>1. NoSync \in SyncProgress /\ NoIndex \in Index
    BY SizeFacts DEF NoSync, SyncProgress, HeadRevision, Addr, Null, NoIndex,
                     Index, Generation
  <2>2. map_bytes(regions[c], end) \in SUBSET Nat
    BY <1>1, <1>4, RegionFacts, Zenon DEF TypeOK
  <2>3. regions' \in [Conn -> SUBSET Nat]
    BY <1>1, <1>6, <2>2 DEF TypeOK
  <2>4. cache' \in [Conn -> Index]
    BY <1>1, <1>9, <2>1, Zenon DEF TypeOK
  <2>5. [pend[c] EXCEPT !.phase = "walk"] \in SyncProgress
    <3>1. pend[c] \in SyncProgress
      BY <1>1 DEF TypeOK
    <3> QED BY <3>1 DEF SyncProgress
  <2>6. pend' \in [Conn -> SyncProgress]
    BY <1>1, <1>9, <2>1, <2>5, Zenon DEF TypeOK
  <2>7. logical' \in [Conn -> Addr] /\ fpos' \in [Conn -> Addr]
    BY <1>1, <1>4, <1>6, <1>10 DEF TypeOK
  <2> QED BY <1>1, <1>6, <1>7, <1>8, <1>9, <2>3, <2>4, <2>7, <2>6, Zenon
             DEF TypeOK
<1>13. FileInv'
  <2>1. \A x \in Addr : x \in Nat /\ disk[x].bytes \in Nat
    BY <1>1, ObjectBytes, SizeFacts DEF TypeOK
  <2> QED BY <1>1, <1>7, <1>8, <2>1, SizeFacts DEF FileInv, TypeOK
<1>14. LockInv(c)'
  BY <1>1, <1>2, <1>6, <1>9 DEF ConnInv, LockInv, TypeOK, NoSync
<1>15. SyncInv(c)'
  <2>1. InHist(pos, 0)
    BY <1>3, <1>1, HeadFacts DEF InHist
  <2>2. pend[c].revision # HeadRevision
          => InHist(pos, pend[c].revision) /\ txn[c].phase = "none"
    BY <1>1, <1>2, <1>3, Zenon DEF ConnInv, SyncInv, InHist
  <2>3. txn[c].phase = "begin" => pos = footer_pos
    BY <1>1, <1>2, Zenon DEF ConnInv, SyncInv
  <2>4. hist' = hist /\ footer_pos' = footer_pos /\ txn' = txn
    BY <1>6, <1>9
  <2> QED BY <1>2, <1>10, <1>11, <2>1, <2>2, <2>3, <2>4, Zenon
             DEF SyncInv, InHist
<1>16. SizeInv(c)'
  <2>1. logical[c] <= End
    BY <1>1, <1>2, Zenon DEF ConnInv, SizeInv
  <2>2. logical'[c] <= End /\ end <= logical'[c]
    BY <1>4, <1>10, <2>1, EndFacts DEF max
  <2>3. End' = End /\ txn' = txn /\ state' = state
    BY <1>6, <1>9 DEF End
  <2> QED BY <1>2, <1>10, <2>2, <2>3, Zenon DEF SizeInv, Growing
<1>17. CacheInv(c)' /\ CommitInv(c)'
  <2>1. txn' = txn /\ state' = state
    BY <1>6, <1>9
  <2> QED BY <1>1, <1>2, <1>11, <2>1, Zenon
          DEF ConnInv, CacheInv, CommitInv, Growing
<1>18. \A c2 \in Conn \ {c} : Untouched(c2)
  BY <1>1, <1>6, <1>9 DEF Untouched, TypeOK
<1> QED BY <1>6, <1>8, <1>9, <1>12, <1>13, <1>14, <1>15, <1>16, <1>17, <1>18,
           QuietFrame, Zenon DEF ConnInv

(* older_revision_footer_pos moves along committed trailers only.          *)
LEMMA SyncWalkStep ==
  ASSUME SafeUse, StoreInvariant, NEW c \in Conn, SyncWalk(c)
  PROVE  StoreInvariant'
<1> DEFINE pos == pend[c].pos
           prev == disk[pos].prev_generation
<1>1. TypeOK /\ HistoryInv /\ ConnInv(c) /\ FileInv
  BY DEF StoreInvariant
<1>2. pend[c].phase = "walk" /\ state[c] = "open" /\ txn[c].phase = "none"
  BY <1>1 DEF SyncWalk, ConnInv, LockInv, SyncInv
<1>3. PICK g \in DOMAIN hist : hist[g].pos = pos /\ pend[c].revision <= g - 1
  BY <1>1, <1>2, Zenon DEF ConnInv, SyncInv, InHist
<1>4. /\ pos \in Addr /\ pos \in Nat /\ pos <= footer_pos
      /\ disk[pos].generation = g - 1 /\ g \in Nat
      /\ pend[c].revision \in Nat
  <2>1. /\ hist[g].pos \in Addr /\ hist[g].pos \in Nat
        /\ hist[g].pos <= footer_pos
        /\ disk[hist[g].pos].generation = g - 1 /\ g \in Nat
    BY <1>1, HeadFacts
  <2>2. pend[c].revision \in Nat
    BY <1>1 DEF TypeOK, SyncProgress
  <2> QED BY <1>3, <2>1, <2>2, Zenon
<1>5. /\ disk' = disk /\ file_size' = file_size /\ footer_pos' = footer_pos
      /\ state' = state /\ regions' = regions
      /\ hist' = hist /\ intent' = intent
  BY DEF SyncWalk
<1>6. pend[c].revision # g - 1
        => /\ g - 1 \in DOMAIN hist /\ prev = hist[g - 1].pos
           /\ pend[c].revision <= (g - 1) - 1
           /\ validate(disk, prev) /\ prev \in Addr
  <2> HAVE pend[c].revision # g - 1
  <2>1. g \in 2..Len(hist) /\ g - 1 \in DOMAIN hist
    BY <1>1, <1>3, <1>4, HeadFacts
  <2>2. prev = hist[g - 1].pos
    BY <1>1, <1>3, <2>1, Zenon DEF HistoryInv, TrailerAt
  <2>3. pend[c].revision <= (g - 1) - 1
    BY <1>3, <1>4
  <2>4. validate(disk, hist[g - 1].pos) /\ hist[g - 1].pos \in Addr
    BY <1>1, <2>1, HistoryValid, HeadFacts, Zenon
  <2> QED BY <2>1, <2>2, <2>3, <2>4, Zenon
<1>7. /\ tlock' = tlock /\ txn' = txn
      /\ \/ /\ pend' = [pend EXCEPT ![c] = NoSync]
            /\ cache' = [cache EXCEPT ![c] = NoIndex]
            /\ fpos' = [fpos EXCEPT ![c] = pos]
            /\ logical' = [logical EXCEPT ![c] =
                             max(logical[c], pos + TrailerSize)]
         \/ /\ pend[c].revision # g - 1
            /\ pend' = [pend EXCEPT ![c].pos = prev]
            /\ cache' = cache /\ fpos' = fpos /\ logical' = logical
  BY <1>4, <1>3, <1>6 DEF SyncWalk, SyncReturns, Older
<1>8. /\ logical[c] \in Nat /\ pos + TrailerSize \in Addr
      /\ pos + TrailerSize <= End
      /\ max(logical[c], pos + TrailerSize) \in Addr
  <2> DEFINE l == logical[c]
             t == pos + TrailerSize
  <2>1. /\ l \in Addr /\ pos \in Nat /\ pos <= footer_pos /\ footer_pos \in Addr
        /\ End = footer_pos + TrailerSize /\ End <= MaxSize
    BY <1>1, <1>4, EndFacts, Zenon DEF TypeOK
  <2>2. TrailerSize \in Nat /\ MaxSize \in Nat
    BY SizeFacts
  <2>3. l \in Nat /\ t \in Addr /\ t <= End
    <3> HIDE DEF l, pos
    <3> QED BY ONLY <2>1, <2>2, SMTT(20) DEF Addr
  <2>4. max(l, t) \in Addr
    <3> HIDE DEF l, t
    <3> QED BY <2>1, <2>3, Zenon DEF max
  <2> QED BY <2>3, <2>4, Zenon
<1>9. TypeOK'
  <2>1. NoSync \in SyncProgress /\ NoIndex \in Index
    BY SizeFacts DEF NoSync, SyncProgress, HeadRevision, Addr, Null, NoIndex,
                     Index, Generation
  <2>2. pend[c].revision # g - 1 => [pend[c] EXCEPT !.pos = prev] \in SyncProgress
    <3>1. pend[c] \in SyncProgress
      BY <1>1 DEF TypeOK
    <3> QED BY <1>6, <3>1 DEF SyncProgress
  <2>3. pend' \in [Conn -> SyncProgress]
    <3>1. pend \in [Conn -> SyncProgress]
      BY <1>1 DEF TypeOK
    <3>2. CASE pend' = [pend EXCEPT ![c] = NoSync]
      BY <2>1, <3>1, <3>2
    <3>3. CASE pend' = [pend EXCEPT ![c].pos = prev] /\ pend[c].revision # g - 1
      BY <2>2, <3>1, <3>3
    <3> QED BY <1>7, <3>2, <3>3
  <2>4. cache' \in [Conn -> Index]
    BY <1>1, <1>7, <2>1 DEF TypeOK
  <2>5. logical' \in [Conn -> Addr] /\ fpos' \in [Conn -> Addr]
    <3> DEFINE m == max(logical[c], pos + TrailerSize)
    <3>1. /\ logical \in [Conn -> Addr] /\ fpos \in [Conn -> Addr]
          /\ pos \in Addr /\ m \in Addr
      BY <1>1, <1>4, <1>8, Zenon DEF TypeOK
    <3>2. \/ /\ fpos' = [fpos EXCEPT ![c] = pos]
             /\ logical' = [logical EXCEPT ![c] = m]
          \/ fpos' = fpos /\ logical' = logical
      BY <1>7, Zenon
    <3> HIDE DEF m, pos
    <3> QED BY <3>1, <3>2, Zenon
  <2> QED BY <1>1, <1>5, <1>7, <2>3, <2>5, <2>4 DEF TypeOK
<1>10. FileInv'
  BY <1>1, <1>5, Zenon DEF FileInv
<1>11. \/ /\ pend'[c].phase = "none" /\ fpos'[c] = pos
          /\ logical'[c] = max(logical[c], pos + TrailerSize)
          /\ ~cache'[c].loaded /\ ~cache'[c].heap
       \/ /\ pend'[c].phase = "walk" /\ pend'[c].pos = prev
          /\ pend'[c].revision = pend[c].revision
          /\ pend[c].revision # g - 1
          /\ cache'[c] = cache[c] /\ fpos'[c] = fpos[c]
          /\ logical'[c] = logical[c]
  BY <1>1, <1>2, <1>7 DEF TypeOK, SyncProgress, NoSync, NoIndex
<1>12. LockInv(c)'
  BY <1>1, <1>2, <1>5, <1>7, <1>11 DEF ConnInv, LockInv
<1>13. SyncInv(c)'
  <2>1. InHist(pos, 0)
    <3>1. pend[c].revision \in Nat /\ pend[c].revision <= g - 1 /\ g \in Nat
      BY <1>3, <1>4, Zenon
    <3>2. 0 <= g - 1
      BY ONLY <3>1, SMTT(20)
    <3> QED BY <1>3, <3>2, Zenon DEF InHist
  <2>2. pend[c].revision # g - 1 => InHist(prev, pend[c].revision)
    BY <1>6 DEF InHist
  <2>3. InHist(fpos[c], 0)
    BY <1>1, Zenon DEF ConnInv, SyncInv
  <2> QED BY <1>2, <1>5, <1>7, <1>11, <2>1, <2>2, <2>3, Zenon
             DEF SyncInv, InHist
<1>14. SizeInv(c)'
  <2>1. logical[c] <= End /\ fpos[c] + TrailerSize <= logical[c]
    BY <1>1, <1>2, Zenon DEF ConnInv, SizeInv
  <2>2. logical'[c] <= End /\ fpos'[c] + TrailerSize <= logical'[c]
    <3> DEFINE l == logical[c]
               t == pos + TrailerSize
    <3>1. l \in Nat /\ t \in Nat /\ t <= End /\ End \in Nat
      BY <1>4, <1>8, EndFacts, SizeFacts
    <3>2. l <= max(l, t) /\ t <= max(l, t) /\ max(l, t) \in {l, t}
      <4> HIDE DEF l, t
      <4> QED BY <3>1 DEF max
    <3> QED BY <1>11, <2>1, <3>1, <3>2, Zenon
  <2>3. End' = End /\ txn' = txn /\ state' = state
    BY <1>5, <1>7 DEF End
  <2> QED BY <1>2, <2>2, <2>3, Zenon DEF SizeInv, Growing
<1>15. CacheInv(c)' /\ CommitInv(c)'
  BY <1>1, <1>2, <1>5, <1>7, <1>11, Zenon
  DEF ConnInv, CacheInv, CommitInv, Growing
<1>16. \A c2 \in Conn \ {c} : Untouched(c2)
  BY <1>1, <1>5, <1>7 DEF Untouched, TypeOK
<1> QED BY <1>5, <1>7, <1>9, <1>10, <1>12, <1>13, <1>14, <1>15, <1>16,
           QuietFrame, Zenon DEF ConnInv

(* A call of sync() asks for a revision that exists.                       *)
LEMMA SyncCallStep ==
  ASSUME SafeUse, StoreInvariant, NEW c \in Conn, NEW r \in 0..HeadRevision,
         SyncCall(c, r)
  PROVE  StoreInvariant'
<1>1. TypeOK /\ HistoryInv /\ ConnInv(c) /\ FileInv
  BY DEF StoreInvariant
<1>2. /\ disk' = disk /\ file_size' = file_size /\ footer_pos' = footer_pos
      /\ tlock' = tlock /\ state' = state /\ fpos' = fpos
      /\ logical' = logical /\ regions' = regions /\ cache' = cache
      /\ txn' = txn /\ hist' = hist /\ intent' = intent
  BY Zenon DEF SyncCall
<1>3. /\ pend' \in [Conn -> SyncProgress]
      /\ pend'[c].revision = r /\ pend'[c].pos = fpos[c]
      /\ pend'[c].phase = IF r < get_current_revision(c) THEN "walk"
                          ELSE "load"
      /\ \A c2 \in Conn \ {c} : pend'[c2] = pend[c2]
  BY <1>1, Zenon DEF SyncCall, TypeOK, SyncProgress
<1>4. TypeOK' /\ FileInv'
  BY <1>1, <1>2, <1>3, Zenon DEF TypeOK, FileInv
<1>5. /\ state[c] = "open" /\ pend[c].phase = "none" /\ txn[c].phase = "none"
      /\ r # HeadRevision => r <= Len(hist) - 1
  BY <1>1, HeadFacts, Zenon DEF SyncCall, Idle, SafeUse
<1>6. LockInv(c)'
  BY <1>1, <1>2, <1>3, <1>5, Zenon DEF ConnInv, LockInv
<1>7. SyncInv(c)'
  <2>1. PICK g \in DOMAIN hist : hist[g].pos = fpos[c]
    BY <1>1, Zenon DEF ConnInv, SyncInv, InHist
  <2>2. get_current_revision(c) = g - 1
    BY <1>1, <2>1, HeadFacts, Zenon DEF get_current_revision
  <2>3. g \in Nat
    <3>1. g \in 1..Len(hist) /\ Len(hist) \in Nat
      BY <1>1, HeadFacts, Zenon
    <3> QED BY ONLY <3>1, SMTT(20)
  <2>4. r < get_current_revision(c) => InHist(fpos[c], r)
    BY <2>1, <2>2, <2>3 DEF InHist
  <2> QED BY <1>1, <1>2, <1>3, <1>5, <2>4, Zenon DEF ConnInv, SyncInv, InHist
<1>8. SizeInv(c)' /\ CommitInv(c)' /\ CacheInv(c)'
  BY <1>1, <1>2, <1>3, <1>5, Zenon
  DEF ConnInv, SizeInv, CommitInv, CacheInv, Growing, End,
      get_current_revision
<1>9. \A c2 \in Conn \ {c} : Untouched(c2)
  BY <1>2, <1>3, Zenon DEF Untouched
<1> QED BY <1>2, <1>4, <1>6, <1>7, <1>8, <1>9, QuietFrame, Zenon DEF ConnInv

(* What sync() reads from the header is a committed trailer.               *)
LEMMA SyncLoadStep ==
  ASSUME SafeUse, StoreInvariant, NEW c \in Conn, SyncLoad(c)
  PROVE  StoreInvariant'
<1>1. TypeOK /\ HistoryInv /\ ConnInv(c) /\ FileInv
  BY DEF StoreInvariant
<1>2. /\ disk' = disk /\ file_size' = file_size /\ footer_pos' = footer_pos
      /\ tlock' = tlock /\ state' = state /\ fpos' = fpos
      /\ logical' = logical /\ regions' = regions /\ cache' = cache
      /\ txn' = txn /\ hist' = hist /\ intent' = intent
  BY DEF SyncLoad
<1>3. /\ pend' \in [Conn -> SyncProgress]
      /\ \/ /\ pend'[c].phase = "none"
            /\ footer_pos = fpos[c]
         \/ /\ pend'[c].phase = "apply" /\ pend'[c].pos = footer_pos
            /\ pend'[c].revision = pend[c].revision
      /\ \A c2 \in Conn \ {c} : pend'[c2] = pend[c2]
  <2>1. NoSync \in SyncProgress /\ NoSync.phase = "none"
    BY SizeFacts DEF NoSync, SyncProgress, HeadRevision, Addr, Null
  <2> QED BY <1>1, <2>1, Zenon DEF SyncLoad, TypeOK, SyncProgress
<1>4. TypeOK' /\ FileInv'
  BY <1>1, <1>2, <1>3, Zenon DEF TypeOK, FileInv
<1>5. pend[c].phase = "load" /\ state[c] = "open"
  BY <1>1 DEF SyncLoad, ConnInv, LockInv
<1>6. LockInv(c)'
  BY <1>1, <1>2, <1>3, <1>5, Zenon DEF ConnInv, LockInv
<1>7. SyncInv(c)'
  <2>1. pend[c].revision # HeadRevision => pend[c].revision <= Len(hist) - 1
    BY <1>1, <1>5, Zenon DEF ConnInv, SyncInv
  <2>2. InHist(footer_pos, IF pend[c].revision = HeadRevision THEN 0
                           ELSE pend[c].revision)
    BY <1>1, <2>1, HeadInHist, HeadFacts
  <2> QED BY <1>1, <1>2, <1>3, <1>5, <2>2, Zenon DEF ConnInv, SyncInv, InHist
<1>8. SizeInv(c)' /\ CommitInv(c)' /\ CacheInv(c)'
  BY <1>1, <1>2, <1>3, <1>5, Zenon
  DEF ConnInv, SizeInv, CommitInv, CacheInv, Growing, End,
      get_current_revision
<1>9. \A c2 \in Conn \ {c} : Untouched(c2)
  BY <1>2, <1>3, Zenon DEF Untouched
<1> QED BY <1>2, <1>4, <1>6, <1>7, <1>8, <1>9, QuietFrame, Zenon DEF ConnInv
----------------------------------------------------------------------------
(* The beginning of a transaction.                                         *)

(* The new transaction starts at the head, with its index.                 *)
LEMMA BeginReadyStep ==
  ASSUME SafeUse, StoreInvariant, NEW c \in Conn, BeginReady(c)
  PROVE  StoreInvariant'
<1>1. TypeOK /\ HistoryInv /\ ConnInv(c) /\ FileInv
  BY DEF StoreInvariant
<1>2. state[c] = "open" /\ pend[c].phase = "none" /\ txn[c].phase = "begin"
  BY DEF BeginReady, Idle
<1>3. /\ disk' = disk /\ file_size' = file_size /\ footer_pos' = footer_pos
      /\ state' = state /\ regions' = regions /\ fpos' = fpos
      /\ logical' = logical /\ cache' = cache /\ tlock' = tlock
      /\ hist' = hist /\ pend' = pend
  BY DEF BeginReady
<1>4. /\ txn' = [txn EXCEPT ![c].phase = "live", ![c].dbsize = logical[c]]
      /\ intent' = [intent EXCEPT ![c] = hist[Len(hist)].map]
  BY DEF BeginReady
<1>5. /\ fpos[c] = footer_pos /\ txn[c].first = Null /\ txn[c].size = 0
      /\ ~cache[c].heap /\ logical[c] = End /\ logical[c] \in Addr
      /\ hist[Len(hist)].map \in [Key -> MaybeVal]
      /\ hist[Len(hist)].pos = footer_pos /\ Len(hist) \in DOMAIN hist
  <2>1. /\ fpos[c] = footer_pos /\ txn[c].first = Null /\ txn[c].size = 0
        /\ ~cache[c].heap /\ fpos[c] + TrailerSize <= logical[c]
        /\ logical[c] <= End
    BY <1>1, <1>2, Zenon DEF ConnInv, LockInv, SyncInv, SizeInv, CacheInv
  <2>2. logical[c] \in Addr /\ logical[c] \in Nat
    BY <1>1, SizeFacts, Zenon DEF TypeOK
  <2>3. logical[c] = End
    <3>1. End \in Nat /\ End = footer_pos + TrailerSize
      BY EndFacts
    <3>2. End <= logical[c]
      BY <2>1, <3>1
    <3> QED BY <2>1, <2>2, <3>1, <3>2
  <2> QED BY <1>1, <2>1, <2>2, <2>3, HeadFacts, Zenon DEF HistoryInv
<1>6. TypeOK'
  <2>1. [txn[c] EXCEPT !.phase = "live", !.dbsize = logical[c]] \in Transaction
    <3>1. txn[c] \in Transaction
      BY <1>1 DEF TypeOK
    <3> QED BY <1>5, <3>1, Zenon DEF Transaction
  <2>2. txn' \in [Conn -> Transaction]
    BY <1>1, <1>4, <2>1 DEF TypeOK
  <2> QED BY <1>1, <1>3, <1>4, <1>5, <2>2, Zenon DEF TypeOK
<1>7. FileInv'
  BY <1>1, <1>3, Zenon DEF FileInv
<1>8. /\ txn'[c].phase = "live" /\ txn'[c].first = Null /\ txn'[c].size = 0
      /\ txn'[c].dbsize = logical[c]
      /\ intent'[c] = hist[Len(hist)].map
  BY <1>1, <1>4, <1>5 DEF TypeOK, Transaction
<1>9. LockInv(c)' /\ SyncInv(c)' /\ CommitInv(c)'
  BY <1>1, <1>2, <1>3, <1>8, Zenon
  DEF ConnInv, LockInv, SyncInv, InHist, CommitInv
<1>10. SizeInv(c)'
  <2>1. End' = End
    BY <1>3 DEF End
  <2>2. fpos[c] + TrailerSize <= logical[c]
    BY <1>1, <1>2, Zenon DEF ConnInv, SizeInv
  <2>3. End = End + 0
    BY EndFacts
  <2>4. /\ fpos'[c] + TrailerSize <= logical'[c] /\ fpos'[c] = footer_pos'
        /\ logical'[c] = End' /\ txn'[c].dbsize = End'
        /\ logical'[c] = End' + txn'[c].size
    BY <1>3, <1>5, <1>8, <2>1, <2>2, <2>3, Zenon, Zenon
  <2> QED BY <1>8, <2>4, Zenon DEF SizeInv, Growing
<1>11. CacheInv(c)'
  <2>1. Reads(disk, IndexMap(disk, fpos[c]), hist[Len(hist)].map, logical[c])
    <3>1. logical[c] \in Nat /\ End <= logical[c]
      BY <1>5, EndFacts
    <3> QED BY <1>1, <1>5, <3>1, HistoryReads, Zenon
  <2>2. cache[c].loaded
          => cache[c] = [loaded |-> TRUE, revision |-> get_current_revision(c),
                         heap |-> FALSE, map |-> IndexMap(disk, fpos[c])]
    BY <1>1, <1>2, <1>5, Zenon DEF ConnInv, CacheInv
  <2>3. cache[c].loaded => /\ cache[c].revision = get_current_revision(c)
                           /\ cache[c].map = IndexMap(disk, fpos[c])
    BY ONLY <2>2, SMTT(20)
  <2>4. get_current_revision(c)' = get_current_revision(c)
    BY <1>3, Zenon DEF get_current_revision
  <2>5. cache[c].loaded => state[c] = "open"
    BY <1>2
  <2> QED BY <1>2, <1>3, <1>5, <1>8, <2>1, <2>2, <2>3, <2>4, <2>5, Zenon
          DEF CacheInv, Growing
<1>12. \A c2 \in Conn \ {c} : Untouched(c2)
  BY <1>1, <1>3, <1>4 DEF Untouched, TypeOK
<1> QED BY <1>3, <1>6, <1>7, <1>9, <1>10, <1>11, <1>12, QuietFrame, Zenon
           DEF ConnInv

(* begin() takes the lock, and from then on the head cannot move.          *)
LEMMA BeginLockStep ==
  ASSUME SafeUse, StoreInvariant, NEW c \in Conn, BeginLock(c)
  PROVE  StoreInvariant'
<1>1. TypeOK /\ HistoryInv /\ ConnInv(c) /\ FileInv
  BY DEF StoreInvariant
<1>2. /\ state[c] = "open" /\ pend[c].phase = "none" /\ txn[c].phase = "none"
      /\ tlock \in {NoProc, ProcOf[c]} /\ ~cache[c].heap
  BY DEF BeginLock, Idle, Usable, LockFree, SafeUse
<1>3. /\ disk' = disk /\ file_size' = file_size /\ footer_pos' = footer_pos
      /\ state' = state /\ regions' = regions /\ fpos' = fpos
      /\ logical' = logical /\ cache' = cache /\ tlock' = ProcOf[c]
      /\ hist' = hist /\ intent' = intent
  BY DEF BeginLock
<1>4. /\ txn' = [txn EXCEPT ![c] = [NoTxn EXCEPT !.phase = "begin"]]
      /\ pend' = [pend EXCEPT ![c] = [NoSync EXCEPT !.phase = "load"]]
  BY DEF BeginLock
<1>5. TypeOK'
  <2>1. [NoTxn EXCEPT !.phase = "begin"] \in Transaction
    BY SizeFacts DEF NoTxn, Transaction, Addr, Null
  <2>2. [NoSync EXCEPT !.phase = "load"] \in SyncProgress
    BY SizeFacts DEF NoSync, SyncProgress, HeadRevision, Addr, Null
  <2>3. ProcOf[c] \in Process
    BY ConstantsAssumption
  <2> QED BY <1>1, <1>3, <1>4, <2>1, <2>2, <2>3 DEF TypeOK
<1>6. FileInv'
  BY <1>1, <1>3 DEF FileInv
<1>7. /\ txn'[c].phase = "begin" /\ txn'[c].first = Null /\ txn'[c].size = 0
      /\ pend'[c].phase = "load" /\ pend'[c].revision = HeadRevision
  BY <1>1, <1>4 DEF TypeOK, NoTxn, NoSync
<1>8. LockInv(c)' /\ SyncInv(c)' /\ SizeInv(c)' /\ CommitInv(c)'
  BY <1>1, <1>2, <1>3, <1>7, Zenon
  DEF ConnInv, LockInv, SyncInv, InHist, SizeInv, CommitInv, Growing, End
<1>9. CacheInv(c)'
  BY <1>1, <1>2, <1>3, <1>7, Zenon
  DEF ConnInv, CacheInv, Growing, get_current_revision
<1>10. \A c2 \in Conn \ {c} : Untouched(c2)
  BY <1>1, <1>3, <1>4 DEF Untouched, TypeOK
<1> QED BY <1>2, <1>3, <1>5, <1>6, <1>8, <1>9, <1>10, QuietFrame, Zenon
           DEF ConnInv
----------------------------------------------------------------------------
(* The file and the index that a transaction works on.                     *)

(* Every object is inside a file of size f, and inside the modelled store. *)
Fits(d, f) ==
  \A x \in Addr : /\ d[x] = Free \/ x + d[x].bytes <= f
                  /\ x + d[x].bytes <= MaxSize

(* Writing an object that fits keeps a file in which everything fits.      *)
LEMMA WriteFits ==
  ASSUME NEW d \in [Addr -> Object], NEW a \in Addr, NEW o \in Object,
         NEW f \in Nat, Fits(d, f), a + o.bytes <= f, a + o.bytes <= MaxSize
  PROVE  Fits(Write(d, a, o), f)
<1> SUFFICES ASSUME NEW x \in Addr
             PROVE  /\ \/ Write(d, a, o)[x] = Free
                       \/ x + Write(d, a, o)[x].bytes <= f
                    /\ x + Write(d, a, o)[x].bytes <= MaxSize
  BY DEF Fits
<1>1. x \in Nat /\ x <= MaxSize /\ MaxSize \in Nat
  BY SizeFacts DEF Addr
<1>2. \/ x = a /\ Write(d, a, o)[x] = o
      \/ Write(d, a, o)[x] = d[x]
      \/ Write(d, a, o)[x] = Free
  BY DEF Write
<1>3. Free.bytes = 0
  BY DEF Free
<1> QED BY <1>1, <1>2, <1>3 DEF Fits

(* The new size of the file has room for the n bytes asked for.            *)
LEMMA SizeAfterResize ==
  ASSUME SafeUse, NEW R, NEW n \in Nat, 0 < n, n <= MaxSize,
         NEW size \in Nat, SmallFiles \/ MaxSize <= size
  PROVE  /\ FileAfterResize(R, n, size) \in Nat
         /\ n <= FileAfterResize(R, n, size)
         /\ SmallFiles \/ MaxSize <= FileAfterResize(R, n, size)
BY FileFacts, SizeFacts

(* Giving the file a size f keeps what ends by f, and the rest fits.       *)
LEMMA ResizeFacts ==
  ASSUME NEW d \in [Addr -> Object], \A x \in Addr : x + d[x].bytes <= MaxSize,
         NEW f \in Nat
  PROVE  /\ Truncated(d, f) \in [Addr -> Object]
         /\ Fits(Truncated(d, f), f)
         /\ \A n \in Nat : n <= f =>
              \A x \in Addr : x + d[x].bytes <= n => Truncated(d, f)[x] = d[x]
         /\ \A e \in Nat : e <= f /\ EndsBelow(d, e)
              => /\ EndsBelow(Truncated(d, f), e)
                 /\ \A x \in Addr : x < e => Truncated(d, f)[x] = d[x]
<1>1. f \in Nat
  OBVIOUS
<1>2. Truncated(d, f) \in [Addr -> Object]
  BY <1>1, TruncatedFacts
<1>3. Fits(Truncated(d, f), f)
  <2>1. \A x \in Addr : Truncated(d, f)[x] \in {Free, d[x]}
    BY <1>1, TruncatedFacts
  <2>2. \A x \in Addr : Truncated(d, f)[x] = Free
                          \/ x + Truncated(d, f)[x].bytes <= f
    BY <1>1, TruncatedFacts, Zenon
  <2>3. \A x \in Addr : x + Free.bytes <= MaxSize
    BY SizeFacts DEF Free, Addr
  <2> QED BY <2>1, <2>2, <2>3 DEF Fits
<1>4. ASSUME NEW n \in Nat, n <= f, NEW x \in Addr, x + d[x].bytes <= n
      PROVE  Truncated(d, f)[x] = d[x]
  <2>1. x \in Nat /\ d[x].bytes \in Nat
    BY SizeFacts, ObjectBytes
  <2>2. x + d[x].bytes <= f
    BY <1>4, <2>1
  <2> QED BY <2>2, TruncatedFacts
<1>5. \A e \in Nat : e <= f /\ EndsBelow(d, e)
        => /\ EndsBelow(Truncated(d, f), e)
           /\ \A x \in Addr : x < e => Truncated(d, f)[x] = d[x]
  BY TruncatedFacts, Zenon
<1> QED BY <1>2, <1>3, <1>4, <1>5, Zenon

(* The leaves of an index are kept when what starts and ends below n is.   *)
LEMMA ReadsKept ==
  ASSUME NEW d \in [Addr -> Object], NEW d2 \in [Addr -> Object],
         NEW n \in Nat,
         \A x \in Addr : x < n /\ x + d[x].bytes <= n => d2[x] = d[x],
         NEW m \in [Key -> Addr], NEW w \in [Key -> MaybeVal],
         Reads(d, m, w, n)
  PROVE  Reads(d2, m, w, n)
<1>1. ASSUME NEW k \in Key, m[k] # Null, m[k] + LeafSize <= n,
             d[m[k]] = LeafOf(k, w[k])
      PROVE  d2[m[k]] = d[m[k]]
  <2>1. m[k] \in Addr /\ m[k] \in Nat
    BY <1>1, SizeFacts, Zenon
  <2>2. m[k] < n
    BY <1>1, <2>1, SizeFacts
  <2>3. LeafOf(k, w[k]).bytes = LeafSize
    BY DEF LeafOf
  <2> QED BY <1>1, <2>1, <2>2, <2>3
<1> QED BY <1>1 DEF Reads

(* What a connection that is synced to a revision loads as its index.      *)
LEMMA SyncedIndex ==
  ASSUME StoreInvariant, NEW c \in Conn
  PROVE  /\ IndexMap(disk, fpos[c]) \in [Key -> Addr]
         /\ get_current_revision(c) \in Generation
         /\ \A r \in 0..MaxGeneration, h \in BOOLEAN :
              [loaded |-> TRUE, revision |-> r, heap |-> h,
               map |-> IndexMap(disk, fpos[c])] \in Index
<1>1. TypeOK /\ HistoryInv /\ InHist(fpos[c], 0)
  BY Zenon DEF StoreInvariant, ConnInv, SyncInv
<1>2. PICK g \in DOMAIN hist : hist[g].pos = fpos[c]
  BY <1>1, Zenon DEF InHist
<1>3. IndexMap(disk, fpos[c]) \in [Key -> Addr]
  <2>1. HistoryInv /\ TypeOK /\ End \in Nat /\ End <= End
    <3>1. HistoryInv /\ TypeOK /\ End \in Nat
      BY <1>1, HeadFacts, Zenon
    <3>2. End <= End
      BY ONLY <3>1, SMTT(20)
    <3> QED BY <3>1, <3>2, Zenon
  <2>2. IndexMap(disk, hist[g].pos) \in [Key -> Addr]
    BY <2>1, HistoryReads, Zenon
  <2> QED BY <1>2, <2>2, Zenon
<1>4. get_current_revision(c) = g - 1 /\ g \in 1..Len(hist)
  BY <1>1, <1>2, HeadFacts, Zenon DEF get_current_revision
<1>5. g - 1 \in Generation
  <2>1. Len(hist) \in 1..(MaxGeneration + 1)
    BY <1>1, Zenon DEF HistoryInv
  <2> QED BY <1>4, <2>1, SizeFacts DEF Generation
<1> QED BY <1>3, <1>4, <1>5, Zenon DEF Index, Generation

(* The index a growing transaction works on reads as the transaction means *)
(* it to.                                                                  *)
LEMMA IndexReads ==
  ASSUME StoreInvariant, NEW c \in Conn, Growing(c)
  PROVE  /\ get_index(c, TRUE) \in Index
         /\ get_index(c, TRUE).loaded
         /\ get_index(c, TRUE).revision = get_current_revision(c)
         /\ Reads(disk, get_index(c, TRUE).map, intent[c], logical[c])
<1>1. TypeOK /\ HistoryInv /\ ConnInv(c)
  BY DEF StoreInvariant
<1>2. CASE cache[c].loaded
  <2>1. get_index(c, TRUE) = cache[c] /\ cache[c] \in Index
    BY <1>1, <1>2, Zenon DEF get_index, TypeOK
  <2> QED BY <1>1, <1>2, <2>1, Zenon DEF ConnInv, CacheInv
<1>3. CASE ~cache[c].loaded
  <2> DEFINE index == [loaded |-> TRUE, revision |-> get_current_revision(c),
                       heap |-> FALSE, map |-> IndexMap(disk, fpos[c])]
  <2>1. get_index(c, TRUE) = index
    BY <1>3, Zenon DEF get_index
  <2>2. index \in Index
    BY <2>1, SyncedIndex, Zenon DEF Generation
  <2>3. /\ fpos[c] = footer_pos /\ intent[c] = hist[Len(hist)].map
        /\ logical[c] = End + txn[c].size /\ txn[c].size \in Nat
    <3>1. txn[c].size \in Nat
      BY <1>1 DEF TypeOK, Transaction
    <3>2. fpos[c] = footer_pos /\ logical[c] = End + txn[c].size
      BY <1>1, Zenon DEF Growing, ConnInv, SizeInv
    <3>3. intent[c] = hist[Len(hist)].map
      BY <1>1, <1>3, Zenon DEF ConnInv, CacheInv
    <3> QED BY <3>1, <3>2, <3>3
  <2>4. footer_pos = hist[Len(hist)].pos /\ Len(hist) \in DOMAIN hist
        /\ End <= logical[c] /\ logical[c] \in Nat
    <3>1. footer_pos = hist[Len(hist)].pos /\ Len(hist) \in DOMAIN hist
      BY <1>1, HeadFacts, Zenon DEF HistoryInv
    <3>2. End \in Nat
      BY EndFacts, Zenon
    <3>3. End <= logical[c] /\ logical[c] \in Nat
      <4>1. logical[c] = End + txn[c].size /\ txn[c].size \in Nat /\ End \in Nat
        BY <2>3, <3>2, Zenon
      <4> QED BY ONLY <4>1, SMTT(20)
    <3> QED BY <3>1, <3>3
  <2>5. Reads(disk, IndexMap(disk, fpos[c]), intent[c], logical[c])
    BY <1>1, <2>3, <2>4, HistoryReads, Zenon
  <2>6. /\ index.loaded /\ index.revision = get_current_revision(c)
        /\ index.map = IndexMap(disk, fpos[c])
    OBVIOUS
  <2> HIDE DEF index
  <2> QED BY <2>1, <2>2, <2>5, <2>6, Zenon
<1> QED BY <1>2, <1>3, Zenon

(* A cached index is the one of the revision it is loaded for.             *)
LEMMA LoadIndexStep ==
  ASSUME SafeUse, StoreInvariant, NEW c \in Conn, LoadIndex(c)
  PROVE  StoreInvariant'
<1> DEFINE index == [loaded |-> TRUE, revision |-> get_current_revision(c),
                     heap |-> FALSE, map |-> IndexMap(disk, fpos[c])]
<1>1. TypeOK /\ HistoryInv /\ ConnInv(c) /\ FileInv
  BY DEF StoreInvariant
<1>2. /\ state[c] = "open" /\ pend[c].phase = "none" /\ ~cache[c].loaded
      /\ txn[c].phase \in {"none", "live"}
  BY Zenon DEF LoadIndex, Idle
<1>3. /\ disk' = disk /\ file_size' = file_size /\ footer_pos' = footer_pos
      /\ state' = state /\ regions' = regions /\ fpos' = fpos
      /\ logical' = logical /\ tlock' = tlock /\ txn' = txn
      /\ hist' = hist /\ pend' = pend /\ intent' = intent
  BY Zenon DEF LoadIndex
<1>4. cache' = [cache EXCEPT ![c] = index] /\ index = get_index(c, TRUE)
  BY <1>2, Zenon DEF LoadIndex, get_index
<1>5. TypeOK'
  <2>1. index \in Index
    BY SyncedIndex, Zenon DEF Generation
  <2>2. cache' \in [Conn -> Index]
    BY <1>1, <1>4, <2>1, Zenon DEF TypeOK
  <2> QED BY <1>1, <1>3, <2>2, Zenon DEF TypeOK
<1>6. FileInv'
  BY <1>1, <1>3, Zenon DEF FileInv
<1>7. LockInv(c)' /\ SyncInv(c)' /\ SizeInv(c)' /\ CommitInv(c)'
  BY <1>1, <1>2, <1>3, Zenon
  DEF ConnInv, LockInv, SyncInv, InHist, SizeInv, CommitInv, Growing, End
<1>8. CacheInv(c)'
  <2>1. cache'[c] = index /\ get_current_revision(c)' = get_current_revision(c)
    BY <1>1, <1>3, <1>4, Zenon DEF TypeOK, get_current_revision
  <2>2. index.loaded /\ ~index.heap /\ index.revision = get_current_revision(c)
        /\ index.map = IndexMap(disk, fpos[c])
    OBVIOUS
  <2>3. Growing(c) => Reads(disk, index.map, intent[c], logical[c])
    BY <1>4, IndexReads, Zenon
  <2> HIDE DEF index
  <2>4. Growing(c)' <=> Growing(c)
    BY <1>3, Zenon DEF Growing
  <2>5. index = [loaded |-> TRUE, revision |-> get_current_revision(c),
                 heap |-> FALSE, map |-> IndexMap(disk, fpos[c])]
    BY DEF index
  <2> QED BY <1>2, <1>3, <2>1, <2>2, <2>3, <2>4, <2>5, Zenon DEF CacheInv
<1>9. \A c2 \in Conn \ {c} : Untouched(c2)
  BY <1>1, <1>3, <1>4, Zenon DEF Untouched, TypeOK
<1> QED BY <1>3, <1>5, <1>6, <1>7, <1>8, <1>9, QuietFrame, Zenon DEF ConnInv
============================================================================
