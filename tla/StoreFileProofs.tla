-------------------------- MODULE StoreFileProofs --------------------------
(***************************************************************************)
(* What holds of the store file for all sizes and all sets of processes.   *)
(* However many processes race to create the file, and whichever of them   *)
(* are killed on the way, there is one store and it is whole.  And however *)
(* a connection's regions come and go, a block is just the bytes at its    *)
(* addresses, all that is committed has been stored, and of what it has    *)
(* sealed just the whole pages are read-only.                              *)
(***************************************************************************)
EXTENDS StoreFile, WellFoundedInduction, TLAPS

----------------------------------------------------------------------------
(* Creating the file.                                                      *)

Places == {"open", "unique", "build", "rename", "unlink", "reopen", "opened",
           "failed", "killed"}

CreateTypeOK ==
  /\ pc \in [Process -> Places]
  /\ dir \in Process \cup {NoProcess}
  /\ contents \in [Process -> {"none", "part", "whole"}]
  /\ handle \in [Process -> Process \cup {NoProcess}]

(* A process that is about to give its file the name has written all of    *)
(* it.  The file at the path is that of a process that is past this, and   *)
(* whoever has come to the end has it.                                     *)
CreateInvariant ==
  /\ CreateTypeOK
  /\ \A p \in Process : pc[p] = "rename" => contents[p] = "whole"
  /\ dir # NoProcess => /\ contents[dir] = "whole"
                        /\ pc[dir] \notin {"open", "unique", "build"}
  /\ \A p \in Process : pc[p] = "opened" => dir # NoProcess /\ handle[p] = dir

(* Nobody has begun.                                                       *)
LEMMA CreateInitial ==
  ASSUME CreateInit PROVE CreateInvariant
BY CreateAssumption DEF CreateInit, CreateInvariant, CreateTypeOK, Places

(* Every step of a process, and its being killed, keeps the invariant.     *)
LEMMA StepsPreserve ==
  ASSUME CreateInvariant, NEW p \in Process, Steps(p) \/ Killed(p)
  PROVE  CreateInvariant'
<1> USE CreateAssumption DEF CreateInvariant, CreateTypeOK, Places, At
<1>1. CASE OpenExisting(p)
  BY <1>1 DEF OpenExisting, OpenedFile
<1>2. CASE NotFound(p)
  BY <1>2 DEF NotFound
<1>3. CASE Unique(p)
  BY <1>3 DEF Unique
<1>4. CASE BuildNewStore(p)
  BY <1>4 DEF BuildNewStore
<1>5. CASE BuildFails(p)
  BY <1>5 DEF BuildFails
<1>6. CASE Rename(p)
  BY <1>6 DEF Rename
<1>7. CASE Link(p)
  BY <1>7 DEF Link
<1>8. CASE Unlink(p)
  BY <1>8 DEF Unlink
<1>9. CASE AlreadyThere(p)
  BY <1>9 DEF AlreadyThere
<1>10. CASE Reopen(p)
  BY <1>10 DEF Reopen, OpenedFile
<1>11. CASE Killed(p)
  BY <1>11 DEF Killed
<1> QED BY <1>1, <1>2, <1>3, <1>4, <1>5, <1>6, <1>7, <1>8, <1>9, <1>10, <1>11
        DEF Steps

(* The invariant holds for every set of processes.                         *)
THEOREM CreateInvariantHolds == Spec => []CreateInvariant
<1>1. Init => CreateInvariant
  BY CreateInitial DEF Init
<1>2. CreateInvariant /\ [Next]_vars => CreateInvariant'
  <2> SUFFICES ASSUME CreateInvariant, [Next]_vars PROVE CreateInvariant'
    OBVIOUS
  <2>1. CASE CreateStep
    BY <2>1, StepsPreserve DEF CreateStep, CreateNext
  <2>2. CASE UNCHANGED createVars
    BY <2>2 DEF createVars, CreateInvariant, CreateTypeOK
  <2> QED BY <2>1, <2>2 DEF Next, ConnectionStep, OthersStep, vars
<1> QED BY <1>1, <1>2, PTL DEF Spec

(* For every set of processes and every way the file system renames: who   *)
(* has opened the path has the store that is still there, and it is whole. *)
THEOREM OneStoreIsMade == Spec => []OneWholeStore
<1>1. CreateInvariant => OneWholeStore
  BY DEF CreateInvariant, OneWholeStore
<1> QED BY <1>1, CreateInvariantHolds, PTL

----------------------------------------------------------------------------
(* Addresses and segments.                                                 *)

Aligned(x) == x \in Nat /\ x % SegmentSize = 0
Seg(x) == x \div SegmentSize

(* A set of natural numbers that is not empty has a least element.         *)
LEMMA LeastElement ==
  ASSUME NEW T \in SUBSET Nat, T # {}
  PROVE  \E m \in T : \A k \in T : m <= k
<1>1. PICK m \in T : \A k \in T : ~(<<k, m>> \in OpToRel(<, Nat))
  BY NatLessThanWellFounded, WFMin, Zenon
<1>2. \A k \in T : ~(k < m)
  BY <1>1, Zenon DEF OpToRel
<1> QED BY <1>2

(* Multiples of a size keep their order and their distance.                *)
LEMMA Multiples ==
  ASSUME NEW w \in Nat, w > 0, NEW j \in Int, NEW k \in Int
  PROVE  /\ j * w \in Int /\ (j + k) * w = j * w + k * w
         /\ (j - k) * w = j * w - k * w /\ (j + 1) * w = j * w + w
         /\ j < k => j * w + w <= k * w
         /\ j * w < k * w => j < k
         /\ j <= k => j * w <= k * w
         /\ 0 <= j => 0 <= j * w
<1>1. /\ j * w \in Int /\ (j + k) * w = j * w + k * w
      /\ (j - k) * w = j * w - k * w /\ (j + 1) * w = j * w + w
      /\ k * w \in Int
  OBVIOUS
<1>2. \A a \in Nat : a * w >= 0
  OBVIOUS
<1>3. \A a \in Nat : a > 0 => a * w >= w
  OBVIOUS
<1>4. ASSUME j < k PROVE j * w + w <= k * w
  <2>1. (k - j) * w >= w /\ (k - j) * w = k * w - j * w
    BY <1>3, <1>4
  <2> QED BY <1>1, <2>1
<1>5. ASSUME k < j PROVE k * w + w <= j * w
  <2>1. (j - k) * w >= w /\ (j - k) * w = j * w - k * w
    BY <1>3, <1>5
  <2> QED BY <1>1, <2>1
<1>6. j * w < k * w => j < k
  <2> SUFFICES ASSUME j * w < k * w, ~(j < k) PROVE FALSE
    OBVIOUS
  <2>1. CASE j = k
    BY <1>1, <2>1
  <2>2. CASE k < j
    BY <1>1, <1>5, <2>2
  <2> QED BY <2>1, <2>2
<1>7. j <= k => j * w <= k * w
  BY <1>1, <1>4
<1>8. 0 <= j => 0 <= j * w
  BY <1>2
<1> QED BY <1>1, <1>4, <1>6, <1>7, <1>8

(* Quotient and remainder.                                                 *)
LEMMA DivMod ==
  ASSUME NEW w \in Nat, w > 0, NEW a \in Int
  PROVE  /\ a \div w \in Int /\ a % w \in 0..(w - 1)
         /\ a = (a \div w) * w + (a % w)
         /\ 0 <= a => 0 <= a \div w
<1> DEFINE q == a \div w
           r == a % w
<1>1. q \in Int /\ r \in 0..(w - 1) /\ r = a - q * w
  OBVIOUS
<1> HIDE DEF q, r
<1>2. q * w \in Int /\ a = q * w + r
  BY <1>1
<1>3. 0 <= a => 0 <= q
  <2> SUFFICES ASSUME 0 <= a, q < 0 PROVE FALSE
    BY <1>1
  <2>1. q * w + w <= 0 * w
    BY <1>1, Multiples
  <2> QED BY <1>1, <1>2, <2>1
<1> QED BY <1>1, <1>2, <1>3, Zenon DEF q, r

(* Quotient and remainder are the only ones there are.                     *)
LEMMA DivUnique ==
  ASSUME NEW w \in Nat, w > 0, NEW a \in Int, NEW q \in Int, NEW r \in 0..(w - 1),
         a = q * w + r
  PROVE  a \div w = q /\ a % w = r
<1> DEFINE d == a \div w
           m == a % w
<1>1. d \in Int /\ m \in 0..(w - 1) /\ a = d * w + m
  BY DivMod
<1> HIDE DEF d, m
<1>2. d * w \in Int /\ q * w \in Int
  BY <1>1
<1>3. ~(d < q)
  <2> SUFFICES ASSUME d < q PROVE FALSE
    OBVIOUS
  <2>1. d * w + w <= q * w
    BY <1>1, Multiples
  <2> QED BY <1>1, <1>2, <2>1
<1>4. ~(q < d)
  <2> SUFFICES ASSUME q < d PROVE FALSE
    OBVIOUS
  <2>1. q * w + w <= d * w
    BY <1>1, Multiples
  <2> QED BY <1>1, <1>2, <2>1
<1>5. d = q
  BY <1>1, <1>3, <1>4
<1> QED BY <1>1, <1>2, <1>5 DEF d, m

(* The segment that begins at an aligned address.                          *)
LEMMA AlignedFacts ==
  ASSUME NEW x, Aligned(x)
  PROVE  x \in Nat /\ Seg(x) \in Nat /\ x = Seg(x) * SegmentSize
BY StorageAssumption, DivMod DEF Aligned, Seg

(* Some number of segments is aligned.                                     *)
LEMMA AlignedMultiple ==
  ASSUME NEW k \in Nat
  PROVE  Aligned(k * SegmentSize) /\ Seg(k * SegmentSize) = k
<1>1. k * SegmentSize \in Nat
  BY StorageAssumption
<1>2. 0 \in 0..(SegmentSize - 1) /\ k * SegmentSize = k * SegmentSize + 0
  BY StorageAssumption, <1>1
<1>3. (k * SegmentSize) \div SegmentSize = k /\ (k * SegmentSize) % SegmentSize = 0
  BY <1>1, <1>2, DivUnique, StorageAssumption
<1> QED BY <1>1, <1>3 DEF Aligned, Seg

(* An address is at or after the start of a segment when its segment is.   *)
LEMMA AlignedOrder ==
  ASSUME NEW x, Aligned(x), NEW a \in Nat
  PROVE  Seg(a) \in Nat /\ (x <= a <=> Seg(x) <= Seg(a))
<1> DEFINE S == SegmentSize
           q == Seg(a)
           r == a % S
           k == Seg(x)
<1>1. S \in Nat /\ S > 0
  BY StorageAssumption
<1>2. x \in Nat /\ k \in Nat /\ x = k * S
  BY AlignedFacts
<1>3. q \in Nat /\ r \in 0..(S - 1) /\ a = q * S + r
  BY <1>1, DivMod DEF Seg
<1> HIDE DEF S, q, r, k
<1>4. q * S \in Int /\ k * S \in Int
  BY <1>1, <1>2, <1>3
<1>5. ASSUME k <= q PROVE x <= a
  <2>1. k * S <= q * S
    BY <1>1, <1>2, <1>3, <1>5, Multiples
  <2> QED BY <1>1, <1>2, <1>3, <1>4, <2>1
<1>6. ASSUME q < k PROVE a < x
  <2>1. q * S + S <= k * S
    BY <1>1, <1>2, <1>3, <1>6, Multiples
  <2> QED BY <1>1, <1>2, <1>3, <1>4, <2>1
<1> QED BY <1>2, <1>3, <1>5, <1>6 DEF q, k

(* A multiple of an aligned size is aligned.                               *)
LEMMA AlignedTimes ==
  ASSUME NEW x, Aligned(x), NEW k \in Nat
  PROVE  Aligned(k * x)
<1>1. Seg(x) \in Nat /\ x = Seg(x) * SegmentSize
  BY AlignedFacts
<1> DEFINE q == Seg(x)
<1> HIDE DEF q
<1>2. q \in Nat /\ x = q * SegmentSize
  BY <1>1 DEF q
<1>3. k * q \in Nat /\ k * (q * SegmentSize) = (k * q) * SegmentSize
  BY <1>2, StorageAssumption
<1> QED BY <1>2, <1>3, AlignedMultiple

(* Sums and differences of aligned addresses, and their segments.          *)
LEMMA AlignedSum ==
  ASSUME NEW x, NEW y, Aligned(x), Aligned(y)
  PROVE  /\ Aligned(x + y) /\ Seg(x + y) = Seg(x) + Seg(y)
         /\ y <= x => Aligned(x - y) /\ Seg(x - y) = Seg(x) - Seg(y)
<1> DEFINE S == SegmentSize
           j == Seg(x)
           k == Seg(y)
<1>1. S \in Nat /\ S > 0
  BY StorageAssumption
<1>2. x \in Nat /\ j \in Nat /\ x = j * S /\ y \in Nat /\ k \in Nat /\ y = k * S
  BY AlignedFacts
<1>3. y <= x => k <= j
  BY <1>2, AlignedOrder
<1> HIDE DEF j, k
<1>4. x + y = (j + k) * S /\ x - y = (j - k) * S
  BY <1>1, <1>2, Multiples
<1>5. j + k \in Nat
  BY <1>2
<1>6. Aligned(x + y) /\ Seg(x + y) = j + k
  BY <1>4, <1>5, AlignedMultiple
<1>7. ASSUME y <= x PROVE Aligned(x - y) /\ Seg(x - y) = j - k
  <2>1. j - k \in Nat
    BY <1>2, <1>3, <1>7
  <2> QED BY <1>4, <2>1, AlignedMultiple
<1> QED BY <1>6, <1>7 DEF j, k

(* As many pieces as it takes.                                             *)
LEMMA PiecesFacts ==
  ASSUME NEW w \in Nat, w > 0, NEW n \in Nat
  PROVE  /\ Pieces(n, w) \in Nat /\ n <= Pieces(n, w) * w
         /\ Pieces(n, w) * w < n + w
         /\ \A k \in Nat : n <= k * w => Pieces(n, w) <= k
<1> DEFINE p == Pieces(n, w)
           r == (n + w - 1) % w
<1>1. p \in Nat /\ r \in 0..(w - 1) /\ n + w - 1 = p * w + r
  BY DivMod DEF Pieces
<1> HIDE DEF p, r
<1>2. p * w \in Int /\ n <= p * w /\ p * w < n + w
  BY <1>1
<1>3. ASSUME NEW k \in Nat, n <= k * w, k < p PROVE FALSE
  <2>1. k * w + w <= p * w /\ k * w \in Int
    BY <1>1, <1>3, Multiples
  <2> QED BY <1>2, <1>3, <2>1
<1>4. \A k \in Nat : n <= k * w => p <= k
  BY <1>1, <1>3
<1> QED BY <1>1, <1>2, <1>4 DEF p

(* Rounding up gives the next aligned address.                             *)
LEMMA RoundUp ==
  ASSUME NEW n \in Nat
  PROVE  /\ Aligned(round_up(n, SegmentSize)) /\ n <= round_up(n, SegmentSize)
         /\ \A m : Aligned(m) /\ n <= m => round_up(n, SegmentSize) <= m
<1> DEFINE S == SegmentSize
           p == Pieces(n, S)
<1>1. S \in Nat /\ S > 0
  BY StorageAssumption
<1>2. p \in Nat /\ n <= p * S /\ \A k \in Nat : n <= k * S => p <= k
  BY <1>1, PiecesFacts
<1> HIDE DEF p
<1>3. Aligned(p * S)
  BY <1>2, AlignedMultiple
<1>4. ASSUME NEW m, Aligned(m), n <= m PROVE p * S <= m
  <2>1. Seg(m) \in Nat /\ m = Seg(m) * S
    BY <1>4, AlignedFacts
  <2>2. p <= Seg(m)
    BY <1>2, <1>4, <2>1
  <2> QED BY <1>1, <1>2, <2>1, <2>2, Multiples
<1> QED BY <1>2, <1>3, <1>4 DEF round_up, p

(* An aligned address is not moved by rounding up.                         *)
LEMMA RoundAligned ==
  ASSUME NEW x, Aligned(x)
  PROVE  Pieces(x, SegmentSize) = Seg(x) /\ round_up(x, SegmentSize) = x
<1>1. x \in Nat /\ Seg(x) \in Nat /\ x = Seg(x) * SegmentSize
  BY AlignedFacts
<1>2. round_up(x, SegmentSize) = x
  BY <1>1, RoundUp, AlignedFacts
<1>3. Pieces(x, SegmentSize) \in Nat
  BY <1>1, PiecesFacts, StorageAssumption
<1> QED BY <1>2, <1>3, AlignedMultiple DEF round_up

----------------------------------------------------------------------------
(* Regions.                                                                *)

(* Regions lie one after the other from the start of the file; each is     *)
(* some segments long.                                                     *)
RegionsOK(rs) ==
  /\ \E R : rs \in Seq(R)
  /\ \A i \in DOMAIN rs :
       /\ Aligned(rs[i].offset) /\ Aligned(rs[i].size) /\ rs[i].size > 0
       /\ RegionEnd(rs[i]) <= MaxSize
       /\ rs[i].offset = IF i = 1 THEN 0 ELSE RegionEnd(rs[i - 1])

(* The types of a region, and that it is not empty.                        *)
LEMMA RegionFacts ==
  ASSUME NEW rs, RegionsOK(rs)
  PROVE  /\ Len(rs) \in Nat /\ DOMAIN rs = 1..Len(rs)
         /\ \A i \in 1..Len(rs) :
              /\ rs[i].offset \in Nat /\ rs[i].size \in Nat
              /\ Aligned(RegionEnd(rs[i])) /\ RegionEnd(rs[i]) \in Nat
              /\ rs[i].offset < RegionEnd(rs[i])
              /\ Seg(RegionEnd(rs[i])) = Seg(rs[i].offset) + Seg(rs[i].size)
<1>1. Len(rs) \in Nat /\ DOMAIN rs = 1..Len(rs)
  BY DEF RegionsOK
<1>2. ASSUME NEW i \in 1..Len(rs)
      PROVE  /\ rs[i].offset \in Nat /\ rs[i].size \in Nat
             /\ Aligned(RegionEnd(rs[i])) /\ RegionEnd(rs[i]) \in Nat
             /\ rs[i].offset < RegionEnd(rs[i])
             /\ Seg(RegionEnd(rs[i])) = Seg(rs[i].offset) + Seg(rs[i].size)
  <2>1. Aligned(rs[i].offset) /\ Aligned(rs[i].size) /\ rs[i].size > 0
    BY <1>1 DEF RegionsOK
  <2>2. rs[i].offset \in Nat /\ rs[i].size \in Nat
    BY <2>1 DEF Aligned
  <2>3. Aligned(RegionEnd(rs[i]))
        /\ Seg(RegionEnd(rs[i])) = Seg(rs[i].offset) + Seg(rs[i].size)
    BY <2>1, AlignedSum DEF RegionEnd
  <2> QED BY <2>1, <2>2, <2>3 DEF RegionEnd
<1> QED BY <1>1, <1>2

(* A region ends before the later ones begin.                              *)
LEMMA RegionsOrdered ==
  ASSUME NEW rs, RegionsOK(rs), NEW i \in DOMAIN rs, NEW j \in DOMAIN rs, i < j
  PROVE  RegionEnd(rs[i]) <= rs[j].offset
<1> DEFINE n == Len(rs)
           End(k) == RegionEnd(rs[k])
           T == {k \in i..n : i < k /\ ~(End(i) <= rs[k].offset)}
<1>1. n \in Nat /\ DOMAIN rs = 1..n
      /\ \A k \in 1..n : rs[k].offset \in Nat /\ End(k) \in Nat /\ rs[k].offset < End(k)
  BY RegionFacts
<1>2. \A k \in 1..n : k # 1 => rs[k].offset = End(k - 1)
  BY <1>1, Zenon DEF RegionsOK
<1> HIDE DEF n, End
<1>3. SUFFICES ASSUME T # {} PROVE FALSE
  BY <1>1 DEF End
<1>4. T \in SUBSET Nat
  BY <1>1
<1>5. PICK k \in T : \A l \in T : k <= l
  BY <1>3, <1>4, LeastElement, Zenon
<1>6. k \in 1..n /\ k # 1 /\ i < k /\ ~(End(i) <= rs[k].offset) /\ k - 1 \in i..n
      /\ k - 1 \in 1..n /\ ~(k <= k - 1) /\ i \in 1..n
  BY <1>1, <1>5
<1>7. CASE k - 1 = i
  BY <1>1, <1>2, <1>6, <1>7
<1>8. CASE i < k - 1
  <2>1. End(i) <= rs[k - 1].offset
    BY <1>5, <1>6, <1>8
  <2>2. rs[k - 1].offset < End(k - 1) /\ rs[k].offset = End(k - 1)
    BY <1>1, <1>2, <1>6, Zenon
  <2>3. End(i) \in Nat /\ End(k - 1) \in Nat /\ rs[k - 1].offset \in Nat
    BY <1>1, <1>6, Zenon
  <2> QED BY <1>6, <2>1, <2>2, <2>3
<1> QED BY <1>1, <1>6, <1>7, <1>8

(* Every address below the end of what is mapped lies in a region.         *)
LEMMA RegionOf ==
  ASSUME NEW rs, RegionsOK(rs), NEW x \in Nat, x < MappedEnd(rs)
  PROVE  \E j \in DOMAIN rs : rs[j].offset <= x /\ x < RegionEnd(rs[j])
<1> DEFINE n == Len(rs)
           End(k) == RegionEnd(rs[k])
           T == {k \in 1..n : x < End(k)}
<1>1. n \in Nat /\ DOMAIN rs = 1..n
      /\ \A k \in 1..n : rs[k].offset \in Nat /\ End(k) \in Nat
  BY RegionFacts
<1>2. \A k \in 1..n : rs[k].offset = IF k = 1 THEN 0 ELSE End(k - 1)
  BY <1>1, Zenon DEF RegionsOK
<1>3. n \in 1..n /\ x < End(n)
  <2>1. rs # <<>>
    BY DEF MappedEnd
  <2>2. n # 0
    BY <2>1 DEF RegionsOK
  <2> QED BY <1>1, <2>1, <2>2 DEF MappedEnd
<1> HIDE DEF n, End
<1>4. T # {} /\ T \in SUBSET Nat
  BY <1>1, <1>3
<1>5. PICK k \in T : \A l \in T : k <= l
  BY <1>4, LeastElement, Zenon
<1>6. rs[k].offset <= x
  <2>1. CASE k = 1
    BY <1>2, <1>5, <2>1
  <2>2. CASE k # 1
    <3>1. k - 1 \in 1..n /\ ~(k <= k - 1)
      BY <1>1, <1>5, <2>2
    <3> QED BY <1>1, <1>2, <1>5, <2>2, <3>1
  <2> QED BY <2>1, <2>2
<1> QED BY <1>1, <1>5, <1>6 DEF End

(* All regions lie below the end of the mapped part, within MaxSize.       *)
LEMMA MappedFacts ==
  ASSUME NEW rs, RegionsOK(rs)
  PROVE  /\ Aligned(MappedEnd(rs)) /\ MappedEnd(rs) <= MaxSize
         /\ \A i \in DOMAIN rs : RegionEnd(rs[i]) <= MappedEnd(rs)
<1>1. CASE rs = <<>>
  <2>1. Aligned(0) /\ 0 <= MaxSize
    BY StorageAssumption, AlignedMultiple DEF Aligned
  <2> QED BY <1>1, <2>1 DEF MappedEnd
<1>2. CASE rs # <<>>
  <2> DEFINE n == Len(rs)
  <2>1. n \in Nat /\ DOMAIN rs = 1..n
        /\ \A k \in 1..n : /\ rs[k].offset \in Nat /\ RegionEnd(rs[k]) \in Nat
                           /\ Aligned(RegionEnd(rs[k]))
                           /\ rs[k].offset < RegionEnd(rs[k])
    BY RegionFacts
  <2>2. n \in 1..n
    BY <1>2, <2>1 DEF RegionsOK
  <2>3. MappedEnd(rs) = RegionEnd(rs[n])
    BY <1>2 DEF MappedEnd
  <2>4. RegionEnd(rs[n]) <= MaxSize
    BY <2>1, <2>2 DEF RegionsOK
  <2> HIDE DEF n
  <2>5. ASSUME NEW i \in 1..n PROVE RegionEnd(rs[i]) <= RegionEnd(rs[n])
    <3>1. CASE i = n
      BY <2>1, <2>2, <3>1
    <3>2. CASE i < n
      <4>1. RegionEnd(rs[i]) <= rs[n].offset
        BY <2>1, <2>2, <3>2, RegionsOrdered, Zenon
      <4> QED BY <2>1, <2>2, <4>1
    <3> QED BY <2>1, <3>1, <3>2
  <2> QED BY <2>1, <2>2, <2>3, <2>4, <2>5
<1> QED BY <1>1, <1>2

(* Two regions have no segment in common.                                  *)
LEMMA SegmentsApart ==
  ASSUME NEW rs, RegionsOK(rs), NEW i \in DOMAIN rs, NEW j \in DOMAIN rs,
         NEW s \in Int,
         Seg(rs[i].offset) <= s, s < Seg(RegionEnd(rs[i])),
         Seg(rs[j].offset) <= s, s < Seg(RegionEnd(rs[j]))
  PROVE  i = j
<1> DEFINE n == Len(rs)
<1>1. /\ n \in Nat /\ DOMAIN rs = 1..n
      /\ \A k \in 1..n : Aligned(RegionEnd(rs[k])) /\ RegionEnd(rs[k]) \in Nat
                         /\ rs[k].offset \in Nat
  BY RegionFacts
<1>2. ASSUME NEW k \in 1..n, NEW l \in 1..n, k < l
      PROVE  Seg(RegionEnd(rs[k])) <= Seg(rs[l].offset)
             /\ Seg(RegionEnd(rs[k])) \in Int /\ Seg(rs[l].offset) \in Int
  <2>1. RegionEnd(rs[k]) <= rs[l].offset
    BY <1>1, <1>2, RegionsOrdered, Zenon
  <2>2. Seg(rs[l].offset) \in Nat /\ Seg(RegionEnd(rs[k])) <= Seg(rs[l].offset)
    BY <1>1, <2>1, AlignedOrder, Zenon
  <2>3. Seg(RegionEnd(rs[k])) \in Nat
    BY <1>1, AlignedFacts
  <2> QED BY <2>2, <2>3
<1>3. ~(i < j) /\ ~(j < i)
  BY <1>1, <1>2
<1> QED BY <1>1, <1>3

(* The segment table leads to the regions.  (Entries that lead to regions  *)
(* that are no longer there may be left in it.)                            *)
TableOK(rs, table) ==
  /\ \A s \in Segments : table[s].region.size \in Nat
  /\ \A i \in DOMAIN rs, s \in Segments :
       Seg(rs[i].offset) <= s /\ s < Seg(RegionEnd(rs[i]))
       => table[s] = [region |-> rs[i],
                      at |-> (s - Seg(rs[i].offset)) * SegmentSize]

(* f[k] is the first entry of region k, as the loop counts it.             *)
Starts(f, rs, old) ==
  f = [k \in (old + 1)..Len(rs) |->
         IF k = old + 1 THEN last_sat_entry(rs, old)
         ELSE f[k - 1] + Pieces(rs[k - 1].size, SegmentSize)]

(* The loop finds the segment with which each new region begins.           *)
LEMMA StartsFacts ==
  ASSUME NEW rs, RegionsOK(rs), NEW old \in 0..Len(rs)
  PROVE  /\ \E f : Starts(f, rs, old)
         /\ \A f : Starts(f, rs, old) =>
              \A k \in (old + 1)..Len(rs) : f[k] = Seg(rs[k].offset)
<1> DEFINE n == Len(rs)
           g == [k \in (old + 1)..n |-> Seg(rs[k].offset)]
           next(f, k) == IF k = old + 1 THEN last_sat_entry(rs, old)
                         ELSE f[k - 1] + Pieces(rs[k - 1].size, SegmentSize)
<1>1. /\ n \in Nat /\ DOMAIN rs = 1..n
      /\ \A k \in 1..n : Seg(RegionEnd(rs[k])) = Seg(rs[k].offset) + Seg(rs[k].size)
  BY RegionFacts
<1>2. \A k \in 1..n : /\ rs[k].offset = IF k = 1 THEN 0 ELSE RegionEnd(rs[k - 1])
                      /\ Aligned(rs[k].size)
  BY <1>1 DEF RegionsOK
<1>3. ASSUME NEW k \in (old + 1)..n PROVE Seg(rs[k].offset) = next(g, k)
  <2>1. k \in 1..n /\ old \in Nat
    BY <1>1
  <2>2. CASE k = old + 1 /\ old = 0
    <3>1. rs[k].offset = 0 /\ Seg(0) = 0
      <4>1. Seg(0 * SegmentSize) = 0 /\ 0 * SegmentSize = 0
        BY AlignedMultiple, StorageAssumption
      <4> QED BY <1>2, <2>1, <2>2, <4>1
    <3> QED BY <2>2, <3>1 DEF last_sat_entry
  <2>3. CASE k = old + 1 /\ old # 0
    <3>1. rs[k].offset = RegionEnd(rs[old]) /\ old > 0
      BY <1>2, <2>1, <2>3
    <3> QED BY <2>3, <3>1 DEF last_sat_entry, Seg
  <2>4. CASE k # old + 1
    <3>1. k - 1 \in (old + 1)..n /\ k - 1 \in 1..n /\ k # 1
      BY <1>1, <2>1, <2>4
    <3>2. rs[k].offset = RegionEnd(rs[k - 1]) /\ Aligned(rs[k - 1].size)
      BY <1>2, <2>1, <3>1
    <3>3. Pieces(rs[k - 1].size, SegmentSize) = Seg(rs[k - 1].size)
      BY <3>2, RoundAligned
    <3>4. g[k - 1] = Seg(rs[k - 1].offset)
      BY <3>1
    <3> QED BY <1>1, <2>4, <3>1, <3>2, <3>3, <3>4, Zenon
  <2> QED BY <2>2, <2>3, <2>4
<1>4. g = [k \in (old + 1)..n |-> next(g, k)]
  BY <1>3, Zenon
<1>5. Starts(g, rs, old)
  BY <1>4, Zenon DEF Starts
<1> HIDE DEF g
<1>6. ASSUME NEW f, Starts(f, rs, old)
      PROVE  \A k \in (old + 1)..n : f[k] = Seg(rs[k].offset)
  <2>1. \A k \in (old + 1)..n : f[k] = next(f, k)
    BY <1>6, Zenon DEF Starts
  <2>2. \A k \in (old + 1)..n : g[k] = next(g, k)
    BY <1>4, Zenon
  <2> DEFINE T == {k \in (old + 1)..n : f[k] # g[k]}
  <2>3. T = {}
    <3> SUFFICES ASSUME T # {} PROVE FALSE
      OBVIOUS
    <3>1. T \in SUBSET Nat
      BY <1>1
    <3>2. PICK k \in T : \A l \in T : k <= l
      BY <3>1, LeastElement, Zenon
    <3>3. k \in (old + 1)..n /\ f[k] # g[k]
      BY <3>2
    <3>4. k # old + 1
      BY <2>1, <2>2, <3>3, Zenon
    <3>5. k - 1 \in (old + 1)..n /\ ~(k <= k - 1)
      BY <1>1, <3>3, <3>4
    <3>6. f[k - 1] = g[k - 1]
      BY <3>2, <3>5, Zenon
    <3> QED BY <2>1, <2>2, <3>3, <3>4, <3>6, Zenon
  <2> QED BY <2>3, Zenon DEF g
<1> QED BY <1>5, <1>6

(* update_master_pointers makes the table right for the new regions, and   *)
(* leaves it right for the old ones.                                       *)
LEMMA MasterPointers ==
  ASSUME NEW rs, RegionsOK(rs), NEW old \in 0..Len(rs), NEW ro, NEW table,
         DOMAIN ro = 1..old, \A i \in 1..old : ro[i] = rs[i],
         TableOK(ro, table)
  PROVE  TableOK(rs, update_master_pointers(rs, old, table))
<1> DEFINE n == Len(rs)
           new == (old + 1)..n
           slices(k) == Pieces(rs[k].size, SegmentSize)
           at == CHOOSE f : f = [k \in new |->
                                   IF k = old + 1 THEN last_sat_entry(rs, old)
                                   ELSE f[k - 1] + slices(k - 1)]
           slice(s) == {k \in new : s \in Bytes(at[k], slices(k))}
           up == update_master_pointers(rs, old, table)
           in(k, s) == Seg(rs[k].offset) <= s /\ s < Seg(RegionEnd(rs[k]))
<1>1. /\ n \in Nat /\ DOMAIN rs = 1..n
      /\ \A k \in 1..n : /\ Seg(RegionEnd(rs[k])) = Seg(rs[k].offset) + Seg(rs[k].size)
                         /\ rs[k].size \in Nat /\ rs[k].offset \in Nat
  BY RegionFacts
<1>2. Starts(at, rs, old)
  BY StartsFacts, Zenon DEF Starts
<1>3. \A s \in Segments :
        up[s] = IF slice(s) = {} THEN table[s]
                ELSE LET k == CHOOSE k \in slice(s) : TRUE
                     IN  [region |-> rs[k], at |-> (s - at[k]) * SegmentSize]
  BY Zenon DEF update_master_pointers
<1> HIDE DEF at, up
<1>4. \A k \in new : at[k] = Seg(rs[k].offset)
  BY <1>2, StartsFacts, Zenon
<1>5. ASSUME NEW k \in new, NEW s \in Segments
      PROVE  k \in slice(s) <=> in(k, s)
  <2>1. k \in 1..n
    BY <1>1
  <2>2. Aligned(rs[k].size) /\ Aligned(rs[k].offset)
    BY <1>1, <2>1, SMTT(20) DEF RegionsOK
  <2>3. /\ slices(k) = Seg(rs[k].size) /\ Seg(rs[k].size) \in Nat
        /\ at[k] = Seg(rs[k].offset) /\ Seg(rs[k].offset) \in Nat
    BY <1>4, <2>2, RoundAligned, AlignedFacts
  <2>4. s \in Nat
    BY StorageAssumption DEF Segments
  <2>5. Seg(RegionEnd(rs[k])) = at[k] + slices(k)
    BY <1>1, <2>1, <2>3, SMTT(20)
  <2> HIDE DEF slices
  <2>6. s \in Bytes(at[k], slices(k)) <=> in(k, s)
    BY <2>3, <2>4, <2>5 DEF Bytes
  <2> QED BY <2>6
<1>6. ASSUME NEW i \in 1..n, NEW s \in Segments, in(i, s)
      PROVE  up[s] = [region |-> rs[i], at |-> (s - Seg(rs[i].offset)) * SegmentSize]
  <2>1. s \in Int
    BY StorageAssumption DEF Segments
  <2>2. ASSUME NEW k \in slice(s) PROVE k = i
    <3>1. k \in new /\ k \in 1..n /\ in(k, s)
      BY <1>1, <1>5, <2>2
    <3> QED BY <1>1, <1>6, <2>1, <3>1, SegmentsApart, Zenon
  <2>3. CASE i \in new
    <3>1. i \in slice(s)
      BY <1>5, <1>6, <2>3, Zenon
    <3>2. (CHOOSE k \in slice(s) : TRUE) = i
      BY <2>2, <3>1, Zenon
    <3> HIDE DEF slice
    <3> QED BY <1>3, <1>4, <2>3, <3>1, <3>2, Zenon
  <2>4. CASE i \notin new
    <3>1. i \in 1..old
      BY <1>1, <2>4
    <3>2. slice(s) = {}
      BY <2>2, <2>4, Zenon
    <3>3. up[s] = table[s]
      BY <1>3, <3>2, Zenon
    <3> QED BY <1>6, <3>1, <3>3, Zenon DEF TableOK
  <2> QED BY <2>3, <2>4, Zenon
<1>7. ASSUME NEW s \in Segments PROVE up[s].region.size \in Nat
  <2>1. CASE slice(s) = {}
    BY <1>3, <2>1, Zenon DEF TableOK
  <2>2. CASE slice(s) # {}
    <3>1. PICK k \in slice(s) : TRUE
      BY <2>2
    <3>2. k \in new /\ k \in 1..n
      BY <1>1, <3>1
    <3>3. up[s] = [region |-> rs[k], at |-> (s - Seg(rs[k].offset)) * SegmentSize]
      BY <1>5, <1>6, <3>1, <3>2, Zenon
    <3> QED BY <1>1, <3>2, <3>3, SMTT(20)
  <2> QED BY <2>1, <2>2
<1> QED BY <1>1, <1>6, <1>7, Zenon DEF TableOK, up

(* The regions that append makes for b bytes.                              *)
LEMMA PieceFacts ==
  ASSUME NEW b, Aligned(b), NEW i \in 1..Pieces(b, FullRegion)
  PROVE  /\ Pieces(b, FullRegion) \in Nat
         /\ Aligned((i - 1) * FullRegion) /\ Aligned(region_size(b, i))
         /\ region_size(b, i) > 0
         /\ (i - 1) * FullRegion + region_size(b, i) =
              IF i = Pieces(b, FullRegion) THEN b ELSE ((i + 1) - 1) * FullRegion
         /\ (i - 1) * FullRegion + region_size(b, i) <= b
<1> DEFINE F == FullRegion
           P == Pieces(b, F)
           x == (i - 1) * F
           z == region_size(b, i)
<1>1. F \in Nat /\ F > 0 /\ Aligned(F)
  BY StorageAssumption DEF Aligned
<1>2. b \in Nat
  BY AlignedFacts
<1>3. P \in Nat /\ b <= P * F /\ P * F < b + F
  BY <1>1, <1>2, PiecesFacts
<1>4. i \in Nat /\ i > 0 /\ i <= P
  BY <1>3
<1> HIDE DEF P
<1>5. /\ i * F = x + F /\ i * F \in Int /\ P * F \in Int /\ x \in Int /\ x >= 0
      /\ ((i + 1) - 1) * F = i * F
  <2>1. (i - 1) * F = i * F - 1 * F /\ 1 * F = F /\ i * F \in Int /\ (i + 1) - 1 = i
    BY <1>1, <1>4, Multiples
  <2>2. 0 <= (i - 1) * F
    BY <1>1, <1>4, Multiples
  <2> QED BY <1>1, <1>3, <1>4, <2>1, <2>2
<1>6. i * F <= P * F /\ (i < P => i * F + F <= P * F)
  BY <1>1, <1>3, <1>4, Multiples
<1>7. Aligned(x)
  <2>1. i - 1 \in Nat
    BY <1>4
  <2> QED BY <1>1, <2>1, AlignedTimes, Zenon
<1> HIDE DEF F, x
<1>8. x < b /\ (i < P => x + F < b)
  BY <1>1, <1>2, <1>3, <1>5, <1>6
<1>9. z = IF F < b - x THEN F ELSE b - x
  BY DEF region_size, Minimum, F, x
<1> HIDE DEF z
<1>10. Aligned(b - x)
  <2>1. x <= b
    BY <1>2, <1>5, <1>8
  <2> QED BY <1>7, <2>1, AlignedSum
<1>11. Aligned(z) /\ z > 0 /\ z \in Nat
  BY <1>1, <1>2, <1>5, <1>8, <1>9, <1>10 DEF Aligned
<1>12. x + z = (IF i = P THEN b ELSE i * F) /\ x + z <= b
  <2>1. CASE i = P
    BY <1>1, <1>2, <1>3, <1>5, <1>8, <1>9, <2>1
  <2>2. CASE i < P
    BY <1>1, <1>2, <1>5, <1>8, <1>9, <2>2
  <2> QED BY <1>3, <1>4, <2>1, <2>2
<1> QED BY <1>3, <1>5, <1>7, <1>11, <1>12, Zenon DEF P, F, x, z

(* append goes on where the regions end.                                   *)
LEMMA AppendRegions ==
  ASSUME NEW rs, RegionsOK(rs), NEW n \in Nat, NEW used,
         MappedEnd(rs) + round_up(n, SegmentSize) <= MaxSize, NEW all,
         all = append(rs, MappedEnd(rs), n, used)
  PROVE  /\ RegionsOK(all)
         /\ MappedEnd(all) = MappedEnd(rs) + round_up(n, SegmentSize)
         /\ Len(rs) \in 0..Len(all) /\ DOMAIN rs = 1..Len(rs)
         /\ \A i \in 1..Len(rs) : rs[i] = all[i]
<1> DEFINE b == round_up(n, SegmentSize)
           P == Pieces(b, FullRegion)
           off == MappedEnd(rs)
           o(i) == (i - 1) * FullRegion
           z(i) == region_size(b, i)
           add == [i \in 1..P |-> [id |-> NewMapping(i, used),
                                   offset |-> off + (i - 1) * FullRegion,
                                   size |-> region_size(b, i)]]
           m == Len(rs)
<1>1. all = rs \o add
  BY DEF append
<1>2. Aligned(b)
  BY RoundUp
<1>3. P \in Nat /\ b \in Nat /\ b <= P * FullRegion
  <2>1. b \in Nat
    BY <1>2, AlignedFacts
  <2> HIDE DEF b
  <2>2. FullRegion \in Nat /\ FullRegion > 0
    BY StorageAssumption
  <2> QED BY <2>1, <2>2, PiecesFacts
<1>4. Aligned(off) /\ off \in Nat
  BY MappedFacts, AlignedFacts
<1>5. /\ m \in Nat /\ DOMAIN rs = 1..m
      /\ \A i \in 1..m : RegionEnd(rs[i]) \in Nat
  BY RegionFacts
<1>6. \A i \in 1..P : /\ Aligned(o(i)) /\ Aligned(z(i)) /\ z(i) > 0
                      /\ o(i) + z(i) = IF i = P THEN b ELSE o(i + 1)
                      /\ o(i) + z(i) <= b
  BY <1>2, PieceFacts, Zenon
<1>7. \A i \in 1..P : add[i].offset = off + o(i) /\ add[i].size = z(i)
  BY SMTT(20)
<1>8. PICK R : rs \in Seq(R)
  BY DEF RegionsOK
<1>9. add \in Seq({add[i] : i \in 1..P}) /\ Len(add) = P
  <2>1. add = [i \in 1..P |-> add[i]]
    BY Zenon
  <2> HIDE DEF add, P
  <2> QED BY <1>3, <2>1
<1> HIDE DEF add, o, z, P, b
<1>10. /\ all \in Seq(R \cup {add[i] : i \in 1..P}) /\ Len(all) = m + P
       /\ \A i \in 1..m : all[i] = rs[i]
       /\ \A i \in 1..P : all[m + i] = add[i]
  <2> DEFINE A == {add[i] : i \in 1..P}
             Q == R \cup A
  <2>1. rs \in Seq(Q) /\ add \in Seq(Q)
    <3>1. add \in Seq(A)
      BY <1>9
    <3> HIDE DEF A
    <3> QED BY <1>8, <3>1
  <2> HIDE DEF Q
  <2>2. all \in Seq(Q) /\ Len(all) = m + P
    BY <1>1, <1>9, <2>1
  <2>3. /\ \A i \in 1..m : all[i] = rs[i]
        /\ \A i \in 1..P : all[m + i] = add[i]
    BY <1>1, <1>3, <1>5, <1>9, <2>1, SMTT(20)
  <2> QED BY <2>2, <2>3, Zenon DEF Q
<1>11. DOMAIN all = 1..(m + P)
  BY <1>10
<1>12. ASSUME NEW i \in 1..P
       PROVE  /\ Aligned(all[m + i].offset) /\ Aligned(all[m + i].size)
              /\ all[m + i].size > 0 /\ RegionEnd(all[m + i]) <= MaxSize
              /\ RegionEnd(all[m + i]) = off + (IF i = P THEN b ELSE o(i + 1))
              /\ all[m + i].offset = off + o(i)
  <2>1. all[m + i].offset = off + o(i) /\ all[m + i].size = z(i)
    BY <1>7, <1>10, Zenon
  <2>2. /\ Aligned(o(i)) /\ Aligned(z(i)) /\ z(i) > 0 /\ o(i) + z(i) <= b
        /\ o(i) + z(i) = IF i = P THEN b ELSE o(i + 1)
    BY <1>6
  <2>3. Aligned(off + o(i)) /\ o(i) \in Nat /\ z(i) \in Nat
    BY <1>4, <2>2, AlignedSum, AlignedFacts
  <2>4. RegionEnd(all[m + i]) = off + (o(i) + z(i))
    BY <1>4, <2>1, <2>3 DEF RegionEnd
  <2>5. RegionEnd(all[m + i]) <= MaxSize
    BY <1>3, <1>4, <2>2, <2>3, <2>4, StorageAssumption, SMTT(20) DEF b
  <2> QED BY <2>1, <2>2, <2>3, <2>4, <2>5, Zenon
<1>13. o(1) = 0
  BY StorageAssumption DEF o
<1>14. ASSUME NEW i \in DOMAIN all
       PROVE  /\ Aligned(all[i].offset) /\ Aligned(all[i].size) /\ all[i].size > 0
              /\ RegionEnd(all[i]) <= MaxSize
              /\ all[i].offset = IF i = 1 THEN 0 ELSE RegionEnd(all[i - 1])
  <2>1. CASE i \in 1..m
    <3>1. all[i] = rs[i] /\ (i # 1 => i - 1 \in 1..m)
      BY <1>5, <1>10, <2>1
    <3>2. i # 1 => all[i - 1] = rs[i - 1]
      BY <1>10, <3>1
    <3> QED BY <1>5, <2>1, <3>1, <3>2, Zenon DEF RegionsOK
  <2>2. CASE i \notin 1..m
    <3>1. PICK j \in 1..P : i = m + j
      <4>1. i - m \in 1..P /\ i = m + (i - m)
        BY <1>3, <1>5, <1>11, <2>2
      <4> QED BY <4>1
    <3>2. CASE j # 1
      <4>1. j - 1 \in 1..P /\ (j - 1) + 1 = j /\ j - 1 # P /\ m + (j - 1) = i - 1 /\ i # 1
        BY <1>3, <1>5, <3>1, <3>2
      <4>2. RegionEnd(all[i - 1]) = off + o(j)
        BY <1>12, <4>1, Zenon
      <4> QED BY <1>12, <3>1, <4>1, <4>2, Zenon
    <3>3. CASE j = 1 /\ m = 0
      <4>1. off = 0 /\ i = 1
        BY <1>5, <1>8, <3>1, <3>3, SMTT(20) DEF MappedEnd
      <4>2. all[i].offset = 0
        BY <1>12, <1>13, <3>1, <3>3, <4>1
      <4> QED BY <1>12, <3>1, <4>1, <4>2, Zenon
    <3>4. CASE j = 1 /\ m # 0
      <4>1. i - 1 = m /\ m \in 1..m /\ i # 1
        BY <1>5, <3>1, <3>4
      <4>2. off = RegionEnd(rs[m]) /\ all[i - 1] = rs[m]
        <5>1. rs # <<>>
          BY <1>8, <3>4, SMTT(20)
        <5> QED BY <1>10, <4>1, <5>1 DEF MappedEnd
      <4>3. all[i].offset = off
        BY <1>4, <1>12, <1>13, <3>1, <3>4
      <4> QED BY <1>12, <3>1, <4>1, <4>2, <4>3, Zenon
    <3> QED BY <3>2, <3>3, <3>4, Zenon
  <2> QED BY <2>1, <2>2, Zenon
<1>15. RegionsOK(all)
  BY <1>10, <1>14, Zenon DEF RegionsOK
<1>16. MappedEnd(all) = off + b
  <2>1. CASE P = 0
    <3>1. b = 0
      BY <1>3, <2>1, StorageAssumption
    <3>2. all = rs
      <4>1. Len(all) = m /\ \A i \in 1..m : all[i] = rs[i]
        BY <1>5, <1>10, <2>1
      <4> QED BY <1>5, <1>8, <1>10, <4>1, SMTT(20)
    <3> QED BY <1>4, <3>1, <3>2
  <2>2. CASE P # 0
    <3>1. P \in 1..P /\ Len(all) = m + P /\ all # <<>>
      BY <1>3, <1>5, <1>10, <2>2
    <3>2. RegionEnd(all[m + P]) = off + b
      BY <1>12, <3>1
    <3> QED BY <3>1, <3>2 DEF MappedEnd
  <2> QED BY <2>1, <2>2
<1>17. m \in 0..Len(all)
  BY <1>3, <1>5, <1>10
<1> QED BY <1>5, <1>10, <1>15, <1>16, <1>17, Zenon DEF b

(* map_bytes drops the regions that begin after the new end.               *)
LEMMA RegionsKept ==
  ASSUME NEW rs, RegionsOK(rs), NEW n \in Nat, n < MappedEnd(rs), NEW kept,
         kept = regions_kept(rs, n)
  PROVE  /\ RegionsOK(kept) /\ n <= MappedEnd(kept) /\ kept # <<>>
         /\ \A i \in DOMAIN kept : i \in DOMAIN rs /\ kept[i] = rs[i]
<1> DEFINE K == {0} \cup {i \in DOMAIN rs : rs[i].offset <= n}
<1>1. PICK j \in DOMAIN rs : rs[j].offset <= n /\ n < RegionEnd(rs[j])
  BY RegionOf
<1>2. /\ Len(rs) \in Nat /\ DOMAIN rs = 1..Len(rs)
      /\ \A i \in 1..Len(rs) : RegionEnd(rs[i]) \in Nat /\ rs[i].offset \in Nat
  BY RegionFacts
<1>3. j \in K /\ K \subseteq Int /\ \A i \in K : j >= i
  <2>1. ASSUME NEW i \in DOMAIN rs, j < i PROVE ~(rs[i].offset <= n)
    <3>1. RegionEnd(rs[j]) <= rs[i].offset
      BY <2>1, RegionsOrdered
    <3> QED BY <1>1, <1>2, <3>1
  <2>2. \A i \in DOMAIN rs : rs[i].offset <= n => j >= i
    BY <1>2, <2>1
  <2>3. j \in Int /\ j >= 0 /\ DOMAIN rs \subseteq Int
    BY <1>2
  <2> QED BY <1>1, <2>2, <2>3
<1> HIDE DEF K
<1>4. Max(K) = j
  <2>1. \A x \in K : (\A y \in K : x >= y) => x = j
    BY <1>3
  <2> QED BY <1>3, <2>1, Zenon DEF Max
<1>5. kept = SubSeq(rs, 1, j)
  BY <1>4, Zenon DEF regions_kept, K
<1>6. PICK R : rs \in Seq(R)
  BY DEF RegionsOK
<1>7. /\ kept \in Seq(R) /\ Len(kept) = j /\ DOMAIN kept = 1..j
      /\ \A i \in 1..j : kept[i] = rs[i]
  BY <1>1, <1>2, <1>5, <1>6
<1>8. \A i \in DOMAIN kept : i \in DOMAIN rs /\ kept[i] = rs[i]
  BY <1>2, <1>7
<1>9. \A i \in DOMAIN kept : i # 1 => i - 1 \in DOMAIN kept
  BY <1>2, <1>7
<1>10. RegionsOK(kept)
  <2> SUFFICES ASSUME NEW i \in DOMAIN kept
               PROVE  /\ Aligned(kept[i].offset) /\ Aligned(kept[i].size)
                      /\ kept[i].size > 0 /\ RegionEnd(kept[i]) <= MaxSize
                      /\ kept[i].offset = IF i = 1 THEN 0 ELSE RegionEnd(kept[i - 1])
    BY <1>7, Zenon DEF RegionsOK
  <2>1. i \in DOMAIN rs /\ kept[i] = rs[i] /\ (i # 1 => kept[i - 1] = rs[i - 1])
    BY <1>8, <1>9
  <2> QED BY <2>1, Zenon DEF RegionsOK
<1>11. MappedEnd(kept) = RegionEnd(rs[j]) /\ kept # <<>>
  <2>1. j \in 1..j /\ j \in Nat /\ j # 0
    BY <1>2
  <2>2. kept # <<>>
    BY <1>7, <2>1
  <2> QED BY <1>7, <2>1, <2>2 DEF MappedEnd
<1>12. n <= MappedEnd(kept)
  BY <1>1, <1>2, <1>11
<1> QED BY <1>8, <1>10, <1>11, <1>12

(* After map_bytes the regions go as far as was asked for, and the table   *)
(* leads to them.                                                          *)
LEMMA MapBytes ==
  ASSUME RegionsOK(regions), TableOK(regions, sat), NEW n \in Nat,
         n <= MaxSize, map_bytes(n)
  PROVE  /\ RegionsOK(regions') /\ TableOK(regions', sat')
         /\ n <= MappedEnd(regions')
         /\ \/ sat' = sat
            \/ \A i \in DOMAIN regions :
                 i \in DOMAIN regions' /\ regions'[i] = regions[i]
<1> DEFINE end == MappedEnd(regions)
           up == round_up(n, SegmentSize)
           grown == append(regions, end, up - end, Alive(regions, sat, pointers))
<1>1. Aligned(end) /\ end <= MaxSize /\ Aligned(up) /\ n <= up /\ up <= MaxSize
  <2>1. Aligned(MaxSize)
    BY StorageAssumption DEF Aligned
  <2> QED BY <2>1, MappedFacts, RoundUp
<1>2. end \in Nat /\ up \in Nat
  BY <1>1, AlignedFacts
<1>3. CASE n > end
  <2>1. /\ regions' = grown
        /\ sat' = update_master_pointers(grown, Len(regions), sat)
    BY <1>3, Zenon DEF map_bytes
  <2> HIDE DEF end, up
  <2>2. up - end \in Nat /\ end <= up
    BY <1>1, <1>2, <1>3
  <2>3. round_up(up - end, SegmentSize) = up - end
    BY <1>1, <2>2, AlignedSum, RoundAligned
  <2>4. end + (up - end) = up
    BY <1>2
  <2>5. /\ RegionsOK(grown) /\ MappedEnd(grown) = up
        /\ Len(regions) \in 0..Len(grown) /\ DOMAIN regions = 1..Len(regions)
        /\ \A i \in 1..Len(regions) : regions[i] = grown[i]
    <3>1. MappedEnd(regions) + round_up(up - end, SegmentSize) <= MaxSize
      BY <1>1, <2>3, <2>4 DEF end
    <3>2. grown = append(regions, MappedEnd(regions), up - end,
                         Alive(regions, sat, pointers))
      BY DEF end
    <3> HIDE DEF grown
    <3>3. /\ RegionsOK(grown)
          /\ MappedEnd(grown) = MappedEnd(regions) + round_up(up - end, SegmentSize)
          /\ Len(regions) \in 0..Len(grown) /\ DOMAIN regions = 1..Len(regions)
          /\ \A i \in 1..Len(regions) : regions[i] = grown[i]
      BY <2>2, <3>1, <3>2, AppendRegions
    <3>4. MappedEnd(grown) = up
      BY <2>3, <2>4, <3>3, Zenon DEF end
    <3> QED BY <3>3, <3>4, Zenon
  <2> HIDE DEF grown
  <2>6. TableOK(grown, update_master_pointers(grown, Len(regions), sat))
    BY <2>5, MasterPointers, Zenon
  <2>7. \A i \in DOMAIN regions : i \in DOMAIN grown /\ grown[i] = regions[i]
    <3>1. Len(grown) \in Nat /\ DOMAIN grown = 1..Len(grown) /\ Len(regions) \in Nat
      BY <2>5, RegionFacts, Zenon
    <3>2. 1..Len(regions) \subseteq 1..Len(grown)
      BY <2>5, <3>1
    <3> QED BY <2>5, <3>1, <3>2, Zenon
  <2> QED BY <1>1, <2>1, <2>5, <2>6, <2>7, Zenon
<1>4. CASE n < end
  <2>1. regions' = regions_kept(regions, n) /\ sat' = sat
    BY <1>2, <1>4 DEF map_bytes
  <2>2. /\ RegionsOK(regions') /\ n <= MappedEnd(regions')
        /\ \A i \in DOMAIN regions' : i \in DOMAIN regions /\ regions'[i] = regions[i]
    BY <1>4, <2>1, RegionsKept, Zenon
  <2>3. TableOK(regions', sat')
    BY <2>1, <2>2, ZenonT(30) DEF TableOK
  <2> QED BY <2>1, <2>2, <2>3
<1>5. CASE n = end
  <2>1. regions' = regions /\ sat' = sat
    BY <1>2, <1>5 DEF map_bytes
  <2> QED BY <1>2, <1>5, <2>1
<1> QED BY <1>2, <1>3, <1>4, <1>5

----------------------------------------------------------------------------
(* From an address to memory.                                              *)

(* The table leads from an address to its region and its place there.      *)
LEMMA TableReads ==
  ASSUME NEW rs, NEW table, RegionsOK(rs), TableOK(rs, table), NEW a \in Nat,
         a < MappedEnd(rs)
  PROVE  \E j \in DOMAIN rs :
           /\ rs[j].offset <= a /\ a < RegionEnd(rs[j])
           /\ table[Seg(a)].region = rs[j]
           /\ address_to_pointer(a, table) =
                [region |-> rs[j], at |-> a - rs[j].offset]
<1> DEFINE S == SegmentSize
<1>1. PICK j \in DOMAIN rs :
        rs[j].offset <= a /\ a < RegionEnd(rs[j])
  BY RegionOf
<1> DEFINE x == rs[j].offset
           e == RegionEnd(rs[j])
<1>2. Aligned(x) /\ Aligned(e) /\ e <= MaxSize
  BY RegionFacts, Zenon DEF RegionsOK
<1>3. S \in Nat /\ S > 0 /\ Aligned(MaxSize) /\ MaxSize \in Nat
  BY StorageAssumption DEF Aligned
<1>4. x \in Nat /\ Seg(x) \in Nat /\ x = Seg(x) * S /\ e \in Nat /\ Seg(e) \in Nat
      /\ Seg(MaxSize) \in Nat
  BY <1>2, <1>3, AlignedFacts
<1>5. Seg(a) \in Nat /\ a % S \in 0..(S - 1) /\ a = Seg(a) * S + (a % S)
  BY <1>3, DivMod DEF Seg
<1> HIDE DEF x, e
<1>6. Seg(x) <= Seg(a) /\ ~(Seg(e) <= Seg(a)) /\ ~(Seg(MaxSize) <= Seg(a))
  <2>1. x <= a /\ ~(e <= a) /\ ~(MaxSize <= a)
    BY <1>1, <1>2, <1>3, <1>4, SMTT(20) DEF x, e
  <2> QED BY <1>2, <1>3, <2>1, AlignedOrder, SMTT(20)
<1>7. Seg(a) \in Segments /\ Seg(a) < Seg(e)
  BY <1>4, <1>5, <1>6 DEF Segments, Seg
<1>8. table[Seg(a)] = [region |-> rs[j], at |-> (Seg(a) - Seg(x)) * S]
  BY <1>6, <1>7, Zenon DEF TableOK, x, e
<1>9. (Seg(a) - Seg(x)) * S + (a % S) = a - x
  <2>1. (Seg(a) - Seg(x)) * S = Seg(a) * S - Seg(x) * S
        /\ Seg(a) * S \in Int /\ Seg(x) * S \in Int
    BY <1>3, <1>4, <1>5, Multiples, SMTT(20)
  <2> DEFINE m == a % S
             p == Seg(a) * S
             q == Seg(x) * S
             d == (Seg(a) - Seg(x)) * S
  <2>2. d = p - q /\ p \in Int /\ q \in Int /\ x = q /\ a = p + m /\ m \in Int
    BY <1>4, <1>5, <2>1
  <2> HIDE DEF m, p, q, d
  <2>3. d + m = a - x
    BY <2>2
  <2> QED BY <2>3 DEF d, m
<1>10. address_to_pointer(a, table) =
         [region |-> rs[j], at |-> (Seg(a) - Seg(x)) * S + (a % S)]
  BY <1>8 DEF address_to_pointer, Seg
<1>11. address_to_pointer(a, table) = [region |-> rs[j], at |-> a - rs[j].offset]
  BY <1>9, <1>10, Zenon DEF x
<1>12. table[Seg(a)].region = rs[j]
  <2> DEFINE t == (Seg(a) - Seg(x)) * S
  <2>1. table[Seg(a)] = [region |-> rs[j], at |-> t]
    BY <1>8, Zenon
  <2> HIDE DEF t
  <2> QED BY ONLY <2>1, SMTT(20)
<1> QED BY <1>1, <1>11, <1>12, Zenon

(* From an address to the next start of a region.                          *)
LEMMA PiecesSpan ==
  ASSUME NEW a \in Nat, NEW x, Aligned(x), a < x
  PROVE  Seg(a) + Pieces(x - a, SegmentSize) = Seg(x)
<1> DEFINE S == SegmentSize
           q == Seg(a)
           r == a % S
           k == Seg(x)
           n == x - a
           p == Pieces(n, S)
<1>1. S \in Nat /\ S > 0
  BY StorageAssumption
<1>2. x \in Nat /\ k \in Nat /\ x = k * S
  BY AlignedFacts
<1>3. q \in Nat /\ r \in 0..(S - 1) /\ a = q * S + r
  BY <1>1, DivMod DEF Seg
<1>4. n \in Nat
  BY <1>2
<1> HIDE DEF S, q, r, k
<1>5. p \in Nat /\ n <= p * S /\ p * S < n + S
  BY <1>1, <1>4, PiecesFacts
<1> HIDE DEF p
<1>6. /\ (q + p) * S = q * S + p * S /\ q * S \in Int /\ p * S \in Int
      /\ k * S \in Int /\ (k + 1) * S = k * S + S
      /\ ((k - 1) * S = k * S - S)
  <2>1. (k - 1) * S = k * S - 1 * S /\ 1 * S = S
    BY <1>1, <1>2, Multiples
  <2> QED BY <1>1, <1>2, <1>3, <1>5, <2>1, Multiples
<1>7. k * S <= q * S + p * S + r /\ q * S + p * S + r < k * S + S
  BY <1>1, <1>2, <1>3, <1>5, <1>6
<1>8. k * S - S < (q + p) * S /\ (q + p) * S < k * S + S
  BY <1>1, <1>3, <1>6, <1>7
<1>9. q + p < k + 1
  BY <1>1, <1>2, <1>3, <1>5, <1>6, <1>8, Multiples
<1>10. k - 1 < q + p
  BY <1>1, <1>2, <1>3, <1>5, <1>6, <1>8, Multiples
<1>11. q + p = k
  BY <1>2, <1>3, <1>5, <1>9, <1>10
<1> QED BY <1>11 DEF p, q, k, S

(* Bytes from to up to n of the block at a, each at its place.             *)
Exact(a, from, n) == {<<a + i, i>> : i \in from..(n - 1)}

(* A part of a mapping is a part of the block.                             *)
LEMMA ReachedExact ==
  ASSUME NEW p, p.region.offset \in Nat, p.region.size \in Nat, p.at \in Nat,
         NEW done \in Nat, NEW n \in Nat, p.at + n <= p.region.size,
         NEW a \in Nat, p.region.offset + p.at = a + done
  PROVE  Reached(p, done, n) = Exact(a, done, done + n)
<1> DEFINE o == p.region.offset
           t == p.at
           z == p.region.size
<1>1. o \in Nat /\ t \in Nat /\ z \in Nat /\ t + n <= z /\ o + t = a + done
  OBVIOUS
<1>2. Reached(p, done, n) =
        {<<o + t + i, done + i>> : i \in {i \in 0..(0 + n - 1) : t + i < z}}
  BY Zenon DEF Reached, Bytes
<1> HIDE DEF o, t, z
<1>3. \A i \in Int : i \in {i2 \in 0..(0 + n - 1) : t + i2 < z} <=> i \in 0..(n - 1)
  BY <1>1
<1>4. \A i \in 0..(n - 1) : o + t + i = a + (done + i) /\ done + i \in done..(done + n - 1)
  BY <1>1
<1>5. \A k \in done..(done + n - 1) : k - done \in 0..(n - 1) /\ done + (k - done) = k
                                      /\ o + t + (k - done) = a + k
  BY <1>1
<1>6. ASSUME NEW m \in Reached(p, done, n) PROVE m \in Exact(a, done, done + n)
  <2>1. PICK i \in 0..(n - 1) : m = <<o + t + i, done + i>>
    BY <1>2, <1>3
  <2>2. m = <<a + (done + i), done + i>> /\ done + i \in done..(done + n - 1)
    BY <1>4, <2>1
  <2> DEFINE k == done + i
  <2> HIDE DEF k
  <2>3. m = <<a + k, k>> /\ k \in done..(done + n - 1)
    BY <2>2 DEF k
  <2> QED BY <2>3 DEF Exact
<1>7. ASSUME NEW m \in Exact(a, done, done + n) PROVE m \in Reached(p, done, n)
  <2>1. PICK k \in done..(done + n - 1) : m = <<a + k, k>>
    BY DEF Exact
  <2>2. /\ k - done \in {i2 \in 0..(0 + n - 1) : t + i2 < z}
        /\ m = <<o + t + (k - done), done + (k - done)>>
    BY <1>1, <1>5, <2>1, SMTT(20)
  <2> QED BY <1>2, <2>2, Zenon
<1> QED BY <1>6, <1>7, Zenon

(* The same, for all parts of one mapping.                                 *)
LEMMA ReachedEach ==
  \A p : p.region.offset \in Nat /\ p.region.size \in Nat /\ p.at \in Nat =>
    \A i \in Nat, m \in Nat, b \in Nat :
      p.at + m <= p.region.size /\ p.region.offset + p.at = b + i
      => Reached(p, i, m) = Exact(b, i, i + m)
  BY ReachedExact

(* Two parts of a block that meet make one.                                *)
LEMMA ExactUnion ==
  ASSUME NEW a \in Nat, NEW i \in Nat, NEW j \in Nat, NEW n \in Nat, i <= j, j <= n
  PROVE  Exact(a, i, j) \cup Exact(a, j, n) = Exact(a, i, n)
<1>1. i..(n - 1) = (i..(j - 1)) \cup (j..(n - 1))
  OBVIOUS
<1> QED BY <1>1, Zenon DEF Exact

(* The loop of storage::copy, at segment l[1] with l[2] bytes copied: what *)
(* it copies now, whether it stops, and where it goes on.                  *)
Piece(l, size) == Minimum(size - l[2], sat[l[1]].region.size)
Stops(l, size) == l[2] = size \/ l[1] \notin Segments \/ Piece(l, size) = 0
GoesOn(l, size) ==
  <<l[1] + Pieces(Piece(l, size), SegmentSize), l[2] + Piece(l, size)>>
Copied(f, l, size) ==
  IF Stops(l, size) THEN {}
  ELSE Reached([region |-> sat[l[1]].region, at |-> 0], l[2], Piece(l, size))
       \cup f[GoesOn(l, size)]

(* The loop of storage::copy goes on within its domain.                    *)
LEMMA LoopStep ==
  ASSUME TableOK(regions, sat), NEW size \in Nat,
         NEW s \in Nat, NEW d \in 0..size, ~Stops(<<s, d>>, size)
  PROVE  /\ Piece(<<s, d>>, size) \in Nat /\ Piece(<<s, d>>, size) > 0
         /\ GoesOn(<<s, d>>, size) \in Nat \X ((d + 1)..size)
         /\ s \in Segments /\ d < size
<1> DEFINE p == Piece(<<s, d>>, size)
           z == sat[s].region.size
<1>1. s \in Segments /\ d # size /\ p # 0
  BY SMTT(20) DEF Stops
<1>2. z \in Nat
  BY <1>1, SMTT(20) DEF TableOK
<1>3. p = IF size - d < z THEN size - d ELSE z
  BY DEF Piece, Minimum
<1> HIDE DEF z, p
<1>4. p \in Nat /\ p > 0 /\ d + p \in (d + 1)..size
  BY <1>1, <1>2, <1>3
<1>5. Pieces(p, SegmentSize) \in Nat
  <2>1. SegmentSize \in Nat /\ SegmentSize > 0
    BY StorageAssumption
  <2> QED BY <1>4, <2>1, PiecesFacts, Zenon
<1>6. GoesOn(<<s, d>>, size) = <<s + Pieces(p, SegmentSize), d + p>>
  BY DEF GoesOn, p
<1> QED BY <1>1, <1>4, <1>5, <1>6 DEF p

(* There is a function that does what the loop does.                       *)
LEMMA LoopExists ==
  ASSUME TableOK(regions, sat), NEW size \in Nat
  PROVE  \E f : f = [l \in Nat \X (0..size) |-> Copied(f, l, size)]
<1> DEFINE Done(d) == Nat \X (d..size)
           P(d) == \E f : f = [l \in Done(d) |-> Copied(f, l, size)]
           T == {k \in 0..size : ~P(size - k)}
<1>1. P(size)
  <2> DEFINE f == [l \in Done(size) |-> {}]
  <2>1. \A l \in Done(size) : l[2] = size
    OBVIOUS
  <2>2. \A l \in Done(size) : Copied(f, l, size) = {}
    BY <2>1, Zenon DEF Copied, Stops
  <2> HIDE DEF Done
  <2>3. f = [l \in Done(size) |-> Copied(f, l, size)]
    BY <2>2, Zenon
  <2> QED BY <2>3, Zenon
<1>2. ASSUME NEW d \in 1..size, P(d) PROVE P(d - 1)
  <2>1. PICK f : f = [l \in Done(d) |-> Copied(f, l, size)]
    BY <1>2, Zenon
  <2> DEFINE g == [l \in Done(d - 1) |-> IF l \in Done(d) THEN f[l] ELSE Copied(f, l, size)]
  <2>2. Done(d) \subseteq Done(d - 1)
    OBVIOUS
  <2>3. ASSUME NEW l \in Done(d - 1), ~Stops(l, size) PROVE GoesOn(l, size) \in Done(d)
    <3>1. PICK s \in Nat, e \in (d - 1)..size : l = <<s, e>>
      OBVIOUS
    <3>2. e \in 0..size /\ (e + 1)..size \subseteq d..size
      OBVIOUS
    <3>3. GoesOn(l, size) \in Nat \X ((e + 1)..size)
      BY <2>3, <3>1, <3>2, LoopStep
    <3> QED BY <3>2, <3>3
  <2> HIDE DEF Done
  <2>4. \A l \in Done(d) : g[l] = f[l]
    BY <2>2, Zenon
  <2>5. \A l \in Done(d - 1) : Copied(f, l, size) = Copied(g, l, size)
    BY <2>3, <2>4, Zenon DEF Copied
  <2>6. \A l \in Done(d) : f[l] = Copied(f, l, size)
    BY <2>1, Zenon
  <2>7. \A l \in Done(d - 1) : g[l] = Copied(g, l, size)
    BY <2>5, <2>6, Zenon
  <2>8. g = [l \in Done(d - 1) |-> Copied(g, l, size)]
    BY <2>7, Zenon
  <2> QED BY <2>8, Zenon
<1> HIDE DEF P
<1>3. T = {}
  <2> SUFFICES ASSUME T # {} PROVE FALSE
    OBVIOUS
  <2>1. T \in SUBSET Nat
    OBVIOUS
  <2>2. PICK k \in T : \A j \in T : k <= j
    BY <2>1, LeastElement, Zenon
  <2>3. k # 0
    BY <1>1, <2>2
  <2>4. k - 1 \in 0..size /\ ~(k <= k - 1) /\ size - (k - 1) \in 1..size
        /\ (size - (k - 1)) - 1 = size - k
    BY <2>2, <2>3
  <2>5. P(size - (k - 1))
    BY <2>2, <2>4, Zenon
  <2> DEFINE d == size - (k - 1)
  <2>6. d \in 1..size /\ P(d) /\ d - 1 = size - k
    BY <2>4, <2>5
  <2> HIDE DEF d
  <2>7. P(d - 1)
    BY <1>2, <2>6, Zenon
  <2> QED BY <2>2, <2>6, <2>7, Zenon
<1>4. P(0)
  <2>1. size \in 0..size /\ size - size = 0
    OBVIOUS
  <2> QED BY <1>3, <2>1, Zenon
<1> QED BY <1>4, Zenon DEF P

(* CopyRest is what its loop says.                                         *)
LEMMA CopyRestFacts ==
  ASSUME TableOK(regions, sat), NEW size \in Nat
  PROVE  \E f : /\ f = [l \in Nat \X (0..size) |-> Copied(f, l, size)]
                /\ \A s, c : CopyRest(s, c, size) = f[<<s + Pieces(c, SegmentSize), c>>]
<1> DEFINE f == CHOOSE f : f = [l \in Nat \X (0..size) |-> Copied(f, l, size)]
<1>1. f = [l \in Nat \X (0..size) |-> Copied(f, l, size)]
  BY LoopExists, Zenon
<1>2. \A s, c : CopyRest(s, c, size) = f[<<s + Pieces(c, SegmentSize), c>>]
  BY Zenon DEF CopyRest, Copied, Stops, Piece, GoesOn
<1> HIDE DEF f
<1> QED BY <1>1, <1>2, Zenon

(* From the start of a region on, the loop copies what is missing.         *)
LEMMA RestExact ==
  ASSUME RegionsOK(regions), TableOK(regions, sat), NEW a \in Nat,
         NEW size \in Nat, a + size <= MappedEnd(regions),
         NEW f, f = [l \in Nat \X (0..size) |-> Copied(f, l, size)],
         NEW j \in DOMAIN regions, a <= regions[j].offset,
         regions[j].offset - a <= size
  PROVE  f[<<Seg(regions[j].offset), regions[j].offset - a>>] =
           Exact(a, regions[j].offset - a, size)
<1> DEFINE o(k) == regions[k].offset
           e(k) == RegionEnd(regions[k])
           Bad(d, k) == /\ a <= o(k) /\ o(k) - a = size - d
                        /\ f[<<Seg(o(k)), o(k) - a>>] # Exact(a, o(k) - a, size)
           T == {d \in 0..size : \E k \in DOMAIN regions : Bad(d, k)}
           n == Len(regions)
<1>1. /\ n \in Nat /\ DOMAIN regions = 1..n
      /\ \A k \in 1..n : /\ o(k) \in Nat /\ regions[k].size \in Nat
                         /\ Aligned(e(k)) /\ e(k) \in Nat /\ o(k) < e(k)
                         /\ Seg(e(k)) = Seg(o(k)) + Seg(regions[k].size)
                         /\ e(k) = o(k) + regions[k].size
  BY RegionFacts, Zenon DEF RegionEnd
<1>0. n \in Nat
  BY <1>1, Zenon
<1>2. /\ Aligned(MappedEnd(regions)) /\ MappedEnd(regions) <= MaxSize
      /\ MappedEnd(regions) \in Nat
  BY MappedFacts, AlignedFacts, Zenon
<1>3. \A l \in Nat \X (0..size) : f[l] = Copied(f, l, size)
  BY Zenon
<1>4. ASSUME NEW s \in Nat PROVE f[<<s, size>>] = {}
  <2>1. <<s, size>> \in Nat \X (0..size) /\ <<s, size>>[2] = size
    OBVIOUS
  <2> QED BY <1>3, <2>1, Zenon DEF Copied, Stops
<1>5. Exact(a, size, size) = {}
  <2>1. size..(size - 1) = {}
    BY SMTT(20)
  <2> QED BY <2>1 DEF Exact
<1>6. ASSUME NEW k \in 1..n, a <= o(k), o(k) - a <= size,
             \A i \in 1..n : a <= o(i) /\ o(i) - a <= size /\ o(k) < o(i)
               => f[<<Seg(o(i)), o(i) - a>>] = Exact(a, o(i) - a, size)
      PROVE  f[<<Seg(o(k)), o(k) - a>>] = Exact(a, o(k) - a, size)
  <2> DEFINE s == Seg(o(k))
             d == o(k) - a
             z == regions[k].size
             c == Piece(<<s, d>>, size)
  <2>1. Aligned(o(k)) /\ Aligned(z) /\ z > 0 /\ e(k) <= MaxSize
    BY <1>1, Zenon DEF RegionsOK
  <2>0. /\ o(k) \in Nat /\ z \in Nat /\ Aligned(e(k)) /\ e(k) \in Nat /\ o(k) < e(k)
        /\ Seg(e(k)) = Seg(o(k)) + Seg(z) /\ e(k) = o(k) + z
    BY <1>1, Zenon
  <2>2. s \in Nat /\ d \in 0..size /\ z \in Nat /\ Seg(e(k)) \in Nat /\ e(k) = o(k) + z
    <3>1. Seg(o(k)) \in Nat /\ Seg(e(k)) \in Nat
      BY <2>0, <2>1, AlignedFacts, ZenonT(30)
    <3> HIDE DEF o, e, z
    <3>2. d \in 0..size
      <4>1. /\ a \in Nat /\ size \in Nat /\ o(k) \in Nat
            /\ a <= o(k) /\ o(k) - a <= size
        BY <1>6, <2>0, Zenon
      <4> QED BY ONLY <4>1, SMTT(20)
    <3> QED BY <2>0, <3>1, <3>2, Zenon
  <2>3. CASE d = size
    BY <1>4, <1>5, <2>2, <2>3, Zenon
  <2>4. CASE d < size
    <3>1. s < Seg(e(k)) /\ Seg(e(k)) <= Seg(MaxSize) /\ Seg(MaxSize) \in Nat
      <4> HIDE DEF o, e
      <4>0. o(k) \in Nat /\ e(k) \in Nat /\ o(k) < e(k) /\ MaxSize \in Nat
        BY <2>0, StorageAssumption, Zenon
      <4>1. ~(e(k) <= o(k)) /\ MaxSize \in Nat
        BY ONLY <4>0, SMTT(20)
      <4>2. ~(Seg(e(k)) <= Seg(o(k)))
        BY <2>0, <4>1, AlignedOrder, Zenon
      <4>3. Seg(e(k)) <= Seg(MaxSize) /\ Seg(MaxSize) \in Nat
        BY <2>0, <2>1, <4>1, AlignedOrder, Zenon
      <4> QED BY <2>2, <4>2, <4>3, SMTT(20)
    <3>2. s \in Segments
      <4> DEFINE u == Seg(e(k))
                 v == Seg(MaxSize)
      <4>1. s \in Nat /\ u \in Nat /\ v \in Nat /\ s < u /\ u <= v
        BY <2>2, <3>1, Zenon
      <4> HIDE DEF s, u, v
      <4>2. s \in 0 .. v - 1
        BY ONLY <4>1, SMTT(20)
      <4> QED BY <4>2, Zenon DEF Segments, Seg, v
    <3>3. sat[s].region = regions[k]
      <4>1. Seg(regions[k].offset) <= s /\ s < Seg(RegionEnd(regions[k]))
        <5>1. s <= s
          <6>1. s \in Nat
            BY <2>2, Zenon
          <6> HIDE DEF s
          <6> QED BY ONLY <6>1, SMTT(20)
        <5> QED BY <3>1, <5>1, Zenon DEF s, o, e
      <4> DEFINE t == (s - Seg(o(k))) * SegmentSize
      <4>2. sat[s] = [region |-> regions[k], at |-> t]
        BY <1>1, <3>2, <4>1, Zenon DEF TableOK
      <4> HIDE DEF s, t
      <4> QED BY ONLY <4>2, SMTT(20)
    <3>4. c = IF size - d < z THEN size - d ELSE z
      BY <3>3, Zenon DEF Piece, Minimum
    <3> DEFINE l == <<s, d>>
    <3>5. l \in Nat \X (0..size) /\ l[1] = s /\ l[2] = d
      BY <2>2, Zenon
    <3> HIDE DEF s, d, z, c, o, e
    <3>6. c \in Nat /\ c > 0 /\ d + c <= size /\ c <= z
      BY <2>1, <2>2, <2>4, <3>4, SMTT(20)
    <3>7. ~Stops(l, size)
      BY <2>4, <2>2, <3>2, <3>5, <3>6 DEF Stops, c
    <3>8. f[l] = Reached([region |-> regions[k], at |-> 0], d, c) \cup
                 f[<<s + Pieces(c, SegmentSize), d + c>>]
      BY <1>3, <3>3, <3>5, <3>7, Zenon DEF Copied, GoesOn, c
    <3>9. Reached([region |-> regions[k], at |-> 0], d, c) = Exact(a, d, d + c)
      <4> DEFINE p == [region |-> regions[k], at |-> 0]
      <4>1. p.region = regions[k] /\ p.at = 0
        BY Zenon
      <4> HIDE DEF p
      <4>2. /\ p.region.offset \in Nat /\ p.region.size \in Nat /\ p.at \in Nat
            /\ p.at + c <= p.region.size /\ p.region.offset + p.at = a + d
        <5>1. p.region.offset = o(k) /\ p.region.size = z
          BY <4>1, Zenon DEF o, z
        <5> QED BY <2>0, <2>2, <3>6, <4>1, <5>1 DEF d
      <4>3. d \in Nat
        BY <2>2
      <4>4. Reached(p, d, c) = Exact(a, d, d + c)
        <5>1. c \in Nat
          BY <3>6, Zenon
        <5>2. \A i \in Nat, m \in Nat, b \in Nat :
                p.at + m <= p.region.size /\ p.region.offset + p.at = b + i
                => Reached(p, i, m) = Exact(b, i, i + m)
          BY <4>2, ReachedEach, ZenonT(30)
        <5> QED BY <4>2, <4>3, <5>1, <5>2, Zenon
      <4> QED BY <4>4, Zenon DEF p
    <3>10. f[<<s + Pieces(c, SegmentSize), d + c>>] = Exact(a, d + c, size)
      <4>1. CASE d + c = size
        <5>1. s + Pieces(c, SegmentSize) \in Nat
          <6>1. SegmentSize \in Nat /\ SegmentSize > 0
            BY StorageAssumption
          <6>2. Pieces(c, SegmentSize) \in Nat
            BY <3>6, <6>1, PiecesFacts, Zenon
          <6> QED BY <2>2, <6>2, SMTT(20)
        <5> QED BY <1>4, <1>5, <4>1, <5>1, Zenon
      <4>2. CASE d + c < size
        <5>1. c = z
          BY <2>2, <2>4, <3>4, <3>6, <4>2
        <5>2. Pieces(c, SegmentSize) = Seg(z)
          BY <2>1, <5>1, RoundAligned, Zenon
        <5>3. s + Pieces(c, SegmentSize) = Seg(e(k))
          BY <2>0, <5>2, Zenon DEF s
        <5>4. e(k) = a + (d + c) /\ e(k) \in Nat
          BY <2>0, <2>2, <5>1, SMTT(20) DEF d
        <5>5. k # n
          <6> SUFFICES ASSUME k = n PROVE FALSE
            BY SMTT(20)
          <6>1. MappedEnd(regions) = e(k)
            BY <1>1 DEF MappedEnd, e
          <6> QED BY <1>2, <2>2, <3>6, <4>2, <5>4, <6>1, SMTT(20)
        <5>6. k + 1 \in 1..n /\ o(k + 1) = e(k)
          <6>1. k + 1 \in 1..n /\ k + 1 # 1 /\ (k + 1) - 1 = k
            BY <1>0, <5>5
          <6>2. DOMAIN regions = 1..n
            BY <1>1, Zenon
          <6>3. regions[k + 1].offset = RegionEnd(regions[(k + 1) - 1])
            BY <6>1, <6>2, Zenon DEF RegionsOK
          <6> QED BY <6>1, <6>3, Zenon DEF o, e
        <5>7. a <= o(k + 1) /\ o(k + 1) - a = d + c /\ o(k) < o(k + 1)
              /\ o(k + 1) - a <= size
          BY <2>0, <2>2, <3>6, <4>2, <5>4, <5>6, SMTT(20)
        <5>8. f[<<Seg(o(k + 1)), o(k + 1) - a>>] = Exact(a, o(k + 1) - a, size)
          BY <1>6, <5>6, <5>7, Zenon DEF o
        <5> QED BY <5>3, <5>6, <5>7, <5>8, Zenon
      <4>3. d \in Nat /\ c \in Nat /\ d + c <= size /\ size \in Nat
        BY <2>2, <3>6
      <4>4. d + c = size \/ d + c < size
        BY ONLY <4>3
      <4> QED BY <4>1, <4>2, <4>4, Zenon
    <3>11. Exact(a, d, d + c) \cup Exact(a, d + c, size) = Exact(a, d, size)
      <4> DEFINE m == d + c
      <4>1. d \in Nat /\ c \in Nat /\ d + c <= size /\ size \in Nat /\ a \in Nat
        BY <2>2, <3>6
      <4>2. m \in Nat /\ d <= m /\ m <= size
        BY ONLY <4>1
      <4> HIDE DEF m
      <4>3. Exact(a, d, m) \cup Exact(a, m, size) = Exact(a, d, size)
        BY ONLY <4>1, <4>2, ExactUnion
      <4> QED BY <4>3, Zenon DEF m
    <3> QED BY <3>8, <3>9, <3>10, <3>11, Zenon DEF s, d, o, l
  <2>5. d = size \/ d < size
    <3>1. d \in 0..size /\ size \in Nat
      BY <2>2, Zenon
    <3> HIDE DEF d
    <3> QED BY ONLY <3>1, SMTT(20)
  <2> QED BY <2>3, <2>4, <2>5, Zenon
<1> HIDE DEF o
<1>7. T = {}
  <2> SUFFICES ASSUME T # {} PROVE FALSE
    BY Zenon
  <2>1. T \in SUBSET Nat
    OBVIOUS
  <2>2. PICK d \in T : \A i \in T : d <= i
    BY <2>1, LeastElement, Zenon
  <2>3. PICK k \in 1..n : Bad(d, k)
    BY <1>1, <2>2, Zenon
  <2>4. ASSUME NEW i \in 1..n, a <= o(i), o(i) - a <= size, o(k) < o(i)
        PROVE  f[<<Seg(o(i)), o(i) - a>>] = Exact(a, o(i) - a, size)
    <3> SUFFICES ASSUME f[<<Seg(o(i)), o(i) - a>>] # Exact(a, o(i) - a, size)
                 PROVE  FALSE
      BY Zenon
    <3>0. o(i) \in Nat /\ o(k) \in Nat
      BY <1>1, ZenonT(30)
    <3> DEFINE d2 == size - (o(i) - a)
    <3>3. o(k) - a = size - d /\ d \in Nat
      <4>1. d \in 0..size /\ o(k) - a = size - d /\ size \in Nat
        BY <2>2, <2>3, Zenon
      <4>2. d \in Nat
        BY ONLY <4>1, SMTT(20)
      <4> QED BY <4>1, <4>2, Zenon
    <3>1. d2 \in 0..size /\ o(i) - a = size - d2 /\ ~(d <= d2)
      <4>1. /\ a \in Nat /\ size \in Nat /\ o(i) \in Nat /\ o(k) \in Nat
            /\ a <= o(i) /\ o(i) - a <= size /\ o(k) < o(i)
            /\ o(k) - a = size - d /\ d \in Nat
        BY <2>4, <3>0, <3>3, Zenon
      <4> QED BY ONLY <4>1, SMTT(20)
    <3> HIDE DEF d2
    <3>2. d2 \in T
      BY <1>1, <2>4, <3>1, Zenon
    <3> QED BY <2>2, <3>1, <3>2, Zenon
  <2>5. o(k) \in Nat /\ a <= o(k) /\ o(k) - a <= size
    <3>1. /\ o(k) \in Nat /\ a <= o(k) /\ o(k) - a = size - d
          /\ d \in 0..size /\ size \in Nat /\ a \in Nat
      BY <1>1, <2>2, <2>3, Zenon
    <3>2. o(k) - a <= size
      BY ONLY <3>1, SMTT(20)
    <3> QED BY <3>1, <3>2, Zenon
  <2> QED BY <1>6, <2>3, <2>4, <2>5, Zenon
<1>8. o(j) \in Nat /\ a <= o(j) /\ o(j) - a <= size
  BY <1>1, ZenonT(30) DEF o
<1> DEFINE d == size - (o(j) - a)
<1>9. d \in 0..size /\ o(j) - a = size - d
  <2>1. /\ o(j) \in Nat /\ a <= o(j) /\ o(j) - a <= size
        /\ size \in Nat /\ a \in Nat
    BY <1>8, Zenon
  <2> QED BY ONLY <2>1, SMTT(20)
<1> HIDE DEF d
<1>10. ~Bad(d, j)
  BY <1>7, <1>9, Zenon
<1> QED BY <1>8, <1>9, <1>10, Zenon DEF o

(* storage::copy copies the block, over however many regions it goes.      *)
LEMMA CopyExact ==
  ASSUME RegionsOK(regions), TableOK(regions, sat), NEW a \in Nat,
         NEW size \in Nat, size > 0, a + size <= MappedEnd(regions)
  PROVE  copy(a, size) = Exact(a, 0, size)
<1> DEFINE p == address_to_pointer(a, sat)
           c == first_piece(p, a, size)
<1>1. MappedEnd(regions) \in Nat
  BY MappedFacts, AlignedFacts
<1>2. a < MappedEnd(regions)
  BY <1>1
<1>3. PICK j \in DOMAIN regions :
        /\ regions[j].offset <= a /\ a < RegionEnd(regions[j])
        /\ p = [region |-> regions[j], at |-> a - regions[j].offset]
  BY <1>2, TableReads, Zenon
<1> DEFINE o == regions[j].offset
           z == regions[j].size
           e == RegionEnd(regions[j])
           n == Len(regions)
<1>4. /\ n \in Nat /\ DOMAIN regions = 1..n /\ o \in Nat /\ z \in Nat
      /\ Aligned(e) /\ e \in Nat /\ e = o + z
  BY RegionFacts, Zenon DEF RegionEnd
<1>5. p.region = regions[j] /\ p.at = a - o
  <2> DEFINE t == a - o
  <2>1. p = [region |-> regions[j], at |-> t]
    BY <1>3, Zenon
  <2> HIDE DEF p, t
  <2>2. p.region = regions[j] /\ p.at = t
    BY ONLY <2>1, SMTT(20)
  <2> QED BY <2>2, Zenon DEF t
<1>6. c = IF e - a < size THEN e - a ELSE size
  <2>1. c = IF z - (a - o) < size THEN z - (a - o) ELSE size
    BY <1>5, Zenon DEF first_piece, Minimum
  <2>2. z - (a - o) = e - a
    <3>1. o \in Nat /\ z \in Nat /\ e = o + z /\ a \in Nat
      BY <1>4, Zenon
    <3> HIDE DEF o, z, e
    <3> QED BY ONLY <3>1, SMTT(20)
  <2> QED BY <2>1, <2>2, Zenon
<1>7. copy(a, size) = Reached(p, 0, c) \cup CopyRest(Seg(a), c, size)
  BY Zenon DEF copy, Seg
<1> HIDE DEF p, c
<1>8. o <= a /\ a < e
  BY <1>3, Zenon
<1>9. p.region.offset = o /\ p.region.size = z
  BY <1>5, Zenon
<1> HIDE DEF o, z, e, n
<1>10. c \in Nat /\ c > 0 /\ c <= size /\ c <= e - a
  BY <1>4, <1>6, <1>8
<1>11. Reached(p, 0, c) = Exact(a, 0, c)
  <2>1. /\ p.region.offset \in Nat /\ p.region.size \in Nat /\ p.at \in Nat
        /\ p.at + c <= p.region.size /\ p.region.offset + p.at = a + 0
        /\ 0 \in Nat /\ 0 + c = c
    BY <1>4, <1>5, <1>8, <1>9, <1>10, SMTT(20)
  <2>2. Reached(p, 0, c) = Exact(a, 0, 0 + c)
    BY <1>10, <2>1, ReachedExact
  <2> QED BY <2>1, <2>2, Zenon
<1>12. PICK f : /\ f = [l \in Nat \X (0..size) |-> Copied(f, l, size)]
                /\ \A s, d : CopyRest(s, d, size) = f[<<s + Pieces(d, SegmentSize), d>>]
  BY CopyRestFacts, Zenon
<1>13. CopyRest(Seg(a), c, size) = Exact(a, c, size)
  <2>1. CopyRest(Seg(a), c, size) = f[<<Seg(a) + Pieces(c, SegmentSize), c>>]
    BY <1>12, Zenon
  <2>2. CASE c = size
    <3> DEFINE l == <<Seg(a) + Pieces(c, SegmentSize), c>>
    <3>1. Seg(a) \in Nat /\ Pieces(c, SegmentSize) \in Nat
      <4>1. SegmentSize \in Nat /\ SegmentSize > 0
        BY StorageAssumption
      <4>2. Pieces(c, SegmentSize) \in Nat
        BY <1>10, <4>1, PiecesFacts, Zenon
      <4> QED BY <4>1, <4>2, DivMod DEF Seg
    <3>2. l \in Nat \X (0..size) /\ l[2] = size
      BY <1>10, <2>2, <3>1
    <3> HIDE DEF l
    <3>3. f[l] = Copied(f, l, size)
      BY <1>12, <3>2, Zenon
    <3>4. f[l] = {}
      BY <3>2, <3>3, Zenon DEF Copied, Stops
    <3>5. c..(size - 1) = {}
      BY <1>10, <2>2
    <3>6. Exact(a, c, size) = {}
      BY <3>5 DEF Exact
    <3> QED BY <2>1, <3>4, <3>6, Zenon DEF l
  <2>3. CASE c # size
    <3>1. c = e - a /\ e < a + size
      BY <1>4, <1>6, <1>8, <2>3
    <3>2. Seg(a) + Pieces(e - a, SegmentSize) = Seg(e)
      BY <1>4, <1>8, PiecesSpan, Zenon
    <3>3. j # n
      <4> SUFFICES ASSUME j = n PROVE FALSE
        OBVIOUS
      <4>1. MappedEnd(regions) = e
        BY <1>4 DEF MappedEnd, e, n
      <4> QED BY <1>1, <1>4, <3>1, <4>1
    <3>4. j + 1 \in 1..n /\ j + 1 # 1 /\ (j + 1) - 1 = j
      BY <1>4, <3>3
    <3>5. regions[j + 1].offset = e
      <4>1. regions[j + 1].offset = RegionEnd(regions[(j + 1) - 1])
        BY <1>4, <3>4, Zenon DEF RegionsOK
      <4> QED BY <3>4, <4>1 DEF e
    <3>6. a <= e /\ e - a <= size
      BY <1>4, <1>8, <3>1
    <3>7. f[<<Seg(e), e - a>>] = Exact(a, e - a, size)
      <4>1. j + 1 \in DOMAIN regions
        BY <1>4, <3>4
      <4> QED BY <1>12, <3>5, <3>6, <4>1, RestExact, Zenon
    <3> QED BY <2>1, <3>1, <3>2, <3>7, Zenon
  <2> QED BY <2>2, <2>3
<1>14. Exact(a, 0, c) \cup Exact(a, c, size) = Exact(a, 0, size)
  <2>1. 0 \in Nat /\ 0 <= c
    BY <1>10, SMTT(20)
  <2> QED BY <1>10, <2>1, ExactUnion
<1> QED BY <1>7, <1>11, <1>13, <1>14, Zenon

(* A request that lies in one region, as the code finds out.               *)
LEMMA NotSpanning ==
  ASSUME NEW rs, NEW table, RegionsOK(rs), TableOK(rs, table), NEW a \in Nat,
         NEW size \in Nat, size > 0, a + size <= MappedEnd(rs),
         ~request_spans_regions(a, size, table), NEW p,
         p = address_to_pointer(a, table)
  PROVE  /\ p.region.offset \in Nat /\ p.region.size \in Nat /\ p.at \in Nat
         /\ p.at + size <= p.region.size /\ p.region.offset + p.at = a
<1> DEFINE b == a + size - 1
<1>1. MappedEnd(rs) \in Nat
  BY MappedFacts, AlignedFacts
<1>2. a < MappedEnd(rs) /\ b \in Nat /\ b < MappedEnd(rs) /\ size # 0
  BY <1>1, SMTT(20)
<1>0. ASSUME NEW x \in Nat, x < MappedEnd(rs)
      PROVE  \E j \in DOMAIN rs :
               /\ rs[j].offset <= x /\ x < RegionEnd(rs[j])
               /\ table[Seg(x)].region = rs[j]
               /\ address_to_pointer(x, table) =
                    [region |-> rs[j], at |-> x - rs[j].offset]
  BY <1>0, TableReads, Zenon
<1>3. PICK j \in DOMAIN rs :
        /\ rs[j].offset <= a /\ a < RegionEnd(rs[j])
        /\ table[Seg(a)].region = rs[j]
        /\ p = [region |-> rs[j], at |-> a - rs[j].offset]
  BY <1>0, <1>2, Zenon
<1>4. table[Seg(a)].region = table[Seg(b)].region
  BY <1>2, SMTT(20) DEF request_spans_regions, Seg
<1> HIDE DEF b
<1>5. PICK k \in DOMAIN rs :
        b < RegionEnd(rs[k]) /\ table[Seg(b)].region = rs[k]
  BY <1>0, <1>2, Zenon
<1>6. rs[j] = rs[k]
  BY <1>3, <1>4, <1>5, Zenon
<1>7. /\ rs[j].offset \in Nat /\ rs[j].size \in Nat
      /\ RegionEnd(rs[j]) = rs[j].offset + rs[j].size
  BY RegionFacts, Zenon DEF RegionEnd
<1>8. p.region = rs[j] /\ p.at = a - rs[j].offset
  <2> DEFINE t == a - rs[j].offset
  <2>1. p = [region |-> rs[j], at |-> t]
    BY <1>3, Zenon
  <2> HIDE DEF t
  <2>2. p.region = rs[j] /\ p.at = t
    BY ONLY <2>1, SMTT(20)
  <2> QED BY <2>2, Zenon DEF t
<1>9. b < rs[j].offset + rs[j].size
  BY <1>5, <1>6, <1>7, Zenon
<1> DEFINE o == rs[j].offset
           z == rs[j].size
<1>10. o \in Nat /\ z \in Nat /\ o <= a /\ a + size - 1 < o + z
  BY <1>3, <1>7, <1>9, Zenon DEF b
<1>11. p.region.offset = o /\ p.region.size = z /\ p.at = a - o
  BY <1>8, Zenon
<1> HIDE DEF o, z
<1> QED BY <1>10, <1>11

(* A block is the bytes of the file at its addresses.                      *)
LEMMA AccessedExact ==
  ASSUME RegionsOK(regions), TableOK(regions, sat), NEW a \in Nat,
         NEW size \in Nat, size > 0, a + size <= MappedEnd(regions)
  PROVE  Accessed(a, size) = Exact(a, 0, size)
<1>1. CASE request_spans_regions(a, size, sat)
  BY <1>1, CopyExact DEF Accessed
<1>2. CASE ~request_spans_regions(a, size, sat)
  <2> DEFINE p == address_to_pointer(a, sat)
  <2>1. /\ p.region.offset \in Nat /\ p.region.size \in Nat /\ p.at \in Nat
        /\ p.at + size <= p.region.size /\ p.region.offset + p.at = a
    BY <1>2, NotSpanning, Zenon
  <2>2. Accessed(a, size) = Reached(p, 0, size)
    BY <1>2, Zenon DEF Accessed
  <2> HIDE DEF p
  <2>3. a = a + 0 /\ 0 + size = size /\ 0 \in Nat
    BY SMTT(20)
  <2>4. Reached(p, 0, size) = Exact(a, 0, 0 + size)
    BY <2>1, <2>3, ReachedExact
  <2> QED BY <2>2, <2>3, <2>4
<1> QED BY <1>1, <1>2

----------------------------------------------------------------------------
(* The connection.                                                         *)

(* All that the connection takes to be in the store is mapped.             *)
MapInvariant ==
  /\ RegionsOK(regions) /\ TableOK(regions, sat)
  /\ logical \in Nat /\ logical <= MappedEnd(regions)

(* The head revision lies within the largest store, and when the file is   *)
(* opened within the file; the connection has no later one than the head.  *)
HeadInvariant ==
  /\ head \in Nat /\ synced \in Nat /\ synced <= head
  /\ head + TrailerSize <= MaxSize
  /\ NotOpen => file \in Nat /\ head + TrailerSize <= file /\ file <= MaxSize
  /\ ~NotOpen => synced + TrailerSize <= logical

Txns == [phase : {"none", "live", "trailer", "footer"}, first : Nat, dbsize : Nat]

(* Where a transaction stands.  One that has allocated nothing has found   *)
(* the store to end where the head revision ends; once the header has been *)
(* pointed at the trailer, it does so again.                               *)
TxnInvariant ==
  /\ txn \in Txns
  /\ txn.phase = "none" => logical <= head + TrailerSize /\ pointers = {}
  /\ txn.phase # "none" => head + TrailerSize <= logical
  /\ txn.phase = "live" => /\ txn.dbsize = head + TrailerSize
                           /\ txn.first = 0 => logical = txn.dbsize
  /\ txn.phase = "footer" => logical = head + TrailerSize /\ pointers = {}

(* A writable pointer is to a block below end, all of which it holds; when *)
(* it is no shadow buffer it points into the one region with the block.    *)
Points(p, end) ==
  /\ p.addr \in Nat /\ p.size \in Nat /\ p.size > 0 /\ p.addr + p.size <= end
  /\ p.good = Bytes(0, p.size)
  /\ ~p.shadow => /\ p.to.region.offset \in Nat /\ p.to.region.size \in Nat
                  /\ p.to.at \in Nat /\ p.to.at + p.size <= p.to.region.size
                  /\ p.to.region.offset + p.to.at = p.addr

(* All below end is stored, or is in a block still to be released.         *)
Covered(end, S, P) ==
  \A x \in Bytes(0, end) : x \in S \/ \E p \in P : x \in Bytes(p.addr, p.size)

(* What a transaction has allocated is stored or is still to be released.  *)
WriteInvariant ==
  /\ \A p \in pointers : Points(p, logical)
  /\ txn.phase \in {"live", "trailer"} => Covered(logical, stored, pointers)
  /\ CommittedStored

StorageInvariant == MapInvariant /\ HeadInvariant /\ TxnInvariant /\ WriteInvariant

(* The sizes, from the assumption on the constants.                        *)
LEMMA Sizes ==
  /\ TrailerSize \in Nat /\ TrailerSize > 0 /\ LeaderSize \in Nat
  /\ MaxSize \in Nat /\ LeaderSize + TrailerSize <= MaxSize
  /\ AllocSizes \subseteq Nat \ {0} /\ Aligned(MaxSize)
BY StorageAssumption DEF Aligned

(* What is taken to be in the store lies within MaxSize.                   *)
LEMMA MappedWithin ==
  ASSUME MapInvariant
  PROVE  /\ MappedEnd(regions) \in Nat /\ logical <= MaxSize
         /\ NotOpen => logical = 0
<1>1. /\ MappedEnd(regions) \in Nat /\ MappedEnd(regions) <= MaxSize
      /\ logical \in Nat /\ logical <= MappedEnd(regions)
  BY MappedFacts, AlignedFacts DEF MapInvariant
<1>2. NotOpen => MappedEnd(regions) = 0
  BY Zenon DEF NotOpen, MappedEnd
<1> QED BY <1>1, <1>2, Sizes

(* A pointer that was right stays so when the store grows.                 *)
LEMMA PointsOn ==
  ASSUME NEW p, NEW end \in Nat, NEW more \in Nat, end <= more, Points(p, end)
  PROVE  Points(p, more)
<1>1. p.addr \in Nat /\ p.size \in Nat /\ p.addr + p.size <= end
  BY Zenon DEF Points
<1>2. p.addr + p.size <= more
  BY <1>1
<1> QED BY <1>2, Zenon DEF Points

(* The pointer that the client gets is right: the table is the one there   *)
(* is after the step.                                                      *)
LEMMA BlockPoints ==
  ASSUME RegionsOK(regions'), TableOK(regions', sat'), NEW a \in Nat,
         NEW n \in Nat, n > 0, NEW end \in Nat, a + n <= end,
         end <= MappedEnd(regions'), NEW good, good = Bytes(0, n), NEW b,
         b = Block(a, n, good)
  PROVE  Points(b, end) /\ b.addr = a /\ b.size = n
<1> DEFINE shadow == request_spans_regions(a, n, sat')
           to == address_to_pointer(a, sat')
<1>1. /\ b.addr = a /\ b.size = n /\ b.good = Bytes(0, n) /\ b.shadow = shadow
      /\ b.to = IF shadow THEN NoEntry ELSE to
  BY Zenon DEF Block
<1>2. MappedEnd(regions') \in Nat
  BY MappedFacts, AlignedFacts
<1>3. a + n <= MappedEnd(regions')
  BY <1>2
<1>4. ~shadow => /\ to.region.offset \in Nat /\ to.region.size \in Nat
                 /\ to.at \in Nat /\ to.at + n <= to.region.size
                 /\ to.region.offset + to.at = a
  BY <1>3, NotSpanning, Zenon
<1> HIDE DEF shadow, to
<1> QED BY <1>1, <1>4, Zenon DEF Points

(* The invariant holds in a store that has just been made.                 *)
LEMMA StorageInitial ==
  ASSUME StorageInit PROVE StorageInvariant
<1> DEFINE T == TrailerSize
           up == round_up(LeaderSize + T, SegmentSize)
<1>1. /\ head = LeaderSize /\ file = up /\ stored = Bytes(0, LeaderSize + T)
      /\ regions = <<>> /\ sat = [s \in Segments |-> NoEntry]
      /\ logical = 0 /\ synced = 0 /\ txn = NoTxn /\ pointers = {}
  BY Zenon DEF StorageInit
<1>2. RegionsOK(<<>>) /\ MappedEnd(<<>>) = 0
  <2>1. <<>> \in Seq({}) /\ DOMAIN <<>> = {}
    OBVIOUS
  <2> QED BY <2>1, Zenon DEF RegionsOK, MappedEnd
<1>3. TableOK(regions, sat)
  <2>1. NoEntry.region.size = 0 /\ 0 \in Nat
    BY DEF NoEntry, NoRegion
  <2>2. DOMAIN <<>> = {}
    OBVIOUS
  <2> QED BY <1>1, <2>1, <2>2, Zenon DEF TableOK
<1>4. MapInvariant
  BY <1>1, <1>2, <1>3 DEF MapInvariant
<1>5. LeaderSize + T \in Nat
  BY Sizes
<1>6. Aligned(up) /\ LeaderSize + T <= up /\ up <= MaxSize
  BY <1>5, RoundUp, Sizes
<1>7. up \in Nat
  BY <1>6, AlignedFacts
<1> HIDE DEF up
<1>8. HeadInvariant
  BY <1>1, <1>6, <1>7, Sizes, SMTT(20) DEF HeadInvariant, NotOpen
<1>9. txn.phase = "none" /\ txn \in Txns
  BY <1>1 DEF NoTxn, Txns
<1>10. logical <= head + TrailerSize
  BY <1>1, Sizes
<1>11. TxnInvariant
  BY <1>1, <1>9, <1>10, Zenon DEF TxnInvariant
<1>12. WriteInvariant
  BY <1>1, <1>9 DEF WriteInvariant, CommittedStored
<1> QED BY <1>4, <1>8, <1>11, <1>12, Zenon DEF StorageInvariant

(* After a sync all of the head revision is mapped and nothing beyond it   *)
(* is taken to be in the store.                                            *)
LEMMA SyncedToHead ==
  ASSUME StorageInvariant, ~NotOpen, txn.phase = "none", SyncToHead
  PROVE  /\ RegionsOK(regions') /\ TableOK(regions', sat')
         /\ head + TrailerSize <= MappedEnd(regions')
         /\ synced' = head /\ logical' = head + TrailerSize
<1>1. /\ RegionsOK(regions) /\ TableOK(regions, sat)
      /\ logical \in Nat /\ logical <= MappedEnd(regions)
  BY Zenon DEF StorageInvariant, MapInvariant
<1>2. /\ head \in Nat /\ synced \in Nat /\ head + TrailerSize <= MaxSize
      /\ synced + TrailerSize <= logical
  BY Zenon DEF StorageInvariant, HeadInvariant
<1>3. logical <= head + TrailerSize
  BY Zenon DEF StorageInvariant, TxnInvariant
<1>4. head + TrailerSize \in Nat
  BY <1>2, Sizes
<1>5. CASE head = synced
  <2>1. UNCHANGED <<regions, sat, logical, synced>>
    BY <1>5, Zenon DEF SyncToHead
  <2>2. logical = head + TrailerSize
    BY <1>1, <1>2, <1>3, <1>4, <1>5
  <2> QED BY <1>1, <1>5, <2>1, <2>2, Zenon
<1>6. CASE head # synced
  <2>1. /\ map_bytes(head + TrailerSize) /\ synced' = head
        /\ logical' = Maximum(logical, head + TrailerSize)
    BY <1>6, Zenon DEF SyncToHead
  <2>2. /\ RegionsOK(regions') /\ TableOK(regions', sat')
        /\ head + TrailerSize <= MappedEnd(regions')
    BY <1>1, <1>2, <1>4, <2>1, MapBytes, Zenon
  <2>3. logical' = head + TrailerSize
    BY <1>1, <1>3, <1>4, <2>1 DEF Maximum
  <2> QED BY <2>1, <2>2, <2>3
<1> QED BY <1>5, <1>6

(* A step after which no pointer is out and the connection has just the    *)
(* head revision.                                                          *)
LEMMA AtHead ==
  ASSUME StorageInvariant, UNCHANGED <<head, stored>>, pointers' = {},
         RegionsOK(regions'), TableOK(regions', sat'),
         head + TrailerSize <= MappedEnd(regions'),
         logical' = head + TrailerSize, synced' \in Nat, synced' <= head,
         txn' \in Txns,
         \/ txn'.phase = "none"
         \/ txn'.phase = "live" /\ txn'.dbsize = head + TrailerSize
  PROVE  StorageInvariant'
<1>1. head \in Nat /\ head + TrailerSize <= MaxSize
  BY Zenon DEF StorageInvariant, HeadInvariant
<1>2. head + TrailerSize \in Nat /\ head + TrailerSize # 0
  BY <1>1, Sizes
<1>3. MapInvariant'
  BY <1>2, Zenon DEF MapInvariant
<1>4. ~NotOpen'
  <2>1. NotOpen' => MappedEnd(regions') = 0
    BY Zenon DEF NotOpen, MappedEnd
  <2> QED BY <1>2, <2>1
<1>5. synced' + TrailerSize <= logical' /\ logical' <= head' + TrailerSize
      /\ head' + TrailerSize <= logical'
  <2>1. head' = head
    OBVIOUS
  <2>2. synced' + TrailerSize <= head + TrailerSize
    <3>1. synced' \in Nat /\ synced' <= head /\ head \in Nat /\ TrailerSize \in Nat
      BY <1>1, Sizes, Zenon
    <3>2. \A s, h, t \in Nat : s <= h => s + t <= h + t
      OBVIOUS
    <3> QED BY <3>1, <3>2, Zenon
  <2>3. head + TrailerSize <= head + TrailerSize
    BY <1>2
  <2> QED BY <2>1, <2>2, <2>3, Zenon
<1>6. HeadInvariant'
  BY <1>1, <1>4, <1>5, Zenon DEF HeadInvariant
<1>7. TxnInvariant'
  BY <1>5 DEF TxnInvariant
<1>8. CommittedStored
  BY Zenon DEF StorageInvariant, WriteInvariant
<1>9. WriteInvariant'
  <2>1. Covered(logical', stored', pointers')
    BY <1>8, Zenon DEF CommittedStored, Covered
  <2> QED BY <1>8, <2>1, Zenon DEF WriteInvariant, CommittedStored
<1> QED BY <1>3, <1>6, <1>7, <1>9, Zenon DEF StorageInvariant

(* Opening the store maps all of the file.                                 *)
LEMMA OpenStep ==
  ASSUME StorageInvariant, Open PROVE StorageInvariant'
<1> DEFINE rs == append(<<>>, 0, file, {})
           table == update_master_pointers(rs, 0, sat)
<1>1. /\ regions = <<>> /\ regions' = rs /\ sat' = table /\ synced' = head
      /\ logical' = head + TrailerSize
      /\ UNCHANGED <<head, stored, txn, pointers>>
  BY Zenon DEF Open, NotOpen
<1>2. /\ RegionsOK(regions) /\ TableOK(regions, sat) /\ logical \in Nat
      /\ logical = 0
  BY <1>1, MappedWithin, Zenon DEF StorageInvariant, MapInvariant, NotOpen
<1>3. /\ head \in Nat /\ file \in Nat /\ head + TrailerSize <= file
      /\ file <= MaxSize
  BY <1>1, Zenon DEF StorageInvariant, HeadInvariant, NotOpen
<1>4. txn.phase = "none" /\ pointers = {}
  <2>1. ~(head + TrailerSize <= logical)
    BY <1>2, <1>3, Sizes
  <2> QED BY <2>1, Zenon DEF StorageInvariant, TxnInvariant
<1>5. /\ Aligned(round_up(file, SegmentSize)) /\ file <= round_up(file, SegmentSize)
      /\ round_up(file, SegmentSize) <= MaxSize
  BY <1>3, RoundUp, Sizes
<1>6. round_up(file, SegmentSize) \in Nat
  BY <1>5, AlignedFacts
<1>7. MappedEnd(<<>>) = 0
  BY Zenon DEF MappedEnd
<1>8. MappedEnd(<<>>) + round_up(file, SegmentSize) <= MaxSize
  BY <1>5, <1>6, <1>7
<1>9. rs = append(<<>>, MappedEnd(<<>>), file, {})
  BY <1>7
<1>10. RegionsOK(<<>>) /\ TableOK(<<>>, sat)
  BY <1>1, <1>2
<1> HIDE DEF rs
<1>11. /\ RegionsOK(rs) /\ MappedEnd(rs) = 0 + round_up(file, SegmentSize)
       /\ Len(<<>>) \in 0..Len(rs)
  BY <1>3, <1>7, <1>8, <1>9, <1>10, AppendRegions, Zenon
<1>12. TableOK(rs, table)
  <2>1. /\ 0 \in 0..Len(rs) /\ DOMAIN <<>> = 1..0
        /\ \A i \in 1..0 : <<>>[i] = rs[i]
    BY <1>11
  <2> QED BY <1>10, <1>11, <2>1, MasterPointers, Zenon
<1> HIDE DEF table
<1>13. head + TrailerSize <= MappedEnd(rs) /\ head <= head
  BY <1>3, <1>5, <1>6, <1>11, Sizes
<1>14. txn' \in Txns
  BY <1>1, Zenon DEF StorageInvariant, TxnInvariant
<1> QED BY <1>1, <1>3, <1>4, <1>11, <1>12, <1>13, <1>14, AtHead, Zenon

(* sync() and begin() map the head revision.                               *)
LEMMA SyncStep ==
  ASSUME StorageInvariant, Sync \/ Begin PROVE StorageInvariant'
<1>1. /\ ~NotOpen /\ txn.phase = "none" /\ SyncToHead
      /\ UNCHANGED <<head, stored, pointers>>
  BY Zenon DEF Sync, Begin
<1>2. /\ RegionsOK(regions') /\ TableOK(regions', sat')
      /\ head + TrailerSize <= MappedEnd(regions')
      /\ synced' = head /\ logical' = head + TrailerSize
  BY <1>1, SyncedToHead, Zenon
<1>3. head \in Nat /\ head <= head
  BY DEF StorageInvariant, HeadInvariant
<1>4. pointers = {}
  BY <1>1, Zenon DEF StorageInvariant, TxnInvariant
<1>5. /\ txn' \in Txns
      /\ \/ txn'.phase = "none"
         \/ txn'.phase = "live" /\ txn'.dbsize = head + TrailerSize
  <2>1. CASE Sync
    BY <1>1, <2>1, Zenon DEF Sync, StorageInvariant, TxnInvariant
  <2>2. CASE Begin
    <3>1. head + TrailerSize \in Nat
      BY <1>3, Sizes
    <3>2. txn' = [phase |-> "live", first |-> 0, dbsize |-> head + TrailerSize]
      BY <1>2, <2>2, Zenon DEF Begin
    <3> QED BY <3>1, <3>2 DEF Txns
  <2> QED BY <2>1, <2>2
<1> QED BY <1>1, <1>2, <1>3, <1>4, <1>5, AtHead, Zenon

(* Rolling back goes back to the head revision.                            *)
LEMMA RollbackStep ==
  ASSUME StorageInvariant, Rollback PROVE StorageInvariant'
<1>1. /\ txn.phase = "live" /\ pointers = {} /\ txn' = NoTxn
      /\ UNCHANGED <<head, stored, synced, pointers>>
  BY Zenon DEF Rollback
<1>2. /\ RegionsOK(regions) /\ TableOK(regions, sat)
      /\ logical \in Nat /\ logical <= MappedEnd(regions)
  BY Zenon DEF StorageInvariant, MapInvariant
<1>3. /\ head \in Nat /\ synced \in Nat /\ synced <= head
      /\ head + TrailerSize <= MaxSize
  BY Zenon DEF StorageInvariant, HeadInvariant
<1>4. /\ head + TrailerSize <= logical /\ txn.dbsize = head + TrailerSize
      /\ txn.first = 0 => logical = head + TrailerSize
  <2>1. txn.phase # "none"
    BY <1>1
  <2> QED BY <1>1, <2>1, Zenon DEF StorageInvariant, TxnInvariant
<1>5. head + TrailerSize \in Nat
  BY <1>3, Sizes
<1>6. /\ RegionsOK(regions') /\ TableOK(regions', sat')
      /\ head + TrailerSize <= MappedEnd(regions')
      /\ logical' = head + TrailerSize
  <2>1. CASE txn.first # 0 /\ logical > txn.dbsize
    <3>1. map_bytes(head + TrailerSize) /\ logical' = head + TrailerSize
      BY <1>4, <2>1, Zenon DEF Rollback
    <3> QED BY <1>2, <1>3, <1>5, <3>1, MapBytes, Zenon
  <2>2. CASE ~(txn.first # 0 /\ logical > txn.dbsize)
    <3>1. UNCHANGED <<regions, sat, logical>>
      BY <2>2, Zenon DEF Rollback
    <3>2. logical = head + TrailerSize
      BY <1>2, <1>4, <1>5, <2>2, SMTT(20)
    <3> QED BY <1>2, <3>1, <3>2
  <2> QED BY <2>1, <2>2
<1>7. txn'.phase = "none" /\ txn' \in Txns
  BY <1>1 DEF NoTxn, Txns
<1> QED BY <1>1, <1>3, <1>6, <1>7, AtHead, Zenon

(* What is allocated is not stored yet, but its pointer is out.            *)
LEMMA AllocatedCovered ==
  ASSUME NEW end \in Nat, NEW n \in Nat, NEW S, NEW P, NEW b,
         b.addr = end, b.size = n, Covered(end, S, P)
  PROVE  Covered(end + n, S \ Bytes(end, n), P \cup {b})
<1> SUFFICES ASSUME NEW x \in Bytes(0, end + n)
             PROVE  \/ x \in S \ Bytes(end, n)
                    \/ \E p \in P \cup {b} : x \in Bytes(p.addr, p.size)
  BY Zenon DEF Covered
<1>1. x \in Bytes(0, end) \/ x \in Bytes(end, n)
  BY DEF Bytes
<1> QED BY <1>1, Zenon DEF Covered

(* Allocating maps the block and hands out a pointer to all of it.         *)
LEMMA AllocStep ==
  ASSUME StorageInvariant, txn.phase = "live", NEW n \in Nat, n > 0,
         NEW phase \in {"live", "trailer"}, alloc_rw(n, phase)
  PROVE  StorageInvariant'
<1> DEFINE end == logical + n
           b == Block(logical, n, Bytes(0, n))
<1>1. /\ end <= MaxSize /\ map_bytes(end) /\ logical' = end
      /\ stored' = stored \ Bytes(logical, n) /\ pointers' = pointers \cup {b}
      /\ txn' = [txn EXCEPT !.phase = phase, !.first = IF @ = 0 THEN logical ELSE @]
      /\ UNCHANGED <<head, synced>>
  BY Zenon DEF alloc_rw
<1>2. /\ RegionsOK(regions) /\ TableOK(regions, sat)
      /\ logical \in Nat /\ logical <= MappedEnd(regions)
  BY Zenon DEF StorageInvariant, MapInvariant
<1>3. /\ head \in Nat /\ synced \in Nat /\ synced <= head
      /\ head + TrailerSize <= MaxSize
  BY Zenon DEF StorageInvariant, HeadInvariant
<1>4. /\ head + TrailerSize <= logical /\ txn.dbsize = head + TrailerSize
  <2>1. txn.phase # "none"
    OBVIOUS
  <2> QED BY <2>1, Zenon DEF StorageInvariant, TxnInvariant
<1>5. /\ end \in Nat /\ logical <= end /\ head + TrailerSize <= end
      /\ logical # 0 /\ synced + TrailerSize <= end /\ logical + n <= end /\ end # 0
  BY <1>2, <1>3, <1>4, Sizes
<1>6. /\ RegionsOK(regions') /\ TableOK(regions', sat')
      /\ end <= MappedEnd(regions')
  BY <1>1, <1>2, <1>5, MapBytes, SMTT(20)
<1>7. Points(b, end) /\ b.addr = logical /\ b.size = n
  <2>1. b = Block(logical, n, Bytes(0, n)) /\ Bytes(0, n) = Bytes(0, n)
    OBVIOUS
  <2> HIDE DEF b, end
  <2> QED BY <1>2, <1>5, <1>6, <2>1, BlockPoints
<1> HIDE DEF b, end
<1>8. MapInvariant'
  BY <1>1, <1>5, <1>6, Zenon DEF MapInvariant
<1>9. ~NotOpen'
  <2>1. NotOpen' => MappedEnd(regions') = 0
    BY Zenon DEF NotOpen, MappedEnd
  <2> QED BY <1>5, <1>6, <2>1
<1>10. HeadInvariant'
  <2>1. head' = head /\ synced' = synced
    BY <1>1, Zenon
  <2> QED BY <1>1, <1>3, <1>5, <1>9, <2>1, Zenon DEF HeadInvariant
<1>11. TxnInvariant'
  <2>1. txn \in Txns
    BY Zenon DEF StorageInvariant, TxnInvariant
  <2>2. /\ txn' \in Txns /\ txn'.phase = phase /\ txn'.dbsize = txn.dbsize
        /\ txn'.first # 0
    <3> DEFINE first == IF txn.first = 0 THEN logical ELSE txn.first
    <3>1. txn' = [txn EXCEPT !.phase = phase, !.first = first]
      BY <1>1, Zenon
    <3>2. first \in Nat /\ first # 0
      BY <1>2, <1>5, <2>1 DEF Txns
    <3> HIDE DEF first
    <3>3. txn'.phase = phase /\ txn'.first = first /\ txn'.dbsize = txn.dbsize
      BY <2>1, <3>1 DEF Txns
    <3>4. txn' \in Txns
      BY <2>1, <3>1, <3>2, Zenon DEF Txns
    <3> QED BY <3>2, <3>3, <3>4, Zenon
  <2> QED BY <1>1, <1>4, <1>5, <2>2 DEF TxnInvariant
<1>12. WriteInvariant'
  <2>1. /\ \A p \in pointers : Points(p, logical)
        /\ Covered(logical, stored, pointers) /\ CommittedStored
    BY Zenon DEF StorageInvariant, WriteInvariant
  <2>2. \A p \in pointers \cup {b} : Points(p, end)
    BY <1>2, <1>5, <1>7, <2>1, PointsOn, Zenon
  <2>3. Covered(end, stored \ Bytes(logical, n), pointers \cup {b})
    BY <1>2, <1>7, <2>1, AllocatedCovered, Zenon DEF end
  <2>4. Bytes(0, head + TrailerSize) \cap Bytes(logical, n) = {}
    <3>1. head + TrailerSize \in Nat
      BY <1>3, Sizes
    <3> QED BY <1>2, <1>4, <3>1 DEF Bytes
  <2>5. Bytes(0, head + TrailerSize) \subseteq stored \ Bytes(logical, n)
    BY <2>1, <2>4, Zenon DEF CommittedStored
  <2>6. head' = head
    BY <1>1, Zenon
  <2> QED BY <1>1, <2>2, <2>3, <2>5, <2>6, Zenon DEF WriteInvariant, CommittedStored
<1> QED BY <1>8, <1>10, <1>11, <1>12, Zenon DEF StorageInvariant

(* A block that is stored and has no other pointer is had whole.           *)
LEMMA AllGood ==
  ASSUME MapInvariant, Covered(logical, stored, pointers), NEW a \in Nat,
         NEW n \in Nat, n > 0, a + n <= logical,
         \A p \in pointers : Bytes(a, n) \cap Bytes(p.addr, p.size) = {},
         NEW right,
         right = {m \in Accessed(a, n) : m[1] \in stored /\ m[1] = a + m[2]}
  PROVE  {m[2] : m \in right} = Bytes(0, n)
<1>1. MappedEnd(regions) \in Nat /\ logical \in Nat /\ logical <= MappedEnd(regions)
  BY MappedWithin DEF MapInvariant
<1>2. a + n <= MappedEnd(regions)
  BY <1>1
<1>3. Accessed(a, n) = Exact(a, 0, n)
  BY <1>2, AccessedExact, Zenon DEF MapInvariant
<1>4. \A i \in 0..(n - 1) : a + i \in stored
  <2> SUFFICES ASSUME NEW i \in 0..(n - 1) PROVE a + i \in stored
    BY Zenon
  <2>1. a + i \in Bytes(0, logical) /\ a + i \in Bytes(a, n)
    BY <1>1 DEF Bytes
  <2> QED BY <2>1, Zenon DEF Covered
<1>5. Bytes(0, n) = 0..(n - 1)
  BY DEF Bytes
<1>6. ASSUME NEW m \in right PROVE m[2] \in 0..(n - 1)
  <2>1. PICK i \in 0..(n - 1) : m = <<a + i, i>>
    BY <1>3, <1>6, Zenon DEF Exact
  <2> QED BY <2>1
<1>7. ASSUME NEW i \in 0..(n - 1) PROVE \E m \in right : m[2] = i
  <2> DEFINE m == <<a + i, i>>
  <2>1. m \in Exact(a, 0, n)
    BY Zenon DEF Exact
  <2>2. m[1] = a + i /\ m[2] = i
    OBVIOUS
  <2> HIDE DEF m
  <2>3. m[1] \in stored /\ m[1] = a + m[2]
    BY <1>4, <2>2, Zenon
  <2> QED BY <1>3, <2>1, <2>2, <2>3, Zenon
<1>8. {m[2] : m \in right} \subseteq 0..(n - 1)
  BY <1>6, Zenon
<1>9. 0..(n - 1) \subseteq {m[2] : m \in right}
  BY <1>7, Zenon
<1> QED BY <1>5, <1>8, <1>9, Zenon

(* getrw() hands out a pointer to a block that is stored.                  *)
LEMMA GetRwStep ==
  ASSUME StorageInvariant, NEW a \in Nat, NEW n \in Nat, n > 0, GetRw(a, n)
  PROVE  StorageInvariant'
<1> DEFINE right == {m \in Accessed(a, n) : m[1] \in stored /\ m[1] = a + m[2]}
           good == {m[2] : m \in right}
           b == Block(a, n, good)
<1>1. /\ txn.phase = "live" /\ a + n <= logical
      /\ \A p \in pointers : Bytes(a, n) \cap Bytes(p.addr, p.size) = {}
      /\ UNCHANGED <<file, head, stored, regions, sat, logical, synced, txn>>
      /\ pointers' = pointers \cup {b}
  BY Zenon DEF GetRw
<1>2. /\ MapInvariant /\ HeadInvariant /\ TxnInvariant /\ CommittedStored
      /\ \A p \in pointers : Points(p, logical)
      /\ Covered(logical, stored, pointers)
  BY <1>1, Zenon DEF StorageInvariant, WriteInvariant
<1>3. good = Bytes(0, n)
  BY <1>1, <1>2, AllGood, Zenon
<1>4. /\ RegionsOK(regions') /\ TableOK(regions', sat') /\ logical \in Nat
      /\ logical <= MappedEnd(regions')
  BY <1>1, <1>2, Zenon DEF MapInvariant
<1>5. b = Block(a, n, good)
  OBVIOUS
<1> HIDE DEF b, good
<1>6. Points(b, logical)
  BY <1>1, <1>3, <1>4, <1>5, BlockPoints, Zenon
<1>7. MapInvariant' /\ HeadInvariant' /\ CommittedStored'
  BY <1>1, <1>2, Zenon
     DEF MapInvariant, HeadInvariant, CommittedStored, NotOpen
<1>8. TxnInvariant'
  <2>1. txn.phase # "none" /\ txn.phase # "footer"
    BY <1>1
  <2> QED BY <1>1, <1>2, <2>1, Zenon DEF TxnInvariant
<1>9. WriteInvariant'
  <2>1. \A p \in pointers' : Points(p, logical')
    BY <1>1, <1>2, <1>6, Zenon
  <2>2. Covered(logical', stored', pointers')
    BY <1>1, <1>2, Zenon DEF Covered
  <2> QED BY <1>7, <2>1, <2>2, Zenon DEF WriteInvariant
<1> QED BY <1>7, <1>8, <1>9, Zenon DEF StorageInvariant

(* What is released is stored, and nothing that was stored is lost.        *)
LEMMA ReleaseStores ==
  ASSUME MapInvariant, NEW p, Points(p, logical), Release(p)
  PROVE  stored' = stored \cup Bytes(p.addr, p.size)
<1> DEFINE a == p.addr
           n == p.size
           moved == IF p.shadow THEN copy(a, n) ELSE Reached(p.to, 0, n)
           right == {m \in moved : m[1] = a + m[2] /\ m[2] \in p.good}
<1>1. stored' = (stored \ {m[1] : m \in moved}) \cup {m[1] : m \in right}
  BY Zenon DEF Release
<1>2. /\ a \in Nat /\ n \in Nat /\ n > 0 /\ a + n <= logical
      /\ p.good = Bytes(0, n)
      /\ ~p.shadow => /\ p.to.region.offset \in Nat /\ p.to.region.size \in Nat
                      /\ p.to.at \in Nat /\ p.to.at + n <= p.to.region.size
                      /\ p.to.region.offset + p.to.at = a
  BY Zenon DEF Points
<1>3. moved = Exact(a, 0, n)
  <2>1. CASE p.shadow
    <3>1. /\ MappedEnd(regions) \in Nat /\ logical \in Nat
          /\ logical <= MappedEnd(regions)
      BY MappedWithin, SMTT(20) DEF MapInvariant
    <3> HIDE DEF a, n
    <3>2. a + n <= MappedEnd(regions)
      BY <1>2, <3>1
    <3>3. copy(a, n) = Exact(a, 0, n)
      BY <1>2, <3>2, CopyExact, Zenon DEF MapInvariant
    <3> QED BY <2>1, <3>3, Zenon DEF a, n
  <2>2. CASE ~p.shadow
    <3> DEFINE to == p.to
    <3>1. /\ to.region.offset \in Nat /\ to.region.size \in Nat /\ to.at \in Nat
          /\ to.at + n <= to.region.size /\ to.region.offset + to.at = a
      BY <1>2, <2>2, Zenon
    <3> HIDE DEF a, n, to
    <3>2. a = a + 0 /\ 0 + n = n /\ 0 \in Nat
      BY <1>2, SMTT(20)
    <3>3. Reached(to, 0, n) = Exact(a, 0, 0 + n)
      <4>1. /\ a \in Nat /\ n \in Nat
            /\ to.region.offset + to.at = a + 0
        BY <1>2, <3>1, <3>2, Zenon
      <4> QED BY ONLY <3>1, <3>2, <4>1, ReachedExact, SMTT(20)
    <3> QED BY <2>2, <3>2, <3>3, Zenon DEF a, n, to
  <2> QED BY <2>1, <2>2, Zenon
<1>4. right = {m \in moved : m[1] = a + m[2] /\ m[2] \in p.good}
  BY Zenon
<1> HIDE DEF a, n, moved, right
<1>5. \A m \in Exact(a, 0, n) : m[1] = a + m[2] /\ m[2] \in Bytes(0, n)
  <2> SUFFICES ASSUME NEW m \in Exact(a, 0, n)
               PROVE  m[1] = a + m[2] /\ m[2] \in Bytes(0, n)
    BY Zenon
  <2>1. PICK i \in 0..(n - 1) : m = <<a + i, i>>
    BY Zenon DEF Exact
  <2>2. m[1] = a + i /\ m[2] = i /\ i \in Bytes(0, n)
    BY <1>2, <2>1 DEF Bytes
  <2> QED BY <2>2
<1>6. right = moved
  BY <1>2, <1>3, <1>4, <1>5, Zenon
<1>7. {m[1] : m \in moved} = Bytes(a, n)
  <2>1. ASSUME NEW m \in moved PROVE m[1] \in Bytes(a, n)
    <3>1. PICK i \in 0..(n - 1) : m = <<a + i, i>>
      BY <1>3, <2>1, Zenon DEF Exact
    <3>2. m[1] = a + i
      BY <3>1
    <3> QED BY <1>2, <3>2 DEF Bytes
  <2>2. ASSUME NEW x \in Bytes(a, n) PROVE \E m \in moved : m[1] = x
    <3> DEFINE m == <<a + (x - a), x - a>>
    <3>1. x - a \in 0..(n - 1) /\ x = a + (x - a)
      BY <1>2, <2>2 DEF Bytes
    <3>2. m \in moved
      BY <1>3, <3>1, Zenon DEF Exact
    <3>3. m[1] = x
      BY <3>1
    <3> QED BY <3>2, <3>3, Zenon
  <2>3. {m[1] : m \in moved} \subseteq Bytes(a, n)
    BY <2>1, Zenon
  <2>4. Bytes(a, n) \subseteq {m[1] : m \in moved}
    BY <2>2, Zenon
  <2> QED BY <2>3, <2>4, Zenon
<1> QED BY <1>1, <1>6, <1>7, Zenon DEF a, n

(* Releasing a pointer stores its block.                                   *)
LEMMA ReleaseStep ==
  ASSUME StorageInvariant, NEW p \in pointers, Release(p)
  PROVE  StorageInvariant'
<1>1. /\ pointers' = pointers \ {p}
      /\ UNCHANGED <<file, head, regions, sat, logical, synced, txn>>
  BY Zenon DEF Release
<1>2. /\ MapInvariant /\ HeadInvariant /\ TxnInvariant /\ CommittedStored
      /\ \A q \in pointers : Points(q, logical)
      /\ txn.phase \in {"live", "trailer"} => Covered(logical, stored, pointers)
  BY Zenon DEF StorageInvariant, WriteInvariant
<1>3. stored' = stored \cup Bytes(p.addr, p.size)
  BY <1>2, ReleaseStores, Zenon
<1>4. MapInvariant' /\ HeadInvariant'
  BY <1>1, <1>2, Zenon DEF MapInvariant, HeadInvariant, NotOpen
<1>5. TxnInvariant'
  BY <1>1, <1>2, Zenon DEF TxnInvariant
<1>6. WriteInvariant'
  <2>1. \A q \in pointers' : Points(q, logical')
    BY <1>1, <1>2, Zenon
  <2>2. txn'.phase \in {"live", "trailer"} => Covered(logical', stored', pointers')
    BY <1>1, <1>2, <1>3, Zenon DEF Covered
  <2>3. CommittedStored'
    BY <1>1, <1>2, <1>3, Zenon DEF CommittedStored
  <2> QED BY <2>1, <2>2, <2>3, Zenon DEF WriteInvariant
<1> QED BY <1>4, <1>5, <1>6, Zenon DEF StorageInvariant

(* The header is pointed at the trailer when all below is stored.          *)
LEMMA SetNewFooterStep ==
  ASSUME StorageInvariant, SetNewFooter PROVE StorageInvariant'
<1>1. /\ txn.phase = "trailer" /\ pointers = {} /\ head' = logical - TrailerSize
      /\ synced' = head' /\ txn' = [txn EXCEPT !.phase = "footer"]
      /\ UNCHANGED <<file, stored, regions, sat, logical, pointers>>
  BY Zenon DEF SetNewFooter
<1>2. /\ MapInvariant /\ TxnInvariant /\ txn \in Txns /\ logical \in Nat
      /\ logical <= MaxSize /\ head \in Nat
      /\ Covered(logical, stored, pointers)
  BY <1>1, MappedWithin, Zenon DEF StorageInvariant, MapInvariant, HeadInvariant,
     TxnInvariant, WriteInvariant
<1>3. head + TrailerSize <= logical
  <2>1. txn.phase # "none"
    BY <1>1
  <2> QED BY <1>2, <2>1, Zenon DEF TxnInvariant
<1> DEFINE h == logical - TrailerSize
<1>4. /\ h \in Nat /\ h <= h /\ h + TrailerSize = logical /\ logical <= logical
      /\ logical # 0
  BY <1>2, <1>3, Sizes
<1> HIDE DEF h
<1>5. head' = h /\ synced' = h
  BY <1>1, Zenon DEF h
<1>6. ~NotOpen
  BY <1>2, <1>4, MappedWithin, Zenon
<1>7. MapInvariant' /\ ~NotOpen'
  BY <1>1, <1>2, <1>6, Zenon DEF MapInvariant, NotOpen
<1>8. HeadInvariant'
  BY <1>1, <1>2, <1>4, <1>5, <1>7, Zenon DEF HeadInvariant
<1>9. TxnInvariant'
  <2>1. txn' \in Txns /\ txn'.phase = "footer"
    BY <1>1, <1>2, Zenon DEF Txns
  <2> QED BY <1>1, <1>4, <1>5, <2>1 DEF TxnInvariant
<1>10. WriteInvariant'
  <2>1. CommittedStored'
    BY <1>1, <1>2, <1>4, <1>5, Zenon DEF Covered, CommittedStored
  <2>2. Covered(logical', stored', pointers')
    BY <1>1, <1>2, Zenon
  <2> QED BY <1>1, <2>1, <2>2, Zenon DEF WriteInvariant
<1> QED BY <1>7, <1>8, <1>9, <1>10, Zenon DEF StorageInvariant

(* The end of a commit.                                                    *)
LEMMA ProtectCommittedStep ==
  ASSUME StorageInvariant, ProtectCommitted PROVE StorageInvariant'
<1>1. /\ txn.phase = "footer" /\ txn' = NoTxn
      /\ UNCHANGED <<file, head, stored, regions, sat, logical, synced, pointers>>
  BY Zenon DEF ProtectCommitted
<1>2. /\ MapInvariant /\ HeadInvariant /\ TxnInvariant /\ CommittedStored
      /\ logical \in Nat
  BY Zenon DEF StorageInvariant, WriteInvariant, MapInvariant
<1>3. MapInvariant' /\ HeadInvariant' /\ CommittedStored'
  BY <1>1, <1>2, Zenon
     DEF MapInvariant, HeadInvariant, CommittedStored, NotOpen
<1>4. txn'.phase = "none" /\ txn' \in Txns
  BY <1>1, SMTT(20) DEF NoTxn, Txns
<1>5. logical = head + TrailerSize /\ pointers = {} /\ logical <= logical
  BY <1>1, <1>2, SMTT(20) DEF TxnInvariant
<1>6. TxnInvariant'
  BY <1>1, <1>4, <1>5 DEF TxnInvariant
<1>7. WriteInvariant'
  BY <1>1, <1>3, <1>4, <1>5, Zenon DEF WriteInvariant
<1> QED BY <1>3, <1>6, <1>7, Zenon DEF StorageInvariant

(* Another process commits, and may size the file.                         *)
LEMMA OtherCommitsStep ==
  ASSUME StorageInvariant, NEW n \in Nat, OtherCommits(n) PROVE StorageInvariant'
<1> DEFINE end == head + 2 * TrailerSize + n
           up == round_up(end, SegmentSize)
           h == end - TrailerSize
<1>1. /\ txn.phase = "none" /\ end <= MaxSize /\ head' = h
      /\ stored' = stored \cup (head .. end - 1)
      /\ file' \in {m \in {file, up} : m >= end}
      /\ UNCHANGED <<regions, sat, logical, synced, txn, pointers>>
  BY Zenon DEF OtherCommits, connection
<1>2. /\ MapInvariant /\ HeadInvariant /\ TxnInvariant /\ CommittedStored
      /\ head \in Nat /\ synced \in Nat /\ synced <= head /\ logical \in Nat
      /\ logical <= head + TrailerSize /\ pointers = {}
  BY <1>1, Zenon DEF StorageInvariant, WriteInvariant, HeadInvariant, TxnInvariant,
     MapInvariant
<1>3. /\ end \in Nat /\ h \in Nat /\ h + TrailerSize = end /\ head <= h
      /\ synced <= h /\ logical <= end
  BY <1>2, Sizes
<1>4. Aligned(up) /\ end <= up /\ up <= MaxSize
  BY <1>1, <1>3, RoundUp, Sizes, Zenon
<1>5. up \in Nat
  BY <1>4, AlignedFacts
<1> HIDE DEF up, h
<1>6. MapInvariant'
  BY <1>1, <1>2, Zenon DEF MapInvariant
<1>7. NotOpen' => file' \in Nat /\ end <= file' /\ file' <= MaxSize
  <2>1. NotOpen' => file \in Nat /\ file <= MaxSize
    BY <1>1, <1>2, Zenon DEF HeadInvariant, NotOpen
  <2>2. CASE file' = file /\ file >= end
    BY <1>3, <2>1, <2>2
  <2>3. CASE file' = up
    BY <1>4, <1>5, <2>3, Zenon
  <2> QED BY <1>1, <2>2, <2>3, Zenon
<1>8. ~NotOpen' => synced' + TrailerSize <= logical'
  BY <1>1, <1>2, Zenon DEF HeadInvariant, NotOpen
<1>9. Bytes(0, end) \subseteq stored'
  <2>1. \A x \in Bytes(0, end) : x \in Bytes(0, head + TrailerSize) \/ x \in head..(end - 1)
    BY <1>2, <1>3, Sizes DEF Bytes
  <2> QED BY <1>1, <1>2, <2>1, Zenon DEF CommittedStored
<1> HIDE DEF end
<1>10. HeadInvariant'
  BY <1>1, <1>2, <1>3, <1>7, <1>8, Zenon DEF HeadInvariant
<1>11. TxnInvariant'
  BY <1>1, <1>2, <1>3, Zenon DEF TxnInvariant
<1>12. WriteInvariant'
  BY <1>1, <1>2, <1>3, <1>9, Zenon DEF WriteInvariant, CommittedStored
<1> QED BY <1>6, <1>10, <1>11, <1>12, Zenon DEF StorageInvariant

(* Another process rolls back and leaves the file longer.                  *)
LEMMA OtherRollsBackStep ==
  ASSUME StorageInvariant, NEW n \in Nat, OtherRollsBack(n) PROVE StorageInvariant'
<1> DEFINE end == head + TrailerSize + n
           up == round_up(end, SegmentSize)
<1>1. /\ end <= MaxSize /\ file' = Maximum(file, up)
      /\ UNCHANGED <<head, stored, regions, sat, logical, synced, txn, pointers>>
  BY Zenon DEF OtherRollsBack, connection
<1>2. MapInvariant /\ HeadInvariant /\ TxnInvariant /\ WriteInvariant /\ head \in Nat
  BY Zenon DEF StorageInvariant, HeadInvariant
<1>3. end \in Nat /\ head + TrailerSize <= end /\ head + TrailerSize \in Nat
  BY <1>2, Sizes
<1>4. Aligned(up) /\ end <= up /\ up <= MaxSize
  BY <1>1, <1>3, RoundUp, Sizes, Zenon
<1>5. up \in Nat /\ head + TrailerSize <= up
  <2>1. up \in Nat
    BY <1>4, AlignedFacts
  <2> HIDE DEF up
  <2> QED BY <1>3, <1>4, <2>1, SMTT(20)
<1> HIDE DEF up, end
<1>6. MapInvariant' /\ TxnInvariant' /\ WriteInvariant'
  BY <1>1, <1>2, Zenon
     DEF MapInvariant, TxnInvariant, WriteInvariant, CommittedStored
<1>7. HeadInvariant'
  <2>1. NotOpen' => /\ file' \in Nat /\ head + TrailerSize <= file'
                    /\ file' <= MaxSize
    <3>1. NotOpen' => /\ file \in Nat /\ head + TrailerSize <= file
                      /\ file <= MaxSize
      BY <1>1, <1>2, Zenon DEF HeadInvariant, NotOpen
    <3>2. file' = file \/ file' = up
      BY <1>1, Zenon DEF Maximum
    <3> QED BY <1>4, <1>5, <3>1, <3>2, Zenon
  <2> QED BY <1>1, <1>2, <2>1, Zenon DEF HeadInvariant, NotOpen
<1> QED BY <1>6, <1>7, Zenon DEF StorageInvariant

(* Steps that are not about the store keep the invariant.                  *)
LEMMA StorageFrame ==
  ASSUME StorageInvariant, UNCHANGED storageVars PROVE StorageInvariant'
<1>1. UNCHANGED <<file, head, stored, regions, sat, logical, synced, txn, pointers>>
  BY Zenon DEF storageVars
<1>2. MapInvariant' /\ HeadInvariant' /\ TxnInvariant' /\ WriteInvariant'
  BY <1>1, Zenon DEF StorageInvariant, MapInvariant, HeadInvariant, NotOpen,
     TxnInvariant, WriteInvariant, CommittedStored
<1> QED BY <1>2, Zenon DEF StorageInvariant

(* Every step of the connection keeps the invariant.                       *)
LEMMA ConnectionPreserves ==
  ASSUME StorageInvariant, ConnectionNext PROVE StorageInvariant'
<1>1. CASE Open
  BY <1>1, OpenStep, Zenon
<1>2. CASE Sync \/ Begin
  BY <1>2, SyncStep, Zenon
<1>3. CASE CommitTrailer
  <2>1. txn.phase = "live" /\ alloc_rw(TrailerSize, "trailer")
    BY <1>3, Zenon DEF CommitTrailer
  <2> QED BY <2>1, AllocStep, Sizes, Zenon
<1>4. CASE SetNewFooter
  BY <1>4, SetNewFooterStep, Zenon
<1>5. CASE ProtectCommitted
  BY <1>5, ProtectCommittedStep, Zenon
<1>6. CASE Rollback
  BY <1>6, RollbackStep, Zenon
<1>7. ASSUME NEW n \in AllocSizes, Alloc(n) PROVE StorageInvariant'
  <2>1. n \in Nat /\ n > 0
    BY <1>7, Sizes
  <2>2. txn.phase = "live" /\ alloc_rw(n, "live")
    BY <1>7, Zenon DEF Alloc
  <2> QED BY <2>1, <2>2, AllocStep, Zenon
<1>8. ASSUME NEW n \in AllocSizes, NEW a \in LeaderSize .. MaxSize - 1, GetRw(a, n)
      PROVE  StorageInvariant'
  <2>1. n \in Nat /\ n > 0 /\ a \in Nat
    BY <1>8, Sizes
  <2> QED BY <1>8, <2>1, GetRwStep, Zenon
<1>9. ASSUME NEW p \in pointers, Release(p) PROVE StorageInvariant'
  BY <1>9, ReleaseStep, Zenon
<1> QED BY <1>1, <1>2, <1>3, <1>4, <1>5, <1>6, <1>7, <1>8, <1>9, Zenon
        DEF ConnectionNext

(* The invariant of the connection and the file holds: for all sizes of    *)
(* segments, regions, pages and headers, whatever the clients allocate,    *)
(* and whatever the others do to the file.                                 *)
THEOREM StorageInvariantHolds == Spec => []StorageInvariant
<1>1. Init => StorageInvariant
  BY StorageInitial DEF Init
<1>2. StorageInvariant /\ [Next]_vars => StorageInvariant'
  <2> SUFFICES ASSUME StorageInvariant, [Next]_vars PROVE StorageInvariant'
    OBVIOUS
  <2>1. CASE UNCHANGED storageVars
    BY <2>1, StorageFrame, Zenon
  <2>2. CASE ConnectionStep
    BY <2>2, ConnectionPreserves, Zenon DEF ConnectionStep
  <2>3. CASE OthersStep
    <3>1. PICK n \in AllocSizes : OtherCommits(n) \/ OtherRollsBack(n)
      BY <2>3, Zenon DEF OthersStep, OthersNext
    <3>2. n \in Nat
      BY Sizes
    <3> QED BY <3>1, <3>2, OtherCommitsStep, OtherRollsBackStep, Zenon
  <2> QED BY <2>1, <2>2, <2>3, Zenon DEF Next, CreateStep, vars
<1> QED BY <1>1, <1>2, PTL DEF Spec

(* For every layout of regions: a block that a client asks for consists of *)
(* just the bytes of the file at its addresses, in order.                  *)
THEOREM AccessIsExact == Spec => []AccessExact
<1>1. StorageInvariant => AccessExact
  <2> SUFFICES ASSUME MapInvariant, NEW a \in 0..logical,
                      NEW n \in 0..(logical - a), n > 0
               PROVE  Accessed(a, n) = {<<a + i, i>> : i \in Bytes(0, n)}
    BY Zenon DEF AccessExact, StorageInvariant
  <2>1. MappedEnd(regions) \in Nat /\ logical \in Nat /\ logical <= MappedEnd(regions)
    BY MappedWithin DEF MapInvariant
  <2>2. a \in Nat /\ n \in Nat /\ a + n <= MappedEnd(regions)
    BY <2>1
  <2>3. Accessed(a, n) = Exact(a, 0, n)
    BY <2>2, AccessedExact DEF MapInvariant
  <2>4. Bytes(0, n) = 0..(n - 1)
    BY <2>2 DEF Bytes
  <2> QED BY <2>3, <2>4, Zenon DEF Exact
<1> QED BY <1>1, StorageInvariantHolds, PTL

(* Whenever a process is killed, all below the end of the head revision    *)
(* has been stored.                                                        *)
THEOREM CommittedIsStored == Spec => []CommittedStored
<1>1. StorageInvariant => CommittedStored
  BY Zenon DEF StorageInvariant, WriteInvariant
<1> QED BY <1>1, StorageInvariantHolds, PTL

----------------------------------------------------------------------------
(* Pages.                                                                  *)

(* The first address of a page.                                            *)
PageAt(a) == a \in Nat /\ a % PageSize = 0

(* Where pages begin, next to an address n.                                *)
LEMMA PageFacts ==
  ASSUME NEW n \in Nat, NEW a, PageAt(a)
  PROVE  /\ round_down(n, PageSize) \in Nat /\ round_up(n, PageSize) \in Nat
         /\ a < round_down(n, PageSize) => a + PageSize <= n
         /\ a + PageSize <= n => a < round_down(n, PageSize)
         /\ n < a + PageSize => round_down(n, PageSize) <= a
         /\ n <= a <=> round_up(n, PageSize) <= a
<1> DEFINE P == PageSize
           q == n \div P
           r == n % P
           k == a \div P
           u == Pieces(n, P)
<1>1. P \in Nat /\ P > 0 /\ a \in Nat
  BY StorageAssumption DEF PageAt
<1>2. q \in Int /\ r \in 0..(P - 1) /\ n = q * P + r /\ 0 <= q
  BY <1>1, DivMod
<1>3. k \in Int /\ 0 <= k /\ a = k * P
  <2>1. k \in Int /\ 0 <= k /\ a = k * P + (a % P) /\ a % P = 0
    BY <1>1, DivMod DEF PageAt
  <2> DEFINE z == k * P
             m == a % P
  <2>2. z \in Int /\ a = z + m /\ m = 0
    BY <1>1, <2>1
  <2> HIDE DEF z, m
  <2>3. a = z
    BY <2>2
  <2> QED BY <2>1, <2>3 DEF z
<1>4. /\ u \in Nat /\ n <= u * P /\ \A j \in Nat : n <= j * P => u <= j
  BY <1>1, PiecesFacts
<1>5. round_down(n, P) = n - r /\ round_up(n, P) = u * P
  BY Zenon DEF round_down, round_up
<1> HIDE DEF P, q, r, k, u
<1>6. q * P \in Int /\ k * P \in Int /\ u * P \in Int
  BY <1>1, <1>2, <1>3, <1>4, SMTT(20)
<1>7. round_down(n, P) = q * P /\ 0 <= q * P /\ 0 <= u * P
  BY <1>1, <1>2, <1>4, <1>5, <1>6, Multiples, SMTT(20)
<1>8. /\ k < q => k * P + P <= q * P
      /\ k * P < q * P => k < q
      /\ q < k => q * P + P <= k * P
      /\ q <= k => q * P <= k * P
      /\ u <= k => u * P <= k * P
  BY <1>1, <1>2, <1>3, <1>4, Multiples, SMTT(20)
<1>9. round_down(n, P) \in Nat /\ round_up(n, P) \in Nat
  BY <1>5, <1>6, <1>7, SMTT(20)
<1>10. a < q * P => a + P <= n
  BY <1>1, <1>2, <1>3, <1>6, <1>8, SMTT(20)
<1>11. a + P <= n => a < q * P
  BY <1>1, <1>2, <1>3, <1>6, <1>8, SMTT(20)
<1>12. n < a + P => q * P <= a
  BY <1>1, <1>2, <1>3, <1>6, <1>8, SMTT(20)
<1>13. n <= a <=> u * P <= a
  BY <1>1, <1>3, <1>4, <1>6, <1>8, SMTT(20)
<1> QED BY <1>5, <1>7, <1>9, <1>10, <1>11, <1>12, <1>13, Zenon DEF P

(* The table leads from an address in a region to that region.             *)
LEMMA InRegion ==
  ASSUME NEW rs, NEW table, RegionsOK(rs), TableOK(rs, table), NEW i \in DOMAIN rs,
         NEW x \in Nat, rs[i].offset <= x, x < RegionEnd(rs[i])
  PROVE  /\ table[Seg(x)].region = rs[i]
         /\ address_to_pointer(x, table).region = rs[i]
<1>1. /\ Len(rs) \in Nat /\ DOMAIN rs = 1..Len(rs)
      /\ \A k \in 1..Len(rs) : rs[k].offset \in Nat /\ RegionEnd(rs[k]) \in Nat
  BY RegionFacts, Zenon
<1>2. MappedEnd(rs) \in Nat /\ RegionEnd(rs[i]) <= MappedEnd(rs)
  BY MappedFacts, AlignedFacts, Zenon
<1>3. x < MappedEnd(rs)
  BY <1>1, <1>2
<1>4. PICK j \in DOMAIN rs :
        /\ rs[j].offset <= x /\ x < RegionEnd(rs[j])
        /\ table[Seg(x)].region = rs[j]
        /\ address_to_pointer(x, table) =
             [region |-> rs[j], at |-> x - rs[j].offset]
  BY <1>3, TableReads, Zenon
<1>5. ~(i < j)
  <2>1. i < j => RegionEnd(rs[i]) <= rs[j].offset
    BY RegionsOrdered, Zenon
  <2>2. /\ x \in Nat /\ rs[j].offset \in Nat /\ RegionEnd(rs[i]) \in Nat
        /\ rs[j].offset <= x /\ x < RegionEnd(rs[i])
    BY <1>1, <1>4, Zenon
  <2> QED BY ONLY <2>1, <2>2, SMTT(20)
<1>6. ~(j < i)
  <2>1. j < i => RegionEnd(rs[j]) <= rs[i].offset
    BY RegionsOrdered, Zenon
  <2>2. /\ x \in Nat /\ rs[i].offset \in Nat /\ RegionEnd(rs[j]) \in Nat
        /\ rs[i].offset <= x /\ x < RegionEnd(rs[j])
    BY <1>1, <1>4, Zenon
  <2> QED BY ONLY <2>1, <2>2, SMTT(20)
<1>7. i = j
  BY <1>1, <1>5, <1>6
<1> QED BY <1>4, <1>7

(* What has been mapped stays where it is as long as it is mapped.         *)
LEMMA MapKeeps ==
  ASSUME RegionsOK(regions), TableOK(regions, sat), NEW n \in Nat,
         n <= MaxSize, map_bytes(n), NEW x \in Nat, x < MappedEnd(regions)
  PROVE  sat'[Seg(x)].region = sat[Seg(x)].region
<1>1. /\ RegionsOK(regions') /\ TableOK(regions', sat')
      /\ \/ sat' = sat
         \/ \A i \in DOMAIN regions :
              i \in DOMAIN regions' /\ regions'[i] = regions[i]
  BY MapBytes, Zenon
<1>2. PICK j \in DOMAIN regions :
        /\ regions[j].offset <= x /\ x < RegionEnd(regions[j])
        /\ sat[Seg(x)].region = regions[j]
        /\ address_to_pointer(x, sat) =
             [region |-> regions[j], at |-> x - regions[j].offset]
  BY TableReads, Zenon
<1>3. CASE sat' = sat
  BY <1>3
<1>4. CASE \A i \in DOMAIN regions : i \in DOMAIN regions' /\ regions'[i] = regions[i]
  <2>1. /\ j \in DOMAIN regions' /\ regions'[j] = regions[j]
        /\ regions'[j].offset <= x /\ x < RegionEnd(regions'[j])
    BY <1>2, <1>4, ZenonT(30)
  <2>2. sat'[Seg(x)].region = regions'[j]
    <3> DEFINE rs == regions'
               table == sat'
    <3>1. /\ RegionsOK(rs) /\ TableOK(rs, table) /\ j \in DOMAIN rs
          /\ rs[j].offset <= x /\ x < RegionEnd(rs[j])
      BY <1>1, <2>1, Zenon
    <3> HIDE DEF rs, table
    <3>2. table[Seg(x)].region = rs[j]
      BY <3>1, InRegion, Zenon
    <3> QED BY <3>2, Zenon DEF rs, table
  <2> QED BY <1>2, <2>1, <2>2, Zenon
<1> QED BY <1>1, <1>3, <1>4, Zenon

(* storage::protect makes whole pages read-only, none of which holds a     *)
(* part of the leader or lies beyond the end of the interval; and all of   *)
(* these from the page on in which the interval begins.                    *)
LEMMA ProtectFacts ==
  ASSUME NEW rs, NEW table, RegionsOK(rs), TableOK(rs, table), NEW first \in Nat,
         NEW last \in Nat, last <= MappedEnd(rs), NEW ro
  PROVE  /\ ro \subseteq protect(ro, rs, table, first, last)
         /\ \A p \in protect(ro, rs, table, first, last) :
              \/ p \in ro
              \/ p[2] \in Nat /\ LeaderSize <= p[2] /\ p[2] + PageSize <= last
         /\ \A a : /\ PageAt(a) /\ LeaderSize <= a
                   /\ first < a + PageSize /\ a + PageSize <= last
                   => <<address_to_pointer(a, table).region.id, a>>
                        \in protect(ro, rs, table, first, last)
<1> DEFINE all == protect(ro, rs, table, first, last)
           P == PageSize
           F(r) == {r.offset, round_down(first, P), round_up(LeaderSize, P)}
           from(r) == Max(F(r))
           to(r) == Minimum(RegionEnd(r), round_down(last, P))
           pages(r) == {<<address_to_pointer(from(r), table).region.id, a>> :
                          a \in {a \in from(r) .. to(r) - 1 : a % P = 0}}
<1>1. all = ro \cup UNION {pages(rs[i]) : i \in DOMAIN rs}
  BY Zenon DEF protect, last_page
<1> HIDE DEF all
<1>2. P \in Nat /\ P > 0 /\ LeaderSize \in Nat
  BY StorageAssumption
<1>3. /\ round_down(first, P) \in Nat /\ round_down(last, P) \in Nat
      /\ round_up(LeaderSize, P) \in Nat
  <2>1. PageAt(0)
    <3>1. 0 = 0 * P + 0 /\ 0 \in 0..(P - 1) /\ 0 \in Int
      BY <1>2
    <3> QED BY <1>2, <3>1, DivUnique DEF PageAt
  <2> QED BY <1>2, <2>1, PageFacts, Zenon
<1>4. ASSUME NEW i \in DOMAIN rs
      PROVE  /\ from(rs[i]) \in Nat /\ rs[i].offset <= from(rs[i])
             /\ round_up(LeaderSize, P) <= from(rs[i])
             /\ RegionEnd(rs[i]) \in Nat /\ rs[i].offset \in Nat
             /\ \A y \in Int : /\ rs[i].offset <= y /\ round_down(first, P) <= y
                               /\ round_up(LeaderSize, P) <= y
                               => from(rs[i]) <= y
  <2>1. rs[i].offset \in Nat /\ RegionEnd(rs[i]) \in Nat
    BY RegionFacts, Zenon
  <2> DEFINE A == rs[i].offset
             B == round_down(first, P)
             C == round_up(LeaderSize, P)
  <2>2. A \in Nat /\ B \in Nat /\ C \in Nat
    BY <1>3, <2>1, Zenon
  <2>3. from(rs[i]) = CHOOSE x \in {A, B, C} : \A y \in {A, B, C} : x >= y
    BY Zenon DEF Max
  <2> HIDE DEF A, B, C
  <2>4. \E x \in {A, B, C} : \A y \in {A, B, C} : x >= y
    BY <2>2
  <2>5. /\ from(rs[i]) \in {A, B, C}
        /\ \A y \in {A, B, C} : from(rs[i]) >= y
    BY <2>3, <2>4, Zenon
  <2> HIDE DEF from
  <2>6. from(rs[i]) \in Nat /\ A <= from(rs[i]) /\ C <= from(rs[i])
    BY <2>2, <2>5, Zenon
  <2>7. \A y \in Int : A <= y /\ B <= y /\ C <= y => from(rs[i]) <= y
    BY <2>5, Zenon
  <2> QED BY <2>1, <2>6, <2>7, Zenon DEF A, B, C
<1>5. ASSUME NEW i \in DOMAIN rs
      PROVE  /\ to(rs[i]) \in Int /\ to(rs[i]) <= round_down(last, P)
             /\ \A a \in Nat : a < RegionEnd(rs[i]) /\ a < round_down(last, P)
                              => a < to(rs[i])
  <2>1. \A x, y \in Nat : /\ Minimum(x, y) \in Int /\ Minimum(x, y) <= y
                          /\ \A a \in Nat : a < x /\ a < y => a < Minimum(x, y)
    BY DEF Minimum
  <2>2. RegionEnd(rs[i]) \in Nat /\ round_down(last, P) \in Nat
    BY <1>3, <1>4, Zenon
  <2> QED BY <2>1, <2>2, Zenon
<1> DEFINE page(r, a) == <<address_to_pointer(from(r), table).region.id, a>>
<1>6. \A i \in DOMAIN rs : \A p \in pages(rs[i]) :
        \E a \in from(rs[i]) .. to(rs[i]) - 1 : a % P = 0 /\ p = page(rs[i], a)
  BY Zenon
<1>7. \A i \in DOMAIN rs : \A a \in from(rs[i]) .. to(rs[i]) - 1 :
        a % P = 0 => page(rs[i], a) \in pages(rs[i])
  BY Zenon
<1> HIDE DEF F, from, to, pages
<1>8. /\ ro \subseteq all
      /\ \A i \in DOMAIN rs : pages(rs[i]) \subseteq all
      /\ \A p \in all : p \in ro \/ \E i \in DOMAIN rs : p \in pages(rs[i])
  BY <1>1, ZenonT(30)
<1>9. ASSUME NEW i \in DOMAIN rs, NEW p \in pages(rs[i])
      PROVE  p[2] \in Nat /\ LeaderSize <= p[2] /\ p[2] + P <= last
  <2>1. PICK a \in from(rs[i]) .. to(rs[i]) - 1 : a % P = 0 /\ p = page(rs[i], a)
    BY <1>6, <1>9, Zenon
  <2>2. p[2] = a
    BY <2>1, Zenon
  <2>3. a \in Nat /\ a < round_down(last, P) /\ round_up(LeaderSize, P) <= a
    <3> DEFINE x == from(rs[i])
               y == to(rs[i])
               u == round_up(LeaderSize, P)
               v == round_down(last, P)
    <3>1. /\ x \in Nat /\ u \in Nat /\ u <= x /\ y \in Int /\ v \in Nat
          /\ y <= v /\ a \in x .. y - 1
      BY <1>3, <1>4, <1>5, Zenon
    <3> HIDE DEF x, y, u, v
    <3>2. a \in Nat /\ a < v /\ u <= a
      BY ONLY <3>1, SMTT(20)
    <3> QED BY <3>2, Zenon DEF u, v
  <2>4. PageAt(a)
    BY <2>1, <2>3, Zenon DEF PageAt
  <2>5. a + P <= last /\ LeaderSize <= a
    BY <1>2, <2>3, <2>4, PageFacts, Zenon
  <2> QED BY <2>2, <2>3, <2>5, Zenon
<1>10. ASSUME NEW a, PageAt(a), LeaderSize <= a, first < a + P, a + P <= last
       PROVE  <<address_to_pointer(a, table).region.id, a>> \in all
  <2>1. a \in Nat /\ a % P = 0
    BY <1>10, Zenon DEF PageAt
  <2>2. /\ round_down(first, P) <= a /\ a < round_down(last, P)
        /\ round_up(LeaderSize, P) <= a
    BY <1>2, <1>10, PageFacts, Zenon
  <2>3. MappedEnd(rs) \in Nat
    BY MappedFacts, AlignedFacts
  <2>4. a < MappedEnd(rs)
    BY <1>2, <1>10, <2>1, <2>3
  <2>5. PICK i \in DOMAIN rs : rs[i].offset <= a /\ a < RegionEnd(rs[i])
    BY <2>1, <2>4, RegionOf, ZenonT(30)
  <2>6. /\ from(rs[i]) \in Nat /\ rs[i].offset <= from(rs[i])
        /\ from(rs[i]) <= a /\ RegionEnd(rs[i]) \in Nat /\ rs[i].offset \in Nat
    <3>1. a \in Int
      BY <2>1
    <3> QED BY <1>4, <2>2, <2>5, <3>1, ZenonT(30)
  <2>7. from(rs[i]) < RegionEnd(rs[i])
    <3> DEFINE x == from(rs[i])
               y == RegionEnd(rs[i])
    <3>1. x \in Nat /\ y \in Nat /\ a \in Nat /\ x <= a /\ a < y
      BY <2>1, <2>5, <2>6, Zenon
    <3> HIDE DEF x, y, from
    <3>2. x < y
      BY <3>1
    <3> QED BY <3>2, Zenon DEF x, y
  <2>8. /\ address_to_pointer(a, table).region = rs[i]
        /\ address_to_pointer(from(rs[i]), table).region = rs[i]
    <3>1. address_to_pointer(a, table).region = rs[i]
      BY <2>1, <2>5, InRegion, Zenon
    <3>2. address_to_pointer(from(rs[i]), table).region = rs[i]
      BY <2>6, <2>7, InRegion, ZenonT(30)
    <3> QED BY <3>1, <3>2, Zenon
  <2>9. a \in from(rs[i]) .. to(rs[i]) - 1
    <3> DEFINE x == from(rs[i])
               y == to(rs[i])
    <3>1. x \in Nat /\ x <= a /\ a \in Nat /\ y \in Int /\ a < y
      BY <1>5, <2>1, <2>2, <2>5, <2>6, Zenon
    <3> HIDE DEF x, y
    <3>2. a \in x .. y - 1
      BY ONLY <3>1, SMTT(20)
    <3> QED BY <3>2, Zenon DEF x, y
  <2>10. page(rs[i], a) \in all
    BY <1>7, <1>8, <2>1, <2>9, Zenon
  <2> QED BY <2>8, <2>10, Zenon
<1>11. ASSUME NEW p \in all, p \notin ro
       PROVE  p[2] \in Nat /\ LeaderSize <= p[2] /\ p[2] + P <= last
  BY <1>8, <1>9, <1>11, Zenon
<1> QED BY <1>8, <1>10, <1>11, Zenon DEF all

(* An address that is mapped has an entry in the table.                    *)
LEMMA SegMapped ==
  ASSUME NEW rs, RegionsOK(rs), NEW a \in Nat, a < MappedEnd(rs)
  PROVE  Seg(a) \in Segments
<1>1. MappedEnd(rs) \in Nat /\ MappedEnd(rs) <= MaxSize
  BY MappedFacts, AlignedFacts
<1>2. ~(MaxSize <= a) /\ Aligned(MaxSize)
  BY <1>1, Sizes
<1>3. Seg(a) \in Nat /\ ~(Seg(MaxSize) <= Seg(a)) /\ Seg(MaxSize) \in Nat
  BY <1>2, AlignedOrder, AlignedFacts
<1> QED BY <1>3 DEF Segments, Seg

(* What has been passed to protect is mapped, and of it the whole pages    *)
(* are read-only; no others are.                                           *)
SealInvariant ==
  /\ \A x \in sealed : x \in Nat /\ x < logical /\ x < head + TrailerSize
  /\ \A p \in readonly : /\ p[2] \in Nat /\ LeaderSize <= p[2]
                         /\ p[2] + PageSize <= head + TrailerSize
  /\ \A a : PageAt(a) /\ LeaderSize <= a /\ Bytes(a, PageSize) \subseteq sealed
              => ReadOnlyPage(a)

(* A page has a first byte.                                                *)
LEMMA PageBegins ==
  ASSUME NEW a, PageAt(a) PROVE a \in Nat /\ a \in Bytes(a, PageSize)
<1>1. a \in Nat /\ PageSize \in Nat /\ PageSize > 0
  BY StorageAssumption DEF PageAt
<1> QED BY <1>1 DEF Bytes

(* A step that keeps what has been sealed mapped where it is keeps it      *)
(* read-only, though it drops the pages of mappings that have gone.        *)
LEMMA SealKept ==
  ASSUME StorageInvariant, SealInvariant, sealed' = sealed,
         readonly' = readonly \/ readonly' = KeepPages(readonly),
         head' \in Nat, head <= head', logical' \in Nat,
         logical <= logical' \/ head + TrailerSize <= logical',
         \A x \in Nat : x < MappedEnd(regions) =>
                          sat'[Seg(x)].region = sat[Seg(x)].region
  PROVE  SealInvariant'
<1>1. /\ RegionsOK(regions) /\ TableOK(regions, sat) /\ logical \in Nat
      /\ logical <= MappedEnd(regions) /\ MappedEnd(regions) \in Nat /\ head \in Nat
  BY MappedWithin, Zenon DEF StorageInvariant, MapInvariant, HeadInvariant
<1>2. /\ head + TrailerSize \in Nat /\ head' + TrailerSize \in Nat
      /\ head + TrailerSize <= head' + TrailerSize
  <2>1. \A h, g, t \in Nat : h <= g => h + t \in Nat /\ g + t \in Nat /\ h + t <= g + t
    OBVIOUS
  <2> QED BY <1>1, <2>1, Sizes, Zenon
<1> DEFINE end == head + TrailerSize
           more == head' + TrailerSize
<1>3. end \in Nat /\ more \in Nat /\ end <= more
  BY <1>2, Zenon
<1>4. /\ \A x \in sealed : x \in Nat /\ x < logical /\ x < end
      /\ \A p \in readonly : /\ p[2] \in Nat /\ LeaderSize <= p[2]
                             /\ p[2] + PageSize <= end
      /\ \A a : PageAt(a) /\ LeaderSize <= a /\ Bytes(a, PageSize) \subseteq sealed
                  => ReadOnlyPage(a)
  BY Zenon DEF SealInvariant
<1>5. logical <= logical' \/ end <= logical'
  BY Zenon
<1> HIDE DEF end, more
<1>6. ASSUME NEW x \in sealed' PROVE x \in Nat /\ x < logical' /\ x < more
  <2>1. \A l \in Nat : logical <= l \/ end <= l => x < l
    BY <1>1, <1>3, <1>4, <1>6, SMTT(20)
  <2>2. x \in Nat /\ x < more
    BY <1>3, <1>4, <1>6
  <2> QED BY <1>5, <2>1, <2>2, ZenonT(30)
<1>7. ASSUME NEW p \in readonly'
      PROVE  p[2] \in Nat /\ LeaderSize <= p[2] /\ p[2] + PageSize <= more
  <2>1. p \in readonly
    BY <1>7, Zenon DEF KeepPages
  <2>2. p[2] \in Nat /\ LeaderSize <= p[2] /\ p[2] + PageSize <= end /\ PageSize \in Nat
    BY <1>4, <2>1, StorageAssumption, ZenonT(30)
  <2>3. p[2] + PageSize <= more
    BY <1>3, <2>2
  <2> QED BY <2>2, <2>3, Zenon
<1>8. ASSUME NEW a, PageAt(a), LeaderSize <= a, Bytes(a, PageSize) \subseteq sealed'
      PROVE  ReadOnlyPage(a)'
  <2>1. ReadOnlyPage(a)
    BY <1>4, <1>8, Zenon
  <2>2. a \in Nat /\ a \in sealed
    BY <1>8, PageBegins, ZenonT(30)
  <2>3. a < MappedEnd(regions)
    BY <1>1, <1>4, <2>2, SMTT(20)
  <2>4. sat'[Seg(a)].region = sat[Seg(a)].region
    BY <2>2, <2>3, Zenon
  <2>5. /\ address_to_pointer(a, sat).region = sat[Seg(a)].region
        /\ address_to_pointer(a, sat').region = sat'[Seg(a)].region
    BY Zenon DEF address_to_pointer, Seg
  <2> DEFINE q == <<sat[Seg(a)].region.id, a>>
  <2>6. q \in readonly
    BY <2>1, <2>5, Zenon DEF ReadOnlyPage
  <2>7. q \in readonly'
    <3>1. Seg(a) \in Segments
      BY <1>1, <2>2, <2>3, SegMapped, Zenon
    <3>2. q[1] = sat'[Seg(a)].region.id
      BY <2>4, Zenon
    <3>3. q[1] \in Alive(regions', sat', pointers')
      BY <3>1, <3>2, Zenon DEF Alive
    <3> QED BY <2>6, <3>3, Zenon DEF KeepPages
  <2> QED BY <2>4, <2>5, <2>7, Zenon DEF ReadOnlyPage
<1> QED BY <1>6, <1>7, <1>8, Zenon DEF SealInvariant, more

(* Protecting the store from first to its end makes read-only what is      *)
(* sealed with that, when what had been sealed was read-only before.       *)
LEMMA SealMore ==
  ASSUME StorageInvariant', head' = head, logical' = head + TrailerSize,
         NEW ro, NEW first \in Nat, NEW before, NEW end \in Nat,
         end = head + TrailerSize,
         readonly' = protect(ro, regions', sat', first, end),
         sealed' = before \cup (first .. end - 1),
         \A x \in before : x \in Nat /\ x < end,
         \A p \in ro : /\ p[2] \in Nat /\ LeaderSize <= p[2]
                       /\ p[2] + PageSize <= end,
         \A a : PageAt(a) /\ LeaderSize <= a /\ Bytes(a, PageSize) \subseteq before
                  => <<address_to_pointer(a, sat').region.id, a>> \in ro
  PROVE  SealInvariant'
<1>1. /\ RegionsOK(regions') /\ TableOK(regions', sat') /\ end <= MappedEnd(regions')
  BY ZenonT(30) DEF StorageInvariant, MapInvariant
<1> DEFINE all == readonly'
<1>2. /\ ro \subseteq all
      /\ \A p \in all : \/ p \in ro
                        \/ /\ p[2] \in Nat /\ LeaderSize <= p[2]
                           /\ p[2] + PageSize <= end
      /\ \A a : /\ PageAt(a) /\ LeaderSize <= a
                /\ first < a + PageSize /\ a + PageSize <= end
                => <<address_to_pointer(a, sat').region.id, a>> \in all
  <2>1. all = protect(ro, regions', sat', first, end)
    BY ZenonT(30)
  <2> DEFINE rs == regions'
             table == sat'
  <2>2. /\ RegionsOK(rs) /\ TableOK(rs, table) /\ end <= MappedEnd(rs)
        /\ first \in Nat /\ end \in Nat
    BY <1>1, Zenon
  <2> HIDE DEF rs, table
  <2> DEFINE A == protect(ro, rs, table, first, end)
  <2>3. /\ ro \subseteq A
        /\ \A p \in A : \/ p \in ro
                        \/ /\ p[2] \in Nat /\ LeaderSize <= p[2]
                           /\ p[2] + PageSize <= end
        /\ \A a : /\ PageAt(a) /\ LeaderSize <= a
                  /\ first < a + PageSize /\ a + PageSize <= end
                  => <<address_to_pointer(a, table).region.id, a>> \in A
    BY ONLY <2>2, ProtectFacts, ZenonT(30)
  <2>4. all = A
    BY <2>1, Zenon DEF rs, table
  <2> HIDE DEF all, A
  <2> QED BY <2>3, <2>4, Zenon DEF table
<1>3. ASSUME NEW x \in sealed' PROVE x \in Nat /\ x < end
  <2>1. x \in before \/ x \in first .. end - 1
    BY <1>3, Zenon
  <2>2. ASSUME x \in first .. end - 1 PROVE x \in Nat /\ x < end
    <3>1. x \in first .. end - 1 /\ first \in Nat /\ end \in Nat
      BY <2>2, Zenon
    <3> QED BY ONLY <3>1, SMTT(20)
  <2> QED BY <2>1, <2>2, Zenon
<1>4. ASSUME NEW p \in readonly'
      PROVE  p[2] \in Nat /\ LeaderSize <= p[2] /\ p[2] + PageSize <= end
  BY <1>2, <1>4, Zenon
<1>5. ASSUME NEW a, PageAt(a), LeaderSize <= a, Bytes(a, PageSize) \subseteq sealed'
      PROVE  <<address_to_pointer(a, sat').region.id, a>> \in readonly'
  <2>1. a \in Nat /\ PageSize \in Nat /\ PageSize > 0
    <3>1. a \in Nat
      BY <1>5, Zenon DEF PageAt
    <3>2. PageSize \in Nat /\ PageSize > 0
      BY ONLY StorageAssumption, SMTT(20)
    <3> QED BY <3>1, <3>2, Zenon
  <2>2. CASE Bytes(a, PageSize) \subseteq before
    BY <1>2, <1>5, <2>2, Zenon
  <2>3. CASE ~(Bytes(a, PageSize) \subseteq before)
    <3>1. PICK y \in Bytes(a, PageSize) : y \notin before
      BY <2>3, Zenon
    <3>2. y \in first .. end - 1
      BY <1>5, <3>1, Zenon
    <3>3. first < a + PageSize
      <4>1. /\ y \in first .. end - 1 /\ y \in Bytes(a, PageSize)
            /\ a \in Nat /\ PageSize \in Nat /\ first \in Nat /\ end \in Nat
        BY <2>1, <3>2, Zenon
      <4> QED BY ONLY <4>1, SMTT(20) DEF Bytes
    <3>4. a + PageSize - 1 \in Bytes(a, PageSize)
      BY ONLY <2>1, SMTT(20) DEF Bytes
    <3>5. a + PageSize - 1 < end
      BY <1>3, <1>5, <3>4, ZenonT(30)
    <3>6. a + PageSize <= end
      <4>1. a \in Nat /\ PageSize \in Nat /\ end \in Nat /\ a + PageSize - 1 < end
        BY <2>1, <3>5, Zenon
      <4> QED BY ONLY <4>1, SMTT(20)
    <3> QED BY <1>2, <1>5, <3>3, <3>6, Zenon
  <2> QED BY <2>2, <2>3, ZenonT(30)
<1>6. end = head' + TrailerSize /\ end = logical'
  BY Zenon
<1> QED BY <1>3, <1>4, <1>5, <1>6, Zenon DEF SealInvariant, ReadOnlyPage

(* Opening the store protects it from its header on.                       *)
LEMMA OpenSeals ==
  ASSUME StorageInvariant, Open PROVE SealInvariant'
<1>1. StorageInvariant'
  BY OpenStep, Zenon
<1> DEFINE end == head + TrailerSize
<1>2. /\ readonly' = protect({}, regions', sat', HeaderSize, end)
      /\ sealed' = {} \cup (HeaderSize .. end - 1)
      /\ head' = head /\ logical' = head + TrailerSize
  <2> DEFINE rs == append(<<>>, 0, file, {})
             table == update_master_pointers(rs, 0, sat)
  <2>1. /\ readonly' = protect({}, rs, table, HeaderSize, end)
        /\ sealed' = HeaderSize .. (head + (TrailerSize - 1)) /\ regions' = rs /\ sat' = table
        /\ head' = head /\ logical' = head + TrailerSize
    BY Zenon DEF Open
  <2>2. head + (TrailerSize - 1) = end - 1
    BY Sizes DEF StorageInvariant, HeadInvariant
  <2> HIDE DEF rs, table
  <2> QED BY <2>1, <2>2, Zenon
<1>3. end \in Nat /\ HeaderSize \in Nat
  BY Sizes, StorageAssumption DEF StorageInvariant, HeadInvariant
<1>4. end = head + TrailerSize
  OBVIOUS
<1> HIDE DEF end
<1> DEFINE none == {}
<1>5. /\ \A x \in none : x \in Nat /\ x < end
      /\ \A p \in none : /\ p[2] \in Nat /\ LeaderSize <= p[2]
                         /\ p[2] + PageSize <= end
  OBVIOUS
<1>6. \A a : PageAt(a) /\ LeaderSize <= a /\ Bytes(a, PageSize) \subseteq none
              => <<address_to_pointer(a, sat').region.id, a>> \in none
  BY PageBegins, Zenon
<1>7. /\ readonly' = protect(none, regions', sat', HeaderSize, end)
      /\ sealed' = none \cup (HeaderSize .. end - 1)
  BY <1>2
<1> HIDE DEF none
<1> QED BY <1>1, <1>2, <1>3, <1>4, <1>5, <1>6, <1>7, SealMore, Zenon

(* A commit protects what it has added; the page where the head revision   *)
(* ended before becomes read-only with it.                                 *)
LEMMA ProtectSeals ==
  ASSUME StorageInvariant, SealInvariant, ProtectCommitted PROVE SealInvariant'
<1>1. StorageInvariant'
  BY ProtectCommittedStep, Zenon
<1> DEFINE end == head + TrailerSize
           first == txn.first
<1>2. /\ readonly' = protect(readonly, regions', sat', first, end)
      /\ sealed' = sealed \cup (first .. end - 1)
      /\ head' = head /\ logical' = logical /\ sat' = sat /\ txn.phase = "footer"
  <2>1. /\ readonly' = protect(readonly, regions, sat, first, end)
        /\ sealed' = sealed \cup (first .. (head + (TrailerSize - 1)))
        /\ regions' = regions
        /\ head' = head /\ logical' = logical /\ sat' = sat /\ txn.phase = "footer"
    BY Zenon DEF ProtectCommitted
  <2>2. head + (TrailerSize - 1) = end - 1
    BY Sizes DEF StorageInvariant, HeadInvariant
  <2> QED BY <2>1, <2>2
<1>3. end \in Nat
  BY Sizes DEF StorageInvariant, HeadInvariant
<1>4. logical = head + TrailerSize /\ txn \in Txns
  BY <1>2, Zenon DEF StorageInvariant, TxnInvariant
<1>5. first \in Nat
  BY <1>4 DEF Txns
<1>6. end = head + TrailerSize /\ logical' = head + TrailerSize
  BY <1>2, <1>4, Zenon
<1>7. /\ \A x \in sealed : x \in Nat /\ x < end
      /\ \A p \in readonly : /\ p[2] \in Nat /\ LeaderSize <= p[2]
                             /\ p[2] + PageSize <= end
  BY Zenon DEF SealInvariant
<1> HIDE DEF end, first
<1>8. ASSUME NEW a, PageAt(a), LeaderSize <= a, Bytes(a, PageSize) \subseteq sealed
      PROVE  <<address_to_pointer(a, sat').region.id, a>> \in readonly
  BY <1>2, <1>8, Zenon DEF SealInvariant, ReadOnlyPage
<1> QED BY <1>1, <1>2, <1>3, <1>5, <1>6, <1>7, <1>8, SealMore, ZenonT(30)

(* So it is when the mapping grows or shrinks.                             *)
LEMMA MapSeals ==
  ASSUME StorageInvariant, SealInvariant, NEW n \in Nat, n <= MaxSize, map_bytes(n),
         sealed' = sealed, readonly' = KeepPages(readonly), head' = head,
         logical' \in Nat, logical <= logical' \/ head + TrailerSize <= logical'
  PROVE  SealInvariant'
<1>1. /\ RegionsOK(regions) /\ TableOK(regions, sat) /\ head \in Nat
  BY Zenon DEF StorageInvariant, MapInvariant, HeadInvariant
<1>2. \A x \in Nat : x < MappedEnd(regions) =>
                       sat'[Seg(x)].region = sat[Seg(x)].region
  BY <1>1, MapKeeps, Zenon
<1>3. head' \in Nat /\ head <= head'
  <2>1. head <= head
    BY <1>1
  <2> QED BY <1>1, <2>1, Zenon
<1> QED BY <1>2, <1>3, SealKept, Zenon

(* So it is when the mapping stays.                                        *)
LEMMA StaySeals ==
  ASSUME StorageInvariant, SealInvariant, sat' = sat, sealed' = sealed,
         readonly' = readonly \/ readonly' = KeepPages(readonly),
         head' \in Nat, head <= head', logical' = logical
  PROVE  SealInvariant'
<1>1. logical \in Nat /\ logical <= logical
  BY DEF StorageInvariant, MapInvariant
<1>2. logical' \in Nat /\ logical <= logical'
  BY <1>1, Zenon
<1>3. \A x \in Nat : x < MappedEnd(regions) =>
                       sat'[Seg(x)].region = sat[Seg(x)].region
  BY Zenon
<1> QED BY <1>2, <1>3, SealKept, Zenon

(* Synchronising and beginning a transaction; allocating; rolling back.    *)
LEMMA SyncSeals ==
  ASSUME StorageInvariant, SealInvariant, Sync \/ Begin PROVE SealInvariant'
<1>1. /\ ~NotOpen /\ txn.phase = "none" /\ SyncToHead
      /\ head' = head /\ sealed' = sealed
  BY Zenon DEF Sync, Begin
<1>2. /\ head \in Nat /\ head <= head /\ head + TrailerSize \in Nat
      /\ head + TrailerSize <= MaxSize /\ head + TrailerSize <= head + TrailerSize
  BY Sizes DEF StorageInvariant, HeadInvariant
<1>3. logical' = head + TrailerSize
  BY <1>1, SyncedToHead, Zenon
<1>4. CASE head = synced
  <2>1. sat' = sat /\ readonly' = readonly /\ logical' = logical
    BY <1>1, <1>4, Zenon DEF SyncToHead
  <2> QED BY <1>1, <1>2, <2>1, StaySeals, Zenon
<1>5. CASE head # synced
  <2>1. map_bytes(head + TrailerSize) /\ readonly' = KeepPages(readonly)
    BY <1>1, <1>5, Zenon DEF SyncToHead
  <2> QED BY <1>1, <1>2, <1>3, <2>1, MapSeals, Zenon
<1> QED BY <1>4, <1>5

(* Allocating maps more, or maps again what a rollback dropped.            *)
LEMMA AllocSeals ==
  ASSUME StorageInvariant, SealInvariant, NEW n \in Nat, NEW phase, alloc_rw(n, phase)
  PROVE  SealInvariant'
<1>1. /\ logical + n <= MaxSize /\ map_bytes(logical + n) /\ logical' = logical + n
      /\ readonly' = KeepPages(readonly) /\ head' = head /\ sealed' = sealed
  BY Zenon DEF alloc_rw
<1>2. logical + n \in Nat /\ logical <= logical + n
  BY DEF StorageInvariant, MapInvariant
<1> QED BY <1>1, <1>2, MapSeals, Zenon

(* Rolling back drops mappings above the head revision only.               *)
LEMMA RollbackSeals ==
  ASSUME StorageInvariant, SealInvariant, Rollback PROVE SealInvariant'
<1>1. /\ txn.phase = "live" /\ head' = head /\ sealed' = sealed
      /\ readonly' = KeepPages(readonly)
  BY Zenon DEF Rollback
<1>2. /\ head \in Nat /\ head <= head /\ head + TrailerSize \in Nat
      /\ head + TrailerSize <= MaxSize /\ head + TrailerSize <= head + TrailerSize
  BY Sizes DEF StorageInvariant, HeadInvariant
<1>3. txn.dbsize = head + TrailerSize
  BY <1>1, Zenon DEF StorageInvariant, TxnInvariant
<1>4. CASE txn.first # 0 /\ logical > txn.dbsize
  <2>1. map_bytes(head + TrailerSize) /\ logical' = head + TrailerSize
    BY <1>3, <1>4, Zenon DEF Rollback
  <2> QED BY <1>1, <1>2, <2>1, MapSeals, Zenon
<1>5. CASE ~(txn.first # 0 /\ logical > txn.dbsize)
  <2>1. sat' = sat /\ logical' = logical
    BY <1>5, Zenon DEF Rollback
  <2> QED BY <1>1, <1>2, <2>1, StaySeals, Zenon
<1> QED BY <1>4, <1>5

(* The steps that leave the mapping alone.                                 *)
LEMMA OthersSeal ==
  ASSUME StorageInvariant, SealInvariant, NEW n \in Nat,
         \/ SetNewFooter \/ OtherCommits(n) \/ OtherRollsBack(n)
         \/ (\E a : GetRw(a, n)) \/ (\E p \in pointers : Release(p))
  PROVE  SealInvariant'
<1>1. head \in Nat /\ head <= head /\ TrailerSize \in Nat /\ logical \in Nat
  BY Sizes DEF StorageInvariant, HeadInvariant, MapInvariant
<1>2. CASE SetNewFooter
  <2> DEFINE h == logical - TrailerSize
  <2>1. /\ txn.phase = "trailer" /\ head' = h /\ sat' = sat /\ sealed' = sealed
        /\ readonly' = readonly /\ logical' = logical
    BY <1>2, Zenon DEF SetNewFooter
  <2>2. head + TrailerSize <= logical
    <3>1. txn.phase # "none"
      BY <2>1
    <3> QED BY <3>1, Zenon DEF StorageInvariant, TxnInvariant
  <2>3. h \in Nat /\ head <= h
    BY <1>1, <2>2
  <2> HIDE DEF h
  <2> QED BY <2>1, <2>3, StaySeals, Zenon
<1>3. CASE OtherCommits(n)
  <2> DEFINE h == (head + 2 * TrailerSize + n) - TrailerSize
  <2>1. /\ head' = h /\ sat' = sat /\ sealed' = sealed
        /\ readonly' = readonly /\ logical' = logical
    BY <1>3, Zenon DEF OtherCommits, connection
  <2>2. h \in Nat /\ head <= h
    BY <1>1
  <2> HIDE DEF h
  <2> QED BY <2>1, <2>2, StaySeals, Zenon
<1>4. CASE OtherRollsBack(n)
  <2>1. /\ head' = head /\ sat' = sat /\ sealed' = sealed
        /\ readonly' = readonly /\ logical' = logical
    BY <1>4, Zenon DEF OtherRollsBack, connection
  <2> QED BY <1>1, <2>1, StaySeals, Zenon
<1>5. CASE \E a : GetRw(a, n)
  <2>1. /\ head' = head /\ sat' = sat /\ sealed' = sealed
        /\ readonly' = readonly /\ logical' = logical
    BY <1>5, Zenon DEF GetRw
  <2> QED BY <1>1, <2>1, StaySeals, Zenon
<1>6. CASE \E p \in pointers : Release(p)
  <2>1. /\ head' = head /\ sat' = sat /\ sealed' = sealed
        /\ readonly' = KeepPages(readonly) /\ logical' = logical
    BY <1>6, Zenon DEF Release
  <2> QED BY <1>1, <2>1, StaySeals, Zenon
<1> QED BY <1>2, <1>3, <1>4, <1>5, <1>6, Zenon

(* Every step keeps what is sealed read-only.                              *)
LEMMA StepSeals ==
  ASSUME StorageInvariant, SealInvariant, [Next]_vars PROVE SealInvariant'
<1>1. CASE UNCHANGED storageVars
  <2>1. /\ head' = head /\ sat' = sat /\ sealed' = sealed
        /\ readonly' = readonly /\ logical' = logical
    BY <1>1, Zenon DEF storageVars
  <2>2. head \in Nat /\ head <= head
    BY DEF StorageInvariant, HeadInvariant
  <2> QED BY <2>1, <2>2, StaySeals, Zenon
<1>2. CASE ConnectionNext
  <2>1. CASE Open
    BY <2>1, OpenSeals, Zenon
  <2>2. CASE Sync \/ Begin
    BY <2>2, SyncSeals, Zenon
  <2>3. CASE CommitTrailer
    BY <2>3, AllocSeals, Sizes, Zenon DEF CommitTrailer
  <2>4. CASE ProtectCommitted
    BY <2>4, ProtectSeals, Zenon
  <2>5. CASE Rollback
    BY <2>5, RollbackSeals, Zenon
  <2>6. CASE SetNewFooter \/ \E p \in pointers : Release(p)
    BY <2>6, OthersSeal, Sizes, Zenon
  <2>7. ASSUME NEW n \in AllocSizes, Alloc(n) \/ \E a : GetRw(a, n) PROVE SealInvariant'
    <3>1. n \in Nat
      BY Sizes
    <3> QED BY <2>7, <3>1, AllocSeals, OthersSeal, Zenon DEF Alloc
  <2> QED BY <1>2, <2>1, <2>2, <2>3, <2>4, <2>5, <2>6, <2>7, Zenon DEF ConnectionNext
<1>3. CASE OthersNext
  <2>1. PICK n \in AllocSizes : OtherCommits(n) \/ OtherRollsBack(n)
    BY <1>3, Zenon DEF OthersNext
  <2>2. n \in Nat
    BY Sizes
  <2> QED BY <2>1, <2>2, OthersSeal, Zenon
<1> QED BY <1>1, <1>2, <1>3, Zenon
        DEF Next, CreateStep, ConnectionStep, OthersStep, vars

(* For every size of pages, segments and regions: of what the connection   *)
(* found or committed every whole page is read-only where it is mapped,    *)
(* and no page of the header or of what is not committed is.               *)
THEOREM ProtectionIsExact == Spec => []ProtectionExact
<1>1. Init => SealInvariant
  <2> SUFFICES ASSUME readonly = {}, sealed = {} PROVE SealInvariant
    BY Zenon DEF Init, StorageInit
  <2> QED BY PageBegins, Zenon DEF SealInvariant
<1>2. StorageInvariant /\ SealInvariant /\ [Next]_vars => SealInvariant'
  BY StepSeals, Zenon
<1>3. StorageInvariant /\ SealInvariant => ProtectionExact
  <2> SUFFICES ASSUME StorageInvariant, SealInvariant, NEW a \in 0 .. MaxSize - 1,
                      a % PageSize = 0
               PROVE  /\ a >= LeaderSize /\ Bytes(a, PageSize) \subseteq sealed
                           => ReadOnlyPage(a)
                      /\ a < LeaderSize \/ a + PageSize > head + TrailerSize
                           => ~ReadOnlyPage(a)
    BY Zenon DEF ProtectionExact
  <2>1. PageAt(a) /\ a \in Nat
    BY Sizes DEF PageAt
  <2>2. a >= LeaderSize <=> LeaderSize <= a
    BY <2>1, Sizes
  <2>3. ReadOnlyPage(a) => LeaderSize <= a /\ a + PageSize <= head + TrailerSize
    <3> DEFINE p == <<address_to_pointer(a, sat).region.id, a>>
    <3>1. p[2] = a
      OBVIOUS
    <3>2. ReadOnlyPage(a) => p \in readonly
      BY Zenon DEF ReadOnlyPage
    <3> HIDE DEF p
    <3> QED BY <3>1, <3>2, Zenon DEF SealInvariant
  <2>4. head + TrailerSize \in Nat /\ PageSize \in Nat
    <3>1. head \in Nat /\ TrailerSize \in Nat /\ PageSize \in Nat
      BY Sizes, StorageAssumption, Zenon DEF StorageInvariant, HeadInvariant
    <3> QED BY ONLY <3>1, SMTT(20)
  <2>5. a < LeaderSize \/ a + PageSize > head + TrailerSize => ~ReadOnlyPage(a)
    BY <2>1, <2>3, <2>4, Sizes
  <2> QED BY <2>1, <2>2, <2>5, Zenon DEF SealInvariant
<1> QED BY <1>1, <1>2, <1>3, StorageInvariantHolds, PTL DEF Spec
============================================================================
