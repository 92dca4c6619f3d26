------------------------------- MODULE Hamt -------------------------------
(***************************************************************************)
(* The index of a store: a hash array mapped trie (hamt_map) whose leaves  *)
(* and committed nodes live in the append-only store and whose changed     *)
(* nodes live on the heap until the transaction commits.  One connection   *)
(* begins transactions, inserts, commits, rolls back, syncs and closes;    *)
(* find, iteration and diff are operators that the properties read the     *)
(* trie with.                                                              *)
(*                                                                         *)
(* A store address is a position of the sequence "store", a heap address   *)
(* a natural number; the allocator may hand out again what was freed.  The *)
(* hash of a key is the sequence of its hash_index_bits-wide digits, the   *)
(* least significant first, so that "hash & hash_index_mask" after d       *)
(* shifts is Hash[k][d].  Positions in a node count from 0 as in the code. *)
(***************************************************************************)
EXTENDS Integers, FiniteSets, Sequences, SequencesExt

CONSTANTS
  Keys, Values,
  Fan,                  \* 2 ^ hash_index_bits, the slots of an internal node
  max_internal_depth,   \* levels of internal nodes
  Hash,                 \* [Keys -> [0..max_internal_depth-1 -> 0..Fan-1]]
  MaxWrites,            \* bound: leaves and other blocks ever in the store
  MaxRevision           \* bound: committed revisions after the first

ASSUME HamtAssumption ==
  /\ Fan \in Nat \ {0}
  /\ max_internal_depth \in Nat \ {0}
  /\ Hash \in [Keys -> [0 .. max_internal_depth - 1 -> 0 .. Fan - 1]]
  /\ MaxWrites \in Nat /\ MaxRevision \in Nat

VARIABLES
  store,     \* the blocks written so far; addresses are positions
  heap,      \* the live heap nodes
  idx,       \* the database's cached index object, or NoIndex
  rev,       \* the revision the connection is synced to
  base,      \* the size of the store when the transaction began, or -1
  last,      \* key and iterator of the last insertion, or NoIterator
  stale,     \* the cached index refers to what a rollback discarded
  content,   \* what a reader must find: the map as a function of keys
  history    \* the content of each committed revision

vars == <<store, heap, idx, rev, base, last, stale, content, history>>

not_found == -1

NoIndex == [loaded |-> FALSE]

NoIterator == [path |-> <<>>]

---------------------------------------------------------------------------
(* index_pointer: two tag bits and an address.                             *)

Null == [internal |-> FALSE, heap |-> FALSE, at |-> 0]

LeafAt(a) == [internal |-> FALSE, heap |-> FALSE, at |-> a]

NodeAt(a) == [internal |-> TRUE, heap |-> FALSE, at |-> a]

HeapAt(h) == [internal |-> TRUE, heap |-> TRUE, at |-> h]

is_leaf(p) == ~p.internal

(* The memory an operation works on is a record of the store and the heap. *)

Mem == [store |-> store, heap |-> heap]

get_node(m, p) == IF p.heap THEN m.heap[p.at] ELSE m.store[p.at]

put_node(m, p, n) ==
  IF p.heap THEN [m EXCEPT !.heap = [@ EXCEPT ![p.at] = n]]
            ELSE [m EXCEPT !.store = [@ EXCEPT ![p.at] = n]]

get_key(m, p) == m.store[p.at].key

Write(m, block) == [m EXCEPT !.store = Append(@, block)]

allocate(m, n) ==
  LET h == CHOOSE i \in 1 .. Cardinality(DOMAIN m.heap) + 1 : i \notin DOMAIN m.heap
  IN  [m |-> [m EXCEPT !.heap = [i \in DOMAIN @ \cup {h} |-> IF i = h THEN n ELSE @[i]]],
       p |-> HeapAt(h)]

delete_node_never(m, p) == m

delete_node(m, p) ==
  IF p.heap THEN [m EXCEPT !.heap = [i \in DOMAIN @ \ {p.at} |-> @[i]]] ELSE m

---------------------------------------------------------------------------
(* Nodes.                                                                  *)

Internal(bitmap, children) ==
  [kind |-> "internal", bitmap |-> bitmap, children |-> children]

Linear(leaves) == [kind |-> "linear", children |-> leaves]

lookup(n, h) ==
  IF h \in n.bitmap THEN Cardinality({b \in n.bitmap : b < h}) ELSE not_found

(* The first leaf of a linear node with the key.                           *)
lookup_linear(m, n, k) ==
  SelectInSeq(n.children, LAMBDA a : get_key(m, a) = k) - 1

get_new_index_reversed(new_hash, existing_hash) ==
  IF new_hash >= existing_hash THEN 0 ELSE 1

get_new_index(new_hash, existing_hash) == IF new_hash >= existing_hash THEN 1 ELSE 0

TwoChildren(existing, new, existing_hash, new_hash) ==
  Internal({existing_hash, new_hash},
           IF get_new_index(new_hash, existing_hash) = 1
           THEN <<existing, new>> ELSE <<new, existing>>)

new_child_index_last(n, h) == Cardinality(n.bitmap)

new_child_index(n, h) == Cardinality({b \in n.bitmap : b < h})

insert_child(n, h, leaf) ==
  Internal(n.bitmap \cup {h}, InsertAt(n.children, new_child_index(n, h) + 1, leaf))

make_writable(m, p) ==
  IF p.heap THEN [m |-> m, p |-> p] ELSE allocate(m, get_node(m, p))

(* What read_node checks of a node it has loaded from the address a.       *)
validate_after_load(n, a) ==
  /\ n.bitmap # {}
  /\ \A i \in DOMAIN n.children : ~n.children[i].heap /\ n.children[i].at < a
  /\ IsInjective(n.children)

---------------------------------------------------------------------------
(* Insertion.  An operation returns the memory it leaves, the reference to *)
(* put in the place of the one it was given, whether the key existed, and  *)
(* what it pushed on the stack of parents, the leaf first.                 *)

Parent(p, position) == [node |-> p, position |-> position]

Result(m, p, exists, parents) ==
  [m |-> m, node |-> p, exists |-> exists, parents |-> parents]

store_leaf_node(m, k, v) ==
  LET a == Len(m.store) + 1
  IN  Result(Write(m, [kind |-> "leaf", key |-> k, value |-> v]), LeafAt(a), FALSE,
             <<Parent(LeafAt(a), not_found)>>)

RECURSIVE insert_into_leaf(_, _, _, _, _)
insert_into_leaf(m, existing, k, v, depth) ==
  IF depth < max_internal_depth
  THEN LET new_hash == Hash[k][depth]
           old_hash == Hash[get_key(m, existing)][depth]
       IN  IF new_hash # old_hash
           THEN LET r == store_leaf_node(m, k, v)
                    n == allocate(r.m, TwoChildren(existing, r.node, old_hash, new_hash))
                IN  Result(n.m, n.p, FALSE,
                           Append(r.parents,
                                  Parent(n.p, get_new_index(new_hash, old_hash))))
           ELSE LET r == insert_into_leaf(m, existing, k, v, depth + 1)
                    n == allocate(r.m, Internal({old_hash}, <<r.node>>))
                IN  Result(n.m, n.p, FALSE, Append(r.parents, Parent(n.p, 0)))
  ELSE LET r == store_leaf_node(m, k, v)
           n == allocate(r.m, Linear(<<existing, r.node>>))
       IN  Result(n.m, n.p, FALSE, Append(r.parents, Parent(n.p, 1)))

insert_into_linear(m, p, k, v, upsert) ==
  LET orig  == get_node(m, p)
      index == lookup_linear(m, orig, k)
      r     == store_leaf_node(m, k, v)
      added == allocate(r.m, Linear(Append(orig.children, r.node)))
      copy  == make_writable(r.m, p)
  IN  IF index = not_found
      THEN Result(added.m, added.p, FALSE,
                  Append(r.parents, Parent(added.p, Len(orig.children))))
      ELSE IF upsert
      THEN Result(put_node(copy.m, copy.p,
                           Linear(ReplaceAt(orig.children, index + 1, r.node))),
                  copy.p, TRUE, Append(r.parents, Parent(copy.p, index)))
      ELSE Result(m, p, TRUE, <<Parent(orig.children[index + 1], not_found),
                                Parent(p, index)>>)

RECURSIVE insert_node(_, _, _, _, _, _)
insert_into_internal(m, p, k, v, depth, upsert) ==
  LET internal == get_node(m, p)
      h        == Hash[k][depth]
      index    == lookup(internal, h)
  IN  IF index = not_found
      THEN LET w == make_writable(m, p)
               r == store_leaf_node(w.m, k, v)
           IN  Result(put_node(r.m, w.p, insert_child(internal, h, r.node)), w.p, FALSE,
                      Append(r.parents, Parent(w.p, new_child_index(internal, h))))
      ELSE LET child == internal.children[index + 1]
               r     == insert_node(m, child, k, v, depth + 1, upsert)
               w     == make_writable(r.m, p)
               new   == [internal EXCEPT !.children[index + 1] = r.node]
           IN  IF r.node = child
               THEN Result(r.m, p, r.exists, Append(r.parents, Parent(p, index)))
               ELSE Result(put_node(delete_node(w.m, child), w.p, new), w.p, r.exists,
                           Append(r.parents, Parent(w.p, index)))

insert_node(m, p, k, v, depth, upsert) ==
  IF is_leaf(p)
  THEN IF get_key(m, p) = k
       THEN IF upsert
            THEN [store_leaf_node(m, k, v) EXCEPT !.exists = TRUE]
            ELSE Result(m, p, TRUE, <<Parent(p, not_found)>>)
       ELSE insert_into_leaf(m, p, k, v, depth)
  ELSE IF depth < max_internal_depth
       THEN insert_into_internal(m, p, k, v, depth, upsert)
       ELSE insert_into_linear(m, p, k, v, upsert)

---------------------------------------------------------------------------
(* internal_node::flush: the children first, then the node itself; returns *)
(* the memory and the node's new address.                                  *)

RECURSIVE flush_node(_, _, _)
flush_node(m, p, depth) ==
  LET FlushChild(acc, i) ==
        LET child == acc.node.children[i]
            r     == IF depth + 1 < max_internal_depth
                     THEN flush_node(acc.m, child, depth + 1)
                     ELSE [m |-> Write(acc.m, get_node(acc.m, child)),
                           p |-> NodeAt(Len(acc.m.store) + 1)]
        IN  IF child.heap
            THEN [m |-> delete_node(r.m, child),
                  node |-> [acc.node EXCEPT !.children[i] = r.p]]
            ELSE acc
      done == FoldLeftDomain(FlushChild, [m |-> m, node |-> get_node(m, p)],
                             get_node(m, p).children)
  IN  [m |-> Write(done.m, done.node), p |-> NodeAt(Len(done.m.store) + 1)]

(* hamt_map::clear: the heap nodes of a trie, children first.              *)
RECURSIVE clear(_, _, _)
clear(m, p, depth) ==
  LET ClearChild(acc, child) ==
        IF child.heap THEN clear(acc, child, depth + 1) ELSE acc
      kids == IF depth < max_internal_depth
              THEN FoldLeft(ClearChild, m, get_node(m, p).children) ELSE m
  IN  delete_node(kids, p)

---------------------------------------------------------------------------
(* Reading: find, the iterator and diff.  An iterator is the stack of      *)
(* parents it has visited, the root first; the empty stack is end().       *)

RECURSIVE find_from(_, _, _, _)
find_from(m, p, k, path) ==
  LET depth == Len(path)
      n     == get_node(m, p)
      index == IF depth < max_internal_depth THEN lookup(n, Hash[k][depth])
               ELSE lookup_linear(m, n, k)
  IN  IF is_leaf(p)
      THEN IF get_key(m, p) = k THEN Append(path, Parent(p, not_found)) ELSE <<>>
      ELSE IF index = not_found THEN <<>>
      ELSE find_from(m, n.children[index + 1], k, Append(path, Parent(p, index)))

find(m, i, k) == IF i.size = 0 THEN <<>> ELSE find_from(m, i.root, k, <<>>)

RECURSIVE move_to_left_most_child(_, _, _)
move_to_left_most_child(m, path, p) ==
  IF is_leaf(p) THEN Append(path, Parent(p, not_found))
  ELSE move_to_left_most_child(m, Append(path, Parent(p, 0)), get_node(m, p).children[1])

begin(m, i) == IF i.root = Null THEN <<>> ELSE move_to_left_most_child(m, <<>>, i.root)

has_next(position, size) == position + 1 < size

RECURSIVE increment(_, _)
increment(m, path) ==
  LET up     == Front(path)
      parent == Last(up)
      kids   == get_node(m, parent.node).children
      next   == parent.position + 1
  IN  IF up = <<>> THEN <<>>
      ELSE IF ~has_next(parent.position, Len(kids)) THEN increment(m, up)
      ELSE move_to_left_most_child(m, [up EXCEPT ![Len(up)].position = next],
                                   kids[next + 1])

(* The leaves that the iterator meets from a position on.                  *)
RECURSIVE Walk(_, _)
Walk(m, path) ==
  IF path = <<>> THEN <<>> ELSE <<Last(path).node>> \o Walk(m, increment(m, path))

is_new_after(p, threshold) == p.heap \/ p.at > threshold

is_new(p, threshold) == p.heap \/ p.at >= threshold

RECURSIVE visit_node(_, _, _)
visit_node(m, p, threshold) ==
  LET Visit(acc, child) == acc \o visit_node(m, child, threshold)
  IN  IF ~is_new(p, threshold) THEN <<>>
      ELSE IF is_leaf(p) THEN <<p>>
      ELSE FoldLeft(Visit, <<>>, get_node(m, p).children)

(* The footer of a revision, the index it records, and diff against it.    *)

FooterPos(r) ==
  CHOOSE a \in DOMAIN store : store[a].kind = "trailer" /\ store[a].generation = r

HeadRevision == Len(history) - 1

Index(root, size, revision) ==
  [loaded |-> TRUE, root |-> root, size |-> size, revision |-> revision]

(* hamt_map's constructor, for the header block that a footer records.     *)
LoadAt(r) ==
  LET pos == store[FooterPos(r)].index
  IN  IF pos = 0 THEN Index(Null, 0, r) ELSE Index(store[pos].root, store[pos].size, r)

get_index == IF idx.loaded THEN idx ELSE LoadAt(rev)

diff(old) ==
  IF old > rev \/ get_index.root = Null THEN <<>>
  ELSE visit_node(Mem, get_index.root, FooterPos(old) + 1)

header_sensible(i) ==
  /\ ~i.root.heap
  /\ i.size = 0 <=> i.root = Null
  /\ i.size = 1 => is_leaf(i.root)
  /\ i.size > 1 => i.root.internal

---------------------------------------------------------------------------
(* The connection.                                                         *)

Trailer(generation, index) ==
  [kind |-> "trailer", generation |-> generation, index |-> index]

Header(i) == [kind |-> "header", size |-> i.size, root |-> i.root]

Init ==
  /\ store = <<Trailer(0, 0)>>
  /\ heap = <<>>
  /\ idx = NoIndex
  /\ rev = 0
  /\ base = -1
  /\ last = NoIterator
  /\ stale = FALSE
  /\ content = <<>>
  /\ history = <<content>>

InTransaction == base >= 0

Writes == Cardinality({a \in DOMAIN store : store[a].kind \in {"leaf", "data"}})

(* ~hamt_map, when the cache drops the index.                              *)
Dropped == IF idx.loaded /\ idx.root.heap THEN clear(Mem, idx.root, 0).heap ELSE heap

(* database::sync to a revision other than the current one.                *)
MoveTo(r) ==
  /\ rev' = r
  /\ content' = history[r + 1]
  /\ IF r = rev THEN UNCHANGED <<idx, heap, stale>>
     ELSE idx' = NoIndex /\ heap' = Dropped /\ stale' = FALSE

Sync(r) ==
  /\ ~InTransaction
  /\ r # rev
  /\ MoveTo(r)
  /\ last' = NoIterator
  /\ UNCHANGED <<store, base, history>>

GetIndex ==
  /\ ~idx.loaded
  /\ idx' = LoadAt(rev)
  /\ UNCHANGED <<store, heap, rev, base, last, stale, content, history>>

(* A connection whose index still has what a rollback discarded must not   *)
(* write; the index itself refuses only when its revision is another one.  *)
Begin ==
  /\ ~InTransaction
  /\ stale /\ rev = HeadRevision => idx.revision # rev
  /\ MoveTo(HeadRevision)
  /\ base' = Len(store)
  /\ last' = NoIterator
  /\ UNCHANGED <<store, history>>

(* insert_or_upsert.                                                       *)
Insert(k, v, upsert) ==
  /\ InTransaction
  /\ Writes < MaxWrites
  /\ idx.loaded => idx.revision = rev
  /\ LET i == get_index
         r == IF i.size = 0 THEN store_leaf_node(Mem, k, v)
              ELSE insert_node(Mem, i.root, k, v, 0, upsert)
     IN  /\ store' = r.m.store
         /\ heap' = r.m.heap
         /\ idx' = [i EXCEPT !.root = r.node, !.size = IF r.exists THEN @ ELSE @ + 1]
         /\ last' = [key |-> k, path |-> Reverse(r.parents)]
         /\ content' = IF k \in DOMAIN content /\ ~upsert THEN content
                       ELSE [x \in DOMAIN content \cup {k} |-> IF x = k THEN v ELSE content[x]]
  /\ UNCHANGED <<rev, base, stale, history>>

(* The transaction is used for something else than this index.             *)
Allocate ==
  /\ InTransaction
  /\ Writes < MaxWrites
  /\ store' = Append(store, [kind |-> "data"])
  /\ UNCHANGED <<heap, idx, rev, base, last, stale, content, history>>

flush_old_root(i) ==
  LET r == IF i.root.heap THEN flush_node(Mem, i.root, 0) ELSE [m |-> Mem, p |-> i.root]
      m == IF i.root.heap THEN delete_node(r.m, i.root) ELSE r.m
  IN  [m |-> Write(m, Header(i)), root |-> r.p]

(* hamt_map::flush.                                                        *)
flush(i) ==
  LET r == IF i.root.heap THEN flush_node(Mem, i.root, 0) ELSE [m |-> Mem, p |-> i.root]
      m == IF i.root.heap THEN delete_node(r.m, i.root) ELSE r.m
  IN  [m |-> Write(m, Header([i EXCEPT !.root = r.p])), root |-> r.p]

(* commit: an index that is neither loaded nor recorded in the footer is   *)
(* not flushed.                                                            *)
Commit ==
  /\ InTransaction
  /\ rev < MaxRevision
  /\ Len(store) > base
  /\ idx.loaded => idx.revision = rev
  /\ LET i == get_index
         f == flush(i)
         none == ~idx.loaded /\ store[FooterPos(rev)].index = 0
     IN  /\ IF none
            THEN /\ store' = Append(store, Trailer(rev + 1, 0))
                 /\ UNCHANGED <<heap, idx>>
            ELSE /\ store' = Append(f.m.store, Trailer(rev + 1, Len(f.m.store)))
                 /\ heap' = f.m.heap
                 /\ idx' = Index(f.root, i.size, rev + 1)
  /\ rev' = rev + 1
  /\ history' = Append(history, content)
  /\ base' = -1
  /\ last' = NoIterator
  /\ UNCHANGED <<stale, content>>

(* The allocation of the trailer fails when the indices have been flushed, *)
(* and the transaction is rolled back.                                     *)
CommitFails ==
  /\ InTransaction
  /\ rev < MaxRevision
  /\ Len(store) > base
  /\ idx.loaded /\ idx.revision = rev
  /\ LET f == flush(idx)
     IN  /\ heap' = f.m.heap
         /\ idx' = Index(f.root, idx.size, rev + 1)
  /\ store' = SubSeq(store, 1, base)
  /\ base' = -1
  /\ stale' = TRUE
  /\ content' = history[rev + 1]
  /\ last' = NoIterator
  /\ UNCHANGED <<rev, history>>

CommitNothing ==
  /\ InTransaction
  /\ Len(store) = base
  /\ base' = -1
  /\ UNCHANGED <<store, heap, idx, rev, last, stale, content, history>>

(* rollback gives the storage back and leaves the cached index alone.      *)
Rollback ==
  /\ InTransaction
  /\ store' = SubSeq(store, 1, base)
  /\ base' = -1
  /\ stale' = (stale \/ \E a \in base + 1 .. Len(store) : store[a].kind = "leaf")
  /\ content' = history[rev + 1]
  /\ last' = NoIterator
  /\ UNCHANGED <<heap, idx, rev, history>>

Close ==
  /\ ~InTransaction
  /\ idx' = NoIndex /\ heap' = Dropped /\ stale' = FALSE
  /\ rev' = HeadRevision
  /\ content' = history[HeadRevision + 1]
  /\ last' = NoIterator
  /\ UNCHANGED <<store, base, history>>

Next ==
  \/ \E r \in 0 .. HeadRevision : Sync(r)
  \/ GetIndex \/ Begin \/ Allocate \/ Commit \/ CommitFails \/ CommitNothing \/ Rollback \/ Close
  \/ \E k \in Keys, v \in Values, upsert \in BOOLEAN : Insert(k, v, upsert)

Spec == Init /\ [][Next]_vars

---------------------------------------------------------------------------
(* Properties.                                                             *)

(* The nodes of a trie with their depth, one entry for each reference.     *)
RECURSIVE References(_, _, _)
References(m, p, depth) ==
  LET Visit(acc, child) == acc \o References(m, child, depth + 1)
  IN  IF p = Null THEN <<>>
      ELSE IF is_leaf(p) THEN <<[p |-> p, depth |-> depth]>>
      ELSE FoldLeft(Visit, <<[p |-> p, depth |-> depth]>>, get_node(m, p).children)

(* The map that a trie holds, through find.                                *)
Finds(m, i, map) ==
  \A k \in Keys :
    LET path == find(m, i, k)
    IN  IF k \in DOMAIN map
        THEN path # <<>> /\ m.store[Last(path).node.at].value = map[k]
        ELSE path = <<>>

(* The index is the map that was put into it: find() returns the last      *)
(* value given for every key, also for keys whose hashes agree in some or  *)
(* in all digits, and end() for the others, size() counts the keys, and    *)
(* begin() and operator++ meet every key once and then end(); before and   *)
(* after the commit, and in a revision that sync() went back to.           *)
IndexIsMap ==
  ~stale =>
    LET leaves == Walk(Mem, begin(Mem, get_index))
    IN  /\ Finds(Mem, get_index, content)
        /\ get_index.size = Cardinality(DOMAIN content)
        /\ Len(leaves) = Cardinality(DOMAIN content)
        /\ {get_key(Mem, leaves[j]) : j \in DOMAIN leaves} = DOMAIN content

(* The iterator that insert() and insert_or_assign() build on their way    *)
(* back up equals the one find() builds on its way down, so that it can be *)
(* incremented and compared with it.                                       *)
InsertedIterator ==
  last.path # <<>> => last.path = find(Mem, idx, last.key)

(* Every revision can be loaded at any time: its header block is accepted, *)
(* every internal node passes validate_after_load, a node is linear where  *)
(* the hash has run out and only there, and find() returns what the        *)
(* revision held when it was committed: a node of a committed trie is      *)
(* copied to the heap before it is changed (make_writable).                *)
RevisionsReadable ==
  \A r \in 0 .. HeadRevision :
    LET i    == LoadAt(r)
        refs == ToSet(References(Mem, i.root, 0))
    IN  /\ header_sensible(i)
        /\ \A x \in refs : ~is_leaf(x.p) =>
             LET n == get_node(Mem, x.p)
             IN  IF x.depth < max_internal_depth
                 THEN n.kind = "internal" /\ validate_after_load(n, x.p.at)
                 ELSE n.kind = "linear"
        /\ Finds(Mem, i, history[r + 1])

(* Every heap node belongs to the cached index and is referenced once:     *)
(* nothing is leaked when a node is replaced, flushed or dropped, nothing  *)
(* is freed that the trie still refers to, and no node is shared, so that  *)
(* changing it in place changes one trie in one place.                     *)
HeapOwned ==
  LET refs == IF idx.loaded
              THEN SelectSeq(References(Mem, idx.root, 0), LAMBDA x : x.p.heap) ELSE <<>>
  IN  /\ ~stale => {refs[j].p.at : j \in DOMAIN refs} = DOMAIN heap
      /\ ~stale => Len(refs) = Cardinality(DOMAIN heap)
      /\ ~idx.loaded => heap = <<>>

(* diff() against an older revision gives exactly the leaves that the      *)
(* index has and the older revision has not, each once, whether they are   *)
(* committed or belong to the open transaction.                            *)
DiffExact ==
  ~stale =>
    \A old \in 0 .. rev :
      LET d         == diff(old)
          Leaves(i) == {x.p : x \in {y \in ToSet(References(Mem, i.root, 0)) : is_leaf(y.p)}}
      IN  /\ ToSet(d) = Leaves(get_index) \ Leaves(LoadAt(old))
          /\ IsInjective(d)

=============================================================================
