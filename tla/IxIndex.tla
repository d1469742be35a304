------------------------------- MODULE IxIndex -------------------------------
(***************************************************************************)
(* The B+ tree of a unique index (index/ix_index_handle.{h,cpp},           *)
(* index/ix_scan.cpp): search, insertion with splits, deletion with        *)
(* redistribution and merging, and the scans along the leaf list.          *)
(*                                                                         *)
(* A node is a page; an inner node holds one pair <<smallest key, child>>  *)
(* per child.  A call of insert_entry or delete_entry is a sequence of     *)
(* steps, one per level of the tree it works on: todo is what the call     *)
(* still has to do.  One call runs at a time.  Keys are integers; a pin    *)
(* of a page is left to module BufferPool.                                 *)
(*                                                                         *)
(* A merge (coalesce) and a refill from the left sibling (redistribute)    *)
(* write the wrong entry of the parent.  The calls that do so run to their *)
(* end here, flaw included; merged then records that the tree has lost its *)
(* order, and no call is followed after that.                              *)
(***************************************************************************)
EXTENDS Integers, SequencesExt, FiniteSetsExt

CONSTANTS
  Order,      \* btree_order_
  Key, Rid,   \* keys (integers) and record ids
  NoRid,      \* no entry
  NoNode,     \* a page that has not been allocated
  MaxPage,    \* bound: page numbers
  Scenario    \* [build: the keys create_index finds in the table, in scan order;
              \*  keys, rids: the keys and record ids used afterwards;
              \*  ops: bound on the calls then]

ASSUME IndexConstants ==
  /\ Order \in Nat /\ Order > 2                 \* assert(btree_order > 2)
  /\ Key \subseteq Int /\ NoRid \notin Rid /\ MaxPage \in Nat
  /\ \A s \in Scenario : ToSet(s.build) \subseteq Key /\ s.ops \in Nat
       /\ s.keys \subseteq Key /\ s.rids \subseteq Rid

IX_NO_PAGE == -1
IX_LEAF_HEADER_PAGE == 1
IX_INIT_ROOT_PAGE == 2
PageNo == IX_INIT_ROOT_PAGE..MaxPage

VARIABLES
  node,        \* the pages: is_leaf, parent, prev, next and the pairs
  file_hdr,    \* file_hdr_: root_page_, first_leaf_, last_leaf_, num_pages_
  next_page,   \* the file's fd2pageno_: the number of the next page
  todo,        \* what the running call still has to do
  run,         \* what is left of the scenario
  entries,     \* history: what the successful calls should have left in the index
  merged       \* history: a node was merged with a sibling, or refilled from its left one

vars == <<node, file_hdr, next_page, todo, run, entries, merged>>

max_size == Order + 1
min_size == max_size \div 2

Nothing == [step |-> "none"]
InsertIntoParent(old, new) == [step |-> "insert_into_parent", old |-> old, new |-> new]
MaintainParent(p) == [step |-> "maintain_parent", page |-> p]
CoalesceOrRedistribute(p) == [step |-> "coalesce_or_redistribute", page |-> p]

Node(leaf, parent, prev, next, pairs) ==
  [is_leaf |-> leaf, parent |-> parent, prev |-> prev, next |-> next, pairs |-> pairs]

(* A leaf that is the whole tree.                                          *)
RootLeaf(pairs) == Node(TRUE, IX_NO_PAGE, IX_LEAF_HEADER_PAGE, IX_LEAF_HEADER_PAGE, pairs)

(* IxManager::create_index writes the header, the leaf header page and an  *)
(* empty root leaf.                                                        *)
Init ==
  /\ node = [p \in PageNo |-> IF p = IX_INIT_ROOT_PAGE THEN RootLeaf(<<>>) ELSE NoNode]
  /\ file_hdr = [root |-> IX_INIT_ROOT_PAGE, first |-> IX_INIT_ROOT_PAGE,
                 last |-> IX_INIT_ROOT_PAGE, num_pages |-> 3]
  /\ next_page = 3
  /\ todo = Nothing
  /\ run \in Scenario
  /\ entries = [k \in Key |-> NoRid]
  /\ merged = FALSE

-----------------------------------------------------------------------------
(* IxNodeHandle, on the pairs of a node.  Positions count from 0, as in    *)
(* the code.                                                               *)

pairs(p) == node[p].pairs
key(s, pos) == s[pos + 1][1]
value_at(s, pos) == s[pos + 1][2]

(* The binary search of lower_bound and upper_bound.  The first key of a   *)
(* leftmost inner node may be above the second (a split does not lower     *)
(* it), so which keys the search looks at matters.  It finds the first key *)
(* above k, or also equal to k.                                            *)
bisect(s, k, orEqual) ==
  LET Above(x) == x > k \/ (orEqual /\ x = k)
      go[lo \in 0..Len(s), hi \in 0..Len(s)] ==
        LET mid == lo + (hi - lo) \div 2
        IN  IF lo >= hi THEN lo
            ELSE IF Above(key(s, mid)) THEN go[lo, mid] ELSE go[mid + 1, hi]
  IN  go[0, Len(s)]

lower_bound(s, k) == bisect(s, k, TRUE)

(* Mutant: the search is from the left, to the first key above k.          *)
upper_bound_Linear(s, k) ==
  Min({Len(s)} \cup {pos \in 0..(Len(s) - 1) : key(s, pos) > k})

upper_bound(s, k) == bisect(s, k, FALSE)

leaf_lookup(s, k) == lower_bound(s, k) < Len(s) /\ key(s, lower_bound(s, k)) = k

internal_lookup(s, k) == value_at(s, Max({upper_bound(s, k) - 1, 0}))

find_child(s, child) == CHOOSE pos \in 0..(Len(s) - 1) : value_at(s, pos) = child

insert_pair(s, pos, pair) == InsertAt(s, pos + 1, pair)
erase_pair(s, pos) == RemoveAt(s, pos + 1)
set_key(s, pos, k) == [s EXCEPT ![pos + 1][1] = k]

Children(s) == {s[i][2] : i \in DOMAIN s}

-----------------------------------------------------------------------------
(* Search and scans.                                                       *)

is_empty == file_hdr.root = IX_NO_PAGE

find_leaf_page(k) ==
  LET down[d \in 0..MaxPage] ==
        IF d = 0 THEN file_hdr.root
        ELSE LET p == down[d - 1]
             IN  IF node[p].is_leaf THEN p ELSE internal_lookup(pairs(p), k)
  IN  down[MaxPage]

get_value(k) ==
  IF is_empty THEN NoRid
  ELSE LET s == pairs(find_leaf_page(k))
       IN  IF leaf_lookup(s, k) THEN value_at(s, lower_bound(s, k)) ELSE NoRid

Iid(page, slot) == <<page, slot>>
leaf_begin == Iid(file_hdr.first, 0)
leaf_end == Iid(file_hdr.last, Len(pairs(file_hdr.last)))

(* Mutant: a bound past a leaf's last key stays in the leaf.               *)
Bound_StaysInLeaf(leaf, slot) == Iid(leaf, slot)

(* The common end of IxIndexHandle::lower_bound and ::upper_bound.         *)
Bound(leaf, slot) ==
  IF slot = Len(pairs(leaf)) /\ node[leaf].next \notin {IX_LEAF_HEADER_PAGE, IX_NO_PAGE}
  THEN Iid(node[leaf].next, 0)
  ELSE Iid(leaf, slot)

LowerIid(k) ==
  IF is_empty THEN leaf_end
  ELSE LET leaf == find_leaf_page(k) IN Bound(leaf, lower_bound(pairs(leaf), k))

UpperIid(k) ==
  IF is_empty THEN leaf_end
  ELSE LET leaf == find_leaf_page(k) IN Bound(leaf, upper_bound(pairs(leaf), k))

(* IxScan::next.                                                           *)
NextIid(iid) ==
  LET page == iid[1]
      slot == iid[2] + 1
  IN  IF page # file_hdr.last /\ slot = Len(pairs(page)) THEN Iid(node[page].next, 0)
      ELSE Iid(page, slot)

(* What IxScan lists from one position to another, and whether it gets     *)
(* there: at a position without an entry rid throws.                       *)
Scan(from, to) ==
  LET Stops(w) == w.at = to \/ w.at[2] >= Len(pairs(w.at[1]))
      Step(w) == [at |-> NextIid(w.at), listed |-> Append(w.listed, pairs(w.at[1])[w.at[2] + 1])]
      walk[n \in 0..Cardinality(Key)] ==
        IF n = 0 THEN [at |-> from, listed |-> <<>>]
        ELSE LET w == walk[n - 1] IN IF Stops(w) THEN w ELSE Step(w)
      end == walk[Cardinality(Key)]
  IN  [ends |-> end.at = to, listed |-> end.listed]

-----------------------------------------------------------------------------
(* Insertion.                                                              *)

(* Mutant: the leaf after it keeps its backward link.                      *)
relink_Skip(n, p, prev) == n

(* The leaf that follows page p gets the backward link prev.               *)
relink(n, p, prev) ==
  IF n[p].is_leaf /\ n[p].next # IX_LEAF_HEADER_PAGE
  THEN [n EXCEPT ![n[p].next].prev = prev] ELSE n

(* maintain_child: the children that moved to page p.                      *)
maintain_child(n, p, children) ==
  IF n[p].is_leaf THEN n
  ELSE [x \in PageNo |-> IF x \in children THEN [n[x] EXCEPT !.parent = p] ELSE n[x]]

(* split of page p, whose pairs have become s: the upper half moves to the *)
(* page new.                                                               *)
split(p, s, new) ==
  LET half == Len(s) \div 2
      leaf == node[p].is_leaf
      moved == SubSeq(s, half + 1, Len(s))
      halves == [node EXCEPT
        ![p].pairs = SubSeq(s, 1, half),
        ![p].next = IF leaf THEN new ELSE @,
        ![new] = Node(leaf, node[p].parent, IF leaf THEN p ELSE 0,
                      IF leaf THEN node[p].next ELSE 0, moved)]
  IN  maintain_child(relink(halves, new, new), new, Children(moved))

(* create_node: the page next_page becomes a node's.                       *)
create_node(hdr) ==
  /\ next_page <= MaxPage
  /\ next_page' = next_page + 1
  /\ file_hdr' = [hdr EXCEPT !.num_pages = @ + 1]

(* Page p has got the pairs s; a full page is split and the new one        *)
(* entered in the parent.                                                  *)
SplitPage(p, s) ==
  /\ create_node([file_hdr EXCEPT !.last =
       IF node[p].is_leaf /\ node[p].next = IX_LEAF_HEADER_PAGE THEN next_page ELSE @])
  /\ node' = split(p, s, next_page)
  /\ todo' = InsertIntoParent(p, next_page)

(* insert_entry on the tree that delete_entry emptied.                     *)
insert_first(k, r) ==
  /\ is_empty
  /\ create_node([file_hdr EXCEPT !.root = next_page, !.first = next_page, !.last = next_page])
  /\ node' = [node EXCEPT ![next_page] = RootLeaf(<<<<k, r>>>>)]
  /\ entries' = [entries EXCEPT ![k] = r]
  /\ UNCHANGED todo

(* insert_entry otherwise: the key is new, and the leaf has room or is     *)
(* split, or the key is in the leaf and insert throws.                     *)
insert_in_leaf(k, r) ==
  LET leaf == find_leaf_page(k)
      s == insert_pair(pairs(leaf), lower_bound(pairs(leaf), k), <<k, r>>)
      first_changed == pairs(leaf) # <<>> /\ key(pairs(leaf), 0) # key(s, 0)
  IN  /\ ~leaf_lookup(pairs(leaf), k)
      /\ entries' = [entries EXCEPT ![k] = r]
      /\ \/ Len(s) >= max_size /\ SplitPage(leaf, s)
         \/ /\ Len(s) < max_size
            /\ node' = [node EXCEPT ![leaf].pairs = s]
            /\ todo' = IF first_changed THEN MaintainParent(leaf) ELSE todo
            /\ UNCHANGED <<file_hdr, next_page>>

insert_duplicate(k) ==
  /\ leaf_lookup(pairs(find_leaf_page(k)), k)
  /\ UNCHANGED <<node, file_hdr, next_page, todo, entries>>

insert_entry(k, r) ==
  \/ insert_first(k, r)
  \/ ~is_empty /\ (insert_in_leaf(k, r) \/ insert_duplicate(k))

(* insert_into_parent: a new root above a split root, ...                  *)
insert_into_root ==
  LET old == todo.old
      new == todo.new
      Under(p) == [node[p] EXCEPT !.parent = next_page]
      Entry(p) == <<key(pairs(p), 0), p>>
  IN  /\ todo.step = "insert_into_parent" /\ node[old].parent = IX_NO_PAGE
      /\ create_node([file_hdr EXCEPT !.root = next_page])
      /\ node' = [node EXCEPT ![old] = Under(old), ![new] = Under(new),
           ![next_page] = Node(FALSE, IX_NO_PAGE, 0, 0, <<Entry(old), Entry(new)>>)]
      /\ todo' = Nothing
      /\ UNCHANGED <<run, entries, merged>>

(* ... or a pair after the old child's in the parent.                      *)
insert_into_parent ==
  LET new == todo.new
      parent == node[todo.old].parent
      s == insert_pair(pairs(parent), find_child(pairs(parent), todo.old) + 1,
                       <<key(pairs(new), 0), new>>)
  IN  /\ todo.step = "insert_into_parent" /\ parent # IX_NO_PAGE
      /\ \/ Len(s) >= max_size /\ SplitPage(parent, s)
         \/ /\ Len(s) < max_size
            /\ node' = [node EXCEPT ![parent].pairs = s]
            /\ todo' = Nothing
            /\ UNCHANGED <<file_hdr, next_page>>
      /\ UNCHANGED <<run, entries, merged>>

(* One round of maintain_parent's loop.                                    *)
maintain_parent ==
  LET p == todo.page
      parent == node[p].parent
      pos == find_child(pairs(parent), p)
      first == key(pairs(p), 0)
  IN  /\ todo.step = "maintain_parent"
      /\ IF parent = IX_NO_PAGE \/ key(pairs(parent), pos) = first
         THEN todo' = Nothing /\ UNCHANGED node
         ELSE /\ node' = [node EXCEPT ![parent].pairs = set_key(@, pos, first)]
              /\ todo' = MaintainParent(parent)
      /\ UNCHANGED <<file_hdr, next_page, run, entries, merged>>

-----------------------------------------------------------------------------
(* Deletion.                                                               *)

delete_entry(k) ==
  LET leaf == find_leaf_page(k)
  IN  /\ IF is_empty \/ ~leaf_lookup(pairs(leaf), k)
         THEN UNCHANGED <<node, todo, entries>>
         ELSE /\ node' = [node EXCEPT ![leaf].pairs = erase_pair(@, lower_bound(@, k))]
              /\ entries' = [entries EXCEPT ![k] = NoRid]
              /\ todo' = CoalesceOrRedistribute(leaf)
      /\ UNCHANGED <<file_hdr, next_page>>

release_node_handle(hdr) == [hdr EXCEPT !.num_pages = @ - 1]

AtNode == todo.step = "coalesce_or_redistribute"
IsRoot == node[todo.page].parent = IX_NO_PAGE

(* adjust_root: an empty root leaf is released, an only child replaces     *)
(* the root.                                                               *)
adjust_root ==
  LET s == pairs(todo.page)
      leaf == node[todo.page].is_leaf
  IN  /\ AtNode /\ IsRoot
      /\ \/ leaf /\ s = <<>>
            /\ file_hdr' = release_node_handle([file_hdr EXCEPT !.root = IX_NO_PAGE])
            /\ UNCHANGED node
         \/ ~leaf /\ Len(s) = 1
            /\ node' = [node EXCEPT ![value_at(s, 0)].parent = IX_NO_PAGE]
            /\ file_hdr' = release_node_handle([file_hdr EXCEPT !.root = value_at(s, 0)])
         \/ ~(leaf /\ s = <<>>) /\ ~(~leaf /\ Len(s) = 1)
            /\ UNCHANGED <<node, file_hdr>>
      /\ todo' = Nothing
      /\ UNCHANGED <<next_page, run, entries, merged>>

(* coalesce_or_redistribute: a node that is full enough needs nothing.     *)
enough_left ==
  /\ AtNode /\ ~IsRoot /\ Len(pairs(todo.page)) >= min_size
  /\ todo' = Nothing
  /\ UNCHANGED <<node, file_hdr, next_page, run, entries, merged>>

(* The parent of the node at hand, its position there, and its sibling:    *)
(* the left one if there is one.                                           *)
Parent == node[todo.page].parent
Index == find_child(pairs(Parent), todo.page)
Neighbor == value_at(pairs(Parent), IF Index > 0 THEN Index - 1 ELSE Index + 1)

Short == AtNode /\ ~IsRoot /\ Len(pairs(todo.page)) < min_size
CanLend == Len(pairs(Neighbor)) + Len(pairs(todo.page)) >= 2 * min_size

(* redistribute, from the left sibling.  The parent's key that is set is   *)
(* the sibling's, not the node's.                                          *)
redistribute_left ==
  LET p == todo.page
      lent == Last(pairs(Neighbor))
  IN  /\ Short /\ Index > 0 /\ CanLend
      /\ node' = maintain_child([node EXCEPT ![p].pairs = insert_pair(@, 0, lent),
                                    ![Neighbor].pairs = Front(@),
                                    ![Parent].pairs = set_key(@, Index - 1, lent[1])],
                       p, {lent[2]})
      /\ merged' = TRUE
      /\ todo' = Nothing
      /\ UNCHANGED <<file_hdr, next_page, run, entries>>

(* redistribute, from the right sibling of a first child.                  *)
redistribute_right ==
  LET p == todo.page
      lent == Head(pairs(Neighbor))
  IN  /\ Short /\ Index = 0 /\ CanLend
      /\ node' = maintain_child([node EXCEPT ![p].pairs = Append(@, lent),
                                    ![Neighbor].pairs = Tail(@),
                                    ![Parent].pairs = set_key(@, 1, key(pairs(Neighbor), 1))],
                       p, {lent[2]})
      /\ todo' = Nothing
      /\ UNCHANGED <<file_hdr, next_page, run, entries, merged>>

(* coalesce: the right one of the two siblings moves into the left one,    *)
(* and the entry before the right one's, the left one's, is erased from    *)
(* the parent.                                                             *)
coalesce ==
  LET left == IF Index > 0 THEN Neighbor ELSE todo.page
      right == IF Index > 0 THEN todo.page ELSE Neighbor
      gone == node[right]
      joined == [node EXCEPT
        ![left].pairs = @ \o gone.pairs,
        ![left].next = IF gone.is_leaf THEN gone.next ELSE @,
        ![Parent].pairs = erase_pair(@, find_child(@, right) - 1)]
  IN  /\ Short /\ ~CanLend
      /\ node' = maintain_child(relink(joined, right, left), left, Children(gone.pairs))
      /\ file_hdr' = release_node_handle([file_hdr EXCEPT !.last =
           IF gone.is_leaf /\ gone.next = IX_LEAF_HEADER_PAGE THEN left ELSE @])
      /\ merged' = TRUE
      /\ todo' = CoalesceOrRedistribute(Parent)
      /\ UNCHANGED <<next_page, run, entries>>

-----------------------------------------------------------------------------
(* The callers: SmManager::create_index enters the table's records, the    *)
(* executors insert and delete.                                            *)

Ready == todo = Nothing /\ ~merged

Build ==
  /\ Ready /\ run.build # <<>>
  /\ \E r \in run.rids : insert_entry(Head(run.build), r)
  /\ run' = [run EXCEPT !.build = Tail(@)]
  /\ UNCHANGED merged

Call == Ready /\ run.build = <<>> /\ run.ops > 0 /\ run' = [run EXCEPT !.ops = @ - 1]

Insert == Call /\ (\E k \in run.keys, r \in run.rids : insert_entry(k, r)) /\ UNCHANGED merged
Delete == Call /\ (\E k \in run.keys : delete_entry(k)) /\ UNCHANGED merged

Next ==
  \/ Build \/ Insert \/ Delete
  \/ insert_into_root \/ insert_into_parent \/ maintain_parent
  \/ adjust_root \/ enough_left \/ redistribute_left \/ redistribute_right \/ coalesce

Spec == Init /\ [][Next]_vars

-----------------------------------------------------------------------------
(* Properties.                                                             *)

(* A page holds at most Order pairs, so that the arrays have room for the  *)
(* one that makes it split, and all page numbers are pages of the file.    *)
TypeOK ==
  /\ \A p \in PageNo : node[p] # NoNode =>
       /\ p < next_page
       /\ Len(pairs(p)) <= Order
       /\ node[p].parent \in {IX_NO_PAGE} \cup 2..(next_page - 1)
  /\ file_hdr.root \in {IX_NO_PAGE} \cup 2..(next_page - 1)
  /\ {file_hdr.first, file_hdr.last} \subseteq 2..(next_page - 1)
  /\ file_hdr.num_pages \in 2..next_page
  /\ entries \in [Key -> Rid \cup {NoRid}]

Settled == todo = Nothing /\ ~merged

(* Between calls get_value finds exactly the entries that were inserted    *)
(* and not deleted, with their record ids: no sequence of splits, new      *)
(* roots, key changes and refills hides an entry from the search.          *)
LookupExact == Settled => \A k \in Key : get_value(k) = entries[k]

(* The entries from lo to hi in key order.                                 *)
Expected(lo, hi) ==
  LET ks == SelectSeq([i \in 1..(hi - lo + 1) |-> lo + i - 1],
                      LAMBDA k : k \in Key /\ entries[k] # NoRid)
  IN  [i \in DOMAIN ks |-> <<ks[i], entries[ks[i]]>>]

(* Between calls an index scan of any key range, and the scan of the whole *)
(* index, ends and lists exactly the entries in the range, in key order.   *)
RangeExact ==
  Settled =>
    /\ Scan(leaf_begin, leaf_end) = [ends |-> TRUE, listed |-> Expected(Min(Key), Max(Key))]
    /\ \A lo, hi \in run.keys : lo <= hi =>
         Scan(LowerIid(lo), UpperIid(hi)) = [ends |-> TRUE, listed |-> Expected(lo, hi)]

(* Whatever splits, new roots and refills came before, get_value and       *)
(* IxScan find exactly the entries of the index (ix_index_handle.cpp,      *)
(* ix_scan.cpp).                                                           *)
SearchExact == TypeOK /\ LookupExact /\ RangeExact

(* The pages at a depth of the tree.                                       *)
Level ==
  LET at[d \in 0..MaxPage] ==
        IF d = 0 THEN {file_hdr.root}
        ELSE UNION {Children(pairs(p)) : p \in {q \in at[d - 1] : ~node[q].is_leaf}}
  IN  at

(* Between calls the tree is balanced, its parent and backward leaf links  *)
(* agree with its child and forward links, every node but the root is at   *)
(* least half full, and num_pages counts its pages.                        *)
TreeShape ==
  (Settled /\ ~is_empty) =>
    LET pages == UNION {Level[d] : d \in 0..MaxPage}
    IN  /\ file_hdr.num_pages = Cardinality(pages) + 2
        /\ \A d \in 0..MaxPage : \A p, q \in Level[d] : node[p].is_leaf = node[q].is_leaf
        /\ node[file_hdr.root].parent = IX_NO_PAGE
        /\ \A p \in pages : ~node[p].is_leaf =>
             \A c \in Children(pairs(p)) : node[c].parent = p
        /\ \A p \in pages \ {file_hdr.root} : Len(pairs(p)) \in min_size..Order
        /\ \A p \in pages : (node[p].is_leaf /\ p # file_hdr.last) =>
             node[node[p].next].prev = p

(* What the executors rely on after any call: every entry is found.        *)
EveryKeyFound == todo = Nothing => \A k \in Key : entries[k] # NoRid => get_value(k) = entries[k]
=============================================================================
