----------------------------- MODULE ReiserTree -----------------------------
(***************************************************************************)
(* The ReiserFS tree as fs_reiserfs.c walks it: a cache of the nodes on    *)
(* the path to the current leaf, search_stat to find the first item of an  *)
(* object and next_key to go on to the item after the current one.         *)
(*                                                                         *)
(* A node has a level; a leaf has items, an inner node keys and children.  *)
(* The tree state t is the part of INFO the walk uses: depth; root and     *)
(* cache, the blocks whose contents the buffers hold (0 for zeros); blocks *)
(* and next (by depth), cur (the current item's place in the leaf,         *)
(* 0 for the delimiting key behind the last one), tr (the blocks that are  *)
(* read from the journal instead), and errnum.  t.ok is what the operation *)
(* returned and t.hit tells that the fault it was given happened.          *)
(*                                                                         *)
(* A fault is a read that fails at one depth: "zero" when it returns 0,    *)
(* "minus" when the firmware returns -1, which block_read's callers take   *)
(* for success with the buffer as it was.                                  *)
(***************************************************************************)
EXTENDS Integers, Sequences, SequencesExt, FiniteSets

CONSTANTS
    Images,                     \* disk images; those of block 0 are never nodes
    cached_slots,               \* tree nodes besides the root that fit FSYS_BUF
    REISERFS_MAX_TREE_HEIGHT

VARIABLE
    disk    \* what is on the disk

Depths == 1 .. REISERFS_MAX_TREE_HEIGHT - 1

NoFault == [at |-> 0, kind |-> "none"]

(* A buffer of zeros.                                                      *)
ZeroNode == [level |-> 0, keys |-> <<>>, kids |-> <<>>, items |-> <<>>]

(* The item a dummy MAX_KEY stands for: it belongs to no object.           *)
MaxItem == [dir |-> -1, obj |-> -1, off |-> 0, type |-> "any"]

EmptyTree ==
    [root |-> 0, depth |-> 0, cache |-> [d \in Depths |-> 0],
     blocks |-> [d \in Depths |-> 0], next |-> [d \in Depths |-> 0], cur |-> 0,
     tr |-> <<>>, errnum |-> "OK", ok |-> TRUE, hit |-> FALSE]

(* The node in a buffer.                                                   *)
Node(nr) == IF nr \in DOMAIN disk.nodes THEN disk.nodes[nr] ELSE ZeroNode

Slot(d) == IF d < cached_slots THEN d ELSE cached_slots

LEAF(t) == Node(t.cache[Slot(1)])

(* The node at depth d of the current path.                                *)
Cached(t, d) == Node(IF d = t.depth THEN t.root ELSE t.cache[Slot(d)])

CurrentItem(t) == IF t.cur \in DOMAIN LEAF(t).items THEN LEAF(t).items[t.cur] ELSE MaxItem

(* The accessors of an item, whichever version of the format it has.       *)
IH_KEY_OFFSET(item) == item.off

IH_KEY_ISTYPE(item, type) == item.type = type

sd_mode(item) == item.mode

sd_size(item) == item.size

(* block_read of a tree node: the block the journal has for it, if any.    *)
block_read(t, b) == IF b \in DOMAIN t.tr THEN t.tr[b] ELSE b

(* Mutant: the block in the cache is not compared.                         *)
cache_hit_any(t, b, d) == d < cached_slots /\ t.blocks[d] # 0

CacheHit(t, b, d) == d < cached_slots /\ t.blocks[d] = b

read_tree_node(t, b, d, fault) ==
    IF CacheHit(t, b, d)
    THEN [t EXCEPT !.ok = TRUE, !.errnum = "OK"]
    ELSE IF fault.at = d /\ fault.kind = "zero"
    THEN [t EXCEPT !.ok = FALSE, !.errnum = "OK", !.hit = TRUE]
    ELSE LET stale == fault.at = d /\ fault.kind = "minus"
             n == IF stale THEN t.cache[Slot(d)] ELSE block_read(t, b)
             good == Node(n).level = d
         IN  [t EXCEPT !.cache[Slot(d)] = n, !.ok = good,
                       !.errnum = IF good THEN "OK" ELSE "BAD_FSYS",
                       !.blocks[d] = IF good THEN b ELSE @,
                       !.hit = @ \/ stale]

(***************************************************************************)
(* search_stat.  Children and next_key_nr count from 0; nr_item is the     *)
(* number of keys, one less than the number of children.                   *)
(***************************************************************************)
(* A key sorts after the stat item of the object.                          *)
After(key, dir, obj) ==
    \/ key.dir > dir
    \/ key.dir = dir /\ (key.obj > obj \/ (key.obj = obj /\ key.off > 0))

Branch(node, dir, obj) ==
    LET i == SelectInSeq(node.keys, LAMBDA k : After(k, dir, obj))
    IN  IF i = 0 THEN Len(node.keys) ELSE i - 1

Child(node, i) == IF i + 1 \in DOMAIN node.kids THEN node.kids[i + 1] ELSE 0

DescendTo(t, d, i, fault) ==
    read_tree_node([t EXCEPT !.next[d] = IF i = Len(Cached(t, d).keys) THEN 0 ELSE i + 1],
                   Child(Cached(t, d), i), d - 1, fault)

FindStat(t, dir, obj) ==
    LET i == SelectInSeq(LEAF(t).items, LAMBDA x : x.dir = dir /\ x.obj = obj /\ x.type = "stat")
    IN  IF i = 0 THEN [t EXCEPT !.ok = FALSE, !.errnum = "BAD_FSYS"]
        ELSE [t EXCEPT !.ok = TRUE, !.cur = i]

(* The child to go to at depth d: the next one, which next_key_nr[d]++     *)
(* takes, or the one that leads to an object.                              *)
Choice(t, d, goal) ==
    IF goal.next THEN t.next[d] ELSE Branch(Cached(t, d), goal.dir, goal.obj)

(* Down from depth top to the leaf.                                        *)
Descend(t, top, goal, fault) ==
    LET at[d \in 1 .. top] ==
            IF d = top THEN t
            ELSE LET above == at[d + 1]
                 IN  IF above.ok THEN DescendTo(above, d + 1, Choice(above, d + 1, goal), fault)
                     ELSE above
    IN  at[1]

search_stat(t, dir, obj, fault) ==
    LET start == [t EXCEPT !.errnum = "OK", !.ok = TRUE]
        low == IF t.depth < 1 THEN start
               ELSE Descend(start, t.depth, [next |-> FALSE, dir |-> dir, obj |-> obj], fault)
    IN  IF low.ok THEN FindStat(low, dir, obj) ELSE low

(***************************************************************************)
(* next_key: the item behind the current one, in this leaf or in the next  *)
(* one; the first inner node above that has children left leads to it.     *)
(***************************************************************************)
NextLeaf(t, top, fault) ==
    LET low == Descend([t EXCEPT !.ok = TRUE], top, [next |-> TRUE], fault)
    IN  IF low.ok THEN [low EXCEPT !.cur = 1] ELSE low

(* A node that is not in the cache is asked for with the depth below it,   *)
(* whose level it cannot have.                                             *)
Uncached(t, d, fault) == read_tree_node(t, t.blocks[d], d - 1, fault)

next_key(t, fault) ==
    LET up == {d \in 2 .. t.depth : t.next[d] # 0}
        top == CHOOSE d \in up : \A e \in up : d <= e
    IN  IF t.cur # Len(LEAF(t).items)
        THEN [t EXCEPT !.cur = IF @ = 0 THEN 0 ELSE @ + 1, !.ok = TRUE]
        ELSE IF up = {} THEN [t EXCEPT !.cur = 0, !.ok = TRUE]
        ELSE IF top = t.depth \/ top <= cached_slots THEN NextLeaf(t, top, fault)
        ELSE LET u == Uncached(t, top, fault)
             IN  IF u.ok THEN NextLeaf(u, top - 1, fault) ELSE u

-----------------------------------------------------------------------------
(***************************************************************************)
(* A tree in order.  disk.order says what the tree of a sound disk is like:*)
(* items, all items in the order of their keys, and for every node of the  *)
(* tree the numbers of the first and the last item under it.               *)
(***************************************************************************)
KeyBefore(a, b) ==
    \/ a.dir < b.dir
    \/ a.dir = b.dir /\ (a.obj < b.obj \/ (a.obj = b.obj /\ a.off < b.off))

InKeyOrder(all) ==
    /\ DOMAIN all = 1 .. Len(all)
    /\ \A i \in DOMAIN all : /\ all[i].dir \in Nat /\ all[i].obj \in Nat /\ all[i].off \in Nat
                             /\ all[i].type = "stat" <=> all[i].off = 0
    /\ \A i, j \in DOMAIN all : i < j => KeyBefore(all[i], all[j])

(* A leaf holds the items with these numbers.                              *)
IsLeaf(node, all, first, last) ==
    /\ first <= last /\ Len(node.items) = last - first + 1
    /\ DOMAIN node.items = 1 .. Len(node.items)
    /\ \A i \in DOMAIN node.items : first + i - 1 \in DOMAIN all /\ node.items[i] = all[first + i - 1]

(* The children of an inner node share its items, one behind the other; a  *)
(* key is that of the first item of the child behind it.                   *)
IsInner(node, d, b) ==
    LET o == d.order
        kids == node.kids
        n == Len(node.keys)
    IN  /\ n \in Nat /\ DOMAIN node.keys = 1 .. n /\ DOMAIN kids = 1 .. n + 1
        /\ \A i \in 1 .. n + 1 : kids[i] \in DOMAIN o.first /\ d.nodes[kids[i]].level = node.level - 1
        /\ o.first[kids[1]] = o.first[b] /\ o.last[kids[n + 1]] = o.last[b]
        /\ \A i \in 1 .. n :
              /\ o.first[kids[i + 1]] = o.last[kids[i]] + 1
              /\ o.first[kids[i + 1]] \in DOMAIN o.items
              /\ LET x == o.items[o.first[kids[i + 1]]]
                 IN  node.keys[i] = [dir |-> x.dir, obj |-> x.obj, off |-> x.off]

(* The tree under a root is in order, and it fits the cache: a level that  *)
(* does not is one next_key cannot find again.                             *)
InOrder(d, root) ==
    LET o == d.order
    IN  /\ InKeyOrder(o.items)
        /\ DOMAIN o.first \subseteq DOMAIN d.nodes \ {0} /\ DOMAIN o.last = DOMAIN o.first
        /\ root \in DOMAIN o.first /\ o.first[root] = 1 /\ o.last[root] = Len(o.items)
        /\ d.nodes[root].level \in Depths /\ d.nodes[root].level <= cached_slots + 1
        /\ \A b \in DOMAIN o.first :
              /\ o.first[b] \in Nat /\ o.last[b] \in Nat /\ d.nodes[b].level \in Nat \ {0}
              /\ IF d.nodes[b].level = 1 THEN IsLeaf(d.nodes[b], o.items, o.first[b], o.last[b])
                 ELSE IsInner(d.nodes[b], d, b)
=============================================================================
