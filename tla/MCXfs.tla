------------------------------- MODULE MCXfs --------------------------------
(* A small file system with inodes in three allocation groups, and         *)
(* directories and links of every format, files and directories of one     *)
(* extent, of several, with an extent tree and with a hole.                *)
EXTENDS Xfs, TLC

(* Inode i of block b of group g, and block b of group g, as the disk      *)
(* numbers them, and where they are, counting blocks from its start.       *)
Ino(g, b, i) == g * 8 + b * 2 + i
Fsb(g, b) == g * 4 + b
Nth(g, b) == g * 3 + b
At(g, b, i) == <<Nth(g, b) * 4, i>>

Root == Ino(0, 1, 0)

Obj(mode, entries, bytes, target, sparse) ==
    [mode |-> mode, entries |-> entries, bytes |-> bytes, target |-> target, sparse |-> sparse]

File(bytes) == Obj("reg", <<>>, bytes, <<>>, FALSE)
Link(target) == Obj("lnk", <<>>, <<>>, target, FALSE)
Dir(entries) == Obj("dir", entries, <<>>, <<>>, FALSE)

(* An inode is known here by its place: the number its entry has, and what *)
(* is there.                                                               *)
a == Ino(0, 1, 1)  \* a file of two extents
b == Ino(1, 0, 0)  \* a file with an extent tree of two levels and one leaf
c == Ino(1, 0, 1)  \* a file whose extent tree has two leaves
h == Ino(2, 0, 0)  \* a file with a hole
d == Ino(2, 0, 1)  \* a directory in its inode
f == Ino(2, 1, 0)  \* a file in d
w == Ino(2, 1, 1)  \* a directory with an index
g == Ino(1, 2, 1)  \* one with a freed block
x == Ino(0, 2, 0)  \* one with an extent tree of one leaf
v == Ino(0, 2, 1)  \* one whose extent tree has two
l == Ino(1, 1, 0)  \* links
e == Ino(1, 1, 1)
s == Ino(2, 2, 0)
q == Ino(2, 2, 1)
t == Ino(1, 2, 0)

Text(n, k) == [i \in 1 .. k |-> n \o ToString(i)]

(* What the files hold and the links say, and the entries of directories.  *)
A == Text("a", 19)
B == Text("b", 26)
C == Text("c", 16)
F == Text("f", 3)
H == Text("h", 8) \o [i \in 1 .. 8 |-> "0"] \o Text("i", 8)
L == <<"d", "/", "f">>
E == <<"/", "a">>
S == <<"s">>
Q == <<"l">>
T == <<"d", "/", "d", "/", "d", "/", "f">>

RootEntries ==
    ("." :> Root) @@ (".." :> Root) @@ ("a" :> a) @@ ("b" :> b) @@ ("c" :> c) @@ ("h" :> h)
    @@ ("d" :> d) @@ ("w" :> w) @@ ("l" :> l) @@ ("e" :> e) @@ ("s" :> s) @@ ("q" :> q) @@ ("t" :> t)
    @@ ("g" :> g) @@ ("x" :> x) @@ ("v" :> v)

Of(self, more) == ("." :> self) @@ (".." :> Root) @@ more

InD == Of(d, ("f" :> f) @@ ("r" :> a))
InW == Of(w, ("f" :> f) @@ ("l" :> l) @@ ("z" :> a))
InG == Of(g, ("f" :> f) @@ ("l" :> l) @@ ("z" :> a))
InX == Of(x, "f" :> f)
InV == Of(v, "f" :> f)

Objs ==
    (Root :> Dir(RootEntries)) @@ (a :> File(A)) @@ (b :> File(B)) @@ (c :> File(C)) @@ (f :> File(F))
    @@ (h :> Obj("reg", <<>>, H, <<>>, TRUE))
    @@ (d :> Dir(InD)) @@ (w :> Dir(InW)) @@ (g :> Dir(InG)) @@ (x :> Dir(InX)) @@ (v :> Dir(InV))
    @@ (l :> Link(L)) @@ (e :> Link(E)) @@ (s :> Link(S)) @@ (q :> Link(Q)) @@ (t :> Link(T))

(* An extent record.                                                       *)
Ext(offset, fsb, len) ==
    [l0 |-> offset \div 8, l1 |-> (offset % 8) * 2 + (fsb \div 64), l2 |-> (fsb \div 4) % 16,
     l3 |-> (fsb % 4) * 4 + len]

(* The entries of a directory in order; blks[i] is the block entry i is in. *)
Slots(entries, order, blks) == [i \in DOMAIN order |->
    [name |-> order[i], ino |-> IF order[i] = "(free)" THEN 0 ELSE entries[order[i]],
     blk |-> blks[i]]]

InOneBlock(order) == [i \in DOMAIN order |-> 0]

InInode(entries, parent, order) ==
    [mode |-> "dir", format |-> "local", size |-> 0, count |-> Len(order), parent |-> parent,
     slots |-> Slots(entries, order, InOneBlock(order))]

OneBlock(entries, stale, order) ==
    [mode |-> "dir", format |-> "extents", magic |-> "block", size |-> bsize,
     slots |-> Slots(entries, order, InOneBlock(order)), recs |-> <<Ext(0, Fsb(8, 0), 1)>>,
     count |-> Cardinality({i \in DOMAIN order : order[i] # "(free)"}) + stale, stale |-> stale]

(* The index is a node over two leaves that hold n and the other entries.  *)
Indexed(entries, n, stale, order, blks, recs) ==
    LET all == Cardinality({i \in DOMAIN order : order[i] # "(free)"})
        leaf(k, z, next) == [magic |-> "leaf", before |-> 0, count |-> k + z, stale |-> z, forw |-> next]
    IN  [mode |-> "dir", format |-> "extents", magic |-> "data", size |-> (blks[Len(blks)] + 1) * bsize,
         slots |-> Slots(entries, order, blks), recs |-> recs,
         leaves |-> (LeafBase :> [magic |-> "node", before |-> LeafBase + 1, count |-> 2,
                                  stale |-> 0, forw |-> 0])
                 @@ (LeafBase + 1 :> leaf(n, stale, LeafBase + 2))
                 @@ (LeafBase + 2 :> leaf(all - n, stale, 0))]

(* The same with its extents in a tree.                                    *)
Treed(i, fsb) == [i EXCEPT !.format = "btree"] @@ ("ptr0" :> fsb)

IndexAt(fsb) == Ext(LeafBase, fsb, 3)

Extents(mode, text, recs) == [mode |-> mode, format |-> "extents", recs |-> recs, size |-> Len(text)]

Tree(text, fsb) == [mode |-> "reg", format |-> "btree", size |-> Len(text), ptr0 |-> fsb]

Short(text) == [mode |-> "lnk", format |-> "local", size |-> Len(text), bytes |-> text]

Order == <<".", "..", "(free)", "a", "b", "c", "h", "(free)", "d", "w", "l", "e", "s", "q", "t", "g", "x", "v">>

Inodes(root) ==
    (At(0, 1, 0) :> root)
    @@ (At(0, 1, 1) :> Extents("reg", A, <<Ext(0, Fsb(4, 1), 2), Ext(2, Fsb(3, 0), 1)>>))
    @@ (At(1, 0, 0) :> Tree(B, Fsb(4, 0))) @@ (At(1, 0, 1) :> Tree(C, Fsb(6, 0)))
    @@ (At(2, 0, 0) :> Extents("reg", H, <<Ext(0, Fsb(17, 0), 1), Ext(2, Fsb(17, 1), 1)>>))
    @@ (At(2, 0, 1) :> InInode(InD, Root, <<"f", "r">>))
    @@ (At(2, 1, 0) :> Extents("reg", F, <<Ext(0, Fsb(3, 1), 1)>>))
    @@ (At(2, 1, 1) :> Indexed(InW, 2, 1, <<".", "(free)", "..", "f", "l", "z">>, <<0, 0, 0, 1, 1, 2>>,
                               <<Ext(0, Fsb(8, 0), 1), Ext(1, Fsb(8, 2), 2), IndexAt(Fsb(9, 0))>>))
    @@ (At(1, 2, 1) :> Indexed(InG, 2, 0, <<".", "..", "f", "l", "z">>, <<0, 0, 0, 2, 3>>,
                               <<Ext(0, Fsb(8, 0), 1), Ext(2, Fsb(8, 2), 1), Ext(3, Fsb(9, 0), 1),
                                 IndexAt(Fsb(10, 0))>>))
    @@ (At(0, 2, 0) :> Treed(Indexed(InX, 2, 0, <<".", "..", "f">>, <<0, 0, 0>>, <<>>), Fsb(11, 0)))
    @@ (At(0, 2, 1) :> Treed(Indexed(InV, 2, 0, <<".", "..", "f">>, <<0, 0, 0>>, <<>>), Fsb(11, 1)))
    @@ (At(1, 1, 0) :> Short(L)) @@ (At(1, 1, 1) :> Extents("lnk", E, <<Ext(0, Fsb(3, 2), 1)>>))
    @@ (At(2, 2, 0) :> Short(S)) @@ (At(2, 2, 1) :> Short(Q)) @@ (At(1, 2, 0) :> Short(T))

Part(text, k) == SubSeq(text \o [i \in 1 .. bsize |-> "?"], k + 1, k + bsize)

Data ==
    (Nth(4, 1) :> Part(A, 0)) @@ (Nth(4, 2) :> Part(A, 8))
    @@ (Nth(3, 0) :> Part(A, 16)) @@ (Nth(3, 1) :> Part(F, 0))
    @@ (Nth(3, 2) :> Part(E, 0))
    @@ (Nth(5, 0) :> Part(B, 0)) @@ (Nth(5, 2) :> Part(B, 8))
    @@ (Nth(12, 0) :> Part(B, 16)) @@ (Nth(12, 2) :> Part(B, 24))
    @@ (Nth(6, 1) :> Part(C, 0)) @@ (Nth(6, 2) :> Part(C, 8))
    @@ (Nth(17, 0) :> Part(H, 0)) @@ (Nth(17, 1) :> Part(H, 16))

(* The blocks of the extent trees of b, c, x and v.                        *)
Btree ==
    LET node(ptr) == [level |-> 1, ptr0 |-> ptr, recs |-> <<>>]
        leaf(recs) == [level |-> 0, ptr0 |-> 0, recs |-> recs]
    IN  (Nth(4, 0) * 4 :> node(Fsb(5, 1)))
        @@ (Nth(5, 1) * 4 :> leaf(<<Ext(0, Fsb(5, 0), 1), Ext(1, Fsb(5, 2), 1), Ext(2, Fsb(12, 0), 1),
                                     Ext(3, Fsb(12, 2), 1)>>))
        @@ (Nth(6, 0) * 4 :> node(Fsb(7, 0)))
        @@ (Nth(7, 0) * 4 :> leaf(<<Ext(0, Fsb(6, 1), 1)>>))
        @@ (Nth(7, 1) * 4 :> leaf(<<Ext(1, Fsb(6, 2), 1)>>))
        @@ (Nth(11, 0) * 4 :> leaf(<<Ext(0, Fsb(8, 0), 1), IndexAt(Fsb(9, 0))>>))
        @@ (Nth(11, 1) * 4 :> leaf(<<Ext(0, Fsb(8, 0), 1)>>))

Image(super, root) ==
    [objs |-> Objs, root |-> Root, super |-> super, inodes |-> Inodes(root), data |-> Data,
     btree |-> Btree]

RootIndexed ==
    Indexed(RootEntries, 5, 2, Order, InOneBlock(Order), <<Ext(0, Fsb(8, 0), 1), IndexAt(Fsb(9, 0))>>)

MCImages ==
    << Image("XFSB4", OneBlock(RootEntries, 2, Order)), Image("XFSB4", RootIndexed),
       Image("XFSB4", InInode(RootEntries, Root, SelectSeq(Order, LAMBDA n : n \notin {".", "..", "(free)"}))),
       Image("XFSB5", OneBlock(RootEntries, 0, Order)) >>

MCRequests ==
    { <<"/", "a">>, <<"b">>, <<"/", "c">>, <<"/", "h">>, <<"/", "d", "/", "f">>, <<"/", "d">>,
      <<"/", "d", "/">>, <<"/", "w", "/", "z">>, <<"/", "w", "/", "l">>, <<"/", "l">>, <<"/", "e">>,
      <<"/", "s">>, <<"/", "q">>, <<"/", "t">>, <<"/", "a", "/", "a">>, <<"/", "/", "d", "/", ".", "/", "r">>,
      <<"/", "w", "/", "..", "/", "b">>, <<"/", "d", "/", "..", "/", "b">>, <<"/", "y">>,
      <<"/", "l", "/", "a", "/", "a", "/", "a">>, <<"/", "w", "/", "y">>,
      <<"/", "g", "/", "f">>, <<"/", "g", "/", "l">>, <<"/", "g", "/", "z">>, <<"/", "x", "/", "f">>,
      <<"/", "v", "/", "f">> }
=============================================================================
