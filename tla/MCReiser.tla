------------------------------ MODULE MCReiser ------------------------------
(* A small file system with a file, a directory and links of every kind,   *)
(* laid out in trees of depth 1 to 3, with and without a journal.          *)
EXTENDS ReiserFS, FiniteSetsExt

Obj(dir, mode, entries, bytes, target) ==
    [dir |-> dir, mode |-> mode, entries |-> entries, bytes |-> bytes, target |-> target]

File(dir, bytes) == Obj(dir, "reg", <<>>, bytes, <<>>)
Link(dir, target) == Obj(dir, "lnk", <<>>, <<>>, target)
Dir(dir, entries) == Obj(dir, "dir", entries, <<>>, <<>>)

Objs ==
    [o \in {2, 3, 5, 6, 7, 8, 9, 10} |->
        CASE o = 2 -> Dir(1, [n \in {"a", "d", "l", "s", "m"} |->
                                CASE n = "a" -> 5 [] n = "d" -> 3 [] n = "l" -> 6
                                  [] n = "s" -> 7 [] n = "m" -> 8])
          [] o = 3 -> Dir(2, [n \in {"f", "u"} |-> IF n = "f" THEN 9 ELSE 10])
          [] o = 5 -> File(2, <<"p1", "p2", "p3", "p4", "p5">>)
          [] o = 6 -> Link(2, <<"d", "/", "f">>)
          [] o = 7 -> Link(2, <<"s">>)
          [] o = 8 -> Link(2, <<"/", "a">>)
          [] o = 9 -> File(3, <<"q1", "q2", "q3">>)
          [] o = 10 -> Link(3, <<"f">>)]

Key(o, off) == [dir |-> Objs[o].dir, obj |-> o, off |-> off]

Item(o, off, type) == Key(o, off) @@ [type |-> type]

Stat(o) ==
    Item(o, 0, "stat") @@ [mode |-> Objs[o].mode,
                           size |-> Len(Objs[o].bytes) + Len(Objs[o].target)]

Entry(n, o, vis) == [name |-> n, dir |-> Objs[o].dir, obj |-> o, visible |-> vis]

DirItem(o, off, es) == Item(o, off, "dir") @@ [entries |-> es]
Direct(o, off, bytes) == Item(o, off, "direct") @@ [bytes |-> bytes]
Indirect(o, off, ptrs) == Item(o, off, "indirect") @@ [ptrs |-> ptrs]

(* All items in key order; "h" was deleted.                                *)
Items ==
    << Stat(2), DirItem(2, 1, <<Entry("h", 5, FALSE), Entry("a", 5, TRUE), Entry("d", 3, TRUE)>>),
       DirItem(2, 2, <<Entry("l", 6, TRUE), Entry("s", 7, TRUE), Entry("m", 8, TRUE)>>),
       Stat(3), DirItem(3, 1, <<Entry("f", 9, TRUE), Entry("u", 10, TRUE)>>),
       Stat(5), Indirect(5, 1, <<70>>), Indirect(5, 3, <<71>>), Direct(5, 5, <<"p5">>),
       Stat(6), Direct(6, 1, Objs[6].target), Stat(7), Direct(7, 1, Objs[7].target),
       Stat(8), Direct(8, 1, Objs[8].target), Stat(9), Direct(9, 1, Objs[9].bytes),
       Stat(10), Direct(10, 1, Objs[10].target) >>

Data == [b \in {0, 70, 71} |-> CASE b = 0 -> <<"z", "z">> [] b = 70 -> <<"p1", "p2">>
                               [] b = 71 -> <<"p3", "p4">>]

Leaf(its) == [level |-> 1, keys |-> <<>>, kids |-> <<>>, items |-> its]

FirstKey(its, i) == [f \in {"dir", "obj", "off"} |-> its[i][f]]

(* A node over the n children behind the first k, whose blocks follow base *)
(* and which have `span' items each.                                       *)
Inner(its, level, base, k, n, span) ==
    [level |-> level, items |-> <<>>, kids |-> [i \in 1 .. n |-> base + k + i],
     keys |-> [i \in 1 .. n - 1 |-> FirstKey(its, (k + i) * span + 1)]]

Up(n, d) == (n + d - 1) \div d

(* Which items are under the nodes: there are spans[1] of them under those *)
(* with blocks behind 100, spans[2] behind 200, spans[3] behind 300.       *)
Order(its, nodes, spans) ==
    LET first(b) == ((b % 100) - 1) * spans[b \div 100] + 1
    IN  [items |-> its, first |-> [b \in nodes |-> first(b)],
         last |-> [b \in nodes |-> Min({first(b) + spans[b \div 100] - 1, Len(its)})]]

(* A tree with `per' items a leaf and `fan' children a node: the nodes,    *)
(* the block of the root, and its order.                                   *)
Tree(its, per, fan) ==
    LET leaves == Up(Len(its), per)
        mids == Up(leaves, fan)
        low == [b \in 101 .. 100 + leaves |->
                   Leaf(SubSeq(its, (b - 101) * per + 1, Min({(b - 100) * per, Len(its)})))]
        mid == [b \in 201 .. 200 + mids |->
                   Inner(its, 2, 100, (b - 201) * fan, Min({fan, leaves - (b - 201) * fan}), per)]
        top == [b \in {301} |-> Inner(its, 3, 200, 0, mids, per * fan)]
        put(nodes, root) ==
            [nodes |-> nodes, root |-> root,
             order |-> Order(its, DOMAIN nodes, <<per, per * fan, Len(its)>>)]
    IN  CASE leaves = 1 -> put(low, 101)
          [] leaves > 1 /\ mids = 1 -> put(low @@ mid, 201)
          [] OTHER -> put(low @@ mid @@ top, 301)

Super(magic, version, journal, size, root) ==
    [magic |-> magic, version |-> version, bs |-> blocksize, journal |-> journal,
     size |-> size, root |-> root]

Raw(n) == le32_to_cpu(n)

Blank == [magic |-> FALSE, id |-> 0, mount |-> 0, len |-> 0, real |-> <<>>]
Desc(id, mount, real) ==
    [magic |-> TRUE, id |-> Raw(id), mount |-> mount, len |-> Len(real), real |-> real]
Commit(id, len) == [Blank EXCEPT !.id = Raw(id), !.len = len]

Header(last, first) == [last |-> Raw(last), first |-> first, mount |-> 1]

Image(tree, new, old, head, log, sound) ==
    [objs |-> Objs, nodes |-> tree.nodes, order |-> tree.order, new |-> new, old |-> old,
     head |-> head, log |-> log, data |-> Data, sound |-> sound,
     roots |-> (16 :> new.root) @@ (2 :> old.root) @@ (51 :> 102)]

NoLog == [k \in {0} |-> Blank]

Plain(tree) ==
    Image(tree, Super("ReIsEr2Fs", 2, 0, 0, tree.root), NoSuper, Header(0, 0), NoLog, TRUE)

Old(tree, magic) ==
    Image(tree, NoSuper, Super(magic, 1, 0, 0, tree.root), Header(0, 0), NoLog, TRUE)

(* The journal is in blocks 50 to 53; the copy of the leaf 101 it holds    *)
(* has no entries.                                                         *)
Journalled(tree, j) ==
    LET copy == [tree.nodes[101] EXCEPT !.items[2].entries = <<>>]
    IN  Image([tree EXCEPT !.nodes = @ @@ [n \in {51} |-> copy]],
              Super("ReIsEr2Fs", 2, 50, 4, tree.root), NoSuper, j.head,
              (0 :> j.desc) @@ (1 :> Blank) @@ (2 :> j.commit) @@ (3 :> Blank), TRUE)

(* Journals without a committed transaction that is still to be flushed:   *)
(* all flushed, a crash before the commit block, another mount, an older   *)
(* lap; and one whose blocks are in place.                                 *)
Journals ==
    LET j(head, desc, commit) == [head |-> head, desc |-> desc, commit |-> commit]
    IN  { j(Header(4, 3), Desc(4, 1, <<101>>), Commit(4, 1)),
          j(Header(4, 0), Desc(5, 1, <<101>>), Commit(4, 1)),
          j(Header(4, 0), Desc(5, 9, <<101>>), Commit(5, 1)),
          j(Header(4, 4), Desc(5, 1, <<101>>), Commit(5, 1)),
          j(Header(5, 0), Desc(6, 1, <<102>>), Commit(6, 1)) }

(* A committed transaction that is still to be flushed: the blocks it      *)
(* rewrites are read from the wrong table (see Translations).              *)
Replayed(tree) ==
    [Journalled(tree, [head |-> Header(4, 0), desc |-> Desc(5, 1, <<101>>),
                       commit |-> Commit(5, 1)]) EXCEPT !.sound = FALSE]

(* A committed transaction that has rewritten the super block.             *)
Moved(tree) ==
    [Journalled(tree, [head |-> Header(4, 0), desc |-> Desc(5, 1, <<16>>),
                       commit |-> Commit(5, 1)]) EXCEPT !.sound = FALSE]

(* Blocks of another size than 4096 bytes: where the super block is looked *)
(* for again there is something else.                                      *)
Elsewhere(tree, root) ==
    [Journalled(tree, [head |-> Header(4, 3), desc |-> Desc(4, 1, <<101>>),
                       commit |-> Commit(4, 1)]) EXCEPT !.sound = FALSE, !.roots[16] = root]

(* No super block, one of another version, a journal of a strange size, a  *)
(* node in a leaf's place, a tree that is too high.                        *)
Odd(tree) ==
    LET s(version, journal, size) == Super("ReIsErFs", version, journal, size, tree.root)
        no(new) == Image(tree, new, NoSuper, Header(0, 0), NoLog, FALSE)
        bad(tr) == Image(tr, s(2, 0, 0), NoSuper, Header(0, 0), NoLog, FALSE)
    IN  { no(NoSuper), no(s(3, 0, 0)), no(s(2, 50, 3)),
          bad([tree EXCEPT !.nodes[102] = tree.nodes[201]]),
          bad([tree EXCEPT !.nodes[201].level = 4]) }

Disks(its) ==
    {Plain(tree) : tree \in {Tree(its, 2, 3), Tree(its, 3, 9)}}
    \cup {Old(tree, magic) : tree \in {Tree(its, 50, 3)}, magic \in {"prejournal", "ReIsErFs"}}
    \cup UNION {{Journalled(tree, j) : j \in Journals} \cup {Replayed(tree), Moved(tree)}
                   \cup {Elsewhere(tree, root) : root \in {0, 103}} \cup Odd(tree) :
                    tree \in {Tree(its, 4, 9)}}

MCDisks == Disks(Items)

MCRequests ==
    { <<"/", "a">>, <<"/", "d", "/", "f">>, <<"/", "l">>, <<"/", "s">>, <<"m">>,
      <<"/", "d", "/", "u">>, <<"/", "h">>, <<"/", "a", "/", "a">>, <<"/", "d">>,
      <<"/", "d", "/">>, <<"/", "l", "/", "a", "/", "a", "/", "a">>,
      <<"/", "/", "d", "/", "d">> }
=============================================================================
