----------------------------- MODULE XfsProofs ------------------------------
(***************************************************************************)
(* What xfs_open finds and xfs_read reads, for every image in order, every *)
(* request, any geometry of the disk and any number of reads: on a disk    *)
(* that can be read the lookup ends as the path says, and the reads of the *)
(* file implement FileReader, also when reads of the disk fail, those of   *)
(* directory blocks and of the nodes and records of extent trees included. *)
(***************************************************************************)
EXTENDS Xfs, WellFoundedInduction, TLAPS

(***************************************************************************)
(* The walk along a path.                                                  *)
(***************************************************************************)
Start(d, p) == [at |-> d.root, up |-> d.root, rest |-> p, links |-> 0, res |-> "going"]

Step(d, w) == PathStep(d.objs, d.root, MAX_LINK_COUNT, TooLong, w)

IsWalk(d, p, n, f) == f = [k \in 0 .. n |-> IF k = 0 THEN Start(d, p) ELSE Step(d, f[k - 1])]

Bound(p) == Len(p) + (MAX_LINK_COUNT + 1) * bsize

(* A set of numbers has a least one.                                       *)
LEMMA LeastNumber ==
    ASSUME NEW R, R \subseteq Nat, R # {}
    PROVE  \E x \in R : \A q \in R : x <= q
<1>1. PICK r \in R : \A q \in R : ~(<<q, r>> \in OpToRel(<, Nat))
  BY NatLessThanWellFounded, WFMin, Zenon
<1>2. \A q \in R : r \in Nat /\ q \in Nat /\ ~(q < r)
  <2>1. \A x, y \in Nat : y < x => <<y, x>> \in OpToRel(<, Nat)
    BY DEF OpToRel
  <2> QED BY <1>1, <2>1, Zenon
<1> QED BY <1>2

(* The walk of Resolve exists for every number of steps.                   *)
LEMMA WalkExists ==
    ASSUME NEW d, NEW p, NEW n \in Nat
    PROVE  \E f : IsWalk(d, p, n, f)
<1> DEFINE Bad == {m \in Nat : ~ \E f : IsWalk(d, p, m, f)}
<1> SUFFICES ASSUME Bad # {} PROVE FALSE
  OBVIOUS
<1>1. PICK m \in Bad : \A q \in Bad : m <= q
  <2> HIDE DEF Bad
  <2>1. Bad \subseteq Nat
    BY DEF Bad
  <2> QED BY <2>1, LeastNumber
<1>2. CASE m = 0
  <2> DEFINE f == [k \in 0 .. 0 |-> Start(d, p)]
  <2>1. f = [k \in 0 .. 0 |-> IF k = 0 THEN Start(d, p) ELSE Step(d, f[k - 1])]
    OBVIOUS
  <2> HIDE DEF f
  <2>2. IsWalk(d, p, 0, f)
    BY <2>1 DEF IsWalk
  <2> QED BY <1>2, <2>2
<1>3. CASE m # 0
  <2>1. m - 1 \in Nat /\ m - 1 \notin Bad /\ m \in Nat
    BY <1>1, <1>3
  <2>2. PICK f : IsWalk(d, p, m - 1, f)
    BY <2>1
  <2> DEFINE g == [k \in 0 .. m |-> IF k = m THEN Step(d, f[m - 1]) ELSE f[k]]
  <2>3. ASSUME NEW k \in 0 .. m
        PROVE  g[k] = IF k = 0 THEN Start(d, p) ELSE Step(d, g[k - 1])
    <3>1. CASE k = m
      <4>1. g[k] = Step(d, f[m - 1]) /\ g[m - 1] = f[m - 1] /\ k # 0
        BY <1>3, <2>1, <3>1
      <4> QED BY <3>1, <4>1
    <3>2. CASE k # m
      <4>1. k \in 0 .. m - 1
        BY <2>1, <3>2
      <4>2. f[k] = IF k = 0 THEN Start(d, p) ELSE Step(d, f[k - 1])
        BY <2>2, <4>1 DEF IsWalk
      <4>3. g[k] = f[k] /\ (k # 0 => g[k - 1] = f[k - 1])
        BY <2>1, <3>2, <4>1
      <4> QED BY <4>2, <4>3
    <3> QED BY <3>1, <3>2
  <2>4. g = [k \in 0 .. m |-> IF k = 0 THEN Start(d, p) ELSE Step(d, g[k - 1])]
    <3>1. g = [k \in 0 .. m |-> g[k]]
      OBVIOUS
    <3> HIDE DEF g
    <3> QED BY <2>3, <3>1
  <2> HIDE DEF g
  <2>5. IsWalk(d, p, m, g)
    BY <2>4 DEF IsWalk
  <2> QED BY <2>5
<1> QED BY <1>2, <1>3

(* Resolve is where that walk is in the end.                               *)
LEMMA Resolves ==
    ASSUME NEW d, NEW p, NEW n \in Nat
    PROVE  \E f : /\ IsWalk(d, p, n, f)
                  /\ Resolve(d.objs, d.root, MAX_LINK_COUNT, TooLong, n, p) = f[n]
<1> DEFINE g == CHOOSE g : g = [k \in 0 .. n |-> IF k = 0 THEN Start(d, p) ELSE Step(d, g[k - 1])]
<1>1. IsWalk(d, p, n, g)
  <2>1. \E f : f = [k \in 0 .. n |-> IF k = 0 THEN Start(d, p) ELSE Step(d, f[k - 1])]
    <3>1. PICK f : IsWalk(d, p, n, f)
      BY WalkExists
    <3> QED BY <3>1 DEF IsWalk
  <2>2. g = [k \in 0 .. n |-> IF k = 0 THEN Start(d, p) ELSE Step(d, g[k - 1])]
    BY <2>1
  <2> HIDE DEF g
  <2> QED BY <2>2 DEF IsWalk
<1>2. Resolve(d.objs, d.root, MAX_LINK_COUNT, TooLong, n, p) = g[n]
  BY DEF Resolve, Step, Start
<1> QED BY <1>1, <1>2

(* Once it has come to an end the walk stays there.                        *)
LEMMA WalkEnds ==
    ASSUME NEW d, NEW p, NEW n \in Nat, NEW f, IsWalk(d, p, n, f), NEW k \in 0 .. n,
           f[k].res # "going"
    PROVE  f[n] = f[k]
<1> DEFINE Bad == {m \in k .. n : f[m] # f[k]}
<1> SUFFICES ASSUME Bad # {} PROVE FALSE
  OBVIOUS
<1>1. PICK m \in Bad : \A q \in Bad : m <= q
  <2>1. Bad \subseteq Nat
    OBVIOUS
  <2> HIDE DEF Bad
  <2> QED BY <2>1, LeastNumber
<1>2. m \in k .. n /\ m # k /\ m \in 1 .. n /\ m - 1 \in k .. n
  BY <1>1
<1>3. f[m - 1] = f[k]
  BY <1>1, <1>2
<1>4. f[m] = Step(d, f[m - 1])
  <2>1. m \in 0 .. n /\ m # 0
    BY <1>2
  <2> HIDE DEF Bad
  <2> QED BY <2>1 DEF IsWalk
<1>5. Step(d, f[k]) = f[k]
  BY DEF Step, PathStep
<1> QED BY <1>1, <1>3, <1>4, <1>5

(* The walk along p, which ends with v, comes by w with steps to spare for *)
(* what is left.                                                           *)
Left(w) == Len(w.rest) + (MAX_LINK_COUNT - w.links) * bsize

Leads(d, p, v, w) ==
    \E f : /\ IsWalk(d, p, Bound(p), f) /\ v = f[Bound(p)]
           /\ \E k \in 0 .. Bound(p) : f[k] = w /\ k + Left(w) < Bound(p)

(* The constants a walk is measured by.                                    *)
LEMMA Numbers ==
    /\ bsize \in Nat /\ bsize > 0 /\ MAX_LINK_COUNT \in Nat
    /\ \A m \in Nat : m * bsize \in Nat
    /\ \A m \in Nat : (m + 1) * bsize = m * bsize + bsize
<1>1. bsize \in Nat \ {0} /\ MAX_LINK_COUNT \in Nat
  BY XfsAssumption, Zenon
<1>2. bsize \in Nat /\ bsize > 0 /\ MAX_LINK_COUNT \in Nat
  BY <1>1
<1> QED BY <1>2

(* The walk starts at the root with the whole path.                        *)
LEMMA LeadsStart ==
    ASSUME NEW d, NEW p, Len(p) \in Nat
    PROVE  Leads(d, p, Resolve(d.objs, d.root, MAX_LINK_COUNT, TooLong, Bound(p), p), Start(d, p))
<1>1. Bound(p) \in Nat /\ 0 + Left(Start(d, p)) < Bound(p)
  <2>1. Start(d, p).rest = p /\ Start(d, p).links = 0
    BY DEF Start
  <2>2. MAX_LINK_COUNT * bsize \in Nat /\ (MAX_LINK_COUNT + 1) * bsize = MAX_LINK_COUNT * bsize + bsize
    BY Numbers
  <2>3. MAX_LINK_COUNT - 0 = MAX_LINK_COUNT /\ bsize \in Nat /\ bsize > 0
    BY Numbers
  <2> QED BY <2>1, <2>2, <2>3 DEF Bound, Left
<1>2. PICK f : /\ IsWalk(d, p, Bound(p), f)
               /\ Resolve(d.objs, d.root, MAX_LINK_COUNT, TooLong, Bound(p), p) = f[Bound(p)]
  BY <1>1, Resolves
<1>3. 0 \in 0 .. Bound(p) /\ f[0] = Start(d, p)
  BY <1>1, <1>2 DEF IsWalk
<1> QED BY <1>1, <1>2, <1>3 DEF Leads

(* A step that leaves less to do stays within the number of steps.         *)
LEMMA LeadsOn ==
    ASSUME NEW d, NEW p, Len(p) \in Nat, NEW v, NEW w, Leads(d, p, v, w),
           Left(w) \in Nat, Left(Step(d, w)) \in Nat, Left(Step(d, w)) < Left(w)
    PROVE  Leads(d, p, v, Step(d, w))
<1> DEFINE n == Bound(p)
<1>0. n \in Nat
  BY Numbers DEF Bound
<1>1. PICK f : /\ IsWalk(d, p, n, f) /\ v = f[n]
               /\ \E k \in 0 .. n : f[k] = w /\ k + Left(w) < n
  BY DEF Leads
<1>2. PICK k \in 0 .. n : f[k] = w /\ k + Left(w) < n
  BY <1>1
<1> HIDE DEF n
<1>3. k + 1 \in 0 .. n /\ (k + 1) - 1 = k /\ k + 1 # 0 /\ (k + 1) + Left(Step(d, w)) < n
  BY <1>0, <1>2
<1>4. f[k + 1] = Step(d, w)
  BY <1>1, <1>2, <1>3 DEF IsWalk
<1> QED BY <1>1, <1>3, <1>4 DEF Leads, n

(* A step that ends the walk says what the path names.                     *)
LEMMA LeadsEnd ==
    ASSUME NEW d, NEW p, Len(p) \in Nat, NEW v, NEW w, Leads(d, p, v, w),
           Left(w) \in Nat, Step(d, w).res # "going"
    PROVE  v = Step(d, w)
<1> DEFINE n == Bound(p)
<1>0. n \in Nat
  BY Numbers DEF Bound
<1>1. PICK f : /\ IsWalk(d, p, n, f) /\ v = f[n]
               /\ \E k \in 0 .. n : f[k] = w /\ k + Left(w) < n
  BY DEF Leads
<1>2. PICK k \in 0 .. n : f[k] = w /\ k + Left(w) < n
  BY <1>1
<1> HIDE DEF n
<1>3. k + 1 \in 0 .. n /\ (k + 1) - 1 = k /\ k + 1 # 0
  BY <1>0, <1>2
<1>4. f[k + 1] = Step(d, w)
  BY <1>1, <1>2, <1>3 DEF IsWalk
<1>5. f[n] = f[k + 1]
  BY <1>0, <1>1, <1>3, <1>4, WalkEnds
<1> QED BY <1>1, <1>4, <1>5

(* A name has at least one character, a path is made of names and slashes. *)
Name == STRING \ {""}

Text == Seq(Name)

(* The places a walk can be at before its end.                             *)
Sites(d) == [at : DOMAIN d.objs, up : DOMAIN d.objs, rest : Text, links : 0 .. MAX_LINK_COUNT,
             res : {"going"}]

(* What is left to do is a number.                                         *)
LEMMA LeftIsNat ==
    ASSUME NEW d, NEW w \in Sites(d)
    PROVE  Left(w) \in Nat /\ Len(w.rest) \in Nat
<1>1. w.rest \in Text /\ w.links \in 0 .. MAX_LINK_COUNT
  BY DEF Sites
<1>2. Len(w.rest) \in Nat
  BY <1>1 DEF Text
<1>3. MAX_LINK_COUNT - w.links \in Nat
  BY <1>1, Numbers
<1>4. (MAX_LINK_COUNT - w.links) * bsize \in Nat
  BY <1>3, Numbers
<1> QED BY <1>2, <1>4 DEF Left

(* Dropping the slashes in front leaves a part of the path.                *)
LEMMA SlashesDropped ==
    ASSUME NEW p \in Text
    PROVE  Slashes(p) \in 0 .. Len(p) /\ DropSlashes(p) \in Text /\ Len(DropSlashes(p)) \in 0 .. Len(p)
<1>0. Len(p) \in Nat
  BY DEF Text
<1>1. Slashes(p) \in 0 .. Len(p)
  <2> DEFINE I == {i \in 1 .. Len(p) : p[i] # "/"}
             first == SelectInSeq(p, LAMBDA t : t # "/")
  <2>1. first = IF I # {} THEN Min(I) ELSE 0
    BY DEF SelectInSeq
  <2>2. I # {} => Min(I) \in I
    <3>1. ASSUME I # {} PROVE \E x \in I : \A y \in I : x <= y
      <4> HIDE DEF I
      <4>1. I \subseteq Nat
        BY <1>0 DEF I
      <4> QED BY <3>1, <4>1, LeastNumber
    <3> HIDE DEF I
    <3> QED BY <3>1 DEF Min
  <2>3. first \in 0 .. Len(p)
    <3> HIDE DEF first
    <3> QED BY <1>0, <2>1, <2>2
  <2>4. Slashes(p) = IF first = 0 THEN Len(p) ELSE first - 1
    BY DEF Slashes
  <2> HIDE DEF first
  <2> QED BY <1>0, <2>3, <2>4
<1> QED BY <1>0, <1>1 DEF DropSlashes, Text

(* Behind a link with the text t.                                          *)
Linked(d, w, t) ==
    [at |-> IF t[1] = "/" THEN d.root ELSE w.up, up |-> w.up, rest |-> t \o w.rest,
     links |-> w.links + 1, res |-> "going"]

(* A link that is neither one too many nor too long is followed.           *)
LEMMA LinkFollowed ==
    ASSUME NEW d, NEW p, Len(p) \in Nat, NEW v, NEW w \in Sites(d), Leads(d, p, v, w),
           d.objs[w.at].mode = "lnk", NEW t \in Text, d.objs[w.at].target = t, t # <<>>,
           d.root \in DOMAIN d.objs, w.links < MAX_LINK_COUNT, Len(t) < bsize - 1
    PROVE  Linked(d, w, t) \in Sites(d) /\ Leads(d, p, v, Linked(d, w, t))
<1>00. w.rest \in Text /\ w.links \in 0 .. MAX_LINK_COUNT /\ w.up \in DOMAIN d.objs
  BY DEF Sites
<1>0. w = [at |-> w.at, up |-> w.up, rest |-> w.rest, links |-> w.links, res |-> "going"]
  BY DEF Sites
<1>1. Step(d, w) = Linked(d, w, t)
  <2>1. ~(w.links >= MAX_LINK_COUNT) /\ ~(Len(t) >= bsize - 1)
    BY <1>00, Numbers DEF Text
  <2>2. w.res = "going"
    BY DEF Sites
  <2> QED BY <1>0, <2>1, <2>2 DEF Step, PathStep, Follow, TooLong, Linked
<1>2. t \o w.rest \in Text /\ Len(t \o w.rest) = Len(t) + Len(w.rest)
  BY <1>00 DEF Text
<1>3. Linked(d, w, t) \in Sites(d)
  BY <1>00, <1>2, Numbers DEF Linked, Sites
<1>4. Left(Linked(d, w, t)) < Left(w)
  <2> DEFINE m == MAX_LINK_COUNT - (w.links + 1)
  <2>1. m \in Nat /\ MAX_LINK_COUNT - w.links = m + 1
    BY <1>00, Numbers
  <2>2. m * bsize \in Nat /\ (m + 1) * bsize = m * bsize + bsize
    BY <2>1, Numbers
  <2>3. Left(w) = Len(w.rest) + (m * bsize + bsize)
    BY <2>1, <2>2 DEF Left
  <2>4. Left(Linked(d, w, t)) = Len(t) + Len(w.rest) + m * bsize
    BY <1>2 DEF Left, Linked
  <2>5. Len(t) \in Nat /\ Len(w.rest) \in Nat /\ bsize \in Nat
    BY <1>00, Numbers DEF Text
  <2> HIDE DEF m
  <2> QED BY <2>2, <2>3, <2>4, <2>5
<1>5. Left(w) \in Nat /\ Left(Linked(d, w, t)) \in Nat
  BY <1>3, LeftIsNat
<1> QED BY <1>1, <1>3, <1>4, <1>5, LeadsOn

(* Else it is what ends the lookup.                                        *)
LEMMA LinkRefused ==
    ASSUME NEW d, NEW p, Len(p) \in Nat, NEW v, NEW w \in Sites(d), Leads(d, p, v, w),
           d.objs[w.at].mode = "lnk", NEW t \in Text, d.objs[w.at].target = t
    PROVE  /\ w.links >= MAX_LINK_COUNT => v.res = "SYMLINK_LOOP"
           /\ ~(w.links >= MAX_LINK_COUNT) /\ Len(t) >= bsize - 1 => v.res = "LENGTH"
<1>0. w = [at |-> w.at, up |-> w.up, rest |-> w.rest, links |-> w.links, res |-> "going"]
  BY DEF Sites
<1>1. /\ w.links >= MAX_LINK_COUNT => Step(d, w).res = "SYMLINK_LOOP"
      /\ ~(w.links >= MAX_LINK_COUNT) /\ Len(t) >= bsize - 1 => Step(d, w).res = "LENGTH"
  BY <1>0 DEF Step, PathStep, Follow, TooLong
<1>2. Step(d, w).res # "going" => v = Step(d, w)
  BY LeftIsNat, LeadsEnd
<1> QED BY <1>1, <1>2

(* A path ends at a file, at something else, or has more behind a file.    *)
LEMMA PathEnded ==
    ASSUME NEW d, NEW p, Len(p) \in Nat, NEW v, NEW w \in Sites(d), Leads(d, p, v, w),
           d.objs[w.at].mode # "lnk"
    PROVE  /\ w.rest = <<>> => /\ v.res = IF d.objs[w.at].mode = "reg" THEN "OK" ELSE "BAD_TYPE"
                               /\ v.at = w.at
           /\ w.rest # <<>> /\ d.objs[w.at].mode = "reg" => v.res = "NOTDIR"
<1>0. w = [at |-> w.at, up |-> w.up, rest |-> w.rest, links |-> w.links, res |-> "going"]
  BY DEF Sites
<1>1. /\ w.rest = <<>> => /\ Step(d, w).res = IF d.objs[w.at].mode = "reg" THEN "OK" ELSE "BAD_TYPE"
                          /\ Step(d, w).at = w.at
      /\ w.rest # <<>> /\ d.objs[w.at].mode = "reg" => Step(d, w).res = "NOTDIR"
  BY <1>0 DEF Step, PathStep
<1>2. Step(d, w).res # "going" => v = Step(d, w)
  BY LeftIsNat, LeadsEnd
<1> QED BY <1>1, <1>2

(* The directory does not have the name.                                   *)
LEMMA NameMissing ==
    ASSUME NEW d, NEW p, Len(p) \in Nat, NEW v, NEW w \in Sites(d), Leads(d, p, v, w),
           d.objs[w.at].mode = "dir", w.rest # <<>>,
           DropSlashes(w.rest) = <<>> \/ DropSlashes(w.rest)[1] \notin DOMAIN d.objs[w.at].entries
    PROVE  v.res = "NOTFOUND"
<1>0. w = [at |-> w.at, up |-> w.up, rest |-> w.rest, links |-> w.links, res |-> "going"]
  BY DEF Sites
<1>1. Step(d, w).res = "NOTFOUND"
  BY <1>0 DEF Step, PathStep, Enter
<1> QED BY <1>1, LeftIsNat, LeadsEnd

(* Behind the next name of the path.                                       *)
Entered(d, w) ==
    [at |-> d.objs[w.at].entries[DropSlashes(w.rest)[1]], up |-> w.at,
     rest |-> Tail(DropSlashes(w.rest)), links |-> w.links, res |-> "going"]

(* The directory has the name.                                             *)
LEMMA NameFound ==
    ASSUME NEW d, NEW p, Len(p) \in Nat, NEW v, NEW w \in Sites(d), Leads(d, p, v, w),
           d.objs[w.at].mode = "dir", w.rest # <<>>, DropSlashes(w.rest) # <<>>,
           DropSlashes(w.rest)[1] \in DOMAIN d.objs[w.at].entries,
           d.objs[w.at].entries[DropSlashes(w.rest)[1]] \in DOMAIN d.objs
    PROVE  Entered(d, w) \in Sites(d) /\ Leads(d, p, v, Entered(d, w))
<1>00. w.rest \in Text /\ w.links \in 0 .. MAX_LINK_COUNT /\ w.at \in DOMAIN d.objs
  BY DEF Sites
<1>0. w = [at |-> w.at, up |-> w.up, rest |-> w.rest, links |-> w.links, res |-> "going"]
  BY DEF Sites
<1>1. Step(d, w) = Entered(d, w)
  <2>1. Step(d, w) = Enter(d.objs, w)
    BY <1>0 DEF Step, PathStep
  <2>2. Enter(d.objs, w) = [w EXCEPT !.up = w.at, !.at = d.objs[w.at].entries[DropSlashes(w.rest)[1]],
                                     !.rest = Tail(DropSlashes(w.rest))]
    BY DEF Enter
  <2> DEFINE x == d.objs[w.at].entries[DropSlashes(w.rest)[1]]
             r == Tail(DropSlashes(w.rest))
  <2>3. Step(d, w) = [w EXCEPT !.up = w.at, !.at = x, !.rest = r]
    BY <2>1, <2>2
  <2>4. Entered(d, w) = [at |-> x, up |-> w.at, rest |-> r, links |-> w.links, res |-> "going"]
    BY DEF Entered
  <2> HIDE DEF x, r
  <2> QED BY <2>3, <2>4 DEF Sites
<1>2. /\ Tail(DropSlashes(w.rest)) \in Text
      /\ Len(Tail(DropSlashes(w.rest))) < Len(w.rest) /\ Len(Tail(DropSlashes(w.rest))) \in Nat
  <2>1. DropSlashes(w.rest) \in Text /\ Len(DropSlashes(w.rest)) \in 0 .. Len(w.rest) /\ Len(w.rest) \in Nat
    BY <1>00, SlashesDropped DEF Text
  <2> QED BY <2>1 DEF Text
<1>3. Entered(d, w) \in Sites(d)
  BY <1>00, <1>2 DEF Entered, Sites
<1>4. Left(w) \in Nat /\ Left(Entered(d, w)) \in Nat /\ Len(w.rest) \in Nat
  BY <1>3, LeftIsNat
<1>5. Left(Entered(d, w)) < Left(w)
  <2> DEFINE x == (MAX_LINK_COUNT - w.links) * bsize
  <2>1. Left(w) = Len(w.rest) + x /\ Left(Entered(d, w)) = Len(Tail(DropSlashes(w.rest))) + x
    BY DEF Left, Entered
  <2>2. x \in Nat
    BY <1>00, Numbers
  <2> HIDE DEF x
  <2> QED BY <1>2, <1>4, <2>1, <2>2
<1> QED BY <1>1, <1>3, <1>4, <1>5, LeadsOn

(***************************************************************************)
(* The inductive invariant.                                                *)
(***************************************************************************)
(* Where xfs_dir is, as a place of the walk.                               *)
Site(l, rest, links) ==
    [at |-> l.ino, up |-> l.parent, rest |-> rest, links |-> links, res |-> "going"]

(* The lookup is on the way to what the path names.                        *)
Way(d, p, v, l, rest, links) ==
    Site(l, rest, links) \in Sites(d) /\ Leads(d, p, v, Site(l, rest, links))

(* The inode in the buffer is the one that was looked for.                 *)
Its(d, l, i) == i = d.inodes[InodePlace(l.ino)]

(* The name looked for is none of the first n entries.                     *)
NotIn(i, l, n) == \A k \in 1 .. n : l.rest = <<>> \/ l.rest[1] # Used(i)[k].name

(* All entries are in one place.                                           *)
InOne(i, c) == c.forw = 0 /\ c.max = Len(Used(i))

(* top and first are the index of the directory.                           *)
IsIndex(i, top, first) ==
    /\ first \in [{b \in DOMAIN i.leaves : i.leaves[b].magic = "leaf"} -> 0 .. Len(Used(i))]
    /\ Indexes(i, top, first)

(* The cursor is in a leaf, as many entries on as it has counted.          *)
InLeaf(i, c) ==
    \E top, first : /\ IsIndex(i, top, first)
                    /\ \E b \in DOMAIN first :
                          /\ c.forw = i.leaves[b].forw
                          /\ c.max = i.leaves[b].count - i.leaves[b].stale
                          /\ c.pos \in 0 .. c.max /\ c.at = first[b] + c.pos + 1

(* No entry before the cursor has the name; those of a directory in its    *)
(* inode are preceded by the two made-up ones.                             *)
Cursor(i, l, c) ==
    /\ NotIn(i, l, c.at - 1)
    /\ \/ /\ Layout(i) = "local" /\ InOne(i, c) /\ c.pos \in -2 .. c.max
          /\ c.at = (IF c.pos < 0 THEN 1 ELSE c.pos + 1)
          /\ c.pos > -2 => l.rest = <<>> \/ l.rest[1] \notin {".", ".."}
       \/ Layout(i) = "block" /\ InOne(i, c) /\ c.pos \in 0 .. c.max /\ c.at = c.pos + 1
       \/ Layout(i) = "leaf" /\ InLeaf(i, c)

(* On the way down to the first leaf.                                      *)
Descent(i, c) ==
    /\ Layout(i) = "leaf" /\ c.pos = 0 /\ c.at = 1
    /\ \E top, first : IsIndex(i, top, first) /\ c.dablk \in top

(* Where the extent behind the first n ones begins.                        *)
Begins(recs, n) == IF n = 0 THEN 0 ELSE xt_offset(recs[n]) + xt_len(recs[n])

(* The text t of a link has been read up to the position, which is where   *)
(* the next extent begins.                                                 *)
Streaming(i, t, f, r) ==
    /\ i.format = "extents" /\ r.endpos = Len(t) /\ r.len \in 0 .. Len(t) /\ f.pos = Len(t) - r.len
    /\ r.buf = SubSeq(t, 1, f.pos)
    /\ \E n \in 0 .. Len(i.recs) : /\ r.xt = SubSeq(i.recs, n + 1, Len(i.recs))
                                   /\ r.len > 0 => f.pos = Begins(i.recs, n) * bsize

(* A read, ready for the loop of xfs_read_data over these records.         *)
Begun(recs, lost) ==
    [rd EXCEPT !.endpos = IF file.pos + rd.len > file.len THEN file.len ELSE file.pos + rd.len,
               !.xt = recs, !.lost = lost]

(* The fields of the records.                                              *)
Keys(l, c, f, r) ==
    /\ DOMAIN l = {"ino", "parent", "rest", "off", "links"}
    /\ DOMAIN c = {"pos", "max", "forw", "dablk", "at", "gap", "node", "lost"}
    /\ DOMAIN f = {"pos", "len"}
    /\ DOMAIN r = {"buf", "len", "endpos", "prev", "xt", "lost", "caller"}

(* What LookupRight supposes.                                              *)
Healthy == Disk.super = "XFSB4" /\ faults = 0 /\ ~spoiled

(* What holds on any disk.                                                 *)
Control ==
    /\ disk \in DOMAIN Images /\ path \in Text /\ faults \in Nat
    /\ named = Resolve(Disk.objs, Disk.root, MAX_LINK_COUNT, TooLong, Bound(path), path)
    /\ Keys(look, dir, file, rd)
    /\ pc \in {"closed", "mount", "inode", "branch", "first", "leaf", "dentry", "read", "extent",
               "done", "idle", "failed", "shut"}
    /\ pc \in {"closed", "mount", "inode", "branch", "first", "leaf", "dentry"} => result = "none"
    /\ pc \in {"read", "extent", "done"} => \/ rd.caller = "open" /\ result = "none"
                                            \/ rd.caller = "read" /\ result = "OK"
    /\ pc = "idle" => result = "OK"

(* At the start of a turn of the loop of xfs_dir.                          *)
Looking ==
    pc \in {"inode", "branch"} =>
        /\ Way(Disk, path, named, look, look.rest, look.links)
        /\ pc = "branch" => Its(Disk, look, inode)

(* In a directory: the slashes in front of the name have been dropped.     *)
Scanning ==
    pc \in {"first", "leaf", "dentry"} =>
        /\ Its(Disk, look, inode) /\ inode.mode = "dir"
        /\ \E rest \in Text : /\ rest # <<>> /\ look.rest = DropSlashes(rest)
                              /\ Way(Disk, path, named, look, rest, look.links)
        /\ pc = "leaf" => Descent(inode, dir)
        /\ pc = "dentry" => Cursor(inode, look, dir)

(* The text of the link xfs_dir has found.                                 *)
Target == Disk.objs[look.ino].target

(* While it is read; the link has been counted.                            *)
Linking ==
    pc \in {"read", "extent", "done"} /\ rd.caller = "open" =>
        /\ Its(Disk, look, inode) /\ inode.mode = "lnk"
        /\ Way(Disk, path, named, look, look.rest, look.links - 1)
        /\ look.links \in 1 .. MAX_LINK_COUNT /\ Len(Target) < bsize - 1
        /\ pc = "read" => file.pos = 0 /\ file.len = Len(Target) /\ rd.buf = <<>> /\ rd.len = Len(Target)
        /\ pc = "extent" => Streaming(inode, Target, file, rd)
        /\ pc = "done" => rd.buf = Target

(* The lookup has come to its end.                                         *)
Ended ==
    result \notin {"none", "BADDEV"} =>
        /\ result = named.res
        /\ result = "OK" => look.ino = named.at /\ file.len = Len(Disk.objs[named.at].bytes)

XInv == Control /\ (Healthy => Looking /\ Scanning /\ Linking /\ Ended)

-----------------------------------------------------------------------------
(* What is asked for is a path.                                            *)
LEMMA RequestIsText ==
    ASSUME NEW p \in Requests
    PROVE  p \in Text
<1>1. p \in Seq(STRING \ {""})
  BY XfsAssumption, Zenon
<1> QED BY <1>1, Zenon DEF Text, Name

LEMMA TextLen ==
    ASSUME NEW p \in Text
    PROVE  Len(p) \in Nat
BY DEF Text

(* The assumption on the images, about the one on the disk.                *)
LEMMA HealthyDisk ==
    ASSUME Control, Disk.super = "XFSB4"
    PROVE  /\ InOrder(Disk) /\ Disk.root \in DOMAIN Disk.objs
           /\ \A o \in DOMAIN Disk.objs : /\ InodePlace(o) \in DOMAIN Disk.inodes
                                          /\ Describes(Disk, Disk.inodes[InodePlace(o)], o)
<1>1. InOrder(Disk)
  BY ImageAssumption DEF Control, Disk, AllImages
<1> QED BY <1>1 DEF InOrder

(* What goes on without a fault went on without one.                       *)
LEMMA HealthyBefore ==
    ASSUME Control, Control', Healthy', disk' = disk,
           UNCHANGED faults \/ Fault, UNCHANGED spoiled \/ (\E b : spoiled' = (spoiled \/ b))
    PROVE  Healthy /\ UNCHANGED faults
<1>1. Disk' = Disk
  BY DEF Disk, AllImages
<1>2. ~spoiled
  BY Zenon DEF Healthy
<1>3. UNCHANGED faults
  BY DEF Healthy, Control, Fault
<1> QED BY <1>1, <1>2, <1>3 DEF Healthy

(***************************************************************************)
(* One lemma per action.                                                   *)
(***************************************************************************)
LEMMA InitInv == Init => XInv
<1> SUFFICES ASSUME Init PROVE XInv
  OBVIOUS
<1>1. disk \in DOMAIN Images /\ path \in Text /\ faults \in Nat
  BY RequestIsText DEF Init
<1>2. named = Resolve(Disk.objs, Disk.root, MAX_LINK_COUNT, TooLong, Bound(path), path)
  BY DEF Init, Bound
<1>3. Keys(look, dir, file, rd)
  BY DEF Init, Keys, NoRead
<1>4. pc = "closed" /\ result = "none"
  BY DEF Init
<1> QED BY <1>1, <1>2, <1>3, <1>4, Zenon DEF XInv, Control, Looking, Scanning, Linking, Ended

LEMMA OpenKeeps == ASSUME XInv, xfs_open PROVE XInv'
<1>1. /\ pc' \in {"mount", "failed"} /\ result' \in {"none", "BADDEV"}
      /\ pc' = "mount" => result' = "none"
  BY DEF XInv, Control, xfs_open, GiveUp
<1>2. Control'
  BY <1>1 DEF XInv, Control, xfs_open, Disk, AllImages
<1> QED BY <1>1, <1>2 DEF XInv, Looking, Scanning, Linking, Ended

LEMMA MountKeeps == ASSUME XInv, xfs_mount PROVE XInv'
<1>1. /\ pc' \in {"inode", "failed"} /\ (pc' = "inode" => result' = "none")
      /\ faults' \in Nat
      /\ Healthy' => pc' = "inode"
  BY DEF XInv, Control, xfs_mount, GiveUp, Going, Tried, Fault, Healthy, Disk, AllImages
<1>2. DOMAIN look' = {"ino", "parent", "rest", "off", "links"}
  BY DEF xfs_mount
<1>3. Control'
  BY <1>1, <1>2 DEF XInv, Control, xfs_mount, Disk, AllImages, Keys
<1>4. ASSUME Healthy' PROVE Way(Disk', path', named', look', look'.rest, look'.links)
  <2>1. Site(look', look'.rest, look'.links) = Start(Disk, path)
    BY DEF xfs_mount, Site, Start
  <2>2. Disk' = Disk /\ path' = path /\ named' = named
    BY DEF xfs_mount, Disk, AllImages
  <2>3. Leads(Disk, path, named, Start(Disk, path))
    BY LeadsStart, TextLen DEF XInv, Control
  <2>4. Disk.root \in DOMAIN Disk.objs
    BY <1>4, <2>2, HealthyDisk DEF XInv, Control, Healthy, InOrder
  <2>5. Start(Disk, path) \in Sites(Disk)
    BY <2>4, Numbers DEF Start, Sites, XInv, Control
  <2> QED BY <2>1, <2>2, <2>3, <2>5 DEF Way
<1> QED BY <1>1, <1>3, <1>4 DEF XInv, Looking, Scanning, Linking, Ended

LEMMA InodeKeeps == ASSUME XInv, di_read PROVE XInv'
<1>1. pc = "inode" /\ pc' = "branch" /\ UNCHANGED <<disk, path, named, look, dir, file, rd, result, spoiled>>
      /\ (UNCHANGED faults \/ Fault) /\ Disk' = Disk
  BY DEF di_read, Tried, Disk, AllImages
<1>2. Control'
  BY <1>1 DEF XInv, Control, Fault
<1>3. ASSUME Healthy' PROVE Healthy /\ UNCHANGED faults
  BY <1>1, <1>2, <1>3, HealthyBefore DEF XInv
<1>4. ASSUME Healthy' PROVE Looking'
  <2>1. Way(Disk, path, named, look, look.rest, look.links)
    BY <1>1, <1>3, <1>4 DEF XInv, Looking
  <2>2. look.ino \in DOMAIN Disk.objs
    BY <2>1 DEF Way, Site, Sites
  <2>3. InodePlace(look.ino) \in DOMAIN Disk.inodes
    BY <1>3, <1>4, <2>2, HealthyDisk DEF XInv, Healthy
  <2>4. inode' = Disk.inodes[InodePlace(look.ino)]
    BY <1>1, <1>3, <1>4, <2>3 DEF di_read, Tried, Fault, XInv, Control
  <2> QED BY <1>1, <2>1, <2>4 DEF Looking, Its
<1> QED BY <1>1, <1>2, <1>4 DEF XInv, Control, Scanning, Linking, Ended

(* What the inode of a link says.                                          *)
LEMMA LinkInode ==
    ASSUME NEW d, InOrder(d), NEW o \in DOMAIN d.objs, NEW i, i = d.inodes[InodePlace(o)],
           i.mode = "lnk"
    PROVE  /\ d.objs[o].mode = "lnk" /\ d.objs[o].target \in Text /\ d.objs[o].target # <<>>
           /\ i.size = Len(d.objs[o].target)
           /\ \/ i.format = "local" /\ i.bytes = d.objs[o].target
              \/ i.format = "extents" /\ Holds(d, i, d.objs[o].target)
<1>1. Describes(d, i, o)
  BY DEF InOrder
<1>2. d.objs[o].mode = "lnk"
  BY <1>1 DEF Describes
<1>3. /\ i.size = Len(d.objs[o].target)
      /\ d.objs[o].target \in Seq(STRING \ {""}) /\ d.objs[o].target # <<>>
      /\ \/ i.format = "local" /\ i.bytes = d.objs[o].target
         \/ i.format = "extents" /\ Holds(d, i, d.objs[o].target)
  BY <1>1, <1>2 DEF Describes
<1>4. d.objs[o].target \in Text
  BY <1>3, Zenon DEF Text, Name
<1> QED BY <1>2, <1>3, <1>4

LEMMA LinkKeeps == ASSUME XInv, DirLink PROVE XInv'
<1>1. /\ pc = "branch" /\ inode.mode = "lnk" /\ Disk' = Disk
      /\ UNCHANGED <<disk, path, named, inode, dir, spoiled, faults>>
      /\ look' = [look EXCEPT !.links = @ + 1]
  BY DEF DirLink, Disk, AllImages, CountLink
<1>2. look' = [look EXCEPT !.links = @ + 1] /\ Keys(look, dir, file, rd)
  BY <1>1 DEF XInv, Control
<1>3. look'.links = look.links + 1 /\ look'.ino = look.ino /\ look'.parent = look.parent /\ look'.rest = look.rest
  BY <1>2 DEF Keys
<1>4. \/ /\ look'.links > MAX_LINK_COUNT /\ GiveUp("SYMLINK_LOOP") /\ UNCHANGED <<file, rd>>
      \/ /\ ~(look'.links > MAX_LINK_COUNT) /\ inode.size >= bsize - 1
         /\ GiveUp("LENGTH") /\ UNCHANGED <<file, rd>>
      \/ /\ ~(look'.links > MAX_LINK_COUNT) /\ ~(inode.size >= bsize - 1)
         /\ pc' = "read" /\ Going /\ file' = [pos |-> 0, len |-> inode.size]
         /\ rd' = [NoRead EXCEPT !.len = inode.size, !.caller = "open", !.lost = rd.lost]
  BY DEF DirLink
<1>5. Keys(look', dir', file', rd')
  BY <1>1, <1>2, <1>4 DEF Keys, NoRead
<1>6. Control'
  <2>1. pc' = "failed" \/ (pc' = "read" /\ rd'.caller = "open" /\ result' = result)
    BY <1>4 DEF GiveUp, Going, NoRead
  <2> QED BY <1>1, <1>5, <2>1 DEF XInv, Control
<1>7. ASSUME Healthy' PROVE Looking' /\ Scanning' /\ Linking' /\ Ended'
  <2>1. Healthy
    BY <1>1, <1>7 DEF Healthy
  <2>2. Way(Disk, path, named, look, look.rest, look.links) /\ Its(Disk, look, inode)
    BY <1>1, <2>1 DEF XInv, Looking
  <2> DEFINE w == Site(look, look.rest, look.links)
  <2>3. /\ w \in Sites(Disk) /\ Leads(Disk, path, named, w) /\ w.at = look.ino /\ w.links = look.links
        /\ look.ino \in DOMAIN Disk.objs /\ look.links \in 0 .. MAX_LINK_COUNT /\ Len(path) \in Nat
    BY <2>2, TextLen DEF Way, Site, Sites, XInv, Control
  <2>4. InOrder(Disk)
    BY <2>1, HealthyDisk DEF XInv, Healthy
  <2> DEFINE t == Target
  <2>5. Disk.objs[look.ino].mode = "lnk" /\ t \in Text /\ t # <<>> /\ inode.size = Len(t) /\ Len(t) \in Nat
    BY <1>1, <2>2, <2>3, <2>4, LinkInode, TextLen DEF Its, Target
  <2>6. /\ look.links >= MAX_LINK_COUNT => named.res = "SYMLINK_LOOP"
        /\ ~(look.links >= MAX_LINK_COUNT) /\ Len(t) >= bsize - 1 => named.res = "LENGTH"
    <3> HIDE DEF w, t
    <3>1. Disk.objs[w.at].mode = "lnk" /\ Disk.objs[w.at].target = t
      BY <2>3, <2>5 DEF t, Target
    <3> QED BY <2>3, <2>5, <3>1, LinkRefused
  <2> HIDE DEF w, t
  <2>7. Target' = t
    BY <1>1, <1>3 DEF t, Target
  <2>8. CASE pc' = "failed" /\ (result' = "SYMLINK_LOOP" \/ result' = "LENGTH")
    <3>0. look'.links > MAX_LINK_COUNT <=> look.links >= MAX_LINK_COUNT
      BY <1>3, <2>3, Numbers
    <3>1. result' = named.res
      BY <1>4, <2>5, <2>6, <2>8, <3>0 DEF GiveUp
    <3> QED BY <1>1, <2>8, <3>1 DEF Looking, Scanning, Linking, Ended
  <2>9. CASE pc' = "read" /\ ~(look'.links > MAX_LINK_COUNT) /\ ~(inode.size >= bsize - 1)
    <3>1. /\ result' = "none" /\ file' = [pos |-> 0, len |-> inode.size]
          /\ rd'.buf = <<>> /\ rd'.len = inode.size
      BY <1>1, <1>4, <2>9 DEF GiveUp, Going, NoRead, XInv, Control
    <3>2. look'.links \in 1 .. MAX_LINK_COUNT /\ look'.links - 1 = look.links /\ Len(t) < bsize - 1
      BY <1>3, <2>3, <2>5, <2>9, Numbers
    <3>3. Site(look', look'.rest, look'.links - 1) = Site(look, look.rest, look.links)
      BY <1>3, <3>2 DEF Site
    <3>4. Its(Disk', look', inode')
      BY <1>1, <1>3, <2>2 DEF Its
    <3>5. Way(Disk', path', named', look', look'.rest, look'.links - 1)
      BY <1>1, <2>2, <3>3 DEF Way
    <3> QED BY <1>1, <2>5, <2>7, <2>9, <3>1, <3>2, <3>4, <3>5 DEF Looking, Scanning, Linking, Ended
  <2> QED BY <1>4, <2>8, <2>9 DEF GiveUp
<1> QED BY <1>6, <1>7 DEF XInv

LEMMA LinkReadKeeps == ASSUME XInv, LinkRead PROVE XInv'
<1> DEFINE all == Joined(rd.buf, look.rest, look.off)
<1>1. /\ pc = "done" /\ rd.caller = "open" /\ pc' = "inode" /\ Disk' = Disk
      /\ UNCHANGED <<disk, path, named, inode, dir, file, result, faults>>
      /\ look' = [look EXCEPT !.ino = IF all # <<>> /\ all[1] = "/" THEN Disk.root ELSE look.parent,
                              !.rest = all, !.off = 0]
      /\ spoiled' = (spoiled \/ all # rd.buf \o look.rest)
      /\ rd' = [NoRead EXCEPT !.lost = rd.lost]
  BY DEF LinkRead, Disk, AllImages
<1> HIDE DEF all
<1>2. Keys(look, dir, file, rd)
  BY DEF XInv, Control
<1>3. /\ look'.ino = (IF all # <<>> /\ all[1] = "/" THEN Disk.root ELSE look.parent)
      /\ look'.parent = look.parent /\ look'.rest = all /\ look'.links = look.links
  BY <1>1, <1>2 DEF Keys
<1>4. Keys(look', dir', file', rd')
  BY <1>1, <1>2 DEF Keys, NoRead
<1>5. Control' /\ result = "none"
  BY <1>1, <1>4 DEF XInv, Control
<1>6. ASSUME Healthy' PROVE Looking'
  <2>1. Healthy
    BY <1>1, <1>5, <1>6, HealthyBefore DEF XInv
  <2>2. all = rd.buf \o look.rest
    BY <1>1, <1>6, Zenon DEF Healthy
  <2>3. /\ Its(Disk, look, inode) /\ inode.mode = "lnk"
        /\ Way(Disk, path, named, look, look.rest, look.links - 1)
        /\ look.links \in 1 .. MAX_LINK_COUNT /\ Len(Target) < bsize - 1
        /\ rd.buf = Target
    BY <1>1, <2>1 DEF XInv, Linking
  <2> DEFINE w == Site(look, look.rest, look.links - 1)
             t == Target
  <2>4. /\ w \in Sites(Disk) /\ Leads(Disk, path, named, w) /\ w.at = look.ino /\ w.links = look.links - 1
        /\ w.up = look.parent /\ w.rest = look.rest
        /\ look.ino \in DOMAIN Disk.objs /\ Len(path) \in Nat /\ look.rest \in Text
    BY <2>3, TextLen DEF Way, Site, Sites, XInv, Control
  <2>5. InOrder(Disk) /\ Disk.root \in DOMAIN Disk.objs
    BY <2>1, HealthyDisk DEF XInv, Healthy
  <2>6. Disk.objs[look.ino].mode = "lnk" /\ t \in Text /\ t # <<>>
    BY <1>1, <2>3, <2>4, <2>5, LinkInode DEF Its, Target
  <2> HIDE DEF w
  <2>7. Linked(Disk, w, t) \in Sites(Disk) /\ Leads(Disk, path, named, Linked(Disk, w, t))
    <3>1. Disk.objs[w.at].mode = "lnk" /\ Disk.objs[w.at].target = t
      BY <2>4, <2>6 DEF Target
    <3>2. w.links < MAX_LINK_COUNT
      BY <2>3, <2>4, Numbers
    <3> HIDE DEF t
    <3> QED BY <2>3, <2>4, <2>5, <2>6, <3>1, <3>2, LinkFollowed DEF t
  <2>8. Site(look', look'.rest, look'.links) = Linked(Disk, w, t)
    <3>1. all = t \o look.rest /\ all # <<>> /\ all[1] = t[1]
      <4>1. all = t \o look.rest
        BY <2>2, <2>3
      <4> HIDE DEF t
      <4> QED BY <2>4, <2>6, <4>1 DEF Text
    <3>2. look.links - 1 + 1 = look.links
      BY <2>3
    <3> HIDE DEF t
    <3> QED BY <1>3, <2>4, <3>1, <3>2 DEF Site, Linked
  <2> QED BY <1>1, <2>7, <2>8 DEF Looking, Way
<1> QED BY <1>1, <1>5, <1>6 DEF XInv, Scanning, Linking, Ended

(* What the inode of a file or a directory says.                           *)
LEMMA FileInode ==
    ASSUME NEW d, InOrder(d), NEW o \in DOMAIN d.objs, NEW i, i = d.inodes[InodePlace(o)],
           i.mode # "lnk"
    PROVE  /\ d.objs[o].mode = i.mode /\ i.mode \in {"reg", "dir"}
           /\ i.mode = "reg" => i.size = Len(d.objs[o].bytes)
<1>1. Describes(d, i, o)
  BY DEF InOrder
<1> QED BY <1>1 DEF Describes

LEMMA EndKeeps == ASSUME XInv, DirEnd PROVE XInv'
<1>1. /\ pc = "branch" /\ inode.mode # "lnk" /\ look.rest = <<>> /\ Disk' = Disk
      /\ UNCHANGED <<disk, path, named, inode, look, dir, rd, spoiled, faults>>
      /\ \/ inode.mode # "reg" /\ GiveUp("BAD_TYPE") /\ UNCHANGED file
         \/ /\ inode.mode = "reg" /\ pc' = "idle" /\ result' = "OK"
            /\ file' = [pos |-> 0, len |-> inode.size]
  BY DEF DirEnd, Disk, AllImages
<1>2. Control'
  <2>1. Keys(look, dir, file', rd)
    BY <1>1 DEF XInv, Control, Keys
  <2> QED BY <1>1, <2>1 DEF XInv, Control, GiveUp
<1>3. ASSUME Healthy' PROVE Ended'
  <2>1. Healthy
    BY <1>1, <1>3 DEF Healthy
  <2>2. Way(Disk, path, named, look, look.rest, look.links) /\ Its(Disk, look, inode)
    BY <1>1, <2>1 DEF XInv, Looking
  <2> DEFINE w == Site(look, look.rest, look.links)
  <2>3. /\ w \in Sites(Disk) /\ Leads(Disk, path, named, w) /\ w.at = look.ino /\ w.rest = look.rest
        /\ look.ino \in DOMAIN Disk.objs /\ Len(path) \in Nat
    BY <2>2, TextLen DEF Way, Site, Sites, XInv, Control
  <2>4. InOrder(Disk)
    BY <2>1, HealthyDisk DEF XInv, Healthy
  <2>5. /\ Disk.objs[look.ino].mode = inode.mode
        /\ inode.mode = "reg" => inode.size = Len(Disk.objs[look.ino].bytes)
    BY <1>1, <2>2, <2>3, <2>4, FileInode DEF Its
  <2> HIDE DEF w
  <2>6. /\ named.res = (IF inode.mode = "reg" THEN "OK" ELSE "BAD_TYPE") /\ named.at = look.ino
    BY <1>1, <2>3, <2>5, PathEnded
  <2> QED BY <1>1, <2>5, <2>6 DEF Ended, GiveUp
<1> QED BY <1>1, <1>2, <1>3 DEF XInv, Looking, Scanning, Linking, GiveUp

LEMMA EnterKeeps == ASSUME XInv, DirEnter PROVE XInv'
<1>1. /\ pc = "branch" /\ inode.mode # "lnk" /\ look.rest # <<>> /\ Disk' = Disk
      /\ UNCHANGED <<disk, path, named, inode, dir, file, rd, spoiled, faults>>
      /\ \/ inode.mode # "dir" /\ GiveUp("NOTDIR") /\ UNCHANGED look
         \/ /\ inode.mode = "dir" /\ pc' = "first" /\ look' = Pass(look, Slashes(look.rest))
            /\ UNCHANGED result
  BY DEF DirEnter, Disk, AllImages, Going
<1>2. Control'
  <2>1. Keys(look', dir, file, rd)
    BY <1>1 DEF XInv, Control, Keys, Pass
  <2> QED BY <1>1, <2>1 DEF XInv, Control, GiveUp
<1>3. ASSUME Healthy' PROVE Looking' /\ Scanning' /\ Linking' /\ Ended'
  <2>1. Healthy
    BY <1>1, <1>3 DEF Healthy
  <2>2. Way(Disk, path, named, look, look.rest, look.links) /\ Its(Disk, look, inode)
    BY <1>1, <2>1 DEF XInv, Looking
  <2> DEFINE w == Site(look, look.rest, look.links)
  <2>3. /\ w \in Sites(Disk) /\ Leads(Disk, path, named, w) /\ w.at = look.ino /\ w.rest = look.rest
        /\ look.ino \in DOMAIN Disk.objs /\ Len(path) \in Nat /\ look.rest \in Text
    BY <2>2, TextLen DEF Way, Site, Sites, XInv, Control
  <2>4. InOrder(Disk)
    BY <2>1, HealthyDisk DEF XInv, Healthy
  <2>5. Disk.objs[look.ino].mode = inode.mode /\ inode.mode \in {"reg", "dir"}
    BY <1>1, <2>2, <2>3, <2>4, FileInode DEF Its
  <2> HIDE DEF w
  <2>6. CASE inode.mode # "dir"
    <3>1. named.res = "NOTDIR"
      BY <1>1, <2>3, <2>5, <2>6, PathEnded
    <3> QED BY <1>1, <2>6, <3>1 DEF GiveUp, Looking, Scanning, Linking, Ended
  <2>7. CASE inode.mode = "dir"
    <3>1. Keys(look, dir, file, rd)
      BY DEF XInv, Control
    <3>2. /\ look'.rest = DropSlashes(look.rest) /\ look'.links = look.links
          /\ look'.ino = look.ino /\ look'.parent = look.parent
      BY <1>1, <2>7, <3>1 DEF Pass, Keys, DropSlashes
    <3>3. Site(look', look.rest, look'.links) = Site(look, look.rest, look.links)
      BY <3>2 DEF Site
    <3>4. Way(Disk', path', named', look', look.rest, look'.links)
      BY <1>1, <2>2, <3>3 DEF Way
    <3>5. Its(Disk', look', inode')
      BY <1>1, <2>2, <3>2 DEF Its
    <3> QED BY <1>1, <2>3, <2>7, <3>2, <3>4, <3>5 DEF GiveUp, Looking, Scanning, Linking, Ended, XInv, Control
  <2> QED BY <2>6, <2>7
<1> QED BY <1>2, <1>3 DEF XInv

(* The fields of the directory cursor.                                     *)
DirKeys == {"pos", "max", "forw", "dablk", "at", "gap", "node", "lost"}

(* What the inode of a directory says.                                     *)
LEMMA DirInode ==
    ASSUME NEW d, InOrder(d), NEW o \in DOMAIN d.objs, NEW i, i = d.inodes[InodePlace(o)],
           i.mode = "dir"
    PROVE  /\ d.objs[o].mode = "dir" /\ Lists(i, o, d.objs[o].entries)
           /\ \A n \in DOMAIN d.objs[o].entries : d.objs[o].entries[n] \in DOMAIN d.objs
           /\ \/ Layout(i) = "local" /\ i.count = Len(Used(i))
              \/ Layout(i) = "block" /\ i.count - i.stale = Len(Used(i))
              \/ /\ Layout(i) = "leaf" /\ HasIndex(i)
                 /\ i.format = "btree" \/ \A b \in DOMAIN i.leaves : Mapped(init_extents(d, i), i, b)
<1>1. Describes(d, i, o)
  BY DEF InOrder
<1> QED BY <1>1 DEF Describes

(* The entries of a directory are a sequence.                              *)
LEMMA UsedLen ==
    ASSUME NEW i, NEW o, NEW entries, Lists(i, o, entries)
    PROVE  Len(Used(i)) \in Nat /\ DOMAIN Used(i) = 1 .. Len(Used(i))
<1>1. Used(i) \in Seq([name : STRING, ino : Nat \ {0}, blk : Nat])
  BY DEF Lists
<1> DEFINE S == [name : STRING, ino : Nat \ {0}, blk : Nat]
<1>2. Used(i) \in Seq(S)
  BY <1>1
<1> HIDE DEF S
<1> QED BY <1>2

(* The index is in the extents of the directory, but for those of a tree.  *)
AllMapped(d, i) ==
    i.format = "btree" \/ \A b \in DOMAIN i.leaves : Mapped(init_extents(d, i), i, b)

(* What is known of a directory while it is searched.                      *)
LEMMA ScanFacts ==
    ASSUME XInv, Healthy, pc \in {"first", "leaf", "dentry"}
    PROVE  /\ Its(Disk, look, inode) /\ inode.mode = "dir" /\ look.ino \in DOMAIN Disk.objs
           /\ Disk.objs[look.ino].mode = "dir" /\ Lists(inode, look.ino, Disk.objs[look.ino].entries)
           /\ Len(Used(inode)) \in Nat /\ DOMAIN Used(inode) = 1 .. Len(Used(inode))
           /\ \A n \in DOMAIN Disk.objs[look.ino].entries :
                 Disk.objs[look.ino].entries[n] \in DOMAIN Disk.objs
           /\ \/ Layout(inode) = "local" /\ inode.count = Len(Used(inode))
              \/ Layout(inode) = "block" /\ inode.count - inode.stale = Len(Used(inode))
              \/ Layout(inode) = "leaf" /\ HasIndex(inode) /\ AllMapped(Disk, inode)
<1>1. Its(Disk, look, inode) /\ inode.mode = "dir"
  BY DEF XInv, Scanning
<1>2. PICK rest \in Text : Way(Disk, path, named, look, rest, look.links)
  BY DEF XInv, Scanning
<1>3. look.ino \in DOMAIN Disk.objs
  BY <1>2 DEF Way, Site, Sites
<1>4. InOrder(Disk)
  BY HealthyDisk DEF XInv, Healthy
<1>5. inode = Disk.inodes[InodePlace(look.ino)]
  BY <1>1 DEF Its
<1>6. /\ Disk.objs[look.ino].mode = "dir" /\ Lists(inode, look.ino, Disk.objs[look.ino].entries)
      /\ \A n \in DOMAIN Disk.objs[look.ino].entries :
            Disk.objs[look.ino].entries[n] \in DOMAIN Disk.objs
      /\ \/ Layout(inode) = "local" /\ inode.count = Len(Used(inode))
         \/ Layout(inode) = "block" /\ inode.count - inode.stale = Len(Used(inode))
         \/ Layout(inode) = "leaf" /\ HasIndex(inode) /\ AllMapped(Disk, inode)
  BY <1>1, <1>3, <1>4, <1>5, DirInode DEF AllMapped
<1> QED BY <1>1, <1>3, <1>6, UsedLen

(* The scan goes on in the same directory.                                 *)
LEMMA SameScan ==
    ASSUME XInv, Healthy, pc \in {"first", "leaf", "dentry"}, pc' \in {"leaf", "dentry"},
           UNCHANGED <<disk, path, named, inode, look, result>>,
           pc' = "leaf" => Descent(inode, dir'),
           pc' = "dentry" => Cursor(inode, look, dir')
    PROVE  Looking' /\ Scanning' /\ Linking' /\ Ended'
<1>1. Disk' = Disk
  BY DEF Disk, AllImages
<1>2. Its(Disk, look, inode) /\ inode.mode = "dir"
  BY DEF XInv, Scanning
<1>3. \E rest \in Text : /\ rest # <<>> /\ look.rest = DropSlashes(rest)
                         /\ Way(Disk, path, named, look, rest, look.links)
  BY DEF XInv, Scanning
<1>4. Scanning'
  BY <1>1, <1>2, <1>3 DEF Scanning
<1>5. result' = "none"
  BY DEF XInv, Control
<1> QED BY <1>4, <1>5 DEF Looking, Linking, Ended

LEMMA FirstKeeps == ASSUME XInv, first_dentry PROVE XInv'
<1> DEFINE start(n, p) == pc' = "dentry" /\ dir' = [dir EXCEPT !.pos = p, !.max = n, !.forw = 0, !.at = 1, !.gap = 0]
           index == pc' = "leaf" /\ dir' = [dir EXCEPT !.pos = 0, !.max = 0, !.forw = 0, !.at = 1, !.gap = 0,
                                                       !.dablk = LeafBase, !.node = FALSE]
<1>1. /\ pc = "first" /\ Disk' = Disk
      /\ UNCHANGED <<disk, path, named, inode, look, file, rd, result, spoiled>>
      /\ \/ Layout(inode) = "local" /\ start(inode.count, -2) /\ UNCHANGED faults
         \/ Layout(inode) = "block" /\ start(inode.count - inode.stale, 0) /\ UNCHANGED faults
         \/ Layout(inode) = "leaf" /\ index /\ UNCHANGED faults
         \/ Layout(inode) # "local" /\ (index \/ \E n \in 0 .. 1 : start(n, 0)) /\ Fault
  BY DEF first_dentry, Disk, AllImages
<1>2. DOMAIN dir = DirKeys
  BY DEF XInv, Control, Keys, DirKeys
<1>3. DOMAIN dir' = DirKeys /\ pc' \in {"leaf", "dentry"} /\ (UNCHANGED faults \/ Fault)
  BY <1>1, <1>2
<1>4. Control'
  BY <1>1, <1>3 DEF XInv, Control, Keys, DirKeys, Fault
<1>5. ASSUME Healthy' PROVE Looking' /\ Scanning' /\ Linking' /\ Ended'
  <2>1. Healthy /\ UNCHANGED faults /\ ~Fault
    <3>1. Healthy /\ UNCHANGED faults
      BY <1>1, <1>3, <1>4, <1>5, HealthyBefore DEF XInv
    <3> QED BY <3>1 DEF Fault, Healthy
  <2>2. /\ Len(Used(inode)) \in Nat
        /\ \/ Layout(inode) = "local" /\ inode.count = Len(Used(inode))
           \/ Layout(inode) = "block" /\ inode.count - inode.stale = Len(Used(inode))
           \/ Layout(inode) = "leaf" /\ HasIndex(inode)
    BY <1>1, <2>1, ScanFacts
  <2>3. CASE Layout(inode) = "local" /\ start(inode.count, -2)
    <3>1. dir'.pos = -2 /\ dir'.max = Len(Used(inode)) /\ dir'.forw = 0 /\ dir'.at = 1
      BY <1>2, <2>2, <2>3 DEF DirKeys
    <3>2. NotIn(inode, look, dir'.at - 1)
      BY <3>1 DEF NotIn
    <3>3. Cursor(inode, look, dir')
      BY <2>2, <2>3, <3>1, <3>2 DEF Cursor, InOne
    <3> QED BY <1>1, <2>1, <2>3, <3>3, SameScan
  <2>4. CASE Layout(inode) = "block" /\ start(inode.count - inode.stale, 0)
    <3>1. dir'.pos = 0 /\ dir'.max = Len(Used(inode)) /\ dir'.forw = 0 /\ dir'.at = 1
      BY <1>2, <2>2, <2>4 DEF DirKeys
    <3>2. NotIn(inode, look, dir'.at - 1)
      BY <3>1 DEF NotIn
    <3>3. Cursor(inode, look, dir')
      BY <2>2, <2>4, <3>1, <3>2 DEF Cursor, InOne
    <3> QED BY <1>1, <2>1, <2>4, <3>3, SameScan
  <2>5. CASE Layout(inode) = "leaf" /\ index
    <3>1. dir'.pos = 0 /\ dir'.at = 1 /\ dir'.dablk = LeafBase
      BY <1>2, <2>5 DEF DirKeys
    <3>2. HasIndex(inode)
      BY <2>2, <2>5
    <3>3. PICK top, first : IsIndex(inode, top, first)
      BY <3>2 DEF HasIndex, IsIndex
    <3>4. LeafBase \in top
      BY <3>3 DEF IsIndex, Indexes
    <3>5. Descent(inode, dir')
      BY <2>5, <3>1, <3>3, <3>4 DEF Descent
    <3> QED BY <1>1, <2>1, <2>5, <3>5, SameScan
  <2> QED BY <1>1, <2>1, <2>3, <2>4, <2>5
<1> QED BY <1>4, <1>5 DEF XInv

LEMMA LeafKeeps == ASSUME XInv, FirstLeaf PROVE XInv'
<1> DEFINE found == xfs_dabread(init_extents(Disk, inode), dir.dablk)
           same == UNCHANGED pc /\ dir' = IF dir.node THEN dir ELSE [dir EXCEPT !.dablk = 0]
           other == /\ inode.format = "btree" /\ pc' = "dentry"
                    /\ \E n \in 0 .. 1 : dir' = [dir EXCEPT !.max = n, !.lost = TRUE]
           down == IF inode.leaves[dir.dablk].magic = "leaf"
                   THEN pc' = "dentry" /\ dir' = TakeLeaf(dir, inode.leaves[dir.dablk])
                   ELSE UNCHANGED pc /\ dir' = [dir EXCEPT !.dablk = inode.leaves[dir.dablk].before, !.node = TRUE]
           away == UNCHANGED pc /\ dir' = [dir EXCEPT !.lost = TRUE]
           good == \/ found = "read" /\ down
                   \/ found = "unread" /\ same
                   \/ found = "lost" /\ (other \/ away)
<1>1. /\ pc = "leaf" /\ Disk' = Disk
      /\ UNCHANGED <<disk, path, named, inode, look, file, rd, result>>
      /\ spoiled' = (spoiled \/ found = "lost")
      /\ (good /\ UNCHANGED faults) \/ ((same \/ other) /\ Fault)
  BY DEF FirstLeaf, Tried, Disk, AllImages
<1> HIDE DEF found
<1>2. DOMAIN dir = DirKeys
  BY DEF XInv, Control, Keys, DirKeys
<1>3. DOMAIN dir' = DirKeys /\ pc' \in {"leaf", "dentry"} /\ (UNCHANGED faults \/ Fault)
  BY <1>1, <1>2 DEF TakeLeaf
<1>4. Control'
  <2> HIDE DEF same, other, good
  <2> QED BY <1>1, <1>3 DEF XInv, Control, Keys, DirKeys, Fault
<1>5. ASSUME Healthy' PROVE Looking' /\ Scanning' /\ Linking' /\ Ended'
  <2>0. found # "lost"
    BY <1>1, <1>5, Zenon DEF Healthy
  <2>1. Healthy /\ UNCHANGED faults /\ good
    <3> HIDE DEF same, other, good
    <3>1. UNCHANGED spoiled \/ (\E b : spoiled' = (spoiled \/ b))
      BY <1>1, Zenon
    <3>2. Healthy /\ UNCHANGED faults
      BY <1>1, <1>3, <1>4, <1>5, <3>1, HealthyBefore DEF XInv
    <3> QED BY <1>1, <3>2 DEF Fault, Healthy
  <2>2. /\ Layout(inode) = "leaf" /\ dir.pos = 0 /\ dir.at = 1
        /\ \E top, first : IsIndex(inode, top, first) /\ dir.dablk \in top
    BY <1>1, <2>1 DEF XInv, Scanning, Descent
  <2>3. PICK top, first : IsIndex(inode, top, first) /\ dir.dablk \in top
    BY <2>2
  <2> DEFINE b == dir.dablk
             h == inode.leaves[b]
  <2>4. /\ b \in DOMAIN inode.leaves
        /\ h.magic = "leaf" => b \in DOMAIN first /\ first[b] = 0
        /\ h.magic # "leaf" => h.before \in top
    BY <2>3 DEF IsIndex, Indexes
  <2>5. down
    <3>1. AllMapped(Disk, inode)
      BY <1>1, <2>1, <2>2, ScanFacts
    <3>2. found # "unread"
      BY <2>2, <2>4, <3>1 DEF found, xfs_dabread, AllMapped
    <3> HIDE DEF same, other, down, away
    <3> QED BY <2>0, <2>1, <3>2
  <2>6. CASE h.magic = "leaf"
    <3>1. pc' = "dentry" /\ dir' = [dir EXCEPT !.max = h.count - h.stale, !.forw = h.forw]
      BY <2>5, <2>6 DEF TakeLeaf
    <3>2. dir'.pos = 0 /\ dir'.at = 1 /\ dir'.max = h.count - h.stale /\ dir'.forw = h.forw
      BY <1>2, <2>2, <3>1 DEF DirKeys
    <3>3. h.count - h.stale \in Nat /\ first[b] = 0 /\ b \in DOMAIN first
      BY <2>3, <2>4, <2>6 DEF IsIndex, Indexes
    <3>4. NotIn(inode, look, dir'.at - 1)
      BY <3>2 DEF NotIn
    <3>5. dir'.pos \in 0 .. dir'.max /\ dir'.at = first[b] + dir'.pos + 1
      BY <3>2, <3>3
    <3>6. InLeaf(inode, dir')
      BY <2>3, <3>2, <3>3, <3>5 DEF InLeaf
    <3>7. Cursor(inode, look, dir')
      BY <2>2, <3>4, <3>6 DEF Cursor
    <3> QED BY <1>1, <2>1, <3>1, <3>7, SameScan
  <2>7. CASE h.magic # "leaf"
    <3>1. pc' = "leaf" /\ dir' = [dir EXCEPT !.dablk = h.before, !.node = TRUE]
      BY <1>1, <2>5, <2>7
    <3>2. dir'.pos = 0 /\ dir'.at = 1 /\ dir'.dablk = h.before
      BY <1>2, <2>2, <3>1 DEF DirKeys
    <3>3. Descent(inode, dir')
      BY <2>2, <2>3, <2>4, <2>7, <3>2 DEF Descent
    <3> QED BY <1>1, <2>1, <3>1, <3>3, SameScan
  <2> QED BY <2>6, <2>7
<1> QED BY <1>4, <1>5 DEF XInv

(* The cursor is at a made-up entry or at one that is there.               *)
LEMMA CursorAt ==
    ASSUME NEW i, NEW l, NEW c, Cursor(i, l, c), c.pos < c.max, Len(Used(i)) \in Nat
    PROVE  \/ Layout(i) = "local" /\ c.pos \in {-2, -1} /\ c.at = 1
           \/ c.pos \in Nat /\ c.at \in 1 .. Len(Used(i))
<1>1. CASE Layout(i) = "local" /\ InOne(i, c) /\ c.pos \in -2 .. c.max
           /\ c.at = (IF c.pos < 0 THEN 1 ELSE c.pos + 1)
  BY <1>1 DEF InOne
<1>2. CASE Layout(i) = "block" /\ InOne(i, c) /\ c.pos \in 0 .. c.max /\ c.at = c.pos + 1
  BY <1>2 DEF InOne
<1>3. CASE Layout(i) = "leaf" /\ InLeaf(i, c)
  <2>1. PICK top, first : /\ IsIndex(i, top, first)
                          /\ \E b \in DOMAIN first :
                                /\ c.forw = i.leaves[b].forw
                                /\ c.max = i.leaves[b].count - i.leaves[b].stale
                                /\ c.pos \in 0 .. c.max /\ c.at = first[b] + c.pos + 1
    BY <1>3 DEF InLeaf
  <2>2. PICK b \in DOMAIN first : /\ c.forw = i.leaves[b].forw
                                  /\ c.max = i.leaves[b].count - i.leaves[b].stale
                                  /\ c.pos \in 0 .. c.max /\ c.at = first[b] + c.pos + 1
    BY <2>1
  <2> DEFINE n == i.leaves[b].count - i.leaves[b].stale
             f == i.leaves[b].forw
  <2>3. /\ n \in Nat /\ first[b] \in 0 .. Len(Used(i))
        /\ f = 0 => first[b] + n = Len(Used(i))
        /\ f # 0 => first[f] = first[b] + n /\ first[f] \in 0 .. Len(Used(i))
    BY <2>1 DEF IsIndex, Indexes
  <2>4. first[b] + n <= Len(Used(i))
    <3> HIDE DEF n
    <3> QED BY <2>3
  <2>5. c.max = n
    BY <2>2
  <2> HIDE DEF n, f
  <2> QED BY <2>2, <2>3, <2>4, <2>5
<1> QED BY <1>1, <1>2, <1>3, Zenon DEF Cursor

(* At the end all entries have been passed.                                *)
LEMMA CursorEnd ==
    ASSUME NEW i, NEW l, NEW c, Cursor(i, l, c), c.pos >= c.max, c.forw = 0, Len(Used(i)) \in Nat
    PROVE  /\ c.at = Len(Used(i)) + 1 /\ NotIn(i, l, Len(Used(i)))
           /\ Layout(i) = "local" => l.rest = <<>> \/ l.rest[1] \notin {".", ".."}
<1>1. /\ c.at = Len(Used(i)) + 1
      /\ Layout(i) = "local" => l.rest = <<>> \/ l.rest[1] \notin {".", ".."}
  <2>1. CASE Layout(i) = "local" /\ InOne(i, c) /\ c.pos \in -2 .. c.max
             /\ c.at = (IF c.pos < 0 THEN 1 ELSE c.pos + 1)
             /\ (c.pos > -2 => l.rest = <<>> \/ l.rest[1] \notin {".", ".."})
    <3>1. c.pos = c.max /\ c.pos > -2 /\ c.at = Len(Used(i)) + 1
      BY <2>1 DEF InOne
    <3> QED BY <2>1, <3>1
  <2>2. CASE Layout(i) = "block" /\ InOne(i, c) /\ c.pos \in 0 .. c.max /\ c.at = c.pos + 1
    BY <2>2 DEF InOne
  <2>3. CASE Layout(i) = "leaf" /\ InLeaf(i, c)
    <3>1. PICK top, first : /\ IsIndex(i, top, first)
                            /\ \E b \in DOMAIN first :
                                  /\ c.forw = i.leaves[b].forw
                                  /\ c.max = i.leaves[b].count - i.leaves[b].stale
                                  /\ c.pos \in 0 .. c.max /\ c.at = first[b] + c.pos + 1
      BY <2>3 DEF InLeaf
    <3>2. PICK b \in DOMAIN first : /\ c.forw = i.leaves[b].forw
                                    /\ c.max = i.leaves[b].count - i.leaves[b].stale
                                    /\ c.pos \in 0 .. c.max /\ c.at = first[b] + c.pos + 1
      BY <3>1
    <3> DEFINE n == i.leaves[b].count - i.leaves[b].stale
    <3>3. n \in Nat /\ first[b] + n = Len(Used(i)) /\ first[b] \in 0 .. Len(Used(i))
      BY <3>1, <3>2 DEF IsIndex, Indexes
    <3>4. c.max = n
      BY <3>2
    <3> HIDE DEF n
    <3> QED BY <2>3, <3>2, <3>3, <3>4
  <2> QED BY <2>1, <2>2, <2>3, Zenon DEF Cursor
<1>2. NotIn(i, l, c.at - 1) /\ (c.at = Len(Used(i)) + 1 => c.at - 1 = Len(Used(i)))
  BY DEF Cursor
<1> QED BY <1>1, <1>2

(* Turning to the next leaf keeps the place.                               *)
LEMMA Turned ==
    ASSUME DOMAIN dir = DirKeys, Cursor(inode, look, dir), Len(Used(inode)) \in Nat,
           DOMAIN Used(inode) = 1 .. Len(Used(inode)), ~(dir.pos >= dir.max /\ dir.forw = 0),
           NEW recs, Sight(recs, Turn(recs, dir)) = "entry"
    PROVE  /\ Cursor(inode, look, Turn(recs, dir)) /\ Turn(recs, dir).pos < Turn(recs, dir).max
           /\ DOMAIN Turn(recs, dir) = DirKeys
<1>0. dir.pos \in Int /\ dir.max \in Int
  <2>1. CASE Layout(inode) = "leaf" /\ InLeaf(inode, dir)
    <3>1. PICK top, first : /\ IsIndex(inode, top, first)
                            /\ \E b \in DOMAIN first :
                                  /\ dir.forw = inode.leaves[b].forw
                                  /\ dir.max = inode.leaves[b].count - inode.leaves[b].stale
                                  /\ dir.pos \in 0 .. dir.max /\ dir.at = first[b] + dir.pos + 1
      BY <2>1 DEF InLeaf
    <3>2. PICK b \in DOMAIN first : /\ dir.max = inode.leaves[b].count - inode.leaves[b].stale
                                    /\ dir.pos \in 0 .. dir.max
      BY <3>1
    <3>3. inode.leaves[b].count - inode.leaves[b].stale \in Nat
      BY <3>1 DEF IsIndex, Indexes
    <3> QED BY <3>2, <3>3
  <2>2. CASE InOne(inode, dir) /\ dir.pos \in -2 .. dir.max
    BY <2>2 DEF InOne
  <2>3. CASE InOne(inode, dir) /\ dir.pos \in 0 .. dir.max
    BY <2>3 DEF InOne
  <2> QED BY <2>1, <2>2, <2>3, Zenon DEF Cursor
<1>1. CASE dir.pos < dir.max
  <2>1. Turn(recs, dir) = dir
    BY <1>1 DEF Turn
  <2> QED BY <1>1, <2>1
<1>2. CASE dir.pos >= dir.max
  <2>1. dir.forw # 0
    BY <1>2
  <2>2. Layout(inode) = "leaf" /\ InLeaf(inode, dir) /\ NotIn(inode, look, dir.at - 1)
    BY <2>1 DEF Cursor, InOne
  <2>3. PICK top, first : /\ IsIndex(inode, top, first)
                          /\ \E b \in DOMAIN first :
                                /\ dir.forw = inode.leaves[b].forw
                                /\ dir.max = inode.leaves[b].count - inode.leaves[b].stale
                                /\ dir.pos \in 0 .. dir.max /\ dir.at = first[b] + dir.pos + 1
    BY <2>2 DEF InLeaf
  <2>4. PICK b \in DOMAIN first : /\ dir.forw = inode.leaves[b].forw
                                  /\ dir.max = inode.leaves[b].count - inode.leaves[b].stale
                                  /\ dir.pos \in 0 .. dir.max /\ dir.at = first[b] + dir.pos + 1
    BY <2>3
  <2> DEFINE f == dir.forw
             m == inode.leaves[f].count - inode.leaves[f].stale
             n == inode.leaves[b].count - inode.leaves[b].stale
  <2>5. f \in DOMAIN first /\ m > 0 /\ first[f] = first[b] + n /\ n \in Nat /\ f \in DOMAIN inode.leaves
        /\ m \in Nat /\ first[b] \in 0 .. Len(Used(inode))
    BY <2>1, <2>3, <2>4 DEF IsIndex, Indexes
  <2>6. Turn(recs, dir) = TakeLeaf([dir EXCEPT !.dablk = f, !.pos = 0], inode.leaves[f])
    <3>1. ~(dir.pos < dir.max)
      BY <1>0, <1>2
    <3>2. xfs_dabread(recs, f) = "read"
      <4> SUFFICES ASSUME xfs_dabread(recs, f) # "read" PROVE FALSE
        OBVIOUS
      <4>1. Turn(recs, dir).at = 0
        BY <3>1 DEF Turn, DirKeys
      <4>2. 0 \notin DOMAIN Used(inode)
        OBVIOUS
      <4> QED BY <2>2, <4>1, <4>2 DEF Sight
    <3> QED BY <3>1, <3>2 DEF Turn
  <2>7. /\ Turn(recs, dir).pos = 0 /\ Turn(recs, dir).max = m /\ Turn(recs, dir).forw = inode.leaves[f].forw
        /\ Turn(recs, dir).at = dir.at /\ DOMAIN Turn(recs, dir) = DirKeys
    BY <2>6 DEF TakeLeaf, DirKeys
  <2>8. dir.pos = n /\ dir.at = first[f] + 0 + 1
    <3>1. dir.max = n
      BY <2>4
    <3> HIDE DEF n, f, m
    <3> QED BY <1>2, <2>4, <2>5, <3>1
  <2>9. InLeaf(inode, Turn(recs, dir))
    <3>1. 0 \in 0 .. m
      BY <2>5
    <3> QED BY <2>3, <2>5, <2>7, <2>8, <3>1 DEF InLeaf
  <2>10. Cursor(inode, look, Turn(recs, dir))
    BY <2>2, <2>7, <2>9 DEF Cursor
  <2> QED BY <2>5, <2>7, <2>10
<1> QED BY <1>0, <1>1, <1>2

(* On past an entry that is not the one.                                   *)
LEMMA Passed ==
    ASSUME NEW i, NEW l, NEW c, Cursor(i, l, c), c.pos < c.max, Len(Used(i)) \in Nat,
           DOMAIN c = DirKeys,
           Layout(i) = "local" /\ c.pos = -2 => l.rest = <<>> \/ l.rest[1] \notin {".", ".."},
           ~(Layout(i) = "local" /\ c.pos < 0) => l.rest = <<>> \/ l.rest[1] # Used(i)[c.at].name
    PROVE  Cursor(i, l, Advance(c))
<1> DEFINE s == Advance(c)
<1>1. /\ s.pos = c.pos + 1 /\ s.at = (IF c.pos < 0 THEN c.at ELSE c.at + 1)
      /\ s.max = c.max /\ s.forw = c.forw
  BY DEF DirKeys, Advance
<1> SUFFICES Cursor(i, l, s)
  OBVIOUS
<1> HIDE DEF s
<1>2. NotIn(i, l, s.at - 1)
  <2>1. NotIn(i, l, c.at - 1)
    BY DEF Cursor
  <2>2. CASE Layout(i) = "local" /\ c.pos \in {-2, -1} /\ c.at = 1
    <3>1. s.at = c.at
      BY <1>1, <2>2
    <3> QED BY <2>1, <3>1
  <2>3. CASE c.pos \in Nat /\ c.at \in 1 .. Len(Used(i))
    <3>1. s.at - 1 = c.at /\ ~(c.pos < 0)
      BY <1>1, <2>3
    <3>2. l.rest = <<>> \/ l.rest[1] # Used(i)[c.at].name
      BY <3>1
    <3>3. \A k \in 1 .. c.at : k \in 1 .. c.at - 1 \/ k = c.at
      BY <2>3
    <3> QED BY <2>1, <3>1, <3>2, <3>3 DEF NotIn
  <2> QED BY <2>2, <2>3, CursorAt
<1>3. CASE Layout(i) = "local" /\ InOne(i, c) /\ c.pos \in -2 .. c.max
           /\ c.at = (IF c.pos < 0 THEN 1 ELSE c.pos + 1)
           /\ (c.pos > -2 => l.rest = <<>> \/ l.rest[1] \notin {".", ".."})
  <2>1. InOne(i, s) /\ s.pos \in -2 .. s.max /\ s.at = (IF s.pos < 0 THEN 1 ELSE s.pos + 1)
    BY <1>1, <1>3 DEF InOne
  <2>2. l.rest = <<>> \/ l.rest[1] \notin {".", ".."}
    <3>1. c.pos = -2 \/ c.pos > -2
      BY <1>3 DEF InOne
    <3> QED BY <1>3, <3>1
  <2> QED BY <1>2, <1>3, <2>1, <2>2 DEF Cursor
<1>4. CASE Layout(i) = "block" /\ InOne(i, c) /\ c.pos \in 0 .. c.max /\ c.at = c.pos + 1
  <2>1. InOne(i, s) /\ s.pos \in 0 .. s.max /\ s.at = s.pos + 1
    BY <1>1, <1>4 DEF InOne
  <2> QED BY <1>2, <1>4, <2>1 DEF Cursor
<1>5. CASE Layout(i) = "leaf" /\ InLeaf(i, c)
  <2>1. PICK top, first : /\ IsIndex(i, top, first)
                          /\ \E b \in DOMAIN first :
                                /\ c.forw = i.leaves[b].forw
                                /\ c.max = i.leaves[b].count - i.leaves[b].stale
                                /\ c.pos \in 0 .. c.max /\ c.at = first[b] + c.pos + 1
    BY <1>5 DEF InLeaf
  <2>2. PICK b \in DOMAIN first : /\ c.forw = i.leaves[b].forw
                                  /\ c.max = i.leaves[b].count - i.leaves[b].stale
                                  /\ c.pos \in 0 .. c.max /\ c.at = first[b] + c.pos + 1
    BY <2>1
  <2>3. i.leaves[b].count - i.leaves[b].stale \in Nat /\ first[b] \in 0 .. Len(Used(i))
    BY <2>1 DEF IsIndex, Indexes
  <2>4. s.pos \in 0 .. s.max /\ s.at = first[b] + s.pos + 1
    <3>1. c.max \in Nat /\ c.pos \in 0 .. c.max
      BY <2>2, <2>3
    <3>2. s.pos = c.pos + 1 /\ s.at = c.at + 1 /\ s.max = c.max
      BY <1>1, <3>1
    <3>3. c.at = first[b] + c.pos + 1 /\ first[b] \in Nat
      BY <2>2, <2>3
    <3> QED BY <3>1, <3>2, <3>3
  <2>5. InLeaf(i, s)
    BY <1>1, <2>1, <2>2, <2>4 DEF InLeaf
  <2> QED BY <1>2, <1>5, <2>5 DEF Cursor
<1> QED BY <1>3, <1>4, <1>5, Zenon DEF Cursor

LEMMA DentryKeeps == ASSUME XInv, next_dentry PROVE XInv'
<1> DEFINE recs == init_extents(Disk, inode)
           d == Turn(recs, dir)
           e == Dentry(d)
           sight == Sight(recs, d)
           step == Advance(d)
           match == look.rest # <<>> /\ look.rest[1] = e.name
           good == dir' = step /\ Compare(e)
           empty == dir' = Blank(d) /\ UNCHANGED <<pc, look>>
           over == dir.pos >= dir.max /\ dir.forw = 0
           up == Layout(inode) = "local" /\ look.rest # <<>> /\ look.rest[1] = ".."
<1>1. /\ pc = "dentry" /\ Disk' = Disk
      /\ UNCHANGED <<disk, path, named, inode, file, rd>>
      /\ \/ over /\ GiveUp("NOTFOUND") /\ UNCHANGED <<dir, look, spoiled, faults>>
         \/ /\ ~over /\ UNCHANGED result /\ spoiled' = (spoiled \/ sight # "entry" \/ up)
            /\ \/ sight = "entry" /\ good /\ UNCHANGED faults
               \/ sight = "empty" /\ empty /\ UNCHANGED faults
               \/ sight = "lost" /\ Drift(step) /\ UNCHANGED faults
               \/ Drift(step) /\ Fault
  <2>1. /\ pc = "dentry" /\ UNCHANGED <<disk, path, named, inode, file, rd, reads>>
    BY DEF next_dentry
  <2>2. Disk' = Disk
    BY <2>1 DEF Disk, AllImages
  <2>3. \/ Exhausted /\ GiveUp("NOTFOUND") /\ UNCHANGED <<dir, look, spoiled, faults>>
        \/ /\ ~Exhausted /\ Going
           /\ spoiled' = (spoiled \/ sight # "entry" \/ PastStart)
           /\ \/ sight = "entry" /\ good /\ UNCHANGED faults
              \/ sight = "empty" /\ empty /\ UNCHANGED faults
              \/ sight = "lost" /\ Drift(step) /\ UNCHANGED faults
              \/ Drift(step) /\ Fault
    <3> HIDE DEF match
    <3> QED BY Zenon DEF next_dentry
  <2> HIDE DEF recs, d, e, sight, step, match, good, empty
  <2> QED BY <2>1, <2>2, <2>3 DEF Going, Exhausted, PastStart
<1>2. DOMAIN dir = DirKeys /\ DOMAIN look = {"ino", "parent", "rest", "off", "links"}
  BY DEF XInv, Control, Keys, DirKeys
<1>3. DOMAIN d = DirKeys
  BY <1>2 DEF Turn, TakeLeaf
<1>4. DOMAIN step = DirKeys
  BY <1>3 DEF Advance
<1>5. ASSUME NEW i, Found(i) PROVE /\ pc' = "inode" /\ DOMAIN look' = DOMAIN look
                                   /\ look'.rest = SubSeq(look.rest, 2, Len(look.rest))
                                   /\ look'.links = look.links /\ look'.parent = look.ino
                                   /\ look'.ino = IF i = 0 THEN look.ino ELSE i
  BY <1>2, <1>5 DEF Found, Pass
<1> HIDE DEF recs, d, e, step, sight
<1>6. DOMAIN dir' = DirKeys /\ DOMAIN look' = DOMAIN look /\ pc' \in {"inode", "dentry", "failed"}
      /\ (UNCHANGED faults \/ Fault) /\ (pc' # "failed" => UNCHANGED result)
  <2>1. ASSUME good PROVE DOMAIN dir' = DirKeys /\ DOMAIN look' = DOMAIN look /\ pc' \in {"inode", "dentry"}
    BY <1>1, <1>4, <1>5, <2>1 DEF Compare
  <2>2. ASSUME empty PROVE DOMAIN dir' = DirKeys /\ DOMAIN look' = DOMAIN look /\ pc' = "dentry"
    BY <1>1, <1>3, <2>2 DEF Blank, DirKeys
  <2>3. ASSUME Drift(step) PROVE DOMAIN dir' = DirKeys /\ DOMAIN look' = DOMAIN look /\ pc' \in {"inode", "dentry"}
    <3>1. PICK c \in {step, [step EXCEPT !.max = 0, !.forw = 0]}, k \in {step.at, 0} :
             dir' = [c EXCEPT !.at = k, !.lost = TRUE]
      BY <2>3 DEF Drift
    <3>2. DOMAIN c = DirKeys
      BY <1>4
    <3>3. DOMAIN dir' = DirKeys
      BY <3>1, <3>2
    <3>4. UNCHANGED <<pc, look>> \/ \E i \in {0, Disk.root} : Found(i)
      BY <2>3 DEF Drift
    <3> QED BY <1>1, <1>5, <3>3, <3>4
  <2> HIDE DEF match, good, empty, over, up
  <2> QED BY <1>1, <1>2, <2>1, <2>2, <2>3 DEF GiveUp
<1> HIDE DEF match, good, empty, over, up
<1>7. Control'
  BY <1>1, <1>2, <1>6 DEF XInv, Control, Keys, DirKeys, Fault
<1>8. ASSUME Healthy' PROVE Looking' /\ Scanning' /\ Linking' /\ Ended'
  <2>1. Healthy /\ UNCHANGED faults
    <3>1. UNCHANGED spoiled \/ (\E b : spoiled' = (spoiled \/ b))
      BY <1>1, Zenon
    <3> QED BY <1>1, <1>6, <1>7, <1>8, <3>1, HealthyBefore DEF XInv
  <2>2. over \/ (sight = "entry" /\ ~up)
    BY <1>1, <1>8, Zenon DEF Healthy
  <2> DEFINE entries == Disk.objs[look.ino].entries
             n == Len(Used(inode))
  <2>3. /\ inode.mode = "dir" /\ look.ino \in DOMAIN Disk.objs /\ Disk.objs[look.ino].mode = "dir"
        /\ Lists(inode, look.ino, entries) /\ n \in Nat /\ DOMAIN Used(inode) = 1 .. n
        /\ \A x \in DOMAIN entries : entries[x] \in DOMAIN Disk.objs
    BY <1>1, <2>1, ScanFacts
  <2>4. Cursor(inode, look, dir)
    BY <1>1, <2>1 DEF XInv, Scanning
  <2>5. PICK rest \in Text : /\ rest # <<>> /\ look.rest = DropSlashes(rest)
                             /\ Way(Disk, path, named, look, rest, look.links)
    BY <1>1, <2>1 DEF XInv, Scanning
  <2> DEFINE w == Site(look, rest, look.links)
  <2>6. /\ w \in Sites(Disk) /\ Leads(Disk, path, named, w) /\ w.at = look.ino /\ w.rest = rest
        /\ w.links = look.links /\ Len(path) \in Nat /\ look.rest \in Text
    BY <2>5, TextLen, SlashesDropped DEF Way, Site, XInv, Control
  <2> HIDE DEF w
  <2>7. CASE over
    <3>1. GiveUp("NOTFOUND") /\ UNCHANGED look
      BY <1>1, <2>7
    <3>2. /\ NotIn(inode, look, n)
          /\ Layout(inode) = "local" => look.rest = <<>> \/ look.rest[1] \notin {".", ".."}
      BY <2>3, <2>4, <2>7, CursorEnd DEF over
    <3>3. look.rest = <<>> \/ look.rest[1] \notin DOMAIN entries
      <4> SUFFICES ASSUME look.rest # <<>>, look.rest[1] \in DOMAIN entries PROVE FALSE
        OBVIOUS
      <4>1. \/ \E k \in DOMAIN Used(inode) : Used(inode)[k].name = look.rest[1]
            \/ Layout(inode) = "local" /\ look.rest[1] \in {".", ".."}
        BY <2>3 DEF Lists
      <4> HIDE DEF n, entries
      <4> QED BY <2>3, <3>2, <4>1 DEF NotIn
    <3>4. named.res = "NOTFOUND"
      BY <2>3, <2>5, <2>6, <3>3, NameMissing
    <3> QED BY <1>1, <3>1, <3>4 DEF GiveUp, Looking, Scanning, Linking, Ended
  <2>8. CASE ~over
    <3>0. good /\ UNCHANGED result /\ sight = "entry"
      BY <1>1, <2>1, <2>2, <2>8 DEF Healthy, Fault
    <3>1. Cursor(inode, look, d) /\ d.pos < d.max /\ DOMAIN d = DirKeys
      BY <1>2, <2>3, <2>4, <2>8, <3>0, Turned DEF over, d, sight
    <3>2. \/ Layout(inode) = "local" /\ d.pos \in {-2, -1} /\ d.at = 1
          \/ d.pos \in Nat /\ d.at \in 1 .. n
      BY <2>3, <3>1, CursorAt
    <3>3. /\ Layout(inode) = "local" /\ d.pos = -2 => e.name = "." /\ e.ino = 0
          /\ Layout(inode) = "local" /\ d.pos = -1 => e.name = ""
          /\ d.pos \in Nat /\ d.at \in 1 .. n => e = Used(inode)[d.at]
      <4> HIDE DEF n, entries
      <4>1. Layout(inode) = "local" /\ d.pos = -2 => e.name = "." /\ e.ino = 0
        BY DEF e, Dentry
      <4>2. Layout(inode) = "local" /\ d.pos = -1 => e.name = ""
        BY DEF e, Dentry
      <4>3. ASSUME d.pos \in Nat, d.at \in 1 .. n PROVE e = Used(inode)[d.at]
        <5>1. d.pos # -2 /\ d.pos # -1 /\ d.at \in DOMAIN Used(inode)
          BY <2>3, <4>3
        <5> QED BY <5>1 DEF e, Dentry
      <4> QED BY <4>1, <4>2, <4>3
    <3>4. CASE match
      <4>0. look.rest # <<>> /\ look.rest[1] = e.name /\ Found(e.ino) /\ dir' = step
        BY <3>0, <3>4 DEF match, good, Compare
      <4>1. look.rest[1] # ""
        <5>1. look.rest[1] \in Name
          BY <2>6, <4>0 DEF Text
        <5> QED BY <5>1, Zenon DEF Name
      <4> DEFINE o == IF e.ino = 0 THEN look.ino ELSE e.ino
      <4>2. look.rest[1] \in DOMAIN entries /\ entries[look.rest[1]] = o
        <5>1. CASE Layout(inode) = "local" /\ d.pos = -2
          <6>1. "." \in DOMAIN entries /\ entries["."] = look.ino
            BY <2>3 DEF Lists
          <6> QED BY <3>3, <4>0, <5>1, <6>1
        <5>2. CASE Layout(inode) = "local" /\ d.pos = -1
          BY <3>3, <4>0, <4>1, <5>2
        <5>3. CASE d.pos \in Nat /\ d.at \in 1 .. n
          <6>1. e = Used(inode)[d.at]
            BY <3>3, <5>3
          <6>2. d.at \in DOMAIN Used(inode)
            BY <2>3, <5>3
          <6>3. e.name \in DOMAIN entries /\ entries[e.name] = e.ino
            BY <2>3, <6>1, <6>2 DEF Lists
          <6>4. e.ino # 0
            <7>1. Used(inode) \in Seq([name : STRING, ino : Nat \ {0}, blk : Nat])
              BY <2>3 DEF Lists
            <7> DEFINE S == [name : STRING, ino : Nat \ {0}, blk : Nat]
            <7>2. Used(inode) \in Seq(S)
              BY <7>1
            <7> HIDE DEF S
            <7>3. e \in S
              BY <6>1, <6>2, <7>2
            <7> QED BY <7>3 DEF S
          <6> QED BY <4>0, <6>3, <6>4
        <5> QED BY <3>2, <5>1, <5>2, <5>3
      <4>3. Entered(Disk, w) \in Sites(Disk) /\ Leads(Disk, path, named, Entered(Disk, w))
        BY <2>3, <2>5, <2>6, <4>0, <4>2, NameFound
      <4>4. /\ pc' = "inode" /\ look'.rest = SubSeq(look.rest, 2, Len(look.rest))
            /\ look'.links = look.links /\ look'.parent = look.ino /\ look'.ino = o
        BY <1>5, <4>0
      <4>5. Tail(look.rest) = SubSeq(look.rest, 2, Len(look.rest))
        BY <2>6, <4>0 DEF Text
      <4>6. Site(look', look'.rest, look'.links) = Entered(Disk, w)
        <5> HIDE DEF o
        <5> QED BY <2>5, <2>6, <4>2, <4>4, <4>5 DEF Site, Entered
      <4>7. Looking'
        BY <1>1, <4>3, <4>4, <4>6 DEF Looking, Way
      <4>8. result' = "none"
        BY <1>1, <3>0 DEF XInv, Control
      <4> QED BY <4>4, <4>7, <4>8 DEF Scanning, Linking, Ended
    <3>5. CASE ~match
      <4>0. UNCHANGED <<pc, look>> /\ dir' = step
        BY <3>0, <3>5 DEF match, good, Compare
      <4>1. Layout(inode) = "local" /\ d.pos = -2 => look.rest = <<>> \/ look.rest[1] \notin {".", ".."}
        BY <2>2, <2>8, <3>3, <3>5 DEF match, up
      <4>2. ~(Layout(inode) = "local" /\ d.pos < 0) => look.rest = <<>> \/ look.rest[1] # Used(inode)[d.at].name
        <5>1. ~(Layout(inode) = "local" /\ d.pos < 0) => d.pos \in Nat /\ d.at \in 1 .. n
          BY <3>2
        <5> QED BY <3>3, <3>5, <5>1 DEF match
      <4>3. Cursor(inode, look, step)
        BY <2>3, <3>1, <4>1, <4>2, Passed DEF step
      <4> QED BY <1>1, <2>1, <3>0, <4>0, <4>3, SameScan
    <3> QED BY <3>4, <3>5
  <2> QED BY <2>7, <2>8
<1> QED BY <1>7, <1>8 DEF XInv

(* The first byte of a block is in that block.                             *)
LEMMA BlockStart ==
    ASSUME NEW q \in Nat
    PROVE  (q * bsize) \div bsize = q
<1>0. bsize \in Nat /\ bsize > 0
  BY Numbers
<1> DEFINE k == (q * bsize) \div bsize
           l == (q * bsize) % bsize
<1>1. q * bsize \in Nat /\ k \in Nat /\ l \in 0 .. bsize - 1
  BY <1>0
<1>2. q * bsize = k * bsize + l
  BY <1>0, <1>1
<1> HIDE DEF k, l
<1>3. (q - k) * bsize = l
  BY <1>0, <1>1, <1>2
<1>4. ~(q - k >= 1)
  <2> SUFFICES ASSUME q - k >= 1 PROVE FALSE
    OBVIOUS
  <2>1. (q - k) * bsize >= bsize
    BY <1>0, <1>1
  <2> QED BY <1>0, <1>1, <1>3, <2>1
<1>5. ~(q - k <= -1)
  <2> SUFFICES ASSUME q - k <= -1 PROVE FALSE
    OBVIOUS
  <2>1. (k - q) * bsize >= bsize
    BY <1>0, <1>1
  <2>2. (k - q) * bsize = -l
    BY <1>0, <1>1, <1>2
  <2> QED BY <1>0, <1>1, <2>1, <2>2
<1> QED BY <1>1, <1>4, <1>5 DEF k

(* What happens behind an open does not touch what it found.               *)
LEMMA SameFile ==
    ASSUME XInv, Control', pc \in {"idle", "read", "extent", "done"}, pc' # "inode",
           pc' \notin {"branch", "first", "leaf", "dentry"},
           rd'.caller # "open" \/ pc' \in {"idle", "shut"},
           UNCHANGED <<disk, named, look, result>>, file'.len = file.len,
           Healthy' => Healthy
    PROVE  XInv'
<1>1. Disk' = Disk
  BY DEF Disk, AllImages
<1>2. Looking' /\ Scanning' /\ Linking'
  BY DEF Control, Looking, Scanning, Linking
<1>3. Healthy' => Ended'
  BY <1>1 DEF XInv, Ended
<1> QED BY <1>2, <1>3 DEF XInv

LEMMA SeekKeeps == ASSUME XInv, NEW p \in Positions, xfs_seek(p) PROVE XInv'
<1>1. /\ pc = "idle" /\ pc' = "idle" /\ Disk' = Disk /\ file' = [file EXCEPT !.pos = p]
      /\ UNCHANGED <<disk, path, named, look, dir, rd, result, spoiled, faults>>
  BY DEF xfs_seek, Disk, AllImages
<1>2. DOMAIN file' = DOMAIN file /\ file'.len = file.len
  BY <1>1 DEF XInv, Control, Keys
<1>3. Control'
  BY <1>1, <1>2 DEF XInv, Control, Keys
<1>4. Healthy' => Healthy
  BY <1>1 DEF Healthy
<1> QED BY <1>1, <1>2, <1>3, <1>4, SameFile

LEMMA CallKeeps == ASSUME XInv, NEW n \in Sizes, xfs_read(n) PROVE XInv'
<1>1. /\ pc = "idle" /\ pc' = "read" /\ Disk' = Disk
      /\ rd' = [NoRead EXCEPT !.len = n, !.caller = "read", !.lost = rd.lost]
      /\ UNCHANGED <<disk, path, named, look, dir, file, result, spoiled, faults>>
  BY DEF xfs_read, Disk, AllImages
<1>2. DOMAIN rd' = DOMAIN NoRead /\ rd'.caller = "read"
  BY <1>1 DEF NoRead
<1>3. Control'
  BY <1>1, <1>2 DEF XInv, Control, Keys, NoRead
<1>4. Healthy' => Healthy
  BY <1>1 DEF Healthy
<1> QED BY <1>1, <1>2, <1>3, <1>4, SameFile

LEMMA ReturnKeeps == ASSUME XInv, ReadReturn PROVE XInv'
<1>1. /\ pc = "done" /\ rd.caller = "read" /\ pc' = "idle" /\ Disk' = Disk
      /\ rd' = [rd EXCEPT !.caller = "none"]
      /\ UNCHANGED <<disk, path, named, look, dir, file, result, spoiled, faults>>
  BY DEF ReadReturn, Disk, AllImages
<1>2. DOMAIN rd' = DOMAIN rd
  BY <1>1
<1>3. Control'
  BY <1>1, <1>2 DEF XInv, Control, Keys
<1>4. Healthy' => Healthy
  BY <1>1 DEF Healthy
<1> QED BY <1>1, <1>3, <1>4, SameFile

LEMMA CloseKeeps == ASSUME XInv, xfs_close PROVE XInv'
<1>1. /\ pc = "idle" /\ pc' = "shut" /\ Disk' = Disk
      /\ UNCHANGED <<disk, path, named, look, dir, file, rd, result, spoiled, faults>>
  BY DEF xfs_close, Disk, AllImages
<1>2. Control'
  BY <1>1 DEF XInv, Control
<1>3. Healthy' => Healthy
  BY <1>1 DEF Healthy
<1> QED BY <1>1, <1>2, <1>3, SameFile

LEMMA StutterKeeps == ASSUME XInv, UNCHANGED vars PROVE XInv'
<1>1. Disk' = Disk
  BY DEF vars, Disk, AllImages
<1>2. Control' /\ (Healthy' => Healthy)
  BY <1>1 DEF vars, XInv, Control, Healthy
<1>3. (Looking <=> Looking') /\ (Scanning <=> Scanning') /\ (Linking <=> Linking') /\ (Ended <=> Ended')
  BY <1>1 DEF vars, Looking, Scanning, Linking, Ended, Target
<1> QED BY <1>2, <1>3 DEF XInv

(***************************************************************************)
(* Reading the text of a link.                                             *)
(***************************************************************************)
(* What is known of a link while it is read.                               *)
LEMMA LinkFacts ==
    ASSUME XInv, Healthy, pc \in {"read", "extent", "done"}, rd.caller = "open"
    PROVE  /\ Target \in Text /\ Len(Target) \in Nat /\ inode.size = Len(Target)
           /\ \/ inode.format = "local" /\ inode.bytes = Target
              \/ inode.format = "extents" /\ Holds(Disk, inode, Target)
<1>1. Its(Disk, look, inode) /\ inode.mode = "lnk" /\ Way(Disk, path, named, look, look.rest, look.links - 1)
  BY DEF XInv, Linking
<1>2. look.ino \in DOMAIN Disk.objs
  BY <1>1 DEF Way, Site, Sites
<1>3. InOrder(Disk)
  BY HealthyDisk DEF XInv, Healthy
<1> QED BY <1>1, <1>2, <1>3, LinkInode, TextLen DEF Its, Target

(* The link is still being read.                                           *)
LEMMA SameLink ==
    ASSUME XInv, Control', Healthy, pc \in {"read", "extent"}, rd.caller = "open",
           pc' \in {"extent", "done"}, UNCHANGED <<disk, path, named, inode, look, result>>,
           pc' = "extent" => Streaming(inode, Target, file', rd'),
           pc' = "done" => rd'.buf = Target
    PROVE  XInv'
<1>1. Disk' = Disk /\ Target' = Target
  BY DEF Disk, AllImages, Target
<1>2. Linking'
  BY <1>1 DEF XInv, Linking
<1>3. result' = "none"
  BY DEF XInv, Control
<1> QED BY <1>2, <1>3 DEF XInv, Looking, Scanning, Ended

(* What xfs_read_data does before its loop.                                *)
LEMMA DataCases ==
    ASSUME xfs_read_data
    PROVE  /\ pc = "read" /\ Disk' = Disk
           /\ UNCHANGED <<disk, path, named, inode, look, dir, result, spoiled>>
           /\ \/ /\ inode.format = "local" /\ pc' = "done" /\ UNCHANGED faults
                 /\ rd' = Delivered(rd, SubSeq(inode.bytes, file.pos + 1, file.pos + rd.len))
                 /\ file' = [file EXCEPT !.pos = @ + rd.len]
              \/ /\ inode.format # "local" /\ pc' = "extent" /\ UNCHANGED file
                 /\ \/ rd' = Begun(init_extents(Disk, inode), rd.lost) /\ UNCHANGED faults
                    \/ /\ inode.format = "btree" /\ Fault
                       /\ \E recs \in Strays(Disk) : rd' = Begun(recs, TRUE)
BY DEF xfs_read_data, Begun, Tried, Disk, AllImages

LEMMA DataKeeps == ASSUME XInv, xfs_read_data PROVE XInv'
<1> DEFINE end == file.pos + rd.len
<1>1. /\ pc = "read" /\ Disk' = Disk
      /\ UNCHANGED <<disk, path, named, inode, look, dir, result, spoiled>>
      /\ \/ /\ inode.format = "local" /\ pc' = "done" /\ UNCHANGED faults
            /\ rd' = Delivered(rd, SubSeq(inode.bytes, file.pos + 1, file.pos + rd.len))
            /\ file' = [file EXCEPT !.pos = @ + rd.len]
         \/ /\ inode.format # "local" /\ pc' = "extent" /\ UNCHANGED file
            /\ \/ rd' = Begun(init_extents(Disk, inode), rd.lost) /\ UNCHANGED faults
               \/ inode.format = "btree" /\ Fault /\ \E recs \in Strays(Disk) : rd' = Begun(recs, TRUE)
  BY DataCases
<1>2. Keys(look, dir, file, rd)
  BY DEF XInv, Control
<1>0. ASSUME NEW recs, NEW lost
      PROVE  /\ DOMAIN Begun(recs, lost) = DOMAIN rd /\ Begun(recs, lost).caller = rd.caller
             /\ Begun(recs, lost).endpos = (IF end > file.len THEN file.len ELSE end)
             /\ Begun(recs, lost).xt = recs /\ Begun(recs, lost).buf = rd.buf
             /\ Begun(recs, lost).len = rd.len
  BY <1>2 DEF Begun, Keys
<1>3. /\ DOMAIN rd' = DOMAIN rd /\ DOMAIN file' = DOMAIN file /\ rd'.caller = rd.caller
      /\ file'.len = file.len /\ (UNCHANGED faults \/ Fault)
  <2>1. CASE inode.format = "local"
    BY <1>1, <1>2, <2>1 DEF Keys, Delivered
  <2>2. CASE \E recs, lost : rd' = Begun(recs, lost) /\ UNCHANGED file /\ (UNCHANGED faults \/ Fault)
    BY <1>0, <2>2
  <2> QED BY <1>1, <2>1, <2>2
<1>4. Control'
  <2>1. pc' \in {"extent", "done"} /\ Keys(look', dir', file', rd')
    BY <1>1, <1>2, <1>3 DEF Keys
  <2>2. faults' \in Nat
    BY <1>3 DEF XInv, Control, Fault
  <2> QED BY <1>1, <1>3, <2>1, <2>2 DEF XInv, Control
<1>5. Healthy' => Healthy /\ UNCHANGED faults
  BY <1>1, <1>3, <1>4, HealthyBefore DEF XInv
<1>6. CASE rd.caller # "open"
  BY <1>1, <1>3, <1>4, <1>5, <1>6, SameFile
<1>7. CASE ~Healthy'
  <2>1. XInv' <=> Control' /\ (Healthy' => Looking' /\ Scanning' /\ Linking' /\ Ended')
    BY DEF XInv
  <2> QED BY <1>4, <1>7, <2>1
<1>8. CASE rd.caller = "open" /\ Healthy'
  <2>1. Healthy
    BY <1>5, <1>8
  <2> DEFINE t == Target
             m == Len(t)
  <2>2. /\ t \in Text /\ m \in Nat /\ inode.size = m
        /\ \/ inode.format = "local" /\ inode.bytes = t
           \/ inode.format = "extents" /\ Holds(Disk, inode, t)
    BY <1>1, <1>8, <2>1, LinkFacts
  <2>3. file.pos = 0 /\ file.len = m /\ rd.buf = <<>> /\ rd.len = m
    BY <1>1, <1>8, <2>1 DEF XInv, Linking
  <2>4. CASE inode.format = "local"
    <3>1. rd' = Delivered(rd, SubSeq(inode.bytes, file.pos + 1, file.pos + rd.len)) /\ pc' = "done"
      BY <1>1, <2>4
    <3>2. rd'.buf = rd.buf \o SubSeq(inode.bytes, file.pos + 1, file.pos + rd.len)
      BY <1>2, <3>1 DEF Delivered, Keys
    <3>3. inode.bytes = t
      BY <2>2, <2>4
    <3> HIDE DEF t
    <3>4. rd'.buf = <<>> \o SubSeq(t, 1, m)
      BY <2>2, <2>3, <3>2, <3>3
    <3>5. rd'.buf = t
      BY <2>2, <3>4 DEF Text
    <3> QED BY <1>1, <1>4, <1>8, <2>1, <3>1, <3>5, SameLink DEF t
  <2>5. CASE inode.format # "local"
    <3>1. /\ inode.format = "extents" /\ pc' = "extent" /\ UNCHANGED file /\ Holds(Disk, inode, t)
          /\ rd' = Begun(init_extents(Disk, inode), rd.lost)
      BY <1>1, <2>2, <2>5
    <3>2. init_extents(Disk, inode) = inode.recs
      BY <3>1 DEF init_extents
    <3>3. inode.recs \in Seq(Range(inode.recs))
      BY <3>1, <3>2 DEF Holds
    <3>4. /\ rd'.endpos = (IF end > file.len THEN file.len ELSE end) /\ rd'.xt = inode.recs
          /\ rd'.buf = rd.buf /\ rd'.len = rd.len
      BY <1>0, <3>1, <3>2
    <3> HIDE DEF t
    <3>5. rd'.endpos = m
      BY <2>2, <2>3, <3>4
    <3>6. SubSeq(t, 1, 0) = <<>>
      BY <2>2 DEF Text
    <3>7. 0 \in 0 .. Len(inode.recs) /\ inode.recs = SubSeq(inode.recs, 0 + 1, Len(inode.recs))
      <4> DEFINE S == Range(inode.recs)
                 r == inode.recs
      <4>1. r \in Seq(S)
        BY <3>3
      <4> HIDE DEF S, r
      <4>2. 0 \in 0 .. Len(r) /\ r = SubSeq(r, 0 + 1, Len(r))
        BY <4>1
      <4> QED BY <4>2 DEF r
    <3>8. 0 * bsize = 0
      BY Numbers
    <3>9. Streaming(inode, t, file', rd')
      <4>1. Begins(inode.recs, 0) = 0
        BY DEF Begins
      <4>2. /\ rd'.len \in 0 .. Len(t) /\ file'.pos = Len(t) - rd'.len /\ file'.pos = 0
            /\ rd'.buf = SubSeq(t, 1, file'.pos)
        <5>1. file'.pos = 0 /\ rd'.len = m /\ rd'.buf = <<>>
          BY <2>3, <3>1, <3>4
        <5> QED BY <2>2, <3>6, <5>1
      <4>3. \E n \in 0 .. Len(inode.recs) :
               /\ rd'.xt = SubSeq(inode.recs, n + 1, Len(inode.recs))
               /\ rd'.len > 0 => file'.pos = Begins(inode.recs, n) * bsize
        BY <3>4, <3>7, <3>8, <4>1, <4>2
      <4> QED BY <3>1, <3>5, <4>2, <4>3 DEF Streaming
    <3> QED BY <1>1, <1>4, <1>8, <2>1, <3>1, <3>9, SameLink DEF t
  <2> QED BY <2>4, <2>5
<1> QED BY <1>6, <1>7, <1>8

(* The records still to come.                                              *)
LEMMA SeqTail ==
    ASSUME NEW S, NEW s \in Seq(S), NEW n \in 0 .. Len(s), SubSeq(s, n + 1, Len(s)) # <<>>
    PROVE  /\ n + 1 \in 1 .. Len(s) /\ Head(SubSeq(s, n + 1, Len(s))) = s[n + 1]
           /\ Tail(SubSeq(s, n + 1, Len(s))) = SubSeq(s, (n + 1) + 1, Len(s))
OBVIOUS

LEMMA SeqEnd ==
    ASSUME NEW S, NEW s \in Seq(S), NEW n \in 0 .. Len(s), SubSeq(s, n + 1, Len(s)) = <<>>
    PROVE  n = Len(s)
OBVIOUS

(* The next piece of a text.                                               *)
LEMMA Appended ==
    ASSUME NEW S, NEW t \in Seq(S), NEW a \in 0 .. Len(t), NEW n \in Nat, a + n <= Len(t),
           NEW b, b = [i \in 1 .. n |-> t[a + i]]
    PROVE  SubSeq(t, 1, a) \o b = SubSeq(t, 1, a + n) /\ Len(b) = n
<1>0. Len(t) \in Nat
  OBVIOUS
<1>1. b \in Seq(S) /\ Len(b) = n
  OBVIOUS
<1>2. SubSeq(t, 1, a) \in Seq(S) /\ Len(SubSeq(t, 1, a)) = a
  OBVIOUS
<1>3. SubSeq(t, 1, a + n) \in Seq(S) /\ Len(SubSeq(t, 1, a + n)) = a + n
  BY <1>0
<1> DEFINE l == SubSeq(t, 1, a) \o b
           r == SubSeq(t, 1, a + n)
<1>4. l \in Seq(S) /\ Len(l) = a + n
  BY <1>1, <1>2
<1>5. ASSUME NEW k \in 1 .. a + n PROVE l[k] = r[k]
  <2>1. r[k] = t[k]
    BY <1>0
  <2>2. l[k] = t[k]
    <3>1. CASE k <= a
      BY <1>1, <1>2, <3>1
    <3>2. CASE k > a
      <4>1. k - a \in 1 .. n /\ a + (k - a) = k
        BY <3>2
      <4>2. l[k] = b[k - a]
        BY <1>1, <1>2, <3>2, <4>1
      <4> QED BY <4>1, <4>2
    <3> QED BY <3>1, <3>2
  <2> QED BY <2>1, <2>2
<1> HIDE DEF l, r
<1>6. l = r
  BY <1>3, <1>4, <1>5 DEF r
<1> QED BY <1>1, <1>6 DEF l, r

(* What Holds says, by records.                                            *)
LEMMA HeldBy ==
    ASSUME NEW d, NEW i, NEW t, Holds(d, i, t)
    PROVE  LET recs == init_extents(d, i)
           IN  /\ recs \in Seq(Range(recs)) /\ Len(recs) \in Nat /\ DOMAIN recs = 1 .. Len(recs)
               /\ i.format = "extents" => Len(t) <= Begins(recs, Len(recs)) * bsize
               /\ \A k \in 1 .. Len(recs) :
                     /\ xt_offset(recs[k]) = Begins(recs, k - 1)
                     /\ xt_offset(recs[k]) \in Nat /\ xt_len(recs[k]) \in Nat \ {0}
                     /\ fsb2daddr(xt_start(recs[k])) * 2 ^ SECTOR_BITS \in Nat
                     /\ \A x \in xt_offset(recs[k]) * bsize
                                .. (xt_offset(recs[k]) + xt_len(recs[k])) * bsize - 1 :
                           x < Len(t) => t[x + 1] = ByteAt(d, fsb2daddr(xt_start(recs[k])) * 2 ^ SECTOR_BITS
                                                              + (x - xt_offset(recs[k]) * bsize))
<1> DEFINE recs == init_extents(d, i)
           ext(k) == next_extent(recs[k])
           home(k) == fsb2daddr(ext(k).start) * 2 ^ SECTOR_BITS
<1>2. /\ recs \in Seq(Range(recs))
      /\ i.format = "extents" =>
            Len(t) <= (IF recs = <<>> THEN 0 ELSE ext(Len(recs)).offset + ext(Len(recs)).len) * bsize
      /\ \A k \in DOMAIN recs :
            /\ ext(k).offset = IF k = 1 THEN 0 ELSE ext(k - 1).offset + ext(k - 1).len
            /\ ext(k).offset \in Nat /\ ext(k).len \in Nat \ {0} /\ home(k) \in Nat
            /\ \A x \in ext(k).offset * bsize .. (ext(k).offset + ext(k).len) * bsize - 1 :
                  x < Len(t) => t[x + 1] = ByteAt(d, home(k) + (x - ext(k).offset * bsize))
  BY Zenon DEF Holds
<1>3. \A k : /\ ext(k).offset = xt_offset(recs[k]) /\ ext(k).len = xt_len(recs[k])
            /\ ext(k).start = xt_start(recs[k])
  BY DEF next_extent
<1>4. Len(recs) \in Nat /\ DOMAIN recs = 1 .. Len(recs) /\ (recs = <<>> <=> Len(recs) = 0)
  <2> DEFINE S == Range(recs)
  <2>1. recs \in Seq(S)
    BY <1>2
  <2> HIDE DEF S, recs
  <2> QED BY <2>1
<1> HIDE DEF recs, ext
<1>5. i.format = "extents" => Len(t) <= Begins(recs, Len(recs)) * bsize
  BY <1>2, <1>3, <1>4 DEF Begins
<1>6. ASSUME NEW k \in 1 .. Len(recs)
      PROVE  xt_offset(recs[k]) = Begins(recs, k - 1)
  <2>1. ext(k).offset = IF k = 1 THEN 0 ELSE ext(k - 1).offset + ext(k - 1).len
    BY <1>2, <1>4
  <2>2. k = 1 <=> k - 1 = 0
    OBVIOUS
  <2> QED BY <1>3, <2>1, <2>2 DEF Begins
<1>7. ASSUME NEW k \in 1 .. Len(recs)
      PROVE  /\ xt_offset(recs[k]) \in Nat /\ xt_len(recs[k]) \in Nat \ {0}
             /\ fsb2daddr(xt_start(recs[k])) * 2 ^ SECTOR_BITS \in Nat
             /\ \A x \in xt_offset(recs[k]) * bsize .. (xt_offset(recs[k]) + xt_len(recs[k])) * bsize - 1 :
                   x < Len(t) => t[x + 1] = ByteAt(d, fsb2daddr(xt_start(recs[k])) * 2 ^ SECTOR_BITS
                                                      + (x - xt_offset(recs[k]) * bsize))
  <2>1. k \in DOMAIN recs
    BY <1>4
  <2>2. /\ ext(k).offset = xt_offset(recs[k]) /\ ext(k).len = xt_len(recs[k])
        /\ home(k) = fsb2daddr(xt_start(recs[k])) * 2 ^ SECTOR_BITS
    BY <1>3, Zenon
  <2> HIDE DEF home
  <2> QED BY <1>2, <2>1, <2>2, Zenon
<1> QED BY <1>2, <1>4, <1>5, <1>6, <1>7, Zenon DEF recs

(* What is in extent k of a link's text.                                   *)
LEMMA ExtentFacts ==
    ASSUME NEW d, NEW i, NEW t, i.format = "extents", Holds(d, i, t)
    PROVE  /\ i.recs \in Seq(Range(i.recs))
           /\ Len(t) <= Begins(i.recs, Len(i.recs)) * bsize
           /\ \A k \in 1 .. Len(i.recs) :
                 /\ xt_offset(i.recs[k]) = Begins(i.recs, k - 1)
                 /\ xt_offset(i.recs[k]) \in Nat /\ xt_len(i.recs[k]) \in Nat \ {0}
                 /\ fsb2daddr(xt_start(i.recs[k])) * 2 ^ SECTOR_BITS \in Nat
                 /\ \A x \in xt_offset(i.recs[k]) * bsize
                            .. (xt_offset(i.recs[k]) + xt_len(i.recs[k])) * bsize - 1 :
                       x < Len(t) => t[x + 1] = ByteAt(d, fsb2daddr(xt_start(i.recs[k])) * 2 ^ SECTOR_BITS
                                                          + (x - xt_offset(i.recs[k]) * bsize))
<1>1. init_extents(d, i) = i.recs
  BY DEF init_extents
<1> QED BY <1>1, HeldBy

(* What is done with one extent.                                           *)
LEMMA Taken ==
    ASSUME Keys(look, dir, file, rd), NEW xad, NEW bytes, NEW lost, TakeExtent(xad, bytes, lost)
    PROVE  /\ DOMAIN rd' = DOMAIN rd /\ DOMAIN file' = DOMAIN file /\ UNCHANGED pc
           /\ rd'.caller = rd.caller /\ rd'.buf = rd.buf \o bytes /\ rd'.len = rd.len - Len(bytes)
           /\ rd'.xt = Tail(rd.xt) /\ rd'.endpos = rd.endpos /\ rd'.lost = lost
           /\ rd'.prev = (IF Where(xad) = "hole" THEN rd.prev ELSE xad.offset + xad.len)
           /\ file'.pos = file.pos + Len(bytes) /\ file'.len = file.len
BY DEF TakeExtent, Delivered, Keys

(* A turn of the loop.                                                     *)
LEMMA ExtentCases ==
    ASSUME ReadExtents
    PROVE  /\ pc = "extent" /\ Disk' = Disk
           /\ UNCHANGED <<disk, path, named, inode, look, dir, result, spoiled>>
           /\ \/ /\ rd.len > 0 /\ rd.xt # <<>>
                 /\ \/ /\ UNCHANGED faults
                       /\ TakeExtent(next_extent(Head(rd.xt)), Contents(next_extent(Head(rd.xt))), rd.lost)
                    \/ /\ Fault /\ Where(next_extent(Head(rd.xt))) = "inside"
                       /\ TakeExtent(next_extent(Head(rd.xt)), Kept(next_extent(Head(rd.xt))), rd.lost)
                    \/ /\ inode.format = "btree" /\ Fault
                       /\ \E r \in StaleRecords(Disk) :
                             TakeExtent(next_extent(r), Contents(next_extent(r)), TRUE)
              \/ NextLeaf
              \/ LastExtent
<1>1. /\ pc = "extent" /\ (NextExtent \/ NextLeaf \/ LastExtent)
      /\ UNCHANGED <<disk, path, named, inode, look, dir, result, spoiled>>
  BY DEF ReadExtents
<1>2. Disk' = Disk
  BY <1>1 DEF Disk, AllImages
<1> QED BY <1>1, <1>2, Zenon DEF NextExtent, Tried

LEMMA ExtentsKeep == ASSUME XInv, ReadExtents PROVE XInv'
<1> DEFINE xad == next_extent(Head(rd.xt))
           where == Where(xad)
           n == toread(xad, where)
           good == Contents(xad)
<1>1. /\ pc = "extent" /\ Disk' = Disk
      /\ UNCHANGED <<disk, path, named, inode, look, dir, result, spoiled>>
      /\ \/ /\ rd.len > 0 /\ rd.xt # <<>>
            /\ \/ TakeExtent(xad, good, rd.lost) /\ UNCHANGED faults
               \/ (\E x, b, l : TakeExtent(x, b, l)) /\ Fault
         \/ NextLeaf
         \/ LastExtent
  BY ExtentCases, Zenon
<1>2. Keys(look, dir, file, rd)
  BY DEF XInv, Control
<1> HIDE DEF xad, where, n, good
<1>4. /\ DOMAIN rd' = DOMAIN rd /\ DOMAIN file' = DOMAIN file
      /\ rd'.caller = rd.caller /\ file'.len = file.len
      /\ (UNCHANGED faults \/ Fault) /\ pc' \in {"extent", "done"}
  <2>1. CASE NextLeaf
    BY <1>1, <1>2, <2>1 DEF NextLeaf, Keys
  <2>2. CASE LastExtent
    BY <1>1, <1>2, <2>2 DEF LastExtent, Keys
  <2>3. CASE (\E x, b, l : TakeExtent(x, b, l)) /\ (UNCHANGED faults \/ Fault)
    BY <1>1, <1>2, <2>3, Taken
  <2> QED BY <1>1, <2>1, <2>2, <2>3
<1>5. Control'
  BY <1>1, <1>2, <1>4 DEF XInv, Control, Keys, Fault
<1>6. Healthy' => Healthy /\ UNCHANGED faults
  BY <1>1, <1>4, <1>5, HealthyBefore DEF XInv
<1>7. CASE rd.caller # "open"
  BY <1>1, <1>4, <1>5, <1>6, <1>7, SameFile
<1>8. CASE ~Healthy'
  <2>1. XInv' <=> Control' /\ (Healthy' => Looking' /\ Scanning' /\ Linking' /\ Ended')
    BY DEF XInv
  <2> QED BY <1>5, <1>8, <2>1
<1>9. CASE rd.caller = "open" /\ Healthy'
  <2>1. Healthy /\ UNCHANGED faults /\ ~Fault
    <3>1. Healthy /\ UNCHANGED faults
      BY <1>6, <1>9
    <3> QED BY <3>1 DEF Healthy, Fault
  <2> DEFINE t == Target
             m == Len(t)
             recs == inode.recs
  <2>2. Streaming(inode, t, file, rd)
    BY <1>1, <1>9, <2>1 DEF XInv, Linking
  <2>3. t \in Text /\ m \in Nat /\ inode.format = "extents" /\ Holds(Disk, inode, t)
    BY <1>1, <1>9, <2>1, <2>2, LinkFacts DEF Streaming
  <2> HIDE DEF t
  <2>4. /\ rd.endpos = m /\ rd.len \in 0 .. m /\ file.pos = m - rd.len /\ rd.buf = SubSeq(t, 1, file.pos)
        /\ \E k \in 0 .. Len(recs) : /\ rd.xt = SubSeq(recs, k + 1, Len(recs))
                                     /\ rd.len > 0 => file.pos = Begins(recs, k) * bsize
    BY <2>2 DEF Streaming
  <2>5. PICK k \in 0 .. Len(recs) : /\ rd.xt = SubSeq(recs, k + 1, Len(recs))
                                    /\ rd.len > 0 => file.pos = Begins(recs, k) * bsize
    BY <2>4
  <2>6. recs \in Seq(Range(recs)) /\ Len(t) <= Begins(recs, Len(recs)) * bsize
    BY <2>3, ExtentFacts
  <2>7. CASE rd.len > 0 /\ rd.xt # <<>>
    <3> DEFINE r == recs[k + 1]
               off == xt_offset(r)
               len == xt_len(r)
               h == fsb2daddr(xt_start(r)) * 2 ^ SECTOR_BITS
    <3>1. k + 1 \in 1 .. Len(recs) /\ Head(rd.xt) = r /\ Tail(rd.xt) = SubSeq(recs, (k + 1) + 1, Len(recs))
      <4> DEFINE S == Range(recs)
      <4>1. recs \in Seq(S)
        BY <2>6
      <4>2. rd.xt = SubSeq(recs, k + 1, Len(recs)) /\ k \in 0 .. Len(recs)
        BY <2>5
      <4> HIDE DEF S, recs
      <4>3. SubSeq(recs, k + 1, Len(recs)) # <<>>
        BY <2>7, <4>2
      <4> QED BY <4>1, <4>2, <4>3, SeqTail
    <3>2. /\ off = Begins(recs, k) /\ off \in Nat /\ len \in Nat \ {0} /\ h \in Nat
          /\ \A x \in off * bsize .. (off + len) * bsize - 1 :
                x < Len(t) => t[x + 1] = ByteAt(Disk, h + (x - off * bsize))
      <4>1. (k + 1) - 1 = k
        OBVIOUS
      <4> QED BY <2>3, <3>1, <4>1, ExtentFacts
    <3>3. xad.offset = off /\ xad.len = len /\ xad.start = xt_start(r)
      BY <3>1 DEF xad, next_extent
    <3>4. Begins(recs, k + 1) = off + len /\ k + 1 \in 0 .. Len(recs)
      <4>1. k + 1 # 0
        BY <3>1
      <4> QED BY <3>1, <4>1 DEF Begins
    <3> HIDE DEF recs, r, off, len, h
    <3>5. file.pos = off * bsize /\ file.pos \div bsize = off
      <4>1. rd.len > 0 => file.pos = Begins(recs, k) * bsize
        BY <2>5 DEF recs
      <4>2. file.pos = off * bsize
        BY <2>7, <3>2, <4>1
      <4>3. (off * bsize) \div bsize = off
        BY <3>2, BlockStart
      <4> QED BY <4>2, <4>3
    <3>6. where = "inside"
      <4>1. isinxt(file.pos \div bsize, xad.offset, xad.len)
        BY <3>2, <3>3, <3>5 DEF isinxt
      <4> QED BY <4>1 DEF where, Where
    <3>7. n = IF (off + len) * bsize >= m THEN rd.len ELSE (off + len) * bsize - file.pos
      BY <2>4, <3>3, <3>6 DEF n, toread
    <3> DEFINE e == (off + len) * bsize
    <3>8. e \in Nat /\ e > file.pos /\ off * bsize \in Nat
      <4>1. off * bsize \in Nat /\ len * bsize \in Nat /\ len * bsize > 0
        BY <3>2, Numbers
      <4>2. e = off * bsize + len * bsize
        BY <3>2, Numbers
      <4> HIDE DEF e
      <4> QED BY <3>5, <4>1, <4>2
    <3> HIDE DEF e
    <3>9. /\ n \in Nat /\ n <= rd.len /\ file.pos + n <= m /\ file.pos + n <= e
          /\ rd.len - n > 0 => file.pos + n = e
      <4>1. n = IF e >= m THEN rd.len ELSE e - file.pos
        BY <3>7 DEF e
      <4>2. m \in Nat /\ rd.len \in 0 .. m /\ file.pos = m - rd.len
        BY <2>3, <2>4
      <4> HIDE DEF m
      <4> QED BY <3>8, <4>1, <4>2
    <3>10. good = [i \in 1 .. n |-> t[file.pos + i]]
      <4>1. good = InExtent(xad.offset, xad.start, n)
        BY <3>6 DEF good, Contents, where, n
      <4>2. good = [i \in 1 .. n |-> ByteAt(Disk, h + (file.pos - off * bsize) + i - 1)]
        BY <3>3, <4>1 DEF InExtent, read_disk_block, h
      <4>3. ASSUME NEW i \in 1 .. n
            PROVE  ByteAt(Disk, h + (file.pos - off * bsize) + i - 1) = t[file.pos + i]
        <5> DEFINE x == file.pos + i - 1
        <5>1. /\ x \in off * bsize .. e - 1 /\ x < Len(t) /\ x + 1 = file.pos + i
              /\ h + (x - off * bsize) = h + (file.pos - off * bsize) + i - 1
          <6>1. file.pos \in Nat /\ m \in Nat
            BY <2>3, <3>5, <3>8
          <6> QED BY <3>2, <3>5, <3>8, <3>9, <6>1
        <5> HIDE DEF x
        <5>2. t[x + 1] = ByteAt(Disk, h + (x - off * bsize))
          BY <3>2, <5>1 DEF e
        <5> QED BY <5>1, <5>2
      <4> QED BY <4>2, <4>3
    <3>11. /\ SubSeq(t, 1, file.pos) \o good = SubSeq(t, 1, file.pos + n) /\ Len(good) = n
      <4>1. file.pos \in 0 .. Len(t)
        BY <2>3, <2>4
      <4> QED BY <2>3, <3>9, <3>10, <4>1, Appended DEF Text
    <3>12. TakeExtent(xad, good, rd.lost) /\ pc' = "extent"
      <4>1. ~(rd.len <= 0 \/ rd.xt = <<>>)
        BY <2>3, <2>4, <2>7
      <4>2. ~NextLeaf /\ ~LastExtent
        BY <4>1 DEF NextLeaf, LastExtent
      <4>3. TakeExtent(xad, good, rd.lost)
        BY <1>1, <2>1, <4>2
      <4> QED BY <1>1, <4>3 DEF TakeExtent
    <3>13. /\ rd'.buf = SubSeq(t, 1, file'.pos) /\ rd'.len = rd.len - n
           /\ rd'.xt = SubSeq(recs, (k + 1) + 1, Len(recs)) /\ rd'.endpos = m /\ file'.pos = file.pos + n
      <4>1. /\ rd'.buf = rd.buf \o good /\ rd'.len = rd.len - Len(good) /\ rd'.xt = Tail(rd.xt)
            /\ rd'.endpos = rd.endpos /\ file'.pos = file.pos + Len(good)
        BY <1>2, <3>12, Taken
      <4> QED BY <2>4, <3>1, <3>11, <4>1
    <3>14. /\ rd'.len \in 0 .. Len(t) /\ file'.pos = Len(t) - rd'.len
           /\ rd'.len > 0 => file'.pos = Begins(recs, k + 1) * bsize
      <4>1. rd'.len \in 0 .. m /\ file'.pos = m - rd'.len
        <5>1. m \in Nat /\ rd.len \in 0 .. m /\ file.pos = m - rd.len
          BY <2>3, <2>4
        <5>2. n \in Nat /\ n <= rd.len /\ rd'.len = rd.len - n /\ file'.pos = file.pos + n
          BY <3>9, <3>13
        <5> HIDE DEF m
        <5> QED BY <5>1, <5>2
      <4>2. rd'.len > 0 => file'.pos = e
        BY <3>9, <3>13
      <4> QED BY <3>4, <4>1, <4>2 DEF e
    <3>15. Streaming(inode, t, file', rd')
      BY <2>3, <3>4, <3>13, <3>14 DEF Streaming, recs
    <3> QED BY <1>1, <1>5, <1>9, <2>1, <3>12, <3>15, SameLink DEF t
  <2>8. CASE rd.len <= 0 \/ rd.xt = <<>>
    <3>1. rd.len = 0
      <4>1. CASE rd.len <= 0
        BY <2>3, <2>4, <4>1
      <4>2. CASE rd.xt = <<>> /\ ~(rd.len <= 0)
        <5>1. k = Len(recs)
          <6> DEFINE S == Range(recs)
          <6>1. recs \in Seq(S)
            BY <2>6
          <6>2. rd.xt = SubSeq(recs, k + 1, Len(recs)) /\ k \in 0 .. Len(recs)
            BY <2>5
          <6> HIDE DEF S, recs
          <6>3. SubSeq(recs, k + 1, Len(recs)) = <<>>
            BY <4>2, <6>2
          <6> QED BY <6>1, <6>2, <6>3, SeqEnd
        <5>2. rd.len > 0
          BY <2>3, <2>4, <4>2
        <5>3. file.pos = Begins(recs, Len(recs)) * bsize
          <6>1. rd.len > 0 => file.pos = Begins(recs, k) * bsize
            BY <2>5
          <6> HIDE DEF recs
          <6> QED BY <5>1, <5>2, <6>1
        <5>4. m <= file.pos
          BY <2>6, <5>3
        <5> QED BY <2>3, <2>4, <5>2, <5>4
      <4> QED BY <2>8, <4>1, <4>2
    <3>2. pc' = "done" /\ rd' = [rd EXCEPT !.lost = @ \/ (rd.len > 0 /\ inode.format = "btree")]
      <4>1. ~(rd.len > 0)
        BY <3>1
      <4>2. LastExtent
        BY <1>1, <4>1 DEF NextLeaf
      <4> QED BY <4>2 DEF LastExtent
    <3>3. rd'.buf = rd.buf
      BY <3>2, <1>2 DEF Keys
    <3>4. rd.buf = t
      <4>1. file.pos = m
        BY <2>3, <2>4, <3>1
      <4> QED BY <2>3, <2>4, <4>1 DEF Text
    <3> QED BY <1>1, <1>5, <1>9, <2>1, <3>2, <3>3, <3>4, SameLink DEF t
  <2> QED BY <2>3, <2>4, <2>7, <2>8
<1> QED BY <1>7, <1>8, <1>9

(* All of them together.                                                   *)
LEMMA NextKeeps == ASSUME XInv, [Next]_vars PROVE XInv'
BY OpenKeeps, MountKeeps, InodeKeeps, LinkKeeps, LinkReadKeeps, EndKeeps, EnterKeeps, FirstKeeps,
   LeafKeeps, DentryKeeps, DataKeeps, ExtentsKeep, ReturnKeeps, SeekKeeps, CallKeeps, CloseKeeps,
   StutterKeeps DEF Next, Steps, Finished

(* On a disk that can be read xfs_open opens the file the path names or    *)
(* returns the reason why it names none, through links, stale entries and  *)
(* directories in the inode, of one block and with an index, read by their *)
(* extents.  Three lookups are excepted, which the model computes: a link  *)
(* that overwrites the rest of the path; ".." in a directory kept in its   *)
(* inode; a search that has come to a freed block of a directory or to     *)
(* what is not in the first leaf of its extent tree (LookupRight).         *)
THEOREM FindsWhatIsNamed == Spec => []LookupRight
<1>1. XInv => LookupRight
  BY DEF XInv, Healthy, Ended, LookupRight
<1> QED BY InitInv, NextKeeps, <1>1, PTL DEF Spec

-----------------------------------------------------------------------------
(***************************************************************************)
(* Reading, with faults and without.                                       *)
(***************************************************************************)
Serving == {"read", "extent", "done"}

(* What may be in the caller's buffer.                                     *)
Tokens(d) == {ByteAt(d, x) : x \in Int} \cup {"0", "?"}

(* What holds of the buffers on any disk.                                  *)
Buffers ==
    /\ Formed(Disk, inode) /\ file.pos \in Nat /\ file.len \in Nat
    /\ rd.len \in Int \/ (pc = "done" /\ rd.caller = "open")
    /\ pc \notin {"closed", "mount", "failed"} => Disk.super = "XFSB4"
    /\ rd.caller \in {"none", "open", "read"} /\ (rd.caller # "none" <=> pc \in Serving)
    /\ rd.caller # "open" => rd.buf \in Seq(Tokens(Disk))
    /\ result # "OK" /\ rd.caller = "none" => rd.buf = <<>> /\ rd.len = 0
    /\ result = "OK" => inode.mode = "reg"
    /\ rd.caller = "open" => inode.mode = "lnk"
    /\ pc = "read" => rd.buf = <<>> /\ rd.len \in Nat /\ rd.prev = -1
    /\ pc = "extent" => inode.format # "local"
    /\ pc \in Serving /\ inode.format # "local" /\ Joins(Disk, inode) => rd.lost \/ rd.len >= 0

(* The file that is open is the one the path names.                        *)
Opened ==
    Healthy /\ result = "OK" =>
        /\ named.at \in DOMAIN Disk.objs /\ Disk.objs[named.at].mode = "reg"
        /\ inode = Disk.inodes[InodePlace(named.at)]

(* Its bytes are where the extents say.                                    *)
Plain == Healthy /\ result = "OK" /\ ~Disk.objs[named.at].sparse

(* The loop of xfs_read_data has passed n extents; a file without holes is *)
(* not read from the extent behind until the position is in it.            *)
PassedBy(recs, n) ==
    /\ rd.xt = SubSeq(recs, n + 1, Len(recs))
    /\ Joins(Disk, inode) => rd.prev = IF n = 0 THEN -1 ELSE Begins(recs, n)
    /\ Plain /\ rd.len > 0 => file.pos >= Begins(recs, n) * bsize

(* The records the loop still has to go through have numbers in them.      *)
Sound(r) ==
    /\ xt_offset(r) \in Nat /\ xt_len(r) \in Nat
    /\ fsb2daddr(xt_start(r)) * 2 ^ SECTOR_BITS \in Nat

SoundAll(recs) == \E S : recs \in Seq(S) /\ \A r \in S : Sound(r)

InLoop ==
    pc = "extent" =>
        /\ rd.prev \in Int /\ SoundAll(rd.xt)
        /\ rd.endpos = IF file.pos + rd.len > file.len THEN file.len ELSE file.pos + rd.len
        /\ rd.lost \/ \E n \in 0 .. Len(init_extents(Disk, inode)) :
                          PassedBy(init_extents(Disk, inode), n)

(* It ends with all that was asked for, or at the end of the file.         *)
AllRead ==
    pc = "done" /\ Plain =>
        rd.lost \/ rd.len = 0 \/ file.pos >= Len(Disk.objs[named.at].bytes)

ReadInv == Buffers /\ Opened /\ InLoop /\ AllRead

-----------------------------------------------------------------------------
(* The assumption on all inodes, about those of the disk.                  *)
LEMMA DiskFormed ==
    ASSUME Control, NEW p \in DOMAIN Disk.inodes
    PROVE  Formed(Disk, Disk.inodes[p])
BY ImageAssumption DEF Control, Disk, AllImages

LEMMA ZeroFormed ==
    ASSUME NEW d
    PROVE  Formed(d, ZeroInode)
BY DEF Formed, ZeroInode

(* The records of a file or link.                                          *)
LEMMA Records ==
    ASSUME NEW d, NEW i, Formed(d, i), i.mode \in {"reg", "lnk"}, i.format # "local"
    PROVE  LET recs == init_extents(d, i)
           IN  /\ recs \in Seq(Range(recs)) /\ Len(recs) \in Nat /\ DOMAIN recs = 1 .. Len(recs)
               /\ \A k \in 1 .. Len(recs) :
                     /\ xt_offset(recs[k]) \in Nat /\ xt_len(recs[k]) \in Nat
                     /\ fsb2daddr(xt_start(recs[k])) * 2 ^ SECTOR_BITS \in Nat
<1> DEFINE recs == init_extents(d, i)
<1>1. /\ recs \in Seq(Range(recs))
      /\ \A r \in Range(recs) : /\ xt_offset(r) \in Nat /\ xt_len(r) \in Nat
                                /\ fsb2daddr(xt_start(r)) * 2 ^ SECTOR_BITS \in Nat
  BY DEF Formed, Recorded
<1>2. Len(recs) \in Nat /\ DOMAIN recs = 1 .. Len(recs)
  <2> DEFINE S == Range(recs)
  <2>1. recs \in Seq(S)
    BY <1>1
  <2> HIDE DEF S, recs
  <2> QED BY <2>1
<1>3. \A k \in 1 .. Len(recs) : recs[k] \in Range(recs)
  BY <1>2 DEF Range
<1> QED BY <1>1, <1>2, <1>3

LEMMA RecordsSound ==
    ASSUME NEW recs, Recorded(recs)
    PROVE  SoundAll(recs)
<1>1. recs \in Seq(Range(recs)) /\ \A r \in Range(recs) : Sound(r)
  BY DEF Recorded, Sound
<1> QED BY <1>1, Zenon DEF SoundAll

(* So have those of any block of an extent tree.                           *)
LEMMA StraySound ==
    ASSUME Control
    PROVE  /\ \A recs \in Strays(Disk) : SoundAll(recs)
           /\ \A r \in StaleRecords(Disk) : Sound(r)
<1>1. \A b \in DOMAIN Disk.btree : Recorded(Disk.btree[b].recs)
  BY ImageAssumption DEF Control, Disk, AllImages
<1>2. ASSUME NEW recs \in Strays(Disk) PROVE SoundAll(recs)
  <2>1. PICK b \in DOMAIN Disk.btree : \E n \in 0 .. Len(Disk.btree[b].recs) :
             recs = SubSeq(Disk.btree[b].recs, 1, n)
    BY DEF Strays
  <2> DEFINE all == Disk.btree[b].recs
  <2>2. PICK n \in 0 .. Len(all) : recs = SubSeq(all, 1, n)
    BY <2>1
  <2>3. SoundAll(all)
    BY <1>1, RecordsSound
  <2> HIDE DEF all
  <2>4. PICK S : all \in Seq(S) /\ \A r \in S : Sound(r)
    BY <2>3 DEF SoundAll
  <2>5. recs \in Seq(S)
    BY <2>2, <2>4
  <2> QED BY <2>4, <2>5 DEF SoundAll
<1>3. ASSUME NEW r \in StaleRecords(Disk) PROVE Sound(r)
  <2>1. PICK b \in DOMAIN Disk.btree : r \in Range(Disk.btree[b].recs)
    BY DEF StaleRecords
  <2> QED BY <1>1, <2>1 DEF Recorded, Sound
<1> QED BY <1>2, <1>3

(* Blocks and bytes.                                                       *)
LEMMA TimesInt ==
    ASSUME NEW a \in Int
    PROVE  a * bsize \in Int
<1>1. bsize \in Int
  BY Numbers
<1> QED BY <1>1

LEMMA TimesMonotone ==
    ASSUME NEW a \in Int, NEW b \in Int, a <= b
    PROVE  a * bsize <= b * bsize /\ a * bsize \in Int /\ b * bsize \in Int
<1>1. bsize \in Nat
  BY Numbers
<1>2. (b - a) * bsize >= 0
  BY <1>1
<1>3. (b - a) * bsize = b * bsize - a * bsize
  BY <1>1
<1> QED BY <1>1, <1>2, <1>3

LEMMA InBlock ==
    ASSUME NEW a \in Nat, NEW e \in Int
    PROVE  /\ a \div bsize \in Nat
           /\ a \div bsize < e => a < e * bsize
           /\ a \div bsize >= e => a >= e * bsize
<1>0. bsize \in Nat /\ bsize > 0
  BY Numbers
<1> DEFINE k == a \div bsize
           l == a % bsize
<1>1. k \in Nat /\ l \in 0 .. bsize - 1 /\ a = k * bsize + l
  BY <1>0
<1> HIDE DEF k, l
<1>2. ASSUME k < e PROVE a < e * bsize
  <2>1. (k + 1) * bsize <= e * bsize /\ e * bsize \in Int
    BY <1>1, <1>2, TimesMonotone
  <2>2. (k + 1) * bsize = k * bsize + bsize /\ k * bsize \in Int
    BY <1>0, <1>1
  <2> QED BY <1>0, <1>1, <2>1, <2>2
<1>3. ASSUME k >= e PROVE a >= e * bsize
  <2>1. e * bsize <= k * bsize /\ e * bsize \in Int /\ k * bsize \in Int
    BY <1>1, <1>3, TimesMonotone
  <2> QED BY <1>0, <1>1, <2>1
<1> QED BY <1>1, <1>2, <1>3 DEF k

(* What the loop takes of an extent, and of the next one.                  *)
Many(x) == toread(x, Where(x))

Xad == next_extent(Head(rd.xt))

Count == Many(Xad)

Bytes == Contents(Xad)

LEMMA CountIs ==
    ASSUME NEW x, x.offset \in Nat, x.len \in Nat, file.pos \in Nat, rd.len \in Int, rd.len > 0,
           rd.endpos \in Int, rd.prev \in Int
    PROVE  /\ Many(x) \in Nat /\ Where(x) \in {"inside", "hole", "elsewhere"}
           /\ Where(x) = "inside" /\ rd.endpos <= file.pos + rd.len => Many(x) <= rd.len
           /\ Where(x) = "inside" => file.pos >= x.offset * bsize
           /\ Where(x) = "elsewhere" => Many(x) = 0 /\ ~isinxt(file.pos \div bsize, x.offset, x.len)
           /\ Where(x) = "hole" => rd.prev # -1 /\ x.offset > rd.prev
<1> DEFINE off == x.offset
           e == x.offset + x.len
           q == file.pos \div bsize
<1>0. Where(x) = IF q >= off /\ q < off + x.len THEN "inside"
                   ELSE IF rd.prev # -1 /\ off > rd.prev THEN "hole" ELSE "elsewhere"
  BY DEF Where, isinxt
<1>1. Where(x) \in {"inside", "hole", "elsewhere"}
  BY <1>0
<1>2. CASE Where(x) = "inside"
  <2>1. Many(x) = IF e * bsize >= rd.endpos THEN rd.len ELSE e * bsize - file.pos
    BY <1>2 DEF Many, toread
  <2>2. q >= off /\ q < e
    BY <1>0, <1>2
  <2>3. file.pos < e * bsize /\ file.pos >= off * bsize
    BY <2>2, InBlock
  <2>4. e * bsize \in Int
    BY TimesMonotone
  <2> HIDE DEF e
  <2> QED BY <1>2, <2>1, <2>3, <2>4
<1>3. CASE Where(x) = "hole"
  <2>1. Many(x) = IF off * bsize >= rd.endpos THEN rd.len ELSE (off - rd.prev) * bsize
    BY <1>3 DEF Many, toread
  <2>2. rd.prev # -1 /\ off > rd.prev
    BY <1>0, <1>3
  <2>3. 0 * bsize <= (off - rd.prev) * bsize /\ (off - rd.prev) * bsize \in Int /\ 0 * bsize = 0
    BY <2>2, TimesMonotone, Numbers
  <2> QED BY <1>3, <2>1, <2>2, <2>3
<1>4. CASE Where(x) = "elsewhere"
  BY <1>0, <1>4 DEF Many, toread, isinxt
<1> QED BY <1>1, <1>2, <1>3, <1>4

(***************************************************************************)
(* The lookup leaves what is in the caller's buffer alone.                 *)
(***************************************************************************)
LEMMA InitReads == Init => ReadInv
<1> SUFFICES ASSUME Init PROVE ReadInv
  OBVIOUS
<1>1. /\ pc = "closed" /\ result = "none" /\ inode = ZeroInode /\ rd = NoRead
      /\ file.pos = 0 /\ file.len = 0
  BY DEF Init
<1>2. Formed(Disk, inode)
  BY <1>1, ZeroFormed
<1>3. rd.len = 0 /\ rd.buf = <<>> /\ rd.caller = "none"
  BY <1>1 DEF NoRead
<1>4. rd.buf \in Seq(Tokens(Disk))
  BY <1>3
<1>5. Buffers
  BY <1>1, <1>2, <1>3, <1>4 DEF Buffers, Serving
<1> QED BY <1>1, <1>5 DEF ReadInv, Opened, InLoop, AllRead

(* Steps of an open that has not found its file.                           *)
LEMMA NotYet ==
    ASSUME XInv, ReadInv, disk' = disk, UNCHANGED <<file, rd>>, Formed(Disk, inode'),
           pc \notin Serving, pc' \notin Serving, result # "OK", result' # "OK",
           pc' \notin {"closed", "mount", "failed"} => Disk.super = "XFSB4"
    PROVE  ReadInv'
<1>1. Disk' = Disk
  BY DEF Disk, AllImages
<1>2. rd.caller = "none" /\ rd.len \in Int
  BY DEF ReadInv, Buffers, Serving
<1>3. pc' \notin {"read", "extent", "done"}
  BY DEF Serving
<1>4. Buffers'
  BY <1>1, <1>2, <1>3 DEF ReadInv, Buffers
<1> QED BY <1>3, <1>4 DEF ReadInv, Opened, InLoop, AllRead

LEMMA OpenReads == ASSUME XInv, ReadInv, xfs_open PROVE ReadInv'
<1>1. /\ pc = "closed" /\ pc' \in {"mount", "failed"} /\ result = "none" /\ result' \in {"none", "BADDEV"}
      /\ UNCHANGED <<disk, inode, file, rd>>
  BY DEF xfs_open, GiveUp, XInv, Control
<1> QED BY <1>1, NotYet DEF ReadInv, Buffers, Serving

LEMMA MountReads == ASSUME XInv, ReadInv, xfs_mount PROVE ReadInv'
<1>1. /\ pc = "mount" /\ pc' \in {"inode", "failed"} /\ result = "none" /\ result' \in {"none", "BAD_FSYS"}
      /\ pc' = "inode" => Disk.super = "XFSB4"
      /\ UNCHANGED <<disk, inode, file, rd>>
  BY DEF xfs_mount, Tried, Going, GiveUp, XInv, Control
<1> QED BY <1>1, NotYet DEF ReadInv, Buffers, Serving

LEMMA InodeReads == ASSUME XInv, ReadInv, di_read PROVE ReadInv'
<1>1. /\ pc = "inode" /\ pc' = "branch" /\ result = "none" /\ UNCHANGED <<disk, file, rd, result>>
  BY DEF di_read, XInv, Control
<1>2. \/ inode' = ZeroInode \/ inode' = inode
      \/ InodePlace(look.ino) \in DOMAIN Disk.inodes /\ inode' = Disk.inodes[InodePlace(look.ino)]
  BY DEF di_read, Tried
<1>3. Formed(Disk, inode')
  BY <1>2, DiskFormed, ZeroFormed DEF XInv, ReadInv, Buffers
<1>4. Disk.super = "XFSB4"
  BY <1>1 DEF ReadInv, Buffers
<1> QED BY <1>1, <1>3, <1>4, NotYet DEF Serving

(* In a directory.                                                         *)
LEMMA DentryMoves ==
    ASSUME next_dentry
    PROVE  /\ pc = "dentry" /\ UNCHANGED <<disk, path, named, inode, file, rd>>
           /\ pc' \in {"dentry", "inode", "failed"} /\ (result' = result \/ result' = "NOTFOUND")
           /\ (spoiled => spoiled') /\ (UNCHANGED faults \/ Fault)
<1>1. pc = "dentry" /\ UNCHANGED <<disk, path, named, inode, file, rd>>
  BY DEF next_dentry
<1>2. \/ GiveUp("NOTFOUND") /\ UNCHANGED <<spoiled, faults>>
      \/ /\ Going /\ (UNCHANGED faults \/ Fault)
         /\ \E b : spoiled' = (spoiled \/ b)
         /\ UNCHANGED pc \/ (\E e : Compare(e)) \/ (\E d : Drift(d))
  BY Zenon DEF next_dentry
<1>3. ASSUME (\E e : Compare(e)) \/ (\E d : Drift(d)) PROVE pc' = pc \/ pc' = "inode"
  BY <1>3 DEF Compare, Drift, Found
<1>4. spoiled => spoiled'
  BY <1>2, Zenon
<1> QED BY <1>1, <1>2, <1>3, <1>4 DEF GiveUp, Going

LEMMA DirReads ==
    ASSUME XInv, ReadInv, DirEnter \/ first_dentry \/ FirstLeaf \/ next_dentry
    PROVE  ReadInv'
<1>1. /\ pc \in {"branch", "first", "leaf", "dentry"} /\ UNCHANGED <<disk, inode, file, rd>>
      /\ pc' \in {"first", "leaf", "dentry", "inode", "failed"}
      /\ result' = result \/ result' \in {"NOTDIR", "NOTFOUND"}
  <2>1. CASE DirEnter
    BY <2>1 DEF DirEnter, GiveUp, Going
  <2>2. CASE first_dentry
    BY <2>2 DEF first_dentry
  <2>3. CASE FirstLeaf
    BY <2>3 DEF FirstLeaf, Tried
  <2>4. CASE next_dentry
    BY <2>4, DentryMoves
  <2> QED BY <2>1, <2>2, <2>3, <2>4
<1>2. result = "none" /\ Disk.super = "XFSB4"
  BY <1>1 DEF ReadInv, Buffers, XInv, Control
<1> QED BY <1>1, <1>2, NotYet DEF ReadInv, Buffers, Serving

LEMMA LinkReads == ASSUME XInv, ReadInv, DirLink PROVE ReadInv'
<1>1. /\ pc = "branch" /\ inode.mode = "lnk" /\ UNCHANGED <<disk, inode>>
      /\ \/ pc' = "failed" /\ result' \in {"SYMLINK_LOOP", "LENGTH"} /\ UNCHANGED <<file, rd>>
         \/ /\ pc' = "read" /\ UNCHANGED result
            /\ file' = [pos |-> 0, len |-> inode.size]
            /\ rd' = [NoRead EXCEPT !.len = inode.size, !.caller = "open", !.lost = rd.lost]
  BY DEF DirLink, GiveUp, Going
<1>2. result = "none" /\ Disk.super = "XFSB4" /\ Formed(Disk, inode) /\ Disk' = Disk
  BY <1>1 DEF ReadInv, Buffers, XInv, Control, Disk, AllImages
<1>3. CASE pc' = "failed"
  BY <1>1, <1>2, <1>3, NotYet DEF Serving
<1>4. CASE pc' = "read"
  <2>1. /\ file'.pos = 0 /\ file'.len = inode.size /\ rd'.len = inode.size /\ rd'.buf = <<>>
        /\ rd'.caller = "open" /\ rd'.prev = -1 /\ result' = "none"
    <3>1. /\ file' = [pos |-> 0, len |-> inode.size] /\ UNCHANGED result
          /\ rd' = [NoRead EXCEPT !.len = inode.size, !.caller = "open", !.lost = rd.lost]
      BY <1>1, <1>4
    <3>2. file'.pos = 0 /\ file'.len = inode.size /\ result' = "none"
      BY <1>2, <3>1
    <3>3. rd'.len = inode.size /\ rd'.buf = <<>> /\ rd'.caller = "open" /\ rd'.prev = -1
      BY <3>1 DEF NoRead
    <3> QED BY <3>2, <3>3
  <2>2. inode.size \in Nat
    BY <1>1, <1>2 DEF Formed
  <2>3. Buffers'
    BY <1>1, <1>2, <1>4, <2>1, <2>2 DEF Buffers, Serving
  <2> QED BY <1>4, <2>1, <2>3 DEF ReadInv, Opened, InLoop, AllRead
<1> QED BY <1>1, <1>3, <1>4

LEMMA LinkReadReads == ASSUME XInv, ReadInv, LinkRead PROVE ReadInv'
<1>1. /\ pc = "done" /\ rd.caller = "open" /\ pc' = "inode" /\ UNCHANGED <<disk, inode, file, result>>
      /\ rd' = [NoRead EXCEPT !.lost = rd.lost] /\ Disk' = Disk
  BY DEF LinkRead, Disk, AllImages
<1>2. rd'.buf = <<>> /\ rd'.len = 0 /\ rd'.caller = "none"
  BY <1>1 DEF NoRead
<1>3. result' = "none" /\ Disk.super = "XFSB4"
  BY <1>1 DEF ReadInv, Buffers, XInv, Control
<1>4. rd'.buf \in Seq(Tokens(Disk))
  BY <1>2
<1>5. Buffers'
  BY <1>1, <1>2, <1>3, <1>4 DEF ReadInv, Buffers, Serving
<1> QED BY <1>1, <1>3, <1>5 DEF ReadInv, Opened, InLoop, AllRead

LEMMA EndReads == ASSUME XInv, XInv', ReadInv, DirEnd PROVE ReadInv'
<1>1. /\ pc = "branch" /\ inode.mode # "lnk" /\ UNCHANGED <<disk, named, inode, look, rd, spoiled, faults>>
      /\ \/ pc' = "failed" /\ result' = "BAD_TYPE" /\ UNCHANGED file
         \/ /\ inode.mode = "reg" /\ pc' = "idle" /\ result' = "OK"
            /\ file' = [pos |-> 0, len |-> inode.size]
  BY DEF DirEnd, GiveUp
<1>2. result = "none" /\ Disk.super = "XFSB4" /\ Formed(Disk, inode) /\ Disk' = Disk
  BY <1>1 DEF ReadInv, Buffers, XInv, Control, Disk, AllImages
<1>3. CASE pc' = "failed"
  BY <1>1, <1>2, <1>3, NotYet DEF Serving
<1>4. CASE pc' = "idle"
  <2>1. file'.pos = 0 /\ file'.len = inode.size /\ result' = "OK" /\ inode.mode = "reg"
    BY <1>1, <1>4
  <2>2. inode.size \in Nat
    BY <1>2, <2>1 DEF Formed
  <2>3. rd.caller = "none" /\ rd.buf \in Seq(Tokens(Disk)) /\ rd.len \in Int
    BY <1>1 DEF ReadInv, Buffers, Serving
  <2>4. Buffers'
    BY <1>1, <1>2, <1>4, <2>1, <2>2, <2>3 DEF Buffers, Serving
  <2>5. Opened'
    <3> SUFFICES ASSUME Healthy'
                 PROVE  /\ named.at \in DOMAIN Disk.objs /\ Disk.objs[named.at].mode = "reg"
                        /\ inode = Disk.inodes[InodePlace(named.at)]
      BY <1>1, <1>2 DEF Opened
    <3>1. Healthy
      BY <1>1, <1>2 DEF Healthy
    <3>2. look.ino = named.at
      BY <1>1, <2>1 DEF XInv, Ended
    <3>3. Way(Disk, path, named, look, look.rest, look.links) /\ Its(Disk, look, inode)
      BY <1>1, <3>1 DEF XInv, Looking
    <3>4. look.ino \in DOMAIN Disk.objs
      BY <3>3 DEF Way, Site, Sites
    <3>5. Disk.objs[look.ino].mode = inode.mode
      BY <1>1, <1>2, <3>3, <3>4, HealthyDisk, FileInode DEF Its, XInv
    <3> QED BY <2>1, <3>2, <3>3, <3>4, <3>5 DEF Its
  <2> QED BY <1>4, <2>4, <2>5 DEF ReadInv, InLoop, AllRead
<1> QED BY <1>1, <1>3, <1>4

(***************************************************************************)
(* Reads of the file.                                                      *)
(***************************************************************************)
(* What is open stays open.                                                *)
LEMMA StillOpen ==
    ASSUME ReadInv, UNCHANGED <<disk, named, inode, result, spoiled>>, Healthy' => Healthy
    PROVE  Disk' = Disk /\ Opened' /\ (Plain' => Plain) /\ (Joins(Disk, inode)' <=> Joins(Disk, inode))
           /\ Formed(Disk, inode)'
<1>1. Disk' = Disk
  BY DEF Disk, AllImages
<1> QED BY <1>1 DEF ReadInv, Opened, Plain, Buffers

LEMMA SeekReads == ASSUME XInv, ReadInv, NEW p \in Positions, xfs_seek(p) PROVE ReadInv'
<1>1. /\ pc = "idle" /\ pc' = "idle" /\ file' = [file EXCEPT !.pos = p]
      /\ UNCHANGED <<disk, named, inode, rd, result, spoiled, faults>>
  BY DEF xfs_seek
<1>2. file'.pos = p /\ file'.len = file.len /\ p \in Nat
  BY <1>1, XfsAssumption DEF XInv, Control, Keys
<1>3. Healthy' => Healthy
  BY <1>1 DEF Healthy, Disk, AllImages
<1>4. Disk' = Disk /\ Opened'
  BY <1>1, <1>3, StillOpen
<1>5. Buffers'
  BY <1>1, <1>2, <1>4 DEF ReadInv, Buffers, Serving
<1> QED BY <1>1, <1>4, <1>5 DEF ReadInv, InLoop, AllRead

LEMMA CallReads == ASSUME XInv, ReadInv, NEW n \in Sizes, xfs_read(n) PROVE ReadInv'
<1>1. /\ pc = "idle" /\ pc' = "read"
      /\ rd' = [NoRead EXCEPT !.len = n, !.caller = "read", !.lost = rd.lost]
      /\ UNCHANGED <<disk, named, inode, file, result, spoiled, faults>>
  BY DEF xfs_read
<1>2. rd'.buf = <<>> /\ rd'.len = n /\ rd'.caller = "read" /\ rd'.prev = -1
  BY <1>1 DEF NoRead
<1>3. n \in Nat /\ rd'.buf \in Seq(Tokens(Disk)) /\ result = "OK"
  <2>1. n \in Nat
    BY XfsAssumption
  <2>2. rd'.buf \in Seq(Tokens(Disk))
    BY <1>2
  <2>3. pc = "idle"
    BY <1>1
  <2> QED BY <2>1, <2>2, <2>3 DEF XInv, Control
<1>4. Healthy' => Healthy
  BY <1>1 DEF Healthy, Disk, AllImages
<1>5. Disk' = Disk /\ Opened'
  BY <1>1, <1>4, StillOpen
<1>6. Buffers'
  BY <1>1, <1>2, <1>3, <1>5 DEF ReadInv, Buffers, Serving
<1> QED BY <1>1, <1>5, <1>6 DEF ReadInv, InLoop, AllRead

LEMMA ReturnReads == ASSUME XInv, ReadInv, ReadReturn PROVE ReadInv'
<1>1. /\ pc = "done" /\ rd.caller = "read" /\ pc' = "idle" /\ rd' = [rd EXCEPT !.caller = "none"]
      /\ UNCHANGED <<disk, named, inode, file, result, spoiled, faults>>
  BY DEF ReadReturn
<1>2. rd'.buf = rd.buf /\ rd'.len = rd.len /\ rd'.caller = "none"
  BY <1>1 DEF XInv, Control, Keys
<1>3. result = "OK"
  BY <1>1 DEF XInv, Control
<1>4. Healthy' => Healthy
  BY <1>1 DEF Healthy, Disk, AllImages
<1>5. Disk' = Disk /\ Opened'
  BY <1>1, <1>4, StillOpen
<1>6. Buffers'
  BY <1>1, <1>2, <1>3, <1>5 DEF ReadInv, Buffers, Serving
<1> QED BY <1>1, <1>5, <1>6 DEF ReadInv, InLoop, AllRead

LEMMA CloseReads == ASSUME XInv, ReadInv, xfs_close PROVE ReadInv'
<1>1. /\ pc = "idle" /\ pc' = "shut" /\ UNCHANGED <<disk, named, inode, file, rd, result, spoiled, faults>>
  BY DEF xfs_close
<1>2. Healthy' => Healthy
  BY <1>1 DEF Healthy, Disk, AllImages
<1>3. Disk' = Disk /\ Opened'
  BY <1>1, <1>2, StillOpen
<1>4. Buffers'
  BY <1>1, <1>3 DEF ReadInv, Buffers, Serving
<1> QED BY <1>1, <1>3, <1>4 DEF ReadInv, InLoop, AllRead

LEMMA StutterReads == ASSUME XInv, ReadInv, UNCHANGED vars PROVE ReadInv'
<1>1. UNCHANGED <<disk, named, pc, inode, file, rd, result, spoiled, faults>>
  BY DEF vars
<1>2. Disk' = Disk
  BY <1>1 DEF Disk, AllImages
<1>3. (Healthy' <=> Healthy)
  BY <1>1, <1>2 DEF Healthy
<1>4. (Plain' <=> Plain)
  BY <1>1, <1>2, <1>3 DEF Plain
<1>5. Buffers' /\ Opened'
  BY <1>1, <1>2, <1>3 DEF ReadInv, Buffers, Opened
<1>6. InLoop'
  BY <1>1, <1>2, <1>4 DEF ReadInv, InLoop, PassedBy
<1>7. AllRead'
  BY <1>1, <1>2, <1>4 DEF ReadInv, AllRead
<1> QED BY <1>5, <1>6, <1>7 DEF ReadInv

(* xfs_read_data in front of its loop.                                     *)
LEMMA DataReads == ASSUME XInv, XInv', ReadInv, xfs_read_data PROVE ReadInv'
<1> DEFINE end == file.pos + rd.len
           recs == init_extents(Disk, inode)
<1>1. /\ pc = "read" /\ UNCHANGED <<disk, named, inode, result, spoiled>>
      /\ \/ /\ inode.format = "local" /\ pc' = "done" /\ UNCHANGED faults
            /\ rd' = Delivered(rd, SubSeq(inode.bytes, file.pos + 1, file.pos + rd.len))
            /\ file' = [file EXCEPT !.pos = @ + rd.len]
         \/ /\ inode.format # "local" /\ pc' = "extent" /\ UNCHANGED file
            /\ \/ rd' = Begun(recs, rd.lost) /\ UNCHANGED faults
               \/ Fault /\ \E stray \in Strays(Disk) : rd' = Begun(stray, TRUE)
  BY DataCases
<1>2. /\ Formed(Disk, inode) /\ file.pos \in Nat /\ file.len \in Nat /\ rd.len \in Nat /\ rd.buf = <<>>
      /\ rd.prev = -1 /\ Disk.super = "XFSB4" /\ rd.caller \in {"open", "read"}
      /\ rd.caller = "open" => inode.mode = "lnk"
      /\ result = "OK" => inode.mode = "reg"
  BY <1>1 DEF ReadInv, Buffers, Serving
<1>3. \/ rd.caller = "open" /\ result = "none"
      \/ rd.caller = "read" /\ result = "OK"
  BY <1>1 DEF XInv, Control
<1>4. Healthy' => Healthy
  <2>1. UNCHANGED faults \/ Fault
    BY <1>1
  <2> QED BY <1>1, <2>1, HealthyBefore DEF XInv
<1>5. Disk' = Disk /\ Opened' /\ Formed(Disk, inode)' /\ (Joins(Disk, inode)' <=> Joins(Disk, inode))
  BY <1>1, <1>4, StillOpen
<1>6. DOMAIN rd = {"buf", "len", "endpos", "prev", "xt", "lost", "caller"} /\ DOMAIN file = {"pos", "len"}
  BY DEF XInv, Control, Keys
<1>7. CASE inode.format = "local"
  <2>1. rd.caller = "open" /\ result = "none"
    BY <1>2, <1>3, <1>7 DEF Formed
  <2>2. rd'.caller = "open" /\ file'.pos = file.pos + rd.len /\ file'.len = file.len /\ pc' = "done"
    BY <1>1, <1>6, <1>7, <2>1 DEF Delivered
  <2>3. file'.pos \in Nat
    BY <1>2, <2>2
  <2>4. Buffers'
    BY <1>1, <1>2, <1>5, <1>7, <2>1, <2>2, <2>3 DEF Buffers, Serving
  <2> QED BY <1>1, <1>5, <2>1, <2>2, <2>4 DEF ReadInv, InLoop, AllRead, Plain
<1>8. CASE inode.format # "local"
  <2>1. ASSUME NEW xt, NEW lost, rd' = Begun(xt, lost)
        PROVE  /\ rd'.endpos = (IF end > file.len THEN file.len ELSE end) /\ rd'.xt = xt
               /\ rd'.caller = rd.caller /\ rd'.buf = rd.buf /\ rd'.len = rd.len /\ rd'.prev = rd.prev
               /\ rd'.lost = lost
    BY <1>6, <2>1 DEF Begun
  <2>2. /\ rd'.endpos = (IF end > file.len THEN file.len ELSE end) /\ UNCHANGED file /\ pc' = "extent"
        /\ rd'.caller = rd.caller /\ rd'.buf = rd.buf /\ rd'.len = rd.len /\ rd'.prev = rd.prev
        /\ \/ rd'.xt = recs
           \/ rd'.lost /\ rd'.xt \in Strays(Disk)
    BY <1>1, <1>8, <2>1
  <2>3. Buffers'
    <3>1. rd'.buf \in Seq(Tokens(Disk))
      BY <1>2, <2>2
    <3> QED BY <1>1, <1>2, <1>3, <1>5, <1>8, <2>2, <3>1 DEF Buffers, Serving
  <2>4. inode.mode \in {"reg", "lnk"}
    BY <1>2, <1>3
  <2>5. recs \in Seq(Range(recs)) /\ Len(recs) \in Nat
    BY <1>2, <1>8, <2>4, Records
  <2>6. SoundAll(recs) /\ \A stray \in Strays(Disk) : SoundAll(stray)
    BY <1>2, <1>8, <2>4, RecordsSound, StraySound DEF Formed, XInv
  <2>7. ASSUME rd'.xt = recs PROVE \E k \in 0 .. Len(recs') : PassedBy(recs, k)'
    <3>1. 0 \in 0 .. Len(recs) /\ recs = SubSeq(recs, 0 + 1, Len(recs))
      <4> DEFINE S == Range(recs)
      <4>1. recs \in Seq(S)
        BY <2>5
      <4> HIDE DEF S, recs
      <4> QED BY <4>1
    <3>2. 0 * bsize = 0 /\ Begins(recs, 0) = 0
      BY Numbers DEF Begins
    <3>3. PassedBy(recs, 0)'
      BY <1>1, <1>2, <1>5, <2>2, <2>7, <3>1, <3>2 DEF PassedBy
    <3>4. recs' = recs
      BY <1>1, <1>5
    <3> HIDE DEF recs
    <3> QED BY <3>1, <3>3, <3>4
  <2>8. InLoop'
    <3>1. SoundAll(rd'.xt)
      BY <2>2, <2>6
    <3>2. rd'.lost \/ \E k \in 0 .. Len(recs') : PassedBy(recs, k)'
      BY <2>2, <2>7
    <3>3. rd'.prev \in Int /\ rd'.endpos = IF file'.pos + rd'.len > file'.len THEN file'.len ELSE file'.pos + rd'.len
      BY <1>2, <2>2
    <3> QED BY <3>1, <3>2, <3>3 DEF InLoop, SoundAll, Sound
  <2> QED BY <1>5, <2>2, <2>3, <2>8 DEF ReadInv, AllRead
<1> QED BY <1>7, <1>8

(***************************************************************************)
(* The loop over the extents.                                              *)
(***************************************************************************)
(* A file whose bytes are all there has no holes.                          *)
LEMMA HeldJoins ==
    ASSUME NEW d, NEW i, NEW t, Holds(d, i, t)
    PROVE  Joins(d, i)
<1> DEFINE recs == init_extents(d, i)
<1>1. DOMAIN recs = 1 .. Len(recs) /\ Len(recs) \in Nat
  BY HeldBy
<1>2. \A k \in 1 .. Len(recs) : xt_offset(recs[k]) = Begins(recs, k - 1)
  BY HeldBy, Zenon
<1> HIDE DEF recs
<1>3. ASSUME NEW k \in DOMAIN recs, k > 1
      PROVE  xt_offset(recs[k]) = xt_offset(recs[k - 1]) + xt_len(recs[k - 1])
  <2>1. k \in 1 .. Len(recs) /\ k - 1 # 0
    BY <1>1, <1>3
  <2> QED BY <1>2, <2>1 DEF Begins
<1> QED BY <1>3, Zenon DEF Joins, recs

(* What is known of the file that is open.                                 *)
LEMMA PlainFile ==
    ASSUME XInv, ReadInv, Plain
    PROVE  LET t == Disk.objs[named.at].bytes
           IN  /\ t \in Seq(STRING) /\ Len(t) \in Nat /\ file.len = Len(t)
               /\ inode.format \in {"extents", "btree"} /\ Holds(Disk, inode, t) /\ Joins(Disk, inode)
               /\ named.res = "OK"
<1> DEFINE o == named.at
           t == Disk.objs[o].bytes
<1>1. Healthy /\ result = "OK" /\ ~Disk.objs[o].sparse
  BY DEF Plain
<1>2. o \in DOMAIN Disk.objs /\ Disk.objs[o].mode = "reg" /\ inode = Disk.inodes[InodePlace(o)]
  BY <1>1 DEF ReadInv, Opened
<1>3. Describes(Disk, inode, o)
  BY <1>1, <1>2, HealthyDisk DEF XInv, Healthy
<1>4. t \in Seq(STRING) /\ inode.format \in {"extents", "btree"} /\ Holds(Disk, inode, t)
  BY <1>1, <1>2, <1>3 DEF Describes
<1>5. file.len = Len(t) /\ named.res = "OK"
  BY <1>1 DEF XInv, Ended
<1>6. Joins(Disk, inode)
  BY <1>4, HeldJoins
<1> QED BY <1>4, <1>5, <1>6

(* The extent the loop comes to.                                           *)
LEMMA NextRecord ==
    ASSUME XInv, ReadInv, pc = "extent", NEW n \in 0 .. Len(init_extents(Disk, inode)),
           PassedBy(init_extents(Disk, inode), n)
    PROVE  LET recs == init_extents(Disk, inode)
           IN  /\ Len(recs) \in Nat
               /\ rd.xt = <<>> => n = Len(recs)
               /\ rd.xt # <<>> =>
                     /\ n + 1 \in 1 .. Len(recs)
                     /\ Xad.offset = xt_offset(recs[n + 1]) /\ Xad.len = xt_len(recs[n + 1])
                     /\ Xad.start = xt_start(recs[n + 1])
                     /\ Xad.offset \in Nat /\ Xad.len \in Nat
                     /\ fsb2daddr(Xad.start) * 2 ^ SECTOR_BITS \in Nat
                     /\ Tail(rd.xt) = SubSeq(recs, (n + 1) + 1, Len(recs))
                     /\ Begins(recs, n + 1) = Xad.offset + Xad.len
                     /\ Joins(Disk, inode) /\ n > 0 => Xad.offset = Begins(recs, n)
<1> DEFINE recs == init_extents(Disk, inode)
<1>1. /\ recs \in Seq(Range(recs)) /\ Len(recs) \in Nat /\ DOMAIN recs = 1 .. Len(recs)
      /\ \A k \in 1 .. Len(recs) : /\ xt_offset(recs[k]) \in Nat /\ xt_len(recs[k]) \in Nat
                                    /\ fsb2daddr(xt_start(recs[k])) * 2 ^ SECTOR_BITS \in Nat
  <2>1. Formed(Disk, inode) /\ inode.format # "local" /\ inode.mode \in {"reg", "lnk"}
    BY DEF ReadInv, Buffers, XInv, Control
  <2> QED BY <2>1, Records
<1>2. rd.xt = SubSeq(recs, n + 1, Len(recs)) /\ n \in 0 .. Len(recs)
  BY DEF PassedBy
<1>3. Joins(Disk, inode) => \A k \in DOMAIN recs : k > 1 =>
          xt_offset(recs[k]) = xt_offset(recs[k - 1]) + xt_len(recs[k - 1])
  BY Zenon DEF Joins
<1> DEFINE S == Range(recs)
<1>4. recs \in Seq(S)
  BY <1>1
<1> HIDE DEF S, recs
<1>5. rd.xt = <<>> => n = Len(recs)
  BY <1>2, <1>4, SeqEnd
<1>6. ASSUME rd.xt # <<>>
      PROVE  n + 1 \in 1 .. Len(recs) /\ Head(rd.xt) = recs[n + 1]
             /\ Tail(rd.xt) = SubSeq(recs, (n + 1) + 1, Len(recs))
  BY <1>2, <1>4, <1>6, SeqTail
<1>7. ASSUME rd.xt # <<>>
      PROVE  /\ Xad.offset = xt_offset(recs[n + 1]) /\ Xad.len = xt_len(recs[n + 1])
             /\ Xad.start = xt_start(recs[n + 1])
  BY <1>6, <1>7 DEF Xad, next_extent
<1>8. ASSUME rd.xt # <<>>
      PROVE  /\ Xad.offset \in Nat /\ Xad.len \in Nat
             /\ fsb2daddr(Xad.start) * 2 ^ SECTOR_BITS \in Nat
             /\ Begins(recs, n + 1) = Xad.offset + Xad.len
             /\ Joins(Disk, inode) /\ n > 0 => Xad.offset = Begins(recs, n)
  <2>1. n + 1 \in 1 .. Len(recs) /\ n + 1 # 0 /\ (n + 1) - 1 = n /\ n \in Nat
    BY <1>1, <1>2, <1>6, <1>8
  <2>2. Begins(recs, n + 1) = Xad.offset + Xad.len
    BY <1>7, <1>8, <2>1 DEF Begins
  <2>3. Xad.offset \in Nat /\ Xad.len \in Nat /\ fsb2daddr(Xad.start) * 2 ^ SECTOR_BITS \in Nat
    BY <1>1, <1>7, <1>8, <2>1
  <2>4. ASSUME Joins(Disk, inode), n > 0 PROVE Xad.offset = Begins(recs, n)
    <3>1. n + 1 \in DOMAIN recs /\ n + 1 > 1 /\ n # 0
      BY <1>1, <2>1, <2>4
    <3>2. xt_offset(recs[n + 1]) = xt_offset(recs[n]) + xt_len(recs[n])
      BY <1>3, <2>1, <2>4, <3>1
    <3> QED BY <1>7, <1>8, <3>1, <3>2 DEF Begins
  <2> QED BY <2>2, <2>3, <2>4
<1> QED BY <1>1, <1>5, <1>6, <1>7, <1>8, Zenon DEF recs

(* What the loop knows when it comes to an extent, the next one or not.    *)
LEMMA AtTurn ==
    ASSUME XInv, ReadInv, pc = "extent", rd.len > 0
    PROVE  /\ file.pos \in Nat /\ file.len \in Nat /\ rd.len \in Nat /\ rd.prev \in Int
           /\ rd.endpos = (IF file.pos + rd.len > file.len THEN file.len ELSE file.pos + rd.len)
           /\ rd.endpos \in Int /\ rd.endpos <= file.pos + rd.len
<1>1. /\ file.pos \in Nat /\ file.len \in Nat /\ rd.len \in Nat /\ rd.prev \in Int
      /\ rd.endpos = (IF file.pos + rd.len > file.len THEN file.len ELSE file.pos + rd.len)
  BY DEF ReadInv, Buffers, InLoop
<1> QED BY <1>1

LEMMA SoundExtent ==
    ASSUME XInv, ReadInv, pc = "extent", rd.len > 0, NEW r, Sound(r), NEW x, x = next_extent(r)
    PROVE  /\ x.offset \in Nat /\ x.len \in Nat /\ Many(x) \in Nat
           /\ fsb2daddr(x.start) * 2 ^ SECTOR_BITS \in Nat
           /\ Where(x) \in {"inside", "hole", "elsewhere"}
           /\ Where(x) = "inside" => Many(x) <= rd.len
           /\ Where(x) = "elsewhere" => Many(x) = 0
           /\ Where(x) = "hole" => rd.prev # -1 /\ x.offset > rd.prev
<1>1. x.offset \in Nat /\ x.len \in Nat /\ fsb2daddr(x.start) * 2 ^ SECTOR_BITS \in Nat
  BY DEF next_extent, Sound
<1> QED BY <1>1, AtTurn, CountIs

LEMMA HeadSound ==
    ASSUME SoundAll(rd.xt), rd.xt # <<>>
    PROVE  Sound(Head(rd.xt)) /\ SoundAll(Tail(rd.xt))
<1>1. PICK S : rd.xt \in Seq(S) /\ \A r \in S : Sound(r)
  BY DEF SoundAll
<1>2. Head(rd.xt) \in S /\ Tail(rd.xt) \in Seq(S)
  BY <1>1
<1> QED BY <1>1, <1>2 DEF SoundAll

LEMMA AtExtent ==
    ASSUME XInv, ReadInv, pc = "extent", rd.len > 0, rd.xt # <<>>
    PROVE  /\ file.pos \in Nat /\ file.len \in Nat /\ rd.len \in Nat /\ rd.prev \in Int
           /\ rd.endpos = (IF file.pos + rd.len > file.len THEN file.len ELSE file.pos + rd.len)
           /\ Xad.offset \in Nat /\ Xad.len \in Nat /\ Count \in Nat
           /\ fsb2daddr(Xad.start) * 2 ^ SECTOR_BITS \in Nat
           /\ Where(Xad) \in {"inside", "hole", "elsewhere"}
           /\ Joins(Disk, inode) /\ ~rd.lost => Where(Xad) # "hole" /\ Count <= rd.len
           /\ Where(Xad) = "elsewhere" => Count = 0
<1> DEFINE recs == init_extents(Disk, inode)
<1>1. /\ file.pos \in Nat /\ file.len \in Nat /\ rd.len \in Nat /\ rd.prev \in Int
      /\ rd.endpos = (IF file.pos + rd.len > file.len THEN file.len ELSE file.pos + rd.len)
  BY AtTurn
<1>2. Sound(Head(rd.xt))
  BY HeadSound DEF ReadInv, InLoop
<1>3. /\ Xad.offset \in Nat /\ Xad.len \in Nat /\ fsb2daddr(Xad.start) * 2 ^ SECTOR_BITS \in Nat
      /\ Count \in Nat /\ Where(Xad) \in {"inside", "hole", "elsewhere"}
      /\ Where(Xad) = "inside" => Count <= rd.len
      /\ Where(Xad) = "elsewhere" => Count = 0
      /\ Where(Xad) = "hole" => rd.prev # -1 /\ Xad.offset > rd.prev
  BY <1>2, SoundExtent DEF Xad, Count
<1>4. ASSUME Joins(Disk, inode), ~rd.lost PROVE Where(Xad) # "hole" /\ Count <= rd.len
  <2>1. PICK n \in 0 .. Len(recs) : PassedBy(recs, n)
    BY <1>4 DEF ReadInv, InLoop
  <2>2. rd.prev = IF n = 0 THEN -1 ELSE Begins(recs, n)
    BY <1>4, <2>1 DEF PassedBy
  <2>3. (n > 0 => Xad.offset = Begins(recs, n)) /\ Len(recs) \in Nat
    BY <1>4, <2>1, NextRecord
  <2> HIDE DEF recs
  <2>4. Where(Xad) # "hole"
    <3> SUFFICES ASSUME Where(Xad) = "hole" PROVE FALSE
      OBVIOUS
    <3>1. n # 0 /\ rd.prev = Begins(recs, n)
      BY <1>3, <2>2
    <3>2. n > 0
      BY <2>1, <2>3, <3>1
    <3> QED BY <1>1, <1>3, <2>3, <3>1, <3>2
  <2>5. CASE Where(Xad) = "inside"
    BY <1>3, <2>4, <2>5
  <2>6. CASE Where(Xad) = "elsewhere"
    BY <1>1, <1>3, <2>4, <2>6
  <2> QED BY <1>3, <2>4, <2>5, <2>6
<1> QED BY <1>1, <1>3, <1>4

(* An extent of a file without holes: it begins where the one before it    *)
(* ends, and once it has been passed, more is only wanted from behind it.  *)
LEMMA PlainExtent ==
    ASSUME XInv, ReadInv, Plain, pc = "extent", rd.len > 0, rd.xt # <<>>, ~rd.lost,
           NEW n \in 0 .. Len(init_extents(Disk, inode)), PassedBy(init_extents(Disk, inode), n)
    PROVE  /\ file.pos >= Xad.offset * bsize
           /\ rd.len - Count > 0 => file.pos + Count >= (Xad.offset + Xad.len) * bsize
<1> DEFINE recs == init_extents(Disk, inode)
           off == Xad.offset
           e == Xad.offset + Xad.len
           q == file.pos \div bsize
<1>1. /\ file.pos \in Nat /\ rd.len \in Nat /\ off \in Nat /\ e \in Nat /\ Count \in Nat
      /\ Where(Xad) \in {"inside", "elsewhere"} /\ (Where(Xad) = "elsewhere" => Count = 0)
  BY AtExtent, PlainFile
<1>2. off = Begins(recs, n)
  <2>1. n + 1 \in 1 .. Len(recs) /\ off = xt_offset(recs[n + 1]) /\ (n + 1) - 1 = n
    BY NextRecord
  <2>2. Holds(Disk, inode, Disk.objs[named.at].bytes)
    BY PlainFile
  <2>3. \A k \in 1 .. Len(recs) : xt_offset(recs[k]) = Begins(recs, k - 1)
    BY <2>2, HeldBy, Zenon
  <2> HIDE DEF recs
  <2> QED BY <2>1, <2>3
<1>3. file.pos >= off * bsize
  <2>1. file.pos >= Begins(recs, n) * bsize
    BY DEF PassedBy
  <2> HIDE DEF recs
  <2> QED BY <1>2, <2>1
<1>4. off * bsize \in Int /\ e * bsize \in Int
  <2>1. off \in Int /\ e \in Int
    BY <1>1
  <2> HIDE DEF off, e
  <2> QED BY <2>1, TimesInt
<1>5. q \in Nat /\ (q < off => file.pos < off * bsize) /\ (q >= e => file.pos >= e * bsize)
  <2>1. file.pos \in Nat /\ off \in Int /\ e \in Int
    BY <1>1
  <2> HIDE DEF e, off
  <2> QED BY <2>1, InBlock, Zenon
<1>6. CASE Where(Xad) = "inside"
  <2>1. Count = IF e * bsize >= rd.endpos THEN rd.len ELSE e * bsize - file.pos
    BY <1>6 DEF Count, Many, toread
  <2> HIDE DEF e, off
  <2> QED BY <1>1, <1>3, <1>4, <2>1 DEF off, e
<1>7. CASE Where(Xad) = "elsewhere"
  <2>1. ~(q >= off /\ q < e) /\ Count = 0
    BY <1>1, <1>7 DEF Where, isinxt
  <2>2. ~(q < off)
    BY <1>1, <1>3, <1>4, <1>5
  <2> HIDE DEF q
  <2>3. q >= e
    BY <1>1, <1>5, <2>1, <2>2
  <2>4. file.pos >= e * bsize
    BY <1>5, <2>3
  <2> HIDE DEF e, off
  <2> QED BY <1>1, <1>3, <1>4, <2>1, <2>4 DEF off, e
<1> QED BY <1>1, <1>6, <1>7

(* What arrives in the caller's buffer.                                    *)
LEMMA WhatArrives ==
    ASSUME XInv, ReadInv, pc = "extent", rd.len > 0, NEW r, Sound(r), NEW x, x = next_extent(r)
    PROVE  /\ Contents(x) \in Seq(Tokens(Disk)) /\ Len(Contents(x)) = Many(x)
           /\ Where(x) = "inside" => Kept(x) \in Seq(Tokens(Disk)) /\ Len(Kept(x)) = Many(x)
<1> DEFINE T == Tokens(Disk)
           h == fsb2daddr(x.start) * 2 ^ SECTOR_BITS
           at(i) == h + (file.pos - x.offset * bsize) + i - 1
           n == Many(x)
<1>1. n \in Nat /\ h \in Nat /\ x.offset \in Nat /\ file.pos \in Nat
  BY SoundExtent, AtTurn
<1>2. x.offset * bsize \in Int
  BY <1>1, TimesMonotone
<1>3. "?" \in T /\ "0" \in T /\ \A y \in Int : ByteAt(Disk, y) \in T
  BY Zenon DEF Tokens
<1> HIDE DEF T, n
<1>4. CASE Where(x) = "inside"
  <2>1. Contents(x) = [i \in 1 .. n |-> ByteAt(Disk, at(i))] /\ Kept(x) = [i \in 1 .. n |-> "?"]
    BY <1>4 DEF Contents, Kept, InExtent, read_disk_block, Many, n
  <2>2. \A i \in 1 .. n : at(i) \in Int
    BY <1>1, <1>2
  <2> HIDE DEF at
  <2>3. \A i \in 1 .. n : ByteAt(Disk, at(i)) \in T
    BY <1>3, <2>2
  <2>4. Contents(x) \in Seq(T) /\ Len(Contents(x)) = n
    BY <1>1, <2>1, <2>3
  <2>5. Kept(x) \in Seq(T) /\ Len(Kept(x)) = n
    BY <1>1, <1>3, <2>1
  <2> QED BY <2>4, <2>5 DEF T, n
<1>5. CASE Where(x) # "inside"
  <2>1. Contents(x) = [i \in 1 .. n |-> "0"]
    BY <1>5 DEF Contents, Many, n
  <2>2. Contents(x) \in Seq(T) /\ Len(Contents(x)) = n
    BY <1>1, <1>3, <2>1
  <2> QED BY <1>5, <2>2 DEF T, n
<1> QED BY <1>4, <1>5

(* One turn of the loop: the bytes b have arrived from the extent x.       *)
Took(x, b) ==
    /\ b \in Seq(Tokens(Disk)) /\ Len(b) = Many(x) /\ Many(x) \in Nat
    /\ x.offset \in Nat /\ x.len \in Nat
    /\ \/ x = Xad /\ rd'.lost = rd.lost /\ (UNCHANGED faults => b = Bytes)
       \/ rd'.lost /\ Fault
    /\ rd'.buf = rd.buf \o b /\ rd'.len = rd.len - Len(b) /\ rd'.xt = Tail(rd.xt)
    /\ rd'.endpos = rd.endpos /\ rd'.caller = rd.caller
    /\ rd'.prev = IF Where(x) = "hole" THEN rd.prev ELSE x.offset + x.len
    /\ file'.pos = file.pos + Len(b) /\ file'.len = file.len

LEMMA LoopTurn ==
    ASSUME XInv, ReadInv, ReadExtents, rd.len > 0, rd.xt # <<>>
    PROVE  /\ pc = "extent" /\ pc' = "extent" /\ (UNCHANGED faults \/ Fault)
           /\ UNCHANGED <<disk, path, named, inode, look, dir, result, spoiled>>
           /\ \E x, b : Took(x, b)
<1>1. /\ pc = "extent" /\ rd.len \in Int /\ ~NextLeaf /\ ~LastExtent /\ SoundAll(rd.xt)
  <2>1. pc = "extent"
    BY DEF ReadExtents
  <2>2. rd.len \in Int /\ SoundAll(rd.xt)
    BY <2>1 DEF ReadInv, Buffers, InLoop
  <2>3. ~NextLeaf
    BY DEF NextLeaf
  <2>4. ~LastExtent
    BY <2>2 DEF LastExtent
  <2> QED BY <2>1, <2>2, <2>3, <2>4
<1>2. /\ UNCHANGED <<disk, path, named, inode, look, dir, result, spoiled>>
      /\ \/ TakeExtent(Xad, Contents(Xad), rd.lost) /\ UNCHANGED faults
         \/ TakeExtent(Xad, Kept(Xad), rd.lost) /\ Fault /\ Where(Xad) = "inside"
         \/ /\ Fault
            /\ \E r \in StaleRecords(Disk) : TakeExtent(next_extent(r), Contents(next_extent(r)), TRUE)
  BY <1>1, ExtentCases, Zenon DEF Xad
<1>3. Keys(look, dir, file, rd) /\ faults \in Nat
  BY DEF XInv, Control
<1>4. Fault => ~UNCHANGED faults
  BY <1>3 DEF Fault
<1>5. ASSUME NEW r, Sound(r), NEW x, x = next_extent(r), NEW b, NEW l, TakeExtent(x, b, l),
             b \in Seq(Tokens(Disk)), Len(b) = Many(x),
             \/ x = Xad /\ l = rd.lost /\ (UNCHANGED faults => b = Bytes)
             \/ l = TRUE /\ Fault
      PROVE  Took(x, b) /\ UNCHANGED pc
  <2>1. x.offset \in Nat /\ x.len \in Nat /\ Many(x) \in Nat
    BY <1>1, <1>5, SoundExtent
  <2>2. /\ UNCHANGED pc
        /\ rd'.caller = rd.caller /\ rd'.buf = rd.buf \o b /\ rd'.len = rd.len - Len(b)
        /\ rd'.xt = Tail(rd.xt) /\ rd'.endpos = rd.endpos /\ rd'.lost = l
        /\ rd'.prev = (IF Where(x) = "hole" THEN rd.prev ELSE x.offset + x.len)
        /\ file'.pos = file.pos + Len(b) /\ file'.len = file.len
    BY <1>3, <1>5, Taken
  <2>3. \/ x = Xad /\ rd'.lost = rd.lost /\ (UNCHANGED faults => b = Bytes)
        \/ rd'.lost /\ Fault
    BY <1>5, <2>2
  <2> QED BY <1>5, <2>1, <2>2, <2>3 DEF Took
<1>6. Sound(Head(rd.xt)) /\ \A r \in StaleRecords(Disk) : Sound(r)
  BY <1>1, HeadSound, StraySound DEF XInv
<1>7. CASE TakeExtent(Xad, Contents(Xad), rd.lost) /\ UNCHANGED faults
  <2>1. Contents(Xad) \in Seq(Tokens(Disk)) /\ Len(Contents(Xad)) = Many(Xad)
    BY <1>1, <1>6, WhatArrives DEF Xad
  <2>2. Took(Xad, Contents(Xad)) /\ UNCHANGED pc
    BY <1>5, <1>6, <1>7, <2>1 DEF Xad, Bytes
  <2> QED BY <1>1, <1>2, <1>7, <2>2
<1>8. CASE TakeExtent(Xad, Kept(Xad), rd.lost) /\ Fault /\ Where(Xad) = "inside"
  <2>1. Kept(Xad) \in Seq(Tokens(Disk)) /\ Len(Kept(Xad)) = Many(Xad)
    BY <1>1, <1>6, <1>8, WhatArrives DEF Xad
  <2>2. Took(Xad, Kept(Xad)) /\ UNCHANGED pc
    BY <1>4, <1>5, <1>6, <1>8, <2>1 DEF Xad
  <2> QED BY <1>1, <1>2, <1>8, <2>2
<1>9. ASSUME Fault, NEW r \in StaleRecords(Disk), TakeExtent(next_extent(r), Contents(next_extent(r)), TRUE)
      PROVE  (\E x, b : Took(x, b)) /\ UNCHANGED pc
  <2> DEFINE x == next_extent(r)
  <2>1. Sound(r)
    BY <1>6
  <2>2. Contents(x) \in Seq(Tokens(Disk)) /\ Len(Contents(x)) = Many(x)
    BY <1>1, <2>1, WhatArrives
  <2>3. Took(x, Contents(x)) /\ UNCHANGED pc
    BY <1>5, <1>9, <2>1, <2>2
  <2> QED BY <2>3
<1> QED BY <1>1, <1>2, <1>7, <1>8, <1>9

LEMMA TurnReads ==
    ASSUME XInv, XInv', ReadInv, ReadExtents, rd.len > 0, rd.xt # <<>>
    PROVE  ReadInv'
<1> DEFINE recs == init_extents(Disk, inode)
<1>1. /\ pc = "extent" /\ pc' = "extent" /\ (UNCHANGED faults \/ Fault)
      /\ UNCHANGED <<disk, path, named, inode, look, dir, result, spoiled>>
      /\ \E x, b : Took(x, b)
  BY LoopTurn
<1>2. PICK x, b : Took(x, b)
  BY <1>1
<1>3. Healthy' => Healthy
  BY <1>1, HealthyBefore DEF XInv
<1>4. /\ Disk' = Disk /\ Opened' /\ (Plain' => Plain) /\ (Joins(Disk, inode)' <=> Joins(Disk, inode))
      /\ Formed(Disk, inode)'
  BY <1>1, <1>3, StillOpen
<1>5. /\ file.pos \in Nat /\ file.len \in Nat /\ rd.len \in Nat /\ rd.prev \in Int
      /\ rd.endpos = (IF file.pos + rd.len > file.len THEN file.len ELSE file.pos + rd.len)
      /\ Joins(Disk, inode) /\ ~rd.lost => Where(Xad) # "hole" /\ Count <= rd.len
  BY <1>1, AtExtent
<1>6. /\ rd'.len = rd.len - Len(b) /\ rd'.xt = Tail(rd.xt) /\ rd'.endpos = rd.endpos
      /\ rd'.caller = rd.caller /\ rd'.prev = (IF Where(x) = "hole" THEN rd.prev ELSE x.offset + x.len)
      /\ file'.pos = file.pos + Len(b) /\ file'.len = file.len
      /\ Len(b) = Many(x) /\ Many(x) \in Nat /\ x.offset \in Nat /\ x.len \in Nat
  BY <1>2 DEF Took
<1>60. ~rd'.lost => ~rd.lost /\ x = Xad /\ Len(b) = Count
  BY <1>2 DEF Took, Count
<1>7. /\ file'.pos \in Nat /\ rd'.len \in Int /\ rd'.prev \in Int
      /\ file'.pos + rd'.len = file.pos + rd.len
  BY <1>5, <1>6
<1>70. Joins(Disk, inode) => rd'.lost \/ rd'.len >= 0
  BY <1>5, <1>6, <1>60
<1>8. rd'.caller # "open" => rd'.buf \in Seq(Tokens(Disk))
  <2> SUFFICES ASSUME rd'.caller # "open" PROVE rd'.buf \in Seq(Tokens(Disk))
    OBVIOUS
  <2> DEFINE T == Tokens(Disk)
  <2>1. rd.buf \in Seq(T)
    BY <1>6 DEF ReadInv, Buffers
  <2>2. rd'.buf = rd.buf \o b /\ b \in Seq(T)
    BY <1>2 DEF Took
  <2> HIDE DEF T
  <2>3. rd'.buf \in Seq(T)
    BY <2>1, <2>2
  <2> QED BY <2>3 DEF T
<1>9. Buffers'
  <2>1. /\ Disk.super = "XFSB4" /\ rd.caller \in {"open", "read"} /\ inode.format # "local"
        /\ result = "OK" => inode.mode = "reg"
        /\ rd.caller = "open" => inode.mode = "lnk"
    BY <1>1 DEF ReadInv, Buffers, Serving
  <2> QED BY <1>1, <1>4, <1>5, <1>6, <1>7, <1>70, <1>8, <2>1 DEF Buffers, Serving
<1>10. ASSUME ~rd'.lost PROVE \E k \in 0 .. Len(recs') : PassedBy(recs, k)'
  <2>0. ~rd.lost /\ x = Xad /\ Len(b) = Count
    BY <1>10, <1>60
  <2>1. PICK n \in 0 .. Len(recs) : PassedBy(recs, n)
    BY <1>1, <2>0 DEF ReadInv, InLoop
  <2>2. /\ n + 1 \in 0 .. Len(recs) /\ n + 1 # 0 /\ rd'.xt = SubSeq(recs, (n + 1) + 1, Len(recs))
        /\ Begins(recs, n + 1) = Xad.offset + Xad.len
    <3>1. /\ n + 1 \in 1 .. Len(recs) /\ Tail(rd.xt) = SubSeq(recs, (n + 1) + 1, Len(recs))
          /\ Begins(recs, n + 1) = Xad.offset + Xad.len
      BY <1>1, <2>1, NextRecord
    <3> HIDE DEF recs
    <3> QED BY <1>6, <3>1
  <2>3. recs' = recs
    BY <1>1, <1>4
  <2>4. Plain' /\ rd'.len > 0 => file'.pos >= Begins(recs, n + 1) * bsize
    <3> SUFFICES ASSUME Plain', rd'.len > 0 PROVE file'.pos >= Begins(recs, n + 1) * bsize
      OBVIOUS
    <3>1. rd.len - Count > 0
      BY <1>6, <2>0
    <3>2. file.pos + Count >= (Xad.offset + Xad.len) * bsize
      BY <1>1, <1>4, <2>0, <2>1, <3>1, PlainExtent
    <3> HIDE DEF recs
    <3> QED BY <1>6, <2>0, <2>2, <3>2
  <2>5. Joins(Disk, inode) => rd'.prev = Begins(recs, n + 1)
    BY <1>5, <1>6, <2>0, <2>2
  <2> HIDE DEF recs
  <2>6. PassedBy(recs, n + 1)'
    <3>1. (PassedBy(recs, n + 1))' <=>
              /\ rd'.xt = SubSeq(recs', (n + 1) + 1, Len(recs'))
              /\ Joins(Disk, inode)' => rd'.prev = IF n + 1 = 0 THEN -1 ELSE Begins(recs', n + 1)
              /\ Plain' /\ rd'.len > 0 => file'.pos >= Begins(recs', n + 1) * bsize
      BY DEF PassedBy
    <3> QED BY <1>4, <2>2, <2>3, <2>4, <2>5, <3>1
  <2> QED BY <2>2, <2>3, <2>6
<1>11. InLoop'
  <2>1. rd'.endpos = IF file'.pos + rd'.len > file'.len THEN file'.len ELSE file'.pos + rd'.len
    BY <1>5, <1>6, <1>7
  <2>2. SoundAll(rd.xt)'
    <3>1. SoundAll(Tail(rd.xt))
      BY <1>1, HeadSound DEF ReadInv, InLoop
    <3>2. SoundAll(rd'.xt)
      BY <1>6, <3>1
    <3> QED BY <3>2 DEF SoundAll, Sound
  <2>3. rd'.lost \/ \E k \in 0 .. Len(recs') : PassedBy(recs, k)'
    BY <1>10
  <2> QED BY <1>7, <2>1, <2>2, <2>3 DEF InLoop
<1> QED BY <1>1, <1>4, <1>9, <1>11 DEF ReadInv, AllRead

(* Behind the last record of the first leaf.                               *)
LEMMA LeafReads ==
    ASSUME XInv, XInv', ReadInv, ReadExtents, NextLeaf
    PROVE  /\ ReadInv' /\ UNCHANGED <<disk, path, named, inode, look, dir, file, result, spoiled, faults>>
           /\ rd'.buf = rd.buf /\ rd'.len = rd.len /\ rd'.caller = rd.caller /\ rd'.lost
<1>1. /\ pc = "extent" /\ pc' = "extent"
      /\ UNCHANGED <<disk, path, named, inode, look, dir, file, result, spoiled, faults>>
      /\ \E recs \in Strays(Disk) : rd' = [rd EXCEPT !.xt = recs, !.lost = TRUE]
  BY DEF ReadExtents, NextLeaf
<1>2. PICK recs \in Strays(Disk) : rd' = [rd EXCEPT !.xt = recs, !.lost = TRUE]
  BY <1>1
<1>3. /\ rd'.buf = rd.buf /\ rd'.len = rd.len /\ rd'.caller = rd.caller /\ rd'.lost
      /\ rd'.xt = recs /\ rd'.endpos = rd.endpos /\ rd'.prev = rd.prev
  BY <1>2 DEF XInv, Control, Keys
<1>4. Healthy' => Healthy
  BY <1>1 DEF Healthy, Disk, AllImages
<1>5. Disk' = Disk /\ Opened' /\ Formed(Disk, inode)'
  BY <1>1, <1>4, StillOpen
<1>6. Buffers'
  BY <1>1, <1>3, <1>5 DEF ReadInv, Buffers, Serving
<1>7. SoundAll(rd.xt)'
  <2>1. SoundAll(rd'.xt)
    BY <1>3, StraySound DEF XInv
  <2> QED BY <2>1 DEF SoundAll, Sound
<1>8. InLoop'
  BY <1>1, <1>3, <1>7 DEF ReadInv, InLoop
<1> QED BY <1>1, <1>3, <1>5, <1>6, <1>8 DEF ReadInv, AllRead

LEMMA LoopEnd ==
    ASSUME XInv, XInv', ReadInv, ReadExtents, LastExtent
    PROVE  /\ pc = "extent" /\ pc' = "done" /\ ReadInv'
           /\ UNCHANGED <<disk, path, named, inode, look, dir, file, result, spoiled, faults>>
           /\ rd'.buf = rd.buf /\ rd'.len = rd.len /\ rd'.caller = rd.caller
           /\ rd'.lost = (rd.lost \/ (rd.len > 0 /\ inode.format = "btree"))
<1> DEFINE recs == init_extents(Disk, inode)
           lost == rd.lost \/ (rd.len > 0 /\ inode.format = "btree")
<1>1. pc = "extent" /\ rd.len \in Int /\ file.pos \in Nat
  BY DEF ReadExtents, ReadInv, Buffers
<1>2. ~(rd.len > 0 /\ rd.xt # <<>>)
  BY <1>1 DEF LastExtent
<1>3. /\ pc' = "done" /\ UNCHANGED <<disk, path, named, inode, look, dir, file, result, spoiled, faults>>
      /\ rd' = [rd EXCEPT !.lost = lost]
  BY DEF ReadExtents, LastExtent
<1>4. /\ rd'.buf = rd.buf /\ rd'.len = rd.len /\ rd'.caller = rd.caller /\ rd'.lost = lost
  BY <1>3 DEF XInv, Control, Keys
<1>5. Healthy' => Healthy
  BY <1>3 DEF Healthy, Disk, AllImages
<1>6. /\ Disk' = Disk /\ Opened' /\ (Plain' => Plain) /\ (Joins(Disk, inode)' <=> Joins(Disk, inode))
      /\ Formed(Disk, inode)'
  BY <1>3, <1>5, StillOpen
<1>7. Buffers'
  <2>1. /\ Disk.super = "XFSB4" /\ rd.caller \in {"open", "read"} /\ inode.format # "local"
        /\ result = "OK" => inode.mode = "reg"
        /\ rd.caller = "open" => inode.mode = "lnk"
        /\ file.len \in Nat
        /\ Joins(Disk, inode) => rd.lost \/ rd.len >= 0
        /\ rd.caller # "open" => rd.buf \in Seq(Tokens(Disk))
    BY <1>1 DEF ReadInv, Buffers, Serving
  <2> QED BY <1>1, <1>3, <1>4, <1>6, <2>1 DEF Buffers, Serving
<1>8. ASSUME Plain
      PROVE  lost \/ rd.len = 0 \/ file.pos >= Len(Disk.objs[named.at].bytes)
  <2> DEFINE t == Disk.objs[named.at].bytes
  <2>1. /\ Len(t) \in Nat /\ inode.format \in {"extents", "btree"} /\ Holds(Disk, inode, t)
        /\ Joins(Disk, inode)
    BY <1>8, PlainFile
  <2>2. rd.lost \/ rd.len >= 0
    BY <1>1, <2>1 DEF ReadInv, Buffers, Serving
  <2>3. CASE rd.len = 0 \/ rd.lost
    BY <2>3
  <2>4. CASE rd.len > 0 /\ inode.format = "btree"
    BY <2>4
  <2>5. CASE rd.len > 0 /\ inode.format = "extents" /\ ~rd.lost
    <3>1. PICK n \in 0 .. Len(recs) : PassedBy(recs, n)
      BY <1>1, <2>5 DEF ReadInv, InLoop
    <3>2. n = Len(recs) /\ file.pos >= Begins(recs, n) * bsize
      BY <1>1, <1>2, <1>8, <2>5, <3>1, NextRecord DEF PassedBy
    <3>3. Len(t) <= Begins(recs, Len(recs)) * bsize
      BY <2>1, <2>5, HeldBy
    <3>4. Begins(recs, Len(recs)) \in Int
      <4>1. /\ Len(recs) \in Nat
            /\ \A k \in 1 .. Len(recs) : xt_offset(recs[k]) \in Nat /\ xt_len(recs[k]) \in Nat
        BY <2>1, HeldBy
      <4> HIDE DEF recs
      <4>2. CASE Len(recs) = 0
        BY <4>2 DEF Begins
      <4>3. CASE Len(recs) # 0
        <5>1. Len(recs) \in 1 .. Len(recs)
          BY <4>1, <4>3
        <5>2. xt_offset(recs[Len(recs)]) \in Nat /\ xt_len(recs[Len(recs)]) \in Nat
          BY <4>1, <5>1
        <5> QED BY <4>3, <5>2 DEF Begins
      <4> QED BY <4>2, <4>3
    <3>5. Begins(recs, Len(recs)) * bsize \in Int
      BY <3>4, TimesMonotone
    <3> HIDE DEF recs, t
    <3>6. file.pos >= Begins(recs, Len(recs)) * bsize
      BY <3>2
    <3>7. file.pos >= Len(t)
      <4> DEFINE z == Begins(recs, Len(recs)) * bsize
                 m == Len(t)
      <4>1. m \in Nat /\ z \in Int /\ m <= z /\ file.pos >= z
        BY <2>1, <3>3, <3>5, <3>6
      <4> HIDE DEF z, m
      <4>2. file.pos >= m
        BY <1>1, <4>1
      <4> QED BY <4>2 DEF m
    <3> QED BY <3>7 DEF t
  <2> QED BY <1>1, <2>1, <2>2, <2>3, <2>4, <2>5
<1>9. AllRead'
  BY <1>3, <1>4, <1>6, <1>8 DEF AllRead
<1>10. InLoop'
  BY <1>3 DEF InLoop
<1> QED BY <1>1, <1>3, <1>4, <1>6, <1>7, <1>9, <1>10 DEF ReadInv

(* What a turn of the loop can be.                                         *)
LEMMA LoopCases ==
    ASSUME XInv, ReadInv, ReadExtents
    PROVE  (rd.len > 0 /\ rd.xt # <<>>) \/ NextLeaf \/ LastExtent
BY DEF ReadExtents, NextExtent

LEMMA ExtentReads == ASSUME XInv, XInv', ReadInv, ReadExtents PROVE ReadInv'
BY LoopCases, TurnReads, LeafReads, LoopEnd

LEMMA NextReads == ASSUME XInv, XInv', ReadInv, [Next]_vars PROVE ReadInv'
BY OpenReads, MountReads, InodeReads, LinkReads, LinkReadReads, EndReads, DirReads, DataReads,
   ExtentReads, ReturnReads, SeekReads, CallReads, CloseReads, StutterReads DEF Next, Steps, Finished

(***************************************************************************)
(* The driver implements FileReader.                                       *)
(***************************************************************************)
Named == IF named.res = "OK" THEN Disk.objs[named.at].bytes ELSE <<>>

State == IF rd.caller = "read" THEN "reading" ELSE "idle"

Want == IF rd.caller = "open" THEN 0 ELSE rd.len + Len(rd.buf)

Got == IF rd.caller = "open" THEN <<>> ELSE rd.buf

LEMMA ReaderInit == Init => Reader!Init
<1> SUFFICES ASSUME Init PROVE Reader!Init
  OBVIOUS
<1>1. rd = NoRead /\ file.pos = 0
  BY DEF Init
<1>2. rd.caller = "none" /\ rd.buf = <<>> /\ rd.len = 0 /\ Len(<<>>) = 0
  BY <1>1 DEF NoRead
<1>3. Got = <<>> /\ Want \in Nat /\ State = "idle" /\ file.pos \in Nat
  BY <1>1, <1>2 DEF Got, Want, State
<1>4. Sick \in BOOLEAN /\ Sparse \in BOOLEAN
  BY Zenon DEF Sick, Sparse
<1> QED BY <1>3, <1>4 DEF Reader!Init, Got, Want, State

LEMMA StaysSick ==
    ASSUME Control, named' = named, UNCHANGED faults \/ Fault, rd.lost => rd'.lost, spoiled => spoiled'
    PROVE  Sick => Sick'
<1>1. faults > 0 => faults' > 0
  BY DEF Control, Fault
<1> QED BY <1>1 DEF Sick

(* What a read that has not gone wrong is about.                           *)
LEMMA NotSick ==
    ASSUME XInv, ReadInv, result = "OK", pc \in {"idle", "read", "extent", "done"}, ~Sick, ~Sparse
    PROVE  Plain /\ Named = Disk.objs[named.at].bytes
<1>1. faults = 0 /\ ~spoiled /\ named.res = "OK"
  BY DEF Sick, XInv, Control
<1>2. Disk.super = "XFSB4"
  BY DEF ReadInv, Buffers
<1>3. ~Disk.objs[named.at].sparse
  BY <1>1, Zenon DEF Sparse
<1> QED BY <1>1, <1>2, <1>3 DEF Plain, Healthy, Named

(* Outside a read.                                                         *)
LEMMA Idles ==
    ASSUME ReadInv', disk' = disk, named' = named, Sick => Sick', Sick' \/ Sparse' = Sparse,
           State = "idle", State' = "idle", Got' = Got, Want' = Want
    PROVE  Reader!Next
<1>1. file'.pos \in Nat
  BY DEF ReadInv, Buffers
<1>2. Named' = Named
  BY DEF Named, Disk, AllImages
<1> QED BY <1>1, <1>2 DEF Reader!Next, Reader!Seek, Named, Got, Want, State

(* While a path is looked up.                                              *)
LEMMA LooksUp ==
    ASSUME XInv, ReadInv, ReadInv', UNCHANGED <<disk, named>>, UNCHANGED faults \/ Fault,
           (rd'.lost <=> rd.lost) \/ rd'.lost, spoiled => spoiled', result # "OK", result' # "OK",
           rd.caller # "read", rd'.caller # "read"
    PROVE  Reader!Next
<1>1. Sick => Sick'
  BY StaysSick DEF XInv
<1>2. Sick' \/ Sparse' = Sparse
  <2>1. CASE rd'.lost <=> rd.lost
    BY <2>1 DEF Sparse, Disk, AllImages
  <2>2. CASE rd'.lost
    BY <2>2 DEF Sick
  <2> QED BY <2>1, <2>2
<1>3. State = "idle" /\ State' = "idle"
  BY DEF State
<1>4. Len(<<>>) = 0
  OBVIOUS
<1>5. rd.caller # "open" => rd.buf = <<>> /\ rd.len = 0
  BY DEF ReadInv, Buffers
<1>6. rd'.caller # "open" => rd'.buf = <<>> /\ rd'.len = 0
  BY DEF ReadInv, Buffers
<1>7. Got = <<>> /\ Want = 0
  BY <1>4, <1>5 DEF Got, Want
<1>8. Got' = <<>> /\ Want' = 0
  BY <1>4, <1>6 DEF Got, Want
<1> QED BY <1>1, <1>2, <1>3, <1>7, <1>8, Idles

(* The bytes the loop takes from an extent are those of the file.          *)
LEMMA BytesOfFile ==
    ASSUME XInv, ReadInv, Plain, pc = "extent", rd.len > 0, rd.xt # <<>>, ~rd.lost,
           NEW i \in 1 .. Count, file.pos + i <= Len(Disk.objs[named.at].bytes)
    PROVE  Bytes[i] = Disk.objs[named.at].bytes[file.pos + i]
<1> DEFINE recs == init_extents(Disk, inode)
           t == Disk.objs[named.at].bytes
           off == Xad.offset
           e == (Xad.offset + Xad.len) * bsize
           h == fsb2daddr(Xad.start) * 2 ^ SECTOR_BITS
           x == file.pos + i - 1
<1>1. /\ file.pos \in Nat /\ rd.len \in Nat /\ off \in Nat /\ Xad.len \in Nat /\ Count \in Nat /\ h \in Nat
      /\ file.len = Len(t) /\ Len(t) \in Nat /\ Holds(Disk, inode, t) /\ Joins(Disk, inode)
      /\ rd.endpos = (IF file.pos + rd.len > file.len THEN file.len ELSE file.pos + rd.len)
  BY AtExtent, PlainFile
<1>2. Where(Xad) = "inside" /\ Count <= rd.len
  <2>1. /\ Where(Xad) \in {"inside", "hole", "elsewhere"} /\ Where(Xad) # "hole" /\ Count <= rd.len
        /\ Where(Xad) = "elsewhere" => Count = 0
    BY <1>1, AtExtent
  <2> QED BY <1>1, <2>1
<1>3. PICK n \in 0 .. Len(recs) : PassedBy(recs, n)
  BY DEF ReadInv, InLoop
<1>4. file.pos >= off * bsize
  BY <1>3, PlainExtent
<1>5. off * bsize \in Int /\ e \in Int
  <2>1. off \in Int /\ off + Xad.len \in Int
    BY <1>1
  <2>2. off * bsize \in Int
    <3> HIDE DEF off
    <3> QED BY <2>1, TimesInt
  <2>3. (off + Xad.len) * bsize \in Int
    BY <2>1, TimesInt
  <2> QED BY <2>2, <2>3
<1>6. Count = IF e >= rd.endpos THEN rd.len ELSE e - file.pos
  BY <1>2 DEF Count, Many, toread
<1>7. n + 1 \in 1 .. Len(recs) /\ off = xt_offset(recs[n + 1]) /\ Xad.len = xt_len(recs[n + 1])
      /\ Xad.start = xt_start(recs[n + 1])
  BY <1>3, NextRecord
<1>8. \A y \in off * bsize .. e - 1 : y < Len(t) => t[y + 1] = ByteAt(Disk, h + (y - off * bsize))
  <2>1. Holds(Disk, inode, t)
    BY <1>1
  <2> HIDE DEF t
  <2>2. \A y \in xt_offset(recs[n + 1]) * bsize
                .. (xt_offset(recs[n + 1]) + xt_len(recs[n + 1])) * bsize - 1 :
           y < Len(t) => t[y + 1] = ByteAt(Disk, fsb2daddr(xt_start(recs[n + 1])) * 2 ^ SECTOR_BITS
                                                 + (y - xt_offset(recs[n + 1]) * bsize))
    BY <1>7, <2>1, HeldBy
  <2> HIDE DEF recs
  <2> QED BY <1>7, <2>2, Zenon
<1>9. Bytes[i] = ByteAt(Disk, h + (file.pos - off * bsize) + i - 1)
  BY <1>2 DEF Bytes, Contents, Count, Many, InExtent, read_disk_block
<1>10. /\ x \in off * bsize .. e - 1 /\ x < Len(t) /\ x + 1 = file.pos + i
       /\ h + (x - off * bsize) = h + (file.pos - off * bsize) + i - 1
  <2> DEFINE m == Len(t)
             b == off * bsize
  <2>1. file.pos + i <= m /\ i \in 1 .. Count
    OBVIOUS
  <2> HIDE DEF e, h, b, t, m
  <2>2. file.len = m /\ m \in Nat
    BY <1>1 DEF m
  <2>3. b \in Int /\ e \in Int /\ file.pos >= b
    BY <1>4, <1>5 DEF b
  <2>4. x + 1 = file.pos + i /\ x < m /\ x >= b /\ x \in Int
    BY <1>1, <2>1, <2>2, <2>3
  <2>5. x <= e - 1
    <3>1. file.pos \in Int /\ rd.len \in Int /\ Count \in Int /\ i \in Int /\ i <= Count /\ Count <= rd.len
      BY <1>1, <1>2, <2>1
    <3>2. CASE e >= rd.endpos
      <4>1. x < rd.endpos
        BY <1>1, <2>1, <2>2, <3>1
      <4> QED BY <1>1, <2>2, <2>3, <2>4, <3>1, <3>2, <4>1
    <3>3. CASE ~(e >= rd.endpos)
      <4>1. Count = e - file.pos
        BY <1>6, <3>3
      <4> QED BY <2>3, <3>1, <4>1
    <3> QED BY <3>2, <3>3
  <2>6. h + (x - b) = h + (file.pos - b) + i - 1
    BY <1>1, <2>1, <2>3
  <2> QED BY <2>3, <2>4, <2>5, <2>6 DEF m, b
<1> HIDE DEF x, t
<1>11. t[x + 1] = ByteAt(Disk, h + (x - off * bsize))
  BY <1>8, <1>10
<1>12. Bytes[i] = t[file.pos + i]
  BY <1>9, <1>10, <1>11
<1> QED BY <1>12 DEF t

(* In a read: the bytes b arrive.                                          *)
LEMMA Arrives ==
    ASSUME XInv, ReadInv, ReadInv', pc \in Serving, rd.caller = "read", rd'.caller \in {"read", "none"},
           UNCHANGED <<disk, named, inode, result, spoiled>>, UNCHANGED faults \/ Fault,
           (rd'.lost <=> rd.lost) \/ rd'.lost, NEW b \in Seq(Tokens(Disk)),
           rd'.buf = rd.buf \o b, rd'.len = rd.len - Len(b), file'.pos = file.pos + Len(b),
           Sparse' \/ rd'.len >= 0,
           ~Sick' /\ ~Sparse => \A i \in 1 .. Len(b) : file.pos + i <= Len(Named) => b[i] = Named[file.pos + i]
    PROVE  Reader!Arrive /\ State = "reading"
<1> DEFINE old == Len(rd.buf)
           new == Len(rd'.buf)
           T == Tokens(Disk)
<1>1. rd.buf \in Seq(T) /\ rd.len \in Int /\ file.pos \in Nat
  BY DEF ReadInv, Buffers
<1> HIDE DEF T
<1>2. old \in Nat /\ Len(b) \in Nat /\ new = old + Len(b) /\ SubSeq(rd'.buf, 1, old) = rd.buf
  BY <1>1 DEF T
<1>3. \A i \in old + 1 .. new : rd'.buf[i] = b[i - old]
  BY <1>1, <1>2 DEF T
<1>4. Got = rd.buf /\ Got' = rd'.buf /\ State = "reading" /\ Want = rd.len + old /\ Want' = rd'.len + new
  BY DEF Got, State, Want
<1>5. Named' = Named /\ (Sick => Sick')
  BY StaysSick DEF Named, Disk, AllImages, XInv
<1>6. Sparse' = Sparse \/ (Sick' /\ Sparse')
  <2>1. CASE rd'.lost <=> rd.lost
    BY <2>1 DEF Sparse, Disk, AllImages
  <2>2. CASE rd'.lost
    BY <2>2 DEF Sick, Sparse
  <2> QED BY <2>1, <2>2
<1> HIDE DEF old, new
<1>7. old <= new /\ Want' = Want /\ file'.pos = file.pos + new - old /\ (rd'.len >= 0 => new <= Want)
  <2>1. Want' = (rd.len - Len(b)) + (old + Len(b)) /\ Want = rd.len + old
    BY <1>2, <1>4
  <2> QED BY <1>1, <1>2, <2>1
<1>8. ASSUME ~Sick', ~Sparse, NEW i \in old + 1 .. new, file.pos + i - old <= Len(Named)
      PROVE  rd'.buf[i] = Named[file.pos + i - old]
  <2> DEFINE j == i - old
  <2>1. j \in 1 .. Len(b) /\ file.pos + j = file.pos + i - old
    BY <1>1, <1>2
  <2>2. b[j] = Named[file.pos + j]
    <3> HIDE DEF j
    <3> QED BY <1>8, <2>1
  <2> QED BY <1>3, <2>1, <2>2
<1>9. Sick' \/ Sparse \/ \A i \in old + 1 .. new :
                            file.pos + i - old <= Len(Named) => rd'.buf[i] = Named[file.pos + i - old]
  BY <1>8
<1>10. Reader!Arrive
  <2>1. Sparse' \/ new <= Want
    BY <1>7
  <2> QED BY <1>2, <1>4, <1>5, <1>6, <1>7, <1>9, <2>1 DEF Reader!Arrive, Named, Got, Want, old, new
<1> QED BY <1>4, <1>10

(* Not a byte arrives.                                                     *)
LEMMA NothingArrives ==
    ASSUME XInv, ReadInv, ReadInv', pc \in Serving, rd.caller = "read", rd'.caller \in {"read", "none"},
           UNCHANGED <<disk, named, inode, result, spoiled, file>>, UNCHANGED faults \/ Fault,
           (rd'.lost <=> rd.lost) \/ rd'.lost, rd'.buf = rd.buf, rd'.len = rd.len
    PROVE  Reader!Arrive /\ State = "reading"
<1>1. rd.buf \in Seq(Tokens(Disk)) /\ rd.len \in Int /\ file.pos \in Nat /\ inode.format # "local"
  BY DEF ReadInv, Buffers, XInv, Control, Serving, Formed
<1>2. Sparse' \/ rd'.len >= 0
  <2>1. Joins(Disk, inode) => rd.lost \/ rd.len >= 0
    BY <1>1 DEF ReadInv, Buffers
  <2>2. result' = "OK" /\ Disk' = Disk /\ (Joins(Disk, inode)' <=> Joins(Disk, inode)) /\ (rd.lost => rd'.lost)
    BY DEF XInv, Control, Serving, Disk, AllImages
  <2> QED BY <2>1, <2>2 DEF Sparse
<1>3. <<>> \in Seq(Tokens(Disk)) /\ Len(<<>>) = 0 /\ rd.buf \o <<>> = rd.buf
  <2> DEFINE T == Tokens(Disk)
  <2>1. rd.buf \in Seq(T)
    BY <1>1
  <2> HIDE DEF T
  <2>2. <<>> \in Seq(T) /\ Len(<<>>) = 0 /\ rd.buf \o <<>> = rd.buf
    BY <2>1
  <2> QED BY <2>2 DEF T
<1>4. rd'.buf = rd.buf \o <<>> /\ rd'.len = rd.len - Len(<<>>) /\ file'.pos = file.pos + Len(<<>>)
  BY <1>1, <1>3
<1>5. \A i \in 1 .. Len(<<>>) : file.pos + i <= Len(Named) => <<>>[i] = Named[file.pos + i]
  BY <1>3
<1> QED BY <1>2, <1>3, <1>4, <1>5, Arrives

LEMMA ReaderOpens == ASSUME XInv, XInv', ReadInv, ReadInv', DirEnd PROVE Reader!Next
<1>1. /\ pc = "branch" /\ inode.mode # "lnk" /\ UNCHANGED <<disk, path, named, inode, look, rd, spoiled, faults>>
      /\ \/ result' = "BAD_TYPE"
         \/ inode.mode = "reg" /\ pc' = "idle" /\ result' = "OK"
  BY DEF DirEnd, GiveUp
<1>2. result = "none" /\ rd.caller = "none" /\ Disk' = Disk /\ Disk.super = "XFSB4"
  BY <1>1 DEF XInv, Control, ReadInv, Buffers, Serving, Disk, AllImages
<1>3. CASE result' = "BAD_TYPE"
  BY <1>1, <1>2, <1>3, LooksUp
<1>4. CASE result' = "OK"
  <2>1. Sick' = Sick
    BY <1>1 DEF Sick
  <2>2. ASSUME ~Sick, ~Disk.objs[named.at].sparse PROVE Joins(Disk, inode)
    <3> DEFINE o == named.at
    <3>1. Healthy /\ Healthy'
      BY <1>1, <1>2, <2>2 DEF Sick, Healthy, XInv, Control
    <3>2. /\ o \in DOMAIN Disk.objs /\ Disk.objs[o].mode = "reg"
          /\ inode = Disk.inodes[InodePlace(o)]
      BY <1>1, <1>2, <1>4, <3>1 DEF ReadInv, Opened
    <3>3. Describes(Disk, inode, o)
      BY <1>2, <3>2, HealthyDisk DEF XInv
    <3>4. Holds(Disk, inode, Disk.objs[o].bytes)
      BY <2>2, <3>2, <3>3 DEF Describes
    <3> QED BY <3>4, HeldJoins
  <2>3. Sick' \/ Sparse' = Sparse
    <3> SUFFICES ASSUME ~Sick PROVE Sparse' = Sparse
      BY <2>1
    <3>1. named.res = "OK" /\ (Sparse <=> Disk.objs[named.at].sparse)
      BY <1>2, Zenon DEF Sick, Sparse
    <3>2. Sparse' <=> Disk.objs[named.at].sparse \/ ~Joins(Disk, inode)
      BY <1>1, <1>2, <1>4, <3>1 DEF Sparse
    <3>3. Sparse' <=> Sparse
      BY <2>2, <3>1, <3>2
    <3>4. Sparse \in BOOLEAN /\ Sparse' \in BOOLEAN
      BY Zenon DEF Sparse
    <3> QED BY <3>3, <3>4
  <2>4. State = "idle" /\ State' = "idle" /\ Got' = Got /\ Want' = Want
    BY <1>1, <1>2 DEF State, Got, Want
  <2> QED BY <1>1, <2>1, <2>3, <2>4, Idles
<1> QED BY <1>1, <1>3, <1>4

LEMMA ReaderTurns ==
    ASSUME XInv, XInv', ReadInv, ReadInv', ReadExtents, rd.len > 0, rd.xt # <<>>
    PROVE  Reader!Next
<1>0. pc = "extent" /\ rd.len \in Int
  BY DEF ReadExtents, ReadInv, Buffers
<1>1. \/ rd.caller = "open" /\ result = "none"
      \/ rd.caller = "read" /\ result = "OK"
  BY <1>0 DEF XInv, Control
<1>2. /\ (UNCHANGED faults \/ Fault)
      /\ UNCHANGED <<disk, path, named, inode, look, dir, result, spoiled>>
      /\ \E x, b : Took(x, b)
  BY LoopTurn
<1>3. PICK x, b : Took(x, b)
  BY <1>2
<1>4. /\ b \in Seq(Tokens(Disk)) /\ Len(b) \in Nat
      /\ \/ x = Xad /\ rd'.lost = rd.lost /\ Len(b) = Count /\ (UNCHANGED faults => b = Bytes)
         \/ rd'.lost /\ Fault
      /\ rd'.buf = rd.buf \o b /\ rd'.len = rd.len - Len(b) /\ rd'.caller = rd.caller
      /\ file'.pos = file.pos + Len(b)
  BY <1>3 DEF Took, Count
<1>5. (rd'.lost <=> rd.lost) \/ rd'.lost
  BY <1>4
<1>6. CASE rd.caller = "open"
  BY <1>1, <1>2, <1>4, <1>5, <1>6, LooksUp
<1>7. CASE rd.caller = "read"
  <2>1. result = "OK" /\ Disk' = Disk /\ (Joins(Disk, inode)' <=> Joins(Disk, inode))
    BY <1>1, <1>2, <1>7 DEF Disk, AllImages
  <2>2. Sparse' \/ rd'.len >= 0
    <3>1. CASE rd'.lost
      BY <3>1 DEF Sparse
    <3>2. CASE ~rd'.lost
      <4>1. ~rd.lost /\ Len(b) = Count
        BY <1>4, <3>2
      <4>2. Joins(Disk, inode) => Count <= rd.len
        BY <1>0, <4>1, AtExtent
      <4> QED BY <1>0, <1>2, <1>4, <2>1, <4>1, <4>2 DEF Sparse
    <3> QED BY <3>1, <3>2
  <2>3. ASSUME ~Sick', ~Sparse, NEW i \in 1 .. Len(b), file.pos + i <= Len(Named)
        PROVE  b[i] = Named[file.pos + i]
    <3>1. ~Sick
      BY <1>2, <1>5, <2>3, StaysSick DEF XInv
    <3>2. Plain /\ Named = Disk.objs[named.at].bytes
      BY <1>0, <2>1, <2>3, <3>1, NotSick
    <3>3. UNCHANGED faults /\ ~rd'.lost /\ ~rd.lost
      BY <1>2, <2>3, <3>1 DEF Fault, Sick, XInv, Control
    <3>4. b = Bytes /\ i \in 1 .. Count
      BY <1>4, <3>3
    <3> QED BY <1>0, <2>3, <3>2, <3>3, <3>4, BytesOfFile
  <2>4. Reader!Arrive /\ State = "reading"
    <3>1. pc \in Serving
      BY <1>0 DEF Serving
    <3>2. ~Sick' /\ ~Sparse => \A i \in 1 .. Len(b) :
              file.pos + i <= Len(Named) => b[i] = Named[file.pos + i]
      BY <2>3
    <3> QED BY <1>2, <1>4, <1>5, <1>7, <2>2, <3>1, <3>2, Arrives
  <2>5. State' = "reading"
    BY <1>4, <1>7 DEF State
  <2> QED BY <2>4, <2>5 DEF Reader!Next, Reader!Deliver, State
<1> QED BY <1>1, <1>6, <1>7

LEMMA ReaderLoops == ASSUME XInv, XInv', ReadInv, ReadInv', ReadExtents PROVE Reader!Next
<1>0. pc = "extent"
  BY DEF ReadExtents
<1>1. \/ rd.caller = "open" /\ result = "none"
      \/ rd.caller = "read" /\ result = "OK"
  BY <1>0 DEF XInv, Control
<1>2. CASE NextLeaf \/ LastExtent
  <2>1. /\ UNCHANGED <<disk, path, named, inode, look, dir, file, result, spoiled, faults>>
        /\ rd'.buf = rd.buf /\ rd'.len = rd.len /\ rd'.caller = rd.caller
        /\ rd'.lost \/ rd'.lost = (rd.lost \/ (rd.len > 0 /\ inode.format = "btree"))
    BY <1>2, LeafReads, LoopEnd
  <2>2. (rd'.lost <=> rd.lost) \/ rd'.lost
    BY <2>1
  <2>3. CASE rd.caller = "open"
    BY <1>1, <2>1, <2>2, <2>3, LooksUp
  <2>4. CASE rd.caller = "read"
    <3>1. Reader!Arrive /\ State = "reading"
      BY <1>0, <2>1, <2>2, <2>4, NothingArrives DEF Serving
    <3>2. State' = "reading"
      BY <2>1, <2>4 DEF State
    <3> QED BY <3>1, <3>2 DEF Reader!Next, Reader!Deliver, State
  <2> QED BY <1>1, <2>3, <2>4
<1> QED BY <1>2, LoopCases, ReaderTurns

LEMMA ReaderStarts == ASSUME XInv, ReadInv, ReadInv', xfs_read_data PROVE Reader!Next
<1>0. /\ pc = "read" /\ UNCHANGED <<disk, named, inode, result, spoiled>> /\ (UNCHANGED faults \/ Fault)
      /\ \/ /\ inode.format = "local"
            /\ \E t : rd' = Delivered(rd, t)
         \/ /\ inode.format # "local" /\ UNCHANGED file
            /\ \E recs, lost : rd' = Begun(recs, lost) /\ (lost = rd.lost \/ lost = TRUE)
  BY DataCases, Zenon
<1>1. /\ rd'.caller = rd.caller /\ (rd'.lost = rd.lost \/ rd'.lost)
      /\ inode.format # "local" => UNCHANGED file /\ rd'.buf = rd.buf /\ rd'.len = rd.len
  BY <1>0 DEF Begun, Delivered, XInv, Control, Keys
<1>2. \/ rd.caller = "open" /\ result = "none"
      \/ rd.caller = "read" /\ result = "OK"
  BY <1>0 DEF XInv, Control
<1>3. CASE rd.caller = "open"
  BY <1>0, <1>1, <1>2, <1>3, LooksUp
<1>4. CASE rd.caller = "read"
  <2>1. inode.format # "local"
    BY <1>2, <1>4 DEF ReadInv, Buffers, Formed
  <2>2. Reader!Arrive /\ State = "reading"
    BY <1>0, <1>1, <1>4, <2>1, NothingArrives DEF Serving
  <2>3. State' = "reading"
    BY <1>1, <1>4 DEF State
  <2> QED BY <2>2, <2>3 DEF Reader!Next, Reader!Deliver, State
<1> QED BY <1>2, <1>3, <1>4

LEMMA ReaderReturns == ASSUME XInv, ReadInv, ReadInv', ReadReturn PROVE Reader!Next
<1>1. /\ pc = "done" /\ rd.caller = "read" /\ rd' = [rd EXCEPT !.caller = "none"]
      /\ UNCHANGED <<disk, named, inode, file, result, spoiled, faults>>
  BY DEF ReadReturn
<1>2. rd'.buf = rd.buf /\ rd'.len = rd.len /\ rd'.caller = "none" /\ rd'.lost = rd.lost /\ result = "OK"
  BY <1>1 DEF XInv, Control, Keys
<1>3. Reader!Arrive /\ State = "reading" /\ State' = "idle"
  BY <1>1, <1>2, NothingArrives DEF Serving, State
<1>4. Sick' \/ Sparse \/ Len(Got') = Want \/ file'.pos >= Len(Named)
  <2> SUFFICES ASSUME ~Sick', ~Sparse PROVE Len(Got') = Want \/ file'.pos >= Len(Named)
    OBVIOUS
  <2>1. ~Sick
    BY <1>1, <1>2, StaysSick DEF XInv
  <2>2. Plain /\ Named = Disk.objs[named.at].bytes
    BY <1>1, <1>2, <2>1, NotSick
  <2>3. rd.len = 0 \/ file.pos >= Len(Named)
    BY <1>1, <2>1, <2>2 DEF ReadInv, AllRead, Sick
  <2>4. Got' = rd.buf /\ Want = rd.len + Len(rd.buf) /\ Len(rd.buf) \in Nat
    <3> DEFINE T == Tokens(Disk)
    <3>1. rd.buf \in Seq(T)
      BY <1>1 DEF ReadInv, Buffers
    <3> HIDE DEF T
    <3> QED BY <1>1, <1>2, <3>1 DEF Got, Want
  <2> QED BY <1>1, <2>3, <2>4
<1> QED BY <1>3, <1>4 DEF Reader!Next, Reader!Return, State, Got, Want, Named

LEMMA ReaderCalled == ASSUME XInv, ReadInv, NEW n \in Sizes, xfs_read(n) PROVE Reader!Next
<1>1. /\ pc = "idle" /\ UNCHANGED <<disk, named, inode, file, result, spoiled, faults>>
      /\ rd' = [NoRead EXCEPT !.len = n, !.caller = "read", !.lost = rd.lost]
  BY DEF xfs_read
<1>2. rd'.buf = <<>> /\ rd'.len = n /\ rd'.caller = "read" /\ rd'.lost = rd.lost /\ Len(<<>>) = 0
  BY <1>1 DEF NoRead
<1>3. State = "idle" /\ State' = "reading"
  BY <1>1, <1>2 DEF ReadInv, Buffers, Serving, State
<1>4. Got' = <<>> /\ Want' \in Nat
  <2>1. n \in Nat
    BY XfsAssumption
  <2> QED BY <1>2, <2>1 DEF Got, Want
<1>5. Named' = Named /\ Sick' = Sick /\ Sparse' = Sparse
  BY <1>1, <1>2 DEF Named, Sick, Sparse, Disk, AllImages
<1> QED BY <1>1, <1>3, <1>4, <1>5 DEF Reader!Next, Reader!Call, State, Got, Want, Named

LEMMA ReaderNext == XInv /\ XInv' /\ ReadInv /\ ReadInv' /\ [Next]_vars => [Reader!Next]_(Reader!vars)
<1> SUFFICES ASSUME XInv, XInv', ReadInv, ReadInv', [Next]_vars PROVE [Reader!Next]_(Reader!vars)
  OBVIOUS
<1>1. CASE UNCHANGED vars
  <2>1. UNCHANGED <<disk, named, inode, file, rd, result, spoiled, faults>>
    BY <1>1 DEF vars
  <2>2. Named' = Named /\ Sick' = Sick /\ Sparse' = Sparse /\ State' = State /\ Got' = Got /\ Want' = Want
    BY <2>1 DEF Named, Sick, Sparse, Disk, AllImages, State, Got, Want
  <2> QED BY <2>1, <2>2 DEF Reader!vars, Named, State, Got, Want
<1>2. CASE xfs_open \/ xfs_mount \/ di_read \/ DirEnter \/ first_dentry \/ FirstLeaf \/ next_dentry
  <2>1. /\ pc \in {"closed", "mount", "inode", "branch", "first", "leaf", "dentry"}
        /\ UNCHANGED <<disk, named, rd>> /\ (spoiled => spoiled') /\ (UNCHANGED faults \/ Fault)
        /\ result' = result \/ result' \in {"BADDEV", "BAD_FSYS", "NOTDIR", "NOTFOUND"}
    <3>1. CASE xfs_open \/ xfs_mount \/ di_read
      BY <3>1 DEF xfs_open, xfs_mount, di_read, GiveUp, Going, Tried
    <3>2. CASE DirEnter
      BY <3>2 DEF DirEnter, GiveUp, Going
    <3>3. CASE first_dentry \/ FirstLeaf
      <4>1. CASE first_dentry
        BY <4>1 DEF first_dentry
      <4>2. CASE FirstLeaf
        <5>1. pc = "leaf" /\ UNCHANGED <<disk, named, rd, result>> /\ \E b : spoiled' = (spoiled \/ b)
          BY <4>2, Zenon DEF FirstLeaf
        <5>2. UNCHANGED faults \/ Fault
          BY <4>2, Zenon DEF FirstLeaf, Tried
        <5>3. spoiled => spoiled'
          BY <5>1, Zenon
        <5> QED BY <5>1, <5>2, <5>3
      <4> QED BY <3>3, <4>1, <4>2
    <3>4. CASE next_dentry
      BY <3>4, DentryMoves
    <3> QED BY <1>2, <3>1, <3>2, <3>3, <3>4
  <2>2. result = "none" /\ rd.caller = "none"
    BY <2>1 DEF XInv, Control, ReadInv, Buffers, Serving
  <2> QED BY <2>1, <2>2, LooksUp
<1>3. CASE DirLink
  <2>1. /\ pc = "branch" /\ UNCHANGED <<disk, named, spoiled, faults>>
        /\ \/ result' \in {"SYMLINK_LOOP", "LENGTH"} /\ UNCHANGED rd
           \/ /\ UNCHANGED result
              /\ rd' = [NoRead EXCEPT !.len = inode.size, !.caller = "open", !.lost = rd.lost]
    BY <1>3 DEF DirLink, GiveUp, Going
  <2>2. result = "none" /\ rd.caller = "none"
    BY <2>1 DEF XInv, Control, ReadInv, Buffers, Serving
  <2>3. rd'.lost = rd.lost /\ rd'.caller # "read" /\ result' # "OK"
    <3>1. CASE UNCHANGED rd /\ result' \in {"SYMLINK_LOOP", "LENGTH"}
      BY <2>2, <3>1
    <3>2. CASE UNCHANGED result /\ rd' = [NoRead EXCEPT !.len = inode.size, !.caller = "open", !.lost = rd.lost]
      <4>1. rd'.caller = "open" /\ rd'.lost = rd.lost
        BY <3>2 DEF NoRead
      <4> QED BY <2>2, <3>2, <4>1
    <3> QED BY <2>1, <3>1, <3>2
  <2> QED BY <2>1, <2>2, <2>3, LooksUp
<1>4. CASE LinkRead
  <2>1. /\ pc = "done" /\ rd.caller = "open" /\ UNCHANGED <<disk, named, result, faults>>
        /\ rd' = [NoRead EXCEPT !.lost = rd.lost] /\ (spoiled => spoiled')
    BY <1>4 DEF LinkRead
  <2>2. result = "none" /\ rd'.caller = "none" /\ rd'.lost = rd.lost
    BY <2>1 DEF XInv, Control, NoRead
  <2> QED BY <2>1, <2>2, LooksUp
<1>5. CASE DirEnd
  BY <1>5, ReaderOpens
<1>6. CASE xfs_read_data
  BY <1>6, ReaderStarts
<1>7. CASE ReadExtents
  BY <1>7, ReaderLoops
<1>8. CASE ReadReturn
  BY <1>8, ReaderReturns
<1>9. CASE xfs_close \/ \E p \in Positions : xfs_seek(p)
  <2>1. pc = "idle" /\ UNCHANGED <<disk, named, inode, rd, result, spoiled, faults>>
    BY <1>9 DEF xfs_close, xfs_seek
  <2>2. Sick' = Sick /\ Sparse' = Sparse /\ Got' = Got /\ Want' = Want
    BY <2>1 DEF Sick, Sparse, Disk, AllImages, Got, Want
  <2>3. State = "idle" /\ State' = "idle"
    BY <2>1 DEF ReadInv, Buffers, Serving, State
  <2> QED BY <2>1, <2>2, <2>3, Idles
<1>10. ASSUME NEW n \in Sizes, xfs_read(n) PROVE [Reader!Next]_(Reader!vars)
  BY <1>10, ReaderCalled
<1> QED
  BY <1>1, <1>2, <1>3, <1>4, <1>5, <1>6, <1>7, <1>8, <1>9, <1>10 DEF Next, Steps, Finished

(* Reading the opened file, whichever extents hold it, with seeks between  *)
(* the reads and disk reads that may fail, does what FileReader promises:  *)
(* bytes arrive in order, each the file's byte at its place, and a read on *)
(* a sound disk returns all that was asked for or all the file still has.  *)
(* Never do more bytes arrive than were asked for, unless the file has     *)
(* holes, a node or a record of its extent tree could not be read, or the  *)
(* first leaf of the tree was left (ImplementsReader).                     *)
THEOREM ImplementsFileReader == Spec => ImplementsReader
<1>1. XInv /\ XInv' /\ ReadInv /\ [Next]_vars => ReadInv'
  BY NextReads
<1>2. Spec => []XInv
  BY InitInv, NextKeeps, PTL DEF Spec
<1>3. Spec => []ReadInv
  BY InitReads, <1>1, <1>2, PTL DEF Spec
<1> QED
  BY <1>2, <1>3, ReaderInit, ReaderNext, PTL DEF Spec, ImplementsReader, Reader!Spec
=============================================================================
