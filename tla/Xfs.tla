-------------------------------- MODULE Xfs ---------------------------------
(***************************************************************************)
(* The XFS driver (fs_xfs.c): finding inodes, looking a path up in the     *)
(* directory formats, reading a file through its extents.                  *)
(*                                                                         *)
(* Path and file contents are sequences of tokens (module Paths), a token  *)
(* taking the place of one byte.  Inode numbers, block numbers and extent  *)
(* records are packed as on the disk, the records into words of Word bits. *)
(* No read of the disk is checked but that of the super block: one that    *)
(* fails leaves the buffer as it was.                                      *)
(***************************************************************************)
EXTENDS Paths, FiniteSets

CONSTANTS
    Images,             \* what is on the disk
    Requests,           \* the paths that are opened
    bsize, blklog, SECTOR_BITS, agblocks, agblklog, inopblog,
    Word, LenBits, StartBits, \* 32, and the bits of l3 and l1 xt_len and xt_start take
    LeafBase,           \* (1ULL << 35) >> blklog
    Blanks,             \* the entries a block of zeros is taken for
    MAX_LINK_COUNT,
    Positions, Sizes,   \* bounds: where reads start and how much they ask for
    MaxReads, MaxFaults \* bounds: reads of the file, disk reads that fail

ASSUME XfsAssumption ==
    /\ blklog \in Nat /\ bsize = 2 ^ blklog /\ bsize \in Nat \ {0} /\ SECTOR_BITS \in 0 .. blklog
    /\ agblklog \in Nat /\ agblocks \in 1 .. 2 ^ agblklog /\ inopblog \in Nat
    /\ Word \in Nat /\ LenBits \in 0 .. Word /\ StartBits \in 0 .. Word
    /\ MAX_LINK_COUNT \in Nat /\ Blanks \in Nat /\ MaxReads \in Nat /\ MaxFaults \in Nat
    /\ Positions \subseteq Nat /\ Sizes \subseteq Nat
    /\ \A p \in Requests : p \in Seq(STRING \ {""})

VARIABLES
    disk,     \* the image on the disk
    path,     \* the path asked for
    named,    \* history: what it names, by the objects alone
    pc,
    dev,      \* file->of_device: "closed" or "open"
    inode,    \* the inode in FSYS_BUF
    look,     \* xfs_dir: ino, parent_ino, where dirname points, link_count
    dir,      \* the directory cursor: dirpos, dirmax, forw, dablk; the entry blkoff is
              \* at and the empty ones passed before it; whether dirbuf holds a node of
              \* the index; history: the extents led out of the directory
    file,     \* file->pos and len
    rd,       \* xfs_read_data
    result,   \* what xfs_open returned
    spoiled,  \* history: a link has overwritten or cut the rest of the path, ".." was
              \* looked for in a directory kept in its inode, or a directory was read
              \* where its extents do not lead
    reads, faults

vars == <<disk, path, named, pc, dev, inode, look, dir, file, rd, result, spoiled, reads, faults>>

(* A definition, which TLC evaluates once.                                 *)
AllImages == Images

Disk == AllImages[disk]

ZeroInode == [mode |-> "none", format |-> "dev", size |-> 0]

NoRead == [buf |-> <<>>, len |-> 0, endpos |-> 0, prev |-> -1, xt |-> <<>>, lost |-> FALSE,
           caller |-> "none"]

(* A link that fills linkbuf is given up.                                  *)
TooLong(text, rest) == Len(text) >= bsize - 1

Init ==
    /\ disk \in DOMAIN Images /\ path \in Requests
    /\ named = Resolve(Disk.objs, Disk.root, MAX_LINK_COUNT, TooLong,
                       Len(path) + (MAX_LINK_COUNT + 1) * bsize, path)
    /\ pc = "closed" /\ dev = "closed" /\ inode = ZeroInode
    /\ look = [ino |-> 0, parent |-> 0, rest |-> <<>>, off |-> -1, links |-> 0]
    /\ dir = [pos |-> 0, max |-> 0, forw |-> 0, dablk |-> 0, at |-> 0, gap |-> 0,
              node |-> FALSE, lost |-> FALSE]
    /\ file = [pos |-> 0, len |-> 0]
    /\ rd = NoRead /\ result = "none" /\ spoiled = FALSE /\ reads = 0 /\ faults = 0

-----------------------------------------------------------------------------
(***************************************************************************)
(* Where things are.                                                       *)
(***************************************************************************)
(* Bits of a number: n >> k and n & mask(k).                               *)
Shr(n, k) == n \div 2 ^ k

Lo(n, k) == n % 2 ^ k

agb2daddr(agno, agbno) == (agno * agblocks + agbno) * 2 ^ (blklog - SECTOR_BITS)

fsb2daddr(fsbno) == agb2daddr(Shr(fsbno, agblklog), Lo(fsbno, agblklog))

(* The place of an inode: the disk address of its block and its number in  *)
(* that block.                                                             *)
InodePlace(ino) ==
    LET agino == Lo(ino, agblklog + inopblog)
    IN  <<agb2daddr(Shr(ino, agblklog + inopblog), Shr(agino, inopblog)), Lo(ino, inopblog)>>

xt_start(r) ==
    Lo(r.l1, StartBits) * 2 ^ (2 * Word - LenBits) + r.l2 * 2 ^ (Word - LenBits) + Shr(r.l3, LenBits)

xt_offset(r) == Lo(r.l0, Word - 1) * 2 ^ (Word - StartBits) + Shr(r.l1, StartBits)

xt_len(r) == Lo(r.l3, LenBits)

next_extent(r) == [offset |-> xt_offset(r), start |-> xt_start(r), len |-> xt_len(r)]

isinxt(key, offset, len) == key >= offset /\ key < offset + len

(* n bytes from a disk address on; what no file owns is unknown.           *)
ByteAt(d, at) ==
    IF at \div bsize \in DOMAIN d.data THEN d.data[at \div bsize][(at % bsize) + 1] ELSE "?"

read_disk_block(daddr, start, n) ==
    [i \in 1 .. n |-> ByteAt(Disk, daddr * 2 ^ SECTOR_BITS + start + i - 1)]

(* The leftmost leaf of an extent tree, from which init_extents starts.    *)
LeftLeaf(d, fsbno) ==
    LET leaf[b \in DOMAIN d.btree] ==
            IF d.btree[b].level = 0 THEN b ELSE leaf[fsb2daddr(d.btree[b].ptr0)]
    IN  leaf[fsb2daddr(fsbno)]

(* The extent records next_extent will go through.                         *)
init_extents(d, i) ==
    IF i.format = "btree" THEN d.btree[LeftLeaf(d, i.ptr0)].recs
    ELSE IF i.format = "extents" THEN i.recs ELSE <<>>

(* Record k of a list: where in the file it begins and ends, and that no   *)
(* hole lies before it.                                                    *)
Begin(recs, k) == xt_offset(recs[k])

End(recs, k) == xt_offset(recs[k]) + xt_len(recs[k])

Gapless(recs, k) == \A j \in 2 .. k : Begin(recs, j) <= End(recs, j - 1)

(* The lists of records a block may be taken for whose header or number is *)
(* not what it should be: some first ones of some block of an extent tree. *)
Strays(d) ==
    UNION {{SubSeq(d.btree[b].recs, 1, n) : n \in 0 .. Len(d.btree[b].recs)} : b \in DOMAIN d.btree}

(* What filebuf may hold when a record is not read: one read before.       *)
StaleRecords(d) == UNION {Range(d.btree[b].recs) : b \in DOMAIN d.btree}

(* The kinds of directories: in the inode, in one block, whose magic       *)
(* number says so, or with an index.                                       *)
Layout(i) ==
    IF i.format = "local" THEN "local" ELSE IF i.magic = "block" THEN "block" ELSE "leaf"

(* The entries of a directory; free areas are passed over.                 *)
Used(i) == SelectSeq(i.slots, LAMBDA e : e.name # "(free)")

(* What xfs_read_data delivers of block b of a directory: the block; zeros *)
(* where a block was freed; behind such a hole, but for the extent next to *)
(* it, zeros again, more of them than asked for.                           *)
Reached(recs, b) ==
    \E k \in DOMAIN recs : Gapless(recs, k) /\ isinxt(b, xt_offset(recs[k]), xt_len(recs[k]))

Freed(recs, b) ==
    \E k \in DOMAIN recs : /\ k > 1 /\ Gapless(recs, k - 1)
                           /\ b \in End(recs, k - 1) .. Begin(recs, k) - 1

(***************************************************************************)
(* A file system in order: what the inode of an object says of it.         *)
(***************************************************************************)
(* The extents follow each other from the start of the file and hold its   *)
(* bytes; the first leaf of an extent tree may hold only the first bytes.  *)
Holds(d, i, bytes) ==
    LET recs == init_extents(d, i)
        ext(k) == next_extent(recs[k])
        home(k) == fsb2daddr(ext(k).start) * 2 ^ SECTOR_BITS
        end == IF recs = <<>> THEN 0 ELSE ext(Len(recs)).offset + ext(Len(recs)).len
    IN  /\ recs \in Seq(Range(recs)) /\ (i.format = "extents" => Len(bytes) <= end * bsize)
        /\ \A k \in DOMAIN recs :
              /\ ext(k).offset = IF k = 1 THEN 0 ELSE ext(k - 1).offset + ext(k - 1).len
              /\ ext(k).offset \in Nat /\ ext(k).len \in Nat \ {0} /\ home(k) \in Nat
              /\ \A x \in ext(k).offset * bsize .. (ext(k).offset + ext(k).len) * bsize - 1 :
                    x < Len(bytes) =>
                        bytes[x + 1] = ByteAt(d, home(k) + (x - ext(k).offset * bsize))

(* The entries in use are those of the directory; "." and ".." of one kept *)
(* in its inode are not there.                                             *)
Lists(i, o, entries) ==
    /\ Used(i) \in Seq([name : STRING, ino : Nat \ {0}, blk : Nat])
    /\ \A k \in DOMAIN Used(i) :
          Used(i)[k].name \in DOMAIN entries /\ entries[Used(i)[k].name] = Used(i)[k].ino
    /\ \A n \in DOMAIN entries : \/ \E k \in DOMAIN Used(i) : Used(i)[k].name = n
                                 \/ Layout(i) = "local" /\ n \in {".", ".."}
    /\ "." \in DOMAIN entries /\ entries["."] = o

(* The index of a directory: `top' are the blocks on the way down to the   *)
(* first leaf, and the entries of leaf b come behind the first[b] entries  *)
(* of the leaves before it.                                                *)
Indexes(i, top, first) ==
    LET n(b) == i.leaves[b].count - i.leaves[b].stale
    IN  /\ LeafBase \in top
        /\ \A b \in top : /\ b \in DOMAIN i.leaves
                          /\ IF i.leaves[b].magic = "leaf" THEN b \in DOMAIN first /\ first[b] = 0
                             ELSE i.leaves[b].before \in top
        /\ \A b \in DOMAIN first :
              /\ b \in DOMAIN i.leaves /\ n(b) \in Nat
              /\ IF i.leaves[b].forw = 0 THEN first[b] + n(b) = Len(Used(i))
                 ELSE /\ i.leaves[b].forw \in DOMAIN first /\ n(i.leaves[b].forw) > 0
                      /\ first[i.leaves[b].forw] = first[b] + n(b)

(* An extent of the directory holds block b of its index.                  *)
Mapped(recs, i, b) ==
    b \in DOMAIN i.leaves /\ \E r \in Range(recs) : isinxt(b, xt_offset(r), xt_len(r))

HasIndex(i) ==
    LET leaves == {b \in DOMAIN i.leaves : i.leaves[b].magic = "leaf"}
    IN  \E top \in SUBSET DOMAIN i.leaves, first \in [leaves -> 0 .. Len(Used(i))] :
            Indexes(i, top, first)

Describes(d, i, o) ==
    LET obj == d.objs[o]
    IN  /\ i.mode = obj.mode
        /\ \/ /\ obj.mode = "reg" /\ i.size = Len(obj.bytes) /\ obj.bytes \in Seq(STRING)
              /\ i.format \in {"extents", "btree"} /\ (obj.sparse \/ Holds(d, i, obj.bytes))
           \/ /\ obj.mode = "lnk" /\ i.size = Len(obj.target)
              /\ obj.target \in Seq(STRING \ {""}) /\ obj.target # <<>>
              /\ \/ i.format = "local" /\ i.bytes = obj.target
                 \/ i.format = "extents" /\ Holds(d, i, obj.target)
           \/ /\ obj.mode = "dir" /\ Lists(i, o, obj.entries)
              /\ \A n \in DOMAIN obj.entries : obj.entries[n] \in DOMAIN d.objs
              /\ i.format \in {"local", "extents", "btree"}
              /\ \/ Layout(i) = "local" /\ i.count = Len(Used(i))
                 \/ Layout(i) = "block" /\ i.count - i.stale = Len(Used(i))
                 \/ /\ Layout(i) = "leaf" /\ HasIndex(i)
                    /\ i.format = "btree" \/ \A b \in DOMAIN i.leaves : Mapped(init_extents(d, i), i, b)

InOrder(d) ==
    /\ d.root \in DOMAIN d.objs
    /\ \A o \in DOMAIN d.objs :
          /\ InodePlace(o) \in DOMAIN d.inodes
          /\ Describes(d, d.inodes[InodePlace(o)], o)

Recorded(recs) ==
    /\ recs \in Seq(Range(recs))
    /\ \A r \in Range(recs) : /\ xt_offset(r) \in Nat /\ xt_len(r) \in Nat
                             /\ fsb2daddr(xt_start(r)) * 2 ^ SECTOR_BITS \in Nat

(* Any inode, also one a failing read leads to: a file or a link has a     *)
(* size and its text in the inode, which a file never has, or extents.     *)
Formed(d, i) ==
    i.mode \in {"reg", "lnk"} =>
        /\ i.size \in Nat /\ (i.mode = "reg" => i.format # "local")
        /\ i.format # "local" => Recorded(init_extents(d, i))

ASSUME ImageAssumption ==
    \A k \in DOMAIN Images :
        /\ \A p \in DOMAIN Images[k].inodes : Formed(Images[k], Images[k].inodes[p])
        /\ \A b \in DOMAIN Images[k].btree : Recorded(Images[k].btree[b].recs)
        /\ Images[k].super = "XFSB4" => InOrder(Images[k])

-----------------------------------------------------------------------------
Fault == faults < MaxFaults /\ faults' = faults + 1

(* Either the read works, with the outcome good, or it fails, with bad.    *)
Tried(good, bad) == (good /\ UNCHANGED faults) \/ (bad /\ Fault)

GiveUp(err) == pc' = "failed" /\ dev' = "closed" /\ result' = err

Going == UNCHANGED <<dev, result>>

-----------------------------------------------------------------------------
xfs_open ==
    /\ pc = "closed"
    /\ \/ pc' = "mount" /\ dev' = "open" /\ UNCHANGED result
       \/ GiveUp("BADDEV")
    /\ UNCHANGED <<disk, path, named, inode, look, dir, file, rd, spoiled, reads, faults>>

xfs_mount ==
    /\ pc = "mount"
    /\ Tried(IF Disk.super = "XFSB4" THEN pc' = "inode" /\ Going ELSE GiveUp("BAD_FSYS"),
             GiveUp("BAD_FSYS"))
    /\ look' = [ino |-> Disk.root, parent |-> Disk.root, rest |-> path, off |-> -1, links |-> 0]
    /\ UNCHANGED <<disk, path, named, inode, dir, file, rd, spoiled, reads>>

(***************************************************************************)
(* xfs_dir: a turn of its loop reads the inode, then follows a link, ends, *)
(* or searches the directory.                                              *)
(***************************************************************************)
di_read ==
    /\ pc = "inode" /\ pc' = "branch"
    /\ Tried(inode' = IF InodePlace(look.ino) \in DOMAIN Disk.inodes
                      THEN Disk.inodes[InodePlace(look.ino)] ELSE ZeroInode,
             UNCHANGED inode)
    /\ UNCHANGED <<disk, path, named, dev, look, dir, file, rd, result, spoiled, reads>>

(* Mutant: the links are not counted.                                      *)
CountLinkNot(lk) == lk

CountLink(lk) == [lk EXCEPT !.links = @ + 1]

DirLink ==
    /\ pc = "branch" /\ inode.mode = "lnk"
    /\ look' = CountLink(look)
    /\ IF look'.links > MAX_LINK_COUNT THEN GiveUp("SYMLINK_LOOP") /\ UNCHANGED <<file, rd>>
       ELSE IF inode.size >= bsize - 1 THEN GiveUp("LENGTH") /\ UNCHANGED <<file, rd>>
       ELSE /\ pc' = "read" /\ Going
            /\ file' = [pos |-> 0, len |-> inode.size]
            /\ rd' = [NoRead EXCEPT !.len = inode.size, !.caller = "open", !.lost = rd.lost]
    /\ UNCHANGED <<disk, path, named, inode, dir, spoiled, reads, faults>>

(* What linkbuf holds once the link's text is in front of the rest of the  *)
(* path.  The rest of an earlier link's path is in linkbuf too, from off   *)
(* on: a text longer than off has overwritten it, and copying goes on with *)
(* what was just written until linkbuf is full.                            *)
Joined(text, rest, off) ==
    LET n == Len(text)
        all == text \o rest
    IN  IF off = -1 \/ n <= off
        THEN SubSeq(all, 1, IF Len(all) < bsize - 1 THEN Len(all) ELSE bsize - 1)
        ELSE [i \in 1 .. bsize - 1 |->
                 IF i <= n THEN text[i] ELSE text[off + 1 + ((i - off - 1) % (n - off))]]

LinkRead ==
    /\ pc = "done" /\ rd.caller = "open"
    /\ LET all == Joined(rd.buf, look.rest, look.off)
       IN  /\ look' = [look EXCEPT !.ino = IF all # <<>> /\ all[1] = "/" THEN Disk.root ELSE look.parent,
                                   !.rest = all, !.off = 0]
           /\ spoiled' = (spoiled \/ all # rd.buf \o look.rest)
    /\ pc' = "inode" /\ rd' = [NoRead EXCEPT !.lost = rd.lost]
    /\ UNCHANGED <<disk, path, named, dev, inode, dir, file, result, reads, faults>>

DirEnd ==
    /\ pc = "branch" /\ inode.mode # "lnk" /\ look.rest = <<>>
    /\ IF inode.mode # "reg" THEN GiveUp("BAD_TYPE") /\ UNCHANGED file
       ELSE /\ pc' = "idle" /\ result' = "OK" /\ UNCHANGED dev
            /\ file' = [pos |-> 0, len |-> inode.size]
    /\ UNCHANGED <<disk, path, named, inode, look, dir, rd, spoiled, reads, faults>>

(* n tokens of dirname have been passed.                                   *)
Pass(lk, n) == [lk EXCEPT !.rest = SubSeq(@, n + 1, Len(@)), !.off = IF @ = -1 THEN -1 ELSE @ + n]

(* White space would end the path too, and a name; no token stands for it. *)
DirEnter ==
    /\ pc = "branch" /\ inode.mode # "lnk" /\ look.rest # <<>>
    /\ IF inode.mode # "dir" THEN GiveUp("NOTDIR") /\ UNCHANGED look
       ELSE pc' = "first" /\ look' = Pass(look, Slashes(look.rest)) /\ Going
    /\ UNCHANGED <<disk, path, named, inode, dir, file, rd, spoiled, reads, faults>>

(* first_dentry: how many entries there are to look at.  A directory in    *)
(* the inode has them there, one of a single block in the block's tail;    *)
(* a larger one in the leaf blocks of its index.  If the block cannot be   *)
(* read, what dirbuf held is taken for its magic number and its tail.      *)
first_dentry ==
    /\ pc = "first"
    /\ LET start(n, p) == /\ pc' = "dentry"
                          /\ dir' = [dir EXCEPT !.pos = p, !.max = n, !.forw = 0, !.at = 1, !.gap = 0]
           index == /\ pc' = "leaf"
                    /\ dir' = [dir EXCEPT !.pos = 0, !.max = 0, !.forw = 0, !.at = 1, !.gap = 0,
                                          !.dablk = LeafBase, !.node = FALSE]
       IN \/ Layout(inode) = "local" /\ start(inode.count, -2) /\ UNCHANGED faults
          \/ Layout(inode) = "block" /\ start(inode.count - inode.stale, 0) /\ UNCHANGED faults
          \/ Layout(inode) = "leaf" /\ index /\ UNCHANGED faults
          \/ Layout(inode) # "local" /\ (index \/ \E n \in 0 .. 1 : start(n, 0)) /\ Fault
    /\ UNCHANGED <<disk, path, named, dev, inode, look, file, rd, result, spoiled, reads>>

(* xfs_dabread: the header of the index block b, as far as an extent of    *)
(* the directory holds it; behind the first leaf of an extent tree the     *)
(* search for it leads out of the file system.                             *)
xfs_dabread(recs, b) ==
    IF Layout(inode) = "leaf" /\ Mapped(recs, inode, b) THEN "read"
    ELSE IF inode.format = "btree" THEN "lost" ELSE "unread"

(* Mutant: the leaves behind the first one are forgotten.                  *)
TakeLeafLast(d, h) == [d EXCEPT !.max = h.count - h.stale, !.forw = 0]

TakeLeaf(d, h) == [d EXCEPT !.max = h.count - h.stale, !.forw = h.forw]

(* Down the index to its first leaf.  A block that cannot be read, or that *)
(* no extent holds, leaves dirbuf as it was: a node leads to the same      *)
(* block again, anything else to block 0, which is no leaf.  If the        *)
(* records of an extent tree are not those of the directory, anything may  *)
(* be taken for a leaf.                                                    *)
FirstLeaf ==
    /\ pc = "leaf"
    /\ \E found \in {xfs_dabread(init_extents(Disk, inode), dir.dablk)} :
         LET h == inode.leaves[dir.dablk]
             same == UNCHANGED pc /\ dir' = IF dir.node THEN dir ELSE [dir EXCEPT !.dablk = 0]
             other == /\ inode.format = "btree" /\ pc' = "dentry"
                      /\ \E n \in 0 .. 1 : dir' = [dir EXCEPT !.max = n, !.lost = TRUE]
         IN  /\ Tried(\/ /\ found = "read" /\ h.magic = "leaf"
                         /\ pc' = "dentry" /\ dir' = TakeLeaf(dir, h)
                      \/ /\ found = "read" /\ h.magic # "leaf"
                         /\ UNCHANGED pc /\ dir' = [dir EXCEPT !.dablk = h.before, !.node = TRUE]
                      \/ found = "unread" /\ same
                      \/ found = "lost" /\ other
                      \/ found = "lost" /\ UNCHANGED pc /\ dir' = [dir EXCEPT !.lost = TRUE],
                      same \/ other)
             /\ spoiled' = (spoiled \/ found = "lost")
    /\ UNCHANGED <<disk, path, named, dev, inode, look, file, rd, result, reads>>

(* The directory entry the cursor is at.  A directory in the inode has no  *)
(* "." and no ".." and they are made up: 0 stands for the directory        *)
(* itself, and for ".." the name is empty, one character past the start of *)
(* ".".                                                                    *)
Dentry(d) ==
    IF Layout(inode) = "local" /\ d.pos = -2 THEN [name |-> ".", ino |-> 0]
    ELSE IF Layout(inode) = "local" /\ d.pos = -1 THEN [name |-> "", ino |-> inode.parent]
    ELSE IF d.at \in DOMAIN Used(inode) THEN Used(inode)[d.at] ELSE [name |-> "?", ino |-> 0]

(* What xfs_read_data finds where the cursor is: the entry; an empty one,  *)
(* made of the zeros of a block that was freed; or other bytes, where the  *)
(* extents do not lead to the directory.                                   *)
Sight(recs, d) ==
    LET at(k) == Used(inode)[k].blk
        from == IF d.at = 1 THEN 0 ELSE at(d.at - 1) + 1
        gone == {b \in from .. at(d.at) - 1 : ~Reached(recs, b)}
    IN  IF Layout(inode) = "local" THEN "entry"
        ELSE IF d.at \notin DOMAIN Used(inode) THEN "lost"
        ELSE IF d.gap >= Blanks * Cardinality(gone)
             THEN IF Reached(recs, at(d.at)) THEN "entry" ELSE "lost"
             ELSE IF \A b \in gone : Freed(recs, b) THEN "empty" ELSE "lost"

(* On to the next leaf of the index if this one's entries have all been    *)
(* seen; the cursor is nowhere if it cannot be found.                      *)
Turn(recs, d) ==
    IF d.pos < d.max THEN d
    ELSE LET n == [d EXCEPT !.dablk = d.forw, !.pos = 0]
         IN  IF xfs_dabread(recs, d.forw) = "read" THEN TakeLeaf(n, inode.leaves[d.forw])
             ELSE [n EXCEPT !.at = 0]

Exhausted == dir.pos >= dir.max /\ dir.forw = 0

(* xfs_dir goes on from the entry it was looking for.                      *)
Found(i) ==
    /\ pc' = "inode"
    /\ look' = [Pass(look, 1) EXCEPT !.parent = look.ino, !.ino = IF i = 0 THEN @ ELSE i]

(* ".." is looked for where it has no name.                                *)
PastStart == Layout(inode) = "local" /\ look.rest # <<>> /\ look.rest[1] = ".."

(* One entry on, after an entry or after an empty one.                     *)
Advance(d) == [d EXCEPT !.pos = @ + 1, !.at = IF d.pos < 0 THEN @ ELSE @ + 1, !.gap = 0]

Blank(d) == [d EXCEPT !.pos = @ + 1, !.gap = @ + 1]

(* The comparison in xfs_dir.                                              *)
Compare(e) ==
    IF look.rest # <<>> /\ look.rest[1] = e.name THEN Found(e.ino) ELSE UNCHANGED <<pc, look>>

(* A read fails or leads out of the directory, and the leaf or the entry   *)
(* is made of other bytes: the leaf may be the last one, the entry another *)
(* one or one of another inode, and the next entry read anywhere.          *)
Drift(d) ==
    /\ \E c \in {d, [d EXCEPT !.max = 0, !.forw = 0]}, k \in {d.at, 0} :
          dir' = [c EXCEPT !.at = k, !.lost = TRUE]
    /\ \/ UNCHANGED <<pc, look>>
       \/ look.rest # <<>> /\ \E i \in {0, Disk.root} : Found(i)

next_dentry ==
    /\ pc = "dentry"
    /\ \/ Exhausted /\ GiveUp("NOTFOUND") /\ UNCHANGED <<dir, look, spoiled, faults>>
       \/ /\ ~Exhausted /\ Going
          /\ \E recs \in {init_extents(Disk, inode)} : \E d \in {Turn(recs, dir)} :
               \E sight \in {Sight(recs, d)} :
                  /\ \/ /\ sight = "entry" /\ dir' = Advance(d) /\ Compare(Dentry(d))
                        /\ UNCHANGED faults
                     \/ sight = "empty" /\ dir' = Blank(d) /\ UNCHANGED <<pc, look, faults>>
                     \/ sight = "lost" /\ Drift(Advance(d)) /\ UNCHANGED faults
                     \/ Layout(inode) # "local" /\ Drift(Advance(d)) /\ Fault
                  /\ spoiled' = (spoiled \/ sight # "entry" \/ PastStart)
    /\ UNCHANGED <<disk, path, named, inode, file, rd, reads>>

-----------------------------------------------------------------------------
xfs_seek(p) ==
    /\ pc = "idle" /\ p # file.pos /\ reads < MaxReads
    /\ file' = [file EXCEPT !.pos = p]
    /\ UNCHANGED <<disk, path, named, pc, dev, inode, look, dir, rd, result, spoiled, reads, faults>>

xfs_read(n) ==
    /\ pc = "idle" /\ reads < MaxReads
    /\ reads' = reads + 1
    /\ rd' = [NoRead EXCEPT !.len = n, !.caller = "read", !.lost = rd.lost]
    /\ pc' = "read"
    /\ UNCHANGED <<disk, path, named, dev, inode, look, dir, file, result, spoiled, faults>>

Delivered(r, bytes) == [r EXCEPT !.buf = @ \o bytes, !.len = @ - Len(bytes)]

(* xfs_read_data up to its loop: what is kept in the inode is copied, else *)
(* init_extents finds the first extents.  If it cannot read a block of the *)
(* extent tree, what the stack held is its header or its pointer.          *)
xfs_read_data ==
    /\ pc = "read"
    /\ LET end == file.pos + rd.len
           begin(recs, lost) ==
               /\ rd' = [rd EXCEPT !.endpos = IF end > file.len THEN file.len ELSE end,
                                   !.xt = recs, !.lost = lost]
               /\ pc' = "extent" /\ UNCHANGED file
       IN  \/ /\ inode.format = "local"
              /\ rd' = Delivered(rd, SubSeq(inode.bytes, file.pos + 1, file.pos + rd.len))
              /\ file' = [file EXCEPT !.pos = @ + rd.len]
              /\ pc' = "done" /\ UNCHANGED faults
           \/ /\ inode.format # "local"
              /\ Tried(begin(init_extents(Disk, inode), rd.lost),
                       inode.format = "btree" /\ \E recs \in Strays(Disk) : begin(recs, TRUE))
    /\ UNCHANGED <<disk, path, named, dev, inode, look, dir, result, spoiled, reads>>

(* Mutant: the part of the extent before the position is not skipped.      *)
InExtentWhole(offset, start, n) == read_disk_block(fsb2daddr(start), 0, n)

InExtent(offset, start, n) ==
    read_disk_block(fsb2daddr(start), file.pos - offset * bsize, n)

(* The extent holds the position, lies behind a hole that does, or neither.*)
Where(xad) ==
    IF isinxt(file.pos \div bsize, xad.offset, xad.len) THEN "inside"
    ELSE IF rd.prev # -1 /\ xad.offset > rd.prev THEN "hole" ELSE "elsewhere"

toread(xad, where) ==
    LET upto(b, n) == IF b * bsize >= rd.endpos THEN rd.len ELSE n
    IN  IF where = "inside"
        THEN upto(xad.offset + xad.len, (xad.offset + xad.len) * bsize - file.pos)
        ELSE IF where = "hole" THEN upto(xad.offset, (xad.offset - rd.prev) * bsize) ELSE 0

(* One extent.  All that is asked for is read from the extent the file     *)
(* ends in.  A hole is filled only if an extent was passed before it, and  *)
(* the extent behind it is then passed over; what is taken for a hole may  *)
(* be longer than what is asked for.                                       *)
TakeExtent(xad, bytes, lost) ==
    /\ rd' = [Delivered(rd, bytes) EXCEPT !.xt = Tail(@), !.lost = lost,
                  !.prev = IF Where(xad) = "hole" THEN @ ELSE xad.offset + xad.len]
    /\ file' = [file EXCEPT !.pos = @ + Len(bytes)]
    /\ UNCHANGED pc

(* What the disk delivers of an extent, and what the buffer keeps if it    *)
(* cannot be read.                                                         *)
Contents(xad) ==
    LET n == toread(xad, Where(xad))
    IN  IF Where(xad) = "inside" THEN InExtent(xad.offset, xad.start, n) ELSE [i \in 1 .. n |-> "0"]

Kept(xad) == [i \in 1 .. toread(xad, "inside") |-> "?"]

(* If a record of an extent tree cannot be read, one read before is taken  *)
(* again.                                                                  *)
NextExtent ==
    /\ rd.len > 0 /\ rd.xt # <<>>
    /\ \/ \E xad \in {next_extent(Head(rd.xt))} :
             Tried(\E bytes \in {Contents(xad)} : TakeExtent(xad, bytes, rd.lost),
                   /\ Where(xad) = "inside"
                   /\ \E bytes \in {Kept(xad)} : TakeExtent(xad, bytes, rd.lost))
       \/ /\ inode.format = "btree" /\ Fault
          /\ \E xad \in {next_extent(r) : r \in StaleRecords(Disk)} :
                \E bytes \in {Contents(xad)} : TakeExtent(xad, bytes, TRUE)

(* Behind the first leaf of an extent tree bb_leftsib is followed, which   *)
(* leads out of the file system: anything may be taken for the records.    *)
NextLeaf ==
    /\ rd.len > 0 /\ rd.xt = <<>> /\ inode.format = "btree"
    /\ \E recs \in Strays(Disk) \ {<<>>} : rd' = [rd EXCEPT !.xt = recs, !.lost = TRUE]
    /\ UNCHANGED <<pc, file, faults>>

(* The loop ends with nothing left to read or no extent left.              *)
LastExtent ==
    /\ rd.len <= 0 \/ rd.xt = <<>>
    /\ pc' = "done"
    /\ rd' = [rd EXCEPT !.lost = @ \/ (rd.len > 0 /\ inode.format = "btree")]
    /\ UNCHANGED <<file, faults>>

ReadExtents ==
    /\ pc = "extent"
    /\ NextExtent \/ NextLeaf \/ LastExtent
    /\ UNCHANGED <<disk, path, named, dev, inode, look, dir, result, spoiled, reads>>

ReadReturn ==
    /\ pc = "done" /\ rd.caller = "read"
    /\ pc' = "idle" /\ rd' = [rd EXCEPT !.caller = "none"]
    /\ UNCHANGED <<disk, path, named, dev, inode, look, dir, file, result, spoiled, reads, faults>>

xfs_close ==
    /\ pc = "idle" /\ reads = MaxReads
    /\ pc' = "shut" /\ dev' = "closed"
    /\ UNCHANGED <<disk, path, named, inode, look, dir, file, rd, result, spoiled, reads, faults>>

Finished == pc \in {"failed", "shut"} /\ UNCHANGED vars

Steps ==
    \/ xfs_open \/ xfs_mount \/ di_read \/ DirLink \/ LinkRead \/ DirEnd \/ DirEnter
    \/ first_dentry \/ FirstLeaf \/ next_dentry \/ xfs_read_data \/ ReadExtents \/ ReadReturn

Next ==
    \/ Steps
    \/ \E p \in Positions : xfs_seek(p)
    \/ \E n \in Sizes : xfs_read(n)
    \/ xfs_close \/ Finished

(* yaboot is one thread: a call it has made runs on.                       *)
Spec == Init /\ [][Next]_vars /\ WF_vars(Steps)

-----------------------------------------------------------------------------
(* No call is being served.                                                *)
Resting == pc \in {"idle", "failed", "shut"}

(* On a disk that can be read, opening a path ends as the path says, with  *)
(* the file it names or with the reason why it names none: with links,     *)
(* over stale entries, and through directories in the inode, of one block  *)
(* and with an index.  Except when a second link overwrites the rest of    *)
(* the path, for ".." of a directory kept in its inode, and in a directory *)
(* whose search has come to a freed block, or to what is not in the first  *)
(* leaf of the directory's own extent tree.                                *)
LookupRight ==
    Resting /\ result \notin {"none", "BADDEV"} /\ Disk.super = "XFSB4" /\ faults = 0 /\ ~spoiled =>
        /\ result = named.res
        /\ result = "OK" => /\ look.ino = named.at
                            /\ file.len = Len(Disk.objs[named.at].bytes)

(* No hole between two extents.                                            *)
Joins(d, i) ==
    LET recs == init_extents(d, i)
    IN  \A k \in DOMAIN recs : k > 1 =>
            xt_offset(recs[k]) = xt_offset(recs[k - 1]) + xt_len(recs[k - 1])

(* The file the path names has holes, or the one a failing read led to, or *)
(* it seems to have: the records read are not those of the file.           *)
Sparse ==
    \/ named.res = "OK" /\ Disk.objs[named.at].sparse
    \/ result = "OK" /\ ~Joins(Disk, inode)
    \/ rd.lost

Sick == faults > 0 \/ rd.lost \/ spoiled \/ named.res # "OK"

Reader ==
    INSTANCE FileReader WITH
        file <- IF named.res = "OK" THEN Disk.objs[named.at].bytes ELSE <<>>,
        pos <- file.pos,
        state <- IF rd.caller = "read" THEN "reading" ELSE "idle",
        want <- IF rd.caller = "open" THEN 0 ELSE rd.len + Len(rd.buf),
        got <- IF rd.caller = "open" THEN <<>> ELSE rd.buf,
        sick <- Sick, sparse <- Sparse

(* The driver's reads implement the reader every driver promises, on the   *)
(* file the path names: through one extent or several, from the inode or   *)
(* from an extent tree of a single leaf.  Of files with holes nothing is   *)
(* promised, and nothing once a node or a record of an extent tree could   *)
(* not be read or its first leaf was left, not even that no more arrives   *)
(* than the caller has room for.                                           *)
ImplementsReader == Reader!Spec

(* Every open and every read comes to an end, links that lead to each      *)
(* other included, unless a read of the disk fails (then the search for    *)
(* the first leaf of a directory may go on for ever) or leads behind the   *)
(* first leaf of an extent tree, that of a file or of a directory.         *)
CallReturns == ~Resting ~> (Resting \/ faults > 0 \/ rd.lost \/ dir.lost)
=============================================================================
