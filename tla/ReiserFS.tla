------------------------------ MODULE ReiserFS ------------------------------
(***************************************************************************)
(* The ReiserFS driver (fs_reiserfs.c): reading the super block and the    *)
(* journal, looking a path up, reading the file.  The tree is in module    *)
(* ReiserTree; every action makes at most one walk of it, and the disk may *)
(* fail in any of its reads.                                               *)
(*                                                                         *)
(* Path and file contents are sequences of tokens (module Paths), a token  *)
(* taking the place of one byte.  The words of the journal are kept with   *)
(* their byte order: cpu_to_le32 is a swap on the PowerPC.                 *)
(***************************************************************************)
EXTENDS ReiserTree, Paths

CONSTANTS
    Requests,           \* the paths that are opened
    blocksize,
    MAX_LINK_COUNT, PATH_MAX, REISERFS_MAX_SUPPORTED_VERSION,
    Byte,               \* a word of the journal has two bytes of this size
    Positions, Sizes,   \* bounds: where reads start and how much they ask for
    MaxReads, MaxFaults \* bounds: reads of the file, disk reads that fail

ASSUME ReiserAssumption ==
    /\ blocksize \in Nat \ {0} /\ cached_slots \in Nat \ {0, 1}
    /\ MAX_LINK_COUNT \in Nat /\ PATH_MAX \in Nat \ {0} /\ Byte \in Nat \ {0}
    /\ REISERFS_MAX_TREE_HEIGHT \in Nat /\ Requests \subseteq Seq(STRING \ {""})
    /\ Positions \subseteq Nat /\ Sizes \subseteq Nat
    /\ MaxReads \in Nat /\ MaxFaults \in Nat

VARIABLES
    path,      \* the path asked for
    named,     \* history: what it names, by the objects alone
    pc,
    dev,       \* file->of_device: "closed" or "open"
    sb,        \* the super block that is in use
    jr,        \* journal_init: header, desc_block, next_trans_id, transactions
    t,         \* INFO's tree state and errnum
    look,      \* reiserfs_open_file: the object, its parent, the rest of the path
    file,      \* file->pos and len, INFO->fileinfo
    rd,        \* reiserfs_read_data: the buffer, what is left to read, its caller
    result,    \* what reiserfs_open returned
    reads, faults

vars == <<disk, path, named, pc, dev, sb, jr, t, look, file, rd, result, reads, faults>>

objs == disk.objs

ROOT_KEY == [dir |-> 1, obj |-> 2]

NoSuper == [magic |-> "none", version |-> 0, bs |-> 0, journal |-> 0, size |-> 0, root |-> 0]

NoJournal == [head |-> [last |-> 0, first |-> 0, mount |-> 0], desc |-> 0, next |-> 0,
              transactions |-> 0]

NoRead == [buf |-> <<>>, left |-> 0, caller |-> "none"]

(* The text of a link and the rest of the path do not fit linkbuf.         *)
TooLong(text, rest) == Len(text) + Len(rest) > PATH_MAX - 1

Init ==
    /\ disk \in Images /\ path \in Requests
    /\ named = Resolve(objs, ROOT_KEY.obj, MAX_LINK_COUNT, TooLong,
                       Len(path) + (MAX_LINK_COUNT + 1) * PATH_MAX, path)
    /\ pc = "closed" /\ dev = "closed" /\ sb = NoSuper /\ jr = NoJournal /\ t = EmptyTree
    /\ look = [dir |-> 0, obj |-> 0, pdir |-> 0, pobj |-> 0, rest |-> <<>>, links |-> 0]
    /\ file = [pos |-> 0, len |-> 0, dir |-> 0, obj |-> 0]
    /\ rd = NoRead /\ result = "none" /\ reads = 0 /\ faults = 0

-----------------------------------------------------------------------------
(* A read of the disk fails.                                               *)
Fault == faults < MaxFaults /\ faults' = faults + 1

NoFaults == UNCHANGED faults

(* reiserfs_open gives up: it closes the device and returns err.           *)
GiveUp(err) == pc' = "failed" /\ dev' = "closed" /\ result' = err

reiserfs_open ==
    /\ pc = "closed"
    /\ \/ pc' = "super" /\ dev' = "open" /\ UNCHANGED result
       \/ GiveUp("BADDEV")
    /\ UNCHANGED <<disk, path, named, sb, jr, t, look, file, rd, reads, faults>>

(***************************************************************************)
(* reiserfs_read_super                                                     *)
(***************************************************************************)
HasMagic(s) == s.magic \in {"ReIsErFs", "ReIsEr2Fs"}

REISERFS_SUPERBLOCK_BLOCK == 16
REISERFS_OLD_SUPERBLOCK_BLOCK == 2

(* The super block at 64 KB; else the one at 8 KB, which may be older than *)
(* the journal and then has its magic in another place.                    *)
FindSuper(d) ==
    LET old == IF d.old.magic = "prejournal"
               THEN [d.old EXCEPT !.bs = blocksize, !.journal = 0, !.version = 0] ELSE d.old
    IN  IF HasMagic(d.new) THEN d.new ELSE old

(* Its number among blocks of 4096 bytes.                                  *)
superblock(d) ==
    IF HasMagic(d.new) THEN REISERFS_SUPERBLOCK_BLOCK ELSE REISERFS_OLD_SUPERBLOCK_BLOCK

is_power_of_two(n) == n = 0 \/ \E k \in 0 .. 16 : n = 2 ^ k

(* The super block describes a file system the driver takes on.  All block *)
(* sizes but one are out of its range.                                     *)
Supported(s) ==
    /\ HasMagic(s) \/ s.magic = "prejournal"
    /\ s.version <= REISERFS_MAX_SUPPORTED_VERSION
    /\ s.bs = blocksize
    /\ s.journal # 0 => is_power_of_two(s.size)

(* Words on the disk are unsigned, and all blocks of a journal can be      *)
(* addressed.                                                              *)
ASSUME ImageAssumption ==
    \A d \in Images :
        LET s == FindSuper(d)
        IN  /\ "root" \in DOMAIN s /\ s.size \in Nat /\ d.head.last \in Nat /\ d.head.first \in Nat
            /\ \A k \in DOMAIN d.log : d.log[k].len \in Nat
            /\ Supported(s) /\ s.journal # 0 => DOMAIN d.log = 0 .. s.size - 1

reiserfs_read_super ==
    /\ pc = "super"
    /\ \/ Fault /\ GiveUp("BAD_FSYS") /\ UNCHANGED sb
       \/ ~Supported(FindSuper(disk)) /\ NoFaults /\ GiveUp("BAD_FSYS") /\ UNCHANGED sb
       \/ /\ Supported(FindSuper(disk)) /\ NoFaults
          /\ sb' = FindSuper(disk)
          /\ pc' = IF sb'.journal = 0 THEN "root" ELSE "header"
          /\ UNCHANGED <<dev, result>>
    /\ UNCHANGED <<disk, path, named, jr, t, look, file, rd, reads>>

(***************************************************************************)
(* journal_init.  A block of the journal that cannot be read leaves what   *)
(* was in the variable, at first the stack's garbage: anything.            *)
(***************************************************************************)
(* The other byte order.                                                   *)
le32_to_cpu(w) == (w % Byte) * Byte + w \div Byte

Log == disk.log

JournalHeader ==
    /\ pc = "header"
    /\ \E h \in {disk.head} \cup [last : {0, disk.head.last}, first : {0, sb.size}, mount : {0}] :
          /\ IF h = disk.head THEN NoFaults ELSE Fault
          /\ IF h.first >= sb.size THEN pc' = "again" /\ UNCHANGED jr
             ELSE /\ pc' = "desc"
                  /\ jr' = [jr EXCEPT !.head = h, !.desc = h.first,
                                      !.next = (le32_to_cpu(h.last) + 1) % (Byte * Byte)]
    /\ UNCHANGED <<disk, path, named, dev, sb, t, look, file, rd, result, reads>>

(* Mutant: the commit block is not looked at.                              *)
valid_uncommitted(d, j) ==
    d.magic /\ d.id = j.next /\ d.mount = j.head.mount

(* The descriptor d is that of the next transaction, and its commit block  *)
(* is in place.  The transaction id is compared as it is on the disk, with *)
(* the lowest byte first.                                                  *)
ValidTransaction(d, j) ==
    LET c == Log[(j.desc + d.len + 1) % sb.size]
    IN  /\ d.magic /\ d.id = j.next /\ d.mount = j.head.mount
        /\ c.id = d.id /\ c.len = d.len

(* The blocks a transaction rewrites, with the journal blocks they are in. *)
Rewrites(at) ==
    {<<Log[at].real[i], sb.journal + ((at + i) % sb.size)>> : i \in DOMAIN Log[at].real}

(* One turn of the loop over the transactions, all adjacent.               *)
journal_init ==
    /\ pc = "desc"
    /\ \E d \in Range(Log) :
          /\ IF d = Log[jr.desc] THEN NoFaults ELSE Fault
          /\ IF ValidTransaction(d, jr)
             THEN /\ jr' = [jr EXCEPT !.next = (@ + 1) % (Byte * Byte),
                                      !.transactions = @ + 1,
                                      !.desc = (@ + d.len + 2) % sb.size]
                  /\ UNCHANGED pc
             ELSE pc' = "again" /\ UNCHANGED jr
    /\ UNCHANGED <<disk, path, named, dev, sb, t, look, file, rd, result, reads>>

(* The translations block_read may use.  Nothing is ever cached: FSYS_BUF  *)
(* ends where JOURNAL_START is, so that with transactions to search the    *)
(* table is read, and its first word counted up, behind the buffer: any of *)
(* their blocks may be found there, in any place of the journal, or not,   *)
(* and not the same at the next read.                                      *)
Translations ==
    LET real == UNION {{r[1] : r \in Rewrites(at)} : at \in {k \in DOMAIN Log : Log[k].magic}}
        blocks == {sb.journal + k : k \in DOMAIN Log}
    IN  IF jr.transactions = 0 THEN {<<>>}
        ELSE UNION {[s -> blocks] : s \in SUBSET real}

(* What the block b, counted in blocks of the file system, has where a     *)
(* super block has the number of the root.                                 *)
RootField(d, b) == IF b \in DOMAIN d.roots THEN d.roots[b] ELSE 0

(* The super block again, "maybe it is in the journal".  Its number is now *)
(* scaled by the block size, so that this is the same place with blocks of *)
(* 4096 bytes only.  A read that fails is not noticed, and leaves what the *)
(* first one found.                                                        *)
ReadSuperAgain ==
    /\ pc = "again"
    /\ \/ Fault /\ UNCHANGED sb
       \/ \E tr \in Translations :
             /\ sb' = [sb EXCEPT !.root =
                          RootField(disk, block_read([t EXCEPT !.tr = tr], superblock(disk)))]
             /\ NoFaults
    /\ pc' = "root"
    /\ UNCHANGED <<disk, path, named, dev, jr, t, look, file, rd, result, reads>>

(* The root, which tells the depth of the tree.                            *)
ReadRoot ==
    /\ pc = "root"
    /\ \/ Fault /\ GiveUp("BAD_FSYS") /\ UNCHANGED t
       \/ \E tr \in Translations, stale \in BOOLEAN :
             LET info == [t EXCEPT !.tr = tr]
                 root == IF stale THEN t.root ELSE block_read(info, sb.root)
             IN  /\ IF stale THEN Fault ELSE NoFaults
                 /\ t' = [info EXCEPT !.root = root, !.depth = Node(root).level,
                             !.cache[1] = IF Node(root).level = 1 THEN root ELSE @]
                 /\ IF Node(root).level >= REISERFS_MAX_TREE_HEIGHT THEN GiveUp("BAD_FSYS")
                    ELSE pc' = "stat" /\ UNCHANGED <<dev, result>>
    /\ look' = [dir |-> ROOT_KEY.dir, obj |-> ROOT_KEY.obj, pdir |-> 0, pobj |-> 0,
                rest |-> path, links |-> 0]
    /\ UNCHANGED <<disk, path, named, sb, jr, file, rd, reads>>

(* A walk of the tree, with at most one failing read; `walk' maps a fault  *)
(* to the tree state it leaves.  The next walk finds other translations.   *)
Walk(walk(_)) ==
    \E tr \in Translations :
        \/ t' = [walk(NoFault) EXCEPT !.hit = FALSE, !.tr = tr] /\ NoFaults
        \/ /\ Fault
           /\ \E d \in Depths, k \in {"zero", "minus"} :
                 LET w == walk([at |-> d, kind |-> k])
                 IN  w.hit /\ t' = [w EXCEPT !.hit = FALSE, !.tr = tr]

-----------------------------------------------------------------------------
(***************************************************************************)
(* reiserfs_open_file: one turn of its outer loop is OpenStat, then one of *)
(* a link, the end, or a directory.                                        *)
(***************************************************************************)
OpenStat ==
    /\ pc = "stat"
    /\ Walk(LAMBDA f : search_stat(t, look.dir, look.obj, f))
    /\ IF t'.ok THEN pc' = "leave" /\ UNCHANGED <<dev, result>> ELSE GiveUp(t'.errnum)
    /\ UNCHANGED <<disk, path, named, sb, jr, look, file, rd, reads>>

(* Mutant: the links are not counted.                                      *)
CountLinkNot(lk) == lk

CountLink(lk) == [lk EXCEPT !.links = @ + 1]

(* A symbolic link: its text is read in front of the rest of the path.     *)
OpenLink ==
    /\ pc = "leave" /\ sd_mode(CurrentItem(t)) = "lnk"
    /\ look' = CountLink(look)
    /\ LET size == sd_size(CurrentItem(t))
       IN  IF look'.links > MAX_LINK_COUNT
           THEN GiveUp("SYMLINK_LOOP") /\ UNCHANGED <<file, rd>>
           ELSE IF size + Len(look.rest) > PATH_MAX - 1
           THEN GiveUp("LENGTH") /\ UNCHANGED <<rd, file>>
           ELSE /\ pc' = "link" /\ UNCHANGED <<dev, result>>
                /\ file' = [pos |-> 0, len |-> size, dir |-> look.dir, obj |-> look.obj]
                /\ rd' = [buf |-> <<>>, left |-> size, caller |-> "open"]
    /\ UNCHANGED <<disk, path, named, sb, jr, t, reads, faults>>

ReadLink ==
    /\ pc = "link"
    /\ Walk(LAMBDA f : next_key(t, f))
    /\ IF t'.ok THEN pc' = "search" /\ UNCHANGED <<dev, result>> ELSE GiveUp("IOERR")
    /\ UNCHANGED <<disk, path, named, sb, jr, look, file, rd, reads>>

FollowLink(lk, text) ==
    IF text[1] = "/" THEN [lk EXCEPT !.dir = ROOT_KEY.dir, !.obj = ROOT_KEY.obj]
    ELSE [lk EXCEPT !.dir = lk.pdir, !.obj = lk.pobj]

(* The text of the link has been read.                                     *)
LinkRead ==
    /\ pc = "done" /\ rd.caller = "open"
    /\ IF t.errnum # "OK" \/ Len(rd.buf) # file.len
       THEN GiveUp("IOERR") /\ UNCHANGED look
       ELSE /\ look' = [FollowLink(look, rd.buf \o look.rest) EXCEPT !.rest = rd.buf \o @]
            /\ pc' = "stat" /\ UNCHANGED <<dev, result>>
    /\ rd' = NoRead
    /\ UNCHANGED <<disk, path, named, sb, jr, t, file, reads, faults>>

(* The end of the path: next_key makes the first data item current.  White *)
(* space would end the path too; no token stands for it.                   *)
OpenEnd ==
    /\ pc = "leave" /\ sd_mode(CurrentItem(t)) # "lnk" /\ look.rest = <<>>
    /\ IF sd_mode(CurrentItem(t)) # "reg"
       THEN GiveUp("BAD_TYPE") /\ NoFaults /\ UNCHANGED <<file, t>>
       ELSE /\ file' = [pos |-> 0, len |-> sd_size(CurrentItem(t)), dir |-> look.dir, obj |-> look.obj]
            /\ Walk(LAMBDA f : next_key(t, f))
            /\ IF t'.ok THEN pc' = "idle" /\ result' = "OK" /\ UNCHANGED dev
               ELSE GiveUp(t'.errnum)
    /\ UNCHANGED <<disk, path, named, sb, jr, look, rd, reads>>

OpenName ==
    /\ pc = "leave" /\ sd_mode(CurrentItem(t)) # "lnk" /\ look.rest # <<>>
    /\ look' = [look EXCEPT !.rest = DropSlashes(@)]
    /\ IF sd_mode(CurrentItem(t)) # "dir" THEN GiveUp("NOTDIR")
       ELSE pc' = "dir" /\ UNCHANGED <<dev, result>>
    /\ UNCHANGED <<disk, path, named, sb, jr, t, file, rd, reads, faults>>

Matches(e, name) == e.visible /\ e.name = name

(* The entries of an item; one that is no directory item has none that     *)
(* could match.                                                            *)
Entries(item) == IF item.type = "dir" THEN item.entries ELSE <<>>

(* The next item of the directory, until one has the name.                 *)
OpenDirItem ==
    /\ pc = "dir"
    /\ Walk(LAMBDA f : next_key(t, f))
    /\ LET item == CurrentItem(t')
           name == IF look.rest = <<>> THEN "" ELSE look.rest[1]
           entries == Entries(item)
           hit == SelectInSeq(entries, LAMBDA e : Matches(e, name))
       IN  IF ~t'.ok THEN GiveUp(t'.errnum) /\ UNCHANGED look
           ELSE IF item.obj # look.obj THEN GiveUp("NOTFOUND") /\ UNCHANGED look
           ELSE IF hit = 0 THEN UNCHANGED <<pc, dev, result, look>>
           ELSE /\ look' = [look EXCEPT !.pdir = look.dir, !.pobj = look.obj,
                                        !.dir = entries[hit].dir,
                                        !.obj = entries[hit].obj, !.rest = Tail(@)]
                /\ pc' = "stat" /\ UNCHANGED <<dev, result>>
    /\ UNCHANGED <<disk, path, named, sb, jr, file, rd, reads>>

-----------------------------------------------------------------------------
(***************************************************************************)
(* reiserfs_seek, reiserfs_read and reiserfs_close.                        *)
(***************************************************************************)
reiserfs_seek(p) ==
    /\ pc = "idle" /\ p # file.pos /\ reads < MaxReads
    /\ file' = [file EXCEPT !.pos = p]
    /\ UNCHANGED <<disk, path, named, pc, dev, sb, jr, t, look, rd, result, reads, faults>>

reiserfs_read(n) ==
    /\ pc = "idle" /\ reads < MaxReads
    /\ reads' = reads + 1
    /\ rd' = [buf |-> <<>>, left |-> n, caller |-> "read"]
    /\ pc' = "search"
    /\ UNCHANGED <<disk, path, named, dev, sb, jr, t, look, file, result, faults>>

(* reiserfs_read_data: whether the current item is at or before file->pos; *)
(* otherwise it starts again from the object's first item.                 *)
SearchFile ==
    /\ pc = "search"
    /\ LET item == CurrentItem(t)
           behind == item.obj # file.obj \/ IH_KEY_OFFSET(item) > file.pos + 1
       IN  IF behind
           THEN /\ Walk(LAMBDA f : search_stat(t, file.dir, file.obj, f))
                /\ pc' = "next"
           ELSE t' = [t EXCEPT !.errnum = "OK"] /\ NoFaults /\ pc' = "loop"
    /\ UNCHANGED <<disk, path, named, dev, sb, jr, look, file, rd, result, reads>>

NextKey ==
    /\ pc = "next"
    /\ Walk(LAMBDA f : next_key(t, f))
    /\ pc' = "loop"
    /\ UNCHANGED <<disk, path, named, dev, sb, jr, look, file, rd, result, reads>>

(* What the current item has at an offset: the rest of its bytes, or of    *)
(* the disk block that is there.  A data block that cannot be read is not  *)
(* noticed; the buffer keeps what it had.                                  *)
ItemLen(item) ==
    IF IH_KEY_ISTYPE(item, "direct") THEN Len(item.bytes)
    ELSE IF IH_KEY_ISTYPE(item, "indirect") THEN Len(item.ptrs) * blocksize ELSE 0

(* Mutant: the offset inside the block is forgotten.                       *)
ItemBytesAligned(item, offset) ==
    IF item.type = "direct" THEN SubSeq(item.bytes, offset + 1, Len(item.bytes))
    ELSE disk.data[item.ptrs[offset \div blocksize + 1]]

ItemBytes(item, offset) ==
    IF IH_KEY_ISTYPE(item, "direct") THEN SubSeq(item.bytes, offset + 1, Len(item.bytes))
    ELSE SubSeq(disk.data[item.ptrs[offset \div blocksize + 1]],
                (offset % blocksize) + 1, blocksize)

(* One turn of the loop, and one block of an indirect item.  The offset is *)
(* unsigned: an item behind file->pos has a huge one.                      *)
ReadLoop ==
    /\ pc = "loop"
    /\ LET item == CurrentItem(t)
           offset == file.pos - IH_KEY_OFFSET(item) + 1
           all == IF item.obj = file.obj /\ offset \in 0 .. ItemLen(item) - 1
                  THEN ItemBytes(item, offset) ELSE <<>>
           got == SubSeq(all, 1, IF Len(all) > rd.left THEN rd.left ELSE Len(all))
       IN  \/ /\ t.errnum # "OK" \/ item.obj # file.obj
              /\ pc' = "done" /\ NoFaults /\ UNCHANGED <<file, rd>>
           \/ /\ t.errnum = "OK" /\ item.obj = file.obj /\ all = <<>>
              /\ pc' = "next" /\ NoFaults /\ UNCHANGED <<file, rd>>
           \/ /\ t.errnum = "OK" /\ all # <<>>
              /\ \E lost \in BOOLEAN :
                    /\ IF lost THEN IH_KEY_ISTYPE(item, "indirect") /\ Fault ELSE NoFaults
                    /\ rd' = [rd EXCEPT !.left = @ - Len(got),
                                !.buf = @ \o (IF lost THEN [i \in DOMAIN got |-> "?"] ELSE got)]
              /\ file' = [file EXCEPT !.pos = @ + Len(got)]
              /\ pc' = IF rd'.left = 0 THEN "done" ELSE "loop"
    /\ UNCHANGED <<disk, path, named, dev, sb, jr, t, look, result, reads>>

(* The count is returned, or 0 with errnum set.                            *)
ReadReturn ==
    /\ pc = "done" /\ rd.caller = "read"
    /\ pc' = "idle" /\ rd' = [rd EXCEPT !.caller = "none"]
    /\ UNCHANGED <<disk, path, named, dev, sb, jr, t, look, file, result, reads, faults>>

reiserfs_close ==
    /\ pc = "idle" /\ reads = MaxReads
    /\ pc' = "shut" /\ dev' = "closed"
    /\ UNCHANGED <<disk, path, named, sb, jr, t, look, file, rd, result, reads, faults>>

Finished == pc \in {"failed", "shut"} /\ UNCHANGED vars

Steps ==
    \/ reiserfs_open \/ reiserfs_read_super \/ JournalHeader \/ journal_init
    \/ ReadSuperAgain \/ ReadRoot
    \/ OpenStat \/ OpenLink \/ ReadLink \/ LinkRead \/ OpenEnd \/ OpenName \/ OpenDirItem
    \/ SearchFile \/ NextKey \/ ReadLoop \/ ReadReturn

Next ==
    \/ Steps
    \/ \E p \in Positions : reiserfs_seek(p)
    \/ \E n \in Sizes : reiserfs_read(n)
    \/ reiserfs_close \/ Finished

(* No call is being served.                                                *)
Resting == pc \in {"idle", "failed", "shut"}

(* yaboot is one thread: a call it has made runs on to its return.  This   *)
(* is WF_vars(Steps): unless the driver is resting, Steps is enabled.      *)
Fairness == []<>Resting \/ []<><<Steps>>_vars

Spec == Init /\ [][Next]_vars /\ Fairness

-----------------------------------------------------------------------------
(***************************************************************************)
(* What disk.sound stands for: the tree is in order and holds the objects, *)
(* the journal has nothing to replay, and the super block is found twice.  *)
(***************************************************************************)
(* An item has its bytes, and its pointers name blocks of the disk.        *)
WellFormed(d, item) ==
    /\ item.type = "stat" => item.size \in Nat
    /\ item.type = "direct" => item.bytes \in Seq(STRING)
    /\ item.type = "indirect" => item.ptrs \in Seq(DOMAIN d.data)

(* The k-th byte of an item.                                               *)
ByteAt(d, item, k) ==
    IF item.type = "direct" THEN item.bytes[k]
    ELSE d.data[item.ptrs[((k - 1) \div blocksize) + 1]][((k - 1) % blocksize) + 1]

(* The items i and i + 1 belong to the same object.                        *)
GoesOn(all, i) == i + 1 \in DOMAIN all /\ all[i + 1].obj = all[i].obj

(* The items of the object o hold the text, one behind the other.          *)
Holds(d, o, text) ==
    LET all == d.order.items
    IN  \A i \in DOMAIN all : all[i].obj = o =>
            /\ IF all[i].type = "stat" THEN GoesOn(all, i) => all[i + 1].off = 1
               ELSE GoesOn(all, i) => all[i + 1].off = all[i].off + ItemLen(all[i])
            /\ ~GoesOn(all, i) => all[i].off + ItemLen(all[i]) > Len(text) \/ text = <<>>
            /\ \A k \in 1 .. ItemLen(all[i]) :
                  all[i].off + k - 1 \in 1 .. Len(text) =>
                      ByteAt(d, all[i], k) = text[all[i].off + k - 1]

(* The visible entries in the items of the object o are these ones.        *)
Lists(d, o, entries) ==
    LET all == d.order.items
        own == {i \in DOMAIN all : all[i].obj = o /\ all[i].type = "dir"}
    IN  /\ \A i \in own :
              /\ Len(all[i].entries) \in Nat /\ DOMAIN all[i].entries = 1 .. Len(all[i].entries)
              /\ \A k \in DOMAIN all[i].entries :
                    LET e == all[i].entries[k]
                    IN  e.visible => /\ e.name \in DOMAIN entries /\ e.obj = entries[e.name]
                                     /\ e.dir = d.objs[e.obj].dir
        /\ \A n \in DOMAIN entries :
              /\ n # "" /\ entries[n] \in DOMAIN d.objs
              /\ \E i \in own : \E k \in DOMAIN all[i].entries : Matches(all[i].entries[k], n)

Content(obj) == IF obj.mode = "lnk" THEN obj.target ELSE obj.bytes

(* The tree has the object o, all of it under the key of its directory.    *)
Describes(d, o) ==
    LET obj == d.objs[o]
        all == d.order.items
    IN  /\ \A i \in DOMAIN all : all[i].obj = o => all[i].dir = obj.dir
        /\ \E i \in DOMAIN all :
              /\ all[i].obj = o /\ all[i].type = "stat" /\ all[i].mode = obj.mode
              /\ obj.mode # "dir" => all[i].size = Len(Content(obj))
        /\ \/ obj.mode = "dir" /\ Lists(d, o, obj.entries)
           \/ obj.mode = "reg" /\ obj.bytes \in Seq(STRING) /\ Holds(d, o, obj.bytes)
           \/ /\ obj.mode = "lnk" /\ obj.target \in Seq(STRING \ {""}) /\ obj.target # <<>>
              /\ Holds(d, o, obj.target)

(* The driver finds no transaction behind the last flushed one.            *)
NothingToReplay(d) ==
    LET s == FindSuper(d)
        x == d.log[d.head.first]
        c == d.log[(d.head.first + x.len + 1) % s.size]
    IN  s.journal # 0 /\ d.head.first < s.size =>
            ~ /\ x.magic /\ x.mount = d.head.mount
              /\ x.id = (le32_to_cpu(d.head.last) + 1) % (Byte * Byte)
              /\ c.id = x.id /\ c.len = x.len

(* Where there is a journal, the super block is found in its place again.  *)
(* So it is with blocks of 4096 bytes; with others the driver takes the    *)
(* number of the root from bytes that are no super block.                  *)
FoundAgain(d) ==
    FindSuper(d).journal # 0 => RootField(d, superblock(d)) = FindSuper(d).root

Sound(d) ==
    /\ Supported(FindSuper(d)) /\ FoundAgain(d) /\ NothingToReplay(d)
    /\ InOrder(d, FindSuper(d).root)
    /\ 0 \notin DOMAIN d.objs /\ ROOT_KEY.obj \in DOMAIN d.objs
    /\ d.objs[ROOT_KEY.obj].mode = "dir" /\ d.objs[ROOT_KEY.obj].dir = ROOT_KEY.dir
    /\ \A o \in DOMAIN d.objs : Describes(d, o)

ASSUME SoundAssumption ==
    \A d \in Images :
        /\ \A b \in DOMAIN d.data : d.data[b] \in Seq(STRING) /\ Len(d.data[b]) = blocksize
        /\ \A b \in DOMAIN d.nodes :
              LET node == d.nodes[b]
              IN  /\ node.level \in Nat
                  /\ Len(node.items) \in Nat /\ DOMAIN node.items = 1 .. Len(node.items)
                  /\ \A i \in DOMAIN node.items : WellFormed(d, node.items[i])
        /\ d.sound => Sound(d)

-----------------------------------------------------------------------------
(* On a sound disk that can be read, opening a path ends as the path says: *)
(* with the file it names, or with the reason why it names none.  A disk   *)
(* with a journal and blocks of another size than 4096 bytes is not sound  *)
(* in this sense (FoundAgain).                                             *)
LookupRight ==
    pc \in {"idle", "failed"} /\ faults = 0 /\ disk.sound /\ result \notin {"none", "BADDEV"} =>
        /\ result = named.res
        /\ result = "OK" => /\ file.obj = named.at
                            /\ file.len = Len(objs[named.at].bytes)

(* Reading implements the reader every driver promises, on the file the    *)
(* path names.                                                             *)
Sick == faults > 0 \/ ~disk.sound

Reader ==
    INSTANCE FileReader WITH
        file <- IF named.res = "OK" THEN objs[named.at].bytes ELSE <<>>,
        pos <- file.pos,
        state <- IF rd.caller = "read" THEN "reading" ELSE "idle",
        want <- IF rd.caller = "open" THEN 0 ELSE rd.left + Len(rd.buf),
        got <- IF rd.caller = "open" THEN <<>> ELSE rd.buf,
        sick <- Sick, sparse <- FALSE

ImplementsReader == Reader!Spec

(* Every open and every read comes to an end, whatever the disk holds:     *)
(* also with links that lead to each other.                                *)
CallReturns == ~Resting ~> Resting

(* The identifier of the k-th transaction behind the last flushed one.     *)
Expected(d, k) == (le32_to_cpu(d.head.last) + 1 + k) % (Byte * Byte)

(* The descriptor at this place is that of a transaction of the current    *)
(* mount, it has the identifier, and its commit block is in place.         *)
Committed(d, size, at, id) ==
    LET x == d.log[at]
        c == d.log[(at + x.len + 1) % size]
    IN  /\ x.magic /\ x.mount = d.head.mount
        /\ le32_to_cpu(x.id) = id
        /\ c.id = x.id /\ c.len = x.len

(* The n transactions behind the last flushed one are committed; they are  *)
(* adjacent, with their descriptors in the places `at'.                    *)
Unflushed(d, size, n) ==
    \/ n = 0
    \/ \E at \in [0 .. n -> 0 .. size - 1] :
          /\ at[0] = d.head.first
          /\ \A k \in 0 .. n - 1 : /\ Committed(d, size, at[k], Expected(d, k))
                                  /\ at[k + 1] = (at[k] + d.log[at[k]].len + 2) % size

(* No identifier in the log that reads as that of one of these n           *)
(* transactions in the wrong byte order is another one in the right order: *)
(* the code compares it as it is on the disk.                              *)
Legible(d, n) ==
    \A i \in DOMAIN d.log, k \in 0 .. n - 1 :
        d.log[i].magic /\ d.log[i].id = Expected(d, k) => le32_to_cpu(d.log[i].id) = d.log[i].id

(* Nothing is replayed but committed transactions that were not flushed: a *)
(* transaction without its commit block, one of an earlier mount or one    *)
(* that is older than the header says changes no block.                    *)
ReplaysOnlyCommitted ==
    pc = "again" /\ faults = 0 /\ Legible(disk, jr.transactions) =>
        Unflushed(disk, sb.size, jr.transactions)

(* An open that failed, and has closed the device, does not return         *)
(* FILE_ERR_OK: search_stat returns "0 if error (errnum is set)".          *)
FailureHasErrnum == pc = "failed" => result # "OK"
=============================================================================
