------------------------------- MODULE Device -------------------------------
(***************************************************************************)
(* From a boot path to a partition: parse_device_path (module DevicePath), *)
(* then partitions_lookup and get_part_type (partition.c) on the device it *)
(* names, as yaboot_main does with the device it was booted from.          *)
(*                                                                         *)
(* Every table is read through one static block_buffer.  Of a block the    *)
(* model keeps the fields the lookups test: the Macintosh signature and    *)
(* counts, the fdisk mark and its four system indicators, the ISO 9660     *)
(* mark, and the Amiga identifier, checksum, limit and link.               *)
(***************************************************************************)
EXTENDS DevicePath, FiniteSetsExt

CONSTANTS
    Inputs,                \* boot paths, with what they were written to say
    Disks,                 \* [blksize, blocks: block number -> Block]
    MAX_BLOCK_SIZE, IsoFirst, IsoLast, AMIGA_RDB_MAX,
    WordBits,              \* 32, the bits in a word of used[]
    MaxFaults              \* bound: block reads and allocations that fail

Block == [sig : {"ER", "PM", "--"}, count : Nat, start : Nat, bsz : Nat, aa55 : BOOLEAN,
          sys : [1 .. 4 -> {"native", "raid", "other"}], iso : BOOLEAN,
          id : {"RDSK", "PART", "--"}, sum : BOOLEAN,
          first : Int, link : Int,   \* AMIGA_PARTITIONS and AMIGA_PART_NEXT
          limit : Nat]               \* AMIGA_RDBLIMIT

AMIGA_END == -1

ASSUME DeviceAssumption ==
    /\ MAX_BLOCK_SIZE \in Nat /\ 512 <= MAX_BLOCK_SIZE /\ IsoFirst \in Nat /\ IsoLast \in Nat
    /\ AMIGA_RDB_MAX \in Nat \ {0} /\ WordBits \in Nat \ {0} /\ MaxFaults \in Nat
    /\ \A d \in Disks :
          /\ d.blksize \in Nat /\ DOMAIN d.blocks \subseteq Nat
          /\ d.blocks \in [DOMAIN d.blocks -> Block]

VARIABLES
    asked,          \* the boot path and what it was written to say
    spec,           \* boot, the file specification parsed from it
    disk,           \* what is on the device
    pc,             \* where partitions_lookup is: start, parsed, open, mac, iso, rdb,
                    \* reread, used, amiga, list, done; failed; or wild, when memory
                    \* that is not the lookup's has been written
    block_buffer,   \* the block read last
    block,          \* the block number the loop is at
    map_size,       \* entries of a Macintosh map; ptable_block_size is bsz
    bsz,
    used,           \* used[]: for each Amiga block it has room for, whether it
                    \* has been visited
    list,           \* the partition list, newest entry first
    type,           \* what get_part_type found
    faults

vars == <<asked, spec, disk, pc, block_buffer, block, map_size, bsz, used, list, type, faults>>

DefPart == -1
DefFile == <<"deffile">>

NoDisk == [blksize |-> 512, blocks |-> <<>>]

NoBlock == [sig |-> "--", count |-> 0, start |-> 0, bsz |-> 0, aa55 |-> FALSE,
            sys |-> [i \in 1 .. 4 |-> "other"], iso |-> FALSE, id |-> "--",
            sum |-> FALSE, first |-> 0, link |-> 0, limit |-> 0]

Init ==
    /\ asked = {} /\ spec = EmptySpec /\ disk = NoDisk
    /\ pc = "start" /\ block_buffer = NoBlock /\ block = 0 /\ map_size = 0 /\ bsz = 0
    /\ used = <<>> /\ list = <<>> /\ type = 0 /\ faults = 0

-----------------------------------------------------------------------------
(* What a path that was written to say something looks like.               *)
SpellLocal(in) ==
    (in.dev \o <<":">>) \o (in.part \o IF in.file = NULL THEN <<>> ELSE <<",">> \o in.file)

(* A network path has optional words, up to four fields between commas,    *)
(* and more of them behind the fourth.                                     *)
SpellField(args, k) == IF k <= Len(args) THEN <<",">> \o args[k] ELSE <<>>

SpellArgs(in) ==
    (IF in.args = <<>> THEN <<>> ELSE in.args[1])
       \o (SpellField(in.args, 2) \o (SpellField(in.args, 3) \o (SpellField(in.args, 4) \o in.more)))

SpellNet(in) == (in.dev \o <<":">>) \o (in.words \o SpellArgs(in))

Spell(in) ==
    IF in.form = "local" THEN SpellLocal(in)
    ELSE IF in.form = "bare" THEN in.file ELSE SpellNet(in)

(* What a local path can say: a device whose name has no colon, the number *)
(* of a partition, and the name of a file without separators; or a file    *)
(* alone, on the default device, which may itself name a partition.        *)
Name(s) == s \in Seq(Tokens) /\ s # <<>> /\ s # NULL /\ ~Has(s, ":") /\ ~Has(s, "iscsi")

SaysLocal(in) ==
    /\ Name(in.dev)
    /\ \/ in.part = <<>>
       \/ \E n \in Tokens \ {":", ",", "iscsi"} :
             in.part = <<n>> /\ n \in DOMAIN Number /\ Number[n] \in Nat
    /\ in.file = NULL \/ (Name(in.file) /\ ~Has(in.file, ","))
    /\ IsLocal(KindOf(SpellLocal(in), in.def))

SaysBare(in) ==
    /\ Name(in.dev) /\ in.part = <<>> /\ Name(in.file)
    /\ \/ in.def = in.dev
       \/ \E p \in Tokens \ {":"} : in.def = in.dev \o <<":", p>>
    /\ IsLocal(prom_get_devtype(in.def))

(* What a network path can say.  The optional words come first, each once, *)
(* and end in a comma; the fields hold no separators and no such words.    *)
(* The bootp reply, if there is one, has its addresses or none.            *)
OptionWords == {"promiscuous", "speed=", "duplex=", "bootp", "rarp"}

SaysWords(w) ==
    \/ w = <<>>
    \/ \E last \in DOMAIN w :
          /\ w[last] \in OptionWords /\ last < Len(w) /\ w[Len(w)] = ","
          /\ \A i \in last + 1 .. Len(w) - 1 : w[i] # "," /\ w[i] \notin OptionWords
          /\ \A i, j \in DOMAIN w :
                w[i] \in OptionWords /\ w[j] \in OptionWords => w[i] # w[j] \/ i = j
          /\ \A i \in 1 .. Len(w) - 1 : w[i] \in OptionWords => w[i + 1] \notin OptionWords

Field(s) == s \in Seq(Tokens) /\ \A i \in DOMAIN s : s[i] \notin {":", "ipv6", "iscsi"} \cup OptionWords

IsReply(p) ==
    /\ <<>> \notin {p.siaddr, p.ciaddr, p.yiaddr, p.giaddr} /\ p.cookie \in BOOLEAN
    /\ p.options \in Seq([tag : STRING, value : Seq(STRING) \ {<<>>}])

SaysNet(in) ==
    /\ Name(in.dev) /\ ~Has(in.dev, "ipv6") /\ KindOf(SpellNet(in), in.def) = "NET"
    /\ in.words \in Seq(Tokens \ {":", "ipv6", "iscsi"}) /\ SaysWords(in.words)
    /\ Len(in.args) <= 4
    /\ in.args \in Seq({s \in Seq(Tokens) : Field(s) /\ ~Has(s, ",")})
    /\ Field(in.more) /\ (in.more # <<>> => Len(in.args) = 4 /\ in.more[1] = ",")
    /\ \A p \in in.packet : IsReply(p) /\ in.packet = {p}

ASSUME InputAssumption ==
    /\ {":", ","} \subseteq Tokens
    /\ \A in \in Inputs : \/ in.form = "local" /\ SaysLocal(in)
                          \/ in.form = "bare" /\ SaysBare(in)
                          \/ in.form = "net" /\ SaysNet(in)

ParsePath(in) ==
    /\ pc = "start" /\ pc' = "parsed"
    /\ asked' = in
    /\ spec' = parse_device_path(Spell(in), in.def, DefPart, DefFile, in.packet)
    /\ UNCHANGED <<disk, block_buffer, block, map_size, bsz, used, list, type, faults>>

(* No memory for the copy of the path or of its arguments.                 *)
NotParsed ==
    /\ pc = "start" /\ pc' = "failed"
    /\ faults < MaxFaults /\ faults' = faults + 1
    /\ UNCHANGED <<asked, spec, disk, block_buffer, block, map_size, bsz, used, list, type>>

(***************************************************************************)
(* prom_readblocks of one block: the outcome is the block, or a failure    *)
(* where there is no such block or the device cannot read it now.          *)
(***************************************************************************)
Reads(b) ==
    /\ b \in DOMAIN disk.blocks
    /\ block_buffer' = disk.blocks[b]
    /\ UNCHANGED faults

ReadFails(b) ==
    /\ \/ b \notin DOMAIN disk.blocks /\ UNCHANGED faults
       \/ faults < MaxFaults /\ faults' = faults + 1
    /\ UNCHANGED block_buffer

(* The list is complete, or cut short by a failure.                        *)
Bail ==
    /\ pc' = "list"
    /\ UNCHANGED <<block, map_size, bsz, used, list>>

(* What happens then is not known.                                         *)
Astray ==
    /\ pc' = "wild"
    /\ UNCHANGED <<block, map_size, bsz, used, list>>

Walking == UNCHANGED <<asked, spec, disk, type>>

Entry(n, start, size, ptype) == [num |-> n, start |-> start, bsz |-> size, ptype |-> ptype]

(* add_new_partition puts the entry in front of the list.                  *)
add_new_partition(n, start, size, ptype) == <<Entry(n, start, size, ptype)>> \o list

(* Block 0 of the whole device, if it opens and has a usable block size.   *)
BlockSizeOf(d) == IF d.blksize <= 1 THEN 512 ELSE d.blksize

BlockSize == BlockSizeOf(disk)

partitions_lookup(d) ==
    /\ pc = "parsed" /\ prom_get_devtype(spec.dev) = "BLOCK"
    /\ disk' = d /\ pc' = "open"
    /\ asked' = {} /\ spec' = [EmptySpec EXCEPT !.part = spec.part]
    /\ UNCHANGED <<block_buffer, block, map_size, bsz, used, list, type, faults>>

NotOpened ==
    /\ pc = "open"
    /\ \/ BlockSize > MAX_BLOCK_SIZE /\ UNCHANGED <<faults, block_buffer>>
       \/ ReadFails(0)
    /\ Bail /\ Walking

IsLinux(b, i) == b.sys[i] \in {"native", "raid"}

(* The Linux ones of the four entries of an fdisk table, added in order.   *)
FdiskEntries(b) ==
    LET entry(i) == IF IsLinux(b, i) THEN <<Entry(i, b.start + i, 512, "Linux")>> ELSE <<>>
    IN  entry(4) \o (entry(3) \o (entry(2) \o (entry(1) \o <<>>)))

partition_fdisk_lookup ==
    /\ pc' = "list"
    /\ list' = FdiskEntries(block_buffer')
    /\ UNCHANGED <<block, map_size, bsz, used>>

(* Which table it is: a Macintosh driver descriptor before an fdisk mark,  *)
(* ISO 9660 on a CD, and an Amiga disk otherwise.                          *)
Detect ==
    /\ pc = "open" /\ BlockSize <= MAX_BLOCK_SIZE /\ Reads(0)
    /\ LET b == block_buffer'
       IN  \/ /\ b.sig = "ER"
              /\ pc' = "mac" /\ block' = 1 /\ map_size' = 1 /\ bsz' = b.bsz
              /\ UNCHANGED <<used, list>>
           \/ b.sig # "ER" /\ b.aa55 /\ partition_fdisk_lookup
           \/ /\ b.sig # "ER" /\ ~b.aa55 /\ BlockSize = 2048
              /\ pc' = "iso" /\ block' = IsoFirst /\ UNCHANGED <<map_size, bsz, used, list>>
           \/ /\ b.sig # "ER" /\ ~b.aa55 /\ BlockSize # 2048
              /\ pc' = "rdb" /\ block' = 0 /\ UNCHANGED <<map_size, bsz, used, list>>
    /\ Walking

(***************************************************************************)
(* partition_mac_lookup: one turn of its loop.                             *)
(***************************************************************************)
(* Mutant: the map has as many entries as the block read last says.        *)
MapSizeAny(b) == b.count

MapSize(b) == IF block = 1 THEN b.count ELSE map_size

partition_mac_lookup ==
    /\ pc = "mac"
    /\ \/ block >= map_size + 1 /\ Bail /\ UNCHANGED <<block_buffer, faults>>
       \/ block < map_size + 1 /\ ReadFails(block) /\ Bail
       \/ block < map_size + 1 /\ Reads(block) /\ block_buffer'.sig # "PM" /\ Bail
       \/ /\ block < map_size + 1 /\ Reads(block) /\ block_buffer'.sig = "PM"
          /\ map_size' = MapSize(block_buffer')
          /\ list' = add_new_partition(block, block_buffer'.start, bsz, "mapped")
          /\ block' = block + 1
          /\ UNCHANGED <<pc, bsz, used>>
    /\ Walking

(* identify_iso_fs: the first volume descriptor in its range is the one    *)
(* partition, number 0, of the disk; without one the Amiga lookup goes on  *)
(* with the block that is in the buffer.                                   *)
identify_iso_fs ==
    /\ pc = "iso"
    /\ \/ /\ block < IsoLast /\ Reads(block) /\ block_buffer'.iso
          /\ list' = add_new_partition(0, block, BlockSize, "none")
          /\ pc' = "list" /\ UNCHANGED <<block, map_size, bsz, used>>
       \/ /\ block < IsoLast /\ Reads(block) /\ ~block_buffer'.iso
          /\ block' = block + 1
          /\ UNCHANGED <<pc, map_size, bsz, used, list>>
       \/ /\ \/ block < IsoLast /\ ReadFails(block)
             \/ block >= IsoLast /\ UNCHANGED <<block_buffer, faults>>
          /\ pc' = "rdb" /\ block' = 0 /\ UNCHANGED <<map_size, bsz, used, list>>
    /\ Walking

IsRdb(b) == b.id = "RDSK" /\ b.sum

(* The blocks used[] has room for, rounded up to whole words.              *)
Tracked(b) == 0 .. (b.limit \div WordBits + 1) * WordBits - 1

(* partition_amiga_lookup up to its loop; used is allocated.               *)
StartAmiga(b) ==
    /\ pc' = "used" /\ block' = b.first /\ map_size' = 1
    /\ used' = [n \in Tracked(b) |-> FALSE]
    /\ UNCHANGED <<bsz, list>>

(* _amiga_find_rdb: looks for a rigid disk block in the first blocks.  Its *)
(* answer is compared with -1, which it never returns, so that the lookup  *)
(* starts either way: from block 0 if there is no such block.              *)
_amiga_find_rdb ==
    /\ pc = "rdb"
    /\ \/ /\ IsRdb(block_buffer) /\ StartAmiga(block_buffer)
          /\ UNCHANGED <<block_buffer, faults>>
       \/ /\ ~IsRdb(block_buffer) /\ block + 1 < AMIGA_RDB_MAX
          /\ Reads(block + 1) /\ block' = block + 1
          /\ UNCHANGED <<pc, map_size, bsz, used, list>>
       \/ /\ ~IsRdb(block_buffer)
          /\ \/ block + 1 < AMIGA_RDB_MAX /\ ReadFails(block + 1)
             \/ block + 1 >= AMIGA_RDB_MAX /\ UNCHANGED <<block_buffer, faults>>
          /\ pc' = "reread" /\ UNCHANGED <<block, map_size, bsz, used, list>>
    /\ Walking

RereadBlock0 ==
    /\ pc = "reread"
    /\ Reads(0) \/ ReadFails(0)
    /\ StartAmiga(block_buffer')
    /\ Walking

AllocUsed ==
    /\ pc = "used"
    /\ \/ pc' = "amiga" /\ UNCHANGED <<block, map_size, bsz, used, list, faults>>
       \/ faults < MaxFaults /\ faults' = faults + 1 /\ Bail
    /\ UNCHANGED block_buffer /\ Walking

(***************************************************************************)
(* partition_amiga_lookup: one turn of the loop over the linked list.      *)
(* map_size counts the partitions.  The block's bit in used[] is looked    *)
(* for in other memory if used[] has no room for it, and set there.        *)
(***************************************************************************)
Sound(b) == b.id = "PART" /\ b.sum

Visit(n) == [used EXCEPT ![n] = TRUE]

(* Mutant: a block visited before is skipped instead of ending the list.   *)
amiga_skips ==
    /\ pc = "amiga"
    /\ \/ block = AMIGA_END /\ Bail /\ UNCHANGED <<block_buffer, faults>>
       \/ block # AMIGA_END /\ ReadFails(block) /\ Bail
       \/ /\ block # AMIGA_END /\ Reads(block)
          /\ \/ ~Sound(block_buffer') /\ Bail
             \/ Sound(block_buffer') /\ block \notin DOMAIN used /\ (Bail \/ Astray)
             \/ /\ Sound(block_buffer') /\ block \in DOMAIN used
                /\ block' = block_buffer'.link /\ used' = Visit(block)
                /\ IF used[block] THEN UNCHANGED <<list, map_size>>
                   ELSE /\ list' = add_new_partition(map_size, block_buffer'.start, BlockSize, "Linux")
                        /\ map_size' = map_size + 1
                /\ UNCHANGED <<pc, bsz>>
    /\ Walking

partition_amiga_lookup ==
    /\ pc = "amiga"
    /\ \/ block = AMIGA_END /\ Bail /\ UNCHANGED <<block_buffer, faults>>
       \/ block # AMIGA_END /\ ReadFails(block) /\ Bail
       \/ /\ block # AMIGA_END /\ Reads(block)
          /\ \/ ~Sound(block_buffer') /\ Bail
             \/ Sound(block_buffer') /\ block \in DOMAIN used /\ used[block] /\ Bail
             \/ Sound(block_buffer') /\ block \notin DOMAIN used /\ (Bail \/ Astray)
             \/ /\ Sound(block_buffer') /\ block \in DOMAIN used /\ ~used[block]
                /\ used' = Visit(block)
                /\ list' = add_new_partition(map_size, block_buffer'.start, BlockSize, "Linux")
                /\ block' = block_buffer'.link /\ map_size' = map_size + 1
                /\ UNCHANGED <<pc, bsz>>
    /\ Walking

(* The block the lookup is at becomes an entry of the list.                *)
EntryDue ==
    /\ (IF pc = "open" THEN 0 ELSE block) \in DOMAIN disk.blocks
    /\ LET b == disk.blocks[IF pc = "open" THEN 0 ELSE block]
       IN  \/ /\ pc = "open" /\ BlockSize <= MAX_BLOCK_SIZE /\ b.sig # "ER" /\ b.aa55
              /\ \E i \in 1 .. 4 : IsLinux(b, i)
           \/ pc = "mac" /\ block < map_size + 1 /\ b.sig = "PM"
           \/ pc = "iso" /\ block < IsoLast /\ b.iso
           \/ pc = "amiga" /\ Sound(b) /\ block \in DOMAIN used /\ ~used[block]

(* add_new_partition does not look whether malloc had room: the entry is   *)
(* written to address 0.                                                   *)
NoRoomForEntry ==
    /\ EntryDue /\ faults < MaxFaults
    /\ faults' = faults + 1
    /\ Astray /\ UNCHANGED block_buffer /\ Walking

(* get_part_type: the first entry of the list with the number asked for;   *)
(* the model notes its place, 0 for none.  partitions_free follows.        *)
get_part_type ==
    /\ pc = "list" /\ pc' = "done"
    /\ LET hit == {i \in DOMAIN list : spec.part >= 0 /\ list[i].num = spec.part}
       IN  type' = IF hit = {} THEN 0 ELSE Min(hit)
    /\ UNCHANGED <<asked, spec, disk, block_buffer, block, map_size, bsz, used, list, faults>>

(* A path that names no local disk is not looked up.                       *)
Finished ==
    /\ pc \in {"done", "failed", "wild"} \/ (pc = "parsed" /\ prom_get_devtype(spec.dev) # "BLOCK")
    /\ UNCHANGED vars

Lookup ==
    \/ NotOpened \/ Detect \/ partition_mac_lookup \/ identify_iso_fs
    \/ _amiga_find_rdb \/ RereadBlock0 \/ AllocUsed \/ partition_amiga_lookup
    \/ NoRoomForEntry

Next ==
    \/ \E in \in Inputs : ParsePath(in)
    \/ NotParsed
    \/ \E d \in Disks : partitions_lookup(d)
    \/ Lookup \/ get_part_type \/ Finished

(* yaboot is a single thread that never abandons a lookup half way.        *)
Spec == Init /\ [][Next]_vars /\ WF_vars(Lookup \/ get_part_type)

-----------------------------------------------------------------------------
(* The first of the two that is there.                                     *)
Pick(a, b) == IF a # NULL THEN a ELSE b

Arg(in, k) == IF k <= Len(in.args) THEN in.args[k] ELSE NULL

(* A path to a local disk says what it was written to say: the device with *)
(* the commas of its own name, the partition, the file; what it leaves out *)
(* comes from the defaults.                                                *)
LocalPathsMean ==
    pc = "parsed" /\ asked.form # "net" =>
        /\ spec.dev = asked.dev
        /\ spec.part = IF asked.part = <<>> THEN DefPart ELSE Number[asked.part[1]]
        /\ spec.file = Pick(asked.file, DefFile)

(* The arguments of a network path win over the bootp reply, which fills   *)
(* only what the path leaves out or gives no valid address for; the        *)
(* gateway falls back to the reply, its options and the server in turn.    *)
NetPathsMean ==
    pc = "parsed" /\ asked.form = "net" =>
        LET arg(k) == IF Arg(asked, k) = NULL THEN NULL ELSE is_valid_ipv4_str(Arg(asked, k))
            router(p) == {o.value : o \in {q \in Range(p.options) :
                                             p.cookie /\ q.tag = "ROUTERS" /\ q.value # NULL}}
        IN  IF asked.packet = {}
            THEN <<spec.siaddr, spec.ciaddr, spec.giaddr>> = <<arg(1), arg(3), arg(4)>>
            ELSE \A p \in asked.packet :
                    /\ spec.siaddr = Pick(arg(1), p.siaddr)
                    /\ spec.ciaddr = Pick(arg(3), Pick(p.ciaddr, p.yiaddr))
                    /\ Pick(arg(4), p.giaddr) # NULL => spec.giaddr = Pick(arg(4), p.giaddr)
                    /\ Pick(arg(4), p.giaddr) = NULL /\ router(p) # {} => spec.giaddr \in router(p)
                    /\ spec.giaddr # NULL

(***************************************************************************)
(* What the tables of a disk say.  A list has the newest entry first; one  *)
(* that is `whole' has the entries of the table, any other is what a       *)
(* failure left of them: those of the table's first partitions.            *)
(***************************************************************************)
(* The blocks that can be part of a table.                                 *)
Maps(d) == {b \in DOMAIN d.blocks : d.blocks[b].sig = "PM"}

Rdbs(d) == {b \in DOMAIN d.blocks : IsRdb(d.blocks[b])}

Parts(d) == {b \in DOMAIN d.blocks : Sound(d.blocks[b])}

Volumes(d) ==
    {b \in DOMAIN d.blocks : /\ b \in IsoFirst .. IsoLast - 1 /\ d.blocks[b].iso
                             /\ IsoFirst .. b \subseteq DOMAIN d.blocks}

(* Entries 1, 2, ... of a Macintosh map, as many as the first one says.    *)
MacList(d, l, whole) ==
    LET n == Len(l)
    IN  /\ 1 .. n \subseteq Maps(d)
        /\ n > 1 => n <= d.blocks[1].count
        /\ whole /\ n + 1 \in Maps(d) => n > 0 /\ n >= d.blocks[1].count
        /\ \A i \in 1 .. n :
              l[i] = Entry(n + 1 - i, d.blocks[n + 1 - i].start, d.blocks[0].bsz, "mapped")

(* The Linux partitions of the four, the last one first.                   *)
FdiskList(d, l) ==
    LET table == d.blocks[0]
    IN  /\ {l[i].num : i \in DOMAIN l} = {p \in 1 .. 4 : IsLinux(table, p)}
        /\ \A i, j \in DOMAIN l : i < j => l[i].num > l[j].num
        /\ \A i \in DOMAIN l : l[i] = Entry(l[i].num, table.start + l[i].num, 512, "Linux")

(* The first volume descriptor.                                            *)
IsoList(d, l) ==
    \E v \in Volumes(d) : l = <<Entry(0, v, 2048, "none")>> /\ \A w \in Volumes(d) : v <= w

(* The partition blocks c, linked from the rigid disk block in this order, *)
(* each new, are those of the list.                                        *)
Starts(d) == {d.blocks[b].first : b \in Rdbs(d)}

IsChain(d, l, c) ==
    LET n == Len(l)
    IN  /\ n > 0 => c[1] \in Starts(d)
        /\ \A i \in 1 .. n - 1 : c[i + 1] = d.blocks[c[i]].link
        /\ \A i, j \in 1 .. n : c[i] = c[j] => i = j
        /\ \A i \in 1 .. n :
              l[i] = Entry(n + 1 - i, d.blocks[c[n + 1 - i]].start, BlockSizeOf(d), "Linux")

(* No sound and new block follows the n blocks of c.                       *)
Ends(d, c, n) ==
    IF n = 0 THEN Starts(d) \cap Parts(d) = {}
    ELSE d.blocks[c[n]].link \notin Parts(d) \ {c[i] : i \in 1 .. n}

AmigaList(d, l, whole) ==
    \E c \in [1 .. Len(l) -> Parts(d)] : IsChain(d, l, c) /\ (whole => Ends(d, c, Len(l)))

IsList(d, l, whole) ==
    \/ ~whole /\ l = <<>>
    \/ IF BlockSizeOf(d) > MAX_BLOCK_SIZE \/ 0 \notin DOMAIN d.blocks THEN l = <<>>
       ELSE IF d.blocks[0].sig = "ER" THEN MacList(d, l, whole)
       ELSE IF d.blocks[0].aa55 THEN FdiskList(d, l)
       ELSE IF BlockSizeOf(d) = 2048 /\ Volumes(d) # {} THEN IsoList(d, l)
       ELSE AmigaList(d, l, whole)

(* The lookup takes the words of whatever block it is left with for those  *)
(* of a rigid disk block.  It is led astray unless the disk has at most    *)
(* one such block, among the first ones and not on a CD with a volume,     *)
(* whose limit is not below a partition block, and no other block's word   *)
(* in its place leads to a partition block.                                *)
Unambiguous(d) ==
    /\ \A b \in Rdbs(d) : /\ Rdbs(d) = {b} /\ b < AMIGA_RDB_MAX
                           /\ 0 .. b \subseteq DOMAIN d.blocks /\ Volumes(d) = {}
                           /\ Parts(d) \subseteq Tracked(d.blocks[b])
    /\ \A b \in DOMAIN d.blocks \ Rdbs(d) : d.blocks[b].first \notin Parts(d)

(* The list is the disk's partition table, read in the format the disk     *)
(* has; a failure cuts it short but never makes entries up.  This is what  *)
(* FileOpen takes partitions_lookup to return.                             *)
ListIsTable ==
    pc \in {"list", "done"} /\ Unambiguous(disk) => IsList(disk, list, faults = 0)

(* The lookup ends, also on an Amiga list that loops, unless it has        *)
(* written where it should not: behind used[], for a partition block above *)
(* the limit the disk states, or at 0, for want of memory for an entry.    *)
LookupEnds == (pc = "open") ~> (pc \in {"done", "wild"})
=============================================================================
