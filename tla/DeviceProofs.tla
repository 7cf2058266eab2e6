---------------------------- MODULE DeviceProofs ----------------------------
(***************************************************************************)
(* What partitions_lookup returns is the partition table of the disk, for  *)
(* every set of disks and whichever reads fail; and parse_device_path      *)
(* takes a path apart where it was put together, for all names: a local    *)
(* one into its device, partition and file, a network one into its         *)
(* addresses, to which the bootp reply adds only what is missing.          *)
(***************************************************************************)
EXTENDS Device, WellFoundedInduction, TLAPS

Entries == [num : Int, start : Int, bsz : Int, ptype : {"mapped", "Linux", "none"}]

Types ==
    /\ pc \in {"start", "parsed", "open", "mac", "iso", "rdb", "reread", "used", "amiga",
               "list", "done", "failed", "wild"}
    /\ pc \notin {"start", "parsed", "failed"} => disk \in Disks
    /\ block_buffer \in Block /\ block \in Int /\ map_size \in Nat /\ bsz \in Nat
    /\ list \in Seq(Entries) /\ faults \in Nat

(* Block 0 could be read, and has neither a Macintosh nor an fdisk table.  *)
Detected == BlockSize <= MAX_BLOCK_SIZE /\ 0 \in DOMAIN disk.blocks

Plain == Detected /\ disk.blocks[0].sig # "ER" /\ ~disk.blocks[0].aa55

HasVolume == BlockSize = 2048 /\ Volumes(disk) # {}

(* The buffer holds a block of the disk.                                   *)
Buffered == block_buffer \in {disk.blocks[b] : b \in DOMAIN disk.blocks}

(* Before a table is walked nothing is in the list.                        *)
Fresh == pc \notin {"mac", "amiga", "list", "done", "wild"} => list = <<>>

(* The Macintosh map has been read up to the block before this one.        *)
InMac ==
    pc = "mac" =>
        /\ Detected /\ disk.blocks[0].sig = "ER" /\ bsz = disk.blocks[0].bsz
        /\ MacList(disk, list, FALSE)
        /\ block = Len(list) + 1
        /\ map_size = IF block = 1 THEN 1 ELSE disk.blocks[1].count

(* No volume descriptor is before this block.                              *)
InIso ==
    pc = "iso" =>
        /\ Plain /\ BlockSize = 2048 /\ Buffered /\ block >= IsoFirst
        /\ \A b \in IsoFirst .. block - 1 : b \in DOMAIN disk.blocks /\ ~disk.blocks[b].iso

(* No rigid disk block is before this block, but perhaps block 0, whose    *)
(* place in the buffer the search for volumes may have taken.              *)
InRdb ==
    pc = "rdb" =>
        /\ Plain /\ Buffered /\ 0 .. block \subseteq DOMAIN disk.blocks /\ block >= 0
        /\ faults = 0 => ~HasVolume
        /\ block > 0 => block_buffer = disk.blocks[block]
        /\ \A b \in 1 .. block - 1 : b \notin Rdbs(disk)

InReread ==
    pc = "reread" =>
        /\ Plain /\ Buffered
        /\ faults = 0 => ~HasVolume
        /\ Unambiguous(disk) /\ faults = 0 => Rdbs(disk) \subseteq {0}

(* The list starts from a word of some block; unless something failed, of  *)
(* the rigid disk block if there is one.  So does the size of used[].      *)
Started ==
    \E b \in DOMAIN disk.blocks :
        /\ block = disk.blocks[b].first /\ DOMAIN used = Tracked(disk.blocks[b])
        /\ Unambiguous(disk) /\ faults = 0 => ~HasVolume /\ (Rdbs(disk) = {} \/ b \in Rdbs(disk))

Visited == {b \in DOMAIN used : used[b]}

InUsed == pc = "used" => Plain /\ Started /\ Visited = {} /\ map_size = 1

(* The blocks of the list are those of a chain, which this block may       *)
(* continue.                                                               *)
Walked(c) ==
    /\ IsChain(disk, list, c)
    /\ Visited = {c[i] : i \in 1 .. Len(list)}
    /\ IF Len(list) = 0 THEN Started
       ELSE /\ block = disk.blocks[c[Len(list)]].link /\ ~HasVolume
            /\ Parts(disk) \subseteq DOMAIN used

InAmiga ==
    pc = "amiga" =>
        /\ Plain /\ map_size = Len(list) + 1
        /\ Unambiguous(disk) => \E c \in [1 .. Len(list) -> Parts(disk)] : Walked(c)

DInv == Types /\ Fresh /\ InMac /\ InIso /\ InRdb /\ InReread /\ InUsed /\ InAmiga /\ ListIsTable

-----------------------------------------------------------------------------
(* What the assumption says of the disk in the drive.                      *)
LEMMA DiskFacts ==
    ASSUME Types, pc \notin {"start", "parsed", "failed"}
    PROVE  /\ disk.blksize \in Nat /\ DOMAIN disk.blocks \subseteq Nat
           /\ \A b \in DOMAIN disk.blocks : disk.blocks[b] \in Block
BY DeviceAssumption DEF Types

(* An entry in front of a list.                                            *)
LEMMA EntryType ==
    ASSUME NEW n \in Int, NEW start \in Int, NEW size \in Int, NEW ptype \in {"mapped", "Linux", "none"}
    PROVE  Entry(n, start, size, ptype) \in Entries
BY DEF Entry, Entries

LEMMA Prepending ==
    ASSUME NEW l \in Seq(Entries), NEW e \in Entries, NEW l2, l2 = <<e>> \o l
    PROVE  /\ l2 \in Seq(Entries)
           /\ Len(l2) = Len(l) + 1
           /\ l2[1] = e
           /\ \A i \in 1 .. Len(l) : l2[i + 1] = l[i]
           /\ \A i \in 2 .. Len(l) + 1 : l2[i] = l[i - 1]
<1> <<e>> \in Seq(Entries)
  OBVIOUS
<1> QED OBVIOUS

-----------------------------------------------------------------------------
(* The fdisk table: the entries of its first k places.                     *)
FdiskTo(b, l, k) ==
    /\ l \in Seq(Entries)
    /\ \A p \in 1 .. k : IsLinux(b, p) => \E i \in 1 .. Len(l) : l[i].num = p
    /\ \A i \in 1 .. Len(l) :
          /\ l[i].num \in Int /\ 1 <= l[i].num /\ l[i].num <= k
          /\ IsLinux(b, l[i].num)
          /\ l[i] = Entry(l[i].num, b.start + l[i].num, 512, "Linux")
    /\ \A i, j \in 1 .. Len(l) : i < j => l[i].num > l[j].num

FdiskEntry(b, i) ==
    IF IsLinux(b, i) THEN <<Entry(i, b.start + i, 512, "Linux")>> ELSE <<>>

LEMMA FdiskSkip ==
    ASSUME NEW b, NEW k \in Nat, NEW l, FdiskTo(b, l, k), ~IsLinux(b, k + 1)
    PROVE  FdiskTo(b, l, k + 1)
<1>1. \A p \in 1 .. k + 1 : IsLinux(b, p) => p \in 1 .. k
  OBVIOUS
<1>2. \A p \in 1 .. k + 1 : IsLinux(b, p) => \E i \in 1 .. Len(l) : l[i].num = p
  BY <1>1 DEF FdiskTo
<1>3. \A i \in 1 .. Len(l) : l[i].num \in Int /\ 1 <= l[i].num /\ l[i].num <= k + 1
  BY DEF FdiskTo
<1> QED BY <1>2, <1>3 DEF FdiskTo

LEMMA FdiskAdd ==
    ASSUME NEW b, b.start \in Nat, NEW k \in Nat, NEW l, FdiskTo(b, l, k), IsLinux(b, k + 1)
    PROVE  FdiskTo(b, <<Entry(k + 1, b.start + (k + 1), 512, "Linux")>> \o l, k + 1)
<1> DEFINE e == Entry(k + 1, b.start + (k + 1), 512, "Linux")
           l2 == <<e>> \o l
<1>1. l \in Seq(Entries) /\ Len(l) \in Nat
  BY DEF FdiskTo
<1>2. e \in Entries /\ e.num = k + 1 /\ e = Entry(e.num, b.start + e.num, 512, "Linux")
  BY DEF Entry, Entries
<1> HIDE DEF e
<1>3. /\ l2 \in Seq(Entries) /\ Len(l2) = Len(l) + 1 /\ l2[1] = e
      /\ \A i \in 1 .. Len(l) : l2[i + 1] = l[i]
      /\ \A i \in 2 .. Len(l) + 1 : l2[i] = l[i - 1]
  BY <1>1, <1>2, Prepending
<1> HIDE DEF l2
<1>4. ASSUME NEW p \in 1 .. k + 1, IsLinux(b, p)
      PROVE  \E i \in 1 .. Len(l2) : l2[i].num = p
  <2>1. CASE p = k + 1
    BY <1>1, <1>2, <1>3, <2>1
  <2>2. CASE p # k + 1
    <3>1. p \in 1 .. k
      BY <2>2
    <3>2. PICK i \in 1 .. Len(l) : l[i].num = p
      BY <1>4, <3>1 DEF FdiskTo
    <3> QED BY <1>1, <1>3, <3>2
  <2> QED BY <2>1, <2>2
<1>5. ASSUME NEW i \in 1 .. Len(l2)
      PROVE  /\ l2[i].num \in Int /\ 1 <= l2[i].num /\ l2[i].num <= k + 1
             /\ IsLinux(b, l2[i].num)
             /\ l2[i] = Entry(l2[i].num, b.start + l2[i].num, 512, "Linux")
  <2>1. CASE i = 1
    BY <1>2, <1>3, <2>1
  <2>2. CASE i # 1
    <3>1. i - 1 \in 1 .. Len(l) /\ l2[i] = l[i - 1]
      BY <1>1, <1>3, <2>2
    <3> DEFINE x == l[i - 1]
    <3>2. /\ x.num \in Int /\ 1 <= x.num /\ x.num <= k /\ IsLinux(b, x.num)
          /\ x = Entry(x.num, b.start + x.num, 512, "Linux")
      BY <3>1 DEF FdiskTo
    <3> QED BY <3>1, <3>2
  <2> QED BY <2>1, <2>2
<1>6. ASSUME NEW i \in 1 .. Len(l2), NEW j \in 1 .. Len(l2), i < j
      PROVE  l2[i].num > l2[j].num
  <2>1. j - 1 \in 1 .. Len(l) /\ l2[j] = l[j - 1]
    BY <1>1, <1>3, <1>6
  <2>2. CASE i = 1
    <3>1. l[j - 1].num \in Int /\ l[j - 1].num <= k
      BY <2>1 DEF FdiskTo
    <3> QED BY <1>2, <1>3, <2>1, <2>2, <3>1
  <2>3. CASE i # 1
    <3>1. i - 1 \in 1 .. Len(l) /\ l2[i] = l[i - 1] /\ i - 1 < j - 1
      BY <1>1, <1>3, <1>6, <2>3
    <3>2. l[i - 1].num > l[j - 1].num
      BY <2>1, <3>1 DEF FdiskTo
    <3> QED BY <2>1, <3>1, <3>2
  <2> QED BY <2>2, <2>3
<1>7. FdiskTo(b, l2, k + 1)
  BY <1>3, <1>4, <1>5, <1>6 DEF FdiskTo
<1> QED BY <1>7 DEF l2, e

LEMMA FdiskOne ==
    ASSUME NEW b, b.start \in Nat, NEW k \in Nat, NEW l, FdiskTo(b, l, k)
    PROVE  FdiskTo(b, FdiskEntry(b, k + 1) \o l, k + 1)
<1>1. CASE ~IsLinux(b, k + 1)
  <2>1. FdiskEntry(b, k + 1) \o l = l
    BY <1>1 DEF FdiskEntry, FdiskTo
  <2> QED BY <1>1, <2>1, FdiskSkip
<1>2. CASE IsLinux(b, k + 1)
  <2>1. FdiskEntry(b, k + 1) = <<Entry(k + 1, b.start + (k + 1), 512, "Linux")>>
    BY <1>2 DEF FdiskEntry
  <2> QED BY <1>2, <2>1, FdiskAdd
<1> QED BY <1>1, <1>2

LEMMA FdiskRight ==
    ASSUME NEW d, 0 \in DOMAIN d.blocks, d.blocks[0] \in Block
    PROVE  /\ FdiskEntries(d.blocks[0]) \in Seq(Entries)
           /\ FdiskList(d, FdiskEntries(d.blocks[0]))
<1> DEFINE b == d.blocks[0]
           l1 == FdiskEntry(b, 1) \o <<>>
           l2 == FdiskEntry(b, 2) \o l1
           l3 == FdiskEntry(b, 3) \o l2
           l4 == FdiskEntry(b, 4) \o l3
<1>0. b.start \in Nat
  BY DEF Block
<1> HIDE DEF b
<1>1. FdiskTo(b, <<>>, 0)
  BY DEF FdiskTo
<1>2. FdiskTo(b, l1, 1)
  <2>1. FdiskTo(b, FdiskEntry(b, 0 + 1) \o <<>>, 0 + 1)
    BY <1>0, <1>1, FdiskOne
  <2> QED BY <2>1
<1> HIDE DEF l1
<1>3. FdiskTo(b, l2, 2)
  <2>1. FdiskTo(b, FdiskEntry(b, 1 + 1) \o l1, 1 + 1)
    BY <1>0, <1>2, FdiskOne
  <2> QED BY <2>1
<1> HIDE DEF l2
<1>4. FdiskTo(b, l3, 3)
  <2>1. FdiskTo(b, FdiskEntry(b, 2 + 1) \o l2, 2 + 1)
    BY <1>0, <1>3, FdiskOne
  <2> QED BY <2>1
<1> HIDE DEF l3
<1>5. FdiskTo(b, l4, 4)
  <2>1. FdiskTo(b, FdiskEntry(b, 3 + 1) \o l3, 3 + 1)
    BY <1>0, <1>4, FdiskOne
  <2> QED BY <2>1
<1>6. FdiskEntries(b) = l4
  BY DEF l1, l2, l3, FdiskEntries, FdiskEntry
<1> HIDE DEF l4
<1>7. FdiskList(d, l4)
  <2>1. l4 \in Seq(Entries) /\ DOMAIN l4 = 1 .. Len(l4)
    BY <1>5 DEF FdiskTo
  <2>2. {l4[i].num : i \in DOMAIN l4} = {p \in 1 .. 4 : IsLinux(b, p)}
    <3>1. ASSUME NEW i \in DOMAIN l4
          PROVE  l4[i].num \in 1 .. 4 /\ IsLinux(b, l4[i].num)
      BY <1>5, <2>1 DEF FdiskTo
    <3>2. ASSUME NEW p \in 1 .. 4, IsLinux(b, p)
          PROVE  \E i \in DOMAIN l4 : l4[i].num = p
      BY <1>5, <2>1, <3>2 DEF FdiskTo
    <3> QED BY <3>1, <3>2
  <2> QED BY <1>5, <2>1, <2>2 DEF FdiskTo, FdiskList, b
<1> QED BY <1>5, <1>6, <1>7 DEF FdiskTo, b

-----------------------------------------------------------------------------
(* The walk of a table is over: only the list matters from now on.         *)
LEMMA ToList ==
    ASSUME Types', pc' \in {"list", "done"}, ListIsTable'
    PROVE  DInv'
BY DEF DInv, Fresh, InMac, InIso, InRdb, InReread, InUsed, InAmiga

(* Nothing is said of a lookup that has written elsewhere.                 *)
LEMMA GoesAstray ==
    ASSUME DInv, pc \in {"open", "mac", "iso", "amiga"}, Astray, disk' = disk,
           faults' \in Nat, block_buffer' \in Block
    PROVE  DInv'
BY DEF DInv, Types, Astray, Fresh, InMac, InIso, InRdb, InReread, InUsed, InAmiga, ListIsTable

(* A failure before anything was found.                                    *)
LEMMA NothingYet ==
    ASSUME Types, list' = <<>>, faults' \in Nat, faults' # 0
    PROVE  ListIsTable'
BY DEF ListIsTable, IsList

LEMMA StepInit == Init => DInv
<1> SUFFICES ASSUME Init PROVE DInv
  OBVIOUS
<1>1. NoBlock \in Block
  BY DEF NoBlock, Block
<1> QED BY <1>1 DEF Init, DInv, Types, Fresh, InMac, InIso, InRdb, InReread, InUsed, InAmiga, ListIsTable

LEMMA StepParse ==
    ASSUME DInv, NEW in, ParsePath(in)
    PROVE  DInv'
BY DEF ParsePath, DInv, Types, Fresh, InMac, InIso, InRdb, InReread, InUsed, InAmiga, ListIsTable

LEMMA StepLookup ==
    ASSUME DInv, NEW d \in Disks, partitions_lookup(d)
    PROVE  DInv'
BY DEF partitions_lookup, DInv, Types, Fresh, InMac, InIso, InRdb, InReread, InUsed, InAmiga,
       ListIsTable

LEMMA StepStutter ==
    ASSUME DInv, UNCHANGED vars
    PROVE  DInv'
<1> USE DEF vars
<1>1. Types' /\ Fresh' /\ ListIsTable'
  BY DEF DInv, Types, Fresh, ListIsTable
<1>2. InMac' /\ InIso'
  BY DEF DInv, InMac, InIso, Detected, Plain, Buffered, BlockSize, MacList
<1>3. InRdb' /\ InReread'
  BY DEF DInv, InRdb, InReread, Detected, Plain, Buffered, HasVolume, BlockSize
<1>4. InUsed'
  BY DEF DInv, InUsed, Visited, Detected, Plain, Started, HasVolume, BlockSize
<1>5. InAmiga'
  BY DEF DInv, InAmiga, Walked, Visited, Detected, Plain, Started, HasVolume, BlockSize
<1> QED BY <1>1, <1>2, <1>3, <1>4, <1>5 DEF DInv

LEMMA StepType ==
    ASSUME DInv, get_part_type
    PROVE  DInv'
<1>1. Types' /\ pc' \in {"list", "done"}
  BY DEF get_part_type, DInv, Types
<1>2. ListIsTable'
  BY DEF get_part_type, DInv, ListIsTable
<1> QED BY <1>1, <1>2, ToList

LEMMA StepNotOpened ==
    ASSUME DInv, NotOpened
    PROVE  DInv'
<1>1. Types' /\ pc' \in {"list", "done"} /\ list' = <<>> /\ disk' = disk /\ list = <<>>
  BY DEF NotOpened, ReadFails, Bail, Walking, DInv, Types, Fresh
<1>2. ListIsTable'
  <2>1. CASE BlockSize > MAX_BLOCK_SIZE
    BY <1>1, <2>1 DEF ListIsTable, IsList, BlockSize
  <2>2. CASE ReadFails(0)
    BY <1>1, <2>2 DEF ReadFails, ListIsTable, IsList, DInv, Types
  <2> QED BY <2>1, <2>2 DEF NotOpened
<1> QED BY <1>1, <1>2, ToList

LEMMA StepDetect ==
    ASSUME DInv, Detect
    PROVE  DInv'
<1> DEFINE b == disk.blocks[0]
<1>1. /\ disk \in Disks /\ disk' = disk /\ faults' = faults /\ list = <<>>
      /\ 0 \in DOMAIN disk.blocks /\ block_buffer' = b /\ b \in Block
      /\ BlockSize <= MAX_BLOCK_SIZE
  BY DiskFacts DEF Detect, Reads, Walking, DInv, Types, Fresh
<1>2. faults' \in Nat /\ list \in Seq(Entries)
  BY <1>1 DEF DInv, Types
<1>3. CASE b.sig = "ER" /\ pc' = "mac" /\ block' = 1 /\ map_size' = 1 /\ bsz' = b.bsz /\ list' = list
  <2>4. bsz' \in Nat
    <3> HIDE DEF b
    <3> QED BY <1>1, <1>3 DEF Block
  <2>1. Types'
    BY <1>1, <1>2, <1>3, <2>4 DEF Types
  <2>2. MacList(disk, <<>>, FALSE)
    BY DEF MacList
  <2>5. /\ list' = <<>> /\ Len(<<>>) = 0 /\ disk' = disk /\ BlockSize' = BlockSize
        /\ bsz' = disk.blocks[0].bsz /\ disk.blocks[0].sig = "ER" /\ block' = 1
    BY <1>1, <1>3 DEF BlockSize
  <2>6. Detected'
    BY <1>1, <2>5 DEF Detected
  <2> HIDE DEF b
  <2>3. InMac'
    BY <1>1, <1>3, <2>2, <2>5, <2>6 DEF InMac
  <2> QED BY <1>1, <1>3, <2>1, <2>3
        DEF DInv, Fresh, InIso, InRdb, InReread, InUsed, InAmiga, ListIsTable
<1>4. CASE b.sig # "ER" /\ b.aa55 /\ partition_fdisk_lookup
  <2>1. FdiskEntries(b) \in Seq(Entries) /\ FdiskList(disk, FdiskEntries(b))
    BY <1>1, FdiskRight
  <2>2. Types' /\ pc' = "list" /\ list' = FdiskEntries(b)
    BY <1>1, <1>2, <1>4, <2>1 DEF Types, partition_fdisk_lookup, DInv
  <2>3. ListIsTable'
    <3>1. ~(BlockSizeOf(disk) > MAX_BLOCK_SIZE \/ 0 \notin DOMAIN disk.blocks)
      BY <1>1, DeviceAssumption DEF BlockSize, BlockSizeOf
    <3>2. IsList(disk', list', (faults = 0)')
      BY <1>1, <1>4, <2>1, <2>2, <3>1, Zenon DEF IsList
    <3> QED BY <3>2 DEF ListIsTable
  <2> QED BY <2>2, <2>3, ToList
<1>5. CASE /\ b.sig # "ER" /\ ~b.aa55 /\ BlockSize = 2048
           /\ pc' = "iso" /\ block' = IsoFirst /\ UNCHANGED <<map_size, bsz, used, list>>
  <2>1. Types'
    BY <1>1, <1>2, <1>5, DeviceAssumption DEF Types, DInv
  <2>2. InIso'
    BY <1>1, <1>5, DeviceAssumption DEF InIso, Plain, Detected, BlockSize, Buffered
  <2> QED BY <1>1, <1>5, <2>1, <2>2
        DEF DInv, Fresh, InMac, InRdb, InReread, InUsed, InAmiga, ListIsTable
<1>6. CASE /\ b.sig # "ER" /\ ~b.aa55 /\ BlockSize # 2048
           /\ pc' = "rdb" /\ block' = 0 /\ UNCHANGED <<map_size, bsz, used, list>>
  <2>1. Types'
    BY <1>1, <1>2, <1>6 DEF Types, DInv
  <2>2. 0 .. 0 \subseteq DOMAIN disk.blocks
    BY <1>1
  <2>3. InRdb'
    BY <1>1, <1>6, <2>2 DEF InRdb, Plain, Detected, BlockSize, Buffered, HasVolume
  <2> QED BY <1>1, <1>6, <2>1, <2>3
        DEF DInv, Fresh, InMac, InIso, InReread, InUsed, InAmiga, ListIsTable
<1> QED BY <1>1, <1>3, <1>4, <1>5, <1>6 DEF Detect

-----------------------------------------------------------------------------
(* Macintosh: an entry is added, or the map ends.                          *)
LEMMA StepMac ==
    ASSUME DInv, partition_mac_lookup
    PROVE  DInv'
<1> DEFINE n == Len(list)
<1>1. /\ pc = "mac" /\ disk \in Disks /\ disk' = disk
      /\ block \in Int /\ map_size \in Nat /\ list \in Seq(Entries) /\ faults \in Nat
      /\ bsz \in Nat /\ block_buffer \in Block
  BY DEF partition_mac_lookup, Walking, DInv, Types
<1>2. /\ DOMAIN disk.blocks \subseteq Nat /\ disk.blksize \in Nat
      /\ \A b \in DOMAIN disk.blocks : disk.blocks[b] \in Block
  BY <1>1, DiskFacts DEF DInv
<1>3. /\ BlockSizeOf(disk) <= MAX_BLOCK_SIZE /\ 0 \in DOMAIN disk.blocks
      /\ disk.blocks[0].sig = "ER" /\ bsz = disk.blocks[0].bsz
      /\ block = n + 1 /\ n \in Nat
      /\ map_size = IF block = 1 THEN 1 ELSE disk.blocks[1].count
  BY <1>1 DEF DInv, InMac, Detected, BlockSize
<1>4. /\ 1 .. n \subseteq Maps(disk)
      /\ n > 1 => n <= disk.blocks[1].count
      /\ \A i \in 1 .. n :
            list[i] = Entry(n + 1 - i, disk.blocks[n + 1 - i].start, disk.blocks[0].bsz, "mapped")
  BY <1>1 DEF DInv, InMac, MacList
<1>5. ASSUME Bail, faults' \in Nat, block_buffer' \in Block,
             faults' = 0 => \/ n + 1 \notin Maps(disk)
                            \/ n > 0 /\ n >= disk.blocks[1].count
      PROVE  DInv'
  <2>1. Types' /\ pc' = "list" /\ list' = list
    BY <1>1, <1>5 DEF Bail, Types
  <2>2. IsList(disk', list', (faults = 0)')
    BY <1>1, <1>2, <1>3, <1>4, <1>5, <2>1, DeviceAssumption DEF IsList, MacList, BlockSizeOf
  <2> QED BY <2>1, <2>2, ToList DEF ListIsTable
<1>6. CASE block >= map_size + 1 /\ Bail /\ UNCHANGED <<block_buffer, faults>>
  <2>1. n > 0 /\ n >= disk.blocks[1].count
    BY <1>1, <1>3, <1>6
  <2> QED BY <1>1, <1>5, <1>6, <2>1
<1>7. CASE ReadFails(block) /\ Bail
  <2>1. faults' = 0 => n + 1 \notin Maps(disk)
    BY <1>1, <1>3, <1>7 DEF ReadFails, Maps
  <2> QED BY <1>1, <1>5, <1>7, <2>1 DEF ReadFails
<1>8. CASE Reads(block) /\ block_buffer'.sig # "PM" /\ Bail
  <2>1. n + 1 \notin Maps(disk)
    BY <1>3, <1>8 DEF Reads, Maps
  <2> QED BY <1>1, <1>2, <1>5, <1>8, <2>1 DEF Reads
<1>9. CASE /\ block < map_size + 1 /\ Reads(block) /\ block_buffer'.sig = "PM"
           /\ map_size' = MapSize(block_buffer')
           /\ list' = add_new_partition(block, block_buffer'.start, bsz, "mapped")
           /\ block' = block + 1 /\ UNCHANGED <<pc, bsz, used>>
  <2> DEFINE e == Entry(block, disk.blocks[block].start, bsz, "mapped")
  <2>1. /\ block \in DOMAIN disk.blocks /\ block_buffer' = disk.blocks[block]
        /\ disk.blocks[block] \in Block /\ faults' = faults /\ block \in Maps(disk)
    BY <1>2, <1>9 DEF Reads, Maps
  <2>2. e \in Entries
    <3>1. disk.blocks[block].start \in Nat
      BY <2>1 DEF Block
    <3>2. disk.blocks[block].start \in Int /\ block \in Int /\ bsz \in Int
      BY <1>1, <3>1
    <3> QED BY <3>2 DEF Entry, Entries
  <2>3. list' = <<e>> \o list
    BY <1>9, <2>1 DEF add_new_partition
  <2> HIDE DEF e
  <2>4. /\ list' \in Seq(Entries) /\ Len(list') = n + 1 /\ list'[1] = e
        /\ \A i \in 1 .. n : list'[i + 1] = list[i]
        /\ \A i \in 2 .. n + 1 : list'[i] = list[i - 1]
    BY <1>1, <2>2, <2>3, Prepending
  <2>5. /\ map_size' = disk.blocks[1].count /\ map_size' \in Nat
    BY <1>1, <1>3, <1>9, <2>1 DEF MapSize, Block
  <2>6. Types'
    BY <1>1, <1>9, <2>1, <2>4, <2>5 DEF Types
  <2>7. MacList(disk, list', FALSE)
    <3>1. 1 .. n + 1 \subseteq Maps(disk)
      BY <1>3, <1>4, <2>1
    <3>2. n + 1 > 1 => n + 1 <= disk.blocks[1].count
      BY <1>1, <1>3, <1>9
    <3>3. ASSUME NEW i \in 1 .. n + 1
          PROVE  list'[i] = Entry(n + 1 + 1 - i, disk.blocks[n + 1 + 1 - i].start,
                                  disk.blocks[0].bsz, "mapped")
      <4>1. CASE i = 1
        BY <1>3, <2>4, <4>1 DEF e
      <4>2. CASE i # 1
        <5>1. i - 1 \in 1 .. n /\ n + 1 - (i - 1) = n + 1 + 1 - i /\ list'[i] = list[i - 1]
          BY <1>3, <2>4, <4>2
        <5> QED BY <1>4, <5>1
      <4> QED BY <4>1, <4>2
    <3> QED BY <2>4, <3>1, <3>2, <3>3 DEF MacList
  <2>8. InMac'
    <3>1. block' = Len(list') + 1 /\ block' # 1
      BY <1>3, <1>9, <2>4
    <3> QED BY <1>1, <1>3, <1>9, <2>5, <2>7, <3>1 DEF InMac, Detected, BlockSize
  <2> QED BY <1>1, <1>9, <2>6, <2>8
        DEF DInv, Fresh, InIso, InRdb, InReread, InUsed, InAmiga, ListIsTable
<1> QED BY <1>6, <1>7, <1>8, <1>9 DEF partition_mac_lookup

(* ISO 9660: the volume is found, the search goes on, or it is given up.   *)
LEMMA StepIso ==
    ASSUME DInv, identify_iso_fs
    PROVE  DInv'
<1>1. /\ pc = "iso" /\ disk \in Disks /\ disk' = disk /\ list = <<>>
      /\ block \in Int /\ map_size \in Nat /\ list \in Seq(Entries) /\ faults \in Nat
      /\ bsz \in Nat /\ block_buffer \in Block
  BY DEF identify_iso_fs, Walking, DInv, Types, Fresh
<1>2. /\ DOMAIN disk.blocks \subseteq Nat /\ disk.blksize \in Nat
      /\ \A b \in DOMAIN disk.blocks : disk.blocks[b] \in Block
  BY <1>1, DiskFacts DEF DInv
<1>3. /\ Plain /\ BlockSizeOf(disk) = 2048 /\ Buffered /\ block >= IsoFirst /\ block \in Nat
      /\ \A b \in IsoFirst .. block - 1 : b \in DOMAIN disk.blocks /\ ~disk.blocks[b].iso
  BY <1>1, DeviceAssumption DEF DInv, InIso, BlockSize
<1>4. CASE /\ block < IsoLast /\ Reads(block) /\ block_buffer'.iso
           /\ list' = add_new_partition(0, block, BlockSize, "none")
           /\ pc' = "list" /\ UNCHANGED <<block, map_size, bsz, used>>
  <2> DEFINE e == Entry(0, block, 2048, "none")
  <2>1. e \in Entries
    BY <1>1 DEF Entry, Entries
  <2>9. /\ list' = add_new_partition(0, block, BlockSize, "none") /\ block < IsoLast
        /\ pc' = "list" /\ UNCHANGED <<block, map_size, bsz, used>>
    BY <1>4, Zenon
  <2>2. list' = <<e>> \o list
    BY <1>3, <2>9 DEF add_new_partition, BlockSize
  <2> HIDE DEF e
  <2>0. list' \in Seq(Entries) /\ list' = <<e>>
    BY <1>1, <2>1, <2>2
  <2>3. block_buffer' \in Block /\ faults' = faults /\ block \in DOMAIN disk.blocks
        /\ disk.blocks[block].iso
    BY <1>2, <1>4 DEF Reads
  <2>4. Types'
    BY <1>1, <1>4, <2>0, <2>3 DEF Types
  <2>5. block \in Volumes(disk)
    <3>1. IsoFirst .. block \subseteq DOMAIN disk.blocks
      BY <1>1, <1>3, <2>3, DeviceAssumption
    <3>2. block \in IsoFirst .. IsoLast - 1
      BY <1>3, <2>9, DeviceAssumption
    <3> QED BY <2>3, <3>1, <3>2 DEF Volumes
  <2>6. \A w \in Volumes(disk) : block <= w
    BY <1>2, <1>3, DeviceAssumption DEF Volumes
  <2>7. IsoList(disk, list')
    BY <2>0, <2>5, <2>6 DEF IsoList, e
  <2>8. IsList(disk', list', (faults = 0)')
    BY <1>1, <1>3, <2>5, <2>7, DeviceAssumption DEF IsList, Plain, Detected, BlockSize
  <2> QED BY <1>4, <2>4, <2>8, ToList DEF ListIsTable
<1>5. CASE /\ block < IsoLast /\ Reads(block) /\ ~block_buffer'.iso
           /\ block' = block + 1 /\ UNCHANGED <<pc, map_size, bsz, used, list>>
  <2>1. block_buffer' \in Block /\ faults' = faults /\ block \in DOMAIN disk.blocks
        /\ ~disk.blocks[block].iso /\ block_buffer' = disk.blocks[block]
    BY <1>2, <1>5 DEF Reads
  <2>2. Types'
    BY <1>1, <1>5, <2>1 DEF Types
  <2>3. InIso'
    <3>1. ASSUME NEW b \in IsoFirst .. block' - 1
          PROVE  b \in DOMAIN disk.blocks /\ ~disk.blocks[b].iso
      <4>1. b = block \/ b \in IsoFirst .. block - 1
        BY <1>3, <1>5, DeviceAssumption
      <4> QED BY <1>3, <2>1, <4>1
    <3> QED BY <1>1, <1>3, <1>5, <2>1, <3>1, DeviceAssumption
          DEF InIso, Plain, Detected, BlockSize, Buffered
  <2> QED BY <1>1, <1>5, <2>2, <2>3
        DEF DInv, Fresh, InMac, InRdb, InReread, InUsed, InAmiga, ListIsTable
<1>6. CASE /\ \/ block < IsoLast /\ ReadFails(block)
              \/ block >= IsoLast /\ UNCHANGED <<block_buffer, faults>>
           /\ pc' = "rdb" /\ block' = 0 /\ UNCHANGED <<map_size, bsz, used, list>>
  <2>1. faults' \in Nat /\ block_buffer' = block_buffer
    BY <1>1, <1>6 DEF ReadFails
  <2>2. Types'
    BY <1>1, <1>6, <2>1 DEF Types
  <2>3. faults' = 0 => ~HasVolume
    <3> SUFFICES ASSUME faults' = 0, NEW v \in Volumes(disk)
                 PROVE  FALSE
      BY DEF HasVolume
    <3>1. /\ v \in Nat /\ IsoFirst <= v /\ v < IsoLast /\ v \in DOMAIN disk.blocks
          /\ disk.blocks[v].iso /\ IsoFirst .. v \subseteq DOMAIN disk.blocks
      BY <1>2, DeviceAssumption DEF Volumes
    <3>2. v >= block
      BY <1>3, <3>1, DeviceAssumption
    <3>3. block \in DOMAIN disk.blocks /\ block < IsoLast
      BY <1>3, <3>1, <3>2, DeviceAssumption
    <3> QED BY <1>1, <1>6, <3>3, DeviceAssumption DEF ReadFails
  <2>4. 0 .. 0 \subseteq DOMAIN disk.blocks
    BY <1>3 DEF Plain, Detected
  <2>5. InRdb'
    BY <1>1, <1>3, <1>6, <2>1, <2>3, <2>4
       DEF InRdb, Plain, Detected, BlockSize, Buffered, HasVolume
  <2> QED BY <1>1, <1>6, <2>2, <2>5
        DEF DInv, Fresh, InMac, InIso, InReread, InUsed, InAmiga, ListIsTable
<1> QED BY <1>4, <1>5, <1>6 DEF identify_iso_fs

-----------------------------------------------------------------------------
(* Amiga.  Where the walk starts.                                          *)
LEMMA Starting ==
    ASSUME DInv, pc \in {"rdb", "reread"}, NEW b \in DOMAIN disk.blocks, StartAmiga(disk.blocks[b]),
           disk' = disk, faults' \in Nat, block_buffer' \in Block, Plain,
           Unambiguous(disk) /\ faults' = 0 =>
               ~HasVolume /\ (Rdbs(disk) = {} \/ b \in Rdbs(disk))
    PROVE  DInv'
<1>1. disk \in Disks /\ disk.blocks[b].first \in Int /\ bsz \in Nat /\ list = <<>>
  BY DiskFacts DEF DInv, Types, Block, Fresh
<1>2. Types' /\ pc' = "used" /\ list' = <<>>
  BY <1>1 DEF StartAmiga, DInv, Types
<1>3. InUsed'
  <2>1. Started'
    BY DEF StartAmiga, Started, HasVolume, BlockSize
  <2>2. Visited' = {}
    BY DEF StartAmiga, Visited
  <2> QED BY <2>1, <2>2 DEF InUsed, StartAmiga, Plain, Detected, BlockSize
<1> QED BY <1>2, <1>3 DEF DInv, Fresh, InMac, InIso, InRdb, InReread, InAmiga, ListIsTable

LEMMA StepFindRdb ==
    ASSUME DInv, _amiga_find_rdb
    PROVE  DInv'
<1>1. /\ pc = "rdb" /\ disk \in Disks /\ disk' = disk /\ list = <<>>
      /\ block \in Int /\ map_size \in Nat /\ faults \in Nat
      /\ bsz \in Nat /\ block_buffer \in Block
  BY DEF _amiga_find_rdb, Walking, DInv, Types, Fresh
<1>2. /\ DOMAIN disk.blocks \subseteq Nat
      /\ \A b \in DOMAIN disk.blocks : disk.blocks[b] \in Block
  BY <1>1, DiskFacts DEF DInv
<1>3. /\ Plain /\ Buffered /\ 0 .. block \subseteq DOMAIN disk.blocks /\ block \in Nat
      /\ faults = 0 => ~HasVolume
      /\ block > 0 => block_buffer = disk.blocks[block]
      /\ \A b \in 1 .. block - 1 : b \notin Rdbs(disk)
  BY <1>1 DEF DInv, InRdb
<1>4. CASE IsRdb(block_buffer) /\ StartAmiga(block_buffer) /\ UNCHANGED <<block_buffer, faults>>
  <2>1. PICK b \in DOMAIN disk.blocks : block_buffer = disk.blocks[b]
    BY <1>3 DEF Buffered
  <2>2. b \in Rdbs(disk)
    BY <1>4, <2>1 DEF Rdbs
  <2> QED BY <1>1, <1>3, <1>4, <2>1, <2>2, Starting
<1>5. CASE /\ ~IsRdb(block_buffer) /\ block + 1 < AMIGA_RDB_MAX
           /\ Reads(block + 1) /\ block' = block + 1
           /\ UNCHANGED <<pc, map_size, bsz, used, list>>
  <2>1. /\ block + 1 \in DOMAIN disk.blocks /\ faults' = faults
        /\ block_buffer' = disk.blocks[block + 1] /\ block_buffer' \in Block
    BY <1>2, <1>5 DEF Reads
  <2>2. Types'
    BY <1>1, <1>5, <2>1 DEF DInv, Types
  <2>3. InRdb'
    <3>1. 0 .. block + 1 \subseteq DOMAIN disk.blocks
      BY <1>3, <2>1
    <3>2. ASSUME NEW b \in 1 .. block
          PROVE  b \notin Rdbs(disk)
      <4>1. CASE b = block
        BY <1>3, <1>5, <4>1 DEF Rdbs
      <4> QED BY <1>3, <4>1
    <3> QED BY <1>1, <1>3, <1>5, <2>1, <3>1, <3>2
          DEF InRdb, Plain, Detected, Buffered, HasVolume, BlockSize
  <2> QED BY <1>1, <1>5, <2>2, <2>3
        DEF DInv, Fresh, InMac, InIso, InReread, InUsed, InAmiga, ListIsTable
<1>6. CASE /\ ~IsRdb(block_buffer)
           /\ \/ block + 1 < AMIGA_RDB_MAX /\ ReadFails(block + 1)
              \/ block + 1 >= AMIGA_RDB_MAX /\ UNCHANGED <<block_buffer, faults>>
           /\ pc' = "reread" /\ UNCHANGED <<block, map_size, bsz, used, list>>
  <2>1. block_buffer' = block_buffer /\ faults' \in Nat /\ (faults' = 0 => faults = 0)
    BY <1>1, <1>6 DEF ReadFails
  <2>2. Types'
    BY <1>1, <1>6, <2>1 DEF DInv, Types
  <2>3. ASSUME Unambiguous(disk), faults' = 0, NEW r \in Rdbs(disk)
        PROVE  r = 0
    <3>1. r \in Nat /\ r < AMIGA_RDB_MAX /\ 0 .. r \subseteq DOMAIN disk.blocks
      BY <1>2, <2>3 DEF Unambiguous, Rdbs
    <3>2. r <= block
      BY <1>1, <1>3, <1>6, <2>3, <3>1, DeviceAssumption DEF ReadFails
    <3>3. r = block => r = 0
      BY <1>3, <1>6 DEF Rdbs
    <3> QED BY <1>3, <3>1, <3>2, <3>3
  <2>4. InReread'
    BY <1>1, <1>3, <1>6, <2>1, <2>3 DEF InReread, Plain, Detected, Buffered, HasVolume, BlockSize
  <2> QED BY <1>1, <1>6, <2>2, <2>4
        DEF DInv, Fresh, InMac, InIso, InRdb, InUsed, InAmiga, ListIsTable
<1> QED BY <1>4, <1>5, <1>6 DEF _amiga_find_rdb

LEMMA StepReread ==
    ASSUME DInv, RereadBlock0
    PROVE  DInv'
<1>1. /\ pc = "reread" /\ disk \in Disks /\ disk' = disk /\ faults \in Nat
      /\ block_buffer \in Block
  BY DEF RereadBlock0, Walking, DInv, Types
<1>2. \A b \in DOMAIN disk.blocks : disk.blocks[b] \in Block
  BY <1>1, DiskFacts DEF DInv
<1>3. /\ Plain /\ Buffered /\ 0 \in DOMAIN disk.blocks
      /\ faults = 0 => ~HasVolume
      /\ Unambiguous(disk) /\ faults = 0 => Rdbs(disk) \subseteq {0}
  BY <1>1 DEF DInv, InReread, Plain, Detected
<1>4. CASE Reads(0)
  <2>1. block_buffer' = disk.blocks[0] /\ faults' = faults /\ StartAmiga(disk.blocks[0])
    BY <1>4 DEF Reads, RereadBlock0
  <2>2. Unambiguous(disk) /\ faults' = 0 =>
            ~HasVolume /\ (Rdbs(disk) = {} \/ 0 \in Rdbs(disk))
    BY <1>3, <2>1
  <2> QED BY <1>1, <1>2, <1>3, <2>1, <2>2, Starting
<1>5. CASE ReadFails(0)
  <2>1. block_buffer' = block_buffer /\ faults' \in Nat /\ faults' # 0
    BY <1>1, <1>3, <1>5 DEF ReadFails
  <2>2. PICK b \in DOMAIN disk.blocks : block_buffer = disk.blocks[b]
    BY <1>3 DEF Buffered
  <2>3. StartAmiga(disk.blocks[b])
    BY <2>1, <2>2 DEF RereadBlock0
  <2> QED BY <1>1, <1>2, <1>3, <2>1, <2>2, <2>3, Starting
<1> QED BY <1>4, <1>5 DEF RereadBlock0

LEMMA StepAllocUsed ==
    ASSUME DInv, AllocUsed
    PROVE  DInv'
<1>1. /\ pc = "used" /\ disk \in Disks /\ disk' = disk /\ list = <<>> /\ list' = <<>>
      /\ faults \in Nat /\ block_buffer' = block_buffer
      /\ UNCHANGED <<block, map_size, bsz, used>>
  BY DEF AllocUsed, Bail, Walking, DInv, Types, Fresh
<1>2. Plain /\ Started /\ Visited = {} /\ Visited' = {} /\ map_size = 1
  BY <1>1 DEF DInv, InUsed, Visited
<1>3. CASE pc' = "amiga" /\ faults' = faults
  <2>1. Types'
    BY <1>1, <1>3 DEF DInv, Types
  <2>2. \E c \in [1 .. Len(list') -> Parts(disk')] : Walked(c)'
    <3>1. Len(<<>>) = 0 /\ 1 .. 0 = {}
      OBVIOUS
    <3> DEFINE c == [i \in 1 .. 0 |-> 0]
    <3>2. c \in [1 .. 0 -> Parts(disk)]
      BY <3>1
    <3>3. IsChain(disk, <<>>, c)
      BY <3>1 DEF IsChain
    <3>4. Started'
      BY <1>1, <1>2, <1>3 DEF Started, HasVolume, BlockSize
    <3>5. Visited' = {c[i] : i \in 1 .. Len(list')}
      BY <1>1, <1>2, <3>1
    <3>6. Walked(c)'
      BY <1>1, <3>1, <3>3, <3>4, <3>5 DEF Walked
    <3> QED BY <1>1, <3>1, <3>2, <3>6
  <2>3. InAmiga'
    BY <1>1, <1>2, <2>2 DEF InAmiga, Plain, Detected, BlockSize
  <2> QED BY <1>1, <1>3, <2>1, <2>3
        DEF DInv, Fresh, InMac, InIso, InRdb, InReread, InUsed, ListIsTable
<1>4. CASE faults' = faults + 1 /\ Bail
  <2>1. Types' /\ pc' = "list"
    BY <1>1, <1>4 DEF Bail, DInv, Types
  <2>2. faults' \in Nat /\ faults' # 0
    BY <1>1, <1>4
  <2> QED BY <1>1, <2>1, <2>2, NothingYet, ToList DEF DInv
<1> QED BY <1>1, <1>3, <1>4 DEF AllocUsed

(* There is room in used[] for the blocks the walk comes to.               *)
LEMMA RoomForBlock ==
    ASSUME Unambiguous(disk), NEW c, Walked(c), block \in Parts(disk)
    PROVE  Parts(disk) \subseteq DOMAIN used
<1>1. CASE Len(list) = 0
  <2>1. PICK b \in DOMAIN disk.blocks : block = disk.blocks[b].first /\ DOMAIN used = Tracked(disk.blocks[b])
    BY <1>1 DEF Walked, Started
  <2>2. b \in Rdbs(disk)
    BY <2>1 DEF Unambiguous
  <2> QED BY <2>1, <2>2 DEF Unambiguous
<1>2. CASE Len(list) # 0
  BY <1>2 DEF Walked
<1> QED BY <1>1, <1>2

(* The list ends: at a block that is no sound, new partition block.        *)
LEMMA AmigaEnds ==
    ASSUME DInv, pc = "amiga", disk' = disk, Bail, faults' \in Nat, block_buffer' \in Block,
           faults' = 0 => faults = 0,
           faults' = 0 => block \notin Parts(disk) \/ block \in Visited \/ block \notin DOMAIN used
    PROVE  DInv'
<1> DEFINE n == Len(list)
<1>1. /\ Types' /\ pc' = "list" /\ list' = list /\ list \in Seq(Entries) /\ n \in Nat
      /\ disk \in Disks /\ disk.blksize \in Nat
  BY DiskFacts DEF Bail, DInv, Types
<1>2. Plain
  BY DEF DInv, InAmiga
<1>3. ASSUME Unambiguous(disk)
      PROVE  IsList(disk', list', (faults = 0)')
  <2>1. PICK c \in [1 .. n -> Parts(disk)] : Walked(c)
    BY <1>3 DEF DInv, InAmiga
  <2>2. IsChain(disk, list, c) /\ Visited = {c[i] : i \in 1 .. n}
    BY <2>1 DEF Walked
  <2>0. faults' = 0 => block \notin Parts(disk) \/ block \in Visited
    BY <1>3, <2>1, RoomForBlock
  <2>3. CASE n = 0
    <3>1. list = <<>> /\ Visited = {}
      BY <1>1, <2>2, <2>3
    <3>2. CASE faults' # 0
      BY <1>1, <3>1, <3>2 DEF IsList
    <3>3. CASE faults' = 0
      <4>1. PICK b \in DOMAIN disk.blocks :
              /\ block = disk.blocks[b].first /\ ~HasVolume
              /\ Rdbs(disk) = {} \/ b \in Rdbs(disk)
        BY <1>3, <2>1, <2>3, <3>3 DEF Walked, Started
      <4>2. Starts(disk) \subseteq {block}
        BY <1>3, <4>1 DEF Starts, Unambiguous
      <4>3. Ends(disk, c, 0)
        BY <2>0, <3>1, <3>3, <4>2 DEF Ends
      <4>4. AmigaList(disk, list, TRUE)
        BY <2>2, <2>3, <4>3 DEF AmigaList
      <4> QED BY <1>1, <1>2, <3>3, <4>1, <4>4, DeviceAssumption
            DEF IsList, AmigaList, Plain, Detected, HasVolume, BlockSize, BlockSizeOf
    <3> QED BY <3>2, <3>3
  <2>4. CASE n # 0
    <3>1. block = disk.blocks[c[n]].link /\ ~HasVolume
      BY <2>1, <2>4 DEF Walked
    <3>2. faults' = 0 => Ends(disk, c, n)
      BY <2>0, <2>2, <2>4, <3>1 DEF Ends
    <3> QED BY <1>1, <1>2, <2>2, <3>1, <3>2, DeviceAssumption
          DEF IsList, AmigaList, Plain, Detected, HasVolume, BlockSize, BlockSizeOf
  <2> QED BY <2>3, <2>4
<1> QED BY <1>1, <1>3, ToList DEF ListIsTable

(* A partition block is added to the chain.                                *)
LEMMA ChainGrows ==
    ASSUME DInv, pc = "amiga", Unambiguous(disk), NEW c \in [1 .. Len(list) -> Parts(disk)], Walked(c),
           block \in Parts(disk), block \notin Visited,
           NEW l2 \in Seq(Entries), Len(l2) = Len(list) + 1,
           l2[1] = Entry(Len(list) + 1, disk.blocks[block].start, BlockSizeOf(disk), "Linux"),
           \A i \in 2 .. Len(list) + 1 : l2[i] = list[i - 1]
    PROVE  LET c2 == [i \in 1 .. Len(list) + 1 |-> IF i = Len(list) + 1 THEN block ELSE c[i]]
           IN  /\ c2 \in [1 .. Len(l2) -> Parts(disk)] /\ IsChain(disk, l2, c2)
               /\ c2[Len(list) + 1] = block
               /\ {c2[i] : i \in 1 .. Len(l2)} = Visited \cup {block}
               /\ ~HasVolume
<1> DEFINE n == Len(list)
           c2 == [i \in 1 .. n + 1 |-> IF i = n + 1 THEN block ELSE c[i]]
<1>1. list \in Seq(Entries) /\ n \in Nat
  BY DEF DInv, Types
<1>2. IsChain(disk, list, c) /\ Visited = {c[i] : i \in 1 .. n}
  BY DEF Walked
<1> HIDE DEF n
<1>3. /\ c2 \in [1 .. n + 1 -> Parts(disk)] /\ c2[n + 1] = block
      /\ \A i \in 1 .. n : c2[i] = c[i]
  BY <1>1 DEF n
<1> HIDE DEF c2
<1>4. ~HasVolume /\ (n = 0 => block \in Starts(disk)) /\ (n # 0 => block = disk.blocks[c[n]].link)
  <2>1. CASE n = 0
    <3>1. PICK b \in DOMAIN disk.blocks : block = disk.blocks[b].first
      BY <2>1 DEF Walked, Started, n
    <3>2. b \in Rdbs(disk)
      BY <3>1 DEF Unambiguous
    <3> QED BY <2>1, <3>1, <3>2 DEF Starts, Unambiguous, HasVolume
  <2>2. CASE n # 0
    BY <2>2 DEF Walked, n
  <2> QED BY <2>1, <2>2
<1>5. {c2[i] : i \in 1 .. n + 1} = Visited \cup {block}
  <2>1. \A i \in 1 .. n + 1 : i = n + 1 \/ i \in 1 .. n
    BY <1>1
  <2>2. \A i \in 1 .. n : i \in 1 .. n + 1
    BY <1>1
  <2>3. n + 1 \in 1 .. n + 1
    BY <1>1
  <2> QED BY <1>2, <1>3, <2>1, <2>2, <2>3
<1>6. c2[1] \in Starts(disk)
  <2>1. CASE n = 0
    BY <1>3, <1>4, <2>1
  <2>2. CASE n # 0
    <3>1. 1 \in 1 .. n /\ n > 0
      BY <1>1, <2>2
    <3> QED BY <1>2, <1>3, <3>1 DEF IsChain, n
  <2> QED BY <2>1, <2>2
<1>7. ASSUME NEW i \in 1 .. n
      PROVE  c2[i + 1] = disk.blocks[c2[i]].link
  <2>1. CASE i = n
    BY <1>1, <1>3, <1>4, <2>1
  <2>2. CASE i # n
    <3>1. i \in 1 .. n - 1 /\ i + 1 \in 1 .. n
      BY <1>1, <2>2
    <3>2. c[i + 1] = disk.blocks[c[i]].link
      BY <1>2, <3>1 DEF IsChain, n
    <3> QED BY <1>3, <3>1, <3>2
  <2> QED BY <2>1, <2>2
<1>8. ASSUME NEW i \in 1 .. n + 1, NEW j \in 1 .. n + 1, c2[i] = c2[j]
      PROVE  i = j
  <2>1. \A k \in 1 .. n + 1 : (k # n + 1 => k \in 1 .. n) /\ (c2[k] = block <=> k = n + 1)
    BY <1>1, <1>2, <1>3
  <2>2. CASE i = n + 1 \/ j = n + 1
    BY <1>8, <2>1, <2>2
  <2>3. CASE i # n + 1 /\ j # n + 1
    <3>1. i \in 1 .. n /\ j \in 1 .. n /\ c[i] = c[j]
      BY <1>3, <1>8, <2>1, <2>3
    <3> QED BY <1>2, <3>1 DEF IsChain, n
  <2> QED BY <2>2, <2>3
<1>9. ASSUME NEW i \in 1 .. n + 1
      PROVE  l2[i] = Entry(n + 1 + 1 - i, disk.blocks[c2[n + 1 + 1 - i]].start,
                           BlockSizeOf(disk), "Linux")
  <2>1. CASE i = 1
    BY <1>1, <1>3, <2>1 DEF n
  <2>2. CASE i # 1
    <3>1. /\ i - 1 \in 1 .. n /\ n + 1 - (i - 1) = n + 1 + 1 - i /\ n + 1 - (i - 1) \in 1 .. n
          /\ i \in 2 .. n + 1
      BY <1>1, <2>2
    <3>2. l2[i] = list[i - 1]
      BY <3>1 DEF n
    <3>3. list[i - 1] = Entry(n + 1 - (i - 1), disk.blocks[c[n + 1 - (i - 1)]].start,
                              BlockSizeOf(disk), "Linux")
      BY <1>2, <3>1 DEF IsChain, n
    <3> QED BY <1>3, <3>1, <3>2, <3>3
  <2> QED BY <2>1, <2>2
<1>10. IsChain(disk, l2, c2)
  <2>1. Len(l2) = n + 1 /\ Len(l2) - 1 = n
    BY <1>1 DEF n
  <2>2. \A i \in 1 .. Len(l2) - 1 : c2[i + 1] = disk.blocks[c2[i]].link
    BY <1>7, <2>1
  <2>3. \A i, j \in 1 .. Len(l2) : c2[i] = c2[j] => i = j
    BY <1>8, <2>1
  <2>4. \A i \in 1 .. Len(l2) :
            l2[i] = Entry(Len(l2) + 1 - i, disk.blocks[c2[Len(l2) + 1 - i]].start,
                          BlockSizeOf(disk), "Linux")
    BY <1>9, <2>1
  <2> QED BY <1>6, <2>2, <2>3, <2>4 DEF IsChain
<1> QED BY <1>3, <1>4, <1>5, <1>10 DEF c2, n

LEMMA StepAmiga ==
    ASSUME DInv, partition_amiga_lookup
    PROVE  DInv'
<1> DEFINE n == Len(list)
<1>1. /\ pc = "amiga" /\ disk \in Disks /\ disk' = disk /\ faults \in Nat
      /\ block \in Int /\ list \in Seq(Entries) /\ n \in Nat /\ bsz \in Nat
      /\ block_buffer \in Block
  BY DEF partition_amiga_lookup, Walking, DInv, Types
<1>2. /\ DOMAIN disk.blocks \subseteq Nat /\ disk.blksize \in Nat
      /\ \A b \in DOMAIN disk.blocks : disk.blocks[b] \in Block
  BY <1>1, DiskFacts DEF DInv
<1>3. CASE block = AMIGA_END /\ Bail /\ UNCHANGED <<block_buffer, faults>>
  <2>1. block \notin Parts(disk)
    BY <1>2, <1>3 DEF Parts, AMIGA_END
  <2> QED BY <1>1, <1>3, <2>1, AmigaEnds
<1>4. CASE ReadFails(block) /\ Bail
  <2>1. /\ faults' \in Nat /\ block_buffer' = block_buffer /\ (faults' = 0 => faults = 0)
        /\ faults' = 0 => block \notin Parts(disk)
    BY <1>1, <1>4 DEF ReadFails, Parts
  <2> QED BY <1>1, <1>4, <2>1, AmigaEnds
<1>5. CASE /\ Reads(block) /\ Bail
           /\ \/ ~Sound(block_buffer') \/ block \notin DOMAIN used
              \/ block \in DOMAIN used /\ used[block]
  <2>1. /\ faults' = faults /\ block_buffer' \in Block
        /\ block \notin Parts(disk) \/ block \in Visited \/ block \notin DOMAIN used
    BY <1>2, <1>5 DEF Reads, Parts, Visited
  <2> QED BY <1>1, <1>5, <2>1, AmigaEnds
<1>7. CASE Reads(block) /\ Astray
  <2>1. faults' = faults /\ block_buffer' \in Block
    BY <1>2, <1>7 DEF Reads
  <2> QED BY <1>1, <1>7, <2>1, GoesAstray
<1>6. CASE /\ Reads(block) /\ Sound(block_buffer') /\ block \in DOMAIN used /\ ~used[block]
           /\ used' = Visit(block)
           /\ list' = add_new_partition(map_size, block_buffer'.start, BlockSize, "Linux")
           /\ block' = block_buffer'.link /\ map_size' = map_size + 1
           /\ UNCHANGED <<pc, bsz>>
  <2> DEFINE e == Entry(n + 1, disk.blocks[block].start, BlockSizeOf(disk), "Linux")
  <2>1. /\ faults' = faults /\ block_buffer' = disk.blocks[block] /\ block \in DOMAIN disk.blocks
        /\ block \in Parts(disk) /\ block \notin Visited
    BY <1>6 DEF Reads, Parts, Visited
  <2>0. DOMAIN used' = DOMAIN used /\ Visited' = Visited \cup {block}
    BY <1>6 DEF Visit, Visited
  <2>2. /\ disk.blocks[block] \in Block /\ disk.blocks[block].start \in Nat
        /\ disk.blocks[block].link \in Int /\ BlockSizeOf(disk) \in Nat
    BY <1>2, <2>1 DEF Block, BlockSizeOf
  <2>3. map_size = n + 1 /\ Plain
    BY <1>1 DEF DInv, InAmiga
  <2>4. e \in Entries
    BY <1>1, <2>2 DEF Entry, Entries
  <2>5. list' = <<e>> \o list
    BY <1>6, <2>1, <2>3 DEF add_new_partition, BlockSize
  <2>6. /\ list' \in Seq(Entries) /\ Len(list') = n + 1 /\ list'[1] = e
        /\ \A i \in 2 .. n + 1 : list'[i] = list[i - 1]
    <3> HIDE DEF e
    <3> QED BY <1>1, <2>4, <2>5, Prepending
  <2>7. Types'
    BY <1>1, <1>6, <2>1, <2>2, <2>3, <2>6 DEF Types
  <2>8. ASSUME Unambiguous(disk)
        PROVE  \E c \in [1 .. Len(list') -> Parts(disk')] : Walked(c)'
    <3>1. PICK c \in [1 .. n -> Parts(disk)] : Walked(c)
      BY <1>1, <2>8 DEF DInv, InAmiga
    <3>2. PICK c2 \in [1 .. Len(list') -> Parts(disk)] :
            /\ IsChain(disk, list', c2) /\ c2[n + 1] = block
            /\ {c2[i] : i \in 1 .. Len(list')} = Visited \cup {block} /\ ~HasVolume
      BY <1>1, <2>1, <2>6, <2>8, <3>1, ChainGrows
    <3>3. Len(list') # 0
      BY <1>1, <2>6
    <3>5. Parts(disk) \subseteq DOMAIN used
      BY <2>1, <2>8, <3>1, RoomForBlock
    <3>6. /\ disk' = disk /\ block' = disk.blocks[c2[Len(list')]].link
          /\ Visited' = {c2[i] : i \in 1 .. Len(list')} /\ DOMAIN used' = DOMAIN used
      BY <1>1, <1>6, <2>0, <2>1, <2>6, <3>2
    <3>7. ~HasVolume'
      BY <3>2, <3>6 DEF HasVolume, BlockSize
    <3> HIDE DEF e
    <3>4. Walked(c2)'
      BY <3>2, <3>3, <3>5, <3>6, <3>7 DEF Walked
    <3> QED BY <1>1, <3>4
  <2>9. InAmiga'
    BY <1>1, <1>6, <2>3, <2>6, <2>8 DEF InAmiga, Plain, Detected, BlockSize
  <2> QED BY <1>1, <1>6, <2>7, <2>9
        DEF DInv, Fresh, InMac, InIso, InRdb, InReread, InUsed, ListIsTable
<1> QED BY <1>3, <1>4, <1>5, <1>6, <1>7 DEF partition_amiga_lookup

LEMMA StepNoRoom ==
    ASSUME DInv, NoRoomForEntry
    PROVE  DInv'
<1>1. /\ disk' = disk /\ Astray /\ faults' \in Nat /\ block_buffer' \in Block
  BY DEF NoRoomForEntry, Walking, DInv, Types
<1>2. pc \in {"open", "mac", "iso", "amiga"}
  BY DEF NoRoomForEntry, EntryDue
<1> QED BY <1>1, <1>2, GoesAstray

LEMMA StepNotParsed ==
    ASSUME DInv, NotParsed
    PROVE  DInv'
BY DEF NotParsed, DInv, Types, Fresh, InMac, InIso, InRdb, InReread, InUsed, InAmiga, ListIsTable

-----------------------------------------------------------------------------
(* Every step of the lookup keeps the invariant.                           *)
THEOREM Invariance == Spec => []DInv
<1>1. DInv /\ [Next]_vars => DInv'
  <2> SUFFICES ASSUME DInv, [Next]_vars
               PROVE  DInv'
    OBVIOUS
  <2>1. CASE Lookup
    BY <2>1, StepNotOpened, StepDetect, StepMac, StepIso, StepFindRdb, StepReread, StepAllocUsed,
       StepAmiga, StepNoRoom DEF Lookup
  <2> QED BY <2>1, StepParse, StepNotParsed, StepLookup, StepType, StepStutter DEF Next, Finished
<1> QED BY <1>1, StepInit, PTL DEF Spec

(* partitions_lookup returns the disk's partition table in the format it   *)
(* has, cut short by a failure at most, for any disk that does not mislead *)
(* the search for a rigid disk block.                                      *)
THEOREM ListsTheTable == Spec => []ListIsTable
<1>1. DInv => ListIsTable
  BY DEF DInv
<1> QED BY <1>1, Invariance, PTL

-----------------------------------------------------------------------------
(***************************************************************************)
(* parse_device_path.  Separators are kept as names: as literals they keep *)
(* the provers from reasoning about the strings they occur in.             *)
(***************************************************************************)
(* The last separator of a string.                                         *)
LEMMA LastIs ==
    ASSUME NEW s, Len(s) \in Nat, NEW c, NEW i \in 1 .. Len(s), s[i] = c,
           \A j \in 1 .. Len(s) : s[j] = c => j <= i
    PROVE  LastOf(s, c) = i
<1> DEFINE I == {j \in 1 .. Len(s) : s[j] = c}
<1>1. LastOf(s, c) = IF I # {} THEN Max(I) ELSE 0
  BY DEF LastOf, SelectLastInSeq
<1>2. i \in I /\ \A j \in I : j <= i /\ j \in Nat
  OBVIOUS
<1>3. Max(I) \in I /\ \A j \in I : Max(I) >= j
  <2>1. \E x \in I : \A j \in I : x >= j
    BY <1>2
  <2> QED BY <2>1 DEF Max
<1> HIDE DEF I
<1>4. Max(I) = i
  <2>1. Max(I) \in Nat /\ i \in Nat /\ Max(I) >= i /\ Max(I) <= i
    BY <1>2, <1>3
  <2> QED BY <2>1
<1> QED BY <1>1, <1>2, <1>4

LEMMA LastBelow ==
    ASSUME NEW s, Len(s) \in Nat, NEW c, NEW d \in Nat,
           \A j \in 1 .. Len(s) : s[j] = c => j <= d
    PROVE  LastOf(s, c) \in 0 .. d
<1> DEFINE I == {j \in 1 .. Len(s) : s[j] = c}
<1>1. LastOf(s, c) = IF I # {} THEN Max(I) ELSE 0
  BY DEF LastOf, SelectLastInSeq
<1>2. CASE I = {}
  BY <1>1, <1>2
<1>3. CASE I # {}
  <2> DEFINE R == {d - j : j \in I}
  <2>1. R \subseteq Nat /\ R # {}
    BY <1>3
  <2>2. PICK r \in R : \A q \in R : ~(<<q, r>> \in OpToRel(<, Nat))
    BY <2>1, NatLessThanWellFounded, WFMin, Zenon
  <2>3. \A q \in R : r \in Nat /\ q \in Nat /\ ~(q < r)
    <3>1. \A x, y \in Nat : y < x => <<y, x>> \in OpToRel(<, Nat)
      BY DEF OpToRel
    <3> QED BY <2>1, <2>2, <3>1, Zenon
  <2>4. \E x \in I : \A j \in I : x >= j
    <3>1. PICK x \in I : r = d - x
      OBVIOUS
    <3>2. ASSUME NEW j \in I PROVE x >= j
      <4>1. d - j \in R
        OBVIOUS
      <4>2. ~(d - j < r)
        <5> HIDE DEF R
        <5> QED BY <2>3, <4>1
      <4>3. d \in Int /\ j \in Int /\ x \in Int
        OBVIOUS
      <4> HIDE DEF I
      <4> QED BY <3>1, <4>2, <4>3
    <3> QED BY <3>2
  <2>5. Max(I) \in I
    BY <2>4 DEF Max
  <2> QED BY <1>1, <1>3, <2>5
<1> QED BY <1>2, <1>3

(* The separators of a local path, and its parts.                          *)
Colon == ":"
Comma == ","
Iscsi == "iscsi"

LEMMA Separators ==
    Colon \in Tokens /\ Comma \in Tokens /\ Colon # Comma /\ Colon # Iscsi /\ Comma # Iscsi
BY InputAssumption DEF Colon, Comma, Iscsi

LEMMA Single ==
    ASSUME NEW x \in Tokens
    PROVE  <<x>> \in Seq(Tokens) /\ Len(<<x>>) = 1 /\ <<x>>[1] = x
OBVIOUS

LEMMA Joined ==
    ASSUME NEW a \in Seq(Tokens), NEW b \in Seq(Tokens)
    PROVE  /\ a \o b \in Seq(Tokens) /\ Len(a \o b) = Len(a) + Len(b)
           /\ Len(a) \in Nat /\ Len(b) \in Nat
           /\ \A i \in 1 .. Len(a) : (a \o b)[i] = a[i]
           /\ \A i \in 1 .. Len(b) : (a \o b)[Len(a) + i] = b[i]
OBVIOUS

LEMMA Associated ==
    ASSUME NEW a \in Seq(Tokens), NEW b \in Seq(Tokens), NEW c \in Seq(Tokens)
    PROVE  a \o (b \o c) = (a \o b) \o c
OBVIOUS

LEMMA LocalSpelling ==
    ASSUME NEW in, SaysLocal(in)
    PROVE  LET path == SpellLocal(in)
               whole == (in.dev \o <<Colon>>) \o in.part
               d == Len(in.dev)
           IN  /\ path \in Seq(Tokens) /\ whole \in Seq(Tokens) /\ in.part \in Seq(Tokens)
               /\ d \in Nat /\ d > 0 /\ Len(in.part) \in {0, 1}
               /\ Len(whole) = d + 1 + Len(in.part)
               /\ \A i \in 1 .. d : whole[i] = in.dev[i]
               /\ whole[d + 1] = Colon
               /\ Len(in.part) = 1 => whole[d + 2] = in.part[1]
               /\ in.file = NULL => path = whole
               /\ in.file # NULL =>
                     /\ in.file \in Seq(Tokens) /\ Len(in.file) \in Nat
                     /\ Len(path) = Len(whole) + 1 + Len(in.file)
                     /\ \A i \in 1 .. Len(whole) : path[i] = whole[i]
                     /\ path[Len(whole) + 1] = Comma
                     /\ \A i \in 1 .. Len(in.file) : path[Len(whole) + 1 + i] = in.file[i]
<1> DEFINE dev == in.dev
           part == in.part
           file == in.file
           d == Len(dev)
           whole == (dev \o <<Colon>>) \o part
           path == SpellLocal(in)
<1>1. dev \in Seq(Tokens) /\ dev # <<>>
  BY DEF SaysLocal, Name
<1>2. part \in Seq(Tokens) /\ Len(part) \in {0, 1}
  <2>1. CASE part = <<>>
    BY <2>1
  <2>2. CASE \E n \in Tokens : part = <<n>>
    <3>1. PICK n \in Tokens : part = <<n>>
      BY <2>2
    <3> HIDE DEF part
    <3> QED BY <3>1
  <2>3. part = <<>> \/ \E n \in Tokens : part = <<n>>
    BY DEF SaysLocal
  <2> QED BY <2>1, <2>2, <2>3
<1>3. file # NULL => file \in Seq(Tokens)
  BY DEF SaysLocal, Name
<1>4. path = (dev \o <<Colon>>) \o (part \o IF file = NULL THEN <<>> ELSE <<Comma>> \o file)
  BY DEF SpellLocal, Colon, Comma
<1> HIDE DEF dev, part, file, path
<1>5. d \in Nat /\ d > 0
  BY <1>1
<1> DEFINE head == dev \o <<Colon>>
<1>6. /\ head \in Seq(Tokens) /\ Len(head) = d + 1 /\ head[d + 1] = Colon
      /\ \A i \in 1 .. d : head[i] = dev[i]
  <2> DEFINE c == <<Colon>>
  <2>1. c \in Seq(Tokens) /\ Len(c) = 1 /\ c[1] = Colon
    BY Separators, Single, Zenon
  <2> HIDE DEF c
  <2>2. /\ dev \o c \in Seq(Tokens) /\ Len(dev \o c) = d + 1 /\ (dev \o c)[d + 1] = c[1]
        /\ \A i \in 1 .. d : (dev \o c)[i] = dev[i]
    BY <1>1, <1>5, <2>1, Joined
  <2> QED BY <2>1, <2>2 DEF c
<1>7. whole = head \o part
  OBVIOUS
<1> HIDE DEF head, whole
<1>8. /\ whole \in Seq(Tokens) /\ Len(whole) = d + 1 + Len(part)
      /\ \A i \in 1 .. d + 1 : whole[i] = head[i]
      /\ Len(part) = 1 => whole[d + 2] = part[1]
  BY <1>2, <1>5, <1>6, <1>7
<1>9. /\ \A i \in 1 .. d : whole[i] = dev[i]
      /\ whole[d + 1] = Colon
  BY <1>5, <1>6, <1>8
<1>10. CASE file = NULL
  <2>1. part \o <<>> = part
    BY <1>2
  <2>2. path = whole
    BY <1>4, <1>7, <1>10, <2>1 DEF head
  <2> QED BY <1>2, <1>5, <1>8, <1>9, <1>10, <2>2 DEF dev, part, file, path, whole
<1>11. CASE file # NULL
  <2> DEFINE c == <<Comma>>
             tail == c \o file
  <2>1. c \in Seq(Tokens) /\ Len(c) = 1 /\ c[1] = Comma
    BY Separators, Single, Zenon
  <2>2. path = head \o (part \o tail)
    BY <1>4, <1>11 DEF head
  <2> HIDE DEF c
  <2>3. file \in Seq(Tokens) /\ Len(file) \in Nat
    BY <1>3, <1>11
  <2>4. /\ tail \in Seq(Tokens) /\ Len(tail) = 1 + Len(file) /\ tail[1] = c[1]
        /\ \A i \in 1 .. Len(file) : tail[1 + i] = file[i]
    <3>1. /\ tail \in Seq(Tokens) /\ Len(tail) = Len(c) + Len(file)
          /\ \A i \in 1 .. Len(c) : tail[i] = c[i]
          /\ \A i \in 1 .. Len(file) : tail[Len(c) + i] = file[i]
      BY <2>1, <2>3, Joined
    <3> HIDE DEF tail
    <3>2. Len(c) = 1
      BY <2>1
    <3>3. \A i \in 1 .. Len(file) : tail[1 + i] = file[i]
      BY <3>1, <3>2
    <3>4. tail[1] = c[1]
      BY <3>1, <3>2
    <3> QED BY <3>1, <3>2, <3>3, <3>4
  <2> HIDE DEF tail
  <2>5. path = whole \o tail
    BY <1>2, <1>6, <1>7, <2>2, <2>4, Associated
  <2>7. /\ path \in Seq(Tokens) /\ Len(path) = Len(whole) + Len(tail)
        /\ \A i \in 1 .. Len(whole) : path[i] = whole[i]
        /\ \A i \in 1 .. Len(tail) : path[Len(whole) + i] = tail[i]
    BY <1>8, <2>4, <2>5, Joined
  <2>6. /\ path[Len(whole) + 1] = Comma
        /\ Len(path) = Len(whole) + 1 + Len(file)
        /\ \A i \in 1 .. Len(file) : path[Len(whole) + 1 + i] = file[i]
    <3>1. 1 \in 1 .. Len(tail) /\ Len(whole) \in Nat
      BY <1>2, <1>5, <1>8, <2>3, <2>4
    <3>2. path[Len(whole) + 1] = Comma
      BY <2>1, <2>4, <2>7, <3>1
    <3>3. ASSUME NEW i \in 1 .. Len(file) PROVE path[Len(whole) + 1 + i] = file[i]
      <4>1. 1 + i \in 1 .. Len(tail) /\ Len(whole) + (1 + i) = Len(whole) + 1 + i
        BY <2>3, <2>4, <3>1
      <4> QED BY <2>4, <2>7, <4>1
    <3>4. Len(path) = Len(whole) + 1 + Len(file)
      <4> DEFINE w == Len(whole)
                 f == Len(file)
      <4>1. Len(path) = w + (1 + f) /\ w \in Nat /\ f \in Nat
        BY <2>3, <2>4, <2>7, <3>1
      <4> HIDE DEF w, f
      <4>2. Len(path) = w + 1 + f
        BY <4>1
      <4> QED BY <4>2 DEF w, f
    <3> QED BY <3>2, <3>3, <3>4
  <2> QED BY <1>2, <1>5, <1>8, <1>9, <1>11, <2>3, <2>6, <2>7 DEF dev, part, file, path, whole
<1> QED BY <1>10, <1>11

(* The parts of a string.                                                  *)
LEMMA Cut ==
    ASSUME NEW s \in Seq(Tokens), NEW i \in Nat, i <= Len(s)
    PROVE  /\ SubSeq(s, 1, i) \in Seq(Tokens) /\ Len(SubSeq(s, 1, i)) = i
           /\ \A j \in 1 .. i : SubSeq(s, 1, i)[j] = s[j]
           /\ From(s, i + 1) \in Seq(Tokens) /\ Len(From(s, i + 1)) = Len(s) - i
           /\ \A j \in 1 .. Len(s) - i : From(s, i + 1)[j] = s[i + j]
BY DEF From

LEMMA Equal ==
    ASSUME NEW a \in Seq(Tokens), NEW b \in Seq(Tokens), Len(a) = Len(b),
           \A i \in 1 .. Len(a) : a[i] = b[i]
    PROVE  a = b
OBVIOUS

(* parse_device_path cuts a local path where it was put together.          *)
LEMMA LocalMeans ==
    ASSUME NEW in, SaysLocal(in)
    PROVE  LET r == parse_device_path(SpellLocal(in), in.def, DefPart, DefFile, in.packet)
           IN  /\ r.dev = in.dev
               /\ r.part = IF in.part = <<>> THEN DefPart ELSE Number[in.part[1]]
               /\ r.file = Pick(in.file, DefFile)
<1> DEFINE dev == in.dev
           part == in.part
           file == in.file
           d == Len(dev)
           whole == (dev \o <<Colon>>) \o part
           w == Len(whole)
           path == SpellLocal(in)
           kind == KindOf(path, in.def)
<1>1. /\ path \in Seq(Tokens) /\ whole \in Seq(Tokens) /\ part \in Seq(Tokens)
      /\ d \in Nat /\ d > 0 /\ Len(part) \in {0, 1}
      /\ w = d + 1 + Len(part)
      /\ \A i \in 1 .. d : whole[i] = dev[i]
      /\ whole[d + 1] = Colon
      /\ Len(part) = 1 => whole[d + 2] = part[1]
      /\ file = NULL => path = whole
      /\ file # NULL =>
            /\ file \in Seq(Tokens) /\ Len(file) \in Nat
            /\ Len(path) = w + 1 + Len(file)
            /\ \A i \in 1 .. w : path[i] = whole[i]
            /\ path[w + 1] = Comma
            /\ \A i \in 1 .. Len(file) : path[w + 1 + i] = file[i]
  BY LocalSpelling, Zenon
<1>2. /\ dev \in Seq(Tokens) /\ dev # NULL /\ IsLocal(kind)
      /\ \A i \in 1 .. d : dev[i] # Colon /\ dev[i] # Iscsi
  <2>1. Name(dev) /\ IsLocal(kind)
    BY DEF SaysLocal
  <2>2. dev \in Seq(Tokens) /\ dev # NULL /\ ~Has(dev, Colon) /\ ~Has(dev, Iscsi)
    BY <2>1 DEF Name, Colon, Iscsi
  <2> HIDE DEF dev
  <2> QED BY <2>1, <2>2 DEF Has
<1>3. Len(part) = 1 => /\ part[1] \notin {Colon, Comma, Iscsi} /\ part[1] \in DOMAIN Number
                       /\ Number[part[1]] \in Nat
  <2>1. CASE part = <<>>
    BY <2>1
  <2>2. CASE \E n \in Tokens \ {Colon, Comma, Iscsi} :
               part = <<n>> /\ n \in DOMAIN Number /\ Number[n] \in Nat
    BY <2>2
  <2> QED BY <2>1, <2>2 DEF SaysLocal, Colon, Comma, Iscsi
<1>4. file # NULL => \A i \in 1 .. Len(file) : file[i] \notin {Colon, Comma, Iscsi}
  <2>1. file # NULL => file \in Seq(Tokens) /\ ~Has(file, Colon) /\ ~Has(file, Comma)
                                             /\ ~Has(file, Iscsi)
    BY DEF SaysLocal, Name, Colon, Comma, Iscsi
  <2> HIDE DEF file
  <2> QED BY <2>1 DEF Has
<1> HIDE DEF dev, part, file, whole, path, kind
<1>5. w \in Nat /\ w > d
  BY <1>1
<1>6. ASSUME NEW i \in 1 .. w
      PROVE  /\ whole[i] # Iscsi /\ (whole[i] = Colon => i = d + 1)
             /\ whole[i] = Comma => i <= d
  <2>1. CASE i \in 1 .. d
    BY <1>1, <1>2, <2>1
  <2>2. CASE i = d + 1
    BY <1>1, <2>2, Separators
  <2>3. CASE i = d + 2 /\ Len(part) = 1
    BY <1>1, <1>3, <2>3
  <2>4. i \in 1 .. d \/ i = d + 1 \/ (i = d + 2 /\ Len(part) = 1)
    <3> DEFINE n == Len(part)
    <3>1. w = d + 1 + n /\ n \in {0, 1} /\ d \in Nat
      BY <1>1
    <3> HIDE DEF w, d, n
    <3>2. i \in 1 .. d \/ i = d + 1 \/ (i = d + 2 /\ n = 1)
      BY <3>1
    <3> QED BY <3>2 DEF n
  <2> QED BY <2>1, <2>2, <2>3, <2>4
<1>7. ASSUME NEW i \in 1 .. Len(path)
      PROVE  /\ path[i] # Iscsi /\ (path[i] = Colon => i = d + 1)
             /\ path[i] = Comma => i <= IF file = NULL THEN d ELSE w + 1
  <2>1. CASE file = NULL
    BY <1>1, <1>6, <2>1
  <2>2. CASE file # NULL /\ i <= w
    <3>1. path[i] = whole[i] /\ i \in 1 .. w
      BY <1>1, <1>5, <2>2
    <3>2. path[i] # Iscsi /\ (path[i] = Colon => i = d + 1)
      BY <1>6, <3>1
    <3> QED BY <1>5, <2>2, <3>2
  <2>3. CASE file # NULL /\ i = w + 1
    BY <1>1, <1>5, <2>3, Separators
  <2>4. CASE file # NULL /\ i > w + 1
    <3>1. PICK j \in 1 .. Len(file) : i = w + 1 + j
      <4>1. i - (w + 1) \in 1 .. Len(file) /\ i = w + 1 + (i - (w + 1))
        BY <1>1, <1>5, <2>4
      <4> QED BY <4>1
    <3>2. path[i] = file[j]
      BY <1>1, <2>4, <3>1
    <3> QED BY <1>4, <2>4, <3>2
  <2>5. file = NULL \/ i <= w \/ i = w + 1 \/ i > w + 1
    BY <1>5
  <2> QED BY <2>1, <2>2, <2>3, <2>4, <2>5
<1>8. Len(path) \in Nat /\ w <= Len(path) /\ path[d + 1] = Colon /\ d + 1 \in 1 .. w
  <2>1. Len(path) \in Nat /\ d + 1 \in 1 .. w
    BY <1>1, <1>5
  <2> QED BY <1>1, <1>5, <2>1
<1>9. LastOf(path, Colon) = d + 1 /\ LastOf(whole, Colon) = d + 1 /\ Has(path, Colon)
  <2>1. d + 1 \in 1 .. Len(path)
    BY <1>5, <1>8
  <2>2. LastOf(path, Colon) = d + 1
    BY <1>7, <1>8, <2>1, LastIs
  <2>3. LastOf(whole, Colon) = d + 1
    <3>1. \A j \in 1 .. w : whole[j] = Colon => j <= d + 1
      BY <1>1, <1>6
    <3>2. whole[d + 1] = Colon
      BY <1>1
    <3> QED BY <1>5, <1>8, <3>1, <3>2, LastIs
  <2>4. d + 1 \in DOMAIN path
    BY <1>1, <2>1
  <2> QED BY <1>8, <2>2, <2>3, <2>4 DEF Has
<1>10. ~Has(path, Iscsi)
  BY <1>1, <1>7 DEF Has
<1>11. EffectivePath(path) = path /\ path # NULL /\ whole # <<>>
  <2>1. Len(path) > 1
    BY <1>1, <1>5, <1>8
  <2>2. path # NULL
    BY <2>1 DEF NULL
  <2>3. EffectivePath(path) = path
    BY <1>10 DEF EffectivePath, Iscsi
  <2>4. whole # <<>>
    BY <1>5, <1>1
  <2> QED BY <2>2, <2>3, <2>4
<1>12. TrimFile(path, kind).path = whole /\ TrimFile(path, kind).file = file
  <2> DEFINE comma == LastOf(path, Comma)
  <2>1. CASE file = NULL
    <3>1. comma \in 0 .. d
      BY <1>1, <1>7, <1>8, <2>1, LastBelow
    <3>2. ~(LastOf(path, Colon) < comma)
      BY <1>1, <1>9, <3>1
    <3>3. TrimFile(path, kind) = [path |-> path, file |-> NULL]
      BY <3>2 DEF TrimFile, Colon, Comma
    <3> QED BY <1>1, <2>1, <3>3
  <2>2. CASE file # NULL
    <3>1. w + 1 \in 1 .. Len(path)
      BY <1>1, <1>5, <2>2
    <3>2. comma = w + 1
      <4>1. \A j \in 1 .. Len(path) : path[j] = Comma => j <= w + 1
        BY <1>7, <2>2
      <4>2. path[w + 1] = Comma
        BY <1>1, <2>2
      <4> QED BY <1>8, <3>1, <4>1, <4>2, LastIs
    <3>3. TrimFile(path, kind)
            = [path |-> SubSeq(path, 1, comma - 1), file |-> From(path, comma + 1)]
      <4>1. comma # 0 /\ LastOf(path, Colon) < comma
        BY <1>1, <1>5, <1>9, <3>2
      <4> QED BY <1>2, <1>9, <4>1 DEF TrimFile, Colon, Comma
    <3>4. SubSeq(path, 1, w) = whole
      <4>1. /\ SubSeq(path, 1, w) \in Seq(Tokens) /\ Len(SubSeq(path, 1, w)) = w
            /\ \A j \in 1 .. w : SubSeq(path, 1, w)[j] = path[j]
        BY <1>1, <1>5, <1>8, Cut
      <4> QED BY <1>1, <2>2, <4>1, Equal
    <3>5. From(path, (w + 1) + 1) = file
      <4> DEFINE t == From(path, (w + 1) + 1)
      <4>1. w + 1 \in Nat /\ w + 1 <= Len(path) /\ Len(path) - (w + 1) = Len(file)
        BY <1>1, <1>5, <2>2, <3>1
      <4>2. /\ t \in Seq(Tokens) /\ Len(t) = Len(file)
            /\ \A j \in 1 .. Len(file) : t[j] = path[w + 1 + j]
        <5> DEFINE c == w + 1
        <5>1. /\ From(path, c + 1) \in Seq(Tokens) /\ Len(From(path, c + 1)) = Len(path) - c
              /\ \A j \in 1 .. Len(path) - c : From(path, c + 1)[j] = path[c + j]
          <6> HIDE DEF c
          <6> QED BY <1>1, <4>1, Cut DEF c
        <5> QED BY <4>1, <5>1
      <4> HIDE DEF t
      <4>3. t = file
        BY <1>1, <2>2, <4>2, Equal
      <4> QED BY <4>3 DEF t
    <3>6. comma - 1 = w
      BY <1>5, <3>2
    <3> QED BY <3>2, <3>3, <3>4, <3>5, <3>6
  <2> QED BY <2>1, <2>2
<1>13. /\ SubSeq(whole, 1, d) = dev
       /\ d + 1 = Len(whole) <=> part = <<>>
       /\ part # <<>> => simple_strtol(From(whole, (d + 1) + 1)) = Number[part[1]]
  <2>1. SubSeq(whole, 1, d) = dev
    BY <1>1, <1>2, <1>5, Cut, Equal
  <2>2. part = <<>> <=> Len(part) = 0
    BY <1>1
  <2>3. d + 1 = Len(whole) <=> part = <<>>
    BY <1>1, <2>2
  <2>4. ASSUME part # <<>> PROVE simple_strtol(From(whole, (d + 1) + 1)) = Number[part[1]]
    <3> DEFINE t == From(whole, (d + 1) + 1)
    <3>1. Len(part) = 1 /\ d + 1 \in Nat /\ d + 1 <= Len(whole) /\ Len(whole) - (d + 1) = 1
      BY <1>1, <2>2, <2>4
    <3>2. /\ t \in Seq(Tokens) /\ Len(t) = 1
          /\ \A j \in 1 .. 1 : t[j] = whole[(d + 1) + j]
      <4> DEFINE c == d + 1
      <4>1. c \in Nat /\ c <= Len(whole) /\ whole \in Seq(Tokens)
        BY <1>1, <3>1
      <4>2. /\ From(whole, c + 1) \in Seq(Tokens) /\ Len(From(whole, c + 1)) = Len(whole) - c
            /\ \A j \in 1 .. Len(whole) - c : From(whole, c + 1)[j] = whole[c + j]
        <5> HIDE DEF c
        <5> QED BY <4>1, Cut
      <4> QED BY <3>1, <4>2
    <3>3. t[1] = whole[d + 2]
      BY <1>1, <3>2
    <3> HIDE DEF t
    <3>4. t # <<>> /\ t[1] = part[1]
      <4>1. t[1] = part[1]
        BY <1>1, <3>1, <3>3
      <4> QED BY <3>2, <4>1
    <3> QED BY <1>3, <3>1, <3>4 DEF simple_strtol, t
  <2> QED BY <2>1, <2>3, <2>4
<1> DEFINE blank == [EmptySpec EXCEPT !.file = file]
           def == TrimDefault(in.def, kind)
           named == NameDevice(whole, def, kind, blank, in.packet)
<1>14. named = [blank EXCEPT !.dev = dev,
                             !.part = IF part = <<>> THEN @ ELSE Number[part[1]]]
  <2>1. kind # "NET" /\ IsLocal(kind) /\ LastOf(whole, Colon) # 0
    BY <1>1, <1>2, <1>9 DEF IsLocal
  <2>2. named = [blank EXCEPT !.dev = SubSeq(whole, 1, LastOf(whole, Colon) - 1),
                              !.part = IF LastOf(whole, Colon) = Len(whole) THEN @
                                       ELSE simple_strtol(From(whole, LastOf(whole, Colon) + 1))]
    BY <2>1 DEF NameDevice, Colon
  <2>3. (d + 1) - 1 = d
    BY <1>1
  <2> QED BY <1>9, <1>13, <2>2, <2>3
<1>15. blank.part = -1 /\ blank.file = file
  BY DEF EmptySpec
<1>16. /\ named.dev = dev /\ named.file = file
       /\ named.part = IF part = <<>> THEN -1 ELSE Number[part[1]]
  BY <1>14, <1>15 DEF EmptySpec
<1> HIDE DEF named
<1>17. parse_device_path(path, in.def, DefPart, DefFile, in.packet)
          = [named EXCEPT !.dev = IF @ = NULL THEN def ELSE @,
                          !.part = IF @ < 0 THEN DefPart ELSE @,
                          !.file = IF @ = NULL THEN DefFile ELSE @]
  BY <1>11, <1>12 DEF parse_device_path, kind, named
<1> DEFINE r == parse_device_path(path, in.def, DefPart, DefFile, in.packet)
<1>18. DOMAIN named = DOMAIN EmptySpec /\ {"dev", "part", "file"} \subseteq DOMAIN EmptySpec
  BY <1>14 DEF EmptySpec, named
<1>19. /\ r.dev = IF named.dev = NULL THEN def ELSE named.dev
       /\ r.part = IF named.part < 0 THEN DefPart ELSE named.part
       /\ r.file = IF named.file = NULL THEN DefFile ELSE named.file
  BY <1>17, <1>18
<1> HIDE DEF r
<1>20. r.dev = dev /\ r.file = IF file = NULL THEN DefFile ELSE file
  BY <1>2, <1>16, <1>19
<1>21. r.part = IF part = <<>> THEN DefPart ELSE Number[part[1]]
  <2>1. CASE part = <<>>
    BY <1>16, <1>19, <2>1 DEF DefPart
  <2>2. CASE part # <<>>
    <3>1. Number[part[1]] \in Nat
      BY <1>1, <1>3, <2>2
    <3> QED BY <1>16, <1>19, <2>2, <3>1
  <2> QED BY <2>1, <2>2
<1> QED BY <1>20, <1>21 DEF Pick, r, path, part, file, dev

(* The default device of a bare path, without its partition.               *)
LEMMA DefaultTrimmed ==
    ASSUME NEW in, SaysBare(in), NEW kind, IsLocal(kind)
    PROVE  TrimDefault(in.def, kind) = in.dev /\ in.def # NULL
<1> DEFINE dev == in.dev
           def == in.def
           d == Len(dev)
<1>1. /\ dev \in Seq(Tokens) /\ dev # NULL /\ dev # <<>>
      /\ ~Has(dev, Colon)
  BY DEF SaysBare, Name, Colon
<1>2. def = dev \/ \E p \in Tokens : p # Colon /\ def = dev \o <<Colon, p>>
  BY DEF SaysBare, Colon
<1> HIDE DEF dev, def
<1>3. CASE def = dev
  BY <1>1, <1>3 DEF TrimDefault, Colon, dev, def
<1>4. CASE \E p \in Tokens : p # Colon /\ def = dev \o <<Colon, p>>
  <2>1. PICK p \in Tokens : p # Colon /\ def = dev \o <<Colon, p>>
    BY <1>4
  <2> DEFINE c == <<Colon, p>>
  <2>2. c \in Seq(Tokens) /\ Len(c) = 2 /\ c[1] = Colon /\ c[2] = p
    BY Separators
  <2>3. def = dev \o c
    BY <2>1
  <2> HIDE DEF c
  <2>4. d \in Nat /\ d > 0
    BY <1>1
  <2>5. /\ def \in Seq(Tokens) /\ Len(def) = d + 2
        /\ \A i \in 1 .. d : def[i] = dev[i]
        /\ def[d + 1] = Colon /\ def[d + 2] = p
    <3>1. /\ def \in Seq(Tokens) /\ Len(def) = d + Len(c)
          /\ \A i \in 1 .. d : def[i] = dev[i]
          /\ \A i \in 1 .. Len(c) : def[d + i] = c[i]
      BY <1>1, <2>2, <2>3, Joined
    <3>2. def[d + 1] = c[1] /\ def[d + 2] = c[2]
      BY <2>2, <3>1
    <3> QED BY <2>2, <3>1, <3>2
  <2>6. \A i \in 1 .. d : dev[i] # Colon
    BY <1>1 DEF Has
  <2>7. ASSUME NEW j \in 1 .. Len(def), def[j] = Colon
        PROVE  j <= d + 1
    <3>1. j <= d + 1 \/ j = d + 2
      BY <2>4, <2>5
    <3> QED BY <2>1, <2>5, <2>7, <3>1
  <2>8. d + 1 \in 1 .. Len(def) /\ Len(def) \in Nat
    BY <2>4, <2>5
  <2>9. LastOf(def, Colon) = d + 1
    BY <2>5, <2>7, <2>8, LastIs
  <2>10. Has(def, Colon)
    BY <2>5, <2>8 DEF Has
  <2>11. def # NULL
    <3>1. Len(def) > 1
      BY <2>4, <2>5
    <3>2. Len(NULL) = 1
      BY DEF NULL
    <3> QED BY <3>1, <3>2
  <2>12. TrimDefault(def, kind) = SubSeq(def, 1, LastOf(def, Colon) - 1)
    BY <2>10, <2>11 DEF TrimDefault, Colon
  <2>13. SubSeq(def, 1, d) = dev
    <3>1. /\ SubSeq(def, 1, d) \in Seq(Tokens) /\ Len(SubSeq(def, 1, d)) = d
          /\ \A j \in 1 .. d : SubSeq(def, 1, d)[j] = def[j]
      <4>1. d <= Len(def)
        BY <2>4, <2>5
      <4> QED BY <2>4, <2>5, <4>1, Cut
    <3> QED BY <1>1, <2>5, <3>1, Equal
  <2>14. (d + 1) - 1 = d
    BY <2>4
  <2> QED BY <2>9, <2>11, <2>12, <2>13, <2>14 DEF dev, def
<1> QED BY <1>2, <1>3, <1>4

(* A bare path is a file on the default device.                            *)
LEMMA BareMeans ==
    ASSUME NEW in, SaysBare(in)
    PROVE  LET r == parse_device_path(in.file, in.def, DefPart, DefFile, in.packet)
           IN  /\ r.dev = in.dev
               /\ r.part = IF in.part = <<>> THEN DefPart ELSE Number[in.part[1]]
               /\ r.file = Pick(in.file, DefFile)
<1> DEFINE path == in.file
           kind == KindOf(path, in.def)
           def == TrimDefault(in.def, kind)
           blank == [EmptySpec EXCEPT !.file = NULL]
           named == NameDevice(path, def, kind, blank, in.packet)
           r == parse_device_path(path, in.def, DefPart, DefFile, in.packet)
<1>1. /\ path \in Seq(Tokens) /\ path # <<>> /\ path # NULL
      /\ ~Has(path, Colon) /\ ~Has(path, Iscsi)
  BY DEF SaysBare, Name, Colon, Iscsi
<1>2. in.part = <<>> /\ in.dev # NULL
  BY DEF SaysBare, Name
<1>3. in.def # NULL
  <2>1. IsLocal("BLOCK")
    BY DEF IsLocal
  <2> QED BY <2>1, DefaultTrimmed
<1>4. IsLocal(kind)
  BY <1>3 DEF KindOf, SaysBare
<1> HIDE DEF kind, path
<1>5. def = in.dev
  BY <1>4, DefaultTrimmed
<1>6. EffectivePath(path) = path
  BY <1>1 DEF EffectivePath, Iscsi
<1>7. TrimFile(path, kind) = [path |-> path, file |-> NULL]
  BY <1>1 DEF TrimFile, Colon
<1>8. LastOf(path, Colon) = 0
  <2>1. Len(path) \in Nat /\ DOMAIN path = 1 .. Len(path)
    BY <1>1
  <2>2. \A j \in 1 .. Len(path) : path[j] = Colon => j <= 0
    BY <1>1, <2>1 DEF Has
  <2>3. LastOf(path, Colon) \in 0 .. 0
    BY <2>1, <2>2, LastBelow
  <2> QED BY <2>3
<1> HIDE DEF def
<1>9. named = [blank EXCEPT !.file = path]
  <2>1. kind # "NET" /\ ~(LastOf(path, Colon) # 0) /\ def # NULL
    BY <1>2, <1>4, <1>5, <1>8 DEF IsLocal
  <2> QED BY <2>1 DEF NameDevice, Colon
<1>10. /\ named.dev = NULL /\ named.part = -1 /\ named.file = path
       /\ {"dev", "part", "file"} \subseteq DOMAIN named
  BY <1>9 DEF EmptySpec
<1> HIDE DEF named
<1>11. r = [named EXCEPT !.dev = IF @ = NULL THEN def ELSE @,
                         !.part = IF @ < 0 THEN DefPart ELSE @,
                         !.file = IF @ = NULL THEN DefFile ELSE @]
  BY <1>1, <1>6, <1>7 DEF parse_device_path, kind, def, named
<1>12. r.dev = def /\ r.part = DefPart /\ r.file = path
  BY <1>1, <1>10, <1>11 DEF DefPart
<1> QED BY <1>1, <1>2, <1>5, <1>12 DEF Pick, path

-----------------------------------------------------------------------------
(* The first one of a token in a string.                                   *)
LEMMA FirstIs ==
    ASSUME NEW s, Len(s) \in Nat, NEW c, NEW i \in 1 .. Len(s), s[i] = c,
           \A j \in 1 .. Len(s) : s[j] = c => i <= j
    PROVE  FirstOf(s, c) = i
<1> DEFINE I == {j \in 1 .. Len(s) : s[j] = c}
<1>1. FirstOf(s, c) = IF I # {} THEN Min(I) ELSE 0
  BY DEF FirstOf, SelectInSeq
<1>2. i \in I /\ \A j \in I : i <= j /\ j \in Nat
  OBVIOUS
<1>3. Min(I) \in I /\ \A j \in I : Min(I) <= j
  <2>1. \E x \in I : \A j \in I : x <= j
    BY <1>2
  <2> QED BY <2>1 DEF Min
<1> HIDE DEF I
<1>4. Min(I) = i
  <2>1. Min(I) \in Nat /\ i \in Nat /\ Min(I) >= i /\ Min(I) <= i
    BY <1>2, <1>3
  <2> QED BY <2>1
<1> QED BY <1>1, <1>2, <1>4

LEMMA FirstNone ==
    ASSUME NEW s, Len(s) \in Nat, NEW c, \A j \in 1 .. Len(s) : s[j] # c
    PROVE  FirstOf(s, c) = 0
BY DEF FirstOf, SelectInSeq

(***************************************************************************)
(* The optional words in front of the arguments of a network path.         *)
(***************************************************************************)
(* The words behind the colon: each is there once, and no two are adjacent.*)
WordsApart(path, colon) ==
    /\ \A i, j \in colon + 1 .. Len(path) :
          path[i] \in OptionWords /\ path[i] = path[j] => i = j
    /\ \A i \in colon + 1 .. Len(path) - 1 :
          path[i] \in OptionWords => path[i + 1] \notin OptionWords

(* A place the search for the words may be at.                             *)
IsPlace(path, colon, at) ==
    at \in colon .. Len(path) /\ (at = colon \/ path[at] \in OptionWords)

LEMMA SkipsWord ==
    ASSUME NEW path \in Seq(Tokens), NEW colon \in 1 .. Len(path), NEW at, NEW word \in OptionWords,
           WordsApart(path, colon), IsPlace(path, colon, at)
    PROVE  LET new == SkipWord(path, colon, at, word)
           IN  /\ new \in at .. Len(path) /\ IsPlace(path, colon, new)
               /\ \A p \in colon + 1 .. Len(path) : path[p] = word => p <= new
<1> DEFINE new == SkipWord(path, colon, at, word)
           found == {p \in DOMAIN path : p > at /\ path[p] = word}
<1>1. Len(path) \in Nat /\ colon \in Nat /\ at \in Nat /\ colon <= at /\ at <= Len(path)
  BY DEF IsPlace
<1>2. DOMAIN path = 1 .. Len(path)
  OBVIOUS
<1>3. new = IF found = {} \/ (at # colon /\ at + 1 \in found) THEN at ELSE Min(found)
  BY DEF SkipWord
<1> HIDE DEF new
<1>4. CASE found = {}
  <2>1. new = at
    BY <1>3, <1>4
  <2>2. ASSUME NEW p \in colon + 1 .. Len(path), path[p] = word PROVE p <= at
    <3>1. p \in DOMAIN path /\ p \in Nat
      BY <1>1, <1>2
    <3>2. p \notin found
      BY <1>4
    <3> QED BY <1>1, <2>2, <3>1, <3>2
  <2> QED BY <1>1, <2>1, <2>2 DEF new
<1>5. CASE found # {}
  <2>1. PICK n \in found : TRUE
    BY <1>5
  <2>2. n \in colon + 1 .. Len(path) /\ n > at /\ path[n] = word
    BY <1>1, <1>2, <2>1
  <2>3. \A p \in colon + 1 .. Len(path) : path[p] = word => p = n
    BY <2>2 DEF WordsApart
  <2>4. found = {n}
    <3>1. ASSUME NEW p \in found PROVE p = n
      <4>1. p \in colon + 1 .. Len(path) /\ path[p] = word
        BY <1>1, <1>2
      <4> QED BY <2>3, <4>1
    <3> QED BY <2>1, <3>1
  <2> HIDE DEF found
  <2>5. n \in Nat /\ Min(found) = n
    <3>1. n \in Nat /\ n <= n
      BY <1>1, <2>2
    <3> QED BY <2>4, <3>1 DEF Min
  <2>6. ~(at # colon /\ at + 1 \in found)
    <3> SUFFICES ASSUME at # colon, n = at + 1 PROVE FALSE
      BY <2>4
    <3>1. at \in colon + 1 .. Len(path) - 1 /\ path[at] \in OptionWords
      BY <1>1, <2>2 DEF IsPlace
    <3>2. path[at + 1] \in OptionWords
      BY <2>2
    <3> QED BY <3>1, <3>2 DEF WordsApart
  <2>7. new = n
    BY <1>3, <1>5, <2>5, <2>6
  <2>8. new \in at .. Len(path) /\ new \in colon .. Len(path) /\ path[new] \in OptionWords
    BY <1>1, <2>2, <2>7
  <2>9. \A p \in colon + 1 .. Len(path) : path[p] = word => p <= new
    BY <2>3, <2>5, <2>7
  <2> QED BY <2>8, <2>9 DEF new, IsPlace
<1> QED BY <1>4, <1>5

(* The search ends at the last word that is there, or at the colon.        *)
LEMMA SkipsWords ==
    ASSUME NEW path \in Seq(Tokens), NEW colon \in 1 .. Len(path), WordsApart(path, colon)
    PROVE  /\ IsPlace(path, colon, LastWord(path, colon))
           /\ \A p \in colon + 1 .. Len(path) :
                 path[p] \in OptionWords => p <= LastWord(path, colon)
<1> DEFINE a == SkipWord(path, colon, colon, "promiscuous")
           b == SkipWord(path, colon, a, "speed=")
           c == SkipWord(path, colon, b, "duplex=")
           d == SkipWord(path, colon, c, "bootp")
           e == SkipWord(path, colon, d, "rarp")
           Past(w, at) == \A p \in colon + 1 .. Len(path) : path[p] = w => p <= at
<1>0. /\ Len(path) \in Nat /\ IsPlace(path, colon, colon)
      /\ \A w \in {"promiscuous", "speed=", "duplex=", "bootp", "rarp"} : w \in OptionWords
  BY DEF IsPlace, OptionWords
<1>1. IsPlace(path, colon, a) /\ Past("promiscuous", a)
  BY <1>0, SkipsWord
<1> HIDE DEF a
<1>2. b \in a .. Len(path) /\ IsPlace(path, colon, b) /\ Past("speed=", b)
  BY <1>0, <1>1, SkipsWord
<1> HIDE DEF b
<1>3. c \in b .. Len(path) /\ IsPlace(path, colon, c) /\ Past("duplex=", c)
  BY <1>0, <1>2, SkipsWord
<1> HIDE DEF c
<1>4. d \in c .. Len(path) /\ IsPlace(path, colon, d) /\ Past("bootp", d)
  BY <1>0, <1>3, SkipsWord
<1> HIDE DEF d
<1>5. e \in d .. Len(path) /\ IsPlace(path, colon, e) /\ Past("rarp", e)
  BY <1>0, <1>4, SkipsWord
<1> HIDE DEF e
<1>6. LastWord(path, colon) = e
  BY DEF LastWord, a, b, c, d, e
<1>7. a \in Nat /\ b \in Nat /\ c \in Nat /\ d \in Nat /\ e \in Nat
  BY <1>0, <1>1, <1>2, <1>3, <1>4, <1>5 DEF IsPlace
<1>8. a <= e /\ b <= e /\ c <= e /\ d <= e
  BY <1>2, <1>3, <1>4, <1>5, <1>7
<1>9. ASSUME NEW p \in colon + 1 .. Len(path), path[p] \in OptionWords PROVE p <= e
  <2>1. path[p] \in {"promiscuous", "speed=", "duplex=", "bootp", "rarp"}
    BY <1>9 DEF OptionWords
  <2>2. p <= a \/ p <= b \/ p <= c \/ p <= d \/ p <= e
    BY <1>1, <1>2, <1>3, <1>4, <1>5, <2>1, Zenon
  <2> HIDE DEF Past
  <2> QED BY <1>7, <1>8, <2>2
<1> QED BY <1>5, <1>6, <1>9

LEMMA WiderSeq ==
    ASSUME NEW S, NEW T, S \subseteq T, NEW s \in Seq(S)
    PROVE  s \in Seq(T)
OBVIOUS

(* A network path: dev, a colon at c, words and rest.                      *)
LaidOut(path, dev, c, words, rest) ==
    /\ \A i \in 1 .. c - 1 : path[i] = dev[i]
    /\ path[c] = Colon
    /\ \A i \in 1 .. Len(words) : path[c + i] = words[i]
    /\ \A i \in 1 .. Len(rest) : path[c + Len(words) + i] = rest[i]

LEMMA NetSpelling ==
    ASSUME NEW dev \in Seq(Tokens), NEW words \in Seq(Tokens), NEW rest \in Seq(Tokens)
    PROVE  LET path == (dev \o <<Colon>>) \o (words \o rest)
           IN  /\ path \in Seq(Tokens)
               /\ Len(path) = (Len(dev) + 1) + Len(words) + Len(rest)
               /\ LaidOut(path, dev, Len(dev) + 1, words, rest)
<1> DEFINE col == <<Colon>>
           head == dev \o col
           tail == words \o rest
           path == head \o tail
           d == Len(dev)
           w == Len(words)
           r == Len(rest)
<1>1. col \in Seq(Tokens) /\ Len(col) = 1 /\ col[1] = Colon
  BY Separators, Single, Zenon
<1> HIDE DEF col
<1>2. d \in Nat /\ w \in Nat /\ r \in Nat
  OBVIOUS
<1>3. /\ head \in Seq(Tokens) /\ Len(head) = Len(dev) + Len(col)
      /\ \A i \in 1 .. Len(dev) : head[i] = dev[i]
      /\ \A i \in 1 .. Len(col) : head[Len(dev) + i] = col[i]
  BY <1>1, Joined, Zenon
<1>4. /\ tail \in Seq(Tokens) /\ Len(tail) = Len(words) + Len(rest)
      /\ \A i \in 1 .. Len(words) : tail[i] = words[i]
      /\ \A i \in 1 .. Len(rest) : tail[Len(words) + i] = rest[i]
  BY Joined, Zenon
<1> HIDE DEF head, tail
<1>5. /\ path \in Seq(Tokens) /\ Len(path) = Len(head) + Len(tail)
      /\ \A i \in 1 .. Len(head) : path[i] = head[i]
      /\ \A i \in 1 .. Len(tail) : path[Len(head) + i] = tail[i]
  BY <1>3, <1>4, Joined, Zenon
<1> HIDE DEF path
<1>6. Len(head) = d + 1 /\ Len(tail) = w + r
  BY <1>1, <1>3, <1>4
<1> HIDE DEF d, w, r
<1>7. Len(path) = (d + 1) + w + r
  BY <1>2, <1>5, <1>6
<1>8. path[d + 1] = Colon /\ \A i \in 1 .. d : path[i] = dev[i]
  <2>1. d + 1 \in 1 .. d + 1 /\ \A i \in 1 .. d : i \in 1 .. d + 1
    BY <1>2
  <2>2. head[d + 1] = Colon /\ \A i \in 1 .. d : head[i] = dev[i]
    BY <1>1, <1>3 DEF d
  <2> QED BY <1>5, <1>6, <2>1, <2>2
<1>9. ASSUME NEW i \in 1 .. w PROVE path[d + 1 + i] = words[i]
  <2>1. i \in 1 .. w + r
    BY <1>2
  <2>2. tail[i] = words[i]
    BY <1>4 DEF w
  <2> QED BY <1>5, <1>6, <2>1, <2>2
<1>10. ASSUME NEW i \in 1 .. r PROVE path[d + 1 + w + i] = rest[i]
  <2>1. w + i \in 1 .. w + r /\ d + 1 + (w + i) = d + 1 + w + i
    BY <1>2
  <2>2. tail[w + i] = rest[i]
    BY <1>4 DEF w, r
  <2> QED BY <1>5, <1>6, <2>1, <2>2
<1>11. (d + 1) - 1 = d
  BY <1>2
<1>12. LaidOut(path, dev, d + 1, words, rest)
  BY <1>8, <1>9, <1>10, <1>11 DEF LaidOut, w, r
<1> QED BY <1>5, <1>7, <1>12 DEF d, w, r, path, head, tail, col

(* No part of a path holds a token that another one is known by.           *)
KeptApart(dev, colon, words, rest) ==
    /\ \A i \in 1 .. colon - 1 : dev[i] # Colon
    /\ \A i \in 1 .. Len(words) : words[i] # Colon
    /\ \A i \in 1 .. Len(rest) : rest[i] # Colon /\ rest[i] \notin OptionWords

(* The arguments start behind the colon and the words.                     *)
LEMMA ArgumentsStart ==
    ASSUME NEW dev, NEW words \in Seq(Tokens), NEW rest \in Seq(Tokens),
           NEW path \in Seq(Tokens), NEW colon \in Nat, colon > 1,
           Len(path) = colon + Len(words) + Len(rest),
           LaidOut(path, dev, colon, words, rest), SaysWords(words),
           KeptApart(dev, colon, words, rest)
    PROVE  /\ Ipv4Start(path) = colon + Len(words) + 1
           /\ From(path, colon + Len(words) + 1) = rest
<1> DEFINE w == Len(words)
           r == Len(rest)
           n == Len(path)
           last == LastWord(path, colon)
<1>0. /\ \A i \in 1 .. colon - 1 : dev[i] # Colon
      /\ \A i \in 1 .. Len(words) : words[i] # Colon
      /\ \A i \in 1 .. Len(rest) : rest[i] # Colon /\ rest[i] \notin OptionWords
  BY DEF KeptApart
<1>1. w \in Nat /\ r \in Nat /\ n \in Nat /\ n = colon + w + r /\ DOMAIN words = 1 .. w
  OBVIOUS
<1>2. \A i \in 1 .. w : path[colon + i] = words[i]
  BY DEF LaidOut
<1>13. \A i \in 1 .. r : path[colon + w + i] = rest[i]
  BY DEF LaidOut
<1>3. ASSUME NEW i \in colon + 1 .. n
      PROVE  \/ i - colon \in 1 .. w /\ path[i] = words[i - colon]
             \/ i - colon - w \in 1 .. r /\ path[i] = rest[i - colon - w]
  <2> HIDE DEF w, r, n
  <2>1. CASE i <= colon + w
    <3>1. i - colon \in 1 .. w /\ colon + (i - colon) = i
      BY <1>1, <2>1
    <3> QED BY <1>2, <3>1
  <2>2. CASE i > colon + w
    <3>1. i - colon - w \in 1 .. r /\ colon + w + (i - colon - w) = i
      BY <1>1, <2>2
    <3>2. path[colon + w + (i - colon - w)] = rest[i - colon - w]
      BY <1>13, <3>1
    <3> QED BY <3>1, <3>2
  <2> QED BY <1>1, <2>1, <2>2
<1>4. LastOf(path, Colon) = colon
  <2>1. colon \in 1 .. n /\ n \in Nat
    <3> HIDE DEF w, r, n
    <3> QED BY <1>1
  <2>2. ASSUME NEW j \in 1 .. n, path[j] = Colon PROVE j <= colon
    <3> SUFFICES ASSUME j > colon PROVE FALSE
      BY <1>1
    <3>1. j \in colon + 1 .. n
      BY <1>1
    <3> QED BY <1>0, <1>3, <2>2, <3>1
  <2>3. path[colon] = Colon
    BY DEF LaidOut
  <2> QED BY <2>1, <2>2, <2>3, LastIs
<1>5. WordsApart(path, colon)
  <2>1. ASSUME NEW i \in colon + 1 .. n, path[i] \in OptionWords
        PROVE  i - colon \in 1 .. w /\ path[i] = words[i - colon]
    BY <1>0, <1>3, <2>1
  <2>2. ASSUME NEW i \in colon + 1 .. n, NEW j \in colon + 1 .. n,
               path[i] \in OptionWords, path[i] = path[j]
        PROVE  i = j
    <3>1. /\ i - colon \in 1 .. w /\ j - colon \in 1 .. w
          /\ words[i - colon] \in OptionWords /\ words[j - colon] = words[i - colon]
      BY <2>1, <2>2
    <3>2. w # 0 /\ words # <<>>
      BY <1>1, <3>1
    <3>3. i - colon = j - colon
      BY <1>1, <3>1, <3>2 DEF SaysWords
    <3> QED BY <1>1, <3>3
  <2>3. ASSUME NEW i \in colon + 1 .. n - 1, path[i] \in OptionWords,
               path[i + 1] \in OptionWords
        PROVE  FALSE
    <3>1. i \in colon + 1 .. n /\ i + 1 \in colon + 1 .. n /\ i + 1 - colon = (i - colon) + 1
      BY <1>1
    <3>2. i - colon \in 1 .. w /\ words[i - colon] \in OptionWords
      BY <2>1, <2>3, <3>1
    <3>3. (i - colon) + 1 \in 1 .. w /\ words[(i - colon) + 1] \in OptionWords
      BY <2>1, <2>3, <3>1
    <3>4. i - colon \in 1 .. w - 1
      BY <1>1, <3>1, <3>2, <3>3
    <3>5. words # <<>>
      BY <1>1, <3>2
    <3> QED BY <3>2, <3>3, <3>4, <3>5 DEF SaysWords
  <2> QED BY <2>2, <2>3 DEF WordsApart
<1>6. /\ last \in colon .. n /\ (last = colon \/ path[last] \in OptionWords)
      /\ \A p \in colon + 1 .. n : path[p] \in OptionWords => p <= last
  <2>1. colon \in 1 .. Len(path)
    <3> HIDE DEF w, r
    <3> QED BY <1>1
  <2> QED BY <2>1, <1>5, SkipsWords DEF IsPlace
<1>8. Ipv4Start(path) =
        LET comma == FirstOf(From(path, last + 1), Comma)
        IN  IF last = colon
            THEN IF path[colon - 1] = Colon THEN colon ELSE colon + 1
            ELSE IF comma = 0 THEN 0 ELSE last + comma + 1
  <2>1. colon # 0 /\ colon > 1
    OBVIOUS
  <2> QED BY <1>4, <2>1 DEF Ipv4Start, Colon, Comma, last
<1> HIDE DEF last
<1>7. last # colon => last - colon \in 1 .. w /\ words[last - colon] \in OptionWords
  <2> SUFFICES ASSUME last # colon
               PROVE  last - colon \in 1 .. w /\ words[last - colon] \in OptionWords
    OBVIOUS
  <2>1. last \in colon + 1 .. n /\ path[last] \in OptionWords
    BY <1>1, <1>6
  <2> QED BY <1>0, <1>3, <2>1
<1> DEFINE s == From(path, last + 1)
<1>9. ASSUME words = <<>> PROVE Ipv4Start(path) = colon + Len(words) + 1
  <2>1. w = 0
    BY <1>9
  <2>2. last = colon
    BY <1>7, <2>1
  <2>3. path[colon - 1] # Colon
    <3>1. colon - 1 \in 1 .. colon - 1
      OBVIOUS
    <3> QED BY <1>0, <3>1 DEF LaidOut
  <2>4. Ipv4Start(path) = colon + 1
    BY <1>8, <2>2, <2>3
  <2> QED BY <2>1, <2>4
<1>10. ASSUME words # <<>> PROVE Ipv4Start(path) = colon + Len(words) + 1
  <2>1. PICK l \in DOMAIN words :
           /\ words[l] \in OptionWords /\ l < Len(words) /\ words[Len(words)] = Comma
           /\ \A i \in l + 1 .. Len(words) - 1 : words[i] # Comma /\ words[i] \notin OptionWords
    BY <1>10, Zenon DEF SaysWords, Comma
  <2> HIDE DEF w, r, n
  <2>2. l \in Nat /\ l >= 1 /\ l < w /\ l \in 1 .. w
    BY <1>1, <2>1 DEF w
  <2>3. last >= colon + l
    <3>1. colon + l \in colon + 1 .. n
      BY <1>1, <2>2
    <3>2. path[colon + l] = words[l]
      BY <1>2, <2>2
    <3> QED BY <1>6, <2>1, <3>1, <3>2
  <2>4. last = colon + l
    <3>1. last \in Nat /\ last # colon
      BY <1>1, <1>6, <2>2, <2>3
    <3>2. last - colon \in 1 .. w /\ words[last - colon] \in OptionWords
      BY <1>7, <3>1
    <3>3. last - colon # w
      BY <2>1, <3>2 DEF OptionWords, Comma, w
    <3>4. last - colon \notin l + 1 .. w - 1
      BY <2>1, <3>2 DEF w
    <3>5. l \in Nat /\ w \in Nat /\ colon \in Nat /\ last \in Nat /\ last >= colon + l
      BY <1>1, <2>2, <2>3, <3>1
    <3> QED BY <3>2, <3>3, <3>4, <3>5
  <2>5. /\ Len(s) = n - last /\ s \in Seq(Tokens) /\ Len(s) \in Nat
        /\ \A j \in 1 .. n - last : s[j] = path[last + j]
    <3>1. last \in Nat /\ last <= Len(path) /\ n - last \in Nat
      BY <1>1, <1>6 DEF n
    <3> QED BY <3>1, Cut DEF n
  <2> HIDE DEF s
  <2>6. w - l \in 1 .. Len(s) /\ s[w - l] = Comma
    <3>1. w - l \in 1 .. n - last /\ last + (w - l) = colon + w /\ w \in 1 .. w
      BY <1>1, <2>2, <2>4
    <3>2. path[colon + w] = Comma
      BY <1>2, <2>1, <3>1 DEF w
    <3> QED BY <2>5, <3>1, <3>2
  <2>7. ASSUME NEW j \in 1 .. Len(s), s[j] = Comma PROVE w - l <= j
    <3> SUFFICES ASSUME j < w - l PROVE FALSE
      BY <2>2, <2>5, <1>1
    <3>1. /\ l + j \in l + 1 .. w - 1 /\ l + j \in 1 .. w /\ last + j = colon + (l + j)
          /\ j \in 1 .. n - last
      BY <1>1, <2>2, <2>4, <2>5
    <3>2. s[j] = words[l + j]
      BY <1>2, <2>5, <3>1
    <3> QED BY <2>1, <2>7, <3>1, <3>2 DEF w
  <2>8. FirstOf(s, Comma) = w - l
    <3>1. \A j \in 1 .. Len(s) : s[j] = Comma => w - l <= j
      BY <2>7
    <3> DEFINE m == w - l
    <3>2. Len(s) \in Nat /\ m \in 1 .. Len(s) /\ s[m] = Comma
      BY <2>5, <2>6
    <3> HIDE DEF m
    <3> QED BY <3>1, <3>2, FirstIs DEF m
  <2>9. Ipv4Start(path) = colon + w + 1
    <3>1. last # colon /\ w - l # 0 /\ last + (w - l) + 1 = colon + w + 1
      BY <1>1, <2>2, <2>4
    <3> QED BY <1>8, <2>8, <3>1 DEF s
  <2> QED BY <2>9 DEF w
<1>12. From(path, colon + w + 1) = rest
  <2> DEFINE k == colon + w
             f == From(path, k + 1)
  <2> HIDE DEF w, r, n
  <2>1. k \in Nat /\ k <= n /\ n - k = r
    BY <1>1
  <2> HIDE DEF k
  <2>2. /\ f \in Seq(Tokens) /\ Len(f) = Len(path) - k
        /\ \A j \in 1 .. Len(path) - k : f[j] = path[k + j]
    BY <2>1, Cut DEF n
  <2> HIDE DEF f
  <2>3. \A j \in 1 .. r : f[j] = rest[j]
    BY <1>13, <2>1, <2>2 DEF n, k
  <2>4. f = rest
    BY <2>1, <2>2, <2>3, Equal DEF n, r
  <2> QED BY <2>4 DEF f, k
<1> QED BY <1>9, <1>10, <1>12

(***************************************************************************)
(* The arguments.                                                          *)
(***************************************************************************)
LEMMA NoAddress == is_valid_ipv4_str(NULL) = NULL /\ is_valid_ipv4_str(<<>>) = NULL
  BY DEF is_valid_ipv4_str, NULL

LEMMA AnAddress ==
    ASSUME NEW f
    PROVE  is_valid_ipv4_str(f) # <<>>
  <1>1. <<>> # NULL
    BY DEF NULL
  <1>2. f = <<>> => Len(f) # 1
    OBVIOUS
  <1> QED BY <1>1, <1>2 DEF is_valid_ipv4_str

(* A call of scopy takes one field off the string.                         *)
LEMMA TakesField ==
    ASSUME NEW f \in Seq(Tokens), NEW t \in Seq(Tokens), ~Has(f, Comma),
           t # <<>> => t[1] = Comma
    PROVE  /\ is_valid_ipv4_str(scopy(f \o t)) = is_valid_ipv4_str(f)
           /\ Scopied(f \o t) = IF t = <<>> THEN <<>> ELSE From(t, 2)
<1> DEFINE s == f \o t
           k == Len(f)
           m == Len(t)
           n == Len(s)
           e == FieldEnd(s)
<1>1. /\ s \in Seq(Tokens) /\ n = k + m /\ k \in Nat /\ m \in Nat
      /\ \A i \in 1 .. k : s[i] = f[i]
      /\ \A i \in 1 .. m : s[k + i] = t[i]
  BY Joined, Zenon
<1>2. t = <<>> => s = f /\ m = 0
  OBVIOUS
<1>3. \A i \in 1 .. k : f[i] # Comma
  BY DEF Has
<1> HIDE DEF s
<1>4. e = IF FirstOf(s, Comma) = 0 THEN n + 1 ELSE FirstOf(s, Comma)
  BY DEF FieldEnd, Comma
<1> HIDE DEF e
<1>5. e = k + 1
  <2>1. CASE t = <<>>
    <3>1. n = k /\ \A i \in 1 .. n : s[i] # Comma
      BY <1>1, <1>2, <1>3, <2>1
    <3>2. FirstOf(s, Comma) = 0
      BY <1>1, <3>1, FirstNone
    <3> QED BY <1>4, <3>1, <3>2
  <2>2. CASE t # <<>>
    <3>1. m >= 1 /\ n \in Nat
      BY <1>1, <2>2
    <3>2. s[k + 1] = Comma
      BY <1>1, <2>2, <3>1
    <3>3. \A i \in 1 .. n : s[i] = Comma => k + 1 <= i
      <4> SUFFICES ASSUME NEW i \in 1 .. n, s[i] = Comma, i < k + 1 PROVE FALSE
        BY <1>1
      <4>1. i \in 1 .. k
        BY <1>1
      <4> QED BY <1>1, <1>3, <4>1
    <3>4. FirstOf(s, Comma) = k + 1
      <4> DEFINE l == k + 1
      <4>1. Len(s) \in Nat /\ l \in 1 .. Len(s)
        BY <1>1, <3>1
      <4> HIDE DEF l
      <4> QED BY <3>2, <3>3, <4>1, FirstIs DEF l
    <3> QED BY <1>1, <1>4, <3>4
  <2> QED BY <2>1, <2>2
<1>6. SubSeq(s, 1, e - 1) = f
  <2> DEFINE g == SubSeq(s, 1, k)
  <2>1. k <= n /\ e - 1 = k
    BY <1>1, <1>5
  <2>2. g \in Seq(Tokens) /\ Len(g) = k /\ \A j \in 1 .. k : g[j] = s[j]
    BY <1>1, <2>1, Cut
  <2> HIDE DEF g
  <2>3. g = f
    BY <1>1, <2>2, Equal
  <2> QED BY <2>1, <2>3 DEF g
<1>7. is_valid_ipv4_str(scopy(s)) = is_valid_ipv4_str(f)
  <2>1. scopy(s) = IF s = <<>> THEN NULL ELSE f
    BY <1>6 DEF scopy, e
  <2>2. s = <<>> => f = <<>>
    BY <1>1
  <2> QED BY <2>1, <2>2, NoAddress
<1>8. Scopied(s) = From(s, (k + 1) + 1)
  BY <1>5 DEF Scopied, e
<1>9. CASE t = <<>>
  <2>1. From(s, (k + 1) + 1) = <<>>
    <3>1. Len(s) = k /\ k \in Nat /\ (k + 1) + 1 > k
      BY <1>1, <1>2, <1>9
    <3> QED BY <1>1, <3>1 DEF From
  <2> QED BY <1>7, <1>8, <1>9, <2>1 DEF s
<1>10. CASE t # <<>>
  <2> DEFINE p == k + 1
             g == From(s, p + 1)
             h == From(t, 1 + 1)
  <2>1. p \in Nat /\ p <= n /\ n - p = m - 1 /\ 1 <= m
    BY <1>1, <1>10
  <2> HIDE DEF p
  <2>2. g \in Seq(Tokens) /\ Len(g) = n - p /\ \A j \in 1 .. n - p : g[j] = s[p + j]
    BY <1>1, <2>1, Cut
  <2>3. h \in Seq(Tokens) /\ Len(h) = m - 1 /\ \A j \in 1 .. m - 1 : h[j] = t[1 + j]
    BY <2>1, Cut
  <2> HIDE DEF g, h
  <2>4. ASSUME NEW j \in 1 .. m - 1 PROVE g[j] = h[j]
    <3>1. 1 + j \in 1 .. m /\ p + j = k + (1 + j)
      BY <1>1, <2>1 DEF p
    <3> QED BY <1>1, <2>1, <2>2, <2>3, <3>1
  <2>5. g = h
    BY <2>1, <2>2, <2>3, <2>4, Equal
  <2>6. From(s, (k + 1) + 1) = From(t, 2)
    BY <2>5 DEF g, h, p
  <2> QED BY <1>7, <1>8, <1>10, <2>6 DEF s
<1> QED BY <1>9, <1>10

(* The k-th field, and what the string is in front of a field.             *)
FieldAt(args, k) == IF k <= Len(args) THEN args[k] ELSE <<>>

LEMMA NextField ==
    ASSUME NEW args, Len(args) \in Nat, NEW k \in Nat, NEW rest \in Seq(Tokens),
           k <= Len(args) => args[k] \in Seq(Tokens),
           k > Len(args) => rest = <<>>
    PROVE  LET t == SpellField(args, k) \o rest
           IN  /\ t \in Seq(Tokens)
               /\ t # <<>> => t[1] = Comma /\ k <= Len(args)
               /\ (IF t = <<>> THEN <<>> ELSE From(t, 2)) = FieldAt(args, k) \o rest
<1> DEFINE t == SpellField(args, k) \o rest
<1>1. CASE k <= Len(args)
  <2> DEFINE f == args[k]
             col == <<Comma>>
             b == f \o rest
  <2>1. col \in Seq(Tokens) /\ Len(col) = 1 /\ col[1] = Comma
    BY Separators, Single, Zenon
  <2>2. t = (col \o f) \o rest
    BY <1>1 DEF SpellField, Comma
  <2>3. f \in Seq(Tokens)
    BY <1>1
  <2> HIDE DEF f, col
  <2>4. t = col \o b
    BY <2>1, <2>2, <2>3, Associated
  <2>5. b \in Seq(Tokens)
    BY <2>3, Joined, Zenon
  <2> HIDE DEF b, t
  <2>6. /\ t \in Seq(Tokens) /\ Len(t) = Len(col) + Len(b) /\ Len(b) \in Nat
        /\ \A i \in 1 .. Len(col) : t[i] = col[i]
        /\ \A i \in 1 .. Len(b) : t[Len(col) + i] = b[i]
    BY <2>1, <2>4, <2>5, Joined, Zenon
  <2>7. t # <<>> /\ t[1] = Comma
    BY <2>1, <2>6
  <2>8. From(t, 2) = b
    <3> DEFINE g == From(t, 1 + 1)
    <3>3. 1 \in Nat /\ 1 <= Len(t)
      BY <2>1, <2>6
    <3>1. /\ g \in Seq(Tokens) /\ Len(g) = Len(t) - 1
          /\ \A j \in 1 .. Len(t) - 1 : g[j] = t[1 + j]
      BY <2>6, <3>3, Cut
    <3> HIDE DEF g
    <3>2. g = b
      BY <2>1, <2>5, <2>6, <3>1, Equal
    <3> QED BY <3>2 DEF g
  <2>9. FieldAt(args, k) \o rest = b
    BY <1>1 DEF FieldAt, b, f
  <2> QED BY <1>1, <2>6, <2>7, <2>8, <2>9 DEF t
<1>2. CASE ~(k <= Len(args))
  <2>1. SpellField(args, k) = <<>> /\ FieldAt(args, k) = <<>> /\ rest = <<>>
    BY <1>2 DEF SpellField, FieldAt
  <2> QED BY <2>1
<1> QED BY <1>1, <1>2

(* The tokens of the arguments.                                            *)
Foreign == {":", "ipv6", "iscsi"} \cup OptionWords

LEMMA Clean ==
    ASSUME NEW a, Field(a)
    PROVE  a \in Seq(Tokens) /\ \A i \in 1 .. Len(a) : a[i] \notin Foreign
  BY DEF Field, Foreign

LEMMA CleanField ==
    ASSUME NEW a \in Seq(Tokens), \A i \in 1 .. Len(a) : a[i] \notin Foreign
    PROVE  Field(a)
  <1>1. DOMAIN a = 1 .. Len(a)
    OBVIOUS
  <1> QED BY <1>1 DEF Field, Foreign

LEMMA CleanComma == Comma \notin Foreign
  BY DEF Comma, Foreign, OptionWords

LEMMA CleanJoin ==
    ASSUME NEW a, Field(a), NEW b, Field(b)
    PROVE  Field(a \o b)
<1> DEFINE s == a \o b
<1>1. /\ a \in Seq(Tokens) /\ \A i \in 1 .. Len(a) : a[i] \notin Foreign
      /\ b \in Seq(Tokens) /\ \A i \in 1 .. Len(b) : b[i] \notin Foreign
  BY Clean, Zenon
<1>2. /\ s \in Seq(Tokens) /\ Len(s) = Len(a) + Len(b) /\ Len(a) \in Nat /\ Len(b) \in Nat
      /\ \A i \in 1 .. Len(a) : s[i] = a[i]
      /\ \A i \in 1 .. Len(b) : s[Len(a) + i] = b[i]
  BY <1>1, Joined, Zenon
<1> HIDE DEF s
<1>3. ASSUME NEW i \in 1 .. Len(s) PROVE s[i] \notin Foreign
  <2>1. CASE i <= Len(a)
    BY <1>1, <1>2, <2>1
  <2>2. CASE i > Len(a)
    <3>1. i - Len(a) \in 1 .. Len(b) /\ Len(a) + (i - Len(a)) = i
      BY <1>2, <2>2
    <3> QED BY <1>1, <1>2, <3>1
  <2> QED BY <1>2, <2>1, <2>2
<1>4. Field(s)
  BY <1>2, <1>3, CleanField
<1> QED BY <1>4 DEF s

LEMMA CleanSpelled ==
    ASSUME NEW args, NEW k, k <= Len(args) => Field(args[k])
    PROVE  Field(SpellField(args, k)) /\ Field(FieldAt(args, k))
<1>1. Field(<<>>)
  <2>1. <<>> \in Seq(Tokens) /\ Len(<<>>) = 0
    OBVIOUS
  <2> QED BY <2>1 DEF Field
<1>2. Field(<<Comma>>)
  <2> DEFINE c == <<Comma>>
  <2>1. c \in Seq(Tokens) /\ Len(c) = 1 /\ c[1] = Comma
    BY Separators, Single, Zenon
  <2> HIDE DEF c
  <2>2. \A i \in 1 .. Len(c) : c[i] \notin Foreign
    BY <2>1, CleanComma
  <2>3. Field(c)
    BY <2>1, <2>2, CleanField
  <2> QED BY <2>3 DEF c
<1>3. CASE k <= Len(args)
  <2>1. SpellField(args, k) = <<Comma>> \o args[k] /\ FieldAt(args, k) = args[k]
    BY <1>3 DEF SpellField, FieldAt, Comma
  <2>2. Field(<<Comma>> \o args[k])
    BY <1>2, <1>3, CleanJoin
  <2> QED BY <1>3, <2>1, <2>2, Zenon
<1>4. CASE ~(k <= Len(args))
  BY <1>1, <1>4 DEF SpellField, FieldAt
<1> QED BY <1>3, <1>4

(* The arguments of a network path, as scopy takes them off.               *)
LEMMA NetFields ==
    ASSUME NEW in, SaysNet(in)
    PROVE  LET args == SpellArgs(in)
               third == Scopied(Scopied(args))
           IN  /\ Field(args)
               /\ is_valid_ipv4_str(scopy(args)) = is_valid_ipv4_str(FieldAt(in.args, 1))
               /\ is_valid_ipv4_str(scopy(third)) = is_valid_ipv4_str(FieldAt(in.args, 3))
               /\ is_valid_ipv4_str(scopy(Scopied(third))) = is_valid_ipv4_str(FieldAt(in.args, 4))
<1> DEFINE a == in.args
           n == Len(a)
           F(k) == FieldAt(a, k)
           t4 == in.more
           t3 == SpellField(a, 4) \o t4
           t2 == SpellField(a, 3) \o t3
           t1 == SpellField(a, 2) \o t2
           After(t) == IF t = <<>> THEN <<>> ELSE From(t, 2)
<1>1. /\ n \in Nat /\ n <= 4 /\ (a = <<>> <=> n = 0)
      /\ \A k \in 1 .. n : a[k] \in Seq(Tokens) /\ Field(a[k]) /\ ~Has(a[k], Comma)
  <2> DEFINE S == {x \in Seq(Tokens) : Field(x) /\ ~Has(x, Comma)}
  <2>1. a \in Seq(S) /\ n <= 4
    BY DEF SaysNet, Comma
  <2>2. n \in Nat /\ (a = <<>> <=> n = 0) /\ \A k \in 1 .. n : a[k] \in S
    <3> HIDE DEF S
    <3> QED BY <2>1
  <2> QED BY <2>1, <2>2
<1>2. Field(t4) /\ t4 \in Seq(Tokens) /\ (t4 # <<>> => n = 4 /\ t4[1] = Comma)
  BY DEF SaysNet, Comma, Field
<1> HIDE DEF a, n, t4
<1>3. \A k \in Nat : k >= 1 /\ k <= Len(a) => a[k] \in Seq(Tokens) /\ Field(a[k]) /\ ~Has(a[k], Comma)
  BY <1>1 DEF n
<1>4. \A k \in {1, 2, 3, 4} :
         /\ F(k) \in Seq(Tokens) /\ Field(F(k)) /\ Field(SpellField(a, k)) /\ ~Has(F(k), Comma)
  <2> SUFFICES ASSUME NEW k \in {1, 2, 3, 4}
               PROVE  /\ F(k) \in Seq(Tokens) /\ Field(F(k)) /\ Field(SpellField(a, k))
                      /\ ~Has(F(k), Comma)
    OBVIOUS
  <2>1. k <= Len(a) => a[k] \in Seq(Tokens) /\ Field(a[k]) /\ ~Has(a[k], Comma)
    BY <1>3
  <2>2. Field(F(k)) /\ Field(SpellField(a, k))
    BY <2>1, CleanSpelled
  <2>3. ~Has(<<>>, Comma) /\ <<>> \in Seq(Tokens)
    BY DEF Has
  <2> QED BY <2>1, <2>2, <2>3 DEF FieldAt
<1> HIDE DEF F
<1>5. /\ t3 \in Seq(Tokens) /\ (t3 # <<>> => t3[1] = Comma /\ 4 <= n)
      /\ After(t3) = FieldAt(a, 4) \o t4
  <2>1. /\ Len(a) \in Nat /\ 4 \in Nat /\ (4 > Len(a) => t4 = <<>>)
        /\ (4 <= Len(a) => a[4] \in Seq(Tokens))
    BY <1>1, <1>2, <1>3 DEF n
  <2> QED BY <1>2, <2>1, NextField DEF n
<1> HIDE DEF t3
<1>6. /\ t2 \in Seq(Tokens) /\ (t2 # <<>> => t2[1] = Comma /\ 3 <= n)
      /\ After(t2) = FieldAt(a, 3) \o t3
  <2>1. /\ Len(a) \in Nat /\ 3 \in Nat /\ (3 > Len(a) => t3 = <<>>)
        /\ (3 <= Len(a) => a[3] \in Seq(Tokens))
    BY <1>1, <1>5, <1>3 DEF n
  <2> QED BY <1>5, <2>1, NextField DEF n
<1> HIDE DEF t2
<1>7. /\ t1 \in Seq(Tokens) /\ (t1 # <<>> => t1[1] = Comma)
      /\ After(t1) = FieldAt(a, 2) \o t2
  <2>1. /\ Len(a) \in Nat /\ 2 \in Nat /\ (2 > Len(a) => t2 = <<>>)
        /\ (2 <= Len(a) => a[2] \in Seq(Tokens))
    BY <1>1, <1>6, <1>3 DEF n
  <2> QED BY <1>6, <2>1, NextField DEF n
<1> HIDE DEF t1
<1>8. SpellArgs(in) = F(1) \o t1
  <2>1. F(1) = IF a = <<>> THEN <<>> ELSE a[1]
    BY <1>1 DEF F, FieldAt, n
  <2> QED BY <2>1 DEF SpellArgs, t1, t2, t3, t4, a
<1>9. Field(F(1) \o t1)
  <2>1. Field(t3)
    BY <1>2, <1>4, CleanJoin DEF t3
  <2>2. Field(t2)
    BY <1>4, <2>1, CleanJoin DEF t2
  <2>3. Field(t1)
    BY <1>4, <2>2, CleanJoin DEF t1
  <2> QED BY <1>4, <2>3, CleanJoin
<1>10. /\ is_valid_ipv4_str(scopy(F(1) \o t1)) = is_valid_ipv4_str(F(1))
       /\ Scopied(F(1) \o t1) = After(t1)
  BY <1>4, <1>7, TakesField
<1>11. Scopied(F(2) \o t2) = After(t2)
  BY <1>4, <1>6, TakesField
<1>12. /\ is_valid_ipv4_str(scopy(F(3) \o t3)) = is_valid_ipv4_str(F(3))
       /\ Scopied(F(3) \o t3) = After(t3)
  BY <1>4, <1>5, TakesField
<1>13. is_valid_ipv4_str(scopy(F(4) \o t4)) = is_valid_ipv4_str(F(4))
  BY <1>2, <1>4, TakesField
<1> HIDE DEF After
<1>14. Scopied(Scopied(F(1) \o t1)) = F(3) \o t3
  BY <1>6, <1>7, <1>10, <1>11 DEF F
<1>15. Scopied(F(3) \o t3) = F(4) \o t4
  BY <1>5, <1>12 DEF F
<1> QED BY <1>8, <1>9, <1>10, <1>12, <1>13, <1>14, <1>15 DEF F, a

(* What a network path is: no address of it, and no word of its arguments, *)
(* is taken for something else.                                            *)
LEMMA NetPath ==
    ASSUME NEW in, SaysNet(in)
    PROVE  LET path == SpellNet(in)
           IN  /\ path \in Seq(Tokens) /\ path # NULL
               /\ Has(path, Colon) /\ ~Has(path, Iscsi) /\ ~Has(path, "ipv6")
               /\ Ipv4Start(path) # 0
               /\ From(path, Ipv4Start(path)) = SpellArgs(in)
<1> DEFINE dev == in.dev
           words == in.words
           rest == SpellArgs(in)
           path == (dev \o <<Colon>>) \o (words \o rest)
           c == Len(dev) + 1
           w == Len(words)
           r == Len(rest)
           Apart(x) == x # Colon /\ x # Iscsi /\ x # "ipv6"
<1>1. /\ dev \in Seq(Tokens) /\ dev # <<>> /\ ~Has(dev, Colon) /\ ~Has(dev, Iscsi)
      /\ ~Has(dev, "ipv6")
  BY DEF SaysNet, Name, Colon, Iscsi
<1>2. words \in Seq(Tokens \ {":", "ipv6", "iscsi"}) /\ SaysWords(words)
  BY DEF SaysNet
<1>3. Field(rest)
  BY NetFields
<1>4. SpellNet(in) = path
  BY DEF SpellNet, Colon
<1> HIDE DEF dev, words, rest
<1>5. /\ words \in Seq(Tokens) /\ w \in Nat
      /\ \A i \in 1 .. w : Apart(words[i])
  <2> DEFINE S == Tokens \ {":", "ipv6", "iscsi"}
  <2>1. words \in Seq(S) /\ S \subseteq Tokens /\ \A x \in S : Apart(x)
    BY <1>2 DEF Colon, Iscsi
  <2> HIDE DEF S, Apart
  <2>2. words \in Seq(Tokens)
    BY <2>1, WiderSeq
  <2>3. w \in Nat /\ \A i \in 1 .. w : words[i] \in S
    BY <2>1
  <2> QED BY <2>1, <2>2, <2>3
<1>6. /\ rest \in Seq(Tokens) /\ r \in Nat
      /\ \A i \in 1 .. r : Apart(rest[i]) /\ rest[i] \notin OptionWords
  <2>1. rest \in Seq(Tokens) /\ \A i \in 1 .. Len(rest) : rest[i] \notin Foreign
    BY <1>3, Clean
  <2> QED BY <2>1 DEF Foreign, Colon, Iscsi
<1>7. c \in Nat /\ c > 1 /\ c - 1 = Len(dev) /\ \A i \in 1 .. c - 1 : Apart(dev[i])
  <2>1. Len(dev) \in Nat /\ Len(dev) # 0 /\ DOMAIN dev = 1 .. Len(dev)
    BY <1>1
  <2>2. c \in Nat /\ c > 1 /\ c - 1 = Len(dev)
    BY <2>1
  <2> QED BY <1>1, <2>1, <2>2 DEF Has
<1>8. path \in Seq(Tokens) /\ Len(path) = c + w + r /\ LaidOut(path, dev, c, words, rest)
  BY <1>1, <1>5, <1>6, NetSpelling
<1> HIDE DEF path, c
<1>9. Len(path) \in Nat /\ c \in 1 .. Len(path) /\ DOMAIN path = 1 .. Len(path) /\ Len(path) > 1
  <2>1. Len(path) \in Nat /\ DOMAIN path = 1 .. Len(path)
    BY <1>8
  <2> HIDE DEF w, r
  <2> QED BY <1>5, <1>6, <1>7, <1>8, <2>1
<1>10. path # NULL /\ Has(path, Colon)
  <2>1. Len(NULL) = 1
    BY DEF NULL
  <2>2. path[c] = Colon
    BY <1>8 DEF LaidOut
  <2>3. path # NULL
    <3> SUFFICES ASSUME path = NULL PROVE FALSE
      OBVIOUS
    <3>1. Len(path) = 1
      BY <2>1
    <3> QED BY <1>9, <3>1
  <2>4. Has(path, Colon)
    BY <1>9, <2>2 DEF Has
  <2> QED BY <2>3, <2>4
<1>11. ASSUME NEW i \in 1 .. Len(path) PROVE path[i] = Colon \/ Apart(path[i])
  <2> HIDE DEF w, r, Apart
  <2>1. CASE i <= c - 1
    <3>1. i \in 1 .. c - 1
      BY <1>7, <1>9, <2>1
    <3> QED BY <1>7, <1>8, <3>1 DEF LaidOut
  <2>2. CASE i = c
    BY <1>8, <2>2 DEF LaidOut
  <2>3. CASE i > c /\ i <= c + w
    <3>1. i - c \in 1 .. w /\ c + (i - c) = i
      BY <1>5, <1>7, <1>9, <2>3
    <3>2. path[c + (i - c)] = words[i - c]
      BY <1>8, <3>1 DEF LaidOut, w
    <3> QED BY <1>5, <3>1, <3>2
  <2>4. CASE i > c + w
    <3>1. i - c - w \in 1 .. r /\ c + w + (i - c - w) = i
      BY <1>5, <1>6, <1>7, <1>8, <1>9, <2>4
    <3>2. path[c + w + (i - c - w)] = rest[i - c - w]
      BY <1>8, <3>1 DEF LaidOut, w, r
    <3> QED BY <1>6, <3>1, <3>2
  <2> QED BY <1>5, <1>7, <1>9, <2>1, <2>2, <2>3, <2>4
<1>12. ~Has(path, Iscsi) /\ ~Has(path, "ipv6")
  BY <1>9, <1>11 DEF Has, Colon, Iscsi
<1>13. Ipv4Start(path) = c + w + 1 /\ From(path, c + w + 1) = rest
  <2>1. KeptApart(dev, c, words, rest)
    BY <1>5, <1>6, <1>7 DEF KeptApart
  <2>2. /\ words \in Seq(Tokens) /\ rest \in Seq(Tokens) /\ path \in Seq(Tokens)
        /\ c \in Nat /\ c > 1 /\ Len(path) = c + Len(words) + Len(rest)
        /\ LaidOut(path, dev, c, words, rest)
    BY <1>5, <1>6, <1>7, <1>8
  <2>3. Ipv4Start(path) = c + Len(words) + 1 /\ From(path, c + Len(words) + 1) = rest
    BY <1>2, <2>1, <2>2, ArgumentsStart
  <2> QED BY <2>3
<1>14. c + w + 1 # 0
  BY <1>5, <1>7
<1> QED BY <1>4, <1>8, <1>10, <1>12, <1>13, <1>14 DEF rest

(* The addresses extract_ipv4_args takes from the arguments.               *)
LEMMA Ipv4Args ==
    ASSUME NEW path, NEW r, DOMAIN r = DOMAIN EmptySpec, Ipv4Start(path) # 0
    PROVE  LET args == From(path, Ipv4Start(path))
               third == Scopied(Scopied(args))
               q == extract_ipv4_args(path, r)
           IN  /\ DOMAIN q = DOMAIN EmptySpec
               /\ q.siaddr = is_valid_ipv4_str(scopy(args))
               /\ q.ciaddr = is_valid_ipv4_str(scopy(third))
               /\ q.giaddr = is_valid_ipv4_str(scopy(Scopied(third)))
<1>1. DOMAIN EmptySpec = {"dev", "part", "file", "siaddr", "ciaddr", "giaddr", "bootp_retries",
                          "tftp_retries", "subnetmask", "addl_params", "is_ipv6", "dhcpv6", "blksize"}
  BY DEF EmptySpec
<1> QED BY <1>1 DEF extract_ipv4_args

(***************************************************************************)
(* The bootp reply.                                                        *)
(***************************************************************************)
LEMMA Fills ==
    ASSUME NEW a, a # <<>>, NEW b, b # <<>>
    PROVE  FillIn(a, b) = Pick(a, b) /\ Pick(a, b) # <<>>
BY DEF FillIn, Missing, Pick

(* The routers of a reply.                                                 *)
Routers(p) ==
    {o.value : o \in {q \in Range(p.options) : p.cookie /\ q.tag = "ROUTERS" /\ q.value # NULL}}

(* A set of numbers has a least one.                                       *)
LEMMA LeastNumber ==
    ASSUME NEW R, R \subseteq Nat, R # {}
    PROVE  \E x \in R : \A q \in R : x <= q
<1>1. PICK r \in R : \A q \in R : ~(<<q, r>> \in OpToRel(<, Nat))
  BY NatLessThanWellFounded, WFMin, Zenon
<1>2. \A q \in R : r \in Nat /\ q \in Nat /\ ~(q < r)
  <2>1. \A x, y \in Nat : y < x => <<y, x>> \in OpToRel(<, Nat)
    BY DEF OpToRel
  <2> QED BY <1>1, <2>1, Zenon
<1> QED BY <1>2

LEMMA FirstRouter ==
    ASSUME NEW p, IsReply(p), p.cookie
    PROVE  LET v == OptionValue(p.options, "ROUTERS")
           IN  Routers(p) # {} => v \in Routers(p) /\ v # NULL
<1> DEFINE opts == p.options
           Hit(o) == o.tag = "ROUTERS" /\ o.value # NULL
           I == {i \in 1 .. Len(opts) : Hit(opts[i])}
           n == IF I # {} THEN Min(I) ELSE 0
           v == OptionValue(p.options, "ROUTERS")
<1> SUFFICES ASSUME Routers(p) # {} PROVE v \in Routers(p) /\ v # NULL
  OBVIOUS
<1>1. Len(opts) \in Nat /\ DOMAIN opts = 1 .. Len(opts)
  BY DEF IsReply
<1>2. Range(opts) = {opts[i] : i \in DOMAIN opts}
  BY DEF Range
<1>3. PICK o \in Range(opts) : Hit(o)
  BY DEF Routers
<1>4. I # {}
  BY <1>1, <1>2, <1>3
<1>5. Min(I) \in I
  <2>1. I \subseteq Nat
    BY <1>1
  <2> HIDE DEF I
  <2>2. \E x \in I : \A j \in I : x <= j
    BY <1>4, <2>1, LeastNumber
  <2> QED BY <2>2 DEF Min
<1>6. v = opts[Min(I)].value
  <2>1. v = IF n = 0 THEN NULL ELSE opts[n].value
    BY DEF OptionValue, SelectInSeq
  <2>2. Min(I) # 0
    BY <1>1, <1>5
  <2> QED BY <1>4, <2>1, <2>2
<1>7. Hit(opts[Min(I)]) /\ opts[Min(I)] \in Range(opts)
  BY <1>1, <1>2, <1>5
<1> QED BY <1>6, <1>7 DEF Routers

(* The reply fills in what is not there.                                   *)
LEMMA NetinfoArgs ==
    ASSUME NEW r, DOMAIN r = DOMAIN EmptySpec,
           r.siaddr # <<>>, r.ciaddr # <<>>, r.giaddr # <<>>, NEW p, IsReply(p)
    PROVE  LET q == extract_netinfo_args(r, {p})
           IN  /\ DOMAIN q = DOMAIN EmptySpec
               /\ q.siaddr = Pick(r.siaddr, p.siaddr)
               /\ q.ciaddr = Pick(r.ciaddr, Pick(p.ciaddr, p.yiaddr))
               /\ Pick(r.giaddr, p.giaddr) # NULL => q.giaddr = Pick(r.giaddr, p.giaddr)
               /\ Pick(r.giaddr, p.giaddr) = NULL /\ Routers(p) # {} => q.giaddr \in Routers(p)
               /\ q.giaddr # NULL
<1> DEFINE first == IF p.ciaddr # NULL THEN p.ciaddr ELSE p.yiaddr
           filled == [r EXCEPT !.siaddr = FillIn(@, p.siaddr), !.ciaddr = FillIn(@, first),
                               !.giaddr = FillIn(@, p.giaddr)]
           opts == IF p.cookie THEN extract_vendor_options(filled, p.options) ELSE filled
           last == IF p.siaddr = NULL THEN <<"0.0.0.0">> ELSE p.siaddr
           q == extract_netinfo_args(r, {p})
<1>1. p.siaddr # <<>> /\ first # <<>> /\ p.giaddr # <<>>
  BY DEF IsReply
<1>2. first = Pick(p.ciaddr, p.yiaddr)
  BY DEF Pick
<1> HIDE DEF first
<1>3. {"siaddr", "ciaddr", "giaddr", "subnetmask"} \subseteq DOMAIN EmptySpec
  BY DEF EmptySpec
<1>4. /\ DOMAIN filled = DOMAIN EmptySpec
      /\ filled.siaddr = Pick(r.siaddr, p.siaddr)
      /\ filled.ciaddr = Pick(r.ciaddr, first)
      /\ filled.giaddr = Pick(r.giaddr, p.giaddr) /\ filled.giaddr # <<>>
  <2>1. /\ DOMAIN filled = DOMAIN EmptySpec /\ filled.siaddr = FillIn(r.siaddr, p.siaddr)
        /\ filled.ciaddr = FillIn(r.ciaddr, first) /\ filled.giaddr = FillIn(r.giaddr, p.giaddr)
    BY <1>3
  <2> HIDE DEF filled
  <2> QED BY <1>1, <2>1, Fills
<1>5. q = [opts EXCEPT !.giaddr = IF @ = NULL THEN last ELSE @]
  <2>1. (CHOOSE x \in {p} : TRUE) = p /\ {p} # {}
    OBVIOUS
  <2> QED BY <2>1 DEF extract_netinfo_args, first
<1> HIDE DEF filled
<1>6. /\ DOMAIN opts = DOMAIN EmptySpec
      /\ opts.siaddr = filled.siaddr /\ opts.ciaddr = filled.ciaddr
      /\ opts.giaddr = IF p.cookie THEN FillIn(filled.giaddr, OptionValue(p.options, "ROUTERS"))
                       ELSE filled.giaddr
  BY <1>3, <1>4 DEF extract_vendor_options
<1> HIDE DEF opts
<1>7. /\ DOMAIN q = DOMAIN EmptySpec
      /\ q.siaddr = opts.siaddr /\ q.ciaddr = opts.ciaddr
      /\ q.giaddr = IF opts.giaddr = NULL THEN last ELSE opts.giaddr
  BY <1>3, <1>5, <1>6
<1> HIDE DEF q
<1>8. last # NULL
  BY DEF NULL
<1> HIDE DEF last
<1>9. filled.giaddr # NULL => q.giaddr = filled.giaddr
  BY <1>4, <1>6, <1>7 DEF FillIn, Missing
<1>10. ASSUME filled.giaddr = NULL, Routers(p) # {} PROVE q.giaddr \in Routers(p)
  <2>1. p.cookie
    BY <1>10 DEF Routers
  <2>2. /\ OptionValue(p.options, "ROUTERS") \in Routers(p)
        /\ OptionValue(p.options, "ROUTERS") # NULL
    BY <1>10, <2>1, FirstRouter
  <2>3. opts.giaddr = OptionValue(p.options, "ROUTERS")
    BY <1>6, <1>10, <2>1, <2>2 DEF FillIn, Missing
  <2> QED BY <1>7, <2>2, <2>3
<1>11. q.giaddr # NULL
  BY <1>7, <1>8
<1> QED BY <1>2, <1>4, <1>6, <1>7, <1>9, <1>10, <1>11 DEF q

(* The address of an argument.                                             *)
Given(in, k) == IF Arg(in, k) = NULL THEN NULL ELSE is_valid_ipv4_str(Arg(in, k))

LEMMA GivenField ==
    ASSUME NEW in, NEW k
    PROVE  is_valid_ipv4_str(FieldAt(in.args, k)) = Given(in, k)
BY NoAddress DEF FieldAt, Given, Arg

(* The addresses of a network path, and what the reply adds to them.       *)
LEMMA NetMeans ==
    ASSUME NEW in, SaysNet(in)
    PROVE  LET r == parse_device_path(SpellNet(in), in.def, DefPart, DefFile, in.packet)
           IN  IF in.packet = {}
               THEN <<r.siaddr, r.ciaddr, r.giaddr>> = <<Given(in, 1), Given(in, 3), Given(in, 4)>>
               ELSE \A p \in in.packet :
                      /\ r.siaddr = Pick(Given(in, 1), p.siaddr)
                      /\ r.ciaddr = Pick(Given(in, 3), Pick(p.ciaddr, p.yiaddr))
                      /\ Pick(Given(in, 4), p.giaddr) # NULL => r.giaddr = Pick(Given(in, 4), p.giaddr)
                      /\ Pick(Given(in, 4), p.giaddr) = NULL /\ Routers(p) # {} =>
                            r.giaddr \in Routers(p)
                      /\ r.giaddr # NULL
<1> DEFINE path == SpellNet(in)
           kind == KindOf(path, in.def)
           def == TrimDefault(in.def, kind)
           blank == [EmptySpec EXCEPT !.file = NULL]
           args == extract_ipv4_args(path, blank)
           net == extract_netinfo_args(args, in.packet)
           named == NameDevice(path, def, kind, blank, in.packet)
           r == parse_device_path(path, in.def, DefPart, DefFile, in.packet)
<1>1. /\ path # NULL /\ Has(path, Colon) /\ ~Has(path, Iscsi) /\ ~Has(path, "ipv6")
      /\ Ipv4Start(path) # 0 /\ From(path, Ipv4Start(path)) = SpellArgs(in)
  BY NetPath
<1>2. kind = "NET"
  BY DEF SaysNet
<1> HIDE DEF path, kind
<1>3. DOMAIN blank = DOMAIN EmptySpec
  BY DEF EmptySpec
<1> HIDE DEF blank
<1>4. /\ DOMAIN args = DOMAIN EmptySpec
      /\ args.siaddr = Given(in, 1) /\ args.ciaddr = Given(in, 3) /\ args.giaddr = Given(in, 4)
  <2> DEFINE f == SpellArgs(in)
             third == Scopied(Scopied(f))
  <2>1. /\ is_valid_ipv4_str(scopy(f)) = Given(in, 1)
        /\ is_valid_ipv4_str(scopy(third)) = Given(in, 3)
        /\ is_valid_ipv4_str(scopy(Scopied(third))) = Given(in, 4)
    BY NetFields, GivenField
  <2> QED BY <1>1, <1>3, <2>1, Ipv4Args
<1>5. args.siaddr # <<>> /\ args.ciaddr # <<>> /\ args.giaddr # <<>>
  <2>1. <<>> # NULL
    BY DEF NULL
  <2> QED BY <1>4, <2>1, AnAddress DEF Given
<1> HIDE DEF args
<1>6. named = [net EXCEPT !.dev = IF def = NULL THEN netdev_path_to_dev(path) ELSE @]
  BY <1>1, <1>2 DEF NameDevice, extract_netboot_args, args, Colon
<1>7. DOMAIN net = DOMAIN EmptySpec
  <2>1. CASE in.packet = {}
    BY <1>4, <2>1 DEF extract_netinfo_args
  <2>2. CASE in.packet # {}
    <3>1. PICK p \in in.packet : IsReply(p) /\ in.packet = {p}
      BY <2>2 DEF SaysNet
    <3>2. net = extract_netinfo_args(args, {p})
      BY <3>1
    <3> HIDE DEF net
    <3> QED BY <1>4, <1>5, <3>1, <3>2, NetinfoArgs
  <2> QED BY <2>1, <2>2
<1>8. {"dev", "part", "file", "siaddr", "ciaddr", "giaddr"} \subseteq DOMAIN EmptySpec
  BY DEF EmptySpec
<1> HIDE DEF net
<1>9. /\ DOMAIN named = DOMAIN EmptySpec
      /\ named.siaddr = net.siaddr /\ named.ciaddr = net.ciaddr /\ named.giaddr = net.giaddr
  BY <1>6, <1>7, <1>8
<1> HIDE DEF named, def
<1>10. r = [named EXCEPT !.dev = IF @ = NULL THEN def ELSE @,
                         !.part = IF @ < 0 THEN DefPart ELSE @,
                         !.file = IF @ = NULL THEN DefFile ELSE @]
  <2>1. EffectivePath(path) = path
    BY <1>1 DEF EffectivePath, Iscsi
  <2>2. TrimFile(path, kind) = [path |-> path, file |-> NULL]
    BY <1>2 DEF TrimFile, IsLocal
  <2> DEFINE trim == TrimFile(EffectivePath(path), kind)
  <2>3. trim.path = path /\ trim.file = NULL
    BY <2>1, <2>2
  <2>4. named = NameDevice(trim.path, def, kind, [EmptySpec EXCEPT !.file = trim.file], in.packet)
    BY <2>3 DEF named, blank
  <2> HIDE DEF trim
  <2> QED BY <1>1, <1>2, <2>1, <2>4 DEF parse_device_path, kind, def, trim
<1>11. r.siaddr = net.siaddr /\ r.ciaddr = net.ciaddr /\ r.giaddr = net.giaddr
  BY <1>8, <1>9, <1>10
<1> HIDE DEF r
<1>12. CASE in.packet = {}
  <2>1. net = args
    BY <1>12 DEF net, extract_netinfo_args
  <2> QED BY <1>4, <1>11, <1>12, <2>1 DEF r, path
<1>13. CASE in.packet # {}
  <2> SUFFICES ASSUME NEW p \in in.packet
               PROVE  /\ r.siaddr = Pick(Given(in, 1), p.siaddr)
                      /\ r.ciaddr = Pick(Given(in, 3), Pick(p.ciaddr, p.yiaddr))
                      /\ Pick(Given(in, 4), p.giaddr) # NULL => r.giaddr = Pick(Given(in, 4), p.giaddr)
                      /\ Pick(Given(in, 4), p.giaddr) = NULL /\ Routers(p) # {} =>
                            r.giaddr \in Routers(p)
                      /\ r.giaddr # NULL
    BY <1>13 DEF r, path
  <2>1. IsReply(p) /\ in.packet = {p}
    BY DEF SaysNet
  <2>2. net = extract_netinfo_args(args, {p})
    BY <2>1 DEF net
  <2>3. /\ net.siaddr = Pick(args.siaddr, p.siaddr)
        /\ net.ciaddr = Pick(args.ciaddr, Pick(p.ciaddr, p.yiaddr))
        /\ Pick(args.giaddr, p.giaddr) # NULL => net.giaddr = Pick(args.giaddr, p.giaddr)
        /\ Pick(args.giaddr, p.giaddr) = NULL /\ Routers(p) # {} => net.giaddr \in Routers(p)
        /\ net.giaddr # NULL
    BY <1>4, <1>5, <2>1, <2>2, NetinfoArgs
  <2> QED BY <1>4, <1>11, <2>3
<1> QED BY <1>12, <1>13

-----------------------------------------------------------------------------
(* The specification parsed is that of the path asked for.                 *)
PathInv ==
    pc = "parsed" =>
        /\ asked \in Inputs
        /\ spec = parse_device_path(Spell(asked), asked.def, DefPart, DefFile, asked.packet)

LEMMA PathsParsed == Spec => []PathInv
<1>1. Init => PathInv
  BY DEF Init, PathInv
<1>2. PathInv /\ [Next]_vars => PathInv'
  <2> SUFFICES ASSUME PathInv, [Next]_vars PROVE PathInv'
    OBVIOUS
  <2>1. CASE \E in \in Inputs : ParsePath(in)
    BY <2>1 DEF ParsePath, PathInv
  <2>2. CASE \E d \in Disks : partitions_lookup(d)
    BY <2>2 DEF partitions_lookup, PathInv
  <2>3. CASE Lookup
    BY <2>3 DEF Lookup, PathInv, NotOpened, Detect, partition_mac_lookup, identify_iso_fs,
       _amiga_find_rdb, RereadBlock0, AllocUsed, partition_amiga_lookup, Bail, StartAmiga,
       partition_fdisk_lookup, NoRoomForEntry, Astray
  <2>6. CASE NotParsed
    BY <2>6 DEF NotParsed, PathInv
  <2>4. CASE get_part_type
    BY <2>4 DEF get_part_type, PathInv
  <2>5. CASE Finished \/ UNCHANGED vars
    BY <2>5 DEF Finished, vars, PathInv
  <2> QED BY <2>1, <2>2, <2>3, <2>4, <2>5, <2>6 DEF Next
<1> QED BY <1>1, <1>2, PTL DEF Spec

(* A path to a local disk names the device with the commas of its own      *)
(* name, the partition and the file it was written to name, and takes what *)
(* it leaves out from the defaults.                                        *)
THEOREM LocalPaths == Spec => []LocalPathsMean
<1>1. PathInv => LocalPathsMean
  <2> SUFFICES ASSUME PathInv, pc = "parsed", asked.form # "net"
               PROVE  /\ spec.dev = asked.dev
                      /\ spec.part = IF asked.part = <<>> THEN DefPart ELSE Number[asked.part[1]]
                      /\ spec.file = Pick(asked.file, DefFile)
    BY DEF LocalPathsMean
  <2>1. asked \in Inputs /\
        spec = parse_device_path(Spell(asked), asked.def, DefPart, DefFile, asked.packet)
    BY DEF PathInv
  <2>2. CASE asked.form = "local" /\ SaysLocal(asked)
    BY <2>1, <2>2, LocalMeans DEF Spell
  <2>3. CASE asked.form = "bare" /\ SaysBare(asked)
    BY <2>1, <2>3, BareMeans DEF Spell
  <2> QED BY <2>1, <2>2, <2>3, InputAssumption
<1> QED BY <1>1, PathsParsed, PTL

(* The arguments of a network path win over the bootp reply, which fills   *)
(* only what the path leaves out or gives no valid address for; the        *)
(* gateway falls back to the reply, its options and the server in turn.    *)
(* For every path and every reply, in parse_device_path with its           *)
(* extract_netboot_args.                                                   *)
THEOREM NetPaths == Spec => []NetPathsMean
<1>1. PathInv => NetPathsMean
  <2> SUFFICES ASSUME PathInv, pc = "parsed", asked.form = "net"
               PROVE  NetPathsMean
    BY DEF NetPathsMean
  <2>1. /\ SaysNet(asked)
        /\ spec = parse_device_path(SpellNet(asked), asked.def, DefPart, DefFile, asked.packet)
    BY InputAssumption DEF PathInv, Spell
  <2> QED BY <2>1, NetMeans DEF NetPathsMean, Given, Routers
<1> QED BY <1>1, PathsParsed, PTL
=============================================================================
