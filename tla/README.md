# yaboot in TLA+

Yaboot is the second-stage boot loader of PowerPC machines with Open Firmware.
It finds a configuration file, runs a prompt, loads a kernel and an initrd into
memory it claims from the firmware, and jumps into the kernel. It is one thread
of C without an operating system: what is hard about it is not concurrency but
long sequences of calls over static variables that outlive the call that set
them, firmware calls any of which may be refused, error paths that have to give
back what the half-done operation took, and the arithmetic of ranges and
buffers. This directory models those parts, checks them with TLC and proves the
central ones with TLAPS.

## The system and its parts

    firmware ── yaboot_main ─── load_my_config_file / load_config_file  ConfigLoad
                    │                      │
                    │                      └── cfg_parse, cfg_get_*      Config
                    ├── parse_device_path                               DevicePath
                    └── yaboot_text_ui
                          ├── get_params, check_password                BootPrompt
                          ├── load_elf32/64, initrd, prom_claim         KernelLoad
                          └── open_file                                 FileOpen
                                ├── partitions_lookup                   Device
                                └── fs_open ── drivers   (they promise: FileReader)
                                                 ├── ext2               Ext2Read
                                                 ├── ReiserFS           ReiserFS, ReiserTree
                                                 └── XFS                Xfs
    everything ── malloc, realloc, free, mark, release                  Malloc

| Part | State it keeps | Operations | What makes it correct | Module |
|---|---|---|---|---|
| Allocator (`lib/malloc.c`) | `malloc_ptr`, `last_alloc`, `malloc_top` | malloc, posix_memalign, realloc, free, mark, release, dispose | owned blocks are disjoint, inside the arena, and only their owner's call stores to them | `Malloc` |
| Device paths (`file.c`) | the `boot_fspec_t` being filled | parse_device_path, the network argument functions | a path says what it was written to say; what it leaves out comes from the defaults and the bootp reply, in that order | `DevicePath` |
| Partition tables (`partition.c`) | one static `block_buffer`, the list being built | partitions_lookup over four formats, get_part_type | the list is the disk's table, cut short at worst | `Device` |
| File opening (`file.c`, `fs.c`, the `fs_*.c` open and close) | `boot_file_t`, `fserrorno`, the static `opened`, firmware instances and load buffers | open_file with its two nested searches, five drivers' open, close | the wanted file is opened, by the right driver, and every way out closes what it opened | `FileOpen` |
| ext2 reading (`fs_ext2.c`) | the `read_*` statics, `file->pos` | ext2_read, read_iterator, read_dump_range | the buffer gets exactly the file's bytes, also around holes, ranges and failing reads | `Ext2Read` |
| ReiserFS (`fs_reiserfs.c`) | `INFO`: super block, journal, the cached nodes on the path to the current leaf, current item, `errnum` | reiserfs_open, journal_init, search_stat, next_key, reiserfs_read_data, seek, close | a path opens the file it names; reads deliver its bytes; only committed transactions are replayed | `ReiserTree`, `ReiserFS` |
| XFS (`fs_xfs.c`) | the static `xfs` (inode, extent pointers, directory buffers), `linkbuf` | xfs_open, xfs_mount, xfs_dir, first/next_dentry, next_extent, xfs_read_data, seek, close | the same, over packed addresses and three directory formats | `Xfs` |
| Configuration search (`yaboot.c`) | `boot`, `useconf`, `password` | load_my_config_file, load_config_file | the first valid candidate is in force, and nothing of the others | `ConfigLoad` |
| Configuration tables (`cfg.c`) | `cf_options`, `images`, `curr_table`, `last_token` | cfg_parse, cfg_next, cfg_set, check_for_obsolete, cfg_get_strg, cfg_get_default, cfg_set_default_by_mac | looking a label up gives what the file says | `Config` |
| Boot prompt (`yaboot.c`) | statics `first`, `definitrd`, `manualinitrd`; `bootoncelabel`, `bootlastlabel`; NVRAM | get_params, check_password, the commands, firmware reboot | the password policy; what is typed is what boots; a firmware reboot boots the same again | `BootPrompt` |
| Kernel loading (`yaboot.c`, `prom.c`) | `loadinfo_t`, claimed memory, `initrd_*` | load_elf32, load_elf64, the initrd loop, prom_claim_chunk, prom_claim, prom_release | a kernel is entered only with image and initrd in place; a failed load gives all back | `KernelLoad` |

How they interact: `yaboot_main` calls the configuration search once and then
the prompt loop for ever. The prompt's `conf` command calls `load_config_file`
again, so the tables of `cfg.c` are refilled while statics of the prompt survive.
Everything that reads a file goes through `open_file`, one file at a time (every
caller closes before it opens again); drivers call the firmware. Between a
prompt and the kernel the firmware may reboot the machine (client architecture
support), and only an NVRAM option survives that.

The modules meet at their inputs and outputs. `Device` shows that
`partitions_lookup` returns the disk's table or a part of it, and that is all
`FileOpen` assumes of its list. `FileReader` says what a driver's `read` and
`seek` promise, the three drivers are shown to implement it, and that promise is
what `KernelLoad` takes a read to be: the bytes asked for, or fewer and a
failure. The configuration `BootPrompt` runs on is a record of what the prompt
asks `cfg.c` for; `Config` covers how it comes about.

## The modules

Every module has the shape: constants with named assumptions, variables named as
in the source, `Init`, one action per function or per step between two calls
that can fail, `Next`, `Spec`, then the properties. `Malloc` and `ConfigLoad`
name these parts differently (`malloc_init`, `HeapNext`, `HeapSpec`; `SearchInit`,
`SearchNext`, `SearchSpec`), since their proofs share a module with those of
another component. `MCx` gives the constants of
`x` their values. Definitions whose comment begins with "Mutant" are faulty
variants of the definition that follows; no specification uses them. They record
which mistake each property would notice.

**Malloc.** `malloc_ptr`, `last_alloc` as in the source; addresses are
naturals and the bounds checks wrap at `AddrSpace`. The history variables `live`
(what the callers own), `kept` (what a `release` promises to keep) and `wrote`
(the bytes the last call stored to) carry the properties. Each action is a whole
function. Callers are assumed to free or realloc only what they own, and to pass
NULL to realloc or free only after the first allocation: before it, `last_alloc`
is NULL too, and both functions would take NULL for the last block. The
assumption on the constants says that the arena lies above the NULL page and
that no request is so large that the bounds checks themselves wrap.

**FileOpen.** A disk is a list of partitions (number, contents, Linux tag,
whether the file is there); `parts` is what `partitions_lookup` returned for
this open, which is less when a block of the table could not be read.
`pc = "try"` is the inside of `fs_open`, `cur` and `drv` are the positions of the
two nested searches, `handles` the firmware instances open and `claims` the load
buffers of a network boot. Each driver's open is one action with a disjunct per
way out. `BadRead` is a read of the disk that fails inside a driver's lookup,
with the answers that driver gives then; `Dangling` is ReiserFS reporting a file
open whose instance it has closed. `fault` remembers that the firmware, a read or
malloc failed, since completeness is only promised without that.

**Ext2Read.** `rd` holds the `read_*` statics, the position and the caller's
buffer; a byte is the pair (disk block, offset), so that misplaced bytes are
visible. `Iterate` is one call of the iterator by libext2fs (external), with any
of its disk reads failing; `Final` is the read of the pending range after the
iteration, which an iteration that could not read a block of the map skips
(`IterateFails`).

**FileReader.** The abstract reader: the bytes of a file, a position, and a call
under way with the size asked for and what has arrived. A step appends bytes of
the file in order, never more than there is room for, and the position moves
along; a call returns when all has arrived or the file has ended. Once the disk
has failed (`sick`) the bytes are open, their number is not; of a file with
holes (`sparse`) nothing but the order is promised. Whether the file has holes is
fixed, unless the disk failed: the lookup of a path may then end at another file,
or the file's own map be misread so that it seems to have some. Each
driver module gives the refinement mapping in its definition of `Reader`.

**DevicePath, Device.** A string is a sequence of tokens: a separator (`:` or
`,`), a word the parser looks for with `strstr`, wherever it stands, or what lies
between; what number or address a token spells is a constant. `parse_device_path` is a function of the path, the defaults and the
bootp packet, cut at the same separators from the same ends as `strchr` and
`strrchr` do; the argument list of a network path is taken apart by its seven
calls of `scopy`, each from where the one before stopped (`Scopied`). An input is
what a writer of a path means (device, partition, file, arguments) and `Spell` the
path that says it; `InputAssumption` is what a path can say at all: a device name
may have commas but no colon, a partition is a number, a file name has no comma
and, on the network, none of the optional words in it, an address is one, and a
reply's options are what a bootp reply holds. `Device` runs the parser on every
input (`NotParsed`: no memory for its copies) and then looks up the partitions
of a disk: one action per block read, all through the one `block_buffer`, any
read or allocation failing. Of a block the model keeps the fields the four
formats test. `used` is defined on the blocks the array has room for (`Tracked`, by
the limit the disk states); a partition block above them ends the list or leads
to `wild`, where memory that is not the lookup's has been written, and so does an
entry for which `malloc` had no room (`NoRoomForEntry`).

**Paths.** What a path names in a tree of files, directories and links: the
reference for the lookups of both drivers. It does not know blocks, items or
directory formats.

**ReiserTree, ReiserFS.** The tree state `t` is the part of `INFO` a walk uses:
the cached nodes by depth, the current item, `errnum`. A walk takes a fault: the
depth at which a read fails, and whether the firmware answers 0 or -1, which
differ because the code tests for 0 only. `ReiserFS` is open (super block at two
places and read again, journal header, descriptors and commits, root), lookup
with links, and the read loop over direct and indirect items. Words of the
journal keep their byte order. The table of superseded blocks lies outside its buffer (see
Observations), so that with transactions to search any of their blocks may be
found superseded, by any block of the journal, or not, and another way at every
walk.
`search_stat` and `next_key` go down the tree in the same way (`Descend`) and
differ in the child they take (`Choice`). What a sound disk is, is spelled out:
`InOrder` says what makes nodes a tree (the items in the order of their keys,
each node holding a run of them, an inner node's keys those of the first items
of its children), with the numbers of these items in the field `order` of an
image, which no action reads; `Describes` says which items hold an object of
`Paths`. `SoundAssumption` states it of the images with the flag `sound` and is
the only link between the objects and the blocks. It also says that the height
of the tree is at most `cached_slots + 1`: `next_key` cannot find a higher level
again. With blocks of 4096 bytes or less, `cached_slots` is at least 6, so that
every tree the driver accepts is covered (`fs_reiserfs.c:436`, `:490`). Where
there is a journal, the super block is read a second time (`:474`), with its
number counted in blocks of the file system: `FoundAgain`, a part of `Sound`, says
that it is found there, which is so with blocks of 4096 bytes. A disk with a
journal and blocks of another size is not sound in this sense: the driver then
takes the root's number from other bytes (see Observations), and no property
promises anything of it.

**Xfs.** Inode numbers, block numbers and extent records are packed into bit
fields as on the disk and taken apart by the same shifts and masks, with smaller
fields. A directory is in the inode, in one block or in several with an index;
the blocks of its entries and of its index are reached through its extents, or
its extent tree, as `xfs_read_data` and `xfs_dabread` do. `Sight` says what is found
where the cursor is: the entry, an entry made of zeros where a block of the
directory was freed, or other bytes where the extents do not lead; `Blanks` is the
number of entries such a block of zeros is taken for.
No read but that of the super block is checked, so that a failing one leaves the
buffer as it was: a node of an extent tree that is not read makes any list of
records possible (`Strays`), a record that is not read is one read before
(`StaleRecords`). The history `spoiled` says that a link overwrote the rest of a
path that was still to be walked, that `..` was looked for in a directory kept in
its inode, or that a search came to a freed block or where the extents do not
lead; `lost` (of `rd` and of `dir`) that records were used which are not those of the
file or directory: after such a failure, or behind the first leaf of an extent
tree, where the driver follows the wrong pointer and the model leaves the outcome
open. A token is never white space, which ends a path in the code. `InOrder` says what it means that the inodes of an image
describe its objects: where the extents of a file or link are and what they
hold, which entries a directory has in use, and that the leaves of its index count
them. It is an assumption on the images with a valid super block, and the only link
between the objects `Paths` walks and the blocks the driver reads. `Formed` is
assumed of every inode, since a failing read may lead to any: a file or link has a
size and extent records. `Joins` says that the records of an inode leave no hole.

**ConfigLoad.** Candidates are numbered by specificity (MAC file, address with d
digits, the original file); `server` says what each one is. `load_config_file`
keeps its three results (positive, zero, negative), its late assignment of
`password` and the fact that `cfg_parse` resets the tables before it parses.

**Config.** A file is a sequence of tokens, made of items and possibly an ending
at which the parse fails. `Stream`, `cfg_next` and `last_token` are the token
stream with its one returned token, `cfg_set` the tables. The reference
definition is independent of the tables: `Said(its, k, item)` reads off the items
of a file what section k says, `Retaken` whether a later section took its label.
`file` is a history variable for that purpose; its field `at` says at which token
each item begins, and `Written` that the tokens there are the spelling of the
item.

**BootPrompt.** A line is a name and its arguments, with NULL and the empty
string told apart as the C code does. The variables are the statics, the
configuration, the firmware's variables, and a few histories (`line`, `authed`,
`booted`, `again`). That `imagename` and `params->args` may point into
`bootlastlabel` is modelled by `source`: `Remember` writes the buffer and changes
what they read. The configuration is a record of what the prompt asks `cfg.c`
for; `Config` covers how it comes about.

**KernelLoad.** Memory is pages with an owner and a content; a claim succeeds if
all pages are free (the firmware, external). `OpenKernel` to `EnterKernel` follow
`yaboot_text_ui`; the program headers are read (`ReadProgramHeaders`), scanned one
by one for the memory the image needs (`ScanSegment`, `ScanDone`), and after the
claim loaded one by one; opens, seeks, reads and mallocs may fail, a failing read
delivering any part of what was asked for. load_elf32 and load_elf64 differ in
the room left for boot infos and in where an image that is no vmlinux goes. An
image is assumed well formed in the sense of the comment in `load_elf32` ("this
code works as a side effect of the fact that ..."), which `WellFormed` spells
out: segments follow each other in memory as they do in the file.

## What is checked

| Run | States | Shows |
|---|---|---|
| `malloc` | 60 540 | Every sequence of allocator calls on an arena of 26 bytes: `BlocksDisjoint`, `BlocksInArena`, `NoClobber`, `TypeOK` and the inductive invariant `IInv` the proofs use. Requests of 0, 3 and 8 bytes are empty, padded and unpadded; the alignments are valid, too wide and invalid. The arena holds two to three blocks, enough for every order of free and realloc relative to `last_alloc`. |
| `device` | 90 290 | Paths to a plain device, one with a comma in its name and a network card, with every default, bootp reply and argument list of the constants: `LocalPathsMean`, `NetPathsMean`. Then disks with every kind of table, damaged in one place, Amiga lists of three blocks with any links, loops included, limits above and below them, one failing read or malloc: `ListIsTable`, `LookupEnds`. |
| `file_open` | 362 125 | Every disk of up to two partitions, every wanted partition, two opens, every refusal, failing read in a lookup and partition list cut short: `OpenSound`, `OpenComplete`, `HandleBalance`, `OpenReturns`. Two partitions give a search something to pass by; two opens show what the first leaves behind. |
| `ext2_read` | 136 166 | Files of four blocks in every layout over adjacent and distant disk blocks and holes, every position and length, one failing read: `DeliversContent`, `ImplementsReader`, `ReadReturns`. Blocks of two bytes make starts and ends unaligned; ranges of at most two blocks make the limit bite. |
| `reiser` | 351 276 | A file system with files, a directory and links (relative, absolute, looping, nested) in trees of depth 1 to 3; journals with nothing to replay (all flushed, no commit block, another mount, an older lap) and with a committed transaction, of a node or of the super block; a super block that is not found again; damaged images; up to two failing reads, two reads of the file: `LookupRight`, `ReplaysOnlyCommitted`, `ImplementsReader`, `CallReturns`. With three cached nodes an inner node of the deepest tree is found in the cache or read over another one, as the walks before left it. TLC also evaluates `SoundAssumption` on every image here. |
| `xfs` | 377 846 | The same kinds of path over inodes in three allocation groups, the three directory formats, directories with a freed block and with extent trees of one and two leaves, files in one extent, several, and an extent tree, one failing read, of a node or record of an extent tree too: `LookupRight`, `ImplementsReader`, `CallReturns`. |
| `config_load` | 7 039 | Three digits stand for the eight of an address (first, middle, last turn of the loop), one refused open, read or malloc: `FirstGoodWins`, `PasswordOfConfig`, `ReachesPrompt`. |
| `config` | 1 256 295 | Every file of up to five items, after any of eighteen earlier files that end well or in each way a parse can fail, one malloc failure: `TypeOK`, `UniqueLabels`, `LookupMeansFile`, `LookupSound`, `DefaultBoots`. Five items make two labelled sections with one more item, which is where sections interact. |
| `prompt` | 466 322 | Three prompts, sixteen lines, four configurations, single keys, time-outs, reloads, firmware reboots: `PasswordPolicy`, `RebootSameImage`, `ManualInitrd`, `PromptAnswered`. Three prompts are one to set a static, one to use it and one after a reboot. |
| `kernel_load` | 107 822 | Two loads of five kinds of image, initrds of 0 to 4 pages with chunks of 2, five memory layouts, one failing operation (short, refused or answered with -1): `ImageIntact`, `InitrdIntact`, `FirmwareUntouched`, `FailureCleansUp`, `LoadEnds`. |

Two runs end in a counterexample; each is a place where the code does not do
what a text of the repository says.

| Run | Property | What happens |
|---|---|---|
| `prompt_RebootSeamless` | `RebootSeamless` | After a firmware reboot the label of an image booted with arguments is not found: the buffer that holds name and arguments is rewritten while they are in use, the name gets a blank behind it, and a custom image of that name is tried instead. |
| `reiser_errnum` | `FailureHasErrnum` | A tree node that cannot be read makes `search_stat` fail with `errnum` 0: `reiserfs_open` closes the device and returns `FILE_ERR_OK`, so that the caller reads from a closed file. |

**Fairness.** yaboot is one thread without preemption, so a function that can
take its next step takes it, and a firmware call returns (with whatever answer):
`WF_vars(Next)`, or, in the drivers, where the caller need not call again, weak
fairness of the steps inside a call (`WF_vars(Steps)` in `Xfs`; `ReiserFS` writes
the same out as `Fairness`, since a step is enabled exactly when the driver is
not resting). In `BootPrompt` this also has a user who is asked for a password
answer it, rightly or wrongly, and a prompt end in a line or a time-out:
`PromptAnswered` is about a prompt that gets its answers. Nothing more is assumed;
in particular no operation has to succeed. `Malloc` and `Config` have no liveness
property and no fairness.

**Bounds.** `MaxOpens`, `MaxParts`, `MaxPrompts`, `MaxRefusals`, `MaxFaults`,
`MaxLoads`, `MaxItems`, `MaxPos`, `MaxSize`, `MaxReads`, `Positions` and `Sizes`
bound the behaviours and are named in the guards; `Inputs`, `Disks`, `Images`,
`Maps` and `Requests` are the inputs enumerated. Runs that may come to rest
(`Finished`, `Rest`, `Done`, `Prompt`, `InUse`) do so by an explicit stuttering
action, so deadlock is checked everywhere.

## What is proved

*MemoryProofs*, the allocator: for every arena and every set of sizes and alignments that
satisfies the two assumptions of `Malloc`: `TypeCorrect`, `NoOverlap`
(`[]BlocksDisjoint`), `InArena` (`[]BlocksInArena`), `NoStrayStore`
(`[]NoClobber`). None of these is inductive: that a new block does not overlap an
old one needs everything owned to lie below `malloc_ptr` (`OwnedBelowPtr`), and
that this survives `free`, which moves `malloc_ptr` back to the header of
`last_alloc`, needs everything but that block to lie below that header
(`OwnedBelowLast`); `release` needs the same of the mark (`KeptBelowMark`).
`Invariance` proves their conjunction `IInv`, one lemma per call; `NewBlock` is
the common part of the three calls that place a block.

*ConfigProofs*, the tables: for all tables, vocabularies, case foldings and sequences of
files: `TypeCorrect`, `LabelsUnique` (`[]UniqueLabels`), `LookupsMeanTheFile`
(`[]LookupMeansFile`), `LookupsAreSound` (`[]LookupSound`) and `DefaultIsBootable`
(`[]DefaultBoots`). The first two are inductive together (`Invariance`). The
argument is `AssignedDiffers`: setting a label marks every other section with that
label, in whatever case, obsolete, unless the current section is obsolete itself,
and no other assignment touches a label. For the others the invariant relates
the tables to the part of the file parsed so far. `FileInv` says that the token
stream stands at item m + 1 for some m (`Position`) and that the tables hold what
the first m lines say (`Filled`: the sections are those that start there, in
order; each entry is the last line of its section for that item; a section is
obsolete exactly if it is for another machine or its name was claimed later).
`ItemRead` moves the stream by one item, the token given back by `cfg_next`
included, and `FilledStep` the tables by one line, so that the induction over the
file is the one over the steps of the parser. A lookup finds the least section
that matches; that there is a least one is `WFMin` of the library.

*ConfigProofs*, the search: for addresses of any number of digits, any server and
any number of refusals, assuming only that there is a digit: `FirstGoodIsUsed`
(`[]FirstGoodWins`) and `PasswordBelongs` (`[]PasswordOfConfig`). Both speak of
the prompt only, so the inductive invariant adds what holds on the way there:
nothing has been taken over yet (`Searching`), and every candidate before the
next one is known to be no valid configuration (`Tried`). `LoadOutcome` says
once what a call of `load_config_file` leaves behind; there is one lemma per
action.

*FileOpenProofs*, for every set of disks (a disk is any sequence of partitions),
every set of partition numbers and every number of opens: `HandlesBalance`
(`[]HandleBalance`), `OpensTheRightFile` (`[]OpenSound`) and `FindsTheFile`
(`[]OpenComplete`). `HandleBalance` speaks of the time between two calls; the
invariant adds that nothing is held between two drivers either (`Between`), and
that the instances `swap_open` leaves are open and never the one of a file
(`Abandoned`), so that a close cannot take one of them; `NewHandleIsNew` is a
counting argument. For `OpenSound` the invariant says that the partition handed
to the drivers was asked for (`Asked`), that, unless something failed, the
partitions before it do not have the file and its own driver is still to come if
it has (`Passed`), that iSCSI paths never get past the first driver (`Local`), and
that ext2 is busy only while its file is open (`Busy`). `OpenComplete` needs, on top
of that, that without a failure the list is all of the disk (`Whole`), that a
partition given by number is the only one tried (`Exact`), and that a search that
has come to its end has passed no partition with the file (`Exhausted`). There is
one lemma per driver.

*BootPromptProofs*, for every set of configurations, typed lines, boot arguments
and initrd words, and any number of prompts, reloads and firmware reboots:
`PasswordIsAsked` (`[]PasswordPolicy`), `InitrdIsTheTyped` (`[]ManualInitrd`) and
`RebootRepeats` (`[]RebootSameImage`). The policy needs only that whatever is not
in the configuration passes the place where the password is asked (`PolicyInv`),
and that arguments that were typed are still there when they are looked at, unless
they were taken as the name of an initrd (`TypedInv`).
A typed initrd is followed from the line to the load (`LineInv`). The reboot is the
long one: from the moment a line is remembered until its kernel runs, NVRAM holds
the name that is loaded, and arguments only if there are any (`Remembered`), and the
label is what the tables have for that name (`Labelled`); after a reboot everything
that chooses the image is as it was when that kernel was entered (`Unattended`,
`Repeats`), except that the name of an image with arguments comes back with a blank
behind it, which is no label.

*MemoryProofs*, the loaders: for memories of any size, every layout of the firmware in it,
all well-formed images, initrds of any size, any chunk, and any number of loads
and failures: `ImageIsIntact` (`[]ImageIntact`), `InitrdIsIntact`
(`[]InitrdIntact`), `FirmwareIsSafe` (`[]FirmwareUntouched`) and `FailureIsClean`
(`[]FailureCleansUp`). `LoadInv` follows a load: the scan has room for every segment
it has seen (`ScanFits`), so the whole image fits what is claimed (`ImageFits`),
which is the kernel's (`KernelHeld`); the segments dealt with are in place
(`SegmentsInPlace`), also while the initrd is claimed and read, since a claim
takes only free pages (`ChunkIsFree`); the initrd read so far is the start of its
file in one piece, with the next chunk claimed right behind (`RamdiskGrows`); and
every claimed page belongs to the load under way, unless memory stays claimed for
good (`ClaimsAccounted`).

*Ext2ReadProofs*, for every block size and file layout, every position and size,
every limit of a range and any failing reads: `DeliversTheFile`
(`[]DeliversContent`) and `ImplementsFileReader` (`ImplementsReader`, the
refinement of `FileReader`'s safety specification). `ReadInv` has one part per place
in the code. What has been delivered is always the file from the start position
on (`Sound`), whatever failed. A pending range is a run of blocks of the file that
starts at the position, and all of it but the last block fits the buffer
(`RangeSound`); between two calls of the iterator everything up to the current
block is delivered or in that range, or is a hole (`BetweenCalls`). `Settled` and
`Finished` say the same after the last call and after the final read. The weight
is in the operators: `DumpIs`, `FillHoleIs`, `UnalignedIs`, `StartBlockIs` and
`ExtendIs` say what each function of `fs_ext2.c` delivers, over the arithmetic of
quotient and remainder.

*DeviceProofs*: `ListsTheTable` (`[]ListIsTable`), for every disk and any failing
reads and allocations, and, for all names, numbers, defaults and replies,
`LocalPaths` (`[]LocalPathsMean`) and `NetPaths` (`[]NetPathsMean`). `DInv` has a
part for each place of the lookup: the Macintosh
loop has the entries before the current one (`InMac`), the scan for ISO volumes has
passed none (`InIso`), the search for a rigid disk block likewise (`InRdb`,
`InReread`, `InUsed`), and the Amiga loop has walked a chain of partition blocks
from it, none of them twice (`InAmiga`). `Unambiguous` is a hypothesis of
`ListIsTable` itself, and has to be one: the Amiga lookup does not test again
that it found a rigid disk block, so on a disk where some other block's word leads to
a partition block, the list has partitions of no table. The path properties speak
of what the parser has returned for the current input (`PathsParsed`), so all of
the argument is about operators. `LocalSpelling` says
where the separators of a written path are, `LocalMeans` and `BareMeans` that
cutting there gives back what was meant. For a network path the written argument
list is followed through the seven calls of `scopy`: each stops at the comma behind
its own field, so that each field gets what was written for it, or, where nothing
was, what the bootp reply has.

*ReiserProofs*, the journal, for every image, journal of any length and number of
faults: `JournalSafe` (`[]ReplaysOnlyCommitted`). The property speaks of the moment the
journal has been gone through; `ReplayInv` follows the loop: the descriptors of the
transactions counted so far are in places that follow each other from the one the
header names, each has its commit block, and the next identifier and the next
place are those behind the last of them. `ImageAssumption` says that the words
on the disk are unsigned and that the log has as many blocks as the super block
says. `Legible` is a hypothesis of the property: the driver compares identifiers in
disk order (see Observations).

*ReiserProofs*, the tree, for every image, every path, link limit, block size,
number of cached nodes and number of reads and faults: `OpensWhatIsNamed`
(`[]LookupRight`) and `ImplementsFileReader` (`ImplementsReader`, the refinement of
`FileReader`'s safety specification). The inductive invariant is `RInv`: types
and control (`Typed`, `Flow`) on any disk, and on a sound disk without a failed
read (`Healthy`) one part for each place in the code. Its centre is `At(disk, t, c)`:
the cached nodes are those on the way from the root to item c of the tree, and
`next_key_nr` of each level is the child behind the one taken. It is not enough to
know the leaf, since `next_key` uses whatever the last walk left at every level.
`SearchFinds` (search_stat leads from any state of the cache to the stat item of
the object) and `NextItem` (next_key leads from item c to item c + 1, or past the
last) carry the rest; both go down the tree level by level, and since a
recursive function over the levels is only known through its equation, its
existence is shown by descent from the top (`DescentExists`, over `Downward`).
`Looking`, `Scanning` and `Linking` say that the lookup is on the walk that
`Resolve` of `Paths` takes, as in `XfsProofs` below, that no item of the directory
up to the current one has the name, and that the part of a link read so far
is the start of its text. `Reading` says where the walk may be between and
during reads: at rest anywhere but at the object's stat item (`Rests`), from where
`reiserfs_read_data` would deliver nothing; in the loop on an item that does not
begin behind the position (`Reaches`); and, before a `next_key`, on one that ends in
front of it (`Leaves`). `BytesAre` gives the bytes of a direct and of an indirect item,
`DeliveredMore` appends them. The refinement maps a link being read to an idle
reader, a read of the caller to a reading one; after a failed read the
reader is `sick`, and only order, count and position are left to show
(`LoopStep`), which is what `Typed` and `Flow` are for. `Calm`, next to `RInv`,
says that a sound disk never has a transaction counted, so that every walk reads
the blocks in their own places.

*XfsProofs*, for every image in order (`ImageAssumption`), every path, any geometry
and any number of reads and faults: `FindsWhatIsNamed` (`[]LookupRight`) and
`ImplementsFileReader` (`ImplementsReader`, the refinement of `FileReader`'s safety
specification). The lookup first, with the invariant `XInv`. What a path names is defined by a walk over the objects (`Resolve` in `Paths`), so the
invariant is that the driver is on that walk: `Leads` says that the walk passes
the place where `xfs_dir` is, with enough of its steps left for what is still to
do (`Left`: the rest of the path, and a block's worth for every link that may still
follow), and that what it ends with is `named`. `LeadsOn` takes it one step further,
`LeadsEnd` reads off the result. `Looking` says so at the head of the loop,
`Scanning` inside a directory, where moreover no entry in front of the cursor has
the name (`Cursor`, for each of the three formats: in a leaf of an index the cursor
is as many entries on as the leaves before it have; as long as the search is not
`spoiled`, it has seen entries only, none made of zeros), and `Linking` while the text
of a link is read, which is there up to the position, where the next extent begins
(`Streaming`). `ScanFacts` and `LinkFacts` bring in the assumption on the images.
That the walk exists for every number of steps is shown by taking the least number
for which it does not (`WalkExists`). The lemmas about this walk stand in both
`ReiserProofs` and `XfsProofs`: they speak of the link limit and the length test
of the driver at hand.

The refinement needs a second invariant, `ReadInv`, which holds next to `XInv` and
speaks of every read, also after a fault. `Buffers` is what is known on any disk:
the file open is a regular one, and as long as its extents join and the records
read are its own (not `lost`), no more has been delivered than was asked for. `Opened` says that without a fault it is the
file the path names, `InLoop` that the loop of `xfs_read_data` has passed n of its
records and, if all bytes of the file are in its extents (`Plain`), that the
position is not in front of the end of the last one passed. That is enough to
show that a position is never passed over, although the loop starts at the
first extent in every read and the position may be anywhere (`PlainExtent`), that
no hole is seen where there is none (`AtExtent`), and that the bytes taken from an
extent are the file's (`BytesOfFile`). `AllRead` is what is left of it when the loop
ends. Reading a link and looking up a path map to an idle reader (`LooksUp`), a
turn of the loop to bytes arriving (`Arrives`).

Only model-checked: the liveness properties (`OpenReturns`, `PromptAnswered`,
`ReachesPrompt`, `ReadReturns`, `LoadEnds`, `LookupEnds` and both `CallReturns`), since
fairness is beyond the prover. Every invariant and every refinement the passing
runs check is also proved.

## Observations

Made while modelling; no run of its own keeps them.

Opening and devices

- `partitions_free` (`partition.c:426`) frees in an order that should let the
  allocator take its memory back; `free` only takes back the last block, and
  `last_alloc` does not move to the block before, so only one block ever is.
- `_amiga_find_rdb(...) != -1` is true for every return value of the function,
  so "No supported partition table detected" (`partition.c:378`) is never said.
- After a scan for ISO 9660 volumes the Amiga lookup looks at the block the scan
  left in `block_buffer` first, and it goes on with the words of whatever block the
  search ended with as if that were a rigid disk block (`Unambiguous` in `Device`
  says when this does no harm). A Macintosh map that says it has no entries still
  gives its first one. `used[]`, which ends a looping Amiga list, has as many bits
  as the disk's limit asks for and is indexed by block numbers from the disk
  without a check (`partition.c:301-303`): for a block above the limit a bit of other
  memory is looked at and set. `add_new_partition` writes to what `malloc` returned
  without looking at it (`partition.c:72`). From there on, `pc = "wild"`, nothing is
  promised.
- `extract_ipv4_args` finds `bootp`, `rarp` and the other optional words with
  `strstr` wherever they stand (`file.c:133-151`), so a file name that holds one is
  taken for the option, and everything up to the comma behind it is skipped.
- `parse_device_path` without a default device, on a local path without one,
  calls `strchr` on NULL. A local file name with a comma is cut at its last comma.
- `swap_open` returns with its firmware instance open when it finds a swap
  signature or has no memory. `FileOpen` keeps such instances in `swapped`;
  `HandleBalance` is about all others.
- `swap_open`, the first driver, answers BADDEV for an iSCSI device
  (`fs_swap.c:62-65`), which ends the driver loop before ext2, which would accept
  it; `ChangeLog:280-287` announces booting from such devices.
- `file_block_open` means to fall back on the whole device when no partition has
  the file (`file.c:604-606`), but `swap_open` refuses a NULL partition with an
  error that ends the driver loop first.

Prompt and configuration

- `definitrd` is static: after a prompt with `initrd=` it stays 0, and a label
  typed next is replaced by the default (`yaboot.c:742-772`). `label initrd=file`
  boots the default image with that initrd, not the label, and an initrd given
  by hand is not remembered over a firmware reboot. Because the word is taken off
  before the arguments are looked at (`yaboot.c:751-753`), `linux initrd=file` boots
  a restricted image without the password, which `yaboot.conf(5)` (lines 578-581)
  wants "if parameters are specified on the command line"; `PasswordPolicy` makes
  this exception and no other.
- After a firmware reboot with arguments in NVRAM, `strcat` overwrites the NUL behind
  the name (`yaboot.c:780-783`): `old single` becomes the name `"old "` without
  arguments. It is not found as a label; at the next prompt, if that load fails, the
  word `old` is found again, without the arguments. Run `prompt_RebootSeamless`.
- Labels are compared without regard to case when a section takes another's name
  (`cfg.c:346`), so that `label=Linux` makes an earlier `label=linux` obsolete; looking
  one up compares exactly (`cfg.c:490`), and `yaboot.conf(5)` (lines 121-122) says that
  "values of string variables are also case sensitive". `UniqueLabels` is about
  labels as the manual understands them; `Retaken`, in `LookupMeansFile` and
  `LookupSound`, follows the code.
- `load_my_config_file` takes the negative result of a refused open for success
  and overwrites `boot.file`, which the comment at `yaboot.c:486` wants modified
  "only on success". Without a bootp packet it frees the caller's `boot.file`
  (`yaboot.c:489`), which is opened next.
- `cfg_set_default_by_mac` accepts sections for other machines and obsolete
  ones (`cfg.c:598`), which no lookup then finds.
- With a password in force, `conf` asks for it and then makes `get_params` return
  1, right or wrong (`yaboot.c:881-884`), which ends yaboot.
- `cfg_set` reports a malloc failure with -1, which `cfg_parse` takes for success;
  the items of that section are set on the one before. A section with neither
  label nor image value has a NULL name, which is compared as a string
  (`cfg.c:485`).

Loading and reading

- A 64-bit image that is no vmlinux is placed at its entry point, a 32-bit one at
  the address of its first segment. Both loaders free an uninitialised `ph` if
  the header cannot be read. A driver's -1 (`of_read`) to the first read of the
  initrd becomes an initrd of 2^32 - 1 bytes that the kernel is told of
  (`yaboot.c:1134-1136`); `InitrdIntact` excepts it. A -1 to the read of the ELF
  identification passes its test, the size being unsigned (`yaboot.c:1064`), and
  the bytes of an earlier load are examined. When malloc has no room for the initrd's name, the
  kernel's memory stays claimed (`yaboot.c:1104`).
- ext2: a read that reaches into a hole at the end of a file returns less than
  the size: libext2fs does not call the iterator for holes, and nothing fills
  the last one.
- ReiserFS: `FSYS_BUF` has exactly the size of the node cache, so that the journal
  cache behind it is empty and `block_read` reads, and counts up, words behind
  the buffer. A descriptor's `j_trans_id` is compared in disk order with an
  identifier in the machine's order, so that committed transactions are ignored
  unless their identifier reads the same both ways; `ReplaysOnlyCommitted` is
  therefore one-directional. A transaction left over from an older lap of the same
  mount would be replayed if its identifier read backwards were the expected one
  (`fs_reiserfs.c:313`); `Legible` leaves such logs out. The second read of the
  super block (`:474`) goes through the same table, is not checked, and counts
  its block number, 16 or 2, in blocks of the file system: with a journal and
  blocks of 512 to 2048 or of 8192 bytes, all of which the driver accepts, the
  root is looked for at a number found in other bytes. `next_key` reads an
  uncached level with the wrong depth and fails. A read of -1 is taken for success over a stale buffer, a
  failed read of file data is not noticed, a hole delivers block 0, and reads are
  not cut at the file's length.
- XFS: `leftsib` is followed where the next leaf is `rightsib`, so that extent
  trees of several leaves lose all but one. A link found while another link's
  text is still to be walked overwrites it. `..` is never found in a directory
  kept in the inode. No read but that of the super block is checked; after a
  failed one the search for a directory's first leaf may not end, and its result
  is not tested for NULL. Holes are skipped instead of zeroed. The extents of
  a directory are searched in the same way: one whose extent tree has several
  leaves cannot be read through, and where a data block in its middle was freed,
  `xfs_read_data` delivers zeros, which are counted as entries with an empty name,
  so that as many entries at the end are not looked at (`fs_xfs.c:533-559`, `:680`).
  After a failed read of a record (`:426`) the record before is used again, the
  next one seems to lie behind a hole, and the hole branch fills in
  `(offset - endofprev) << blklog` zeros (`:681-688`), which may be more than was
  asked for: the caller's buffer is overrun on a file without holes.
- Both drivers end a path at white space, and a name in it
  (`fs_reiserfs.c:888`, `fs_xfs.c:740`): a file whose name has a blank cannot be
  opened, and what follows the blank is ignored.

## Not modelled

- **Command line editor, display, messages, help**: console I/O.
- **MD5, string, number and formatting functions, assembly**: no state, or out of
  a model checker's reach.
- **ISO 9660** (`fs_iso.c`, `iso_util.c`): not in the driver table.
- **prom.c** beyond open, close, block reads, claim and release: argument
  marshalling for calls that keep no state here.
- **The two key formats of ReiserFS** (`reiserfs.h:98-106`, `:268-270`) and its
  byte order: an item's key and a file's size are numbers in `ReiserTree`.
- **of_read, of_net_read**: a copy from a buffer, or one firmware call.
- **libext2fs** and its headers (`include/ext2fs`, `include/linux`): a library;
  its block iterator is part of `Ext2Read` as far as `fs_ext2.c` uses it.
- **first/ofboot, ybin, ofpath, yabootconfig, util/**: scripts and build tools
  that act through other programs on the mounts and files of a running system.
- The clock behind the prompt's time-out, and the partition and device of `boot`
  in `BootPrompt`: a time-out expires or not as the environment chooses.

## Plan

Order: what every boot passes through first. Done: the models of all parts that
keep state, the abstract reader and its three refinements, and proofs of the
safety properties of `Malloc`, `Config`, `ConfigLoad`, `FileOpen`, `BootPrompt`,
`KernelLoad`, `Ext2Read`, `Device`, `ReiserFS` and `Xfs`, with all three refinements.
Left:

1. An abstract heap of disjoint intervals, which `Malloc` implements; its safety
   half is `BlocksDisjoint` and `NoClobber`.
2. Composition of prompt, configuration tables and kernel loading over one set
   of statics. The product is large; it needs coarser modules for two of the
   three.
