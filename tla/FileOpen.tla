------------------------------ MODULE FileOpen ------------------------------
(***************************************************************************)
(* Opening and closing a file: open_file and file_block_open (file.c), the *)
(* driver table of fs_open (fs.c) and the open and close routines of the   *)
(* five block drivers and of the network driver.                           *)
(*                                                                         *)
(* A disk is the list partitions_lookup returns.  Of a partition the model *)
(* keeps its number, what is on it, whether it is tagged as a Linux        *)
(* partition (sys_ind) and whether the wanted file is on it.  Open         *)
(* Firmware may refuse any open; the client opens one file at a time, as   *)
(* every caller of open_file does.                                         *)
(***************************************************************************)
EXTENDS Integers, Sequences, FiniteSets, FiniteSetsExt

CONSTANTS
    Disks,      \* the partition lists partitions_lookup may return
    Wanted,     \* the partition numbers a file specification may ask for
    MaxOpens    \* bound: how many files a behaviour opens

Content == {"swap", "ext2", "xfs", "reiserfs", "hfs", "raw"}

Partition == [num : Nat, on : Content, linux : BOOLEAN, has : BOOLEAN]

ASSUME DisksAssumption ==
    /\ \A d \in Disks : d \in Seq(Partition)
    /\ Wanted \subseteq Int
    /\ MaxOpens \in Nat

VARIABLES
    disk,       \* the partitions of the device
    parts,      \* what partitions_lookup returned for this open
    pc,         \* "idle": no file open; "try": inside fs_open; "open"
    kind,       \* file->device_kind
    want,       \* spec->part; AnyPart asks for a search
    cur,        \* index of the partition handed to fs_open, 0 for NULL
    drv,        \* index into block_filesystems
    fserrorno,  \* the global error of the last driver open
    result,     \* what open_file returned last
    of_device,  \* file->of_device, 0 when closed
    opened,     \* static int opened of fs_ext2.c
    handles,    \* Open Firmware instances that are open
    swapped,    \* those of them swap_open walked away from
    claims,     \* TFTP load buffers claimed from Open Firmware
    fault,      \* a call into the firmware or malloc failed in this open
    opens       \* files opened so far (bounded by MaxOpens)

vars == <<disk, parts, pc, kind, want, cur, drv, fserrorno, result, of_device, opened,
          handles, swapped, claims, fault, opens>>

AnyPart == -1

block_filesystems == <<"swap", "ext2", "xfs", "reiserfs", "of">>

Kinds == {"BLOCK", "ISCSI", "NET"}

Init ==
    /\ disk \in Disks /\ parts = <<>>
    /\ pc = "idle" /\ kind = "BLOCK" /\ want \in Wanted /\ cur = 0 /\ drv = 1
    /\ fserrorno = "OK" /\ result = "BADDEV"
    /\ of_device = 0 /\ opened = FALSE
    /\ handles = {} /\ swapped = {} /\ claims = 0
    /\ fault = FALSE /\ opens = 0

NewHandle == CHOOSE h \in 1 .. Cardinality(handles) + 1 : h \notin handles

(***************************************************************************)
(* open_file and the partition loop of file_block_open.                    *)
(***************************************************************************)

(* Mutant: a partition at or above the number asked for will do.           *)
foundAtLeast(list, n) ==
    LET hit == {i \in DOMAIN list : list[i].num >= n}
    IN  IF hit = {} THEN 0 ELSE Min(hit)

(* The first partition of the list with the number asked for, else NULL.   *)
found(list, n) ==
    LET first == {i \in DOMAIN list : list[i].num = n /\ \A j \in 1 .. i - 1 : list[j].num # n}
    IN  IF first = {} THEN 0 ELSE CHOOSE i \in first : TRUE

(* partitions_lookup: all of the list, or what was read of the table when  *)
(* the device could not be opened or a block of it not be read.  Entries   *)
(* are put in front of the list as they are read.                          *)
partitions_lookup == {SubSeq(disk, k, Len(disk)) : k \in 1 .. Len(disk) + 1}

(* prom_get_devtype answers with an error: the device is unknown.          *)
OpenUnknown ==
    /\ pc = "idle" /\ opens < MaxOpens
    /\ result' = "BADDEV"
    /\ kind' \in Kinds /\ want' \in Wanted
    /\ fault' = TRUE /\ opens' = opens + 1
    /\ UNCHANGED <<disk, parts, pc, cur, drv, fserrorno, of_device, opened, handles,
                   swapped, claims>>

(* A block or iSCSI device: start with the partition asked for, with the   *)
(* first of the list when any will do, or with NULL when there is none.    *)
OpenBlock(k, n) ==
    /\ pc = "idle" /\ opens < MaxOpens
    /\ pc' = "try" /\ kind' = k /\ want' = n
    /\ \E list \in partitions_lookup :
          /\ parts' = list /\ fault' = (list # disk)
          /\ cur' = IF n = AnyPart THEN (IF list = <<>> THEN 0 ELSE 1) ELSE found(list, n)
    /\ drv' = 1 /\ opens' = opens + 1
    /\ UNCHANGED <<disk, fserrorno, result, of_device, opened, handles, swapped, claims>>

(***************************************************************************)
(* One driver's open returned err: fs_open goes on to the next driver      *)
(* while the answer is BAD_FSYS; file_block_open goes on to the next       *)
(* partition while it is searching and nothing opened.                     *)
(***************************************************************************)
(* Mutant: the loop stops at the first foreign file system.                *)
fsOpenStops(err) == err = "NOMEM" /\ drv < Len(block_filesystems)

fsOpenGoesOn(err) == err = "BAD_FSYS" /\ drv < Len(block_filesystems)

(* Mutant: the search starts over after the last partition.                *)
SearchingForever == want = AnyPart

Searching == want = AnyPart /\ cur # 0

Return(err) ==
    /\ fserrorno' = err
    /\ \/ /\ fsOpenGoesOn(err)
          /\ drv' = drv + 1
          /\ UNCHANGED <<pc, cur, result>>
       \/ /\ ~fsOpenGoesOn(err) /\ err # "OK" /\ Searching
          /\ cur' = IF cur < Len(parts) THEN cur + 1 ELSE 0
          /\ drv' = 1
          /\ UNCHANGED <<pc, result>>
       \/ /\ ~fsOpenGoesOn(err) /\ (err = "OK" \/ ~Searching)
          /\ pc' = IF err = "OK" THEN "open" ELSE "idle"
          /\ result' = err
          /\ UNCHANGED <<cur, drv>>
    /\ UNCHANGED <<disk, parts, kind, want, opens>>

(* What a driver did with the firmware: kept the instance it opened,       *)
(* closed it again, or never got one.                                      *)
Kept ==
    /\ handles' = handles \cup {NewHandle}
    /\ of_device' = NewHandle

(* Mutant: the instance is forgotten instead of closed.                    *)
ClosedLeak ==
    /\ handles' = handles \cup {NewHandle}
    /\ of_device' = 0

Closed == UNCHANGED <<handles, of_device>>

(* Closed, and yet reported open: file->of_device names no instance.       *)
Dangling == UNCHANGED handles /\ of_device' = NewHandle

Driver(d) == pc = "try" /\ block_filesystems[drv] = d

On(c) == cur # 0 /\ parts[cur].on = c

(* swap_open: refuses a NULL partition and anything but a local block      *)
(* device with an error that ends fs_open's loop, and keeps the instance   *)
(* open when it finds a signature or runs out of memory.  It does not look *)
(* whether its reads worked: after a failed one the buffer holds what was  *)
(* in it, perhaps a signature, perhaps none.                               *)
swap_open ==
    /\ Driver("swap")
    /\ \/ /\ kind # "BLOCK" \/ cur = 0
          /\ Return("BADDEV") /\ Closed
          /\ UNCHANGED <<swapped, fault>>
       \/ /\ kind = "BLOCK" /\ cur # 0
          /\ \/ Return("IOERR") /\ Closed /\ fault' = TRUE /\ UNCHANGED swapped
             \/ /\ Return("NOMEM") /\ Kept
                /\ swapped' = swapped \cup {NewHandle} /\ fault' = TRUE
             \/ /\ (On("swap") /\ UNCHANGED fault) \/ fault' = TRUE
                /\ Return("NOTFOUND") /\ Kept /\ swapped' = swapped \cup {NewHandle}
             \/ /\ (~On("swap") /\ UNCHANGED fault) \/ fault' = TRUE
                /\ Return("BAD_FSYS") /\ Closed /\ UNCHANGED swapped
    /\ UNCHANGED <<opened, claims>>

(* The part ext2, XFS and ReiserFS share: open the whole disk, look for a  *)
(* file system of their own at the partition's offset, look the file up,   *)
(* and close the disk again unless all of that worked.                     *)
MountAndLookup(d, refused, missing) ==
    \/ /\ Return(refused) /\ Closed /\ fault' = TRUE
    \/ /\ ~On(d) /\ Return("BAD_FSYS") /\ Closed /\ UNCHANGED fault
    \/ /\ On(d) /\ ~parts[cur].has /\ Return(missing) /\ Closed /\ UNCHANGED fault
    \/ /\ On(d) /\ parts[cur].has /\ Return("OK") /\ Kept /\ UNCHANGED fault

(* A read of the disk fails during the lookup.  The file may then seem to  *)
(* be missing; XFS and ReiserFS do not notice every such failure, and may  *)
(* open something else.                                                    *)
BadRead(d, errs) ==
    /\ On(d) /\ fault' = TRUE
    /\ \E err \in errs : Return(err) /\ (IF err = "OK" THEN Kept ELSE Closed)

(* ext2_open: busy while a file is open.  A refused instance is 0, which   *)
(* the test for PROM_INVALID_HANDLE lets through to a failing mount.       *)
ext2_open ==
    /\ Driver("ext2")
    /\ IF opened
       THEN Return("FSBUSY") /\ Closed /\ UNCHANGED <<opened, fault>>
       ELSE /\ \/ \E refused \in {"IOERR", "BAD_FSYS"}, missing \in {"NOTFOUND", "OTHER"} :
                      MountAndLookup("ext2", refused, missing)
               \/ BadRead("ext2", {"NOTFOUND", "OTHER"})
            /\ opened' = (fserrorno' = "OK")
    /\ UNCHANGED <<swapped, claims>>

xfs_open ==
    /\ Driver("xfs")
    /\ \/ \E missing \in {"NOTFOUND", "OTHER"} : MountAndLookup("xfs", "BADDEV", missing)
       \/ BadRead("xfs", {"OK", "BAD_FSYS", "NOTFOUND", "OTHER"})
    /\ UNCHANGED <<opened, swapped, claims>>

(* reiserfs_open: a lookup that trips over a bad tree node reports         *)
(* BAD_FSYS, so fs_open still asks Open Firmware; one that cannot read a   *)
(* node fails with errnum 0, which is FILE_ERR_OK, and closes the disk.    *)
reiserfs_open ==
    /\ Driver("reiserfs")
    /\ \/ \E missing \in {"NOTFOUND", "OTHER", "BAD_FSYS"} :
              MountAndLookup("reiserfs", "BADDEV", missing)
       \/ BadRead("reiserfs", {"OK", "BAD_FSYS", "NOTFOUND", "OTHER"})
       \/ On("reiserfs") /\ Return("OK") /\ Dangling /\ fault' = TRUE
    /\ UNCHANGED <<opened, swapped, claims>>

(* of_open: Open Firmware itself resolves partition and file; partitions   *)
(* tagged for Linux are left alone.                                        *)
of_open ==
    /\ Driver("of")
    /\ \/ /\ On("hfs") /\ parts[cur].has /\ ~parts[cur].linux
          /\ Return("OK") /\ Kept /\ UNCHANGED fault
       \/ /\ ~(On("hfs") /\ parts[cur].has /\ ~parts[cur].linux)
          /\ Return("BAD_FSYS") /\ Closed /\ UNCHANGED fault
       \/ /\ Return("BAD_FSYS") /\ Closed /\ fault' = TRUE
    /\ UNCHANGED <<opened, swapped, claims>>

(* of_net_open: open, claim the load buffer, load the file.                *)
of_net_open ==
    /\ pc = "idle" /\ opens < MaxOpens
    /\ kind' = "NET" /\ want' \in Wanted /\ cur' = 0 /\ opens' = opens + 1
    /\ \/ /\ result' = "OK" /\ pc' = "open" /\ Kept /\ claims' = claims + 1
          /\ fault' = FALSE
       \/ /\ result' \in {"BAD_FSYS", "IOERR"} /\ Closed /\ fault' = TRUE
          /\ UNCHANGED <<pc, claims>>
    /\ UNCHANGED <<disk, parts, drv, fserrorno, opened, swapped>>

(***************************************************************************)
(* file->fs->close.                                                        *)
(***************************************************************************)
CloseHandle ==
    /\ handles' = handles \ {of_device}
    /\ of_device' = 0 /\ pc' = "idle"

ext2_close ==
    /\ pc = "open" /\ kind # "NET" /\ block_filesystems[drv] = "ext2"
    /\ opened
    /\ CloseHandle /\ opened' = FALSE
    /\ UNCHANGED <<disk, parts, kind, want, cur, drv, fserrorno, result, swapped, claims, fault, opens>>

(* xfs_close, reiserfs_close, and of_close for a file without a buffer.    *)
block_close ==
    /\ pc = "open" /\ kind # "NET" /\ block_filesystems[drv] # "ext2"
    /\ CloseHandle
    /\ UNCHANGED <<disk, parts, kind, want, cur, drv, fserrorno, result, opened, swapped,
                   claims, fault, opens>>

(* of_close of a network file gives its load buffer back first.            *)
of_close ==
    /\ pc = "open" /\ kind = "NET"
    /\ CloseHandle /\ claims' = claims - 1
    /\ UNCHANGED <<disk, parts, kind, want, cur, drv, fserrorno, result, opened, swapped,
                   fault, opens>>

(* The boot stops asking for files.                                        *)
Finished == pc = "idle" /\ opens = MaxOpens /\ UNCHANGED vars

Opens ==
    \/ OpenUnknown
    \/ \E k \in {"BLOCK", "ISCSI"}, n \in Wanted : OpenBlock(k, n)
    \/ of_net_open

Next ==
    \/ Opens
    \/ swap_open \/ ext2_open \/ xfs_open \/ reiserfs_open \/ of_open
    \/ ext2_close \/ block_close \/ of_close
    \/ Finished

(* yaboot is a single thread that never abandons a call half way.          *)
Spec == Init /\ [][Next]_vars /\ WF_vars(Next)

-----------------------------------------------------------------------------
(* Partition p can be read, and the wanted file is on it.                  *)
Serves(p) ==
    /\ p.has
    /\ p.on \in {"ext2", "xfs", "reiserfs"} \/ (p.on = "hfs" /\ ~p.linux)

Eligible(p) == want = AnyPart \/ p.num = want

Answered == pc # "try" /\ opens > 0 /\ kind = "BLOCK" /\ ~fault

(* A file that open_file reports open is the wanted file: it lies on the   *)
(* partition asked for, or on the first of the list that has it, and the   *)
(* driver bound to it is the one for what is on that partition.  When a    *)
(* read fails, XFS and ReiserFS only promise the partition and the driver. *)
OpenSound ==
    pc = "open" /\ kind # "NET" =>
        /\ cur # 0 /\ Eligible(parts[cur])
        /\ Serves(parts[cur]) \/ (fault /\ parts[cur].on \in {"xfs", "reiserfs"})
        /\ block_filesystems[drv] = (IF parts[cur].on = "hfs" THEN "of" ELSE parts[cur].on)
        /\ ~fault => \A i \in 1 .. cur - 1 : want = AnyPart => ~Serves(parts[i])

(* If the firmware cooperates, a file that is on the partition asked for   *)
(* (or on any, when searching) is found, whatever the other partitions     *)
(* hold: no driver earlier in the table takes the partition for its own.   *)
OpenComplete ==
    Answered /\ (\E i \in DOMAIN disk : Eligible(disk[i]) /\ Serves(disk[i]) /\
                     (want # AnyPart => i = found(disk, want)))
        => pc = "open" \/ result = "OK"

(* Between calls yaboot holds exactly the instance of its open file, plus  *)
(* the ones swap_open abandoned: every other way out of every driver       *)
(* closes what it opened.  ReiserFS may have closed it already, but only   *)
(* when a read failed.  The load buffer is claimed exactly while a network *)
(* file is open.                                                           *)
HandleBalance ==
    /\ pc = "idle" => handles \subseteq swapped
    /\ pc = "open" => \/ handles \ swapped = {of_device}
                      \/ /\ fault /\ kind # "NET" /\ block_filesystems[drv] = "reiserfs"
                         /\ handles \subseteq swapped
    /\ claims = (IF pc = "open" /\ kind = "NET" THEN 1 ELSE 0)

(* Every open_file returns: no partition list and no mix of driver answers *)
(* keeps the two nested searches going.                                    *)
OpenReturns == (pc = "try") ~> (pc # "try")
=============================================================================
