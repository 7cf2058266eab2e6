----------------------------- MODULE KernelLoad -----------------------------
(***************************************************************************)
(* Loading a kernel and its initrd: the body of yaboot_text_ui, load_elf32 *)
(* and load_elf64 (yaboot.c), and the memory calls of prom.c they use.     *)
(*                                                                         *)
(* Memory, files and addresses are counted in pages, a page being a step   *)
(* of prom_claim_chunk's search (256 kB).  A page has an owner             *)
(* and a content: what the firmware had there, a page of the kernel image  *)
(* (by its virtual address) or a page of the initrd file.  Opens, seeks,   *)
(* reads and malloc may fail.  A read that fails is short, as the ext2     *)
(* driver's are, or answers -1, as the firmware's driver does (of_read).   *)
(***************************************************************************)
EXTENDS Integers, Sequences, FiniteSetsExt

CONSTANTS
    Pages,        \* pages of memory: 0 .. Pages - 1
    MaxAddr,      \* PROM_CLAIM_MAX_ADDR
    Layouts,      \* sets of pages the firmware and yaboot may occupy
    Kernels,      \* ELF files: [class, entry, segs]
    KERNELADDR,   \* where a vmlinux goes
    LinkAddr,     \* KERNEL_LINK_ADDR: the entry of a vmlinux
    Align, Room,  \* the rounding of memsize, and the room for boot infos
    Chunk,        \* INITRD_CHUNKSIZE
    InitrdSizes,  \* lengths of initrd files
    MaxLoads,     \* bound: kernels loaded in a behaviour
    MaxFaults     \* bound: operations that fail

Segment == [load : BOOLEAN, off : Nat, vaddr : Nat, filesz : Nat, memsz : Nat]

Loadable(s) == s.load /\ s.off # 0

(* yaboot relies on this of an image ("this code works as a side effect of *)
(* the fact that ..."): its segments follow each other in memory as they   *)
(* do in the file, and the first is not empty.                             *)
Follows(s, t) == t.vaddr - s.vaddr = t.off - s.off /\ t.vaddr >= s.vaddr + s.memsz

WellFormed(k) ==
    \A j \in DOMAIN k.segs : Loadable(k.segs[j]) =>
        /\ k.segs[j].filesz <= k.segs[j].memsz
        /\ (\A i \in 1 .. j - 1 : ~Loadable(k.segs[i])) => k.segs[j].memsz > 0
        /\ \A i \in 1 .. j - 1 : Loadable(k.segs[i]) => Follows(k.segs[i], k.segs[j])

ASSUME LoadAssumption ==
    /\ Pages \in Nat /\ MaxAddr \in Nat /\ KERNELADDR \in Nat /\ LinkAddr \in Nat
    /\ Align \in Nat \ {0} /\ Room \in Nat /\ Chunk \in Nat \ {0}
    /\ InitrdSizes \subseteq Nat /\ MaxLoads \in Nat /\ MaxFaults \in Nat
    /\ \A k \in Kernels : /\ k.class \in {0, 32, 64} /\ k.entry \in Nat
                          /\ k.segs \in Seq(Segment) /\ WellFormed(k)

VARIABLES
    pc,         \* "prompt", "ident", "header", "phdrs", "scan", "claim",
                \* "segments", "ramdisk", "rdclaim", "rdread", "rdmore", "enter" or "kernel"
    owner,      \* page -> "free", "firmware", "kernel" or "initrd"
    mem,        \* page -> content
    kernel,     \* the ELF file being loaded
    rd,         \* length of the initrd file, or NoInitrd
    li,         \* loadinfo: base, memsize, offset, load_loc
    flat,       \* flat_vmlinux
    seg,        \* the segment load_elf is at
    rdlen,      \* len
    rdpos,      \* file->pos of the initrd
    initrd,     \* [base, size, more]: initrd_base, initrd_size, initrd_more
    isopen,     \* a file is open
    loads,      \* kernels loaded so far
    faults,     \* operations that failed
    spoiled,    \* history: an operation failed since this load began
    stays       \* history: a kernel ran, or the malloc of line 1103 failed

vars == <<pc, owner, mem, kernel, rd, li, flat, seg, rdlen, rdpos, initrd, isopen,
          loads, faults, spoiled, stays>>

Page == 0 .. Pages - 1
NoInitrd == -1
None == -1            \* (void *) -1
Huge == 16384         \* 2^32 bytes, in pages
NoRd == [base |-> None, size |-> 0, more |-> None]

Span(a, n) == a .. a + n - 1

is_elf32 == kernel.class = 32

is_elf64 == kernel.class = 64

Init ==
    /\ pc = "prompt"
    /\ \E l \in Layouts :
          /\ owner = [p \in Page |-> IF p \in l THEN "firmware" ELSE "free"]
          /\ mem = [p \in Page |-> IF p \in l THEN <<"firmware", p>> ELSE <<"junk", 0>>]
    /\ kernel \in Kernels /\ rd = NoInitrd
    /\ li = [base |-> None, memsize |-> 0, offset |-> 0, load_loc |-> 0]
    /\ flat = FALSE /\ seg = 1 /\ rdlen = Chunk /\ rdpos = 0 /\ initrd = NoRd
    /\ isopen = FALSE /\ loads = 0 /\ faults = 0 /\ spoiled = FALSE /\ stays = FALSE

-----------------------------------------------------------------------------
(***************************************************************************)
(* Memory: the firmware grants a claim of pages that are all free.         *)
(***************************************************************************)
CanClaim(a, n) == \A p \in Span(a, n) : p \in Page /\ owner[p] = "free"

(* Mutant: the last page of a chunk is not looked at.                      *)
prom_claim_chunk_short(virt, n) ==
    LET fit == {a \in virt .. MaxAddr : CanClaim(a, n - 1)}
    IN  IF fit = {} THEN None ELSE Min(fit)

(* The first address from virt up to MaxAddr at which the claim succeeds.  *)
prom_claim_chunk(virt, n) ==
    LET first == {a \in virt .. MaxAddr :
                      CanClaim(a, n) /\ \A b \in virt .. a - 1 : ~CanClaim(b, n)}
    IN  IF first = {} THEN None ELSE CHOOSE a \in first : TRUE

Claimed(a, n, who) == [p \in Page |-> IF p \in Span(a, n) THEN who ELSE owner[p]]

(* Mutant: nothing is given back.                                          *)
prom_release_none(a, n) == owner

prom_release(a, n) == Claimed(a, n, "free")

(* n pages of `what', from its page `first' on, are read to address a.     *)
Store(a, n, what, first) ==
    [p \in Page |-> IF p \in Span(a, n) THEN <<what, first + (p - a)>> ELSE mem[p]]

-----------------------------------------------------------------------------
Fault == faults < MaxFaults /\ faults' = faults + 1 /\ spoiled' = TRUE

NoFault == UNCHANGED <<faults, spoiled>>

(* goto next, with the file closed if it was open.                         *)
GiveUp ==
    /\ pc' = "prompt" /\ isopen' = FALSE
    /\ UNCHANGED <<kernel, rd, li, flat, seg, rdlen, rdpos, initrd, loads>>

(* get_params has settled on a kernel and perhaps an initrd; open_file.    *)
OpenKernel ==
    /\ pc = "prompt" /\ loads < MaxLoads
    /\ kernel' \in Kernels /\ rd' \in InitrdSizes \cup {NoInitrd}
    /\ loads' = loads + 1 /\ seg' = 1 /\ initrd' = NoRd /\ rdpos' = 0
    /\ \/ pc' = "ident" /\ isopen' = TRUE /\ spoiled' = FALSE /\ UNCHANGED faults
       \/ pc' = "prompt" /\ UNCHANGED isopen /\ Fault
    /\ UNCHANGED <<owner, mem, li, flat, rdlen, stays>>

(* The identification is read; class 0 stands for a file that is no ELF.   *)
(* -1 is no less than the size, which is unsigned: the bytes of an earlier *)
(* load are looked at then, and what is read next is not the rest of the   *)
(* header; the loaders work from whatever header they find in its place.   *)
ReadIdent ==
    /\ pc = "ident"
    /\ \/ GiveUp /\ Fault
       \/ /\ Fault /\ kernel' \in Kernels
          /\ pc' = IF is_elf32' \/ is_elf64' THEN "header" ELSE "prompt"
          /\ isopen' = (pc' = "header")
          /\ UNCHANGED <<rd, li, flat, seg, rdlen, rdpos, initrd, loads>>
       \/ ~is_elf32 /\ ~is_elf64 /\ GiveUp /\ NoFault
       \/ /\ is_elf32 \/ is_elf64
          /\ pc' = "header" /\ NoFault
          /\ UNCHANGED <<kernel, rd, li, flat, seg, rdlen, rdpos, initrd, isopen, loads>>
    /\ UNCHANGED <<owner, mem, stays>>

(***************************************************************************)
(* load_elf32 and load_elf64.  They differ in the room they leave and in   *)
(* where they put an image that is no vmlinux.                             *)
(***************************************************************************)
(* Mutant: the file size of the last segment stands for its memory size.   *)
ScanFileSize(l, s) ==
    IF ~Loadable(s) THEN l
    ELSE IF l.memsize = 0
    THEN [l EXCEPT !.offset = s.off, !.memsize = s.memsz, !.load_loc = s.vaddr]
    ELSE [l EXCEPT !.memsize = s.off + s.filesz - l.offset]

Scan(l, s) ==
    IF ~Loadable(s) THEN l
    ELSE IF l.memsize = 0
    THEN [l EXCEPT !.offset = s.off, !.memsize = s.memsz, !.load_loc = s.vaddr]
    ELSE [l EXCEPT !.memsize = s.off + s.memsz - l.offset]

_ALIGN(n) == n + ((-n) % Align)

Rounded(n) == _ALIGN(n) + (IF is_elf32 THEN Room ELSE 0)

(* The rest of the header is read, and memory for the program headers got. *)
ReadHeader ==
    /\ pc = "header"
    /\ \/ GiveUp /\ Fault
       \/ /\ pc' = "phdrs" /\ NoFault
          /\ UNCHANGED <<kernel, rd, li, flat, seg, rdlen, rdpos, initrd, isopen, loads>>
    /\ UNCHANGED <<owner, mem, stays>>

(* The program headers are read.                                           *)
ReadProgramHeaders ==
    /\ pc = "phdrs"
    /\ \/ GiveUp /\ Fault
       \/ /\ li' = [li EXCEPT !.memsize = 0, !.offset = 0]
          /\ pc' = "scan" /\ seg' = 1 /\ NoFault
          /\ UNCHANGED <<kernel, rd, flat, rdlen, rdpos, initrd, isopen, loads>>
    /\ UNCHANGED <<owner, mem, stays>>

(* The memory the image needs is computed, one header at a time.           *)
ScanSegment ==
    /\ pc = "scan" /\ seg <= Len(kernel.segs)
    /\ li' = Scan(li, kernel.segs[seg])
    /\ seg' = seg + 1
    /\ UNCHANGED <<pc, owner, mem, kernel, rd, flat, rdlen, rdpos, initrd, isopen,
                   loads, faults, spoiled, stays>>

(* "Can't find a loadable segment !", or on to the claim.                  *)
ScanDone ==
    /\ pc = "scan" /\ seg > Len(kernel.segs)
    /\ \/ li.memsize = 0 /\ GiveUp
       \/ /\ li.memsize # 0
          /\ li' = [li EXCEPT !.memsize = Rounded(li.memsize)]
          /\ flat' = (kernel.entry = LinkAddr)
          /\ pc' = "claim"
          /\ UNCHANGED <<kernel, rd, seg, rdlen, rdpos, initrd, isopen, loads>>
    /\ NoFault
    /\ UNCHANGED <<owner, mem, stays>>

LoadAddr == IF flat THEN KERNELADDR
            ELSE IF is_elf32 THEN li.load_loc ELSE kernel.entry

ClaimKernel ==
    /\ pc = "claim"
    /\ LET base == prom_claim_chunk(LoadAddr, li.memsize)
       IN  \/ base = None /\ GiveUp /\ UNCHANGED owner
           \/ /\ base # None
              /\ li' = [li EXCEPT !.base = base]
              /\ owner' = Claimed(base, li.memsize, "kernel")
              /\ pc' = "segments" /\ seg' = 1
              /\ UNCHANGED <<kernel, rd, flat, rdlen, rdpos, initrd, isopen, loads>>
    /\ NoFault
    /\ UNCHANGED <<mem, stays>>

(* Where segment s goes.                                                   *)
Dest(s) == li.base + s.vaddr - li.load_loc

(* Mutant: a segment that is not loaded is looked at again.                *)
SkipSegmentStays ==
    /\ pc = "segments" /\ seg <= Len(kernel.segs) /\ ~Loadable(kernel.segs[seg])
    /\ UNCHANGED vars

SkipSegment ==
    /\ pc = "segments" /\ seg <= Len(kernel.segs) /\ ~Loadable(kernel.segs[seg])
    /\ seg' = seg + 1
    /\ UNCHANGED <<pc, owner, mem, kernel, rd, li, flat, rdlen, rdpos, initrd, isopen,
                   loads, faults, spoiled, stays>>

LoadSegment ==
    /\ pc = "segments" /\ seg <= Len(kernel.segs) /\ Loadable(kernel.segs[seg])
    /\ LET s == kernel.segs[seg]
       IN  \/ /\ mem' = Store(Dest(s), s.filesz, "kernel", s.vaddr)
              /\ seg' = seg + 1 /\ NoFault
              /\ UNCHANGED <<pc, owner, kernel, rd, li, flat, rdlen, rdpos, initrd,
                             isopen, loads>>
           \/ /\ Fault                       \* seek, or a short read
              /\ \E n \in {0} \cup 0 .. s.filesz - 1 :
                    mem' = Store(Dest(s), n, "kernel", s.vaddr)
              /\ owner' = prom_release(li.base, li.memsize)
              /\ GiveUp
    /\ UNCHANGED stays

(* load_elf returns 1; the kernel's file is closed.                        *)
KernelLoaded ==
    /\ pc = "segments" /\ seg > Len(kernel.segs)
    /\ pc' = IF flat /\ rd # NoInitrd THEN "ramdisk" ELSE "enter"
    /\ isopen' = FALSE
    /\ UNCHANGED <<owner, mem, kernel, rd, li, flat, seg, rdlen, rdpos, initrd, loads,
                   faults, spoiled, stays>>

(***************************************************************************)
(* The initrd.  None of its failures keeps the kernel from being entered,  *)
(* except that there is no memory for its name: then the kernel stays      *)
(* claimed.                                                                *)
(***************************************************************************)
NoNameForInitrd ==
    /\ pc = "ramdisk"
    /\ Fault /\ GiveUp /\ stays' = TRUE
    /\ UNCHANGED <<owner, mem>>

(* open_file; the driver may or may not know the size of the file.         *)
OpenInitrd ==
    /\ pc = "ramdisk"
    /\ \/ pc' = "enter" /\ Fault /\ UNCHANGED <<isopen, rdlen>>
       \/ /\ pc' = "rdclaim" /\ isopen' = TRUE /\ NoFault
          /\ rdlen' \in {Chunk} \cup (IF rd > 0 THEN {rd + 1} ELSE {})
    /\ UNCHANGED <<owner, mem, kernel, rd, li, flat, seg, rdpos, initrd, loads, stays>>

ClaimInitrd ==
    /\ pc = "rdclaim"
    /\ LET base == prom_claim_chunk(li.base + li.memsize, rdlen)
       IN  \/ /\ base = None /\ pc' = "enter" /\ isopen' = FALSE
              /\ spoiled' = TRUE
              /\ UNCHANGED <<owner, initrd>>
           \/ /\ base # None /\ pc' = "rdread"
              /\ owner' = Claimed(base, rdlen, "initrd")
              /\ initrd' = [base |-> base, size |-> 0, more |-> base]
              /\ UNCHANGED <<isopen, spoiled>>
    /\ UNCHANGED <<mem, kernel, rd, li, flat, seg, rdlen, rdpos, loads, faults, stays>>

(* A read of rdlen pages: what is left of the file, or less if it fails.   *)
ReadInitrd ==
    /\ pc = "rdread"
    /\ \E n \in 0 .. Min({rdlen, rd - rdpos}) :
          /\ IF n = Min({rdlen, rd - rdpos}) THEN NoFault ELSE Fault
          /\ mem' = Store(initrd.more, n, "initrd", rdpos)
          /\ rdpos' = rdpos + n
          /\ initrd' = [initrd EXCEPT !.size = @ + n,
                                      !.base = IF @ # initrd.more \/ n > 0 THEN @ ELSE None]
          /\ pc' = IF n = rdlen THEN "rdmore" ELSE "enter"
          /\ isopen' = (n = rdlen)
    /\ UNCHANGED <<owner, kernel, rd, li, flat, seg, rdlen, loads, stays>>

(* The driver answers -1, and that is added to the unsigned initrd_size,   *)
(* here the number of pages begun: a byte less, or 2^32 - 1 of them if     *)
(* this is the first read.                                                 *)
InitrdReadError ==
    /\ pc = "rdread"
    /\ Fault
    /\ initrd' = [initrd EXCEPT !.size = IF @ = 0 THEN Huge ELSE @]
    /\ pc' = "enter" /\ isopen' = FALSE
    /\ UNCHANGED <<owner, mem, kernel, rd, li, flat, seg, rdlen, rdpos, loads, stays>>

(* Mutant: the next chunk is claimed, and the first one read into again.   *)
MoreInitrdInPlace ==
    /\ pc = "rdmore"
    /\ LET want == initrd.more + rdlen
       IN  /\ CanClaim(want, rdlen) /\ pc' = "rdread"
           /\ owner' = Claimed(want, rdlen, "initrd")
    /\ UNCHANGED <<mem, initrd, isopen, spoiled, kernel, rd, li, flat, seg, rdlen, rdpos,
                   loads, faults, stays>>

(* The chunk was filled, so there may be more: the next chunk has to lie   *)
(* right behind it.                                                        *)
MoreInitrd ==
    /\ pc = "rdmore"
    /\ LET want == initrd.more + rdlen
       IN  \/ /\ CanClaim(want, rdlen) /\ pc' = "rdread"
              /\ owner' = Claimed(want, rdlen, "initrd")
              /\ initrd' = [initrd EXCEPT !.more = want]
              /\ UNCHANGED <<isopen, spoiled>>
           \/ /\ ~CanClaim(want, rdlen) /\ pc' = "enter" /\ isopen' = FALSE
              /\ spoiled' = TRUE
              /\ UNCHANGED <<owner, initrd>>
    /\ UNCHANGED <<mem, kernel, rd, li, flat, seg, rdlen, rdpos, loads, faults, stays>>

(***************************************************************************)
(* The kernel is called; if it returns, what was claimed stays claimed.    *)
(***************************************************************************)
EnterKernel ==
    /\ pc = "enter"
    /\ pc' = "kernel" /\ stays' = TRUE
    /\ UNCHANGED <<owner, mem, kernel, rd, li, flat, seg, rdlen, rdpos, initrd, isopen,
                   loads, faults, spoiled>>

KernelReturns ==
    /\ pc = "kernel"
    /\ GiveUp /\ UNCHANGED <<owner, mem, faults, spoiled, stays>>

Rest ==
    /\ pc = "kernel" \/ (pc = "prompt" /\ loads = MaxLoads)
    /\ UNCHANGED vars

Next ==
    \/ OpenKernel \/ ReadIdent \/ ReadHeader \/ ReadProgramHeaders
    \/ ScanSegment \/ ScanDone \/ ClaimKernel
    \/ SkipSegment \/ LoadSegment \/ KernelLoaded
    \/ NoNameForInitrd \/ OpenInitrd \/ ClaimInitrd \/ ReadInitrd \/ InitrdReadError
    \/ MoreInitrd
    \/ EnterKernel \/ KernelReturns \/ Rest

Spec == Init /\ [][Next]_vars /\ WF_vars(Next)

-----------------------------------------------------------------------------
(* A kernel is entered only with all of its image in place: every page of  *)
(* every segment is where it was linked relative to the first, nothing     *)
(* read later overwrote it, and its memory, bss and room for boot infos    *)
(* included, is claimed in its name.                                       *)
ImageIntact ==
    pc = "kernel" =>
        \A i \in DOMAIN kernel.segs :
            LET s == kernel.segs[i]
            IN  Loadable(s) =>
                  /\ \A p \in 0 .. s.filesz - 1 : mem[Dest(s) + p] = <<"kernel", s.vaddr + p>>
                  /\ \A p \in Span(Dest(s), s.memsz) : p \in Page /\ owner[p] = "kernel"

(* The initrd a kernel is given is a prefix of the file, without gaps, in  *)
(* memory claimed for it; all of the file unless something failed or the   *)
(* memory behind a chunk was taken.  There is one exception: the driver    *)
(* answered -1 to the first read.  The kernel is then told of an initrd of *)
(* 2^32 - 1 bytes.                                                         *)
InitrdIntact ==
    pc = "kernel" /\ initrd.base # None /\ initrd.size # Huge =>
        /\ \A n \in 0 .. initrd.size - 1 :
              /\ mem[initrd.base + n] = <<"initrd", n>>
              /\ owner[initrd.base + n] = "initrd"
        /\ ~spoiled => initrd.size = rd

(* What the firmware and yaboot itself occupy is never written to, and     *)
(* never given away by a release.                                          *)
FirmwareUntouched ==
    \A p \in Page : /\ owner[p] = "firmware" <=> mem[p][1] = "firmware"
                    /\ mem[p][1] = "firmware" => mem[p][2] = p

(* A load that fails gives back all the memory it claimed and leaves no    *)
(* file open, so that another attempt finds the machine as it was (until   *)
(* a kernel has run and returned, or malloc has failed on the initrd).     *)
FailureCleansUp ==
    pc = "prompt" =>
        /\ ~isopen
        /\ ~stays => \A p \in Page : owner[p] \in {"free", "firmware"}

(* Every load ends in the kernel or back at the prompt.                    *)
LoadEnds == (pc = "ident") ~> (pc \in {"kernel", "prompt"})
=============================================================================
