------------------------------ MODULE Ext2Read ------------------------------
(***************************************************************************)
(* Reading from an ext2 file: ext2_read, read_iterator and read_dump_range *)
(* (fs_ext2.c, FAST_VERSION).  libext2fs calls the iterator once for each  *)
(* block the file has, in file order, holes left out; the iterator gathers *)
(* blocks that are contiguous on disk and reads each such range at once.   *)
(*                                                                         *)
(* A byte is the pair of the disk block it was read from and its offset    *)
(* there, or Zero.  Any read of the disk may fail.  The calls the library  *)
(* makes for indirect blocks (lg_block < 0) do nothing and are left out.   *)
(***************************************************************************)
EXTENDS Integers, Sequences

CONSTANTS
    bs,              \* the block size
    MAX_READ_RANGE,  \* blocks read at once
    Maps,            \* block maps: logical block -> disk block, 0 for a hole
    MaxPos, MaxSize, \* bounds: position and length of a read
    MaxFaults        \* bound: disk reads that fail

ASSUME ReadAssumption ==
    /\ bs \in Nat \ {0} /\ MAX_READ_RANGE \in Nat \ {0}
    /\ MaxPos \in Nat /\ MaxSize \in Nat /\ MaxFaults \in Nat
    /\ \A m \in Maps : m \in Seq(Nat)

VARIABLES
    map,      \* the file: map[i + 1] is the disk block of logical block i
    pc,       \* "idle", "iterate", "final" or "done"
    next,     \* the logical block the library looks at next
    rd,       \* the read_* statics, file->pos and the caller's buffer
    from,     \* history: file->pos when ext2_read was called
    size,     \* the size it was called with
    faults    \* disk reads that have failed

vars == <<map, pc, next, rd, from, size, faults>>

Zero == <<0, 0>>

(* bs bytes of each of n disk blocks from b on.                            *)
Blocks(b, n) == [i \in 1 .. n * bs |-> <<b + (i - 1) \div bs, (i - 1) % bs>>]

Zeros(n) == [i \in 1 .. n |-> Zero]

MinOf(a, b) == IF a < b THEN a ELSE b

(* n bytes have been put into the caller's buffer: read_buffer, read_total *)
(* and file->pos advance and read_max shrinks together.                    *)
Deliver(r, bytes) ==
    [r EXCEPT !.buffer = @ \o bytes, !.pos = @ + Len(bytes), !.max = @ - Len(bytes)]

-----------------------------------------------------------------------------
(***************************************************************************)
(* read_dump_range.  `fail' is the disk read that fails: 0 for none, 1 for *)
(* the whole blocks, 2 for the block that is only partly wanted.           *)
(***************************************************************************)
NoRange(r) == [r EXCEPT !.range_start = 0, !.range_count = 0]

WholeBlocks(r) ==
    IF r.range_count * bs > r.max THEN r.range_count - 1 ELSE r.range_count

DumpWhole(r) ==
    LET n == WholeBlocks(r)
    IN  [Deliver(r, Blocks(r.range_start, n)) EXCEPT
            !.range_count = @ - n, !.range_start = @ + n, !.last_logical = @ + n]

DumpPart(r) ==
    IF r.max > 0 /\ r.range_count > 0
    THEN Deliver(r, SubSeq(Blocks(r.range_start, 1), 1, r.max))
    ELSE r

ReadsWhole(r) == WholeBlocks(r) > 0

ReadsPart(r) == LET w == DumpWhole(r) IN w.max > 0 /\ w.range_count > 0

(* The state after the call, and whether it told the library to stop.      *)
read_dump_range(r, fail) ==
    IF fail = 1 THEN [rd |-> r, abort |-> TRUE]
    ELSE IF fail = 2 THEN [rd |-> DumpWhole(r), abort |-> TRUE]
    ELSE LET d == NoRange(DumpPart(DumpWhole(r)))
         IN  [rd |-> d, abort |-> d.max = 0]

(***************************************************************************)
(* read_iterator for disk block b at logical block lg, step by step: each  *)
(* returns the new state and whether to stop.                              *)
(***************************************************************************)
(* Mutant: only the disk blocks have to be adjacent.                       *)
InRangePhysical(r, b, lg) ==
    /\ r.range_start # 0 /\ r.range_count < MAX_READ_RANGE
    /\ b = r.range_start + r.range_count

InRange(r, b, lg) ==
    /\ r.range_start # 0 /\ r.range_count < MAX_READ_RANGE
    /\ b = r.range_start + r.range_count
    /\ lg = r.last_logical + r.range_count

(* Zeros up to the block boundary if the position is inside a block.       *)
FillBlock(r) ==
    IF r.pos % bs = 0 THEN r
    ELSE [Deliver(r, Zeros(MinOf(bs - (r.pos % bs), r.max)))
            EXCEPT !.last_logical = r.last_logical + 1]

(* Zeros for every whole block before lg.                                  *)
FillBlocks(r, lg) ==
    LET n == MinOf((lg - r.last_logical) * bs, r.max)
        r2 == Deliver(r, Zeros(n))
    IN  IF r2.max = 0 THEN r2 ELSE [r2 EXCEPT !.last_logical = lg]

(* A hole before lg.                                                       *)
FillHole(r, lg) ==
    IF lg = 0 \/ lg = r.last_logical
    THEN r
    ELSE LET r1 == FillBlock(r) IN IF r1.max = 0 THEN r1 ELSE FillBlocks(r1, lg)

(* The hole used up the bytes that were wanted.                            *)
HoleEnds(r, lg) == lg # 0 /\ lg # r.last_logical /\ FillHole(r, lg).max = 0

Unaligned(r, b, lg) ==
    LET off == r.pos % bs
        n == MinOf(bs - off, r.max)
    IN  [Deliver(r, SubSeq(Blocks(b, 1), off + 1, off + n))
            EXCEPT !.last_logical = lg + 1]

NewRange(r, b) == [r EXCEPT !.range_start = b, !.range_count = 1]

(* What follows once no earlier range is pending.                          *)
StartBlock(r, b, lg, fail) ==
    LET h == FillHole(r, lg)
    IN  IF HoleEnds(r, lg) \/ (h.pos % bs # 0 /\ fail = 3)
        THEN [rd |-> h, abort |-> TRUE]
        ELSE IF h.pos % bs # 0
        THEN LET u == Unaligned(h, b, lg) IN [rd |-> u, abort |-> u.max = 0]
        ELSE [rd |-> NewRange(h, b), abort |-> bs >= h.max]

read_iterator(r, b, lg, fail) ==
    IF lg < r.pos \div bs
    THEN [rd |-> r, abort |-> FALSE]
    ELSE IF InRange(r, b, lg)
    THEN [rd |-> [r EXCEPT !.range_count = @ + 1],
          abort |-> (r.range_count + 1) * bs >= r.max]
    ELSE LET d == IF r.range_start # 0 THEN read_dump_range(r, fail)
                  ELSE [rd |-> r, abort |-> FALSE]
         IN  IF d.abort THEN d ELSE StartBlock(d.rd, b, lg, fail)

(* Which of the disk reads a call would make can fail: 1 and 2 are those   *)
(* of read_dump_range, 3 is the block of an unaligned start.               *)
Failures(r, b, lg) ==
    LET dumps == lg >= r.pos \div bs /\ ~InRange(r, b, lg) /\ r.range_start # 0
        idle == lg >= r.pos \div bs /\ r.range_start = 0
    IN  {0} \cup (IF dumps /\ ReadsWhole(r) THEN {1} ELSE {})
            \cup (IF dumps /\ ReadsPart(r) THEN {2} ELSE {})
            \cup (IF idle /\ FillHole(r, lg).pos % bs # 0
                     /\ ~HoleEnds(r, lg) THEN {3} ELSE {})

Count(f) == IF f = 0 THEN 0 ELSE 1

-----------------------------------------------------------------------------
Init ==
    /\ map \in Maps
    /\ pc = "idle" /\ next = 0
    /\ from \in 0 .. MaxPos /\ size \in 0 .. MaxSize
    /\ rd = [range_start |-> 0, range_count |-> 0, last_logical |-> 0, max |-> 0,
             pos |-> from, buffer |-> <<>>]
    /\ faults = 0

(* ext2_read up to the call of ext2fs_block_iterate.                       *)
ext2_read ==
    /\ pc = "idle"
    /\ rd' = [rd EXCEPT !.range_start = 0, !.range_count = 0, !.buffer = <<>>,
                        !.last_logical = rd.pos \div bs, !.max = size]
    /\ pc' = "iterate" /\ next' = 0
    /\ UNCHANGED <<map, from, size, faults>>

(* The library skips a hole.                                               *)
SkipHole ==
    /\ pc = "iterate" /\ next < Len(map) /\ map[next + 1] = 0
    /\ next' = next + 1
    /\ UNCHANGED <<map, pc, rd, from, size, faults>>

(* The library calls the iterator.                                         *)
Iterate ==
    /\ pc = "iterate" /\ next < Len(map) /\ map[next + 1] # 0
    /\ \E fail \in Failures(rd, map[next + 1], next) :
          /\ faults + Count(fail) <= MaxFaults
          /\ faults' = faults + Count(fail)
          /\ LET step == read_iterator(rd, map[next + 1], next, fail)
             IN  /\ rd' = step.rd
                 /\ pc' = IF step.abort THEN "final" ELSE pc
    /\ next' = next + 1
    /\ UNCHANGED <<map, from, size>>

IterateEnds ==
    /\ pc = "iterate" /\ next = Len(map)
    /\ pc' = "final"
    /\ UNCHANGED <<map, next, rd, from, size, faults>>

(* The library cannot read a block of the map: it returns an error, and    *)
(* what is pending stays unread.                                           *)
IterateFails ==
    /\ pc = "iterate" /\ next < Len(map)
    /\ faults < MaxFaults /\ faults' = faults + 1
    /\ pc' = "done"
    /\ UNCHANGED <<map, next, rd, from, size>>

(* Mutant: the pending range is forgotten.                                 *)
FinalDrops ==
    /\ pc = "final"
    /\ pc' = "done"
    /\ UNCHANGED <<map, next, rd, from, size, faults>>

(* Mutant: ext2_read insists on as many bytes as were asked for.           *)
FinalInsists ==
    /\ pc = "final"
    /\ rd' = IF rd.range_start = 0 THEN rd ELSE read_dump_range(rd, 0).rd
    /\ pc' = IF rd'.max = 0 THEN "done" ELSE "final"
    /\ UNCHANGED <<map, next, from, size, faults>>

(* Back in ext2_read: a range that is still pending is read now.  An       *)
(* aborted iteration reports no error, so this also retries a read that    *)
(* has just failed.                                                        *)
Final ==
    /\ pc = "final"
    /\ pc' = "done"
    /\ IF rd.range_start = 0
       THEN UNCHANGED <<rd, faults>>
       ELSE \E fail \in {0} \cup (IF ReadsWhole(rd) THEN {1} ELSE {})
                            \cup (IF ReadsPart(rd) THEN {2} ELSE {}) :
               /\ faults + Count(fail) <= MaxFaults
               /\ faults' = faults + Count(fail)
               /\ rd' = read_dump_range(rd, fail).rd
    /\ UNCHANGED <<map, next, from, size>>

Done == pc = "done" /\ UNCHANGED vars

Next == ext2_read \/ SkipHole \/ Iterate \/ IterateEnds \/ IterateFails \/ Final \/ Done

Spec == Init /\ [][Next]_vars /\ WF_vars(Next)

-----------------------------------------------------------------------------
(* What the file holds at byte p.                                          *)
Content(p) ==
    LET lg == p \div bs
    IN  IF lg < Len(map) /\ map[lg + 1] # 0 THEN <<map[lg + 1], p % bs>> ELSE Zero

(* The end of the last block the file has.                                 *)
Mapped ==
    LET last == {m \in DOMAIN map : map[m] # 0 /\ \A i \in DOMAIN map : map[i] # 0 => i <= m}
    IN  IF last = {} THEN 0 ELSE (CHOOSE m \in last : TRUE) * bs

(* At every moment, whatever the layout and whichever disk read has just   *)
(* failed, the buffer holds exactly the bytes of the file from the         *)
(* starting position on: none skipped, repeated or misplaced, holes zero.  *)
DeliversContent ==
    \A i \in 1 .. Len(rd.buffer) : rd.buffer[i] = Content(from + i - 1)

(* ext2_read keeps the promise of FileReader: the caller's buffer is never *)
(* overrun, file->pos advances by what was delivered, also when a disk     *)
(* read fails, and on a healthy disk the coalescing and the early aborts   *)
(* of the iteration lose nothing of what the file has blocks for.          *)
Reader == INSTANCE FileReader WITH
    file <- [i \in 1 .. Mapped |-> Content(i - 1)], pos <- rd.pos,
    state <- IF pc \in {"iterate", "final"} THEN "reading" ELSE "idle",
    want <- size, got <- rd.buffer, sick <- faults > 0, sparse <- FALSE

ImplementsReader == Reader!Spec

(* ext2_read returns.                                                      *)
ReadReturns == <>(pc = "done")
=============================================================================
