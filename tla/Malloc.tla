------------------------------- MODULE Malloc -------------------------------
(***************************************************************************)
(* The bump allocator of lib/malloc.c: one arena, claimed from Open        *)
(* Firmware by yaboot_start, one pointer that only moves back when the     *)
(* most recent block is freed.                                             *)
(*                                                                         *)
(* Addresses are naturals and pointer arithmetic wraps at AddrSpace (2^32  *)
(* on the 32-bit PowerPC yaboot is built for).  `live', `kept' and `wrote' *)
(* are history variables: the blocks the callers own, those of them that a *)
(* release() promises to keep, and the bytes the last call stored to.      *)
(*                                                                         *)
(* The callers are yaboot and libext2fs.  They free and realloc only       *)
(* blocks they own, and hand NULL to realloc() or free() only once some    *)
(* block has been allocated (see the README for what happens otherwise).   *)
(***************************************************************************)
EXTENDS Integers, FiniteSets

CONSTANTS
    Bottom,     \* the address prom_claim_chunk_top gave for the arena
    Size,       \* MALLOCSIZE
    Sizes,      \* the request sizes the callers use
    Aligns,     \* the alignments libext2fs asks posix_memalign for
    AddrSpace   \* 2^32: addresses and size_t wrap here

(* The arena is word aligned and above the NULL page, and no request is so *)
(* large that the bounds checks themselves wrap around.                    *)
ASSUME ArenaAssumption ==
    /\ Bottom \in Nat /\ Size \in Nat /\ AddrSpace \in Nat
    /\ Bottom > 4 /\ Bottom % 4 = 0

ASSUME RequestAssumption ==
    /\ Sizes \subseteq Nat
    /\ Aligns \subseteq Nat
    /\ \A s \in Sizes, a \in Aligns \cup {4} :
          Bottom + Size + s + a + 16 < AddrSpace

VARIABLES
    malloc_ptr,   \* static char *malloc_ptr: where the next header goes
    last_alloc,   \* static char *last_alloc: the block handed out last
    live,         \* blocks the callers own: address -> size
    marked,       \* what mark() stored in the caller's variable, or NULL
    kept,         \* blocks allocated and last resized before that mark
    wrote         \* <<lo, hi>>: the last call stored to lo .. hi - 1

heap_vars == <<malloc_ptr, last_alloc, live, marked, kept, wrote>>

NULL == 0
Header == 4                     \* sizeof(int)
PtrSize == 4                    \* sizeof(void *)

malloc_top == Bottom + Size

Wrap(a) == a % AddrSpace

(* (x + a - 1) & ~(a - 1), for a power of two a.                           *)
AlignUp(x, a) == x + ((-x) % a)

PowerOfTwo(a) == \E k \in 0 .. a : a = 2 ^ k

MaxOf(a, b) == IF a > b THEN a ELSE b

Owned == DOMAIN live

(* The byte ranges, header included, that belong to block b of size s.     *)
Apart(b, s, c, t) == b + s <= c - Header \/ c + t <= b - Header

Without(f, b) == [c \in DOMAIN f \ {b} |-> f[c]]

With(f, b, s) == [c \in DOMAIN f \cup {b} |-> IF c = b THEN s ELSE f[c]]

TypeOK ==
    /\ malloc_ptr \in Nat /\ last_alloc \in Nat /\ marked \in Nat
    /\ Owned \subseteq Nat \ {NULL} /\ live \in [Owned -> Nat]
    /\ kept \subseteq Owned
    /\ wrote \in Nat \X Nat

(* malloc_init, as yaboot_start calls it before anything can allocate.     *)
malloc_init ==
    /\ malloc_ptr = Bottom
    /\ last_alloc = NULL
    /\ live = [b \in {} |-> 0]
    /\ marked = NULL /\ kept = {}
    /\ wrote = <<0, 0>>

(***************************************************************************)
(* Allocation.  Fits and Place are shared by malloc and the path of        *)
(* realloc that moves a block.                                             *)
(***************************************************************************)
(* Mutant: the bounds check forgets the header.                            *)
FitsNoHeader(size) == Wrap(malloc_ptr + size) <= malloc_top

Fits(size) == Wrap(malloc_ptr + size + Header) <= malloc_top

(* Mutant: the pointer is advanced by the size alone.                      *)
PlaceNoHeader(size) ==
    /\ malloc_ptr' = AlignUp(Wrap(malloc_ptr + size), 4)
    /\ last_alloc' = malloc_ptr + Header

Place(size) ==
    /\ malloc_ptr' = AlignUp(Wrap(malloc_ptr + size + Header), 4)
    /\ last_alloc' = malloc_ptr + Header

malloc(size) ==
    \/ /\ malloc_ptr # NULL /\ Fits(size)
       /\ Place(size)
       /\ live' = With(live, malloc_ptr + Header, size)
       /\ wrote' = <<malloc_ptr, malloc_ptr + Header + size>>
       /\ UNCHANGED <<marked, kept>>
    \/ /\ malloc_ptr = NULL \/ ~Fits(size)
       /\ wrote' = <<0, 0>>
       /\ UNCHANGED <<malloc_ptr, last_alloc, live, marked, kept>>

(* posix_memalign for the alignments and sizes it accepts; every refusal   *)
(* (EINVAL, ENOMEM) and the zero size leave the allocator as it was.       *)
posix_memalign(alignment, size) ==
    LET al == MaxOf(alignment, PtrSize)
        valid == al % PtrSize = 0 /\ PowerOfTwo(al)
        caddr == AlignUp(malloc_ptr + Header, al)
        fits == Wrap(caddr + size) <= malloc_top
        done == malloc_ptr # NULL /\ valid /\ size # 0 /\ fits
    IN  \/ /\ done
           /\ malloc_ptr' = AlignUp(caddr + size, 4)
           /\ last_alloc' = caddr
           /\ live' = With(live, caddr, size)
           /\ wrote' = <<caddr - Header, caddr + size>>
           /\ UNCHANGED <<marked, kept>>
        \/ /\ ~done
           /\ wrote' = <<0, 0>>
           /\ UNCHANGED <<malloc_ptr, last_alloc, live, marked, kept>>

(* Mutant: a NULL block is resized "in place" as well.                     *)
reallocNullInPlace(p, size) ==
    /\ malloc_ptr # NULL /\ p \in {last_alloc, NULL}
    /\ Wrap(p + size) <= malloc_top
    /\ malloc_ptr' = p + size
    /\ live' = With(live, p, size)
    /\ kept' = kept \ {p}
    /\ wrote' = <<p - Header, p>>
    /\ UNCHANGED <<last_alloc, marked>>

(* realloc of the newest block resizes it in place and leaves malloc_ptr   *)
(* unaligned; of any other block it allocates, copies the OLD size bytes,  *)
(* and never gives the old block back to the arena.                        *)
realloc(p, size) ==
    \/ /\ malloc_ptr # NULL /\ p = last_alloc
       /\ Wrap(p + size) <= malloc_top
       /\ malloc_ptr' = p + size
       /\ live' = With(live, p, size)
       /\ kept' = kept \ {p}
       /\ wrote' = <<p - Header, p>>
       /\ UNCHANGED <<last_alloc, marked>>
    \/ /\ malloc_ptr # NULL /\ p # last_alloc /\ Fits(size)
       /\ Place(size)
       /\ live' = With(Without(live, p), malloc_ptr + Header, size)
       /\ kept' = kept \ {p}
       /\ wrote' = <<malloc_ptr,
                     malloc_ptr + Header +
                        MaxOf(size, IF p = NULL THEN 0 ELSE live[p])>>
       /\ UNCHANGED marked
    \/ /\ malloc_ptr = NULL
          \/ (p = last_alloc /\ Wrap(p + size) > malloc_top)
          \/ (p # last_alloc /\ ~Fits(size))
       /\ wrote' = <<0, 0>>
       /\ UNCHANGED <<malloc_ptr, last_alloc, live, marked, kept>>

(* Mutant: free moves the pointer back to whatever block it is given.      *)
freeAny(m) ==
    /\ malloc_ptr' = IF malloc_ptr # NULL THEN m - Header ELSE malloc_ptr
    /\ live' = Without(live, m)
    /\ kept' = kept \ {m}
    /\ wrote' = <<0, 0>>
    /\ UNCHANGED <<last_alloc, marked>>

(* free reclaims nothing but the newest block.                             *)
free(m) ==
    /\ malloc_ptr' = IF malloc_ptr # NULL /\ m = last_alloc
                     THEN last_alloc - Header ELSE malloc_ptr
    /\ live' = Without(live, m)
    /\ kept' = kept \ {m}
    /\ wrote' = <<0, 0>>
    /\ UNCHANGED <<last_alloc, marked>>

mark ==
    /\ malloc_ptr # NULL
    /\ marked' = malloc_ptr
    /\ kept' = Owned
    /\ wrote' = <<0, 0>>
    /\ UNCHANGED <<malloc_ptr, last_alloc, live>>

(* release winds the pointer back to the mark; its caller gives up every   *)
(* block allocated or resized since.                                       *)
release ==
    /\ malloc_ptr # NULL /\ marked # NULL
    /\ malloc_ptr' = marked
    /\ live' = [b \in kept |-> live[b]]
    /\ wrote' = <<0, 0>>
    /\ UNCHANGED <<last_alloc, marked, kept>>

(* yaboot_start drops the pool after yaboot_main has returned.             *)
malloc_dispose ==
    /\ malloc_ptr' = NULL
    /\ last_alloc' = NULL
    /\ live' = [b \in {} |-> 0]
    /\ marked' = NULL /\ kept' = {}
    /\ wrote' = <<0, 0>>

Mallocs == \E s \in Sizes : malloc(s)

Memaligns == \E a \in Aligns, s \in Sizes : posix_memalign(a, s)

Reallocs == \E p \in Owned \cup {NULL}, s \in Sizes :
                /\ p = NULL => last_alloc # NULL
                /\ realloc(p, s)

Frees == \E m \in Owned : free(m)

HeapNext ==
    \/ Mallocs \/ Memaligns \/ Reallocs \/ Frees
    \/ mark \/ release \/ malloc_dispose

HeapSpec == malloc_init /\ [][HeapNext]_heap_vars

-----------------------------------------------------------------------------
(* No two blocks the callers own overlap, headers included, whatever       *)
(* mixture of malloc, posix_memalign, realloc, free and release led here.  *)
BlocksDisjoint ==
    \A b, c \in Owned : b # c => Apart(b, live[b], c, live[c])

(* Every block, with its header, lies inside the arena yaboot_start        *)
(* claimed.                                                                *)
BlocksInArena ==
    \A b \in Owned : Bottom <= b - Header /\ b + live[b] <= malloc_top

(* A call stores only to the block it returns or to memory nobody owns:    *)
(* in particular realloc's copy of the old size, which overruns a smaller  *)
(* new block, never reaches another block or its header.                   *)
NoClobber ==
    \A b \in Owned \ {last_alloc} :
        wrote[2] <= b - Header \/ b + live[b] <= wrote[1]

-----------------------------------------------------------------------------
(* The pieces of the inductive invariant.                                  *)
PtrInArena ==
    malloc_ptr # NULL =>
        /\ Bottom <= malloc_ptr /\ malloc_ptr <= malloc_top + 3

(* All that is owned lies below the bump pointer ...                       *)
OwnedBelowPtr ==
    \A b \in Owned : malloc_ptr # NULL /\ b + live[b] <= malloc_ptr

(* ... and, but for last_alloc itself, below the header of last_alloc,     *)
(* which is where free(last_alloc) moves the pointer back to.              *)
OwnedBelowLast ==
    \A b \in Owned \ {last_alloc} : b + live[b] <= last_alloc - Header

LastInArena ==
    last_alloc # NULL =>
        Bottom <= last_alloc - Header /\ last_alloc <= malloc_top

KeptBelowMark ==
    /\ \A b \in kept : b + live[b] <= marked
    /\ marked # NULL => Bottom <= marked /\ marked <= malloc_top + 3

IInv ==
    /\ TypeOK /\ PtrInArena /\ LastInArena
    /\ OwnedBelowPtr /\ OwnedBelowLast /\ KeptBelowMark
    /\ BlocksDisjoint /\ BlocksInArena /\ NoClobber
=============================================================================
