---------------------------- MODULE MemoryProofs ----------------------------
(***************************************************************************)
(* Memory: what the allocator of lib/malloc.c hands out, and what the      *)
(* loaders of yaboot.c claim from the firmware.                            *)
(***************************************************************************)
EXTENDS Malloc, KernelLoad, TLAPS

(***************************************************************************)
(* Malloc.  For every arena, every set of request sizes and alignments     *)
(* that does not wrap the address space, and every sequence of calls: the  *)
(* blocks the callers own are disjoint, inside the arena, and never stored *)
(* to by a call about another block.                                       *)
(***************************************************************************)
(* Aligning an address (malloc.c:63, 91-94, 104) never lowers it and adds  *)
(* less than the alignment.                                                *)
LEMMA AlignUpBounds ==
    ASSUME NEW x \in Nat, NEW a \in Nat, a > 0
    PROVE  /\ AlignUp(x, a) \in Nat
           /\ x <= AlignUp(x, a)
           /\ AlignUp(x, a) < x + a
<1>1. (-x) % a \in 0 .. (a - 1)
  OBVIOUS
<1>2. QED
  BY <1>1 DEF AlignUp

(* Below the end of the address space pointer arithmetic does not wrap.    *)
LEMMA WrapBelow ==
    ASSUME NEW x \in Nat, x < AddrSpace
    PROVE  Wrap(x) = x
BY ArenaAssumption DEF Wrap

(* Rounding up to a word adds at most three bytes.                         *)
LEMMA AlignUp4 ==
    ASSUME NEW x \in Nat
    PROVE  /\ AlignUp(x, 4) \in Nat /\ x <= AlignUp(x, 4)
           /\ AlignUp(x, 4) <= x + 3
<1>1. AlignUp(x, 4) < x + 4 /\ AlignUp(x, 4) \in Nat /\ x <= AlignUp(x, 4)
  BY AlignUpBounds
<1>2. QED
  BY <1>1

(* What a block placed at the bump pointer must satisfy for the invariant  *)
(* to survive: shared by malloc, posix_memalign and the moving realloc.    *)
LEMMA NewBlock ==
    ASSUME IInv, malloc_ptr # NULL,
           NEW base, NEW b \in Nat, NEW s \in Nat,
           NEW hi \in Nat,
           DOMAIN base \subseteq Owned,
           \A c \in DOMAIN base : base[c] = live[c],
           kept' = kept \cap DOMAIN base, marked' = marked,
           malloc_ptr + Header <= b, b + s <= malloc_top,
           live' = With(base, b, s),
           last_alloc' = b,
           malloc_ptr' \in Nat, b + s <= malloc_ptr', malloc_ptr' <= malloc_top + 3,
           wrote' = <<b - Header, hi>>
    PROVE  IInv'
<1> USE DEF Header, NULL, malloc_top, Owned
<1>0. /\ TypeOK /\ PtrInArena /\ OwnedBelowPtr /\ OwnedBelowLast /\ KeptBelowMark
      /\ BlocksDisjoint /\ BlocksInArena /\ LastInArena
      /\ Bottom \in Nat /\ Bottom > 4 /\ Size \in Nat
  BY ArenaAssumption DEF IInv
<1>1. /\ DOMAIN base \subseteq Owned
      /\ \A c \in DOMAIN base : base[c] = live[c]
  OBVIOUS
<1>2. /\ Owned' = DOMAIN base \cup {b}
      /\ live'[b] = s
      /\ \A c \in DOMAIN base : c # b => live'[c] = live[c]
  BY <1>1 DEF With
<1>3. \A c \in DOMAIN base : c \in Nat /\ c # NULL /\ live[c] \in Nat /\ c + live[c] <= malloc_ptr
  BY <1>0, <1>1 DEF TypeOK, OwnedBelowPtr
<1>4. malloc_ptr \in Nat /\ Bottom <= malloc_ptr /\ b > 4 /\ \A c \in DOMAIN base : c # b
  BY <1>0, <1>3 DEF TypeOK, PtrInArena
<1>5. TypeOK'
  <2>1. live' \in [Owned' -> Nat]
    BY <1>2, <1>3, <1>4 DEF With
  <2>2. Owned' \subseteq Nat \ {NULL} /\ kept' \subseteq Owned'
    BY <1>2, <1>3, <1>4
  <2>3. wrote' \in Nat \X Nat
    BY <1>4
  <2>4. QED
    BY <2>1, <2>2, <2>3, <1>0 DEF TypeOK
<1>6. PtrInArena' /\ LastInArena'
  BY <1>0, <1>4 DEF PtrInArena, LastInArena
<1>7. OwnedBelowPtr' /\ OwnedBelowLast' /\ BlocksInArena'
  BY <1>0, <1>1, <1>2, <1>3, <1>4 DEF OwnedBelowPtr, OwnedBelowLast, BlocksInArena
<1>8. KeptBelowMark'
  BY <1>0, <1>1, <1>2, <1>3, <1>4 DEF KeptBelowMark, TypeOK
<1>9. BlocksDisjoint'
  BY <1>0, <1>1, <1>2, <1>3, <1>4 DEF BlocksDisjoint, Apart
<1>10. NoClobber'
  BY <1>0, <1>1, <1>2, <1>3, <1>4 DEF NoClobber
<1>11. QED
  BY <1>5, <1>6, <1>7, <1>8, <1>9, <1>10 DEF IInv

(* The arena malloc_init sets up satisfies the invariant.                  *)
LEMMA InvInit == malloc_init => IInv
BY ArenaAssumption DEF malloc_init, IInv, TypeOK, PtrInArena, LastInArena, OwnedBelowPtr,
   OwnedBelowLast, KeptBelowMark, BlocksDisjoint, BlocksInArena, NoClobber, Owned,
   NULL, malloc_top, Header

(* A call that fails stores nothing and leaves the allocator alone.        *)
LEMMA NothingStored ==
    ASSUME IInv, wrote' = <<0, 0>>,
           UNCHANGED <<malloc_ptr, last_alloc, live, marked, kept>>
    PROVE  IInv'
<1>1. \A b \in Owned : Bottom <= b - Header /\ b \in Nat
  BY DEF IInv, BlocksInArena, TypeOK
<1>2. NoClobber'
  BY <1>1, ArenaAssumption DEF NoClobber, Owned, Header
<1>3. QED
  BY <1>2 DEF IInv, TypeOK, PtrInArena, LastInArena, OwnedBelowPtr,
     OwnedBelowLast, KeptBelowMark, BlocksDisjoint, BlocksInArena, Owned,
     NULL, malloc_top, Header, Apart

(* malloc preserves the invariant, whether or not the request fits.        *)
LEMMA MallocStep == ASSUME IInv, NEW s \in Sizes, malloc(s) PROVE IInv'
<1>0. /\ malloc_ptr \in Nat /\ s \in Nat
      /\ malloc_ptr # NULL => malloc_ptr <= malloc_top + 3
      /\ Bottom \in Nat /\ Size \in Nat /\ AddrSpace \in Nat
      /\ malloc_top = Bottom + Size
      /\ malloc_top + s + 20 < AddrSpace
      /\ kept \subseteq Owned
  BY ArenaAssumption, RequestAssumption DEF IInv, TypeOK, PtrInArena, malloc_top
<1>1. CASE malloc_ptr # NULL /\ Fits(s) /\ Place(s)
           /\ live' = With(live, malloc_ptr + Header, s)
           /\ wrote' = <<malloc_ptr, malloc_ptr + Header + s>>
           /\ UNCHANGED <<marked, kept>>
  <2> DEFINE b == malloc_ptr + Header
             n == malloc_ptr + s + Header
  <2>1. n \in Nat /\ n < AddrSpace /\ b \in Nat /\ n = b + s
    BY <1>0, <1>1 DEF Header, NULL
  <2>2. n <= malloc_top /\ malloc_ptr' = AlignUp(n, 4)
    BY <2>1, <1>1, WrapBelow DEF Fits, Place
  <2>3. malloc_ptr' \in Nat /\ n <= malloc_ptr' /\ malloc_ptr' <= n + 3
    BY <2>1, <2>2, AlignUp4
  <2>4. b - Header = malloc_ptr /\ b + s \in Nat /\ malloc_ptr' <= malloc_top + 3
    BY <2>1, <2>2, <2>3, <1>0 DEF Header
  <2>5. wrote' = <<b - Header, b + s>> /\ last_alloc' = b /\ live' = With(live, b, s)
        /\ kept' = kept \cap DOMAIN live /\ marked' = marked
    BY <2>4, <1>0, <1>1 DEF Place, Owned
  <2>6. b + s <= malloc_top /\ b + s <= malloc_ptr' /\ malloc_ptr + Header <= b
    BY <2>1, <2>2, <2>3
  <2> HIDE DEF b, n
  <2>7. QED
    BY <2>1, <2>3, <2>4, <2>5, <2>6, <1>0, <1>1, NewBlock DEF Owned
<1>2. CASE wrote' = <<0, 0>> /\ UNCHANGED <<malloc_ptr, last_alloc, live, marked, kept>>
  BY <1>2, NothingStored
<1>3. QED
  BY <1>1, <1>2 DEF malloc

(* So does posix_memalign, for valid and invalid alignments.               *)
LEMMA MemalignStep ==
    ASSUME IInv, NEW a \in Aligns, NEW s \in Sizes, posix_memalign(a, s)
    PROVE  IInv'
<1> DEFINE al == MaxOf(a, PtrSize)
           caddr == AlignUp(malloc_ptr + Header, al)
<1>0. /\ malloc_ptr \in Nat /\ s \in Nat /\ a \in Nat
      /\ malloc_ptr # NULL => malloc_ptr <= malloc_top + 3
      /\ Bottom \in Nat /\ Size \in Nat /\ AddrSpace \in Nat
      /\ malloc_top = Bottom + Size
      /\ malloc_top + s + 20 < AddrSpace /\ malloc_top + s + a + 16 < AddrSpace
      /\ kept \subseteq Owned
  BY ArenaAssumption, RequestAssumption DEF IInv, TypeOK, PtrInArena, malloc_top
<1>1. al \in Nat /\ al > 0 /\ malloc_top + s + al + 16 < AddrSpace
  BY <1>0 DEF MaxOf, PtrSize
<1> HIDE DEF al
<1>2. /\ caddr \in Nat /\ malloc_ptr + Header <= caddr
      /\ caddr < malloc_ptr + Header + al
  <2>1. malloc_ptr + Header \in Nat
    BY <1>0 DEF Header
  <2>2. QED
    BY <2>1, <1>1, AlignUpBounds
<1> HIDE DEF caddr
<1>3. CASE /\ malloc_ptr # NULL /\ Wrap(caddr + s) <= malloc_top
           /\ malloc_ptr' = AlignUp(caddr + s, 4)
           /\ last_alloc' = caddr
           /\ live' = With(live, caddr, s)
           /\ wrote' = <<caddr - Header, caddr + s>>
           /\ UNCHANGED <<marked, kept>>
  <2>1. caddr + s \in Nat /\ caddr + s < AddrSpace
    BY <1>0, <1>1, <1>2, <1>3 DEF Header
  <2>2. caddr + s <= malloc_top
    BY <2>1, <1>3, WrapBelow
  <2>3. /\ malloc_ptr' \in Nat /\ caddr + s <= malloc_ptr'
        /\ malloc_ptr' <= caddr + s + 3
    BY <2>1, <1>3, AlignUp4
  <2>4. malloc_ptr' <= malloc_top + 3 /\ kept' = kept \cap DOMAIN live
    BY <2>1, <2>2, <2>3, <1>0, <1>3 DEF Owned
  <2>5. QED
    BY <2>1, <2>2, <2>3, <2>4, <1>0, <1>2, <1>3, NewBlock DEF Owned
<1>4. CASE wrote' = <<0, 0>> /\ UNCHANGED <<malloc_ptr, last_alloc, live, marked, kept>>
  BY <1>4, NothingStored
<1>5. QED
  BY <1>3, <1>4 DEF posix_memalign, al, caddr

(* Resizing the newest block in place: nothing owned lies above it.        *)
LEMMA ResizeStep ==
    ASSUME IInv, NEW p \in Owned, NEW s \in Sizes, malloc_ptr # NULL,
           p = last_alloc, Wrap(p + s) <= malloc_top,
           malloc_ptr' = p + s, live' = With(live, p, s), kept' = kept \ {p},
           wrote' = <<p - Header, p>>, UNCHANGED <<last_alloc, marked>>
    PROVE  IInv'
<1> USE DEF Header, NULL, Owned
<1>0. /\ TypeOK /\ OwnedBelowLast /\ KeptBelowMark /\ LastInArena
      /\ BlocksDisjoint /\ BlocksInArena
      /\ p \in Nat /\ p # 0
  BY DEF IInv, TypeOK
<1>a. /\ Bottom \in Nat /\ Bottom > 4 /\ malloc_top = Bottom + Size
      /\ malloc_top \in Nat /\ s \in Nat /\ malloc_top + s + 20 < AddrSpace
  BY ArenaAssumption, RequestAssumption DEF malloc_top
<1>b. p <= malloc_top /\ Bottom <= p - 4
  BY <1>0 DEF LastInArena
<1>1. p + s <= malloc_top
  <2>1. p + s \in Nat /\ p + s < AddrSpace
    BY <1>0, <1>a, <1>b, ArenaAssumption
  <2>2. QED
    BY <2>1, WrapBelow
<1>2. /\ DOMAIN live' = DOMAIN live /\ live'[p] = s
      /\ \A c \in DOMAIN live : c # p => live'[c] = live[c]
  BY DEF With
<1>3. \A c \in DOMAIN live : c \in Nat /\ c # 0 /\ live[c] \in Nat
  BY <1>0 DEF TypeOK
<1>4. \A c \in DOMAIN live : c # p => c + live[c] <= p - 4
  BY <1>0 DEF OwnedBelowLast
<1>5. TypeOK'
  <2>1. live' \in [DOMAIN live' -> Nat]
    BY <1>0, <1>a, <1>2, <1>3 DEF With
  <2>2. kept' \subseteq DOMAIN live' /\ DOMAIN live' \subseteq Nat \ {0}
    BY <1>0, <1>2, <1>3 DEF TypeOK
  <2>3. wrote' \in Nat \X Nat /\ malloc_ptr' \in Nat
    BY <1>0, <1>a, <1>b
  <2>4. QED
    BY <2>1, <2>2, <2>3, <1>0 DEF TypeOK
<1>6. malloc_top' = malloc_top
  BY DEF malloc_top
<1>7. PtrInArena' /\ LastInArena' /\ OwnedBelowPtr' /\ OwnedBelowLast' /\ BlocksInArena'
  BY <1>0, <1>a, <1>b, <1>1, <1>2, <1>3, <1>4, <1>6
     DEF PtrInArena, LastInArena, OwnedBelowPtr, OwnedBelowLast, BlocksInArena
<1>8. KeptBelowMark'
  BY <1>0, <1>2, <1>6 DEF KeptBelowMark, TypeOK
<1>9. BlocksDisjoint' /\ NoClobber'
  BY <1>0, <1>a, <1>b, <1>2, <1>3, <1>4 DEF BlocksDisjoint, NoClobber, Apart
<1>10. QED
  BY <1>5, <1>7, <1>8, <1>9 DEF IInv

(* So does realloc: in place, moving, of NULL, or refused.                 *)
LEMMA ReallocStep ==
    ASSUME IInv, NEW p \in Owned \cup {NULL}, NEW s \in Sizes,
           p = NULL => last_alloc # NULL, realloc(p, s)
    PROVE  IInv'
<1>0. /\ malloc_ptr \in Nat /\ s \in Nat /\ p \in Nat
      /\ p # NULL => live[p] \in Nat
      /\ malloc_ptr # NULL => malloc_ptr <= malloc_top + 3
      /\ Bottom \in Nat /\ Size \in Nat /\ AddrSpace \in Nat
      /\ malloc_top = Bottom + Size
      /\ malloc_top + s + 20 < AddrSpace
      /\ kept \subseteq Owned
  BY ArenaAssumption, RequestAssumption DEF IInv, TypeOK, PtrInArena, malloc_top, NULL
<1>1. CASE /\ malloc_ptr # NULL /\ p = last_alloc /\ Wrap(p + s) <= malloc_top
           /\ malloc_ptr' = p + s /\ live' = With(live, p, s) /\ kept' = kept \ {p}
           /\ wrote' = <<p - Header, p>> /\ UNCHANGED <<last_alloc, marked>>
  BY <1>1, ResizeStep
<1>2. CASE /\ malloc_ptr # NULL /\ p # last_alloc /\ Fits(s) /\ Place(s)
           /\ live' = With(Without(live, p), malloc_ptr + Header, s)
           /\ kept' = kept \ {p}
           /\ wrote' = <<malloc_ptr, malloc_ptr + Header +
                           MaxOf(s, IF p = NULL THEN 0 ELSE live[p])>>
           /\ UNCHANGED marked
  <2> DEFINE b == malloc_ptr + Header
             n == malloc_ptr + s + Header
             base == Without(live, p)
             hi == b + MaxOf(s, IF p = NULL THEN 0 ELSE live[p])
  <2>1. n \in Nat /\ n < AddrSpace /\ b \in Nat /\ n = b + s
    BY <1>0, <1>2 DEF Header, NULL
  <2>2. n <= malloc_top /\ malloc_ptr' = AlignUp(n, 4)
    BY <2>1, <1>2, WrapBelow DEF Fits, Place
  <2>3. malloc_ptr' \in Nat /\ n <= malloc_ptr' /\ malloc_ptr' <= n + 3
    BY <2>1, <2>2, AlignUp4
  <2>4. b - Header = malloc_ptr /\ hi \in Nat /\ malloc_ptr' <= malloc_top + 3
    BY <2>1, <2>2, <2>3, <1>0 DEF Header, MaxOf
  <2>5. /\ DOMAIN base = Owned \ {p}
        /\ \A c \in DOMAIN base : base[c] = live[c]
    BY DEF Without, Owned
  <2>6. wrote' = <<b - Header, hi>> /\ last_alloc' = b /\ live' = With(base, b, s)
        /\ kept' = kept \cap DOMAIN base /\ marked' = marked
    BY <2>4, <2>5, <1>0, <1>2 DEF Place
  <2>7. b + s <= malloc_top /\ b + s <= malloc_ptr' /\ malloc_ptr + Header <= b
    BY <2>1, <2>2, <2>3
  <2> HIDE DEF b, n, base, hi
  <2>8. QED
    BY <2>1, <2>3, <2>4, <2>5, <2>6, <2>7, <1>0, <1>2, NewBlock
<1>3. CASE wrote' = <<0, 0>> /\ UNCHANGED <<malloc_ptr, last_alloc, live, marked, kept>>
  BY <1>3, NothingStored
<1>4. QED
  BY <1>1, <1>2, <1>3 DEF realloc

(* free of any owned block, newest or not.                                 *)
LEMMA FreeStep == ASSUME IInv, NEW m \in Owned, free(m) PROVE IInv'
<1> USE DEF Header, NULL, Owned
<1>0. /\ TypeOK /\ PtrInArena /\ OwnedBelowPtr /\ OwnedBelowLast /\ KeptBelowMark
      /\ LastInArena /\ BlocksDisjoint /\ BlocksInArena
      /\ m \in Nat /\ m # 0 /\ last_alloc \in Nat /\ malloc_ptr \in Nat
  BY DEF IInv, TypeOK
<1>1. /\ DOMAIN live' = DOMAIN live \ {m}
      /\ \A c \in DOMAIN live : c # m => live'[c] = live[c]
      /\ kept' = kept \ {m} /\ wrote' = <<0, 0>>
      /\ last_alloc' = last_alloc /\ marked' = marked
  BY DEF free, Without
<1>2. \A c \in DOMAIN live : c \in Nat /\ c # 0 /\ live[c] \in Nat
  BY <1>0 DEF TypeOK
<1>3. Bottom \in Nat /\ Size \in Nat /\ malloc_top = Bottom + Size /\ malloc_top' = malloc_top
  BY ArenaAssumption DEF malloc_top
<1>4. /\ malloc_ptr' \in Nat
      /\ malloc_ptr' # 0 => Bottom <= malloc_ptr' /\ malloc_ptr' <= malloc_top + 3
      /\ \A c \in DOMAIN live' : malloc_ptr' # 0 /\ c + live[c] <= malloc_ptr'
  <2>1. CASE malloc_ptr # NULL /\ m = last_alloc
    BY <2>1, <1>0, <1>1, <1>2, <1>3, ArenaAssumption
       DEF free, LastInArena, OwnedBelowLast
  <2>2. CASE ~(malloc_ptr # NULL /\ m = last_alloc)
    BY <2>2, <1>0, <1>1, <1>2, <1>3 DEF free, PtrInArena, OwnedBelowPtr
  <2>3. QED
    BY <2>1, <2>2
<1>5. TypeOK'
  <2>1. live' \in [DOMAIN live' -> Nat]
    BY <1>2 DEF free, Without
  <2>2. QED
    BY <2>1, <1>0, <1>1, <1>2, <1>4 DEF TypeOK
<1>6. PtrInArena' /\ LastInArena' /\ OwnedBelowPtr' /\ OwnedBelowLast' /\ BlocksInArena'
  BY <1>0, <1>1, <1>3, <1>4
     DEF PtrInArena, LastInArena, OwnedBelowPtr, OwnedBelowLast, BlocksInArena
<1>7. KeptBelowMark'
  BY <1>0, <1>1, <1>3 DEF KeptBelowMark, TypeOK
<1>8. BlocksDisjoint'
  BY <1>0, <1>1 DEF BlocksDisjoint, Apart
<1>9. NoClobber'
  BY <1>0, <1>1, <1>2, <1>3 DEF NoClobber, BlocksInArena
<1>10. QED
  BY <1>5, <1>6, <1>7, <1>8, <1>9 DEF IInv

(* mark only records the bump pointer.                                     *)
LEMMA MarkStep == IInv /\ mark => IInv'
<1> SUFFICES ASSUME IInv, mark PROVE IInv'
  OBVIOUS
<1> USE DEF Header, NULL, Owned
<1>0. /\ TypeOK /\ PtrInArena /\ OwnedBelowPtr /\ BlocksInArena
      /\ Bottom \in Nat
  BY ArenaAssumption DEF IInv
<1>1. TypeOK'
  BY <1>0 DEF mark, TypeOK
<1>2. KeptBelowMark'
  BY <1>0 DEF mark, KeptBelowMark, OwnedBelowPtr, PtrInArena, malloc_top
<1>3. NoClobber'
  BY <1>0 DEF mark, NoClobber, BlocksInArena, TypeOK
<1>4. QED
  BY <1>1, <1>2, <1>3 DEF mark, IInv, PtrInArena, LastInArena, OwnedBelowPtr,
     OwnedBelowLast, BlocksDisjoint, BlocksInArena, malloc_top, Apart

(* release: what was owned at the mark lies below it.                      *)
LEMMA ReleaseStep == IInv /\ release => IInv'
<1> SUFFICES ASSUME IInv, release PROVE IInv'
  OBVIOUS
<1> USE DEF Header, NULL, Owned
<1>0. /\ TypeOK /\ LastInArena /\ OwnedBelowLast /\ KeptBelowMark
      /\ BlocksDisjoint /\ BlocksInArena /\ Bottom \in Nat
  BY ArenaAssumption DEF IInv
<1>1. /\ DOMAIN live' = kept /\ \A c \in kept : live'[c] = live[c]
      /\ malloc_ptr' = marked /\ marked # 0 /\ wrote' = <<0, 0>>
      /\ UNCHANGED <<last_alloc, marked, kept>> /\ kept \subseteq DOMAIN live
  BY <1>0 DEF release, TypeOK
<1>2. TypeOK'
  <2>1. live' \in [DOMAIN live' -> Nat]
    BY <1>0 DEF release, TypeOK
  <2>2. QED
    BY <2>1, <1>0, <1>1 DEF TypeOK
<1>3. PtrInArena' /\ LastInArena' /\ OwnedBelowPtr' /\ KeptBelowMark'
  BY <1>0, <1>1 DEF PtrInArena, LastInArena, OwnedBelowPtr, KeptBelowMark, malloc_top
<1>4. OwnedBelowLast' /\ BlocksDisjoint' /\ BlocksInArena'
  BY <1>0, <1>1 DEF OwnedBelowLast, BlocksDisjoint, BlocksInArena, malloc_top, Apart
<1>5. NoClobber'
  BY <1>0, <1>1 DEF NoClobber, BlocksInArena, TypeOK
<1>6. QED
  BY <1>2, <1>3, <1>4, <1>5 DEF IInv

(* malloc_dispose: nothing is owned any more.                              *)
LEMMA DisposeStep == IInv /\ malloc_dispose => IInv'
BY DEF malloc_dispose, IInv, TypeOK, PtrInArena, LastInArena, OwnedBelowPtr,
   OwnedBelowLast, KeptBelowMark, BlocksDisjoint, BlocksInArena, NoClobber, Owned,
   NULL

(* The invariant depends on the variables only.                            *)
LEMMA IdleStep == IInv /\ UNCHANGED heap_vars => IInv'
BY DEF heap_vars, IInv, TypeOK, PtrInArena, LastInArena, OwnedBelowPtr,
   OwnedBelowLast, KeptBelowMark, BlocksDisjoint, BlocksInArena, NoClobber, Owned,
   NULL, malloc_top, Header, Apart

(* The strengthened invariant is inductive: lib/malloc.c keeps everything  *)
(* that is owned below malloc_ptr, and all of it but the newest block      *)
(* below the header of last_alloc.                                         *)
THEOREM Invariance == HeapSpec => []IInv
<1>1. malloc_init => IInv
  BY InvInit
<1>2. IInv /\ [HeapNext]_heap_vars => IInv'
  <2> SUFFICES ASSUME IInv, [HeapNext]_heap_vars PROVE IInv'
    OBVIOUS
  <2>1. CASE Mallocs
    BY <2>1, MallocStep DEF Mallocs
  <2>2. CASE Memaligns
    BY <2>2, MemalignStep DEF Memaligns
  <2>3. CASE Reallocs
    BY <2>3, ReallocStep DEF Reallocs
  <2>4. CASE Frees
    BY <2>4, FreeStep DEF Frees
  <2>5. CASE mark
    BY <2>5, MarkStep
  <2>6. CASE release
    BY <2>6, ReleaseStep
  <2>7. CASE malloc_dispose
    BY <2>7, DisposeStep
  <2>8. CASE UNCHANGED heap_vars
    BY <2>8, IdleStep
  <2>9. QED
    BY <2>1, <2>2, <2>3, <2>4, <2>5, <2>6, <2>7, <2>8 DEF HeapNext
<1>3. QED
  BY <1>1, <1>2, PTL DEF HeapSpec

(* Type correctness of the allocator's state.                              *)
THEOREM TypeCorrect == HeapSpec => []TypeOK
<1>1. IInv => TypeOK
  BY DEF IInv
<1>2. QED
  BY <1>1, Invariance, PTL

(* No two owned blocks of lib/malloc.c ever overlap.                       *)
THEOREM NoOverlap == HeapSpec => []BlocksDisjoint
<1>1. IInv => BlocksDisjoint
  BY DEF IInv
<1>2. QED
  BY <1>1, Invariance, PTL

(* Owned blocks never leave the arena yaboot_start claimed.                *)
THEOREM InArena == HeapSpec => []BlocksInArena
<1>1. IInv => BlocksInArena
  BY DEF IInv
<1>2. QED
  BY <1>1, Invariance, PTL

(* No allocator call stores into a block it does not return.               *)
THEOREM NoStrayStore == HeapSpec => []NoClobber
<1>1. IInv => NoClobber
  BY DEF IInv
<1>2. QED
  BY <1>1, Invariance, PTL

-----------------------------------------------------------------------------
(***************************************************************************)
(* KernelLoad.  The four safety properties of loading a kernel, for any    *)
(* memory, any layout of the firmware, all well-formed images, initrds of  *)
(* any size and any number of loads and failures.                          *)
(***************************************************************************)
(***************************************************************************)
(* The inductive invariant.                                                *)
(***************************************************************************)
Loaded == {"ramdisk", "rdclaim", "rdread", "rdmore", "enter", "kernel"}

Holding == {"segments"} \cup Loaded

LoadInfo == [base : Int, memsize : Nat, offset : Nat, load_loc : Nat]

Typed ==
    /\ pc \in {"prompt", "ident", "header", "phdrs", "scan", "claim"} \cup Holding
    /\ owner \in [Page -> {"free", "firmware", "kernel", "initrd"}]
    /\ mem \in [Page -> {"firmware", "junk", "kernel", "initrd"} \X Int]
    /\ kernel \in Kernels /\ rd \in InitrdSizes \cup {NoInitrd}
    /\ li \in LoadInfo
    /\ seg \in Nat \ {0}
    /\ rdlen \in Nat \ {0} /\ rdpos \in Nat
    /\ initrd \in [base : Int, size : Nat, more : Int]

(* How far a loadable segment reaches from where the image starts.         *)
Within(s) == s.vaddr >= li.load_loc /\ s.vaddr - li.load_loc + s.memsz <= li.memsize

(* The scan has room for every segment it has seen, and keeps the first.   *)
ScanFits ==
    pc = "scan" =>
        \/ /\ li.memsize = 0
           /\ \A i \in DOMAIN kernel.segs : i < seg => ~Loadable(kernel.segs[i])
        \/ /\ li.memsize > 0
           /\ \E i \in DOMAIN kernel.segs :
                 /\ i < seg /\ Loadable(kernel.segs[i]) /\ kernel.segs[i].memsz > 0
                 /\ li.load_loc = kernel.segs[i].vaddr /\ li.offset = kernel.segs[i].off
           /\ \A i \in DOMAIN kernel.segs :
                 i < seg /\ Loadable(kernel.segs[i]) => Within(kernel.segs[i])

(* From then on the whole image fits into the memory that is claimed ...   *)
ImageFits ==
    pc \in {"claim"} \cup Holding =>
        \A i \in DOMAIN kernel.segs : Loadable(kernel.segs[i]) => Within(kernel.segs[i])

(* ... and that memory is the kernel's.                                    *)
KernelHeld ==
    pc \in Holding =>
        /\ li.base \in Nat
        /\ \A p \in Span(li.base, li.memsize) : p \in Page /\ owner[p] = "kernel"

(* The segments dealt with are in place.                                   *)
InPlace(s) == \A p \in 0 .. s.filesz - 1 : mem[Dest(s) + p] = <<"kernel", s.vaddr + p>>

SegmentsInPlace ==
    /\ pc = "segments" =>
          \A i \in DOMAIN kernel.segs :
              i < seg /\ Loadable(kernel.segs[i]) => InPlace(kernel.segs[i])
    /\ pc \in Loaded =>
          \A i \in DOMAIN kernel.segs : Loadable(kernel.segs[i]) => InPlace(kernel.segs[i])

(* The initrd read so far is the start of the file, in one piece; while it *)
(* is being read, the next chunk is claimed behind it.                     *)
RdInPlace ==
    \A n \in 0 .. initrd.size - 1 :
        /\ initrd.base + n \in Page /\ owner[initrd.base + n] = "initrd"
        /\ mem[initrd.base + n] = <<"initrd", n>>

RamdiskGrows ==
    /\ pc \in {"ramdisk", "rdclaim", "rdread", "rdmore"} => rd \in Nat /\ rdpos <= rd
    /\ pc \notin {"rdread", "rdmore", "enter", "kernel"} /\ pc # "prompt" =>
          initrd = NoRd /\ rdpos = 0
    /\ pc \in {"rdread", "rdmore"} =>
          initrd.base \in Nat /\ rdpos = initrd.size /\ RdInPlace
    /\ pc = "rdread" =>
          /\ initrd.more = initrd.base + initrd.size
          /\ \A p \in Span(initrd.more, rdlen) : p \in Page /\ owner[p] = "initrd"
    /\ pc = "rdmore" => initrd.more + rdlen = initrd.base + initrd.size
    /\ pc \in {"enter", "kernel"} /\ initrd.base # None /\ initrd.size # Huge =>
          RdInPlace /\ (~spoiled => initrd.size = rd)

(* Unless memory stays claimed for good, it is that of the load under way. *)
ClaimsAccounted ==
    /\ pc = "prompt" => ~isopen
    /\ pc = "kernel" => stays
    /\ ~stays => \A p \in Page :
          /\ owner[p] = "kernel" => pc \in Holding /\ p \in Span(li.base, li.memsize)
          /\ owner[p] = "initrd" => pc \in Loaded

LoadInv ==
    /\ Typed /\ ScanFits /\ ImageFits /\ KernelHeld /\ SegmentsInPlace /\ RamdiskGrows
    /\ ClaimsAccounted /\ FirmwareUntouched

-----------------------------------------------------------------------------
(***************************************************************************)
(* The operators.                                                          *)
(***************************************************************************)
LEMMA SegmentTyped ==
    ASSUME Typed, NEW i \in DOMAIN kernel.segs
    PROVE  /\ kernel.segs \in Seq(Segment) /\ i \in 1 .. Len(kernel.segs)
           /\ Len(kernel.segs) \in Nat
           /\ kernel.segs[i] \in Segment
           /\ kernel.segs[i].off \in Nat /\ kernel.segs[i].vaddr \in Nat
           /\ kernel.segs[i].filesz \in Nat /\ kernel.segs[i].memsz \in Nat
  <1>1. kernel.segs \in Seq(Segment)
    BY LoadAssumption DEF Typed
  <1>2. kernel.segs[i] \in Segment /\ i \in 1 .. Len(kernel.segs) /\ Len(kernel.segs) \in Nat
    BY <1>1
  <1> QED
    BY <1>1, <1>2 DEF Segment

LEMMA KernelWellFormed ==
    ASSUME Typed
    PROVE  /\ WellFormed(kernel) /\ kernel.entry \in Nat
           /\ kernel.segs \in Seq(Segment) /\ DOMAIN kernel.segs = 1 .. Len(kernel.segs)
           /\ Len(kernel.segs) \in Nat
  <1>1. WellFormed(kernel) /\ kernel.entry \in Nat /\ kernel.segs \in Seq(Segment)
    BY LoadAssumption DEF Typed
  <1> QED
    BY <1>1

LEMMA SegmentOrder ==
    ASSUME Typed, NEW j \in DOMAIN kernel.segs, Loadable(kernel.segs[j])
    PROVE  /\ kernel.segs[j].filesz <= kernel.segs[j].memsz
           /\ (\A i \in DOMAIN kernel.segs : i < j => ~Loadable(kernel.segs[i]))
                  => kernel.segs[j].memsz > 0
           /\ \A i \in DOMAIN kernel.segs :
                 i < j /\ Loadable(kernel.segs[i]) => Follows(kernel.segs[i], kernel.segs[j])
  <1>1. j \in 1 .. Len(kernel.segs) /\ DOMAIN kernel.segs = 1 .. Len(kernel.segs)
        /\ Len(kernel.segs) \in Nat
    BY KernelWellFormed
  <1>2. \A i \in DOMAIN kernel.segs : i < j <=> i \in 1 .. j - 1
    BY <1>1
  <1>3. \A i \in 1 .. j - 1 : i \in DOMAIN kernel.segs
    BY <1>1
  <1>4. /\ kernel.segs[j].filesz <= kernel.segs[j].memsz
        /\ (\A i \in 1 .. j - 1 : ~Loadable(kernel.segs[i])) => kernel.segs[j].memsz > 0
        /\ \A i \in 1 .. j - 1 :
              Loadable(kernel.segs[i]) => Follows(kernel.segs[i], kernel.segs[j])
    BY KernelWellFormed DEF WellFormed
  <1> QED
    BY <1>2, <1>3, <1>4

(* A chunk prom_claim_chunk finds is one the firmware grants.              *)
LEMMA ChunkIsFree ==
    ASSUME NEW virt \in Nat, NEW n, prom_claim_chunk(virt, n) # None
    PROVE  prom_claim_chunk(virt, n) \in Nat /\ CanClaim(prom_claim_chunk(virt, n), n)
  <1> DEFINE first == {a \in virt .. MaxAddr :
                          CanClaim(a, n) /\ \A b \in virt .. a - 1 : ~CanClaim(b, n)}
  <1>1. first # {}
    BY DEF prom_claim_chunk
  <1>2. prom_claim_chunk(virt, n) = CHOOSE a \in first : TRUE
    BY <1>1 DEF prom_claim_chunk
  <1>3. prom_claim_chunk(virt, n) \in first
    BY <1>1, <1>2
  <1> QED
    BY <1>3, LoadAssumption

(* Rounding up, and leaving room, takes nothing away.                      *)
LEMMA RoundedUp ==
    ASSUME NEW n \in Nat
    PROVE  Rounded(n) \in Nat /\ Rounded(n) >= n
  <1>1. (-n) % Align \in Nat
    BY LoadAssumption
  <1> QED
    BY <1>1, LoadAssumption DEF Rounded, _ALIGN

LEMMA MinOfTwo ==
    ASSUME NEW a \in Int, NEW b \in Int
    PROVE  Min({a, b}) = IF a <= b THEN a ELSE b
  BY DEF Min

(* What a claim, a release and a read do to a page.                        *)
LEMMA ClaimedPage ==
    ASSUME NEW a, NEW n, NEW who \in {"free", "kernel", "initrd"}, Typed
    PROVE  /\ Claimed(a, n, who) \in [Page -> {"free", "firmware", "kernel", "initrd"}]
           /\ \A p \in Page : Claimed(a, n, who)[p] = IF p \in Span(a, n) THEN who ELSE owner[p]
  BY DEF Claimed, Typed

LEMMA StoredPage ==
    ASSUME NEW a \in Int, NEW n, NEW what \in {"kernel", "initrd"}, NEW f \in Int, Typed,
           mem' = Store(a, n, what, f)
    PROVE  /\ mem' \in [Page -> {"firmware", "junk", "kernel", "initrd"} \X Int]
           /\ \A p \in Page : mem'[p] = IF p \in Span(a, n) THEN <<what, f + (p - a)>> ELSE mem[p]
  BY LoadAssumption DEF Store, Typed, Page

-----------------------------------------------------------------------------
(***************************************************************************)
(* One lemma per action.  Before the claim no memory is touched.           *)
(***************************************************************************)
LEMMA LoadInit == Init => LoadInv
  <1> SUFFICES ASSUME Init PROVE LoadInv
    OBVIOUS
  <1>1. PICK l \in Layouts :
            /\ owner = [p \in Page |-> IF p \in l THEN "firmware" ELSE "free"]
            /\ mem = [p \in Page |-> IF p \in l THEN <<"firmware", p>> ELSE <<"junk", 0>>]
    BY DEF Init
  <1>2. Typed
    BY <1>1, LoadAssumption
       DEF Init, Typed, LoadInfo, None, NoRd, NoInitrd, Page
  <1>3. FirmwareUntouched
    BY <1>1 DEF FirmwareUntouched
  <1>4. ClaimsAccounted
    BY <1>1 DEF Init, ClaimsAccounted
  <1> QED
    BY <1>2, <1>3, <1>4
       DEF Init, LoadInv, ScanFits, ImageFits, KernelHeld, SegmentsInPlace, RamdiskGrows,
           Holding, Loaded

(* Steps between two stages without memory.                                *)
Early == {"prompt", "ident", "header", "phdrs"}

LEMMA EarlyStep ==
    ASSUME LoadInv, pc \in Early \cup {"scan", "claim"}, pc' \in Early, Typed',
           UNCHANGED <<owner, mem, stays>>,
           pc' = "prompt" => ~isopen',
           pc' # "prompt" => initrd' = NoRd /\ rdpos' = 0
    PROVE  LoadInv'
  <1>1. FirmwareUntouched'
    BY DEF LoadInv, FirmwareUntouched
  <1>2. ClaimsAccounted'
    BY DEF LoadInv, ClaimsAccounted, Holding, Loaded, Early
  <1> QED
    BY <1>1, <1>2
       DEF LoadInv, ScanFits, ImageFits, KernelHeld, SegmentsInPlace, RamdiskGrows, Holding,
           Loaded, Early

LEMMA OpenStep == LoadInv /\ OpenKernel => LoadInv'
  <1> SUFFICES ASSUME LoadInv, OpenKernel PROVE LoadInv'
    OBVIOUS
  <1>1. Typed'
    BY LoadAssumption DEF OpenKernel, LoadInv, Typed, NoRd, None, NoInitrd
  <1> QED
    BY <1>1, EarlyStep DEF OpenKernel, Early, LoadInv, ClaimsAccounted

LEMMA HeaderStep == LoadInv /\ (ReadIdent \/ ReadHeader) => LoadInv'
  <1> SUFFICES ASSUME LoadInv, ReadIdent \/ ReadHeader PROVE LoadInv'
    OBVIOUS
  <1>1. Typed'
    BY DEF ReadIdent, ReadHeader, GiveUp, LoadInv, Typed
  <1> QED
    BY <1>1, EarlyStep DEF ReadIdent, ReadHeader, GiveUp, Early, LoadInv, RamdiskGrows

LEMMA PhdrsStep == LoadInv /\ ReadProgramHeaders => LoadInv'
  <1> SUFFICES ASSUME LoadInv, ReadProgramHeaders PROVE LoadInv'
    OBVIOUS
  <1>1. CASE GiveUp
    <2>1. Typed'
      BY <1>1 DEF ReadProgramHeaders, GiveUp, LoadInv, Typed
    <2> QED
      BY <1>1, <2>1, EarlyStep DEF ReadProgramHeaders, GiveUp, Early
  <1>2. CASE /\ li' = [li EXCEPT !.memsize = 0, !.offset = 0]
             /\ pc' = "scan" /\ seg' = 1
             /\ UNCHANGED <<kernel, rd, flat, rdlen, rdpos, initrd, isopen, loads>>
    <2>0. li' \in LoadInfo
      BY <1>2 DEF LoadInv, Typed, LoadInfo
    <2>1. Typed'
      BY <1>2, <2>0 DEF ReadProgramHeaders, LoadInv, Typed
    <2>2. li'.memsize = 0 /\ kernel' = kernel
      BY <1>2 DEF LoadInv, Typed, LoadInfo
    <2>3. ScanFits'
      BY <1>2, <2>2, SegmentTyped DEF ScanFits, LoadInv
    <2>4. FirmwareUntouched' /\ ClaimsAccounted'
      BY <1>2 DEF ReadProgramHeaders, LoadInv, FirmwareUntouched, ClaimsAccounted, Holding, Loaded
    <2> QED
      BY <1>2, <2>1, <2>3, <2>4
         DEF ReadProgramHeaders, LoadInv, ImageFits, KernelHeld, SegmentsInPlace, RamdiskGrows,
             Holding, Loaded
  <1> QED
    BY <1>1, <1>2 DEF ReadProgramHeaders

(***************************************************************************)
(* The scan.  A segment starts where the one before it ends, or later, and *)
(* as far from the first in memory as in the file, so that the size taken  *)
(* from its file offset covers all segments up to it.                      *)
(***************************************************************************)
LEMMA ScanStep == LoadInv /\ ScanSegment => LoadInv'
  <1> SUFFICES ASSUME LoadInv, ScanSegment PROVE LoadInv'
    OBVIOUS
  <1> DEFINE s == kernel.segs[seg]
  <1>1. /\ pc = "scan" /\ pc' = "scan" /\ seg \in DOMAIN kernel.segs /\ seg' = seg + 1
        /\ li' = Scan(li, s) /\ kernel' = kernel /\ li \in LoadInfo
    BY KernelWellFormed DEF ScanSegment, LoadInv, Typed
  <1>2. /\ s.off \in Nat /\ s.vaddr \in Nat /\ s.memsz \in Nat /\ seg \in Nat
        /\ \A i \in DOMAIN kernel.segs :
              i \in Nat /\ kernel.segs[i].off \in Nat /\ kernel.segs[i].vaddr \in Nat
                        /\ kernel.segs[i].memsz \in Nat
    BY <1>1, SegmentTyped DEF LoadInv, Typed
  <1>3. \A i \in DOMAIN kernel.segs :
            i < seg /\ Loadable(kernel.segs[i]) /\ Loadable(s) => Follows(kernel.segs[i], s)
    BY <1>1, SegmentOrder DEF LoadInv
  <1>4. li' \in LoadInfo /\ ScanFits'
    <2>1. CASE ~Loadable(s)
      <3>1. li' = li
        BY <1>1, <2>1 DEF Scan
      <3> QED
        BY <1>1, <1>2, <2>1, <3>1 DEF LoadInv, ScanFits, Within
    <2>2. CASE Loadable(s) /\ li.memsize = 0
      <3>1. /\ li' \in LoadInfo /\ li'.offset = s.off /\ li'.memsize = s.memsz
            /\ li'.load_loc = s.vaddr
        BY <1>1, <1>2, <2>2 DEF Scan, LoadInfo
      <3>2. \A i \in DOMAIN kernel.segs : i < seg => ~Loadable(kernel.segs[i])
        BY <1>1, <2>2 DEF LoadInv, ScanFits
      <3>3. s.memsz > 0
        BY <1>1, <2>2, <3>2, SegmentOrder DEF LoadInv
      <3> QED
        BY <1>1, <1>2, <2>2, <3>1, <3>2, <3>3 DEF ScanFits, Within
    <2>3. CASE Loadable(s) /\ li.memsize # 0
      <3>1. /\ li'.offset = li.offset /\ li'.load_loc = li.load_loc /\ li'.base = li.base
            /\ li' = [li EXCEPT !.memsize = s.off + s.memsz - li.offset]
            /\ li'.memsize = s.off + s.memsz - li.offset
            /\ li.offset \in Nat /\ li.load_loc \in Nat /\ li.memsize \in Nat
        BY <1>1, <2>3 DEF Scan, LoadInfo
      <3>2. PICK i \in DOMAIN kernel.segs :
                /\ i < seg /\ Loadable(kernel.segs[i]) /\ kernel.segs[i].memsz > 0
                /\ li.load_loc = kernel.segs[i].vaddr /\ li.offset = kernel.segs[i].off
        BY <1>1, <2>3 DEF LoadInv, ScanFits
      <3>3. s.vaddr - li.load_loc = s.off - li.offset /\ s.vaddr > li.load_loc
        BY <1>2, <1>3, <2>3, <3>2 DEF Follows
      <3>4. li'.memsize = s.vaddr - li.load_loc + s.memsz /\ li'.memsize \in Nat \ {0}
        BY <1>2, <3>1, <3>3
      <3>5. li' \in LoadInfo
        BY <1>1, <3>1, <3>4 DEF LoadInfo
      <3>6. ASSUME NEW j \in DOMAIN kernel.segs, j < seg + 1, Loadable(kernel.segs[j])
            PROVE  Within(kernel.segs[j])'
        <4>1. CASE j = seg
          BY <1>1, <1>2, <3>1, <3>3, <3>4, <4>1 DEF Within
        <4>2. CASE j < seg
          <5>1. Within(kernel.segs[j]) /\ s.vaddr >= kernel.segs[j].vaddr + kernel.segs[j].memsz
            BY <1>1, <1>3, <2>3, <3>6, <4>2 DEF LoadInv, ScanFits, Follows
          <5> QED
            BY <1>1, <1>2, <3>1, <3>4, <5>1 DEF Within
        <4> QED
          BY <1>2, <3>6, <4>1, <4>2
      <3> QED
        BY <1>1, <1>2, <3>1, <3>2, <3>4, <3>5, <3>6 DEF ScanFits
    <2> QED
      BY <2>1, <2>2, <2>3
  <1>5. Typed'
    BY <1>1, <1>4 DEF ScanSegment, LoadInv, Typed
  <1>6. FirmwareUntouched' /\ ClaimsAccounted'
    BY <1>1 DEF ScanSegment, LoadInv, FirmwareUntouched, ClaimsAccounted, Holding, Loaded
  <1> QED
    BY <1>1, <1>4, <1>5, <1>6
       DEF ScanSegment, LoadInv, ImageFits, KernelHeld, SegmentsInPlace, RamdiskGrows, Holding,
           Loaded

LEMMA ScanDoneStep == LoadInv /\ ScanDone => LoadInv'
  <1> SUFFICES ASSUME LoadInv, ScanDone PROVE LoadInv'
    OBVIOUS
  <1>1. CASE GiveUp
    <2>1. Typed'
      BY <1>1 DEF ScanDone, GiveUp, LoadInv, Typed
    <2> QED
      BY <1>1, <2>1, EarlyStep DEF ScanDone, GiveUp, Early
  <1>2. CASE /\ li.memsize # 0
             /\ li' = [li EXCEPT !.memsize = Rounded(li.memsize)]
             /\ pc' = "claim"
             /\ UNCHANGED <<kernel, rd, seg, rdlen, rdpos, initrd, isopen, loads>>
    <2>1. /\ li \in LoadInfo /\ li.memsize \in Nat /\ li.load_loc \in Nat
          /\ li' \in LoadInfo /\ li'.load_loc = li.load_loc
          /\ li'.memsize = Rounded(li.memsize) /\ li'.memsize >= li.memsize /\ li'.memsize \in Nat
      BY <1>2, RoundedUp DEF LoadInv, Typed, LoadInfo
    <2>2. Typed'
      BY <1>2, <2>1 DEF ScanDone, LoadInv, Typed
    <2>3. ASSUME NEW i \in DOMAIN kernel.segs, Loadable(kernel.segs[i])
          PROVE  Within(kernel.segs[i])'
      <3>1. i < seg
        BY SegmentTyped DEF ScanDone, LoadInv, Typed
      <3>2. Within(kernel.segs[i])
        BY <1>2, <2>3, <3>1 DEF ScanDone, LoadInv, ScanFits
      <3> QED
        BY <1>2, <2>1, <3>2, SegmentTyped DEF Within, LoadInv
    <2>4. ImageFits'
      BY <1>2, <2>3 DEF ImageFits
    <2>5. FirmwareUntouched' /\ ClaimsAccounted'
      BY <1>2 DEF ScanDone, LoadInv, FirmwareUntouched, ClaimsAccounted, Holding, Loaded
    <2> QED
      BY <1>2, <2>2, <2>4, <2>5
         DEF ScanDone, LoadInv, ScanFits, KernelHeld, SegmentsInPlace, RamdiskGrows, Holding,
             Loaded
  <1> QED
    BY <1>1, <1>2 DEF ScanDone

(***************************************************************************)
(* The claim: it only takes free pages, so what others own is untouched.   *)
(***************************************************************************)
LEMMA ClaimStep == LoadInv /\ ClaimKernel => LoadInv'
  <1> SUFFICES ASSUME LoadInv, ClaimKernel PROVE LoadInv'
    OBVIOUS
  <1> DEFINE base == prom_claim_chunk(LoadAddr, li.memsize)
  <1>1. pc = "claim" /\ UNCHANGED <<mem, stays>>
    BY DEF ClaimKernel
  <1>2. CASE GiveUp /\ UNCHANGED owner
    <2>1. Typed'
      BY <1>1, <1>2 DEF GiveUp, LoadInv, Typed
    <2> QED
      BY <1>1, <1>2, <2>1, EarlyStep DEF GiveUp, Early
  <1>3. CASE /\ base # None
             /\ li' = [li EXCEPT !.base = base]
             /\ owner' = Claimed(base, li.memsize, "kernel")
             /\ pc' = "segments" /\ seg' = 1
             /\ UNCHANGED <<kernel, rd, flat, rdlen, rdpos, initrd, isopen, loads>>
    <2>1. LoadAddr \in Nat
      BY KernelWellFormed, LoadAssumption DEF LoadAddr, LoadInv, Typed, LoadInfo
    <2>2. base \in Nat /\ CanClaim(base, li.memsize)
      BY <1>3, <2>1, ChunkIsFree
    <2> HIDE DEF base
    <2>3. /\ li' \in LoadInfo /\ li'.base = base /\ li'.memsize = li.memsize
          /\ li'.load_loc = li.load_loc
      BY <1>3, <2>2 DEF LoadInv, Typed, LoadInfo
    <2>4. /\ owner' \in [Page -> {"free", "firmware", "kernel", "initrd"}]
          /\ \A p \in Page : owner'[p] = IF p \in Span(base, li.memsize) THEN "kernel" ELSE owner[p]
      BY <1>3, ClaimedPage DEF LoadInv
    <2>5. \A p \in Span(base, li.memsize) : p \in Page /\ owner[p] = "free"
      BY <2>2 DEF CanClaim
    <2>6. Typed'
      BY <1>1, <1>3, <2>3, <2>4 DEF LoadInv, Typed, Holding
    <2>7. ImageFits'
      BY <1>1, <1>3, <2>3 DEF LoadInv, ImageFits, Within
    <2>8. KernelHeld'
      BY <2>2, <2>3, <2>4, <2>5 DEF KernelHeld
    <2>9. SegmentsInPlace'
      BY <1>3, SegmentTyped DEF SegmentsInPlace, Loaded, LoadInv
    <2>10. FirmwareUntouched'
      BY <1>1, <2>4, <2>5 DEF LoadInv, FirmwareUntouched
    <2>11. ClaimsAccounted'
      BY <1>1, <1>3, <2>3, <2>4 DEF LoadInv, ClaimsAccounted, Holding, Loaded
    <2> QED
      BY <1>1, <1>3, <2>6, <2>7, <2>8, <2>9, <2>10, <2>11
         DEF LoadInv, ScanFits, RamdiskGrows
  <1> QED
    BY <1>2, <1>3 DEF ClaimKernel

(***************************************************************************)
(* The segments.                                                           *)
(***************************************************************************)
LEMMA SkipStep == LoadInv /\ SkipSegment => LoadInv'
  <1> SUFFICES ASSUME LoadInv, SkipSegment PROVE LoadInv'
    OBVIOUS
  <1>1. Typed'
    BY DEF SkipSegment, LoadInv, Typed
  <1>2. SegmentsInPlace'
    <2> SUFFICES ASSUME NEW i \in DOMAIN kernel.segs, i < seg + 1, Loadable(kernel.segs[i])
                 PROVE  InPlace(kernel.segs[i])'
      BY DEF SkipSegment, SegmentsInPlace, Loaded
    <2>1. i < seg
      BY SegmentTyped DEF SkipSegment, LoadInv, Typed
    <2>2. InPlace(kernel.segs[i])
      BY <2>1 DEF SkipSegment, LoadInv, SegmentsInPlace
    <2> QED
      BY <2>2 DEF SkipSegment, InPlace, Dest
  <1>3. FirmwareUntouched' /\ ClaimsAccounted' /\ KernelHeld' /\ ImageFits'
    BY DEF SkipSegment, LoadInv, FirmwareUntouched, ClaimsAccounted, KernelHeld, ImageFits, Within
  <1> QED
    BY <1>1, <1>2, <1>3 DEF SkipSegment, LoadInv, ScanFits, RamdiskGrows

(* A segment, or as much of it as was read, lies in the kernel's memory    *)
(* and off the segments before it.                                         *)
LEMMA SegmentPlace ==
    ASSUME LoadInv, pc = "segments", NEW i \in DOMAIN kernel.segs, Loadable(kernel.segs[i])
    PROVE  /\ Dest(kernel.segs[i]) \in Int
           /\ Span(Dest(kernel.segs[i]), kernel.segs[i].memsz) \subseteq Span(li.base, li.memsize)
           /\ kernel.segs[i].filesz <= kernel.segs[i].memsz
  <1>1. /\ li.base \in Int /\ li.memsize \in Nat /\ li.load_loc \in Nat
        /\ kernel.segs[i].vaddr \in Nat /\ kernel.segs[i].memsz \in Nat
        /\ kernel.segs[i].filesz \in Nat
    BY SegmentTyped DEF LoadInv, Typed, LoadInfo
  <1>2. Within(kernel.segs[i])
    BY DEF LoadInv, ImageFits, Holding
  <1>3. kernel.segs[i].filesz <= kernel.segs[i].memsz
    BY SegmentOrder DEF LoadInv
  <1> QED
    BY <1>1, <1>2, <1>3 DEF Within, Dest, Span

LEMMA LoadSegmentStep == LoadInv /\ LoadSegment => LoadInv'
  <1> SUFFICES ASSUME LoadInv, LoadSegment PROVE LoadInv'
    OBVIOUS
  <1> DEFINE s == kernel.segs[seg]
  <1>1. /\ pc = "segments" /\ seg \in DOMAIN kernel.segs /\ Loadable(s) /\ UNCHANGED stays
        /\ seg \in Nat
    BY KernelWellFormed DEF LoadSegment, LoadInv, Typed
  <1>2. /\ s.vaddr \in Nat /\ s.filesz \in Nat /\ s.memsz \in Nat
        /\ li.base \in Int /\ li.memsize \in Nat /\ li.load_loc \in Nat
    BY <1>1, SegmentTyped DEF LoadInv, Typed, LoadInfo
  <1>3. /\ Dest(s) \in Int /\ s.filesz <= s.memsz
        /\ Span(Dest(s), s.memsz) \subseteq Span(li.base, li.memsize)
    BY <1>1, SegmentPlace
  <1>4. \A p \in Span(li.base, li.memsize) : p \in Page /\ owner[p] = "kernel"
    BY <1>1 DEF LoadInv, KernelHeld, Holding
  <1>5. ASSUME NEW n \in 0 .. s.filesz, mem' = Store(Dest(s), n, "kernel", s.vaddr)
        PROVE  /\ mem' \in [Page -> {"firmware", "junk", "kernel", "initrd"} \X Int]
               /\ \A p \in Page : mem'[p] =
                     IF p \in Span(Dest(s), n) THEN <<"kernel", s.vaddr + (p - Dest(s))>> ELSE mem[p]
               /\ \A p \in Span(Dest(s), n) : p \in Page /\ owner[p] = "kernel"
    <2>1. Span(Dest(s), n) \subseteq Span(Dest(s), s.memsz)
      BY <1>2, <1>3, <1>5 DEF Span
    <2>2. /\ mem' \in [Page -> {"firmware", "junk", "kernel", "initrd"} \X Int]
          /\ \A p \in Page : mem'[p] =
                IF p \in Span(Dest(s), n) THEN <<"kernel", s.vaddr + (p - Dest(s))>> ELSE mem[p]
      <3> DEFINE d == Dest(s)
                 v == s.vaddr
      <3>1. v \in Int /\ d \in Int /\ Typed /\ mem' = Store(d, n, "kernel", v)
        BY <1>2, <1>3, <1>5 DEF LoadInv
      <3> HIDE DEF d, v
      <3>2. /\ mem' \in [Page -> {"firmware", "junk", "kernel", "initrd"} \X Int]
            /\ \A p \in Page : mem'[p] = IF p \in Span(d, n) THEN <<"kernel", v + (p - d)>>
                                         ELSE mem[p]
        BY <3>1, StoredPage
      <3> QED
        BY <3>2 DEF d, v
    <2>3. \A p \in Span(Dest(s), n) : p \in Page /\ owner[p] = "kernel"
      BY <1>3, <1>4, <2>1
    <2> QED
      BY <2>2, <2>3
  <1>6. CASE /\ mem' = Store(Dest(s), s.filesz, "kernel", s.vaddr)
             /\ seg' = seg + 1
             /\ UNCHANGED <<pc, owner, kernel, rd, li, flat, rdlen, rdpos, initrd, isopen, loads>>
    <2>1. /\ mem' \in [Page -> {"firmware", "junk", "kernel", "initrd"} \X Int]
          /\ \A p \in Page : mem'[p] =
                IF p \in Span(Dest(s), s.filesz) THEN <<"kernel", s.vaddr + (p - Dest(s))>>
                ELSE mem[p]
          /\ \A p \in Span(Dest(s), s.filesz) : p \in Page /\ owner[p] = "kernel"
      BY <1>2, <1>5, <1>6
    <2>2. Typed'
      BY <1>1, <1>6, <2>1 DEF LoadInv, Typed
    <2>3. FirmwareUntouched'
      <3> SUFFICES ASSUME NEW p \in Page
                   PROVE  /\ owner[p] = "firmware" <=> mem'[p][1] = "firmware"
                          /\ mem'[p][1] = "firmware" => mem'[p][2] = p
        BY <1>6 DEF FirmwareUntouched
      <3>1. CASE p \in Span(Dest(s), s.filesz)
        <4>1. mem'[p][1] = "kernel" /\ owner[p] = "kernel"
          BY <2>1, <3>1
        <4> QED
          BY <4>1
      <3>2. CASE p \notin Span(Dest(s), s.filesz)
        <4>1. mem'[p] = mem[p]
          BY <2>1, <3>2
        <4> QED
          BY <4>1 DEF LoadInv, FirmwareUntouched
      <3> QED
        BY <3>1, <3>2
    <2>4. ASSUME NEW i \in DOMAIN kernel.segs, i < seg + 1, Loadable(kernel.segs[i])
          PROVE  InPlace(kernel.segs[i])'
      <3> DEFINE t == kernel.segs[i]
      <3>1. t.vaddr \in Nat /\ t.filesz \in Nat /\ t.memsz \in Nat /\ i \in Nat
        BY SegmentTyped DEF LoadInv
      <3>2. /\ Dest(t) \in Int /\ t.filesz <= t.memsz
            /\ Span(Dest(t), t.memsz) \subseteq Span(li.base, li.memsize)
        BY <1>1, <2>4, SegmentPlace
      <3>3. ASSUME NEW p \in 0 .. t.filesz - 1
            PROVE  mem'[Dest(t) + p] = <<"kernel", t.vaddr + p>>
        <4>1. Dest(t) + p \in Span(Dest(t), t.memsz)
          BY <3>1, <3>2 DEF Span
        <4>2. Dest(t) + p \in Page
          BY <1>4, <3>2, <4>1
        <4>3. CASE i = seg
          BY <1>2, <1>3, <2>1, <3>1, <3>2, <4>2, <4>3 DEF Span
        <4>4. CASE i < seg
          <5>1. InPlace(t)
            BY <1>1, <2>4, <4>4 DEF LoadInv, SegmentsInPlace
          <5>2. s.vaddr >= t.vaddr + t.memsz
            BY <1>1, <2>4, <4>4, SegmentOrder DEF LoadInv, Follows
          <5>3. Dest(t) + p \notin Span(Dest(s), s.filesz)
            BY <1>2, <3>1, <3>2, <5>2 DEF Dest, Span
          <5> QED
            BY <2>1, <4>2, <5>1, <5>3 DEF InPlace
        <4> QED
          BY <1>1, <2>4, <3>1, <4>3, <4>4
      <3> QED
        BY <1>6, <3>3 DEF InPlace, Dest
    <2>5. SegmentsInPlace'
      BY <1>1, <1>6, <2>4 DEF SegmentsInPlace, Loaded
    <2>6. ClaimsAccounted' /\ KernelHeld' /\ ImageFits'
      BY <1>1, <1>6 DEF LoadInv, ClaimsAccounted, KernelHeld, ImageFits, Within
    <2> QED
      BY <1>1, <1>6, <2>2, <2>3, <2>5, <2>6 DEF LoadInv, ScanFits, RamdiskGrows
  <1>7. CASE /\ \E n \in {0} \cup 0 .. s.filesz - 1 : mem' = Store(Dest(s), n, "kernel", s.vaddr)
             /\ owner' = prom_release(li.base, li.memsize)
             /\ GiveUp
    <2>1. PICK n \in 0 .. s.filesz : mem' = Store(Dest(s), n, "kernel", s.vaddr)
      BY <1>2, <1>7
    <2>2. /\ mem' \in [Page -> {"firmware", "junk", "kernel", "initrd"} \X Int]
          /\ \A p \in Page : mem'[p] =
                IF p \in Span(Dest(s), n) THEN <<"kernel", s.vaddr + (p - Dest(s))>> ELSE mem[p]
          /\ \A p \in Span(Dest(s), n) : p \in Page /\ owner[p] = "kernel"
      BY <1>5, <2>1
    <2>3. /\ owner' \in [Page -> {"free", "firmware", "kernel", "initrd"}]
          /\ \A p \in Page : owner'[p] =
                IF p \in Span(li.base, li.memsize) THEN "free" ELSE owner[p]
      BY <1>7, ClaimedPage DEF prom_release, LoadInv
    <2>4. Typed'
      BY <1>7, <2>2, <2>3 DEF GiveUp, LoadInv, Typed
    <2>5. FirmwareUntouched'
      BY <1>4, <2>2, <2>3 DEF LoadInv, FirmwareUntouched
    <2>6. ClaimsAccounted'
      BY <1>1, <1>7, <2>3 DEF GiveUp, LoadInv, ClaimsAccounted, Holding, Loaded
    <2> QED
      BY <1>7, <2>4, <2>5, <2>6
         DEF GiveUp, LoadInv, ScanFits, ImageFits, KernelHeld, SegmentsInPlace, RamdiskGrows,
             Holding, Loaded
  <1> QED
    BY <1>6, <1>7 DEF LoadSegment

LEMMA KernelLoadedStep == LoadInv /\ KernelLoaded => LoadInv'
  <1> SUFFICES ASSUME LoadInv, KernelLoaded PROVE LoadInv'
    OBVIOUS
  <1>1. /\ pc = "segments" /\ pc' \in {"ramdisk", "enter"}
        /\ pc' = "ramdisk" => rd # NoInitrd
        /\ UNCHANGED <<owner, mem, kernel, rd, li, flat, seg, rdlen, rdpos, initrd, stays>>
    BY DEF KernelLoaded
  <1>2. Typed'
    BY <1>1 DEF LoadInv, Typed, Holding, Loaded
  <1>3. SegmentsInPlace'
    <2> SUFFICES ASSUME NEW i \in DOMAIN kernel.segs, Loadable(kernel.segs[i])
                 PROVE  InPlace(kernel.segs[i])'
      BY <1>1 DEF SegmentsInPlace
    <2>1. i < seg
      BY SegmentTyped DEF KernelLoaded, LoadInv, Typed
    <2>2. InPlace(kernel.segs[i])
      BY <1>1, <2>1 DEF LoadInv, SegmentsInPlace
    <2> QED
      BY <1>1, <2>2 DEF InPlace, Dest
  <1>4. FirmwareUntouched' /\ ClaimsAccounted' /\ KernelHeld' /\ ImageFits'
    BY <1>1 DEF LoadInv, FirmwareUntouched, ClaimsAccounted, KernelHeld, ImageFits, Within,
                Holding, Loaded
  <1>5. RamdiskGrows'
    BY <1>1, LoadAssumption DEF LoadInv, Typed, RamdiskGrows, NoRd
  <1> QED
    BY <1>1, <1>2, <1>3, <1>4, <1>5 DEF LoadInv, ScanFits

(***************************************************************************)
(* The initrd.  It is claimed from free pages, and read only into its own, *)
(* so that neither the image nor the firmware suffers.                     *)
(***************************************************************************)
LEMMA NoNameStep == LoadInv /\ NoNameForInitrd => LoadInv'
  <1> SUFFICES ASSUME LoadInv, NoNameForInitrd PROVE LoadInv'
    OBVIOUS
  <1>1. Typed'
    BY DEF NoNameForInitrd, GiveUp, LoadInv, Typed
  <1>2. FirmwareUntouched' /\ ClaimsAccounted'
    BY DEF NoNameForInitrd, GiveUp, LoadInv, FirmwareUntouched, ClaimsAccounted
  <1> QED
    BY <1>1, <1>2
       DEF NoNameForInitrd, GiveUp, LoadInv, ScanFits, ImageFits, KernelHeld, SegmentsInPlace,
           RamdiskGrows, Holding, Loaded

(* A step that stays behind the load of the image, and touches no memory   *)
(* of others: what it has to say about the initrd is left to the caller.   *)
LEMMA AfterImage ==
    ASSUME LoadInv, pc \in Loaded, pc' \in Loaded \ {"kernel"}, UNCHANGED <<kernel, li, stays>>,
           \A p \in Page : owner[p] \in {"kernel", "firmware"} =>
                              owner'[p] = owner[p] /\ mem'[p] = mem[p],
           \A p \in Page : owner'[p] = "kernel" => owner[p] = "kernel"
    PROVE  ScanFits' /\ ImageFits' /\ KernelHeld' /\ SegmentsInPlace' /\ ClaimsAccounted'
  <1>1. KernelHeld'
    BY DEF LoadInv, KernelHeld, Holding
  <1>2. SegmentsInPlace'
    <2> SUFFICES ASSUME NEW i \in DOMAIN kernel.segs, Loadable(kernel.segs[i]),
                        NEW p \in 0 .. kernel.segs[i].filesz - 1
                 PROVE  mem'[Dest(kernel.segs[i]) + p] = <<"kernel", kernel.segs[i].vaddr + p>>
      BY DEF SegmentsInPlace, InPlace, Dest, Loaded
    <2> DEFINE s == kernel.segs[i]
    <2>1. /\ s.vaddr \in Nat /\ s.filesz \in Nat /\ s.memsz \in Nat /\ s.filesz <= s.memsz
          /\ li.base \in Int /\ li.memsize \in Nat /\ li.load_loc \in Nat
      BY SegmentTyped, SegmentOrder DEF LoadInv, Typed, LoadInfo
    <2>2. Within(s)
      BY DEF LoadInv, ImageFits, Holding
    <2>3. Dest(s) + p \in Span(li.base, li.memsize)
      BY <2>1, <2>2 DEF Within, Dest, Span
    <2>4. Dest(s) + p \in Page /\ owner[Dest(s) + p] = "kernel"
      BY <2>3 DEF LoadInv, KernelHeld, Holding
    <2>5. mem[Dest(s) + p] = <<"kernel", s.vaddr + p>>
      BY DEF LoadInv, SegmentsInPlace, InPlace
    <2> QED
      BY <2>4, <2>5
  <1>3. ClaimsAccounted'
    BY DEF LoadInv, ClaimsAccounted, Holding, Loaded
  <1>4. ImageFits' /\ ScanFits'
    BY DEF LoadInv, ImageFits, ScanFits, Within, Holding, Loaded
  <1> QED
    BY <1>1, <1>2, <1>3, <1>4

LEMMA OpenInitrdStep == LoadInv /\ OpenInitrd => LoadInv'
  <1> SUFFICES ASSUME LoadInv, OpenInitrd PROVE LoadInv'
    OBVIOUS
  <1>1. rdlen' \in Nat \ {0}
    BY LoadAssumption DEF OpenInitrd, LoadInv, Typed, RamdiskGrows
  <1>2. Typed'
    BY <1>1 DEF OpenInitrd, LoadInv, Typed, Holding, Loaded
  <1>3. RamdiskGrows'
    BY DEF OpenInitrd, LoadInv, RamdiskGrows, NoRd
  <1>4. FirmwareUntouched'
    BY DEF OpenInitrd, LoadInv, FirmwareUntouched
  <1> QED
    BY <1>2, <1>3, <1>4, AfterImage DEF OpenInitrd, LoadInv, Loaded

LEMMA ClaimInitrdStep == LoadInv /\ ClaimInitrd => LoadInv'
  <1> SUFFICES ASSUME LoadInv, ClaimInitrd PROVE LoadInv'
    OBVIOUS
  <1> DEFINE base == prom_claim_chunk(li.base + li.memsize, rdlen)
  <1>1. /\ pc = "rdclaim" /\ rd \in Nat /\ rdpos = 0 /\ rdlen \in Nat \ {0} /\ initrd = NoRd
        /\ UNCHANGED <<mem, kernel, rd, li, seg, rdlen, rdpos, stays>>
    BY DEF ClaimInitrd, LoadInv, Typed, RamdiskGrows
  <1>2. CASE pc' = "enter" /\ UNCHANGED <<owner, initrd>>
    <2>1. Typed' /\ RamdiskGrows' /\ FirmwareUntouched'
      BY <1>1, <1>2 DEF LoadInv, Typed, RamdiskGrows, FirmwareUntouched, NoRd, Holding, Loaded
    <2> QED
      BY <1>1, <1>2, <2>1, AfterImage DEF LoadInv, Loaded
  <1>3. CASE /\ base # None /\ pc' = "rdread"
             /\ owner' = Claimed(base, rdlen, "initrd")
             /\ initrd' = [base |-> base, size |-> 0, more |-> base]
    <2>1. base \in Nat /\ CanClaim(base, rdlen)
      <3>1. li.base + li.memsize \in Nat
        <4>1. li.base \in Int /\ li.memsize \in Nat
          BY DEF LoadInv, Typed, LoadInfo
        <4>2. li.base \in Nat
          BY <1>1 DEF LoadInv, KernelHeld, Holding, Loaded
        <4> QED
          BY <4>1, <4>2
      <3> QED
        BY <1>3, <3>1, ChunkIsFree
    <2> HIDE DEF base
    <2>2. /\ owner' \in [Page -> {"free", "firmware", "kernel", "initrd"}]
          /\ \A p \in Page : owner'[p] = IF p \in Span(base, rdlen) THEN "initrd" ELSE owner[p]
      BY <1>3, ClaimedPage DEF LoadInv
    <2>3. \A p \in Span(base, rdlen) : p \in Page /\ owner[p] = "free"
      BY <2>1 DEF CanClaim
    <2>4. Typed'
      BY <1>1, <1>3, <2>1, <2>2 DEF LoadInv, Typed, Holding, Loaded
    <2>5. RamdiskGrows'
      BY <1>1, <1>3, <2>1, <2>2, <2>3 DEF RamdiskGrows, RdInPlace
    <2>6. FirmwareUntouched'
      BY <1>1, <2>2, <2>3 DEF LoadInv, FirmwareUntouched
    <2> QED
      BY <1>1, <1>3, <2>2, <2>3, <2>4, <2>5, <2>6, AfterImage DEF LoadInv, Loaded
  <1> QED
    BY <1>2, <1>3 DEF ClaimInitrd

LEMMA ReadInitrdStep == LoadInv /\ ReadInitrd => LoadInv'
  <1> SUFFICES ASSUME LoadInv, ReadInitrd PROVE LoadInv'
    OBVIOUS
  <1>1. /\ pc = "rdread" /\ rd \in Nat /\ rdpos \in Nat /\ rdpos <= rd /\ rdlen \in Nat \ {0}
        /\ initrd \in [base : Int, size : Nat, more : Int]
        /\ initrd.base \in Nat /\ initrd.size \in Nat /\ rdpos = initrd.size
        /\ initrd.more = initrd.base + initrd.size
        /\ RdInPlace
        /\ \A p \in Span(initrd.more, rdlen) : p \in Page /\ owner[p] = "initrd"
        /\ UNCHANGED <<owner, kernel, rd, li, seg, rdlen, stays>>
    BY DEF ReadInitrd, LoadInv, Typed, RamdiskGrows
  <1> DEFINE most == Min({rdlen, rd - rdpos})
  <1>2. PICK n \in 0 .. most :
            /\ IF n = most THEN NoFault ELSE Fault
            /\ mem' = Store(initrd.more, n, "initrd", rdpos)
            /\ rdpos' = rdpos + n
            /\ initrd' = [initrd EXCEPT !.size = @ + n,
                                        !.base = IF @ # initrd.more \/ n > 0 THEN @ ELSE None]
            /\ pc' = IF n = rdlen THEN "rdmore" ELSE "enter"
    BY DEF ReadInitrd
  <1>3. most = IF rdlen <= rd - rdpos THEN rdlen ELSE rd - rdpos
    BY <1>1, MinOfTwo
  <1> HIDE DEF most
  <1>4. n \in Nat /\ n <= rdlen /\ n <= rd - rdpos
    BY <1>1, <1>2, <1>3
  <1>5. /\ initrd'.more = initrd.more /\ initrd'.size = initrd.size + n
        /\ initrd'.base = initrd.base \/ (initrd'.base = None /\ n = 0)
        /\ initrd' \in [base : Int, size : Nat, more : Int]
    <2>1. /\ initrd'.more = initrd.more /\ initrd'.size = initrd.size + n
          /\ initrd'.base = IF initrd.base # initrd.more \/ n > 0 THEN initrd.base ELSE None
          /\ initrd' = [base |-> initrd'.base, size |-> initrd'.size, more |-> initrd'.more]
      BY <1>1, <1>2
    <2>2. initrd'.base = initrd.base \/ (initrd'.base = None /\ n = 0)
      BY <1>4, <2>1
    <2>3. initrd'.base \in Int /\ initrd'.size \in Nat /\ initrd'.more \in Int
      BY <1>1, <1>4, <2>1, <2>2 DEF None
    <2> QED
      BY <2>1, <2>2, <2>3
  <1>6. /\ mem' \in [Page -> {"firmware", "junk", "kernel", "initrd"} \X Int]
        /\ \A p \in Page : mem'[p] =
              IF p \in Span(initrd.more, n) THEN <<"initrd", rdpos + (p - initrd.more)>> ELSE mem[p]
    <2>1. initrd.more \in Int /\ rdpos \in Int /\ Typed
      BY <1>1 DEF LoadInv
    <2>2. mem' = Store(initrd.more, n, "initrd", rdpos)
      BY <1>2
    <2> QED
      BY <2>1, <2>2, StoredPage
  <1>7. \A p \in Span(initrd.more, n) : p \in Page /\ owner[p] = "initrd"
    BY <1>1, <1>4 DEF Span
  <1>8. Typed'
    BY <1>1, <1>2, <1>4, <1>5, <1>6 DEF LoadInv, Typed, Holding, Loaded
  <1>9. ASSUME initrd'.base # None PROVE RdInPlace'
    <2> SUFFICES ASSUME NEW k \in 0 .. initrd.size + n - 1
                 PROVE  /\ initrd.base + k \in Page /\ owner[initrd.base + k] = "initrd"
                        /\ mem'[initrd.base + k] = <<"initrd", k>>
      BY <1>1, <1>5, <1>9 DEF RdInPlace
    <2>1. CASE k < initrd.size
      <3>1. /\ initrd.base + k \in Page /\ owner[initrd.base + k] = "initrd"
            /\ mem[initrd.base + k] = <<"initrd", k>>
        BY <1>1, <1>4, <2>1 DEF RdInPlace
      <3>2. initrd.base + k \notin Span(initrd.more, n)
        BY <1>1, <1>4, <2>1 DEF Span
      <3> QED
        BY <1>6, <3>1, <3>2
    <2>2. CASE k >= initrd.size
      <3>1. initrd.base + k \in Span(initrd.more, n)
        BY <1>1, <1>4, <2>2 DEF Span
      <3>2. rdpos + ((initrd.base + k) - initrd.more) = k
        BY <1>1, <1>4
      <3> QED
        BY <1>6, <1>7, <3>1, <3>2
    <2> QED
      BY <1>1, <1>4, <2>1, <2>2
  <1>10. n # rdlen /\ ~spoiled' => initrd'.size = rd
    BY <1>1, <1>2, <1>3, <1>5 DEF Fault
  <1>11. RamdiskGrows'
    <2>1. CASE n = rdlen
      <3>1. pc' = "rdmore" /\ initrd'.base = initrd.base /\ initrd'.base # None
        BY <1>1, <1>2, <1>5, <2>1 DEF None
      <3> QED
        BY <1>1, <1>2, <1>4, <1>5, <1>9, <2>1, <3>1 DEF RamdiskGrows
    <2>2. CASE n # rdlen
      <3>1. pc' = "enter"
        BY <1>2, <2>2
      <3> QED
        BY <1>1, <1>9, <1>10, <2>2, <3>1 DEF RamdiskGrows
    <2> QED
      BY <2>1, <2>2
  <1>12. FirmwareUntouched'
    <2> SUFFICES ASSUME NEW p \in Page
                 PROVE  /\ owner[p] = "firmware" <=> mem'[p][1] = "firmware"
                        /\ mem'[p][1] = "firmware" => mem'[p][2] = p
      BY <1>1 DEF FirmwareUntouched
    <2>1. CASE p \in Span(initrd.more, n)
      <3>1. mem'[p][1] = "initrd" /\ owner[p] = "initrd"
        BY <1>6, <1>7, <2>1
      <3> QED
        BY <3>1
    <2>2. CASE p \notin Span(initrd.more, n)
      <3>1. mem'[p] = mem[p]
        BY <1>6, <2>2
      <3> QED
        BY <3>1 DEF LoadInv, FirmwareUntouched
    <2> QED
      BY <2>1, <2>2
  <1>13. \A p \in Page : owner[p] \in {"kernel", "firmware"} => mem'[p] = mem[p]
    BY <1>6, <1>7
  <1> QED
    BY <1>1, <1>2, <1>8, <1>11, <1>12, <1>13, AfterImage DEF LoadInv, Loaded

LEMMA ReadErrorStep == LoadInv /\ InitrdReadError => LoadInv'
  <1> SUFFICES ASSUME LoadInv, InitrdReadError PROVE LoadInv'
    OBVIOUS
  <1>1. /\ initrd \in [base : Int, size : Nat, more : Int]
        /\ initrd' = [initrd EXCEPT !.size = IF @ = 0 THEN Huge ELSE @]
        /\ pc = "rdread" /\ pc' = "enter" /\ spoiled' = TRUE
        /\ RdInPlace
        /\ UNCHANGED <<owner, mem, kernel, rd, li, flat, seg, rdlen, rdpos, loads, stays>>
    BY DEF InitrdReadError, Fault, LoadInv, Typed, RamdiskGrows
  <1>2. /\ initrd' \in [base : Int, size : Nat, more : Int]
        /\ initrd'.base = initrd.base /\ initrd'.size \in {initrd.size, Huge}
    BY <1>1 DEF Huge
  <1>3. Typed'
    BY <1>1, <1>2 DEF LoadInv, Typed, Holding, Loaded
  <1>4. RamdiskGrows'
    BY <1>1, <1>2 DEF RamdiskGrows, RdInPlace
  <1>5. FirmwareUntouched'
    BY <1>1 DEF LoadInv, FirmwareUntouched
  <1> QED
    BY <1>1, <1>3, <1>4, <1>5, AfterImage DEF LoadInv, Loaded

LEMMA MoreInitrdStep == LoadInv /\ MoreInitrd => LoadInv'
  <1> SUFFICES ASSUME LoadInv, MoreInitrd PROVE LoadInv'
    OBVIOUS
  <1> DEFINE w == initrd.more + rdlen
  <1>1. /\ pc = "rdmore" /\ rd \in Nat /\ rdpos \in Nat /\ rdpos <= rd /\ rdlen \in Nat \ {0}
        /\ initrd \in [base : Int, size : Nat, more : Int]
        /\ initrd.base \in Nat /\ initrd.size \in Nat /\ rdpos = initrd.size
        /\ w = initrd.base + initrd.size /\ w \in Nat
        /\ RdInPlace
        /\ UNCHANGED <<mem, kernel, rd, li, seg, rdlen, rdpos, stays>>
    BY DEF MoreInitrd, LoadInv, Typed, RamdiskGrows
  <1>2. CASE /\ CanClaim(w, rdlen) /\ pc' = "rdread"
             /\ owner' = Claimed(w, rdlen, "initrd")
             /\ initrd' = [initrd EXCEPT !.more = w]
    <2>1. /\ initrd' \in [base : Int, size : Nat, more : Int]
          /\ initrd'.base = initrd.base /\ initrd'.size = initrd.size /\ initrd'.more = w
      BY <1>1, <1>2
    <2> HIDE DEF w
    <2>2. /\ owner' \in [Page -> {"free", "firmware", "kernel", "initrd"}]
          /\ \A p \in Page : owner'[p] = IF p \in Span(w, rdlen) THEN "initrd" ELSE owner[p]
      BY <1>2, ClaimedPage DEF LoadInv
    <2>3. \A p \in Span(w, rdlen) : p \in Page /\ owner[p] = "free"
      BY <1>2 DEF CanClaim
    <2>4. Typed'
      BY <1>1, <1>2, <2>1, <2>2 DEF LoadInv, Typed, Holding, Loaded
    <2>5. RdInPlace'
      BY <1>1, <2>1, <2>2, <2>3 DEF RdInPlace
    <2>6. RamdiskGrows'
      BY <1>1, <1>2, <2>1, <2>2, <2>3, <2>5 DEF RamdiskGrows
    <2>7. FirmwareUntouched'
      BY <1>1, <2>2, <2>3 DEF LoadInv, FirmwareUntouched
    <2> QED
      BY <1>1, <1>2, <2>2, <2>3, <2>4, <2>6, <2>7, AfterImage DEF LoadInv, Loaded
  <1>3. CASE pc' = "enter" /\ spoiled' = TRUE /\ UNCHANGED <<owner, initrd>>
    <2>1. Typed' /\ RamdiskGrows' /\ FirmwareUntouched'
      BY <1>1, <1>3
         DEF LoadInv, Typed, RamdiskGrows, RdInPlace, FirmwareUntouched, Holding, Loaded
    <2> QED
      BY <1>1, <1>3, <2>1, AfterImage DEF LoadInv, Loaded
  <1> QED
    BY <1>2, <1>3 DEF MoreInitrd

(***************************************************************************)
(* The kernel runs, and may return; what it held stays claimed.            *)
(***************************************************************************)
LEMMA EnterStep == LoadInv /\ EnterKernel => LoadInv'
  <1> SUFFICES ASSUME LoadInv, EnterKernel PROVE LoadInv'
    OBVIOUS
  <1>1. Typed'
    BY DEF EnterKernel, LoadInv, Typed, Holding, Loaded
  <1>2. SegmentsInPlace'
    BY DEF EnterKernel, LoadInv, SegmentsInPlace, InPlace, Dest, Loaded
  <1>3. RamdiskGrows' /\ ImageFits' /\ KernelHeld' /\ ScanFits'
    BY DEF EnterKernel, LoadInv, RamdiskGrows, RdInPlace, ImageFits, Within, KernelHeld,
           ScanFits, Holding, Loaded
  <1>4. FirmwareUntouched' /\ ClaimsAccounted'
    BY DEF EnterKernel, LoadInv, FirmwareUntouched, ClaimsAccounted
  <1> QED
    BY <1>1, <1>2, <1>3, <1>4 DEF LoadInv

LEMMA ReturnStep == LoadInv /\ KernelReturns => LoadInv'
  <1> SUFFICES ASSUME LoadInv, KernelReturns PROVE LoadInv'
    OBVIOUS
  <1>1. Typed'
    BY DEF KernelReturns, GiveUp, LoadInv, Typed
  <1>2. FirmwareUntouched'
    BY DEF KernelReturns, LoadInv, FirmwareUntouched
  <1>3. ClaimsAccounted'
    BY DEF KernelReturns, GiveUp, LoadInv, ClaimsAccounted
  <1> QED
    BY <1>1, <1>2, <1>3
       DEF KernelReturns, GiveUp, LoadInv, ScanFits, ImageFits, KernelHeld, SegmentsInPlace,
           RamdiskGrows, Holding, Loaded

LEMMA StutterStep == LoadInv /\ UNCHANGED vars => LoadInv'
  <1> SUFFICES ASSUME LoadInv, UNCHANGED vars PROVE LoadInv'
    OBVIOUS
  <1>1. Typed' /\ FirmwareUntouched' /\ ClaimsAccounted'
    BY DEF vars, LoadInv, Typed, FirmwareUntouched, ClaimsAccounted
  <1>2. ScanFits' /\ ImageFits' /\ KernelHeld'
    BY DEF vars, LoadInv, ScanFits, ImageFits, KernelHeld, Within
  <1>3. SegmentsInPlace' /\ RamdiskGrows'
    BY DEF vars, LoadInv, SegmentsInPlace, InPlace, Dest, RamdiskGrows, RdInPlace
  <1> QED
    BY <1>1, <1>2, <1>3 DEF LoadInv

-----------------------------------------------------------------------------
LEMMA LoadInvariance == Spec => []LoadInv
  <1>1. LoadInv /\ [Next]_vars => LoadInv'
    BY OpenStep, HeaderStep, PhdrsStep, ScanStep, ScanDoneStep, ClaimStep, SkipStep,
       LoadSegmentStep, KernelLoadedStep, NoNameStep, OpenInitrdStep, ClaimInitrdStep,
       ReadInitrdStep, ReadErrorStep, MoreInitrdStep, EnterStep, ReturnStep, StutterStep DEF Next, Rest
  <1> QED
    BY <1>1, LoadInit, PTL DEF Spec

(* Whatever is loaded, and whatever fails on the way, the memory of the    *)
(* firmware and of yaboot is neither written to nor given away.            *)
THEOREM FirmwareIsSafe == Spec => []FirmwareUntouched
  BY LoadInvariance, PTL DEF LoadInv

(* A load that fails leaves no file open, and no memory claimed until a    *)
(* kernel has run or there was no memory for the name of the initrd.       *)
THEOREM FailureIsClean == Spec => []FailureCleansUp
  <1>1. LoadInv => FailureCleansUp
    BY DEF LoadInv, Typed, ClaimsAccounted, FailureCleansUp, Holding, Loaded
  <1> QED
    BY <1>1, LoadInvariance, PTL

(* A kernel is entered with every segment where it was linked, in memory   *)
(* that is its own, although the size claimed was computed from the file   *)
(* offset of the last segment.                                             *)
THEOREM ImageIsIntact == Spec => []ImageIntact
  <1>1. LoadInv => ImageIntact
    <2> SUFFICES ASSUME LoadInv, pc = "kernel",
                        NEW i \in DOMAIN kernel.segs, Loadable(kernel.segs[i])
                 PROVE  /\ InPlace(kernel.segs[i])
                        /\ \A p \in Span(Dest(kernel.segs[i]), kernel.segs[i].memsz) :
                              p \in Page /\ owner[p] = "kernel"
      BY DEF ImageIntact, InPlace
    <2> DEFINE s == kernel.segs[i]
    <2>1. /\ s.vaddr \in Nat /\ s.memsz \in Nat
          /\ li.base \in Int /\ li.memsize \in Nat /\ li.load_loc \in Nat
      BY SegmentTyped DEF LoadInv, Typed, LoadInfo
    <2>2. Within(s)
      BY DEF LoadInv, ImageFits, Holding, Loaded
    <2>3. Span(Dest(s), s.memsz) \subseteq Span(li.base, li.memsize)
      BY <2>1, <2>2 DEF Within, Dest, Span
    <2> QED
      BY <2>3 DEF LoadInv, KernelHeld, SegmentsInPlace, Holding, Loaded
  <1> QED
    BY <1>1, LoadInvariance, PTL

(* The initrd handed to a kernel is the start of the file, in one piece    *)
(* and in its own memory, and all of the file unless something failed; the *)
(* one exception is a first read that is answered with -1.                 *)
THEOREM InitrdIsIntact == Spec => []InitrdIntact
  <1>1. LoadInv => InitrdIntact
    BY DEF LoadInv, RamdiskGrows, RdInPlace, InitrdIntact
  <1> QED
    BY <1>1, LoadInvariance, PTL
=============================================================================
