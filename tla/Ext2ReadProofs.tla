--------------------------- MODULE Ext2ReadProofs ---------------------------
(***************************************************************************)
(* ext2_read delivers the file (DeliversContent) and implements FileReader *)
(* for every block size, range limit, block map, position, length and      *)
(* number of failing disk reads.                                           *)
(***************************************************************************)
EXTENDS Ext2Read, TLAPS

(***************************************************************************)
(* The invariant, over the record r of the read_* statics.                 *)
(***************************************************************************)
Byte == Nat \X Nat

ReadState == [range_start : Nat, range_count : Nat, last_logical : Nat, max : Nat,
              pos : Nat, buffer : Seq(Byte)]

(* What has been delivered is the file's, and is accounted for.            *)
Sound(r) ==
    /\ r \in ReadState
    /\ r.pos = from + Len(r.buffer) /\ r.max + Len(r.buffer) = size
    /\ \A i \in 1 .. Len(r.buffer) : r.buffer[i] = Content(from + i - 1)

Idle(r) == r.range_start = 0

(* A pending range is a run of blocks of the file from the position on,    *)
(* and reading all but its last block does not deliver too much.           *)
RangeSound(r) ==
    ~Idle(r) =>
        /\ r.range_count >= 1 /\ (r.range_count - 1) * bs <= r.max
        /\ r.max > 0 =>
              /\ r.pos = r.last_logical * bs
              /\ r.last_logical + r.range_count <= Len(map)
              /\ \A k \in 0 .. r.range_count - 1 :
                    map[r.last_logical + k + 1] = r.range_start + k

(* The position is byte o of block q, and read_last_logical is q.          *)
At(r, q, o) == r.last_logical = q /\ r.pos = q * bs + o

(* From logical block q to n the file has only holes.                      *)
HolesFrom(q, n) == \A k \in 0 .. n - 1 : k >= q => map[k + 1] = 0

(* Between two calls of the iterator everything before block n that the    *)
(* file has is delivered or in the range, and more is wanted.              *)
BetweenCalls(r, n) ==
    /\ Sound(r) /\ RangeSound(r)
    /\ Idle(r) => \E q \in Nat, o \in 0 .. bs - 1 : At(r, q, o) /\ HolesFrom(q, n)
    /\ ~Idle(r) => /\ r.range_count * bs < r.max
                   /\ r.last_logical + r.range_count <= n
                   /\ HolesFrom(r.last_logical + r.range_count, n)

(* After the last call, unless a read failed: what is still wanted is in   *)
(* the range, or all the file has is.                                      *)
Settled(r) ==
    \/ r.max = 0
    \/ ~Idle(r) /\ r.max <= r.range_count * bs
    \/ Idle(r) /\ \E q \in Nat, o \in 0 .. bs - 1 :
                    r.pos = q * bs + o /\ HolesFrom(q, Len(map))
    \/ ~Idle(r) /\ HolesFrom(r.last_logical + r.range_count, Len(map))

AfterCalls(r) == Sound(r) /\ RangeSound(r)

Finished(r) ==
    \/ r.max = 0
    \/ \E q \in Nat, o \in 0 .. bs - 1 : r.pos = q * bs + o /\ HolesFrom(q, Len(map))

ReadInv ==
    /\ map \in Maps /\ from \in Nat /\ size \in Nat /\ faults \in Nat
    /\ pc \in {"idle", "iterate", "final", "done"}
    /\ pc = "idle" => rd \in ReadState /\ rd.pos = from /\ rd.buffer = <<>>
    /\ pc = "iterate" => next \in 0 .. Len(map) /\ BetweenCalls(rd, next)
    /\ pc = "final" => AfterCalls(rd) /\ (faults = 0 => Settled(rd))
    /\ pc = "done" => Sound(rd) /\ (faults = 0 => Finished(rd))

(* What holds of the file and the call throughout.                         *)
Call ==
    /\ map \in Seq(Nat) /\ Len(map) \in Nat /\ DOMAIN map = 1 .. Len(map)
    /\ from \in Nat /\ size \in Nat

-----------------------------------------------------------------------------
(***************************************************************************)
(* Blocks and offsets.                                                     *)
(***************************************************************************)
LEMMA BlockSize == bs \in Nat /\ bs >= 1
  BY ReadAssumption

LEMMA MulMono ==
    ASSUME NEW a \in Int, NEW b \in Int, a <= b
    PROVE  a * bs <= b * bs
  BY ReadAssumption

LEMMA MulNat ==
    ASSUME NEW a \in Nat
    PROVE  a * bs \in Nat
  BY ReadAssumption

LEMMA QuotientRemainder ==
    ASSUME NEW p \in Nat, NEW q \in Nat, NEW o \in Nat, q = p \div bs, o = p % bs
    PROVE  p = q * bs + o
  BY ReadAssumption

LEMMA DivMod ==
    ASSUME NEW p \in Nat
    PROVE  \E q \in Nat, o \in 0 .. bs - 1 : p \div bs = q /\ p % bs = o /\ p = q * bs + o
  <1>1. p \div bs \in Nat /\ p % bs \in 0 .. bs - 1
    BY ReadAssumption
  <1>2. \A q, o \in Nat : q = p \div bs /\ o = p % bs => p = q * bs + o
    BY QuotientRemainder
  <1> QED
    BY <1>1, <1>2, ReadAssumption

LEMMA DivUnique ==
    ASSUME NEW p \in Nat, NEW q \in Nat, NEW o \in 0 .. bs - 1, p = q * bs + o
    PROVE  p \div bs = q /\ p % bs = o
  <1>1. PICK k \in Nat, l \in 0 .. bs - 1 : p \div bs = k /\ p % bs = l /\ p = k * bs + l
    BY DivMod
  <1>2. (q - k) * bs = l - o
    BY <1>1, ReadAssumption
  <1>3. ~(q - k >= 1)
    <2> SUFFICES ASSUME q - k >= 1 PROVE FALSE
      OBVIOUS
    <2>1. (q - k) * bs >= 1 * bs
      BY <1>1, MulMono
    <2> QED
      BY <1>1, <1>2, <2>1, ReadAssumption
  <1>4. ~(q - k <= -1)
    <2> SUFFICES ASSUME q - k <= -1 PROVE FALSE
      OBVIOUS
    <2>1. (q - k) * bs <= (-1) * bs
      BY <1>1, MulMono
    <2> QED
      BY <1>1, <1>2, <2>1, ReadAssumption
  <1>5. q = k
    BY <1>1, <1>3, <1>4
  <1> QED
    BY <1>1, <1>5, ReadAssumption

(* Byte o of logical block q.                                              *)
LEMMA ContentAt ==
    ASSUME Call, NEW q \in Nat, NEW o \in 0 .. bs - 1
    PROVE  /\ q < Len(map) /\ map[q + 1] # 0 => Content(q * bs + o) = <<map[q + 1], o>>
           /\ ~(q < Len(map) /\ map[q + 1] # 0) => Content(q * bs + o) = Zero
  <1>1. q * bs + o \in Nat
    BY MulNat, ReadAssumption
  <1>2. (q * bs + o) \div bs = q /\ (q * bs + o) % bs = o
    BY <1>1, DivUnique
  <1> QED
    BY <1>2 DEF Content

LEMMA BlocksAre ==
    ASSUME NEW b \in Nat, NEW n \in Nat
    PROVE  /\ Blocks(b, n) \in Seq(Byte) /\ Len(Blocks(b, n)) = n * bs
           /\ \A i \in 1 .. n * bs : \E q \in 0 .. n - 1, o \in 0 .. bs - 1 :
                 i - 1 = q * bs + o /\ Blocks(b, n)[i] = <<b + q, o>>
  <1>1. n * bs \in Nat
    BY MulNat
  <1>2. ASSUME NEW i \in 1 .. n * bs
        PROVE  \E q \in 0 .. n - 1, o \in 0 .. bs - 1 :
                  /\ i - 1 = q * bs + o
                  /\ <<b + (i - 1) \div bs, (i - 1) % bs>> = <<b + q, o>>
    <2>0. i - 1 \in Nat
      BY <1>1
    <2>1. PICK q \in Nat, o \in 0 .. bs - 1 :
              (i - 1) \div bs = q /\ (i - 1) % bs = o /\ i - 1 = q * bs + o
      <3> DEFINE p == i - 1
      <3>1. p \in Nat
        BY <2>0
      <3> HIDE DEF p
      <3>2. \E q \in Nat, o \in 0 .. bs - 1 : p \div bs = q /\ p % bs = o /\ p = q * bs + o
        BY <3>1, DivMod
      <3> QED
        BY <3>2 DEF p
    <2>2. ~(n <= q)
      <3> SUFFICES ASSUME n <= q PROVE FALSE
        OBVIOUS
      <3>1. n * bs <= q * bs
        BY MulMono
      <3> QED
        BY <1>1, <2>1, <3>1, MulNat, ReadAssumption
    <2> QED
      BY <2>1, <2>2
  <1>3. \A i \in 1 .. n * bs : <<b + (i - 1) \div bs, (i - 1) % bs>> \in Byte
    <2> SUFFICES ASSUME NEW i \in 1 .. n * bs
                 PROVE  <<b + (i - 1) \div bs, (i - 1) % bs>> \in Byte
      OBVIOUS
    <2>1. PICK q \in 0 .. n - 1, o \in 0 .. bs - 1 :
              <<b + (i - 1) \div bs, (i - 1) % bs>> = <<b + q, o>>
      BY <1>2
    <2>2. <<b + q, o>> \in Byte
      BY ReadAssumption DEF Byte
    <2> QED
      BY <2>1, <2>2
  <1> DEFINE bytes == [i \in 1 .. n * bs |-> <<b + (i - 1) \div bs, (i - 1) % bs>>]
  <1>6. bytes \in [1 .. n * bs -> Byte]
    BY <1>3
  <1> DEFINE top == n * bs
  <1>4. bytes \in Seq(Byte) /\ Len(bytes) = n * bs
    <2>1. bytes \in [1 .. top -> Byte] /\ top \in Nat
      BY <1>1, <1>6
    <2> HIDE DEF bytes, top
    <2>2. bytes \in Seq(Byte) /\ Len(bytes) = top
      BY <2>1
    <2> QED
      BY <2>2 DEF top
  <1>5. bytes = Blocks(b, n)
    BY DEF Blocks
  <1> QED
    BY <1>2, <1>4, <1>5

LEMMA ZerosAre ==
    ASSUME NEW n \in Nat
    PROVE  /\ Zeros(n) \in Seq(Byte) /\ Len(Zeros(n)) = n
           /\ \A i \in 1 .. n : Zeros(n)[i] = Zero
  BY DEF Zeros, Zero, Byte

(***************************************************************************)
(* Delivering.                                                             *)
(***************************************************************************)
LEMMA DeliverFields ==
    ASSUME NEW r \in ReadState, NEW bytes \in Seq(Byte), Len(bytes) <= r.max
    PROVE  /\ Deliver(r, bytes) \in ReadState
           /\ Deliver(r, bytes).buffer = r.buffer \o bytes
           /\ Deliver(r, bytes).pos = r.pos + Len(bytes)
           /\ Deliver(r, bytes).max = r.max - Len(bytes)
           /\ Deliver(r, bytes).range_start = r.range_start
           /\ Deliver(r, bytes).range_count = r.range_count
           /\ Deliver(r, bytes).last_logical = r.last_logical
  <1> DEFINE d == Deliver(r, bytes)
  <1>1. /\ d.buffer = r.buffer \o bytes
        /\ d.pos = r.pos + Len(bytes)
        /\ d.max = r.max - Len(bytes)
        /\ d.range_start = r.range_start
        /\ d.range_count = r.range_count
        /\ d.last_logical = r.last_logical
        /\ d = [range_start |-> d.range_start, range_count |-> d.range_count,
                last_logical |-> d.last_logical, max |-> d.max, pos |-> d.pos,
                buffer |-> d.buffer]
    <2> DEFINE b1 == r.buffer \o bytes
               p1 == r.pos + Len(bytes)
               m1 == r.max - Len(bytes)
    <2>1. d = [r EXCEPT !.buffer = b1, !.pos = p1, !.max = m1]
      BY DEF Deliver
    <2> HIDE DEF b1, p1, m1, d
    <2>2. /\ d.buffer = b1 /\ d.pos = p1 /\ d.max = m1
          /\ d.range_start = r.range_start /\ d.range_count = r.range_count
          /\ d.last_logical = r.last_logical
          /\ d = [range_start |-> d.range_start, range_count |-> d.range_count,
                  last_logical |-> d.last_logical, max |-> d.max, pos |-> d.pos,
                  buffer |-> d.buffer]
      BY <2>1 DEF ReadState
    <2> QED
      BY <2>2 DEF b1, p1, m1
  <1>2. Len(bytes) \in Nat /\ r.buffer \o bytes \in Seq(Byte)
    BY DEF ReadState
  <1>3. r.max - Len(bytes) \in Nat /\ r.pos + Len(bytes) \in Nat
    BY <1>2 DEF ReadState
  <1> HIDE DEF d
  <1>4. d \in ReadState
    BY <1>1, <1>2, <1>3 DEF ReadState
  <1> QED
    BY <1>1, <1>4 DEF d

LEMMA DeliverSound ==
    ASSUME Call, NEW r, Sound(r), NEW bytes \in Seq(Byte), Len(bytes) <= r.max,
           \A i \in 1 .. Len(bytes) : bytes[i] = Content(r.pos + i - 1)
    PROVE  Sound(Deliver(r, bytes))
  <1> DEFINE d == Deliver(r, bytes)
             old == Len(r.buffer)
             n == Len(bytes)
  <1>1. r \in ReadState /\ r.buffer \in Seq(Byte) /\ old \in Nat /\ n \in Nat /\ r.pos = from + old
    BY DEF Sound, ReadState
  <1>2. /\ d \in ReadState /\ d.buffer = r.buffer \o bytes /\ d.pos = r.pos + n
        /\ d.max = r.max - n
    BY <1>1, DeliverFields
  <1>3. Len(r.buffer \o bytes) = old + n
    BY <1>1
  <1>4. ASSUME NEW i \in 1 .. old + n
        PROVE  (r.buffer \o bytes)[i] = Content(from + i - 1)
    <2>1. CASE i <= old
      <3>1. (r.buffer \o bytes)[i] = r.buffer[i]
        BY <1>1, <2>1
      <3> QED
        BY <1>1, <2>1, <3>1 DEF Sound
    <2>2. CASE i > old
      <3>0. i - old \in 1 .. n
        BY <1>1, <2>2
      <3>1. (r.buffer \o bytes)[i] = bytes[i - old] /\ i - old \in 1 .. n
        BY <1>1, <2>2, <3>0
      <3>2. r.pos + (i - old) - 1 = from + i - 1
        <4>1. from \in Nat /\ i \in Int
          BY <1>1 DEF Call
        <4> HIDE DEF old
        <4> QED
          BY <1>1, <4>1
      <3> QED
        BY <3>1, <3>2
    <2> QED
      BY <1>1, <2>1, <2>2
  <1>5. d.pos = from + (old + n) /\ d.max + (old + n) = size
    <2>1. r.max \in Nat /\ r.max + old = size
      BY <1>1 DEF Sound, ReadState
    <2> QED
      BY <1>1, <1>2, <2>1 DEF Call
  <1> QED
    BY <1>2, <1>3, <1>4, <1>5 DEF Sound

(* Only the buffer, the position and the length count.                     *)
LEMMA SoundSame ==
    ASSUME NEW r, Sound(r), NEW s \in ReadState,
           s.pos = r.pos, s.max = r.max, s.buffer = r.buffer
    PROVE  Sound(s)
  BY DEF Sound

(***************************************************************************)
(* The bytes of blocks the file has.                                       *)
(***************************************************************************)
LEMMA BlocksContent ==
    ASSUME Call, NEW q \in Nat, NEW b \in Nat, b # 0, NEW n \in Nat, q + n <= Len(map),
           \A k \in 0 .. n - 1 : map[q + k + 1] = b + k
    PROVE  \A i \in 1 .. n * bs : Blocks(b, n)[i] = Content(q * bs + i - 1)
  <1> SUFFICES ASSUME NEW i \in 1 .. n * bs
               PROVE  Blocks(b, n)[i] = Content(q * bs + i - 1)
    OBVIOUS
  <1>1. PICK k \in 0 .. n - 1, o \in 0 .. bs - 1 :
            i - 1 = k * bs + o /\ Blocks(b, n)[i] = <<b + k, o>>
    BY BlocksAre
  <1>2. q + k \in Nat /\ q + k < Len(map) /\ map[(q + k) + 1] = b + k /\ b + k # 0
    <2>1. Len(map) \in Nat /\ k \in Nat /\ k < n
      BY DEF Call
    <2>2. map[q + k + 1] = b + k
      OBVIOUS
    <2>3. q + k + 1 = (q + k) + 1
      BY <2>1
    <2> QED
      BY <2>1, <2>2, <2>3
  <1>3. Content((q + k) * bs + o) = <<b + k, o>>
    BY <1>2, ContentAt
  <1>4. (q + k) * bs + o = q * bs + i - 1
    <2>1. n * bs \in Nat /\ i \in Int /\ q * bs \in Nat /\ k * bs \in Nat
      <3>1. k \in Nat
        OBVIOUS
      <3>2. n * bs \in Nat /\ q * bs \in Nat /\ k * bs \in Nat
        BY <3>1, MulNat
      <3> QED
        BY <3>2
    <2>2. (q + k) * bs = q * bs + k * bs
      BY ReadAssumption
    <2> QED
      BY <1>1, <2>1, <2>2
  <1> QED
    BY <1>1, <1>3, <1>4

(* Disk block b is logical block q of the file.                            *)
BlockAt(q, b) == q \in Nat /\ q < Len(map) /\ b \in Nat /\ b # 0 /\ map[q + 1] = b

(* n bytes of the file from byte o of logical block q on.                  *)
BytesFrom(bytes, q, o, n) ==
    /\ bytes \in Seq(Byte) /\ Len(bytes) = n
    /\ \A i \in 1 .. n : bytes[i] = Content((q * bs + o) + i - 1)

LEMMA PartContent ==
    ASSUME Call, NEW q, NEW b, BlockAt(q, b),
           NEW o \in 0 .. bs - 1, NEW n \in Nat, o + n <= bs,
           NEW bytes, bytes = SubSeq(Blocks(b, 1), o + 1, o + n)
    PROVE  BytesFrom(bytes, q, o, n)
  <1> USE DEF BlockAt
  <1> DEFINE block == Blocks(b, 1)
             p == q * bs + o
  <1>0. bytes = SubSeq(block, o + 1, o + n)
    OBVIOUS
  <1>1. block \in Seq(Byte) /\ Len(block) = bs
    <2>1. 1 * bs = bs
      BY ReadAssumption
    <2>2. Blocks(b, 1) \in Seq(Byte) /\ Len(Blocks(b, 1)) = 1 * bs
      BY BlocksAre
    <2> QED
      BY <2>1, <2>2
  <1>2. \A i \in 1 .. bs : block[i] = Content(q * bs + i - 1)
    <2>1. 1 * bs = bs
      BY ReadAssumption
    <2>2. \A k \in 0 .. 1 - 1 : map[q + k + 1] = b + k
      OBVIOUS
    <2>3. q + 1 <= Len(map)
      BY DEF Call
    <2>4. \A i \in 1 .. 1 * bs : Blocks(b, 1)[i] = Content(q * bs + i - 1)
      <3> DEFINE one == 1
      <3>1. /\ one \in Nat /\ q + one <= Len(map)
            /\ \A k \in 0 .. one - 1 : map[q + k + 1] = b + k
        BY <2>2, <2>3
      <3> HIDE DEF one
      <3>2. \A i \in 1 .. one * bs : Blocks(b, one)[i] = Content(q * bs + i - 1)
        BY <3>1, BlocksContent
      <3> QED
        BY <3>2 DEF one
    <2> QED
      BY <2>1, <2>4
  <1> HIDE DEF block
  <1>3. bytes \in Seq(Byte) /\ Len(bytes) = n
    BY <1>0, <1>1, ReadAssumption
  <1>4. ASSUME NEW i \in 1 .. n
        PROVE  bytes[i] = Content(p + i - 1)
    <2>1. bytes[i] = block[o + i] /\ o + i \in 1 .. bs
      BY <1>0, <1>1, ReadAssumption
    <2>2. q * bs + (o + i) - 1 = p + i - 1
      BY MulNat, ReadAssumption
    <2> QED
      BY <1>2, <2>1, <2>2
  <1> QED
    BY <1>3, <1>4 DEF BytesFrom

(***************************************************************************)
(* read_dump_range.                                                        *)
(***************************************************************************)
(* A pending range that has still to be read.                              *)
Pending(r) == Sound(r) /\ RangeSound(r) /\ ~Idle(r)

LEMMA WholeFits ==
    ASSUME NEW r, Pending(r)
    PROVE  LET n == WholeBlocks(r)
           IN  /\ n \in Nat /\ n <= r.range_count /\ n * bs \in Nat /\ n * bs <= r.max
               /\ r.range_count * bs <= r.max => n = r.range_count
               /\ r.max < r.range_count * bs => n = r.range_count - 1 /\ r.max - n * bs < bs
  <1> DEFINE c == r.range_count
  <1>1. /\ c \in Nat /\ r.max \in Nat /\ c >= 1 /\ (c - 1) * bs <= r.max
        /\ c - 1 \in Nat
    BY DEF Pending, Sound, ReadState, RangeSound, Idle
  <1>2. c * bs \in Nat /\ (c - 1) * bs \in Nat
    BY <1>1, MulNat
  <1>3. c * bs = (c - 1) * bs + bs
    BY <1>1, ReadAssumption
  <1> QED
    BY <1>1, <1>2, <1>3, ReadAssumption DEF WholeBlocks

LEMMA DumpWholeIs ==
    ASSUME Call, NEW r, Pending(r)
    PROVE  LET n == WholeBlocks(r)
               w == DumpWhole(r)
           IN  /\ Sound(w) /\ w.range_count = r.range_count - n
               /\ w.range_start = r.range_start + n /\ w.last_logical = r.last_logical + n
               /\ w.pos = r.pos + n * bs /\ w.max = r.max - n * bs
  <1> DEFINE n == WholeBlocks(r)
             bytes == Blocks(r.range_start, n)
             v == Deliver(r, bytes)
  <1>1. /\ r \in ReadState /\ r.range_start \in Nat /\ r.range_start # 0
        /\ r.range_count \in Nat /\ r.last_logical \in Nat /\ r.pos \in Nat /\ r.max \in Nat
    BY DEF Pending, Sound, ReadState, Idle
  <1>2. /\ n \in Nat /\ n <= r.range_count /\ n * bs \in Nat /\ n * bs <= r.max
    BY WholeFits
  <1> HIDE DEF n
  <1>3. bytes \in Seq(Byte) /\ Len(bytes) = n * bs
    BY <1>1, <1>2, BlocksAre
  <1>4. \A i \in 1 .. Len(bytes) : bytes[i] = Content(r.pos + i - 1)
    <2>1. CASE r.max = 0
      BY <1>1, <1>2, <1>3, <2>1
    <2>2. CASE r.max > 0
      <3>1. /\ r.pos = r.last_logical * bs /\ r.last_logical + r.range_count <= Len(map)
            /\ \A k \in 0 .. r.range_count - 1 : map[r.last_logical + k + 1] = r.range_start + k
        BY <2>2 DEF Pending, RangeSound
      <3>2. \A k \in 0 .. n - 1 : map[r.last_logical + k + 1] = r.range_start + k
        <4>1. ASSUME NEW k \in 0 .. n - 1 PROVE k \in 0 .. r.range_count - 1
          BY <1>1, <1>2
        <4> QED
          BY <3>1, <4>1
      <3>3. r.last_logical + n <= Len(map)
        BY <1>1, <1>2, <3>1 DEF Call
      <3>4. \A i \in 1 .. n * bs : bytes[i] = Content(r.last_logical * bs + i - 1)
        <4> DEFINE a == r.range_start
                   l == r.last_logical
        <4>1. /\ a \in Nat /\ a # 0 /\ l \in Nat /\ l + n <= Len(map)
              /\ \A k \in 0 .. n - 1 : map[l + k + 1] = a + k
          BY <1>1, <3>2, <3>3
        <4> HIDE DEF a, l
        <4>2. \A i \in 1 .. n * bs : Blocks(a, n)[i] = Content(l * bs + i - 1)
          BY <1>2, <4>1, BlocksContent
        <4> QED
          BY <4>2 DEF a, l
      <3> QED
        BY <1>3, <3>1, <3>4
    <2> QED
      BY <1>1, <2>1, <2>2
  <1>5. Sound(v)
    BY <1>2, <1>3, <1>4, DeliverSound DEF Pending
  <1>6. /\ v \in ReadState /\ v.pos = r.pos + n * bs /\ v.max = r.max - n * bs
        /\ v.range_start = r.range_start /\ v.range_count = r.range_count
        /\ v.last_logical = r.last_logical
    BY <1>1, <1>2, <1>3, DeliverFields
  <1> HIDE DEF v, bytes
  <1> DEFINE s == [v EXCEPT !.range_count = v.range_count - n, !.range_start = v.range_start + n,
                            !.last_logical = v.last_logical + n]
  <1>7. DumpWhole(r) = s
    BY DEF DumpWhole, v, bytes, n
  <1>8. /\ s \in ReadState /\ s.range_start = r.range_start + n
        /\ s.range_count = r.range_count - n /\ s.last_logical = r.last_logical + n
        /\ s.pos = v.pos /\ s.max = v.max /\ s.buffer = v.buffer
    <2>1. v.range_count - n \in Nat /\ v.range_start + n \in Nat /\ v.last_logical + n \in Nat
      BY <1>1, <1>2, <1>6
    <2> DEFINE c1 == v.range_count - n
               a1 == v.range_start + n
               l1 == v.last_logical + n
    <2>2. s = [v EXCEPT !.range_count = c1, !.range_start = a1, !.last_logical = l1]
      OBVIOUS
    <2> HIDE DEF s, c1, a1, l1
    <2>3. /\ s \in ReadState /\ s.range_start = a1 /\ s.range_count = c1
          /\ s.last_logical = l1 /\ s.pos = v.pos /\ s.max = v.max /\ s.buffer = v.buffer
      <3>1. c1 \in Nat /\ a1 \in Nat /\ l1 \in Nat
        BY <2>1 DEF c1, a1, l1
      <3> QED
        BY <1>6, <2>2, <3>1 DEF ReadState
    <2> QED
      BY <1>6, <2>3 DEF c1, a1, l1
  <1> HIDE DEF s
  <1>9. Sound(s)
    BY <1>5, <1>8, SoundSame
  <1> QED
    BY <1>6, <1>7, <1>8, <1>9 DEF n

(* What is left of a range that is cut short is one block, and the part of *)
(* it that is wanted is within the block.                                  *)
LEMMA PartPending ==
    ASSUME Call, NEW r, Pending(r), DumpWhole(r).max > 0, DumpWhole(r).range_count > 0
    PROVE  LET w == DumpWhole(r)
           IN  /\ Pending(w) /\ w.max < bs /\ w.last_logical < Len(map)
               /\ map[w.last_logical + 1] = w.range_start
               /\ w.pos = w.last_logical * bs
  <1> DEFINE n == WholeBlocks(r)
             w == DumpWhole(r)
             c == r.range_count
             l == r.last_logical
             a == r.range_start
  <1>1. /\ c \in Nat /\ c >= 1 /\ l \in Nat /\ r.pos \in Nat /\ r.max \in Nat
        /\ a \in Nat /\ a # 0
    BY DEF Pending, Sound, ReadState, RangeSound, Idle
  <1>2. /\ n \in Nat /\ n <= c /\ n * bs \in Nat /\ c * bs \in Nat
        /\ c * bs <= r.max => n = c
        /\ r.max < c * bs => n = c - 1 /\ r.max - n * bs < bs
    <2>1. c * bs \in Nat
      BY <1>1, MulNat
    <2> QED
      BY <2>1, WholeFits
  <1>3. /\ Sound(w) /\ w.range_count = c - n /\ w.range_start = a + n
        /\ w.last_logical = l + n /\ w.pos = r.pos + n * bs /\ w.max = r.max - n * bs
    BY DumpWholeIs
  <1>4. w.max > 0 /\ w.range_count > 0
    OBVIOUS
  <1> HIDE DEF n, w
  <1>5. r.max > 0 /\ n = c - 1 /\ w.range_count = 1 /\ w.max < bs
    BY <1>1, <1>2, <1>3, <1>4
  <1>6. /\ r.pos = l * bs /\ l + c <= Len(map) /\ map[l + n + 1] = a + n
    <2>1. /\ r.pos = l * bs /\ l + c <= Len(map)
          /\ \A k \in 0 .. c - 1 : map[l + k + 1] = a + k
      BY <1>5 DEF Pending, RangeSound
    <2>2. n \in 0 .. c - 1
      BY <1>1, <1>2, <1>5
    <2> QED
      BY <2>1, <2>2
  <1>7. w.last_logical + 1 <= Len(map)
    <2>1. Len(map) \in Nat
      BY DEF Call
    <2> QED
      BY <2>1, <1>1, <1>2, <1>3, <1>5, <1>6
  <1>8. w.pos = w.last_logical * bs
    <2>1. (l + n) * bs = l * bs + n * bs
      BY <1>1, <1>2, ReadAssumption
    <2> QED
      BY <2>1, <1>3, <1>6
  <1>9. map[w.last_logical + 1] = w.range_start /\ w.range_start # 0
    BY <1>1, <1>2, <1>3, <1>6
  <1>10. w.last_logical \in Nat /\ w.last_logical < Len(map) /\ w.range_start \in Nat /\ w.max \in Nat
    <2>1. Len(map) \in Nat
      BY DEF Call
    <2>2. w.last_logical \in Nat /\ w.range_start \in Nat /\ w.max \in Nat
      BY <1>3 DEF Sound, ReadState
    <2> QED
      BY <1>7, <2>1, <2>2
  <1>11. RangeSound(w)
    <2>1. \A k \in 0 .. w.range_count - 1 : map[w.last_logical + k + 1] = w.range_start + k
      BY <1>5, <1>9, <1>10
    <2>2. (w.range_count - 1) * bs <= w.max
      BY <1>5, <1>10, ReadAssumption
    <2> QED
      BY <1>5, <1>7, <1>8, <2>1, <2>2 DEF RangeSound
  <1>12. Pending(w)
    BY <1>3, <1>9, <1>11 DEF Pending, Idle
  <1> QED
    BY <1>5, <1>8, <1>9, <1>10, <1>12 DEF w

(* After a call that failed nowhere, the range is gone and delivered, or   *)
(* as much of it as was wanted.                                            *)
LEMMA DumpIs ==
    ASSUME Call, NEW r, Pending(r)
    PROVE  LET d == read_dump_range(r, 0).rd
           IN  /\ Sound(d) /\ Idle(d) /\ d.max <= r.max
               /\ read_dump_range(r, 0).abort = (d.max = 0)
               /\ r.range_count * bs <= r.max => d.max = r.max - r.range_count * bs
               /\ \/ d.max = 0
                  \/ /\ r.max > 0 /\ r.range_count * bs <= r.max
                     /\ d.max = r.max - r.range_count * bs
                     /\ d.last_logical = r.last_logical + r.range_count
                     /\ d.pos = d.last_logical * bs
  <1> DEFINE n == WholeBlocks(r)
             w == DumpWhole(r)
             p == DumpPart(w)
             d == NoRange(p)
             c == r.range_count
             l == r.last_logical
  <1>1. /\ c \in Nat /\ c >= 1 /\ l \in Nat /\ r.pos \in Nat /\ r.max \in Nat
    BY DEF Pending, Sound, ReadState, RangeSound, Idle
  <1>2. /\ n \in Nat /\ n <= c /\ n * bs \in Nat /\ c * bs \in Nat /\ n * bs <= r.max
        /\ c * bs <= r.max => n = c
        /\ r.max < c * bs => n = c - 1 /\ r.max - n * bs < bs
    <2>1. c * bs \in Nat
      BY <1>1, MulNat
    <2> QED
      BY <2>1, WholeFits
  <1>3. /\ Sound(w) /\ w.range_count = c - n
        /\ w.last_logical = l + n /\ w.pos = r.pos + n * bs /\ w.max = r.max - n * bs
    BY DumpWholeIs
  <1>4. read_dump_range(r, 0).rd = d /\ read_dump_range(r, 0).abort = (d.max = 0)
    BY DEF read_dump_range
  <1>5. ASSUME w.max > 0, w.range_count > 0
        PROVE  Sound(p) /\ p.max = 0
    <2> DEFINE bytes == SubSeq(Blocks(w.range_start, 1), 1, w.max)
               q == w.last_logical
               b == w.range_start
               m == w.max
    <2>1. /\ Pending(w) /\ m < bs /\ q < Len(map) /\ map[q + 1] = b /\ w.pos = q * bs
      BY <1>5, PartPending
    <2>2. q \in Nat /\ b \in Nat /\ b # 0 /\ m \in Nat /\ w \in ReadState
      BY <2>1 DEF Pending, Sound, ReadState, Idle
    <2> HIDE DEF q, b, m, w
    <2> DEFINE z == 0
    <2>3. z \in 0 .. bs - 1 /\ z + m <= bs
      BY <2>1, <2>2, ReadAssumption
    <2>4. bytes = SubSeq(Blocks(b, 1), z + 1, z + m) /\ w.pos = q * bs + z
      <3>1. z + 1 = 1 /\ z + m = m /\ q * bs + z = q * bs
        BY <2>2, MulNat
      <3> QED
        BY <2>1, <3>1 DEF b, m
    <2> HIDE DEF bytes, z
    <2>5. /\ bytes \in Seq(Byte) /\ Len(bytes) = m
          /\ \A i \in 1 .. m : bytes[i] = Content(w.pos + i - 1)
      <3>1. BlockAt(q, b)
        BY <2>1, <2>2 DEF BlockAt
      <3>2. BytesFrom(bytes, q, z, m)
        BY <2>2, <2>3, <2>4, <3>1, PartContent
      <3> QED
        BY <2>4, <3>2 DEF BytesFrom
    <2>6. Deliver(w, bytes).max = w.max - Len(bytes)
      BY <2>2, <2>5, DeliverFields DEF m
    <2>7. Sound(Deliver(w, bytes))
      BY <1>3, <2>2, <2>5, DeliverSound DEF m
    <2>8. p = Deliver(w, bytes)
      BY <1>5 DEF DumpPart, bytes
    <2> QED
      BY <2>2, <2>5, <2>6, <2>7, <2>8 DEF m
  <1>6. ASSUME ~(w.max > 0 /\ w.range_count > 0)
        PROVE  p = w
    BY <1>6 DEF DumpPart
  <1> HIDE DEF w, n
  <1>7. Sound(p) /\ p.max <= w.max
    <2>1. w.max \in Nat
      BY <1>1, <1>2, <1>3
    <2> QED
      BY <1>3, <1>5, <1>6, <2>1
  <1> HIDE DEF p
  <1>8. /\ d \in ReadState /\ d.range_start = 0 /\ d.pos = p.pos /\ d.max = p.max
        /\ d.buffer = p.buffer /\ d.last_logical = p.last_logical
    BY <1>7 DEF Sound, ReadState, NoRange
  <1> HIDE DEF d
  <1>9. Sound(d)
    BY <1>7, <1>8, SoundSame
  <1>10. d.max <= r.max
    BY <1>1, <1>2, <1>3, <1>5, <1>6, <1>8
  <1>11. d.max = 0 \/ /\ r.max > 0 /\ c * bs <= r.max /\ d.max = r.max - c * bs
                      /\ d.last_logical = l + c /\ d.pos = d.last_logical * bs
    <2>1. CASE w.max > 0 /\ w.range_count > 0
      BY <1>5, <1>8, <2>1
    <2>2. CASE w.max = 0
      BY <1>6, <1>8, <2>2
    <2>3. CASE w.max > 0 /\ ~(w.range_count > 0)
      <3>1. n = c /\ p = w /\ r.max > 0
        BY <1>1, <1>2, <1>3, <1>6, <2>3
      <3>2. r.pos = l * bs
        BY <3>1 DEF Pending, RangeSound
      <3>3. (l + n) * bs = l * bs + n * bs
        BY <1>1, <1>2, ReadAssumption
      <3> QED
        BY <1>1, <1>2, <1>3, <1>8, <3>1, <3>2, <3>3
    <2> QED
      BY <2>1, <2>2, <2>3, <1>1, <1>2, <1>3
  <1>12. c * bs <= r.max => d.max = r.max - c * bs
    BY <1>1, <1>2, <1>3, <1>6, <1>8
  <1> QED
    BY <1>4, <1>8, <1>9, <1>10, <1>11, <1>12 DEF Idle

-----------------------------------------------------------------------------
(***************************************************************************)
(* read_iterator once no range is pending.                                 *)
(***************************************************************************)
LEMMA DeliverFrom ==
    ASSUME Call, NEW r, Sound(r), NEW bytes, NEW q, NEW o, NEW n \in Nat,
           BytesFrom(bytes, q, o, n), r.pos = q * bs + o, n <= r.max
    PROVE  LET d == Deliver(r, bytes)
           IN  /\ Sound(d) /\ d.pos = r.pos + n /\ d.max = r.max - n
               /\ d.range_start = r.range_start /\ d.last_logical = r.last_logical
  <1>1. /\ bytes \in Seq(Byte) /\ Len(bytes) = n
        /\ \A i \in 1 .. n : bytes[i] = Content(r.pos + i - 1)
    BY DEF BytesFrom
  <1>2. r \in ReadState
    BY DEF Sound
  <1>3. Sound(Deliver(r, bytes))
    BY <1>1, DeliverSound
  <1> QED
    BY <1>1, <1>2, <1>3, DeliverFields

LEMMA ZeroContent ==
    ASSUME Call, NEW q \in Nat, NEW o \in 0 .. bs - 1, NEW n \in Nat, NEW lg \in Nat,
           HolesFrom(q, lg), lg <= Len(map), (q * bs + o) + n <= lg * bs
    PROVE  BytesFrom(Zeros(n), q, o, n)
  <1>1. q * bs \in Nat /\ lg * bs \in Nat
    BY MulNat
  <1>2. ASSUME NEW i \in 1 .. n
        PROVE  Content((q * bs + o) + i - 1) = Zero
    <2> DEFINE p == (q * bs + o) + i - 1
    <2>1. p \in Nat /\ q * bs <= p /\ p < lg * bs
      BY <1>1
    <2> HIDE DEF p
    <2>2. PICK k \in Nat, l \in 0 .. bs - 1 : p = k * bs + l
      BY <2>1, DivMod
    <2>3. k * bs \in Nat
      BY MulNat
    <2>4. ~(lg <= k)
      <3> SUFFICES ASSUME lg <= k PROVE FALSE
        OBVIOUS
      <3>1. lg * bs <= k * bs
        BY MulMono
      <3> QED
        BY <1>1, <2>1, <2>2, <2>3, <3>1
    <2>5. ~(k + 1 <= q)
      <3> SUFFICES ASSUME k + 1 <= q PROVE FALSE
        OBVIOUS
      <3>1. (k + 1) * bs <= q * bs
        BY MulMono
      <3>2. (k + 1) * bs = k * bs + bs
        BY ReadAssumption
      <3> QED
        BY <1>1, <2>1, <2>2, <2>3, <3>1, <3>2, ReadAssumption
    <2>6. map[k + 1] = 0
      <3>1. k \in 0 .. lg - 1 /\ k >= q
        BY <2>4, <2>5
      <3> QED
        BY <3>1 DEF HolesFrom
    <2>7. Content(k * bs + l) = Zero
      BY <2>6, ContentAt
    <2> QED
      BY <2>2, <2>7 DEF p
  <1> QED
    BY <1>2, ZerosAre DEF BytesFrom

(* Where the zeros up to the block boundary lead.                          *)
LEMMA BlockFilled ==
    ASSUME Call, NEW r, Sound(r), Idle(r), NEW q \in Nat, NEW o \in 0 .. bs - 1,
           At(r, q, o), NEW lg \in Nat, q < lg, lg <= Len(map), HolesFrom(q, lg)
    PROVE  LET s == FillBlock(r)
           IN  /\ Sound(s) /\ Idle(s) /\ s.max <= r.max
               /\ s.max = 0 \/ At(s, q, 0) \/ At(s, q + 1, 0)
  <1>1. /\ r.max \in Nat /\ q * bs \in Nat /\ lg * bs \in Nat
        /\ r.last_logical = q /\ r.pos = q * bs + o /\ r.pos \in Nat
    BY MulNat DEF Sound, ReadState, At
  <1>2. r.pos % bs = o
    BY <1>1, DivUnique
  <1>3. CASE o = 0
    BY <1>1, <1>2, <1>3 DEF FillBlock
  <1>4. CASE o # 0
    <2> DEFINE n == MinOf(bs - o, r.max)
               v == Deliver(r, Zeros(n))
               s == [v EXCEPT !.last_logical = r.last_logical + 1]
    <2>1. n \in Nat /\ n <= r.max /\ n <= bs - o /\ (n = r.max \/ n = bs - o)
      BY <1>1, BlockSize DEF MinOf
    <2>2. FillBlock(r) = s
      <3> DEFINE x == r.pos % bs
      <3>1. FillBlock(r) = IF x = 0 THEN r
                           ELSE [Deliver(r, Zeros(MinOf(bs - x, r.max)))
                                    EXCEPT !.last_logical = r.last_logical + 1]
        BY DEF FillBlock
      <3>2. x = o
        BY <1>2
      <3> HIDE DEF x
      <3> QED
        BY <1>4, <3>1, <3>2, Zenon
    <2> HIDE DEF n
    <2>3. BytesFrom(Zeros(n), q, o, n)
      <3> DEFINE a == q * bs
                 z == lg * bs
      <3>1. a \in Nat /\ z \in Nat /\ a + bs <= z
        <4>1. (q + 1) * bs <= lg * bs
          BY MulMono
        <4> QED
          BY <1>1, <4>1, BlockSize
      <3> HIDE DEF a, z
      <3>2. (a + o) + n <= z
        BY <2>1, <3>1, BlockSize
      <3> QED
        BY <2>1, <3>2, ZeroContent DEF a, z
    <2>4. /\ Sound(v) /\ v.pos = r.pos + n /\ v.max = r.max - n
          /\ v.range_start = r.range_start /\ v.last_logical = q
      BY <1>1, <2>1, <2>3, DeliverFrom
    <2> HIDE DEF v
    <2>5. /\ s \in ReadState /\ s.pos = v.pos /\ s.max = v.max /\ s.buffer = v.buffer
          /\ s.range_start = v.range_start /\ s.last_logical = q + 1
      <3>1. v \in ReadState
        BY <2>4 DEF Sound
      <3>2. s = [v EXCEPT !.last_logical = q + 1] /\ q + 1 \in Nat
        BY <1>1
      <3> HIDE DEF s
      <3> QED
        BY <3>1, <3>2 DEF ReadState
    <2> HIDE DEF s
    <2>6. Sound(s) /\ Idle(s)
      BY <2>4, <2>5, SoundSame DEF Idle
    <2>7. s.max = 0 \/ s.pos = (q + 1) * bs + 0
      <3> DEFINE a == q * bs
      <3>1. a \in Nat /\ r.pos = a + o
        BY <1>1
      <3>2. (q + 1) * bs + 0 = a + bs
        BY BlockSize
      <3> HIDE DEF a
      <3>3. r.max - n = 0 \/ r.pos + n = a + bs
        BY <1>1, <2>1, <3>1, BlockSize
      <3> QED
        BY <2>4, <2>5, <3>2, <3>3
    <2>8. s.max <= r.max
      BY <1>1, <2>1, <2>4, <2>5
    <2> QED
      BY <2>2, <2>5, <2>6, <2>7, <2>8 DEF At
  <1> QED
    BY <1>3, <1>4

(* Where the zeros for whole blocks lead.                                  *)
LEMMA BlocksFilled ==
    ASSUME Call, NEW r, Sound(r), Idle(r), NEW q \in Nat, At(r, q, 0), r.max > 0,
           NEW lg \in Nat, q <= lg, lg <= Len(map), HolesFrom(q, lg)
    PROVE  LET s == FillBlocks(r, lg)
           IN  /\ Sound(s) /\ Idle(s) /\ s.max <= r.max
               /\ s.max = 0 \/ At(s, lg, 0)
  <1> DEFINE n == MinOf((lg - q) * bs, r.max)
             v == Deliver(r, Zeros(n))
             s == FillBlocks(r, lg)
  <1>1. /\ r.max \in Nat /\ q * bs \in Nat /\ (lg - q) * bs \in Nat /\ lg - q \in Nat
        /\ r.last_logical = q /\ r.pos = q * bs
    <2>1. lg - q \in Nat /\ q * bs \in Nat
      BY MulNat
    <2>2. (lg - q) * bs \in Nat
      BY <2>1, MulNat
    <2> QED
      BY <2>1, <2>2 DEF Sound, ReadState, At
  <1>2. s = IF v.max = 0 THEN v ELSE [v EXCEPT !.last_logical = lg]
    BY <1>1 DEF FillBlocks
  <1>3. n \in Nat /\ n <= r.max /\ n <= (lg - q) * bs /\ (n = r.max \/ n = (lg - q) * bs)
    BY <1>1 DEF MinOf
  <1>4. lg * bs = q * bs + (lg - q) * bs
    BY BlockSize
  <1> HIDE DEF n, s
  <1>5. BytesFrom(Zeros(n), q, 0, n)
    <2> DEFINE z == 0
    <2>1. z \in 0 .. bs - 1 /\ (q * bs + z) + n <= lg * bs
      <3> DEFINE a == q * bs
                 c == (lg - q) * bs
      <3>1. a \in Nat /\ c \in Nat /\ lg * bs = a + c /\ n <= c
        BY <1>1, <1>3, <1>4
      <3> HIDE DEF a, c
      <3>2. 0 \in 0 .. bs - 1 /\ (a + 0) + n <= a + c
        BY <1>3, <3>1, BlockSize
      <3> QED
        BY <3>1, <3>2 DEF a
    <2> HIDE DEF z
    <2>2. BytesFrom(Zeros(n), q, z, n)
      BY <1>3, <2>1, ZeroContent
    <2> QED
      BY <2>2 DEF z
  <1>6. /\ Sound(v) /\ v.pos = r.pos + n /\ v.max = r.max - n
        /\ v.range_start = r.range_start /\ v.last_logical = q
    BY <1>1, <1>3, <1>5, DeliverFrom
  <1> HIDE DEF v
  <1>7. CASE v.max = 0
    <2>1. s = v
      BY <1>2, <1>7
    <2>2. v.max <= r.max
      BY <1>1, <1>3, <1>6
    <2> QED
      BY <1>6, <1>7, <2>1, <2>2 DEF Idle, s
  <1>8. CASE v.max # 0
    <2>1. s = [v EXCEPT !.last_logical = lg] /\ v \in ReadState
      BY <1>2, <1>6, <1>8 DEF Sound
    <2>2. /\ s \in ReadState /\ s.pos = v.pos /\ s.max = v.max /\ s.buffer = v.buffer
          /\ s.range_start = v.range_start /\ s.last_logical = lg
      BY <2>1 DEF ReadState
    <2>3. Sound(s) /\ Idle(s)
      BY <1>6, <2>2, SoundSame DEF Idle
    <2>4. n = (lg - q) * bs
      BY <1>1, <1>3, <1>6, <1>8
    <2>5. s.pos = lg * bs + 0 /\ s.max <= r.max
      BY <1>1, <1>3, <1>4, <1>6, <2>2, <2>4
    <2> QED
      BY <2>2, <2>3, <2>5 DEF At, s
  <1> QED
    BY <1>7, <1>8 DEF s

LEMMA FillHoleIs ==
    ASSUME Call, NEW r, Sound(r), Idle(r), NEW q \in Nat, NEW o \in 0 .. bs - 1,
           At(r, q, o), NEW lg \in Nat, q <= lg, lg <= Len(map), HolesFrom(q, lg)
    PROVE  LET h == FillHole(r, lg)
           IN  /\ Sound(h) /\ Idle(h) /\ h.max <= r.max
               /\ h.max = 0 \/ \E l \in 0 .. bs - 1 : At(h, lg, l)
  <1> DEFINE h == FillHole(r, lg)
             r1 == FillBlock(r)
  <1>0. r.max \in Nat /\ r.last_logical = q /\ 0 \in 0 .. bs - 1
    BY BlockSize DEF Sound, ReadState, At
  <1>1. CASE q = lg
    <2>1. h = r
      BY <1>0, <1>1 DEF FillHole
    <2> QED
      BY <1>0, <1>1, <2>1
  <1>2. CASE q < lg
    <2>1. h = IF r1.max = 0 THEN r1 ELSE FillBlocks(r1, lg)
      BY <1>0, <1>2 DEF FillHole
    <2>2. /\ Sound(r1) /\ Idle(r1) /\ r1.max <= r.max
          /\ r1.max = 0 \/ At(r1, q, 0) \/ At(r1, q + 1, 0)
      BY <1>2, BlockFilled
    <2> HIDE DEF r1, h
    <2>3. r1.max \in Nat
      BY <2>2 DEF Sound, ReadState
    <2>4. CASE r1.max = 0
      BY <2>1, <2>2, <2>4 DEF h
    <2>5. CASE r1.max > 0
      <3>1. PICK k \in {q, q + 1} : At(r1, k, 0)
        BY <2>2, <2>5
      <3>2. k \in Nat /\ k <= lg /\ HolesFrom(k, lg)
        BY <1>2 DEF HolesFrom
      <3>3. h = FillBlocks(r1, lg)
        BY <2>1, <2>5
      <3>4. Sound(h) /\ Idle(h) /\ h.max <= r1.max /\ (h.max = 0 \/ At(h, lg, 0))
        BY <2>2, <2>5, <3>1, <3>2, <3>3, BlocksFilled
      <3>5. h.max \in Nat
        BY <3>4 DEF Sound, ReadState
      <3>6. h.max <= r.max
        BY <1>0, <2>2, <2>3, <3>4, <3>5
      <3> QED
        BY <1>0, <3>4, <3>6 DEF h
    <2> QED
      BY <2>3, <2>4, <2>5
  <1> QED
    BY <1>1, <1>2

LEMMA UnalignedIs ==
    ASSUME Call, NEW h, Sound(h), Idle(h), NEW lg, NEW b, BlockAt(lg, b),
           h.max = 0 \/ \E l \in 0 .. bs - 1 : At(h, lg, l)
    PROVE  LET u == Unaligned(h, b, lg)
           IN  /\ Sound(u) /\ Idle(u) /\ u.max <= h.max
               /\ u.max = 0 \/ At(u, lg + 1, 0)
  <1> DEFINE off == h.pos % bs
             n == MinOf(bs - off, h.max)
             bytes == SubSeq(Blocks(b, 1), off + 1, off + n)
             v == Deliver(h, bytes)
             u == [v EXCEPT !.last_logical = lg + 1]
  <1>1. h \in ReadState /\ h.max \in Nat /\ h.pos \in Nat /\ lg \in Nat /\ b \in Nat
    BY DEF Sound, ReadState, BlockAt
  <1>2. off \in 0 .. bs - 1
    BY <1>1, BlockSize
  <1>3. Unaligned(h, b, lg) = u
    BY DEF Unaligned
  <1> HIDE DEF off
  <1>4. n \in Nat /\ n <= h.max /\ n <= bs - off /\ (n = h.max \/ n = bs - off)
    BY <1>1, <1>2, BlockSize DEF MinOf
  <1> HIDE DEF n
  <1>5. /\ Sound(v) /\ v.pos = h.pos + n /\ v.max = h.max - n
        /\ v.range_start = h.range_start
    <2>1. CASE h.max = 0
      <3>1. n = 0
        BY <1>1, <1>4, <2>1
      <3>2. Blocks(b, 1) \in Seq(Byte)
        BY <1>1, BlocksAre
      <3>3. bytes \in Seq(Byte) /\ Len(bytes) = 0
        <4> DEFINE block == Blocks(b, 1)
                   lo == off + 1
                   hi == off + n
        <4>1. lo \in Nat /\ hi \in Nat /\ hi < lo
          BY <1>2, <1>4, <3>1
        <4>2. block \in Seq(Byte)
          BY <3>2
        <4> HIDE DEF block, lo, hi
        <4>3. SubSeq(block, lo, hi) \in Seq(Byte) /\ Len(SubSeq(block, lo, hi)) = 0
          BY <4>1, <4>2
        <4> QED
          BY <4>3 DEF block, lo, hi
      <3> HIDE DEF bytes
      <3>4. \A i \in 1 .. Len(bytes) : bytes[i] = Content(h.pos + i - 1)
        BY <3>3
      <3>5. Len(bytes) <= h.max
        BY <2>1, <3>3
      <3>6. Sound(Deliver(h, bytes))
        BY <3>3, <3>4, <3>5, DeliverSound
      <3> QED
        BY <1>1, <3>1, <3>3, <3>5, <3>6, DeliverFields
    <2>2. CASE \E l \in 0 .. bs - 1 : At(h, lg, l)
      <3>1. PICK l \in 0 .. bs - 1 : At(h, lg, l)
        BY <2>2
      <3>2. h.pos = lg * bs + l /\ h.pos % bs = l
        BY <1>1, <3>1, DivUnique DEF At
      <3>3. off = l
        BY <3>2 DEF off
      <3>4. off + n <= bs
        BY <1>2, <1>4, BlockSize
      <3>5. bytes = SubSeq(Blocks(b, 1), off + 1, off + n)
        OBVIOUS
      <3> HIDE DEF bytes
      <3>6. BytesFrom(bytes, lg, off, n)
        BY <1>2, <1>4, <3>4, <3>5, PartContent
      <3> QED
        BY <1>4, <3>2, <3>3, <3>6, DeliverFrom
    <2> QED
      BY <2>1, <2>2
  <1> HIDE DEF v
  <1>6. v \in ReadState /\ lg + 1 \in Nat
    BY <1>1, <1>5 DEF Sound
  <1>7. /\ u \in ReadState /\ u.pos = v.pos /\ u.max = v.max /\ u.buffer = v.buffer
        /\ u.range_start = v.range_start /\ u.last_logical = lg + 1
    BY <1>6 DEF ReadState
  <1> HIDE DEF u
  <1>8. Sound(u) /\ Idle(u)
    BY <1>5, <1>7, SoundSame DEF Idle
  <1>9. u.max = 0 \/ u.pos = (lg + 1) * bs + 0
    <2>1. CASE h.max = 0
      BY <1>1, <1>4, <1>5, <1>7, <2>1
    <2>2. CASE \E l \in 0 .. bs - 1 : At(h, lg, l)
      <3>1. PICK l \in 0 .. bs - 1 : At(h, lg, l)
        BY <2>2
      <3>2. h.pos = lg * bs + l /\ h.pos % bs = l /\ lg * bs \in Nat
        BY <1>1, <3>1, DivUnique, MulNat DEF At
      <3> DEFINE a == lg * bs
      <3>3. off = l /\ a \in Nat /\ h.pos = a + off
        BY <3>2 DEF off
      <3>4. (lg + 1) * bs + 0 = a + bs
        BY <1>1, BlockSize
      <3> HIDE DEF a
      <3>5. h.max - n = 0 \/ h.pos + n = a + bs
        BY <1>1, <1>2, <1>4, <3>3, BlockSize
      <3> QED
        BY <1>5, <1>7, <3>4, <3>5
    <2> QED
      BY <2>1, <2>2
  <1>10. u.max <= h.max
    BY <1>1, <1>4, <1>5, <1>7
  <1> QED
    BY <1>3, <1>7, <1>8, <1>9, <1>10 DEF At

(***************************************************************************)
(* What a call of read_iterator for block n - 1 leaves, r before it.       *)
(***************************************************************************)
Outcome(step, r, n, clean) ==
    /\ Sound(step.rd) /\ step.rd.max <= r.max
    /\ ~step.abort => BetweenCalls(step.rd, n)
    /\ step.abort => AfterCalls(step.rd) /\ (clean => Settled(step.rd))

LEMMA StartBlockIs ==
    ASSUME Call, NEW r, Sound(r), Idle(r), NEW q \in Nat, NEW o \in 0 .. bs - 1,
           At(r, q, o), NEW lg, NEW b, BlockAt(lg, b), q <= lg, HolesFrom(q, lg),
           NEW fail \in {0, 3}
    PROVE  Outcome(StartBlock(r, b, lg, fail), r, lg + 1, fail = 0)
  <1> DEFINE h == FillHole(r, lg)
             step == StartBlock(r, b, lg, fail)
  <1>1. lg \in Nat /\ lg < Len(map) /\ lg <= Len(map) /\ Len(map) \in Nat /\ r.max \in Nat
    BY DEF BlockAt, Call, Sound, ReadState
  <1>2. /\ Sound(h) /\ Idle(h) /\ h.max <= r.max
        /\ h.max = 0 \/ \E l \in 0 .. bs - 1 : At(h, lg, l)
    BY <1>1, FillHoleIs
  <1>3. h.max \in Nat /\ h.pos \in Nat
    BY <1>2 DEF Sound, ReadState
  <1> HIDE DEF h
  <1>4. CASE HoleEnds(r, lg) \/ (h.pos % bs # 0 /\ fail = 3)
    <2>1. step = [rd |-> h, abort |-> TRUE]
      BY <1>4 DEF StartBlock, h
    <2>2. fail = 0 => h.max = 0
      BY <1>4 DEF HoleEnds, h
    <2>3. RangeSound(h)
      BY <1>2 DEF RangeSound
    <2> QED
      BY <1>2, <2>1, <2>2, <2>3 DEF Outcome, AfterCalls, Settled
  <1>5. CASE /\ ~(HoleEnds(r, lg) \/ (h.pos % bs # 0 /\ fail = 3))
             /\ h.pos % bs # 0
    <2> DEFINE u == Unaligned(h, b, lg)
    <2>1. step = [rd |-> u, abort |-> u.max = 0]
      BY <1>5 DEF StartBlock, h
    <2>2. /\ Sound(u) /\ Idle(u) /\ u.max <= h.max /\ (u.max = 0 \/ At(u, lg + 1, 0))
      BY <1>2, UnalignedIs
    <2> HIDE DEF u
    <2>3. u.max \in Nat
      BY <2>2 DEF Sound, ReadState
    <2>4. RangeSound(u) /\ u.max <= r.max
      BY <1>1, <1>2, <1>3, <2>2, <2>3 DEF RangeSound
    <2>5. ASSUME u.max # 0 PROVE BetweenCalls(u, lg + 1)
      <3>1. HolesFrom(lg + 1, lg + 1) /\ lg + 1 \in Nat /\ 0 \in 0 .. bs - 1
        BY <1>1, BlockSize DEF HolesFrom
      <3> QED
        BY <2>2, <2>4, <2>5, <3>1 DEF BetweenCalls
    <2> HIDE DEF step
    <2>6. step.rd = u /\ (step.abort <=> u.max = 0)
      BY <2>1
    <2> QED
      BY <2>2, <2>4, <2>5, <2>6 DEF Outcome, AfterCalls, Settled, step
  <1>6. CASE /\ ~(HoleEnds(r, lg) \/ (h.pos % bs # 0 /\ fail = 3))
             /\ h.pos % bs = 0
    <2> DEFINE s == NewRange(h, b)
    <2>1. step = [rd |-> s, abort |-> bs >= h.max]
      BY <1>6 DEF StartBlock, h
    <2>2. /\ s \in ReadState /\ s.pos = h.pos /\ s.max = h.max /\ s.buffer = h.buffer
          /\ s.range_start = b /\ s.range_count = 1 /\ s.last_logical = h.last_logical
          /\ b \in Nat /\ b # 0 /\ map[lg + 1] = b
      BY <1>2 DEF NewRange, Sound, ReadState, BlockAt
    <2> HIDE DEF s
    <2>3. Sound(s) /\ ~Idle(s) /\ s.max <= r.max
      BY <1>2, <2>2, SoundSame DEF Idle
    <2>4. ASSUME h.max > 0 PROVE s.last_logical = lg /\ s.pos = lg * bs
      <3>1. PICK l \in 0 .. bs - 1 : At(h, lg, l)
        BY <1>2, <2>4
      <3>2. l = 0
        BY <1>1, <1>3, <1>6, <3>1, DivUnique DEF At
      <3> QED
        BY <1>1, <2>2, <3>1, <3>2, MulNat DEF At
    <2>5. RangeSound(s)
      <3>1. (s.range_count - 1) * bs <= s.max
        BY <1>3, <2>2, BlockSize
      <3>2. ASSUME h.max > 0
            PROVE  /\ s.pos = s.last_logical * bs
                   /\ s.last_logical + s.range_count <= Len(map)
                   /\ \A k \in 0 .. s.range_count - 1 : map[s.last_logical + k + 1] = s.range_start + k
        BY <1>1, <2>2, <2>4, <3>2
      <3> QED
        BY <2>2, <3>1, <3>2 DEF RangeSound
    <2>6. ASSUME ~(bs >= h.max) PROVE BetweenCalls(s, lg + 1)
      <3>1. h.max > 0 /\ s.range_count * bs < s.max
        BY <1>3, <2>2, <2>6, BlockSize
      <3>2. s.last_logical + s.range_count = lg + 1
        BY <2>2, <2>4, <3>1
      <3>3. HolesFrom(lg + 1, lg + 1)
        BY <1>1 DEF HolesFrom
      <3>4. lg + 1 <= lg + 1
        BY <1>1
      <3> QED
        BY <2>3, <2>5, <3>1, <3>2, <3>3, <3>4 DEF BetweenCalls
    <2>7. ASSUME bs >= h.max PROVE Settled(s)
      <3>1. s.max <= s.range_count * bs
        BY <1>3, <2>2, <2>7, BlockSize
      <3> QED
        BY <2>3, <3>1 DEF Settled
    <2> HIDE DEF step
    <2>8. step.rd = s /\ (step.abort <=> bs >= h.max)
      BY <2>1
    <2> QED
      BY <2>3, <2>5, <2>6, <2>7, <2>8 DEF Outcome, AfterCalls, step
  <1> QED
    BY <1>4, <1>5, <1>6

(***************************************************************************)
(* read_iterator.                                                          *)
(***************************************************************************)
(* A block that extends the range.                                         *)
LEMMA ExtendIs ==
    ASSUME Call, NEW r, NEW n, NEW b, BlockAt(n, b), BetweenCalls(r, n),
           InRange(r, b, n), NEW step,
           step = [rd |-> [r EXCEPT !.range_count = @ + 1],
                   abort |-> (r.range_count + 1) * bs >= r.max]
    PROVE  Outcome(step, r, n + 1, TRUE)
  <1> DEFINE s == [r EXCEPT !.range_count = r.range_count + 1]
             c == r.range_count
             l == r.last_logical
             a == r.range_start
  <1>1. step.rd = s /\ (step.abort <=> (c + 1) * bs >= r.max)
    OBVIOUS
  <1>2. /\ r \in ReadState /\ c \in Nat /\ l \in Nat /\ a \in Nat /\ r.max \in Nat
        /\ n \in Nat /\ n < Len(map) /\ Len(map) \in Nat /\ map[n + 1] = b
    BY DEF BetweenCalls, Sound, ReadState, BlockAt, Call
  <1>3. a # 0 /\ b = a + c /\ n = l + c /\ ~Idle(r) /\ Sound(r)
    BY DEF InRange, Idle, BetweenCalls
  <1>4. c >= 1 /\ c * bs < r.max
    BY <1>3 DEF BetweenCalls, RangeSound
  <1>5. c * bs \in Nat
    BY <1>2, MulNat
  <1>6. /\ r.pos = l * bs /\ \A k \in 0 .. c - 1 : map[l + k + 1] = a + k
    BY <1>2, <1>3, <1>4, <1>5 DEF BetweenCalls, RangeSound
  <1>7. /\ s \in ReadState /\ s.pos = r.pos /\ s.max = r.max /\ s.buffer = r.buffer
        /\ s.range_start = a /\ s.range_count = c + 1 /\ s.last_logical = l
    <2>1. c + 1 \in Nat
      BY <1>2
    <2> QED
      BY <1>2, <2>1 DEF ReadState
  <1> HIDE DEF s
  <1>8. Sound(s) /\ ~Idle(s)
    BY <1>3, <1>7, SoundSame DEF Idle
  <1>9. RangeSound(s)
    <2>1. (s.range_count - 1) * bs <= s.max
      <3>1. s.range_count - 1 = c
        BY <1>2, <1>7
      <3> QED
        BY <1>2, <1>4, <1>5, <1>7, <3>1
    <2>2. ASSUME NEW k \in 0 .. s.range_count - 1
          PROVE  map[s.last_logical + k + 1] = s.range_start + k
      <3>1. CASE k = c
        BY <1>2, <1>3, <1>7, <3>1
      <3>2. CASE k # c
        <4>1. k \in 0 .. c - 1
          BY <1>2, <1>7, <3>2
        <4> QED
          BY <1>6, <1>7, <4>1
      <3> QED
        BY <3>1, <3>2
    <2>3. s.range_count >= 1 /\ s.last_logical + s.range_count <= Len(map)
      BY <1>2, <1>3, <1>7
    <2> QED
      BY <1>6, <1>7, <2>1, <2>2, <2>3 DEF RangeSound
  <1>10. ASSUME ~((c + 1) * bs >= r.max) PROVE BetweenCalls(s, n + 1)
    <2>1. (c + 1) * bs \in Nat
      <3>1. c + 1 \in Nat
        BY <1>2
      <3> QED
        BY <3>1, MulNat
    <2>2. s.range_count * bs < s.max
      BY <1>2, <1>7, <1>10, <2>1
    <2>3. s.last_logical + s.range_count = n + 1 /\ n + 1 <= n + 1
      <3>1. l \in Nat /\ c \in Nat /\ n = l + c
        BY <1>2, <1>3
      <3>2. s.last_logical + s.range_count = l + (c + 1)
        BY <1>7
      <3> HIDE DEF l, c
      <3> QED
        BY <3>1, <3>2
    <2>4. HolesFrom(n + 1, n + 1)
      BY <1>2 DEF HolesFrom
    <2> QED
      BY <1>8, <1>9, <2>2, <2>3, <2>4 DEF BetweenCalls
  <1>11. ASSUME (c + 1) * bs >= r.max PROVE Settled(s)
    <2>1. s.max <= s.range_count * bs
      <3> DEFINE z == (c + 1) * bs
      <3>1. z \in Nat /\ z >= r.max /\ s.range_count * bs = z
        <4>1. c + 1 \in Nat
          BY <1>2
        <4> QED
          BY <1>7, <1>11, <4>1, MulNat
      <3> HIDE DEF z
      <3> QED
        BY <1>2, <1>7, <3>1
    <2> QED
      BY <1>8, <2>1 DEF Settled
  <1>12. s.max <= r.max
    BY <1>2, <1>7
  <1> QED
    BY <1>1, <1>8, <1>9, <1>10, <1>11, <1>12 DEF Outcome, AfterCalls

LEMMA IteratorIs ==
    ASSUME Call, NEW r, NEW n, NEW b, BlockAt(n, b), BetweenCalls(r, n),
           NEW fail \in Failures(r, b, n)
    PROVE  Outcome(read_iterator(r, b, n, fail), r, n + 1, fail = 0)
  <1> DEFINE step == read_iterator(r, b, n, fail)
  <1>1. /\ n \in Nat /\ n < Len(map) /\ r.max \in Nat /\ r.pos \in Nat
        /\ r.range_count \in Nat /\ r.last_logical \in Nat /\ Sound(r) /\ RangeSound(r)
    BY DEF BlockAt, BetweenCalls, Sound, ReadState
  <1>2. /\ fail \in {0, 1, 2, 3}
        /\ fail = 2 => ReadsPart(r)
        /\ fail = 3 => r.range_start = 0
        /\ r.range_start = 0 => fail \in {0, 3}
    BY DEF Failures
  <1>3. CASE n < r.pos \div bs
    <2>1. step = [rd |-> r, abort |-> FALSE]
      BY <1>3 DEF read_iterator
    <2>2. ASSUME Idle(r)
          PROVE  \E q \in Nat, o \in 0 .. bs - 1 : At(r, q, o) /\ HolesFrom(q, n + 1)
      <3>1. PICK q \in Nat, o \in 0 .. bs - 1 : At(r, q, o)
        BY <2>2 DEF BetweenCalls
      <3>2. r.pos \div bs = q
        BY <1>1, <3>1, DivUnique DEF At
      <3>3. HolesFrom(q, n + 1)
        BY <1>1, <1>3, <3>2 DEF HolesFrom
      <3> QED
        BY <3>1, <3>3
    <2>3. Idle(r)
      <3> SUFFICES ASSUME ~Idle(r) PROVE FALSE
        OBVIOUS
      <3>1. /\ r.range_count >= 1 /\ r.range_count * bs < r.max
            /\ r.last_logical + r.range_count <= n
        BY DEF BetweenCalls, RangeSound
      <3>2. r.max > 0
        <4>1. r.range_count * bs \in Nat
          BY <1>1, MulNat
        <4> QED
          BY <1>1, <3>1, <4>1
      <3>3. r.pos = r.last_logical * bs
        BY <3>2 DEF BetweenCalls, RangeSound
      <3>4. r.pos = r.last_logical * bs + 0 /\ 0 \in 0 .. bs - 1
        BY <1>1, <3>3, MulNat, BlockSize
      <3>5. r.pos \div bs = r.last_logical
        BY <1>1, <3>4, DivUnique
      <3> QED
        BY <1>1, <1>3, <3>1, <3>5
    <2>4. BetweenCalls(r, n + 1)
      BY <1>1, <2>2, <2>3 DEF BetweenCalls
    <2>5. step.rd = r /\ ~step.abort /\ r.max <= r.max
      BY <1>1, <2>1
    <2> HIDE DEF step
    <2> QED
      BY <1>1, <2>4, <2>5 DEF Outcome, step
  <1>4. CASE ~(n < r.pos \div bs) /\ InRange(r, b, n)
    <2>1. step = [rd |-> [r EXCEPT !.range_count = @ + 1],
                  abort |-> (r.range_count + 1) * bs >= r.max]
      BY <1>4 DEF read_iterator
    <2> HIDE DEF step
    <2>2. Outcome(step, r, n + 1, TRUE)
      BY <1>4, <2>1, ExtendIs
    <2> QED
      BY <2>2 DEF Outcome, step
  <1>5. CASE ~(n < r.pos \div bs) /\ ~InRange(r, b, n) /\ r.range_start = 0
    <2>1. step = StartBlock(r, b, n, fail)
      BY <1>5 DEF read_iterator
    <2>2. Idle(r) /\ fail \in {0, 3}
      BY <1>2, <1>5 DEF Idle
    <2>3. PICK q \in Nat, o \in 0 .. bs - 1 : At(r, q, o) /\ HolesFrom(q, n)
      BY <2>2 DEF BetweenCalls
    <2>4. r.pos \div bs = q
      BY <1>1, <2>3, DivUnique DEF At
    <2>5. q <= n
      BY <1>1, <1>5, <2>4
    <2> QED
      BY <1>1, <2>1, <2>2, <2>3, <2>5, StartBlockIs
  <1>6. CASE ~(n < r.pos \div bs) /\ ~InRange(r, b, n) /\ r.range_start # 0
    <2> DEFINE d == read_dump_range(r, fail)
    <2>1. step = IF d.abort THEN d ELSE StartBlock(d.rd, b, n, fail)
      BY <1>6 DEF read_iterator
    <2>2. Pending(r) /\ ~Idle(r)
      BY <1>1, <1>6 DEF Pending, Idle
    <2>3. CASE fail = 1
      <3>1. d.rd = r /\ d.abort
        BY <2>3 DEF read_dump_range
      <3>2. step = d
        BY <2>1, <3>1
      <3>3. r.max <= r.max
        BY <1>1
      <3> HIDE DEF d, step
      <3> QED
        BY <1>1, <2>3, <3>1, <3>2, <3>3 DEF Outcome, AfterCalls, step
    <2>4. CASE fail = 2
      <3> DEFINE w == DumpWhole(r)
      <3>1. d.rd = w /\ d.abort
        BY <2>4 DEF read_dump_range
      <3>2. step = d
        BY <2>1, <3>1
      <3>3. w.max > 0 /\ w.range_count > 0
        BY <1>2, <2>4 DEF ReadsPart
      <3>4. Pending(w)
        BY <2>2, <3>3, PartPending
      <3>5. w.max <= r.max
        <4> DEFINE k == WholeBlocks(r) * bs
        <4>1. w.max = r.max - k /\ k \in Nat
          BY <2>2, DumpWholeIs, WholeFits
        <4> HIDE DEF k, w
        <4> QED
          BY <1>1, <4>1
      <3> HIDE DEF d, step, w
      <3> QED
        BY <2>4, <3>1, <3>2, <3>4, <3>5 DEF Outcome, AfterCalls, Pending, step
    <2>5. CASE fail = 0
      <3> DEFINE e == read_dump_range(r, 0)
                 x == e.rd
                 c == r.range_count
      <3>1. /\ Sound(x) /\ Idle(x) /\ x.max <= r.max /\ e.abort = (x.max = 0)
            /\ c * bs <= r.max => x.max = r.max - c * bs
            /\ \/ x.max = 0
               \/ /\ r.max > 0 /\ c * bs <= r.max /\ x.max = r.max - c * bs
                  /\ x.last_logical = r.last_logical + c /\ x.pos = x.last_logical * bs
        BY <2>2, DumpIs
      <3>2. /\ c * bs < r.max /\ r.last_logical + c <= n
            /\ HolesFrom(r.last_logical + c, n) /\ c * bs \in Nat
        BY <1>1, <2>2, MulNat DEF BetweenCalls
      <3>3. d = e
        BY <2>5
      <3> HIDE DEF d, e
      <3>4. x.max # 0
        BY <1>1, <3>1, <3>2
      <3>5. ~e.abort
        BY <3>1, <3>4
      <3>6. step = StartBlock(x, b, n, 0)
        BY <2>1, <2>5, <3>3, <3>5
      <3> DEFINE q == r.last_logical + c
      <3>7. q \in Nat /\ q <= n /\ HolesFrom(q, n)
        BY <1>1, <3>2
      <3>8. At(x, q, 0)
        <4>1. x.last_logical = q /\ x.pos = q * bs
          BY <3>1, <3>4
        <4>2. q * bs = q * bs + 0
          BY <3>7, MulNat
        <4> QED
          BY <4>1, <4>2 DEF At
      <3> HIDE DEF q, step
      <3>9. Outcome(step, x, n + 1, TRUE)
        <4> DEFINE z == 0
        <4>1. z \in 0 .. bs - 1 /\ z \in {0, 3} /\ At(x, q, z)
          BY <3>8, BlockSize
        <4>2. step = StartBlock(x, b, n, z) /\ z = 0
          BY <3>6
        <4> HIDE DEF z
        <4>3. Outcome(StartBlock(x, b, n, z), x, n + 1, z = 0)
          BY <3>1, <3>7, <4>1, StartBlockIs
        <4> QED
          BY <4>2, <4>3 DEF Outcome
      <3>10. step.rd.max <= r.max
        <4>1. step.rd.max <= x.max /\ step.rd.max \in Nat /\ x.max \in Nat
          BY <3>1, <3>9 DEF Outcome, Sound, ReadState
        <4> QED
          BY <1>1, <3>1, <4>1
      <3> QED
        BY <3>9, <3>10 DEF Outcome, step
    <2> QED
      BY <1>2, <1>6, <2>3, <2>4, <2>5
  <1> QED
    BY <1>3, <1>4, <1>5, <1>6

-----------------------------------------------------------------------------
(***************************************************************************)
(* The invariant is inductive.  The file and the call do not change, so    *)
(* what holds of the state s that a step leads to holds in the new state.  *)
(***************************************************************************)
LEMMA Carried ==
    ASSUME map' = map, from' = from, size' = size, NEW s, rd' = s, NEW n, next' = n
    PROVE  /\ Sound(s) => Sound(rd)'
           /\ RangeSound(s) => RangeSound(rd)'
           /\ BetweenCalls(s, n) => BetweenCalls(rd, next)'
           /\ Settled(s) => Settled(rd)'
           /\ Finished(s) => Finished(rd)'
  <1>1. Sound(s) => Sound(rd)'
    BY DEF Sound, Content, ReadState
  <1>2. RangeSound(s) => RangeSound(rd)'
    BY DEF RangeSound, Idle
  <1>3. BetweenCalls(s, n) => BetweenCalls(rd, next)'
    <2>1. Idle(s) <=> Idle(rd)'
      BY DEF Idle
    <2>2. (Idle(s) => \E q \in Nat, o \in 0 .. bs - 1 : At(s, q, o) /\ HolesFrom(q, n))
          => (Idle(rd) => \E q \in Nat, o \in 0 .. bs - 1 : At(rd, q, o) /\ HolesFrom(q, next))'
      BY DEF Idle, At, HolesFrom
    <2>3. (~Idle(s) => /\ s.range_count * bs < s.max /\ s.last_logical + s.range_count <= n
                       /\ HolesFrom(s.last_logical + s.range_count, n))
          => (~Idle(rd) => /\ rd.range_count * bs < rd.max
                           /\ rd.last_logical + rd.range_count <= next
                           /\ HolesFrom(rd.last_logical + rd.range_count, next))'
      BY DEF Idle, HolesFrom
    <2> QED
      BY <1>1, <1>2, <2>2, <2>3 DEF BetweenCalls
  <1>4. Settled(s) => Settled(rd)'
    BY DEF Settled, Idle, HolesFrom
  <1>5. Finished(s) => Finished(rd)'
    BY DEF Finished, HolesFrom
  <1> QED
    BY <1>1, <1>2, <1>3, <1>4, <1>5

LEMMA CallHolds ==
    ASSUME ReadInv
    PROVE  Call
  BY ReadAssumption DEF ReadInv, Call

LEMMA InitReadInv == Init => ReadInv
  BY ReadAssumption DEF Init, ReadInv, ReadState, Byte

LEMMA CallStep ==
    ASSUME ReadInv, ext2_read
    PROVE  ReadInv'
  <1> DEFINE s == [rd EXCEPT !.range_start = 0, !.range_count = 0, !.buffer = <<>>,
                             !.last_logical = rd.pos \div bs, !.max = size]
  <1>1. /\ rd' = s /\ next' = 0 /\ pc' = "iterate" /\ faults' = faults
        /\ map' = map /\ from' = from /\ size' = size
        /\ rd \in ReadState /\ rd.pos = from
    BY DEF ext2_read, ReadInv
  <1>2. Call /\ from \in Nat /\ size \in Nat
    BY CallHolds DEF Call
  <1>3. PICK q \in Nat, o \in 0 .. bs - 1 : rd.pos \div bs = q /\ from = q * bs + o
    BY <1>1, <1>2, DivMod
  <1>4. /\ s.range_start = 0 /\ s.buffer = <<>> /\ s.last_logical = q
        /\ s.max = size /\ s.pos = from /\ s \in ReadState
    <2>1. <<>> \in Seq(Byte)
      OBVIOUS
    <2>2. s = [rd EXCEPT !.range_start = 0, !.range_count = 0, !.buffer = <<>>,
                         !.last_logical = q, !.max = size]
      BY <1>3
    <2> HIDE DEF s
    <2> QED
      BY <1>1, <1>2, <2>1, <2>2 DEF ReadState
  <1> HIDE DEF s
  <1>5. Sound(s) /\ Idle(s)
    <2>1. Len(s.buffer) = 0
      BY <1>4
    <2> QED
      BY <1>2, <1>4, <2>1 DEF Sound, Idle
  <1>6. BetweenCalls(s, 0)
    <2>1. HolesFrom(q, 0)
      BY DEF HolesFrom
    <2>2. At(s, q, o)
      BY <1>3, <1>4 DEF At
    <2> QED
      BY <1>5, <2>1, <2>2 DEF BetweenCalls, RangeSound
  <1>7. BetweenCalls(rd, next)'
    BY <1>1, <1>6, Carried
  <1> QED
    BY <1>1, <1>2, <1>7 DEF ReadInv, Call

LEMMA SkipStep ==
    ASSUME ReadInv, SkipHole
    PROVE  ReadInv'
  <1>1. /\ rd' = rd /\ next' = next + 1 /\ pc = "iterate" /\ pc' = pc /\ faults' = faults
        /\ map' = map /\ from' = from /\ size' = size /\ next < Len(map) /\ map[next + 1] = 0
        /\ next \in Nat /\ BetweenCalls(rd, next) /\ Len(map) \in Nat
    BY CallHolds DEF SkipHole, ReadInv, Call
  <1>2. ASSUME NEW q, HolesFrom(q, next) PROVE HolesFrom(q, next + 1)
    BY <1>1, <1>2 DEF HolesFrom
  <1>3. BetweenCalls(rd, next + 1)
    <2>1. rd.last_logical + rd.range_count \in Nat
      BY <1>1 DEF BetweenCalls, Sound, ReadState
    <2>2. /\ Sound(rd) /\ RangeSound(rd)
          /\ Idle(rd) => \E q \in Nat, o \in 0 .. bs - 1 : At(rd, q, o) /\ HolesFrom(q, next)
          /\ ~Idle(rd) => /\ rd.range_count * bs < rd.max
                          /\ rd.last_logical + rd.range_count <= next
                          /\ HolesFrom(rd.last_logical + rd.range_count, next)
      BY <1>1 DEF BetweenCalls
    <2>3. ~Idle(rd) => rd.last_logical + rd.range_count <= next + 1
      BY <1>1, <2>1, <2>2
    <2> QED
      BY <1>2, <2>2, <2>3 DEF BetweenCalls
  <1>4. BetweenCalls(rd, next)'
    BY <1>1, <1>3, Carried
  <1> QED
    BY <1>1, <1>4 DEF ReadInv

LEMMA IterateStep ==
    ASSUME ReadInv, Iterate
    PROVE  ReadInv' /\ rd'.max <= rd.max
  <1> DEFINE b == map[next + 1]
  <1>1. /\ next' = next + 1 /\ pc = "iterate"
        /\ map' = map /\ from' = from /\ size' = size /\ next < Len(map) /\ b # 0
        /\ next \in Nat /\ BetweenCalls(rd, next) /\ Len(map) \in Nat /\ faults \in Nat
    BY CallHolds DEF Iterate, ReadInv, Call
  <1>2. PICK fail \in Failures(rd, b, next) :
            /\ faults' = faults + Count(fail)
            /\ rd' = read_iterator(rd, b, next, fail).rd
            /\ pc' = IF read_iterator(rd, b, next, fail).abort THEN "final" ELSE pc
    BY DEF Iterate
  <1> DEFINE step == read_iterator(rd, b, next, fail)
  <1>3. Call /\ BlockAt(next, b)
    <2>1. b \in Nat
      BY <1>1, CallHolds DEF Call
    <2> QED
      BY <1>1, <2>1, CallHolds DEF BlockAt
  <1>4. Outcome(step, rd, next + 1, fail = 0)
    BY <1>1, <1>3, IteratorIs
  <1> HIDE DEF step
  <1>5. rd' = step.rd /\ pc' = (IF step.abort THEN "final" ELSE pc)
    BY <1>2 DEF step
  <1>6. Count(fail) \in {0, 1} /\ (Count(fail) = 0 => fail = 0)
    BY DEF Count
  <1>7. faults' \in Nat /\ (faults' = 0 => fail = 0)
    BY <1>1, <1>2, <1>6
  <1>8. CASE step.abort
    <2>1. AfterCalls(step.rd) /\ (fail = 0 => Settled(step.rd))
      BY <1>4, <1>8 DEF Outcome
    <2>2. AfterCalls(rd)' /\ (fail = 0 => Settled(rd)')
      BY <1>1, <1>5, <2>1, Carried DEF AfterCalls
    <2>3. pc' = "final"
      BY <1>5, <1>8
    <2> QED
      BY <1>1, <1>4, <1>5, <1>7, <2>2, <2>3 DEF ReadInv, Outcome
  <1>9. CASE ~step.abort
    <2>1. BetweenCalls(step.rd, next + 1)
      BY <1>4, <1>9 DEF Outcome
    <2>2. BetweenCalls(rd, next)'
      BY <1>1, <1>5, <2>1, Carried
    <2>3. pc' = "iterate" /\ next' \in 0 .. Len(map)
      BY <1>1, <1>5, <1>9
    <2> QED
      BY <1>1, <1>4, <1>5, <1>7, <2>2, <2>3 DEF ReadInv, Outcome
  <1> QED
    BY <1>8, <1>9

LEMMA EndsStep ==
    ASSUME ReadInv, IterateEnds
    PROVE  ReadInv'
  <1>1. /\ rd' = rd /\ next' = next /\ pc = "iterate" /\ pc' = "final" /\ faults' = faults
        /\ map' = map /\ from' = from /\ size' = size /\ BetweenCalls(rd, Len(map))
    BY DEF IterateEnds, ReadInv
  <1>2. AfterCalls(rd) /\ Settled(rd)
    BY <1>1 DEF BetweenCalls, AfterCalls, Settled, At
  <1>3. AfterCalls(rd)' /\ Settled(rd)'
    BY <1>1, <1>2, Carried DEF AfterCalls
  <1> QED
    BY <1>1, <1>3 DEF ReadInv

LEMMA FailsStep ==
    ASSUME ReadInv, IterateFails
    PROVE  ReadInv' /\ rd'.max <= rd.max
  <1>1. /\ rd' = rd /\ next' = next /\ pc' = "done" /\ faults' = faults + 1
        /\ map' = map /\ from' = from /\ size' = size /\ faults \in Nat /\ Sound(rd)
    BY DEF IterateFails, ReadInv, BetweenCalls
  <1>2. Sound(rd)' /\ faults' \in Nat /\ faults' # 0
    BY <1>1, Carried
  <1>3. rd'.max <= rd.max
    BY <1>1 DEF Sound, ReadState
  <1> QED
    BY <1>1, <1>2, <1>3 DEF ReadInv

LEMMA FinalStep ==
    ASSUME ReadInv, Final
    PROVE  ReadInv' /\ rd'.max <= rd.max
  <1>1. /\ pc = "final" /\ pc' = "done" /\ next' = next /\ faults \in Nat
        /\ map' = map /\ from' = from /\ size' = size
        /\ Sound(rd) /\ RangeSound(rd) /\ (faults = 0 => Settled(rd)) /\ Call
    BY CallHolds DEF Final, ReadInv, AfterCalls
  <1>2. /\ rd.max \in Nat /\ rd.range_count \in Nat /\ rd.last_logical \in Nat
        /\ rd.range_count * bs \in Nat
    BY <1>1, MulNat DEF Sound, ReadState
  <1>3. SUFFICES \E s : \E f \in Nat :
            rd' = s /\ faults' = f /\ Sound(s) /\ s.max <= rd.max /\ (f = 0 => Finished(s))
    <2>0. PICK s : \E f \in Nat :
              rd' = s /\ faults' = f /\ Sound(s) /\ s.max <= rd.max /\ (f = 0 => Finished(s))
      BY <1>3
    <2>1. PICK f \in Nat :
              rd' = s /\ faults' = f /\ Sound(s) /\ s.max <= rd.max /\ (f = 0 => Finished(s))
      BY <2>0
    <2>2. Sound(rd)' /\ (f = 0 => Finished(rd)')
      BY <1>1, <2>1, Carried
    <2> QED
      BY <1>1, <2>1, <2>2 DEF ReadInv
  <1>4. CASE rd.range_start = 0
    <2>1. rd' = rd /\ faults' = faults
      BY <1>4 DEF Final
    <2>2. faults = 0 => Finished(rd)
      BY <1>1, <1>4 DEF Settled, Finished, Idle
    <2>3. rd.max <= rd.max
      BY <1>2
    <2> QED
      BY <1>1, <2>1, <2>2, <2>3
  <1>5. CASE rd.range_start # 0
    <2>1. PICK fail \in {0} \cup (IF ReadsWhole(rd) THEN {1} ELSE {})
                            \cup (IF ReadsPart(rd) THEN {2} ELSE {}) :
              faults' = faults + Count(fail) /\ rd' = read_dump_range(rd, fail).rd
      BY <1>5 DEF Final
    <2>2. Pending(rd)
      BY <1>1, <1>5 DEF Pending, Idle
    <2>3. CASE fail = 1
      <3>1. rd' = rd /\ faults' = faults + 1
        BY <2>1, <2>3 DEF read_dump_range, Count
      <3>2. faults + 1 \in Nat /\ faults + 1 # 0 /\ rd.max <= rd.max
        BY <1>1, <1>2
      <3> QED
        BY <1>1, <3>1, <3>2
    <2>4. CASE fail = 2
      <3> DEFINE w == DumpWhole(rd)
                 k == WholeBlocks(rd) * bs
      <3>1. rd' = w /\ faults' = faults + 1
        BY <2>1, <2>4 DEF read_dump_range, Count
      <3>2. faults + 1 \in Nat /\ faults + 1 # 0
        BY <1>1
      <3>3. Sound(w) /\ w.max = rd.max - k /\ k \in Nat
        BY <1>1, <2>2, DumpWholeIs, WholeFits
      <3> HIDE DEF w, k
      <3>4. w.max <= rd.max
        BY <1>2, <3>3
      <3> QED
        BY <3>1, <3>2, <3>3, <3>4
    <2>5. CASE fail = 0
      <3> DEFINE d == read_dump_range(rd, 0).rd
                 c == rd.range_count
      <3>1. rd' = d /\ faults' = faults
        BY <1>1, <2>1, <2>5 DEF Count
      <3>2. /\ Sound(d) /\ d.max <= rd.max
            /\ \/ d.max = 0
               \/ /\ rd.max > 0 /\ c * bs <= rd.max /\ d.max = rd.max - c * bs
                  /\ d.last_logical = rd.last_logical + c /\ d.pos = d.last_logical * bs
        BY <1>1, <2>2, DumpIs
      <3> HIDE DEF d
      <3>3. ASSUME faults = 0 PROVE Finished(d)
        <4>1. CASE d.max = 0
          BY <4>1 DEF Finished
        <4>2. CASE d.max # 0
          <5>1. HolesFrom(rd.last_logical + c, Len(map))
            <6>1. Settled(rd) /\ ~Idle(rd)
              BY <1>1, <1>5, <3>3 DEF Idle
            <6>2. rd.max # 0 /\ ~(rd.max <= c * bs)
              BY <1>2, <3>2, <4>2
            <6> QED
              BY <6>1, <6>2 DEF Settled
          <5> DEFINE q == rd.last_logical + c
          <5>2. q \in Nat /\ d.pos = q * bs
            BY <1>2, <3>2, <4>2
          <5> HIDE DEF q
          <5>3. d.pos = q * bs + 0 /\ 0 \in 0 .. bs - 1
            BY <5>2, MulNat, BlockSize
          <5> QED
            BY <5>1, <5>2, <5>3 DEF Finished, q
        <4> QED
          BY <4>1, <4>2
      <3> QED
        BY <1>1, <3>1, <3>2, <3>3
    <2> QED
      BY <2>1, <2>3, <2>4, <2>5
  <1> QED
    BY <1>4, <1>5

LEMMA NextReadInv == ReadInv /\ [Next]_vars => ReadInv'
  <1> SUFFICES ASSUME ReadInv, [Next]_vars PROVE ReadInv'
    OBVIOUS
  <1>1. CASE UNCHANGED vars
    <2>1. rd' = rd /\ next' = next /\ map' = map /\ from' = from /\ size' = size
      BY <1>1 DEF vars
    <2>2. pc' = pc /\ faults' = faults
      BY <1>1 DEF vars
    <2> QED
      BY <2>1, <2>2, Carried DEF ReadInv, AfterCalls
  <1>2. CASE Done
    <2>1. rd' = rd /\ next' = next /\ map' = map /\ from' = from /\ size' = size
      BY <1>2 DEF Done, vars
    <2>2. pc' = pc /\ faults' = faults
      BY <1>2 DEF Done, vars
    <2> QED
      BY <2>1, <2>2, Carried DEF ReadInv, AfterCalls
  <1> QED
    BY <1>1, <1>2, CallStep, SkipStep, IterateStep, EndsStep, FailsStep, FinalStep DEF Next

(* At every moment the caller's buffer holds exactly the file's bytes from *)
(* the starting position on, for every block size, layout, position,       *)
(* length and sequence of failing disk reads.                              *)
THEOREM DeliversTheFile == Spec => []DeliversContent
  <1>1. ReadInv => DeliversContent
    BY DEF ReadInv, DeliversContent, BetweenCalls, AfterCalls, Sound
  <1> QED
    BY InitReadInv, NextReadInv, <1>1, PTL DEF Spec

-----------------------------------------------------------------------------
(***************************************************************************)
(* The refinement.                                                         *)
(***************************************************************************)
(* The file as FileReader sees it.                                         *)
File == [i \in 1 .. Mapped |-> Content(i - 1)]

LEMMA FileIs ==
    ASSUME Call
    PROVE  /\ Mapped \in Nat /\ Len(File) = Mapped
           /\ \A i \in 1 .. Mapped : File[i] = Content(i - 1)
           /\ \A q \in Nat : HolesFrom(q, Len(map)) => Mapped <= q * bs
  <1> DEFINE last == {m \in DOMAIN map :
                        map[m] # 0 /\ \A i \in DOMAIN map : map[i] # 0 => i <= m}
  <1>1. Mapped = IF last = {} THEN 0 ELSE (CHOOSE m \in last : TRUE) * bs
    BY DEF Mapped
  <1>2. Len(map) \in Nat /\ DOMAIN map = 1 .. Len(map)
    BY DEF Call
  <1>3. \A m \in last : m \in 1 .. Len(map) /\ map[m] # 0
    BY <1>2
  <1> HIDE DEF last
  <1>4. Mapped \in Nat /\ \A q \in Nat : HolesFrom(q, Len(map)) => Mapped <= q * bs
    <2>1. CASE last = {}
      BY <1>1, <2>1, MulNat
    <2>2. CASE last # {}
      <3>1. PICK m \in last : Mapped = m * bs
        BY <1>1, <2>2
      <3>2. m \in Nat /\ m >= 1 /\ m <= Len(map) /\ map[m] # 0
        BY <1>2, <1>3
      <3>3. ASSUME NEW q \in Nat, HolesFrom(q, Len(map)) PROVE m <= q
        <4>1. m - 1 \in 0 .. Len(map) - 1 /\ (m - 1) + 1 = m
          BY <1>2, <3>2
        <4>2. m - 1 >= q => map[(m - 1) + 1] = 0
          BY <3>3, <4>1 DEF HolesFrom
        <4> QED
          BY <3>2, <4>1, <4>2
      <3>4. ASSUME NEW q \in Nat, HolesFrom(q, Len(map)) PROVE m * bs <= q * bs
        BY <3>2, <3>3, <3>4, MulMono
      <3> QED
        BY <3>1, <3>2, <3>4, MulNat
    <2> QED
      BY <2>1, <2>2
  <1>5. Len(File) = Mapped /\ \A i \in 1 .. Mapped : File[i] = Content(i - 1)
    BY <1>4 DEF File
  <1> QED
    BY <1>4, <1>5

(* Two buffers that hold the file's bytes from the same place agree.       *)
LEMMA Extends ==
    ASSUME Call, NEW r, NEW s, Sound(r), Sound(s), s.max <= r.max
    PROVE  /\ Len(r.buffer) <= Len(s.buffer) /\ Len(s.buffer) <= size
           /\ s.pos = r.pos + Len(s.buffer) - Len(r.buffer)
           /\ SubSeq(s.buffer, 1, Len(r.buffer)) = r.buffer
           /\ \A i \in Len(r.buffer) + 1 .. Len(s.buffer) :
                 r.pos + i - Len(r.buffer) <= Len(File) =>
                    s.buffer[i] = File[r.pos + i - Len(r.buffer)]
  <1> DEFINE old == Len(r.buffer)
             new == Len(s.buffer)
  <1>1. /\ r.max \in Nat /\ s.max \in Nat /\ r.buffer \in Seq(Byte) /\ s.buffer \in Seq(Byte)
        /\ old \in Nat /\ new \in Nat
    BY DEF Sound, ReadState
  <1>2. /\ r.pos = from + old /\ s.pos = from + new /\ r.max + old = size
        /\ s.max + new = size /\ from \in Nat /\ size \in Nat
    BY DEF Sound, Call
  <1>3. old <= new /\ new <= size /\ s.pos = r.pos + new - old
    <2> HIDE DEF old, new
    <2>1. s.pos = (from + old) + new - old
      BY <1>1, <1>2
    <2> QED
      BY <1>1, <1>2, <2>1
  <1>4. \A i \in 1 .. old : s.buffer[i] = r.buffer[i]
    <2>1. ASSUME NEW i \in 1 .. old PROVE s.buffer[i] = r.buffer[i]
      <3>1. i \in 1 .. new
        BY <1>1, <1>3
      <3> QED
        BY <3>1 DEF Sound
    <2> QED
      BY <2>1
  <1>5. SubSeq(s.buffer, 1, old) = r.buffer
    BY <1>1, <1>3, <1>4
  <1>6. ASSUME NEW i \in old + 1 .. new, r.pos + i - old <= Len(File)
        PROVE  s.buffer[i] = File[r.pos + i - old]
    <2>1. i \in 1 .. new /\ r.pos + i - old = from + i
      <3> HIDE DEF old, new
      <3>1. (from + old) + i - old = from + i
        BY <1>1, <1>2
      <3> QED
        BY <1>1, <1>2, <3>1
    <2>2. s.buffer[i] = Content(from + i - 1)
      BY <2>1 DEF Sound
    <2>3. from + i \in 1 .. Mapped
      BY <1>1, <1>2, <1>6, <2>1, FileIs
    <2>4. File[from + i] = Content(from + i - 1)
      <3> DEFINE j == from + i
      <3>1. j \in 1 .. Mapped
        BY <2>3
      <3>2. j - 1 = from + i - 1
        BY <1>1, <1>2
      <3> HIDE DEF j
      <3>3. File[j] = Content(j - 1)
        BY <3>1, FileIs
      <3> QED
        BY <3>2, <3>3 DEF j
    <2> QED
      BY <2>1, <2>2, <2>4
  <1> QED
    BY <1>3, <1>5, <1>6

(* A step that only delivers.                                              *)
LEMMA Arrives ==
    ASSUME Call, Sound(rd), Sound(rd)', rd'.max <= rd.max, faults \in Nat, faults' \in Nat,
           faults <= faults', map' = map, from' = from, size' = size, File' = File
    PROVE  Reader!Arrive
  <1>1. ASSUME NEW s, s = rd' PROVE Sound(s)
    BY <1>1 DEF Sound, Content, ReadState
  <1>2. /\ Len(rd.buffer) <= Len(rd'.buffer) /\ Len(rd'.buffer) <= size
        /\ rd'.pos = rd.pos + Len(rd'.buffer) - Len(rd.buffer)
        /\ SubSeq(rd'.buffer, 1, Len(rd.buffer)) = rd.buffer
        /\ \A i \in Len(rd.buffer) + 1 .. Len(rd'.buffer) :
              rd.pos + i - Len(rd.buffer) <= Len(File) =>
                 rd'.buffer[i] = File[rd.pos + i - Len(rd.buffer)]
    BY <1>1, Extends
  <1>3. faults > 0 => faults' > 0
    OBVIOUS
  <1> QED
    BY <1>2, <1>3 DEF Reader!Arrive, File

(* Nothing the file has is missing when the read returns.                  *)
LEMMA Completes ==
    ASSUME Call, Sound(rd)', Finished(rd)', map' = map, size' = size, File' = File
    PROVE  Len(rd'.buffer) = size \/ rd'.pos >= Len(File)
  <1>1. /\ rd'.max \in Nat /\ rd'.max + Len(rd'.buffer) = size /\ Len(rd'.buffer) \in Nat
    BY DEF Sound, ReadState
  <1>2. CASE rd'.max = 0
    BY <1>1, <1>2
  <1>3. CASE rd'.max # 0
    <2>1. PICK q \in Nat, o \in 0 .. bs - 1 : rd'.pos = q * bs + o /\ HolesFrom(q, Len(map))'
      BY <1>3 DEF Finished
    <2>2. HolesFrom(q, Len(map))
      BY <2>1 DEF HolesFrom
    <2>3. Mapped \in Nat /\ Len(File) = Mapped /\ Mapped <= q * bs /\ q * bs \in Nat
      BY <2>2, FileIs, MulNat
    <2> QED
      BY <2>1, <2>3
  <1> QED
    BY <1>2, <1>3

LEMMA InitRefines == Init => Reader!Init
  BY ReadAssumption DEF Init, Reader!Init

(* Every step maps to a step of FileReader or to a stutter.                *)
LEMMA NextRefines == ReadInv /\ ReadInv' /\ [Next]_vars => [Reader!Next]_(Reader!vars)
  <1> SUFFICES ASSUME ReadInv, ReadInv', [Next]_vars
               PROVE  [Reader!Next]_(Reader!vars)
    OBVIOUS
  <1>1. Call /\ faults \in Nat /\ size \in Nat /\ faults' \in Nat
    BY CallHolds DEF ReadInv
  <1>2. ASSUME map' = map PROVE File' = File
    BY <1>2 DEF File, Mapped, Content
  <1>3. CASE UNCHANGED vars
    <2>1. /\ map' = map /\ pc' = pc /\ rd' = rd /\ size' = size /\ faults' = faults
      BY <1>3 DEF vars
    <2> QED
      BY <1>2, <2>1 DEF Reader!vars, File
  <1>4. CASE Done
    <2>1. /\ map' = map /\ pc' = pc /\ rd' = rd /\ size' = size /\ faults' = faults
      BY <1>4 DEF Done, vars
    <2> QED
      BY <1>2, <2>1 DEF Reader!vars, File
  <1>5. CASE ext2_read
    <2>1. /\ pc = "idle" /\ pc' = "iterate" /\ map' = map /\ size' = size /\ faults' = faults
          /\ rd'.pos = rd.pos /\ rd'.buffer = <<>>
      BY <1>5 DEF ext2_read, ReadInv, ReadState
    <2> QED
      BY <1>1, <1>2, <2>1 DEF Reader!Next, Reader!Call, File
  <1>6. CASE SkipHole \/ IterateEnds
    <2>1. /\ pc = "iterate" /\ pc' \in {"iterate", "final"} /\ map' = map /\ size' = size
          /\ rd' = rd /\ faults' = faults
      BY <1>6 DEF SkipHole, IterateEnds
    <2> QED
      BY <1>2, <2>1 DEF Reader!vars, File
  <1>7. CASE Iterate
    <2>1. /\ pc = "iterate" /\ pc' \in {"iterate", "final"} /\ map' = map /\ size' = size
          /\ from' = from
      BY <1>7 DEF Iterate
    <2>2. faults <= faults'
      <3>1. PICK f : faults' = faults + Count(f)
        BY <1>7 DEF Iterate
      <3> QED
        BY <1>1, <3>1 DEF Count
    <2>3. rd'.max <= rd.max
      BY <1>7, IterateStep
    <2>4. Sound(rd) /\ Sound(rd)'
      BY <2>1 DEF ReadInv, BetweenCalls, AfterCalls
    <2>5. Reader!Arrive
      BY <1>1, <1>2, <2>1, <2>2, <2>3, <2>4, Arrives
    <2> QED
      BY <2>1, <2>5 DEF Reader!Next, Reader!Deliver
  <1>8. CASE Final
    <2>1. /\ pc = "final" /\ pc' = "done" /\ map' = map /\ size' = size /\ from' = from
      BY <1>8 DEF Final
    <2>2. faults <= faults'
      <3>1. faults' = faults \/ \E f : faults' = faults + Count(f)
        BY <1>8 DEF Final
      <3> QED
        BY <1>1, <3>1 DEF Count
    <2>3. rd'.max <= rd.max
      BY <1>8, FinalStep
    <2>4. Sound(rd) /\ Sound(rd)' /\ (faults' = 0 => Finished(rd)')
      BY <2>1 DEF ReadInv, AfterCalls
    <2>5. Reader!Arrive
      BY <1>1, <1>2, <2>1, <2>2, <2>3, <2>4, Arrives
    <2>6. faults' > 0 \/ Len(rd'.buffer) = size \/ rd'.pos >= Len(File)
      BY <1>1, <1>2, <2>1, <2>4, Completes
    <2> QED
      BY <2>1, <2>5, <2>6 DEF Reader!Next, Reader!Return, File
  <1>9. CASE IterateFails
    <2>1. /\ pc = "iterate" /\ pc' = "done" /\ map' = map /\ size' = size /\ from' = from
          /\ faults <= faults' /\ faults' > 0
      BY <1>1, <1>9 DEF IterateFails
    <2>2. Sound(rd) /\ Sound(rd)' /\ rd'.max <= rd.max
      BY <1>9, <2>1, FailsStep DEF ReadInv, BetweenCalls
    <2>3. Reader!Arrive
      BY <1>1, <1>2, <2>1, <2>2, Arrives
    <2> QED
      BY <2>1, <2>3 DEF Reader!Next, Reader!Return
  <1> QED
    BY <1>3, <1>4, <1>5, <1>6, <1>7, <1>8, <1>9 DEF Next

(* ext2_read, with its coalesced ranges, early aborts and failing disk     *)
(* reads, does what FileReader promises of a driver: the bytes arrive in   *)
(* order, none past the caller's buffer, file->pos advances with them, and *)
(* a read without a failure returns all that was asked for or all that the *)
(* file still has.                                                         *)
THEOREM ImplementsFileReader == Spec => ImplementsReader
  <1>1. Init /\ [][Next]_vars => []ReadInv
    BY InitReadInv, NextReadInv, PTL
  <1> QED
    BY <1>1, InitRefines, NextRefines, PTL DEF Spec, ImplementsReader, Reader!Spec
=============================================================================
