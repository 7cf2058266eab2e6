---------------------------- MODULE ReiserProofs ----------------------------
(***************************************************************************)
(* The ReiserFS driver, proved for every disk image, path, block size,     *)
(* number of cached nodes and pattern of failing reads: what journal_init  *)
(* replays (JournalSafe), that a path opens the file it names              *)
(* (OpensWhatIsNamed) and that reading keeps the promise of FileReader     *)
(* (ImplementsFileReader).                                                 *)
(***************************************************************************)
EXTENDS ReiserFS, WellFoundedInduction, TLAPS

(* What every loop of the proof rests on: the journal's words.             *)
Sized(d, s) ==
    /\ s.size \in Nat /\ d.head.first \in Nat /\ d.head.last \in Nat
    /\ DOMAIN d.log = 0 .. s.size - 1
    /\ \A k \in DOMAIN d.log : d.log[k].len \in Nat

(* The places at of the first n descriptors the loop has accepted: each    *)
(* has the identifier the loop expected, compared as it is on the disk.    *)
Accepted(d, size, n, at) ==
    /\ at \in [0 .. n -> 0 .. size - 1]
    /\ at[0] = d.head.first
    /\ \A k \in 0 .. n - 1 :
          LET x == d.log[at[k]]
              c == d.log[(at[k] + x.len + 1) % size]
          IN  /\ x.magic /\ x.mount = d.head.mount
              /\ x.id = Expected(d, k)
              /\ c.id = x.id /\ c.len = x.len
              /\ at[k + 1] = (at[k] + x.len + 2) % size

(* Between two turns of the loop, on a disk that can be read.              *)
InLoop(d, s, j) ==
    /\ j.head = d.head
    /\ d.head.first < s.size
    /\ j.next = Expected(d, j.transactions)
    /\ \E at : Accepted(d, s.size, j.transactions, at) /\ j.desc = at[j.transactions]

Journal == [head |-> jr.head, desc |-> jr.desc, next |-> jr.next,
            transactions |-> jr.transactions]

(* The inductive invariant.  A super block that is in use is the disk's;   *)
(* the variables of journal_init are those of a new loop, or of one that   *)
(* has accepted the transactions it counts.                                *)
ReplayInv ==
    /\ disk \in Images /\ faults \in Nat
    /\ jr = Journal /\ jr.transactions \in Nat
    /\ pc \in {"closed", "super", "header"} => jr = NoJournal
    /\ pc = "header" => Sized(disk, sb)
    /\ pc = "desc" => Sized(disk, sb)
    /\ pc = "desc" /\ faults = 0 => InLoop(disk, sb, jr)
    /\ pc = "again" =>
          /\ Sized(disk, sb)
          /\ faults = 0 => jr.transactions = 0 \/ InLoop(disk, sb, jr)

-----------------------------------------------------------------------------
(***************************************************************************)
(* The transaction number, which is counted in words of two bytes.         *)
(***************************************************************************)
LEMMA ModRange ==
    ASSUME NEW m \in Nat \ {0}, NEW a \in Nat
    PROVE  a % m \in 0 .. m - 1 /\ a \div m \in Nat
  OBVIOUS

LEMMA ModParts ==
    ASSUME NEW m \in Nat \ {0}, NEW a \in Nat
    PROVE  a = m * (a \div m) + (a % m)
  OBVIOUS

LEMMA MulAtLeast ==
    ASSUME NEW m \in Nat \ {0}, NEW a \in Int, a >= 1
    PROVE  m * a >= m
  OBVIOUS

LEMMA MulAtMost ==
    ASSUME NEW m \in Nat \ {0}, NEW a \in Int, a <= -1
    PROVE  m * a <= -m
  OBVIOUS

LEMMA MulMinus ==
    ASSUME NEW m \in Nat, NEW a \in Int, NEW b \in Int
    PROVE  m * (a - b) = m * a - m * b /\ m * a \in Int /\ m * b \in Int
  OBVIOUS

(* Quotient and remainder are determined by the range of the remainder.    *)
LEMMA ModUnique ==
    ASSUME NEW m \in Nat \ {0}, NEW a \in Nat, NEW q \in Nat, NEW r \in 0 .. m - 1,
           a = m * q + r
    PROVE  a % m = r /\ a \div m = q
  <1> DEFINE k == a \div m
             l == a % m
  <1>1. k \in Nat /\ l \in 0 .. m - 1
    BY ModRange
  <1>2. a = m * k + l
    BY ModParts
  <1> HIDE DEF k, l
  <1>3. m * (q - k) = l - r
    BY <1>1, <1>2, MulMinus
  <1>4. ~(q - k >= 1)
    BY <1>1, <1>3, MulAtLeast
  <1>5. ~(q - k <= -1)
    BY <1>1, <1>3, MulAtMost
  <1>6. q = k
    BY <1>1, <1>4, <1>5
  <1>7. l = r
    BY <1>1, <1>2, <1>6, MulMinus
  <1> QED
    BY <1>6, <1>7 DEF k, l

LEMMA ModSucc ==
    ASSUME NEW m \in Nat \ {0}, NEW a \in Nat
    PROVE  ((a % m) + 1) % m = (a + 1) % m
  <1> DEFINE k == a \div m
             l == a % m
  <1>1. k \in Nat /\ l \in 0 .. m - 1
    BY ModRange
  <1>2. a = m * k + l
    BY ModParts
  <1> HIDE DEF k, l
  <1>3. CASE l = m - 1
    <2>1. a + 1 = m * (k + 1) + 0 /\ a + 1 \in Nat /\ k + 1 \in Nat /\ 0 \in 0 .. m - 1
      BY <1>1, <1>2, <1>3
    <2>2. (a + 1) % m = 0
      BY <1>1, <2>1, ModUnique
    <2>3. l + 1 = m * 1 + 0
      BY <1>3
    <2>4. (l + 1) % m = 0
      BY <1>1, <2>3, ModUnique
    <2> QED
      BY <2>2, <2>4 DEF l
  <1>4. CASE l < m - 1
    <2>1. a + 1 = m * k + (l + 1) /\ l + 1 \in 0 .. m - 1 /\ a + 1 \in Nat
      BY <1>1, <1>2, <1>4, MulMinus
    <2>2. (a + 1) % m = l + 1
      BY <1>1, <2>1, ModUnique
    <2>3. l + 1 = m * 0 + (l + 1)
      BY <1>1
    <2>4. (l + 1) % m = l + 1
      BY <1>1, <2>1, <2>3, ModUnique
    <2> QED
      BY <2>2, <2>4 DEF l
  <1> QED
    BY <1>1, <1>3, <1>4

LEMMA ByteSize == Byte \in Nat \ {0}
  BY ReiserAssumption

LEMMA WordSize == Byte * Byte \in Nat \ {0}
  BY ByteSize

LEMMA SwapNat ==
    ASSUME NEW w \in Nat
    PROVE  le32_to_cpu(w) \in Nat
  <1>1. w % Byte \in Nat /\ w \div Byte \in Nat
    BY ByteSize
  <1>2. (w % Byte) * Byte \in Nat
    BY <1>1, ByteSize
  <1> QED
    BY <1>1, <1>2 DEF le32_to_cpu

(* The identifiers the loop counts through are the expected ones.          *)
LEMMA ExpectedSucc ==
    ASSUME NEW d, d.head.last \in Nat, NEW k \in Nat
    PROVE  (Expected(d, k) + 1) % (Byte * Byte) = Expected(d, k + 1)
  <1> DEFINE a == le32_to_cpu(d.head.last) + 1 + k
             M == Byte * Byte
  <1>1. a \in Nat /\ M \in Nat \ {0}
    BY SwapNat, WordSize
  <1>2. ((a % M) + 1) % M = (a + 1) % M
    BY <1>1, ModSucc
  <1>3. a + 1 = le32_to_cpu(d.head.last) + 1 + (k + 1)
    BY SwapNat
  <1> QED
    BY <1>2, <1>3 DEF Expected

-----------------------------------------------------------------------------
(***************************************************************************)
(* The loop.                                                               *)
(***************************************************************************)
LEMMA SuperSized ==
    ASSUME disk \in Images, Supported(FindSuper(disk)), FindSuper(disk).journal # 0
    PROVE  Sized(disk, FindSuper(disk))
  BY ImageAssumption DEF Sized

(* A loop that has accepted nothing yet.                                   *)
LEMMA LoopStarts ==
    ASSUME Sized(disk, sb), NEW j, disk.head.first < sb.size, j.head = disk.head,
           j.desc = disk.head.first, j.transactions = 0,
           j.next = (le32_to_cpu(disk.head.last) + 1) % (Byte * Byte)
    PROVE  InLoop(disk, sb, j)
  <1> DEFINE at == [k \in 0 .. 0 |-> disk.head.first]
  <1>1. le32_to_cpu(disk.head.last) \in Nat
    BY SwapNat DEF Sized
  <1>2. j.next = Expected(disk, 0)
    BY <1>1 DEF Expected
  <1>3. Accepted(disk, sb.size, 0, at) /\ at[0] = disk.head.first
    BY DEF Accepted, Sized
  <1> QED
    BY <1>2, <1>3 DEF InLoop

(* A turn of the loop that accepts a transaction.                          *)
LEMMA LoopGoesOn ==
    ASSUME Sized(disk, sb), InLoop(disk, sb, jr), jr.transactions \in Nat,
           NEW x, x = Log[jr.desc], ValidTransaction(x, jr),
           NEW j, j.head = jr.head, j.next = (jr.next + 1) % (Byte * Byte),
           j.transactions = jr.transactions + 1,
           j.desc = (jr.desc + x.len + 2) % sb.size
    PROVE  InLoop(disk, sb, j)
  <1> DEFINE n == jr.transactions
             size == sb.size
  <1>1. PICK at : Accepted(disk, size, n, at) /\ jr.desc = at[n]
    BY DEF InLoop
  <1>2. disk.head.first \in Nat /\ size \in Nat \ {0} /\ n \in Nat
    BY DEF InLoop, Sized
  <1>3. at \in [0 .. n -> 0 .. size - 1] /\ at[0] = disk.head.first
    BY <1>1 DEF Accepted
  <1>4. n \in 0 .. n /\ 0 \in 0 .. n
    BY <1>2
  <1>5. at[n] \in 0 .. size - 1
    BY <1>3, <1>4
  <1>6. x.len \in Nat
    BY <1>1, <1>5 DEF Sized, Log
  <1>7. j.desc \in 0 .. size - 1
    <2>1. jr.desc + x.len + 2 \in Nat
      BY <1>1, <1>5, <1>6
    <2> QED
      BY <2>1, <1>2, ModRange
  <1> DEFINE new == [k \in 0 .. n + 1 |-> IF k = n + 1 THEN j.desc ELSE at[k]]
  <1>8. new \in [0 .. n + 1 -> 0 .. size - 1]
    BY <1>2, <1>3, <1>7
  <1>9. new[0] = disk.head.first /\ new[n + 1] = j.desc /\ \A k \in 0 .. n : new[k] = at[k]
    BY <1>2, <1>3
  <1> HIDE DEF new
  <1>10. ASSUME NEW k \in 0 .. n
        PROVE  LET y == disk.log[new[k]]
                   c == disk.log[(new[k] + y.len + 1) % size]
               IN  /\ y.magic /\ y.mount = disk.head.mount
                   /\ y.id = Expected(disk, k)
                   /\ c.id = y.id /\ c.len = y.len
                   /\ new[k + 1] = (new[k] + y.len + 2) % size
    <2>1. CASE k = n
      <3>1. new[k] = jr.desc /\ disk.log[new[k]] = x /\ new[k + 1] = j.desc
        BY <1>1, <1>9, <2>1 DEF Log
      <3>2. jr.next = Expected(disk, n) /\ jr.head = disk.head
        BY DEF InLoop
      <3> QED
        BY <3>1, <3>2, <2>1 DEF ValidTransaction, Log
    <2>2. CASE k # n
      <3>1. k \in 0 .. n - 1 /\ k + 1 \in 0 .. n
        BY <1>2, <2>2
      <3>2. new[k] = at[k] /\ new[k + 1] = at[k + 1]
        BY <1>9, <3>1
      <3> QED
        BY <1>1, <3>1, <3>2, Zenon DEF Accepted
    <2> QED
      BY <2>1, <2>2
  <1>11. Accepted(disk, size, n + 1, new)
    <2>1. 0 .. (n + 1) - 1 = 0 .. n
      BY <1>2
    <2> QED
      BY <1>8, <1>9, <1>10, <2>1 DEF Accepted
  <1>12. j.next = Expected(disk, n + 1)
    BY ExpectedSucc, <1>2 DEF InLoop, Sized
  <1> QED
    BY <1>9, <1>11, <1>12 DEF InLoop

(* What the loop has accepted is unflushed, if it has been read right.     *)
LEMMA AcceptedUnflushed ==
    ASSUME Sized(disk, sb), InLoop(disk, sb, jr), jr.transactions \in Nat,
           Legible(disk, jr.transactions)
    PROVE  Unflushed(disk, sb.size, jr.transactions)
  <1> DEFINE n == jr.transactions
             size == sb.size
  <1>1. PICK at : Accepted(disk, size, n, at)
    BY DEF InLoop
  <1>2. at \in [0 .. n -> 0 .. size - 1] /\ at[0] = disk.head.first
    BY <1>1 DEF Accepted
  <1>3. ASSUME NEW k \in 0 .. n - 1
        PROVE  /\ Committed(disk, size, at[k], Expected(disk, k))
               /\ at[k + 1] = (at[k] + disk.log[at[k]].len + 2) % size
    <2>1. at[k] \in DOMAIN disk.log
      BY <1>2 DEF Sized
    <2>2. le32_to_cpu(disk.log[at[k]].id) = Expected(disk, k)
      BY <1>1, <2>1 DEF Accepted, Legible
    <2> QED
      BY <1>1, <2>2 DEF Accepted, Committed
  <1> QED
    BY <1>2, <1>3 DEF Unflushed

-----------------------------------------------------------------------------
(***************************************************************************)
(* The invariant.                                                          *)
(***************************************************************************)
LEMMA ReplayInit == Init => ReplayInv
  <1> SUFFICES ASSUME Init PROVE ReplayInv
    OBVIOUS
  <1>1. disk \in Images /\ faults = 0 /\ jr = NoJournal /\ pc = "closed"
    BY DEF Init
  <1>2. jr = Journal /\ jr.transactions = 0
    BY <1>1 DEF NoJournal, Journal
  <1> QED
    BY <1>1, <1>2 DEF ReplayInv

LEMMA OpenReplay ==
    ASSUME ReplayInv, reiserfs_open
    PROVE  ReplayInv'
  BY DEF ReplayInv, reiserfs_open, GiveUp, Journal

LEMMA SuperReplay ==
    ASSUME ReplayInv, reiserfs_read_super
    PROVE  ReplayInv'
  <1> USE DEF reiserfs_read_super
  <1>1. disk \in Images /\ jr = NoJournal /\ jr' = jr /\ disk' = disk /\ faults' \in Nat
    BY DEF ReplayInv, Fault, NoFaults
  <1>2. CASE pc' = "failed"
    BY <1>1, <1>2 DEF ReplayInv, NoJournal, Journal
  <1>3. CASE pc' # "failed"
    <2>1. Supported(FindSuper(disk)) /\ sb' = FindSuper(disk)
      BY <1>3 DEF GiveUp
    <2>2. pc' = IF sb'.journal = 0 THEN "root" ELSE "header"
      BY <1>3 DEF GiveUp
    <2>3. sb'.journal # 0 => Sized(disk', sb')
      BY <1>1, <2>1, SuperSized
    <2>4. jr'.transactions = 0 /\ jr' = Journal'
      BY <1>1 DEF NoJournal, Journal
    <2> QED
      BY <1>1, <2>2, <2>3, <2>4 DEF ReplayInv
  <1> QED
    BY <1>2, <1>3

LEMMA HeaderReplay ==
    ASSUME ReplayInv, JournalHeader
    PROVE  ReplayInv'
  <1>1. /\ disk' = disk /\ disk \in Images /\ sb' = sb /\ jr = NoJournal
        /\ Sized(disk, sb) /\ Sized(disk', sb') /\ faults \in Nat
    BY DEF ReplayInv, JournalHeader
  <1>2. PICK h : /\ IF h = disk.head THEN NoFaults ELSE Fault
                 /\ IF h.first >= sb.size THEN pc' = "again" /\ UNCHANGED jr
                    ELSE /\ pc' = "desc"
                         /\ jr' = [jr EXCEPT !.head = h, !.desc = h.first,
                                     !.next = (le32_to_cpu(h.last) + 1) % (Byte * Byte)]
    BY DEF JournalHeader
  <1>3. faults' \in Nat
    BY <1>1, <1>2 DEF Fault, NoFaults
  <1>4. CASE h.first >= sb.size
    BY <1>1, <1>2, <1>4, <1>3 DEF ReplayInv, NoJournal, Journal
  <1>5. CASE ~(h.first >= sb.size)
    <2>1. /\ jr'.head = h /\ jr'.desc = h.first /\ jr'.transactions = 0
          /\ jr'.next = (le32_to_cpu(h.last) + 1) % (Byte * Byte)
          /\ jr' = Journal' /\ pc' = "desc"
      BY <1>1, <1>2, <1>5 DEF NoJournal, Journal
    <2>2. ASSUME faults' = 0
          PROVE  InLoop(disk, sb, jr')
      <3>1. h = disk.head
        BY <1>1, <1>2, <2>2 DEF Fault
      <3>2. disk.head.first < sb.size
        BY <1>1, <1>5, <3>1 DEF Sized
      <3> QED
        BY <1>1, <2>1, <3>1, <3>2, LoopStarts
    <2> QED
      BY <1>1, <1>3, <2>1, <2>2 DEF ReplayInv
  <1> QED
    BY <1>4, <1>5

LEMMA JournalReplay ==
    ASSUME ReplayInv, journal_init
    PROVE  ReplayInv'
  <1>1. /\ disk' = disk /\ disk \in Images /\ sb' = sb /\ Sized(disk, sb) /\ Sized(disk', sb')
        /\ jr = Journal /\ jr.transactions \in Nat /\ pc = "desc" /\ faults \in Nat
    BY DEF ReplayInv, journal_init
  <1>2. PICK d : /\ IF d = Log[jr.desc] THEN NoFaults ELSE Fault
                 /\ IF ValidTransaction(d, jr)
                    THEN /\ jr' = [jr EXCEPT !.next = (@ + 1) % (Byte * Byte),
                                             !.transactions = @ + 1,
                                             !.desc = (@ + d.len + 2) % sb.size]
                         /\ UNCHANGED pc
                    ELSE pc' = "again" /\ UNCHANGED jr
    BY DEF journal_init
  <1>3. faults' \in Nat
    BY <1>1, <1>2 DEF Fault, NoFaults
  <1>4. ASSUME faults' = 0
        PROVE  faults = 0 /\ d = Log[jr.desc] /\ InLoop(disk, sb, jr)
    <2>1. faults = 0 /\ d = Log[jr.desc]
      BY <1>1, <1>2, <1>4 DEF Fault, NoFaults
    <2> QED
      BY <1>1, <2>1 DEF ReplayInv
  <1>5. CASE ValidTransaction(d, jr)
    <2>1. /\ jr'.head = jr.head /\ jr'.next = (jr.next + 1) % (Byte * Byte)
          /\ jr'.transactions = jr.transactions + 1
          /\ jr'.desc = (jr.desc + d.len + 2) % sb.size
          /\ jr' = Journal' /\ pc' = "desc"
      BY <1>1, <1>2, <1>5 DEF Journal
    <2>2. ASSUME faults' = 0
          PROVE  InLoop(disk, sb, jr')
      BY <1>1, <1>4, <1>5, <2>1, <2>2, LoopGoesOn
    <2> QED
      BY <1>1, <1>3, <2>1, <2>2 DEF ReplayInv
  <1>6. CASE ~ValidTransaction(d, jr)
    <2>1. pc' = "again" /\ jr' = jr
      BY <1>2, <1>6
    <2> QED
      BY <1>1, <1>4, <1>3, <2>1 DEF ReplayInv, Journal
  <1> QED
    BY <1>5, <1>6

(* Everything that comes behind leaves the journal alone.                  *)
LEMMA OtherReplay ==
    ASSUME ReplayInv, disk' = disk, jr' = jr, Fault \/ NoFaults,
           pc' \notin {"closed", "super", "header", "desc", "again"}
    PROVE  ReplayInv'
  BY DEF ReplayInv, Journal, Fault, NoFaults

LEMMA NextReplay ==
    ASSUME ReplayInv, Next
    PROVE  ReplayInv'
  <1> USE DEF Next, Steps
  <1>1. CASE reiserfs_open
    BY <1>1, OpenReplay
  <1>2. CASE reiserfs_read_super
    BY <1>2, SuperReplay
  <1>3. CASE JournalHeader
    BY <1>3, HeaderReplay
  <1>4. CASE journal_init
    BY <1>4, JournalReplay
  <1>5. CASE ReadSuperAgain \/ ReadRoot
    BY <1>5, OtherReplay DEF ReadSuperAgain, ReadRoot, GiveUp
  <1>6. CASE OpenStat
    BY <1>6, OtherReplay DEF OpenStat, Walk, GiveUp
  <1>7. CASE OpenLink
    BY <1>7, OtherReplay DEF OpenLink, NoFaults, GiveUp
  <1>8. CASE ReadLink
    BY <1>8, OtherReplay DEF ReadLink, Walk, GiveUp
  <1>9. CASE LinkRead
    BY <1>9, OtherReplay DEF LinkRead, NoFaults, GiveUp
  <1>10. CASE OpenEnd
    BY <1>10, OtherReplay DEF OpenEnd, Walk, GiveUp
  <1>11. CASE OpenName
    BY <1>11, OtherReplay DEF OpenName, NoFaults, GiveUp
  <1>12. CASE OpenDirItem
    BY <1>12, OtherReplay DEF OpenDirItem, Walk, GiveUp
  <1>13. CASE SearchFile
    BY <1>13, OtherReplay DEF SearchFile, Walk
  <1>14. CASE NextKey
    BY <1>14, OtherReplay DEF NextKey, Walk
  <1>15. CASE ReadLoop
    BY <1>15, OtherReplay DEF ReadLoop
  <1>16. CASE ReadReturn
    BY <1>16, OtherReplay DEF ReadReturn, NoFaults
  <1>17. ASSUME NEW p \in Positions, reiserfs_seek(p)
         PROVE  ReplayInv'
    BY <1>17, OtherReplay DEF reiserfs_seek, NoFaults
  <1>18. ASSUME NEW n \in Sizes, reiserfs_read(n)
         PROVE  ReplayInv'
    BY <1>18, OtherReplay DEF reiserfs_read, NoFaults
  <1>19. CASE reiserfs_close
    BY <1>19, OtherReplay DEF reiserfs_close, NoFaults
  <1>20. CASE Finished
    BY <1>20, OtherReplay DEF Finished, NoFaults, vars
  <1> QED
    BY <1>1, <1>2, <1>3, <1>4, <1>5, <1>6, <1>7, <1>8, <1>9, <1>10, <1>11, <1>12, <1>13,
       <1>14, <1>15, <1>16, <1>17, <1>18, <1>19, <1>20

(* When the loop is over, on a disk that can be read, what it counted are  *)
(* committed transactions behind the last flushed one: journal_init, with  *)
(* any number of turns, a journal that wraps and numbers that overflow.    *)
THEOREM JournalSafe == Spec => []ReplaysOnlyCommitted
  <1>1. Init => ReplayInv
    BY ReplayInit
  <1>2. ReplayInv /\ [Next]_vars => ReplayInv'
    <2>1. CASE Next
      BY <2>1, NextReplay
    <2>2. CASE UNCHANGED vars
      BY <2>2 DEF vars, ReplayInv, Journal
    <2> QED
      BY <2>1, <2>2
  <1>3. ReplayInv => ReplaysOnlyCommitted
    BY AcceptedUnflushed DEF ReplayInv, ReplaysOnlyCommitted, Unflushed
  <1> QED
    BY <1>1, <1>2, <1>3, PTL DEF Spec

-----------------------------------------------------------------------------
(***************************************************************************)
(* The walk along a path, as Resolve defines it.                           *)
(***************************************************************************)
Start(p) == [at |-> ROOT_KEY.obj, up |-> ROOT_KEY.obj, rest |-> p, links |-> 0, res |-> "going"]

Step(d, w) == PathStep(d.objs, ROOT_KEY.obj, MAX_LINK_COUNT, TooLong, w)

IsWalk(d, p, n, f) == f = [k \in 0 .. n |-> IF k = 0 THEN Start(p) ELSE Step(d, f[k - 1])]

Bound(p) == Len(p) + (MAX_LINK_COUNT + 1) * PATH_MAX

(* A set of numbers has a least one.                                       *)
LEMMA LeastNumber ==
    ASSUME NEW R, R \subseteq Nat, R # {}
    PROVE  \E x \in R : \A q \in R : x <= q
<1>1. PICK r \in R : \A q \in R : ~(<<q, r>> \in OpToRel(<, Nat))
  BY NatLessThanWellFounded, WFMin, Zenon
<1>2. \A q \in R : r \in Nat /\ q \in Nat /\ ~(q < r)
  <2>1. \A x, y \in Nat : y < x => <<y, x>> \in OpToRel(<, Nat)
    BY DEF OpToRel
  <2> QED BY <1>1, <2>1, Zenon
<1> QED BY <1>2

(* The walk of Resolve exists for every number of steps.                   *)
LEMMA WalkExists ==
    ASSUME NEW d, NEW p, NEW n \in Nat
    PROVE  \E f : IsWalk(d, p, n, f)
<1> DEFINE Bad == {m \in Nat : ~ \E f : IsWalk(d, p, m, f)}
<1> SUFFICES ASSUME Bad # {} PROVE FALSE
  OBVIOUS
<1>1. PICK m \in Bad : \A q \in Bad : m <= q
  <2> HIDE DEF Bad
  <2>1. Bad \subseteq Nat
    BY DEF Bad
  <2> QED BY <2>1, LeastNumber
<1>2. CASE m = 0
  <2> DEFINE f == [k \in 0 .. 0 |-> Start(p)]
  <2>1. f = [k \in 0 .. 0 |-> IF k = 0 THEN Start(p) ELSE Step(d, f[k - 1])]
    OBVIOUS
  <2> HIDE DEF f
  <2>2. IsWalk(d, p, 0, f)
    BY <2>1 DEF IsWalk
  <2> QED BY <1>2, <2>2
<1>3. CASE m # 0
  <2>1. m - 1 \in Nat /\ m - 1 \notin Bad /\ m \in Nat
    BY <1>1, <1>3
  <2>2. PICK f : IsWalk(d, p, m - 1, f)
    BY <2>1
  <2> DEFINE g == [k \in 0 .. m |-> IF k = m THEN Step(d, f[m - 1]) ELSE f[k]]
  <2>3. ASSUME NEW k \in 0 .. m
        PROVE  g[k] = IF k = 0 THEN Start(p) ELSE Step(d, g[k - 1])
    <3>1. CASE k = m
      <4>1. g[k] = Step(d, f[m - 1]) /\ g[m - 1] = f[m - 1] /\ k # 0
        BY <1>3, <2>1, <3>1
      <4> QED BY <3>1, <4>1
    <3>2. CASE k # m
      <4>1. k \in 0 .. m - 1
        BY <2>1, <3>2
      <4>2. f[k] = IF k = 0 THEN Start(p) ELSE Step(d, f[k - 1])
        BY <2>2, <4>1 DEF IsWalk
      <4>3. g[k] = f[k] /\ (k # 0 => g[k - 1] = f[k - 1])
        BY <2>1, <3>2, <4>1
      <4> QED BY <4>2, <4>3
    <3> QED BY <3>1, <3>2
  <2>4. g = [k \in 0 .. m |-> IF k = 0 THEN Start(p) ELSE Step(d, g[k - 1])]
    <3>1. g = [k \in 0 .. m |-> g[k]]
      OBVIOUS
    <3> HIDE DEF g
    <3> QED BY <2>3, <3>1
  <2> HIDE DEF g
  <2>5. IsWalk(d, p, m, g)
    BY <2>4 DEF IsWalk
  <2> QED BY <2>5
<1> QED BY <1>2, <1>3

(* Resolve is where that walk is in the end.                               *)
LEMMA Resolves ==
    ASSUME NEW d, NEW p, NEW n \in Nat
    PROVE  \E f : /\ IsWalk(d, p, n, f)
                  /\ Resolve(d.objs, ROOT_KEY.obj, MAX_LINK_COUNT, TooLong, n, p) = f[n]
<1> DEFINE g == CHOOSE g : g = [k \in 0 .. n |-> IF k = 0 THEN Start(p) ELSE Step(d, g[k - 1])]
<1>1. IsWalk(d, p, n, g)
  <2>1. \E f : f = [k \in 0 .. n |-> IF k = 0 THEN Start(p) ELSE Step(d, f[k - 1])]
    <3>1. PICK f : IsWalk(d, p, n, f)
      BY WalkExists
    <3> QED BY <3>1 DEF IsWalk
  <2>2. g = [k \in 0 .. n |-> IF k = 0 THEN Start(p) ELSE Step(d, g[k - 1])]
    BY <2>1
  <2> HIDE DEF g
  <2> QED BY <2>2 DEF IsWalk
<1>2. Resolve(d.objs, ROOT_KEY.obj, MAX_LINK_COUNT, TooLong, n, p) = g[n]
  BY DEF Resolve, Step, Start
<1> QED BY <1>1, <1>2

(* Once it has come to an end the walk stays there.                        *)
LEMMA WalkEnds ==
    ASSUME NEW d, NEW p, NEW n \in Nat, NEW f, IsWalk(d, p, n, f), NEW k \in 0 .. n,
           f[k].res # "going"
    PROVE  f[n] = f[k]
<1> DEFINE Bad == {m \in k .. n : f[m] # f[k]}
<1> SUFFICES ASSUME Bad # {} PROVE FALSE
  OBVIOUS
<1>1. PICK m \in Bad : \A q \in Bad : m <= q
  <2>1. Bad \subseteq Nat
    OBVIOUS
  <2> HIDE DEF Bad
  <2> QED BY <2>1, LeastNumber
<1>2. m \in k .. n /\ m # k /\ m \in 1 .. n /\ m - 1 \in k .. n
  BY <1>1
<1>3. f[m - 1] = f[k]
  BY <1>1, <1>2
<1>4. f[m] = Step(d, f[m - 1])
  <2>1. m \in 0 .. n /\ m # 0
    BY <1>2
  <2> HIDE DEF Bad
  <2> QED BY <2>1 DEF IsWalk
<1>5. Step(d, f[k]) = f[k]
  BY DEF Step, PathStep
<1> QED BY <1>1, <1>3, <1>4, <1>5

(* The walk along p, which ends with v, comes by w with steps to spare for *)
(* what is left.                                                           *)
Left(w) == Len(w.rest) + (MAX_LINK_COUNT - w.links) * PATH_MAX

Leads(d, p, v, w) ==
    \E f : /\ IsWalk(d, p, Bound(p), f) /\ v = f[Bound(p)]
           /\ \E k \in 0 .. Bound(p) : f[k] = w /\ k + Left(w) < Bound(p)

(* The constants a walk is measured by.                                    *)
LEMMA Numbers ==
    /\ PATH_MAX \in Nat /\ PATH_MAX > 0 /\ MAX_LINK_COUNT \in Nat
    /\ \A m \in Nat : m * PATH_MAX \in Nat
    /\ \A m \in Nat : (m + 1) * PATH_MAX = m * PATH_MAX + PATH_MAX
<1>1. PATH_MAX \in Nat \ {0} /\ MAX_LINK_COUNT \in Nat
  BY ReiserAssumption, Zenon
<1>2. PATH_MAX \in Nat /\ PATH_MAX > 0 /\ MAX_LINK_COUNT \in Nat
  BY <1>1
<1> QED BY <1>2

(* The walk starts at the root with the whole path.                        *)
LEMMA LeadsStart ==
    ASSUME NEW d, NEW p, Len(p) \in Nat
    PROVE  Leads(d, p, Resolve(d.objs, ROOT_KEY.obj, MAX_LINK_COUNT, TooLong, Bound(p), p), Start(p))
<1>1. Bound(p) \in Nat /\ 0 + Left(Start(p)) < Bound(p)
  <2>1. Start(p).rest = p /\ Start(p).links = 0
    BY DEF Start
  <2>2. MAX_LINK_COUNT * PATH_MAX \in Nat /\ (MAX_LINK_COUNT + 1) * PATH_MAX = MAX_LINK_COUNT * PATH_MAX + PATH_MAX
    BY Numbers
  <2>3. MAX_LINK_COUNT - 0 = MAX_LINK_COUNT /\ PATH_MAX \in Nat /\ PATH_MAX > 0
    BY Numbers
  <2> QED BY <2>1, <2>2, <2>3 DEF Bound, Left
<1>2. PICK f : /\ IsWalk(d, p, Bound(p), f)
               /\ Resolve(d.objs, ROOT_KEY.obj, MAX_LINK_COUNT, TooLong, Bound(p), p) = f[Bound(p)]
  BY <1>1, Resolves
<1>3. 0 \in 0 .. Bound(p) /\ f[0] = Start(p)
  BY <1>1, <1>2 DEF IsWalk
<1> QED BY <1>1, <1>2, <1>3 DEF Leads

(* A step that leaves less to do stays within the number of steps.         *)
LEMMA LeadsOn ==
    ASSUME NEW d, NEW p, Len(p) \in Nat, NEW v, NEW w, Leads(d, p, v, w),
           Left(w) \in Nat, Left(Step(d, w)) \in Nat, Left(Step(d, w)) < Left(w)
    PROVE  Leads(d, p, v, Step(d, w))
<1> DEFINE n == Bound(p)
<1>0. n \in Nat
  BY Numbers DEF Bound
<1>1. PICK f : /\ IsWalk(d, p, n, f) /\ v = f[n]
               /\ \E k \in 0 .. n : f[k] = w /\ k + Left(w) < n
  BY DEF Leads
<1>2. PICK k \in 0 .. n : f[k] = w /\ k + Left(w) < n
  BY <1>1
<1> HIDE DEF n
<1>3. k + 1 \in 0 .. n /\ (k + 1) - 1 = k /\ k + 1 # 0 /\ (k + 1) + Left(Step(d, w)) < n
  BY <1>0, <1>2
<1>4. f[k + 1] = Step(d, w)
  BY <1>1, <1>2, <1>3 DEF IsWalk
<1> QED BY <1>1, <1>3, <1>4 DEF Leads, n

(* A step that ends the walk says what the path names.                     *)
LEMMA LeadsEnd ==
    ASSUME NEW d, NEW p, Len(p) \in Nat, NEW v, NEW w, Leads(d, p, v, w),
           Left(w) \in Nat, Step(d, w).res # "going"
    PROVE  v = Step(d, w)
<1> DEFINE n == Bound(p)
<1>0. n \in Nat
  BY Numbers DEF Bound
<1>1. PICK f : /\ IsWalk(d, p, n, f) /\ v = f[n]
               /\ \E k \in 0 .. n : f[k] = w /\ k + Left(w) < n
  BY DEF Leads
<1>2. PICK k \in 0 .. n : f[k] = w /\ k + Left(w) < n
  BY <1>1
<1> HIDE DEF n
<1>3. k + 1 \in 0 .. n /\ (k + 1) - 1 = k /\ k + 1 # 0
  BY <1>0, <1>2
<1>4. f[k + 1] = Step(d, w)
  BY <1>1, <1>2, <1>3 DEF IsWalk
<1>5. f[n] = f[k + 1]
  BY <1>0, <1>1, <1>3, <1>4, WalkEnds
<1> QED BY <1>1, <1>4, <1>5

(* A name has at least one character, a path is made of names and slashes. *)
Name == STRING \ {""}

Text == Seq(Name)

(* The places a walk can be at before its end.                             *)
Sites(d) == [at : DOMAIN d.objs, up : DOMAIN d.objs, rest : Text, links : 0 .. MAX_LINK_COUNT,
             res : {"going"}]

(* What is left to do is a number.                                         *)
LEMMA LeftIsNat ==
    ASSUME NEW d, NEW w \in Sites(d)
    PROVE  Left(w) \in Nat /\ Len(w.rest) \in Nat
<1>1. w.rest \in Text /\ w.links \in 0 .. MAX_LINK_COUNT
  BY DEF Sites
<1>2. Len(w.rest) \in Nat
  BY <1>1 DEF Text
<1>3. MAX_LINK_COUNT - w.links \in Nat
  BY <1>1, Numbers
<1>4. (MAX_LINK_COUNT - w.links) * PATH_MAX \in Nat
  BY <1>3, Numbers
<1> QED BY <1>2, <1>4 DEF Left

(* Dropping the slashes in front leaves a part of the path.                *)
LEMMA SlashesDropped ==
    ASSUME NEW p \in Text
    PROVE  Slashes(p) \in 0 .. Len(p) /\ DropSlashes(p) \in Text /\ Len(DropSlashes(p)) \in 0 .. Len(p)
<1>0. Len(p) \in Nat
  BY DEF Text
<1>1. Slashes(p) \in 0 .. Len(p)
  <2> DEFINE I == {i \in 1 .. Len(p) : p[i] # "/"}
             first == SelectInSeq(p, LAMBDA x : x # "/")
  <2>1. first = IF I # {} THEN Min(I) ELSE 0
    BY DEF SelectInSeq
  <2>2. I # {} => Min(I) \in I
    <3>1. ASSUME I # {} PROVE \E x \in I : \A y \in I : x <= y
      <4> HIDE DEF I
      <4>1. I \subseteq Nat
        BY <1>0 DEF I
      <4> QED BY <3>1, <4>1, LeastNumber
    <3> HIDE DEF I
    <3> QED BY <3>1 DEF Min
  <2>3. first \in 0 .. Len(p)
    <3> HIDE DEF first
    <3> QED BY <1>0, <2>1, <2>2
  <2>4. Slashes(p) = IF first = 0 THEN Len(p) ELSE first - 1
    BY DEF Slashes
  <2> HIDE DEF first
  <2> QED BY <1>0, <2>3, <2>4
<1> QED BY <1>0, <1>1 DEF DropSlashes, Text

(* Behind a link with the text x.                                          *)
Linked(d, w, x) ==
    [at |-> IF x[1] = "/" THEN ROOT_KEY.obj ELSE w.up, up |-> w.up, rest |-> x \o w.rest,
     links |-> w.links + 1, res |-> "going"]

(* A link that is neither one too many nor too long is followed.           *)
LEMMA LinkFollowed ==
    ASSUME NEW d, NEW p, Len(p) \in Nat, NEW v, NEW w \in Sites(d), Leads(d, p, v, w),
           d.objs[w.at].mode = "lnk", NEW x \in Text, d.objs[w.at].target = x, x # <<>>,
           ROOT_KEY.obj \in DOMAIN d.objs, w.links < MAX_LINK_COUNT, ~TooLong(x, w.rest)
    PROVE  Linked(d, w, x) \in Sites(d) /\ Leads(d, p, v, Linked(d, w, x))
<1>00. w.rest \in Text /\ w.links \in 0 .. MAX_LINK_COUNT /\ w.up \in DOMAIN d.objs
  BY DEF Sites
<1>0. w = [at |-> w.at, up |-> w.up, rest |-> w.rest, links |-> w.links, res |-> "going"]
  BY DEF Sites
<1>1. Step(d, w) = Linked(d, w, x)
  <2>1. ~(w.links >= MAX_LINK_COUNT)
    BY <1>00, Numbers
  <2>2. w.res = "going"
    BY DEF Sites
  <2> QED BY <1>0, <2>1, <2>2 DEF Step, PathStep, Follow, Linked
<1>2. x \o w.rest \in Text /\ Len(x \o w.rest) = Len(x) + Len(w.rest)
  BY <1>00 DEF Text
<1>3. Linked(d, w, x) \in Sites(d)
  BY <1>00, <1>2, Numbers DEF Linked, Sites
<1>4. Left(Linked(d, w, x)) < Left(w)
  <2> DEFINE m == MAX_LINK_COUNT - (w.links + 1)
  <2>1. m \in Nat /\ MAX_LINK_COUNT - w.links = m + 1
    BY <1>00, Numbers
  <2>2. m * PATH_MAX \in Nat /\ (m + 1) * PATH_MAX = m * PATH_MAX + PATH_MAX
    BY <2>1, Numbers
  <2>3. Left(w) = Len(w.rest) + (m * PATH_MAX + PATH_MAX)
    BY <2>1, <2>2 DEF Left
  <2>4. Left(Linked(d, w, x)) = Len(x) + Len(w.rest) + m * PATH_MAX
    BY <1>2 DEF Left, Linked
  <2>5. Len(x) \in Nat /\ Len(w.rest) \in Nat /\ PATH_MAX \in Nat
    BY <1>00, Numbers DEF Text
  <2>6. Len(x) + Len(w.rest) <= PATH_MAX - 1
    BY <2>5 DEF TooLong
  <2> HIDE DEF m
  <2> QED BY <2>2, <2>3, <2>4, <2>5, <2>6
<1>5. Left(w) \in Nat /\ Left(Linked(d, w, x)) \in Nat
  BY <1>3, LeftIsNat
<1> QED BY <1>1, <1>3, <1>4, <1>5, LeadsOn

(* Else it is what ends the lookup.                                        *)
LEMMA LinkRefused ==
    ASSUME NEW d, NEW p, Len(p) \in Nat, NEW v, NEW w \in Sites(d), Leads(d, p, v, w),
           d.objs[w.at].mode = "lnk", NEW x \in Text, d.objs[w.at].target = x
    PROVE  /\ w.links >= MAX_LINK_COUNT => v.res = "SYMLINK_LOOP"
           /\ ~(w.links >= MAX_LINK_COUNT) /\ TooLong(x, w.rest) => v.res = "LENGTH"
<1>0. w = [at |-> w.at, up |-> w.up, rest |-> w.rest, links |-> w.links, res |-> "going"]
  BY DEF Sites
<1>1. /\ w.links >= MAX_LINK_COUNT => Step(d, w).res = "SYMLINK_LOOP"
      /\ ~(w.links >= MAX_LINK_COUNT) /\ TooLong(x, w.rest) => Step(d, w).res = "LENGTH"
  BY <1>0 DEF Step, PathStep, Follow
<1>2. Step(d, w).res # "going" => v = Step(d, w)
  BY LeftIsNat, LeadsEnd
<1> QED BY <1>1, <1>2

(* A path ends at a file, at something else, or has more behind a file.    *)
LEMMA PathEnded ==
    ASSUME NEW d, NEW p, Len(p) \in Nat, NEW v, NEW w \in Sites(d), Leads(d, p, v, w),
           d.objs[w.at].mode # "lnk"
    PROVE  /\ w.rest = <<>> => /\ v.res = IF d.objs[w.at].mode = "reg" THEN "OK" ELSE "BAD_TYPE"
                               /\ v.at = w.at
           /\ w.rest # <<>> /\ d.objs[w.at].mode = "reg" => v.res = "NOTDIR"
<1>0. w = [at |-> w.at, up |-> w.up, rest |-> w.rest, links |-> w.links, res |-> "going"]
  BY DEF Sites
<1>1. /\ w.rest = <<>> => /\ Step(d, w).res = IF d.objs[w.at].mode = "reg" THEN "OK" ELSE "BAD_TYPE"
                          /\ Step(d, w).at = w.at
      /\ w.rest # <<>> /\ d.objs[w.at].mode = "reg" => Step(d, w).res = "NOTDIR"
  BY <1>0 DEF Step, PathStep
<1>2. Step(d, w).res # "going" => v = Step(d, w)
  BY LeftIsNat, LeadsEnd
<1> QED BY <1>1, <1>2

(* The directory does not have the name.                                   *)
LEMMA NameMissing ==
    ASSUME NEW d, NEW p, Len(p) \in Nat, NEW v, NEW w \in Sites(d), Leads(d, p, v, w),
           d.objs[w.at].mode = "dir", w.rest # <<>>,
           DropSlashes(w.rest) = <<>> \/ DropSlashes(w.rest)[1] \notin DOMAIN d.objs[w.at].entries
    PROVE  v.res = "NOTFOUND"
<1>0. w = [at |-> w.at, up |-> w.up, rest |-> w.rest, links |-> w.links, res |-> "going"]
  BY DEF Sites
<1>1. Step(d, w).res = "NOTFOUND"
  BY <1>0 DEF Step, PathStep, Enter
<1> QED BY <1>1, LeftIsNat, LeadsEnd

(* Behind the next name of the path.                                       *)
Entered(d, w) ==
    [at |-> d.objs[w.at].entries[DropSlashes(w.rest)[1]], up |-> w.at,
     rest |-> Tail(DropSlashes(w.rest)), links |-> w.links, res |-> "going"]

(* The directory has the name.                                             *)
LEMMA NameFound ==
    ASSUME NEW d, NEW p, Len(p) \in Nat, NEW v, NEW w \in Sites(d), Leads(d, p, v, w),
           d.objs[w.at].mode = "dir", w.rest # <<>>, DropSlashes(w.rest) # <<>>,
           DropSlashes(w.rest)[1] \in DOMAIN d.objs[w.at].entries,
           d.objs[w.at].entries[DropSlashes(w.rest)[1]] \in DOMAIN d.objs
    PROVE  Entered(d, w) \in Sites(d) /\ Leads(d, p, v, Entered(d, w))
<1>00. w.rest \in Text /\ w.links \in 0 .. MAX_LINK_COUNT /\ w.at \in DOMAIN d.objs
  BY DEF Sites
<1>0. w = [at |-> w.at, up |-> w.up, rest |-> w.rest, links |-> w.links, res |-> "going"]
  BY DEF Sites
<1>1. Step(d, w) = Entered(d, w)
  <2>1. Step(d, w) = Enter(d.objs, w)
    BY <1>0 DEF Step, PathStep
  <2>2. Enter(d.objs, w) = [w EXCEPT !.up = w.at, !.at = d.objs[w.at].entries[DropSlashes(w.rest)[1]],
                                     !.rest = Tail(DropSlashes(w.rest))]
    BY DEF Enter
  <2> DEFINE x == d.objs[w.at].entries[DropSlashes(w.rest)[1]]
             r == Tail(DropSlashes(w.rest))
  <2>3. Step(d, w) = [w EXCEPT !.up = w.at, !.at = x, !.rest = r]
    BY <2>1, <2>2
  <2>4. Entered(d, w) = [at |-> x, up |-> w.at, rest |-> r, links |-> w.links, res |-> "going"]
    BY DEF Entered
  <2> HIDE DEF x, r
  <2> QED BY <2>3, <2>4 DEF Sites
<1>2. /\ Tail(DropSlashes(w.rest)) \in Text
      /\ Len(Tail(DropSlashes(w.rest))) < Len(w.rest) /\ Len(Tail(DropSlashes(w.rest))) \in Nat
  <2>1. DropSlashes(w.rest) \in Text /\ Len(DropSlashes(w.rest)) \in 0 .. Len(w.rest) /\ Len(w.rest) \in Nat
    BY <1>00, SlashesDropped DEF Text
  <2> QED BY <2>1 DEF Text
<1>3. Entered(d, w) \in Sites(d)
  BY <1>00, <1>2 DEF Entered, Sites
<1>4. Left(w) \in Nat /\ Left(Entered(d, w)) \in Nat /\ Len(w.rest) \in Nat
  BY <1>3, LeftIsNat
<1>5. Left(Entered(d, w)) < Left(w)
  <2> DEFINE x == (MAX_LINK_COUNT - w.links) * PATH_MAX
  <2>1. Left(w) = Len(w.rest) + x /\ Left(Entered(d, w)) = Len(Tail(DropSlashes(w.rest))) + x
    BY DEF Left, Entered
  <2>2. x \in Nat
    BY <1>00, Numbers
  <2> HIDE DEF x
  <2> QED BY <1>2, <1>4, <2>1, <2>2
<1> QED BY <1>1, <1>3, <1>4, <1>5, LeadsOn

-----------------------------------------------------------------------------
(***************************************************************************)
(* Where the walk of the tree is, on a sound disk d.                       *)
(***************************************************************************)
TreeKeys == {"root", "depth", "cache", "blocks", "next", "cur", "tr", "errnum", "ok", "hit"}

Shape(u) ==
    /\ DOMAIN u = TreeKeys /\ u.depth \in Nat
    /\ DOMAIN u.cache = Depths /\ DOMAIN u.blocks = Depths /\ DOMAIN u.next = Depths

(* The block at depth k of the current path.                               *)
Block(u, k) == IF k = u.depth THEN u.root ELSE u.cache[k]

(* A node the cache is said to have is there.                              *)
Mounted(d, u) ==
    /\ Shape(u) /\ u.tr = <<>> /\ u.root = FindSuper(d).root /\ u.depth = d.nodes[u.root].level
    /\ \A k \in 1 .. u.depth - 1 : u.blocks[k] # 0 => u.cache[k] = u.blocks[k]
    /\ u.depth = 1 => u.cache[1] = u.root

InTree(d, u, k) == Block(u, k) \in DOMAIN d.order.first /\ d.nodes[Block(u, k)].level = k

(* The path goes from depth k to the child in front of next_key_nr.        *)
Turns(d, u, k) ==
    LET node == d.nodes[Block(u, k)]
        n == Len(node.keys)
    IN  \E c \in 0 .. n : /\ u.next[k] = IF c = n THEN 0 ELSE c + 1
                          /\ Block(u, k - 1) = node.kids[c + 1]

OnPath(d, u, low) ==
    /\ \A k \in low .. u.depth : InTree(d, u, k)
    /\ \A k \in low + 1 .. u.depth : Turns(d, u, k)

(* The current item is the one with number c.                              *)
At(d, u, c) ==
    /\ Mounted(d, u) /\ OnPath(d, u, 1)
    /\ u.cur \in DOMAIN d.nodes[Block(u, 1)].items
    /\ c = d.order.first[Block(u, 1)] + u.cur - 1

(* It is the last one of all that has been passed.                         *)
Past(d, u) == Mounted(d, u) /\ u.cur = 0

IsStat(d, o, c) ==
    LET all == d.order.items IN c \in DOMAIN all /\ all[c].obj = o /\ all[c].type = "stat"

(* Induction over the depths, from the top and from the leaf.              *)
LEMMA Downward ==
    ASSUME NEW n \in Nat, NEW G, n \in G, \A k \in 1 .. n - 1 : k + 1 \in G => k \in G
    PROVE  \A k \in 1 .. n : k \in G
<1> DEFINE Bad == {m \in Nat : m < n /\ n - m \notin G}
<1>1. Bad = {}
  <2> SUFFICES ASSUME Bad # {} PROVE FALSE
    OBVIOUS
  <2>1. PICK m \in Bad : \A q \in Bad : m <= q
    <3>1. Bad \subseteq Nat
      OBVIOUS
    <3> HIDE DEF Bad
    <3> QED BY <3>1, LeastNumber
  <2>2. m # 0 /\ m - 1 \notin Bad /\ m - 1 \in Nat
    BY <2>1
  <2>3. n - (m - 1) \in G /\ n - m \in 1 .. n - 1 /\ n - (m - 1) = (n - m) + 1
    BY <2>1, <2>2
  <2> QED BY <2>1, <2>3
<1>2. ASSUME NEW k \in 1 .. n PROVE k \in G
  <2>1. n - k \in Nat /\ n - k < n /\ n - (n - k) = k
    OBVIOUS
  <2>2. n - k \notin Bad
    BY <1>1
  <2> QED BY <2>1, <2>2
<1> QED BY <1>2

LEMMA Upward ==
    ASSUME NEW n \in Nat, NEW G, 1 \in G, \A k \in 1 .. n - 1 : k \in G => k + 1 \in G
    PROVE  \A k \in 1 .. n : k \in G
<1> DEFINE Bad == {m \in 1 .. n : m \notin G}
<1> SUFFICES ASSUME Bad # {} PROVE FALSE
  OBVIOUS
<1>1. PICK m \in Bad : \A q \in Bad : m <= q
  <2>1. Bad \subseteq Nat
    OBVIOUS
  <2> HIDE DEF Bad
  <2> QED BY <2>1, LeastNumber
<1>2. m # 1 /\ m \in 1 .. n
  BY <1>1
<1>3. m - 1 \in 1 .. n - 1 /\ m - 1 \notin Bad /\ (m - 1) + 1 = m /\ m - 1 \in 1 .. n
  BY <1>1, <1>2
<1> QED BY <1>1, <1>3

(* The first element of a sequence with a property.                        *)
LEMMA FirstIn ==
    ASSUME NEW n \in Nat, NEW I \in SUBSET (1 .. n)
    PROVE  /\ I # {} => Min(I) \in I /\ \A i \in I : Min(I) <= i
<1>1. ASSUME I # {} PROVE \E x \in I : \A y \in I : x <= y
  <2>1. I \subseteq Nat
    OBVIOUS
  <2> QED BY <1>1, <2>1, LeastNumber
<1> QED BY <1>1 DEF Min

-----------------------------------------------------------------------------
(* What the assumptions say of a sound disk.                               *)
Root == FindSuper(disk).root

LEMMA SoundTree ==
    ASSUME Sound(disk)
    PROVE  /\ InKeyOrder(disk.order.items)
           /\ DOMAIN disk.order.first \subseteq DOMAIN disk.nodes \ {0}
           /\ Root \in DOMAIN disk.order.first
           /\ disk.order.first[Root] = 1 /\ disk.order.last[Root] = Len(disk.order.items)
           /\ disk.nodes[Root].level \in Depths /\ disk.nodes[Root].level <= cached_slots + 1
           /\ \A b \in DOMAIN disk.order.first :
                 /\ Node(b) = disk.nodes[b] /\ b # 0
                 /\ disk.order.first[b] \in Nat /\ disk.order.last[b] \in Nat
                 /\ disk.nodes[b].level \in Nat \ {0}
                 /\ disk.nodes[b].level = 1 =>
                       IsLeaf(disk.nodes[b], disk.order.items, disk.order.first[b], disk.order.last[b])
                 /\ disk.nodes[b].level # 1 => IsInner(disk.nodes[b], disk, b)
<1>1. InOrder(disk, Root)
  BY DEF Sound, Root
<1>2. \A b \in DOMAIN disk.order.first : b \in DOMAIN disk.nodes /\ b # 0
  BY <1>1 DEF InOrder
<1>3. \A b \in DOMAIN disk.order.first : Node(b) = disk.nodes[b]
  BY <1>2 DEF Node
<1> QED BY <1>1, <1>2, <1>3 DEF InOrder

LEMMA SlotIs ==
    ASSUME NEW k \in Nat, k <= cached_slots
    PROVE  Slot(k) = k
<1>1. cached_slots \in Nat
  BY ReiserAssumption, Zenon
<1> QED BY <1>1 DEF Slot

(* Where the current path may have nodes.                                  *)
LEMMA Deep ==
    ASSUME Sound(disk), NEW u, Mounted(disk, u)
    PROVE  /\ u.depth \in Depths /\ u.depth \in Nat /\ u.depth >= 1 /\ u.root = Root /\ u.tr = <<>>
           /\ \A k \in 1 .. u.depth : k \in Depths /\ k \in Nat
           /\ \A k \in 1 .. u.depth - 1 : Slot(k) = k /\ k \in Depths /\ k \in Nat /\ k <= cached_slots
           /\ Slot(1) = 1 /\ 1 \in Depths
           /\ Shape(u)
<1>1. u.depth = disk.nodes[Root].level /\ u.root = Root /\ u.tr = <<>> /\ Shape(u)
  BY DEF Mounted, Root
<1>2. u.depth \in Depths /\ u.depth <= cached_slots + 1
  BY <1>1, SoundTree
<1>3. cached_slots \in Nat /\ cached_slots >= 1 /\ REISERFS_MAX_TREE_HEIGHT \in Nat
  <2>1. cached_slots \in Nat \ {0, 1} /\ REISERFS_MAX_TREE_HEIGHT \in Nat
    BY ReiserAssumption, Zenon
  <2> QED BY <2>1
<1>4. u.depth \in Nat /\ u.depth >= 1 /\ \A k \in 1 .. u.depth : k \in Depths /\ k \in Nat
  BY <1>2, <1>3 DEF Depths
<1>5. \A k \in 1 .. u.depth - 1 : k \in Nat /\ k <= cached_slots /\ k \in Depths
  BY <1>2, <1>3, <1>4
<1>6. \A k \in 1 .. u.depth - 1 : Slot(k) = k
  BY <1>5, SlotIs
<1>7. Slot(1) = 1
  BY <1>3, SlotIs
<1> QED BY <1>1, <1>2, <1>4, <1>5, <1>6, <1>7

(* The parts of the tree state the path depends on.                        *)
SamePath(u, v) ==
    /\ Shape(v) /\ v.root = u.root /\ v.depth = u.depth /\ v.cache = u.cache /\ v.blocks = u.blocks
    /\ v.next = u.next /\ (u.tr = <<>> => v.tr = <<>>)

SameWalk(u, v) == SamePath(u, v) /\ v.cur = u.cur

LEMMA SameNodes ==
    ASSUME NEW u, NEW v, SamePath(u, v)
    PROVE  /\ Mounted(disk, u) => Mounted(disk, v)
           /\ OnPath(disk, u, 1) => OnPath(disk, v, 1)
           /\ \A k : Block(v, k) = Block(u, k)
<1>1. \A k : Block(v, k) = Block(u, k)
  BY DEF SamePath, Block
<1>2. Mounted(disk, u) => Mounted(disk, v)
  BY DEF SamePath, Mounted
<1>3. \A k : InTree(disk, v, k) = InTree(disk, u, k)
  BY <1>1 DEF InTree
<1>4. \A k : Turns(disk, u, k) => Turns(disk, v, k)
  BY <1>1 DEF SamePath, Turns
<1>5. OnPath(disk, u, 1) => OnPath(disk, v, 1)
  BY <1>3, <1>4 DEF OnPath, SamePath
<1> QED BY <1>1, <1>2, <1>5

LEMMA SamePlace ==
    ASSUME NEW u, NEW v, SameWalk(u, v)
    PROVE  /\ Mounted(disk, u) => Mounted(disk, v)
           /\ \A c : At(disk, u, c) => At(disk, v, c)
           /\ Past(disk, u) => Past(disk, v)
BY SameNodes DEF SameWalk, At, Past

(* A node of the tree is read.                                             *)
LEMMA NodeRead ==
    ASSUME Sound(disk), NEW u, Mounted(disk, u), NEW k \in 1 .. u.depth - 1,
           NEW b \in DOMAIN disk.order.first, disk.nodes[b].level = k,
           NEW v, v = read_tree_node(u, b, k, NoFault)
    PROVE  /\ Mounted(disk, v) /\ v.ok /\ v.errnum = "OK" /\ v.cur = u.cur /\ v.next = u.next
           /\ v.depth = u.depth /\ Block(v, k) = b
           /\ \A j \in 1 .. u.depth : j # k => Block(v, j) = Block(u, j)
<1>1. /\ Slot(k) = k /\ k \in Depths /\ k \in Nat /\ Shape(u) /\ u.tr = <<>> /\ k # 0 /\ k # u.depth
      /\ u.depth \in Nat
  BY Deep
<1>2. Node(b) = disk.nodes[b] /\ b # 0
  BY SoundTree
<1>3. CASE CacheHit(u, b, k)
  <2>1. v = [u EXCEPT !.ok = TRUE, !.errnum = "OK"]
    BY <1>3 DEF read_tree_node
  <2>2. SameWalk(u, v) /\ v.ok /\ v.errnum = "OK"
    BY <1>1, <2>1 DEF SameWalk, SamePath, Shape, TreeKeys
  <2>3. u.cache[k] = b
    BY <1>2, <1>3 DEF CacheHit, Mounted
  <2> QED BY <1>1, <2>2, <2>3, SamePlace DEF SameWalk, SamePath, Block
<1>4. CASE ~CacheHit(u, b, k)
  <2>1. block_read(u, b) = b
    BY <1>1 DEF block_read
  <2>2. NoFault.at # k
    BY <1>1 DEF NoFault
  <2>3. v = [u EXCEPT !.cache[k] = b, !.ok = TRUE, !.errnum = "OK", !.blocks[k] = b, !.hit = @ \/ FALSE]
    BY <1>1, <1>2, <1>4, <2>1, <2>2 DEF read_tree_node
  <2>4. /\ DOMAIN v = TreeKeys /\ v.cache = [u.cache EXCEPT ![k] = b]
        /\ v.blocks = [u.blocks EXCEPT ![k] = b] /\ v.ok /\ v.errnum = "OK"
        /\ v.cur = u.cur /\ v.next = u.next /\ v.depth = u.depth /\ v.root = u.root /\ v.tr = u.tr
    BY <1>1, <2>3 DEF Shape, TreeKeys
  <2>5. Shape(v)
    BY <1>1, <2>4 DEF Shape
  <2>6. \A j \in Depths : /\ v.cache[j] = IF j = k THEN b ELSE u.cache[j]
                          /\ v.blocks[j] = IF j = k THEN b ELSE u.blocks[j]
    BY <1>1, <2>4 DEF Shape
  <2>7. \A j \in 1 .. u.depth : j \in Depths
    BY Deep
  <2>8. Mounted(disk, v)
    <3>1. \A j \in 1 .. v.depth - 1 : v.blocks[j] # 0 => v.cache[j] = v.blocks[j]
      <4>1. \A j \in 1 .. u.depth - 1 : j \in Depths
        BY Deep
      <4>2. \A j \in 1 .. u.depth - 1 : u.blocks[j] # 0 => u.cache[j] = u.blocks[j]
        BY DEF Mounted
      <4> QED BY <2>4, <2>6, <4>1, <4>2
    <3>2. v.depth # 1
      BY <1>1, <2>4
    <3> QED BY <2>4, <2>5, <3>1, <3>2 DEF Mounted
  <2> QED BY <1>1, <2>4, <2>6, <2>7, <2>8 DEF Block
<1> QED BY <1>3, <1>4

(* One level down, to the child with number i.                             *)
LEMMA LevelDown ==
    ASSUME Sound(disk), NEW u, Mounted(disk, u), NEW k \in 2 .. u.depth, OnPath(disk, u, k),
           NEW i \in 0 .. Len(disk.nodes[Block(u, k)].keys),
           NEW v, v = DescendTo(u, k, i, NoFault)
    PROVE  /\ Mounted(disk, v) /\ v.ok /\ v.errnum = "OK" /\ v.cur = u.cur
           /\ v.depth = u.depth /\ OnPath(disk, v, k - 1)
           /\ Block(v, k - 1) = disk.nodes[Block(u, k)].kids[i + 1]
           /\ \A j \in 1 .. u.depth : j # k => v.next[j] = u.next[j]
<1> DEFINE node == disk.nodes[Block(u, k)]
           n == Len(node.keys)
           w == [u EXCEPT !.next[k] = IF i = n THEN 0 ELSE i + 1]
           b == node.kids[i + 1]
<1>1. /\ u.depth \in Nat /\ Shape(u) /\ k \in 1 .. u.depth /\ k \in Depths /\ k \in Nat
      /\ k - 1 \in 1 .. u.depth - 1 /\ k - 1 \in 1 .. u.depth /\ k # 1
      /\ \A j \in 1 .. u.depth : j \in Depths
  BY Deep
<1>2. InTree(disk, u, k)
  BY <1>1 DEF OnPath
<1>3. Block(u, k) \in DOMAIN disk.order.first /\ node.level = k
  BY <1>2 DEF InTree
<1>4. IsInner(node, disk, Block(u, k)) /\ Node(Block(u, k)) = node
  BY <1>1, <1>3, SoundTree
<1>5. n \in Nat /\ DOMAIN node.kids = 1 .. n + 1 /\ i + 1 \in 1 .. n + 1
  <2>1. n \in Nat /\ DOMAIN node.kids = 1 .. n + 1
    BY <1>4 DEF IsInner
  <2>2. i \in 0 .. n
    OBVIOUS
  <2> HIDE DEF n
  <2> QED BY <2>1, <2>2
<1>6. b \in DOMAIN disk.order.first /\ disk.nodes[b].level = k - 1
  BY <1>3, <1>4, <1>5 DEF IsInner
<1>7. Cached(u, k) = node
  <2>1. Cached(u, k) = Node(Block(u, k))
    <3>1. k # u.depth => Slot(k) = k
      BY <1>1, Deep
    <3> QED BY <3>1 DEF Cached, Block
  <2> QED BY <1>4, <2>1
<1> HIDE DEF node
<1>8. Child(node, i) = b
  BY <1>5 DEF Child
<1>9. v = read_tree_node(w, b, k - 1, NoFault)
  BY <1>7, <1>8 DEF DescendTo
<1>10. /\ Shape(w) /\ w.root = u.root /\ w.depth = u.depth /\ w.cache = u.cache
       /\ w.blocks = u.blocks /\ w.cur = u.cur /\ w.tr = u.tr
       /\ w.next[k] = (IF i = n THEN 0 ELSE i + 1)
       /\ \A j \in Depths : j # k => w.next[j] = u.next[j]
  BY <1>1 DEF Shape, TreeKeys
<1> HIDE DEF w, b
<1>11. Mounted(disk, w)
  BY <1>10 DEF Mounted
<1>12. k - 1 \in 1 .. w.depth - 1
  BY <1>1, <1>10
<1>13. /\ Mounted(disk, v) /\ v.ok /\ v.errnum = "OK" /\ v.cur = w.cur /\ v.next = w.next
       /\ v.depth = w.depth /\ Block(v, k - 1) = b
       /\ \A j \in 1 .. w.depth : j # k - 1 => Block(v, j) = Block(w, j)
  <2> DEFINE m == k - 1
  <2>1. m \in 1 .. w.depth - 1 /\ disk.nodes[b].level = m /\ v = read_tree_node(w, b, m, NoFault)
    BY <1>6, <1>9, <1>12
  <2> HIDE DEF m
  <2>2. /\ Mounted(disk, v) /\ v.ok /\ v.errnum = "OK" /\ v.cur = w.cur /\ v.next = w.next
        /\ v.depth = w.depth /\ Block(v, m) = b
        /\ \A j \in 1 .. w.depth : j # m => Block(v, j) = Block(w, j)
    BY <1>6, <1>11, <2>1, NodeRead
  <2> QED BY <2>2 DEF m
<1>14. \A j \in 1 .. u.depth : j # k - 1 => Block(v, j) = Block(u, j)
  BY <1>10, <1>13 DEF Block
<1>15. \A j \in 1 .. u.depth : j # k => v.next[j] = u.next[j]
  BY <1>1, <1>10, <1>13
<1>16. OnPath(disk, v, k - 1)
  <2>1. ASSUME NEW j \in k - 1 .. v.depth PROVE InTree(disk, v, j)
    <3>1. CASE j = k - 1
      BY <1>6, <1>13, <3>1 DEF InTree
    <3>2. CASE j # k - 1
      <4>1. j \in k .. u.depth /\ j \in 1 .. u.depth
        BY <1>1, <1>10, <1>13, <3>2
      <4>2. InTree(disk, u, j) /\ Block(v, j) = Block(u, j)
        BY <1>14, <3>2, <4>1 DEF OnPath
      <4> QED BY <4>2 DEF InTree
    <3> QED BY <3>1, <3>2
  <2>2. ASSUME NEW j \in (k - 1) + 1 .. v.depth PROVE Turns(disk, v, j)
    <3>1. CASE j = k
      <4>1. Block(v, k) = Block(u, k)
        BY <1>1, <1>14
      <4>2. v.next[k] = (IF i = n THEN 0 ELSE i + 1) /\ Block(v, k - 1) = node.kids[i + 1] /\ i \in 0 .. n
        BY <1>10, <1>13 DEF b, node
      <4> QED BY <3>1, <4>1, <4>2 DEF Turns, node
    <3>2. CASE j # k
      <4>1. j \in k + 1 .. u.depth /\ j \in 1 .. u.depth /\ j - 1 \in 1 .. u.depth /\ j # k - 1 /\ j - 1 # k - 1
        BY <1>1, <1>10, <1>13, <3>2
      <4>2. Turns(disk, u, j) /\ Block(v, j) = Block(u, j) /\ Block(v, j - 1) = Block(u, j - 1)
        BY <1>14, <4>1 DEF OnPath
      <4>3. v.next[j] = u.next[j]
        BY <1>15, <3>2, <4>1
      <4> QED BY <4>2, <4>3 DEF Turns
    <3> QED BY <3>1, <3>2
  <2> QED BY <2>1, <2>2 DEF OnPath
<1> QED BY <1>10, <1>13, <1>15, <1>16 DEF b, node

(* The items in front of the stat item of an object sort before it, those  *)
(* behind it after it.                                                     *)
LEMMA StatSplits ==
    ASSUME Sound(disk), NEW o, NEW g, IsStat(disk, o, g),
           NEW c \in DOMAIN disk.order.items, NEW key,
           key.dir = disk.order.items[c].dir, key.obj = disk.order.items[c].obj,
           key.off = disk.order.items[c].off
    PROVE  /\ After(key, disk.order.items[g].dir, o) <=> c > g
           /\ g \in Nat /\ c \in Nat
<1> DEFINE all == disk.order.items
<1>1. InKeyOrder(all)
  BY SoundTree
<1>2. g \in DOMAIN all /\ all[g].obj = o /\ all[g].type = "stat"
  BY DEF IsStat
<1>3. /\ all[g].off = 0 /\ all[g].dir \in Nat /\ all[g].obj \in Nat
      /\ all[c].dir \in Nat /\ all[c].obj \in Nat /\ all[c].off \in Nat
  BY <1>1, <1>2 DEF InKeyOrder
<1>4. g \in Int /\ c \in Int /\ g >= 1 /\ c >= 1
  BY <1>1, <1>2 DEF InKeyOrder
<1>5. c > g => KeyBefore(all[g], all[c])
  BY <1>1, <1>2, <1>4 DEF InKeyOrder
<1>6. c < g => KeyBefore(all[c], all[g])
  BY <1>1, <1>2, <1>4 DEF InKeyOrder
<1> HIDE DEF all
<1>7. CASE c > g
  BY <1>2, <1>3, <1>4, <1>5, <1>7 DEF KeyBefore, After, all
<1>8. CASE c < g
  BY <1>2, <1>3, <1>4, <1>6, <1>8 DEF KeyBefore, After, all
<1>9. CASE c = g
  BY <1>2, <1>3, <1>4, <1>9 DEF After, all
<1> QED BY <1>4, <1>7, <1>8, <1>9

(* search_stat takes the child that has the stat item.                     *)
LEMMA BranchRight ==
    ASSUME Sound(disk), NEW o, NEW g, IsStat(disk, o, g),
           NEW b \in DOMAIN disk.order.first, disk.nodes[b].level # 1,
           disk.order.first[b] <= g, g <= disk.order.last[b],
           NEW i, i = Branch(disk.nodes[b], disk.order.items[g].dir, o)
    PROVE  /\ i \in 0 .. Len(disk.nodes[b].keys)
           /\ disk.order.first[disk.nodes[b].kids[i + 1]] <= g
           /\ g <= disk.order.last[disk.nodes[b].kids[i + 1]]
<1> DEFINE node == disk.nodes[b]
           n == Len(node.keys)
           dir == disk.order.items[g].dir
           I == {j \in 1 .. n : After(node.keys[j], dir, o)}
           first == disk.order.first
           last == disk.order.last
<1>1. IsInner(node, disk, b)
  BY SoundTree
<1>2. n \in Nat
  BY <1>1 DEF IsInner
<1>3. ASSUME NEW j \in 1 .. n
      PROVE  /\ After(node.keys[j], dir, o) <=> first[node.kids[j + 1]] > g
             /\ first[node.kids[j + 1]] = last[node.kids[j]] + 1
             /\ first[node.kids[j + 1]] \in Nat /\ last[node.kids[j]] \in Nat
  <2> DEFINE c == first[node.kids[j + 1]]
             x == disk.order.items[c]
  <2>1. /\ c \in DOMAIN disk.order.items /\ c = last[node.kids[j]] + 1
        /\ node.keys[j] = [dir |-> x.dir, obj |-> x.obj, off |-> x.off]
    BY <1>1 DEF IsInner
  <2>2. node.kids[j + 1] \in DOMAIN first /\ node.kids[j] \in DOMAIN first
    <3>1. j + 1 \in 1 .. n + 1 /\ j \in 1 .. n + 1
      BY <1>2
    <3> QED BY <1>1, <3>1 DEF IsInner
  <2>3. c \in Nat /\ last[node.kids[j]] \in Nat
    BY <2>2, SoundTree
  <2>4. node.keys[j].dir = x.dir /\ node.keys[j].obj = x.obj /\ node.keys[j].off = x.off
    <3> HIDE DEF x, node
    <3> QED BY <2>1
  <2> HIDE DEF c, node
  <2>5. After(node.keys[j], dir, o) <=> c > g
    BY <2>1, <2>4, StatSplits
  <2> QED BY <2>1, <2>3, <2>5 DEF c
<1>4. /\ first[node.kids[1]] = first[b] /\ last[node.kids[n + 1]] = last[b]
  BY <1>1 DEF IsInner
<1>5. g \in Nat
  BY SoundTree DEF IsStat, InKeyOrder
<1>6. i = IF (IF I # {} THEN Min(I) ELSE 0) = 0 THEN n ELSE (IF I # {} THEN Min(I) ELSE 0) - 1
  BY DEF Branch, SelectInSeq
<1> HIDE DEF node, n
<1>7. CASE I = {}
  <2>1. i = n /\ \A j \in 1 .. n : ~After(node.keys[j], dir, o)
    BY <1>6, <1>7
  <2>2. first[node.kids[n + 1]] <= g
    <3>1. CASE n = 0
      BY <1>4, <3>1
    <3>2. CASE n # 0
      <4>1. n \in 1 .. n
        BY <1>2, <3>2
      <4> QED BY <1>3, <1>5, <2>1, <4>1
    <3> QED BY <3>1, <3>2
  <2>3. i \in 0 .. n /\ first[node.kids[i + 1]] <= g /\ last[node.kids[i + 1]] = last[b]
    BY <1>2, <1>4, <2>1, <2>2
  <2> QED BY <2>3 DEF n, node
<1>8. CASE I # {}
  <2> DEFINE m == Min(I)
  <2>1. m \in I /\ \A j \in I : m <= j
    <3>1. I \in SUBSET (1 .. n)
      OBVIOUS
    <3> HIDE DEF I
    <3> QED BY <1>2, <1>8, <3>1, FirstIn
  <2>2. m \in 1 .. n /\ After(node.keys[m], dir, o)
    BY <2>1
  <2>3. i = m - 1
    <3> HIDE DEF m, I
    <3>1. i = IF m = 0 THEN n ELSE m - 1
      BY <1>6, <1>8 DEF m
    <3> QED BY <1>2, <2>2, <3>1
  <2>4. g <= last[node.kids[m]]
    <3> HIDE DEF m, I, dir
    <3> QED BY <1>3, <1>5, <2>2
  <2>5. first[node.kids[m]] <= g
    <3>1. CASE m = 1
      BY <1>4, <3>1
    <3>2. CASE m # 1
      <4>1. m - 1 \in 1 .. n /\ ~(m <= m - 1) /\ (m - 1) + 1 = m
        BY <1>2, <2>2, <3>2
      <4>2. m - 1 \notin I
        BY <2>1, <4>1
      <4>3. ~After(node.keys[m - 1], dir, o)
        BY <4>1, <4>2
      <4> HIDE DEF m, I, dir
      <4> QED BY <1>3, <1>5, <4>1, <4>3
    <3> QED BY <3>1, <3>2
  <2> HIDE DEF m, I
  <2> QED BY <1>2, <2>2, <2>3, <2>4, <2>5 DEF n, node
<1> QED BY <1>7, <1>8

-----------------------------------------------------------------------------
(***************************************************************************)
(* The walk down.                                                          *)
(***************************************************************************)
Below(above, k, goal, fault) ==
    IF above.ok THEN DescendTo(above, k + 1, Choice(above, k + 1, goal), fault) ELSE above

IsDescent(u, top, goal, fault, low, f) ==
    f = [k \in low .. top |-> IF k = top THEN u ELSE Below(f[k + 1], k, goal, fault)]

(* It exists whatever the depth.                                           *)
LEMMA DescentExists ==
    ASSUME NEW u, NEW top \in Nat, top >= 1, NEW goal, NEW fault
    PROVE  \E f : IsDescent(u, top, goal, fault, 1, f)
<1> DEFINE G == {k \in 1 .. top : \E f : IsDescent(u, top, goal, fault, k, f)}
<1>1. top \in G
  <2> DEFINE f == [k \in top .. top |-> u]
  <2>1. f = [k \in top .. top |-> IF k = top THEN u ELSE Below(f[k + 1], k, goal, fault)]
    OBVIOUS
  <2> HIDE DEF f
  <2>2. IsDescent(u, top, goal, fault, top, f)
    BY <2>1 DEF IsDescent
  <2> QED BY <2>2
<1>2. ASSUME NEW j \in 1 .. top - 1, j + 1 \in G PROVE j \in G
  <2>1. PICK f : IsDescent(u, top, goal, fault, j + 1, f)
    BY <1>2
  <2> DEFINE g == [k \in j .. top |-> IF k = j THEN Below(f[j + 1], j, goal, fault) ELSE f[k]]
  <2>2. ASSUME NEW k \in j .. top
        PROVE  g[k] = IF k = top THEN u ELSE Below(g[k + 1], k, goal, fault)
    <3>1. CASE k = j
      <4>1. g[k] = Below(f[j + 1], j, goal, fault) /\ g[j + 1] = f[j + 1] /\ k # top
        BY <3>1
      <4> QED BY <3>1, <4>1
    <3>2. CASE k # j
      <4>1. k \in j + 1 .. top
        BY <3>2
      <4>2. f[k] = IF k = top THEN u ELSE Below(f[k + 1], k, goal, fault)
        BY <2>1, <4>1 DEF IsDescent
      <4>3. g[k] = f[k] /\ (k # top => g[k + 1] = f[k + 1])
        BY <3>2, <4>1
      <4> QED BY <4>2, <4>3
    <3> QED BY <3>1, <3>2
  <2>3. g = [k \in j .. top |-> IF k = top THEN u ELSE Below(g[k + 1], k, goal, fault)]
    <3>1. g = [k \in j .. top |-> g[k]]
      OBVIOUS
    <3> HIDE DEF g
    <3> QED BY <2>2, <3>1
  <2> HIDE DEF g
  <2>4. IsDescent(u, top, goal, fault, j, g)
    BY <2>3 DEF IsDescent
  <2>5. j \in 1 .. top
    OBVIOUS
  <2> QED BY <2>4, <2>5
<1> HIDE DEF G
<1>3. 1 \in G
  BY <1>1, <1>2, Downward
<1> QED BY <1>3 DEF G

LEMMA DescendIs ==
    ASSUME NEW u, NEW top \in Nat, top >= 1, NEW goal, NEW fault
    PROVE  \E f : /\ f[top] = u
                  /\ \A k \in 1 .. top - 1 : f[k] = Below(f[k + 1], k, goal, fault)
                  /\ Descend(u, top, goal, fault) = f[1]
<1> DEFINE g == CHOOSE g : g = [k \in 1 .. top |-> IF k = top THEN u
                                                   ELSE IF g[k + 1].ok
                                                   THEN DescendTo(g[k + 1], k + 1, Choice(g[k + 1], k + 1, goal), fault)
                                                   ELSE g[k + 1]]
<1>1. g = [k \in 1 .. top |-> IF k = top THEN u ELSE Below(g[k + 1], k, goal, fault)]
  <2>1. PICK f : IsDescent(u, top, goal, fault, 1, f)
    BY DescentExists
  <2>2. f = [k \in 1 .. top |-> IF k = top THEN u
                                ELSE IF f[k + 1].ok
                                THEN DescendTo(f[k + 1], k + 1, Choice(f[k + 1], k + 1, goal), fault)
                                ELSE f[k + 1]]
    BY <2>1 DEF IsDescent, Below
  <2>3. g = [k \in 1 .. top |-> IF k = top THEN u
                                ELSE IF g[k + 1].ok
                                THEN DescendTo(g[k + 1], k + 1, Choice(g[k + 1], k + 1, goal), fault)
                                ELSE g[k + 1]]
    BY <2>2
  <2> HIDE DEF g
  <2> QED BY <2>3 DEF Below
<1>2. Descend(u, top, goal, fault) = g[1]
  BY DEF Descend
<1> HIDE DEF g
<1>3. g[top] = u /\ \A k \in 1 .. top - 1 : g[k] = Below(g[k + 1], k, goal, fault)
  <2>1. top \in 1 .. top /\ \A k \in 1 .. top - 1 : k \in 1 .. top /\ k # top
    OBVIOUS
  <2> QED BY <1>1, <2>1
<1> QED BY <1>2, <1>3

(* search_stat comes to the leaf that has the stat item.                   *)
LEMMA DescentStat ==
    ASSUME Sound(disk), NEW u, Mounted(disk, u), u.ok, u.errnum = "OK", NEW o, NEW g, IsStat(disk, o, g),
           NEW goal, ~goal.next, goal.dir = disk.order.items[g].dir, goal.obj = o,
           NEW v, v = Descend(u, u.depth, goal, NoFault)
    PROVE  /\ Mounted(disk, v) /\ OnPath(disk, v, 1) /\ v.ok /\ v.errnum = "OK" /\ v.depth = u.depth
           /\ disk.order.first[Block(v, 1)] <= g /\ g <= disk.order.last[Block(v, 1)]
<1> DEFINE top == u.depth
<1>1. top \in Nat /\ top >= 1
  BY Deep
<1>2. PICK f : /\ f[top] = u
               /\ \A k \in 1 .. top - 1 : f[k] = Below(f[k + 1], k, goal, NoFault)
               /\ Descend(u, top, goal, NoFault) = f[1]
  BY <1>1, DescendIs
<1> DEFINE Good(k) == /\ Mounted(disk, f[k]) /\ OnPath(disk, f[k], k) /\ f[k].ok /\ f[k].errnum = "OK"
                      /\ f[k].depth = top
                      /\ disk.order.first[Block(f[k], k)] <= g /\ g <= disk.order.last[Block(f[k], k)]
           G == {k \in 1 .. top : Good(k)}
<1>3. Good(top)
  <2>1. Block(u, top) = Root
    BY Deep DEF Block
  <2>2. InTree(disk, u, top)
    BY <2>1, SoundTree DEF InTree, Mounted, Root
  <2>3. OnPath(disk, u, top)
    BY <1>1, <2>2 DEF OnPath
  <2>4. disk.order.first[Root] = 1 /\ disk.order.last[Root] = Len(disk.order.items)
    BY SoundTree
  <2>5. 1 <= g /\ g <= Len(disk.order.items)
    BY SoundTree DEF IsStat, InKeyOrder
  <2> QED BY <1>2, <2>1, <2>3, <2>4, <2>5
<1>4. ASSUME NEW k \in 1 .. top - 1, Good(k + 1) PROVE Good(k)
  <2> DEFINE w == f[k + 1]
             m == k + 1
             b == Block(w, m)
             i == Choice(w, m, goal)
  <2>1. m \in 2 .. w.depth /\ m - 1 = k /\ m \in m .. w.depth
    BY <1>1, <1>4
  <2>2. InTree(disk, w, m)
    BY <1>4, <2>1 DEF OnPath
  <2>3. b \in DOMAIN disk.order.first /\ disk.nodes[b].level # 1
    BY <2>1, <2>2 DEF InTree
  <2>4. f[k] = DescendTo(w, m, i, NoFault)
    BY <1>2, <1>4 DEF Below
  <2>5. Mounted(disk, w) /\ OnPath(disk, w, m) /\ disk.order.first[b] <= g /\ g <= disk.order.last[b]
    BY <1>4
  <2>6. Cached(w, m) = disk.nodes[b]
    <3>1. m # w.depth => Slot(m) = m
      <4>1. m # w.depth => m \in 1 .. w.depth - 1
        BY <1>1, <1>4, <2>1
      <4> QED BY <2>5, <4>1, Deep
    <3>2. Cached(w, m) = Node(b)
      BY <3>1 DEF Cached, Block
    <3> QED BY <2>3, <3>2, SoundTree
  <2>7. i = Branch(disk.nodes[b], disk.order.items[g].dir, o)
    BY <2>6 DEF Choice
  <2> HIDE DEF Good, w, m, b, i
  <2>8. /\ i \in 0 .. Len(disk.nodes[b].keys)
        /\ disk.order.first[disk.nodes[b].kids[i + 1]] <= g
        /\ g <= disk.order.last[disk.nodes[b].kids[i + 1]]
    BY <2>3, <2>5, <2>7, BranchRight
  <2>9. /\ Mounted(disk, f[k]) /\ f[k].ok /\ f[k].errnum = "OK"
        /\ f[k].depth = w.depth /\ OnPath(disk, f[k], m - 1)
        /\ Block(f[k], m - 1) = disk.nodes[b].kids[i + 1]
    BY <2>1, <2>4, <2>5, <2>8, LevelDown DEF b
  <2>10. w.depth = top
    BY <1>4 DEF Good, w
  <2> QED BY <2>1, <2>8, <2>9, <2>10 DEF Good
<1>5. top \in G
  BY <1>1, <1>3
<1>6. \A k \in 1 .. top - 1 : k + 1 \in G => k \in G
  BY <1>1, <1>4
<1> HIDE DEF G
<1>7. 1 \in G
  BY <1>1, <1>5, <1>6, Downward
<1> QED BY <1>2, <1>7 DEF G

(* The leaf the path leads to.                                             *)
LEMMA LeafIs ==
    ASSUME Sound(disk), NEW u, Mounted(disk, u), OnPath(disk, u, 1)
    PROVE  /\ Block(u, 1) \in DOMAIN disk.order.first /\ LEAF(u) = disk.nodes[Block(u, 1)]
           /\ IsLeaf(LEAF(u), disk.order.items, disk.order.first[Block(u, 1)], disk.order.last[Block(u, 1)])
           /\ disk.order.first[Block(u, 1)] \in Nat /\ disk.order.last[Block(u, 1)] \in Nat
<1>1. Slot(1) = 1 /\ u.depth \in Nat /\ u.depth >= 1
  BY Deep
<1>2. InTree(disk, u, 1)
  BY <1>1 DEF OnPath
<1>3. LEAF(u) = Node(Block(u, 1))
  BY <1>1 DEF LEAF, Block, Mounted
<1> QED BY <1>2, <1>3, SoundTree DEF InTree

(* What is current is an item of the tree.                                 *)
LEMMA ItemAt ==
    ASSUME Sound(disk), NEW u, NEW c, At(disk, u, c)
    PROVE  /\ CurrentItem(u) = disk.order.items[c] /\ c \in DOMAIN disk.order.items
           /\ u.cur \in DOMAIN LEAF(u).items
<1>1. Mounted(disk, u) /\ OnPath(disk, u, 1) /\ c = disk.order.first[Block(u, 1)] + u.cur - 1
  BY DEF At
<1>2. /\ LEAF(u) = disk.nodes[Block(u, 1)] /\ u.cur \in DOMAIN LEAF(u).items
      /\ IsLeaf(LEAF(u), disk.order.items, disk.order.first[Block(u, 1)], disk.order.last[Block(u, 1)])
  BY <1>1, LeafIs DEF At
<1> QED BY <1>1, <1>2 DEF IsLeaf, CurrentItem

(* An object has one stat item.                                            *)
LEMMA OneStat ==
    ASSUME Sound(disk), NEW o, NEW g, IsStat(disk, o, g), NEW c, IsStat(disk, o, c),
           disk.order.items[c].dir = disk.order.items[g].dir
    PROVE  c = g
<1> DEFINE all == disk.order.items
<1>1. InKeyOrder(all)
  BY SoundTree
<1>2. /\ g \in DOMAIN all /\ all[g].obj = o /\ all[g].type = "stat"
      /\ c \in DOMAIN all /\ all[c].obj = o /\ all[c].type = "stat"
  BY DEF IsStat
<1>3. all[g].off = 0 /\ all[c].off = 0 /\ all[g].dir \in Nat /\ o \in Nat /\ g \in Int /\ c \in Int
  BY <1>1, <1>2 DEF InKeyOrder
<1>4. ~KeyBefore(all[g], all[c]) /\ ~KeyBefore(all[c], all[g])
  <2> HIDE DEF all
  <2> QED BY <1>2, <1>3 DEF KeyBefore, all
<1> QED BY <1>1, <1>2, <1>3, <1>4 DEF InKeyOrder

(* search_stat makes the stat item of the object current.                  *)
LEMMA SearchFinds ==
    ASSUME Sound(disk), NEW u, Mounted(disk, u), NEW o, NEW g, IsStat(disk, o, g),
           NEW v, v = search_stat(u, disk.order.items[g].dir, o, NoFault)
    PROVE  At(disk, v, g) /\ v.ok /\ v.errnum = "OK"
<1> DEFINE dir == disk.order.items[g].dir
           start == [u EXCEPT !.errnum = "OK", !.ok = TRUE]
           goal == [next |-> FALSE, dir |-> dir, obj |-> o]
           low == Descend(start, start.depth, goal, NoFault)
<1>1. SameWalk(u, start) /\ start.ok /\ start.errnum = "OK" /\ start.depth = u.depth
  BY Deep DEF SameWalk, SamePath, Shape, TreeKeys
<1>2. Mounted(disk, start)
  BY <1>1, SamePlace
<1>3. ~(u.depth < 1)
  BY Deep
<1>4. v = IF low.ok THEN FindStat(low, dir, o) ELSE low
  BY <1>1, <1>3 DEF search_stat
<1>5. ~goal.next /\ goal.dir = dir /\ goal.obj = o
  OBVIOUS
<1> HIDE DEF start, goal
<1>6. /\ Mounted(disk, low) /\ OnPath(disk, low, 1) /\ low.ok /\ low.errnum = "OK"
      /\ disk.order.first[Block(low, 1)] <= g /\ g <= disk.order.last[Block(low, 1)]
  BY <1>1, <1>2, <1>5, DescentStat
<1> HIDE DEF low
<1> DEFINE items == LEAF(low).items
           first == disk.order.first[Block(low, 1)]
           last == disk.order.last[Block(low, 1)]
           I == {i \in 1 .. Len(items) : items[i].dir = dir /\ items[i].obj = o /\ items[i].type = "stat"}
           m == IF I # {} THEN Min(I) ELSE 0
<1>7. /\ LEAF(low) = disk.nodes[Block(low, 1)] /\ IsLeaf(LEAF(low), disk.order.items, first, last)
      /\ first \in Nat /\ last \in Nat
  BY <1>6, LeafIs
<1>8. Len(items) \in Nat /\ DOMAIN items = 1 .. Len(items)
  BY <1>7 DEF IsLeaf
<1>9. g \in Nat /\ InKeyOrder(disk.order.items)
  BY SoundTree DEF IsStat, InKeyOrder
<1>10. g - first + 1 \in I
  <2> DEFINE j == g - first + 1
  <2>1. j \in 1 .. Len(items) /\ first + j - 1 = g
    <3>1. Len(items) = last - first + 1
      BY <1>7 DEF IsLeaf
    <3> HIDE DEF items, first, last
    <3>2. first <= g /\ g <= last
      BY <1>6 DEF first, last
    <3> QED BY <1>7, <1>9, <3>1, <3>2
  <2>2. items[j] = disk.order.items[g]
    BY <1>7, <1>8, <2>1 DEF IsLeaf
  <2> HIDE DEF j, items
  <2> QED BY <2>1, <2>2 DEF IsStat, j
<1>11. ASSUME NEW i \in I PROVE first + i - 1 = g
  <2>1. i \in DOMAIN items /\ first + i - 1 \in DOMAIN disk.order.items
        /\ items[i] = disk.order.items[first + i - 1]
    BY <1>7, <1>8 DEF IsLeaf
  <2>2. items[i].dir = dir /\ items[i].obj = o /\ items[i].type = "stat"
    BY <1>11
  <2> HIDE DEF items
  <2>3. IsStat(disk, o, first + i - 1) /\ disk.order.items[first + i - 1].dir = dir
    BY <2>1, <2>2 DEF IsStat
  <2> QED BY <2>3, OneStat
<1>12. m \in I
  <2>1. I \in SUBSET (1 .. Len(items))
    OBVIOUS
  <2> HIDE DEF I
  <2> QED BY <1>8, <1>10, <2>1, FirstIn
<1>13. v = IF m = 0 THEN [low EXCEPT !.ok = FALSE, !.errnum = "BAD_FSYS"] ELSE [low EXCEPT !.ok = TRUE, !.cur = m]
  BY <1>4, <1>6 DEF FindStat, SelectInSeq
<1>14. m \in 1 .. Len(items) /\ first + m - 1 = g
  BY <1>11, <1>12
<1> HIDE DEF m, I
<1>15. v = [low EXCEPT !.ok = TRUE, !.cur = m]
  BY <1>8, <1>13, <1>14
<1>16. SamePath(low, v) /\ v.cur = m /\ v.ok /\ v.errnum = "OK"
  BY <1>6, <1>15, Deep DEF SamePath, Shape, TreeKeys
<1>17. Mounted(disk, v) /\ OnPath(disk, v, 1) /\ Block(v, 1) = Block(low, 1)
  BY <1>6, <1>16, SameNodes
<1> QED BY <1>7, <1>8, <1>14, <1>16, <1>17 DEF At

(* While next_key_nr is 0 the path goes to the last child.                 *)
LEMMA SameLast ==
    ASSUME Sound(disk), NEW u, Mounted(disk, u), OnPath(disk, u, 1), NEW m \in 1 .. u.depth,
           \A j \in 2 .. m : u.next[j] = 0
    PROVE  disk.order.last[Block(u, m)] = disk.order.last[Block(u, 1)]
<1> DEFINE last == disk.order.last
           G == {k \in 1 .. m : last[Block(u, k)] = last[Block(u, 1)]}
<1>1. m \in Nat /\ m >= 1 /\ u.depth \in Nat
  BY Deep
<1>2. 1 \in G
  BY <1>1
<1>3. ASSUME NEW k \in 1 .. m - 1, k \in G PROVE k + 1 \in G
  <2> DEFINE b == Block(u, k + 1)
             node == disk.nodes[b]
             n == Len(node.keys)
  <2>1. /\ k + 1 \in 1 .. u.depth /\ k + 1 \in 1 + 1 .. u.depth /\ k + 1 \in 2 .. m /\ (k + 1) - 1 = k
        /\ k + 1 \in 1 .. m /\ k + 1 # 1
    BY <1>1
  <2>2. InTree(disk, u, k + 1) /\ Turns(disk, u, k + 1) /\ u.next[k + 1] = 0
    BY <2>1 DEF OnPath
  <2>3. IsInner(node, disk, b)
    BY <2>1, <2>2, SoundTree DEF InTree
  <2>4. n \in Nat /\ last[node.kids[n + 1]] = last[b]
    BY <2>3 DEF IsInner
  <2>5. PICK c \in 0 .. n : /\ u.next[k + 1] = IF c = n THEN 0 ELSE c + 1
                            /\ Block(u, (k + 1) - 1) = node.kids[c + 1]
    BY <2>2 DEF Turns
  <2>6. c = n
    <3> HIDE DEF n
    <3> QED BY <2>2, <2>4, <2>5
  <2>7. Block(u, k) = node.kids[n + 1]
    BY <2>1, <2>5, <2>6
  <2>8. last[b] = last[Block(u, 1)]
    BY <1>3, <2>4, <2>7
  <2> QED BY <2>1, <2>8
<1> HIDE DEF G
<1>4. \A k \in 1 .. m : k \in G
  BY <1>1, <1>2, <1>3, Upward
<1>5. m \in G
  BY <1>1, <1>4
<1> QED BY <1>5 DEF G

(* next_key comes to the first leaf under the next child.                  *)
LEMMA DescentNext ==
    ASSUME Sound(disk), NEW u, Mounted(disk, u), u.ok, OnPath(disk, u, 1), NEW top \in 2 .. u.depth,
           u.next[top] \in 1 .. Len(disk.nodes[Block(u, top)].keys),
           \A j \in 2 .. top - 1 : u.next[j] = 0,
           NEW goal, goal.next, NEW v, v = Descend(u, top, goal, NoFault)
    PROVE  /\ Mounted(disk, v) /\ OnPath(disk, v, 1) /\ v.ok /\ v.errnum = "OK"
           /\ disk.order.first[Block(v, 1)]
                  = disk.order.first[disk.nodes[Block(u, top)].kids[u.next[top] + 1]]
<1>1. top \in Nat /\ top >= 1 /\ top >= 2 /\ u.depth \in Nat
  BY Deep
<1>2. PICK f : /\ f[top] = u
               /\ \A k \in 1 .. top - 1 : f[k] = Below(f[k + 1], k, goal, NoFault)
               /\ Descend(u, top, goal, NoFault) = f[1]
  BY <1>1, DescendIs
<1> DEFINE goesTo == disk.order.first[disk.nodes[Block(u, top)].kids[u.next[top] + 1]]
           Good(k) == /\ Mounted(disk, f[k]) /\ OnPath(disk, f[k], k) /\ f[k].ok /\ f[k].depth = u.depth
                      /\ k = top => f[k] = u
                      /\ k # top => f[k].errnum = "OK" /\ disk.order.first[Block(f[k], k)] = goesTo
                      /\ \A j \in 2 .. k : j # top => f[k].next[j] = 0
           G == {k \in 1 .. top : Good(k)}
<1>3. Good(top)
  <2>1. OnPath(disk, u, top)
    <3>1. top .. u.depth \subseteq 1 .. u.depth /\ top + 1 .. u.depth \subseteq 1 + 1 .. u.depth
      BY <1>1
    <3> QED BY <3>1 DEF OnPath
  <2>2. \A j \in 2 .. top : j # top => u.next[j] = 0
    BY <1>1
  <2> QED BY <1>2, <2>1, <2>2
<1>4. ASSUME NEW k \in 1 .. top - 1, Good(k + 1) PROVE Good(k)
  <2> DEFINE w == f[k + 1]
             m == k + 1
             b == Block(w, m)
             i == Choice(w, m, goal)
  <2>1. m \in 2 .. w.depth /\ m - 1 = k /\ m \in m .. w.depth /\ k # top /\ m \in 2 .. top
    BY <1>1, <1>4
  <2>2. InTree(disk, w, m)
    BY <1>4, <2>1 DEF OnPath
  <2>3. b \in DOMAIN disk.order.first /\ disk.nodes[b].level # 1
    BY <2>1, <2>2 DEF InTree
  <2>4. f[k] = DescendTo(w, m, i, NoFault) /\ i = w.next[m]
    BY <1>2, <1>4 DEF Below, Choice
  <2>5. Mounted(disk, w) /\ OnPath(disk, w, m) /\ w.depth = u.depth /\ \A j \in 2 .. m : j # top => w.next[j] = 0
    BY <1>4
  <2>6. IsInner(disk.nodes[b], disk, b)
    BY <2>3, SoundTree
  <2>61. Len(disk.nodes[b].keys) \in Nat /\ disk.order.first[disk.nodes[b].kids[1]] = disk.order.first[b]
    BY <2>6 DEF IsInner
  <2>7. i \in 0 .. Len(disk.nodes[b].keys) /\ disk.order.first[disk.nodes[b].kids[i + 1]] = goesTo
    <3>1. CASE m = top
      <4>1. w = u /\ b = Block(u, top) /\ i = u.next[top]
        BY <1>4, <2>4, <3>1
      <4> HIDE DEF i, b
      <4> QED BY <2>61, <4>1
    <3>2. CASE m # top
      <4>1. i = 0 /\ disk.order.first[b] = goesTo
        <5>1. disk.order.first[b] = goesTo
          BY <1>4, <3>2
        <5>2. w.next[m] = 0 /\ i = w.next[m]
          <6> HIDE DEF w, m, i
          <6> QED BY <2>1, <2>4, <2>5, <3>2
        <5> QED BY <5>1, <5>2
      <4> HIDE DEF i, b, goesTo
      <4> QED BY <2>61, <4>1
    <3> QED BY <3>1, <3>2
  <2> HIDE DEF Good, w, m, b, i, goesTo
  <2>8. /\ Mounted(disk, f[k]) /\ f[k].ok /\ f[k].errnum = "OK"
        /\ f[k].depth = w.depth /\ OnPath(disk, f[k], m - 1)
        /\ Block(f[k], m - 1) = disk.nodes[b].kids[i + 1]
        /\ \A j \in 1 .. w.depth : j # m => f[k].next[j] = w.next[j]
    BY <2>1, <2>4, <2>5, <2>7, LevelDown DEF b
  <2>9. \A j \in 2 .. k : j # top => f[k].next[j] = 0
    <3>1. \A j \in 2 .. k : j \in 2 .. m /\ j # m /\ j \in 1 .. w.depth
      BY <1>1, <2>1, <2>5 DEF m
    <3> QED BY <2>5, <2>8, <3>1
  <2> QED BY <2>1, <2>5, <2>7, <2>8, <2>9 DEF Good
<1>41. \A k \in 1 .. top - 1 : Good(k + 1) => Good(k)
  BY <1>4
<1> HIDE DEF Good
<1>5. top \in G
  BY <1>1, <1>3
<1>6. \A k \in 1 .. top - 1 : k + 1 \in G => k \in G
  BY <1>1, <1>41
<1> HIDE DEF G
<1>7. 1 \in G /\ 1 # top
  BY <1>1, <1>5, <1>6, Downward
<1> QED BY <1>2, <1>7 DEF G, Good

(* next_key makes the item behind the current one current.                 *)
LEMMA NextItem ==
    ASSUME Sound(disk), NEW u, NEW c, At(disk, u, c), NEW v, v = next_key(u, NoFault)
    PROVE  /\ v.ok /\ (v.errnum = u.errnum \/ v.errnum = "OK")
           /\ c + 1 \in DOMAIN disk.order.items => At(disk, v, c + 1)
           /\ c + 1 \notin DOMAIN disk.order.items => Past(disk, v)
<1> DEFINE all == disk.order.items
           items == LEAF(u).items
           first == disk.order.first
           last == disk.order.last
           leaf == Block(u, 1)
           up == {k \in 2 .. u.depth : u.next[k] # 0}
           top == CHOOSE k \in up : \A e \in up : k <= e
<1>1. Mounted(disk, u) /\ OnPath(disk, u, 1) /\ c = first[leaf] + u.cur - 1
  BY DEF At
<1>2. u.depth \in Nat /\ u.depth >= 1 /\ Shape(u) /\ u.depth \in 1 .. u.depth
  BY <1>1, Deep
<1>3. /\ leaf \in DOMAIN first /\ LEAF(u) = disk.nodes[leaf] /\ IsLeaf(LEAF(u), all, first[leaf], last[leaf])
      /\ first[leaf] \in Nat /\ last[leaf] \in Nat
  BY <1>1, LeafIs
<1>4. Len(items) \in Nat /\ DOMAIN items = 1 .. Len(items) /\ Len(items) = last[leaf] - first[leaf] + 1
  BY <1>3 DEF IsLeaf
<1>5. u.cur \in 1 .. Len(items) /\ c \in DOMAIN all
  BY <1>4, ItemAt
<1>6. DOMAIN all = 1 .. Len(all) /\ Len(all) \in Nat
  <2>1. last[Root] = Len(all) /\ last[Root] \in Nat /\ InKeyOrder(all)
    BY SoundTree
  <2> QED BY <2>1 DEF InKeyOrder
<1>7. CASE u.cur # Len(items)
  <2>1. v = [u EXCEPT !.cur = u.cur + 1, !.ok = TRUE]
    <3>1. u.cur # 0
      BY <1>4, <1>5
    <3> HIDE DEF up, top
    <3> QED BY <1>7, <3>1 DEF next_key
  <2>2. SamePath(u, v) /\ v.cur = u.cur + 1 /\ v.ok /\ v.errnum = u.errnum
    BY <1>2, <2>1 DEF SamePath, Shape, TreeKeys
  <2>3. Mounted(disk, v) /\ OnPath(disk, v, 1) /\ Block(v, 1) = leaf
    BY <1>1, <2>2, SameNodes
  <2>4. u.cur + 1 \in 1 .. Len(items) /\ c + 1 = first[leaf] + (u.cur + 1) - 1
    BY <1>1, <1>3, <1>4, <1>5, <1>7
  <2>5. At(disk, v, c + 1)
    BY <1>3, <1>4, <2>2, <2>3, <2>4 DEF At
  <2>6. c + 1 \in DOMAIN all
    BY <2>5, ItemAt
  <2> QED BY <2>2, <2>5, <2>6
<1>8. CASE u.cur = Len(items) /\ up = {}
  <2>1. v = [u EXCEPT !.cur = 0, !.ok = TRUE]
    BY <1>8 DEF next_key
  <2>2. SamePath(u, v) /\ v.cur = 0 /\ v.ok /\ v.errnum = u.errnum
    BY <1>2, <2>1 DEF SamePath, Shape, TreeKeys
  <2>3. last[Block(u, u.depth)] = last[leaf]
    BY <1>1, <1>2, <1>8, SameLast
  <2>4. Block(u, u.depth) = Root
    BY <1>1, Deep DEF Block
  <2>5. last[Root] = Len(all)
    BY SoundTree
  <2>6. c + 1 \notin DOMAIN all
    <3> HIDE DEF first, last, leaf, items, all, up
    <3>1. c = last[leaf]
      BY <1>1, <1>3, <1>4, <1>8
    <3>2. c = Len(all)
      BY <2>3, <2>4, <2>5, <3>1
    <3> QED BY <1>6, <3>2
  <2> QED BY <1>1, <2>2, <2>6, SameNodes DEF Past
<1>9. CASE u.cur = Len(items) /\ up # {}
  <2>1. top \in up /\ \A e \in up : top <= e
    <3>1. up \subseteq Nat
      BY <1>2
    <3> HIDE DEF up
    <3>2. \E k \in up : \A e \in up : k <= e
      BY <1>9, <3>1, LeastNumber
    <3> QED BY <3>2
  <2>2. /\ v = IF top = u.depth \/ top <= cached_slots THEN NextLeaf(u, top, NoFault)
               ELSE LET w == Uncached(u, top, NoFault) IN IF w.ok THEN NextLeaf(w, top - 1, NoFault) ELSE w
    BY <1>9 DEF next_key
  <2> HIDE DEF top
  <2>3. top \in 2 .. u.depth /\ u.next[top] # 0 /\ \A j \in 2 .. top - 1 : u.next[j] = 0
    BY <1>2, <2>1
  <2>4. top = u.depth \/ top <= cached_slots
    <3>1. top # u.depth => top \in 1 .. u.depth - 1
      BY <1>2, <2>3
    <3> QED BY <1>1, <3>1, Deep
  <2>5. v = NextLeaf(u, top, NoFault)
    BY <2>2, <2>4
  <2> HIDE DEF up
  <2> DEFINE b == Block(u, top)
             node == disk.nodes[b]
             n == Len(node.keys)
  <2>6. /\ top \in 1 .. u.depth /\ top \in 1 + 1 .. u.depth /\ top - 1 \in 1 .. u.depth /\ top # 1
        /\ top \in Nat
    BY <1>2, <2>3
  <2>7. InTree(disk, u, top) /\ Turns(disk, u, top)
    BY <1>1, <2>6 DEF OnPath
  <2>8. IsInner(node, disk, b)
    BY <2>6, <2>7, SoundTree DEF InTree
  <2>9. PICK i \in 0 .. n : u.next[top] = (IF i = n THEN 0 ELSE i + 1) /\ Block(u, top - 1) = node.kids[i + 1]
    BY <2>7 DEF Turns
  <2>10. n \in Nat
    BY <2>8 DEF IsInner
  <2>11. u.next[top] = i + 1 /\ i + 1 \in 1 .. n
    <3> HIDE DEF n
    <3> QED BY <2>3, <2>9, <2>10
  <2>12. first[node.kids[(i + 1) + 1]] = last[node.kids[i + 1]] + 1
    BY <2>8, <2>11 DEF IsInner
  <2>13. last[Block(u, top - 1)] = last[leaf]
    BY <1>1, <2>3, <2>6, SameLast
  <2>14. first[node.kids[u.next[top] + 1]] = c + 1
    <3>1. last[node.kids[i + 1]] = last[leaf]
      BY <2>9, <2>13
    <3>2. last[leaf] = c
      BY <1>1, <1>3, <1>4, <1>9
    <3> HIDE DEF node, n, leaf, first, last
    <3> QED BY <2>11, <2>12, <3>1, <3>2
  <2> DEFINE start == [u EXCEPT !.ok = TRUE]
             goal == [next |-> TRUE]
             low == Descend(start, top, goal, NoFault)
  <2>15. SamePath(u, start) /\ start.ok /\ goal.next
    BY <1>2 DEF SamePath, Shape, TreeKeys
  <2>16. v = IF low.ok THEN [low EXCEPT !.cur = 1] ELSE low
    BY <2>5 DEF NextLeaf
  <2> HIDE DEF start, goal, b, node, n
  <2>17. /\ Mounted(disk, start) /\ OnPath(disk, start, 1) /\ start.next = u.next /\ start.depth = u.depth
         /\ Block(start, top) = b
    BY <1>1, <2>15, SameNodes DEF SamePath, b
  <2>18. /\ Mounted(disk, low) /\ OnPath(disk, low, 1) /\ low.ok /\ low.errnum = "OK"
         /\ first[Block(low, 1)] = c + 1
    <3>1. start.next[top] \in 1 .. Len(disk.nodes[Block(start, top)].keys)
      BY <2>11, <2>17 DEF n, node
    <3>2. first[disk.nodes[Block(start, top)].kids[start.next[top] + 1]] = c + 1
      BY <2>14, <2>17 DEF node
    <3>3. top \in 2 .. start.depth /\ \A j \in 2 .. top - 1 : start.next[j] = 0
      BY <2>3, <2>17
    <3>5. low = Descend(start, top, goal, NoFault)
      OBVIOUS
    <3> HIDE DEF low, top, up
    <3>4. /\ Mounted(disk, low) /\ OnPath(disk, low, 1) /\ low.ok /\ low.errnum = "OK"
          /\ disk.order.first[Block(low, 1)]
                 = disk.order.first[disk.nodes[Block(start, top)].kids[start.next[top] + 1]]
      <4>1. Mounted(disk, start) /\ start.ok /\ OnPath(disk, start, 1)
        BY <2>15, <2>17
      <4>2. top \in 2 .. start.depth
        BY <3>3
      <4>3. \A j \in 2 .. top - 1 : start.next[j] = 0
        BY <3>3
      <4>4. goal.next
        BY <2>15
      <4> HIDE DEF first, last, leaf, items, all
      <4> QED BY <3>1, <3>5, <4>1, <4>2, <4>3, <4>4, DescentNext
    <3> QED BY <3>2, <3>4
  <2> HIDE DEF low
  <2>19. v = [low EXCEPT !.cur = 1]
    BY <2>16, <2>18
  <2>20. SamePath(low, v) /\ v.cur = 1 /\ v.ok /\ v.errnum = "OK"
    BY <2>18, <2>19, Deep DEF SamePath, Shape, TreeKeys
  <2>21. Mounted(disk, v) /\ OnPath(disk, v, 1) /\ Block(v, 1) = Block(low, 1)
    BY <2>18, <2>20, SameNodes
  <2>22. 1 \in DOMAIN disk.nodes[Block(v, 1)].items
    <3>1. /\ LEAF(v) = disk.nodes[Block(v, 1)]
          /\ IsLeaf(LEAF(v), all, first[Block(v, 1)], last[Block(v, 1)])
          /\ first[Block(v, 1)] \in Nat /\ last[Block(v, 1)] \in Nat
      BY <2>21, LeafIs
    <3> QED BY <3>1 DEF IsLeaf
  <2>23. At(disk, v, c + 1)
    <3>1. c + 1 = first[Block(v, 1)] + 1 - 1
      BY <1>5, <1>6, <2>18, <2>21
    <3> QED BY <2>20, <2>21, <2>22, <3>1 DEF At
  <2>24. c + 1 \in DOMAIN all
    BY <2>23, ItemAt
  <2> QED BY <2>20, <2>23, <2>24
<1> QED BY <1>7, <1>8, <1>9

-----------------------------------------------------------------------------
(***************************************************************************)
(* What holds of a walk on any disk, whatever reads fail.                  *)
(***************************************************************************)
LEMMA ReadShape ==
    ASSUME NEW u, Shape(u), NEW b, NEW k, NEW fault
    PROVE  Shape(read_tree_node(u, b, k, fault))
<1> DEFINE v == read_tree_node(u, b, k, fault)
           stale == fault.at = k /\ fault.kind = "minus"
           n == IF stale THEN u.cache[Slot(k)] ELSE block_read(u, b)
           good == Node(n).level = k
<1>1. \/ v = [u EXCEPT !.ok = TRUE, !.errnum = "OK"]
      \/ v = [u EXCEPT !.ok = FALSE, !.errnum = "OK", !.hit = TRUE]
      \/ v = [u EXCEPT !.cache[Slot(k)] = n, !.ok = good,
                       !.errnum = IF good THEN "OK" ELSE "BAD_FSYS",
                       !.blocks[k] = IF good THEN b ELSE @,
                       !.hit = @ \/ stale]
  BY DEF read_tree_node
<1> HIDE DEF v, stale, n, good
<1>2. CASE v = [u EXCEPT !.ok = TRUE, !.errnum = "OK"]
  BY <1>2 DEF Shape, TreeKeys, v
<1>3. CASE v = [u EXCEPT !.ok = FALSE, !.errnum = "OK", !.hit = TRUE]
  BY <1>3 DEF Shape, TreeKeys, v
<1>4. CASE v = [u EXCEPT !.cache[Slot(k)] = n, !.ok = good,
                         !.errnum = IF good THEN "OK" ELSE "BAD_FSYS",
                         !.blocks[k] = IF good THEN b ELSE @,
                         !.hit = @ \/ stale]
  <2>1. /\ DOMAIN v = DOMAIN u /\ v.depth = u.depth /\ v.next = u.next
        /\ v.cache = [u.cache EXCEPT ![Slot(k)] = n]
        /\ v.blocks = [u.blocks EXCEPT ![k] = IF good THEN b ELSE @]
    BY <1>4 DEF Shape, TreeKeys
  <2>2. DOMAIN v.cache = DOMAIN u.cache /\ DOMAIN v.blocks = DOMAIN u.blocks
    BY <2>1
  <2> QED BY <2>1, <2>2 DEF Shape, v
<1> QED BY <1>1, <1>2, <1>3, <1>4

LEMMA DescentShape ==
    ASSUME NEW u, Shape(u), NEW top \in Nat, top >= 1, NEW goal, NEW fault
    PROVE  Shape(Descend(u, top, goal, fault))
<1>1. PICK f : /\ f[top] = u
               /\ \A k \in 1 .. top - 1 : f[k] = Below(f[k + 1], k, goal, fault)
               /\ Descend(u, top, goal, fault) = f[1]
  BY DescendIs
<1> DEFINE G == {k \in 1 .. top : Shape(f[k])}
<1>2. top \in G
  BY <1>1
<1>3. ASSUME NEW k \in 1 .. top - 1, k + 1 \in G PROVE k \in G
  <2> DEFINE w == f[k + 1]
             i == Choice(w, k + 1, goal)
             x == [w EXCEPT !.next[k + 1] = IF i = Len(Cached(w, k + 1).keys) THEN 0 ELSE i + 1]
  <2>1. Shape(w)
    BY <1>3
  <2>2. Shape(x)
    <3> HIDE DEF w, i
    <3> QED BY <2>1 DEF Shape, TreeKeys
  <2>3. f[k] = w \/ f[k] = read_tree_node(x, Child(Cached(w, k + 1), i), (k + 1) - 1, fault)
    BY <1>1 DEF Below, DescendTo
  <2> HIDE DEF w, x, i
  <2>4. Shape(f[k])
    BY <2>1, <2>2, <2>3, ReadShape
  <2> QED BY <2>4
<1> HIDE DEF G
<1>4. 1 \in G
  BY <1>2, <1>3, Downward
<1> QED BY <1>1, <1>4 DEF G

LEMMA SearchShape ==
    ASSUME disk \in Images, NEW u, Shape(u), NEW dir, NEW obj, NEW fault,
           NEW v, v = search_stat(u, dir, obj, fault)
    PROVE  Shape(v) /\ (v.ok => CurrentItem(v).type = "stat")
<1> DEFINE start == [u EXCEPT !.errnum = "OK", !.ok = TRUE]
           low == IF u.depth < 1 THEN start
                  ELSE Descend(start, u.depth, [next |-> FALSE, dir |-> dir, obj |-> obj], fault)
<1>1. Shape(start)
  BY DEF Shape, TreeKeys
<1>2. Shape(low)
  <2> HIDE DEF start
  <2>1. u.depth \in Nat
    BY DEF Shape
  <2>2. ~(u.depth < 1) => u.depth >= 1
    BY <2>1
  <2> QED BY <1>1, <2>1, <2>2, DescentShape
<1>3. v = IF low.ok THEN FindStat(low, dir, obj) ELSE low
  BY DEF search_stat
<1> HIDE DEF low
<1> DEFINE items == LEAF(low).items
           I == {i \in 1 .. Len(items) : items[i].dir = dir /\ items[i].obj = obj /\ items[i].type = "stat"}
           m == IF I # {} THEN Min(I) ELSE 0
<1>4. FindStat(low, dir, obj) = IF m = 0 THEN [low EXCEPT !.ok = FALSE, !.errnum = "BAD_FSYS"]
                                ELSE [low EXCEPT !.ok = TRUE, !.cur = m]
  BY DEF FindStat, SelectInSeq
<1>5. Len(items) \in Nat /\ DOMAIN items = 1 .. Len(items)
  <2> DEFINE b == low.cache[Slot(1)]
  <2>1. LEAF(low) = Node(b)
    BY DEF LEAF
  <2>2. CASE b \in DOMAIN disk.nodes
    <3>1. LEAF(low) = disk.nodes[b]
      BY <2>1, <2>2 DEF Node
    <3> QED BY <2>2, <3>1, SoundAssumption
  <2>3. CASE b \notin DOMAIN disk.nodes
    <3>1. items = <<>>
      BY <2>1, <2>3 DEF Node, ZeroNode
    <3> QED BY <3>1
  <2> QED BY <2>2, <2>3
<1>6. m = 0 \/ (m \in DOMAIN items /\ items[m].type = "stat")
  <2>1. I \in SUBSET (1 .. Len(items))
    OBVIOUS
  <2>2. I # {} => Min(I) \in I
    <3> HIDE DEF I
    <3> QED BY <1>5, <2>1, FirstIn
  <2> QED BY <1>5, <2>2
<1> HIDE DEF m, I
<1>7. CASE ~low.ok
  BY <1>2, <1>3, <1>7
<1>8. CASE low.ok /\ m = 0
  <2>1. v = [low EXCEPT !.ok = FALSE, !.errnum = "BAD_FSYS"]
    BY <1>3, <1>4, <1>8
  <2> QED BY <1>2, <2>1 DEF Shape, TreeKeys
<1>9. CASE low.ok /\ m # 0
  <2>1. v = [low EXCEPT !.ok = TRUE, !.cur = m]
    BY <1>3, <1>4, <1>9
  <2>2. Shape(v) /\ v.cur = m /\ v.cache = low.cache
    BY <1>2, <2>1 DEF Shape, TreeKeys
  <2>3. LEAF(v).items = items
    BY <2>2 DEF LEAF
  <2> QED BY <1>6, <1>9, <2>2, <2>3 DEF CurrentItem
<1> QED BY <1>7, <1>8, <1>9

LEMMA NextShape ==
    ASSUME NEW u, Shape(u), NEW fault
    PROVE  Shape(next_key(u, fault))
<1> DEFINE up == {k \in 2 .. u.depth : u.next[k] # 0}
           top == CHOOSE k \in up : \A e \in up : k <= e
           w == Uncached(u, top, fault)
           n == IF u.cur = 0 THEN 0 ELSE u.cur + 1
<1>1. \/ next_key(u, fault) = [u EXCEPT !.cur = n, !.ok = TRUE]
      \/ next_key(u, fault) = [u EXCEPT !.cur = 0, !.ok = TRUE]
      \/ up # {} /\ next_key(u, fault) = NextLeaf(u, top, fault)
      \/ up # {} /\ next_key(u, fault) = IF w.ok THEN NextLeaf(w, top - 1, fault) ELSE w
  BY DEF next_key
<1>2. u.depth \in Nat
  BY DEF Shape
<1>3. up # {} => top \in Nat /\ top >= 2
  <2>1. up \subseteq Nat
    BY <1>2
  <2>2. up # {} => top \in up
    <3> HIDE DEF up
    <3>1. up # {} => \E k \in up : \A e \in up : k <= e
      BY <2>1, LeastNumber
    <3> QED BY <3>1
  <2> HIDE DEF top
  <2> QED BY <1>2, <2>2
<1>4. ASSUME NEW x, Shape(x), NEW k \in Nat, k >= 1 PROVE Shape(NextLeaf(x, k, fault))
  <2> DEFINE start == [x EXCEPT !.ok = TRUE]
             low == Descend(start, k, [next |-> TRUE], fault)
  <2>1. Shape(start)
    BY <1>4 DEF Shape, TreeKeys
  <2>2. Shape(low)
    <3> HIDE DEF start
    <3> QED BY <1>4, <2>1, DescentShape
  <2>3. NextLeaf(x, k, fault) = IF low.ok THEN [low EXCEPT !.cur = 1] ELSE low
    BY DEF NextLeaf
  <2> HIDE DEF low
  <2> QED BY <2>2, <2>3 DEF Shape, TreeKeys
<1>5. Shape(w)
  <2> HIDE DEF top
  <2> QED BY ReadShape DEF Uncached
<1>6. top \in Nat /\ top >= 2 => top - 1 \in Nat /\ top - 1 >= 1 /\ top >= 1
  <2> HIDE DEF top
  <2> QED OBVIOUS
<1> HIDE DEF up, top, w, n
<1>7. Shape([u EXCEPT !.cur = n, !.ok = TRUE]) /\ Shape([u EXCEPT !.cur = 0, !.ok = TRUE])
  BY DEF Shape, TreeKeys
<1>8. up # {} => Shape(NextLeaf(u, top, fault)) /\ Shape(NextLeaf(w, top - 1, fault))
  BY <1>3, <1>4, <1>5, <1>6
<1> QED BY <1>1, <1>5, <1>7, <1>8

-----------------------------------------------------------------------------
(***************************************************************************)
(* The inductive invariant.                                                *)
(***************************************************************************)
(* Where reiserfs_open_file is, as a place of the walk.  The root has no   *)
(* parent, and is never left through it.                                   *)
Site(l, rest, links) ==
    [at |-> l.obj, up |-> IF l.pobj = 0 THEN ROOT_KEY.obj ELSE l.pobj, rest |-> rest,
     links |-> links, res |-> "going"]

(* The lookup is on the way to what the path names; the keys it has are    *)
(* those of the objects.                                                   *)
Way(d, p, v, l, rest, links) ==
    /\ Site(l, rest, links) \in Sites(d) /\ Leads(d, p, v, Site(l, rest, links))
    /\ l.dir = d.objs[l.obj].dir
    /\ IF l.pobj = 0 THEN l.obj = ROOT_KEY.obj ELSE l.pdir = d.objs[l.pobj].dir

LookKeys == {"dir", "obj", "pdir", "pobj", "rest", "links"}

Healthy == disk.sound /\ faults = 0

Opening == {"stat", "leave", "link", "dir"}

Serving == {"search", "next", "loop", "done"}

(* What a buffer may hold: a byte that was never read is "?".              *)
Tokens == STRING \cup {"?"}

(* What holds on any disk.                                                 *)
Typed ==
    /\ disk \in Images /\ path \in Text /\ faults \in Nat
    /\ named = Resolve(objs, ROOT_KEY.obj, MAX_LINK_COUNT, TooLong, Bound(path), path)
    /\ DOMAIN look = LookKeys /\ DOMAIN file = {"pos", "len", "dir", "obj"}
    /\ DOMAIN rd = {"buf", "left", "caller"}
    /\ Shape(t) /\ file.pos \in Nat /\ rd.buf \in Seq(Tokens) /\ rd.left \in Nat

Flow ==
    /\ pc \in {"closed", "super", "header", "desc", "again", "root", "idle", "failed", "shut"} \cup Opening \cup Serving
    /\ pc = "leave" => CurrentItem(t).type = "stat"
    /\ pc \in {"closed", "super", "header", "desc", "again", "root"} \cup Opening => result = "none"
    /\ pc \in Serving => \/ rd.caller = "open" /\ result = "none"
                         \/ rd.caller = "read" /\ result = "OK"
    /\ rd.caller = "open" => pc \in Serving \cup {"link", "failed"}
    /\ rd.caller = "read" => pc \in Serving
    /\ pc = "link" => rd.caller = "open"
    /\ pc \in {"closed", "super", "header", "desc", "again", "root", "stat", "leave", "dir"} => rd = NoRead
    /\ pc = "idle" => result = "OK"

(* Before the first walk.                                                  *)
Mounting ==
    /\ pc \in {"closed", "super", "header", "desc", "again", "root"} => t = EmptyTree
    /\ pc \in {"header", "desc", "again"} => sb = FindSuper(disk)
    /\ pc = "root" => sb.root = FindSuper(disk).root
    /\ pc \in {"closed", "super", "header"} => jr = NoJournal
    /\ pc \in {"header", "again"} => sb.journal # 0 
    /\ pc = "desc" => /\ sb.journal # 0 /\ disk.head.first < sb.size
                      /\ jr = [head |-> disk.head, desc |-> disk.head.first,
                               next |-> (le32_to_cpu(disk.head.last) + 1) % (Byte * Byte), transactions |-> 0]
    /\ pc \in {"again", "root"} => jr.transactions = 0

(* At the start of a turn of the loop of reiserfs_open_file.               *)
Looking ==
    /\ pc \in {"stat", "leave"} => Way(disk, path, named, look, look.rest, look.links)
    /\ pc = "stat" => Mounted(disk, t)
    /\ pc \in {"leave", "link"} => \E c \in DOMAIN disk.order.items : IsStat(disk, look.obj, c) /\ At(disk, t, c)

(* In a directory: no item up to the current one has the name.             *)
NameOf(rest) == IF rest = <<>> THEN "" ELSE rest[1]

Without(d, o, c, name) ==
    LET all == d.order.items
    IN  \A i \in DOMAIN all : i <= c /\ all[i].obj = o /\ all[i].type = "dir" =>
            \A k \in DOMAIN all[i].entries : ~Matches(all[i].entries[k], name)

Scanning ==
    pc = "dir" =>
        /\ objs[look.obj].mode = "dir"
        /\ \E rest \in Text : /\ rest # <<>> /\ look.rest = DropSlashes(rest)
                              /\ Way(disk, path, named, look, rest, look.links)
        /\ \E c \in DOMAIN disk.order.items : /\ At(disk, t, c) /\ disk.order.items[c].obj = look.obj
                                              /\ Without(disk, look.obj, c, NameOf(look.rest))

(* A link is read; it has been counted.                                    *)
Linking ==
    pc = "link" \/ (pc \in Serving /\ rd.caller = "open") =>
        /\ objs[look.obj].mode = "lnk" /\ file.obj = look.obj
        /\ Way(disk, path, named, look, look.rest, look.links - 1)
        /\ look.links \in 1 .. MAX_LINK_COUNT /\ ~TooLong(objs[look.obj].target, look.rest)
        /\ file.len = Len(objs[look.obj].target) /\ file.pos = Len(rd.buf)
        /\ Len(rd.buf) + rd.left = file.len

(* The items of the open object, and what is behind a position in it.      *)
Whole(d, o) == Content(d.objs[o])

(* The item c is one of the object's data items.                           *)
IsData(d, o, c) == LET all == d.order.items IN c \in DOMAIN all /\ all[c].obj = o /\ all[c].type # "stat"

(* The walk rests somewhere, but not at the stat item of the object.       *)
Rests(d, u, o) == \/ Past(d, u)
                    \/ \E c \in DOMAIN d.order.items : At(d, u, c) /\ ~IsStat(d, o, c)

(* The walk is on an item of the object that does not begin behind pos, or *)
(* it has left the object and nothing is at pos.                           *)
Reaches(d, u, o, pos) ==
    \/ \E c \in DOMAIN d.order.items : /\ At(d, u, c) /\ IsData(d, o, c)
                                       /\ d.order.items[c].off <= pos + 1
    \/ /\ pos >= Len(Whole(d, o))
       /\ Past(d, u) \/ \E c \in DOMAIN d.order.items : At(d, u, c) /\ d.order.items[c].obj # o

(* It is on one that ends before pos, or on the stat item.                 *)
Leaves(d, u, o, pos) ==
    \E c \in DOMAIN d.order.items :
        /\ At(d, u, c) /\ d.order.items[c].obj = o
        /\ IsStat(d, o, c) \/ d.order.items[c].off + ItemLen(d.order.items[c]) <= pos + 1

(* What has been read are the bytes in front of pos.                       *)
Delivered(text, pos, buf) ==
    /\ Len(buf) <= pos
    /\ \A i \in 1 .. Len(buf) : pos - Len(buf) + i <= Len(text) => buf[i] = text[pos - Len(buf) + i]

Reading ==
    pc \in Serving \cup {"idle", "link"} =>
        /\ file.obj \in DOMAIN objs /\ objs[file.obj].mode # "dir" /\ file.dir = objs[file.obj].dir
        /\ pc \in Serving => t.errnum = "OK" \/ pc = "search"
        /\ pc \in Serving \cup {"link"} => Delivered(Whole(disk, file.obj), file.pos, rd.buf)
        /\ pc \in {"idle", "search", "done"} => Rests(disk, t, file.obj)
        /\ pc = "loop" => Reaches(disk, t, file.obj, file.pos)
        /\ pc = "next" => Leaves(disk, t, file.obj, file.pos)
        /\ pc = "done" => rd.left = 0 \/ file.pos >= Len(Whole(disk, file.obj))

(* The lookup has come to its end.                                         *)
Ended ==
    result \notin {"none", "BADDEV"} =>
        /\ result = named.res
        /\ result = "OK" => /\ file.obj = named.at /\ objs[named.at].mode = "reg"
                            /\ file.len = Len(objs[named.at].bytes)

Right == Mounting /\ Looking /\ Scanning /\ Linking /\ Reading /\ Ended

RInv == Typed /\ Flow /\ (Healthy => Right)

(* A sound disk that could be read has nothing to replay, at any time.     *)
Calm == Healthy => jr.transactions = 0

-----------------------------------------------------------------------------
(***************************************************************************)
(* The items of an object.                                                 *)
(***************************************************************************)
LEMMA Ordered ==
    ASSUME Sound(disk), NEW i \in DOMAIN disk.order.items
    PROVE  /\ disk.order.items[i].dir \in Nat /\ disk.order.items[i].obj \in Nat
           /\ disk.order.items[i].off \in Nat /\ i \in Nat /\ i >= 1
           /\ disk.order.items[i].type = "stat" <=> disk.order.items[i].off = 0
           /\ \A j \in DOMAIN disk.order.items :
                 i < j => KeyBefore(disk.order.items[i], disk.order.items[j])
BY SoundTree DEF InKeyOrder

LEMMA ObjectIs ==
    ASSUME Sound(disk), NEW o \in DOMAIN objs
    PROVE  Describes(disk, o) /\ o # 0
BY DEF Sound, objs

(* All items of an object have its key.                                    *)
LEMMA OneDir ==
    ASSUME Sound(disk), NEW o \in DOMAIN objs, NEW i \in DOMAIN disk.order.items,
           disk.order.items[i].obj = o
    PROVE  disk.order.items[i].dir = objs[o].dir
BY ObjectIs DEF Describes, objs

(* An object has a stat item, which says what it is.                       *)
LEMMA HasStat ==
    ASSUME Sound(disk), NEW o \in DOMAIN objs
    PROVE  \E g \in DOMAIN disk.order.items : IsStat(disk, o, g) /\ disk.order.items[g].dir = objs[o].dir
<1>1. PICK g \in DOMAIN disk.order.items : disk.order.items[g].obj = o /\ disk.order.items[g].type = "stat"
  BY ObjectIs DEF Describes
<1> QED BY <1>1, OneDir DEF IsStat

LEMMA StatSays ==
    ASSUME Sound(disk), NEW o \in DOMAIN objs, NEW g, IsStat(disk, o, g)
    PROVE  /\ disk.order.items[g].mode = objs[o].mode /\ disk.order.items[g].dir = objs[o].dir
           /\ objs[o].mode # "dir" => disk.order.items[g].size = Len(Content(objs[o]))
           /\ objs[o].mode \in {"dir", "reg", "lnk"} /\ o \in Nat
<1>1. PICK h \in DOMAIN disk.order.items :
          /\ disk.order.items[h].obj = o /\ disk.order.items[h].type = "stat"
          /\ disk.order.items[h].mode = objs[o].mode
          /\ objs[o].mode # "dir" => disk.order.items[h].size = Len(Content(objs[o]))
  BY ObjectIs DEF Describes, objs
<1>2. IsStat(disk, o, h) /\ g \in DOMAIN disk.order.items /\ disk.order.items[g].obj = o
  BY <1>1 DEF IsStat
<1>3. disk.order.items[g].dir = objs[o].dir /\ disk.order.items[h].dir = objs[o].dir
  BY <1>1, <1>2, OneDir
<1>4. h = g
  BY <1>2, <1>3, OneStat
<1>5. objs[o].mode \in {"dir", "reg", "lnk"}
  BY ObjectIs DEF Describes, objs
<1> QED BY <1>1, <1>2, <1>3, <1>4, <1>5, Ordered

(* Its stat item is the first of its items.                                *)
LEMMA StatFirst ==
    ASSUME Sound(disk), NEW o \in DOMAIN objs, NEW g, IsStat(disk, o, g),
           NEW i \in DOMAIN disk.order.items, disk.order.items[i].obj = o
    PROVE  g <= i /\ g \in Nat /\ i \in Nat
<1> DEFINE all == disk.order.items
<1>1. g \in DOMAIN all /\ all[g].obj = o /\ all[g].type = "stat"
  BY DEF IsStat
<1>2. all[g].dir = objs[o].dir /\ all[i].dir = objs[o].dir
  BY <1>1, OneDir
<1>3. /\ g \in Nat /\ i \in Nat /\ all[g].off = 0 /\ all[i].off \in Nat /\ all[i].dir \in Nat
      /\ all[i].obj \in Nat /\ (i < g => KeyBefore(all[i], all[g]))
  BY <1>1, Ordered
<1>4. ~KeyBefore(all[i], all[g])
  BY <1>1, <1>2, <1>3 DEF KeyBefore
<1> QED BY <1>3, <1>4

(* The items of an object are together.                                    *)
LEMMA Together ==
    ASSUME Sound(disk), NEW o \in DOMAIN objs,
           NEW c \in DOMAIN disk.order.items, disk.order.items[c].obj = o,
           ~GoesOn(disk.order.items, c),
           NEW i \in DOMAIN disk.order.items, disk.order.items[i].obj = o
    PROVE  i <= c /\ c \in Nat /\ i \in Nat
<1> DEFINE all == disk.order.items
<1>1. c \in Nat /\ i \in Nat /\ c >= 1 /\ i >= 1
  BY Ordered
<1>2. SUFFICES ASSUME c < i PROVE FALSE
  BY <1>1
<1>3. DOMAIN all = 1 .. Len(all)
  BY SoundTree DEF InKeyOrder
<1>4. c + 1 \in DOMAIN all
  BY <1>1, <1>2, <1>3
<1>5. all[c + 1].obj # o
  BY <1>4 DEF GoesOn
<1>6. c + 1 < i
  <2>1. c + 1 # i
    BY <1>5
  <2> QED BY <1>1, <1>2, <2>1
<1>7. KeyBefore(all[c], all[c + 1]) /\ KeyBefore(all[c + 1], all[i])
  BY <1>1, <1>4, <1>6, Ordered
<1>8. all[c].dir = objs[o].dir /\ all[i].dir = objs[o].dir
  BY OneDir
<1>9. /\ all[c].dir \in Nat /\ all[c].obj \in Nat /\ all[c + 1].dir \in Nat /\ all[c + 1].obj \in Nat
  BY <1>4, Ordered
<1> HIDE DEF all
<1>10. all[c].obj = o /\ all[i].obj = o
  BY DEF all
<1> QED BY <1>5, <1>7, <1>8, <1>9, <1>10 DEF KeyBefore

(* Behind the stat item of an object come its data items.                  *)
LEMMA DataBehind ==
    ASSUME Sound(disk), NEW o \in DOMAIN objs,
           NEW c \in DOMAIN disk.order.items, disk.order.items[c].obj = o,
           GoesOn(disk.order.items, c)
    PROVE  IsData(disk, o, c + 1)
<1>1. c + 1 \in DOMAIN disk.order.items /\ disk.order.items[c + 1].obj = o
  BY DEF GoesOn
<1>2. disk.order.items[c + 1].type # "stat"
  <2>1. SUFFICES ASSUME disk.order.items[c + 1].type = "stat" PROVE FALSE
    OBVIOUS
  <2>2. IsStat(disk, o, c + 1)
    BY <1>1, <2>1 DEF IsStat
  <2>3. c + 1 <= c /\ c \in Nat
    BY <2>2, StatFirst
  <2> QED BY <2>3
<1> QED BY <1>1, <1>2 DEF IsData

LEMMA LargerSeq ==
    ASSUME NEW S, NEW T, S \subseteq T, NEW s \in Seq(S)
    PROVE  s \in Seq(T)
OBVIOUS

LEMMA Bytes ==
    ASSUME NEW s \in Seq(STRING)
    PROVE  s \in Seq(Tokens)
<1>1. STRING \subseteq Tokens
  BY Zenon DEF Tokens
<1> QED BY <1>1, LargerSeq, Zenon

(* What is in the items of a file or a link.                               *)
LEMMA FileItems ==
    ASSUME Sound(disk), NEW o \in DOMAIN objs, objs[o].mode # "dir"
    PROVE  /\ Holds(disk, o, Whole(disk, o)) /\ Whole(disk, o) \in Seq(STRING)
           /\ objs[o].mode = "lnk" => /\ Whole(disk, o) = objs[o].target /\ objs[o].target \in Text
                                      /\ objs[o].target # <<>>
           /\ objs[o].mode # "lnk" => objs[o].mode = "reg" /\ Whole(disk, o) = objs[o].bytes
<1>1. \/ objs[o].mode = "reg" /\ objs[o].bytes \in Seq(STRING) /\ Holds(disk, o, objs[o].bytes)
      \/ /\ objs[o].mode = "lnk" /\ objs[o].target \in Seq(STRING \ {""}) /\ objs[o].target # <<>>
         /\ Holds(disk, o, objs[o].target)
  BY ObjectIs DEF Describes, objs
<1>2. objs[o].target \in Seq(STRING \ {""}) => objs[o].target \in Seq(STRING) /\ objs[o].target \in Text
  <2>1. STRING \ {""} \subseteq STRING
    BY Zenon
  <2>2. objs[o].target \in Seq(STRING \ {""}) => objs[o].target \in Seq(STRING)
    BY <2>1, LargerSeq
  <2>3. objs[o].target \in Seq(STRING \ {""}) => objs[o].target \in Text
    BY Zenon DEF Text, Name
  <2> QED BY <2>2, <2>3
<1>3. CASE objs[o].mode = "reg"
  <2>1. Whole(disk, o) = objs[o].bytes
    BY <1>3 DEF Whole, Content, objs
  <2> QED BY <1>1, <1>3, <2>1
<1>4. CASE objs[o].mode = "lnk"
  <2>1. Whole(disk, o) = objs[o].target
    BY <1>4 DEF Whole, Content, objs
  <2> QED BY <1>1, <1>2, <1>4, <2>1
<1> QED BY <1>1, <1>3, <1>4

-----------------------------------------------------------------------------
(***************************************************************************)
(* The bytes of an item.                                                   *)
(***************************************************************************)
(* An item the driver looks at has its bytes, on any disk.                 *)
LEMMA ItemFormed ==
    ASSUME disk \in Images, NEW u
    PROVE  /\ WellFormed(disk, CurrentItem(u))
           /\ u.cur = 0 => CurrentItem(u) = MaxItem
<1> DEFINE node == LEAF(u)
<1>1. /\ DOMAIN node.items = 1 .. Len(node.items) /\ Len(node.items) \in Nat
      /\ \A i \in DOMAIN node.items : WellFormed(disk, node.items[i])
  <2> DEFINE b == u.cache[Slot(1)]
  <2>1. node = Node(b)
    BY DEF LEAF
  <2> HIDE DEF b, node
  <2>2. CASE b \in DOMAIN disk.nodes
    <3>1. node = disk.nodes[b]
      BY <2>1, <2>2 DEF Node
    <3>2. \A x \in DOMAIN disk.nodes :
             /\ Len(disk.nodes[x].items) \in Nat /\ DOMAIN disk.nodes[x].items = 1 .. Len(disk.nodes[x].items)
             /\ \A i \in DOMAIN disk.nodes[x].items : WellFormed(disk, disk.nodes[x].items[i])
      BY SoundAssumption
    <3> QED BY <2>2, <3>1, <3>2
  <2>3. CASE b \notin DOMAIN disk.nodes
    BY <2>1, <2>3 DEF Node, ZeroNode
  <2> QED BY <2>2, <2>3
<1>2. CurrentItem(u) = IF u.cur \in DOMAIN node.items THEN node.items[u.cur] ELSE MaxItem
  BY DEF CurrentItem
<1>3. WellFormed(disk, MaxItem)
  BY DEF WellFormed, MaxItem
<1> HIDE DEF node
<1> QED BY <1>1, <1>2, <1>3

LEMMA BlockSize == blocksize \in Nat \ {0}
BY ReiserAssumption

LEMMA LengthIs ==
    ASSUME NEW item, WellFormed(disk, item)
    PROVE  ItemLen(item) \in Nat
<1>1. item.type = "direct" => Len(item.bytes) \in Nat
  BY DEF WellFormed
<1>2. item.type = "indirect" => Len(item.ptrs) \in Nat
  BY DEF WellFormed
<1>3. item.type = "indirect" => Len(item.ptrs) * blocksize \in Nat
  BY <1>2, BlockSize
<1> QED BY <1>1, <1>3 DEF ItemLen, IH_KEY_ISTYPE

(* A part of a sequence.                                                   *)
LEMMA Piece ==
    ASSUME NEW S, NEW s \in Seq(S), NEW a \in 0 .. Len(s) - 1
    PROVE  /\ SubSeq(s, a + 1, Len(s)) \in Seq(S) /\ Len(SubSeq(s, a + 1, Len(s))) = Len(s) - a
           /\ \A k \in 1 .. Len(s) - a : SubSeq(s, a + 1, Len(s))[k] = s[a + k]
<1>1. Len(s) \in Nat /\ a + 1 \in Nat
  OBVIOUS
<1>2. SubSeq(s, a + 1, Len(s)) \in Seq(S) /\ Len(SubSeq(s, a + 1, Len(s))) = Len(s) - a
  BY <1>1
<1>3. ASSUME NEW k \in 1 .. Len(s) - a
      PROVE  SubSeq(s, a + 1, Len(s))[k] = s[a + k]
  <2>1. SubSeq(s, a + 1, Len(s))[k] = s[a + 1 + k - 1] /\ a + 1 + k - 1 = a + k
    BY <1>1
  <2> QED BY <2>1
<1> QED BY <1>2, <1>3

LEMMA BytesAre ==
    ASSUME disk \in Images, NEW item, WellFormed(disk, item), NEW x \in 0 .. ItemLen(item) - 1
    PROVE  /\ ItemBytes(item, x) \in Seq(STRING) /\ Len(ItemBytes(item, x)) >= 1
           /\ \A k \in 1 .. Len(ItemBytes(item, x)) :
                 x + k \in 1 .. ItemLen(item) /\ ItemBytes(item, x)[k] = ByteAt(disk, item, x + k)
<1>0. x \in Nat /\ x \in Int
  <2>1. ItemLen(item) \in Nat
    BY LengthIs
  <2> HIDE DEF ItemLen
  <2> QED BY <2>1
<1>1. CASE item.type = "direct"
  <2> DEFINE b == item.bytes
  <2>1. b \in Seq(STRING) /\ ItemLen(item) = Len(b)
    BY <1>1 DEF WellFormed, ItemLen, IH_KEY_ISTYPE
  <2>2. ItemBytes(item, x) = SubSeq(b, x + 1, Len(b))
    BY <1>1 DEF ItemBytes, IH_KEY_ISTYPE
  <2>3. \A k : ByteAt(disk, item, k) = b[k]
    BY <1>1 DEF ByteAt
  <2>4. x \in 0 .. Len(b) - 1
    BY <2>1
  <2> HIDE DEF b
  <2> DEFINE S == STRING
  <2>5. b \in Seq(S)
    BY <2>1
  <2> HIDE DEF S
  <2>6. /\ SubSeq(b, x + 1, Len(b)) \in Seq(S) /\ Len(SubSeq(b, x + 1, Len(b))) = Len(b) - x
        /\ \A k \in 1 .. Len(b) - x : SubSeq(b, x + 1, Len(b))[k] = b[x + k]
    BY <2>4, <2>5, Piece
  <2>7. Len(b) \in Nat
    BY <2>5
  <2>8. Len(b) - x >= 1 /\ \A k \in 1 .. Len(b) - x : x + k \in 1 .. Len(b)
    BY <1>0, <2>4, <2>7
  <2>9. /\ ItemBytes(item, x) \in Seq(S) /\ Len(ItemBytes(item, x)) = Len(b) - x
        /\ \A k \in 1 .. Len(b) - x : ItemBytes(item, x)[k] = b[x + k]
    BY <2>2, <2>6
  <2> QED BY <2>1, <2>3, <2>8, <2>9 DEF S
<1>2. CASE item.type = "indirect"
  <2> DEFINE m == blocksize
             n == Len(item.ptrs)
             q == x \div m
             r == x % m
             b == disk.data[item.ptrs[q + 1]]
  <2>1. item.ptrs \in Seq(DOMAIN disk.data) /\ n \in Nat /\ m \in Nat \ {0}
    BY <1>2, BlockSize DEF WellFormed
  <2>2. ItemLen(item) = n * m
    BY <1>2 DEF ItemLen, IH_KEY_ISTYPE
  <2>3. ItemBytes(item, x) = SubSeq(b, r + 1, m)
    BY <1>2 DEF ItemBytes, IH_KEY_ISTYPE
  <2>4. \A k : ByteAt(disk, item, k) = disk.data[item.ptrs[((k - 1) \div m) + 1]][((k - 1) % m) + 1]
    BY <1>2 DEF ByteAt
  <2>5. q \in Nat /\ r \in 0 .. m - 1 /\ x = m * q + r
    <3> HIDE DEF m
    <3> QED BY <1>0, <2>1, ModRange, ModParts
  <2>50. m * n = n * m /\ n * m \in Nat /\ x <= n * m - 1
    <3>1. n * m \in Nat
      <4> HIDE DEF n, m
      <4> QED BY <2>1
    <3>2. m * n = n * m
      <4> HIDE DEF n, m
      <4> QED BY <2>1
    <3> QED BY <1>0, <2>2, <3>1, <3>2
  <2> HIDE DEF n, m
  <2>6. q + 1 \in 1 .. n
    <3> SUFFICES ASSUME q - n >= 0 PROVE FALSE
      <4> HIDE DEF q
      <4> QED BY <2>1, <2>5
    <3> HIDE DEF q, r
    <3>1. m * (q - n) = m * q - m * n /\ m * q \in Int /\ m * n \in Int
      BY <2>1, <2>5, MulMinus
    <3>2. m * (q - n) >= 0
      BY <2>1, <2>5
    <3> QED BY <1>0, <2>1, <2>5, <2>50, <3>1, <3>2
  <2>7. b \in Seq(STRING) /\ Len(b) = m
    <3> HIDE DEF q
    <3>1. item.ptrs[q + 1] \in DOMAIN disk.data
      BY <2>1, <2>6 DEF n
    <3>2. \A y \in DOMAIN disk.data : disk.data[y] \in Seq(STRING) /\ Len(disk.data[y]) = m
      BY SoundAssumption DEF m
    <3> QED BY <3>1, <3>2
  <2> HIDE DEF q, r
  <2>8. m * (q + 1) = m * q + m /\ m * (q + 1) <= m * n /\ m * q \in Nat
    <3>1. m * (q + 1) = m * q + m /\ m * q \in Nat
      BY <2>1, <2>5
    <3>2. m * (n - (q + 1)) = m * n - m * (q + 1)
      BY <2>1, <2>5, MulMinus
    <3>3. m * (n - (q + 1)) >= 0
      <4>1. n - (q + 1) \in Nat
        BY <2>1, <2>5, <2>6
      <4> QED BY <2>1, <4>1
    <3> QED BY <2>1, <2>5, <2>50, <3>1, <3>2, <3>3
  <2> DEFINE S == STRING
  <2>9. b \in Seq(S)
    BY <2>7
  <2>10. /\ SubSeq(b, r + 1, m) \in Seq(S) /\ Len(SubSeq(b, r + 1, m)) = m - r
         /\ \A k \in 1 .. m - r : SubSeq(b, r + 1, m)[k] = b[r + k]
    <3> HIDE DEF b, S
    <3> QED BY <2>5, <2>7, <2>9, Piece
  <2>11. ASSUME NEW k \in 1 .. m - r
         PROVE  x + k \in 1 .. ItemLen(item) /\ ItemBytes(item, x)[k] = ByteAt(disk, item, x + k)
    <3>1. x + k \in 1 .. ItemLen(item)
      <4> HIDE DEF b
      <4> QED BY <1>0, <2>1, <2>2, <2>5, <2>50, <2>8
    <3>2. x + k - 1 = m * q + (r + k - 1) /\ r + k - 1 \in 0 .. m - 1 /\ x + k - 1 \in Nat
      <4> HIDE DEF b
      <4> QED BY <1>0, <2>1, <2>5, <2>8
    <3>3. (x + k - 1) \div m = q /\ (x + k - 1) % m = r + k - 1
      BY <2>1, <2>5, <3>2, ModUnique
    <3>4. r + k - 1 + 1 = r + k
      BY <2>1, <2>5
    <3>5. ByteAt(disk, item, x + k) = disk.data[item.ptrs[q + 1]][r + k]
      BY <2>4, <3>3, <3>4
    <3>6. ItemBytes(item, x)[k] = b[r + k]
      BY <2>3, <2>10
    <3> QED BY <3>1, <3>5, <3>6
  <2>12. ItemBytes(item, x) \in Seq(S) /\ Len(ItemBytes(item, x)) = m - r /\ m - r >= 1
    <3>1. m - r >= 1
      BY <2>1, <2>5
    <3> HIDE DEF b
    <3> QED BY <2>3, <2>10, <3>1
  <2> QED BY <2>11, <2>12 DEF S
<1>3. CASE item.type # "direct" /\ item.type # "indirect"
  BY <1>3 DEF ItemLen, IH_KEY_ISTYPE
<1> QED BY <1>1, <1>2, <1>3

(***************************************************************************)
(* Reading on.                                                             *)
(***************************************************************************)
(* What an item at pos has are the next bytes of the file.                 *)
LEMMA ItemServes ==
    ASSUME Sound(disk), disk \in Images, NEW o \in DOMAIN objs, objs[o].mode # "dir",
           NEW c \in DOMAIN disk.order.items, NEW item, item = disk.order.items[c], item.obj = o,
           WellFormed(disk, item), NEW pos \in Nat, NEW x, x = pos - item.off + 1,
           x \in 0 .. ItemLen(item) - 1
    PROVE  \A k \in 1 .. Len(ItemBytes(item, x)) :
              pos + k <= Len(Whole(disk, o)) => ItemBytes(item, x)[k] = Whole(disk, o)[pos + k]
<1> DEFINE text == Whole(disk, o)
<1>1. ASSUME NEW k \in 1 .. Len(ItemBytes(item, x)), pos + k <= Len(text)
      PROVE  ItemBytes(item, x)[k] = text[pos + k]
  <2>1. x + k \in 1 .. ItemLen(item) /\ ItemBytes(item, x)[k] = ByteAt(disk, item, x + k)
    BY BytesAre
  <2>2. Holds(disk, o, text) /\ Len(text) \in Nat
    BY FileItems
  <2>3. item.off \in Nat
    BY Ordered
  <2>4. item.off + (x + k) - 1 = pos + k /\ pos + k \in 1 .. Len(text)
    <3>1. k \in Nat /\ k >= 1
      <4>1. Len(ItemBytes(item, x)) \in Nat
        BY BytesAre
      <4> QED BY <4>1
    <3>2. item.off + (x + k) - 1 = pos + k
      <4>1. \A a, b, e \in Int : a + ((b - a + 1) + e) - 1 = b + e
        OBVIOUS
      <4>2. item.off \in Int /\ pos \in Int /\ k \in Int
        BY <2>3, <3>1
      <4> QED BY <4>1, <4>2, Zenon
    <3>3. pos + k \in 1 .. Len(text)
      <4> HIDE DEF text
      <4> QED BY <1>1, <2>2, <3>1
    <3> QED BY <3>2, <3>3
  <2>5. item.off + (x + k) - 1 \in 1 .. Len(text) =>
            ByteAt(disk, item, x + k) = text[item.off + (x + k) - 1]
    <3> HIDE DEF text
    <3> QED BY <2>1, <2>2 DEF Holds
  <2> QED BY <2>1, <2>4, <2>5
<1> QED BY <1>1

(* More of the file has been delivered.                                    *)
LEMMA DeliveredMore ==
    ASSUME NEW S, NEW text, Len(text) \in Nat, NEW pos \in Nat, NEW buf \in Seq(S), Delivered(text, pos, buf),
           NEW got \in Seq(S), \A i \in 1 .. Len(got) : pos + i <= Len(text) => got[i] = text[pos + i]
    PROVE  Delivered(text, pos + Len(got), buf \o got)
<1> DEFINE m == Len(buf)
           n == Len(got)
           all == buf \o got
<1>1. m \in Nat /\ n \in Nat /\ Len(all) = m + n /\ m <= pos
  BY DEF Delivered
<1>2. ASSUME NEW i \in 1 .. m + n, (pos + n) - (m + n) + i <= Len(text)
      PROVE  all[i] = text[(pos + n) - (m + n) + i]
  <2>0. (pos + n) - (m + n) + i = pos - m + i
    BY <1>1
  <2>1. CASE i <= m
    <3>1. all[i] = buf[i] /\ i \in 1 .. m
      BY <1>1, <2>1
    <3>2. pos - m + i <= Len(text) => buf[i] = text[pos - m + i]
      BY <3>1 DEF Delivered
    <3> QED BY <1>2, <2>0, <3>1, <3>2
  <2>2. CASE i > m
    <3>1. all[i] = got[i - m] /\ i - m \in 1 .. n
      BY <1>1, <2>2
    <3>2. pos + (i - m) = pos - m + i
      BY <1>1
    <3> QED BY <1>2, <2>0, <3>1, <3>2
  <2> QED BY <1>1, <2>1, <2>2
<1>3. Len(all) <= pos + n
  BY <1>1
<1> HIDE DEF m, n, all
<1>4. Delivered(text, pos + n, all)
  <2>1. \A i \in 1 .. m + n : (pos + n) - (m + n) + i <= Len(text) => all[i] = text[(pos + n) - (m + n) + i]
    BY <1>2
  <2>2. \A i \in 1 .. Len(all) : (pos + n) - Len(all) + i <= Len(text) => all[i] = text[(pos + n) - Len(all) + i]
    BY <1>1, <2>1, Zenon
  <2> QED BY <1>3, <2>2, Zenon DEF Delivered
<1> QED BY <1>4 DEF n, all

(* From an item that ends before pos next_key leads on.                    *)
LEMMA NextReaches ==
    ASSUME Sound(disk), NEW o \in DOMAIN objs, objs[o].mode # "dir", NEW pos \in Nat,
           disk \in Images, NEW u, Leaves(disk, u, o, pos), NEW v, v = next_key(u, NoFault)
    PROVE  Reaches(disk, v, o, pos) /\ v.ok /\ (v.errnum = u.errnum \/ v.errnum = "OK")
<1> DEFINE all == disk.order.items
           text == Whole(disk, o)
<1>1. PICK c \in DOMAIN all :
          /\ At(disk, u, c) /\ all[c].obj = o
          /\ IsStat(disk, o, c) \/ all[c].off + ItemLen(all[c]) <= pos + 1
  BY DEF Leaves
<1>2. /\ v.ok /\ (v.errnum = u.errnum \/ v.errnum = "OK")
      /\ c + 1 \in DOMAIN all => At(disk, v, c + 1)
      /\ c + 1 \notin DOMAIN all => Past(disk, v)
  BY <1>1, NextItem
<1>3. all[c].off \in Nat /\ (all[c].type = "stat" <=> all[c].off = 0)
  BY Ordered
<1>4. /\ IF all[c].type = "stat" THEN GoesOn(all, c) => all[c + 1].off = 1
         ELSE GoesOn(all, c) => all[c + 1].off = all[c].off + ItemLen(all[c])
      /\ ~GoesOn(all, c) => all[c].off + ItemLen(all[c]) > Len(text) \/ text = <<>>
  <2>1. Holds(disk, o, text)
    BY FileItems
  <2> HIDE DEF text
  <2> QED BY <1>1, <2>1 DEF Holds
<1>5. IsStat(disk, o, c) => all[c].type = "stat" /\ ItemLen(all[c]) = 0
  BY DEF IsStat, ItemLen, IH_KEY_ISTYPE
<1>6. Len(text) \in Nat
  BY FileItems
<1>7. CASE GoesOn(all, c)
  <2>1. c + 1 \in DOMAIN all /\ IsData(disk, o, c + 1)
    BY <1>1, <1>7, DataBehind DEF GoesOn
  <2>2. all[c + 1].off <= pos + 1
    <3>1. all[c].type = "stat" => IsStat(disk, o, c)
      BY <1>1 DEF IsStat
    <3> QED BY <1>1, <1>4, <1>5, <1>7, <3>1
  <2> QED BY <1>2, <2>1, <2>2 DEF Reaches
<1>8. CASE ~GoesOn(all, c)
  <2>1. pos >= Len(text)
    <3>1. CASE text = <<>>
      <4>1. Len(text) = 0
        BY <3>1
      <4> QED BY <4>1
    <3>2. CASE text # <<>>
      <4>1. all[c].off + ItemLen(all[c]) > Len(text)
        BY <1>4, <1>8, <3>2
      <4>2. IsStat(disk, o, c) => all[c].off + ItemLen(all[c]) = 0
        BY <1>3, <1>5
      <4>3. all[c].off + ItemLen(all[c]) <= pos + 1
        BY <1>1, <4>2
      <4>4. all[c].off + ItemLen(all[c]) \in Int
        <5>1. ItemLen(all[c]) \in Nat
          <6>1. WellFormed(disk, all[c])
            BY <1>1, ItemAt, ItemFormed
          <6> QED BY <6>1, LengthIs
        <5> QED BY <1>3, <5>1
      <4> HIDE DEF text
      <4> QED BY <1>6, <4>1, <4>3, <4>4
    <3> QED BY <3>1, <3>2
  <2>2. c + 1 \in DOMAIN all => all[c + 1].obj # o
    BY <1>1, <1>8 DEF GoesOn
  <2> QED BY <1>2, <2>1, <2>2 DEF Reaches
<1> QED BY <1>2, <1>7, <1>8

-----------------------------------------------------------------------------
(* What is asked for is a path.                                            *)
LEMMA RequestIsText ==
    ASSUME NEW p \in Requests
    PROVE  p \in Text
<1>1. p \in Seq(STRING \ {""})
  BY ReiserAssumption, Zenon
<1> QED BY <1>1, Zenon DEF Text, Name

LEMMA TextLen ==
    ASSUME NEW p \in Text
    PROVE  Len(p) \in Nat
BY DEF Text

LEMMA HealthyDisk ==
    ASSUME Typed, Healthy
    PROVE  Sound(disk)
BY SoundAssumption DEF Typed, Healthy

(* What goes on without a fault went on without one.                       *)
LEMMA HealthyBefore ==
    ASSUME Typed, Healthy', disk' = disk, Fault \/ NoFaults
    PROVE  Healthy /\ UNCHANGED faults /\ Sound(disk)
<1>1. UNCHANGED faults
  BY DEF Healthy, Typed, Fault, NoFaults
<1>2. Healthy
  BY <1>1 DEF Healthy
<1> QED BY <1>1, <1>2, HealthyDisk

(* The disk does not change, and so do not its items.                      *)
LEMMA SameItem ==
    ASSUME disk' = disk
    PROVE  CurrentItem(t)' = CurrentItem(t') /\ objs' = objs
BY DEF CurrentItem, LEAF, Node, objs

(* What a walk with next_key leaves.                                       *)
LEMMA WalkNext ==
    ASSUME Typed, Walk(LAMBDA f : next_key(t, f))
    PROVE  /\ Shape(t') /\ (Fault \/ NoFaults) /\ faults' \in Nat
           /\ UNCHANGED faults /\ jr.transactions = 0 => LET v == next_key(t, NoFault)
                                                         IN  SameWalk(v, t') /\ t'.ok = v.ok /\ t'.errnum = v.errnum
<1> DEFINE v == next_key(t, NoFault)
<1>0. Shape(t) /\ faults \in Nat
  BY DEF Typed
<1>1. Shape(v) /\ \A f : Shape(next_key(t, f))
  BY <1>0, NextShape
<1>2. PICK tr \in Translations :
      \/ t' = [v EXCEPT !.hit = FALSE, !.tr = tr] /\ NoFaults
      \/ /\ Fault
         /\ \E d \in Depths, k \in {"zero", "minus"} :
               t' = [next_key(t, [at |-> d, kind |-> k]) EXCEPT !.hit = FALSE, !.tr = tr]
  BY DEF Walk
<1> HIDE DEF v
<1>3. CASE t' = [v EXCEPT !.hit = FALSE, !.tr = tr] /\ NoFaults
  <2>0. jr.transactions = 0 => tr = <<>>
    BY <1>2 DEF Translations
  <2>1. Shape(t') /\ (tr = <<>> => SameWalk(v, t')) /\ t'.ok = v.ok /\ t'.errnum = v.errnum
    BY <1>1, <1>3 DEF Shape, TreeKeys, SameWalk, SamePath
  <2> QED BY <1>0, <1>3, <2>0, <2>1 DEF v, NoFaults
<1>4. CASE /\ Fault
           /\ \E d \in Depths, k \in {"zero", "minus"} :
                 t' = [next_key(t, [at |-> d, kind |-> k]) EXCEPT !.hit = FALSE, !.tr = tr]
  <2>1. PICK f : t' = [next_key(t, f) EXCEPT !.hit = FALSE, !.tr = tr]
    BY <1>4
  <2>2. Shape(next_key(t, f))
    BY <1>1
  <2>3. Shape(t')
    BY <2>1, <2>2 DEF Shape, TreeKeys
  <2>4. faults' \in Nat /\ ~UNCHANGED faults
    BY <1>0, <1>4 DEF Fault
  <2> QED BY <1>4, <2>3, <2>4
<1> QED BY <1>2, <1>3, <1>4

(* What a walk with search_stat leaves.                                    *)
LEMMA WalkStat ==
    ASSUME Typed, NEW dir, NEW obj, Walk(LAMBDA f : search_stat(t, dir, obj, f))
    PROVE  /\ Shape(t') /\ (Fault \/ NoFaults) /\ faults' \in Nat
           /\ t'.ok => CurrentItem(t').type = "stat"
           /\ UNCHANGED faults /\ jr.transactions = 0 => LET v == search_stat(t, dir, obj, NoFault)
                                                         IN  SameWalk(v, t') /\ t'.ok = v.ok /\ t'.errnum = v.errnum
<1> DEFINE v == search_stat(t, dir, obj, NoFault)
<1>0. Shape(t) /\ faults \in Nat /\ disk \in Images
  BY DEF Typed
<1>1. \A f : Shape(search_stat(t, dir, obj, f)) /\
             (search_stat(t, dir, obj, f).ok => CurrentItem(search_stat(t, dir, obj, f)).type = "stat")
  <2>1. ASSUME NEW f, NEW w, w = search_stat(t, dir, obj, f)
        PROVE  Shape(w) /\ (w.ok => CurrentItem(w).type = "stat")
    BY <1>0, <2>1, SearchShape
  <2> QED BY <2>1
<1>2. PICK tr \in Translations :
      \/ t' = [v EXCEPT !.hit = FALSE, !.tr = tr] /\ NoFaults
      \/ /\ Fault
         /\ \E d \in Depths, k \in {"zero", "minus"} :
               t' = [search_stat(t, dir, obj, [at |-> d, kind |-> k]) EXCEPT !.hit = FALSE, !.tr = tr]
  BY DEF Walk
<1>3. ASSUME NEW w, Shape(w), w.ok => CurrentItem(w).type = "stat", t' = [w EXCEPT !.hit = FALSE, !.tr = tr]
      PROVE  /\ Shape(t') /\ (tr = <<>> => SameWalk(w, t')) /\ t'.ok = w.ok /\ t'.errnum = w.errnum
             /\ t'.ok => CurrentItem(t').type = "stat"
  <2>1. Shape(t') /\ (tr = <<>> => SameWalk(w, t')) /\ t'.ok = w.ok /\ t'.errnum = w.errnum
    BY <1>3 DEF Shape, TreeKeys, SameWalk, SamePath
  <2>2. t'.cache = w.cache /\ t'.cur = w.cur
    BY <1>3 DEF Shape, TreeKeys
  <2>3. LEAF(t') = LEAF(w)
    BY <2>2 DEF LEAF
  <2>4. CurrentItem(t') = CurrentItem(w)
    BY <2>2, <2>3 DEF CurrentItem
  <2> QED BY <1>3, <2>1, <2>4
<1>4. Shape(v) /\ (v.ok => CurrentItem(v).type = "stat")
  BY <1>1
<1> HIDE DEF v
<1>5. CASE t' = [v EXCEPT !.hit = FALSE, !.tr = tr] /\ NoFaults
  <2>0. jr.transactions = 0 => tr = <<>>
    BY <1>2 DEF Translations
  <2>1. /\ Shape(t') /\ (tr = <<>> => SameWalk(v, t')) /\ t'.ok = v.ok /\ t'.errnum = v.errnum
        /\ t'.ok => CurrentItem(t').type = "stat"
    BY <1>3, <1>4, <1>5
  <2> QED BY <1>0, <1>5, <2>0, <2>1 DEF v, NoFaults
<1>6. CASE /\ Fault
           /\ \E d \in Depths, k \in {"zero", "minus"} :
                 t' = [search_stat(t, dir, obj, [at |-> d, kind |-> k]) EXCEPT !.hit = FALSE, !.tr = tr]
  <2>1. PICK f : t' = [search_stat(t, dir, obj, f) EXCEPT !.hit = FALSE, !.tr = tr]
    BY <1>6
  <2>2. Shape(t') /\ (t'.ok => CurrentItem(t').type = "stat")
    <3> DEFINE w == search_stat(t, dir, obj, f)
    <3>1. Shape(w) /\ (w.ok => CurrentItem(w).type = "stat") /\ t' = [w EXCEPT !.hit = FALSE, !.tr = tr]
      BY <1>1, <2>1
    <3> HIDE DEF w
    <3> QED BY <1>3, <3>1
  <2>3. faults' \in Nat /\ ~UNCHANGED faults
    BY <1>0, <1>6 DEF Fault
  <2> QED BY <1>6, <2>2, <2>3
<1> QED BY <1>2, <1>5, <1>6

(* A lookup that was given up for what the path is like.                   *)
LEMMA GivenUp ==
    ASSUME Typed', Flow', pc' = "failed",
           Healthy' => result' # "OK" /\ result' \in {named'.res, "BADDEV"}
    PROVE  RInv'
<1>1. Healthy' => Right'
  BY DEF Right, Mounting, Looking, Scanning, Linking, Reading, Ended, Serving
<1> QED BY <1>1 DEF RInv

(***************************************************************************)
(* One lemma per action.                                                   *)
(***************************************************************************)
LEMMA InitInv == Init => RInv
<1> SUFFICES ASSUME Init PROVE RInv
  OBVIOUS
<1>1. disk \in Images /\ path \in Text /\ faults \in Nat
  BY RequestIsText DEF Init
<1>2. named = Resolve(objs, ROOT_KEY.obj, MAX_LINK_COUNT, TooLong, Bound(path), path)
  BY DEF Init, Bound
<1>3. Shape(EmptyTree)
  BY DEF Shape, EmptyTree, TreeKeys
<1>4. Typed
  <2>1. rd.buf = <<>> /\ rd.left = 0 /\ file.pos = 0 /\ DOMAIN rd = {"buf", "left", "caller"}
    BY DEF Init, NoRead
  <2>2. DOMAIN look = LookKeys /\ DOMAIN file = {"pos", "len", "dir", "obj"}
    BY DEF Init, LookKeys
  <2>3. t = EmptyTree
    BY DEF Init
  <2>4. <<>> \in Seq(Tokens)
    OBVIOUS
  <2> QED BY <1>1, <1>2, <1>3, <2>1, <2>2, <2>3, <2>4 DEF Typed
<1>5. pc = "closed" /\ result = "none" /\ rd = NoRead /\ rd.caller = "none" /\ t = EmptyTree /\ jr = NoJournal
  BY DEF Init, NoRead
<1>6. Flow
  BY <1>5 DEF Flow, Opening, Serving
<1>7. Right
  BY <1>5 DEF Right, Mounting, Looking, Scanning, Linking, Reading, Ended, Serving
<1> QED BY <1>4, <1>6, <1>7 DEF RInv

LEMMA OpenKeeps == ASSUME RInv, reiserfs_open PROVE RInv'
<1>1. /\ pc = "closed" /\ UNCHANGED <<disk, path, named, sb, jr, t, look, file, rd, faults>>
      /\ pc' \in {"super", "failed"} /\ (pc' = "super" => result' = result)
      /\ (pc' = "failed" => result' = "BADDEV")
  BY DEF reiserfs_open, GiveUp
<1>2. Typed'
  BY <1>1 DEF RInv, Typed, objs
<1>3. Flow' /\ rd.caller # "open"
  BY <1>1 DEF RInv, Flow, Opening, Serving
<1>4. CASE pc' = "failed"
  BY <1>1, <1>2, <1>3, <1>4, GivenUp
<1>5. CASE pc' = "super"
  <2>1. Healthy' => Healthy
    BY <1>1 DEF Healthy
  <2>2. Healthy => Right'
    BY <1>1, <1>5 DEF RInv, Right, Mounting, Looking, Scanning, Linking, Reading, Ended, Serving, Flow, Opening
  <2> QED BY <1>2, <1>3, <2>1, <2>2 DEF RInv
<1> QED BY <1>1, <1>4, <1>5

LEMMA SuperKeeps == ASSUME RInv, reiserfs_read_super PROVE RInv'
<1>1. /\ pc = "super" /\ UNCHANGED <<disk, path, named, jr, t, look, file, rd>>
      /\ Fault \/ NoFaults
      /\ \/ pc' = "failed" /\ (Fault \/ ~Supported(FindSuper(disk)))
         \/ /\ NoFaults /\ sb' = FindSuper(disk) /\ result' = result
            /\ pc' = IF sb'.journal = 0 THEN "root" ELSE "header"
  BY DEF reiserfs_read_super, GiveUp
<1>2. Typed' /\ Typed
  BY <1>1 DEF RInv, Typed, objs, Fault, NoFaults
<1>3. Flow' /\ rd.caller # "open" /\ result = "none"
  BY <1>1 DEF RInv, Flow, Opening, Serving
<1>4. Healthy' => Healthy /\ NoFaults /\ pc' # "failed"
  <2> SUFFICES ASSUME Healthy' PROVE Healthy /\ NoFaults /\ pc' # "failed"
    OBVIOUS
  <2>1. Healthy /\ UNCHANGED faults /\ Sound(disk)
    BY <1>1, <1>2, HealthyBefore
  <2>2. Supported(FindSuper(disk)) /\ ~Fault
    BY <1>2, <2>1 DEF Sound, Fault, Typed
  <2> QED BY <1>1, <2>1, <2>2 DEF NoFaults
<1>5. CASE pc' = "failed"
  BY <1>2, <1>3, <1>4, <1>5, GivenUp
<1>6. CASE pc' # "failed"
  <2>1. /\ sb' = FindSuper(disk) /\ result' = "none" /\ pc' \in {"root", "header"}
        /\ pc' = "header" => sb'.journal # 0
    BY <1>1, <1>3, <1>6
  <2>2. Healthy' => t = EmptyTree /\ jr = NoJournal
    BY <1>1, <1>4 DEF RInv, Right, Mounting
  <2>3. NoJournal.transactions = 0
    BY DEF NoJournal
  <2>4. Healthy' => Right'
    BY <1>1, <2>1, <2>2, <2>3 DEF Right, Mounting, Looking, Scanning, Linking, Reading, Ended, Serving
  <2> QED BY <1>2, <1>3, <2>4 DEF RInv
<1> QED BY <1>5, <1>6

LEMMA HeaderKeeps == ASSUME RInv, JournalHeader PROVE RInv'
<1>0. Typed /\ pc = "header" /\ UNCHANGED <<disk, path, named, sb, t, look, file, rd, result>>
  BY DEF JournalHeader, RInv
<1>1. PICK h : /\ IF h = disk.head THEN NoFaults ELSE Fault
               /\ IF h.first >= sb.size THEN pc' = "again" /\ UNCHANGED jr
                  ELSE /\ pc' = "desc"
                       /\ jr' = [jr EXCEPT !.head = h, !.desc = h.first,
                                           !.next = (le32_to_cpu(h.last) + 1) % (Byte * Byte)]
  BY DEF JournalHeader
<1>2. Fault \/ NoFaults
  BY <1>1
<1>3. Typed'
  BY <1>0, <1>2 DEF Typed, objs, Fault, NoFaults
<1>4. pc' \in {"again", "desc"}
  BY <1>1
<1>5. Flow' /\ result' = "none"
  BY <1>0, <1>4 DEF RInv, Flow, Opening, Serving
<1>6. ASSUME Healthy' PROVE Right'
  <2>1. Healthy /\ UNCHANGED faults
    BY <1>0, <1>2, <1>6, HealthyBefore
  <2>2. h = disk.head
    BY <1>0, <1>1, <2>1 DEF Fault, Typed
  <2>3. t = EmptyTree /\ sb = FindSuper(disk) /\ jr = NoJournal /\ sb.journal # 0
    BY <1>0, <2>1 DEF RInv, Right, Mounting
  <2>4. pc' = "again" => jr'.transactions = 0
    BY <1>1, <2>3 DEF NoJournal
  <2>5. ASSUME pc' = "desc"
        PROVE  /\ disk.head.first < sb.size
               /\ jr' = [head |-> disk.head, desc |-> disk.head.first,
                         next |-> (le32_to_cpu(disk.head.last) + 1) % (Byte * Byte), transactions |-> 0]
    <3>1. ~(disk.head.first >= sb.size)
      BY <1>1, <2>2, <2>5
    <3>2. disk.head.first \in Nat /\ sb.size \in Nat
      BY <1>0, <2>3, ImageAssumption DEF Typed
    <3> DEFINE n == (le32_to_cpu(disk.head.last) + 1) % (Byte * Byte)
    <3>3. jr' = [jr EXCEPT !.head = disk.head, !.desc = disk.head.first, !.next = n]
      BY <1>1, <2>2, <3>1
    <3> HIDE DEF n
    <3>4. jr' = [head |-> disk.head, desc |-> disk.head.first, next |-> n, transactions |-> 0]
      BY <2>3, <3>3 DEF NoJournal
    <3> QED BY <3>1, <3>2, <3>4 DEF n
  <2>6. Mounting'
    BY <1>0, <1>4, <2>3, <2>4, <2>5 DEF Mounting
  <2> QED BY <1>4, <1>5, <2>6 DEF Right, Looking, Scanning, Linking, Reading, Ended, Serving
<1> QED BY <1>3, <1>5, <1>6 DEF RInv

LEMMA JournalKeeps == ASSUME RInv, journal_init PROVE RInv'
<1>0. Typed /\ pc = "desc" /\ UNCHANGED <<disk, path, named, sb, t, look, file, rd, result>>
  BY DEF journal_init, RInv
<1>1. PICK d : /\ IF d = Log[jr.desc] THEN NoFaults ELSE Fault
               /\ IF ValidTransaction(d, jr) THEN UNCHANGED pc ELSE pc' = "again" /\ UNCHANGED jr
  BY DEF journal_init
<1>2. Fault \/ NoFaults
  BY <1>1
<1>3. Typed'
  BY <1>0, <1>2 DEF Typed, objs, Fault, NoFaults
<1>4. pc' \in {"again", "desc"}
  BY <1>0, <1>1
<1>5. Flow' /\ result' = "none"
  BY <1>0, <1>4 DEF RInv, Flow, Opening, Serving
<1>6. ASSUME Healthy' PROVE Right'
  <2>1. Healthy /\ UNCHANGED faults /\ Sound(disk)
    BY <1>0, <1>2, <1>6, HealthyBefore
  <2>2. d = Log[jr.desc]
    BY <1>0, <1>1, <2>1 DEF Fault, Typed
  <2> DEFINE n == (le32_to_cpu(disk.head.last) + 1) % (Byte * Byte)
  <2>3. /\ t = EmptyTree /\ sb = FindSuper(disk) /\ sb.journal # 0 /\ disk.head.first < sb.size
        /\ jr = [head |-> disk.head, desc |-> disk.head.first, next |-> n, transactions |-> 0]
    BY <1>0, <2>1 DEF RInv, Right, Mounting
  <2>4. ~ValidTransaction(d, jr)
    <3> DEFINE x == disk.log[disk.head.first]
               c == disk.log[(disk.head.first + x.len + 1) % sb.size]
    <3>1. ~(x.magic /\ x.mount = disk.head.mount /\ x.id = n /\ c.id = x.id /\ c.len = x.len)
      BY <2>1, <2>3 DEF Sound, NothingToReplay
    <3> HIDE DEF n
    <3>2. jr.desc = disk.head.first /\ jr.next = n /\ jr.head = disk.head
      BY <2>3
    <3>3. d = x
      BY <2>2, <3>2 DEF Log
    <3>4. ValidTransaction(d, jr) => x.magic /\ x.id = n /\ x.mount = disk.head.mount /\ c.id = x.id /\ c.len = x.len
      BY <3>2, <3>3 DEF ValidTransaction, Log
    <3> QED BY <3>1, <3>4
  <2> HIDE DEF n
  <2>5. pc' = "again" /\ jr'.transactions = 0
    BY <1>1, <2>3, <2>4
  <2>6. Mounting'
    BY <1>0, <2>3, <2>5 DEF Mounting
  <2> QED BY <1>5, <2>5, <2>6 DEF Right, Looking, Scanning, Linking, Reading, Ended, Serving
<1> QED BY <1>3, <1>5, <1>6 DEF RInv

(* The super block is found in its place again.                            *)
LEMMA AgainKeeps == ASSUME RInv, ReadSuperAgain PROVE RInv'
<1>1. /\ Typed /\ pc = "again" /\ pc' = "root" /\ (Fault \/ NoFaults)
      /\ UNCHANGED <<disk, path, named, jr, t, look, file, rd, result>>
  BY DEF ReadSuperAgain, RInv
<1>2. Typed'
  BY <1>1 DEF Typed, objs, Fault, NoFaults
<1>3. Flow' /\ result' = "none"
  BY <1>1 DEF RInv, Flow, Opening, Serving
<1>4. ASSUME Healthy' PROVE Right'
  <2>1. Healthy /\ UNCHANGED faults /\ Sound(disk) /\ disk \in Images
    BY <1>1, <1>4, HealthyBefore DEF Typed
  <2>2. t = EmptyTree /\ sb = FindSuper(disk) /\ sb.journal # 0 /\ jr.transactions = 0
    BY <1>1, <2>1 DEF RInv, Right, Mounting
  <2>3. RootField(disk, superblock(disk)) = FindSuper(disk).root /\ "root" \in DOMAIN sb
    BY <2>1, <2>2, ImageAssumption DEF Sound, FoundAgain
  <2>4. Translations = {<<>>} /\ ~Fault
    BY <1>1, <2>1, <2>2 DEF Translations, Fault, Typed
  <2>5. block_read([t EXCEPT !.tr = <<>>], superblock(disk)) = superblock(disk)
    <3>1. [t EXCEPT !.tr = <<>>].tr = <<>>
      BY <2>2 DEF EmptyTree
    <3> QED BY <3>1 DEF block_read
  <2>6. sb' = [sb EXCEPT !.root = FindSuper(disk).root]
    BY <2>3, <2>4, <2>5 DEF ReadSuperAgain
  <2>7. sb'.root = FindSuper(disk).root
    BY <2>3, <2>6
  <2>8. Mounting'
    BY <1>1, <2>2, <2>7 DEF Mounting
  <2> QED BY <1>1, <1>3, <2>8 DEF Right, Looking, Scanning, Linking, Reading, Ended, Serving
<1> QED BY <1>2, <1>3, <1>4 DEF RInv

(* The root is read, or what the buffer has is taken for it.               *)
LEMMA RootKeeps == ASSUME RInv, ReadRoot PROVE RInv'
<1> DEFINE low(root) == Node(root).level
           top(tr, stale) == IF stale THEN t.root ELSE block_read([t EXCEPT !.tr = tr], sb.root)
<1>0. /\ Typed /\ pc = "root" /\ UNCHANGED <<disk, path, named, sb, jr, file, rd>>
      /\ look' = [dir |-> ROOT_KEY.dir, obj |-> ROOT_KEY.obj, pdir |-> 0, pobj |-> 0,
                  rest |-> path, links |-> 0]
  BY DEF ReadRoot, RInv
<1>1. \/ Fault /\ pc' = "failed" /\ UNCHANGED t
      \/ \E tr \in Translations, stale \in BOOLEAN :
            /\ IF stale THEN Fault ELSE NoFaults
            /\ t' = [[t EXCEPT !.tr = tr] EXCEPT !.root = top(tr, stale), !.depth = low(top(tr, stale)),
                        !.cache[1] = IF low(top(tr, stale)) = 1 THEN top(tr, stale) ELSE @]
            /\ IF low(top(tr, stale)) >= REISERFS_MAX_TREE_HEIGHT THEN pc' = "failed"
               ELSE pc' = "stat" /\ UNCHANGED result
  BY Zenon DEF ReadRoot, GiveUp
<1> HIDE DEF low, top
<1>2. Fault \/ NoFaults
  BY <1>1
<1>3. pc' \in {"failed", "stat"} /\ (pc' = "stat" => result' = result)
  BY <1>1
<1>4. Shape(t')
  <2>1. CASE UNCHANGED t
    BY <1>0, <2>1 DEF Typed
  <2>2. CASE ~UNCHANGED t
    <3>1. PICK tr \in Translations, stale \in BOOLEAN :
              t' = [[t EXCEPT !.tr = tr] EXCEPT !.root = top(tr, stale), !.depth = low(top(tr, stale)),
                        !.cache[1] = IF low(top(tr, stale)) = 1 THEN top(tr, stale) ELSE @]
      BY <1>1, <2>2
    <3> DEFINE root == top(tr, stale)
    <3>2. low(root) \in Nat
      <4>1. root \in DOMAIN disk.nodes => disk.nodes[root].level \in Nat
        BY <1>0, SoundAssumption DEF Typed
      <4> HIDE DEF root
      <4> QED BY <4>1 DEF low, Node, ZeroNode
    <3> HIDE DEF root
    <3>3. Shape(t)
      BY <1>0 DEF Typed
    <3>4. t' = [[t EXCEPT !.tr = tr] EXCEPT !.root = root, !.depth = low(root),
                   !.cache[1] = IF low(root) = 1 THEN root ELSE @]
      BY <3>1 DEF root
    <3> QED BY <3>2, <3>3, <3>4 DEF Shape, TreeKeys
  <2> QED BY <2>1, <2>2
<1>5. Typed'
  <2>1. DOMAIN look' = LookKeys
    BY <1>0 DEF LookKeys
  <2>2. faults' \in Nat
    BY <1>0, <1>2 DEF Typed, Fault, NoFaults
  <2> QED BY <1>0, <1>4, <2>1, <2>2 DEF Typed, objs
<1>6. result = "none" /\ rd.caller # "open" /\ rd.caller # "read" /\ rd = NoRead
  BY <1>0 DEF RInv, Flow, Opening, Serving
<1>7. Flow'
  BY <1>0, <1>3, <1>6 DEF Flow, Opening, Serving
<1>8. ASSUME Healthy' PROVE pc' = "stat" /\ Mounted(disk, t')
  <2>1. Healthy /\ UNCHANGED faults /\ Sound(disk)
    BY <1>0, <1>2, <1>8, HealthyBefore
  <2>2. t = EmptyTree /\ sb.root = FindSuper(disk).root /\ jr.transactions = 0
    BY <1>0, <2>1 DEF RInv, Right, Mounting
  <2>3. ~Fault
    BY <1>0, <2>1 DEF Fault, Typed
  <2>4. Translations = {<<>>}
    BY <2>2 DEF Translations
  <2>5. block_read([t EXCEPT !.tr = <<>>], sb.root) = Root
    <3>1. [t EXCEPT !.tr = <<>>].tr = <<>>
      BY <2>2 DEF EmptyTree
    <3> QED BY <2>2, <3>1 DEF block_read, Root
  <2>6. /\ t' = [[t EXCEPT !.tr = <<>>] EXCEPT !.root = Root, !.depth = low(Root),
                    !.cache[1] = IF low(Root) = 1 THEN Root ELSE @]
        /\ ~(low(Root) >= REISERFS_MAX_TREE_HEIGHT) => pc' = "stat"
    <3>1. PICK tr \in Translations, stale \in BOOLEAN :
            /\ IF stale THEN Fault ELSE NoFaults
            /\ t' = [[t EXCEPT !.tr = tr] EXCEPT !.root = top(tr, stale), !.depth = low(top(tr, stale)),
                        !.cache[1] = IF low(top(tr, stale)) = 1 THEN top(tr, stale) ELSE @]
            /\ IF low(top(tr, stale)) >= REISERFS_MAX_TREE_HEIGHT THEN pc' = "failed"
               ELSE pc' = "stat" /\ UNCHANGED result
      BY <1>1, <2>3
    <3>2. tr = <<>> /\ ~stale
      BY <2>3, <2>4, <3>1
    <3>3. top(tr, stale) = Root
      BY <2>5, <3>2 DEF top
    <3> QED BY <3>1, <3>2, <3>3
  <2>7. low(Root) = disk.nodes[Root].level /\ low(Root) \in Depths
    BY <2>1, SoundTree DEF low
  <2>8. ~(low(Root) >= REISERFS_MAX_TREE_HEIGHT) /\ 1 \in Depths
    <3>1. REISERFS_MAX_TREE_HEIGHT \in Nat
      BY ReiserAssumption
    <3> QED BY <2>7, <3>1 DEF Depths
  <2>9. Mounted(disk, t')
    <3>1. /\ t'.root = Root /\ t'.depth = low(Root) /\ t'.tr = <<>>
          /\ t'.blocks = [d \in Depths |-> 0]
          /\ low(Root) = 1 => t'.cache[1] = Root
      BY <2>2, <2>6, <2>8 DEF EmptyTree
    <3>2. \A k \in 1 .. t'.depth - 1 : t'.blocks[k] = 0
      <4>1. REISERFS_MAX_TREE_HEIGHT \in Nat /\ low(Root) \in 1 .. REISERFS_MAX_TREE_HEIGHT - 1
        BY <2>7, ReiserAssumption DEF Depths
      <4>2. 1 .. low(Root) - 1 \subseteq Depths
        BY <4>1 DEF Depths
      <4> QED BY <3>1, <4>2
    <3> QED BY <1>4, <2>7, <3>1, <3>2 DEF Mounted, Root
  <2> QED BY <2>6, <2>8, <2>9
<1>9. ASSUME Healthy' PROVE Way(disk', path', named', look', look'.rest, look'.links)
  <2>1. Site(look', look'.rest, look'.links) = Start(path)
    BY <1>0 DEF Site, Start
  <2>2. Leads(disk, path, named, Start(path))
    BY <1>0, LeadsStart, TextLen DEF Typed, objs
  <2>3. Sound(disk)
    BY <1>0, <1>2, <1>9, HealthyBefore
  <2>4. Start(path) \in Sites(disk)
    BY <1>0, <2>3, Numbers DEF Start, Sites, Typed, Sound, ROOT_KEY
  <2>5. look'.dir = disk.objs[look'.obj].dir /\ look'.pobj = 0 /\ look'.obj = ROOT_KEY.obj
    BY <1>0, <2>3 DEF Sound
  <2> QED BY <1>0, <2>1, <2>2, <2>4, <2>5 DEF Way
<1>10. CASE pc' = "failed"
  BY <1>5, <1>7, <1>8, <1>10, GivenUp
<1>11. CASE pc' = "stat"
  <2>1. Healthy' => Right'
    BY <1>0, <1>3, <1>6, <1>8, <1>9, <1>11
       DEF Right, Mounting, Looking, Scanning, Linking, Reading, Ended, Serving
  <2> QED BY <1>5, <1>7, <2>1 DEF RInv
<1> QED BY <1>3, <1>10, <1>11

-----------------------------------------------------------------------------
(***************************************************************************)
(* The lookup.                                                             *)
(***************************************************************************)
(* What is known of the place the lookup is at.                            *)
LEMMA OnTheWay ==
    ASSUME path \in Text, NEW rest, NEW links, Way(disk, path, named, look, rest, links),
           NEW w, w = Site(look, rest, links)
    PROVE  /\ w \in Sites(disk) /\ Leads(disk, path, named, w) /\ Len(path) \in Nat
           /\ w.at = look.obj /\ w.rest = rest /\ w.links = links
           /\ look.obj \in DOMAIN objs /\ links \in 0 .. MAX_LINK_COUNT /\ rest \in Text
           /\ look.dir = objs[look.obj].dir
<1>1. w \in Sites(disk) /\ Leads(disk, path, named, w) /\ look.dir = objs[look.obj].dir
  BY DEF Way, objs
<1>2. w.at = look.obj /\ w.rest = rest /\ w.links = links
  BY DEF Site
<1>3. w.at \in DOMAIN objs /\ w.links \in 0 .. MAX_LINK_COUNT /\ w.rest \in Text
  BY <1>1 DEF Sites, objs
<1> QED BY <1>1, <1>2, <1>3, TextLen

LEMMA StatKeeps == ASSUME RInv, Calm, OpenStat PROVE RInv'
<1>0. /\ Typed /\ pc = "stat" /\ UNCHANGED <<disk, path, named, sb, jr, look, file, rd>>
      /\ Walk(LAMBDA f : search_stat(t, look.dir, look.obj, f))
      /\ t'.ok => pc' = "leave" /\ UNCHANGED result
      /\ ~t'.ok => pc' = "failed"
  BY DEF OpenStat, RInv, GiveUp
<1>1. /\ Shape(t') /\ (Fault \/ NoFaults) /\ faults' \in Nat
      /\ t'.ok => CurrentItem(t').type = "stat"
      /\ UNCHANGED faults /\ jr.transactions = 0 => LET v == search_stat(t, look.dir, look.obj, NoFault)
                                                    IN  SameWalk(v, t') /\ t'.ok = v.ok /\ t'.errnum = v.errnum
  BY <1>0, WalkStat
<1>2. Typed'
  BY <1>0, <1>1 DEF Typed, objs
<1>3. result = "none" /\ rd.caller # "open" /\ rd.caller # "read" /\ rd = NoRead
  BY <1>0 DEF RInv, Flow, Opening, Serving
<1>4. Flow'
  BY <1>0, <1>1, <1>3, SameItem DEF Flow, Opening, Serving
<1>5. ASSUME Healthy'
      PROVE  /\ t'.ok /\ Way(disk, path, named, look, look.rest, look.links)
             /\ \E c \in DOMAIN disk.order.items : IsStat(disk, look.obj, c) /\ At(disk, t', c)
  <2>1. Healthy /\ UNCHANGED faults /\ Sound(disk)
    BY <1>0, <1>1, <1>5, HealthyBefore
  <2>2. Way(disk, path, named, look, look.rest, look.links) /\ Mounted(disk, t)
    BY <1>0, <2>1 DEF RInv, Right, Looking
  <2>3. look.obj \in DOMAIN objs /\ look.dir = objs[look.obj].dir
    BY <1>0, <2>2, OnTheWay DEF Typed
  <2>4. PICK g \in DOMAIN disk.order.items :
            IsStat(disk, look.obj, g) /\ disk.order.items[g].dir = look.dir
    BY <2>1, <2>3, HasStat
  <2> DEFINE v == search_stat(t, look.dir, look.obj, NoFault)
  <2>5. v = search_stat(t, disk.order.items[g].dir, look.obj, NoFault)
    BY <2>4
  <2>6. SameWalk(v, t') /\ t'.ok = v.ok
    BY <1>1, <2>1 DEF Calm
  <2> HIDE DEF v
  <2>7. At(disk, v, g) /\ v.ok
    BY <2>1, <2>2, <2>4, <2>5, SearchFinds
  <2>8. At(disk, t', g)
    BY <2>6, <2>7, SamePlace
  <2> QED BY <2>2, <2>4, <2>6, <2>7, <2>8
<1>6. CASE ~t'.ok
  BY <1>0, <1>2, <1>4, <1>5, <1>6, GivenUp
<1>7. CASE t'.ok
  <2>1. Healthy' => Right'
    BY <1>0, <1>3, <1>5, <1>7
       DEF Right, Mounting, Looking, Scanning, Linking, Reading, Ended, Serving
  <2> QED BY <1>2, <1>4, <2>1 DEF RInv
<1> QED BY <1>6, <1>7

(* The stat item the lookup is at says what the object is.                 *)
LEMMA AtStat ==
    ASSUME RInv, Healthy, pc \in {"leave", "link"}, look.obj \in DOMAIN objs
    PROVE  /\ Sound(disk) /\ sd_mode(CurrentItem(t)) = objs[look.obj].mode
           /\ objs[look.obj].mode # "dir" => sd_size(CurrentItem(t)) = Len(Content(objs[look.obj]))
           /\ objs[look.obj].mode \in {"dir", "reg", "lnk"}
<1>1. Sound(disk)
  BY HealthyDisk DEF RInv
<1>2. PICK c \in DOMAIN disk.order.items : IsStat(disk, look.obj, c) /\ At(disk, t, c)
  BY DEF RInv, Right, Looking
<1>3. CurrentItem(t) = disk.order.items[c]
  BY <1>1, <1>2, ItemAt
<1> QED BY <1>1, <1>2, <1>3, StatSays DEF sd_mode, sd_size

LEMMA LinkKeeps == ASSUME RInv, OpenLink PROVE RInv'
<1> DEFINE size == sd_size(CurrentItem(t))
<1>0. /\ Typed /\ pc = "leave" /\ UNCHANGED <<disk, path, named, sb, jr, t, faults>>
      /\ sd_mode(CurrentItem(t)) = "lnk" /\ look' = [look EXCEPT !.links = @ + 1]
      /\ \/ look'.links > MAX_LINK_COUNT /\ GiveUp("SYMLINK_LOOP") /\ UNCHANGED <<file, rd>>
         \/ /\ ~(look'.links > MAX_LINK_COUNT) /\ size + Len(look.rest) > PATH_MAX - 1
            /\ GiveUp("LENGTH") /\ UNCHANGED <<file, rd>>
         \/ /\ ~(look'.links > MAX_LINK_COUNT) /\ ~(size + Len(look.rest) > PATH_MAX - 1)
            /\ pc' = "link" /\ UNCHANGED result
            /\ file' = [pos |-> 0, len |-> size, dir |-> look.dir, obj |-> look.obj]
            /\ rd' = [buf |-> <<>>, left |-> size, caller |-> "open"]
  BY DEF OpenLink, RInv, CountLink
<1>1. size \in Nat
  <2>1. CurrentItem(t).type = "stat"
    BY <1>0 DEF RInv, Flow
  <2> QED BY <1>0, <2>1, ItemFormed DEF WellFormed, Typed, sd_size
<1> HIDE DEF size
<1>2. /\ DOMAIN look' = LookKeys /\ look'.links = look.links + 1
      /\ look'.obj = look.obj /\ look'.dir = look.dir /\ look'.rest = look.rest
      /\ look'.pobj = look.pobj /\ look'.pdir = look.pdir
  BY <1>0 DEF Typed, LookKeys
<1>3. Typed'
  <2>1. <<>> \in Seq(Tokens) /\ 0 \in Nat
    OBVIOUS
  <2>2. CASE UNCHANGED <<file, rd>>
    BY <1>0, <1>2, <2>2 DEF Typed, objs
  <2>3. CASE /\ file' = [pos |-> 0, len |-> size, dir |-> look.dir, obj |-> look.obj]
             /\ rd' = [buf |-> <<>>, left |-> size, caller |-> "open"]
    <3>1. /\ file'.pos = 0 /\ rd'.buf = <<>> /\ rd'.left = size
          /\ DOMAIN file' = {"pos", "len", "dir", "obj"} /\ DOMAIN rd' = {"buf", "left", "caller"}
      BY <2>3
    <3> QED BY <1>0, <1>1, <1>2, <2>1, <3>1 DEF Typed, objs
  <2> QED BY <1>0, <2>2, <2>3
<1>4. result = "none" /\ rd.caller # "open" /\ rd.caller # "read" /\ rd = NoRead
  BY <1>0 DEF RInv, Flow, Opening, Serving
<1>5. Flow'
  <2>1. \/ pc' = "failed" /\ rd' = rd
        \/ pc' = "link" /\ result' = result /\ rd' = [buf |-> <<>>, left |-> size, caller |-> "open"]
    BY <1>0 DEF GiveUp
  <2> QED BY <1>4, <2>1 DEF Flow, Opening, Serving
<1>6. ASSUME Healthy'
      PROVE  /\ Healthy /\ Way(disk, path, named, look, look.rest, look.links)
             /\ look.obj \in DOMAIN objs /\ look.dir = objs[look.obj].dir /\ objs[look.obj].mode = "lnk"
             /\ look.links \in 0 .. MAX_LINK_COUNT
             /\ size = Len(objs[look.obj].target)
             /\ Whole(disk, look.obj) = objs[look.obj].target
             /\ look.links >= MAX_LINK_COUNT => named.res = "SYMLINK_LOOP"
             /\ ~(look.links >= MAX_LINK_COUNT) /\ TooLong(objs[look.obj].target, look.rest) => named.res = "LENGTH"
  <2>1. Healthy
    BY <1>0, <1>6 DEF Healthy
  <2>2. Way(disk, path, named, look, look.rest, look.links)
    BY <1>0, <2>1 DEF RInv, Right, Looking
  <2> DEFINE w == Site(look, look.rest, look.links)
  <2>3. /\ w \in Sites(disk) /\ Leads(disk, path, named, w) /\ Len(path) \in Nat
        /\ w.at = look.obj /\ w.rest = look.rest /\ w.links = look.links
        /\ look.obj \in DOMAIN objs /\ look.links \in 0 .. MAX_LINK_COUNT
        /\ look.dir = objs[look.obj].dir
    BY <1>0, <2>2, OnTheWay DEF Typed
  <2> HIDE DEF w
  <2>4. /\ Sound(disk) /\ objs[look.obj].mode = "lnk"
        /\ size = Len(Content(objs[look.obj]))
    BY <1>0, <2>1, <2>3, AtStat DEF size
  <2>5. /\ objs[look.obj].target \in Text /\ Content(objs[look.obj]) = objs[look.obj].target
        /\ Whole(disk, look.obj) = objs[look.obj].target
    BY <2>3, <2>4, FileItems DEF Content
  <2>6. /\ w.links >= MAX_LINK_COUNT => named.res = "SYMLINK_LOOP"
        /\ ~(w.links >= MAX_LINK_COUNT) /\ TooLong(objs[look.obj].target, w.rest) => named.res = "LENGTH"
    <3>1. disk.objs[w.at].mode = "lnk" /\ disk.objs[w.at].target = objs[look.obj].target
      BY <2>3, <2>4 DEF objs
    <3> QED BY <2>3, <2>5, <3>1, LinkRefused
  <2> QED BY <2>1, <2>2, <2>3, <2>4, <2>5, <2>6
<1>7. ASSUME Healthy'
      PROVE  /\ look'.links > MAX_LINK_COUNT <=> look.links >= MAX_LINK_COUNT
             /\ size + Len(look.rest) > PATH_MAX - 1 <=> TooLong(objs[look.obj].target, look.rest)
  <2>1. look'.links > MAX_LINK_COUNT <=> look.links >= MAX_LINK_COUNT
    BY <1>2, <1>6, <1>7, Numbers
  <2> QED BY <1>6, <1>7, <2>1 DEF TooLong
<1>8. CASE pc' = "failed"
  <2>1. Healthy' => result' = named.res /\ result' # "OK"
    BY <1>0, <1>6, <1>7, <1>8 DEF GiveUp
  <2> QED BY <1>0, <1>3, <1>5, <1>8, <2>1, GivenUp
<1>9. CASE pc' # "failed"
  <2>0. /\ ~(look'.links > MAX_LINK_COUNT) /\ ~(size + Len(look.rest) > PATH_MAX - 1)
        /\ pc' = "link" /\ UNCHANGED result
        /\ file'.pos = 0 /\ file'.len = size /\ file'.dir = look.dir /\ file'.obj = look.obj
        /\ rd'.buf = <<>> /\ rd'.left = size /\ rd'.caller = "open"
    BY <1>0, <1>9 DEF GiveUp
  <2>1. ASSUME Healthy' PROVE Right'
    <3>1. /\ look'.links \in 1 .. MAX_LINK_COUNT /\ look'.links - 1 = look.links
          /\ ~TooLong(objs[look.obj].target, look.rest)
      BY <1>2, <1>6, <1>7, <2>0, <2>1, Numbers
    <3>2. Site(look', look'.rest, look'.links - 1) = Site(look, look.rest, look.links)
      BY <1>2, <3>1 DEF Site
    <3>3. Way(disk', path', named', look', look'.rest, look'.links - 1)
      BY <1>0, <1>2, <1>6, <2>1, <3>2 DEF Way
    <3>4. objs' = objs /\ disk' = disk
      BY <1>0 DEF objs
    <3>5. Linking'
      <4>1. Len(rd'.buf) = 0 /\ Len(rd'.buf) + rd'.left = size
        BY <1>1, <2>0
      <4> QED BY <1>2, <1>6, <2>0, <2>1, <3>1, <3>3, <3>4, <4>1 DEF Linking
    <3>6. Delivered(Whole(disk, look.obj), 0, <<>>)
      BY DEF Delivered
    <3>7. Reading'
      BY <1>6, <2>0, <2>1, <3>4, <3>6 DEF Reading, Serving
    <3>8. Looking'
      BY <1>0, <1>2, <1>6, <2>0, <2>1, <3>4 DEF Looking, RInv, Right
    <3>9. result' = "none"
      BY <1>4, <2>0
    <3> QED BY <2>0, <3>5, <3>7, <3>8, <3>9 DEF Right, Mounting, Scanning, Ended
  <2> QED BY <1>3, <1>5, <2>1 DEF RInv
<1> QED BY <1>8, <1>9

(* Behind the stat item of an object.                                      *)
LEMMA NextRests ==
    ASSUME Sound(disk), NEW o, NEW c \in DOMAIN disk.order.items, IsStat(disk, o, c), NEW u, At(disk, u, c),
           NEW v, v = next_key(u, NoFault), NEW w, SameWalk(v, w), w.ok = v.ok, o \in DOMAIN objs
    PROVE  Rests(disk, w, o) /\ w.ok
<1>1. /\ v.ok
      /\ c + 1 \in DOMAIN disk.order.items => At(disk, v, c + 1)
      /\ c + 1 \notin DOMAIN disk.order.items => Past(disk, v)
  BY NextItem
<1>2. /\ c + 1 \in DOMAIN disk.order.items => At(disk, w, c + 1)
      /\ c + 1 \notin DOMAIN disk.order.items => Past(disk, w)
  BY <1>1, SamePlace
<1>3. c + 1 \in DOMAIN disk.order.items => ~IsStat(disk, o, c + 1)
  <2> SUFFICES ASSUME c + 1 \in DOMAIN disk.order.items, IsStat(disk, o, c + 1) PROVE FALSE
    OBVIOUS
  <2>1. disk.order.items[c].obj = o
    BY DEF IsStat
  <2>2. c + 1 <= c /\ c \in Nat
    BY <2>1, StatFirst
  <2> QED BY <2>2
<1> QED BY <1>1, <1>2, <1>3 DEF Rests

LEMMA ReadLinkKeeps == ASSUME RInv, Calm, ReadLink PROVE RInv'
<1>0. /\ Typed /\ pc = "link" /\ UNCHANGED <<disk, path, named, sb, jr, look, file, rd>>
      /\ Walk(LAMBDA f : next_key(t, f))
      /\ t'.ok => pc' = "search" /\ UNCHANGED result
      /\ ~t'.ok => pc' = "failed"
  BY DEF ReadLink, RInv, GiveUp
<1>1. /\ Shape(t') /\ (Fault \/ NoFaults) /\ faults' \in Nat
      /\ UNCHANGED faults /\ jr.transactions = 0 => LET v == next_key(t, NoFault)
                                                    IN  SameWalk(v, t') /\ t'.ok = v.ok /\ t'.errnum = v.errnum
  BY <1>0, WalkNext
<1>2. Typed'
  BY <1>0, <1>1 DEF Typed, objs
<1>3. result = "none"
  BY <1>0 DEF RInv, Flow, Opening
<1>4. pc' \in {"search", "failed"} /\ (pc' = "search" => result' = result)
  BY <1>0
<1>5. Flow'
  BY <1>0, <1>3, <1>4 DEF RInv, Flow, Opening, Serving
<1>6. ASSUME Healthy' PROVE t'.ok /\ Healthy /\ Rests(disk, t', file.obj)
  <2>1. Healthy /\ UNCHANGED faults /\ Sound(disk)
    BY <1>0, <1>1, <1>6, HealthyBefore
  <2>2. file.obj = look.obj /\ file.obj \in DOMAIN objs
    BY <1>0, <2>1 DEF RInv, Right, Linking, Reading
  <2>3. PICK c \in DOMAIN disk.order.items : IsStat(disk, look.obj, c) /\ At(disk, t, c)
    BY <1>0, <2>1 DEF RInv, Right, Looking
  <2> DEFINE v == next_key(t, NoFault)
  <2>4. SameWalk(v, t') /\ t'.ok = v.ok
    BY <1>1, <2>1 DEF Calm
  <2> HIDE DEF v
  <2>5. v = next_key(t, NoFault)
    BY DEF v
  <2> QED BY <2>1, <2>2, <2>3, <2>4, <2>5, NextRests
<1>7. CASE ~t'.ok
  BY <1>0, <1>2, <1>5, <1>6, <1>7, GivenUp
<1>8. CASE t'.ok
  <2>1. ASSUME Healthy' PROVE Right'
    <3>1. Linking /\ Reading
      BY <1>6, <2>1 DEF RInv, Right
    <3>2. objs' = objs
      BY <1>0 DEF objs
    <3>3. Linking'
      BY <1>0, <1>8, <3>1, <3>2 DEF Linking
    <3>4. Reading'
      BY <1>0, <1>6, <1>8, <2>1, <3>1, <3>2 DEF Reading, Serving
    <3> QED BY <1>0, <1>3, <1>8, <3>3, <3>4 DEF Right, Mounting, Looking, Scanning, Ended
  <2> QED BY <1>2, <1>5, <2>1 DEF RInv
<1> QED BY <1>7, <1>8

(* All of the text of a link has been read when nothing is left to read.   *)
LEMMA WholeRead ==
    ASSUME NEW S, NEW text \in Seq(S), NEW buf \in Seq(S), Len(buf) = Len(text),
           Delivered(text, Len(text), buf)
    PROVE  buf = text
<1>1. \A i \in 1 .. Len(buf) : Len(text) - Len(buf) + i = i /\ i <= Len(text)
  OBVIOUS
<1>2. \A i \in 1 .. Len(buf) : buf[i] = text[i]
  BY <1>1 DEF Delivered
<1> QED BY <1>2

LEMMA LinkReadKeeps == ASSUME RInv, LinkRead PROVE RInv'
<1>0. /\ Typed /\ pc = "done" /\ rd.caller = "open" /\ rd' = NoRead
      /\ UNCHANGED <<disk, path, named, sb, jr, t, file, faults>>
      /\ \/ (t.errnum # "OK" \/ Len(rd.buf) # file.len) /\ pc' = "failed" /\ UNCHANGED look
         \/ /\ t.errnum = "OK" /\ Len(rd.buf) = file.len
            /\ look' = [FollowLink(look, rd.buf \o look.rest) EXCEPT !.rest = rd.buf \o @]
            /\ pc' = "stat" /\ UNCHANGED result
  BY DEF LinkRead, RInv, GiveUp
<1> DEFINE root == (rd.buf \o look.rest)[1] = "/"
<1>1. look' # look => /\ look'.obj = IF root THEN ROOT_KEY.obj ELSE look.pobj
                      /\ look'.dir = IF root THEN ROOT_KEY.dir ELSE look.pdir
                      /\ look'.pobj = look.pobj /\ look'.pdir = look.pdir
                      /\ look'.rest = rd.buf \o look.rest /\ look'.links = look.links
  <2> SUFFICES ASSUME look' # look
               PROVE  /\ look'.obj = IF root THEN ROOT_KEY.obj ELSE look.pobj
                      /\ look'.dir = IF root THEN ROOT_KEY.dir ELSE look.pdir
                      /\ look'.pobj = look.pobj /\ look'.pdir = look.pdir
                      /\ look'.rest = rd.buf \o look.rest /\ look'.links = look.links
    OBVIOUS
  <2>1. look' = [FollowLink(look, rd.buf \o look.rest) EXCEPT !.rest = rd.buf \o @]
    BY <1>0
  <2>2. FollowLink(look, rd.buf \o look.rest) =
            IF root THEN [look EXCEPT !.dir = ROOT_KEY.dir, !.obj = ROOT_KEY.obj]
            ELSE [look EXCEPT !.dir = look.pdir, !.obj = look.pobj]
    BY DEF FollowLink
  <2>3. DOMAIN look = LookKeys
    BY <1>0 DEF Typed
  <2> HIDE DEF root
  <2> QED BY <2>1, <2>2, <2>3 DEF LookKeys
<1>2. DOMAIN look' = LookKeys
  <2>1. DOMAIN look = LookKeys
    BY <1>0 DEF Typed
  <2>2. DOMAIN FollowLink(look, rd.buf \o look.rest) = LookKeys
    BY <2>1 DEF FollowLink
  <2> QED BY <1>0, <2>1, <2>2
<1> HIDE DEF root
<1>3. Typed'
  <2>1. NoRead.buf = <<>> /\ NoRead.left = 0 /\ DOMAIN NoRead = {"buf", "left", "caller"}
    BY DEF NoRead
  <2>2. <<>> \in Seq(Tokens) /\ 0 \in Nat
    OBVIOUS
  <2> QED BY <1>0, <1>2, <2>1, <2>2 DEF Typed, objs
<1>4. result = "none" /\ rd'.caller = "none"
  BY <1>0 DEF RInv, Flow, Serving, NoRead
<1>5. Flow'
  BY <1>0, <1>4 DEF Flow, Opening, Serving
<1>6. ASSUME Healthy'
      PROVE  /\ pc' = "stat" /\ Mounted(disk, t)
             /\ Way(disk, path, named, look', look'.rest, look'.links)
  <2>1. Healthy /\ Sound(disk)
    BY <1>0, <1>6, HealthyDisk DEF Healthy
  <2> DEFINE o == look.obj
             text == objs[o].target
             w == Site(look, look.rest, look.links - 1)
  <2>2. /\ objs[o].mode = "lnk" /\ file.obj = o
        /\ Way(disk, path, named, look, look.rest, look.links - 1)
        /\ look.links \in 1 .. MAX_LINK_COUNT /\ ~TooLong(text, look.rest)
        /\ file.len = Len(text) /\ file.pos = Len(rd.buf) /\ Len(rd.buf) + rd.left = file.len
    BY <1>0, <2>1 DEF RInv, Right, Linking, Serving
  <2>3. /\ t.errnum = "OK" /\ Delivered(Whole(disk, o), file.pos, rd.buf) /\ Rests(disk, t, o)
        /\ rd.left = 0 \/ file.pos >= Len(Whole(disk, o))
    BY <1>0, <2>1, <2>2 DEF RInv, Right, Reading, Serving
  <2>4. /\ w \in Sites(disk) /\ Leads(disk, path, named, w) /\ Len(path) \in Nat
        /\ w.at = o /\ w.rest = look.rest /\ w.links = look.links - 1
        /\ o \in DOMAIN objs /\ look.rest \in Text
    BY <1>0, <2>2, OnTheWay DEF Typed
  <2>5. Whole(disk, o) = text /\ text \in Text /\ text # <<>> /\ text \in Seq(Tokens)
    <3>1. Whole(disk, o) = text /\ text \in Text /\ text # <<>> /\ text \in Seq(STRING)
      BY <2>1, <2>2, <2>4, FileItems
    <3> HIDE DEF text
    <3> QED BY <3>1, Bytes
  <2> HIDE DEF w
  <2>6. rd.buf = text
    <3>1. Len(rd.buf) = Len(text) /\ file.pos = Len(text)
      <4>1. Len(rd.buf) \in Nat /\ rd.left \in Nat /\ Len(text) \in Nat
        BY <1>0, <2>5, TextLen DEF Typed
      <4> HIDE DEF text
      <4> QED BY <2>2, <2>3, <2>5, <4>1
    <3> DEFINE S == Tokens
               buf == rd.buf
    <3>2. buf \in Seq(S) /\ text \in Seq(S)
      BY <1>0, <2>5 DEF Typed
    <3>3. Delivered(text, Len(text), buf)
      BY <2>3, <2>5, <3>1
    <3> HIDE DEF S, text, buf
    <3>4. Len(buf) = Len(text)
      BY <3>1 DEF buf
    <3> QED BY <3>2, <3>3, <3>4, WholeRead DEF buf
  <2>7. pc' = "stat" /\ look' = [FollowLink(look, rd.buf \o look.rest) EXCEPT !.rest = rd.buf \o @]
    BY <1>0, <2>2, <2>3, <2>6
  <2>8. Linked(disk, w, text) \in Sites(disk) /\ Leads(disk, path, named, Linked(disk, w, text))
    <3>1. disk.objs[w.at].mode = "lnk" /\ disk.objs[w.at].target = text
      BY <2>2, <2>4 DEF objs
    <3>2. w.links < MAX_LINK_COUNT
      BY <2>2, <2>4, Numbers
    <3>3. ROOT_KEY.obj \in DOMAIN disk.objs
      BY <2>1 DEF Sound
    <3>4. ~TooLong(text, w.rest)
      BY <2>2, <2>4
    <3> HIDE DEF text
    <3> QED BY <2>4, <2>5, <3>1, <3>2, <3>3, <3>4, LinkFollowed
  <2>9. look.pobj # 0 /\ w.up = look.pobj /\ look.pobj \in DOMAIN objs /\ look.pdir = objs[look.pobj].dir
    <3>1. look.pobj # 0
      <4>1. look.pobj = 0 => look.obj = ROOT_KEY.obj
        BY <2>2 DEF Way
      <4>2. objs[ROOT_KEY.obj].mode = "dir"
        BY <2>1 DEF Sound, objs
      <4> QED BY <2>2, <4>1, <4>2
    <3>2. w.up = look.pobj
      BY <3>1 DEF w, Site
    <3> QED BY <2>2, <2>4, <3>1, <3>2 DEF Way, Sites, objs
  <2>10. /\ (rd.buf \o look.rest)[1] = text[1] /\ rd.buf \o look.rest = text \o look.rest
         /\ Len(text \o look.rest) = Len(text) + Len(look.rest) /\ Len(text) \in Nat /\ Len(text) > 0
         /\ Len(look.rest) \in Nat
    <3> HIDE DEF text
    <3> QED BY <2>4, <2>5, <2>6 DEF Text
  <2>11. look' # look
    <3>1. look'.rest = rd.buf \o look.rest
      <4>1. DOMAIN look = LookKeys
        BY <1>0 DEF Typed
      <4> QED BY <2>7, <4>1 DEF FollowLink, LookKeys
    <3>2. Len(look'.rest) # Len(look.rest)
      <4> HIDE DEF text
      <4> QED BY <2>10, <3>1
    <3> QED BY <3>2
  <2>12. /\ look'.obj = (IF text[1] = "/" THEN ROOT_KEY.obj ELSE look.pobj)
         /\ look'.dir = (IF text[1] = "/" THEN ROOT_KEY.dir ELSE look.pdir)
         /\ look'.pobj = look.pobj /\ look'.pdir = look.pdir
         /\ look'.rest = text \o look.rest /\ look'.links = look.links
    <3>1. root <=> text[1] = "/"
      BY <2>10 DEF root
    <3> HIDE DEF text
    <3> QED BY <1>1, <2>10, <2>11, <3>1
  <2>13. Site(look', look'.rest, look'.links) = Linked(disk, w, text)
    <3>1. look.links - 1 + 1 = look.links
      BY <2>2
    <3> HIDE DEF text
    <3> QED BY <2>4, <2>9, <2>12, <3>1 DEF Site, Linked
  <2>14. Way(disk, path, named, look', look'.rest, look'.links)
    <3>1. look'.dir = disk.objs[look'.obj].dir
      <4>1. disk.objs[ROOT_KEY.obj].dir = ROOT_KEY.dir
        BY <2>1 DEF Sound
      <4> HIDE DEF text
      <4> QED BY <2>9, <2>12, <4>1 DEF objs
    <3> QED BY <2>8, <2>9, <2>12, <2>13, <3>1 DEF Way, objs
  <2>15. Mounted(disk, t)
    BY <2>3 DEF Rests, Past, At
  <2> QED BY <2>7, <2>14, <2>15
<1>7. CASE pc' = "failed"
  BY <1>0, <1>3, <1>5, <1>6, <1>7, GivenUp
<1>8. CASE pc' = "stat"
  <2>1. result' = "none"
    BY <1>0, <1>4, <1>8
  <2>2. Healthy' => Right'
    BY <1>0, <1>6, <1>8, <2>1
       DEF Right, Mounting, Looking, Scanning, Linking, Reading, Ended, Serving
  <2> QED BY <1>3, <1>5, <2>2 DEF RInv
<1> QED BY <1>0, <1>7, <1>8

(* The place the lookup is at when it leaves a stat item.                  *)
LEMMA Leaving ==
    ASSUME RInv, Healthy, pc = "leave", sd_mode(CurrentItem(t)) # "lnk",
           NEW w, w = Site(look, look.rest, look.links)
    PROVE  /\ w \in Sites(disk) /\ Leads(disk, path, named, w) /\ Len(path) \in Nat
           /\ w.at = look.obj /\ w.rest = look.rest /\ look.rest \in Text
           /\ look.obj \in DOMAIN objs /\ look.dir = objs[look.obj].dir
           /\ Way(disk, path, named, look, look.rest, look.links)
           /\ Sound(disk) /\ sd_mode(CurrentItem(t)) = objs[look.obj].mode
           /\ objs[look.obj].mode # "dir" => sd_size(CurrentItem(t)) = Len(Content(objs[look.obj]))
           /\ disk.objs[w.at].mode = objs[look.obj].mode /\ objs[look.obj].mode \in {"dir", "reg"}
<1>1. Way(disk, path, named, look, look.rest, look.links) /\ path \in Text
  BY DEF RInv, Right, Looking, Typed
<1>2. /\ w \in Sites(disk) /\ Leads(disk, path, named, w) /\ Len(path) \in Nat
      /\ w.at = look.obj /\ w.rest = look.rest /\ look.rest \in Text
      /\ look.obj \in DOMAIN objs /\ look.dir = objs[look.obj].dir
  BY <1>1, OnTheWay
<1>3. /\ Sound(disk) /\ sd_mode(CurrentItem(t)) = objs[look.obj].mode
      /\ objs[look.obj].mode # "dir" => sd_size(CurrentItem(t)) = Len(Content(objs[look.obj]))
      /\ objs[look.obj].mode \in {"dir", "reg", "lnk"}
  BY <1>2, AtStat
<1> QED BY <1>1, <1>2, <1>3 DEF objs

LEMMA EndKeeps == ASSUME RInv, Calm, OpenEnd PROVE RInv'
<1> DEFINE item == CurrentItem(t)
           size == sd_size(item)
<1>0. /\ Typed /\ pc = "leave" /\ UNCHANGED <<disk, path, named, sb, jr, look, rd>>
      /\ sd_mode(item) # "lnk" /\ look.rest = <<>>
      /\ \/ sd_mode(item) # "reg" /\ GiveUp("BAD_TYPE") /\ NoFaults /\ UNCHANGED <<file, t>>
         \/ /\ sd_mode(item) = "reg"
            /\ file' = [pos |-> 0, len |-> size, dir |-> look.dir, obj |-> look.obj]
            /\ Walk(LAMBDA f : next_key(t, f))
            /\ t'.ok => pc' = "idle" /\ result' = "OK"
            /\ ~t'.ok => pc' = "failed"
  BY DEF OpenEnd, RInv, GiveUp
<1>1. ASSUME sd_mode(item) = "reg"
      PROVE  /\ Shape(t') /\ (Fault \/ NoFaults) /\ faults' \in Nat
             /\ UNCHANGED faults /\ jr.transactions = 0 => LET v == next_key(t, NoFault)
                                                           IN  SameWalk(v, t') /\ t'.ok = v.ok /\ t'.errnum = v.errnum
  BY <1>0, <1>1, WalkNext
<1> HIDE DEF item, size
<1>2. Shape(t') /\ faults' \in Nat /\ (Fault \/ NoFaults)
  BY <1>0, <1>1 DEF Typed, NoFaults
<1>3. file'.pos \in Nat /\ DOMAIN file' = {"pos", "len", "dir", "obj"}
  BY <1>0 DEF Typed
<1>4. Typed'
  BY <1>0, <1>2, <1>3 DEF Typed, objs
<1>5. result = "none" /\ rd.caller # "open" /\ rd.caller # "read" /\ rd = NoRead
  BY <1>0 DEF RInv, Flow, Opening, Serving
<1>6. pc' \in {"failed", "idle"} /\ (pc' = "idle" => result' = "OK")
  BY <1>0 DEF GiveUp
<1>7. Flow'
  BY <1>0, <1>5, <1>6 DEF Flow, Opening, Serving
<1>8. ASSUME Healthy'
      PROVE  /\ sd_mode(item) # "reg" => named.res = "BAD_TYPE"
             /\ sd_mode(item) = "reg" => /\ t'.ok /\ named.res = "OK" /\ named.at = look.obj
                                         /\ size = Len(objs[look.obj].bytes)
                                         /\ Rests(disk, t', look.obj)
                                         /\ look.obj \in DOMAIN objs /\ objs[look.obj].mode = "reg"
                                         /\ look.dir = objs[look.obj].dir
  <2>1. Healthy /\ UNCHANGED faults /\ Sound(disk)
    BY <1>0, <1>2, <1>8, HealthyBefore
  <2> DEFINE w == Site(look, look.rest, look.links)
  <2>2. /\ w \in Sites(disk) /\ Leads(disk, path, named, w) /\ Len(path) \in Nat
        /\ w.at = look.obj /\ w.rest = look.rest
        /\ look.obj \in DOMAIN objs /\ look.dir = objs[look.obj].dir
        /\ sd_mode(item) = objs[look.obj].mode
        /\ objs[look.obj].mode # "dir" => size = Len(Content(objs[look.obj]))
        /\ disk.objs[w.at].mode = objs[look.obj].mode /\ objs[look.obj].mode \in {"dir", "reg"}
    BY <1>0, <2>1, Leaving DEF item, size
  <2> HIDE DEF w
  <2>3. /\ named.res = IF disk.objs[w.at].mode = "reg" THEN "OK" ELSE "BAD_TYPE"
        /\ named.at = w.at
    BY <1>0, <2>2, PathEnded
  <2>4. ASSUME sd_mode(item) = "reg" PROVE t'.ok /\ Rests(disk, t', look.obj)
    <3>1. PICK c \in DOMAIN disk.order.items : IsStat(disk, look.obj, c) /\ At(disk, t, c)
      BY <1>0, <2>1 DEF RInv, Right, Looking
    <3> DEFINE v == next_key(t, NoFault)
    <3>2. SameWalk(v, t') /\ t'.ok = v.ok
      BY <1>1, <2>1, <2>4 DEF Calm
    <3> HIDE DEF v
    <3>3. v = next_key(t, NoFault)
      BY DEF v
    <3> QED BY <2>1, <2>2, <3>1, <3>2, <3>3, NextRests
  <2>5. objs[look.obj].mode = "reg" => Content(objs[look.obj]) = objs[look.obj].bytes
    BY DEF Content
  <2> QED BY <2>2, <2>3, <2>4, <2>5
<1>9. CASE pc' = "failed"
  <2>1. Healthy' => result' = "BAD_TYPE" /\ named.res = "BAD_TYPE"
    BY <1>0, <1>8, <1>9 DEF GiveUp
  <2> QED BY <1>0, <1>4, <1>7, <1>9, <2>1, GivenUp
<1>10. CASE pc' = "idle"
  <2>1. /\ sd_mode(item) = "reg" /\ file'.pos = 0 /\ file'.len = size /\ file'.dir = look.dir
        /\ file'.obj = look.obj /\ result' = "OK" /\ objs' = objs
    BY <1>0, <1>10 DEF GiveUp, objs
  <2>2. ASSUME Healthy' PROVE Right'
    <3>1. Reading'
      BY <1>0, <1>8, <1>10, <2>1, <2>2 DEF Reading, Serving
    <3>2. Ended'
      BY <1>0, <1>8, <2>1, <2>2 DEF Ended
    <3> QED BY <1>10, <3>1, <3>2 DEF Right, Mounting, Looking, Scanning, Linking, Serving
  <2> QED BY <1>4, <1>7, <2>2 DEF RInv
<1> QED BY <1>6, <1>9, <1>10

LEMMA NameKeeps == ASSUME RInv, OpenName PROVE RInv'
<1> DEFINE item == CurrentItem(t)
<1>0. /\ Typed /\ pc = "leave" /\ UNCHANGED <<disk, path, named, sb, jr, t, file, rd, faults>>
      /\ sd_mode(item) # "lnk" /\ look.rest # <<>>
      /\ look' = [look EXCEPT !.rest = DropSlashes(@)]
      /\ \/ sd_mode(item) # "dir" /\ pc' = "failed" /\ result' = "NOTDIR"
         \/ sd_mode(item) = "dir" /\ pc' = "dir" /\ UNCHANGED result
  BY DEF OpenName, RInv, GiveUp
<1> HIDE DEF item
<1>1. /\ DOMAIN look' = LookKeys /\ look'.rest = DropSlashes(look.rest)
      /\ look'.obj = look.obj /\ look'.dir = look.dir /\ look'.links = look.links
      /\ look'.pobj = look.pobj /\ look'.pdir = look.pdir
  BY <1>0 DEF Typed, LookKeys
<1>2. Typed'
  BY <1>0, <1>1 DEF Typed, objs
<1>3. result = "none" /\ rd.caller # "open" /\ rd.caller # "read" /\ rd = NoRead
  BY <1>0 DEF RInv, Flow, Opening, Serving
<1>4. Flow'
  BY <1>0, <1>3 DEF Flow, Opening, Serving
<1>5. Healthy' => Healthy
  BY <1>0 DEF Healthy
<1> DEFINE w == Site(look, look.rest, look.links)
<1>6. ASSUME Healthy'
      PROVE  /\ w \in Sites(disk) /\ Leads(disk, path, named, w) /\ Len(path) \in Nat
             /\ w.at = look.obj /\ w.rest = look.rest /\ look.rest \in Text
             /\ look.obj \in DOMAIN objs /\ Way(disk, path, named, look, look.rest, look.links)
             /\ Sound(disk) /\ sd_mode(item) = objs[look.obj].mode
             /\ disk.objs[w.at].mode = objs[look.obj].mode /\ objs[look.obj].mode \in {"dir", "reg"}
  BY <1>0, <1>5, <1>6, Leaving DEF item
<1> HIDE DEF w
<1>7. CASE pc' = "failed"
  <2>1. Healthy' => named.res = "NOTDIR"
    BY <1>0, <1>6, <1>7, PathEnded
  <2> QED BY <1>0, <1>2, <1>4, <1>7, <2>1, GivenUp
<1>8. CASE pc' = "dir"
  <2>1. ASSUME Healthy' PROVE Scanning'
    <3>1. Way(disk, path, named, look', look.rest, look'.links)
      <4>1. Site(look', look.rest, look'.links) = Site(look, look.rest, look.links)
        BY <1>1 DEF Site
      <4> QED BY <1>1, <1>6, <2>1, <4>1 DEF Way
    <3>2. PICK c \in DOMAIN disk.order.items : IsStat(disk, look.obj, c) /\ At(disk, t, c)
      BY <1>0, <1>5, <2>1 DEF RInv, Right, Looking
    <3>3. Without(disk, look.obj, c, NameOf(look'.rest))
      <4>1. ASSUME NEW i \in DOMAIN disk.order.items, i <= c, disk.order.items[i].obj = look.obj
            PROVE  disk.order.items[i].type # "dir"
        <5>1. c <= i /\ c \in Nat /\ i \in Nat
          BY <1>6, <2>1, <3>2, <4>1, StatFirst
        <5>2. i = c
          BY <4>1, <5>1
        <5> QED BY <3>2, <5>2 DEF IsStat
      <4> QED BY <4>1 DEF Without
    <3>4. disk.order.items[c].obj = look.obj
      BY <3>2 DEF IsStat
    <3>5. objs' = objs /\ objs[look.obj].mode = "dir"
      BY <1>0, <1>6, <1>8, <2>1 DEF objs
    <3> QED BY <1>0, <1>1, <1>6, <2>1, <3>1, <3>2, <3>3, <3>4, <3>5 DEF Scanning
  <2>2. result' = "none"
    BY <1>0, <1>3, <1>8
  <2>3. Healthy' => Right'
    BY <1>8, <2>1, <2>2 DEF Right, Mounting, Looking, Linking, Reading, Ended, Serving
  <2> QED BY <1>2, <1>4, <2>3 DEF RInv
<1> QED BY <1>0, <1>7, <1>8

(* Which entry of an item has the name.                                    *)
Hit(s, name) == SelectInSeq(s, LAMBDA e : Matches(e, name))

LEMMA Selected ==
    ASSUME NEW s, Len(s) \in Nat, DOMAIN s = 1 .. Len(s), NEW name,
           NEW h, h = Hit(s, name)
    PROVE  /\ h = 0 => \A k \in DOMAIN s : ~Matches(s[k], name)
           /\ h # 0 => h \in DOMAIN s /\ Matches(s[h], name)
<1> DEFINE I == {i \in 1 .. Len(s) : Matches(s[i], name)}
<1>1. h = IF I # {} THEN Min(I) ELSE 0
  BY DEF Hit, SelectInSeq
<1>2. I # {} => Min(I) \in I
  <2>1. I \in SUBSET (1 .. Len(s))
    OBVIOUS
  <2> HIDE DEF I
  <2> QED BY <2>1, FirstIn
<1>3. I # {} => Min(I) # 0
  BY <1>2
<1>4. I = {} => \A k \in DOMAIN s : ~Matches(s[k], name)
  BY Zenon
<1>5. Min(I) \in I => Min(I) \in DOMAIN s /\ Matches(s[Min(I)], name)
  BY Zenon
<1> HIDE DEF I
<1> QED BY <1>1, <1>2, <1>3, <1>4, <1>5

LEMMA DirItemKeeps == ASSUME RInv, Calm, OpenDirItem PROVE RInv'
<1> DEFINE item == CurrentItem(t')
           name == NameOf(look.rest)
           entries == Entries(item)
           hit == Hit(entries, name)
<1>0. /\ Typed /\ pc = "dir" /\ UNCHANGED <<disk, path, named, sb, jr, file, rd>>
      /\ Walk(LAMBDA f : next_key(t, f))
  BY DEF OpenDirItem, RInv
<1>1. \/ ~t'.ok /\ pc' = "failed" /\ UNCHANGED look
      \/ t'.ok /\ item.obj # look.obj /\ pc' = "failed" /\ result' = "NOTFOUND" /\ UNCHANGED look
      \/ t'.ok /\ item.obj = look.obj /\ hit = 0 /\ UNCHANGED <<pc, result, look>>
      \/ /\ t'.ok /\ item.obj = look.obj /\ hit # 0
         /\ look' = [look EXCEPT !.pdir = look.dir, !.pobj = look.obj, !.dir = entries[hit].dir,
                                 !.obj = entries[hit].obj, !.rest = Tail(@)]
         /\ pc' = "stat" /\ UNCHANGED result
  BY DEF OpenDirItem, GiveUp, NameOf, Hit
<1>2. /\ Shape(t') /\ (Fault \/ NoFaults) /\ faults' \in Nat
      /\ UNCHANGED faults /\ jr.transactions = 0 => LET v == next_key(t, NoFault)
                                                    IN  SameWalk(v, t') /\ t'.ok = v.ok /\ t'.errnum = v.errnum
  BY <1>0, WalkNext
<1> HIDE DEF item, name, entries, hit
<1>3. DOMAIN look' = LookKeys
  BY <1>0, <1>1 DEF Typed
<1>4. Typed'
  BY <1>0, <1>2, <1>3 DEF Typed, objs
<1>5. result = "none" /\ rd.caller # "open" /\ rd.caller # "read" /\ rd = NoRead
  BY <1>0 DEF RInv, Flow, Opening, Serving
<1>6. pc' \in {"failed", "dir", "stat"} /\ (pc' # "failed" => result' = "none")
  BY <1>0, <1>1, <1>5
<1>7. Flow'
  BY <1>0, <1>5, <1>6 DEF Flow, Opening, Serving
<1>8. ASSUME Healthy'
      PROVE  \E c \in DOMAIN disk.order.items, rest \in Text :
                /\ Sound(disk) /\ look.obj \in DOMAIN objs /\ objs[look.obj].mode = "dir"
                /\ rest # <<>> /\ look.rest = DropSlashes(rest)
                /\ Way(disk, path, named, look, rest, look.links)
                /\ disk.order.items[c].obj = look.obj /\ Without(disk, look.obj, c, name)
                /\ t'.ok
                /\ c + 1 \in DOMAIN disk.order.items => At(disk, t', c + 1) /\ item = disk.order.items[c + 1]
                /\ c + 1 \notin DOMAIN disk.order.items => item = MaxItem
  <2>1. Healthy /\ UNCHANGED faults /\ Sound(disk)
    BY <1>0, <1>2, <1>8, HealthyBefore
  <2>2. objs[look.obj].mode = "dir"
    BY <1>0, <2>1 DEF RInv, Right, Scanning
  <2>3. PICK rest \in Text : /\ rest # <<>> /\ look.rest = DropSlashes(rest)
                             /\ Way(disk, path, named, look, rest, look.links)
    BY <1>0, <2>1 DEF RInv, Right, Scanning
  <2>4. PICK c \in DOMAIN disk.order.items : /\ At(disk, t, c) /\ disk.order.items[c].obj = look.obj
                                             /\ Without(disk, look.obj, c, name)
    BY <1>0, <2>1 DEF RInv, Right, Scanning, name
  <2> DEFINE v == next_key(t, NoFault)
  <2>5. SameWalk(v, t') /\ t'.ok = v.ok
    BY <1>2, <2>1 DEF Calm
  <2>6. v = next_key(t, NoFault)
    OBVIOUS
  <2> HIDE DEF v
  <2>7. /\ v.ok
        /\ c + 1 \in DOMAIN disk.order.items => At(disk, v, c + 1)
        /\ c + 1 \notin DOMAIN disk.order.items => Past(disk, v)
    BY <2>1, <2>4, <2>6, NextItem
  <2>8. /\ c + 1 \in DOMAIN disk.order.items => At(disk, t', c + 1)
        /\ c + 1 \notin DOMAIN disk.order.items => Past(disk, t')
    BY <2>5, <2>7, SamePlace
  <2>9. c + 1 \in DOMAIN disk.order.items => item = disk.order.items[c + 1]
    BY <2>1, <2>8, ItemAt DEF item
  <2>10. c + 1 \notin DOMAIN disk.order.items => item = MaxItem
    BY <1>0, <2>8, ItemFormed DEF item, Past, Typed
  <2>11. look.obj \in DOMAIN objs
    BY <1>0, <2>3, OnTheWay DEF Typed
  <2> QED BY <2>1, <2>2, <2>3, <2>4, <2>5, <2>7, <2>8, <2>9, <2>10, <2>11
<1>9. ASSUME Healthy', item.obj # look.obj PROVE named.res = "NOTFOUND"
  <2>1. PICK c \in DOMAIN disk.order.items, rest \in Text :
                /\ Sound(disk) /\ look.obj \in DOMAIN objs /\ objs[look.obj].mode = "dir"
                /\ rest # <<>> /\ look.rest = DropSlashes(rest)
                /\ Way(disk, path, named, look, rest, look.links)
                /\ disk.order.items[c].obj = look.obj /\ Without(disk, look.obj, c, name)
                /\ c + 1 \in DOMAIN disk.order.items => item = disk.order.items[c + 1]
    BY <1>8, <1>9
  <2> DEFINE o == look.obj
             all == disk.order.items
             w == Site(look, rest, look.links)
  <2>2. ~GoesOn(all, c)
    BY <1>9, <2>1 DEF GoesOn
  <2>3. Lists(disk, o, objs[o].entries)
    BY <2>1, ObjectIs DEF Describes, objs
  <2>4. name \notin DOMAIN objs[o].entries
    <3> SUFFICES ASSUME name \in DOMAIN objs[o].entries PROVE FALSE
      OBVIOUS
    <3>1. PICK i \in DOMAIN all : /\ all[i].obj = o /\ all[i].type = "dir"
                                  /\ \E k \in DOMAIN all[i].entries : Matches(all[i].entries[k], name)
      BY <2>3 DEF Lists
    <3>2. i <= c
      BY <2>1, <2>2, <3>1, Together
    <3> QED BY <2>1, <3>1, <3>2 DEF Without
  <2>5. /\ w \in Sites(disk) /\ Leads(disk, path, named, w) /\ Len(path) \in Nat
        /\ w.at = o /\ w.rest = rest
    BY <1>0, <2>1, OnTheWay DEF Typed
  <2> HIDE DEF w
  <2>6. disk.objs[w.at].mode = "dir"
    BY <2>1, <2>5 DEF objs
  <2>7. DropSlashes(w.rest) = <<>> \/ DropSlashes(w.rest)[1] \notin DOMAIN disk.objs[w.at].entries
    BY <2>1, <2>4, <2>5 DEF name, NameOf, objs
  <2> QED BY <2>1, <2>5, <2>6, <2>7, NameMissing
<1>10. ASSUME Healthy', item.obj = look.obj, hit = 0, t'.ok, UNCHANGED look, pc' = "dir"
       PROVE  Scanning'
  <2>1. PICK c \in DOMAIN disk.order.items, rest \in Text :
                /\ Sound(disk) /\ look.obj \in DOMAIN objs /\ objs[look.obj].mode = "dir"
                /\ rest # <<>> /\ look.rest = DropSlashes(rest)
                /\ Way(disk, path, named, look, rest, look.links)
                /\ disk.order.items[c].obj = look.obj /\ Without(disk, look.obj, c, name)
                /\ c + 1 \in DOMAIN disk.order.items => At(disk, t', c + 1) /\ item = disk.order.items[c + 1]
                /\ c + 1 \notin DOMAIN disk.order.items => item = MaxItem
    BY <1>8, <1>10
  <2> DEFINE o == look.obj
             all == disk.order.items
  <2>2. c + 1 \in DOMAIN all /\ At(disk, t', c + 1) /\ item = all[c + 1] /\ c \in Nat
    <3>1. o \in Nat /\ c \in Nat
      BY <2>1, Ordered
    <3>2. MaxItem.obj # o
      BY <3>1 DEF MaxItem
    <3> QED BY <1>10, <2>1, <3>1, <3>2
  <2>3. Lists(disk, o, objs[o].entries)
    BY <2>1, ObjectIs DEF Describes, objs
  <2>4. ASSUME item.type = "dir", NEW k \in DOMAIN item.entries PROVE ~Matches(item.entries[k], name)
    <3>1. Len(item.entries) \in Nat /\ DOMAIN item.entries = 1 .. Len(item.entries)
      BY <1>10, <2>2, <2>3, <2>4 DEF Lists
    <3>2. entries = item.entries
      BY <2>4 DEF entries, Entries
    <3>3. 0 = Hit(item.entries, name)
      BY <1>10, <3>2 DEF hit
    <3> QED BY <3>1, <3>3, Selected
  <2>5. Without(disk, o, c + 1, name)
    <3>1. ASSUME NEW i \in DOMAIN all, i <= c + 1, all[i].obj = o, all[i].type = "dir",
                 NEW k \in DOMAIN all[i].entries
          PROVE  ~Matches(all[i].entries[k], name)
      <4>1. CASE i = c + 1
        BY <2>2, <2>4, <3>1, <4>1
      <4>2. CASE i # c + 1
        <5>1. i \in Nat
          BY <2>1, Ordered
        <5>2. i <= c
          BY <2>2, <3>1, <4>2, <5>1
        <5> QED BY <2>1, <3>1, <5>2 DEF Without
      <4> QED BY <4>1, <4>2
    <3> QED BY <3>1 DEF Without
  <2>6. objs' = objs /\ disk' = disk /\ path' = path /\ named' = named
    BY <1>0 DEF objs
  <2> QED BY <1>10, <2>1, <2>2, <2>5, <2>6 DEF Scanning, name
<1>11. ASSUME Healthy', item.obj = look.obj, hit # 0, t'.ok,
              look' = [look EXCEPT !.pdir = look.dir, !.pobj = look.obj, !.dir = entries[hit].dir,
                                   !.obj = entries[hit].obj, !.rest = Tail(@)]
       PROVE  Way(disk, path, named, look', look'.rest, look'.links) /\ Mounted(disk, t')
  <2>1. PICK c \in DOMAIN disk.order.items, rest \in Text :
                /\ Sound(disk) /\ look.obj \in DOMAIN objs /\ objs[look.obj].mode = "dir"
                /\ rest # <<>> /\ look.rest = DropSlashes(rest)
                /\ Way(disk, path, named, look, rest, look.links)
                /\ disk.order.items[c].obj = look.obj
                /\ c + 1 \in DOMAIN disk.order.items => At(disk, t', c + 1) /\ item = disk.order.items[c + 1]
                /\ c + 1 \notin DOMAIN disk.order.items => item = MaxItem
    BY <1>8, <1>11
  <2> DEFINE o == look.obj
             all == disk.order.items
             w == Site(look, rest, look.links)
             x == entries[hit]
  <2>2. c + 1 \in DOMAIN all /\ At(disk, t', c + 1) /\ item = all[c + 1]
    <3>1. o \in Nat /\ c \in Nat
      BY <2>1, Ordered
    <3>2. MaxItem.obj # o
      BY <3>1 DEF MaxItem
    <3> QED BY <1>11, <2>1, <3>1, <3>2
  <2>3. Lists(disk, o, objs[o].entries)
    BY <2>1, ObjectIs DEF Describes, objs
  <2>4. item.type = "dir" /\ entries = item.entries
    <3>1. item.type # "dir" => hit = 0
      <4> SUFFICES ASSUME item.type # "dir" PROVE hit = 0
        OBVIOUS
      <4>1. entries = <<>>
        BY DEF entries, Entries
      <4>2. Len(entries) \in Nat /\ DOMAIN entries = 1 .. Len(entries) /\ DOMAIN entries = {}
        BY <4>1
      <4>3. Hit(entries, name) # 0 => Hit(entries, name) \in DOMAIN entries
        <5>1. Len(entries) \in Nat /\ DOMAIN entries = 1 .. Len(entries)
          BY <4>2
        <5> QED BY <5>1, Selected
      <4> QED BY <4>2, <4>3 DEF hit
    <3> QED BY <1>11, <3>1 DEF entries, Entries
  <2>5. hit \in DOMAIN item.entries /\ Matches(x, name)
    <3>1. Len(item.entries) \in Nat /\ DOMAIN item.entries = 1 .. Len(item.entries)
      BY <1>11, <2>2, <2>3, <2>4 DEF Lists
    <3>2. Len(entries) \in Nat /\ DOMAIN entries = 1 .. Len(entries)
      BY <2>4, <3>1
    <3>3. hit \in DOMAIN entries /\ Matches(entries[hit], name)
      BY <1>11, <3>2, Selected DEF hit
    <3> QED BY <2>4, <3>3
  <2>6. /\ name \in DOMAIN objs[o].entries /\ x.obj = objs[o].entries[name] /\ x.dir = objs[x.obj].dir
        /\ name # "" /\ x.obj \in DOMAIN objs
    <3>1. x.visible /\ x.name = name
      BY <2>5 DEF Matches
    <3>2. x = all[c + 1].entries[hit] /\ hit \in DOMAIN all[c + 1].entries
      BY <2>2, <2>4, <2>5
    <3>3. c + 1 \in DOMAIN all /\ all[c + 1].obj = o /\ all[c + 1].type = "dir"
      BY <1>11, <2>2, <2>4
    <3> HIDE DEF x
    <3>4. name \in DOMAIN objs[o].entries /\ x.obj = objs[o].entries[name] /\ x.dir = objs[x.obj].dir
      <4>1. \A k \in DOMAIN all[c + 1].entries :
               LET y == all[c + 1].entries[k]
               IN  y.visible => /\ y.name \in DOMAIN objs[o].entries /\ y.obj = objs[o].entries[y.name]
                                /\ y.dir = disk.objs[y.obj].dir
        <5>1. c + 1 \in {i \in DOMAIN all : all[i].obj = o /\ all[i].type = "dir"}
          BY <3>3
        <5> QED BY <2>3, <5>1, Zenon DEF Lists
      <4>2. x.visible => /\ x.name \in DOMAIN objs[o].entries /\ x.obj = objs[o].entries[x.name]
                         /\ x.dir = disk.objs[x.obj].dir
        BY <3>2, <4>1, Zenon
      <4> QED BY <3>1, <4>2, Zenon DEF objs
    <3> QED BY <2>3, <3>4 DEF Lists, objs
  <2>7. look.rest # <<>> /\ name = look.rest[1]
    BY <2>6 DEF name, NameOf
  <2>8. /\ w \in Sites(disk) /\ Leads(disk, path, named, w) /\ Len(path) \in Nat
        /\ w.at = o /\ w.rest = rest /\ w.links = look.links /\ look.dir = objs[o].dir
    BY <1>0, <2>1, OnTheWay DEF Typed
  <2> HIDE DEF w, x
  <2>9. Entered(disk, w) \in Sites(disk) /\ Leads(disk, path, named, Entered(disk, w))
    <3>1. disk.objs[w.at].mode = "dir" /\ w.rest # <<>> /\ DropSlashes(w.rest) # <<>>
      BY <2>1, <2>7, <2>8 DEF objs
    <3>2. /\ DropSlashes(w.rest)[1] \in DOMAIN disk.objs[w.at].entries
          /\ disk.objs[w.at].entries[DropSlashes(w.rest)[1]] \in DOMAIN disk.objs
      BY <2>1, <2>6, <2>7, <2>8 DEF objs
    <3> QED BY <2>8, <3>1, <3>2, NameFound
  <2>10. /\ look'.obj = x.obj /\ look'.dir = x.dir /\ look'.pobj = o /\ look'.pdir = look.dir
         /\ look'.rest = Tail(look.rest) /\ look'.links = look.links
    <3>1. DOMAIN look = LookKeys
      BY <1>0 DEF Typed
    <3> QED BY <1>11, <3>1 DEF LookKeys, x
  <2>11. o # 0
    BY <2>1, ObjectIs
  <2>12. Site(look', look'.rest, look'.links) = Entered(disk, w)
    <3>1. DropSlashes(w.rest) = look.rest /\ disk.objs[w.at].entries[look.rest[1]] = x.obj
      BY <2>1, <2>6, <2>7, <2>8 DEF objs
    <3> QED BY <2>8, <2>10, <2>11, <3>1 DEF Site, Entered
  <2>13. Way(disk, path, named, look', look'.rest, look'.links)
    BY <2>6, <2>8, <2>9, <2>10, <2>11, <2>12 DEF Way, objs
  <2> QED BY <2>2, <2>13 DEF At
<1>12. ASSUME Healthy' PROVE t'.ok
  BY <1>8, <1>12
<1>13. CASE pc' = "failed"
  <2>1. Healthy' => result' = "NOTFOUND" /\ item.obj # look.obj
    BY <1>0, <1>1, <1>12, <1>13
  <2> QED BY <1>0, <1>4, <1>7, <1>9, <1>13, <2>1, GivenUp
<1>14. CASE pc' = "dir"
  <2>1. Healthy' => Scanning'
    BY <1>0, <1>1, <1>10, <1>12, <1>14
  <2>2. Healthy' => Right'
    BY <1>6, <1>14, <2>1 DEF Right, Mounting, Looking, Linking, Reading, Ended, Serving
  <2> QED BY <1>4, <1>7, <2>2 DEF RInv
<1>15. CASE pc' = "stat"
  <2>1. Healthy' => Way(disk', path', named', look', look'.rest, look'.links) /\ Mounted(disk', t')
    BY <1>0, <1>1, <1>11, <1>15
  <2>2. Healthy' => Right'
    BY <1>6, <1>15, <2>1 DEF Right, Mounting, Looking, Scanning, Linking, Reading, Ended, Serving
  <2> QED BY <1>4, <1>7, <2>2 DEF RInv
<1> QED BY <1>6, <1>13, <1>14, <1>15

-----------------------------------------------------------------------------
(***************************************************************************)
(* Reading the text of a link, or the file.                                *)
(***************************************************************************)
LEMMA Served ==
    ASSUME RInv, Typed', Flow', Healthy, pc \in Serving \cup {"idle"}, pc' \in Serving \cup {"idle"},
           UNCHANGED <<disk, path, named, look, result>>,
           file'.len = file.len, file'.obj = file.obj, file'.dir = file.dir,
           rd'.caller = "open" => /\ rd.caller = "open" /\ file'.pos = Len(rd'.buf)
                                  /\ Len(rd'.buf) + rd'.left = file.len,
           pc' \in Serving => t'.errnum = "OK" \/ pc' = "search",
           pc' \in Serving => Delivered(Whole(disk, file.obj), file'.pos, rd'.buf),
           pc' \in {"idle", "search", "done"} => Rests(disk, t', file.obj),
           pc' = "loop" => Reaches(disk, t', file.obj, file'.pos),
           pc' = "next" => Leaves(disk, t', file.obj, file'.pos),
           pc' = "done" => rd'.left = 0 \/ file'.pos >= Len(Whole(disk, file.obj))
    PROVE  Right'
<1>1. objs' = objs
  BY DEF objs
<1>2. Reading /\ Linking /\ Ended
  BY DEF RInv, Right
<1>3. file.obj \in DOMAIN objs /\ objs[file.obj].mode # "dir" /\ file.dir = objs[file.obj].dir
  BY <1>2 DEF Reading, Serving
<1>4. Reading'
  BY <1>1, <1>3 DEF Reading, Serving
<1>5. Linking'
  <2> SUFFICES ASSUME pc' \in Serving, rd'.caller = "open" PROVE Linking'
    BY DEF Linking, Serving
  <2>1. pc \in Serving
    BY DEF RInv, Flow, Serving
  <2> QED BY <1>1, <1>2, <2>1 DEF Linking, Serving
<1>6. Ended'
  BY <1>1, <1>2 DEF Ended
<1> QED BY <1>4, <1>5, <1>6 DEF Right, Mounting, Looking, Scanning, Serving

LEMMA SeekKeeps == ASSUME RInv, NEW p \in Positions, reiserfs_seek(p) PROVE RInv'
<1>0. /\ Typed /\ pc = "idle" /\ file' = [file EXCEPT !.pos = p]
      /\ UNCHANGED <<disk, path, named, pc, sb, jr, t, look, rd, result, faults>>
  BY DEF reiserfs_seek, RInv
<1>1. p \in Nat
  BY ReiserAssumption
<1>2. /\ DOMAIN file' = {"pos", "len", "dir", "obj"} /\ file'.pos = p
      /\ file'.len = file.len /\ file'.obj = file.obj /\ file'.dir = file.dir
  BY <1>0 DEF Typed
<1>3. Typed'
  BY <1>0, <1>1, <1>2 DEF Typed, objs
<1>4. Flow' /\ rd.caller # "open"
  BY <1>0 DEF RInv, Flow, Opening, Serving
<1>5. ASSUME Healthy' PROVE Right'
  <2>1. Healthy
    BY <1>0, <1>5 DEF Healthy
  <2>2. Rests(disk, t', file.obj)
    BY <1>0, <2>1 DEF RInv, Right, Reading
  <2> QED BY <1>0, <1>2, <1>3, <1>4, <2>1, <2>2, Served DEF Serving
<1> QED BY <1>3, <1>4, <1>5 DEF RInv

LEMMA CallKeeps == ASSUME RInv, NEW n \in Sizes, reiserfs_read(n) PROVE RInv'
<1>0. /\ Typed /\ pc = "idle" /\ pc' = "search"
      /\ rd' = [buf |-> <<>>, left |-> n, caller |-> "read"]
      /\ UNCHANGED <<disk, path, named, sb, jr, t, look, file, result, faults>>
  BY DEF reiserfs_read, RInv
<1>1. n \in Nat /\ <<>> \in Seq(Tokens)
  <2>1. n \in Nat
    BY ReiserAssumption
  <2>2. <<>> \in Seq(Tokens)
    OBVIOUS
  <2> QED BY <2>1, <2>2
<1>2. DOMAIN rd' = {"buf", "left", "caller"} /\ rd'.buf = <<>> /\ rd'.left = n /\ rd'.caller = "read"
  BY <1>0
<1>3. Typed'
  BY <1>0, <1>1, <1>2 DEF Typed, objs
<1>4. Flow'
  BY <1>0, <1>2 DEF RInv, Flow, Opening, Serving
<1>5. ASSUME Healthy' PROVE Right'
  <2>1. Healthy
    BY <1>0, <1>5 DEF Healthy
  <2>2. Rests(disk, t', file.obj)
    BY <1>0, <2>1 DEF RInv, Right, Reading
  <2>3. Delivered(Whole(disk, file.obj), file'.pos, rd'.buf)
    <3>1. file'.pos \in Nat
      BY <1>0 DEF Typed
    <3> QED BY <1>2, <3>1 DEF Delivered
  <2> QED BY <1>0, <1>2, <1>3, <1>4, <2>1, <2>2, <2>3, Served DEF Serving
<1> QED BY <1>3, <1>4, <1>5 DEF RInv

LEMMA ReturnKeeps == ASSUME RInv, ReadReturn PROVE RInv'
<1>0. /\ Typed /\ pc = "done" /\ pc' = "idle" /\ rd.caller = "read" /\ rd' = [rd EXCEPT !.caller = "none"]
      /\ UNCHANGED <<disk, path, named, sb, jr, t, look, file, result, faults>>
  BY DEF ReadReturn, RInv
<1>2. DOMAIN rd' = {"buf", "left", "caller"} /\ rd'.buf = rd.buf /\ rd'.left = rd.left /\ rd'.caller = "none"
  BY <1>0 DEF Typed
<1>3. Typed'
  BY <1>0, <1>2 DEF Typed, objs
<1>4. Flow'
  BY <1>0, <1>2 DEF RInv, Flow, Opening, Serving
<1>5. ASSUME Healthy' PROVE Right'
  <2>1. Healthy
    BY <1>0, <1>5 DEF Healthy
  <2>2. Rests(disk, t', file.obj)
    BY <1>0, <2>1 DEF RInv, Right, Reading, Serving
  <2> QED BY <1>0, <1>2, <1>3, <1>4, <2>1, <2>2, Served DEF Serving
<1> QED BY <1>3, <1>4, <1>5 DEF RInv

LEMMA CloseKeeps == ASSUME RInv, reiserfs_close PROVE RInv'
<1>0. /\ Typed /\ pc = "idle" /\ pc' = "shut"
      /\ UNCHANGED <<disk, path, named, sb, jr, t, look, file, rd, result, faults>>
  BY DEF reiserfs_close, RInv
<1>1. Typed'
  BY <1>0 DEF Typed, objs
<1>2. Flow'
  BY <1>0 DEF RInv, Flow, Opening, Serving
<1>3. ASSUME Healthy' PROVE Right'
  <2>1. Healthy /\ objs' = objs
    BY <1>0, <1>3 DEF Healthy, objs
  <2> QED BY <1>0, <2>1 DEF RInv, Right, Mounting, Looking, Scanning, Linking, Reading, Ended, Serving
<1> QED BY <1>1, <1>2, <1>3 DEF RInv

LEMMA StutterKeeps == ASSUME RInv, UNCHANGED vars PROVE RInv'
<1>0. UNCHANGED <<disk, path, named, pc, sb, jr, t, look, file, rd, result, faults>>
  BY DEF vars
<1>1. objs' = objs /\ CurrentItem(t)' = CurrentItem(t)
  BY <1>0 DEF objs, CurrentItem, LEAF, Node
<1>2. Typed' /\ Flow' /\ (Healthy' => Healthy)
  BY <1>0, <1>1 DEF RInv, Typed, Flow, Healthy
<1>3. /\ (Mounting => Mounting') /\ (Looking => Looking') /\ (Scanning => Scanning')
      /\ (Linking => Linking') /\ (Reading => Reading') /\ (Ended => Ended')
  <2>1. Mounting => Mounting'
    BY <1>0 DEF Mounting
  <2>2. Looking => Looking'
    BY <1>0 DEF Looking
  <2>3. Scanning => Scanning'
    BY <1>0, <1>1 DEF Scanning
  <2>4. Linking => Linking'
    BY <1>0, <1>1 DEF Linking
  <2>5. Reading => Reading'
    BY <1>0, <1>1 DEF Reading
  <2>6. Ended => Ended'
    BY <1>0, <1>1 DEF Ended
  <2> QED BY <2>1, <2>2, <2>3, <2>4, <2>5, <2>6
<1> QED BY <1>2, <1>3 DEF RInv, Right

LEMMA SearchKeeps == ASSUME RInv, Calm, SearchFile PROVE RInv'
<1> DEFINE item == CurrentItem(t)
           behind == item.obj # file.obj \/ item.off > file.pos + 1
<1>0. /\ Typed /\ pc = "search" /\ UNCHANGED <<disk, path, named, sb, jr, look, file, rd, result>>
      /\ \/ behind /\ Walk(LAMBDA f : search_stat(t, file.dir, file.obj, f)) /\ pc' = "next"
         \/ ~behind /\ t' = [t EXCEPT !.errnum = "OK"] /\ NoFaults /\ pc' = "loop"
  BY DEF SearchFile, RInv, IH_KEY_OFFSET
<1> HIDE DEF behind
<1>1. ASSUME behind
      PROVE  /\ Shape(t') /\ (Fault \/ NoFaults) /\ faults' \in Nat
             /\ UNCHANGED faults /\ jr.transactions = 0 => LET v == search_stat(t, file.dir, file.obj, NoFault)
                                                           IN  SameWalk(v, t') /\ t'.ok = v.ok /\ t'.errnum = v.errnum
  <2>1. Typed /\ Walk(LAMBDA f : search_stat(t, file.dir, file.obj, f))
    BY <1>0, <1>1
  <2>2. /\ Shape(t') /\ (Fault \/ NoFaults) /\ faults' \in Nat
        /\ t'.ok => CurrentItem(t').type = "stat"
        /\ UNCHANGED faults /\ jr.transactions = 0 => LET v == search_stat(t, file.dir, file.obj, NoFault)
                                                      IN  SameWalk(v, t') /\ t'.ok = v.ok /\ t'.errnum = v.errnum
    BY <2>1, WalkStat
  <2> QED BY <2>2
<1>2. ASSUME ~behind PROVE Shape(t') /\ SameWalk(t, t') /\ t'.errnum = "OK" /\ faults' = faults
  <2>1. Shape(t) /\ t' = [t EXCEPT !.errnum = "OK"] /\ faults' = faults
    BY <1>0, <1>2 DEF Typed, NoFaults
  <2> QED BY <2>1 DEF Shape, TreeKeys, SameWalk, SamePath
<1>3. Shape(t') /\ faults' \in Nat /\ (Fault \/ NoFaults)
  BY <1>0, <1>1, <1>2 DEF Typed, NoFaults
<1>4. Typed'
  BY <1>0, <1>3 DEF Typed, objs
<1>5. Flow'
  BY <1>0 DEF RInv, Flow, Opening, Serving
<1>6. ASSUME Healthy' PROVE Right'
  <2> DEFINE o == file.obj
             all == disk.order.items
  <2>1. Healthy /\ UNCHANGED faults /\ Sound(disk)
    BY <1>0, <1>3, <1>6, HealthyBefore
  <2>2. /\ o \in DOMAIN objs /\ file.dir = objs[o].dir /\ Rests(disk, t, o)
        /\ Delivered(Whole(disk, o), file.pos, rd.buf)
    BY <1>0, <2>1 DEF RInv, Right, Reading, Serving
  <2>3. rd.caller = "open" => file.pos = Len(rd.buf) /\ Len(rd.buf) + rd.left = file.len
    BY <1>0, <2>1 DEF RInv, Right, Linking, Serving
  <2>4. PICK g \in DOMAIN all : IsStat(disk, o, g) /\ all[g].dir = file.dir
    BY <2>1, <2>2, HasStat
  <2>5. CASE behind
    <3> DEFINE v == search_stat(t, file.dir, file.obj, NoFault)
    <3>1. SameWalk(v, t') /\ t'.errnum = v.errnum
      BY <1>1, <2>1, <2>5 DEF Calm
    <3>2. v = search_stat(t, all[g].dir, o, NoFault)
      BY <2>4
    <3> HIDE DEF v
    <3>3. Mounted(disk, t)
      BY <2>2 DEF Rests, Past, At
    <3>4. At(disk, v, g) /\ v.errnum = "OK"
      BY <2>1, <2>4, <3>2, <3>3, SearchFinds
    <3>5. At(disk, t', g)
      BY <3>1, <3>4, SamePlace
    <3>6. Leaves(disk, t', o, file.pos)
      BY <2>4, <3>5 DEF Leaves, IsStat
    <3>7. pc' = "next" /\ t'.errnum = "OK"
      BY <1>0, <2>5, <3>1, <3>4
    <3> QED BY <1>0, <1>4, <1>5, <2>1, <2>2, <2>3, <3>6, <3>7, Served DEF Serving
  <2>6. CASE ~behind
    <3>1. item.obj = o /\ ~(item.off > file.pos + 1)
      BY <2>6 DEF behind
    <3>2. o \in Nat
      BY <2>1, <2>2, <2>4, StatSays
    <3>3. ~Past(disk, t)
      <4>1. t.cur = 0 => item.obj = -1
        BY <1>0, ItemFormed DEF Typed, MaxItem
      <4> QED BY <3>1, <3>2, <4>1 DEF Past
    <3>4. PICK c \in DOMAIN all : At(disk, t, c) /\ ~IsStat(disk, o, c)
      BY <2>2, <3>3 DEF Rests
    <3>5. item = all[c]
      BY <2>1, <3>4, ItemAt
    <3>6. IsData(disk, o, c)
      BY <3>1, <3>4, <3>5 DEF IsData, IsStat
    <3>7. all[c].off <= file.pos + 1
      <4>1. all[c].off \in Nat /\ file.pos \in Nat
        BY <1>0, <2>1, Ordered DEF Typed
      <4> QED BY <3>1, <3>5, <4>1
    <3>8. At(disk, t', c)
      BY <1>2, <2>6, <3>4, SamePlace
    <3>9. Reaches(disk, t', o, file.pos)
      BY <3>6, <3>7, <3>8 DEF Reaches
    <3>10. pc' = "loop" /\ t'.errnum = "OK"
      BY <1>0, <1>2, <2>6
    <3> QED BY <1>0, <1>4, <1>5, <2>1, <2>2, <2>3, <3>9, <3>10, Served DEF Serving
  <2> QED BY <2>5, <2>6
<1> QED BY <1>4, <1>5, <1>6 DEF RInv

LEMMA KeyKeeps == ASSUME RInv, Calm, NextKey PROVE RInv'
<1>0. /\ Typed /\ pc = "next" /\ pc' = "loop" /\ Walk(LAMBDA f : next_key(t, f))
      /\ UNCHANGED <<disk, path, named, sb, jr, look, file, rd, result>>
  BY DEF NextKey, RInv
<1>1. /\ Shape(t') /\ (Fault \/ NoFaults) /\ faults' \in Nat
      /\ UNCHANGED faults /\ jr.transactions = 0 => LET v == next_key(t, NoFault)
                                                    IN  SameWalk(v, t') /\ t'.ok = v.ok /\ t'.errnum = v.errnum
  BY <1>0, WalkNext
<1>2. Typed'
  BY <1>0, <1>1 DEF Typed, objs
<1>3. Flow'
  BY <1>0 DEF RInv, Flow, Opening, Serving
<1>4. ASSUME Healthy' PROVE Right'
  <2> DEFINE o == file.obj
  <2>1. Healthy /\ UNCHANGED faults /\ Sound(disk) /\ disk \in Images
    BY <1>0, <1>1, <1>4, HealthyBefore DEF Typed
  <2>2. /\ o \in DOMAIN objs /\ objs[o].mode # "dir" /\ t.errnum = "OK" /\ Leaves(disk, t, o, file.pos)
        /\ Delivered(Whole(disk, o), file.pos, rd.buf)
    BY <1>0, <2>1 DEF RInv, Right, Reading, Serving
  <2>3. rd.caller = "open" => file.pos = Len(rd.buf) /\ Len(rd.buf) + rd.left = file.len
    BY <1>0, <2>1 DEF RInv, Right, Linking, Serving
  <2>4. file.pos \in Nat
    BY <1>0 DEF Typed
  <2> DEFINE v == next_key(t, NoFault)
  <2>5. SameWalk(v, t') /\ t'.errnum = v.errnum /\ v = next_key(t, NoFault)
    BY <1>1, <2>1 DEF Calm
  <2> HIDE DEF v
  <2>6. Reaches(disk, v, o, file.pos) /\ (v.errnum = t.errnum \/ v.errnum = "OK")
    BY <2>1, <2>2, <2>4, <2>5, NextReaches
  <2>7. Reaches(disk, t', o, file.pos)
    <3>1. (\A c : At(disk, v, c) => At(disk, t', c)) /\ (Past(disk, v) => Past(disk, t'))
      BY <2>5, SamePlace
    <3> QED BY <2>6, <3>1 DEF Reaches
  <2> QED BY <1>0, <1>2, <1>3, <2>1, <2>2, <2>3, <2>5, <2>6, <2>7, Served DEF Serving
<1> QED BY <1>2, <1>3, <1>4 DEF RInv

(* The front of a sequence, at most n long.                                *)
LEMMA FrontIs ==
    ASSUME NEW S, NEW s \in Seq(S), NEW n \in Nat,
           NEW g, g = SubSeq(s, 1, IF Len(s) > n THEN n ELSE Len(s))
    PROVE  /\ g \in Seq(S) /\ Len(g) \in Nat /\ Len(g) <= n /\ Len(g) <= Len(s)
           /\ \A i \in 1 .. Len(g) : g[i] = s[i]
<1> DEFINE m == IF Len(s) > n THEN n ELSE Len(s)
<1>1. m \in 0 .. Len(s) /\ m <= n /\ g = SubSeq(s, 1, m)
  OBVIOUS
<1> HIDE DEF m
<1>2. g \in Seq(S) /\ Len(g) = m /\ \A i \in 1 .. m : g[i] = s[i]
  BY <1>1
<1> QED BY <1>1, <1>2

LEMMA Unknown ==
    ASSUME NEW n \in Nat
    PROVE  [i \in 1 .. n |-> "?"] \in Seq(Tokens) /\ Len([i \in 1 .. n |-> "?"]) = n
<1> DEFINE f == [i \in 1 .. n |-> "?"]
<1>0. "?" \in Tokens
  BY Zenon DEF Tokens
<1>1. f \in [1 .. n -> Tokens] /\ DOMAIN f = 1 .. n
  BY <1>0
<1> HIDE DEF f
<1>2. f \in Seq(Tokens)
  BY <1>1
<1>3. Len(f) = n
  BY <1>1, <1>2
<1> QED BY <1>2, <1>3 DEF f

(* What the current item has at file->pos, and how much of it is taken.    *)
Offset == file.pos - CurrentItem(t).off + 1

Inside == CurrentItem(t).obj = file.obj /\ Offset \in 0 .. ItemLen(CurrentItem(t)) - 1

Ahead == IF Inside THEN ItemBytes(CurrentItem(t), Offset) ELSE <<>>

Taken == SubSeq(Ahead, 1, IF Len(Ahead) > rd.left THEN rd.left ELSE Len(Ahead))

Garbage == [i \in DOMAIN Taken |-> "?"]

LEMMA LoopCases ==
    ASSUME ReadLoop
    PROVE  /\ pc = "loop" /\ UNCHANGED <<disk, path, named, sb, jr, t, look, result>>
           /\ \/ /\ t.errnum # "OK" \/ CurrentItem(t).obj # file.obj
                 /\ pc' = "done" /\ faults' = faults /\ UNCHANGED <<file, rd>>
              \/ /\ t.errnum = "OK" /\ CurrentItem(t).obj = file.obj /\ Ahead = <<>>
                 /\ pc' = "next" /\ faults' = faults /\ UNCHANGED <<file, rd>>
              \/ /\ t.errnum = "OK" /\ Ahead # <<>>
                 /\ \E lost \in BOOLEAN :
                       /\ IF lost THEN Fault ELSE faults' = faults
                       /\ rd' = [rd EXCEPT !.left = @ - Len(Taken),
                                           !.buf = @ \o (IF lost THEN Garbage ELSE Taken)]
                 /\ file' = [file EXCEPT !.pos = @ + Len(Taken)]
                 /\ pc' = IF rd'.left = 0 THEN "done" ELSE "loop"
BY DEF ReadLoop, IH_KEY_OFFSET, NoFaults, Offset, Inside, Ahead, Taken, Garbage

LEMMA TakenIs ==
    ASSUME Typed
    PROVE  /\ WellFormed(disk, CurrentItem(t)) /\ (t.cur = 0 => CurrentItem(t).obj = -1)
           /\ Inside <=> Ahead # <<>>
           /\ Inside => /\ Ahead = ItemBytes(CurrentItem(t), Offset)
                        /\ Taken \in Seq(Tokens) /\ Len(Taken) \in Nat /\ Len(Taken) <= rd.left
                        /\ Garbage \in Seq(Tokens) /\ Len(Garbage) = Len(Taken)
                        /\ \A i \in 1 .. Len(Taken) : Taken[i] = Ahead[i] /\ i \in 1 .. Len(Ahead)
<1>1. disk \in Images /\ rd.left \in Nat
  BY DEF Typed
<1>2. WellFormed(disk, CurrentItem(t)) /\ (t.cur = 0 => CurrentItem(t).obj = -1)
  BY <1>1, ItemFormed DEF MaxItem
<1>3. ~Inside => Ahead = <<>>
  BY DEF Ahead
<1>4. ASSUME Inside
      PROVE  /\ Ahead = ItemBytes(CurrentItem(t), Offset) /\ Ahead # <<>>
             /\ Taken \in Seq(Tokens) /\ Len(Taken) \in Nat /\ Len(Taken) <= rd.left
             /\ Garbage \in Seq(Tokens) /\ Len(Garbage) = Len(Taken)
             /\ \A i \in 1 .. Len(Taken) : Taken[i] = Ahead[i] /\ i \in 1 .. Len(Ahead)
  <2>1. Ahead = ItemBytes(CurrentItem(t), Offset) /\ Offset \in 0 .. ItemLen(CurrentItem(t)) - 1
    BY <1>4 DEF Ahead, Inside
  <2>2. Ahead \in Seq(STRING) /\ Len(Ahead) >= 1
    BY <1>1, <1>2, <2>1, BytesAre
  <2>3. Ahead # <<>> /\ Ahead \in Seq(Tokens)
    BY <2>2, Bytes
  <2>4. /\ Taken \in Seq(Tokens) /\ Len(Taken) \in Nat /\ Len(Taken) <= rd.left /\ Len(Taken) <= Len(Ahead)
        /\ \A i \in 1 .. Len(Taken) : Taken[i] = Ahead[i]
    <3>1. Taken = SubSeq(Ahead, 1, IF Len(Ahead) > rd.left THEN rd.left ELSE Len(Ahead))
      BY DEF Taken
    <3> QED BY <1>1, <2>3, <3>1, FrontIs
  <2>5. Garbage \in Seq(Tokens) /\ Len(Garbage) = Len(Taken)
    <3>1. DOMAIN Taken = 1 .. Len(Taken)
      BY <2>4
    <3>2. Garbage = [i \in 1 .. Len(Taken) |-> "?"]
      BY <3>1 DEF Garbage
    <3> QED BY <2>4, <3>2, Unknown
  <2>6. Len(Ahead) \in Nat
    BY <2>3
  <2> QED BY <2>1, <2>3, <2>4, <2>5, <2>6
<1> QED BY <1>2, <1>3, <1>4

(* What a turn of the loop does to the read, on any disk.                  *)
LEMMA LoopStep ==
    ASSUME Typed, ReadLoop
    PROVE  /\ \E more \in Seq(Tokens) :
                 /\ Len(more) \in Nat /\ Len(more) <= rd.left
                 /\ rd'.buf = rd.buf \o more /\ rd'.left = rd.left - Len(more)
                 /\ file'.pos = file.pos + Len(more)
           /\ DOMAIN rd' = {"buf", "left", "caller"} /\ rd'.caller = rd.caller
           /\ DOMAIN file' = {"pos", "len", "dir", "obj"}
           /\ file'.len = file.len /\ file'.dir = file.dir /\ file'.obj = file.obj
           /\ faults' \in Nat /\ (Fault \/ NoFaults) /\ pc' \in {"done", "next", "loop"}
<1>0. rd.left \in Nat /\ file.pos \in Nat /\ faults \in Nat /\ rd.buf \in Seq(Tokens)
  BY DEF Typed
<1>1. CASE UNCHANGED <<file, rd>> /\ pc' \in {"done", "next"} /\ faults' = faults
  <2>1. <<>> \in Seq(Tokens) /\ Len(<<>>) = 0 /\ rd.buf \o <<>> = rd.buf
    BY <1>0
  <2>2. rd.left - 0 = rd.left /\ file.pos + 0 = file.pos /\ 0 <= rd.left
    BY <1>0
  <2>3. \E more \in Seq(Tokens) :
            /\ Len(more) \in Nat /\ Len(more) <= rd.left
            /\ rd'.buf = rd.buf \o more /\ rd'.left = rd.left - Len(more)
            /\ file'.pos = file.pos + Len(more)
    <3> WITNESS <<>> \in Seq(Tokens)
    <3> QED BY <1>1, <2>1, <2>2
  <2> QED BY <1>0, <1>1, <2>3 DEF Typed, NoFaults
<1>2. ASSUME Ahead # <<>>, NEW lost \in BOOLEAN,
             IF lost THEN Fault ELSE faults' = faults,
             rd' = [rd EXCEPT !.left = @ - Len(Taken), !.buf = @ \o (IF lost THEN Garbage ELSE Taken)],
             file' = [file EXCEPT !.pos = @ + Len(Taken)],
             pc' = IF rd'.left = 0 THEN "done" ELSE "loop"
      PROVE  /\ \E more \in Seq(Tokens) :
                   /\ Len(more) \in Nat /\ Len(more) <= rd.left
                   /\ rd'.buf = rd.buf \o more /\ rd'.left = rd.left - Len(more)
                   /\ file'.pos = file.pos + Len(more)
             /\ DOMAIN rd' = {"buf", "left", "caller"} /\ rd'.caller = rd.caller
             /\ DOMAIN file' = {"pos", "len", "dir", "obj"}
             /\ file'.len = file.len /\ file'.dir = file.dir /\ file'.obj = file.obj
             /\ faults' \in Nat /\ (Fault \/ NoFaults) /\ pc' \in {"done", "next", "loop"}
  <2> DEFINE add == IF lost THEN Garbage ELSE Taken
  <2>1. add \in Seq(Tokens) /\ Len(add) = Len(Taken) /\ Len(add) \in Nat /\ Len(add) <= rd.left
    BY <1>2, TakenIs
  <2>2. rd' = [rd EXCEPT !.left = @ - Len(Taken), !.buf = @ \o add]
    BY <1>2
  <2> HIDE DEF add
  <2>3. /\ DOMAIN rd' = {"buf", "left", "caller"} /\ rd'.buf = rd.buf \o add
        /\ rd'.left = rd.left - Len(add) /\ rd'.caller = rd.caller
    BY <2>1, <2>2 DEF Typed
  <2>4. /\ DOMAIN file' = {"pos", "len", "dir", "obj"} /\ file'.pos = file.pos + Len(add)
        /\ file'.len = file.len /\ file'.dir = file.dir /\ file'.obj = file.obj
    BY <1>2, <2>1 DEF Typed
  <2>5. faults' \in Nat /\ (Fault \/ NoFaults)
    BY <1>0, <1>2 DEF Fault, NoFaults
  <2>6. pc' \in {"done", "next", "loop"}
    BY <1>2
  <2> QED BY <2>1, <2>3, <2>4, <2>5, <2>6
<1> QED BY <1>1, <1>2, LoopCases

LEMMA LoopKeeps == ASSUME RInv, ReadLoop PROVE RInv'
<1> DEFINE o == file.obj
<1>0. Typed /\ pc = "loop" /\ UNCHANGED <<disk, path, named, sb, jr, t, look, result>>
  BY LoopCases DEF RInv
<1>1. /\ WellFormed(disk, CurrentItem(t)) /\ (t.cur = 0 => CurrentItem(t).obj = -1)
      /\ Inside <=> Ahead # <<>>
      /\ Inside => /\ Ahead = ItemBytes(CurrentItem(t), Offset)
                   /\ Taken \in Seq(Tokens) /\ Len(Taken) \in Nat /\ Len(Taken) <= rd.left
                   /\ \A i \in 1 .. Len(Taken) : Taken[i] = Ahead[i] /\ i \in 1 .. Len(Ahead)
  BY <1>0, TakenIs
<1>2. rd.left \in Nat /\ file.pos \in Nat /\ faults \in Nat /\ rd.buf \in Seq(Tokens)
  BY <1>0 DEF Typed
<1>9. /\ DOMAIN rd' = {"buf", "left", "caller"} /\ DOMAIN file' = {"pos", "len", "dir", "obj"}
      /\ file'.pos \in Nat /\ rd'.buf \in Seq(Tokens) /\ rd'.left \in Nat /\ rd'.caller = rd.caller
      /\ file'.len = file.len /\ file'.dir = file.dir /\ file'.obj = file.obj
      /\ faults' \in Nat /\ (Fault \/ NoFaults) /\ pc' \in {"done", "next", "loop"}
  <2>1. PICK more \in Seq(Tokens) : /\ Len(more) \in Nat /\ Len(more) <= rd.left
                                   /\ rd'.buf = rd.buf \o more /\ rd'.left = rd.left - Len(more)
                                   /\ file'.pos = file.pos + Len(more)
    BY <1>0, LoopStep
  <2>2. file'.pos \in Nat /\ rd'.left \in Nat
    BY <1>2, <2>1
  <2>3. rd'.buf \in Seq(Tokens)
    BY <1>2, <2>1
  <2> QED BY <1>0, <2>2, <2>3, LoopStep
<1>10. Typed'
  BY <1>0, <1>9 DEF Typed, objs
<1>11. Flow'
  BY <1>0, <1>9 DEF RInv, Flow, Opening, Serving
<1>12. ASSUME Healthy' PROVE Right'
  <2> DEFINE items == disk.order.items
             text == Whole(disk, o)
  <2>1. Healthy /\ UNCHANGED faults /\ Sound(disk) /\ disk \in Images
    BY <1>0, <1>9, <1>12, HealthyBefore DEF Typed
  <2>2. /\ o \in DOMAIN objs /\ objs[o].mode # "dir" /\ t.errnum = "OK" /\ Reaches(disk, t, o, file.pos)
        /\ Delivered(text, file.pos, rd.buf)
    BY <1>0, <2>1 DEF RInv, Right, Reading, Serving
  <2>3. rd.caller = "open" => file.pos = Len(rd.buf) /\ Len(rd.buf) + rd.left = file.len
    BY <1>0, <2>1 DEF RInv, Right, Linking, Serving
  <2>4. Len(text) \in Nat /\ file.pos \in Nat /\ o \in Nat
    <3>1. PICK g \in DOMAIN items : IsStat(disk, o, g)
      BY <2>1, <2>2, HasStat
    <3>2. o \in Nat
      BY <2>1, <2>2, <3>1, StatSays
    <3>3. Len(text) \in Nat
      BY <2>1, <2>2, FileItems
    <3> QED BY <1>0, <3>2, <3>3 DEF Typed
  <2>5. CurrentItem(t).obj = o =>
            \E c \in DOMAIN items : /\ At(disk, t, c) /\ IsData(disk, o, c) /\ CurrentItem(t) = items[c]
                                    /\ items[c].off <= file.pos + 1
    <3>1. \A c \in DOMAIN items : At(disk, t, c) => CurrentItem(t) = items[c]
      BY <1>1, <2>1, ItemAt
    <3>2. Past(disk, t) => CurrentItem(t).obj = -1
      BY <1>1 DEF Past
    <3>3. o # -1
      BY <2>4
    <3> QED BY <2>2, <3>1, <3>2, <3>3 DEF Reaches
  <2>6. CASE CurrentItem(t).obj # o
    <3>1. pc' = "done" /\ UNCHANGED <<file, rd>>
      BY <1>1, <2>2, <2>6, LoopCases DEF Inside
    <3>2. Rests(disk, t, o) /\ file.pos >= Len(text)
      <4>1. \A c \in DOMAIN items : At(disk, t, c) => CurrentItem(t) = items[c]
        BY <1>1, <2>1, ItemAt
      <4>2. \A c \in DOMAIN items : At(disk, t, c) => ~IsData(disk, o, c) /\ ~IsStat(disk, o, c)
        BY <2>6, <4>1 DEF IsData, IsStat
      <4> HIDE DEF items
      <4> QED BY <2>2, <4>2 DEF Reaches, Rests, items
    <3> QED BY <1>0, <1>10, <1>11, <2>1, <2>2, <2>3, <3>1, <3>2, Served DEF Serving
  <2>7. CASE CurrentItem(t).obj = o /\ Ahead = <<>>
    <3>1. pc' = "next" /\ UNCHANGED <<file, rd>>
      BY <2>2, <2>7, LoopCases
    <3>2. PICK c \in DOMAIN items : /\ At(disk, t, c) /\ IsData(disk, o, c) /\ CurrentItem(t) = items[c]
                                    /\ items[c].off <= file.pos + 1
      BY <2>5, <2>7
    <3>3. ~(Offset \in 0 .. ItemLen(CurrentItem(t)) - 1)
      BY <1>1, <2>7 DEF Inside
    <3>4. CurrentItem(t).off \in Nat /\ ItemLen(CurrentItem(t)) \in Nat
      BY <1>1, <2>1, <3>2, Ordered, LengthIs
    <3>5. CurrentItem(t).off + ItemLen(CurrentItem(t)) <= file.pos + 1
      <4>1. \A a, l, p \in Nat : a <= p + 1 /\ ~(p - a + 1 \in 0 .. l - 1) => a + l <= p + 1
        OBVIOUS
      <4>2. CurrentItem(t).off <= file.pos + 1
        BY <3>2
      <4> QED BY <2>4, <3>3, <3>4, <4>1, <4>2 DEF Offset
    <3>6. Leaves(disk, t, o, file.pos)
      BY <2>7, <3>2, <3>5 DEF Leaves
    <3> QED BY <1>0, <1>10, <1>11, <2>1, <2>2, <2>3, <3>1, <3>6, Served DEF Serving
  <2>8. CASE CurrentItem(t).obj = o /\ Ahead # <<>>
    <3>1. /\ rd' = [rd EXCEPT !.left = @ - Len(Taken), !.buf = @ \o Taken]
          /\ file' = [file EXCEPT !.pos = @ + Len(Taken)]
          /\ pc' = IF rd'.left = 0 THEN "done" ELSE "loop"
      <4>1. ~Fault
        BY <1>2, <2>1 DEF Fault
      <4> QED BY <2>2, <2>8, <4>1, LoopCases
    <3>2. PICK c \in DOMAIN items : /\ At(disk, t, c) /\ IsData(disk, o, c) /\ CurrentItem(t) = items[c]
                                    /\ items[c].off <= file.pos + 1
      BY <2>5, <2>8
    <3>3. rd'.buf = rd.buf \o Taken /\ rd'.left = rd.left - Len(Taken) /\ file'.pos = file.pos + Len(Taken)
      BY <1>0, <3>1 DEF Typed
    <3>4. /\ rd.buf \in Seq(Tokens) /\ rd.left \in Nat /\ Taken \in Seq(Tokens)
          /\ Len(rd.buf) \in Nat /\ Len(Taken) \in Nat /\ Len(rd'.buf) = Len(rd.buf) + Len(Taken)
      <4>1. rd.buf \in Seq(Tokens) /\ Taken \in Seq(Tokens)
        BY <1>1, <1>2, <2>8
      <4>2. rd.left \in Nat
        BY <1>0 DEF Typed
      <4>3. Len(rd.buf \o Taken) = Len(rd.buf) + Len(Taken)
        BY <4>1
      <4> QED BY <3>3, <4>1, <4>2, <4>3
    <3>5. \A i \in 1 .. Len(Taken) : file.pos + i <= Len(text) => Taken[i] = text[file.pos + i]
      <4>1. Ahead = ItemBytes(CurrentItem(t), Offset) /\ Offset \in 0 .. ItemLen(CurrentItem(t)) - 1
        BY <1>1, <2>8 DEF Inside
      <4>2. \A k \in 1 .. Len(Ahead) : file.pos + k <= Len(text) => Ahead[k] = text[file.pos + k]
        <5>1. CurrentItem(t) = disk.order.items[c] /\ CurrentItem(t).obj = o
          BY <2>8, <3>2
        <5>2. \A k \in 1 .. Len(ItemBytes(CurrentItem(t), Offset)) :
                 file.pos + k <= Len(Whole(disk, o)) =>
                     ItemBytes(CurrentItem(t), Offset)[k] = Whole(disk, o)[file.pos + k]
          <6>1. Offset = file.pos - CurrentItem(t).off + 1
            BY DEF Offset
          <6> HIDE DEF o
          <6> QED BY <1>1, <2>1, <2>2, <2>4, <4>1, <5>1, <6>1, ItemServes
        <5> QED BY <4>1, <5>2
      <4> HIDE DEF text
      <4> QED BY <1>1, <2>8, <4>2
    <3>6. Delivered(text, file'.pos, rd'.buf)
      <4> DEFINE S == Tokens
      <4>1. rd.buf \in Seq(S) /\ Taken \in Seq(S)
        BY <3>4
      <4> HIDE DEF S, text
      <4>2. Delivered(text, file.pos + Len(Taken), rd.buf \o Taken)
        BY <2>2, <2>4, <3>5, <4>1, DeliveredMore
      <4> QED BY <3>3, <4>2
    <3>7. Reaches(disk, t', o, file'.pos) /\ Rests(disk, t', o)
      <4>1. items[c].off <= file'.pos + 1
        <5>1. items[c].off \in Nat
          BY <2>1, Ordered
        <5> HIDE DEF items
        <5> QED BY <2>4, <3>2, <3>3, <3>4, <5>1
      <4>2. ~IsStat(disk, o, c)
        BY <3>2 DEF IsData, IsStat
      <4> QED BY <1>0, <3>2, <4>1, <4>2 DEF Reaches, Rests
    <3>8. rd'.caller = "open" => /\ rd.caller = "open" /\ file'.pos = Len(rd'.buf)
                                 /\ Len(rd'.buf) + rd'.left = file.len
      BY <1>9, <2>3, <2>4, <3>3, <3>4
    <3>9. pc' \in {"loop", "done"} /\ (pc' = "done" => rd'.left = 0)
      BY <3>1
    <3> QED BY <1>0, <1>9, <1>10, <1>11, <2>1, <2>2, <3>6, <3>7, <3>8, <3>9, Served DEF Serving
  <2> QED BY <2>6, <2>7, <2>8
<1> QED BY <1>10, <1>11, <1>12 DEF RInv

LEMMA NextKeeps == RInv /\ Calm /\ [Next]_vars => RInv'
<1> SUFFICES ASSUME RInv, Calm, [Next]_vars PROVE RInv'
  OBVIOUS
<1>1. CASE reiserfs_open
  BY <1>1, OpenKeeps
<1>2. CASE reiserfs_read_super
  BY <1>2, SuperKeeps
<1>3. CASE JournalHeader
  BY <1>3, HeaderKeeps
<1>4. CASE journal_init
  BY <1>4, JournalKeeps
<1>5. CASE ReadSuperAgain \/ ReadRoot
  BY <1>5, AgainKeeps, RootKeeps
<1>6. CASE OpenStat
  BY <1>6, StatKeeps
<1>7. CASE OpenLink
  BY <1>7, LinkKeeps
<1>8. CASE ReadLink
  BY <1>8, ReadLinkKeeps
<1>9. CASE LinkRead
  BY <1>9, LinkReadKeeps
<1>10. CASE OpenEnd
  BY <1>10, EndKeeps
<1>11. CASE OpenName
  BY <1>11, NameKeeps
<1>12. CASE OpenDirItem
  BY <1>12, DirItemKeeps
<1>13. CASE SearchFile
  BY <1>13, SearchKeeps
<1>14. CASE NextKey
  BY <1>14, KeyKeeps
<1>15. CASE ReadLoop
  BY <1>15, LoopKeeps
<1>16. CASE ReadReturn
  BY <1>16, ReturnKeeps
<1>17. CASE reiserfs_close
  BY <1>17, CloseKeeps
<1>18. CASE UNCHANGED vars
  BY <1>18, StutterKeeps
<1>19. ASSUME NEW p \in Positions, reiserfs_seek(p) PROVE RInv'
  BY <1>19, SeekKeeps
<1>20. ASSUME NEW n \in Sizes, reiserfs_read(n) PROVE RInv'
  BY <1>20, CallKeeps
<1> QED
  BY <1>1, <1>2, <1>3, <1>4, <1>5, <1>6, <1>7, <1>8, <1>9, <1>10, <1>11, <1>12, <1>13, <1>14, <1>15,
     <1>16, <1>17, <1>18, <1>19, <1>20 DEF Next, Steps, Finished

(* What journal_init has counted it leaves behind.                         *)
LEMMA CalmKeeps == RInv /\ Calm /\ [Next]_vars /\ RInv' => Calm'
<1> SUFFICES ASSUME RInv, Calm, [Next]_vars, RInv', Healthy' PROVE jr'.transactions = 0
  BY DEF Calm
<1>1. CASE pc' \in {"super", "header", "desc", "again"}
  <2>1. NoJournal.transactions = 0
    BY DEF NoJournal
  <2>2. Mounting'
    BY DEF RInv, Right
  <2> QED BY <1>1, <2>1, <2>2 DEF Mounting
<1>2. CASE UNCHANGED <<disk, jr>> /\ (Fault \/ NoFaults)
  <2>1. Healthy
    BY <1>2, HealthyBefore DEF RInv
  <2> QED BY <1>2, <2>1 DEF Calm
<1>3. CASE reiserfs_open \/ reiserfs_read_super \/ JournalHeader \/ journal_init \/ ReadSuperAgain \/ ReadRoot
  <2>1. pc' \in {"super", "header", "desc", "again"} \/ (UNCHANGED <<disk, jr>> /\ (Fault \/ NoFaults))
    BY <1>3 DEF reiserfs_open, reiserfs_read_super, JournalHeader, journal_init, ReadSuperAgain, ReadRoot, NoFaults
  <2> QED BY <1>1, <1>2, <2>1
<1>4. CASE OpenStat \/ OpenLink \/ ReadLink \/ LinkRead \/ OpenEnd \/ OpenName \/ OpenDirItem
  <2>1. UNCHANGED <<disk, jr>> /\ (Fault \/ NoFaults)
    BY <1>4 DEF OpenStat, OpenLink, ReadLink, LinkRead, OpenEnd, OpenName, OpenDirItem, Walk, NoFaults
  <2> QED BY <1>2, <2>1
<1>5. CASE SearchFile \/ NextKey \/ ReadLoop \/ ReadReturn \/ reiserfs_close \/ UNCHANGED vars
  <2>1. UNCHANGED <<disk, jr>> /\ (Fault \/ NoFaults)
    BY <1>5 DEF SearchFile, NextKey, ReadLoop, ReadReturn, reiserfs_close, vars, Walk, NoFaults
  <2> QED BY <1>2, <2>1
<1>6. ASSUME NEW p, reiserfs_seek(p) \/ reiserfs_read(p) PROVE jr'.transactions = 0
  <2>1. UNCHANGED <<disk, jr>> /\ (Fault \/ NoFaults)
    BY <1>6 DEF reiserfs_seek, reiserfs_read, NoFaults
  <2> QED BY <1>2, <2>1
<1> QED BY <1>3, <1>4, <1>5, <1>6 DEF Next, Steps, Finished

LEMMA RightPlace == Spec => []RInv
<1>1. Init => RInv /\ Calm
  BY InitInv DEF Init, Calm, NoJournal
<1>2. RInv /\ Calm /\ [Next]_vars => RInv' /\ Calm'
  BY NextKeeps, CalmKeeps
<1> QED BY <1>1, <1>2, PTL DEF Spec

(* On a sound disk that can be read, reiserfs_open ends as the path says,  *)
(* with the file it names or with the reason why it names none: for every  *)
(* tree the cache can follow, whatever it holds from earlier walks.        *)
THEOREM OpensWhatIsNamed == Spec => []LookupRight
<1>1. RInv => LookupRight
  BY DEF RInv, Healthy, Right, Ended, LookupRight
<1> QED BY <1>1, RightPlace, PTL

-----------------------------------------------------------------------------
(***************************************************************************)
(* The refinement of FileReader.                                           *)
(***************************************************************************)
(* The file, the buffer and the size as FileReader sees them.              *)
Named == IF named.res = "OK" THEN objs[named.at].bytes ELSE <<>>

Got == IF rd.caller = "open" THEN <<>> ELSE rd.buf

Want == IF rd.caller = "open" THEN 0 ELSE rd.left + Len(rd.buf)

State == IF rd.caller = "read" THEN "reading" ELSE "idle"

LEMMA ReaderInit == Init => Reader!Init
<1> SUFFICES ASSUME Init PROVE Reader!Init
  OBVIOUS
<1>1. rd.buf = <<>> /\ rd.left = 0 /\ rd.caller = "none" /\ file.pos = 0
  BY DEF Init, NoRead
<1>2. Got = <<>> /\ Want = 0 /\ State = "idle"
  <2>1. Len(<<>>) = 0
    OBVIOUS
  <2> QED BY <1>1, <2>1 DEF Got, Want, State
<1>3. Sick \in BOOLEAN
  BY DEF Sick
<1> QED BY <1>1, <1>2, <1>3 DEF Reader!Init, Got, Want, State

LEMMA StaysSick ==
    ASSUME Typed, disk' = disk, Fault \/ NoFaults PROVE Sick => Sick'
BY DEF Typed, Sick, Fault, NoFaults

(* Between two reads.                                                      *)
LEMMA Idles ==
    ASSUME Typed, Typed', disk' = disk, named' = named, Fault \/ NoFaults,
           State = "idle", State' = "idle", Got' = Got, Want' = Want
    PROVE  Reader!Next
<1>1. file'.pos \in Nat
  BY DEF Typed
<1>2. Named' = Named
  BY DEF Named, objs
<1>3. Sick => Sick'
  BY StaysSick
<1> QED BY <1>1, <1>2, <1>3 DEF Reader!Next, Reader!Seek, Named, Got, Want, State

(* In a read, with `more' for the bytes that arrive.                       *)
LEMMA Arrives ==
    ASSUME RInv, RInv', UNCHANGED <<disk, named, result>>, Fault \/ NoFaults,
           rd.caller = "read", pc \in Serving, pc' \in Serving \cup {"idle"},
           rd'.caller \in {"read", "none"}, file'.obj = file.obj,
           Healthy' => Delivered(Whole(disk, file.obj), file'.pos, rd'.buf),
           NEW more \in Seq(Tokens), Len(more) \in Nat, Len(more) <= rd.left,
           rd'.buf = rd.buf \o more, rd'.left = rd.left - Len(more), file'.pos = file.pos + Len(more)
    PROVE  /\ Reader!Arrive /\ State = "reading"
           /\ Healthy' => Named = Whole(disk, file.obj)
<1> DEFINE old == Len(rd.buf)
           new == Len(rd'.buf)
<1>1. Typed /\ rd.buf \in Seq(Tokens) /\ old \in Nat /\ rd.left \in Nat /\ file.pos \in Nat
  BY DEF RInv, Typed
<1>2. new = old + Len(more) /\ new \in Nat
  BY <1>1
<1>3. Got = rd.buf /\ Got' = rd'.buf /\ State = "reading"
  BY DEF Got, State
<1>4. Want' = Want /\ new <= Want /\ file'.pos = file.pos + new - old
  <2> HIDE DEF new, old
  <2>1. (rd.left - Len(more)) + (old + Len(more)) = rd.left + old
    BY <1>1
  <2>2. Want = rd.left + old /\ Want' = rd'.left + new
    BY DEF Want, old, new
  <2>3. file.pos + (old + Len(more)) - old = file.pos + Len(more)
    BY <1>1
  <2> QED BY <1>1, <1>2, <2>1, <2>2, <2>3
<1>5. SubSeq(rd'.buf, 1, old) = rd.buf
  BY <1>1
<1>6. Named' = Named /\ (Sick => Sick')
  BY <1>1, StaysSick DEF Named, objs
<1>7. ASSUME Healthy' PROVE Named = Whole(disk, file.obj) /\ Whole(disk, file.obj) \in Seq(STRING)
  <2>1. Healthy /\ Sound(disk)
    BY <1>1, <1>7, HealthyBefore DEF RInv
  <2>2. result = "OK"
    BY DEF RInv, Flow
  <2>3. named.res = "OK" /\ file.obj = named.at /\ objs[named.at].mode = "reg"
    BY <2>1, <2>2 DEF RInv, Right, Ended
  <2>4. file.obj \in DOMAIN objs
    BY <2>1 DEF RInv, Right, Reading
  <2>5. Whole(disk, file.obj) = objs[named.at].bytes /\ Whole(disk, file.obj) \in Seq(STRING)
    BY <2>1, <2>3, <2>4, FileItems
  <2> QED BY <2>3, <2>5 DEF Named
<1>8. ASSUME ~Sick', NEW i \in old + 1 .. new, file.pos + i - old <= Len(Named)
      PROVE  rd'.buf[i] = Named[file.pos + i - old]
  <2>1. Healthy'
    BY <1>8 DEF Sick, Healthy, RInv, Typed
  <2> DEFINE text == Whole(disk, file.obj)
  <2>2. Named = text /\ Delivered(text, file'.pos, rd'.buf)
    BY <1>7, <2>1
  <2> HIDE DEF text
  <2>3. i \in 1 .. new
    BY <1>1, <1>2
  <2>4. file'.pos - new + i = file.pos + i - old
    <3>1. i \in Int /\ file'.pos = file.pos + Len(more)
      BY <1>1, <1>2
    <3>2. \A a, b, m, k \in Int : (a + m) - (b + m) + k = a + k - b
      OBVIOUS
    <3>3. (file.pos + Len(more)) - (old + Len(more)) + i = file.pos + i - old
      BY <1>1, <3>1, <3>2
    <3> QED BY <1>2, <3>1, <3>3
  <2>5. file'.pos - new + i <= Len(text) => rd'.buf[i] = text[file'.pos - new + i]
    BY <2>2, <2>3 DEF Delivered
  <2> QED BY <1>8, <2>2, <2>4, <2>5
<1>9. old <= new
  BY <1>1, <1>2
<1>10. Reader!Arrive
  <2>1. Sick' \/ \A i \in old + 1 .. new : file.pos + i - old <= Len(Named) => rd'.buf[i] = Named[file.pos + i - old]
    BY <1>8
  <2> QED BY <1>3, <1>4, <1>5, <1>6, <1>9, <2>1 DEF Reader!Arrive, Named, Got, Want
<1> QED BY <1>3, <1>7, <1>10

(* A step that leaves the buffer alone.                                    *)
LEMMA Nothing ==
    ASSUME RInv, RInv', UNCHANGED <<disk, named, rd>>, Fault \/ NoFaults,
           rd.caller = "read" => UNCHANGED <<file, result>>
    PROVE  Reader!Next
<1>1. CASE rd.caller # "read"
  BY <1>1, Idles DEF RInv, State, Got, Want
<1>2. CASE rd.caller = "read"
  <2>1. /\ pc \in Serving /\ pc' \in Serving /\ <<>> \in Seq(Tokens) /\ Len(<<>>) = 0
        /\ rd.left \in Nat /\ file.pos \in Nat /\ rd.buf \in Seq(Tokens)
    BY <1>2 DEF RInv, Flow, Typed
  <2>2. rd'.buf = rd.buf \o <<>> /\ rd'.left = rd.left - 0 /\ file'.pos = file.pos + 0 /\ 0 <= rd.left
    BY <1>2, <2>1
  <2>3. Healthy' => Delivered(Whole(disk, file.obj), file'.pos, rd'.buf)
    BY <1>2, <2>1 DEF RInv, Right, Reading
  <2>4. Reader!Arrive /\ State = "reading" /\ State' = "reading"
    BY <1>2, <2>1, <2>2, <2>3, Arrives DEF State
  <2> QED BY <2>4 DEF Reader!Next, Reader!Deliver, State
<1> QED BY <1>1, <1>2

LEMMA ReaderNext == RInv /\ RInv' /\ [Next]_vars => [Reader!Next]_(Reader!vars)
<1> SUFFICES ASSUME RInv, RInv', [Next]_vars PROVE [Reader!Next]_(Reader!vars)
  OBVIOUS
<1>0. Typed /\ Typed'
  BY DEF RInv
<1>1. CASE UNCHANGED vars
  <2>1. UNCHANGED <<disk, named, file, rd, faults>>
    BY <1>1 DEF vars
  <2> QED BY <2>1 DEF Reader!vars, objs, Sick
<1>2. CASE reiserfs_open \/ reiserfs_read_super \/ JournalHeader \/ journal_init \/ ReadSuperAgain \/ ReadRoot
           \/ OpenName \/ reiserfs_close
  <2>1. UNCHANGED <<disk, named, rd>> /\ (Fault \/ NoFaults) /\ rd.caller # "read"
    <3>1. pc \in {"closed", "super", "header", "desc", "again", "root", "leave", "idle"} /\ UNCHANGED <<disk, named, rd>>
      BY <1>2 DEF reiserfs_open, reiserfs_read_super, JournalHeader, journal_init, ReadSuperAgain, ReadRoot,
                  OpenName, reiserfs_close
    <3>2. Fault \/ NoFaults
      BY <1>2 DEF reiserfs_open, reiserfs_read_super, JournalHeader, journal_init, ReadSuperAgain, ReadRoot,
                  OpenName, reiserfs_close, NoFaults
    <3> QED BY <3>1, <3>2 DEF RInv, Flow, Serving
  <2> QED BY <2>1, Nothing
<1>3. CASE OpenStat
  <2>1. UNCHANGED <<disk, named, rd>> /\ rd.caller # "read" /\ Walk(LAMBDA f : search_stat(t, look.dir, look.obj, f))
    BY <1>3 DEF OpenStat, RInv, Flow, Serving
  <2>2. /\ Shape(t') /\ (Fault \/ NoFaults) /\ faults' \in Nat
        /\ t'.ok => CurrentItem(t').type = "stat"
        /\ UNCHANGED faults /\ jr.transactions = 0 => LET v == search_stat(t, look.dir, look.obj, NoFault)
                                                      IN  SameWalk(v, t') /\ t'.ok = v.ok /\ t'.errnum = v.errnum
    BY <1>0, <2>1, WalkStat
  <2> QED BY <2>1, <2>2, Nothing
<1>4. CASE ReadLink \/ OpenDirItem \/ OpenEnd \/ NextKey
  <2>1. /\ UNCHANGED <<disk, named, rd>> /\ (NoFaults \/ Walk(LAMBDA f : next_key(t, f)))
        /\ rd.caller = "read" => UNCHANGED <<file, result>>
    BY <1>4 DEF ReadLink, OpenDirItem, OpenEnd, NextKey, RInv, Flow, Serving
  <2>2. ASSUME Walk(LAMBDA f : next_key(t, f)) PROVE Fault \/ NoFaults
    <3>1. /\ Shape(t') /\ (Fault \/ NoFaults) /\ faults' \in Nat
          /\ UNCHANGED faults /\ jr.transactions = 0 => LET v == next_key(t, NoFault)
                                                        IN  SameWalk(v, t') /\ t'.ok = v.ok /\ t'.errnum = v.errnum
      BY <1>0, <2>2, WalkNext
    <3> QED BY <3>1
  <2>3. Fault \/ NoFaults
    BY <2>1, <2>2
  <2> QED BY <2>1, <2>3, Nothing
<1>5. CASE SearchFile
  <2>1. /\ UNCHANGED <<disk, named, rd, file, result>>
        /\ NoFaults \/ Walk(LAMBDA f : search_stat(t, file.dir, file.obj, f))
    BY <1>5 DEF SearchFile
  <2>2. ASSUME Walk(LAMBDA f : search_stat(t, file.dir, file.obj, f)) PROVE Fault \/ NoFaults
    <3>1. /\ Shape(t') /\ (Fault \/ NoFaults) /\ faults' \in Nat
          /\ t'.ok => CurrentItem(t').type = "stat"
          /\ UNCHANGED faults /\ jr.transactions = 0 => LET v == search_stat(t, file.dir, file.obj, NoFault)
                                                        IN  SameWalk(v, t') /\ t'.ok = v.ok /\ t'.errnum = v.errnum
      BY <1>0, <2>2, WalkStat
    <3> QED BY <3>1
  <2>3. Fault \/ NoFaults
    BY <2>1, <2>2
  <2> QED BY <2>1, <2>3, Nothing
<1>6. CASE OpenLink \/ LinkRead
  <2>1. /\ UNCHANGED <<disk, named, faults>> /\ pc \in {"leave", "done"}
        /\ pc = "leave" => rd = NoRead /\ (rd' = rd \/ rd'.caller = "open")
        /\ pc = "done" => rd.caller = "open" /\ rd' = NoRead
    BY <1>6 DEF OpenLink, LinkRead, RInv, Flow
  <2>2. NoRead.caller = "none" /\ NoRead.left + Len(NoRead.buf) = 0 /\ NoRead.buf = <<>>
    <3>1. Len(<<>>) = 0
      OBVIOUS
    <3> QED BY <3>1 DEF NoRead
  <2>3. State = "idle" /\ State' = "idle" /\ Got' = Got /\ Want' = Want
    BY <2>1, <2>2 DEF State, Got, Want
  <2> QED BY <1>0, <2>1, <2>3, Idles DEF NoFaults
<1>7. CASE ReadLoop
  <2>1. UNCHANGED <<disk, named, result>> /\ pc = "loop"
    BY <1>7, LoopCases
  <2>2. /\ rd'.caller = rd.caller /\ file'.obj = file.obj /\ (Fault \/ NoFaults)
        /\ pc' \in {"done", "next", "loop"}
    BY <1>0, <1>7, LoopStep
  <2>3. CASE rd.caller = "open"
    <3>1. State = "idle" /\ State' = "idle" /\ Got' = Got /\ Want' = Want
      BY <2>2, <2>3 DEF State, Got, Want
    <3> QED BY <1>0, <2>1, <2>2, <3>1, Idles
  <2>4. CASE rd.caller = "read"
    <3>1. PICK more \in Seq(Tokens) :
              /\ Len(more) \in Nat /\ Len(more) <= rd.left
              /\ rd'.buf = rd.buf \o more /\ rd'.left = rd.left - Len(more)
              /\ file'.pos = file.pos + Len(more)
      BY <1>0, <1>7, LoopStep
    <3>2. Healthy' => Delivered(Whole(disk, file.obj), file'.pos, rd'.buf)
      BY <2>1, <2>2 DEF RInv, Right, Reading, Serving
    <3>3. Reader!Arrive /\ State = "reading" /\ State' = "reading"
      BY <2>1, <2>2, <2>4, <3>1, <3>2, Arrives DEF State, Serving
    <3> QED BY <3>3 DEF Reader!Next, Reader!Deliver, State
  <2> QED BY <2>1, <2>3, <2>4 DEF RInv, Flow, Serving
<1>8. CASE ReadReturn
  <2>1. /\ pc = "done" /\ pc' = "idle" /\ rd.caller = "read" /\ rd' = [rd EXCEPT !.caller = "none"]
        /\ UNCHANGED <<disk, named, file, result, faults>>
    BY <1>8 DEF ReadReturn
  <2>2. rd'.buf = rd.buf /\ rd'.left = rd.left /\ rd'.caller = "none"
    BY <1>0, <2>1 DEF Typed
  <2>3. /\ <<>> \in Seq(Tokens) /\ Len(<<>>) = 0 /\ rd'.buf = rd.buf \o <<>>
        /\ rd'.left = rd.left - 0 /\ file'.pos = file.pos + 0 /\ 0 <= rd.left
        /\ rd.left \in Nat /\ Len(rd.buf) \in Nat
    BY <1>0, <2>1, <2>2 DEF Typed
  <2>4. Healthy' => /\ Delivered(Whole(disk, file.obj), file'.pos, rd'.buf)
                    /\ rd.left = 0 \/ file.pos >= Len(Whole(disk, file.obj))
    BY <2>1, <2>2 DEF Healthy, RInv, Right, Reading, Serving
  <2>5. Reader!Arrive /\ State = "reading" /\ State' = "idle" /\ (Healthy' => Named = Whole(disk, file.obj))
    BY <2>1, <2>2, <2>3, <2>4, Arrives DEF State, Serving, NoFaults
  <2>6. Sick' \/ Len(Got') = Want \/ file'.pos >= Len(Named)
    <3>1. ~Sick' => Healthy'
      BY <1>0 DEF Sick, Healthy, Typed
    <3>2. Got' = rd.buf /\ Want = rd.left + Len(rd.buf)
      BY <2>1, <2>2 DEF Got, Want
    <3>3. rd.left = 0 => Len(Got') = Want
      BY <2>3, <3>2
    <3> QED BY <2>1, <2>4, <2>5, <3>1, <3>3
  <2> QED BY <2>5, <2>6 DEF Reader!Next, Reader!Return, State, Got, Want, Named
<1>9. ASSUME NEW p \in Positions, reiserfs_seek(p) PROVE [Reader!Next]_(Reader!vars)
  <2>1. UNCHANGED <<disk, named, rd, faults>> /\ rd.caller # "read"
    BY <1>9 DEF reiserfs_seek, RInv, Flow, Serving
  <2> QED BY <2>1, Nothing DEF NoFaults
<1>10. ASSUME NEW n \in Sizes, reiserfs_read(n) PROVE [Reader!Next]_(Reader!vars)
  <2>1. /\ UNCHANGED <<disk, named, file, faults>> /\ pc = "idle"
        /\ rd' = [buf |-> <<>>, left |-> n, caller |-> "read"]
    BY <1>10 DEF reiserfs_read
  <2>2. State = "idle"
    BY <2>1 DEF RInv, Flow, Serving, State
  <2>3. Got' = <<>> /\ Want' \in Nat /\ State' = "reading"
    <3>1. n \in Nat
      BY ReiserAssumption
    <3>2. rd'.buf = <<>> /\ rd'.left = n /\ rd'.caller = "read" /\ Len(<<>>) = 0
      BY <2>1
    <3> QED BY <3>1, <3>2 DEF Got, Want, State
  <2>4. Named' = Named /\ Sick' = Sick /\ file'.pos = file.pos
    BY <2>1 DEF Named, objs, Sick
  <2> QED BY <2>2, <2>3, <2>4 DEF Reader!Next, Reader!Call, State, Got, Want, Named
<1> QED
  BY <1>1, <1>2, <1>3, <1>4, <1>5, <1>6, <1>7, <1>8, <1>9, <1>10 DEF Next, Steps, Finished

(* Reading the opened file, with seeks in between and disk reads that may  *)
(* fail, does what FileReader promises: bytes arrive in order, each the    *)
(* file's byte at its place, file->pos advances with them, and a read on a *)
(* sound disk returns all that was asked for or all the file still has.    *)
THEOREM ImplementsFileReader == Spec => ImplementsReader
<1>1. Spec => []RInv
  BY RightPlace
<1> QED
  BY <1>1, ReaderInit, ReaderNext, PTL DEF Spec, ImplementsReader, Reader!Spec
=============================================================================
