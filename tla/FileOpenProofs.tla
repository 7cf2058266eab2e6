--------------------------- MODULE FileOpenProofs ---------------------------
(***************************************************************************)
(* For every disk, every set of partition numbers and every number of      *)
(* opens: HandleBalance, no way out of open_file leaves an instance or a   *)
(* load buffer behind but those of swap_open; OpenSound, what is reported  *)
(* open is what was asked for; and OpenComplete, a file that is there is   *)
(* opened when nothing fails.                                              *)
(***************************************************************************)
EXTENDS FileOpen, FiniteSetTheorems, TLAPS

(* HandleBalance only speaks of the time between two calls.  Inside        *)
(* fs_open nothing is held between two drivers either (Between); the       *)
(* instances swap_open left are open and never the one of a file           *)
(* (Abandoned), so that closing a file cannot close one of them.           *)
Between == pc = "try" => handles \subseteq swapped /\ kind # "NET"

Abandoned ==
    /\ IsFiniteSet(handles) /\ swapped \subseteq handles
    /\ pc = "open" => of_device \notin swapped

BalanceInv ==
    /\ pc \in {"idle", "try", "open"} /\ claims \in 0 .. 1
    /\ Between /\ Abandoned /\ HandleBalance

(* An instance the firmware hands out is not one that is open.             *)
LEMMA NewHandleIsNew ==
    ASSUME IsFiniteSet(handles)
    PROVE  NewHandle \notin handles
  <1> DEFINE n == Cardinality(handles)
  <1>1. n \in Nat
    BY FS_CardinalityType
  <1>2. ~(1 .. n + 1 \subseteq handles)
    <2> SUFFICES ASSUME 1 .. n + 1 \subseteq handles PROVE FALSE
      OBVIOUS
    <2>1. Cardinality(1 .. n + 1) = n + 1
      BY <1>1, FS_Interval
    <2>2. Cardinality(1 .. n + 1) <= n
      BY FS_Subset
    <2> QED
      BY <1>1, <2>1, <2>2
  <1>3. \E h \in 1 .. n + 1 : h \notin handles
    BY <1>2
  <1> QED
    BY <1>3 DEF NewHandle

(* What fs_open and the partition search do with a driver's answer.        *)
LEMMA ReturnOutcome ==
    ASSUME NEW err, pc = "try", Return(err)
    PROVE  /\ kind' = kind
           /\ err = "OK" => pc' = "open" /\ drv' = drv
           /\ err # "OK" => pc' \in {"try", "idle"}
  BY DEF Return, fsOpenGoesOn

LEMMA BalanceInit == Init => BalanceInv
  BY FS_EmptySet DEF Init, BalanceInv, Between, Abandoned, HandleBalance

(* A driver that fails and has closed its instance, or never had one.      *)
LEMMA AnswerClosed ==
    ASSUME BalanceInv, pc = "try", NEW err, err # "OK", Return(err), Closed,
           UNCHANGED <<swapped, claims>>
    PROVE  BalanceInv'
  BY ReturnOutcome DEF Closed, BalanceInv, Between, Abandoned, HandleBalance

(* A driver that opened the file.                                          *)
LEMMA AnswerOpen ==
    ASSUME BalanceInv, pc = "try", Return("OK"), Kept, UNCHANGED <<swapped, claims>>
    PROVE  BalanceInv'
  <1>1. NewHandle \notin handles /\ IsFiniteSet(handles \cup {NewHandle})
    BY NewHandleIsNew, FS_AddElement DEF BalanceInv, Abandoned
  <1>2. pc' = "open" /\ kind' = kind
    BY ReturnOutcome
  <1> QED
    BY <1>1, <1>2 DEF Kept, BalanceInv, Between, Abandoned, HandleBalance

(* swap_open walks away from its instance.                                 *)
LEMMA AnswerAbandoned ==
    ASSUME BalanceInv, pc = "try", NEW err, err # "OK", Return(err), Kept,
           swapped' = swapped \cup {NewHandle}, UNCHANGED claims
    PROVE  BalanceInv'
  <1>1. IsFiniteSet(handles \cup {NewHandle})
    BY FS_AddElement DEF BalanceInv, Abandoned
  <1>2. pc' \in {"try", "idle"} /\ kind' = kind
    BY ReturnOutcome
  <1> QED
    BY <1>1, <1>2 DEF Kept, BalanceInv, Between, Abandoned, HandleBalance

(* reiserfs_open has closed the disk and reports the file open.            *)
LEMMA AnswerDangling ==
    ASSUME BalanceInv, Driver("reiserfs"), Return("OK"), Dangling, fault' = TRUE,
           UNCHANGED <<swapped, claims>>
    PROVE  BalanceInv'
  <1>1. NewHandle \notin handles
    BY NewHandleIsNew DEF BalanceInv, Abandoned
  <1>2. pc = "try" /\ pc' = "open" /\ kind' = kind /\ block_filesystems[drv'] = "reiserfs"
    BY ReturnOutcome DEF Driver
  <1> QED
    BY <1>1, <1>2 DEF Dangling, BalanceInv, Between, Abandoned, HandleBalance

(* The opens that ext2, XFS and ReiserFS share.                            *)
LEMMA SharedOpen ==
    ASSUME BalanceInv, pc = "try", UNCHANGED <<swapped, claims>>,
           NEW d, NEW refused, NEW missing, refused # "OK", missing # "OK",
           MountAndLookup(d, refused, missing)
    PROVE  BalanceInv'
  BY AnswerClosed, AnswerOpen DEF MountAndLookup

LEMMA BadReadOpen ==
    ASSUME BalanceInv, pc = "try", UNCHANGED <<swapped, claims>>,
           NEW d, NEW errs, BadRead(d, errs)
    PROVE  BalanceInv'
  <1>1. PICK err \in errs : Return(err) /\ (IF err = "OK" THEN Kept ELSE Closed)
    BY DEF BadRead
  <1>2. CASE err = "OK"
    BY <1>1, <1>2, AnswerOpen
  <1>3. CASE err # "OK"
    BY <1>1, <1>3, AnswerClosed
  <1> QED
    BY <1>2, <1>3

LEMMA OpensStep == BalanceInv /\ Opens => BalanceInv'
  <1> SUFFICES ASSUME BalanceInv, Opens PROVE BalanceInv'
    OBVIOUS
  <1>1. CASE OpenUnknown
    BY <1>1 DEF OpenUnknown, BalanceInv, Between, Abandoned, HandleBalance
  <1>2. ASSUME NEW k \in {"BLOCK", "ISCSI"}, NEW n \in Wanted, OpenBlock(k, n)
        PROVE  BalanceInv'
    BY <1>2 DEF OpenBlock, BalanceInv, Between, Abandoned, HandleBalance
  <1>3. CASE of_net_open
    <2>1. NewHandle \notin handles /\ IsFiniteSet(handles \cup {NewHandle})
      BY NewHandleIsNew, FS_AddElement DEF BalanceInv, Abandoned
    <2> QED
      BY <1>3, <2>1 DEF of_net_open, Kept, Closed, BalanceInv, Between, Abandoned, HandleBalance
  <1> QED
    BY <1>1, <1>2, <1>3 DEF Opens

LEMMA DriverStep ==
    BalanceInv /\ (swap_open \/ ext2_open \/ xfs_open \/ reiserfs_open \/ of_open) => BalanceInv'
  <1> SUFFICES ASSUME BalanceInv,
                      swap_open \/ ext2_open \/ xfs_open \/ reiserfs_open \/ of_open
               PROVE  BalanceInv'
    OBVIOUS
  <1>1. CASE swap_open
    BY <1>1, AnswerClosed, AnswerAbandoned DEF swap_open, Driver
  <1>2. CASE ext2_open
    <2>1. CASE opened
      BY <1>2, <2>1, AnswerClosed DEF ext2_open, Driver
    <2>2. CASE ~opened
      BY <1>2, <2>2, SharedOpen, BadReadOpen DEF ext2_open, Driver
    <2> QED
      BY <2>1, <2>2
  <1>3. CASE xfs_open
    BY <1>3, SharedOpen, BadReadOpen DEF xfs_open, Driver
  <1>4. CASE reiserfs_open
    BY <1>4, SharedOpen, BadReadOpen, AnswerDangling DEF reiserfs_open, Driver
  <1>5. CASE of_open
    BY <1>5, AnswerClosed, AnswerOpen DEF of_open, Driver
  <1> QED
    BY <1>1, <1>2, <1>3, <1>4, <1>5

LEMMA CloseStep ==
    BalanceInv /\ (ext2_close \/ block_close \/ of_close) => BalanceInv'
  <1> SUFFICES ASSUME BalanceInv, ext2_close \/ block_close \/ of_close PROVE BalanceInv'
    OBVIOUS
  <1>1. IsFiniteSet(handles \ {of_device})
    BY FS_RemoveElement DEF BalanceInv, Abandoned
  <1>2. /\ pc = "open" /\ pc' = "idle" /\ handles' = handles \ {of_device}
        /\ UNCHANGED <<kind, swapped>>
        /\ claims' = IF kind = "NET" THEN claims - 1 ELSE claims
    BY DEF ext2_close, block_close, of_close, CloseHandle
  <1> QED
    BY <1>1, <1>2 DEF BalanceInv, Between, Abandoned, HandleBalance

LEMMA BalanceInvariance == Spec => []BalanceInv
  <1>1. BalanceInv /\ [Next]_vars => BalanceInv'
    <2>1. BalanceInv /\ UNCHANGED vars => BalanceInv'
      BY DEF vars, BalanceInv, Between, Abandoned, HandleBalance
    <2> QED
      BY <2>1, OpensStep, DriverStep, CloseStep DEF Next, Finished
  <1> QED
    BY <1>1, BalanceInit, PTL DEF Spec

(* Between two calls of open_file yaboot holds the instance of its open    *)
(* file and those swap_open abandoned, and a load buffer only for a        *)
(* network file, whatever disks, drivers and firmware answer and however   *)
(* many files are opened.                                                  *)
THEOREM HandlesBalance == Spec => []HandleBalance
  BY BalanceInvariance, PTL DEF BalanceInv

-----------------------------------------------------------------------------
(***************************************************************************)
(* OpenSound.  Inside fs_open the partition handed to the drivers is one   *)
(* that was asked for (Asked); unless something failed, the partitions     *)
(* before it do not have the file, and if it has, its driver is still to   *)
(* come (Passed).  Only local disks get past swap_open (Local), and ext2   *)
(* is busy only while its file is open (Busy).                             *)
(***************************************************************************)
NrOf(d) == IF d = "ext2" THEN 2 ELSE IF d = "xfs" THEN 3 ELSE IF d = "reiserfs" THEN 4 ELSE 5

DriverNr(p) == NrOf(p.on)

Listed ==
    /\ disk \in Seq(Partition) /\ parts \in Seq(Partition)
    /\ drv \in 1 .. 5 /\ cur \in 0 .. Len(parts) /\ want \in Int /\ fault \in BOOLEAN

Asked == pc = "try" /\ cur # 0 => Eligible(parts[cur])

Passed ==
    pc = "try" /\ ~fault /\ kind = "BLOCK" =>
        /\ \A i \in 1 .. cur - 1 : want = AnyPart => ~Serves(parts[i])
        /\ cur # 0 /\ Serves(parts[cur]) => DriverNr(parts[cur]) >= drv

Local == pc = "try" /\ kind # "BLOCK" => drv = 1

Busy == opened => pc = "open" /\ kind # "NET" /\ block_filesystems[drv] = "ext2"

SoundInv == Listed /\ Asked /\ Passed /\ Local /\ Busy /\ OpenSound

LEMMA DriverTable ==
    /\ Len(block_filesystems) = 5
    /\ \A d \in 1 .. 5 : /\ block_filesystems[d] = "swap" <=> d = 1
                         /\ block_filesystems[d] = "ext2" <=> d = 2
                         /\ block_filesystems[d] = "xfs" <=> d = 3
                         /\ block_filesystems[d] = "reiserfs" <=> d = 4
                         /\ block_filesystems[d] = "of" <=> d = 5
  BY DEF block_filesystems

(* The answer err was right not to open the current partition: it does not *)
(* have the file, or a later driver is to find it; or something failed.    *)
Rightly(err) ==
    \/ fault' = TRUE
    \/ /\ UNCHANGED fault
       /\ cur # 0 /\ kind = "BLOCK" /\ Serves(parts[cur]) =>
              fsOpenGoesOn(err) /\ DriverNr(parts[cur]) > drv

LEMMA NotOpened ==
    ASSUME SoundInv, pc = "try", NEW err, err # "OK", Return(err), Rightly(err), ~opened',
           kind = "BLOCK" \/ ~fsOpenGoesOn(err)
    PROVE  SoundInv'
  <1>1. /\ UNCHANGED <<disk, parts, kind, want>> /\ parts \in Seq(Partition)
        /\ cur \in 0 .. Len(parts) /\ drv \in 1 .. 5 /\ Len(parts) \in Nat
        /\ fault' \in BOOLEAN
    <2>1. fault' \in BOOLEAN
      BY DEF Rightly, SoundInv, Listed
    <2> QED
      BY <2>1 DEF Return, SoundInv, Listed
  <1>2. CASE fsOpenGoesOn(err)
    <2>1. pc' = "try" /\ cur' = cur /\ drv' = drv + 1 /\ drv' \in 1 .. 5 /\ kind = "BLOCK"
      BY <1>1, <1>2, DriverTable DEF Return, fsOpenGoesOn
    <2>2. Passed'
      BY <1>1, <2>1 DEF SoundInv, Passed, Rightly, Serves, DriverNr, NrOf
    <2> QED
      BY <1>1, <2>1, <2>2 DEF SoundInv, Listed, Asked, Eligible, Local, Busy, OpenSound
  <1>3. CASE ~fsOpenGoesOn(err) /\ Searching
    <2>1. /\ pc' = "try" /\ drv' = 1 /\ want = AnyPart /\ cur # 0
          /\ cur' = IF cur < Len(parts) THEN cur + 1 ELSE 0
      BY <1>3 DEF Return, Searching
    <2>2. ~fault' /\ kind = "BLOCK" => ~fault /\ ~Serves(parts[cur])
      BY <1>3, <2>1 DEF Rightly
    <2>3. ~fault' /\ kind = "BLOCK" => \A i \in 1 .. cur : ~Serves(parts[i])
      BY <1>1, <2>1, <2>2 DEF SoundInv, Passed
    <2>4. cur' \in 0 .. Len(parts) /\ (cur' # 0 => cur' = cur + 1)
      BY <1>1, <2>1
    <2>5. Passed'
      BY <1>1, <2>1, <2>3, <2>4 DEF Passed, Serves, DriverNr, NrOf
    <2> QED
      BY <1>1, <2>1, <2>4, <2>5 DEF SoundInv, Listed, Asked, Eligible, Local, Busy, OpenSound
  <1>4. CASE ~fsOpenGoesOn(err) /\ ~Searching
    BY <1>1, <1>4 DEF Return, SoundInv, Listed, Asked, Passed, Local, Busy, OpenSound
  <1> QED
    BY <1>2, <1>3, <1>4

LEMMA Opened ==
    ASSUME SoundInv, pc = "try", Return("OK"), cur # 0,
           opened' => block_filesystems[drv] = "ext2",
           kind = "BLOCK",
           block_filesystems[drv] = (IF parts[cur].on = "hfs" THEN "of" ELSE parts[cur].on),
           \/ Serves(parts[cur]) /\ UNCHANGED fault
           \/ parts[cur].on \in {"xfs", "reiserfs"} /\ fault' = TRUE
    PROVE  SoundInv'
  <1>1. /\ pc' = "open" /\ UNCHANGED <<disk, parts, kind, want, cur, drv>>
    BY DEF Return, fsOpenGoesOn
  <1>2. Eligible(parts[cur]) /\ Listed
    BY DEF SoundInv, Asked
  <1>3. ~fault' => \A i \in 1 .. cur - 1 : want = AnyPart => ~Serves(parts[i])
    BY DEF SoundInv, Passed
  <1> QED
    BY <1>1, <1>2, <1>3
       DEF SoundInv, Listed, Asked, Passed, Local, Busy, OpenSound, Eligible, Serves

LEMMA NoFileIsBusy == SoundInv /\ pc = "try" => ~opened
  BY DEF SoundInv, Busy

LEMMA SwapSound == SoundInv /\ swap_open => SoundInv'
  <1> SUFFICES ASSUME SoundInv, swap_open PROVE SoundInv'
    OBVIOUS
  <1>1. pc = "try" /\ ~opened /\ ~opened' /\ drv = 1
    BY NoFileIsBusy, DriverTable DEF swap_open, Driver, SoundInv, Listed
  <1>2. CASE (kind # "BLOCK" \/ cur = 0) /\ Return("BADDEV") /\ UNCHANGED fault
    BY <1>1, <1>2, NotOpened DEF Rightly, fsOpenGoesOn
  <1>3. ASSUME NEW err \in {"IOERR", "NOMEM"}, Return(err), fault' = TRUE
        PROVE  SoundInv'
    BY <1>1, <1>3, NotOpened DEF Rightly, fsOpenGoesOn
  <1>6. ASSUME NEW err \in {"NOTFOUND", "BAD_FSYS"}, Return(err), fault' = TRUE, kind = "BLOCK"
        PROVE  SoundInv'
    BY <1>1, <1>6, NotOpened DEF Rightly, fsOpenGoesOn
  <1>4. CASE On("swap") /\ Return("NOTFOUND") /\ UNCHANGED fault
    BY <1>1, <1>4, NotOpened DEF Rightly, fsOpenGoesOn, On, Serves
  <1>5. CASE kind = "BLOCK" /\ Return("BAD_FSYS") /\ UNCHANGED fault
    <2>1. fsOpenGoesOn("BAD_FSYS") /\ (cur # 0 => DriverNr(parts[cur]) > drv)
      BY <1>1, DriverTable DEF fsOpenGoesOn, DriverNr, NrOf
    <2> QED
      BY <1>1, <1>5, <2>1, NotOpened DEF Rightly
  <1> QED
    BY <1>2, <1>3, <1>4, <1>5, <1>6 DEF swap_open

(* The drivers behind swap_open only see local disks.                      *)
LEMMA PastSwap ==
    ASSUME SoundInv, NEW d \in {"ext2", "xfs", "reiserfs", "of"}, Driver(d)
    PROVE  /\ pc = "try" /\ kind = "BLOCK" /\ ~opened
           /\ drv = NrOf(d)
  <1>1. drv \in 1 .. 5 /\ block_filesystems[drv] = d /\ pc = "try"
    BY DEF Driver, SoundInv, Listed
  <1>2. drv = NrOf(d)
    BY <1>1, DriverTable DEF NrOf
  <1>3. drv # 1
    BY <1>2 DEF NrOf
  <1> QED
    BY <1>1, <1>2, <1>3, NoFileIsBusy DEF SoundInv, Local

LEMMA SharedSound ==
    ASSUME SoundInv, NEW d \in {"ext2", "xfs", "reiserfs"}, Driver(d),
           opened' => fserrorno' = "OK" /\ d = "ext2",
           NEW refused, NEW missing, refused # "OK", missing # "OK",
           MountAndLookup(d, refused, missing)
    PROVE  SoundInv'
  <1>1. /\ pc = "try" /\ kind = "BLOCK" /\ ~opened /\ block_filesystems[drv] = d
        /\ drv = NrOf(d)
    BY PastSwap DEF Driver
  <1>2. \A err : Return(err) => fserrorno' = err
    BY DEF Return
  <1>3. CASE Return(refused) /\ fault' = TRUE
    BY <1>1, <1>2, <1>3, NotOpened DEF Rightly
  <1>4. CASE ~On(d) /\ Return("BAD_FSYS") /\ UNCHANGED fault
    <2>1. fault \in BOOLEAN /\ fsOpenGoesOn("BAD_FSYS")
      BY <1>1, DriverTable DEF fsOpenGoesOn, SoundInv, Listed, NrOf
    <2>2. cur # 0 /\ Serves(parts[cur]) /\ ~fault => DriverNr(parts[cur]) > drv
      <3> SUFFICES ASSUME cur # 0, Serves(parts[cur]), ~fault PROVE DriverNr(parts[cur]) > drv
        OBVIOUS
      <3>1. DriverNr(parts[cur]) >= drv
        BY <1>1 DEF SoundInv, Passed
      <3>2. parts[cur].on # d /\ parts[cur].on \in {"ext2", "xfs", "reiserfs", "hfs"}
        BY <1>4 DEF On, Serves
      <3> QED
        BY <1>1, <3>1, <3>2 DEF DriverNr, NrOf
    <2> QED
      BY <1>1, <1>2, <1>4, <2>1, <2>2, NotOpened DEF Rightly
  <1>5. CASE On(d) /\ ~parts[cur].has /\ Return(missing) /\ UNCHANGED fault
    BY <1>1, <1>2, <1>5, NotOpened DEF Rightly, Serves
  <1>6. CASE On(d) /\ parts[cur].has /\ Return("OK") /\ UNCHANGED fault
    BY <1>1, <1>6, Opened DEF On, Serves
  <1> QED
    BY <1>3, <1>4, <1>5, <1>6 DEF MountAndLookup

LEMMA BadReadSound ==
    ASSUME SoundInv, NEW d \in {"ext2", "xfs", "reiserfs"}, Driver(d), NEW errs,
           d = "ext2" => "OK" \notin errs, ~opened', BadRead(d, errs)
    PROVE  SoundInv'
  <1>1. pc = "try" /\ kind = "BLOCK" /\ block_filesystems[drv] = d
    BY PastSwap DEF Driver
  <1>2. PICK err \in errs : Return(err) /\ fault' = TRUE /\ cur # 0 /\ parts[cur].on = d
    BY DEF BadRead, On
  <1>3. CASE err = "OK"
    BY <1>1, <1>2, <1>3, Opened
  <1>4. CASE err # "OK"
    BY <1>1, <1>2, <1>4, NotOpened DEF Rightly
  <1> QED
    BY <1>3, <1>4

LEMMA OfSound == SoundInv /\ of_open => SoundInv'
  <1> SUFFICES ASSUME SoundInv, of_open PROVE SoundInv'
    OBVIOUS
  <1>1. pc = "try" /\ kind = "BLOCK" /\ ~opened /\ ~opened' /\ drv = 5
    BY PastSwap DEF of_open, NrOf
  <1>2. CASE On("hfs") /\ parts[cur].has /\ ~parts[cur].linux /\ Return("OK") /\ UNCHANGED fault
    BY <1>1, <1>2, Opened, DriverTable DEF On, Serves
  <1>3. CASE /\ ~(On("hfs") /\ parts[cur].has /\ ~parts[cur].linux)
             /\ Return("BAD_FSYS") /\ UNCHANGED fault
    <2>1. cur # 0 /\ Serves(parts[cur]) => fault
      <3> SUFFICES ASSUME cur # 0, Serves(parts[cur]), ~fault PROVE FALSE
        OBVIOUS
      <3>1. DriverNr(parts[cur]) >= 5
        BY <1>1 DEF SoundInv, Passed
      <3> QED
        BY <1>3, <3>1 DEF On, Serves, DriverNr, NrOf
    <2> QED
      BY <1>1, <1>3, <2>1, NotOpened DEF Rightly, SoundInv, Listed
  <1>4. CASE Return("BAD_FSYS") /\ fault' = TRUE
    BY <1>1, <1>4, NotOpened DEF Rightly
  <1> QED
    BY <1>2, <1>3, <1>4 DEF of_open

LEMMA DriversSound ==
    SoundInv /\ (ext2_open \/ xfs_open \/ reiserfs_open) => SoundInv'
  <1> SUFFICES ASSUME SoundInv, ext2_open \/ xfs_open \/ reiserfs_open PROVE SoundInv'
    OBVIOUS
  <1>1. CASE ext2_open
    <2>1. Driver("ext2") /\ ~opened
      BY <1>1, PastSwap DEF ext2_open
    <2>2. opened' => fserrorno' = "OK"
      BY <1>1, <2>1 DEF ext2_open
    <2>3. CASE \E refused \in {"IOERR", "BAD_FSYS"}, missing \in {"NOTFOUND", "OTHER"} :
                  MountAndLookup("ext2", refused, missing)
      BY <2>1, <2>2, <2>3, SharedSound
    <2>4. CASE BadRead("ext2", {"NOTFOUND", "OTHER"})
      <3>1. fserrorno' # "OK"
        BY <2>4 DEF BadRead, Return
      <3> QED
        BY <2>1, <2>2, <2>4, <3>1, BadReadSound
    <2> QED
      BY <1>1, <2>1, <2>3, <2>4 DEF ext2_open
  <1>2. CASE xfs_open
    <2>1. Driver("xfs") /\ ~opened /\ ~opened'
      BY <1>2, PastSwap DEF xfs_open
    <2> QED
      BY <1>2, <2>1, SharedSound, BadReadSound DEF xfs_open
  <1>3. CASE reiserfs_open
    <2>1. Driver("reiserfs") /\ ~opened /\ ~opened'
      BY <1>3, PastSwap DEF reiserfs_open
    <2>2. CASE On("reiserfs") /\ Return("OK") /\ Dangling /\ fault' = TRUE
      <3>1. pc = "try" /\ kind = "BLOCK" /\ block_filesystems[drv] = "reiserfs"
        BY <2>1, PastSwap DEF Driver
      <3> QED
        BY <2>1, <2>2, <3>1, Opened DEF On
    <2> QED
      BY <1>3, <2>1, <2>2, SharedSound, BadReadSound DEF reiserfs_open
  <1> QED
    BY <1>1, <1>2, <1>3

(* The search starts at the first partition, or at the one asked for.      *)
LEMMA FoundRight ==
    ASSUME NEW list \in Seq(Partition), NEW n \in Int
    PROVE  /\ found(list, n) \in 0 .. Len(list)
           /\ found(list, n) # 0 => list[found(list, n)].num = n
  BY DEF found

LEMMA OpensSound == SoundInv /\ Opens => SoundInv'
  <1> SUFFICES ASSUME SoundInv, Opens PROVE SoundInv'
    OBVIOUS
  <1>1. CASE OpenUnknown
    BY <1>1, DisksAssumption
       DEF OpenUnknown, SoundInv, Listed, Asked, Passed, Local, Busy, OpenSound
  <1>2. ASSUME NEW k \in {"BLOCK", "ISCSI"}, NEW n \in Wanted, OpenBlock(k, n)
        PROVE  SoundInv'
    <2>1. PICK list \in partitions_lookup :
              /\ parts' = list /\ fault' = (list # disk)
              /\ cur' = IF n = AnyPart THEN (IF list = <<>> THEN 0 ELSE 1) ELSE found(list, n)
      BY <1>2 DEF OpenBlock
    <2>2. list \in Seq(Partition) /\ Len(list) \in Nat
      <3>1. PICK k1 \in 1 .. Len(disk) + 1 : list = SubSeq(disk, k1, Len(disk))
        BY DEF partitions_lookup
      <3>2. disk \in Seq(Partition) /\ Len(disk) \in Nat
        BY DEF SoundInv, Listed
      <3> QED
        BY <3>1, <3>2
    <2>3. n \in Int /\ AnyPart \in Int
      BY DisksAssumption DEF AnyPart
    <2>4. /\ cur' \in 0 .. Len(list)
          /\ cur' # 0 => n = AnyPart \/ list[cur'].num = n
          /\ n = AnyPart => cur' \in 0 .. 1
      BY <2>1, <2>2, <2>3, FoundRight
    <2>5. /\ pc' = "try" /\ kind' = k /\ want' = n /\ drv' = 1 /\ UNCHANGED <<disk, opened>>
          /\ ~opened
      BY <1>2 DEF OpenBlock, SoundInv, Busy
    <2>6. Listed' /\ Asked' /\ Local' /\ Busy' /\ OpenSound'
      BY <2>1, <2>2, <2>3, <2>4, <2>5
         DEF Listed, Asked, Eligible, Local, Busy, OpenSound, SoundInv
    <2>7. Passed'
      BY <2>1, <2>2, <2>4, <2>5 DEF Passed, DriverNr, NrOf
    <2> QED
      BY <2>6, <2>7 DEF SoundInv
  <1>3. CASE of_net_open
    <2>1. /\ want' \in Int /\ cur' = 0 /\ pc' \in {"idle", "open"} /\ kind' = "NET"
          /\ fault' \in BOOLEAN /\ UNCHANGED <<disk, parts, drv, opened>> /\ pc = "idle"
      BY <1>3, DisksAssumption DEF of_net_open
    <2>2. Len(parts) \in Nat /\ ~opened
      BY <2>1 DEF SoundInv, Listed, Busy
    <2> QED
      BY <2>1, <2>2
         DEF SoundInv, Listed, Asked, Passed, Local, Busy, OpenSound
  <1> QED
    BY <1>1, <1>2, <1>3 DEF Opens

LEMMA CloseSound == SoundInv /\ (ext2_close \/ block_close \/ of_close) => SoundInv'
  BY DEF ext2_close, block_close, of_close, CloseHandle, SoundInv, Listed, Asked, Passed,
         Local, Busy, OpenSound

LEMMA SoundInit == Init => SoundInv
  <1> SUFFICES ASSUME Init PROVE SoundInv
    OBVIOUS
  <1>1. disk \in Seq(Partition) /\ want \in Int /\ parts = <<>>
    BY DisksAssumption DEF Init
  <1>2. parts \in Seq(Partition) /\ Len(parts) = 0
    BY <1>1
  <1>3. pc = "idle" /\ ~opened /\ cur = 0 /\ drv = 1 /\ fault = FALSE
    BY DEF Init
  <1>4. Listed
    <2>1. drv \in 1 .. 5 /\ cur \in 0 .. Len(parts)
      BY <1>2, <1>3
    <2>2. fault \in BOOLEAN
      BY <1>3
    <2> QED
      BY <1>1, <1>2, <2>1, <2>2, Zenon DEF Listed
  <1>5. Asked /\ Passed /\ Local /\ Busy
    BY <1>3 DEF Asked, Passed, Local, Busy
  <1>6. OpenSound
    BY <1>3 DEF OpenSound
  <1> QED
    BY <1>4, <1>5, <1>6 DEF SoundInv

LEMMA SoundInvariance == Spec => []SoundInv
  <1>1. SoundInv /\ [Next]_vars => SoundInv'
    <2>1. SoundInv /\ UNCHANGED vars => SoundInv'
      BY DEF vars, SoundInv, Listed, Asked, Passed, Local, Busy, OpenSound, Eligible, Serves,
             DriverNr
    <2> QED
      BY <2>1, OpensSound, SwapSound, DriversSound, OfSound, CloseSound DEF Next, Finished
  <1> QED
    BY <1>1, SoundInit, PTL DEF Spec

(* A file open_file reports open lies on a partition that was asked for,   *)
(* on the first that has it, and is read by the driver for what is on that *)
(* partition: for disks of any size and any partition numbers.             *)
THEOREM OpensTheRightFile == Spec => []OpenSound
  BY SoundInvariance, PTL DEF SoundInv

-----------------------------------------------------------------------------
(***************************************************************************)
(* OpenComplete.  Inside fs_open, unless something failed, the list is all *)
(* of the disk (Whole); without a search the drivers see the partition     *)
(* asked for and no other (Exact); and a search that has come to its end   *)
(* has passed no partition with the file (Exhausted).                      *)
(***************************************************************************)
Whole == pc = "try" /\ ~fault => parts = disk

Exact == pc = "try" /\ want # AnyPart => cur = found(parts, want)

Exhausted ==
    pc = "try" /\ ~fault /\ kind = "BLOCK" /\ want = AnyPart /\ cur = 0 =>
        \A i \in 1 .. Len(parts) : ~Serves(parts[i])

OpenIsOk == pc = "open" => result = "OK"

CompleteInv == Whole /\ Exact /\ Exhausted /\ OpenIsOk /\ OpenComplete

(* A driver opens the file or was right not to.                            *)
LEMMA SharedRightly ==
    ASSUME SoundInv, NEW d \in {"ext2", "xfs", "reiserfs"}, Driver(d),
           NEW refused, NEW missing, refused # "OK", missing # "OK",
           MountAndLookup(d, refused, missing)
    PROVE  Return("OK") \/ \E err : err # "OK" /\ Return(err) /\ Rightly(err)
  <1>1. /\ pc = "try" /\ kind = "BLOCK" /\ drv = NrOf(d)
    BY PastSwap
  <1>2. CASE Return(refused) /\ fault' = TRUE
    BY <1>2 DEF Rightly
  <1>3. CASE ~On(d) /\ Return("BAD_FSYS") /\ UNCHANGED fault
    <2>1. fsOpenGoesOn("BAD_FSYS")
      BY <1>1, DriverTable DEF fsOpenGoesOn, NrOf
    <2>2. CASE fault
      <3>1. fault = TRUE
        BY <2>2 DEF SoundInv, Listed
      <3> QED
        BY <1>3, <3>1 DEF Rightly
    <2>3. CASE ~fault
      <3>1. ASSUME cur # 0, Serves(parts[cur]) PROVE DriverNr(parts[cur]) > drv
        <4>1. DriverNr(parts[cur]) >= drv
          BY <1>1, <2>3, <3>1 DEF SoundInv, Passed
        <4>2. parts[cur].on # d /\ parts[cur].on \in {"ext2", "xfs", "reiserfs", "hfs"}
          BY <1>3, <3>1 DEF On, Serves
        <4> QED
          BY <1>1, <4>1, <4>2 DEF DriverNr, NrOf
      <3> QED
        BY <1>3, <2>1, <3>1 DEF Rightly
    <2> QED
      BY <2>2, <2>3
  <1>4. CASE On(d) /\ ~parts[cur].has /\ Return(missing) /\ UNCHANGED fault
    BY <1>4 DEF Rightly, Serves
  <1>5. CASE Return("OK")
    BY <1>5
  <1> QED
    BY <1>2, <1>3, <1>4, <1>5 DEF MountAndLookup

LEMMA BadReadRightly ==
    ASSUME NEW d, NEW errs, BadRead(d, errs)
    PROVE  Return("OK") \/ \E err : err # "OK" /\ Return(err) /\ Rightly(err)
  BY DEF BadRead, Rightly

LEMMA DriversRightly ==
    ASSUME SoundInv, swap_open \/ ext2_open \/ xfs_open \/ reiserfs_open \/ of_open
    PROVE  Return("OK") \/ \E err : err # "OK" /\ Return(err) /\ Rightly(err)
  <1>1. CASE swap_open
    <2>1. drv = 1
      BY <1>1, DriverTable DEF swap_open, Driver, SoundInv, Listed
    <2>2. CASE (kind # "BLOCK" \/ cur = 0) /\ Return("BADDEV") /\ UNCHANGED fault
      BY <2>2 DEF Rightly
    <2>3. ASSUME NEW err \in {"IOERR", "NOMEM", "NOTFOUND", "BAD_FSYS"}, Return(err), fault' = TRUE
          PROVE  \E e : e # "OK" /\ Return(e) /\ Rightly(e)
      BY <2>3 DEF Rightly
    <2>4. CASE On("swap") /\ Return("NOTFOUND") /\ UNCHANGED fault
      BY <2>4 DEF Rightly, On, Serves
    <2>5. CASE Return("BAD_FSYS") /\ UNCHANGED fault
      <3>1. fsOpenGoesOn("BAD_FSYS") /\ (cur # 0 => DriverNr(parts[cur]) > drv)
        BY <2>1, DriverTable DEF fsOpenGoesOn, DriverNr, NrOf
      <3> QED
        BY <2>5, <3>1 DEF Rightly
    <2> QED
      BY <1>1, <2>2, <2>3, <2>4, <2>5 DEF swap_open
  <1>2. CASE ext2_open
    <2>1. Driver("ext2") /\ ~opened
      BY <1>2, PastSwap DEF ext2_open
    <2> QED
      BY <1>2, <2>1, SharedRightly, BadReadRightly DEF ext2_open
  <1>3. CASE xfs_open
    BY <1>3, SharedRightly, BadReadRightly DEF xfs_open
  <1>4. CASE reiserfs_open
    BY <1>4, SharedRightly, BadReadRightly DEF reiserfs_open
  <1>5. CASE of_open
    <2>1. pc = "try" /\ kind = "BLOCK" /\ drv = 5
      BY <1>5, PastSwap DEF of_open, NrOf
    <2>2. CASE Return("OK")
      BY <2>2
    <2>3. CASE Return("BAD_FSYS") /\ fault' = TRUE
      BY <2>3 DEF Rightly
    <2>4. CASE /\ ~(On("hfs") /\ parts[cur].has /\ ~parts[cur].linux)
               /\ Return("BAD_FSYS") /\ UNCHANGED fault
      <3>1. cur # 0 /\ Serves(parts[cur]) => fault
        <4> SUFFICES ASSUME cur # 0, Serves(parts[cur]), ~fault PROVE FALSE
          OBVIOUS
        <4>1. DriverNr(parts[cur]) >= 5
          BY <2>1 DEF SoundInv, Passed
        <4> QED
          BY <2>4, <4>1 DEF On, Serves, DriverNr, NrOf
      <3> QED
        BY <2>4, <3>1 DEF Rightly, SoundInv, Listed
    <2> QED
      BY <1>5, <2>2, <2>3, <2>4 DEF of_open
  <1> QED
    BY <1>1, <1>2, <1>3, <1>4, <1>5

LEMMA AnswerComplete ==
    ASSUME SoundInv, CompleteInv, pc = "try", NEW err, err # "OK", Return(err), Rightly(err)
    PROVE  CompleteInv'
  <1>1. /\ UNCHANGED <<disk, parts, kind, want>> /\ (~fault' => ~fault)
        /\ cur \in 0 .. Len(parts) /\ Len(parts) \in Nat
        /\ DOMAIN parts = 1 .. Len(parts)
    BY DEF Return, Rightly, SoundInv, Listed
  <1>2. CASE fsOpenGoesOn(err)
    <2>1. pc' = "try" /\ cur' = cur
      BY <1>2 DEF Return
    <2> QED
      BY <1>1, <2>1
         DEF CompleteInv, Whole, Exact, Exhausted, OpenIsOk, OpenComplete, Answered, found, Serves
  <1>3. CASE ~fsOpenGoesOn(err) /\ Searching
    <2>1. /\ pc' = "try" /\ want = AnyPart /\ cur # 0
          /\ cur' = IF cur < Len(parts) THEN cur + 1 ELSE 0
      BY <1>3 DEF Return, Searching
    <2>2. ~fault' /\ kind = "BLOCK" => \A i \in 1 .. cur : ~Serves(parts[i])
      <3>1. ~fault' /\ kind = "BLOCK" => ~Serves(parts[cur])
        BY <1>3, <2>1 DEF Rightly
      <3>2. ~fault' /\ kind = "BLOCK" => \A i \in 1 .. cur - 1 : ~Serves(parts[i])
        BY <1>1, <2>1 DEF SoundInv, Passed
      <3> QED
        BY <1>1, <3>1, <3>2
    <2>3. cur' = 0 => cur = Len(parts)
      <3>1. CASE cur < Len(parts)
        <4>1. cur' = cur + 1 /\ cur \in Nat
          BY <1>1, <2>1, <3>1
        <4> QED
          BY <4>1
      <3>2. CASE ~(cur < Len(parts))
        <4>1. cur \in Nat /\ cur <= Len(parts) /\ Len(parts) \in Nat
          BY <1>1
        <4> QED
          BY <3>2, <4>1
      <3> QED
        BY <3>1, <3>2
    <2>4. Exhausted'
      BY <1>1, <2>1, <2>2, <2>3 DEF Exhausted, Serves
    <2> QED
      BY <1>1, <2>1, <2>4
         DEF CompleteInv, Whole, Exact, OpenIsOk, OpenComplete, Answered
  <1>4. CASE ~fsOpenGoesOn(err) /\ ~Searching
    <2>1. pc' = "idle"
      BY <1>4 DEF Return
    <2>2. OpenComplete'
      <3> SUFFICES ASSUME Answered',
                          NEW i \in DOMAIN disk', (Eligible(disk[i]) /\ Serves(disk[i]))',
                          want' # AnyPart => i = found(disk, want)'
                   PROVE  FALSE
        BY DEF OpenComplete
      <3>1. kind = "BLOCK" /\ ~fault' /\ ~fault /\ parts = disk
        BY <1>1 DEF Answered, CompleteInv, Whole
      <3>2. i \in 1 .. Len(parts) /\ Serves(parts[i])
        BY <1>1, <3>1 DEF Serves
      <3>3. CASE want = AnyPart
        <4>1. cur = 0
          BY <1>4, <3>3 DEF Searching
        <4> QED
          BY <3>1, <3>2, <3>3, <4>1 DEF CompleteInv, Exhausted
      <3>4. CASE want # AnyPart
        <4>1. i = found(parts, want)
          BY <1>1, <3>1, <3>4 DEF found
        <4>2. cur = i
          BY <3>4, <4>1 DEF CompleteInv, Exact
        <4>3. cur # 0 /\ Serves(parts[cur])
          BY <1>1, <3>2, <4>2
        <4> QED
          BY <1>4, <3>1, <4>3 DEF Rightly
      <3> QED
        BY <3>3, <3>4
    <2> QED
      BY <2>1, <2>2 DEF CompleteInv, Whole, Exact, Exhausted, OpenIsOk
  <1> QED
    BY <1>2, <1>3, <1>4

LEMMA OpensComplete == SoundInv /\ CompleteInv /\ Opens => CompleteInv'
  <1> SUFFICES ASSUME SoundInv, CompleteInv, Opens PROVE CompleteInv'
    OBVIOUS
  <1>1. CASE OpenUnknown
    BY <1>1 DEF OpenUnknown, CompleteInv, Whole, Exact, Exhausted, OpenIsOk, OpenComplete, Answered
  <1>2. ASSUME NEW k \in {"BLOCK", "ISCSI"}, NEW n \in Wanted, OpenBlock(k, n)
        PROVE  CompleteInv'
    <2>1. PICK list \in partitions_lookup :
              /\ parts' = list /\ fault' = (list # disk)
              /\ cur' = IF n = AnyPart THEN (IF list = <<>> THEN 0 ELSE 1) ELSE found(list, n)
      BY <1>2 DEF OpenBlock
    <2>2. pc' = "try" /\ want' = n /\ disk' = disk
      BY <1>2 DEF OpenBlock
    <2>3. Whole'
      BY <2>1, <2>2 DEF Whole
    <2>4. Exact'
      BY <2>1, <2>2 DEF Exact, found, AnyPart
    <2>5. Exhausted'
      <3>1. want' = AnyPart /\ cur' = 0 => Len(parts') = 0
        BY <2>1, <2>2
      <3> QED
        BY <3>1 DEF Exhausted, AnyPart
    <2> QED
      BY <2>2, <2>3, <2>4, <2>5 DEF CompleteInv, OpenIsOk, OpenComplete, Answered
  <1>3. CASE of_net_open
    BY <1>3 DEF of_net_open, CompleteInv, Whole, Exact, Exhausted, OpenIsOk, OpenComplete, Answered
  <1> QED
    BY <1>1, <1>2, <1>3 DEF Opens

LEMMA CloseComplete ==
    CompleteInv /\ (ext2_close \/ block_close \/ of_close) => CompleteInv'
  <1> SUFFICES ASSUME CompleteInv, ext2_close \/ block_close \/ of_close PROVE CompleteInv'
    OBVIOUS
  <1>1. pc = "open" /\ pc' = "idle" /\ result' = result
    BY DEF ext2_close, block_close, of_close, CloseHandle
  <1> QED
    BY <1>1 DEF CompleteInv, Whole, Exact, Exhausted, OpenIsOk, OpenComplete

LEMMA CompleteInvariance == Spec => []CompleteInv
  <1>1. Init => CompleteInv
    BY DEF Init, CompleteInv, Whole, Exact, Exhausted, OpenIsOk, OpenComplete, Answered
  <1>2. SoundInv /\ CompleteInv /\ [Next]_vars => CompleteInv'
    <2>1. CompleteInv /\ UNCHANGED vars => CompleteInv'
      BY DEF vars, CompleteInv, Whole, Exact, Exhausted, OpenIsOk, OpenComplete, Answered,
             Eligible, Serves, found
    <2>2. ASSUME SoundInv, CompleteInv,
                 swap_open \/ ext2_open \/ xfs_open \/ reiserfs_open \/ of_open
          PROVE  CompleteInv'
      <3>1. pc = "try"
        BY <2>2 DEF swap_open, ext2_open, xfs_open, reiserfs_open, of_open, Driver
      <3>2. CASE Return("OK")
        <4>1. pc' = "open" /\ result' = "OK"
          BY <3>2 DEF Return, fsOpenGoesOn
        <4> QED
          BY <4>1 DEF CompleteInv, Whole, Exact, Exhausted, OpenIsOk, OpenComplete
      <3> QED
        BY <2>2, <3>1, <3>2, DriversRightly, AnswerComplete
    <2> QED
      BY <2>1, <2>2, OpensComplete, CloseComplete DEF Next, Finished
  <1> QED
    BY <1>1, <1>2, SoundInvariance, PTL DEF Spec

(* When no firmware call and no disk read fails, a file that is on the     *)
(* partition asked for, or on any when searching, is opened: no driver     *)
(* before the right one claims its partition and no other partition ends   *)
(* the search, for disks of any size and any number of opens.              *)
THEOREM FindsTheFile == Spec => []OpenComplete
  BY CompleteInvariance, PTL DEF CompleteInv
=============================================================================
