----------------------------- MODULE FileReader -----------------------------
(***************************************************************************)
(* What reading a file promises the loaders, whichever driver does it: the *)
(* abstract specification of the read and seek members of struct fs_t      *)
(* (fs.h), without blocks, extents or trees.  Bytes past the end of the    *)
(* file, and all bytes once the disk has failed, are not promised.         *)
(***************************************************************************)
EXTENDS Integers, Sequences

VARIABLES
    file,    \* the bytes of the file
    pos,     \* file->pos
    state,   \* "idle" or "reading"
    want,    \* the size read was called with
    got,     \* what is in the caller's buffer
    sick,    \* the disk is bad, or a read of it has failed
    sparse   \* the file has holes, which are not promised to be read, or seems to:
             \* the driver has lost its map of the file

vars == <<file, pos, state, want, got, sick, sparse>>

Init ==
    /\ pos \in Nat /\ want \in Nat
    /\ state = "idle" /\ got = <<>> /\ sick \in BOOLEAN /\ sparse \in BOOLEAN

(* Between two reads the position may be set, and the disk fail; then the  *)
(* lookup may have led to another file, with holes.                        *)
Seek ==
    /\ state = "idle"
    /\ pos' \in Nat /\ (sick => sick') /\ (sick' \/ UNCHANGED sparse)
    /\ UNCHANGED <<file, state, want, got>>

Call ==
    /\ state = "idle" /\ state' = "reading"
    /\ want' \in Nat /\ got' = <<>>
    /\ UNCHANGED <<file, pos, sick, sparse>>

(* Some more bytes have arrived in order, each the file's byte at its      *)
(* place, and never more of them than the caller has room for, unless the  *)
(* disk failed and the map of the file with it.                            *)
Arrive ==
    LET old == Len(got)
        new == Len(got')
    IN  /\ old <= new /\ (sparse' \/ new <= want)
        /\ pos' = pos + new - old
        /\ SubSeq(got', 1, old) = got
        /\ sick' \/ sparse \/ \A i \in old + 1 .. new :
                       pos + i - old <= Len(file) => got'[i] = file[pos + i - old]
        /\ sick => sick'
        /\ UNCHANGED sparse \/ (sick' /\ sparse')
        /\ UNCHANGED <<file, want>>

Deliver == state = "reading" /\ state' = "reading" /\ Arrive

(* The read returns: with all that was asked for or all the file still     *)
(* has, unless the disk failed.                                            *)
Return ==
    /\ state = "reading" /\ state' = "idle" /\ Arrive
    /\ \/ sick' \/ sparse
       \/ Len(got') = want
       \/ pos' >= Len(file)

Next == Seek \/ Call \/ Deliver \/ Return

Spec == Init /\ [][Next]_vars
=============================================================================
