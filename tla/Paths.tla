------------------------------- MODULE Paths --------------------------------
(***************************************************************************)
(* What a path names, whichever file system holds it: the reference the    *)
(* lookups of the drivers are checked against.                             *)
(*                                                                         *)
(* A path is a sequence of tokens: "/" and one token for every name.       *)
(* `objs' gives for an object its mode ("reg", "dir" or "lnk"), the        *)
(* directory's entries (name -> object), the bytes of a file and the path  *)
(* a symbolic link holds.                                                  *)
(***************************************************************************)
EXTENDS Integers, Sequences, SequencesExt

(* The number of slashes a path starts with.                               *)
Slashes(p) ==
    LET first == SelectInSeq(p, LAMBDA t : t # "/")
    IN  IF first = 0 THEN Len(p) ELSE first - 1

DropSlashes(p) == SubSeq(p, Slashes(p) + 1, Len(p))

(* One step: follow the link, finish, or enter the directory.  `at' is the *)
(* object reached, `up' the directory it was found in.                     *)
Follow(objs, root, maxLinks, TooLong(_, _), w) ==
    LET target == objs[w.at].target
    IN  IF w.links >= maxLinks THEN [w EXCEPT !.res = "SYMLINK_LOOP"]
        ELSE IF TooLong(target, w.rest) THEN [w EXCEPT !.res = "LENGTH"]
        ELSE [w EXCEPT !.links = @ + 1, !.rest = target \o @,
                       !.at = IF target[1] = "/" THEN root ELSE w.up]

Enter(objs, w) ==
    LET p == DropSlashes(w.rest)
        entries == objs[w.at].entries
    IN  IF p = <<>> \/ p[1] \notin DOMAIN entries THEN [w EXCEPT !.res = "NOTFOUND"]
        ELSE [w EXCEPT !.up = w.at, !.at = entries[p[1]], !.rest = Tail(p)]

PathStep(objs, root, maxLinks, TooLong(_, _), w) ==
    LET mode == objs[w.at].mode
    IN  IF w.res # "going" THEN w
        ELSE IF mode = "lnk" THEN Follow(objs, root, maxLinks, TooLong, w)
        ELSE IF w.rest = <<>> THEN [w EXCEPT !.res = IF mode = "reg" THEN "OK" ELSE "BAD_TYPE"]
        ELSE IF mode = "reg" THEN [w EXCEPT !.res = "NOTDIR"]
        ELSE Enter(objs, w)

(* Where the path leads, within a number of steps.  TooLong tells when a   *)
(* link and the rest of the path are more than the driver can hold.        *)
Resolve(objs, root, maxLinks, TooLong(_, _), steps, path) ==
    LET walk[k \in 0 .. steps] ==
            IF k = 0
            THEN [at |-> root, up |-> root, rest |-> path, links |-> 0, res |-> "going"]
            ELSE LET w == walk[k - 1] IN PathStep(objs, root, maxLinks, TooLong, w)
    IN  walk[steps]
=============================================================================
