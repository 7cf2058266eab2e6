----------------------------- MODULE MCFileOpen -----------------------------
(* Every disk of up to two partitions: what is on them, their tags, and    *)
(* which of them holds the wanted file.                                    *)
EXTENDS FileOpen

CONSTANT MaxParts   \* bound: partitions on a disk

Part(n) == [num : {n}, on : Content, linux : {FALSE}, has : BOOLEAN]
              \cup [num : {n}, on : {"hfs", "ext2"}, linux : {TRUE}, has : {TRUE}]

(* add_new_partition prepends, so the list runs from high to low numbers.  *)
MCDisks ==
    UNION {{d \in [1 .. n -> UNION {Part(k) : k \in 1 .. n}] :
              \A i \in 1 .. n : d[i].num = n + 1 - i} : n \in 0 .. MaxParts}

MCWanted == {-1, 1, 2}
=============================================================================
