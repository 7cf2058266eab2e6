---------------------------- MODULE MCKernelLoad ----------------------------
(* Fourteen pages of memory.  The kernels: a vmlinux in one piece; one in  *)
(* two segments with a gap, a note and a header segment at offset 0; an    *)
(* image linked elsewhere; one without loadable segments; no ELF at all.   *)
EXTENDS KernelLoad

S(l, o, v, f, m) == [load |-> l, off |-> o, vaddr |-> v, filesz |-> f, memsz |-> m]

MCKernels ==
    {[class |-> 32, entry |-> 20, segs |-> <<S(TRUE, 1, 20, 1, 2)>>],
     [class |-> 64, entry |-> 20,
      segs |-> <<S(TRUE, 0, 0, 1, 1), S(TRUE, 1, 20, 1, 1), S(FALSE, 2, 21, 1, 1),
                 S(TRUE, 3, 22, 1, 3)>>],
     [class |-> 32, entry |-> 3, segs |-> <<S(TRUE, 1, 2, 2, 2)>>],
     [class |-> 64, entry |-> 3, segs |-> <<S(FALSE, 1, 3, 1, 1)>>],
     [class |-> 0, entry |-> 0, segs |-> <<>>]}

MCLayouts == {{}, {0, 13}, {2}, {4, 12}, {7}}
=============================================================================
