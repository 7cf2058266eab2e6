------------------------------ MODULE MCMalloc ------------------------------
(* lib/malloc.c on a 26-byte arena: requests that are empty, that need     *)
(* padding and that do not, a valid, a wide and an invalid alignment.      *)
EXTENDS Malloc
=============================================================================
