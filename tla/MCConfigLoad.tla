---------------------------- MODULE MCConfigLoad ----------------------------
(* Three digits stand for the eight of an address: the loop over digits    *)
(* has a first, a middle and a last turn.                                  *)
EXTENDS ConfigLoad
=============================================================================
