---------------------------- MODULE MCIndexFile ----------------------------
(***************************************************************************)
(* An instance of IndexFile for TLC.                                       *)
(***************************************************************************)
EXTENDS IndexFile

ThreeKeys == 0 .. 2
FourKeys  == 0 .. 3
FiveKeys  == 0 .. 4
NoKeys    == {}
=============================================================================
