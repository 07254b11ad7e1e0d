---------------------------- MODULE MCRecordFile ----------------------------
(***************************************************************************)
(* Instances of RecordFile for TLC.                                        *)
(***************************************************************************)
EXTENDS RecordFile

HalfAndQuarter == {4, 8}
=============================================================================
