----------------------------- MODULE RecordStore -----------------------------
(***************************************************************************)
(* What a record file promises (src/rs/RecordFile.h): a set of records,     *)
(* each found by the RID its insertion returned until it is deleted.  The   *)
(* store picks the RID; a record is told by its size.                       *)
(***************************************************************************)
CONSTANTS Rids, Sizes

VARIABLES records

vars == <<records>>

Init == records = << >>

Insert(r, size) ==
  /\ r \notin DOMAIN records
  /\ records' = [q \in DOMAIN records \cup {r} |-> IF q = r THEN size ELSE records[q]]

Delete(r) ==
  /\ r \in DOMAIN records
  /\ records' = [q \in DOMAIN records \ {r} |-> records[q]]

Next == \E r \in Rids : Delete(r) \/ \E size \in Sizes : Insert(r, size)

Spec == Init /\ [][Next]_vars
=============================================================================
