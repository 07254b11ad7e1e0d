------------------------------ MODULE IndexStore ------------------------------
(***************************************************************************)
(* What an index file promises (src/is/IndexFile.h): the pairs of a key and *)
(* the RID of a record that were inserted and not deleted since.            *)
(***************************************************************************)
CONSTANTS Keys, Rids

VARIABLE entries

vars == <<entries>>

Init == entries = {}

Insert(before, after) == \E e \in after \ before : e \in Keys \X Rids /\ after = before \cup {e}

Delete(before, after) == \E e \in before : after = before \ {e}

Next == LET before == entries
            after  == entries'
        IN  Insert(before, after) \/ Delete(before, after)

Spec == Init /\ [][Next]_vars
=============================================================================
