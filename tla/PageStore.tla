------------------------------ MODULE PageStore ------------------------------
(***************************************************************************)
(* What the paged file system of src/fs promises its users: a store of     *)
(* pages whose last written content is what a user works with (`store'),   *)
(* and the content a crash leaves behind (`stable').  Content moves from   *)
(* `store' to `stable' at moments the user neither sees nor chooses, and a  *)
(* clean exit leaves nothing behind.                                       *)
(***************************************************************************)
CONSTANTS PageIds,   \* the pages a user can name
          Values,    \* the contents a page can be given
          Absent     \* the content of a page that was never written

VARIABLES store, stable, phase

vars == <<store, stable, phase>>

TypeOK ==
  /\ store  \in [PageIds -> Values \cup {Absent}]
  /\ stable \in [PageIds -> Values \cup {Absent}]
  /\ phase  \in {"up", "exiting", "down", "crashed"}

Init ==
  /\ store  = [x \in PageIds |-> Absent]
  /\ stable = [x \in PageIds |-> Absent]
  /\ phase  = "up"

\* A user gives page x the content v.
Write(x, v) ==
  /\ phase = "up"
  /\ store' = [store EXCEPT ![x] = v]
  /\ UNCHANGED <<stable, phase>>

\* The pages of S reach the disk, each with its last written content.
Flush(S) ==
  /\ phase \in {"up", "exiting"}
  /\ stable' = [x \in PageIds |-> IF x \in S THEN store[x] ELSE stable[x]]
  /\ UNCHANGED <<store, phase>>

BeginExit ==
  /\ phase = "up"
  /\ phase' = "exiting"
  /\ UNCHANGED <<store, stable>>

\* A clean exit is complete only when every page has reached the disk.
EndExit ==
  /\ phase = "exiting"
  /\ store = stable
  /\ phase' = "down"
  /\ UNCHANGED <<store, stable>>

\* A crash takes every page back to what the disk holds.
Crash ==
  /\ phase \in {"up", "exiting"}
  /\ phase' = "crashed"
  /\ store' = stable
  /\ UNCHANGED stable

Start ==
  /\ phase \in {"down", "crashed"}
  /\ phase' = "up"
  /\ UNCHANGED <<store, stable>>

Next ==
  \/ \E x \in PageIds, v \in Values : Write(x, v)
  \/ \E S \in SUBSET PageIds : Flush(S)
  \/ BeginExit \/ EndExit \/ Crash \/ Start

Spec == Init /\ [][Next]_vars
=============================================================================
