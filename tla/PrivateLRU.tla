----------------------------- MODULE PrivateLRU -----------------------------
(***************************************************************************)
(* What way partitioning promises to one LDom: a cache set of its own.  W  *)
(* are its ways; the order of their last use changes only when one of its  *)
(* own blocks is used, filled or dropped, and a new block replaces the one *)
(* of its own blocks that was used longest ago.                            *)
(***************************************************************************)
CONSTANTS W, Own, None   \* Own: the blocks of this LDom

VARIABLES
  newer,  \* <<v, w>>: way v was used after way w
  held    \* the block in each way, or None

vars == <<newer, held>>

Init ==
  /\ newer \in SUBSET (W \X W)
  /\ held = [w \in W |-> None]

Front(w) == {p \in W \X W : p[2] # w /\ (p[1] = w \/ p \in newer)}
Back(w) == {p \in W \X W : p[1] # w /\ (p[2] = w \/ p \in newer)}

\* A block is used; its contents and permissions are not our concern.
Use(w) == held[w] # None /\ newer' = Front(w) /\ UNCHANGED held

\* A block that is not there replaces the oldest.
Replace(w, b) ==
  /\ \A v \in W \ {w} : <<v, w>> \in newer
  /\ \A v \in W : held[v] # b
  /\ held' = [held EXCEPT ![w] = b]
  /\ newer' = Front(w)

\* A block is invalidated.
Drop(w) == held' = [held EXCEPT ![w] = None] /\ newer' = Back(w)

Next == \E w \in W : Use(w) \/ Drop(w) \/ \E b \in Own : Replace(w, b)

Spec == Init /\ [][Next]_vars
=============================================================================
