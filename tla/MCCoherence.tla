----------------------------- MODULE MCCoherence ----------------------------
(* Small machines: the core of LDom g1 with an L1 cache, the core of g2 with  *)
(* one, a shared L2 below them, and the I/O cache beside it on the memory bus.*)
EXTENDS Coherence, TLC

CONSTANTS l1, l1b, l2, io, g1, g2, ax, ay

MachineCache == {l1, l1b, l2, io}
MachineParent == l1 :> l2 @@ l1b :> l2 @@ l2 :> Mem @@ io :> Mem
MachinePrivate == l1 :> g1 @@ l1b :> g2
MachineBlock == {<<g1, ax>>, <<g1, ay>>, <<g2, ax>>}
MachineLoads == l1 :> {<<g1, ax>>, <<g1, ay>>} @@ l1b :> {} @@ io :> {<<g1, ax>>}
MachineStores == l1 :> {<<g1, ax>>, <<g1, ay>>} @@ l1b :> {<<g2, ax>>} @@ io :> {<<g1, ax>>}
MachineMshrs == l1 :> 2 @@ l1b :> 1 @@ l2 :> 2 @@ io :> 1
MachineOps == l1 :> 2 @@ l1b :> 1 @@ io :> 2

\* Two caches on the memory bus.
FlatCache == {l1, io}
FlatParent == l1 :> Mem @@ io :> Mem
FlatPrivate == l1 :> g1
FlatBlock == {<<g1, ax>>, <<g1, ay>>}
FlatLoads == l1 :> {<<g1, ax>>} @@ io :> FlatBlock
FlatStores == l1 :> FlatBlock @@ io :> {}
FlatOps == l1 :> 4 @@ io :> 2

One == [c \in Cache |-> 1]
Two == [c \in Cache |-> 2]
Three == [c \in Cache |-> 3]
=============================================================================
