--------------------------- MODULE MCMappedBridge ---------------------------
(* A small instance of MappedBridge for TLC. *)
EXTENDS MappedBridge

CONSTANTS p0, p1, q1, i0, s1, s2

PacketsDef == {p0, p1, q1, i0}
GuestDef == [p \in PacketsDef |-> IF p \in {p0, i0} THEN 0 ELSE 1]

\* LDom 0 has COM_1 (at 3); LDom 1's COM_1 is the host's COM_2 (at 2).
IOTable == <<[domid |-> 0, start |-> 3, size |-> 1, remapped |-> 3],
             [domid |-> 0, start |-> 2, size |-> 1, remapped |-> 5],
             [domid |-> 1, start |-> 3, size |-> 1, remapped |-> 2],
             [domid |-> 1, start |-> 2, size |-> 1, remapped |-> 5]>>
=============================================================================
