---------------------------- MODULE MCAddrMapper ----------------------------
(* Small instances of AddrMapper for TLC. *)
EXTENDS AddrMapper

CONSTANTS p0, p1, q1, i0

PacketsDef == {p0, p1, q1, i0}
GuestDef == [p \in PacketsDef |-> IF p \in {p0, i0} THEN 0 ELSE 1]

\* The I/O map of the shipped configuration in small: COM_1 at 3, COM_2 at 2.
\* LDom 0 has COM_1; LDom 1's COM_1 is the host's COM_2; the other ports of
\* either are mapped to 5, where there is no device.
IOTable == <<[domid |-> 0, start |-> 3, size |-> 1, remapped |-> 3],
             [domid |-> 0, start |-> 2, size |-> 1, remapped |-> 5],
             [domid |-> 1, start |-> 3, size |-> 1, remapped |-> 2],
             [domid |-> 1, start |-> 2, size |-> 1, remapped |-> 5]>>

\* The memory map in small: LDom g has the two addresses 2+2g and 3+2g.
MemTable == <<[domid |-> 0, start |-> 0, size |-> 2, remapped |-> 2],
              [domid |-> 1, start |-> 0, size |-> 2, remapped |-> 4]>>
=============================================================================
