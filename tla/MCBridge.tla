------------------------------ MODULE MCBridge ------------------------------
(* Small instances of Bridge for TLC. *)
EXTENDS Bridge

CONSTANTS p1, p2, p3, q, s1, s2

\* Four packets, three of which are answered; q is a posted write.
PacketsDef == {p1, p2, p3, q}
AnsweredDef == {p1, p2, p3}
PortsDef == {s1, s2}
=============================================================================
