-------------------------------- MODULE LDoms -------------------------------
(* The LDoms and the processors that run them: register QR0 of a processor   *)
(* holds the LDom.  PARDg5VLDomain.cc writes it for the processor an LDom    *)
(* boots on; one that software starts later still has 0, and is LDom 0's.    *)
CONSTANTS Guest, Cpu, QR0

ASSUME LDomsAssumption == QR0 \in [Cpu -> Guest]
=============================================================================
