----------------------------- MODULE MCConsole ------------------------------
(* Two LDoms: one with two processors, one with the third.                   *)
EXTENDS Console, TLC

GuestDef == {0, 1}
CpuDef == {0, 1, 2}
QR0Def == (0 :> 0) @@ (1 :> 0) @@ (2 :> 1)
LineDef == {2, 4}
VectorDef == {49, 57}
\* 1 and 2 are the bits of two processors, 3 both; 0 is the identifier 0.
DestDef == {0, 1, 2, 3}
PhysicalDef == [d \in DestDef |-> {d} \cap CpuDef]
LogicalDef == (0 :> {1, 3}) @@ (1 :> {2, 3}) @@ (2 :> {1, 3})
pinMaskDef == [g \in GuestDef |-> LineDef]
\* The console interrupts of the first LDom rotate, the other uses a physical
\* identifier for it; timers interrupt all the processors of their LDom.
Rotating == [mask |-> FALSE, mode |-> "LowestPriority", logical |-> TRUE, vector |-> 57]
Direct == [mask |-> FALSE, mode |-> "Fixed", logical |-> FALSE, vector |-> 57]
ToAll == [mask |-> FALSE, mode |-> "Fixed", logical |-> TRUE, vector |-> 49]
BottomDef == {Rotating, Direct, ToAll}
WantedDef ==
  (0 :> ((2 :> [top |-> 3, bottom |-> ToAll]) @@ (4 :> [top |-> 3, bottom |-> Rotating])))
  @@ (1 :> ((2 :> [top |-> 3, bottom |-> ToAll]) @@ (4 :> [top |-> 2, bottom |-> Direct])))
ConsoleVectorDef == [g \in GuestDef |-> 57]

\* The top half first, as the entry may be unmasked with the bottom half.
Entry(g, l) ==
  <<[op |-> "select", val |-> <<"top", l>>], [op |-> "window", val |-> Wanted[g][l].top],
    [op |-> "select", val |-> <<"bottom", l>>], [op |-> "window", val |-> Wanted[g][l].bottom]>>
Port == <<[op |-> "lcr", val |-> TRUE], [op |-> "ier", val |-> {}],
          [op |-> "lcr", val |-> FALSE], [op |-> "ier", val |-> {"RX"}]>>
Zero == [g \in GuestDef |-> 0]
NoSetup == [g \in GuestDef |-> <<>>]
\* The first LDom alone, from setup on; both; and both with their timers.
Alone(in, out, saved) ==
  [setup |-> [NoSetup EXCEPT ![0] = Entry(0, 4) \o Port],
   typed |-> [Zero EXCEPT ![0] = in], writes |-> [Zero EXCEPT ![0] = out],
   ticks |-> Zero, restarts |-> saved]
ScenariosDef ==
  {Alone(3, 0, 0), Alone(1, 1, 1), Alone(0, 3, 0), Alone(2, 1, 0),
   [setup |-> [g \in GuestDef |-> Entry(g, 4) \o SubSeq(Port, 4, 4)],
    typed |-> [g \in GuestDef |-> 1], writes |-> Zero, ticks |-> Zero, restarts |-> 0],
   [setup |-> [g \in GuestDef |->
      Entry(g, 2) \o (IF g = 1 THEN Entry(g, 4) \o SubSeq(Port, 4, 4) ELSE <<>>)],
    typed |-> [Zero EXCEPT ![1] = 1], writes |-> Zero,
    ticks |-> [g \in GuestDef |-> 1], restarts |-> 0]}
=============================================================================
