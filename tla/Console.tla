------------------------------- MODULE Console ------------------------------
(***************************************************************************)
(* The way of an interrupt: serial ports and timers, the I/O APIC, the      *)
(* local APICs, and the LDoms' software.                                    *)
(*                                                                         *)
(* Software is the Linux driver that uart8250p5v.cc is written for, at the  *)
(* level of register accesses.  It programs its redirection entries and the *)
(* port (setup), and then serves console interrupts: it reads the interrupt *)
(* identification until nothing is pending, at most PassLimit times, and    *)
(* each time all the bytes there are, and sends one or disables the         *)
(* transmit interrupt.  A lock keeps the port to one processor at a time.   *)
(* Handlers nest, as far as the local APIC lets them, and end with an EOI.  *)
(***************************************************************************)
EXTENDS Uart8250, IoApic, LocalApic

CONSTANTS Scenarios,   \* the bounds, a set of records: setup, the accesses
                       \* that each LDom starts with; typed, the bytes typed;
                       \* writes, those that software sends; ticks, of the
                       \* timers; restarts, from a checkpoint
          ConsoleVector,   \* [Guest -> Vector]
          Wanted,      \* [Guest -> [Line -> entry]]: what it programs
          PassLimit

VARIABLES pc,       \* [Guest -> where the driver is in its interrupt handler]
          passes,   \* [Guest -> Nat]
          xmit,     \* [Guest -> Nat], bytes software still has to send
          stack,    \* [Cpu -> Seq(handlers)], the innermost first
          scenario, \* the one of Scenarios that is followed, and what has
          made, typed, written, ticked, restarted   \* happened of it

scenarioVars == <<scenario, made, typed, written, ticked, restarted>>
driverVars == <<pc, passes, xmit, stack, scenarioVars>>
vars == <<uartVars, ioapicVars, lapicVars, driverVars>>

Cpus(g) == {c \in Cpu : QR0[c] = g}
Phase == {"wait", "run", "done"}

\* An access of s that writes half of the entry of a line, through the window
\* right after selecting it; one that enables interrupts of the port.
Programs(s, j, half, l) ==
  j > 1 /\ s[j].op = "window" /\ s[j - 1].op = "select" /\ s[j - 1].val = <<half, l>>
Enables(s, j) == s[j].op = "ier" /\ s[j].val # {}

\* How drivers start: they write what they want, the top half of an entry
\* first, and enable interrupts of the port last, when the console's entry is
\* programmed and the divisor latch is closed for good.
Orderly(g, s) == \A j \in 1..Len(s) :
  /\ \/ s[j].op = "select" /\ s[j].val \in Register
     \/ s[j].op = "window" /\ \E half \in {"top", "bottom"}, l \in Line :
          Programs(s, j, half, l) /\ s[j].val = Wanted[g][l][half]
     \/ s[j].op = "lcr" /\ s[j].val \in BOOLEAN
     \/ s[j].op = "ier" /\ s[j].val \subseteq Bit
  /\ \A l \in Line : Programs(s, j, "bottom", l) => \E i \in 1..j : Programs(s, i, "top", l)
  /\ Enables(s, j) =>
       /\ \E i \in 1..j : Programs(s, i, "bottom", ConsoleLine)
       /\ \A i \in 1..Len(s) : s[i].op = "lcr" /\ s[i].val =>
            i < j /\ \E k \in i..j : s[k].op = "lcr" /\ ~s[k].val

(* Software wants its interrupts at its own processors, and what it sends    *)
(* goes through a port that it has set up.                                   *)
ASSUME ConsoleAssumption ==
  /\ PassLimit \in Nat \ {0}
  /\ \A g \in Guest, l \in Line :
       Wanted[g][l] \in [top : Dest, bottom : Bottom]
  /\ \A g \in Guest : Wanted[g][ConsoleLine].bottom.vector = ConsoleVector[g]
  /\ \A g \in Guest, l \in {ConsoleLine, TimerLine} :
       LET top == Wanted[g][l].top  b == Wanted[g][l].bottom IN
       /\ l \in pinMask[g] /\ ~b.mask /\ b.mode # "ExtInt" /\ b.vector \in Vector
       /\ IF b.logical THEN Matching(g, top) # {}
          ELSE Physical[top] # {} /\ Physical[top] \subseteq Cpus(g)
  /\ \A s \in Scenarios, g \in Guest :
       /\ Len(s.setup[g]) \in Nat /\ Orderly(g, s.setup[g])
       /\ s.writes[g] \in Nat
       /\ s.writes[g] > 0 => \E j \in 1..Len(s.setup[g]) : Enables(s.setup[g], j)

TypeOK ==
  /\ UartTypeOK /\ IoApicTypeOK /\ LocalApicTypeOK
  /\ pc \in [Guest -> {"idle", "iir", "lsr", "rbr", "thr", "ier"}]
  /\ passes \in [Guest -> 0..PassLimit] /\ xmit \in [Guest -> Nat]
  /\ stack \in [Cpu -> Seq([vector : Vector, phase : Phase])] /\ scenario \in Scenarios
  /\ made \in [Guest -> Nat] /\ typed \in [Guest -> Nat] /\ written \in [Guest -> Nat]
  /\ ticked \in [Guest -> Nat] /\ restarted \in Nat

Init ==
  /\ UartInit /\ IoApicInit /\ LocalApicInit
  /\ pc = [g \in Guest |-> "idle"] /\ passes = [g \in Guest |-> 0]
  /\ xmit = [g \in Guest |-> 0] /\ stack = [c \in Cpu |-> <<>>]
  /\ scenario \in Scenarios
  /\ made = [g \in Guest |-> 0] /\ typed = [g \in Guest |-> 0]
  /\ written = [g \in Guest |-> 0] /\ ticked = [g \in Guest |-> 0] /\ restarted = 0

\* The end of postConsoleInt's callers.
Posts(g, post) == IF post THEN postConsoleInt(g) ELSE UNCHANGED ioapicVars

-----------------------------------------------------------------------------
(* Software outside the handler.                                             *)
Ready(g) == made[g] = Len(scenario.setup[g])

Setup(g) ==
  /\ ~Ready(g)
  /\ made' = [made EXCEPT ![g] = @ + 1]
  /\ LET a == scenario.setup[g][made[g] + 1] IN
     \/ a.op = "select" /\ writeRegSel(g, a.val) /\ UNCHANGED uartVars
     \/ a.op = "window" /\ writeReg(g, a.val) /\ UNCHANGED uartVars
     \/ a.op = "lcr" /\ writeLCR(g, a.val) /\ UNCHANGED ioapicVars
     \/ a.op = "ier" /\ \E post \in BOOLEAN : writeIER(g, a.val, post) /\ Posts(g, post)
  /\ UNCHANGED <<lapicVars, pc, passes, xmit, stack, scenario, typed, written, ticked, restarted>>

\* Software has a byte to send: it enables the transmit interrupt.
Writes(g) ==
  /\ Ready(g) /\ pc[g] = "idle" /\ written[g] < scenario.writes[g]
  /\ written' = [written EXCEPT ![g] = @ + 1]
  /\ xmit' = [xmit EXCEPT ![g] = @ + 1]
  /\ IF "TX" \in IER[g]
       THEN UNCHANGED <<uartVars, ioapicVars>>
       ELSE \E post \in BOOLEAN : writeIER(g, IER[g] \cup {"TX"}, post) /\ Posts(g, post)
  /\ UNCHANGED <<lapicVars, pc, passes, stack, scenario, made, typed, ticked, restarted>>

(* The host and time.                                                        *)
Types(g, n) ==
  /\ typed[g] + n <= scenario.typed[g]
  /\ typed' = [typed EXCEPT ![g] = @ + n]
  /\ \E post \in BOOLEAN : dataAvailable(g, n, post) /\ Posts(g, post)
  /\ UNCHANGED <<lapicVars, pc, passes, xmit, stack, scenario, made, written, ticked, restarted>>

Fires(g, e) ==
  /\ \E post \in BOOLEAN : process(g, e, post) /\ Posts(g, post)
  /\ UNCHANGED <<lapicVars, driverVars>>

Elapses(g) == Quiet(g) /\ UNCHANGED <<ioapicVars, lapicVars, driverVars>>

Ticks(g) ==
  /\ ticked[g] < scenario.ticks[g]
  /\ ticked' = [ticked EXCEPT ![g] = @ + 1]
  /\ counterInterrupt(g)
  /\ UNCHANGED <<uartVars, lapicVars, pc, passes, xmit, stack, scenario, made, typed, written, restarted>>

\* Mutant: the checkpoint does not have the events of the ports.
Restarts_Events ==
  /\ restarted < scenario.restarts /\ \A c \in Cpu : msgs[c] = <<>>
  /\ restarted' = restarted + 1
  /\ rxbuf' = [g \in Guest |-> 0] /\ recent' = [g \in Guest |-> FALSE]
  /\ scheduled' = [g \in Guest |-> {}]
  /\ UNCHANGED <<IER, LCR, status, ioapicVars, lapicVars, pc, passes, xmit, stack>>
  /\ UNCHANGED <<scenario, made, typed, written, ticked>>

\* The machine is saved, with no message under way, and restored.
Restarts ==
  /\ restarted < scenario.restarts /\ \A c \in Cpu : msgs[c] = <<>>
  /\ restarted' = restarted + 1
  /\ unserialize
  /\ UNCHANGED <<ioapicVars, lapicVars, pc, passes, xmit, stack>>
  /\ UNCHANGED <<scenario, made, typed, written, ticked>>

-----------------------------------------------------------------------------
(* The processors.                                                           *)
Delivers(c) ==
  /\ Arrives(c)
  /\ requestInterrupt(c, Head(msgs[c]).vector)
  /\ UNCHANGED <<uartVars, driverVars>>

\* The processor enters the handler of the vector; the timer's does nothing.
Takes(c) ==
  /\ checkInterrupts(c)
  /\ stack' = [stack EXCEPT ![c] =
       <<[vector |-> IRRV[c],
          phase |-> IF IRRV[c] = ConsoleVector[QR0[c]] THEN "wait" ELSE "done"]>> \o @]
  /\ updateIntrInfo(c)
  /\ UNCHANGED <<uartVars, ioapicVars, pc, passes, xmit, scenarioVars>>

Top(c, phase) == stack[c] # <<>> /\ stack[c][1].phase = phase
Becomes(c, phase) == stack' = [stack EXCEPT ![c][1].phase = phase]

\* Reading the interrupt identification, and the lock before the first time.
Identifies(c, id) ==
  LET g == QR0[c] IN
  /\ \/ Top(c, "wait") /\ pc[g] = "idle" /\ passes' = [passes EXCEPT ![g] = 0]
     \/ Top(c, "run") /\ pc[g] = "iir" /\ UNCHANGED passes
  /\ readIIR(g, id)
  /\ pc' = [pc EXCEPT ![g] = IF id = "NOPEND" THEN "idle" ELSE "lsr"]
  /\ Becomes(c, IF id = "NOPEND" THEN "done" ELSE "run")
  /\ UNCHANGED <<ioapicVars, lapicVars, xmit, scenarioVars>>

\* The rest of a pass; the last step decides on another one.
Again(c) ==
  LET g == QR0[c] more == passes[g] + 1 < PassLimit IN
  /\ passes' = [passes EXCEPT ![g] = @ + 1]
  /\ pc' = [pc EXCEPT ![g] = IF more THEN "iir" ELSE "idle"]
  /\ Becomes(c, IF more THEN "run" ELSE "done")

Serves(c) ==
  LET g == QR0[c] IN
  /\ Top(c, "run")
  /\ \/ /\ pc[g] = "lsr"
        /\ \E dr \in BOOLEAN :
             /\ readLSR(g, dr)
             /\ pc' = [pc EXCEPT ![g] = IF dr THEN "rbr"
                                        ELSE IF xmit[g] > 0 THEN "thr" ELSE "ier"]
        /\ UNCHANGED <<ioapicVars, passes, xmit, stack>>
     \/ /\ pc[g] = "rbr" /\ readRBR(g)
        /\ pc' = [pc EXCEPT ![g] = "lsr"]
        /\ UNCHANGED <<ioapicVars, passes, xmit, stack>>
     \/ /\ pc[g] = "thr" /\ writeTHR(g)
        /\ xmit' = [xmit EXCEPT ![g] = @ - 1]
        /\ IF xmit[g] = 1
             THEN pc' = [pc EXCEPT ![g] = "ier"] /\ UNCHANGED <<passes, stack>>
             ELSE Again(c)
        /\ UNCHANGED ioapicVars
     \/ /\ pc[g] = "ier" /\ Again(c) /\ UNCHANGED xmit
        /\ IF "TX" \in IER[g]
             THEN \E post \in BOOLEAN : writeIER(g, IER[g] \ {"TX"}, post) /\ Posts(g, post)
             ELSE UNCHANGED <<uartVars, ioapicVars>>
  /\ UNCHANGED <<lapicVars, scenarioVars>>

Ends(c) ==
  /\ Top(c, "done")
  /\ EOI(c) /\ stack' = [stack EXCEPT ![c] = Tail(@)]
  /\ UNCHANGED <<uartVars, ioapicVars, pc, passes, xmit, scenarioVars>>

Handles(c) ==
  \/ \E id \in {"RX", "TX", "NOPEND"} : Identifies(c, id)
  \/ Serves(c)
  \/ Ends(c)

Runs(c) == Delivers(c) \/ Takes(c) \/ Handles(c)

Next ==
  \/ \E g \in Guest :
       \/ Setup(g) \/ Writes(g) \/ (\E n \in 1..BufLen : Types(g, n)) \/ Ticks(g)
       \/ (\E e \in Bit : Fires(g, e)) \/ Elapses(g)
  \/ Restarts
  \/ \E c \in Cpu : Runs(c)

(* Software goes on executing; messages arrive and scheduled events fire, as *)
(* the simulator's event queue does not end before they do.                  *)
Fairness ==
  /\ \A g \in Guest : WF_vars(Setup(g)) /\ WF_vars(\E e \in Bit : Fires(g, e))
  /\ \A c \in Cpu : WF_vars(Runs(c))

Spec == Init /\ [][Next]_vars
FairSpec == Spec /\ Fairness

-----------------------------------------------------------------------------
(* A console interrupt that no handler has answered yet. *)
OnTheWay(g) == \E c \in Cpus(g) :
  \/ \E i \in 1..Len(msgs[c]) : msgs[c][i].vector = ConsoleVector[g]
  \/ ConsoleVector[g] \in irr[c]
  \/ \E i \in 1..Len(stack[c]) : stack[c][i] = [vector |-> ConsoleVector[g], phase |-> "wait"]

(* While the driver is not looking, bytes that were typed, and bytes that   *)
(* software still has to send, are announced: an interrupt is on its way, or *)
(* the port will send one.  No order of typing, reading, writing, giving up  *)
(* and restarting leaves bytes behind (read, write, dataAvailable,           *)
(* IntrEvent::process, signalInterrupt, requestInterrupt).                   *)
Announced == \A g \in Guest : pc[g] = "idle" =>
  /\ rxbuf[g] > 0 /\ "RX" \in IER[g] => "RX" \in scheduled[g] \/ OnTheWay(g)
  /\ xmit[g] > 0 => "TX" \in scheduled[g] \/ OnTheWay(g)

(* Interrupts of an LDom are on their way to its own processors only, from   *)
(* the table of PARDg5VPlatform::init on, which sends those of the console   *)
(* to processor 0, whichever LDom it runs.                                   *)
LDomsApart == \A c \in Cpu : \A i \in 1..Len(msgs[c]) : msgs[c][i].guest = QR0[c]

(* The vectors in service are those of the handlers that a processor is in,  *)
(* and each EOI ends the innermost (updateIntrInfo, setReg).                 *)
HandlersNest == \A c \in Cpu :
  /\ isr[c] = {stack[c][i].vector : i \in 1..Len(stack[c])}
  /\ stack[c] # <<>> => ISRV[c] = stack[c][1].vector

(* Every tick of a timer is sent to its LDom, although the timers share a    *)
(* pin (raiseInterruptPin, counterInterrupt).                                *)
EveryTickSent == [][\A g \in Guest :
  ticked'[g] > ticked[g] /\ ~Masked(g, TimerLine)
    => \E c \in Cpus(g) : Len(msgs'[c]) > Len(msgs[c])]_vars

(* All bytes that are typed are read in the end, or gone with a restart, and *)
(* all that software sends are sent.                                         *)
BytesPass == <>[](\A g \in Guest : rxbuf[g] = 0 /\ xmit[g] = 0)

(* Every request is served in the end, and its handler ends.                 *)
RequestsServed == <>[](\A c \in Cpu : irr[c] = {} /\ stack[c] = <<>>)

(* Drivers, timers and restarts use the ports and both controllers as their  *)
(* own specifications say, so what is proved of each alone holds here.       *)
ComponentSpecs == UartSpec /\ IoApicSpec /\ LocalApicSpec
=============================================================================
