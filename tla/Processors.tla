----------------------------- MODULE Processors -----------------------------
(***************************************************************************)
(* Logical domains and the processors they run on: the registry of the      *)
(* system (arch/system.cc), the state that a boot processor is given        *)
(* (PARDg5VLDomain::initBSPState), and what starts and stops a processor:   *)
(* SimpleThread and AtomicSimpleCPU, the CPU type that PARD is run with.    *)
(*                                                                         *)
(* LDom n boots on processor n.  Of the state that initBSPState sets, QR0   *)
(* (the LDom that the processor's requests are tagged with) and the point   *)
(* the program is at are kept.                                              *)
(***************************************************************************)
EXTENDS Integers

CONSTANT NumContexts   \* processors

ASSUME ProcessorsAssumption == NumContexts \in Nat \ {0}

VARIABLES numDomains,   \* LDoms registered: 0 .. numDomains - 1
          cpu,          \* [Processor -> its context]
          timers,       \* processors that software has interrupts sent to
          aborted       \* an assertion has failed, or memory is corrupt

processorVars == <<numDomains, cpu, timers, aborted>>

Processor == 0 .. NumContexts - 1
\* thread is SimpleThread's status, status the CPU's, and ticks whether its
\* next tick is scheduled; at is the program: none, the kernel's entry, or on
\* its way.
Context == [thread : {"Active", "Suspended"}, status : {"Idle", "Running"},
            ticks : BOOLEAN, QR0 : Nat, at : {"none", "entry", "kernel"}]

ProcessorsTypeOK ==
  /\ numDomains \in Nat /\ cpu \in [Processor -> Context]
  /\ timers \subseteq Processor /\ aborted \in BOOLEAN

-----------------------------------------------------------------------------
Activated(c) ==
  IF c.thread = "Active" THEN c
  ELSE [c EXCEPT !.thread = "Active", !.ticks = TRUE, !.status = "Running"]

\* The assertions of AtomicSimpleCPU::activateContext.
ActivateAsserts(c) == c.thread = "Active" \/ (c.status = "Idle" /\ ~c.ticks)

Suspended(c) ==
  IF c.thread = "Suspended" THEN c
  ELSE IF c.status = "Idle" THEN [c EXCEPT !.thread = "Suspended"]
  ELSE [c EXCEPT !.thread = "Suspended", !.ticks = FALSE, !.status = "Idle"]

initBSPState(c, id) == [c EXCEPT !.QR0 = id, !.at = "entry"]

Blank == [thread |-> "Suspended", status |-> "Idle", ticks |-> FALSE, QR0 |-> 0, at |-> "none"]

\* The LDoms of the configuration are registered and started.
ProcessorsInit(guests) ==
  /\ numDomains = guests /\ timers = {} /\ aborted = FALSE
  /\ cpu = [p \in Processor |->
              IF p < guests THEN Activated(initBSPState(Blank, p)) ELSE Blank]

-----------------------------------------------------------------------------
(* What the manager has the system do.                                       *)
createLDom == numDomains' = numDomains + 1 /\ UNCHANGED <<cpu, timers, aborted>>

\* Mutant: the processor is started although the LDom is not registered.
startupLDomVM_Unregistered(id) ==
  /\ IF id \in Processor
       THEN cpu' = [cpu EXCEPT ![id] = Activated(initBSPState(@, id))] /\ UNCHANGED aborted
       ELSE aborted' = TRUE /\ UNCHANGED cpu
  /\ UNCHANGED <<numDomains, timers>>

\* An LDom beyond the last processor is registered, but has no context: the
\* access to threadContexts is undefined.
startupLDomVM(id) ==
  /\ IF id >= numDomains
       THEN UNCHANGED <<cpu, aborted>>
       ELSE IF id \notin Processor
       THEN aborted' = TRUE /\ UNCHANGED cpu
       ELSE LET c == initBSPState(cpu[id], id) IN
            /\ cpu' = [cpu EXCEPT ![id] = Activated(c)]
            /\ aborted' = (aborted \/ ~ActivateAsserts(c))
  /\ UNCHANGED <<numDomains, timers>>

\* There is no check of the LDom: the context is suspended first.
shutdownLDomVM(id) ==
  /\ IF id \notin Processor
       THEN aborted' = TRUE /\ UNCHANGED cpu
       ELSE IF id >= numDomains
       THEN aborted' = TRUE /\ cpu' = [cpu EXCEPT ![id] = Suspended(@)]
       ELSE cpu' = [cpu EXCEPT ![id] = initBSPState(Suspended(@), id)] /\ UNCHANGED aborted
  /\ UNCHANGED <<numDomains, timers>>

-----------------------------------------------------------------------------
(* What the processors do.                                                   *)

\* Mutant: the next tick is scheduled whether or not the processor halted.
tick_Halted(p, insn) ==
  /\ cpu[p].ticks
  /\ LET c == [cpu[p] EXCEPT !.at = "kernel"] IN
     cpu' = [cpu EXCEPT ![p] = [(IF insn = "halt" THEN Suspended(c) ELSE c) EXCEPT !.ticks = TRUE]]
  /\ timers' = IF insn = "arm" THEN timers \cup {p} ELSE timers
  /\ UNCHANGED <<numDomains, aborted>>

\* AtomicSimpleCPU::tick: one instruction.  It may halt the processor, or
\* start or stop the interrupts of a timer; a processor that is not idle at
\* its end ticks again.
tick(p, insn) ==
  /\ cpu[p].ticks
  /\ LET c == [cpu[p] EXCEPT !.ticks = FALSE, !.at = "kernel"]
         d == IF insn = "halt" THEN Suspended(c) ELSE c IN
     cpu' = [cpu EXCEPT ![p] = [d EXCEPT !.ticks = d.status # "Idle"]]
  /\ timers' = IF insn = "arm" THEN timers \cup {p}
               ELSE IF insn = "disarm" THEN timers \ {p} ELSE timers
  /\ UNCHANGED <<numDomains, aborted>>

\* requestInterrupt ends with BaseSimpleCPU::wakeup.
wakeup(p) ==
  /\ p \in timers
  /\ IF cpu[p].thread = "Suspended"
       THEN /\ cpu' = [cpu EXCEPT ![p] = Activated(@)]
            /\ aborted' = (aborted \/ ~ActivateAsserts(cpu[p]))
       ELSE UNCHANGED <<cpu, aborted>>
  /\ UNCHANGED <<numDomains, timers>>

-----------------------------------------------------------------------------
(* The processors under commands and interrupts in any order.                *)
ProcessorsNext ==
  \/ createLDom
  \/ \E id \in Nat : startupLDomVM(id) \/ shutdownLDomVM(id)
  \/ \E p \in Processor :
       wakeup(p) \/ \E insn \in {"work", "halt", "arm", "disarm"} : tick(p, insn)

ProcessorsSpec ==
  (\E guests \in 0..NumContexts : ProcessorsInit(guests)) /\ [][ProcessorsNext]_processorVars

-----------------------------------------------------------------------------
(* Properties.                                                               *)

\* A processor's tick is scheduled exactly while its thread is active and
\* the CPU runs, whatever the order in which commands, interrupts and the
\* halt instruction start and stop it: activateContext's assertions hold, and
\* no processor is active and never executes.
TicksExactly ==
  \A p \in Processor :
    /\ cpu[p].ticks = (cpu[p].thread = "Active")
    /\ cpu[p].ticks = (cpu[p].status = "Running")

\* A processor that executes was initialised for its own LDom, which is
\* registered, and tags its requests with it: neither a command nor an
\* interrupt starts one that still has the tag of LDom 0 it was built with.
OwnTag ==
  \A p \in Processor : cpu[p].thread = "Active" =>
     p < numDomains /\ cpu[p].QR0 = p /\ cpu[p].at # "none"
=============================================================================
