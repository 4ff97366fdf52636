-------------------------- MODULE ManagementProofs --------------------------
(***************************************************************************)
(* For any number of processors, LDoms, commands and interrupts:           *)
(* TicksExactly and OwnTag.  OwnTag is not inductive: an interrupt starts a*)
(* processor, so those that software has interrupts sent to must have been *)
(* initialised too, and only a processor that executes can have asked for  *)
(* them.                                                                   *)
(*                                                                         *)
(* For any planes, networks, writers and operations: the registers         *)
(* implement the tables (AtomicAccess).  The invariant says what a writer  *)
(* relies on between two of its accesses: the lock is its own, its adaptor *)
(* selects its plane, and the registers hold the operands it has written.  *)
(* Networks that shared a plane would break it, as a lock covers one       *)
(* adaptor.                                                                *)
(*                                                                         *)
(* For any clients and packets: the manager executes whole packets, each   *)
(* once (WholeCommands).  The invariant MInv says how far each client's    *)
(* packet has come: nothing of it has been read, or its beginning is in    *)
(* the manager's buffer (Inside), or it is over and nothing that follows   *)
(* can start another (Over).  All that the manager does to processors and  *)
(* planes are steps of theirs, so the properties above hold of the whole   *)
(* system.                                                                 *)
(***************************************************************************)
EXTENDS Manager, SequenceTheorems, TLAPS

\* Processor p was initialised for LDom p, which is registered.
Own(p) == p < numDomains /\ cpu[p].QR0 = p /\ cpu[p].at # "none"

Ticking(c) == c.ticks = (c.thread = "Active") /\ c.ticks = (c.status = "Running")

PInv ==
  /\ ProcessorsTypeOK /\ TicksExactly
  /\ \A p \in Processor : cpu[p].thread = "Active" \/ p \in timers => Own(p)

(* What starting, stopping and initialising a processor make of its context. *)
LEMMA Contexts ==
  ASSUME NEW c \in Context, Ticking(c), NEW id \in Nat
  PROVE  /\ Activated(c) \in Context /\ Ticking(Activated(c))
         /\ Activated(c).QR0 = c.QR0 /\ Activated(c).at = c.at
         /\ Suspended(c) \in Context /\ Ticking(Suspended(c)) /\ Suspended(c).thread = "Suspended"
         /\ Suspended(c).QR0 = c.QR0 /\ Suspended(c).at = c.at
         /\ initBSPState(c, id) \in Context /\ Ticking(initBSPState(c, id))
         /\ initBSPState(c, id).QR0 = id /\ initBSPState(c, id).at = "entry"
         /\ initBSPState(c, id).thread = c.thread
<1>1. /\ Activated(c) \in Context /\ Ticking(Activated(c))
      /\ Activated(c).QR0 = c.QR0 /\ Activated(c).at = c.at
  BY Zenon DEF Activated, Context, Ticking
<1>2. /\ Suspended(c) \in Context /\ Ticking(Suspended(c)) /\ Suspended(c).thread = "Suspended"
      /\ Suspended(c).QR0 = c.QR0 /\ Suspended(c).at = c.at
  BY Zenon DEF Suspended, Context, Ticking
<1>3. /\ initBSPState(c, id) \in Context /\ Ticking(initBSPState(c, id))
      /\ initBSPState(c, id).QR0 = id /\ initBSPState(c, id).at = "entry"
      /\ initBSPState(c, id).thread = c.thread
  BY Zenon DEF initBSPState, Context, Ticking
<1> QED BY <1>1, <1>2, <1>3, Zenon

(* A step that gives one processor a context that is consistent, and its own *)
(* if it is active or gets interrupts, keeps the invariant.                  *)
LEMMA OneContext ==
  ASSUME PInv, NEW p \in Processor, NEW c \in Context, Ticking(c),
         cpu' = [cpu EXCEPT ![p] = c], numDomains' = numDomains,
         timers' \subseteq timers \cup {p}, aborted' \in BOOLEAN,
         c.thread = "Active" \/ p \in timers' =>
            p < numDomains /\ c.QR0 = p /\ c.at # "none"
  PROVE  PInv'
<1>1. cpu' \in [Processor -> Context] /\ cpu'[p] = c
      /\ \A q \in Processor \ {p} : cpu'[q] = cpu[q]
  BY DEF PInv, ProcessorsTypeOK
<1>2. ProcessorsTypeOK'
  BY <1>1 DEF PInv, ProcessorsTypeOK
<1>3. TicksExactly'
  BY <1>1 DEF PInv, TicksExactly, Ticking
<1>4. ASSUME NEW q \in Processor, cpu'[q].thread = "Active" \/ q \in timers' PROVE Own(q)'
  BY <1>1, <1>4, Zenon DEF PInv, Own
<1> QED BY <1>2, <1>3, <1>4, Zenon DEF PInv

(* The contexts the configuration starts with are consistent.                *)
LEMMA InitGood == ASSUME NEW guests \in 0..NumContexts, ProcessorsInit(guests) PROVE PInv
<1> USE ProcessorsAssumption
<1>1. Blank \in Context /\ Ticking(Blank) /\ Blank.thread = "Suspended"
  BY Zenon DEF Blank, Context, Ticking
<1>2. ASSUME NEW p \in Processor
      PROVE  LET c == Activated(initBSPState(Blank, p)) IN
             c \in Context /\ Ticking(c) /\ c.QR0 = p /\ c.at = "entry"
  <2>1. p \in Nat
    BY DEF Processor
  <2> QED BY <1>1, <2>1, Contexts
<1>3. \A p \in Processor : /\ cpu[p] \in Context /\ Ticking(cpu[p])
                           /\ cpu[p].thread = "Active" => Own(p)
  BY <1>1, <1>2, Zenon DEF ProcessorsInit, Own
<1>4. cpu \in [Processor -> Context]
  BY <1>3 DEF ProcessorsInit
<1>5. numDomains \in Nat /\ timers = {} /\ aborted \in BOOLEAN
  <2>1. numDomains = guests /\ timers = {} /\ aborted = FALSE
    BY Zenon DEF ProcessorsInit
  <2>2. guests \in Nat
    OBVIOUS
  <2> QED BY <2>1, <2>2, Zenon
<1>6. ProcessorsTypeOK
  BY <1>4, <1>5 DEF ProcessorsTypeOK
<1>7. TicksExactly
  BY <1>3, Zenon DEF TicksExactly, Ticking
<1> QED BY <1>3, <1>5, <1>6, <1>7 DEF PInv

(* Every step of the manager, of a processor and of an interrupt.            *)
LEMMA ProcessorStep == PInv /\ [ProcessorsNext]_processorVars => PInv'
<1> SUFFICES ASSUME PInv, [ProcessorsNext]_processorVars PROVE PInv'
  OBVIOUS
<1> USE ProcessorsAssumption
<1>t. \A p \in Processor : p \in Nat /\ cpu[p] \in Context /\ Ticking(cpu[p])
  BY DEF PInv, ProcessorsTypeOK, TicksExactly, Ticking, Processor
<1>b. numDomains \in Nat /\ aborted \in BOOLEAN /\ timers \subseteq Processor
  BY DEF PInv, ProcessorsTypeOK
<1>0. CASE UNCHANGED processorVars
  BY <1>0, Zenon DEF processorVars, PInv, ProcessorsTypeOK, TicksExactly, Own
<1>1. CASE createLDom
  <2>1. numDomains' = numDomains + 1 /\ cpu' = cpu /\ timers' = timers /\ aborted' = aborted
    BY <1>1 DEF createLDom
  <2>2. \A p \in Processor : Own(p) => Own(p)'
    BY <2>1, <1>b, <1>t DEF Own
  <2> QED BY <2>1, <2>2, <1>b DEF PInv, ProcessorsTypeOK, TicksExactly
<1>2. ASSUME NEW id \in Nat, startupLDomVM(id) PROVE PInv'
  <2>1. CASE id >= numDomains \/ id \notin Processor
    <3>1. cpu' = cpu /\ timers' = timers /\ numDomains' = numDomains /\ aborted' \in BOOLEAN
      BY <1>2, <2>1, <1>b, Zenon DEF startupLDomVM
    <3> QED BY <3>1, Zenon DEF PInv, ProcessorsTypeOK, TicksExactly, Own
  <2>2. CASE ~(id >= numDomains \/ id \notin Processor)
    <3> DEFINE d == initBSPState(cpu[id], id)
               e == Activated(d)
    <3>1. /\ cpu' = [cpu EXCEPT ![id] = e] /\ timers' = timers
          /\ numDomains' = numDomains /\ aborted' \in BOOLEAN
      BY <1>2, <2>2, <1>b, Zenon DEF startupLDomVM
    <3>2. d \in Context /\ Ticking(d) /\ d.QR0 = id /\ d.at = "entry"
      BY <2>2, <1>t, Contexts
    <3>3. e \in Context /\ Ticking(e) /\ e.QR0 = id /\ e.at = "entry"
      <4> HIDE DEF d
      <4> QED BY <3>2, <1>2, Contexts, Zenon
    <3>4. id < numDomains
      BY <2>2, <1>b
    <3> HIDE DEF d, e
    <3> QED BY <3>1, <3>3, <3>4, <2>2, OneContext, Zenon
  <2> QED BY <2>1, <2>2
<1>3. ASSUME NEW id \in Nat, shutdownLDomVM(id) PROVE PInv'
  <2>1. CASE id \notin Processor
    <3>1. cpu' = cpu /\ timers' = timers /\ numDomains' = numDomains /\ aborted' \in BOOLEAN
      BY <1>3, <2>1, <1>b DEF shutdownLDomVM
    <3> QED BY <3>1, Zenon DEF PInv, ProcessorsTypeOK, TicksExactly, Own
  <2>2. CASE id \in Processor
    <3> DEFINE d == Suspended(cpu[id])
               e == IF id >= numDomains THEN d ELSE initBSPState(d, id)
    <3>1. /\ cpu' = [cpu EXCEPT ![id] = e] /\ timers' = timers
          /\ numDomains' = numDomains /\ aborted' \in BOOLEAN
      BY <1>3, <2>2, <1>b, Zenon DEF shutdownLDomVM
    <3>2. d \in Context /\ Ticking(d) /\ d.thread = "Suspended" /\ d.QR0 = cpu[id].QR0
      BY <2>2, <1>t, Contexts, Zenon
    <3>3. /\ e \in Context /\ Ticking(e) /\ e.thread = "Suspended"
          /\ id < numDomains => e.QR0 = id /\ e.at = "entry"
      <4> HIDE DEF d
      <4>1. /\ initBSPState(d, id) \in Context /\ Ticking(initBSPState(d, id))
            /\ initBSPState(d, id).thread = "Suspended"
            /\ initBSPState(d, id).QR0 = id /\ initBSPState(d, id).at = "entry"
        BY <3>2, <1>3, Contexts
      <4> QED BY <3>2, <4>1, <1>b
    <3>4. id \in timers => id < numDomains
      BY <2>2 DEF PInv, Own
    <3> HIDE DEF d, e
    <3> QED BY <3>1, <3>3, <3>4, <2>2, OneContext, Zenon
  <2> QED BY <2>1, <2>2
<1>4. ASSUME NEW p \in Processor, wakeup(p) PROVE PInv'
  <2>1. Own(p) /\ timers' = timers /\ numDomains' = numDomains
    BY <1>4 DEF wakeup, PInv
  <2>2. CASE cpu[p].thread = "Suspended"
    <3> DEFINE e == Activated(cpu[p])
    <3>1. cpu' = [cpu EXCEPT ![p] = e] /\ aborted' \in BOOLEAN
      BY <1>4, <2>2, <1>b DEF wakeup
    <3>2. e \in Context /\ Ticking(e) /\ e.QR0 = cpu[p].QR0 /\ e.at = cpu[p].at
      BY <1>t, Contexts, Zenon
    <3>3. p < numDomains /\ e.QR0 = p /\ e.at # "none"
      BY <2>1, <3>2, Zenon DEF Own
    <3> HIDE DEF e
    <3> QED BY <2>1, <3>1, <3>2, <3>3, OneContext, Zenon
  <2>3. CASE cpu[p].thread # "Suspended"
    <3>1. cpu' = cpu /\ aborted' = aborted
      BY <1>4, <2>3 DEF wakeup
    <3> QED BY <2>1, <3>1, Zenon DEF PInv, ProcessorsTypeOK, TicksExactly, Own
  <2> QED BY <2>2, <2>3
<1>5. ASSUME NEW p \in Processor, NEW insn \in {"work", "halt", "arm", "disarm"}, tick(p, insn)
      PROVE  PInv'
  <2> DEFINE c == [cpu[p] EXCEPT !.ticks = FALSE, !.at = "kernel"]
             d == IF insn = "halt" THEN Suspended(c) ELSE c
             e == [d EXCEPT !.ticks = d.status # "Idle"]
  <2>1. /\ cpu' = [cpu EXCEPT ![p] = e] /\ numDomains' = numDomains /\ aborted' = aborted
        /\ timers' \subseteq timers \cup {p} /\ cpu[p].ticks
    BY <1>5, Zenon DEF tick
  <2>2. cpu[p].thread = "Active" /\ cpu[p].status = "Running" /\ Own(p)
    BY <2>1, <1>t, Zenon DEF PInv, Ticking
  <2>3. /\ c \in Context /\ c.thread = "Active" /\ c.status = "Running"
        /\ c.QR0 = p /\ c.at = "kernel" /\ c.ticks = FALSE
    BY <2>2, <1>t, Zenon DEF Context, Own
  <2>4. /\ d \in Context /\ d.QR0 = p /\ d.at = "kernel"
        /\ (d.thread = "Active") = (d.status = "Running")
    <3> HIDE DEF c
    <3> QED BY <2>3, Zenon DEF Context, Suspended
  <2>5. e \in Context /\ Ticking(e) /\ e.QR0 = p /\ e.at = "kernel"
    <3> HIDE DEF c, d
    <3> QED BY <2>4, Zenon DEF Context, Ticking
  <2>6. p < numDomains
    BY <2>2 DEF Own
  <2> HIDE DEF c, d, e
  <2> QED BY <2>1, <2>5, <2>6, <1>b, OneContext, Zenon
<1> QED BY <1>0, <1>1, <1>2, <1>3, <1>4, <1>5 DEF ProcessorsNext

(* Whatever commands and interrupts there are, and in whatever order they    *)
(* come, a processor ticks exactly while it is active.                       *)
THEOREM TicksAlwaysExact == ProcessorsSpec => []TicksExactly
<1>1. (\E guests \in 0..NumContexts : ProcessorsInit(guests)) => PInv
  BY InitGood
<1>2. PInv => TicksExactly
  BY DEF PInv
<1> QED BY <1>1, <1>2, ProcessorStep, PTL DEF ProcessorsSpec

(* No command and no interrupt lets a processor execute before it was        *)
(* initialised for its own LDom, or with the tag of another.                 *)
THEOREM AlwaysOwnTag == ProcessorsSpec => []OwnTag
<1>1. (\E guests \in 0..NumContexts : ProcessorsInit(guests)) => PInv
  BY InitGood
<1>2. PInv => OwnTag
  BY DEF PInv, OwnTag, Own
<1> QED BY <1>1, <1>2, ProcessorStep, PTL DEF ProcessorsSpec

-----------------------------------------------------------------------------
(* The control planes.                                                       *)

Shape ==
  /\ selectCP \in [Adaptor -> {o.plane : o \in Operation} \cup {None}]
  /\ regs \in [Plane -> Registers]
  /\ table \in [Plane -> [LDom -> [Dest -> Value]]] /\ lock \in [Adaptor -> Writer \cup {None}]
  /\ step \in [Writer -> {"idle", "select", "operands", "read", "unlock"}]
  /\ left \in [Writer -> SUBSET {"ldom", "dest", "data"}]
  /\ asked \in [Writer -> Operation \cup {None}]
  /\ got \in [Writer -> Value \cup {None, Fixed}]

\* The operands that w has written are in the registers of its plane.
Holds(w) ==
  /\ "ldom" \in left[w] \/ regs[asked[w].plane].ldom = asked[w].ldom
  /\ "dest" \in left[w] \/ regs[asked[w].plane].dest = asked[w].dest
  /\ "data" \in left[w] \/ asked[w].kind # "S" \/ regs[asked[w].plane].data = asked[w].data

Sane(w) ==
  /\ asked[w] = None <=> step[w] = "idle"
  /\ asked[w] # None => lock[asked[w].cpa] = w
  /\ step[w] \in {"operands", "read", "unlock"} => selectCP[asked[w].cpa] = asked[w].plane
  /\ step[w] = "operands" /\ asked[w].plane \in Net[asked[w].cpa] => Holds(w)

AInv == Shape /\ \A w \in Writer : Sane(w)

\* A step of w touches, of the others' state, nothing but adaptor a.
Local(w, a) ==
  /\ \A v \in Writer \ {w} : /\ step'[v] = step[v] /\ left'[v] = left[v]
                             /\ asked'[v] = asked[v] /\ got'[v] = got[v]
  /\ \A b \in Adaptor \ {a} : selectCP'[b] = selectCP[b] /\ lock'[b] = lock[b]
  /\ \A p \in Plane \ Net[a] : regs'[p] = regs[p]

(* Operations, as the constants give them.                                   *)
LEMMA Operations ==
  ASSUME NEW o \in Operation
  PROVE  /\ o.kind \in {"G", "S", "X"} /\ o.cpa \in Adaptor /\ o.ldom \in LDom
         /\ o.dest \in Dest /\ o.data \in Value /\ o # None
         /\ Net[o.cpa] \subseteq Plane
BY ControlPlanesAssumption, Zenon

(* A writer with an operation has its adaptor's lock, so no other writer is  *)
(* on that adaptor.                                                          *)
LEMMA Apart ==
  ASSUME AInv, NEW w \in Writer, NEW v \in Writer \ {w}, asked[w] # None, asked[v] # None
  PROVE  asked[v].cpa # asked[w].cpa
BY DEF AInv, Sane

(* A step of one writer disturbs neither what another relies on nor what its *)
(* operation returns.                                                        *)
LEMMA OthersKeep ==
  ASSUME AInv, NEW w \in Writer, NEW a \in Adaptor, Local(w, a), NEW v \in Writer \ {w},
         asked[v] # None => asked[v].cpa # a
  PROVE  Sane(v)' /\ Result(v)' = Result(v)
<1>1. /\ step'[v] = step[v] /\ left'[v] = left[v] /\ asked'[v] = asked[v] /\ got'[v] = got[v]
      /\ Sane(v) /\ asked[v] \in Operation \cup {None}
  BY Zenon DEF Local, AInv, Shape
<1>2. CASE asked[v] = None
  <2>1. step[v] = "idle"
    BY <1>1, <1>2, Zenon DEF Sane
  <2> QED BY <1>1, <1>2, <2>1, Zenon DEF Sane, Result
<1>3. CASE asked[v] # None
  <2> DEFINE c == asked[v].cpa
  <2>1. asked[v] \in Operation
    BY <1>1, <1>3
  <2>2. c \in Adaptor \ {a} /\ Net[c] \subseteq Plane /\ Net[c] \cap Net[a] = {}
    BY <1>3, <2>1, Operations, ControlPlanesAssumption, Zenon
  <2>3. selectCP'[c] = selectCP[c] /\ lock'[c] = lock[c]
    BY <2>2, Zenon DEF Local
  <2>4. \A p \in Net[c] : regs'[p] = regs[p]
    BY <2>2, Zenon DEF Local
  <2>5. Sane(v)'
    <3>1. asked[v].plane \in Net[c] /\ Holds(v) => Holds(v)'
      BY <1>1, <2>4, Zenon DEF Holds
    <3> QED BY <1>1, <2>3, <3>1, Zenon DEF Sane
  <2>6. Result(v)' = Result(v)
    BY <1>1, <2>3, <2>4, Zenon DEF Result, readData
  <2> QED BY <2>5, <2>6
<1> QED BY <1>2, <1>3

\* A step that implements one of the tables, or none.
Implements == Tables!Next \/ UNCHANGED Tables!tableVars

(* What is left to show of a step of w: its own state.                       *)
LEMMA WriterStep ==
  ASSUME AInv, NEW w \in Writer, NEW a \in Adaptor, Local(w, a), Shape', Sane(w)',
         \A v \in Writer \ {w} : asked[v] # None => asked[v].cpa # a
  PROVE  AInv' /\ \A v \in Writer \ {w} : Result(v)' = Result(v) /\ step'[v] = step[v]
<1>1. \A v \in Writer \ {w} : Sane(v)' /\ Result(v)' = Result(v)
  BY OthersKeep
<1>2. \A v \in Writer \ {w} : step'[v] = step[v]
  BY Zenon DEF Local
<1> QED BY <1>1, <1>2 DEF AInv

(* A step of w that neither performs its operation nor ends it, and does not *)
(* change what it returns.                                                   *)
LEMMA SameTables ==
  ASSUME NEW w \in Writer,
         \A v \in Writer \ {w} : Result(v)' = Result(v) /\ step'[v] = step[v],
         Result(w)' = Result(w),
         step[w] \notin {"read", "unlock"}, step'[w] \notin {"read", "unlock"}
  PROVE  Performed' = Performed /\ Returned' = Returned
<1>1. \A v \in Writer : Result(v)' = Result(v)
  OBVIOUS
<1>2. Returned' = Returned
  BY <1>1 DEF Returned
<1>3. \A v \in Writer : step'[v] \in {"read", "unlock"} <=> step[v] \in {"read", "unlock"}
  OBVIOUS
<1>4. Performed' = Performed
  BY <1>3 DEF Performed
<1> QED BY <1>2, <1>4

(* A writer asks for an operation.                                           *)
LEMMA BeginGood ==
  ASSUME AInv, NEW w \in Writer, NEW o \in Operation, Begin(w, o)
  PROVE  AInv' /\ Implements
<1>1. /\ o.cpa \in Adaptor /\ o # None
  BY Operations
<1>2. Shape
  BY DEF AInv
<1>3. /\ step'[w] = "select" /\ asked'[w] = o /\ lock'[o.cpa] = w /\ got' = got
      /\ selectCP' = selectCP /\ regs' = regs /\ table' = table /\ left' = left
      /\ asked' = [asked EXCEPT ![w] = o] /\ asked[w] = None /\ lock[o.cpa] = None
  BY <1>1, <1>2, Zenon DEF Begin, Shape
<1>4. Shape'
  BY <1>1, <1>2, Zenon DEF Begin, Shape
<1>5. Local(w, o.cpa)
  BY <1>1, <1>2, Zenon DEF Begin, Shape, Local
<1>6. \A v \in Writer \ {w} : asked[v] # None => asked[v].cpa # o.cpa
  BY <1>3, ControlPlanesAssumption DEF AInv, Sane
<1>7. Sane(w)'
  BY <1>1, <1>3, Zenon DEF Sane
<1>8. AInv' /\ \A v \in Writer \ {w} : Result(v)' = Result(v) /\ step'[v] = step[v]
  BY <1>1, <1>4, <1>5, <1>6, <1>7, WriterStep, Zenon
<1>9. step[w] = "idle" /\ Result(w)' = Result(w)
  <2>1. step[w] = "idle"
    BY <1>3, Zenon DEF AInv, Sane
  <2> QED BY <1>3, <2>1, Zenon DEF Result
<1>10. Performed' = Performed /\ Returned' = Returned
  BY <1>3, <1>8, <1>9, SameTables, Zenon
<1>11. Tables!Ask(w, o)
  BY <1>3, <1>10 DEF Tables!Ask
<1> QED BY <1>8, <1>11 DEF Implements, Tables!Next

(* A writer that has an operation: it is alone on its adaptor.               *)
LEMMA Busy ==
  ASSUME AInv, NEW w \in Writer, step[w] # "idle"
  PROVE  /\ asked[w] \in Operation /\ asked[w].cpa \in Adaptor
         /\ \A v \in Writer \ {w} : asked[v] # None => asked[v].cpa # asked[w].cpa
<1>1. asked[w] # None /\ asked[w] \in Operation
  BY DEF AInv, Sane, Shape
<1>2. asked[w].cpa \in Adaptor
  BY <1>1, Operations
<1> QED BY <1>1, <1>2, Apart

(* The plane is selected.                                                    *)
LEMMA SelectGood ==
  ASSUME AInv, NEW w \in Writer, accessCommand(w)
  PROVE  AInv' /\ Implements
<1> DEFINE a == asked[w].cpa
<1>1. /\ asked[w] \in Operation /\ a \in Adaptor
      /\ \A v \in Writer \ {w} : asked[v] # None => asked[v].cpa # a
  BY Busy, Zenon DEF accessCommand
<1>2. Shape /\ Sane(w)
  BY DEF AInv
<1>3. /\ step[w] = "select" /\ step'[w] = "operands" /\ selectCP'[a] = asked[w].plane
      /\ {"ldom", "dest"} \subseteq left'[w] /\ (asked[w].kind = "S" => "data" \in left'[w])
      /\ asked' = asked /\ lock' = lock /\ got' = got /\ table' = table /\ regs' = regs
  BY <1>1, <1>2, Zenon DEF accessCommand, Shape
<1>4. Shape'
  BY <1>1, <1>2, Zenon DEF accessCommand, Shape
<1>5. Local(w, a)
  BY <1>1, <1>2, Zenon DEF accessCommand, Shape, Local
<1>6. Sane(w)'
  BY <1>1, <1>2, <1>3, Zenon DEF Sane, Holds
<1>7. AInv' /\ \A v \in Writer \ {w} : Result(v)' = Result(v) /\ step'[v] = step[v]
  BY <1>1, <1>4, <1>5, <1>6, WriterStep, Zenon
<1>8. Result(w)' = Result(w)
  BY <1>3, Zenon DEF Result
<1>9. Performed' = Performed /\ Returned' = Returned
  BY <1>3, <1>7, <1>8, SameTables, Zenon
<1> QED BY <1>3, <1>7, <1>9, Zenon DEF Implements, Tables!tableVars

(* An operand is written.                                                    *)
LEMMA OperandGood ==
  ASSUME AInv, NEW w \in Writer, NEW reg \in left[w], WriteOperand(w, reg)
  PROVE  AInv' /\ Implements
<1> DEFINE o == asked[w]
           a == asked[w].cpa
           p == asked[w].plane
           n == [regs[p] EXCEPT ![reg] = o[reg]]
<1>1. /\ o \in Operation /\ a \in Adaptor /\ Net[a] \subseteq Plane
      /\ \A v \in Writer \ {w} : asked[v] # None => asked[v].cpa # a
  BY Busy, Operations, Zenon DEF WriteOperand
<1>2. Shape /\ Sane(w)
  BY DEF AInv
<1>3. /\ step[w] = "operands" /\ selectCP[a] = p /\ reg \in {"ldom", "dest", "data"}
      /\ asked' = asked /\ lock' = lock /\ got' = got /\ step' = step /\ selectCP' = selectCP
      /\ left' = [left EXCEPT ![w] = @ \ {reg}]
  BY <1>2, Zenon DEF WriteOperand, accessData, Sane, Shape
<1>4. table' = table /\ regs' = IF p \in Net[a] THEN [regs EXCEPT ![p] = n] ELSE regs
  BY <1>3, Zenon DEF WriteOperand, accessData, recvAtomic
<1>5. p \in Net[a] => /\ p \in Plane /\ n \in Registers
                      /\ n.ldom = IF reg = "ldom" THEN o.ldom ELSE regs[p].ldom
                      /\ n.dest = IF reg = "dest" THEN o.dest ELSE regs[p].dest
                      /\ n.data = IF reg = "data" THEN o.data ELSE regs[p].data
  <2> SUFFICES ASSUME p \in Net[a]
               PROVE  /\ p \in Plane /\ n \in Registers
                      /\ n.ldom = IF reg = "ldom" THEN o.ldom ELSE regs[p].ldom
                      /\ n.dest = IF reg = "dest" THEN o.dest ELSE regs[p].dest
                      /\ n.data = IF reg = "data" THEN o.data ELSE regs[p].data
    BY Zenon
  <2>1. p \in Plane
    BY <1>1, Zenon
  <2>2. PICK r \in Registers : r = regs[p]
    BY <2>1, <1>2, Zenon DEF Shape
  <2>3. PICK q \in Operation : q = o
    BY <1>1, Zenon
  <2> DEFINE m == [r EXCEPT ![reg] = q[reg]]
  <2>4. n = m
    BY <2>2, <2>3, Zenon
  <2>5. /\ m \in Registers
        /\ m.ldom = IF reg = "ldom" THEN q.ldom ELSE r.ldom
        /\ m.dest = IF reg = "dest" THEN q.dest ELSE r.dest
        /\ m.data = IF reg = "data" THEN q.data ELSE r.data
    <3>1. reg \in {"ldom", "dest", "data"}
      BY <1>3, Zenon
    <3>2. q.ldom \in LDom /\ q.dest \in Dest /\ q.data \in Value
      BY <2>3, Operations, Zenon
    <3>3. CASE reg = "ldom"
      BY ONLY <3>2, <3>3, r \in Registers DEF Registers
    <3>4. CASE reg = "dest"
      BY ONLY <3>2, <3>4, r \in Registers DEF Registers
    <3>5. CASE reg = "data"
      BY ONLY <3>2, <3>5, r \in Registers DEF Registers
    <3> QED BY <3>1, <3>3, <3>4, <3>5, Zenon
  <2> HIDE DEF n, o, p, m
  <2> QED BY <2>1, <2>2, <2>3, <2>4, <2>5, Zenon
<1> HIDE DEF n
<1>6. Shape'
  BY <1>2, <1>3, <1>4, <1>5, Zenon DEF Shape
<1>7. Local(w, a)
  BY <1>2, <1>3, <1>4, <1>5, Zenon DEF Shape, Local
<1>8. Sane(w)'
  <2>1. left'[w] = left[w] \ {reg}
    BY <1>2, <1>3, Zenon DEF Shape
  <2>2. ASSUME p \in Net[a] PROVE Holds(w)'
    <3>1. Holds(w) /\ regs'[p] = n
      BY <1>2, <1>3, <1>4, <1>5, <2>2, Zenon DEF Sane, Shape
    <3> QED BY <1>3, <1>5, <2>1, <2>2, <3>1, Zenon DEF Holds
  <2> QED BY <1>2, <1>3, <2>2, Zenon DEF Sane
<1>9. AInv' /\ \A v \in Writer \ {w} : Result(v)' = Result(v) /\ step'[v] = step[v]
  BY <1>1, <1>6, <1>7, <1>8, WriterStep, Zenon
<1>10. Result(w)' = Result(w)
  BY <1>3, Zenon DEF Result
<1>11. Performed' = Performed /\ Returned' = Returned
  BY <1>3, <1>9, <1>10, SameTables, Zenon
<1> QED BY <1>3, <1>4, <1>9, <1>11, Zenon DEF Implements, Tables!tableVars

(* What a resource returns and stores keeps its type.                        *)
LEMMA Resources ==
  ASSUME Shape, NEW p \in Plane, NEW l \in LDom, NEW d \in Dest, NEW v \in Value
  PROVE  /\ get(p, l, d) \in Value \cup {None, Fixed}
         /\ Tables!Updated(p, l, d, v) \in [Plane -> [LDom -> [Dest -> Value]]]
BY DEF Shape, get, Tables!Updated

(* The command is written, where the adaptor has the plane.                  *)
LEMMA CommandEffect ==
  ASSUME AInv, NEW w \in Writer, WriteCommand(w), asked[w].plane \in Net[asked[w].cpa]
  PROVE  LET o == asked[w] IN
         /\ \E n \in Registers : /\ regs' = [regs EXCEPT ![o.plane] = n]
                                 /\ o.kind = "G" => n.data = get(o.plane, o.ldom, o.dest)
         /\ table' = IF o.kind = "S" THEN Tables!Updated(o.plane, o.ldom, o.dest, o.data)
                     ELSE table
<1> DEFINE o == asked[w]
           p == asked[w].plane
           x == get(p, asked[w].ldom, asked[w].dest)
           c == [regs[p] EXCEPT !["cmd"] = asked[w].kind]
<1>1. /\ o \in Operation /\ o.cpa \in Adaptor /\ step[w] = "operands" /\ left[w] = {}
  BY Busy, Zenon DEF WriteCommand
<1>2. /\ o.kind \in {"G", "S", "X"} /\ o.ldom \in LDom /\ o.dest \in Dest /\ o.data \in Value
      /\ p \in Plane
  BY <1>1, Operations, Zenon
<1>3. Shape /\ selectCP[o.cpa] = p /\ Holds(w)
  BY <1>1, Zenon DEF AInv, Sane
<1>4. /\ regs[p] \in Registers /\ regs[p].ldom = o.ldom /\ regs[p].dest = o.dest
      /\ o.kind = "S" => regs[p].data = o.data
  BY <1>1, <1>2, <1>3, Zenon DEF Shape, Holds
<1>5. x \in Value \cup {None, Fixed}
  BY <1>2, <1>3, Resources, Zenon
<1>6. recvAtomic(p, "cmd", c)
  BY <1>3, Zenon DEF WriteCommand, accessData
<1>7. /\ c.cmd = o.kind /\ c.ldom = o.ldom /\ c.dest = o.dest
      /\ o.kind = "S" => c.data = o.data /\ c \in Registers
      /\ o.kind = "G" => [c EXCEPT !.data = x] \in Registers /\ [c EXCEPT !.data = x].data = x
      /\ [c EXCEPT !.cmd = None] \in Registers
  <2>1. PICK r \in Registers : r = regs[p]
    BY <1>4, Zenon
  <2>2. PICK k \in {"G", "S", "X"} : k = o.kind
    BY <1>2, Zenon
  <2>3. PICK y \in Value \cup {None, Fixed} : y = x
    BY <1>5, Zenon
  <2>e. PICK e : e = [r EXCEPT !["cmd"] = k]
    BY Zenon
  <2>4. /\ e.cmd = k /\ e.ldom = r.ldom /\ e.dest = r.dest /\ e.data = r.data
        /\ k = "S" => e \in Registers
        /\ k = "G" => [e EXCEPT !.data = y] \in Registers /\ [e EXCEPT !.data = y].data = y
        /\ [e EXCEPT !.cmd = None] \in Registers
    BY ONLY r \in Registers, k \in {"G", "S", "X"}, y \in Value \cup {None, Fixed}, <2>e
       DEF Registers
  <2>5. c = e
    BY <2>1, <2>2, <2>e, Zenon
  <2> HIDE DEF c, x
  <2> QED BY <1>4, <2>1, <2>2, <2>3, <2>4, <2>5, Zenon
<1> HIDE DEF c
<1>8. CASE o.kind = "G"
  <2>1. regs' = [regs EXCEPT ![p] = [c EXCEPT !.data = x]] /\ table' = table
    BY <1>6, <1>7, <1>8, Zenon DEF recvAtomic
  <2> HIDE DEF x
  <2> QED BY <1>7, <1>8, <2>1, Zenon DEF x
<1>9. CASE o.kind = "S"
  <2>1. regs' = [regs EXCEPT ![p] = c] /\ set(p, o.ldom, o.dest, o.data)
    BY <1>6, <1>7, <1>9, Zenon DEF recvAtomic
  <2>2. table' = Tables!Updated(p, o.ldom, o.dest, o.data)
    BY <2>1, Zenon DEF set, Tables!Updated
  <2> QED BY <1>7, <1>9, <2>1, <2>2, Zenon
<1>10. CASE o.kind = "X"
  <2>1. regs' = [regs EXCEPT ![p] = [c EXCEPT !.cmd = None]] /\ table' = table
    BY <1>6, <1>7, <1>10, Zenon DEF recvAtomic
  <2> QED BY <1>7, <1>10, <2>1, Zenon
<1> QED BY <1>2, <1>8, <1>9, <1>10, Zenon

(* The command is written: the operation takes place.                        *)
LEMMA CommandGood ==
  ASSUME AInv, NEW w \in Writer, WriteCommand(w)
  PROVE  AInv' /\ Implements
<1> DEFINE o == asked[w]
           a == asked[w].cpa
           p == asked[w].plane
<1>1. /\ o \in Operation /\ a \in Adaptor /\ Net[a] \subseteq Plane
      /\ \A v \in Writer \ {w} : asked[v] # None => asked[v].cpa # a
  BY Busy, Operations, Zenon DEF WriteCommand
<1>2. Shape /\ Sane(w)
  BY DEF AInv
<1>3. /\ o.kind \in {"G", "S", "X"} /\ o.ldom \in LDom /\ o.dest \in Dest /\ o.data \in Value
      /\ o # None
  BY <1>1, Operations, Zenon
<1>4. /\ step[w] = "operands" /\ selectCP[a] = p /\ selectCP' = selectCP
      /\ asked' = asked /\ lock' = lock /\ got' = got /\ left' = left
      /\ step' = [step EXCEPT ![w] = IF o.kind = "G" THEN "read" ELSE "unlock"]
  BY <1>2, Zenon DEF WriteCommand, accessData, Sane
<1>5. p \notin Net[a] => regs' = regs /\ table' = table
  BY <1>4, Zenon DEF WriteCommand, accessData
<1>6. /\ regs' \in [Plane -> Registers] /\ \A q \in Plane \ Net[a] : regs'[q] = regs[q]
      /\ p \in Net[a] /\ o.kind = "G" => regs'[p].data = get(p, o.ldom, o.dest)
  <2>1. regs \in [Plane -> Registers]
    BY <1>2 DEF Shape
  <2>2. CASE p \notin Net[a]
    BY <1>5, <2>1, <2>2, Zenon
  <2>3. CASE p \in Net[a]
    <3>1. PICK n \in Registers : /\ regs' = [regs EXCEPT ![p] = n]
                                 /\ o.kind = "G" => n.data = get(p, o.ldom, o.dest)
      BY <2>3, CommandEffect, Zenon
    <3>2. p \in Plane
      BY <1>1, <2>3, Zenon
    <3>3. regs'[p] = n /\ \A q \in Plane \ {p} : regs'[q] = regs[q]
      BY <2>1, <3>1, <3>2, Zenon
    <3>4. regs' \in [Plane -> Registers]
      BY <2>1, <3>1, Zenon
    <3> QED BY <2>3, <3>1, <3>3, <3>4, Zenon
  <2> QED BY <2>2, <2>3, Zenon
<1>7. table' = IF o.kind = "S" /\ p \in Net[a]
                 THEN Tables!Updated(p, o.ldom, o.dest, o.data) ELSE table
  BY <1>5, CommandEffect, Zenon
<1>8. table' \in [Plane -> [LDom -> [Dest -> Value]]]
  <2>1. CASE o.kind = "S" /\ p \in Net[a]
    BY <1>1, <1>2, <1>3, <1>7, <2>1, Resources, Zenon
  <2>2. CASE ~(o.kind = "S" /\ p \in Net[a])
    BY <1>2, <1>7, <2>2, Zenon DEF Shape
  <2> QED BY <2>1, <2>2, Zenon
<1>9. Shape'
  BY <1>2, <1>4, <1>6, <1>8, Zenon DEF Shape
<1>10. Local(w, a)
  BY <1>2, <1>4, <1>6, Zenon DEF Shape, Local
<1>11. step'[w] = IF o.kind = "G" THEN "read" ELSE "unlock"
  BY <1>2, <1>4, Zenon DEF Shape
<1>12. Sane(w)'
  <2>1. step'[w] \in {"read", "unlock"} /\ asked'[w] = o /\ o # None
    BY <1>3, <1>4, <1>11, Zenon
  <2>2. lock'[a] = w
    BY <1>2, <1>3, <1>4, Zenon DEF Sane
  <2>3. selectCP'[a] = p
    BY <1>4, Zenon
  <2> HIDE DEF o, a, p
  <2>4. (asked[w] = None <=> step[w] = "idle")'
    BY <2>1
  <2>5. (asked[w] # None => lock[asked[w].cpa] = w)'
    BY <2>1, <2>2 DEF o, a
  <2>6. (step[w] \in {"operands", "read", "unlock"} => selectCP[asked[w].cpa] = asked[w].plane)'
    BY <2>1, <2>3 DEF o, a, p
  <2>7. ~(step[w] = "operands")'
    BY <2>1
  <2> QED BY <2>4, <2>5, <2>6, <2>7, Zenon DEF Sane
<1>13. AInv' /\ \A v \in Writer \ {w} : Result(v)' = Result(v) /\ step'[v] = step[v]
  BY <1>1, <1>9, <1>10, <1>12, WriterStep, Zenon
<1>14. Result(w)' = IF o.kind = "G" THEN Tables!EntryOf(o) ELSE None
  <2>1. CASE o.kind = "G"
    BY <1>4, <1>6, <1>11, <2>1, Zenon DEF Result, readData, get, Tables!EntryOf
  <2>2. CASE o.kind # "G"
    BY <1>11, <2>2 DEF Result
  <2> QED BY <2>1, <2>2
<1>15. Returned' = [Returned EXCEPT ![w] = IF o.kind = "G" THEN Tables!EntryOf(o) ELSE None]
  BY <1>13, <1>14, Zenon DEF Returned
<1>16. w \notin Performed /\ Performed' = Performed \cup {w}
  BY <1>4, <1>11, <1>13, Zenon DEF Performed
<1>17. Tables!Perform(w)
  BY <1>3, <1>4, <1>7, <1>15, <1>16, Zenon DEF Tables!Perform
<1> QED BY <1>13, <1>17 DEF Implements, Tables!Next

(* The result is read, or there is none, and the lock is given back.         *)
LEMMA EndGood ==
  ASSUME AInv, NEW w \in Writer, ReadData(w) \/ Finish(w)
  PROVE  AInv' /\ Implements
<1> DEFINE a == asked[w].cpa
<1>1. /\ asked[w] \in Operation /\ a \in Adaptor
      /\ \A v \in Writer \ {w} : asked[v] # None => asked[v].cpa # a
  BY Busy, Zenon DEF ReadData, Finish
<1>2. Shape
  BY DEF AInv
<1>3. /\ step[w] \in {"read", "unlock"} /\ got' = [got EXCEPT ![w] = Result(w)]
      /\ step' = [step EXCEPT ![w] = "idle"] /\ asked' = [asked EXCEPT ![w] = None]
      /\ lock' = [lock EXCEPT ![a] = None]
      /\ selectCP' = selectCP /\ regs' = regs /\ table' = table /\ left' = left
  BY Zenon DEF ReadData, Finish, Unlock, Result
<1>4. Result(w) \in Value \cup {None, Fixed}
  <2>1. CASE selectCP[a] \in Net[a]
    <3>1. regs[selectCP[a]] \in Registers
      BY <1>1, <1>2, <2>1, Operations, Zenon DEF Shape
    <3> QED BY <1>2, <2>1, <3>1, Zenon DEF Result, readData, Registers, Shape
  <2>2. CASE selectCP[a] \notin Net[a]
    BY <1>2, <2>2, Zenon DEF Result, readData, Shape
  <2> QED BY <2>1, <2>2, Zenon
<1>5. Shape'
  BY <1>1, <1>2, <1>3, <1>4, Zenon DEF Shape
<1>6. Local(w, a)
  BY <1>1, <1>2, <1>3, Zenon DEF Shape, Local
<1>7. step'[w] = "idle" /\ asked'[w] = None /\ got'[w] = Result(w)
  BY <1>2, <1>3, Zenon DEF Shape
<1>8. Sane(w)'
  BY <1>7 DEF Sane
<1>9. AInv' /\ \A v \in Writer \ {w} : Result(v)' = Result(v) /\ step'[v] = step[v]
  BY <1>1, <1>5, <1>6, <1>8, WriterStep, Zenon
<1>10. Result(w)' = Result(w)
  BY <1>7 DEF Result
<1>11. Returned' = Returned
  BY <1>9, <1>10 DEF Returned
<1>12. w \in Performed /\ Performed' = Performed \ {w}
  BY <1>3, <1>7, <1>9, Zenon DEF Performed
<1>13. Tables!End(w)
  BY <1>3, <1>11, <1>12 DEF Tables!End
<1> QED BY <1>9, <1>13 DEF Implements, Tables!Next

(* The manager writes an entry by its resource's name.                       *)
LEMMA ManagerGood ==
  ASSUME AInv, NEW p \in Plane, NEW l \in LDom, NEW d \in Dest, NEW v \in Value,
         setResource(p, l, d, v)
  PROVE  AInv' /\ Implements
<1>1. /\ selectCP' = selectCP /\ regs' = regs /\ lock' = lock /\ step' = step
      /\ left' = left /\ asked' = asked /\ got' = got
      /\ table' = Tables!Updated(p, l, d, v) \/ table' = table
  BY Zenon DEF setResource, set, Tables!Updated
<1>2. Shape'
  <2>1. Shape
    BY DEF AInv
  <2>2. table' \in [Plane -> [LDom -> [Dest -> Value]]]
    <3>1. Tables!Updated(p, l, d, v) \in [Plane -> [LDom -> [Dest -> Value]]]
      BY <2>1, Resources
    <3>2. table \in [Plane -> [LDom -> [Dest -> Value]]]
      BY <2>1, Zenon DEF Shape
    <3> QED BY <1>1, <3>1, <3>2
  <2> QED BY <1>1, <2>1, <2>2, Zenon DEF Shape
<1>3. \A w \in Writer : Sane(w)' /\ Result(w)' = Result(w)
  BY <1>1, Zenon DEF AInv, Sane, Holds, Result, readData
<1>4. Performed' = Performed /\ Returned' = Returned
  BY <1>1, <1>3 DEF Performed, Returned
<1>5. Implements
  BY <1>1, <1>4 DEF Implements, Tables!Next, Tables!ManagerSets, Tables!tableVars
<1> QED BY <1>2, <1>3, <1>5 DEF AInv

(* What software does through several registers, and the manager beside it,  *)
(* is atomic: every step is a step of the tables or leaves them alone.       *)
THEOREM AccessAlwaysAtomic == PlanesSpec => AtomicAccess
<1>1. PlanesInit => AInv /\ Tables!Init
  <2> SUFFICES ASSUME PlanesInit PROVE AInv /\ Tables!Init
    OBVIOUS
  <2>1. Shape
    BY ControlPlanesAssumption, Zenon DEF PlanesInit, Shape, Registers
  <2>2. \A w \in Writer : Sane(w)
    BY Zenon DEF PlanesInit, Sane
  <2>3. Performed = {} /\ Returned = [w \in Writer |-> None]
    BY Zenon DEF PlanesInit, Performed, Returned, Result
  <2>4. Tables!Init
    BY <2>1, <2>3, Zenon DEF PlanesInit, Shape, Tables!Init
  <2> QED BY <2>1, <2>2, <2>4 DEF AInv
<1>2. ASSUME AInv, [PlanesNext]_planeVars PROVE AInv' /\ Implements
  <2>1. CASE UNCHANGED planeVars
    <3>1. /\ selectCP' = selectCP /\ regs' = regs /\ lock' = lock /\ step' = step
          /\ left' = left /\ asked' = asked /\ got' = got /\ table' = table
      BY <2>1 DEF planeVars
    <3>2. \A w \in Writer : Sane(w)' /\ Result(w)' = Result(w)
      BY <1>2, <3>1, Zenon DEF AInv, Sane, Holds, Result, readData
    <3>3. Performed' = Performed /\ Returned' = Returned
      BY <3>1, <3>2 DEF Performed, Returned
    <3>4. Shape'
      BY <1>2, <3>1, Zenon DEF AInv, Shape
    <3> QED BY <3>1, <3>2, <3>3, <3>4 DEF AInv, Implements, Tables!tableVars
  <2>2. ASSUME NEW w \in Writer, Access(w) PROVE AInv' /\ Implements
    BY <1>2, <2>2, SelectGood, CommandGood, EndGood, OperandGood DEF Access
  <2>3. ASSUME NEW w \in Writer, NEW o \in Operation, Begin(w, o) PROVE AInv' /\ Implements
    BY <1>2, <2>3, BeginGood
  <2>4. ASSUME NEW p \in Plane, NEW l \in LDom, NEW d \in Dest, NEW v \in Value,
               setResource(p, l, d, v)
        PROVE  AInv' /\ Implements
    BY <1>2, <2>4, ManagerGood
  <2> QED BY <1>2, <2>1, <2>2, <2>3, <2>4 DEF PlanesNext
<1>3. AInv /\ [PlanesNext]_planeVars => AInv' /\ [Tables!Next]_(Tables!tableVars)
  BY <1>2 DEF Implements
<1> QED BY <1>1, <1>3, PTL DEF PlanesSpec, AtomicAccess, Tables!Spec
-----------------------------------------------------------------------------
(* The manager.                                                              *)

\* What a client has sent and the manager has not read, and what it will send.
Rest(c) == wire[c] \o toSend[c]
NoStart(s) == \A i \in 1..Len(s) : s[i] # GMStart

\* Where the packet of c is: not begun; read up to the end of body; or over,
\* in which case no start can come any more, and if the manager is in a body,
\* what it reads there is the end of the connection, for ever.
Untouched(c) ==
  ran[c] = <<>> /\ Rest(c) = Packet(plan.asks[c]) /\ ~(fd = c /\ reading = "body")
Inside(c) ==
  /\ ran[c] = <<>> /\ fd = c /\ reading = "body"
  /\ Packet(plan.asks[c]) # <<>> /\ body \o Rest(c) = Tail(Packet(plan.asks[c]))
Over(c) ==
  /\ NoStart(Rest(c))
  /\ fd = c /\ reading = "body" => wire[c] = <<>> /\ shut[c] # "open"
  /\ ran[c] # <<>> => /\ Sound(plan.asks[c]) /\ toSend[c] = <<>>
                      /\ ran[c] = << <<plan.asks[c]>> >>

Sockets ==
  /\ fd \in Client \cup {None} /\ backlog \in Seq(Client) /\ plan \in Plans
  /\ service \in {<<>>, <<"poll">>, <<"listener">>, <<"data">>, <<"listener", "data">>}
  /\ reading \in {"no", "find", "body"} /\ body \in Seq(Byte)
  /\ wire \in [Client -> Seq(Byte)] /\ toSend \in [Client -> Seq(Byte)]
  /\ shut \in [Client -> {"open", "early", "late"}] /\ ran \in [Client -> Seq(Seq(Byte))]
  /\ service \in {<<"listener">>, <<"listener", "data">>} => backlog # <<>>
  /\ service \in {<<"data">>, <<"listener", "data">>} => fd # None
  /\ reading # "no" => service = <<"data">>
  /\ reading # "body" => body = <<>>

MInv == Sockets /\ \A c \in Client : Untouched(c) \/ Inside(c) \/ Over(c)

(* The bytes of packets.                                                     *)
LEMMA Bytes ==
  /\ GMStart \in Byte /\ GMEnd \in Byte /\ EOF \in Byte /\ Command \subseteq Byte
  /\ GMStart # GMEnd /\ GMStart # EOF /\ GMEnd # EOF
  /\ \A m \in Command : m # GMStart /\ m # GMEnd /\ m # EOF
<1>1. GMStart.op = "$" /\ GMEnd.op = "#" /\ EOF.op = "0xFF"
  BY DEF GMStart, GMEnd, EOF
<1>2. \A m \in Command : m.op \in {"create", "startup", "shutdown", "set", "other", "long", "none"}
  BY ManagerAssumption
<1>3. GMStart # GMEnd /\ GMStart # EOF /\ GMEnd # EOF
  BY <1>1
<1>4. \A m \in Command : m # GMStart /\ m # GMEnd /\ m # EOF
  BY <1>1, <1>2
<1> QED BY <1>3, <1>4 DEF Byte

(* A packet of a client: what its bytes are, and where it ends.              *)
LEMMA Packets ==
  ASSUME NEW m \in Command \cup {None}
  PROVE  /\ Packet(m) \in Seq(Byte)
         /\ Packet(m) # <<>> =>
              /\ m \in Command /\ Head(Packet(m)) = GMStart /\ NoStart(Tail(Packet(m)))
              /\ Tail(Packet(m)) \in Seq(Byte)
              /\ \A i \in 1..Len(Tail(Packet(m))) :
                   Tail(Packet(m))[i] = GMEnd =>
                     IF Sound(m) THEN i = 2 /\ Tail(Packet(m)) = <<m, GMEnd>> ELSE i = MaxLen + 2
<1>1. CASE m = None \/ m.op = "none"
  BY <1>1 DEF Packet
<1>2. CASE ~(m = None \/ m.op = "none") /\ m.op = "long"
  <2> DEFINE fill == [i \in 1..MaxLen + 1 |-> m]
             all == <<GMStart>> \o fill \o <<GMEnd>>
  <2>1. m \in Command /\ m \in Byte /\ m # GMStart /\ m # GMEnd
    BY <1>2, Bytes
  <2>2. MaxLen \in Nat /\ GMStart \in Byte /\ GMEnd \in Byte /\ GMStart # GMEnd
    BY ManagerAssumption, Bytes
  <2>3. fill \in Seq(Byte) /\ Len(fill) = MaxLen + 1 /\ \A i \in 1..MaxLen + 1 : fill[i] = m
    BY <2>1, <2>2
  <2> HIDE DEF fill
  <2>4. <<GMStart>> \in Seq(Byte) /\ Len(<<GMStart>>) = 1 /\ <<GMStart>>[1] = GMStart
        /\ <<GMEnd>> \in Seq(Byte) /\ Len(<<GMEnd>>) = 1 /\ <<GMEnd>>[1] = GMEnd
    BY <2>2
  <2> DEFINE half == <<GMStart>> \o fill
  <2>5. /\ half \in Seq(Byte) /\ Len(half) = MaxLen + 2 /\ half[1] = GMStart
        /\ \A i \in 2..MaxLen + 2 : half[i] = m
    <3>1. /\ half \in Seq(Byte) /\ Len(half) = 1 + (MaxLen + 1)
          /\ \A i \in 1..1 + (MaxLen + 1) : half[i] = IF i <= 1 THEN <<GMStart>>[i] ELSE fill[i - 1]
      BY <2>3, <2>4, ConcatProperties
    <3> HIDE DEF half
    <3>2. half[1] = GMStart
      BY <2>2, <2>4, <3>1
    <3>3. ASSUME NEW i \in 2..MaxLen + 2 PROVE half[i] = m
      BY <2>2, <2>3, <3>1
    <3> QED BY <2>2, <3>1, <3>2, <3>3
  <2> HIDE DEF half
  <2>6. /\ all \in Seq(Byte) /\ Len(all) = MaxLen + 3 /\ all[1] = GMStart
        /\ \A i \in 2..MaxLen + 2 : all[i] = m
        /\ all[MaxLen + 3] = GMEnd
    <3>1. /\ all \in Seq(Byte) /\ Len(all) = (MaxLen + 2) + 1
          /\ \A i \in 1..(MaxLen + 2) + 1 :
               all[i] = IF i <= MaxLen + 2 THEN half[i] ELSE <<GMEnd>>[i - (MaxLen + 2)]
      BY <2>4, <2>5, ConcatProperties DEF half
    <3> HIDE DEF all
    <3>2. all[1] = GMStart
      BY <2>2, <2>5, <3>1
    <3>3. ASSUME NEW i \in 2..MaxLen + 2 PROVE all[i] = m
      BY <2>2, <2>5, <3>1
    <3>4. all[MaxLen + 3] = GMEnd
      BY <2>2, <2>4, <3>1
    <3> QED BY <2>2, <3>1, <3>2, <3>3, <3>4
  <2>7. Packet(m) = all
    BY <1>2, Zenon DEF Packet, fill
  <2> HIDE DEF all
  <2>8. /\ Tail(all) \in Seq(Byte) /\ Len(Tail(all)) = MaxLen + 2 /\ Head(all) = GMStart
        /\ \A i \in 1..MaxLen + 2 : Tail(all)[i] = all[i + 1]
    BY <2>2, <2>6, HeadTailProperties
  <2>9. ASSUME NEW i \in 1..MaxLen + 2
        PROVE  /\ Tail(all)[i] # GMStart
               /\ Tail(all)[i] = GMEnd => i = MaxLen + 2
    BY <2>1, <2>2, <2>6, <2>8
  <2> QED BY <1>2, <2>1, <2>6, <2>7, <2>8, <2>9, Zenon DEF NoStart, Sound
<1>3. CASE ~(m = None \/ m.op = "none") /\ m.op # "long"
  <2>1. m \in Command /\ m \in Byte /\ m # GMStart /\ m # GMEnd /\ Sound(m)
    BY <1>3, Bytes DEF Sound
  <2>2. GMStart \in Byte /\ GMEnd \in Byte /\ GMStart # GMEnd
    BY Bytes
  <2>3. Packet(m) = <<GMStart, m, GMEnd>>
    BY <1>3 DEF Packet
  <2>4. Head(Packet(m)) = GMStart /\ Tail(Packet(m)) = <<m, GMEnd>>
    BY <2>3
  <2>5. <<m, GMEnd>> \in Seq(Byte) /\ <<GMStart, m, GMEnd>> \in Seq(Byte)
    BY <2>1, <2>2
  <2>6. NoStart(<<m, GMEnd>>) /\ \A i \in 1..Len(<<m, GMEnd>>) : <<m, GMEnd>>[i] = GMEnd => i = 2
    BY <2>1, <2>2 DEF NoStart
  <2> QED BY <2>1, <2>3, <2>4, <2>5, <2>6
<1> QED BY <1>1, <1>2, <1>3, Zenon

(* Reading the first of the bytes sent and to be sent reads one sent.        *)
LEMMA Joined ==
  ASSUME NEW w \in Seq(Byte), NEW t \in Seq(Byte), w # <<>>
  PROVE  w \o t # <<>> /\ Head(w \o t) = Head(w) /\ Tail(w \o t) = Tail(w) \o t
<1> DEFINE j == w \o t
           k == Tail(w) \o t
<1>1. /\ Len(w) \in Nat \ {0} /\ Len(t) \in Nat /\ Tail(w) \in Seq(Byte)
      /\ Len(Tail(w)) = Len(w) - 1 /\ \A i \in 1..Len(w) - 1 : Tail(w)[i] = w[i + 1]
      /\ Head(w) = w[1]
  BY HeadTailProperties, EmptySeq, LenProperties
<1>2. /\ j \in Seq(Byte) /\ Len(j) = Len(w) + Len(t)
      /\ \A i \in 1..Len(w) + Len(t) : j[i] = IF i <= Len(w) THEN w[i] ELSE t[i - Len(w)]
  BY ConcatProperties
<1>3. /\ k \in Seq(Byte) /\ Len(k) = Len(w) - 1 + Len(t)
      /\ \A i \in 1..Len(w) - 1 + Len(t) :
           k[i] = IF i <= Len(w) - 1 THEN w[i + 1] ELSE t[i - (Len(w) - 1)]
  <2>1. /\ k \in Seq(Byte) /\ Len(k) = Len(Tail(w)) + Len(t)
        /\ \A i \in 1..Len(Tail(w)) + Len(t) :
             k[i] = IF i <= Len(Tail(w)) THEN Tail(w)[i] ELSE t[i - Len(Tail(w))]
    BY <1>1, ConcatProperties
  <2> HIDE DEF k
  <2> QED BY <1>1, <2>1
<1> HIDE DEF j, k
<1>4. j # <<>> /\ Head(j) = j[1] /\ j[1] = w[1]
  BY <1>1, <1>2
<1>5. /\ Tail(j) \in Seq(Byte) /\ Len(Tail(j)) = Len(j) - 1
      /\ \A i \in 1..Len(j) - 1 : Tail(j)[i] = j[i + 1]
  BY <1>2, <1>4, HeadTailProperties
<1>6. ASSUME NEW i \in 1..Len(j) - 1 PROVE Tail(j)[i] = k[i]
  <2>1. i \in Nat /\ i + 1 \in 1..Len(w) + Len(t) /\ i \in 1..Len(w) - 1 + Len(t)
    BY <1>1, <1>2
  <2>2. Tail(j)[i] = j[i + 1]
    BY <1>5
  <2>3. CASE i <= Len(w) - 1
    <3>1. i + 1 <= Len(w)
      BY <1>1, <2>1, <2>3
    <3>2. j[i + 1] = w[i + 1] /\ k[i] = w[i + 1]
      BY <1>2, <1>3, <2>1, <2>3, <3>1
    <3> QED BY <2>2, <3>2
  <2>4. CASE ~(i <= Len(w) - 1)
    <3>1. ~(i + 1 <= Len(w)) /\ (i + 1) - Len(w) = i - (Len(w) - 1)
      BY <1>1, <2>1, <2>4
    <3>2. j[i + 1] = t[(i + 1) - Len(w)] /\ k[i] = t[i - (Len(w) - 1)]
      BY <1>2, <1>3, <2>1, <2>4, <3>1
    <3> QED BY <2>2, <3>1, <3>2
  <2> QED BY <2>3, <2>4
<1>7. Tail(j) = k
  BY <1>1, <1>2, <1>3, <1>5, <1>6, SeqEqual
<1> QED BY <1>1, <1>4, <1>7, Zenon DEF j, k

(* Bytes in three parts.                                                     *)
LEMMA Associative ==
  ASSUME NEW x \in Seq(Byte), NEW y \in Seq(Byte), NEW z \in Seq(Byte)
  PROVE  (x \o y) \o z = x \o (y \o z)
<1> DEFINE a == x \o y
           b == y \o z
           l == a \o z
           r == x \o b
<1>1. Len(x) \in Nat /\ Len(y) \in Nat /\ Len(z) \in Nat
  BY LenProperties
<1>2. /\ a \in Seq(Byte) /\ Len(a) = Len(x) + Len(y)
      /\ \A i \in 1..Len(x) + Len(y) : a[i] = IF i <= Len(x) THEN x[i] ELSE y[i - Len(x)]
  BY ConcatProperties
<1>3. /\ b \in Seq(Byte) /\ Len(b) = Len(y) + Len(z)
      /\ \A i \in 1..Len(y) + Len(z) : b[i] = IF i <= Len(y) THEN y[i] ELSE z[i - Len(y)]
  BY ConcatProperties
<1> HIDE DEF a, b
<1>4. /\ l \in Seq(Byte) /\ Len(l) = Len(a) + Len(z)
      /\ \A i \in 1..Len(a) + Len(z) : l[i] = IF i <= Len(a) THEN a[i] ELSE z[i - Len(a)]
  <2>1. a \in Seq(Byte)
    BY <1>2
  <2> QED BY ONLY <2>1, z \in Seq(Byte), ConcatProperties
<1>5. /\ r \in Seq(Byte) /\ Len(r) = Len(x) + Len(b)
      /\ \A i \in 1..Len(x) + Len(b) : r[i] = IF i <= Len(x) THEN x[i] ELSE b[i - Len(x)]
  <2>1. b \in Seq(Byte)
    BY <1>3
  <2> QED BY ONLY <2>1, x \in Seq(Byte), ConcatProperties
<1> HIDE DEF l, r
<1>6. Len(l) = Len(r) /\ Len(l) = Len(x) + Len(y) + Len(z)
  BY <1>1, <1>2, <1>3, <1>4, <1>5
<1>7. ASSUME NEW i \in 1..Len(l) PROVE l[i] = r[i]
  <2>1. CASE i <= Len(x)
    <3>1. l[i] = a[i] /\ a[i] = x[i]
      BY <1>1, <1>2, <1>4, <1>6, <2>1
    <3>2. r[i] = x[i]
      BY <1>1, <1>3, <1>5, <1>6, <2>1
    <3> QED BY <3>1, <3>2
  <2>2. CASE ~(i <= Len(x)) /\ i <= Len(x) + Len(y)
    <3>1. l[i] = y[i - Len(x)]
      BY <1>1, <1>2, <1>4, <1>6, <2>2
    <3>2. r[i] = b[i - Len(x)] /\ i - Len(x) \in 1..Len(y)
      BY <1>1, <1>3, <1>5, <1>6, <2>2
    <3>3. PICK k : k = i - Len(x)
      OBVIOUS
    <3>4. k \in 1..Len(y) + Len(z) /\ k <= Len(y)
      BY <1>1, <3>2, <3>3
    <3>5. b[k] = y[k]
      BY <1>3, <3>4
    <3> QED BY <3>1, <3>2, <3>3, <3>5
  <2>3. CASE ~(i <= Len(x) + Len(y))
    <3>1. l[i] = z[i - (Len(x) + Len(y))]
      BY <1>1, <1>2, <1>4, <1>6, <2>3, Zenon
    <3>2. r[i] = b[i - Len(x)] /\ i - Len(x) \in 1..Len(y) + Len(z) /\ ~(i - Len(x) <= Len(y))
      BY <1>1, <1>3, <1>5, <1>6, <2>3
    <3>3. PICK k : k = i - Len(x)
      OBVIOUS
    <3>4. b[k] = z[k - Len(y)]
      BY <1>1, <1>3, <3>2, <3>3, Zenon
    <3>5. k - Len(y) = i - (Len(x) + Len(y))
      BY <1>1, <3>2, <3>3
    <3> QED BY <3>1, <3>2, <3>3, <3>4, <3>5
  <2> QED BY <1>1, <2>1, <2>2, <2>3
<1>8. l = r
  BY <1>4, <1>5, <1>6, <1>7, SeqEqual, Zenon
<1> QED BY <1>8 DEF a, b, l, r

(* Sending moves bytes and changes neither them nor their order.             *)
LEMMA Moved ==
  ASSUME NEW w \in Seq(Byte), NEW t \in Seq(Byte), NEW n \in 0..Len(t)
  PROVE  /\ w \o SubSeq(t, 1, n) \in Seq(Byte) /\ SubSeq(t, n + 1, Len(t)) \in Seq(Byte)
         /\ (w \o SubSeq(t, 1, n)) \o SubSeq(t, n + 1, Len(t)) = w \o t
<1> DEFINE u == SubSeq(t, 1, n)
           v == SubSeq(t, n + 1, Len(t))
<1>1. Len(t) \in Nat /\ \A i \in 1..Len(t) : t[i] \in Byte
  BY LenProperties, ElementOfSeq
<1>2. u \in Seq(Byte) /\ v \in Seq(Byte)
  <2>1. 1 \in Int /\ n \in Int /\ n + 1 \in Int /\ Len(t) \in Int
    BY <1>1
  <2>2. (\A i \in 1..n : t[i] \in Byte) /\ (\A i \in n + 1..Len(t) : t[i] \in Byte)
    BY <1>1
  <2> QED BY <2>1, <2>2, SubSeqProperties
<1>3. u \o v = t
  <2>1. 1 \in 1..Len(t) + 1 /\ n \in 1 - 1..Len(t) /\ Len(t) \in n..Len(t)
    BY <1>1
  <2>2. SubSeq(t, 1, n) \o SubSeq(t, n + 1, Len(t)) = SubSeq(t, 1, Len(t))
    BY <2>1, ConcatAdjacentSubSeq, Zenon
  <2> QED BY <2>2, SubSeqFull, Zenon
<1> HIDE DEF u, v
<1>4. w \o u \in Seq(Byte)
  BY <1>2, ConcatProperties
<1>5. (w \o u) \o v = w \o (u \o v)
  <2>1. w \in Seq(Byte) /\ u \in Seq(Byte) /\ v \in Seq(Byte)
    BY <1>2
  <2> QED BY <2>1, Associative
<1> QED BY <1>2, <1>3, <1>4, <1>5, Zenon DEF u, v

(* A byte that recv keeps goes from what is to be read to what is read.      *)
LEMMA KeptByte ==
  ASSUME NEW b \in Seq(Byte), NEW r \in Seq(Byte), r # <<>>
  PROVE  Append(b, Head(r)) \o Tail(r) = b \o r
<1>1. Head(r) \in Byte /\ Tail(r) \in Seq(Byte) /\ <<Head(r)>> \in Seq(Byte)
  BY HeadTailProperties
<1>2. Append(b, Head(r)) = b \o <<Head(r)>>
  BY <1>1, AppendIsConcat
<1>3. (b \o <<Head(r)>>) \o Tail(r) = b \o (<<Head(r)>> \o Tail(r))
  BY <1>1, Associative
<1>4. <<Head(r)>> \o Tail(r) = r
  <2> DEFINE h == <<Head(r)>>
  <2>1. h \in Seq(Byte) /\ Len(h) = 1 /\ h[1] = r[1]
    BY <1>1
  <2>2. /\ Len(r) \in Nat \ {0} /\ Len(Tail(r)) = Len(r) - 1
        /\ \A i \in 1..Len(r) - 1 : Tail(r)[i] = r[i + 1]
    BY HeadTailProperties, EmptySeq
  <2> HIDE DEF h
  <2>3. /\ h \o Tail(r) \in Seq(Byte) /\ Len(h \o Tail(r)) = Len(r)
        /\ \A i \in 1..Len(r) : (h \o Tail(r))[i] = IF i <= 1 THEN h[i] ELSE Tail(r)[i - 1]
    <3>1. /\ h \o Tail(r) \in Seq(Byte) /\ Len(h \o Tail(r)) = Len(h) + Len(Tail(r))
          /\ \A i \in 1..Len(h) + Len(Tail(r)) :
               (h \o Tail(r))[i] = IF i <= Len(h) THEN h[i] ELSE Tail(r)[i - Len(h)]
      BY <1>1, <2>1, ConcatProperties
    <3> QED BY <2>1, <2>2, <3>1
  <2>4. ASSUME NEW i \in 1..Len(r) PROVE (h \o Tail(r))[i] = r[i]
    BY <2>1, <2>2, <2>3
  <2>5. h \o Tail(r) = r
    BY <2>3, <2>4, SeqEqual, Zenon
  <2> QED BY <2>5 DEF h
<1> QED BY <1>2, <1>3, <1>4, Zenon

(* What follows a part without a start has none.                             *)
LEMMA NoStartLater ==
  ASSUME NEW b \in Seq(Byte), NEW r \in Seq(Byte)
  PROVE  /\ NoStart(b \o r) => NoStart(r)
         /\ NoStart(r) /\ r # <<>> => NoStart(Tail(r)) /\ Head(r) # GMStart
<1>1. ASSUME NoStart(b \o r) PROVE NoStart(r)
  <2>1. /\ Len(b \o r) = Len(b) + Len(r) /\ Len(b) \in Nat /\ Len(r) \in Nat
        /\ \A i \in 1..Len(b) + Len(r) : (b \o r)[i] = IF i <= Len(b) THEN b[i] ELSE r[i - Len(b)]
    BY ConcatProperties, LenProperties
  <2>2. ASSUME NEW i \in 1..Len(r) PROVE r[i] # GMStart
    <3>1. i + Len(b) \in 1..Len(b) + Len(r) /\ ~(i + Len(b) <= Len(b)) /\ (i + Len(b)) - Len(b) = i
      BY <2>1
    <3>2. (b \o r)[i + Len(b)] = r[i]
      BY <2>1, <3>1
    <3> QED BY <1>1, <2>1, <3>1, <3>2, Zenon DEF NoStart
  <2> QED BY <2>2 DEF NoStart
<1>2. ASSUME NoStart(r), r # <<>> PROVE NoStart(Tail(r)) /\ Head(r) # GMStart
  <2>1. /\ Len(r) \in Nat \ {0} /\ Len(Tail(r)) = Len(r) - 1 /\ Head(r) = r[1]
        /\ \A i \in 1..Len(r) - 1 : Tail(r)[i] = r[i + 1]
    BY <1>2, HeadTailProperties, EmptySeq
  <2> QED BY <1>2, <2>1 DEF NoStart
<1> QED BY <1>1, <1>2

Framed(c) == Untouched(c) \/ Inside(c) \/ Over(c)
InBody(c) == fd = c /\ reading = "body"

(* The types of what a client sends.                                         *)
LEMMA Sending ==
  ASSUME Sockets, NEW c \in Client
  PROVE  /\ wire[c] \in Seq(Byte) /\ toSend[c] \in Seq(Byte) /\ Rest(c) \in Seq(Byte)
         /\ plan.asks[c] \in Command \cup {None} /\ ran[c] \in Seq(Seq(Byte))
<1>1. wire[c] \in Seq(Byte) /\ toSend[c] \in Seq(Byte) /\ ran[c] \in Seq(Seq(Byte))
  BY DEF Sockets
<1>2. Rest(c) \in Seq(Byte)
  BY <1>1, ConcatProperties DEF Rest
<1>3. plan.asks[c] \in Command \cup {None}
  BY ManagerAssumption, Zenon DEF Sockets
<1> QED BY <1>1, <1>2, <1>3

(* A step that leaves the bytes of a client where they are.                  *)
LEMMA Still ==
  ASSUME NEW c \in Client, Framed(c), wire'[c] = wire[c], toSend'[c] = toSend[c],
         ran'[c] = ran[c], plan' = plan, InBody(c)' <=> InBody(c), InBody(c) => body' = body,
         shut'[c] = shut[c] \/ shut'[c] # "open"
  PROVE  Framed(c)'
<1>1. Rest(c)' = Rest(c)
  BY DEF Rest
<1>2. CASE Untouched(c)
  BY <1>1, <1>2, Zenon DEF Framed, Untouched, InBody
<1>3. CASE Inside(c)
  BY <1>1, <1>3, Zenon DEF Framed, Inside, InBody
<1>4. CASE Over(c)
  BY <1>1, <1>4, Zenon DEF Framed, Over, InBody
<1> QED BY <1>2, <1>3, <1>4, Zenon DEF Framed

(* One byte is read, or the end of the connection.                           *)
LEMMA ReadByte ==
  ASSUME Sockets, NEW b, getbyte(b), toSend' = toSend, NEW c, c = fd
  PROVE  /\ c \in Client /\ wire' \in [Client -> Seq(Byte)] /\ b \in Byte
         /\ \A d \in Client \ {c} : wire'[d] = wire[d]
         /\ \/ /\ wire[c] # <<>> /\ Rest(c) # <<>> /\ b = Head(Rest(c))
               /\ Rest(c)' = Tail(Rest(c)) /\ Len(Rest(c)) = Len(wire[c]) + Len(toSend[c])
            \/ wire[c] = <<>> /\ shut[c] # "open" /\ b = EOF /\ wire' = wire
<1>1. c \in Client
  BY Zenon DEF Sockets, getbyte
<1>2. wire[c] \in Seq(Byte) /\ toSend[c] \in Seq(Byte) /\ wire \in [Client -> Seq(Byte)]
  BY <1>1 DEF Sockets
<1>3. CASE wire[c] # <<>> /\ b = Head(wire[c]) /\ wire' = [wire EXCEPT ![c] = Tail(@)]
  <2>1. /\ Rest(c) # <<>> /\ Head(Rest(c)) = Head(wire[c])
        /\ Tail(Rest(c)) = Tail(wire[c]) \o toSend[c]
    BY <1>2, <1>3, Joined, Zenon DEF Rest
  <2>2. wire'[c] = Tail(wire[c]) /\ \A d \in Client \ {c} : wire'[d] = wire[d]
    BY <1>1, <1>2, <1>3
  <2>3. Tail(wire[c]) \in Seq(Byte) /\ Head(wire[c]) \in Byte
    BY <1>2, <1>3, HeadTailProperties
  <2>4. wire' \in [Client -> Seq(Byte)]
    BY <1>2, <1>3, <2>3, Zenon
  <2>5. wire'[c] \o toSend'[c] = Tail(Rest(c))
    BY <2>1, <2>2, Zenon
  <2>6. Len(Rest(c)) = Len(wire[c]) + Len(toSend[c])
    BY <1>2, ConcatProperties DEF Rest
  <2> QED BY <1>1, <1>3, <2>1, <2>2, <2>3, <2>4, <2>5, <2>6, Zenon DEF Rest
<1>4. CASE wire[c] = <<>> /\ shut[c] # "open" /\ b = EOF /\ wire' = wire
  BY <1>1, <1>2, <1>4, Bytes
<1> QED BY <1>3, <1>4, Zenon DEF getbyte

(* A step that reads nothing, and after which as before the manager is in no *)
(* body, or in the same.                                                     *)
LEMMA StillAll ==
  ASSUME MInv, wire' = wire, toSend' = toSend, ran' = ran, plan' = plan,
         \A c \in Client : (InBody(c)' <=> InBody(c)) /\ (InBody(c) => body' = body)
                           /\ (shut'[c] = shut[c] \/ shut'[c] # "open")
  PROVE  \A c \in Client : Framed(c)'
<1> SUFFICES ASSUME NEW c \in Client PROVE Framed(c)'
  OBVIOUS
<1>1. /\ Framed(c) /\ wire'[c] = wire[c] /\ toSend'[c] = toSend[c] /\ ran'[c] = ran[c]
      /\ InBody(c)' <=> InBody(c)
      /\ InBody(c) => body' = body
      /\ shut'[c] = shut[c] \/ shut'[c] # "open"
  BY DEF MInv, Framed
<1> QED BY <1>1, Still, Zenon

(* The clients' steps: what a client sends is moved, and nothing else.       *)
LEMMA ClientKeeps ==
  ASSUME MInv, NEW c \in Client, Connect(c) \/ clientStep(c)
  PROVE  MInv'
<1>0. Sockets
  BY DEF MInv
<1>1. CASE Connect(c)
  <2>1. /\ backlog' = Append(backlog, c) /\ service' = service /\ fd' = fd
        /\ reading' = reading /\ body' = body /\ wire' = wire /\ toSend' = toSend
        /\ plan' = plan /\ shut' = shut /\ ran' = ran
    BY <1>1, Zenon DEF Connect
  <2>2. backlog' \in Seq(Client) /\ backlog' # <<>>
    <3>1. backlog \in Seq(Client)
      BY <1>0 DEF Sockets
    <3> QED BY <2>1, <3>1
  <2>3. Sockets'
    BY <1>0, <2>1, <2>2, Zenon DEF Sockets
  <2>4. \A d \in Client : Framed(d)'
    BY <2>1, StillAll DEF InBody
  <2> QED BY <2>3, <2>4 DEF MInv, Framed
<1>2. CASE Close(c)
  <2>1. /\ backlog' = backlog /\ service' = service /\ fd' = fd
        /\ reading' = reading /\ body' = body /\ wire' = wire /\ toSend' = toSend
        /\ plan' = plan /\ ran' = ran
        /\ \E s \in {"early", "late"} : shut' = [shut EXCEPT ![c] = s]
    BY <1>2, Zenon DEF Close
  <2>2. shut' \in [Client -> {"open", "early", "late"}]
        /\ \A d \in Client : shut'[d] = shut[d] \/ shut'[d] # "open"
    BY <1>0, <2>1, Zenon DEF Sockets
  <2>3. Sockets'
    BY <1>0, <2>1, <2>2, Zenon DEF Sockets
  <2>4. \A d \in Client : Framed(d)'
    BY <2>1, <2>2, StillAll DEF InBody
  <2> QED BY <2>3, <2>4 DEF MInv, Framed
<1>3. ASSUME NEW n \in 1..MaxLen + 3, Send(c, n) PROVE MInv'
  <2> DEFINE w == wire[c] \o SubSeq(toSend[c], 1, n)
             t == SubSeq(toSend[c], n + 1, Len(toSend[c]))
  <2>1. /\ backlog' = backlog /\ service' = service /\ fd' = fd
        /\ reading' = reading /\ body' = body /\ plan' = plan /\ shut' = shut /\ ran' = ran
        /\ shut[c] = "open" /\ n <= Len(toSend[c])
        /\ wire' = [wire EXCEPT ![c] = w] /\ toSend' = [toSend EXCEPT ![c] = t]
    BY <1>3, Zenon DEF Send
  <2>2. wire[c] \in Seq(Byte) /\ toSend[c] \in Seq(Byte) /\ Len(toSend[c]) \in Nat
    BY <1>0 DEF Sockets
  <2>3. n \in 0..Len(toSend[c])
    BY <2>1, <2>2, ManagerAssumption
  <2>4. w \in Seq(Byte) /\ t \in Seq(Byte) /\ w \o t = wire[c] \o toSend[c]
    BY <2>2, <2>3, Moved, Zenon
  <2> HIDE DEF w, t
  <2>5. /\ wire' \in [Client -> Seq(Byte)] /\ toSend' \in [Client -> Seq(Byte)]
        /\ wire'[c] = w /\ toSend'[c] = t
        /\ \A d \in Client \ {c} : wire'[d] = wire[d] /\ toSend'[d] = toSend[d]
    BY <1>0, <2>1, <2>4, Zenon DEF Sockets
  <2>6. Sockets'
    BY <1>0, <2>1, <2>5, Zenon DEF Sockets
  <2>7. ASSUME NEW d \in Client \ {c} PROVE Framed(d)'
    BY <2>1, <2>5, Still, Zenon DEF MInv, Framed, InBody
  <2>8. Framed(c)'
    <3>1. Rest(c)' = Rest(c)
      BY <2>4, <2>5, Zenon DEF Rest
    <3>2. toSend[c] # <<>>
      BY <2>1, <2>2, <2>3
    <3>3. CASE Untouched(c)
      BY <2>1, <3>1, <3>3, Zenon DEF Framed, Untouched
    <3>4. CASE Inside(c)
      BY <2>1, <3>1, <3>4, Zenon DEF Framed, Inside
    <3>5. CASE Over(c)
      BY <2>1, <3>1, <3>2, <3>5, Zenon DEF Framed, Over
    <3> QED BY <3>3, <3>4, <3>5 DEF MInv
  <2> QED BY <2>6, <2>7, <2>8 DEF MInv, Framed
<1> QED BY <1>1, <1>2, <1>3 DEF clientStep

(* The loop, up to the call that reads: the lists of descriptors name those  *)
(* that are there.                                                           *)
LEMMA LoopKeeps ==
  ASSUME MInv, testAndClear \/ poll \/ accept \/ process
  PROVE  MInv'
<1>0. Sockets
  BY DEF MInv
<1>1. CASE testAndClear
  <2>1. /\ service' = <<"poll">> /\ service = <<>> /\ fd' = fd /\ reading' = reading
        /\ body' = body /\ backlog' = backlog /\ wire' = wire /\ toSend' = toSend
        /\ plan' = plan /\ shut' = shut /\ ran' = ran
    BY <1>1 DEF testAndClear, clientVars
  <2>2. Sockets'
    BY <1>0, <2>1, Zenon DEF Sockets
  <2>3. \A c \in Client : Framed(c)'
    BY <2>1, StillAll DEF InBody
  <2> QED BY <2>2, <2>3 DEF MInv, Framed
<1>2. CASE poll
  <2>1. /\ service = <<"poll">> /\ fd' = fd /\ reading' = reading
        /\ body' = body /\ backlog' = backlog /\ wire' = wire /\ toSend' = toSend
        /\ plan' = plan /\ shut' = shut /\ ran' = ran
    BY <1>2 DEF poll, clientVars
  <2>2. /\ Ready("listener") => backlog # <<>>
        /\ Ready("data") => fd # None
    BY DEF Ready
  <2>3. service' = IF Ready("listener")
                     THEN IF Ready("data") THEN <<"listener", "data">> ELSE <<"listener">>
                     ELSE IF Ready("data") THEN <<"data">> ELSE <<>>
    <3>1. service' = (IF Ready("listener") THEN <<"listener">> ELSE <<>>)
                     \o (IF Ready("data") THEN <<"data">> ELSE <<>>)
      BY <1>2 DEF poll
    <3>2. /\ <<"listener">> \o <<"data">> = <<"listener", "data">>
          /\ <<"listener">> \o <<>> = <<"listener">>
          /\ <<>> \o <<"data">> = <<"data">> /\ <<>> \o <<>> = <<>>
      <4> DEFINE S == {"listener", "data"}
                 l == <<"listener">>
                 d == <<"data">>
      <4>1. /\ l \in Seq(S) /\ Len(l) = 1 /\ l[1] = "listener" /\ <<>> \in Seq(S)
            /\ d \in Seq(S) /\ Len(d) = 1 /\ d[1] = "data"
        OBVIOUS
      <4> HIDE DEF S, l, d
      <4>2. /\ l \o d \in Seq(S) /\ Len(l \o d) = 2
            /\ \A i \in 1..2 : (l \o d)[i] = IF i <= 1 THEN l[i] ELSE d[i - 1]
        <5>1. /\ l \o d \in Seq(S) /\ Len(l \o d) = Len(l) + Len(d)
              /\ \A i \in 1..Len(l) + Len(d) :
                   (l \o d)[i] = IF i <= Len(l) THEN l[i] ELSE d[i - Len(l)]
          BY ONLY <4>1, ConcatProperties
        <5> QED BY <4>1, <5>1
      <4>3. l \o d = <<l[1], d[1]>>
        <5>1. PICK e : e = l \o d
          BY Zenon
        <5>2. e \in Seq(S) /\ Len(e) = 2
          BY <4>2, <5>1
        <5>3. e = <<e[1], e[2]>>
          BY ONLY <5>2
        <5>4. e[1] = l[1] /\ e[2] = d[1]
          BY <4>2, <5>1
        <5> QED BY <5>1, <5>3, <5>4
      <4>4. l \o <<>> = l /\ <<>> \o d = d /\ <<>> \o <<>> = <<>>
        BY ONLY <4>1, ConcatEmptySeq
      <4> QED BY <4>1, <4>3, <4>4 DEF l, d
    <3> QED BY <3>1, <3>2, Zenon
  <2>4. /\ service' \in {<<>>, <<"listener">>, <<"data">>, <<"listener", "data">>}
        /\ service' \in {<<"listener">>, <<"listener", "data">>} => backlog # <<>>
        /\ service' \in {<<"data">>, <<"listener", "data">>} => fd # None
    BY <2>2, <2>3
  <2>5. reading = "no"
    BY <1>0, <2>1 DEF Sockets
  <2>6. Sockets'
    BY <1>0, <2>1, <2>4, <2>5, Zenon DEF Sockets
  <2>7. \A c \in Client : Framed(c)'
    BY <2>1, StillAll DEF InBody
  <2> QED BY <2>6, <2>7 DEF MInv, Framed
<1>3. CASE accept
  <2>1. /\ service # <<>> /\ Head(service) = "listener" /\ backlog' = Tail(backlog)
        /\ reading' = reading /\ body' = body /\ wire' = wire /\ toSend' = toSend
        /\ plan' = plan /\ shut' = shut /\ ran' = ran
        /\ \/ fd # None /\ service' = Tail(service) /\ fd' = fd
           \/ fd = None /\ service' = <<>> /\ fd' = Head(backlog)
    BY <1>3, Zenon DEF accept
  <2>2. service \in {<<"listener">>, <<"listener", "data">>}
    BY <1>0, <2>1 DEF Sockets
  <2>3. backlog # <<>> /\ backlog \in Seq(Client) /\ reading = "no"
    BY <1>0, <2>2 DEF Sockets
  <2>4. backlog' \in Seq(Client) /\ Head(backlog) \in Client
    BY <2>1, <2>3
  <2>5. Tail(service) \in {<<>>, <<"data">>}
    <3>1. Tail(<<"listener">>) = <<>> /\ Tail(<<"listener", "data">>) = <<"data">>
      OBVIOUS
    <3> QED BY <2>2, <3>1, Zenon
  <2>6. /\ service' \in {<<>>, <<"data">>} /\ fd' \in Client \cup {None}
        /\ service' = <<"data">> => fd' # None
    <3>1. fd \in Client \cup {None} /\ <<>> # <<"data">>
      BY <1>0 DEF Sockets
    <3>2. CASE fd # None /\ service' = Tail(service) /\ fd' = fd
      BY <2>5, <3>1, <3>2, Zenon
    <3>3. CASE fd = None /\ service' = <<>> /\ fd' = Head(backlog)
      BY <2>4, <3>1, <3>3, Zenon
    <3> QED BY <2>1, <3>2, <3>3, Zenon
  <2>7. Sockets'
    <3>1. /\ service' \notin {<<"listener">>, <<"listener", "data">>}
          /\ service' \in {<<"data">>, <<"listener", "data">>} => fd' # None
          /\ service' \in {<<>>, <<"poll">>, <<"listener">>, <<"data">>, <<"listener", "data">>}
      BY <2>6
    <3> QED BY <1>0, <2>1, <2>3, <2>4, <2>6, <3>1, Zenon DEF Sockets
  <2>8. \A c \in Client : Framed(c)'
    BY <2>1, <2>3, StillAll DEF InBody
  <2> QED BY <2>7, <2>8 DEF MInv, Framed
<1>4. CASE process
  <2>1. /\ service = <<"data">> /\ service' = service /\ fd' = fd
        /\ reading = "no" /\ reading' = "find"
        /\ body' = body /\ backlog' = backlog /\ wire' = wire /\ toSend' = toSend
        /\ plan' = plan /\ shut' = shut /\ ran' = ran
    BY <1>4 DEF process, clientVars
  <2>2. Sockets'
    BY <1>0, <2>1, Zenon DEF Sockets
  <2>3. \A c \in Client : Framed(c)'
    BY <2>1, StillAll DEF InBody
  <2> QED BY <2>2, <2>3 DEF MInv, Framed
<1> QED BY <1>1, <1>2, <1>3, <1>4

(* A packet that is executed is the whole one that its client sent: the end  *)
(* mark stands nowhere else, and one beyond the buffer is not reached.       *)
LEMMA WholePacket ==
  ASSUME MInv, goodPacket, NEW c, c = fd
  PROVE  /\ Inside(c) /\ plan.asks[c] \in Command /\ Sound(plan.asks[c])
         /\ body = <<plan.asks[c]>> /\ toSend[c] = <<>> /\ Rest(c)' = <<>> /\ toSend' = toSend
<1> DEFINE m == plan.asks[c]
           r == Rest(c)
           p == Tail(Packet(m))
<1>0. Sockets /\ getbyte(GMEnd) /\ reading = "body" /\ Len(body) < MaxLen /\ toSend' = toSend
  BY DEF MInv, goodPacket
<1>1. /\ c \in Client /\ wire[c] # <<>> /\ r # <<>> /\ Head(r) = GMEnd
      /\ r' = Tail(r) /\ Len(r) = Len(wire[c]) + Len(toSend[c])
  BY <1>0, ReadByte, Bytes, Zenon
<1>2. Inside(c)
  BY <1>0, <1>1, Zenon DEF MInv, Untouched, Over
<1>3. /\ r \in Seq(Byte) /\ m \in Command \cup {None} /\ body \in Seq(Byte)
      /\ wire[c] \in Seq(Byte) /\ toSend[c] \in Seq(Byte)
  BY <1>0, <1>1, Sending, Zenon DEF Sockets
<1>4. Packet(m) # <<>> /\ body \o r = p
  BY <1>2 DEF Inside
<1>5. /\ Len(p) = Len(body) + Len(r) /\ Len(body) \in Nat /\ Len(r) \in Nat \ {0}
      /\ \A i \in 1..Len(body) + Len(r) : p[i] = IF i <= Len(body) THEN body[i] ELSE r[i - Len(body)]
  <2>1. /\ Len(body \o r) = Len(body) + Len(r)
        /\ \A i \in 1..Len(body) + Len(r) :
             (body \o r)[i] = IF i <= Len(body) THEN body[i] ELSE r[i - Len(body)]
    <3>1. body \in Seq(Byte) /\ r \in Seq(Byte)
      BY <1>3
    <3> HIDE DEF r
    <3> QED BY ONLY <3>1, ConcatProperties
  <2>2. Len(body) \in Nat /\ Len(r) \in Nat \ {0}
    BY <1>1, <1>3, EmptySeq, LenProperties, Zenon
  <2> QED BY <1>4, <2>1, <2>2, Zenon
<1>6. /\ m \in Command
      /\ \A i \in 1..Len(p) :
           p[i] = GMEnd => IF Sound(m) THEN i = 2 /\ p = <<m, GMEnd>> ELSE i = MaxLen + 2
  BY <1>3, <1>4, Packets, Zenon
<1> HIDE DEF m, r, p
<1>7. Len(body) + 1 \in 1..Len(p) /\ p[Len(body) + 1] = GMEnd
  <2>1. Len(body) + 1 \in 1..Len(body) + Len(r) /\ ~(Len(body) + 1 <= Len(body))
        /\ (Len(body) + 1) - Len(body) = 1
    BY <1>5
  <2>2. p[Len(body) + 1] = r[1]
    BY <1>5, <2>1
  <2>3. r[1] = GMEnd
    <3>1. r \in Seq(Byte) /\ r # <<>>
      BY <1>1, <1>3
    <3>2. Head(r) = r[1]
      BY ONLY <3>1
    <3> QED BY <1>1, <3>2, Zenon
  <2> QED BY <1>5, <2>1, <2>2, <2>3
<1>8. Sound(m) /\ Len(body) = 1 /\ p = <<m, GMEnd>>
  <2>1. MaxLen \in Nat /\ Len(body) + 1 # MaxLen + 2
    BY <1>0, <1>5, ManagerAssumption
  <2>2. Sound(m) /\ Len(body) + 1 = 2 /\ p = <<m, GMEnd>>
    BY <1>6, <1>7, <2>1
  <2> QED BY <1>5, <2>2
<1>9. Len(r) = 1 /\ body[1] = m
  <2>1. Len(p) = 2 /\ p[1] = m
    BY <1>8
  <2>2. Len(r) = 1
    <3>1. PICK n \in Nat : n = Len(r)
      BY <1>5
    <3>2. 2 = 1 + n
      BY <1>5, <1>8, <2>1, <3>1, Zenon
    <3>3. n = 1
      BY ONLY <3>2, n \in Nat
    <3> QED BY <3>1, <3>3, Zenon
  <2>3. p[1] = body[1]
    BY <1>5, <1>8, <2>2
  <2> QED BY <2>1, <2>2, <2>3
<1>10. body = <<m>>
  BY <1>3, <1>8, <1>9
<1>11. toSend[c] = <<>>
  <2>1. Len(wire[c]) \in Nat \ {0} /\ Len(toSend[c]) \in Nat
    BY <1>1, <1>3, EmptySeq, LenProperties
  <2>2. Len(toSend[c]) = 0
    <3>1. PICK n \in Nat \ {0}, k \in Nat : n = Len(wire[c]) /\ k = Len(toSend[c])
      BY <2>1
    <3>2. 1 = n + k
      BY <1>1, <1>9, <3>1, Zenon
    <3>3. k = 0
      BY ONLY <3>2, n \in Nat \ {0}, k \in Nat
    <3> QED BY <3>1, <3>3, Zenon
  <2> QED BY <1>3, <2>2
<1>12. r' = <<>>
  <2>1. Tail(r) = <<>>
    <3>1. PICK q \in Seq(Byte) : q = r
      BY <1>3
    <3>2. Len(q) = 1
      BY <1>9, <3>1, Zenon
    <3>3. Tail(q) \in Seq(Byte) /\ Len(Tail(q)) = 0
      <4>1. q # <<>>
        BY <3>2
      <4> QED BY ONLY <3>2, <4>1, q \in Seq(Byte), HeadTailProperties
    <3>4. Tail(q) = <<>>
      BY ONLY <3>3, EmptySeq
    <3> QED BY <3>1, <3>4, Zenon
  <2> QED BY <1>1, <2>1, Zenon
<1> QED BY <1>0, <1>2, <1>6, <1>8, <1>10, <1>11, <1>12, Zenon DEF m, r

(* The clients that are not read from are where they were.                   *)
LEMMA UnreadKeep ==
  ASSUME MInv, NEW b, getbyte(b), toSend' = toSend, plan' = plan, shut' = shut,
         NEW c, c = fd, fd' \in {c, None}, \A d \in Client : d # c => ran'[d] = ran[d]
  PROVE  \A d \in Client : d # c => Framed(d)'
<1> SUFFICES ASSUME NEW d \in Client, d # c PROVE Framed(d)'
  OBVIOUS
<1>1. wire'[d] = wire[d]
  BY ReadByte, Zenon DEF MInv
<1>2. d # None /\ ~InBody(d) /\ ~InBody(d)'
  BY ManagerAssumption DEF InBody
<1>3. Framed(d)
  BY DEF MInv, Framed
<1> QED BY <1>1, <1>2, <1>3, Still, Zenon

(* Reading for a start.                                                      *)
LEMMA FindKeeps ==
  ASSUME MInv, NEW b, findStart(b)
  PROVE  MInv'
<1>0. /\ Sockets /\ getbyte(b) /\ reading = "find" /\ body = <<>> /\ service = <<"data">>
      /\ toSend' = toSend /\ plan' = plan /\ shut' = shut /\ ran' = ran /\ backlog' = backlog
  BY Zenon DEF MInv, Sockets, findStart
<1>1. PICK c : c = fd
  OBVIOUS
<1>2. /\ c \in Client /\ wire' \in [Client -> Seq(Byte)]
      /\ \/ wire[c] # <<>> /\ Rest(c) # <<>> /\ b = Head(Rest(c)) /\ Rest(c)' = Tail(Rest(c))
         \/ wire[c] = <<>> /\ b = EOF /\ wire' = wire
  BY <1>0, <1>1, ReadByte, Zenon
<1>3. Rest(c) \in Seq(Byte) /\ plan.asks[c] \in Command \cup {None} /\ c # None
  BY <1>0, <1>2, Sending, ManagerAssumption, Zenon
<1>4. body' = <<>> /\ \/ b = EOF /\ fd' = None /\ reading' = "no" /\ service' = <<>>
                      \/ /\ b # EOF /\ fd' = c /\ service' = service
                         /\ reading' = IF b = GMStart THEN "body" ELSE "find"
  <2>1. Tail(<<"data">>) = <<>>
    OBVIOUS
  <2> QED BY <1>0, <1>1, <2>1 DEF findStart, detach, Return
<1>5. Sockets'
  <2>1. CASE b = EOF
    <3>1. /\ body' = <<>> /\ fd' = None /\ reading' = "no" /\ service' = <<>>
          /\ <<>> \notin {<<"listener">>, <<"data">>, <<"listener", "data">>}
      BY <1>4, <2>1
    <3> QED BY <1>0, <1>2, <3>1, Zenon DEF Sockets
  <2>2. CASE b # EOF
    <3>1. body' = <<>> /\ fd' = fd /\ reading' \in {"find", "body"} /\ service' = service
      BY <1>1, <1>4, <2>2
    <3> QED BY <1>0, <1>2, <3>1, Zenon DEF Sockets
  <2> QED BY <2>1, <2>2
<1>6. Framed(c)'
  <2>1. Framed(c) /\ ~InBody(c)
    BY <1>0, <1>2 DEF MInv, Framed, InBody
  <2>2. CASE wire[c] = <<>> /\ b = EOF /\ wire' = wire
    <3>1. ~InBody(c)'
      BY <1>4, <2>2 DEF InBody
    <3> QED BY <1>0, <1>2, <2>1, <2>2, <3>1, Still, Zenon
  <2>3. CASE Untouched(c) /\ wire[c] # <<>> /\ Rest(c) # <<>> /\ b = Head(Rest(c)) /\ Rest(c)' = Tail(Rest(c))
    <3>1. /\ Rest(c) = Packet(plan.asks[c]) /\ Packet(plan.asks[c]) # <<>> /\ b = GMStart
          /\ Tail(Packet(plan.asks[c])) \in Seq(Byte)
      BY <1>3, <2>3, Packets, Zenon DEF Untouched
    <3>2. fd' = c /\ reading' = "body" /\ body' = <<>>
      BY <1>4, <3>1, Bytes
    <3>3. <<>> \o Tail(Packet(plan.asks[c])) = Tail(Packet(plan.asks[c]))
      BY <3>1, ConcatEmptySeq
    <3>4. body' \o Rest(c)' = Tail(Packet(plan.asks[c]))
      BY <2>3, <3>1, <3>2, <3>3, Zenon
    <3>5. Inside(c)'
      BY <1>0, <2>3, <3>1, <3>2, <3>4, Zenon DEF Inside, Untouched
    <3> QED BY <3>5 DEF Framed
  <2>4. CASE Over(c) /\ wire[c] # <<>> /\ Rest(c) # <<>> /\ b = Head(Rest(c)) /\ Rest(c)' = Tail(Rest(c))
    <3>1. NoStart(Tail(Rest(c))) /\ b # GMStart
      BY <1>3, <2>4, NoStartLater, Zenon DEF Over
    <3>2. NoStart(Rest(c))' /\ reading' # "body"
      BY <1>4, <2>4, <3>1 DEF NoStart
    <3>3. Over(c)'
      BY <1>0, <2>4, <3>2, Zenon DEF Over
    <3> QED BY <3>3 DEF Framed
  <2> QED BY <1>2, <2>1, <2>2, <2>3, <2>4, Zenon DEF Framed, Inside, InBody
<1>7. \A d \in Client : d # c => Framed(d)'
  BY <1>0, <1>1, <1>4, UnreadKeep
<1> QED BY <1>5, <1>6, <1>7 DEF MInv, Framed

(* A byte of the body.                                                       *)
LEMMA BodyKeeps ==
  ASSUME MInv, NEW b, inBody(b)
  PROVE  MInv'
<1>0. /\ Sockets /\ getbyte(b) /\ reading = "body" /\ reading' = reading /\ service' = service
      /\ toSend' = toSend /\ plan' = plan /\ shut' = shut /\ ran' = ran /\ backlog' = backlog
      /\ fd' = fd /\ body \in Seq(Byte) /\ body' = Append(body, b)
  BY Zenon DEF MInv, Sockets, inBody
<1>1. PICK c : c = fd
  OBVIOUS
<1>2. /\ c \in Client /\ wire' \in [Client -> Seq(Byte)] /\ b \in Byte
      /\ \/ wire[c] # <<>> /\ Rest(c) # <<>> /\ b = Head(Rest(c)) /\ Rest(c)' = Tail(Rest(c))
         \/ wire[c] = <<>> /\ shut[c] # "open" /\ b = EOF /\ wire' = wire
  BY <1>0, <1>1, ReadByte, Zenon
<1>3. Rest(c) \in Seq(Byte) /\ plan.asks[c] \in Command \cup {None}
  BY <1>0, <1>2, Sending, Zenon
<1>4. Sockets'
  <2>1. body' \in Seq(Byte)
    BY <1>0, <1>2
  <2> QED BY <1>0, <1>2, <2>1, Zenon DEF Sockets
<1>5. Framed(c)'
  <2>1. Inside(c) \/ Over(c)
    BY <1>0, <1>1, <1>2, Zenon DEF MInv, Untouched
  <2>2. CASE Inside(c) /\ wire[c] # <<>> /\ Rest(c) # <<>> /\ b = Head(Rest(c)) /\ Rest(c)' = Tail(Rest(c))
    <3>1. Append(body, Head(Rest(c))) \o Tail(Rest(c)) = body \o Rest(c)
      BY <1>0, <1>3, <2>2, KeptByte, Zenon
    <3>2. body' \o Rest(c)' = body \o Rest(c)
      BY <1>0, <2>2, <3>1, Zenon
    <3>3. Inside(c)'
      BY <1>0, <2>2, <3>2, Zenon DEF Inside
    <3> QED BY <3>3 DEF Framed
  <2>3. CASE Inside(c) /\ wire[c] = <<>> /\ shut[c] # "open" /\ wire' = wire
    <3>1. NoStart(Tail(Packet(plan.asks[c]))) /\ body \o Rest(c) = Tail(Packet(plan.asks[c]))
      BY <1>3, <2>3, Packets, Zenon DEF Inside
    <3>2. NoStart(Rest(c))
      BY <1>0, <1>3, <3>1, NoStartLater
    <3>3. Rest(c)' = Rest(c)
      BY <1>0, <2>3, Zenon DEF Rest
    <3>4. NoStart(Rest(c))'
      BY <3>2, <3>3 DEF NoStart
    <3>5. Over(c)'
      BY <1>0, <2>3, <3>4, Zenon DEF Over, Inside
    <3> QED BY <3>5 DEF Framed
  <2>4. CASE Over(c)
    <3>1. wire[c] = <<>> /\ wire' = wire
      BY <1>0, <1>1, <1>2, <2>4, Zenon DEF Over
    <3>2. Rest(c)' = Rest(c)
      BY <1>0, <3>1, Zenon DEF Rest
    <3>3. NoStart(Rest(c))'
      BY <2>4, <3>2 DEF NoStart, Over
    <3>4. Over(c)'
      BY <1>0, <2>4, <3>1, <3>3, Zenon DEF Over
    <3> QED BY <3>4 DEF Framed
  <2> QED BY <1>2, <2>1, <2>2, <2>3, <2>4, Zenon
<1>6. \A d \in Client : d # c => Framed(d)'
  BY <1>0, <1>1, UnreadKeep
<1> QED BY <1>4, <1>5, <1>6 DEF MInv, Framed

(* The end of a packet that does not fit.                                    *)
LEMMA BadKeeps ==
  ASSUME MInv, NEW b, badPacket(b)
  PROVE  MInv'
<1>0. /\ Sockets /\ getbyte(b) /\ reading = "body" /\ reading' = "find" /\ service' = service
      /\ toSend' = toSend /\ plan' = plan /\ shut' = shut /\ ran' = ran /\ backlog' = backlog
      /\ fd' = fd /\ body \in Seq(Byte) /\ body' = <<>>
  BY Zenon DEF MInv, Sockets, badPacket
<1>1. PICK c : c = fd
  OBVIOUS
<1>2. /\ c \in Client /\ wire' \in [Client -> Seq(Byte)]
      /\ \/ wire[c] # <<>> /\ Rest(c) # <<>> /\ Rest(c)' = Tail(Rest(c))
         \/ wire[c] = <<>> /\ wire' = wire
  BY <1>0, <1>1, ReadByte, Zenon
<1>3. Rest(c) \in Seq(Byte) /\ plan.asks[c] \in Command \cup {None}
  BY <1>0, <1>2, Sending, Zenon
<1>4. Sockets'
  <2>1. body' \in Seq(Byte)
    BY <1>0
  <2> QED BY <1>0, <1>2, <2>1, Zenon DEF Sockets
<1>5. Framed(c)'
  <2>1. Inside(c) \/ Over(c)
    BY <1>0, <1>1, <1>2 DEF MInv, Untouched
  <2>2. NoStart(Rest(c))
    <3>1. CASE Inside(c)
      <4>1. NoStart(Tail(Packet(plan.asks[c]))) /\ body \o Rest(c) = Tail(Packet(plan.asks[c]))
        BY <1>3, <3>1, Packets, Zenon DEF Inside
      <4> QED BY <1>0, <1>3, <4>1, NoStartLater, Zenon
    <3> QED BY <2>1, <3>1 DEF Over
  <2>3. NoStart(Rest(c))'
    <3>1. CASE wire[c] # <<>> /\ Rest(c) # <<>> /\ Rest(c)' = Tail(Rest(c))
      <4>1. NoStart(Tail(Rest(c)))
        BY <1>3, <2>2, <3>1, NoStartLater
      <4> QED BY <3>1, <4>1 DEF NoStart
    <3>2. CASE wire' = wire
      <4>1. Rest(c)' = Rest(c)
        BY <1>0, <3>2 DEF Rest
      <4> QED BY <2>2, <4>1 DEF NoStart
    <3> QED BY <1>2, <3>1, <3>2
  <2>4. ran[c] # <<>> => /\ Sound(plan.asks[c]) /\ toSend[c] = <<>>
                         /\ ran[c] = << <<plan.asks[c]>> >>
    BY <2>1, Zenon DEF Inside, Over
  <2>5. Over(c)'
    BY <1>0, <2>3, <2>4, Zenon DEF Over
  <2> QED BY <2>5 DEF Framed
<1>6. \A d \in Client : d # c => Framed(d)'
  BY <1>0, <1>1, UnreadKeep
<1> QED BY <1>4, <1>5, <1>6 DEF MInv, Framed

(* The end of one that does.                                                 *)
LEMMA GoodKeeps ==
  ASSUME MInv, goodPacket
  PROVE  MInv'
<1>0. /\ Sockets /\ getbyte(GMEnd) /\ reading = "body" /\ reading' = "no" /\ service = <<"data">>
      /\ toSend' = toSend /\ plan' = plan /\ shut' = shut /\ backlog' = backlog
      /\ fd' = fd /\ body' = <<>> /\ service' = Tail(service)
      /\ ran' = [ran EXCEPT ![fd] = Append(@, body)]
  BY Zenon DEF MInv, Sockets, goodPacket, Return
<1>1. PICK c : c = fd
  OBVIOUS
<1>2. /\ c \in Client /\ wire' \in [Client -> Seq(Byte)]
  BY <1>0, <1>1, ReadByte, Zenon
<1>3. /\ Inside(c) /\ plan.asks[c] \in Command /\ Sound(plan.asks[c])
      /\ body = <<plan.asks[c]>> /\ toSend[c] = <<>> /\ Rest(c)' = <<>>
  BY <1>1, WholePacket
<1>4. /\ ran \in [Client -> Seq(Seq(Byte))] /\ ran[c] = <<>> /\ body \in Seq(Byte)
  BY <1>0, <1>3, Zenon DEF Sockets, Inside
<1>5. /\ ran' \in [Client -> Seq(Seq(Byte))] /\ ran'[c] = <<body>>
      /\ \A d \in Client : d # c => ran'[d] = ran[d]
  <2>1. Append(ran[c], body) = <<body>> /\ <<body>> \in Seq(Seq(Byte))
    BY <1>4
  <2> QED BY <1>0, <1>1, <1>2, <1>4, <2>1
<1>6. Sockets'
  <2>1. Tail(<<"data">>) = <<>> /\ <<>> \notin {<<"listener">>, <<"data">>, <<"listener", "data">>}
    OBVIOUS
  <2>2. body' = <<>> /\ fd' = fd /\ reading' = "no" /\ service' = <<>>
    BY <1>0, <2>1
  <2> QED BY <1>0, <1>2, <1>5, <2>1, <2>2 DEF Sockets
<1>7. Framed(c)'
  <2>1. NoStart(Rest(c))'
    BY <1>3 DEF NoStart
  <2>2. Over(c)'
    BY <1>0, <1>3, <1>5, <2>1, Zenon DEF Over
  <2> QED BY <2>2 DEF Framed
<1>8. \A d \in Client : d # c => Framed(d)'
  BY <1>0, <1>1, <1>5, UnreadKeep, Zenon
<1> QED BY <1>6, <1>7, <1>8 DEF MInv, Framed

(* MInv holds at first, and every step keeps it.                             *)
LEMMA FramedAtFirst ==
  ASSUME Init PROVE MInv
<1>1. \A c \in Client : plan.asks[c] \in Command \cup {None}
  BY ManagerAssumption, Zenon DEF Init
<1>2. \A c \in Client : toSend[c] = Packet(plan.asks[c]) /\ wire[c] = <<>> /\ ran[c] = <<>>
  BY DEF Init
<1>3. \A c \in Client : Packet(plan.asks[c]) \in Seq(Byte)
  BY <1>1, Packets
<1>4. toSend \in [Client -> Seq(Byte)] /\ wire \in [Client -> Seq(Byte)]
  BY <1>3 DEF Init
<1>5. \A c \in Client : Rest(c) = Packet(plan.asks[c])
  BY <1>2, <1>3, ConcatEmptySeq, Zenon DEF Rest
<1>6. Sockets
  <2>1. ran \in [Client -> Seq(Seq(Byte))] /\ body = <<>> /\ body \in Seq(Byte) /\ backlog \in Seq(Client)
    BY DEF Init
  <2>2. <<>> \notin {<<"listener">>, <<"data">>, <<"listener", "data">>}
    OBVIOUS
  <2> QED BY <1>4, <2>1, <2>2 DEF Init, Sockets
<1>7. \A c \in Client : Untouched(c)
  <2>1. reading # "body"
    BY DEF Init
  <2> QED BY <1>2, <1>5, <2>1 DEF Untouched
<1> QED BY <1>6, <1>7 DEF MInv

LEMMA FramingKept ==
  ASSUME MInv, [Next]_vars
  PROVE  MInv'
<1>0. CASE UNCHANGED vars
  <2>1. Sockets'
    BY <1>0, Zenon DEF MInv, Sockets, vars, managerVars, clientVars
  <2>2. /\ wire' = wire /\ toSend' = toSend /\ ran' = ran /\ plan' = plan /\ body' = body
        /\ shut' = shut /\ fd' = fd /\ reading' = reading
    BY <1>0 DEF vars, managerVars, clientVars
  <2>3. \A c \in Client : Framed(c)'
    BY <2>2, StillAll DEF InBody
  <2> QED BY <2>1, <2>3 DEF MInv, Framed
<1>1. CASE serviceOne
  <2>1. /\ wire' = wire /\ toSend' = toSend /\ ran' = ran /\ plan' = plan /\ body' = body
        /\ shut' = shut /\ fd' = fd /\ reading' = reading
        /\ service' = service /\ backlog' = backlog
    BY <1>1 DEF serviceOne, managerVars, clientVars
  <2>2. Sockets'
    BY <2>1, Zenon DEF MInv, Sockets
  <2>3. \A c \in Client : Framed(c)'
    BY <2>1, StillAll DEF InBody
  <2> QED BY <2>2, <2>3 DEF MInv, Framed
<1>2. CASE \E c \in Client : Connect(c) \/ clientStep(c)
  BY <1>2, ClientKeeps
<1>3. CASE testAndClear \/ poll \/ accept \/ process
  BY <1>3, LoopKeeps
<1>4. CASE recv
  BY <1>4, FindKeeps, BodyKeeps, BadKeeps, GoodKeeps DEF recv
<1> QED BY <1>0, <1>1, <1>2, <1>3, <1>4 DEF Next, loop

(* Every packet that the global manager executes is the whole packet that    *)
(* its client sent, and it is executed once: for any number of clients, any  *)
(* commands and any size of the buffer, however packets are cut in pieces    *)
(* and whenever a client closes its end.                                     *)
THEOREM PacketsWhole == Spec => []WholeCommands
<1>1. MInv => WholeCommands
  BY Zenon DEF MInv, WholeCommands, Untouched, Inside, Over
<1>2. Init => MInv
  BY FramedAtFirst
<1>3. MInv /\ [Next]_vars => MInv'
  BY FramingKept
<1> QED BY <1>1, <1>2, <1>3, PTL DEF Spec

(* In the whole system the processors and the planes take only the steps     *)
(* that they take alone: what a client makes the manager execute is a        *)
(* command of the client's packet.                                           *)
LEMMA MachineSteps ==
  ASSUME MInv, [Next]_vars
  PROVE  [ProcessorsNext]_processorVars /\ [PlanesNext]_planeVars
<1>1. CASE UNCHANGED machineVars
  BY <1>1 DEF machineVars
<1>2. CASE goodPacket
  <2>1. PICK m \in Command : body = <<m>>
    <3>1. PICK c : c = fd
      OBVIOUS
    <3> QED BY <1>2, <3>1, WholePacket
  <2>2. Head(body) = m
    BY <2>1
  <2>3. Execute(m)
    BY <1>2, <2>2 DEF goodPacket
  <2>4. /\ m.id \in Nat
        /\ m.op = "set" => m.id \in LDom /\ m.arg \in Plane \X Dest \X Value
    BY ManagerAssumption
  <2>5. CASE m.op = "set" /\ setResource(m.arg[1], m.id, m.arg[2], m.arg[3]) /\ UNCHANGED processorVars
    <3>1. m.id \in LDom /\ m.arg[1] \in Plane /\ m.arg[2] \in Dest /\ m.arg[3] \in Value
      BY <2>4, <2>5
    <3>2. PlanesNext
      BY <2>5, <3>1 DEF PlanesNext
    <3> QED BY <2>5, <3>2
  <2>6. CASE (startupLDomVM(m.id) \/ shutdownLDomVM(m.id)) /\ UNCHANGED planeVars
    BY <2>4, <2>6 DEF ProcessorsNext
  <2>7. CASE createLDom /\ UNCHANGED planeVars
    BY <2>7 DEF ProcessorsNext
  <2>8. CASE UNCHANGED machineVars
    BY <1>1, <2>8
  <2> QED BY <2>3, <2>5, <2>6, <2>7, <2>8, Zenon DEF Execute
<1>3. CASE serviceOne
  <2>1. plan.insns \subseteq {"work", "halt", "arm", "disarm"} /\ plan.ops \subseteq Operation
    BY ManagerAssumption, Zenon DEF MInv, Sockets
  <2>2. CASE (\E p \in Processor : wakeup(p) \/ \E insn \in plan.insns : tick(p, insn))
             /\ UNCHANGED planeVars
    BY <2>1, <2>2 DEF ProcessorsNext
  <2>3. CASE (\E w \in Writer : Access(w) \/ \E o \in plan.ops : Begin(w, o))
             /\ UNCHANGED processorVars
    BY <2>1, <2>3 DEF PlanesNext
  <2> QED BY <1>3, <2>2, <2>3 DEF serviceOne
<1>4. CASE UNCHANGED vars
  BY <1>1, <1>4 DEF vars
<1>5. CASE \E c \in Client : Connect(c) \/ clientStep(c)
  BY <1>1, <1>5, Zenon DEF Connect, clientStep, Send, Close
<1>6. CASE testAndClear \/ poll \/ accept \/ process
  BY <1>1, <1>6, Zenon DEF testAndClear, poll, accept, process
<1>7. CASE \E b \in Byte : findStart(b) \/ inBody(b) \/ badPacket(b)
  BY <1>1, <1>7, Zenon DEF findStart, inBody, badPacket
<1> QED BY <1>2, <1>3, <1>4, <1>5, <1>6, <1>7, Zenon DEF Next, loop, recv

(* The manager, its clients and the simulation loop implement the processors *)
(* alone and the planes alone, so that what holds of these for commands and  *)
(* interrupts in any order holds of the whole system.                        *)
THEOREM ManagerImplements == Spec => ProcessorsSpec /\ PlanesSpec
<1>1. Init => MInv /\ (\E guests \in 0..NumContexts : ProcessorsInit(guests)) /\ PlanesInit
  <2> SUFFICES ASSUME Init PROVE (\E guests \in 0..NumContexts : ProcessorsInit(guests)) /\ PlanesInit
    BY FramedAtFirst
  <2>1. plan.guests \in 0..NumContexts /\ ProcessorsInit(plan.guests) /\ PlanesInit
    BY ManagerAssumption, Zenon DEF Init
  <2> QED BY <2>1
<1>2. MInv /\ [Next]_vars => MInv'
  BY FramingKept
<1>3. MInv /\ [Next]_vars => [ProcessorsNext]_processorVars /\ [PlanesNext]_planeVars
  BY MachineSteps
<1> QED BY <1>1, <1>2, <1>3, PTL DEF Spec, ProcessorsSpec, PlanesSpec

(* In the whole system a processor's tick is scheduled exactly while its     *)
(* thread is active and the CPU runs, whatever the manager's clients send.   *)
THEOREM ManagedTicksExact == Spec => []TicksExactly
BY ManagerImplements, TicksAlwaysExact, PTL

(* In the whole system a processor that executes tags its requests with its  *)
(* own LDom, whatever the manager's clients send.                            *)
THEOREM ManagedOwnTag == Spec => []OwnTag
BY ManagerImplements, AlwaysOwnTag, PTL

(* In the whole system the accesses of the writers stay atomic while the     *)
(* manager executes its clients' commands.                                   *)
THEOREM ManagedAccessAtomic == Spec => AtomicAccess
BY ManagerImplements, AccessAlwaysAtomic, PTL
=============================================================================
