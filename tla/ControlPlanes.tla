---------------------------- MODULE ControlPlanes ---------------------------
(***************************************************************************)
(* The way from software to a control plane: the adaptor, a PCI device with *)
(* a register that selects a plane of its network (gm/CPAdaptor.cc); the    *)
(* connector of each plane, with registers for a command and its operands   *)
(* (gm/CPConnector.cc); and the parameters behind it: way masks (LRU),      *)
(* memory controller (PARDg5VDRAMCtrl).  The global manager writes the same *)
(* parameters without the adaptor, by the resource's name; only the way     *)
(* masks can be written so.                                                 *)
(*                                                                         *)
(* The driver is not part of the repository.  A writer is modelled from     *)
(* what the registers ask for: under a lock of the adaptor it selects the   *)
(* plane, writes the operands in any order, and then the command; after a   *)
(* "G" it reads the data register.                                          *)
(***************************************************************************)
EXTENDS Integers

CONSTANTS Adaptor, Plane, LDom, Dest, Value, Writer, Operation, None, Fixed,
          Net, Known, Stored,   \* as in ParameterTables
          Named,    \* planes whose entries the manager can write by name
          Initial,  \* in Value: what all entries hold at first
          MaxOps    \* bound on the operations of each writer

ASSUME ControlPlanesAssumption ==
  /\ Net \in [Adaptor -> SUBSET Plane]
  /\ \A a, b \in Adaptor : a # b => Net[a] \cap Net[b] = {}
  /\ Known \in [Plane -> SUBSET LDom] /\ Stored \in [Plane -> SUBSET Dest]
  /\ Named \subseteq Plane /\ Initial \in Value
  /\ None \notin Plane \cup LDom \cup Dest \cup Value
  /\ None \notin Writer \cup Operation
  /\ \A o \in Operation : /\ o.kind \in {"G", "S", "X"} /\ o.cpa \in Adaptor /\ o.ldom \in LDom
                          /\ o.dest \in Dest /\ o.data \in Value

VARIABLES selectCP,   \* [Adaptor -> cpaRegs.command]
          regs,       \* [Plane -> the registers of its connector]
          table,      \* [Plane -> [LDom -> [Dest -> Value]]]
          lock,       \* [Adaptor -> the writer that has its lock, or None]
          step,       \* [Writer -> where it is in its operation]
          left,       \* [Writer -> operand registers still to be written]
          asked,      \* [Writer -> its operation, or None]
          got,        \* [Writer -> the value its last "G" read]
          ops         \* [Writer -> how many operations it has begun]

planeVars == <<selectCP, regs, table, lock, step, left, asked, got, ops>>

Registers == [cmd : {"G", "S", None}, ldom : LDom \cup {None}, dest : Dest \cup {None},
              data : Value \cup {None, Fixed}]

PlanesTypeOK ==
  /\ selectCP \in [Adaptor -> {o.plane : o \in Operation} \cup {None}]
  /\ regs \in [Plane -> Registers]
  /\ table \in [Plane -> [LDom -> [Dest -> Value]]] /\ lock \in [Adaptor -> Writer \cup {None}]
  /\ step \in [Writer -> {"idle", "select", "operands", "read", "unlock"}]
  /\ left \in [Writer -> SUBSET {"ldom", "dest", "data"}]
  /\ asked \in [Writer -> Operation \cup {None}]
  /\ got \in [Writer -> Value \cup {None, Fixed}]
  /\ ops \in [Writer -> 0..MaxOps]

\* CPConnector::CPConnector fills its registers with ones.
PlanesInit ==
  /\ selectCP = [a \in Adaptor |-> None]
  /\ regs = [p \in Plane |-> [cmd |-> None, ldom |-> None, dest |-> None, data |-> None]]
  /\ table = [p \in Plane |-> [l \in LDom |-> [d \in Dest |-> Initial]]]
  /\ lock = [a \in Adaptor |-> None]
  /\ step = [w \in Writer |-> "idle"] /\ left = [w \in Writer |-> {}]
  /\ asked = [w \in Writer |-> None] /\ got = [w \in Writer |-> None]
  /\ ops = [w \in Writer |-> 0]

-----------------------------------------------------------------------------
(* The resources behind the connectors.  A plane has rows for some LDoms and *)
(* entries that can be written; the others are constants or statistics.      *)
get(p, l, d) ==
  IF l \notin Known[p] THEN None ELSE IF d \in Stored[p] THEN table[p][l][d] ELSE Fixed

set(p, l, d, v) ==
  table' = IF l \in Known[p] /\ d \in Stored[p] THEN [table EXCEPT ![p][l][d] = v] ELSE table

\* Mutant: the command that was there before is executed.
recvAtomic_Early(p, reg, r) ==
  /\ regs' = [regs EXCEPT ![p] =
       IF reg = "cmd" /\ @.cmd = "G" THEN [r EXCEPT !.data = get(p, r.ldom, r.dest)] ELSE r]
  /\ IF reg = "cmd" /\ regs[p].cmd = "S" THEN set(p, r.ldom, r.dest, r.data) ELSE UNCHANGED table

\* CPConnector::recvAtomic: r are the registers with the access done; every
\* access to the command register executes the command.
recvAtomic(p, reg, r) ==
  IF reg # "cmd" THEN regs' = [regs EXCEPT ![p] = r] /\ UNCHANGED table
  ELSE \/ /\ r.cmd = "G"
          /\ regs' = [regs EXCEPT ![p] = [r EXCEPT !.data = get(p, r.ldom, r.dest)]]
          /\ UNCHANGED table
       \/ /\ r.cmd = "S"
          /\ regs' = [regs EXCEPT ![p] = r] /\ set(p, r.ldom, r.dest, r.data)
       \/ /\ r.cmd \notin {"G", "S"}
          /\ regs' = [regs EXCEPT ![p] = [r EXCEPT !.cmd = None]] /\ UNCHANGED table

\* CPAdaptor::accessData, for a write.  Where its network has no plane, the
\* fake responder takes it.
accessData(a, reg, v) ==
  /\ IF selectCP[a] \in Net[a]
       THEN recvAtomic(selectCP[a], reg, [regs[selectCP[a]] EXCEPT ![reg] = v])
       ELSE UNCHANGED <<regs, table>>
  /\ UNCHANGED selectCP

\* The same, for a read of the data register.
readData(a) == IF selectCP[a] \in Net[a] THEN regs[selectCP[a]].data ELSE None

-----------------------------------------------------------------------------
(* Software.                                                                 *)
Begin(w, o) ==
  /\ lock[o.cpa] = None /\ asked[w] = None /\ ops[w] < MaxOps
  /\ lock' = [lock EXCEPT ![o.cpa] = w] /\ step' = [step EXCEPT ![w] = "select"]
  /\ asked' = [asked EXCEPT ![w] = o] /\ ops' = [ops EXCEPT ![w] = @ + 1]
  /\ UNCHANGED <<selectCP, regs, table, left, got>>

\* CPAdaptor::accessCommand, for a write.
accessCommand(w) ==
  /\ step[w] = "select"
  /\ selectCP' = [selectCP EXCEPT ![asked[w].cpa] = asked[w].plane]
  /\ step' = [step EXCEPT ![w] = "operands"]
  /\ left' = [left EXCEPT ![w] =
                IF asked[w].kind = "S" THEN {"ldom", "dest", "data"} ELSE {"ldom", "dest"}]
  /\ UNCHANGED <<regs, table, lock, asked, got, ops>>

WriteOperand(w, reg) ==
  /\ step[w] = "operands" /\ reg \in left[w]
  /\ accessData(asked[w].cpa, reg, asked[w][reg])
  /\ left' = [left EXCEPT ![w] = @ \ {reg}]
  /\ UNCHANGED <<lock, step, asked, got, ops>>

WriteCommand(w) ==
  /\ step[w] = "operands" /\ left[w] = {}
  /\ accessData(asked[w].cpa, "cmd", asked[w].kind)
  /\ step' = [step EXCEPT ![w] = IF asked[w].kind = "G" THEN "read" ELSE "unlock"]
  /\ UNCHANGED <<lock, left, asked, got, ops>>

Unlock(w) ==
  /\ lock' = [lock EXCEPT ![asked[w].cpa] = None]
  /\ step' = [step EXCEPT ![w] = "idle"] /\ asked' = [asked EXCEPT ![w] = None]

ReadData(w) ==
  /\ step[w] = "read"
  /\ got' = [got EXCEPT ![w] = readData(asked[w].cpa)]
  /\ Unlock(w)
  /\ UNCHANGED <<selectCP, regs, table, left, ops>>

Finish(w) ==
  /\ step[w] = "unlock"
  /\ got' = [got EXCEPT ![w] = None]
  /\ Unlock(w)
  /\ UNCHANGED <<selectCP, regs, table, left, ops>>

\* PARDg5VGlobalManager::setResource.  The others' set(tag, idx, value) is
\* empty.
setResource(p, l, d, v) ==
  /\ IF p \in Named THEN set(p, l, d, v) ELSE UNCHANGED table
  /\ UNCHANGED <<selectCP, regs, lock, step, left, asked, got, ops>>

Access(w) ==
  \/ accessCommand(w) \/ WriteCommand(w) \/ ReadData(w) \/ Finish(w)
  \/ \E reg \in left[w] : WriteOperand(w, reg)

\* The planes under writers and a manager that take steps in any order.
PlanesNext ==
  \/ \E w \in Writer : Access(w) \/ \E o \in Operation : Begin(w, o)
  \/ \E p \in Plane, l \in LDom, d \in Dest, v \in Value : setResource(p, l, d, v)

PlanesSpec == PlanesInit /\ [][PlanesNext]_planeVars

-----------------------------------------------------------------------------
\* An operation has taken place once the command is written; what it returns
\* is then in the data register.
Performed == {w \in Writer : step[w] \in {"read", "unlock"}}
Result(w) ==
  IF step[w] = "read" THEN readData(asked[w].cpa)
  ELSE IF step[w] = "unlock" THEN None ELSE got[w]
Returned == [w \in Writer |-> Result(w)]
Tables == INSTANCE ParameterTables WITH done <- Performed, got <- Returned

(* Property.                                                                 *)

\* What several register accesses do, through adaptors that writers and
\* planes share and while the manager writes the same entries, is what one
\* access to one entry of the plane that was meant would do: it takes effect
\* once, and returns the entry's value of that moment.
AtomicAccess == Tables!Spec
=============================================================================
