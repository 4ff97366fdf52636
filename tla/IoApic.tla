------------------------------- MODULE IoApic -------------------------------
(***************************************************************************)
(* The I/O APIC the LDoms share (hyper/dev/pardg5v/i82094aap5v.cc), with    *)
(* the two ways devices reach it: a call for one LDom and line from the     *)
(* platform, and the pin that the interval timer raises and lowers.         *)
(*                                                                         *)
(* Every LDom has a select register and a redirection table of its own.  An *)
(* entry of the table has a bottom half, what to send and how, and a top    *)
(* half, where to.  A destination stands for the processors with that       *)
(* physical identifier (Physical), or for those whose logical destination   *)
(* register has one of its bits (Logical).                                  *)
(***************************************************************************)
EXTENDS Naturals, Sequences, FiniteSets, LDoms

CONSTANTS Line, ConsoleLine, TimerLine,
          pinMask,    \* [Guest -> SUBSET Line]
          Bottom,     \* bottom halves that software writes
          Dest, Dest0,
          Physical,   \* [Dest -> SUBSET Cpu]
          Logical,    \* [Cpu -> SUBSET Dest]
          Turns       \* lowestPriorityOffset is kept modulo this number, a
                      \* multiple of the number of processors of each LDom

VARIABLES regSel, redirTable, lowestPriorityOffset, pinStates,
          msgs        \* [Cpu -> Seq(messages)], on their way to the processors

ioapicVars == <<regSel, redirTable, lowestPriorityOffset, pinStates, msgs>>

\* What can be selected: half an entry, or one of the registers that are only
\* written and read back, such as the one at offset 0, which stand for nothing.
Register == {"top", "bottom"} \X Line
Id == <<"id">>
Mode == {"Fixed", "LowestPriority", "ExtInt"}
Half == [mask : BOOLEAN, mode : Mode, logical : BOOLEAN, vector : Nat]
Message == [guest : Guest, vector : Nat]

(* Software does not ask for lowest priority with a physical destination,    *)
(* with which the simulation would end.                                      *)
ASSUME IoApicAssumption ==
  /\ Cpu \subseteq Nat
  /\ ConsoleLine \in Line /\ TimerLine \in Line /\ ConsoleLine # TimerLine
  /\ pinMask \in [Guest -> SUBSET Line]
  /\ Bottom \subseteq Half
  /\ \A b \in Bottom : b.mode = "LowestPriority" => b.logical
  /\ Dest0 \in Dest /\ Physical \in [Dest -> SUBSET Cpu]
  /\ Logical \in [Cpu -> SUBSET Dest] /\ Turns \in Nat \ {0}

IoApicTypeOK ==
  /\ regSel \in [Guest -> Register \cup {Id}]
  /\ redirTable \in [Guest -> [Line -> [top : Dest, bottom : Half]]]
  /\ lowestPriorityOffset \in 0..Turns-1 /\ pinStates \in [Line -> BOOLEAN]
  /\ msgs \in [Cpu -> Seq(Message)]

\* The constructor, and what PARDg5VPlatform::init writes for every LDom.
IoApicInit ==
  /\ regSel = [g \in Guest |-> Id]
  /\ redirTable = [g \in Guest |-> [l \in Line |->
       [top |-> Dest0,
        bottom |-> [mask |-> l # ConsoleLine, mode |-> "Fixed", logical |-> FALSE,
                    vector |-> IF l = ConsoleLine THEN 36
                               ELSE IF l = TimerLine THEN 32 ELSE 0]]]]
  /\ lowestPriorityOffset = 0 /\ pinStates = [l \in Line |-> FALSE]
  /\ msgs = [c \in Cpu |-> <<>>]

-----------------------------------------------------------------------------
writeRegSel(g, r) ==
  /\ regSel' = [regSel EXCEPT ![g] = r]
  /\ UNCHANGED <<redirTable, lowestPriorityOffset, pinStates, msgs>>

\* A write through the window, to the half entry that is selected.
writeReg(g, x) ==
  /\ regSel[g] # Id
  /\ redirTable' = [redirTable EXCEPT ![g][regSel[g][2]][regSel[g][1]] = x]
  /\ UNCHANGED <<regSel, lowestPriorityOffset, pinStates, msgs>>

sendMessage(g, apics, vector) ==
  msgs' = [c \in Cpu |-> IF c \in apics
                           THEN Append(msgs[c], [guest |-> g, vector |-> vector])
                           ELSE msgs[c]]

\* Mutant: the LDom a processor runs is not looked at.
Matching_AnyLDom(g, dest) == {c \in Cpu : dest \in Logical[c]}

\* The processors of an LDom that a logical destination names.
Matching(g, dest) == {c \in Cpu : QR0[c] = g /\ dest \in Logical[c]}

Masked(g, line) ==
  LET b == redirTable[g][line].bottom IN
  line \notin pinMask[g] \/ b.mask \/ b.mode = "ExtInt"

\* Lowest priority rotates through the processors that match, in order.
signalInterrupt(g, line) ==
  LET b == redirTable[g][line].bottom
      dest == redirTable[g][line].top
      apics == Matching(g, dest)
      rank(c) == Cardinality({d \in apics : d < c}) IN
  IF Masked(g, line)
    THEN UNCHANGED <<lowestPriorityOffset, msgs>>
    ELSE IF b.logical /\ b.mode = "LowestPriority" /\ apics # {}
      THEN /\ \E c \in apics : /\ rank(c) = lowestPriorityOffset % Cardinality(apics)
                               /\ sendMessage(g, {c}, b.vector)
           /\ lowestPriorityOffset' = (lowestPriorityOffset + 1) % Turns
      ELSE /\ sendMessage(g, IF b.logical THEN apics ELSE Physical[dest], b.vector)
           /\ UNCHANGED lowestPriorityOffset

\* PARDg5VPlatform::postConsoleInt.
postConsoleInt(g) ==
  /\ signalInterrupt(g, ConsoleLine)
  /\ UNCHANGED <<regSel, redirTable, pinStates>>

\* Mutant: the timer leaves its pin up.
counterInterrupt_Up(g) ==
  /\ IF pinStates[TimerLine] THEN UNCHANGED <<lowestPriorityOffset, msgs>>
                             ELSE signalInterrupt(g, TimerLine)
  /\ pinStates' = [pinStates EXCEPT ![TimerLine] = TRUE]
  /\ UNCHANGED <<regSel, redirTable>>

\* Counter 0 of the timer of g expires: it raises the pin, which signals unless
\* the pin is up already, and lowers it at once.
counterInterrupt(g) ==
  /\ IF pinStates[TimerLine] THEN UNCHANGED <<lowestPriorityOffset, msgs>>
                             ELSE signalInterrupt(g, TimerLine)
  /\ pinStates' = [pinStates EXCEPT ![TimerLine] = FALSE]
  /\ UNCHANGED <<regSel, redirTable>>

\* The oldest message to a processor arrives.
Arrives(c) ==
  /\ msgs[c] # <<>>
  /\ msgs' = [msgs EXCEPT ![c] = Tail(@)]
  /\ UNCHANGED <<regSel, redirTable, lowestPriorityOffset, pinStates>>

IoApicNext ==
  \/ \E g \in Guest :
       \/ \E r \in Register : writeRegSel(g, r)
       \/ regSel[g][1] = "top" /\ \E x \in Dest : writeReg(g, x)
       \/ regSel[g][1] = "bottom" /\ \E x \in Bottom : writeReg(g, x)
       \/ postConsoleInt(g) \/ counterInterrupt(g)
  \/ \E c \in Cpu : Arrives(c)

IoApicSpec == IoApicInit /\ [][IoApicNext]_ioapicVars

-----------------------------------------------------------------------------
(* The entry of an LDom's table for a line leads to its own processors only: *)
(* it is masked, logical, or names one of them.                              *)
Homeward(g, line) ==
  LET e == redirTable[g][line] IN
  Masked(g, line) \/ e.bottom.logical \/ \A c \in Physical[e.top] : QR0[c] = g

(* While the entries lead home, an interrupt of an LDom is only ever sent to *)
(* the processors that run it, although LDoms use the same lines, logical    *)
(* destinations and vectors (signalInterrupt).                               *)
SentHome == [][\A c \in Cpu : \A i \in 1..Len(msgs'[c]) :
  \/ i <= Len(msgs[c])
  \/ LET g == msgs'[c][i].guest IN
     QR0[c] = g \/ ~(Homeward(g, ConsoleLine) /\ Homeward(g, TimerLine))]_ioapicVars
=============================================================================
