---------------------------- MODULE ConsoleProofs ---------------------------
(***************************************************************************)
(* The way of a console's interrupt, for any LDoms, processors, vectors,   *)
(* destinations and sizes of the terminal's buffer.  First the components  *)
(* alone: HighestExact of the local APICs, SentHome of the I/O APIC, and   *)
(* InputNoticed and OnlyEnabled of the UARTs, which are inductive          *)
(* together: an event that is scheduled but not enabled would go out       *)
(* without interrupting.                                                   *)
(*                                                                         *)
(* Then the inductive invariant CInv of the whole way, for any drivers     *)
(* that set their ports up in order (ConsoleAssumption).  It has the       *)
(* invariants of the components and four parts of its own.  Started: what  *)
(* software has programmed so far is in its table and its port.  Home:     *)
(* messages are for the LDom of the processor they are on the way to.      *)
(* Nested: handlers are for the vectors in service, the highest innermost. *)
(* Driver: where the driver is in its handler tells what is announced      *)
(* (Waiting).  This module shows that each step keeps all but the last     *)
(* two; WayProofs has the rest and the theorems.                           *)
(***************************************************************************)
EXTENDS Console, TLAPS

-----------------------------------------------------------------------------
(* The highest vector of a set, which findRegArrayMSB looks for.             *)

(* Vectors are numbers, and none is 0, which stands for no vector.           *)
LEMMA VectorNat == Vector \subseteq 1..255 /\ Vector \subseteq Nat
BY LocalApicAssumption

\* A set of numbers of a range of length m has a highest one, if it is not empty.
Bounded(m) == \A S, a : S # {} /\ a \in Nat /\ (\A x \in S : x \in Nat /\ a <= x /\ x < a + m)
                          => \E v \in S : \A w \in S : w <= v

(* It is the highest of the upper half of the range, or else of the lower.   *)
LEMMA Doubled ==
  ASSUME NEW m \in Nat, Bounded(m)
  PROVE  Bounded(m + m)
<1> SUFFICES ASSUME NEW S, NEW a \in Nat, S # {},
                    \A x \in S : x \in Nat /\ a <= x /\ x < a + (m + m)
             PROVE  \E v \in S : \A w \in S : w <= v
  BY DEF Bounded
<1>1. PICK T : T = {x \in S : a + m <= x}
  BY Zenon
<1>2. CASE T = {}
  <2>1. \A x \in S : x \in Nat /\ a <= x /\ x < a + m
    BY <1>1, <1>2
  <2> QED BY <2>1, Zenon DEF Bounded
<1>3. CASE T # {}
  <2>1. a + m \in Nat /\ \A x \in T : x \in Nat /\ a + m <= x /\ x < (a + m) + m
    BY <1>1
  <2>2. PICK v \in T : \A w \in T : w <= v
    BY <1>3, <2>1, Zenon DEF Bounded
  <2>3. v \in S /\ a + m <= v /\ v \in Nat
    BY <1>1
  <2>4. \A w \in S : w \in T \/ (w \in Nat /\ w < a + m)
    BY <1>1
  <2> QED BY <2>1, <2>2, <2>3, <2>4
<1> QED BY <1>2, <1>3

(* A set of vectors that is not empty has a highest one.                     *)
LEMMA HighestExists ==
  ASSUME NEW S \in SUBSET Vector, S # {}
  PROVE  \E v \in S : \A w \in S : w <= v
<1>1. Bounded(1)
  <2> SUFFICES ASSUME NEW U, NEW a \in Nat, U # {}, \A x \in U : x \in Nat /\ a <= x /\ x < a + 1
               PROVE  \E v \in U : \A w \in U : w <= v
    BY DEF Bounded
  <2>1. \A x \in U : x = a
    OBVIOUS
  <2> QED BY <2>1
<1>2. Bounded(2) /\ (Bounded(2) => Bounded(4)) /\ (Bounded(4) => Bounded(8))
  <2>1. 1 + 1 = 2 /\ 2 + 2 = 4 /\ 4 + 4 = 8
    OBVIOUS
  <2> QED BY <1>1, <2>1, Doubled
<1>3. (Bounded(8) => Bounded(16)) /\ (Bounded(16) => Bounded(32)) /\ (Bounded(32) => Bounded(64))
  <2>1. 8 + 8 = 16 /\ 16 + 16 = 32 /\ 32 + 32 = 64
    OBVIOUS
  <2> QED BY <2>1, Doubled
<1>4. (Bounded(64) => Bounded(128)) /\ (Bounded(128) => Bounded(256))
  <2>1. 64 + 64 = 128 /\ 128 + 128 = 256
    OBVIOUS
  <2> QED BY <2>1, Doubled
<1>5. Bounded(256)
  BY <1>2, <1>3, <1>4
<1>6. \A x \in S : x \in Nat /\ 0 <= x /\ x < 0 + 256
  BY VectorNat
<1> QED BY <1>5, <1>6, Zenon DEF Bounded

(* What findRegArrayMSB returns.                                             *)
LEMMA MSB ==
  ASSUME NEW S \in SUBSET Vector
  PROVE  /\ findRegArrayMSB(S) \in Vector \cup {0}
         /\ S = {} => findRegArrayMSB(S) = 0
         /\ S # {} => findRegArrayMSB(S) \in S /\ \A w \in S : w <= findRegArrayMSB(S)
BY HighestExists, Zenon DEF findRegArrayMSB

(* It is the only such vector.                                               *)
LEMMA MSBUnique ==
  ASSUME NEW S \in SUBSET Vector, NEW v \in S, \A w \in S : w <= v
  PROVE  findRegArrayMSB(S) = v
<1>1. findRegArrayMSB(S) \in S /\ v <= findRegArrayMSB(S) /\ findRegArrayMSB(S) <= v
  BY MSB
<1>2. findRegArrayMSB(S) \in Nat /\ v \in Nat
  BY <1>1, VectorNat, Zenon
<1>3. \A a, b \in Nat : a <= b /\ b <= a => a = b
  OBVIOUS
<1> QED BY <1>1, <1>2, <1>3, Zenon

-----------------------------------------------------------------------------
(* The local APICs.                                                          *)

LInv == LocalApicTypeOK /\ HighestExact

(* A request: IRRV stays the highest vector of the IRR, also if the vector   *)
(* is there already (requestInterrupt).                                      *)
LEMMA RequestKeeps ==
  ASSUME LInv, NEW c \in Cpu, NEW v \in Vector, requestInterrupt(c, v)
  PROVE  LInv'
<1> DEFINE S == irr[c] \cup {v}
           h == findRegArrayMSB(irr[c])
<1>1. irr[c] \in SUBSET Vector /\ IRRV[c] = h /\ S \in SUBSET Vector
  BY DEF LInv, LocalApicTypeOK, HighestExact
<1>2. irr'[c] = S
  <2>1. ASSUME getRegArrayBit(irr[c], v) PROVE v \in irr[c]
    BY <2>1, <1>1, LocalApicAssumption DEF getRegArrayBit
  <2> QED BY <2>1 DEF requestInterrupt, LInv, LocalApicTypeOK
<1>3. IRRV'[c] = IF v > h THEN v ELSE h
  BY <1>1 DEF requestInterrupt, LInv, LocalApicTypeOK
<1>4. IRRV'[c] = findRegArrayMSB(S)
  <2>1. IRRV'[c] \in S /\ \A w \in S : w <= IRRV'[c]
    <3>1. CASE irr[c] = {}
      BY <1>1, <1>3, <3>1, MSB, VectorNat
    <3>2. CASE irr[c] # {}
      <4>1. h \in irr[c] /\ \A w \in irr[c] : w <= h
        BY <1>1, <3>2, MSB
      <4>2. h \in Nat /\ v \in Nat /\ irr[c] \subseteq Nat
        BY <1>1, <4>1, VectorNat, Zenon
      <4>3. IRRV'[c] \in {v, h} /\ v <= IRRV'[c] /\ h <= IRRV'[c] /\ IRRV'[c] \in Nat
        BY <1>3, <4>2
      <4>4. \A a, b, d \in Nat : a <= b /\ b <= d => a <= d
        OBVIOUS
      <4>5. \A w \in irr[c] : w <= IRRV'[c]
        BY <4>1, <4>2, <4>3, <4>4, Zenon
      <4> QED BY <4>1, <4>3, <4>5
    <3> QED BY <3>1, <3>2
  <2> QED BY <1>1, <2>1, MSBUnique
<1>5. IRRV' = [IRRV EXCEPT ![c] = findRegArrayMSB(S)] /\ irr' = [irr EXCEPT ![c] = S]
      /\ isr' = isr /\ ISRV' = ISRV
  BY <1>2, <1>3, <1>4, Zenon DEF requestInterrupt, LInv, LocalApicTypeOK
<1>6. findRegArrayMSB(S) \in Vector \cup {0}
  BY <1>1, MSB
<1> HIDE DEF S
<1> QED BY <1>1, <1>5, <1>6, Zenon DEF LInv, LocalApicTypeOK, HighestExact

(* Taking the highest request: it is above all in service, and IRRV is       *)
(* computed again (checkInterrupts, updateIntrInfo).                         *)
LEMMA TakeKeeps ==
  ASSUME LInv, NEW c \in Cpu, checkInterrupts(c), updateIntrInfo(c)
  PROVE  LInv'
<1> DEFINE v == IRRV[c]
           R == irr[c] \ {v}
           S == isr[c] \cup {v}
<1>1. /\ irr[c] \in SUBSET Vector /\ isr[c] \in SUBSET Vector
      /\ v = findRegArrayMSB(irr[c]) /\ ISRV[c] = findRegArrayMSB(isr[c])
  BY DEF LInv, LocalApicTypeOK, HighestExact
<1>2. v \in irr[c] /\ v > ISRV[c] /\ v \in Nat
  <2>1. ISRV[c] \in Nat /\ v \in Nat /\ v > ISRV[c]
    <3>1. ISRV[c] \in Vector \cup {0} /\ v \in Vector \cup {0} /\ 0 \in Nat
      BY DEF LInv, LocalApicTypeOK
    <3>2. ISRV[c] \in Nat /\ v \in Nat
      BY <3>1, VectorNat, Zenon
    <3> QED BY <3>2 DEF checkInterrupts
  <2>2. v # 0
    BY <2>1
  <2> QED BY <1>1, <2>1, <2>2, MSB, Zenon
<1>3. \A w \in S : w <= v
  <2>1. CASE isr[c] = {}
    BY <1>2, <2>1
  <2>2. CASE isr[c] # {}
    <3>1. ISRV[c] \in isr[c] /\ \A w \in isr[c] : w <= ISRV[c]
      BY <1>1, <2>2, MSB
    <3>2. isr[c] \subseteq Nat /\ ISRV[c] \in Nat
      BY <1>1, <3>1, VectorNat, Zenon
    <3>3. \A w \in Nat : w <= ISRV[c] => w <= v
      BY <1>2, <3>2
    <3>4. v <= v
      BY <1>2
    <3> QED BY <3>1, <3>2, <3>3, <3>4
  <2> QED BY <2>1, <2>2
<1>4. R \in SUBSET Vector /\ S \in SUBSET Vector /\ v \in S
  BY <1>1, <1>2
<1>5. v = findRegArrayMSB(S)
  BY <1>3, <1>4, MSBUnique
<1>6. /\ irr' = [irr EXCEPT ![c] = R] /\ IRRV' = [IRRV EXCEPT ![c] = findRegArrayMSB(R)]
      /\ isr' = [isr EXCEPT ![c] = S] /\ ISRV' = [ISRV EXCEPT ![c] = findRegArrayMSB(S)]
  BY <1>5, Zenon DEF updateIntrInfo, LInv, LocalApicTypeOK
<1>7. findRegArrayMSB(R) \in Vector \cup {0} /\ findRegArrayMSB(S) \in Vector \cup {0}
  BY <1>4, MSB
<1> HIDE DEF R, S
<1> QED BY <1>4, <1>6, <1>7, Zenon DEF LInv, LocalApicTypeOK, HighestExact

(* The end of an interrupt: ISRV is computed again (setReg).                 *)
LEMMA EOIKeeps ==
  ASSUME LInv, NEW c \in Cpu, EOI(c)
  PROVE  LInv'
<1> DEFINE S == isr[c] \ {ISRV[c]}
<1>1. S \in SUBSET Vector
  BY DEF LInv, LocalApicTypeOK
<1>2. /\ irr' = irr /\ IRRV' = IRRV
      /\ isr' = [isr EXCEPT ![c] = S] /\ ISRV' = [ISRV EXCEPT ![c] = findRegArrayMSB(S)]
  BY DEF EOI, LInv, LocalApicTypeOK
<1>3. findRegArrayMSB(S) \in Vector \cup {0}
  BY <1>1, MSB
<1> HIDE DEF S
<1> QED BY <1>1, <1>2, <1>3, Zenon DEF LInv, LocalApicTypeOK, HighestExact

(* IRRV and ISRV always are the highest vectors requested and in service,    *)
(* so the processor is told of an interrupt exactly when there is one above  *)
(* those in service (checkInterrupts).                                       *)
THEOREM HighestAlwaysExact == LocalApicSpec => []HighestExact
<1>1. LocalApicInit => LInv
  BY DEF LocalApicInit, LInv, LocalApicTypeOK, HighestExact, findRegArrayMSB
<1>2. ASSUME LInv, LocalApicNext PROVE LInv'
  BY <1>2, RequestKeeps, TakeKeeps, EOIKeeps DEF LocalApicNext
<1>3. LInv /\ UNCHANGED lapicVars => LInv'
  BY DEF LInv, LocalApicTypeOK, HighestExact, lapicVars
<1>4. LInv => HighestExact
  BY DEF LInv
<1> QED BY <1>1, <1>2, <1>3, <1>4, PTL DEF LocalApicSpec

-----------------------------------------------------------------------------
(* The I/O APIC.  Only the types are needed as an invariant.                 *)

Entry == [top : Dest, bottom : Half]

(* An entry of the table.                                                    *)
LEMMA EntryType ==
  ASSUME IoApicTypeOK, NEW g \in Guest, NEW line \in Line
  PROVE  redirTable[g][line] \in Entry
BY DEF IoApicTypeOK, Entry

(* A write to half an entry leaves an entry (writeReg).                      *)
LEMMA WriteTyped ==
  ASSUME IoApicTypeOK, NEW g \in Guest, NEW x, writeReg(g, x),
         \/ regSel[g][1] = "top" /\ x \in Dest
         \/ regSel[g][1] = "bottom" /\ x \in Bottom
  PROVE  IoApicTypeOK'
<1>1. regSel[g] \in Register
  BY Zenon DEF IoApicTypeOK, writeReg
<1>2. PICK l \in Line, half \in {"top", "bottom"} : regSel[g] = <<half, l>>
  BY <1>1 DEF Register
<1>3. redirTable' = [redirTable EXCEPT ![g][l][half] = x]
  BY <1>2 DEF writeReg
<1>4. redirTable[g][l] \in Entry /\ redirTable \in [Guest -> [Line -> Entry]]
  BY DEF IoApicTypeOK, Entry
<1>5. [redirTable[g][l] EXCEPT ![half] = x] \in Entry
  <2>1. CASE half = "top" /\ x \in Dest
    BY <1>4, <2>1 DEF Entry
  <2>2. CASE half = "bottom" /\ x \in Half
    BY <1>4, <2>2 DEF Entry
  <2> QED BY <1>2, <2>1, <2>2, IoApicAssumption
<1>6. redirTable' \in [Guest -> [Line -> Entry]]
  BY <1>3, <1>4, <1>5, Zenon
<1> QED BY <1>6, Zenon DEF IoApicTypeOK, writeReg, Entry

(* What is new after sendMessage is the message, for the processors named.   *)
LEMMA SendAppends ==
  ASSUME msgs \in [Cpu -> Seq(Message)], NEW g \in Guest, NEW apics, NEW v \in Nat,
         sendMessage(g, apics, v)
  PROVE  /\ msgs' \in [Cpu -> Seq(Message)]
         /\ \A c \in Cpu : \A i \in 1..Len(msgs'[c]) :
              i <= Len(msgs[c]) \/ (c \in apics /\ msgs'[c][i].guest = g)
<1> DEFINE m == [guest |-> g, vector |-> v]
<1>1. m \in Message /\ m.guest = g
  BY DEF Message
<1>2. ASSUME NEW c \in Cpu
      PROVE  /\ msgs'[c] \in Seq(Message)
             /\ \A i \in 1..Len(msgs'[c]) :
                  i <= Len(msgs[c]) \/ (c \in apics /\ msgs'[c][i].guest = g)
  <2>1. msgs[c] \in Seq(Message)
    OBVIOUS
  <2>2. CASE c \in apics
    <3>1. msgs'[c] = Append(msgs[c], m)
      BY <2>2 DEF sendMessage
    <3> HIDE DEF m
    <3> QED BY <1>1, <2>1, <2>2, <3>1
  <2>3. CASE c \notin apics
    BY <2>1, <2>3 DEF sendMessage
  <2> QED BY <2>2, <2>3, Zenon
<1>3. msgs' \in [Cpu -> Seq(Message)]
  BY <1>2, Zenon DEF sendMessage
<1> QED BY <1>2, <1>3

(* New messages of a step, as SentHome has them.                             *)
HomeStep == \A c \in Cpu : \A i \in 1..Len(msgs'[c]) :
  \/ i <= Len(msgs[c])
  \/ LET g == msgs'[c][i].guest IN
     QR0[c] = g \/ ~(Homeward(g, ConsoleLine) /\ Homeward(g, TimerLine))

(* A step that sends nothing.                                                *)
LEMMA NothingNew == msgs' = msgs /\ IoApicTypeOK => HomeStep
<1> SUFFICES ASSUME msgs' = msgs, IoApicTypeOK, NEW c \in Cpu, NEW i \in 1..Len(msgs'[c])
             PROVE  i <= Len(msgs[c])
  BY DEF HomeStep
<1>1. msgs[c] \in Seq(Message)
  BY DEF IoApicTypeOK
<1> QED BY <1>1

(* The processors that signalInterrupt sends to run the LDom, if the entry   *)
(* leads home: those of a logical destination by the test of QR0, the one of *)
(* a physical destination by the entry.                                      *)
LEMMA SignalHome ==
  ASSUME IoApicTypeOK, NEW g \in Guest, NEW line \in {ConsoleLine, TimerLine},
         signalInterrupt(g, line)
  PROVE  /\ msgs' \in [Cpu -> Seq(Message)] /\ lowestPriorityOffset' \in 0..Turns-1
         /\ HomeStep
<1> DEFINE e == redirTable[g][line]
           apics == Matching(g, e.top)
<1>1. e \in Entry /\ line \in Line
  BY EntryType, IoApicAssumption
<1>2. e.bottom.vector \in Nat
  BY <1>1, Zenon DEF Entry, Half
<1>3. msgs \in [Cpu -> Seq(Message)] /\ lowestPriorityOffset \in 0..Turns-1
  BY DEF IoApicTypeOK
<1>4. CASE Masked(g, line)
  BY <1>3, <1>4, NothingNew, Zenon DEF signalInterrupt
<1>5. CASE ~Masked(g, line)
  <2>1. PICK to \in SUBSET Cpu :
          /\ sendMessage(g, to, e.bottom.vector)
          /\ to \subseteq apics \/ (~e.bottom.logical /\ to = Physical[e.top])
    <3>1. apics \in SUBSET Cpu /\ Physical[e.top] \in SUBSET Cpu
      BY <1>1, IoApicAssumption, Zenon DEF Matching, Entry
    <3>2. \/ \E c \in apics : sendMessage(g, {c}, e.bottom.vector)
          \/ sendMessage(g, IF e.bottom.logical THEN apics ELSE Physical[e.top],
                         e.bottom.vector)
      BY <1>5, Zenon DEF signalInterrupt
    <3>3. CASE \E c \in apics : sendMessage(g, {c}, e.bottom.vector)
      <4>1. PICK c \in apics : sendMessage(g, {c}, e.bottom.vector)
        BY <3>3, Zenon
      <4>2. {c} \in SUBSET Cpu /\ {c} \subseteq apics
        BY <3>1, Zenon
      <4> QED BY <4>1, <4>2, Zenon
    <3>4. CASE sendMessage(g, IF e.bottom.logical THEN apics ELSE Physical[e.top],
                           e.bottom.vector)
      BY <3>1, <3>4, Zenon
    <3> QED BY <3>2, <3>3, <3>4, Zenon
  <2>2. /\ msgs' \in [Cpu -> Seq(Message)]
        /\ \A c \in Cpu : \A i \in 1..Len(msgs'[c]) :
             i <= Len(msgs[c]) \/ (c \in to /\ msgs'[c][i].guest = g)
    BY <1>2, <1>3, <2>1, SendAppends
  <2>3. \A c \in to : QR0[c] = g \/ ~Homeward(g, line)
    BY <1>5, <2>1, Zenon DEF Homeward, Matching
  <2>4. HomeStep
    BY <2>2, <2>3, Zenon DEF HomeStep
  <2>5. lowestPriorityOffset' \in 0..Turns-1
    <3>1. lowestPriorityOffset' \in {lowestPriorityOffset, (lowestPriorityOffset + 1) % Turns}
      BY <1>5, Zenon DEF signalInterrupt
    <3>2. \A n \in 0..Turns-1 : (n + 1) % Turns \in 0..Turns-1
      BY IoApicAssumption
    <3> QED BY <1>3, <3>1, <3>2
  <2> QED BY <2>2, <2>4, <2>5
<1> QED BY <1>4, <1>5

(* Every step keeps the types and sends home.                                *)
LEMMA StepHome ==
  ASSUME IoApicTypeOK, IoApicNext
  PROVE  IoApicTypeOK' /\ HomeStep
<1>1. ASSUME NEW g \in Guest, NEW r \in Register, writeRegSel(g, r)
      PROVE  IoApicTypeOK' /\ HomeStep
  <2>1. IoApicTypeOK'
    BY <1>1 DEF writeRegSel, IoApicTypeOK
  <2> QED BY <1>1, <2>1, NothingNew DEF writeRegSel
<1>2. ASSUME NEW g \in Guest, NEW x, writeReg(g, x),
             \/ regSel[g][1] = "top" /\ x \in Dest
             \/ regSel[g][1] = "bottom" /\ x \in Bottom
      PROVE  IoApicTypeOK' /\ HomeStep
  <2>1. IoApicTypeOK'
    BY <1>2, WriteTyped
  <2> QED BY <1>2, <2>1, NothingNew, Zenon DEF writeReg
<1>3. ASSUME NEW g \in Guest, postConsoleInt(g)
      PROVE  IoApicTypeOK' /\ HomeStep
  <2>1. /\ msgs' \in [Cpu -> Seq(Message)] /\ lowestPriorityOffset' \in 0..Turns-1
        /\ HomeStep
    BY <1>3, SignalHome DEF postConsoleInt
  <2> QED BY <1>3, <2>1 DEF postConsoleInt, IoApicTypeOK
<1>4. ASSUME NEW g \in Guest, counterInterrupt(g)
      PROVE  IoApicTypeOK' /\ HomeStep
  <2>1. /\ msgs' \in [Cpu -> Seq(Message)] /\ lowestPriorityOffset' \in 0..Turns-1
        /\ HomeStep
    <3>1. CASE pinStates[TimerLine]
      BY <1>4, <3>1, NothingNew, Zenon DEF counterInterrupt, IoApicTypeOK
    <3>2. CASE ~pinStates[TimerLine]
      BY <1>4, <3>2, SignalHome DEF counterInterrupt
    <3> QED BY <3>1, <3>2
  <2>2. pinStates' \in [Line -> BOOLEAN]
    BY <1>4, Zenon DEF counterInterrupt, IoApicTypeOK
  <2> QED BY <1>4, <2>1, <2>2, Zenon DEF counterInterrupt, IoApicTypeOK
<1>5. ASSUME NEW c \in Cpu, Arrives(c)
      PROVE  IoApicTypeOK' /\ HomeStep
  <2>1. msgs \in [Cpu -> Seq(Message)]
    BY DEF IoApicTypeOK
  <2>2. /\ Tail(msgs[c]) \in Seq(Message) /\ Len(Tail(msgs[c])) <= Len(msgs[c])
        /\ msgs' = [msgs EXCEPT ![c] = Tail(msgs[c])]
    BY <1>5, <2>1 DEF Arrives
  <2>3. msgs' \in [Cpu -> Seq(Message)]
    BY <2>1, <2>2
  <2>4. \A d \in Cpu : Len(msgs'[d]) \in Nat /\ Len(msgs[d]) \in Nat
                       /\ Len(msgs'[d]) <= Len(msgs[d])
    BY <2>1, <2>2, <2>3
  <2>5. HomeStep
    BY <2>4 DEF HomeStep
  <2> QED BY <1>5, <2>3, <2>5, Zenon DEF Arrives, IoApicTypeOK
<1> QED BY <1>1, <1>2, <1>3, <1>4, <1>5, Zenon DEF IoApicNext

(* What the constructor and PARDg5VPlatform::init write is of these types.   *)
LEMMA TableStarts == IoApicInit => IoApicTypeOK
<1> SUFFICES ASSUME IoApicInit PROVE IoApicTypeOK
  OBVIOUS
<1>1. regSel \in [Guest -> Register \cup {Id}] /\ lowestPriorityOffset \in 0..Turns-1
  BY IoApicAssumption DEF IoApicInit
<1>2. pinStates \in [Line -> BOOLEAN] /\ msgs \in [Cpu -> Seq(Message)]
  BY DEF IoApicInit
<1>3. redirTable \in [Guest -> [Line -> [top : Dest, bottom : Half]]]
  BY IoApicAssumption, Zenon DEF IoApicInit, Half, Mode
<1> QED BY <1>1, <1>2, <1>3 DEF IoApicTypeOK

(* Interrupts of an LDom go to the processors that run it, as long as its    *)
(* own entries lead there, whatever the other LDoms do (signalInterrupt).    *)
THEOREM AlwaysSentHome == IoApicSpec => SentHome
<1>1. IoApicInit => IoApicTypeOK
  BY TableStarts
<1>2. IoApicTypeOK /\ [IoApicNext]_ioapicVars => IoApicTypeOK'
  BY StepHome, Zenon DEF IoApicTypeOK, ioapicVars
<1>3. IoApicTypeOK /\ [IoApicNext]_ioapicVars => [HomeStep]_ioapicVars
  BY StepHome
<1> QED BY <1>1, <1>2, <1>3, PTL DEF IoApicSpec, SentHome, HomeStep

-----------------------------------------------------------------------------
(* The UARTs.                                                                *)
IInv == UartTypeOK /\ InputNoticed /\ OnlyEnabled

USE UartAssumption DEF Bit

(* The steps software takes keep the inductive invariant (read, write).      *)
LEMMA AccessesKeep ==
  ASSUME IInv, NEW g \in Guest
  PROVE  /\ readRBR(g) => IInv'
         /\ \A id \in Bit \cup {"NOPEND"} : readIIR(g, id) => IInv'
         /\ writeTHR(g) => IInv'
         /\ \A latch \in BOOLEAN : writeLCR(g, latch) => IInv'
<1> USE DEF IInv, UartTypeOK, InputNoticed, OnlyEnabled
<1>1. readRBR(g) => IInv'
  BY DEF readRBR
<1>2. ASSUME NEW id \in Bit \cup {"NOPEND"}, readIIR(g, id) PROVE IInv'
  BY <1>2 DEF readIIR
<1>3. writeTHR(g) => IInv'
  BY DEF writeTHR
<1>4. ASSUME NEW latch \in BOOLEAN, writeLCR(g, latch) PROVE IInv'
  BY <1>4, Zenon DEF writeLCR
<1> QED BY <1>1, <1>2, <1>3, <1>4, Zenon

(* So does enabling and disabling interrupts (write).                        *)
LEMMA EnableKeeps ==
  ASSUME IInv, NEW g \in Guest, NEW v \in SUBSET Bit, NEW post \in BOOLEAN,
         writeIER(g, v, post)
  PROVE  IInv'
<1> USE DEF IInv, UartTypeOK, InputNoticed, OnlyEnabled
<1>1. CASE LCR[g]
  BY <1>1, Zenon DEF writeIER
<1>2. CASE ~LCR[g]
  <2> DEFINE rx == "RX" \in v /\ rxbuf[g] > 0
             off == (Bit \ v) \cup IF rx THEN {} ELSE {"RX"}
             late == (IF "TX" \in v /\ recent[g] THEN {"TX"} ELSE {})
                     \cup (IF rx THEN {"RX"} ELSE {})
  <2>1. /\ IER' = [IER EXCEPT ![g] = v]
        /\ scheduled' = [scheduled EXCEPT ![g] = (@ \ off) \cup late]
        /\ status' = [status EXCEPT ![g] = (@ \ off) \cup IF post THEN {"TX"} ELSE {}]
        /\ recent' = [recent EXCEPT ![g] = @ \/ post]
        /\ post => "TX" \in v
        /\ UNCHANGED <<LCR, rxbuf>>
    BY <1>2, Zenon DEF writeIER
  <2>2. off \subseteq Bit /\ late \subseteq v /\ Bit \ v \subseteq off /\ (rx => "RX" \in late)
    BY Zenon
  <2> HIDE DEF off, late
  <2>3. UartTypeOK'
    BY <2>1, <2>2, Zenon
  <2>4. OnlyEnabled'
    <3> SUFFICES ASSUME NEW h \in Guest PROVE (status'[h] \cup scheduled'[h]) \subseteq IER'[h]
      BY Zenon
    <3>1. CASE h = g
      BY <2>1, <2>2, <3>1
    <3>2. CASE h # g
      BY <2>1, <3>2, Zenon
    <3> QED BY <3>1, <3>2, Zenon
  <2>5. InputNoticed'
    BY <2>1, <2>2, Zenon
  <2> QED BY <2>3, <2>4, <2>5, Zenon
<1> QED BY <1>1, <1>2, Zenon

(* So do arriving bytes, the events, time and a restart (dataAvailable,      *)
(* IntrEvent::process, unserialize).                                         *)
LEMMA EventsKeep ==
  ASSUME IInv
  PROVE  /\ \A g \in Guest, n \in 1..BufLen, post \in BOOLEAN :
              dataAvailable(g, n, post) => IInv'
         /\ \A g \in Guest, e \in Bit, post \in BOOLEAN : process(g, e, post) => IInv'
         /\ \A g \in Guest : Quiet(g) => IInv'
         /\ unserialize => IInv'
<1> USE DEF IInv, UartTypeOK, InputNoticed, OnlyEnabled
<1>1. ASSUME NEW g \in Guest, NEW n \in 1..BufLen, NEW post \in BOOLEAN,
             dataAvailable(g, n, post)
      PROVE  IInv'
  <2>1. /\ IER' = IER /\ LCR' = LCR /\ scheduled' = scheduled /\ recent' = recent
        /\ rxbuf' \in [Guest -> 0..BufLen] /\ \A h \in Guest \ {g} : rxbuf'[h] = rxbuf[h]
    BY <1>1 DEF dataAvailable
  <2>2. status' = [status EXCEPT ![g] = IF "RX" \in IER[g] THEN @ \cup {"RX"} ELSE @]
    BY <1>1, Zenon DEF dataAvailable
  <2> QED BY <2>1, <2>2, Zenon
<1>2. ASSUME NEW g \in Guest, NEW e \in Bit, NEW post \in BOOLEAN, process(g, e, post)
      PROVE  IInv'
  BY <1>2, Zenon DEF process
<1>3. ASSUME NEW g \in Guest, Quiet(g) PROVE IInv'
  BY <1>3, Zenon DEF Quiet
<1>4. unserialize => IInv'
  BY DEF unserialize
<1> QED BY <1>1, <1>2, <1>3, <1>4, Zenon

(* Init and every step, stuttering included.                                 *)
LEMMA Inductive == (UartInit => IInv) /\ (IInv /\ [UartNext]_uartVars => IInv')
<1>1. UartInit => IInv
  BY DEF UartInit, IInv, UartTypeOK, InputNoticed, OnlyEnabled
<1>2. ASSUME IInv, UartNext PROVE IInv'
  BY <1>2, AccessesKeep, EnableKeeps, EventsKeep, Zenon DEF UartNext
<1>3. ASSUME IInv, UNCHANGED uartVars PROVE IInv'
  BY <1>3, Zenon DEF IInv, UartTypeOK, InputNoticed, OnlyEnabled, uartVars
<1> QED BY <1>1, <1>2, <1>3

(* Bytes that wait have their interrupt raised or scheduled, whatever        *)
(* software does to the registers (read, write, dataAvailable).              *)
THEOREM InputAlwaysNoticed == UartSpec => []InputNoticed
<1>1. IInv => InputNoticed
  BY DEF IInv
<1> QED BY Inductive, <1>1, PTL DEF UartSpec

(* No interrupt that software disabled is raised or scheduled, so that       *)
(* IntrEvent::process always interrupts.                                     *)
THEOREM OnlyEnabledAlways == UartSpec => []OnlyEnabled
<1>1. IInv => OnlyEnabled
  BY DEF IInv
<1> QED BY Inductive, <1>1, PTL DEF UartSpec

HIDE UartAssumption DEF Bit

-----------------------------------------------------------------------------
(* The whole way.  Of what an LDom's software has done so far: the halves of *)
(* entries that it has programmed, and whether it has enabled interrupts.    *)
Has(g, half, l) == \E j \in 1..made[g] : Programs(scenario.setup[g], j, half, l)
On(g) == \E j \in 1..made[g] : Enables(scenario.setup[g], j)

\* The latch is open: software has opened it and not closed it since.
Opened(g) == \E i \in 1..made[g] :
  /\ scenario.setup[g][i].op = "lcr" /\ scenario.setup[g][i].val
  /\ \A k \in 1..made[g] : scenario.setup[g][k].op = "lcr" => k <= i

\* How far the software of g has come shows in its table and its port.
Along(g) ==
  /\ made[g] <= Len(scenario.setup[g])
  /\ \A l \in Line, half \in {"top", "bottom"} :
       Has(g, half, l) => redirTable[g][l][half] = Wanted[g][l][half]
  /\ ~Has(g, "bottom", TimerLine) => redirTable[g][TimerLine].bottom.mask
  /\ made[g] > 0 /\ scenario.setup[g][made[g]].op = "select" =>
       regSel[g] = scenario.setup[g][made[g]].val
  /\ IER[g] # {} => On(g)
  /\ LCR[g] => Opened(g)

Started ==
  /\ scenario \in Scenarios /\ made \in [Guest -> Nat] /\ pinStates[TimerLine] = FALSE
  /\ \A g \in Guest : Along(g)

Home == \A c \in Cpu : \A i \in 1..Len(msgs[c]) :
          msgs[c][i].guest = QR0[c] /\ msgs[c][i].vector \in Vector

Handler == [vector : Vector, phase : Phase]
Nest(s, set) == /\ set = {s[i].vector : i \in 1..Len(s)}
                /\ \A i, j \in 1..Len(s) : i < j => s[i].vector > s[j].vector
Nested == stack \in [Cpu -> Seq(Handler)] /\ \A c \in Cpu : Nest(stack[c], isr[c])

Waiting(g) ==
  /\ pc[g] \notin {"lsr", "rbr"} /\ rxbuf[g] > 0 /\ "RX" \in IER[g] =>
       "RX" \in scheduled[g] \/ OnTheWay(g)
  /\ pc[g] \in {"idle", "iir"} /\ "TX" \in IER[g] =>
       /\ "TX" \in scheduled[g] \/ OnTheWay(g)
       /\ "TX" \in status[g] \cup scheduled[g]
  /\ xmit[g] > 0 => "TX" \in IER[g] /\ Ready(g)
  /\ pc[g] = "ier" => xmit[g] = 0
  /\ pc[g] = "thr" => xmit[g] > 0

Driver ==
  /\ pc \in [Guest -> {"idle", "iir", "lsr", "rbr", "thr", "ier"}] /\ xmit \in [Guest -> Nat]
  /\ written \in [Guest -> Nat] /\ \A g \in Guest : Waiting(g)

CInv == IInv /\ IoApicTypeOK /\ LInv /\ Started /\ Home /\ Nested /\ Driver

(* What is assumed of the accesses that an LDom starts with.                 *)
LEMMA Setups ==
  ASSUME Started, NEW g \in Guest
  PROVE  /\ Len(scenario.setup[g]) \in Nat /\ Orderly(g, scenario.setup[g])
         /\ made[g] \in Nat /\ made[g] <= Len(scenario.setup[g])
         /\ scenario.writes[g] \in Nat
         /\ scenario.writes[g] > 0 =>
              \E j \in 1..Len(scenario.setup[g]) : Enables(scenario.setup[g], j)
<1>1. scenario \in Scenarios /\ made[g] \in Nat /\ made[g] <= Len(scenario.setup[g])
  BY Zenon DEF Started, Along
<1> QED BY <1>1, ConsoleAssumption, Zenon

(* An entry whose bottom half is programmed is the one that is wanted.       *)
LEMMA Programmed ==
  ASSUME Started, NEW g \in Guest, NEW l \in Line, Has(g, "bottom", l)
  PROVE  /\ redirTable[g][l].top = Wanted[g][l].top
         /\ redirTable[g][l].bottom = Wanted[g][l].bottom
<1> DEFINE s == scenario.setup[g]
<1>1. Len(s) \in Nat /\ Orderly(g, s) /\ made[g] \in Nat /\ made[g] <= Len(s)
  BY Setups
<1>2. PICK j \in 1..made[g] : Programs(s, j, "bottom", l)
  BY DEF Has
<1>3. j \in 1..Len(s)
  BY <1>1
<1>4. PICK i \in 1..j : Programs(s, i, "top", l)
  BY <1>1, <1>2, <1>3, Zenon DEF Orderly
<1>5. i \in 1..made[g]
  BY <1>1
<1>6. Has(g, "top", l)
  BY <1>4, <1>5 DEF Has
<1> QED BY <1>6, Zenon DEF Started, Along

(* Once interrupts of the port are enabled, the console's entry is           *)
(* programmed and the latch is closed.                                       *)
LEMMA EnabledLast ==
  ASSUME Started, NEW g \in Guest, On(g)
  PROVE  Has(g, "bottom", ConsoleLine) /\ ~LCR[g]
<1> DEFINE s == scenario.setup[g]
<1>1. Len(s) \in Nat /\ Orderly(g, s) /\ made[g] \in Nat /\ made[g] <= Len(s)
  BY Setups
<1>2. PICK j \in 1..made[g] : Enables(s, j)
  BY DEF On
<1>3. j \in 1..Len(s)
  BY <1>1
<1>4. /\ \E i \in 1..j : Programs(s, i, "bottom", ConsoleLine)
      /\ \A i \in 1..Len(s) : s[i].op = "lcr" /\ s[i].val =>
           i < j /\ \E k \in i..j : s[k].op = "lcr" /\ ~s[k].val
  BY <1>1, <1>2, <1>3, Zenon DEF Orderly
<1>5. Has(g, "bottom", ConsoleLine)
  <2>1. PICK i \in 1..j : Programs(s, i, "bottom", ConsoleLine)
    BY <1>4, Zenon
  <2>2. i \in 1..made[g]
    BY <1>1
  <2> QED BY <2>1, <2>2 DEF Has
<1>6. ASSUME LCR[g] PROVE FALSE
  <2>1. PICK i \in 1..made[g] : /\ s[i].op = "lcr" /\ s[i].val
                                /\ \A k \in 1..made[g] : s[k].op = "lcr" => k <= i
    BY <1>6, Zenon DEF Started, Along, Along, Opened
  <2>2. i \in 1..Len(s)
    BY <1>1
  <2>3. PICK k \in i..j : s[k].op = "lcr" /\ ~s[k].val
    BY <1>4, <2>1, <2>2, Zenon
  <2>4. k \in 1..made[g] /\ k >= i
    BY <1>1
  <2>5. k = i
    BY <2>1, <2>3, <2>4
  <2> QED BY <2>1, <2>3, <2>5, Zenon
<1> QED BY <1>5, <1>6

\* Messages with vector v are sent for g, to processors of g and at least one.
Adds(g, v) ==
  /\ msgs' \in [Cpu -> Seq(Message)]
  /\ \A c \in Cpu :
       /\ Len(msgs'[c]) >= Len(msgs[c])
       /\ \A i \in 1..Len(msgs[c]) : msgs'[c][i] = msgs[c][i]
       /\ \A i \in 1..Len(msgs'[c]) : i <= Len(msgs[c]) \/
            (QR0[c] = g /\ msgs'[c][i].guest = g /\ msgs'[c][i].vector = v)
  /\ \E c \in Cpus(g) : Len(msgs'[c]) > Len(msgs[c])

(* sendMessage to some of the processors of the LDom.                        *)
LEMMA MessagesAdded ==
  ASSUME msgs \in [Cpu -> Seq(Message)], NEW g \in Guest, NEW to \in SUBSET Cpus(g), to # {},
         NEW v \in Nat, sendMessage(g, to, v)
  PROVE  Adds(g, v)
<1> DEFINE m == [guest |-> g, vector |-> v]
<1>1. m \in Message /\ m.guest = g /\ m.vector = v
  BY DEF Message
<1>2. \A c \in Cpu : msgs'[c] = IF c \in to THEN Append(msgs[c], m) ELSE msgs[c]
  BY DEF sendMessage
<1>3. to \subseteq Cpu /\ \A c \in to : QR0[c] = g
  BY DEF Cpus
<1> HIDE DEF m
<1>4. ASSUME NEW c \in Cpu
      PROVE  /\ msgs'[c] \in Seq(Message) /\ Len(msgs'[c]) >= Len(msgs[c])
             /\ \A i \in 1..Len(msgs[c]) : msgs'[c][i] = msgs[c][i]
             /\ \A i \in 1..Len(msgs'[c]) : i <= Len(msgs[c]) \/ (c \in to /\ msgs'[c][i] = m)
             /\ c \in to => Len(msgs'[c]) > Len(msgs[c])
  <2>1. msgs[c] \in Seq(Message) /\ Len(msgs[c]) \in Nat
    OBVIOUS
  <2>2. CASE c \in to
    <3>1. msgs'[c] = Append(msgs[c], m)
      BY <1>2, <2>2, Zenon
    <3> QED BY <1>1, <2>1, <2>2, <3>1
  <2>3. CASE c \notin to
    <3>1. msgs'[c] = msgs[c]
      BY <1>2, <2>3
    <3> QED BY <2>1, <2>3, <3>1
  <2> QED BY <2>2, <2>3, Zenon
<1>5. msgs' \in [Cpu -> Seq(Message)]
  BY <1>4, Zenon DEF sendMessage
<1>6. \E c \in Cpus(g) : Len(msgs'[c]) > Len(msgs[c])
  BY <1>3, <1>4
<1> QED BY <1>1, <1>3, <1>4, <1>5, <1>6, Zenon DEF Adds

(* signalInterrupt for an entry that is programmed (also for the timer).     *)
LEMMA SignalAdds ==
  ASSUME IoApicTypeOK, Started, NEW g \in Guest, NEW l \in {ConsoleLine, TimerLine},
         Has(g, "bottom", l), signalInterrupt(g, l)
  PROVE  Adds(g, Wanted[g][l].bottom.vector) /\ Wanted[g][l].bottom.vector \in Vector
<1> DEFINE top == Wanted[g][l].top
           b == Wanted[g][l].bottom
           apics == Matching(g, top)
<1>0. l \in Line /\ msgs \in [Cpu -> Seq(Message)]
  BY IoApicAssumption, Zenon DEF IoApicTypeOK
<1>1. redirTable[g][l].top = top /\ redirTable[g][l].bottom = b
  BY <1>0, Programmed, Zenon
<1>2. /\ l \in pinMask[g] /\ ~b.mask /\ b.mode # "ExtInt" /\ b.vector \in Vector
      /\ b.logical => apics # {}
      /\ ~b.logical => Physical[top] # {} /\ Physical[top] \subseteq Cpus(g)
  BY ConsoleAssumption, Zenon
<1>3. b.vector \in Nat /\ apics \subseteq Cpus(g)
  BY <1>2, VectorNat, Zenon DEF Matching, Cpus
<1>4. ~Masked(g, l)
  BY <1>1, <1>2, Zenon DEF Masked
<1>5. \/ \E c \in apics : sendMessage(g, {c}, b.vector)
      \/ sendMessage(g, IF b.logical THEN apics ELSE Physical[top], b.vector)
  BY <1>1, <1>4, Zenon DEF signalInterrupt
<1> HIDE DEF b, top, apics
<1>6. \E to \in SUBSET Cpus(g) : to # {} /\ sendMessage(g, to, b.vector)
  <2>1. CASE \E c \in apics : sendMessage(g, {c}, b.vector)
    <3>1. PICK c \in apics : sendMessage(g, {c}, b.vector)
      BY <2>1
    <3>2. {c} \in SUBSET Cpus(g) /\ {c} # {}
      BY <1>3
    <3> QED BY <3>1, <3>2
  <2>2. CASE sendMessage(g, IF b.logical THEN apics ELSE Physical[top], b.vector)
    BY <1>2, <1>3, <2>2
  <2> QED BY <1>5, <2>1, <2>2, Zenon
<1>7. Adds(g, b.vector)
  BY <1>0, <1>3, <1>6, MessagesAdded
<1> QED BY <1>2, <1>7, Zenon DEF b

(* The end of postConsoleInt's callers, for a port set up.                   *)
LEMMA PostAdds ==
  ASSUME IoApicTypeOK, Started, NEW g \in Guest, NEW post \in BOOLEAN, Posts(g, post),
         post => Has(g, "bottom", ConsoleLine)
  PROVE  /\ redirTable' = redirTable /\ regSel' = regSel /\ pinStates' = pinStates
         /\ post => postConsoleInt(g) /\ Adds(g, ConsoleVector[g]) /\ ConsoleVector[g] \in Vector
         /\ ~post => ioapicVars' = ioapicVars
<1>1. CASE post
  <2>1. postConsoleInt(g)
    BY <1>1 DEF Posts
  <2>2. /\ redirTable' = redirTable /\ regSel' = regSel /\ pinStates' = pinStates
        /\ signalInterrupt(g, ConsoleLine)
    BY <2>1 DEF postConsoleInt
  <2>3. Wanted[g][ConsoleLine].bottom.vector = ConsoleVector[g]
    BY ConsoleAssumption, Zenon
  <2>4. Adds(g, Wanted[g][ConsoleLine].bottom.vector) /\ Wanted[g][ConsoleLine].bottom.vector \in Vector
    BY <1>1, <2>2, SignalAdds, Zenon
  <2> QED BY <1>1, <2>1, <2>2, <2>3, <2>4, Zenon
<1>2. CASE ~post
  BY <1>2 DEF Posts, ioapicVars
<1> QED BY <1>1, <1>2

(* Another access of software: what it has programmed and enabled before it, *)
(* and what it does with this one.                                           *)
LEMMA Grown ==
  ASSUME Started, NEW g \in Guest, made' = [made EXCEPT ![g] = @ + 1], scenario' = scenario
  PROVE  /\ made' \in [Guest -> Nat] /\ made'[g] = made[g] + 1
         /\ \A half, l : Has(g, half, l)' <=>
              Has(g, half, l) \/ Programs(scenario.setup[g], made[g] + 1, half, l)
         /\ On(g)' <=> On(g) \/ Enables(scenario.setup[g], made[g] + 1)
         /\ \A h \in Guest : h # g =>
              /\ made'[h] = made[h] /\ (On(h)' <=> On(h)) /\ (Opened(h)' <=> Opened(h))
              /\ \A half, l : Has(h, half, l)' <=> Has(h, half, l)
<1>1. made[g] \in Nat /\ made' \in [Guest -> Nat] /\ made'[g] = made[g] + 1
  BY DEF Started
<1>2. 1..made'[g] = 1..made[g] \cup {made[g] + 1}
  BY <1>1
<1>3. ASSUME NEW half, NEW l
      PROVE  Has(g, half, l)' <=>
               Has(g, half, l) \/ Programs(scenario.setup[g], made[g] + 1, half, l)
  <2>1. Has(g, half, l)' <=> \E j \in 1..made'[g] : Programs(scenario.setup[g], j, half, l)
    BY DEF Has, Programs
  <2> QED BY <1>2, <2>1 DEF Has
<1>4. On(g)' <=> On(g) \/ Enables(scenario.setup[g], made[g] + 1)
  <2>1. On(g)' <=> \E j \in 1..made'[g] : Enables(scenario.setup[g], j)
    BY DEF On, Enables
  <2> QED BY <1>2, <2>1 DEF On
<1>5. ASSUME NEW h \in Guest, h # g
      PROVE  /\ made'[h] = made[h] /\ (On(h)' <=> On(h)) /\ (Opened(h)' <=> Opened(h))
             /\ \A half, l : Has(h, half, l)' <=> Has(h, half, l)
  <2>1. made'[h] = made[h]
    BY <1>5 DEF Started
  <2> QED BY <2>1, Zenon DEF On, Opened, Has, Enables, Programs
<1> QED BY <1>1, <1>3, <1>4, <1>5, Zenon

(* An access that is not to the line control register leaves the latch.      *)
LEMMA OpenedKept ==
  ASSUME Started, NEW g \in Guest, scenario' = scenario, made'[g] = made[g] + 1,
         scenario.setup[g][made[g] + 1].op # "lcr"
  PROVE  Opened(g)' <=> Opened(g)
<1> DEFINE latch(j) == scenario.setup[g][j].op = "lcr"
           opens(j) == latch(j) /\ scenario.setup[g][j].val
<1>1. made[g] \in Nat
  BY Zenon DEF Started
<1>2. Opened(g) <=> \E i \in 1..made[g] : opens(i) /\ \A k \in 1..made[g] : latch(k) => k <= i
  BY Zenon DEF Opened
<1>3. Opened(g)' <=>
        \E i \in 1..made[g] + 1 : opens(i) /\ \A k \in 1..made[g] + 1 : latch(k) => k <= i
  BY Zenon DEF Opened
<1>4. ~latch(made[g] + 1) /\ ~opens(made[g] + 1)
  BY Zenon
<1> HIDE DEF latch, opens
<1>5. 1..made[g] + 1 = 1..made[g] \cup {made[g] + 1}
  BY <1>1
<1> QED BY <1>2, <1>3, <1>4, <1>5, Zenon

(* A step in which software makes no access of its setup.                    *)
LEMMA SetupStays ==
  ASSUME Started, scenario' = scenario, made' = made, redirTable' = redirTable,
         regSel' = regSel, pinStates' = pinStates, LCR' = LCR,
         \A g \in Guest : IER'[g] = IER[g] \/ On(g)
  PROVE  Started'
<1>1. \A g \in Guest : /\ On(g)' <=> On(g)
                       /\ Opened(g)' <=> Opened(g)
                       /\ \A half, l : Has(g, half, l)' <=> Has(g, half, l)
  BY DEF On, Opened, Has, Enables, Programs
<1>2. ASSUME NEW g \in Guest PROVE Along(g)'
  <2>1. Along(g)
    BY DEF Started
  <2>2. IER'[g] # {} => On(g)'
    BY <1>1, <2>1, Zenon DEF Along
  <2> QED BY <1>1, <2>1, <2>2, Zenon DEF Along
<1>3. scenario' \in Scenarios /\ made' \in [Guest -> Nat] /\ pinStates'[TimerLine] = FALSE
  BY DEF Started
<1> QED BY <1>2, <1>3 DEF Started

\* The nth access of s, which is the setup of g, is made.
Access(g, s, n) ==
  /\ s = scenario.setup[g] /\ n = made[g] + 1 /\ made[g] # Len(s)
  /\ made' = [made EXCEPT ![g] = @ + 1] /\ scenario' = scenario

(* What it adds to what software has done.                                   *)
LEMMA Accessed ==
  ASSUME Started, NEW g \in Guest, NEW s, NEW n, Access(g, s, n)
  PROVE  /\ Len(s) \in Nat /\ Orderly(g, s) /\ made[g] \in Nat /\ s = scenario.setup[g]
         /\ made' = [made EXCEPT ![g] = @ + 1] /\ scenario' = scenario /\ n = made[g] + 1
         /\ n \in 1..Len(s) /\ n \in Nat /\ n <= Len(s)
         /\ n - 1 = made[g] /\ (n > 1 => made[g] > 0)
         /\ made'[g] = n /\ scenario'.setup[g] = s
         /\ \A half, l : Has(g, half, l)' <=> Has(g, half, l) \/ Programs(s, n, half, l)
         /\ On(g)' <=> On(g) \/ Enables(s, n)
         /\ s[n].op # "lcr" => (Opened(g)' <=> Opened(g))
<1>1. /\ s = scenario.setup[g] /\ n = made[g] + 1 /\ made[g] # Len(s)
      /\ made' = [made EXCEPT ![g] = @ + 1] /\ scenario' = scenario
  BY DEF Access
<1>2. Len(s) \in Nat /\ Orderly(g, s) /\ made[g] \in Nat /\ made[g] <= Len(s)
  BY <1>1, Setups, Zenon
<1>3. /\ n \in 1..Len(s) /\ n \in Nat /\ n <= Len(s)
      /\ n - 1 = made[g] /\ (n > 1 => made[g] > 0)
  <2>1. n = made[g] + 1 /\ made[g] # Len(s)
    BY <1>1
  <2> QED BY <1>2, <2>1
<1>4. /\ made'[g] = n
      /\ \A half, l : Has(g, half, l)' <=> Has(g, half, l) \/ Programs(s, n, half, l)
      /\ On(g)' <=> On(g) \/ Enables(s, n)
  BY <1>1, Grown, Zenon
<1>5. s[n].op # "lcr" => (Opened(g)' <=> Opened(g))
  BY <1>1, <1>4, OpenedKept, Zenon
<1> QED BY <1>1, <1>2, <1>3, <1>4, <1>5, Zenon

(* What it writes.                                                           *)
LEMMA Written ==
  ASSUME Started, NEW g \in Guest, NEW s, NEW n, Access(g, s, n)
  PROVE  /\ s[n].op = "select" => s[n].val \in Register
         /\ s[n].op = "ier" => s[n].val \in SUBSET Bit
         /\ s[n].op = "window" => \E half \in {"top", "bottom"}, l \in Line :
              Programs(s, n, half, l) /\ s[n].val = Wanted[g][l][half]
<1>1. Orderly(g, s) /\ n \in 1..Len(s)
  BY Accessed
<1>2. \/ s[n].op = "select" /\ s[n].val \in Register
      \/ s[n].op = "window" /\ \E half \in {"top", "bottom"}, l \in Line :
           Programs(s, n, half, l) /\ s[n].val = Wanted[g][l][half]
      \/ s[n].op = "lcr"
      \/ s[n].op = "ier" /\ s[n].val \in SUBSET Bit
  BY <1>1, Zenon DEF Orderly
<1>3. /\ "select" # "ier" /\ "select" # "window" /\ "select" # "lcr"
      /\ "ier" # "window" /\ "ier" # "lcr" /\ "window" # "lcr"
  OBVIOUS
<1> QED BY <1>2, <1>3, Zenon

(* It leaves the other LDoms where they are.                                 *)
LEMMA Elsewhere ==
  ASSUME Started, NEW g \in Guest, NEW s, NEW n, Access(g, s, n),
         pinStates' = pinStates,
         \A h \in Guest : h # g => /\ redirTable'[h] = redirTable[h] /\ regSel'[h] = regSel[h]
                                   /\ IER'[h] = IER[h] /\ LCR'[h] = LCR[h],
         Along(g)'
  PROVE  Started'
<1>1. /\ made' = [made EXCEPT ![g] = @ + 1] /\ scenario' = scenario
  BY DEF Access
<1>2. /\ made' \in [Guest -> Nat]
      /\ \A h \in Guest : h # g =>
           /\ made'[h] = made[h] /\ (On(h)' <=> On(h)) /\ (Opened(h)' <=> Opened(h))
           /\ \A half, l : Has(h, half, l)' <=> Has(h, half, l)
  BY <1>1, Grown, Zenon
<1>3. ASSUME NEW h \in Guest, h # g PROVE Along(h)'
  <2>1. /\ made'[h] = made[h] /\ (On(h)' <=> On(h)) /\ (Opened(h)' <=> Opened(h))
        /\ \A half, l : Has(h, half, l)' <=> Has(h, half, l)
    BY <1>2, <1>3, Zenon
  <2>2. /\ scenario' = scenario /\ redirTable'[h] = redirTable[h] /\ regSel'[h] = regSel[h]
        /\ IER'[h] = IER[h] /\ LCR'[h] = LCR[h]
    BY <1>1, <1>3
  <2>3. Along(h)
    BY DEF Started
  <2>4. /\ made'[h] <= Len(scenario'.setup[h])
        /\ made'[h] > 0 /\ scenario'.setup[h][made'[h]].op = "select" =>
             regSel'[h] = scenario'.setup[h][made'[h]].val
    BY <2>1, <2>2, <2>3, Zenon DEF Along
  <2>5. (IER'[h] # {} => On(h)') /\ (LCR'[h] => Opened(h)')
    BY <2>1, <2>2, <2>3, Zenon DEF Along
  <2>6. ~Has(h, "bottom", TimerLine)' => redirTable'[h][TimerLine].bottom.mask
    BY <2>1, <2>2, <2>3, Zenon DEF Along
  <2>7. \A l \in Line, half \in {"top", "bottom"} :
          Has(h, half, l)' => redirTable'[h][l][half] = Wanted[h][l][half]
    BY <2>1, <2>2, <2>3 DEF Along
  <2> QED BY <2>4, <2>5, <2>6, <2>7, Zenon DEF Along
<1>4. scenario' \in Scenarios /\ pinStates'[TimerLine] = FALSE
  BY <1>1 DEF Started
<1> QED BY <1>2, <1>3, <1>4, Zenon DEF Started

\* What an access of the setup does to the controllers and the port.
SetupMoved(g) ==
  /\ UartNext \/ uartVars' = uartVars
  /\ IoApicNext \/ ioapicVars' = ioapicVars
  /\ msgs' = msgs \/ (Adds(g, ConsoleVector[g]) /\ ConsoleVector[g] \in Vector)
  /\ Started'

(* Selecting a register.                                                     *)
LEMMA Selects ==
  ASSUME CInv, NEW g \in Guest, NEW s, NEW n, NEW a, a = s[n], Access(g, s, n),
         a.op = "select", writeRegSel(g, a.val), UNCHANGED uartVars
  PROVE  SetupMoved(g)
<1>a. IInv /\ IoApicTypeOK /\ Started /\ Along(g)
  BY DEF CInv, Started
<1>b. /\ Len(s) \in Nat /\ Orderly(g, s) /\ made[g] \in Nat /\ s = scenario.setup[g]
  BY <1>a, Accessed, Zenon
<1>c. made' = [made EXCEPT ![g] = @ + 1] /\ scenario' = scenario /\ n = made[g] + 1
  BY <1>a, Accessed
<1>d. n \in 1..Len(s) /\ n \in Nat /\ n <= Len(s)
  BY <1>a, Accessed, Zenon
<1>e. /\ made'[g] = n /\ scenario'.setup[g] = s
      /\ \A half, l : Has(g, half, l)' <=> Has(g, half, l) \/ Programs(s, n, half, l)
      /\ On(g)' <=> On(g) \/ Enables(s, n)
      /\ s[n].op # "lcr" => (Opened(g)' <=> Opened(g))
  BY <1>a, Accessed
<1>1. a.val \in Register /\ \A half, l : ~Programs(s, n, half, l)
  <2>1. a.val \in Register
    BY <1>a, Written, Zenon
  <2> QED BY <2>1 DEF Programs
<1>2. /\ redirTable' = redirTable /\ pinStates' = pinStates /\ msgs' = msgs
      /\ regSel' = [regSel EXCEPT ![g] = a.val] /\ regSel'[g] = a.val
      /\ \A h \in Guest : h # g => regSel'[h] = regSel[h]
  BY <1>a, Zenon DEF writeRegSel, IoApicTypeOK
<1>3. IoApicNext
  BY <1>1 DEF IoApicNext
<1>4. IER' = IER /\ LCR' = LCR
  BY DEF uartVars
<1>5. ~Enables(s, n) /\ (Opened(g)' <=> Opened(g))
  BY <1>e DEF Enables
<1>6. Along(g)'
  <2>1. made'[g] <= Len(scenario'.setup[g]) /\ scenario'.setup[g] = s
    BY <1>d, <1>e
  <2>2. ~Has(g, "bottom", TimerLine)' => redirTable'[g][TimerLine].bottom.mask
    BY <1>a, <1>e, <1>1, <1>2, Zenon DEF Along
  <2>3. \A l \in Line, half \in {"top", "bottom"} :
          Has(g, half, l)' => redirTable'[g][l][half] = Wanted[g][l][half]
    BY <1>a, <1>e, <1>1, <1>2, Zenon DEF Along
  <2>4. regSel'[g] = scenario'.setup[g][made'[g]].val
    BY <1>e, <1>2, <2>1, Zenon
  <2>5. (IER'[g] # {} => On(g)') /\ (LCR'[g] => Opened(g)')
    BY <1>a, <1>e, <1>4, <1>5, Zenon DEF Along
  <2> QED BY <2>1, <2>2, <2>3, <2>4, <2>5, Zenon DEF Along
<1> QED BY <1>a, Elsewhere, <1>2, <1>3, <1>4, <1>6, Zenon DEF SetupMoved

(* Writing half an entry through the window.                                 *)
LEMMA Windows ==
  ASSUME CInv, NEW g \in Guest, NEW s, NEW n, NEW a, a = s[n], Access(g, s, n),
         a.op = "window", writeReg(g, a.val), UNCHANGED uartVars
  PROVE  SetupMoved(g)
<1>a. IInv /\ IoApicTypeOK /\ Started /\ Along(g)
  BY DEF CInv, Started
<1>b. /\ Len(s) \in Nat /\ Orderly(g, s) /\ made[g] \in Nat /\ s = scenario.setup[g]
  BY <1>a, Accessed, Zenon
<1>c. made' = [made EXCEPT ![g] = @ + 1] /\ scenario' = scenario /\ n = made[g] + 1
  BY <1>a, Accessed
<1>d. n \in 1..Len(s) /\ n \in Nat /\ n <= Len(s)
  BY <1>a, Accessed, Zenon
<1>e. /\ made'[g] = n /\ scenario'.setup[g] = s
      /\ \A half, l : Has(g, half, l)' <=> Has(g, half, l) \/ Programs(s, n, half, l)
      /\ On(g)' <=> On(g) \/ Enables(s, n)
      /\ s[n].op # "lcr" => (Opened(g)' <=> Opened(g))
  BY <1>a, Accessed
<1>1. PICK half \in {"top", "bottom"}, l \in Line :
        Programs(s, n, half, l) /\ a.val = Wanted[g][l][half]
  BY <1>a, Written
<1>2. made[g] > 0 /\ s[made[g]].op = "select" /\ s[made[g]].val = <<half, l>>
  <2>1. n > 1 /\ s[n - 1].op = "select" /\ s[n - 1].val = <<half, l>>
    BY <1>1, Zenon DEF Programs
  <2>2. n - 1 = made[g] /\ (n > 1 => made[g] > 0)
    BY <1>a, Accessed, Zenon
  <2> QED BY <2>1, <2>2, Zenon
<1>3. regSel[g] = <<half, l>>
  BY <1>a, <1>b, <1>2, Zenon DEF Along
<1>4. \A k \in Line, half2 \in {"top", "bottom"} :
        Programs(s, n, half2, k) <=> half2 = half /\ k = l
  <2>1. s[n - 1].val = <<half, l>>
    BY <1>1, Zenon DEF Programs
  <2> QED BY <1>1, <2>1 DEF Programs
<1>5. IoApicNext
  <2>1. Wanted[g][l] \in [top : Dest, bottom : Bottom]
    BY ConsoleAssumption, Zenon
  <2>2. CASE half = "top"
    <3>1. regSel[g][1] = "top" /\ a.val \in Dest
      BY <1>1, <1>3, <2>1, <2>2
    <3> QED BY <3>1 DEF IoApicNext
  <2>3. CASE half = "bottom"
    <3>1. regSel[g][1] = "bottom" /\ a.val \in Bottom
      BY <1>1, <1>3, <2>1, <2>3
    <3> QED BY <3>1 DEF IoApicNext
  <2> QED BY <2>2, <2>3
<1>6. /\ redirTable' = [redirTable EXCEPT ![g][l][half] = a.val]
      /\ regSel' = regSel /\ pinStates' = pinStates /\ msgs' = msgs
  BY <1>3 DEF writeReg
<1>7. /\ \A h \in Guest : h # g => redirTable'[h] = redirTable[h]
      /\ \A k \in Line, half2 \in {"top", "bottom"} :
           redirTable'[g][k][half2] =
             IF half2 = half /\ k = l THEN a.val ELSE redirTable[g][k][half2]
  <2>1. redirTable \in [Guest -> [Line -> Entry]]
    BY <1>a DEF IoApicTypeOK, Entry
  <2>2. redirTable[g] \in [Line -> Entry] /\ redirTable[g][l] \in Entry
    BY <2>1
  <2>3. /\ redirTable'[g] = [redirTable[g] EXCEPT ![l][half] = a.val]
        /\ \A h \in Guest : h # g => redirTable'[h] = redirTable[h]
    BY <1>6, <2>1, Zenon
  <2>4. /\ redirTable'[g][l] = [redirTable[g][l] EXCEPT ![half] = a.val]
        /\ \A k \in Line : k # l => redirTable'[g][k] = redirTable[g][k]
    BY <2>2, <2>3, Zenon
  <2>5. \A half2 \in {"top", "bottom"} :
          redirTable'[g][l][half2] = IF half2 = half THEN a.val ELSE redirTable[g][l][half2]
    BY <2>2, <2>4, Zenon DEF Entry
  <2> QED BY <2>3, <2>4, <2>5, Zenon
<1>8. IER' = IER /\ LCR' = LCR
  BY DEF uartVars
<1>9. ~Enables(s, n) /\ (Opened(g)' <=> Opened(g))
  BY <1>e, Zenon DEF Enables
<1>10. Along(g)'
  <2>1. made'[g] <= Len(scenario'.setup[g]) /\ scenario'.setup[g] = s /\ s[n].op # "select"
    BY <1>d, <1>e, Zenon
  <2>2. ~Has(g, "bottom", TimerLine)' => redirTable'[g][TimerLine]["bottom"].mask
    <3>1. TimerLine \in Line
      BY IoApicAssumption
    <3>2. ASSUME ~Has(g, "bottom", TimerLine)'
          PROVE  redirTable'[g][TimerLine]["bottom"].mask
      <4>1. ~Has(g, "bottom", TimerLine) /\ ~("bottom" = half /\ TimerLine = l)
        BY <1>e, <1>4, <3>1, <3>2, Zenon
      <4>2. redirTable'[g][TimerLine]["bottom"] = redirTable[g][TimerLine]["bottom"]
        BY <1>7, <3>1, <4>1, Zenon
      <4> QED BY <1>a, <4>1, <4>2, Zenon DEF Along
    <3> QED BY <3>2, Zenon
  <2>3. ASSUME NEW k \in Line, NEW half2 \in {"top", "bottom"}, Has(g, half2, k)'
        PROVE  redirTable'[g][k][half2] = Wanted[g][k][half2]
    <3>1. CASE half2 = half /\ k = l
      BY <1>1, <1>7, <3>1, Zenon
    <3>2. CASE ~(half2 = half /\ k = l)
      <4>1. Has(g, half2, k)
        BY <1>e, <1>4, <2>3, <3>2, Zenon
      <4> QED BY <1>a, <1>7, <3>2, <4>1 DEF Along
    <3> QED BY <3>1, <3>2, Zenon
  <2>4. (IER'[g] # {} => On(g)') /\ (LCR'[g] => Opened(g)')
    BY <1>a, <1>e, <1>8, <1>9, Zenon DEF Along
  <2> QED BY <1>e, <2>1, <2>2, <2>3, <2>4, Zenon DEF Along
<1> QED BY <1>a, Elsewhere, <1>5, <1>6, <1>7, <1>8, <1>10, Zenon DEF SetupMoved

(* Opening and closing the divisor latch.                                    *)
LEMMA Latches ==
  ASSUME CInv, NEW g \in Guest, NEW s, NEW n, NEW a, a = s[n], Access(g, s, n),
         a.op = "lcr", writeLCR(g, a.val), UNCHANGED ioapicVars
  PROVE  SetupMoved(g)
<1>a. IInv /\ IoApicTypeOK /\ Started /\ Along(g)
  BY DEF CInv, Started
<1>b. /\ Len(s) \in Nat /\ Orderly(g, s) /\ made[g] \in Nat /\ s = scenario.setup[g]
  BY <1>a, Accessed, Zenon
<1>c. made' = [made EXCEPT ![g] = @ + 1] /\ scenario' = scenario /\ n = made[g] + 1
  BY <1>a, Accessed
<1>d. n \in 1..Len(s) /\ n \in Nat /\ n <= Len(s)
  BY <1>a, Accessed, Zenon
<1>e. /\ made'[g] = n /\ scenario'.setup[g] = s
      /\ \A half, l : Has(g, half, l)' <=> Has(g, half, l) \/ Programs(s, n, half, l)
      /\ On(g)' <=> On(g) \/ Enables(s, n)
      /\ s[n].op # "lcr" => (Opened(g)' <=> Opened(g))
  BY <1>a, Accessed
<1>1. a.val \in BOOLEAN /\ ~Enables(s, n) /\ \A half, l : ~Programs(s, n, half, l)
  BY <1>b, <1>d, Zenon DEF Orderly, Programs, Enables
<1>2. redirTable' = redirTable /\ pinStates' = pinStates /\ msgs' = msgs /\ regSel' = regSel
  BY DEF ioapicVars
<1>3. UartNext
  BY <1>1 DEF UartNext
<1>4. /\ IER' = IER /\ LCR'[g] = a.val
      /\ \A h \in Guest : h # g => LCR'[h] = LCR[h]
  BY <1>a, Zenon DEF writeLCR, IInv, UartTypeOK
<1>5. scenario'.setup[g] = s /\ s[n] = a /\ made'[g] = n
  BY <1>c, <1>e, Zenon
<1>6. LCR'[g] => Opened(g)'
  <2>1. ASSUME LCR'[g] PROVE Opened(g)'
    <3>1. s[n].op = "lcr" /\ s[n].val /\ n \in 1..n /\ \A k \in 1..n : k <= n
      BY <1>d, <1>4, <1>5, <2>1
    <3> QED BY <1>5, <3>1 DEF Opened
  <2> QED BY <2>1
<1>7. Along(g)'
  <2>1. made'[g] <= Len(scenario'.setup[g]) /\ s[n].op # "select"
    BY <1>d, <1>5
  <2>2. ~Has(g, "bottom", TimerLine)' => redirTable'[g][TimerLine].bottom.mask
    BY <1>a, <1>e, <1>1, <1>2, Zenon DEF Along
  <2>3. \A l \in Line, half \in {"top", "bottom"} :
          Has(g, half, l)' => redirTable'[g][l][half] = Wanted[g][l][half]
    BY <1>a, <1>e, <1>1, <1>2, Zenon DEF Along
  <2>4. IER'[g] # {} => On(g)'
    BY <1>a, <1>e, <1>4, Zenon DEF Along
  <2> QED BY <1>5, <1>6, <2>1, <2>2, <2>3, <2>4, Zenon DEF Along
<1> QED BY <1>a, Elsewhere, <1>2, <1>3, <1>4, <1>7, Zenon DEF SetupMoved

(* The console's entry is programmed when interrupts are enabled.            *)
LEMMA EnabledLate ==
  ASSUME Started, NEW g \in Guest, NEW s, NEW n, Access(g, s, n), Enables(s, n)
  PROVE  Has(g, "bottom", ConsoleLine)
<1>1. /\ Orderly(g, s) /\ made[g] \in Nat /\ s = scenario.setup[g]
      /\ n = made[g] + 1 /\ n \in 1..Len(s) /\ n \in Nat
  BY Accessed
<1>2. PICK i \in 1..n : Programs(s, i, "bottom", ConsoleLine)
  BY <1>1, Zenon DEF Orderly
<1>3. i # n
  BY <1>2 DEF Programs, Enables
<1>4. i \in 1..made[g]
  BY <1>1, <1>3
<1> QED BY <1>1, <1>2, <1>4, Zenon DEF Has

(* Enabling interrupts of the port.                                          *)
LEMMA EnablesPort ==
  ASSUME CInv, NEW g \in Guest, NEW s, NEW n, NEW a, a = s[n], Access(g, s, n),
         a.op = "ier", \E post \in BOOLEAN : writeIER(g, a.val, post) /\ Posts(g, post)
  PROVE  SetupMoved(g)
<1>a. IInv /\ IoApicTypeOK /\ Started /\ Along(g)
  BY DEF CInv, Started
<1>b. /\ Len(s) \in Nat /\ Orderly(g, s) /\ made[g] \in Nat /\ s = scenario.setup[g]
  BY <1>a, Accessed, Zenon
<1>c. made' = [made EXCEPT ![g] = @ + 1] /\ scenario' = scenario /\ n = made[g] + 1
  BY <1>a, Accessed
<1>d. n \in 1..Len(s) /\ n \in Nat /\ n <= Len(s)
  BY <1>a, Accessed, Zenon
<1>e. /\ made'[g] = n /\ scenario'.setup[g] = s
      /\ \A half, l : Has(g, half, l)' <=> Has(g, half, l) \/ Programs(s, n, half, l)
      /\ On(g)' <=> On(g) \/ Enables(s, n)
      /\ s[n].op # "lcr" => (Opened(g)' <=> Opened(g))
  BY <1>a, Accessed
<1>1. PICK post \in BOOLEAN : writeIER(g, a.val, post) /\ Posts(g, post)
  OBVIOUS
<1>2. a.val \in SUBSET Bit /\ \A half, l : ~Programs(s, n, half, l)
  <2>1. a.val \in SUBSET Bit
    BY <1>a, Written, Zenon
  <2> QED BY <2>1 DEF Programs
<1>3. a.val # {} => Enables(s, n)
  BY DEF Enables
<1>4. Enables(s, n) => Has(g, "bottom", ConsoleLine)
  BY <1>a, EnabledLate
<1>5. post => "TX" \in a.val
  BY <1>1, Zenon DEF writeIER
<1>6. /\ redirTable' = redirTable /\ regSel' = regSel /\ pinStates' = pinStates
      /\ post => postConsoleInt(g) /\ Adds(g, ConsoleVector[g]) /\ ConsoleVector[g] \in Vector
      /\ ~post => ioapicVars' = ioapicVars
  BY <1>a, <1>1, <1>3, <1>4, <1>5, PostAdds, Zenon
<1>7. UartNext
  BY <1>1, <1>2, Zenon DEF UartNext
<1>8. /\ IoApicNext \/ ioapicVars' = ioapicVars
      /\ msgs' = msgs \/ (Adds(g, ConsoleVector[g]) /\ ConsoleVector[g] \in Vector)
  BY <1>6, Zenon DEF IoApicNext, ioapicVars
<1>9. /\ LCR' = LCR /\ IER'[g] \in {IER[g], a.val}
      /\ \A h \in Guest : h # g => IER'[h] = IER[h]
  BY <1>a, <1>1, Zenon DEF writeIER, IInv, UartTypeOK
<1>10. scenario'.setup[g] = s /\ s[n] = a /\ made'[g] = n
  BY <1>c, <1>e, Zenon
<1>11. Opened(g)' <=> Opened(g)
  BY <1>e
<1>12. Along(g)'
  <2>1. made'[g] <= Len(scenario'.setup[g]) /\ s[n].op # "select"
    BY <1>d, <1>10
  <2>2. ~Has(g, "bottom", TimerLine)' => redirTable'[g][TimerLine].bottom.mask
    BY <1>a, <1>e, <1>2, <1>6, Zenon DEF Along
  <2>3. \A l \in Line, half \in {"top", "bottom"} :
          Has(g, half, l)' => redirTable'[g][l][half] = Wanted[g][l][half]
    BY <1>a, <1>e, <1>2, <1>6, Zenon DEF Along
  <2>4. IER'[g] # {} => On(g)'
    BY <1>a, <1>e, <1>3, <1>9, Zenon DEF Along
  <2>5. LCR'[g] => Opened(g)'
    BY <1>a, <1>9, <1>11, Zenon DEF Along
  <2> QED BY <1>10, <2>1, <2>2, <2>3, <2>4, <2>5, Zenon DEF Along
<1> QED BY <1>a, Elsewhere, <1>6, <1>7, <1>8, <1>9, <1>12, Zenon DEF SetupMoved

(* The accesses of the setup.                                                *)
LEMMA SetupSteps ==
  ASSUME CInv, NEW g \in Guest, Setup(g)
  PROVE  SetupMoved(g)
<1>1. PICK s, n, a : s = scenario.setup[g] /\ n = made[g] + 1 /\ a = s[n]
  OBVIOUS
<1>2. /\ made' = [made EXCEPT ![g] = @ + 1] /\ scenario' = scenario /\ made[g] # Len(s)
      /\ \/ a.op = "select" /\ writeRegSel(g, a.val) /\ UNCHANGED uartVars
         \/ a.op = "window" /\ writeReg(g, a.val) /\ UNCHANGED uartVars
         \/ a.op = "lcr" /\ writeLCR(g, a.val) /\ UNCHANGED ioapicVars
         \/ a.op = "ier" /\ \E post \in BOOLEAN : writeIER(g, a.val, post) /\ Posts(g, post)
  BY <1>1, Zenon DEF Setup, Ready
<1>3. Access(g, s, n) /\ a = s[n]
  BY <1>1, <1>2, Zenon DEF Access
<1> QED BY <1>2, <1>3, Selects, Windows, Latches, EnablesPort, Zenon

(* Software that has enabled an interrupt of its port has set the port up.   *)
LEMMA EnabledPort ==
  ASSUME Started, NEW g \in Guest, IER[g] # {}
  PROVE  On(g) /\ Has(g, "bottom", ConsoleLine) /\ ~LCR[g]
<1>1. On(g)
  BY Zenon DEF Started, Along
<1> QED BY <1>1, EnabledLast

(* Software that is ready and has something to write, too.                   *)
LEMMA WriterPort ==
  ASSUME Started, NEW g \in Guest, Ready(g), written[g] \in Nat, written[g] < scenario.writes[g]
  PROVE  On(g) /\ Has(g, "bottom", ConsoleLine) /\ ~LCR[g]
<1>1. scenario.writes[g] \in Nat /\ scenario.writes[g] > 0
  BY Setups
<1>2. \E j \in 1..Len(scenario.setup[g]) : Enables(scenario.setup[g], j)
  BY <1>1, Setups, Zenon
<1>3. On(g)
  BY <1>2 DEF On, Ready
<1> QED BY <1>3, EnabledLast

\* What a step is to the components, and to the messages on their way.
Sent == msgs' = msgs \/ \E g \in Guest, v \in Vector : Adds(g, v)
Mail == Sent \/ \E c \in Cpu : Arrives(c)
Moved == /\ UartNext \/ uartVars' = uartVars
         /\ IoApicNext \/ ioapicVars' = ioapicVars
         /\ LocalApicNext \/ lapicVars' = lapicVars
         /\ Mail
         /\ Started'

(* A step of the port that may interrupt, by a port that is set up.          *)
LEMMA PostMoves ==
  ASSUME CInv, NEW g \in Guest, NEW post \in BOOLEAN, Posts(g, post),
         post => Has(g, "bottom", ConsoleLine),
         UartNext, UNCHANGED <<lapicVars, scenario, made, LCR>>,
         \A h \in Guest : IER'[h] = IER[h] \/ On(h)
  PROVE  Moved /\ Sent /\ (post => Adds(g, ConsoleVector[g]))
<1>1. IoApicTypeOK /\ Started
  BY DEF CInv
<1>2. /\ redirTable' = redirTable /\ regSel' = regSel /\ pinStates' = pinStates
      /\ post => postConsoleInt(g) /\ Adds(g, ConsoleVector[g]) /\ ConsoleVector[g] \in Vector
      /\ ~post => ioapicVars' = ioapicVars
  BY <1>1, PostAdds, Zenon
<1>3. IoApicNext \/ ioapicVars' = ioapicVars
  BY <1>2, Zenon DEF IoApicNext
<1>4. Sent
  BY <1>2 DEF Sent, ioapicVars
<1>5. Started'
  BY <1>1, <1>2, SetupStays, Zenon
<1>6. lapicVars' = lapicVars
  OBVIOUS
<1> QED BY <1>2, <1>3, <1>4, <1>5, <1>6, Zenon DEF Moved, Mail

(* A step that leaves the I/O APIC, the latches and what is enabled.         *)
LEMMA CalmMoves ==
  ASSUME CInv, UNCHANGED <<ioapicVars, scenario, made, LCR, IER>>,
         UartNext \/ uartVars' = uartVars, LocalApicNext \/ lapicVars' = lapicVars
  PROVE  Moved /\ Sent
<1>1. /\ redirTable' = redirTable /\ regSel' = regSel /\ pinStates' = pinStates /\ msgs' = msgs
      /\ scenario' = scenario /\ made' = made /\ LCR' = LCR /\ IER' = IER
      /\ ioapicVars' = ioapicVars
  BY DEF ioapicVars
<1>2. Started'
  BY <1>1, SetupStays, Zenon DEF CInv
<1> QED BY <1>1, <1>2 DEF Moved, Mail, Sent

(* Software enables and disables, the host types, and events fire.           *)
LEMMA PortMoves ==
  ASSUME CInv, NEW g \in Guest,
         Setup(g) \/ Writes(g) \/ (\E n \in 1..BufLen : Types(g, n))
           \/ (\E e \in Bit : Fires(g, e)) \/ Elapses(g)
  PROVE  Moved /\ Sent
<1>0. IInv /\ IoApicTypeOK /\ Started /\ written[g] \in Nat
  BY DEF CInv, Driver
<1>a. IER \in [Guest -> SUBSET Bit]
  BY <1>0 DEF IInv, UartTypeOK
<1>1. CASE Setup(g)
  <2>1. /\ UartNext \/ uartVars' = uartVars
        /\ IoApicNext \/ ioapicVars' = ioapicVars
        /\ msgs' = msgs \/ (Adds(g, ConsoleVector[g]) /\ ConsoleVector[g] \in Vector)
        /\ Started'
    BY <1>1, SetupSteps DEF SetupMoved
  <2>2. lapicVars' = lapicVars
    BY <1>1, Zenon DEF Setup
  <2>3. Sent
    BY <2>1 DEF Sent
  <2> QED BY <2>1, <2>2, <2>3 DEF Moved, Mail
<1>2. CASE Writes(g)
  <2>1. /\ Ready(g) /\ written[g] < scenario.writes[g]
        /\ UNCHANGED <<lapicVars, scenario, made>>
    BY <1>2, Zenon DEF Writes
  <2>2. On(g) /\ Has(g, "bottom", ConsoleLine)
    BY <1>0, <2>1, WriterPort
  <2>3. CASE UNCHANGED <<uartVars, ioapicVars>>
    BY <2>1, <2>3, CalmMoves, Zenon DEF uartVars
  <2>4. CASE \E post \in BOOLEAN : writeIER(g, IER[g] \cup {"TX"}, post) /\ Posts(g, post)
    <3>1. PICK post \in BOOLEAN : writeIER(g, IER[g] \cup {"TX"}, post) /\ Posts(g, post)
      BY <2>4
    <3>2. IER[g] \cup {"TX"} \in SUBSET Bit
      BY <1>a DEF Bit
    <3>3. UartNext
      BY <3>1, <3>2 DEF UartNext
    <3>4. LCR' = LCR /\ \A h \in Guest : h # g => IER'[h] = IER[h]
      BY <1>a, <3>1, Zenon DEF writeIER
    <3> QED BY <2>1, <2>2, <3>1, <3>3, <3>4, PostMoves, Zenon
  <2> QED BY <1>2, <2>3, <2>4, Zenon DEF Writes
<1>3. CASE \E n \in 1..BufLen : Types(g, n)
  <2>1. PICK n \in 1..BufLen, post \in BOOLEAN :
          /\ dataAvailable(g, n, post) /\ Posts(g, post)
          /\ UNCHANGED <<lapicVars, scenario, made>>
    BY <1>3, Zenon DEF Types
  <2>2. UartNext
    BY <2>1 DEF UartNext
  <2>3. LCR' = LCR /\ IER' = IER /\ (post => IER[g] # {})
    BY <2>1, Zenon DEF dataAvailable
  <2>4. post => Has(g, "bottom", ConsoleLine)
    BY <1>0, <2>3, EnabledPort
  <2> QED BY <2>1, <2>2, <2>3, <2>4, PostMoves, Zenon
<1>4. CASE \E e \in Bit : Fires(g, e)
  <2>1. PICK e \in Bit, post \in BOOLEAN :
          /\ process(g, e, post) /\ Posts(g, post) /\ UNCHANGED <<lapicVars, scenario, made>>
    BY <1>4, Zenon DEF Fires, driverVars, scenarioVars
  <2>2. UartNext
    BY <2>1 DEF UartNext
  <2>3. LCR' = LCR /\ IER' = IER /\ (post => IER[g] # {})
    BY <2>1, Zenon DEF process
  <2>4. post => Has(g, "bottom", ConsoleLine)
    BY <1>0, <2>3, EnabledPort
  <2> QED BY <2>1, <2>2, <2>3, <2>4, PostMoves, Zenon
<1>5. CASE Elapses(g)
  <2>1. Quiet(g) /\ UNCHANGED <<ioapicVars, lapicVars, scenario, made>>
    BY <1>5 DEF Elapses, driverVars, scenarioVars
  <2>2. UartNext /\ LCR' = LCR /\ IER' = IER
    BY <2>1, Zenon DEF UartNext, Quiet
  <2> QED BY <2>1, <2>2, CalmMoves
<1> QED BY <1>1, <1>2, <1>3, <1>4, <1>5

(* The timers.                                                               *)
LEMMA TickMoves ==
  ASSUME CInv, NEW g \in Guest, Ticks(g)
  PROVE  Moved /\ Sent /\ (~Masked(g, TimerLine) => \E v \in Vector : Adds(g, v))
<1>0. IoApicTypeOK /\ Started
  BY DEF CInv
<1>1. /\ counterInterrupt(g) /\ UNCHANGED <<uartVars, lapicVars, scenario, made>>
  BY DEF Ticks
<1>2. TimerLine \in Line /\ pinStates \in [Line -> BOOLEAN] /\ pinStates[TimerLine] = FALSE
  BY <1>0, IoApicAssumption DEF IoApicTypeOK, Started
<1>3. /\ signalInterrupt(g, TimerLine) /\ redirTable' = redirTable /\ regSel' = regSel
      /\ pinStates' = pinStates
  BY <1>1, <1>2 DEF counterInterrupt
<1>4. Started'
  BY <1>0, <1>1, <1>3, SetupStays DEF uartVars
<1>5. msgs' = msgs \/ \E v \in Vector : Adds(g, v)
  <2>1. CASE Has(g, "bottom", TimerLine)
    BY <1>0, <1>3, <2>1, SignalAdds, Zenon
  <2>2. CASE ~Has(g, "bottom", TimerLine)
    <3>1. Masked(g, TimerLine)
      BY <1>0, <2>2, Zenon DEF Started, Along, Masked
    <3> QED BY <1>3, <3>1, Zenon DEF signalInterrupt
  <2> QED BY <2>1, <2>2
<1>6. ~Masked(g, TimerLine) => \E v \in Vector : Adds(g, v)
  <2>1. ASSUME ~Masked(g, TimerLine) PROVE \E v \in Vector : Adds(g, v)
    <3>1. Has(g, "bottom", TimerLine)
      BY <1>0, <2>1, Zenon DEF Started, Along, Masked
    <3> QED BY <1>0, <1>3, <3>1, SignalAdds, Zenon
  <2> QED BY <2>1
<1>7. IoApicNext
  BY <1>1 DEF IoApicNext
<1>8. uartVars' = uartVars /\ lapicVars' = lapicVars
  BY <1>1
<1> QED BY <1>4, <1>5, <1>6, <1>7, <1>8 DEF Moved, Mail, Sent

(* A restart, and the processors.                                            *)
LEMMA ProcessorMoves ==
  ASSUME CInv, Restarts \/ \E c \in Cpu : Runs(c)
  PROVE  Moved
<1>0. IInv /\ IoApicTypeOK /\ Started /\ Home
  BY DEF CInv
<1>a. IER \in [Guest -> SUBSET Bit]
  BY <1>0 DEF IInv, UartTypeOK
<1>1. CASE Restarts
  <2>1. unserialize /\ UNCHANGED <<ioapicVars, lapicVars, scenario, made>>
    BY <1>1 DEF Restarts
  <2>2. UartNext /\ LCR' = LCR /\ IER' = IER
    BY <2>1 DEF UartNext, unserialize
  <2> QED BY <2>1, <2>2, CalmMoves
<1>2. ASSUME NEW c \in Cpu, Delivers(c) PROVE Moved
  <2>1. Arrives(c) /\ requestInterrupt(c, Head(msgs[c]).vector)
        /\ UNCHANGED <<uartVars, scenario, made>>
    BY <1>2 DEF Delivers, driverVars, scenarioVars
  <2>2. msgs[c] \in Seq(Message) /\ msgs[c] # <<>>
    BY <1>0, <2>1, Zenon DEF IoApicTypeOK, Arrives
  <2>3. 1 \in 1..Len(msgs[c]) /\ Head(msgs[c]) = msgs[c][1]
    BY <2>2
  <2>4. Head(msgs[c]).vector \in Vector
    BY <1>0, <2>3 DEF Home
  <2>5. IoApicNext /\ LocalApicNext
    BY <2>1, <2>4, Zenon DEF IoApicNext, LocalApicNext
  <2>6. /\ redirTable' = redirTable /\ regSel' = regSel /\ pinStates' = pinStates
        /\ scenario' = scenario /\ made' = made /\ LCR' = LCR /\ IER' = IER /\ uartVars' = uartVars
    BY <2>1 DEF Arrives, uartVars
  <2>7. Started'
    BY <1>0, <2>6, SetupStays
  <2> QED BY <2>1, <2>5, <2>6, <2>7 DEF Moved, Mail
<1>3. ASSUME NEW c \in Cpu, Takes(c) PROVE Moved
  <2>1. checkInterrupts(c) /\ updateIntrInfo(c) /\ UNCHANGED <<uartVars, ioapicVars, scenario, made>>
    BY <1>3, Zenon DEF Takes, scenarioVars
  <2>2. LocalApicNext /\ LCR' = LCR /\ IER' = IER
    BY <2>1 DEF LocalApicNext, uartVars
  <2> QED BY <2>1, <2>2, CalmMoves
<1>4. ASSUME NEW c \in Cpu, NEW id \in {"RX", "TX", "NOPEND"}, Identifies(c, id) PROVE Moved
  <2>1. readIIR(QR0[c], id) /\ UNCHANGED <<ioapicVars, lapicVars, scenario, made>>
    BY <1>4, Zenon DEF Identifies, scenarioVars
  <2>2. QR0[c] \in Guest /\ id \in Bit \cup {"NOPEND"}
    BY LDomsAssumption DEF Bit
  <2>3. UartNext /\ LCR' = LCR /\ IER' = IER
    BY <2>1, <2>2, Zenon DEF UartNext, readIIR
  <2> QED BY <2>1, <2>3, CalmMoves
<1>5. ASSUME NEW c \in Cpu, Serves(c) PROVE Moved
  <2> DEFINE g == QR0[c]
  <2>1. g \in Guest
    BY LDomsAssumption
  <2>2. UNCHANGED <<lapicVars, scenario, made>>
    BY <1>5, Zenon DEF Serves, scenarioVars
  <2>3. CASE (\E dr \in BOOLEAN : readLSR(g, dr)) /\ UNCHANGED ioapicVars
    <3>1. uartVars' = uartVars /\ LCR' = LCR /\ IER' = IER
      BY <2>3 DEF readLSR, uartVars
    <3> QED BY <2>2, <2>3, <3>1, CalmMoves
  <2>4. CASE readRBR(g) /\ UNCHANGED ioapicVars
    <3>1. UartNext /\ LCR' = LCR /\ IER' = IER
      BY <2>1, <2>4, Zenon DEF UartNext, readRBR
    <3> QED BY <2>2, <2>4, <3>1, CalmMoves
  <2>5. CASE writeTHR(g) /\ UNCHANGED ioapicVars
    <3>1. UartNext /\ LCR' = LCR /\ IER' = IER
      BY <2>1, <2>5, Zenon DEF UartNext, writeTHR
    <3> QED BY <2>2, <2>5, <3>1, CalmMoves
  <2>6. CASE UNCHANGED <<uartVars, ioapicVars>>
    <3>1. uartVars' = uartVars /\ LCR' = LCR /\ IER' = IER
      BY <2>6 DEF uartVars
    <3> QED BY <2>2, <2>6, <3>1, CalmMoves
  <2>7. CASE "TX" \in IER[g] /\
             \E post \in BOOLEAN : writeIER(g, IER[g] \ {"TX"}, post) /\ Posts(g, post)
    <3>1. PICK post \in BOOLEAN : writeIER(g, IER[g] \ {"TX"}, post) /\ Posts(g, post)
      BY <2>7
    <3>2. IER[g] \ {"TX"} \in SUBSET Bit /\ IER[g] # {}
      BY <1>a, <2>1, <2>7
    <3>3. UartNext
      BY <2>1, <3>1, <3>2, Zenon DEF UartNext
    <3>4. LCR' = LCR /\ \A h \in Guest : h # g => IER'[h] = IER[h]
      BY <1>a, <3>1, Zenon DEF writeIER
    <3>5. On(g) /\ Has(g, "bottom", ConsoleLine)
      BY <1>0, <2>1, <3>2, EnabledPort
    <3> HIDE DEF g
    <3> QED BY <2>1, <2>2, <3>1, <3>3, <3>4, <3>5, PostMoves, Zenon
  <2>8. \/ (\E dr \in BOOLEAN : readLSR(g, dr)) /\ UNCHANGED ioapicVars
        \/ readRBR(g) /\ UNCHANGED ioapicVars
        \/ writeTHR(g) /\ UNCHANGED ioapicVars
        \/ UNCHANGED <<uartVars, ioapicVars>>
        \/ "TX" \in IER[g] /\
             \E post \in BOOLEAN : writeIER(g, IER[g] \ {"TX"}, post) /\ Posts(g, post)
    BY <1>5, Zenon DEF Serves
  <2> HIDE DEF g
  <2> QED BY <2>3, <2>4, <2>5, <2>6, <2>7, <2>8, Zenon
<1>6. ASSUME NEW c \in Cpu, Ends(c) PROVE Moved
  <2>1. EOI(c) /\ UNCHANGED <<uartVars, ioapicVars, scenario, made>>
    BY <1>6 DEF Ends, scenarioVars
  <2>2. LocalApicNext /\ LCR' = LCR /\ IER' = IER
    BY <2>1 DEF LocalApicNext, uartVars
  <2> QED BY <2>1, <2>2, CalmMoves
<1> QED BY <1>1, <1>2, <1>3, <1>4, <1>5, <1>6 DEF Runs, Handles

(* Every step of the machine is, to each component, a step of its own.       *)
LEMMA Moves == ASSUME CInv, Next PROVE Moved
BY PortMoves, TickMoves, ProcessorMoves DEF Next

(* What is on its way stays home.                                            *)
LEMMA MailHome ==
  ASSUME Home, Mail, msgs \in [Cpu -> Seq(Message)]
  PROVE  Home'
<1>1. CASE msgs' = msgs
  BY <1>1 DEF Home
<1>2. ASSUME NEW g \in Guest, NEW v \in Vector, Adds(g, v) PROVE Home'
  <2> SUFFICES ASSUME NEW c \in Cpu, NEW i \in 1..Len(msgs'[c])
               PROVE  msgs'[c][i].guest = QR0[c] /\ msgs'[c][i].vector \in Vector
    BY Zenon DEF Home
  <2>1. CASE i <= Len(msgs[c])
    <3>1. msgs[c] \in Seq(Message) /\ i \in 1..Len(msgs[c])
      BY <1>2, <2>1 DEF Adds
    <3>2. msgs'[c][i] = msgs[c][i]
      BY <1>2, <3>1, Zenon DEF Adds
    <3> QED BY <3>1, <3>2 DEF Home
  <2>2. CASE ~(i <= Len(msgs[c]))
    BY <1>2, <2>2, Zenon DEF Adds
  <2> QED BY <2>1, <2>2, Zenon
<1>3. ASSUME NEW d \in Cpu, Arrives(d) PROVE Home'
  <2> SUFFICES ASSUME NEW c \in Cpu, NEW i \in 1..Len(msgs'[c])
               PROVE  msgs'[c][i].guest = QR0[c] /\ msgs'[c][i].vector \in Vector
    BY Zenon DEF Home
  <2>1. CASE c = d
    <3>1. msgs[c] \in Seq(Message) /\ msgs[c] # <<>> /\ msgs'[c] = Tail(msgs[c])
      BY <1>3, <2>1 DEF Arrives
    <3>2. i + 1 \in 1..Len(msgs[c]) /\ msgs'[c][i] = msgs[c][i + 1]
      BY <3>1
    <3> QED BY <3>2 DEF Home
  <2>2. CASE c # d
    <3>1. msgs'[c] = msgs[c]
      BY <1>3, <2>2 DEF Arrives
    <3> QED BY <3>1 DEF Home
  <2> QED BY <2>1, <2>2, Zenon
<1> QED BY <1>1, <1>2, <1>3 DEF Mail, Sent

(* The components' own invariants, and the setup and the messages.           *)
LEMMA PartsKept ==
  ASSUME CInv, Next
  PROVE  IInv' /\ IoApicTypeOK' /\ LInv' /\ Started' /\ Home'
<1>1. Moved /\ IInv /\ IoApicTypeOK /\ LInv /\ Home
  BY Moves DEF CInv
<1>2. IInv'
  BY <1>1, Inductive DEF Moved
<1>3. IoApicTypeOK'
  BY <1>1, StepHome, Zenon DEF Moved, IoApicTypeOK, ioapicVars
<1>4. LInv'
  <2>1. CASE LocalApicNext
    BY <1>1, <2>1, RequestKeeps, TakeKeeps, EOIKeeps DEF LocalApicNext
  <2>2. CASE lapicVars' = lapicVars
    BY <1>1, <2>2 DEF LInv, LocalApicTypeOK, HighestExact, lapicVars
  <2> QED BY <1>1, <2>1, <2>2 DEF Moved
<1>5. Home'
  BY <1>1, MailHome DEF Moved, IoApicTypeOK
<1> QED BY <1>1, <1>2, <1>3, <1>4, <1>5 DEF Moved

(* A handler in front of a sequence of them.                                 *)
LEMMA InFront ==
  ASSUME NEW s \in Seq(Handler), NEW h \in Handler
  PROVE  /\ <<h>> \o s \in Seq(Handler) /\ Len(<<h>> \o s) = Len(s) + 1
         /\ (<<h>> \o s)[1] = h /\ \A i \in 1..Len(s) : (<<h>> \o s)[i + 1] = s[i]
<1>1. <<h>> \in Seq(Handler) /\ Len(<<h>>) = 1 /\ <<h>>[1] = h
  OBVIOUS
<1>2. PICK t : t = <<h>> \o s
  BY Zenon
<1>3. /\ t \in Seq(Handler) /\ Len(t) = 1 + Len(s)
      /\ \A i \in 1..1 + Len(s) : t[i] = IF i <= 1 THEN <<h>>[i] ELSE s[i - 1]
  BY <1>1, <1>2
<1>4. PICK n \in Nat : n = Len(s)
  OBVIOUS
<1>5. \A i \in 1..n : i + 1 \in 1..1 + n /\ ~(i + 1 <= 1) /\ (i + 1) - 1 = i
  BY <1>4
<1>6. 1 \in 1..1 + n
  BY <1>4
<1>7. t[1] = h /\ \A i \in 1..n : t[i + 1] = s[i]
  BY ONLY <1>1, <1>3, <1>4, <1>5, <1>6
<1>8. Len(t) = n + 1
  BY <1>3, <1>4
<1> QED BY ONLY <1>2, <1>3, <1>4, <1>7, <1>8

(* A processor enters a handler above all those it is in.                    *)
LEMMA Entered ==
  ASSUME NEW s \in Seq(Handler), NEW set \in SUBSET Vector, Nest(s, set),
         NEW h \in Handler, \A w \in set : h.vector > w,
         NEW t \in Seq(Handler), Len(t) = Len(s) + 1, t[1] = h,
         \A i \in 1..Len(s) : t[i + 1] = s[i]
  PROVE  Nest(t, set \cup {h.vector})
<1>1. PICK n \in Nat : n = Len(s)
  OBVIOUS
<1>2. /\ Len(t) = n + 1 /\ t[1] = h
      /\ \A i \in 1..n : t[i + 1] = s[i]
  BY <1>1
<1>3. \A i \in 1..n : t[i + 1] = s[i]
  BY <1>2
<1>4. \A i \in 2..n + 1 : i - 1 \in 1..n /\ t[i] = s[i - 1]
  <2>1. \A i \in 2..n + 1 : i - 1 \in 1..n /\ (i - 1) + 1 = i
    BY <1>1
  <2> QED BY <1>2, <2>1
<1>5. set \cup {h.vector} = {t[i].vector : i \in 1..n + 1}
  <2>1. ASSUME NEW w \in set PROVE \E i \in 1..n + 1 : w = t[i].vector
    <3>1. PICK j \in 1..n : w = s[j].vector
      BY <1>1 DEF Nest
    <3>2. j + 1 \in 1..n + 1 /\ t[j + 1] = s[j]
      BY <1>1, <1>3
    <3> QED BY <3>1, <3>2
  <2>2. 1 \in 1..n + 1 /\ t[1].vector = h.vector
    BY <1>1, <1>2
  <2>3. ASSUME NEW i \in 1..n + 1 PROVE t[i].vector \in set \cup {h.vector}
    <3>1. CASE i = 1
      BY <2>2, <3>1
    <3>2. CASE i # 1
      <4>1. i - 1 \in 1..n /\ t[i] = s[i - 1]
        BY <1>1, <1>4, <3>2
      <4>2. s[i - 1].vector \in set
        BY <1>1, <4>1, Zenon DEF Nest
      <4> QED BY <4>1, <4>2
    <3> QED BY <3>1, <3>2
  <2> QED BY <2>1, <2>2, <2>3
<1>6. ASSUME NEW i \in 1..n + 1, NEW j \in 1..n + 1, i < j PROVE t[i].vector > t[j].vector
  <2>1. j - 1 \in 1..n /\ t[j] = s[j - 1]
    BY <1>4, <1>6
  <2>2. s[j - 1].vector \in set
    BY <1>1, <2>1, Zenon DEF Nest
  <2>3. CASE i = 1
    BY <1>2, <2>1, <2>2, <2>3
  <2>4. CASE i # 1
    <3>1. i - 1 \in 1..n /\ t[i] = s[i - 1] /\ i - 1 < j - 1
      BY <1>4, <1>6, <2>4
    <3>2. s[i - 1].vector > s[j - 1].vector
      BY <1>1, <2>1, <3>1, Zenon DEF Nest
    <3> QED BY <2>1, <3>1, <3>2, Zenon
  <2> QED BY <2>3, <2>4
<1> QED BY <1>2, <1>5, <1>6, Zenon DEF Nest

(* The innermost handler ends.                                               *)
LEMMA Left ==
  ASSUME NEW s \in Seq(Handler), s # <<>>, NEW set, Nest(s, set)
  PROVE  /\ Tail(s) \in Seq(Handler) /\ Nest(Tail(s), set \ {s[1].vector})
         /\ Len(Tail(s)) = Len(s) - 1 /\ \A i \in 1..Len(s) - 1 : Tail(s)[i] = s[i + 1]
<1> DEFINE t == Tail(s)
<1>1. PICK n \in Nat : n + 1 = Len(s)
  <2>1. Len(s) \in Nat /\ Len(s) # 0
    OBVIOUS
  <2>2. Len(s) - 1 \in Nat /\ (Len(s) - 1) + 1 = Len(s)
    BY <2>1
  <2> QED BY <2>2, Zenon
<1>2. t \in Seq(Handler) /\ Len(t) = n /\ \A i \in 1..n : t[i] = s[i + 1]
  BY <1>1
<1> HIDE DEF t
<1>3. /\ \A i \in 1..n + 1 : s[i].vector \in Nat
      /\ \A i, j \in 1..n + 1 : i < j => s[i].vector > s[j].vector
      /\ set = {s[i].vector : i \in 1..n + 1}
  <2>1. \A i \in 1..n + 1 : s[i] \in Handler
    BY <1>1
  <2>2. \A h \in Handler : h.vector \in Nat
    BY VectorNat, Zenon DEF Handler
  <2> QED BY <1>1, <2>1, <2>2, Zenon DEF Nest
<1>4. set \ {s[1].vector} = {t[i].vector : i \in 1..n}
  <2>1. ASSUME NEW w \in set, w # s[1].vector PROVE \E i \in 1..n : w = t[i].vector
    <3>1. PICK j \in 1..n + 1 : w = s[j].vector
      BY <1>3
    <3>2. j # 1
      BY <2>1, <3>1
    <3>3. j - 1 \in 1..n /\ (j - 1) + 1 = j
      BY <1>1, <3>2
    <3> QED BY <1>2, <3>1, <3>3, Zenon
  <2>2. ASSUME NEW i \in 1..n PROVE t[i].vector \in set /\ t[i].vector # s[1].vector
    <3>1. i + 1 \in 1..n + 1 /\ 1 \in 1..n + 1 /\ 1 < i + 1
      BY <1>1
    <3>2. s[1].vector > s[i + 1].vector /\ s[1].vector \in Nat /\ s[i + 1].vector \in Nat
      BY <1>3, <3>1, Zenon
    <3>3. s[1].vector # s[i + 1].vector
      BY <3>2
    <3> QED BY <1>2, <1>3, <3>1, <3>3, Zenon
  <2> QED BY <2>1, <2>2
<1>5. ASSUME NEW i \in 1..n, NEW j \in 1..n, i < j PROVE t[i].vector > t[j].vector
  <2>1. i + 1 \in 1..n + 1 /\ j + 1 \in 1..n + 1 /\ i + 1 < j + 1
    BY <1>1, <1>5
  <2> QED BY <1>2, <1>3, <2>1, Zenon
<1>6. Nest(t, set \ {s[1].vector})
  BY <1>2, <1>4, <1>5, Zenon DEF Nest
<1>7. Len(s) - 1 = n
  BY <1>1
<1> QED BY <1>2, <1>6, <1>7 DEF t

(* The innermost handler goes on, with the same vector.                      *)
LEMMA Rephased ==
  ASSUME NEW s \in Seq(Handler), NEW set, Nest(s, set), NEW t \in Seq(Handler), Len(t) = Len(s),
         t[1].vector = s[1].vector, \A i \in 1..Len(s) : i # 1 => t[i] = s[i]
  PROVE  Nest(t, set)
<1>1. \A i \in 1..Len(s) : t[i].vector = s[i].vector
  OBVIOUS
<1>2. {t[i].vector : i \in 1..Len(s)} = {s[i].vector : i \in 1..Len(s)}
  BY <1>1
<1>3. \A i, j \in 1..Len(s) : i < j => t[i].vector > t[j].vector
  BY <1>1 DEF Nest
<1> QED BY <1>2, <1>3, Zenon DEF Nest

(* The handler that a processor is in is that of ISRV.                       *)
LEMMA Innermost ==
  ASSUME LInv, Nested, NEW c \in Cpu
  PROVE  /\ stack[c] # <<>> => ISRV[c] = stack[c][1].vector
         /\ \A w \in isr[c] : w <= ISRV[c] /\ w \in Nat
         /\ ISRV[c] \in Nat
<1>1. /\ isr[c] \in SUBSET Vector /\ ISRV[c] = findRegArrayMSB(isr[c])
      /\ stack[c] \in Seq(Handler) /\ Nest(stack[c], isr[c])
  BY DEF LInv, LocalApicTypeOK, HighestExact, Nested
<1>2. ISRV[c] \in Nat /\ isr[c] \subseteq Nat
  <2>1. ISRV[c] \in Vector \cup {0} /\ 0 \in Nat
    BY DEF LInv, LocalApicTypeOK
  <2> QED BY <1>1, <2>1, VectorNat, Zenon
<1>3. \A w \in isr[c] : w <= ISRV[c]
  BY <1>1, MSB
<1>4. ASSUME stack[c] # <<>> PROVE ISRV[c] = stack[c][1].vector
  <2>1. Len(stack[c]) \in Nat /\ Len(stack[c]) # 0
    BY <1>1, <1>4
  <2>2. 1 \in 1..Len(stack[c]) /\ \A i \in 1..Len(stack[c]) : i = 1 \/ 1 < i
    BY <2>1
  <2>3. stack[c][1].vector \in isr[c]
    BY <1>1, <2>2, Zenon DEF Nest
  <2>4. \A w \in isr[c] : w <= stack[c][1].vector
    <3> SUFFICES ASSUME NEW w \in isr[c] PROVE w <= stack[c][1].vector
      OBVIOUS
    <3>1. PICK i \in 1..Len(stack[c]) : w = stack[c][i].vector
      BY <1>1, Zenon DEF Nest
    <3>2. w = stack[c][1].vector \/ stack[c][1].vector > w
      BY <1>1, <2>2, <3>1, Zenon DEF Nest
    <3>3. w \in Nat /\ stack[c][1].vector \in Nat
      BY <1>2, <2>3
    <3> QED BY <3>2, <3>3
  <2> QED BY <1>1, <2>3, <2>4, MSBUnique
<1> QED BY <1>2, <1>3, <1>4
=============================================================================
