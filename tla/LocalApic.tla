------------------------------ MODULE LocalApic -----------------------------
(***************************************************************************)
(* The part of the processors' local interrupt controllers that serves      *)
(* fixed and lowest-priority interrupts (gem5's arch/x86/interrupts.cc):    *)
(* vectors requested (irr) and in service (isr), and the two registers that *)
(* cache the highest of each.                                               *)
(***************************************************************************)
EXTENDS Integers, LDoms

CONSTANT Vector   \* the vectors software uses

VARIABLES irr, IRRV, isr, ISRV

lapicVars == <<irr, IRRV, isr, ISRV>>

\* The bit that getRegArrayBit looks at, as the vector that owns it: the code
\* takes the vector modulo 5, where bits are set and cleared modulo 32.
Tested(v) == (32 * (v \div 32)) + (v % 5)

(* Vectors above the exceptions, none of which is tested for another one.    *)
ASSUME LocalApicAssumption ==
  /\ Vector \subseteq 32..255
  /\ \A v \in Vector : Tested(v) \notin Vector \ {v}

LocalApicTypeOK ==
  /\ irr \in [Cpu -> SUBSET Vector] /\ isr \in [Cpu -> SUBSET Vector]
  /\ IRRV \in [Cpu -> Vector \cup {0}] /\ ISRV \in [Cpu -> Vector \cup {0}]

LocalApicInit ==
  /\ irr = [c \in Cpu |-> {}] /\ IRRV = [c \in Cpu |-> 0]
  /\ isr = [c \in Cpu |-> {}] /\ ISRV = [c \in Cpu |-> 0]

findRegArrayMSB(set) ==
  IF set = {} THEN 0 ELSE CHOOSE v \in set : \A w \in set : w <= v

getRegArrayBit(set, v) == Tested(v) \in set

\* A message arrives (recvMessage, requestInterrupt).
requestInterrupt(c, v) ==
  /\ IRRV' = [IRRV EXCEPT ![c] = IF v > @ THEN v ELSE @]
  /\ irr' = [irr EXCEPT ![c] = IF getRegArrayBit(@, v) THEN @ ELSE @ \cup {v}]
  /\ UNCHANGED <<isr, ISRV>>

\* With interrupts enabled and task priority 0.
checkInterrupts(c) == IRRV[c] > ISRV[c] /\ IRRV[c] \div 16 > 0

\* Mutant: the highest request is not looked for again.
updateIntrInfo_Stale(c) ==
  /\ ISRV' = [ISRV EXCEPT ![c] = IRRV[c]]
  /\ isr' = [isr EXCEPT ![c] = @ \cup {IRRV[c]}]
  /\ irr' = [irr EXCEPT ![c] = @ \ {IRRV[c]}]
  /\ IRRV' = [IRRV EXCEPT ![c] = 0]

\* The processor takes the highest request.
updateIntrInfo(c) ==
  /\ ISRV' = [ISRV EXCEPT ![c] = IRRV[c]]
  /\ isr' = [isr EXCEPT ![c] = @ \cup {IRRV[c]}]
  /\ irr' = [irr EXCEPT ![c] = @ \ {IRRV[c]}]
  /\ IRRV' = [IRRV EXCEPT ![c] = findRegArrayMSB(irr'[c])]

\* Mutant: the highest vector in service is not looked for again.
EOI_Stale(c) ==
  /\ isr' = [isr EXCEPT ![c] = @ \ {ISRV[c]}]
  /\ ISRV' = [ISRV EXCEPT ![c] = 0]
  /\ UNCHANGED <<irr, IRRV>>

\* Software writes the end-of-interrupt register.
EOI(c) ==
  /\ isr' = [isr EXCEPT ![c] = @ \ {ISRV[c]}]
  /\ ISRV' = [ISRV EXCEPT ![c] = findRegArrayMSB(isr'[c])]
  /\ UNCHANGED <<irr, IRRV>>

LocalApicNext == \E c \in Cpu :
  \/ \E v \in Vector : requestInterrupt(c, v)
  \/ checkInterrupts(c) /\ updateIntrInfo(c)
  \/ EOI(c)

LocalApicSpec == LocalApicInit /\ [][LocalApicNext]_lapicVars

-----------------------------------------------------------------------------
(* The registers that decide which interrupt comes next agree with the       *)
(* requests and the services they stand for, so no request is forgotten      *)
(* (requestInterrupt, updateIntrInfo, EOI).                                  *)
HighestExact == \A c \in Cpu :
  IRRV[c] = findRegArrayMSB(irr[c]) /\ ISRV[c] = findRegArrayMSB(isr[c])
=============================================================================
