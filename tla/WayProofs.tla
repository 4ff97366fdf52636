------------------------------ MODULE WayProofs -----------------------------
(***************************************************************************)
(* The way of an interrupt from the device to the driver, continued from   *)
(* ConsoleProofs: each step keeps the handlers nested (Nested) and what    *)
(* the driver relies on (Driver), and so the whole invariant CInv.  What   *)
(* the driver relies on needs that nothing gets lost on the way: a vector  *)
(* that is at a processor (At) stays there, as a message, a request or a   *)
(* handler that has not started, until the driver looks.                   *)
(***************************************************************************)
EXTENDS ConsoleProofs

-----------------------------------------------------------------------------
\* A vector is on its way at a processor, or its handler waits there.
At(c, v) == \/ \E i \in 1..Len(msgs[c]) : msgs[c][i].vector = v
            \/ v \in irr[c]
            \/ \E i \in 1..Len(stack[c]) : stack[c][i] = [vector |-> v, phase |-> "wait"]

(* Nothing is lost on its way if it is lost at no processor.                 *)
LEMMA WayKept ==
  ASSUME NEW g \in Guest, OnTheWay(g),
         \A c \in Cpus(g) : At(c, ConsoleVector[g]) => At(c, ConsoleVector[g])'
  PROVE  OnTheWay(g)'
<1>1. PICK c \in Cpus(g) : At(c, ConsoleVector[g])
  BY Zenon DEF OnTheWay, At
<1>2. At(c, ConsoleVector[g])'
  BY <1>1
<1> QED BY <1>2, Zenon DEF OnTheWay, At, Cpus

(* Messages arrive behind those that are on their way.                       *)
LEMMA WaySent ==
  ASSUME IoApicTypeOK, Sent, irr' = irr, stack' = stack, NEW g \in Guest, OnTheWay(g)
  PROVE  OnTheWay(g)'
<1>1. ASSUME NEW c \in Cpus(g), At(c, ConsoleVector[g]) PROVE At(c, ConsoleVector[g])'
  <2>0. c \in Cpu
    BY DEF Cpus
  <2>1. CASE msgs' = msgs
    BY <1>1, <2>1, Zenon DEF At
  <2>2. ASSUME NEW h \in Guest, NEW v \in Vector, Adds(h, v) PROVE At(c, ConsoleVector[g])'
    <3>1. /\ msgs[c] \in Seq(Message) /\ msgs'[c] \in Seq(Message)
          /\ Len(msgs'[c]) >= Len(msgs[c])
          /\ \A i \in 1..Len(msgs[c]) : msgs'[c][i] = msgs[c][i]
      BY <2>0, <2>2, Zenon DEF Adds, IoApicTypeOK
    <3>2. \A i \in 1..Len(msgs[c]) : i \in 1..Len(msgs'[c]) /\ msgs'[c][i] = msgs[c][i]
      BY <3>1
    <3> QED BY <1>1, <3>2, Zenon DEF At
  <2> QED BY <2>1, <2>2 DEF Sent
<1> QED BY <1>1, WayKept

(* A message with the console's vector is on its way.                        *)
LEMMA WayAdded ==
  ASSUME IoApicTypeOK, NEW g \in Guest, Adds(g, ConsoleVector[g])
  PROVE  OnTheWay(g)'
<1>1. PICK c \in Cpus(g) : Len(msgs'[c]) > Len(msgs[c])
  BY DEF Adds
<1>2. c \in Cpu /\ msgs[c] \in Seq(Message) /\ msgs'[c] \in Seq(Message)
  BY Zenon DEF Cpus, Adds, IoApicTypeOK
<1>3. Len(msgs'[c]) \in 1..Len(msgs'[c]) /\ ~(Len(msgs'[c]) <= Len(msgs[c]))
  BY <1>1, <1>2
<1>4. msgs'[c][Len(msgs'[c])].vector = ConsoleVector[g]
  BY <1>2, <1>3, Zenon DEF Adds
<1> QED BY <1>3, <1>4, Zenon DEF OnTheWay, Cpus

(* A step that changes a processor's stack and what it has in service.       *)
LEMMA NestedAt ==
  ASSUME LInv, Nested, NEW c \in Cpu, NEW s \in Seq(Handler), NEW set, Nest(s, set),
         stack' = [stack EXCEPT ![c] = s], isr' = [isr EXCEPT ![c] = set]
  PROVE  Nested'
<1>1. /\ stack \in [Cpu -> Seq(Handler)] /\ isr \in [Cpu -> SUBSET Vector]
      /\ \A d \in Cpu : Nest(stack[d], isr[d])
  BY DEF Nested, LInv, LocalApicTypeOK
<1>2. stack' \in [Cpu -> Seq(Handler)]
  BY <1>1
<1>3. ASSUME NEW d \in Cpu PROVE Nest(stack'[d], isr'[d])
  <2>1. CASE d = c
    BY <1>1, <2>1
  <2>2. CASE d # c
    BY <1>1, <2>2
  <2> QED BY <2>1, <2>2
<1>4. (\A d \in Cpu : Nest(stack[d], isr[d]))'
  BY <1>3, Zenon DEF Nest
<1> QED BY <1>2, <1>4 DEF Nested

(* Delivery turns a message into a request.                                  *)
LEMMA DeliversKeeps ==
  ASSUME CInv, NEW c \in Cpu, Delivers(c)
  PROVE  Nested' /\ \A g \in Guest : OnTheWay(g) => OnTheWay(g)'
<1> DEFINE v == Head(msgs[c]).vector
<1>0. IoApicTypeOK /\ LInv /\ Home /\ Nested
  BY DEF CInv
<1>1. /\ msgs' = [msgs EXCEPT ![c] = Tail(@)] /\ msgs[c] # <<>> /\ stack' = stack /\ isr' = isr
      /\ irr' = [irr EXCEPT ![c] = IF getRegArrayBit(@, v) THEN @ ELSE @ \cup {v}]
  BY Zenon DEF Delivers, Arrives, requestInterrupt, driverVars
<1>2. msgs \in [Cpu -> Seq(Message)] /\ irr \in [Cpu -> SUBSET Vector]
  BY <1>0 DEF IoApicTypeOK, LInv, LocalApicTypeOK
<1>3. msgs[c] \in Seq(Message) /\ v = msgs[c][1].vector /\ 1 \in 1..Len(msgs[c])
  BY <1>1, <1>2
<1>4. v \in Vector
  BY <1>0, <1>3 DEF Home
<1>5. v \in irr'[c] /\ irr[c] \subseteq irr'[c]
  <2>1. ASSUME getRegArrayBit(irr[c], v) PROVE v \in irr[c]
    BY <1>2, <1>4, <2>1, LocalApicAssumption, Zenon DEF getRegArrayBit
  <2>2. irr'[c] = IF getRegArrayBit(irr[c], v) THEN irr[c] ELSE irr[c] \cup {v}
    BY <1>1, <1>2, Zenon
  <2> QED BY <2>1, <2>2, Zenon
<1>6. \A d \in Cpu : d # c => irr'[d] = irr[d] /\ msgs'[d] = msgs[d]
  BY <1>1, <1>2
<1>7. /\ msgs'[c] = Tail(msgs[c])
      /\ \A i \in 1..Len(msgs[c]) : i = 1 \/ (i - 1 \in 1..Len(msgs'[c]) /\ msgs'[c][i - 1] = msgs[c][i])
  BY <1>1, <1>2, <1>3
<1> HIDE DEF v
<1>8. ASSUME NEW w, At(c, w) PROVE At(c, w)'
  <2>1. CASE \E i \in 1..Len(msgs[c]) : msgs[c][i].vector = w
    <3>1. PICK i \in 1..Len(msgs[c]) : msgs[c][i].vector = w
      BY <2>1
    <3>2. CASE i = 1
      <4>1. w \in irr'[c]
        BY <1>3, <1>5, <3>1, <3>2
      <4> QED BY <4>1 DEF At
    <3>3. CASE i # 1
      <4>1. i - 1 \in 1..Len(msgs'[c]) /\ msgs'[c][i - 1].vector = w
        BY <1>7, <3>1, <3>3
      <4> QED BY <4>1, Zenon DEF At
    <3> QED BY <3>2, <3>3
  <2>2. CASE w \in irr[c]
    BY <1>5, <2>2 DEF At
  <2>3. CASE \E i \in 1..Len(stack[c]) : stack[c][i] = [vector |-> w, phase |-> "wait"]
    BY <1>1, <2>3, Zenon DEF At
  <2> QED BY <1>8, <2>1, <2>2, <2>3, Zenon DEF At
<1>9. ASSUME NEW d \in Cpu, NEW w, At(d, w) PROVE At(d, w)'
  <2>1. CASE d = c
    BY <1>8, <1>9, <2>1
  <2>2. CASE d # c
    BY <1>1, <1>6, <1>9, <2>2, Zenon DEF At
  <2> QED BY <2>1, <2>2
<1>10. \A g \in Guest : OnTheWay(g) => OnTheWay(g)'
  <2> SUFFICES ASSUME NEW g \in Guest, OnTheWay(g) PROVE OnTheWay(g)'
    OBVIOUS
  <2>1. \A d \in Cpus(g) : At(d, ConsoleVector[g]) => At(d, ConsoleVector[g])'
    BY <1>9 DEF Cpus
  <2> QED BY <2>1, WayKept
<1>11. Nested'
  BY <1>0, <1>1, Zenon DEF Nested, Nest
<1> QED BY <1>10, <1>11

(* A step of one processor that leaves the messages: a vector is on its way  *)
(* still if it is so at this processor.                                      *)
LEMMA WayAt ==
  ASSUME NEW c \in Cpu, NEW g \in Guest, OnTheWay(g), msgs' = msgs,
         \A d \in Cpu : d # c => irr'[d] = irr[d] /\ stack'[d] = stack[d],
         g = QR0[c] => (At(c, ConsoleVector[g]) => At(c, ConsoleVector[g])')
  PROVE  OnTheWay(g)'
<1>1. ASSUME NEW d \in Cpus(g), At(d, ConsoleVector[g]) PROVE At(d, ConsoleVector[g])'
  <2>1. d \in Cpu /\ QR0[d] = g
    BY DEF Cpus
  <2>2. CASE d = c
    BY <1>1, <2>1, <2>2
  <2>3. CASE d # c
    <3>1. irr'[d] = irr[d] /\ stack'[d] = stack[d]
      BY <2>1, <2>3
    <3> QED BY <1>1, <3>1, Zenon DEF At
  <2> QED BY <2>2, <2>3
<1> QED BY <1>1, WayKept

(* The processor enters a handler.                                           *)
LEMMA TakesKeeps ==
  ASSUME CInv, NEW c \in Cpu, Takes(c)
  PROVE  Nested' /\ \A g \in Guest : OnTheWay(g) => OnTheWay(g)'
<1>0. LInv /\ Nested
  BY DEF CInv
<1>1. PICK h : h = [vector |-> IRRV[c],
                    phase |-> IF IRRV[c] = ConsoleVector[QR0[c]] THEN "wait" ELSE "done"]
  BY Zenon
<1>2. /\ stack' = [stack EXCEPT ![c] = <<h>> \o stack[c]] /\ msgs' = msgs
      /\ isr' = [isr EXCEPT ![c] = isr[c] \cup {IRRV[c]}]
      /\ irr' = [irr EXCEPT ![c] = irr[c] \ {IRRV[c]}]
      /\ IRRV[c] > ISRV[c]
  BY <1>1, Zenon DEF Takes, updateIntrInfo, checkInterrupts, ioapicVars
<1>3. /\ stack \in [Cpu -> Seq(Handler)] /\ isr[c] \in SUBSET Vector
      /\ irr \in [Cpu -> SUBSET Vector] /\ Nest(stack[c], isr[c])
  BY <1>0 DEF Nested, LInv, LocalApicTypeOK
<1>4. ISRV[c] \in Nat /\ \A w \in isr[c] : w <= ISRV[c] /\ w \in Nat
  BY <1>0, Innermost
<1>5. IRRV[c] \in Vector /\ IRRV[c] \in Nat
  <2>1. IRRV[c] \in Vector \cup {0} /\ 0 \in Nat
    BY <1>0 DEF LInv, LocalApicTypeOK
  <2>2. IRRV[c] \in Nat
    BY <2>1, VectorNat, Zenon
  <2>3. IRRV[c] # 0
    BY <1>2, <1>4, <2>2
  <2> QED BY <2>1, <2>2, <2>3
<1>6. h \in Handler /\ h.vector = IRRV[c] /\ \A w \in isr[c] : h.vector > w
  <2>1. h \in Handler /\ h.vector = IRRV[c]
    BY <1>1, <1>5 DEF Handler, Phase
  <2>2. \A w \in isr[c] : IRRV[c] > w
    BY <1>2, <1>4, <1>5
  <2> QED BY <2>1, <2>2
<1>7. PICK t : t = <<h>> \o stack[c]
  BY Zenon
<1>8. /\ t \in Seq(Handler) /\ Nest(t, isr[c] \cup {IRRV[c]})
      /\ Len(t) = Len(stack[c]) + 1 /\ t[1] = h /\ \A i \in 1..Len(stack[c]) : t[i + 1] = stack[c][i]
  <2>1. stack[c] \in Seq(Handler)
    BY <1>3
  <2>2. /\ t \in Seq(Handler) /\ Len(t) = Len(stack[c]) + 1 /\ t[1] = h
        /\ \A i \in 1..Len(stack[c]) : t[i + 1] = stack[c][i]
    BY <1>6, <1>7, <2>1, InFront, Zenon
  <2>3. Nest(t, isr[c] \cup {h.vector})
    BY <1>3, <1>6, <2>1, <2>2, Entered, Zenon
  <2> QED BY <1>6, <2>2, <2>3
<1>9. Nested'
  BY <1>0, <1>2, <1>7, <1>8, NestedAt, Zenon
<1>10. stack'[c] = t /\ irr'[c] = irr[c] \ {IRRV[c]}
       /\ \A d \in Cpu : d # c => irr'[d] = irr[d] /\ stack'[d] = stack[d]
  BY <1>2, <1>3, <1>7, Zenon
<1>11. Len(stack[c]) \in Nat
  BY <1>3
<1>12. ASSUME NEW v, v = ConsoleVector[QR0[c]], At(c, v) PROVE At(c, v)'
  <2>1. CASE \E i \in 1..Len(msgs[c]) : msgs[c][i].vector = v
    BY <1>2, <2>1, Zenon DEF At
  <2>2. CASE v \in irr[c]
    <3>1. CASE v = IRRV[c]
      <4>1. stack'[c][1] = [vector |-> v, phase |-> "wait"] /\ 1 \in 1..Len(stack'[c])
        BY <1>1, <1>8, <1>10, <1>11, <1>12, <3>1
      <4> QED BY <4>1 DEF At
    <3>2. CASE v # IRRV[c]
      BY <1>10, <2>2, <3>2, Zenon DEF At
    <3> QED BY <3>1, <3>2
  <2>3. ASSUME NEW i \in 1..Len(stack[c]), stack[c][i] = [vector |-> v, phase |-> "wait"]
        PROVE  At(c, v)'
    <3>1. i + 1 \in 1..Len(stack'[c]) /\ stack'[c][i + 1] = [vector |-> v, phase |-> "wait"]
      BY <1>8, <1>10, <1>11, <2>3
    <3> QED BY <3>1 DEF At
  <2> QED BY <1>12, <2>1, <2>2, <2>3, Zenon DEF At
<1>13. ASSUME NEW g \in Guest, OnTheWay(g) PROVE OnTheWay(g)'
  <2>1. g = QR0[c] => (At(c, ConsoleVector[g]) => At(c, ConsoleVector[g])')
    BY <1>12
  <2> QED BY <1>2, <1>10, <1>13, <2>1, WayAt, Zenon
<1> QED BY <1>9, <1>13

(* The innermost handler ends.                                               *)
LEMMA EndsKeeps ==
  ASSUME CInv, NEW c \in Cpu, Ends(c)
  PROVE  Nested' /\ \A g \in Guest : OnTheWay(g) => OnTheWay(g)'
<1>0. LInv /\ Nested
  BY DEF CInv
<1>1. /\ stack[c] # <<>> /\ stack[c][1].phase = "done"
      /\ stack' = [stack EXCEPT ![c] = Tail(stack[c])] /\ msgs' = msgs /\ irr' = irr
      /\ isr' = [isr EXCEPT ![c] = isr[c] \ {ISRV[c]}]
  BY Zenon DEF Ends, Top, EOI, ioapicVars
<1>2. stack \in [Cpu -> Seq(Handler)] /\ Nest(stack[c], isr[c])
  BY <1>0 DEF Nested
<1>3. ISRV[c] = stack[c][1].vector
  BY <1>0, <1>1, Innermost, Zenon
<1>4. PICK t : t = Tail(stack[c])
  BY Zenon
<1>5. /\ t \in Seq(Handler) /\ Nest(t, isr[c] \ {ISRV[c]})
      /\ Len(t) = Len(stack[c]) - 1 /\ \A i \in 1..Len(stack[c]) - 1 : t[i] = stack[c][i + 1]
  <2>1. stack[c] \in Seq(Handler)
    BY <1>2
  <2> QED BY <1>1, <1>2, <1>3, <1>4, <2>1, Left, Zenon
<1>6. Nested'
  BY <1>0, <1>1, <1>4, <1>5, NestedAt, Zenon
<1>7. stack'[c] = t /\ \A d \in Cpu : d # c => irr'[d] = irr[d] /\ stack'[d] = stack[d]
  BY <1>1, <1>2, <1>4
<1>8. Len(stack[c]) \in Nat
  BY <1>2
<1>9. ASSUME NEW v, At(c, v) PROVE At(c, v)'
  <2>1. CASE \E i \in 1..Len(msgs[c]) : msgs[c][i].vector = v
    BY <1>1, <2>1, Zenon DEF At
  <2>2. CASE v \in irr[c]
    BY <1>1, <2>2, Zenon DEF At
  <2>3. ASSUME NEW i \in 1..Len(stack[c]), stack[c][i] = [vector |-> v, phase |-> "wait"]
        PROVE  At(c, v)'
    <3>1. i # 1
      BY <1>1, <2>3
    <3>2. i - 1 \in 1..Len(stack[c]) - 1 /\ (i - 1) + 1 = i
      BY <1>8, <3>1
    <3>3. i - 1 \in 1..Len(stack'[c]) /\ stack'[c][i - 1] = stack[c][i]
      BY <1>5, <1>7, <3>2
    <3> QED BY <2>3, <3>3 DEF At
  <2> QED BY <1>9, <2>1, <2>2, <2>3, Zenon DEF At
<1>10. ASSUME NEW g \in Guest, OnTheWay(g) PROVE OnTheWay(g)'
  <2>1. g = QR0[c] => (At(c, ConsoleVector[g]) => At(c, ConsoleVector[g])')
    BY <1>9
  <2> QED BY <1>1, <1>7, <1>10, <2>1, WayAt, Zenon
<1> QED BY <1>6, <1>10

(* The innermost handler goes on, and does not wait any more.                *)
LEMMA PhaseKeeps ==
  ASSUME LInv, Nested, NEW c \in Cpu, NEW p \in Phase, stack[c] # <<>>, Becomes(c, p),
         isr' = isr, irr' = irr, msgs' = msgs
  PROVE  /\ Nested'
         /\ \A g \in Guest : OnTheWay(g) /\ (g # QR0[c] \/ stack[c][1].phase # "wait") => OnTheWay(g)'
<1>1. /\ stack \in [Cpu -> Seq(Handler)] /\ stack[c] \in Seq(Handler) /\ Nest(stack[c], isr[c])
      /\ isr \in [Cpu -> SUBSET Vector]
  BY DEF Nested, LInv, LocalApicTypeOK
<1>2. PICK r, t : r = [stack[c][1] EXCEPT !.phase = p] /\ t = [stack[c] EXCEPT ![1] = r]
  BY Zenon
<1>3. r \in Handler /\ r.vector = stack[c][1].vector /\ 1 \in 1..Len(stack[c])
  <2>1. Len(stack[c]) \in Nat /\ Len(stack[c]) # 0
    BY <1>1
  <2>2. 1 \in 1..Len(stack[c])
    BY <2>1
  <2>3. stack[c][1] \in Handler
    BY <1>1, <2>2
  <2> QED BY <1>2, <2>2, <2>3, Zenon DEF Handler
<1>4. /\ t \in Seq(Handler) /\ Nest(t, isr[c]) /\ Len(t) = Len(stack[c])
      /\ \A i \in 1..Len(stack[c]) : i # 1 => t[i] = stack[c][i]
  <2>1. PICK s : s = stack[c]
    OBVIOUS
  <2>2. s \in Seq(Handler) /\ 1 \in 1..Len(s) /\ t = [s EXCEPT ![1] = r]
    BY <1>1, <1>2, <1>3, <2>1
  <2>3. /\ t \in Seq(Handler) /\ Len(t) = Len(s) /\ t[1] = r
        /\ \A i \in 1..Len(s) : i # 1 => t[i] = s[i]
    BY ONLY <1>3, <2>2
  <2>4. Nest(s, isr[c]) /\ t[1].vector = s[1].vector
    BY <1>1, <1>3, <2>1, <2>3
  <2>5. Nest(t, isr[c])
    BY ONLY <2>2, <2>3, <2>4, Rephased, Zenon
  <2> QED BY <2>1, <2>3, <2>5
<1>5. stack' = [stack EXCEPT ![c] = t]
  BY <1>1, <1>2 DEF Becomes
<1>6. isr' = [isr EXCEPT ![c] = isr[c]]
  BY <1>1
<1>7. Nested'
  BY <1>4, <1>5, <1>6, NestedAt, Zenon
<1>8. stack'[c] = t /\ \A d \in Cpu : d # c => irr'[d] = irr[d] /\ stack'[d] = stack[d]
  BY <1>1, <1>5
<1>9. ASSUME NEW v, At(c, v), stack[c][1].phase # "wait" PROVE At(c, v)'
  <2>1. CASE \E i \in 1..Len(msgs[c]) : msgs[c][i].vector = v
    BY <2>1, Zenon DEF At
  <2>2. CASE v \in irr[c]
    BY <2>2 DEF At
  <2>3. ASSUME NEW i \in 1..Len(stack[c]), stack[c][i] = [vector |-> v, phase |-> "wait"]
        PROVE  At(c, v)'
    <3>1. i # 1
      BY <1>9, <2>3
    <3>2. i \in 1..Len(stack'[c]) /\ stack'[c][i] = [vector |-> v, phase |-> "wait"]
      BY <1>4, <1>8, <2>3, <3>1, Zenon
    <3> QED BY <3>2, Zenon DEF At
  <2> QED BY <1>9, <2>1, <2>2, <2>3, Zenon DEF At
<1>10. ASSUME NEW g \in Guest, OnTheWay(g), g # QR0[c] \/ stack[c][1].phase # "wait"
       PROVE  OnTheWay(g)'
  <2>1. g = QR0[c] => (At(c, ConsoleVector[g]) => At(c, ConsoleVector[g])')
    BY <1>9, <1>10, Zenon
  <2> QED BY <1>8, <1>10, <2>1, WayAt, Zenon
<1> QED BY <1>7, <1>10

(* The handler reads the interrupt identification.                           *)
LEMMA IdentifiesKeeps ==
  ASSUME CInv, NEW c \in Cpu, NEW id \in {"RX", "TX", "NOPEND"}, Identifies(c, id)
  PROVE  /\ Nested'
         /\ \A g \in Guest : OnTheWay(g) /\ (g # QR0[c] \/ Top(c, "run")) => OnTheWay(g)'
<1>1. PICK p : p = IF id = "NOPEND" THEN "done" ELSE "run"
  OBVIOUS
<1>2. p \in Phase
  BY <1>1 DEF Phase
<1>3. LInv /\ Nested
  BY DEF CInv
<1>4. Becomes(c, p) /\ isr' = isr /\ irr' = irr /\ msgs' = msgs /\ stack[c] # <<>>
  BY <1>1, Zenon DEF Identifies, lapicVars, ioapicVars, Top
<1>5. Top(c, "run") => stack[c][1].phase # "wait"
  BY DEF Top
<1> QED BY <1>2, <1>3, <1>4, <1>5, PhaseKeeps, Zenon

(* The handler serves the port.                                              *)
LEMMA ServesKeeps ==
  ASSUME CInv, NEW c \in Cpu, Serves(c)
  PROVE  /\ Nested' /\ msgs' = msgs
         /\ \A g \in Guest : OnTheWay(g) => OnTheWay(g)'
<1>1. LInv /\ Nested /\ IoApicTypeOK
  BY DEF CInv
<1>2. stack[c] # <<>> /\ stack[c][1].phase # "wait" /\ isr' = isr /\ irr' = irr
  BY Zenon DEF Serves, Top, lapicVars
<1>3. msgs' = msgs
  <2>1. UNCHANGED ioapicVars \/
          \E post \in BOOLEAN : writeIER(QR0[c], IER[QR0[c]] \ {"TX"}, post) /\ Posts(QR0[c], post)
    BY Zenon DEF Serves
  <2>2. ASSUME NEW post \in BOOLEAN, writeIER(QR0[c], IER[QR0[c]] \ {"TX"}, post), Posts(QR0[c], post)
        PROVE  UNCHANGED ioapicVars
    <3>1. ~post
      BY <2>2, Zenon DEF writeIER
    <3> QED BY <2>2, <3>1 DEF Posts
  <2> QED BY <2>1, <2>2 DEF ioapicVars
<1>4. CASE stack' = stack
  <2>1. Nested'
    BY <1>1, <1>2, <1>4, Zenon DEF Nested, Nest
  <2>2. Sent
    BY <1>3 DEF Sent
  <2> QED BY <1>1, <1>2, <1>3, <1>4, <2>1, <2>2, WaySent
<1>5. CASE Again(c)
  <2>1. PICK p : p = IF passes[QR0[c]] + 1 < PassLimit THEN "run" ELSE "done"
    OBVIOUS
  <2>2. p \in Phase /\ Becomes(c, p)
    BY <1>5, <2>1 DEF Again, Phase
  <2> QED BY <1>1, <1>2, <1>3, <2>2, PhaseKeeps, Zenon
<1>6. stack' = stack \/ Again(c)
  BY Zenon DEF Serves
<1> QED BY <1>4, <1>5, <1>6

(* Handlers nest.                                                            *)
LEMMA NestedKept == ASSUME CInv, Next PROVE Nested'
<1>1. ASSUME stack' = stack, isr' = isr PROVE Nested'
  BY <1>1, Zenon DEF CInv, Nested, Nest
<1>2. ASSUME NEW g \in Guest,
             Setup(g) \/ Writes(g) \/ (\E n \in 1..BufLen : Types(g, n)) \/ Ticks(g)
               \/ (\E e \in Bit : Fires(g, e)) \/ Elapses(g)
      PROVE  stack' = stack /\ isr' = isr
  BY <1>2, Zenon DEF Setup, Writes, Types, Ticks, Fires, Elapses, driverVars, lapicVars
<1>3. CASE Restarts
  BY <1>1, <1>3 DEF Restarts, lapicVars
<1>4. ASSUME NEW c \in Cpu, Runs(c) PROVE Nested'
  BY <1>4, DeliversKeeps, TakesKeeps, IdentifiesKeeps, ServesKeeps, EndsKeeps, Zenon DEF Runs, Handles
<1> QED BY <1>1, <1>2, <1>3, <1>4 DEF Next

\* Nothing happens to the driver and to the port of h.
Same(h) ==
  /\ pc'[h] = pc[h] /\ xmit'[h] = xmit[h] /\ made'[h] = made[h] /\ scenario' = scenario
  /\ IER'[h] = IER[h] /\ status'[h] = status[h] /\ scheduled'[h] = scheduled[h]
  /\ rxbuf'[h] = rxbuf[h]
  /\ OnTheWay(h) => OnTheWay(h)'

(* Then they wait as before.                                                 *)
LEMMA SameWaits ==
  ASSUME NEW h \in Guest, Waiting(h), Same(h)
  PROVE  Waiting(h)'
<1>1. Ready(h)' <=> Ready(h)
  BY DEF Ready, Same
<1>2. pc'[h] \notin {"lsr", "rbr"} /\ rxbuf'[h] > 0 /\ "RX" \in IER'[h] =>
        "RX" \in scheduled'[h] \/ OnTheWay(h)'
  BY Zenon DEF Waiting, Same
<1>3. pc'[h] \in {"idle", "iir"} /\ "TX" \in IER'[h] =>
        /\ "TX" \in scheduled'[h] \/ OnTheWay(h)'
        /\ "TX" \in status'[h] \cup scheduled'[h]
  BY Zenon DEF Waiting, Same
<1>4. /\ xmit'[h] > 0 => "TX" \in IER'[h] /\ Ready(h)'
      /\ pc'[h] = "ier" => xmit'[h] = 0
      /\ pc'[h] = "thr" => xmit'[h] > 0
  BY <1>1, Zenon DEF Waiting, Same
<1> QED BY <1>2, <1>3, <1>4, Zenon DEF Waiting

\* The variables of the drivers keep their types.
DriverTyped ==
  /\ pc \in [Guest -> {"idle", "iir", "lsr", "rbr", "thr", "ier"}] /\ xmit \in [Guest -> Nat]
  /\ written \in [Guest -> Nat]

(* A step of the driver or the port of g.                                    *)
LEMMA DriverAt ==
  ASSUME Driver, NEW g \in Guest, DriverTyped', \A h \in Guest : h # g => Same(h), Waiting(g)'
  PROVE  Driver'
<1>1. \A h \in Guest : Waiting(h)'
  BY SameWaits DEF Driver
<1> QED BY <1>1 DEF Driver, DriverTyped

(* A step that is neither.                                                   *)
LEMMA DriverSame ==
  ASSUME Driver, UNCHANGED <<uartVars, pc, xmit, scenario, made, written>>,
         \A h \in Guest : OnTheWay(h) => OnTheWay(h)'
  PROVE  Driver'
<1>1. \A h \in Guest : Same(h)
  BY DEF Same, uartVars
<1>2. \A h \in Guest : Waiting(h)'
  BY <1>1, SameWaits DEF Driver
<1>3. pc' = pc /\ xmit' = xmit /\ written' = written
  OBVIOUS
<1> QED BY <1>2, <1>3 DEF Driver

(* An interrupt that a port posts is on its way.                             *)
LEMMA PostWay ==
  ASSUME CInv, NEW g \in Guest, NEW post \in BOOLEAN, Posts(g, post),
         post => Has(g, "bottom", ConsoleLine)
  PROVE  post => OnTheWay(g)'
<1>1. IoApicTypeOK /\ Started
  BY DEF CInv
<1>2. post => Adds(g, ConsoleVector[g])
  BY <1>1, PostAdds, Zenon
<1> QED BY <1>1, <1>2, WayAdded

(* What writing the interrupt enable register leaves.                        *)
LEMMA EnableWaits ==
  ASSUME UartTypeOK, NEW g \in Guest, NEW v \in SUBSET Bit, NEW post \in BOOLEAN,
         writeIER(g, v, post), post => OnTheWay(g)', ~LCR[g]
  PROVE  /\ IER'[g] = v /\ rxbuf' = rxbuf
         /\ rxbuf'[g] > 0 /\ "RX" \in IER'[g] => "RX" \in scheduled'[g]
         /\ "TX" \in IER'[g] => /\ "TX" \in scheduled'[g] \/ OnTheWay(g)'
                                /\ "TX" \in status'[g] \cup scheduled'[g]
<1>1. /\ IER \in [Guest -> SUBSET Bit] /\ scheduled \in [Guest -> SUBSET Bit]
      /\ status \in [Guest -> SUBSET Bit]
  BY DEF UartTypeOK
<1>2. IER'[g] = v /\ rxbuf' = rxbuf
  BY <1>1, Zenon DEF writeIER
<1>3. rxbuf[g] > 0 /\ "RX" \in v => "RX" \in scheduled'[g]
  BY <1>1 DEF writeIER
<1>4. "TX" \in v /\ recent[g] => "TX" \in scheduled'[g]
  BY <1>1 DEF writeIER
<1>5. ASSUME "TX" \in v, ~recent[g] PROVE post /\ "TX" \in status'[g]
  <2>1. post
    BY <1>5, Zenon DEF writeIER
  <2>2. \E S : status' = [status EXCEPT ![g] = S \cup {"TX"}]
    BY <2>1, Zenon DEF writeIER
  <2> QED BY <1>1, <2>1, <2>2
<1> QED BY <1>2, <1>3, <1>4, <1>5

(* It is the port of g that is written.                                      *)
LEMMA EnableAt ==
  ASSUME UartTypeOK, NEW g \in Guest, NEW v, NEW post, writeIER(g, v, post)
  PROVE  /\ \A h \in Guest : h # g => /\ IER'[h] = IER[h] /\ status'[h] = status[h]
                                      /\ scheduled'[h] = scheduled[h] /\ rxbuf'[h] = rxbuf[h]
         /\ LCR[g] => IER' = IER /\ status' = status /\ scheduled' = scheduled /\ rxbuf' = rxbuf
BY DEF UartTypeOK, writeIER

(* Software sets its port up.                                                *)
LEMMA SetupDrives ==
  ASSUME CInv, NEW g \in Guest, Setup(g)
  PROVE  Driver'
<1>0. UartTypeOK /\ IoApicTypeOK /\ Started /\ Driver /\ Waiting(g) /\ xmit \in [Guest -> Nat]
  BY DEF CInv, IInv, Driver
<1>1. PICK s, n, a : s = scenario.setup[g] /\ n = made[g] + 1 /\ a = s[n]
  OBVIOUS
<1>2. /\ made' = [made EXCEPT ![g] = @ + 1] /\ scenario' = scenario /\ ~Ready(g)
      /\ UNCHANGED <<irr, pc, xmit, stack, written>>
      /\ \/ a.op \in {"select", "window"} /\ UNCHANGED uartVars
         \/ \E latch : writeLCR(g, latch)
         \/ a.op = "ier" /\ \E post \in BOOLEAN : writeIER(g, a.val, post) /\ Posts(g, post)
  BY <1>1, Zenon DEF Setup, lapicVars
<1>3. Access(g, s, n)
  BY <1>1, <1>2, Zenon DEF Access, Ready
<1>4. xmit'[g] = 0 /\ pc'[g] = pc[g] /\ pc'[g] # "thr"
  <2>1. ~(xmit[g] > 0) /\ xmit[g] \in Nat
    BY <1>0, <1>2, Zenon DEF Waiting
  <2>2. xmit[g] = 0
    BY <2>1
  <2>3. pc[g] # "thr"
    BY <1>0, <2>1 DEF Waiting
  <2> QED BY <1>2, <2>2, <2>3
<1>5. Sent
  BY PortMoves
<1>6. \A h \in Guest : OnTheWay(h) => OnTheWay(h)'
  BY <1>0, <1>2, <1>5, WaySent, Zenon
<1>7. \A h \in Guest : h # g => made'[h] = made[h]
  BY <1>0, <1>2 DEF Started
<1>8. DriverTyped'
  BY <1>0, <1>2 DEF Driver, DriverTyped
<1>9. ASSUME IER' = IER, status' = status, scheduled' = scheduled, rxbuf' = rxbuf PROVE Driver'
  <2>1. Waiting(g)'
    BY <1>0, <1>4, <1>6, <1>9 DEF Waiting
  <2>2. \A h \in Guest : h # g => Same(h)
    BY <1>2, <1>6, <1>7, <1>9, Zenon DEF Same
  <2> QED BY <1>0, <1>8, <2>1, <2>2, DriverAt
<1>10. CASE a.op = "ier" /\ \E post \in BOOLEAN : writeIER(g, a.val, post) /\ Posts(g, post)
  <2>1. PICK post \in BOOLEAN : writeIER(g, a.val, post) /\ Posts(g, post)
    BY <1>10
  <2>2. a.val \in SUBSET Bit
    <3>1. s[n].op = "ier" => s[n].val \in SUBSET Bit
      BY <1>0, <1>3, Written, Zenon
    <3> QED BY <1>1, <1>10, <3>1, Zenon
  <2>3. post => Has(g, "bottom", ConsoleLine)
    <3>1. post => Enables(s, n)
      BY <1>1, <1>10, <2>1, Zenon DEF writeIER, Enables
    <3> QED BY <1>0, <1>3, <3>1, EnabledLate
  <2>4. post => OnTheWay(g)'
    BY <2>1, <2>3, PostWay, Zenon
  <2>5. CASE LCR[g]
    BY <1>0, <1>9, <2>1, <2>5, EnableAt, Zenon
  <2>6. CASE ~LCR[g]
    <3>1. /\ rxbuf'[g] > 0 /\ "RX" \in IER'[g] => "RX" \in scheduled'[g]
          /\ "TX" \in IER'[g] => /\ "TX" \in scheduled'[g] \/ OnTheWay(g)'
                                 /\ "TX" \in status'[g] \cup scheduled'[g]
      BY <1>0, <2>1, <2>2, <2>4, <2>6, EnableWaits, Zenon
    <3>2. Waiting(g)'
      BY <1>4, <3>1 DEF Waiting
    <3>3. \A h \in Guest : h # g => Same(h)
      BY <1>0, <1>2, <1>6, <1>7, <2>1, EnableAt, Zenon DEF Same
    <3> QED BY <1>0, <1>8, <3>2, <3>3, DriverAt
  <2> QED BY <2>5, <2>6
<1>11. CASE UNCHANGED uartVars
  BY <1>9, <1>11 DEF uartVars
<1>12. CASE \E latch : writeLCR(g, latch)
  BY <1>9, <1>12 DEF writeLCR
<1> QED BY <1>2, <1>10, <1>11, <1>12

(* Software has a byte to send.                                              *)
LEMMA WritesDrives ==
  ASSUME CInv, NEW g \in Guest, Writes(g)
  PROVE  Driver'
<1>0. /\ UartTypeOK /\ IoApicTypeOK /\ Started /\ Driver /\ Waiting(g)
      /\ xmit \in [Guest -> Nat] /\ written \in [Guest -> Nat]
  BY DEF CInv, IInv, Driver
<1>1. /\ Ready(g) /\ pc[g] = "idle" /\ written[g] < scenario.writes[g]
      /\ xmit' = [xmit EXCEPT ![g] = @ + 1] /\ written' = [written EXCEPT ![g] = @ + 1]
      /\ UNCHANGED <<irr, pc, stack, scenario, made>>
  BY Zenon DEF Writes, lapicVars
<1>2. Sent
  BY PortMoves
<1>3. \A h \in Guest : OnTheWay(h) => OnTheWay(h)'
  BY <1>0, <1>1, <1>2, WaySent
<1>4. DriverTyped'
  BY <1>0, <1>1 DEF Driver, DriverTyped
<1>5. Ready(g)' /\ pc'[g] = "idle" /\ \A h \in Guest : h # g => xmit'[h] = xmit[h]
  BY <1>0, <1>1 DEF Ready
<1>6. CASE "TX" \in IER[g] /\ UNCHANGED <<uartVars, ioapicVars>>
  <2>1. IER' = IER /\ status' = status /\ scheduled' = scheduled /\ rxbuf' = rxbuf
    BY <1>6 DEF uartVars
  <2>2. Waiting(g)'
    BY <1>0, <1>1, <1>3, <1>5, <1>6, <2>1 DEF Waiting
  <2>3. \A h \in Guest : h # g => Same(h)
    BY <1>1, <1>3, <1>5, <2>1, Zenon DEF Same
  <2> QED BY <1>0, <1>4, <2>2, <2>3, DriverAt
<1>7. CASE \E post \in BOOLEAN : writeIER(g, IER[g] \cup {"TX"}, post) /\ Posts(g, post)
  <2>1. PICK post \in BOOLEAN : writeIER(g, IER[g] \cup {"TX"}, post) /\ Posts(g, post)
    BY <1>7
  <2>2. Has(g, "bottom", ConsoleLine) /\ ~LCR[g]
    BY <1>0, <1>1, WriterPort, Zenon
  <2>3. post => OnTheWay(g)'
    BY <2>1, <2>2, PostWay, Zenon
  <2>4. IER[g] \cup {"TX"} \in SUBSET Bit
    BY <1>0 DEF UartTypeOK, Bit
  <2>5. /\ IER'[g] = IER[g] \cup {"TX"}
        /\ rxbuf'[g] > 0 /\ "RX" \in IER'[g] => "RX" \in scheduled'[g]
        /\ "TX" \in IER'[g] => /\ "TX" \in scheduled'[g] \/ OnTheWay(g)'
                               /\ "TX" \in status'[g] \cup scheduled'[g]
    BY <1>0, <2>1, <2>2, <2>3, <2>4, EnableWaits, Zenon
  <2>6. Waiting(g)'
    BY <1>5, <2>5, Zenon DEF Waiting
  <2>7. \A h \in Guest : h # g => Same(h)
    BY <1>0, <1>1, <1>3, <1>5, <2>1, EnableAt, Zenon DEF Same
  <2> QED BY <1>0, <1>4, <2>6, <2>7, DriverAt
<1> QED BY <1>6, <1>7, Zenon DEF Writes

(* Bytes are typed.                                                          *)
LEMMA TypesDrives ==
  ASSUME CInv, NEW g \in Guest, NEW n \in 1..BufLen, Types(g, n)
  PROVE  Driver'
<1>0. UartTypeOK /\ IoApicTypeOK /\ Started /\ Driver /\ Waiting(g)
  BY DEF CInv, IInv, Driver
<1>1. PICK post \in BOOLEAN :
        /\ dataAvailable(g, n, post) /\ Posts(g, post)
        /\ UNCHANGED <<irr, pc, xmit, stack, scenario, made, written>>
  BY DEF Types, lapicVars
<1>2. Sent
  BY PortMoves
<1>3. \A h \in Guest : OnTheWay(h) => OnTheWay(h)'
  BY <1>0, <1>1, <1>2, WaySent
<1>4. DriverTyped'
  BY <1>0, <1>1 DEF Driver, DriverTyped
<1>5. /\ IER' = IER /\ scheduled' = scheduled /\ status[g] \subseteq status'[g]
      /\ post <=> "RX" \in IER[g]
      /\ \A h \in Guest : h # g => status'[h] = status[h] /\ rxbuf'[h] = rxbuf[h]
  BY <1>0, <1>1, Zenon DEF UartTypeOK, dataAvailable
<1>6. "RX" \in IER[g] => OnTheWay(g)'
  <2>1. post => Has(g, "bottom", ConsoleLine)
    BY <1>0, <1>5, EnabledPort
  <2> QED BY <1>1, <1>5, <2>1, PostWay, Zenon
<1>7. Ready(g)' <=> Ready(g)
  BY <1>1 DEF Ready
<1>8. Waiting(g)'
  <2>1. pc'[g] \in {"idle", "iir"} /\ "TX" \in IER'[g] =>
          /\ "TX" \in scheduled'[g] \/ OnTheWay(g)'
          /\ "TX" \in status'[g] \cup scheduled'[g]
    BY <1>0, <1>1, <1>3, <1>5, Zenon DEF Waiting
  <2>2. /\ xmit'[g] > 0 => "TX" \in IER'[g] /\ Ready(g)'
        /\ pc'[g] = "ier" => xmit'[g] = 0
        /\ pc'[g] = "thr" => xmit'[g] > 0
    BY <1>0, <1>1, <1>5, <1>7, Zenon DEF Waiting
  <2>3. "RX" \in IER'[g] => OnTheWay(g)'
    BY <1>5, <1>6
  <2> QED BY <2>1, <2>2, <2>3, Zenon DEF Waiting
<1>9. \A h \in Guest : h # g => Same(h)
  BY <1>1, <1>3, <1>5, Zenon DEF Same
<1> QED BY <1>0, <1>4, <1>8, <1>9, DriverAt

(* An event fires; it is enabled still, and interrupts.                      *)
LEMMA FiresDrives ==
  ASSUME CInv, NEW g \in Guest, NEW e \in Bit, Fires(g, e)
  PROVE  Driver'
<1>0. UartTypeOK /\ OnlyEnabled /\ IoApicTypeOK /\ Started /\ Driver /\ Waiting(g)
  BY DEF CInv, IInv, Driver
<1>1. PICK post \in BOOLEAN :
        /\ process(g, e, post) /\ Posts(g, post)
        /\ UNCHANGED <<irr, pc, xmit, stack, scenario, made, written>>
  BY DEF Fires, lapicVars, driverVars, scenarioVars
<1>2. Sent
  BY PortMoves
<1>3. \A h \in Guest : OnTheWay(h) => OnTheWay(h)'
  BY <1>0, <1>1, <1>2, WaySent
<1>4. DriverTyped'
  BY <1>0, <1>1 DEF Driver, DriverTyped
<1>5. e \in IER[g] /\ post
  BY <1>0, <1>1, Zenon DEF OnlyEnabled, process
<1>6. /\ IER' = IER /\ rxbuf' = rxbuf
      /\ scheduled'[g] = scheduled[g] \ {e} /\ status'[g] = status[g] \cup {e}
      /\ \A h \in Guest : h # g => status'[h] = status[h] /\ scheduled'[h] = scheduled[h]
  BY <1>0, <1>1, <1>5, Zenon DEF UartTypeOK, process
<1>7. OnTheWay(g)'
  <2>1. Has(g, "bottom", ConsoleLine)
    BY <1>0, <1>5, EnabledPort
  <2> QED BY <1>1, <1>5, <2>1, PostWay, Zenon
<1>8. Ready(g)' <=> Ready(g)
  BY <1>1 DEF Ready
<1>9. Waiting(g)'
  <2>1. pc'[g] \in {"idle", "iir"} /\ "TX" \in IER'[g] => "TX" \in status'[g] \cup scheduled'[g]
    BY <1>0, <1>1, <1>6, Zenon DEF Waiting
  <2>2. /\ xmit'[g] > 0 => "TX" \in IER'[g] /\ Ready(g)'
        /\ pc'[g] = "ier" => xmit'[g] = 0
        /\ pc'[g] = "thr" => xmit'[g] > 0
    BY <1>0, <1>1, <1>6, <1>8, Zenon DEF Waiting
  <2> QED BY <1>7, <2>1, <2>2, Zenon DEF Waiting
<1>10. \A h \in Guest : h # g => Same(h)
  BY <1>1, <1>3, <1>6, Zenon DEF Same
<1> QED BY <1>0, <1>4, <1>9, <1>10, DriverAt

(* Time passes, timers tick, and the machine restarts.                       *)
LEMMA TimeDrives ==
  ASSUME CInv, (\E g \in Guest : Elapses(g) \/ Ticks(g)) \/ Restarts
  PROVE  Driver'
<1>0. IoApicTypeOK /\ Driver
  BY DEF CInv
<1>1. /\ UNCHANGED <<irr, pc, xmit, stack, scenario, made, written, IER, status, scheduled>>
      /\ rxbuf' = rxbuf \/ Restarts
  BY Zenon DEF Elapses, Ticks, Restarts, Quiet, unserialize, driverVars, scenarioVars, lapicVars, uartVars
<1>2. Sent
  <2>1. CASE Restarts
    BY <2>1 DEF Restarts, ioapicVars, Sent
  <2> QED BY <2>1, PortMoves, TickMoves
<1>3. \A h \in Guest : OnTheWay(h) => OnTheWay(h)'
  BY <1>0, <1>1, <1>2, WaySent
<1>4. ASSUME NEW h \in Guest PROVE Waiting(h)'
  <2>1. CASE rxbuf' = rxbuf
    <3>1. Same(h)
      BY <1>1, <1>3, <2>1 DEF Same
    <3> QED BY <1>0, <3>1, SameWaits DEF Driver
  <2>2. CASE Restarts
    <3>1. ~(rxbuf'[h] > 0) /\ (Ready(h)' <=> Ready(h)) /\ Waiting(h)
      <4>1. rxbuf'[h] = 0
        BY <2>2, Zenon DEF Restarts, unserialize
      <4>2. (Ready(h)' <=> Ready(h))
        BY <1>1 DEF Ready
      <4>3. Waiting(h)
        BY <1>0 DEF Driver
      <4> QED BY <4>1, <4>2, <4>3
    <3>2. pc'[h] \in {"idle", "iir"} /\ "TX" \in IER'[h] =>
            /\ "TX" \in scheduled'[h] \/ OnTheWay(h)'
            /\ "TX" \in status'[h] \cup scheduled'[h]
      BY <1>1, <1>3, <3>1, Zenon DEF Waiting
    <3>3. /\ xmit'[h] > 0 => "TX" \in IER'[h] /\ Ready(h)'
          /\ pc'[h] = "ier" => xmit'[h] = 0
          /\ pc'[h] = "thr" => xmit'[h] > 0
      BY <1>1, <3>1, Zenon DEF Waiting
    <3> QED BY <3>1, <3>2, <3>3, Zenon DEF Waiting
  <2> QED BY <1>1, <2>1, <2>2
<1>5. pc' = pc /\ xmit' = xmit /\ written' = written
  BY <1>1
<1> QED BY <1>0, <1>4, <1>5 DEF Driver

(* The handler asks the port why it interrupted.  When the port has nothing  *)
(* to say, what is left to do is scheduled.                                  *)
LEMMA IdentifiesDrives ==
  ASSUME CInv, NEW c \in Cpu, NEW id \in {"RX", "TX", "NOPEND"}, Identifies(c, id)
  PROVE  Driver'
<1>0. PICK g \in Guest : g = QR0[c]
  BY LDomsAssumption
<1>1. /\ UartTypeOK /\ InputNoticed /\ Driver /\ DriverTyped /\ Waiting(g)
      /\ pc[g] \in {"idle", "iir"}
  BY <1>0, Zenon DEF CInv, IInv, Driver, DriverTyped, Identifies
<1>2. /\ readIIR(g, id) /\ UNCHANGED <<xmit, scenario, made, written>>
      /\ pc' = [pc EXCEPT ![g] = IF id = "NOPEND" THEN "idle" ELSE "lsr"]
  BY <1>0, Zenon DEF Identifies, scenarioVars
<1>3. \A h \in Guest : h # g /\ OnTheWay(h) => OnTheWay(h)'
  BY <1>0, IdentifiesKeeps
<1>4. IER' = IER /\ scheduled' = scheduled /\ rxbuf' = rxbuf
      /\ \A h \in Guest : h # g => status'[h] = status[h]
  BY <1>1, <1>2, Zenon DEF readIIR, UartTypeOK
<1>5. \A h \in Guest : h # g => Same(h)
  BY <1>1, <1>2, <1>3, <1>4, Zenon DEF Same, DriverTyped
<1>6. /\ pc'[g] = IF id = "NOPEND" THEN "idle" ELSE "lsr"
      /\ DriverTyped'
  BY <1>1, <1>2 DEF DriverTyped
<1>7. xmit'[g] > 0 => "TX" \in IER'[g] /\ Ready(g)'
  BY <1>1, <1>2, <1>4, Zenon DEF Waiting, Ready
<1>8. CASE id = "NOPEND"
  <2>1. status[g] \subseteq {"RX", "TX"} /\ "RX" \notin status[g] /\ status[g] # {"TX"}
    <3>1. status[g] \subseteq {"RX", "TX"}
      BY <1>1 DEF UartTypeOK, Bit
    <3> QED BY <1>2, <1>8, <3>1 DEF readIIR
  <2>2. status[g] = {}
    BY <2>1
  <2>3. rxbuf[g] > 0 /\ "RX" \in IER[g] => "RX" \in scheduled[g]
    BY <1>1, <2>2 DEF InputNoticed
  <2>4. "TX" \in IER[g] => "TX" \in scheduled[g]
    BY <1>1, <2>2, Zenon DEF Waiting
  <2>5. Waiting(g)'
    BY <1>4, <1>6, <1>7, <1>8, <2>3, <2>4, Zenon DEF Waiting
  <2> QED BY <1>1, <1>5, <1>6, <2>5, DriverAt
<1>9. CASE id # "NOPEND"
  <2>1. Waiting(g)'
    BY <1>6, <1>7, <1>9 DEF Waiting
  <2> QED BY <1>1, <1>5, <1>6, <2>1, DriverAt
<1> QED BY <1>8, <1>9

(* A step of the handler concerns the port of its LDom only.                 *)
LEMMA ServesAt ==
  ASSUME CInv, NEW c \in Cpu, Serves(c)
  PROVE  /\ DriverTyped' /\ (Ready(QR0[c])' <=> Ready(QR0[c]))
         /\ \A h \in Guest : h # QR0[c] => Same(h)
<1>0. PICK g \in Guest : g = QR0[c]
  BY LDomsAssumption
<1>1. /\ UartTypeOK /\ DriverTyped /\ Waiting(g)
      /\ \A h \in Guest : OnTheWay(h) => OnTheWay(h)'
  BY <1>0, ServesKeeps, Zenon DEF CInv, IInv, Driver, DriverTyped
<1>2. UNCHANGED <<scenario, made, written>>
  BY Zenon DEF Serves, scenarioVars
<1>3. (Ready(g)' <=> Ready(g))
  BY <1>2 DEF Ready
<1>4. \E s \in {"idle", "iir", "lsr", "rbr", "thr", "ier"} : pc' = [pc EXCEPT ![g] = s]
  <2>1. ASSUME Again(c) PROVE \E s \in {"idle", "iir"} : pc' = [pc EXCEPT ![g] = s]
    BY <1>0, <2>1, Zenon DEF Again
  <2> QED BY <1>0, <2>1, Zenon DEF Serves
<1>5. \E x \in Nat : xmit' = [xmit EXCEPT ![g] = x]
  <2>1. xmit = [xmit EXCEPT ![g] = xmit[g]] /\ xmit[g] \in Nat
    BY <1>1 DEF DriverTyped
  <2>2. pc[g] = "thr" => xmit[g] - 1 \in Nat
    BY <1>1, <2>1 DEF Waiting
  <2>3. xmit' = xmit \/ (pc[g] = "thr" /\ xmit' = [xmit EXCEPT ![g] = @ - 1])
    BY <1>0, Zenon DEF Serves
  <2> QED BY <2>1, <2>2, <2>3
<1>6. \A h \in Guest : h # g => /\ IER'[h] = IER[h] /\ status'[h] = status[h]
                                /\ scheduled'[h] = scheduled[h] /\ rxbuf'[h] = rxbuf[h]
  <2>1. CASE uartVars' = uartVars
    BY <2>1 DEF uartVars
  <2>2. CASE readRBR(g)
    BY <1>1, <2>2 DEF readRBR, UartTypeOK
  <2>3. CASE writeTHR(g)
    BY <1>1, <2>3, Zenon DEF writeTHR, UartTypeOK
  <2>4. CASE \E post \in BOOLEAN : writeIER(g, IER[g] \ {"TX"}, post)
    BY <1>1, <2>4, EnableAt, Zenon
  <2> QED BY <1>0, <2>1, <2>2, <2>3, <2>4, Zenon DEF Serves, readLSR
<1>7. DriverTyped'
  BY <1>1, <1>2, <1>4, <1>5 DEF DriverTyped
<1>8. \A h \in Guest : h # g => pc'[h] = pc[h] /\ xmit'[h] = xmit[h]
  BY <1>1, <1>4, <1>5 DEF DriverTyped
<1>9. \A h \in Guest : h # g => Same(h)
  BY <1>1, <1>2, <1>6, <1>8, Zenon DEF Same
<1> QED BY <1>0, <1>3, <1>7, <1>9

(* The handler serves the port: it reads all bytes before it stops looking   *)
(* at them, and disables the transmit interrupt only when nothing is left.   *)
LEMMA ServesDrives ==
  ASSUME CInv, NEW c \in Cpu, Serves(c)
  PROVE  Driver'
<1>0. PICK g \in Guest : g = QR0[c]
  BY LDomsAssumption
<1>1. /\ UartTypeOK /\ Started /\ Driver /\ DriverTyped /\ Waiting(g)
      /\ OnTheWay(g) => OnTheWay(g)'
      /\ xmit[g] \in Nat
  BY <1>0, ServesKeeps, Zenon DEF CInv, IInv, Driver, DriverTyped
<1>2. DriverTyped' /\ (Ready(g)' <=> Ready(g)) /\ \A h \in Guest : h # g => Same(h)
  BY <1>0, ServesAt
<1> SUFFICES Waiting(g)'
  BY <1>1, <1>2, DriverAt
<1>3. ASSUME Again(c) PROVE pc'[g] \in {"idle", "iir"}
  BY <1>0, <1>1, <1>3, Zenon DEF Again, DriverTyped
<1>4. CASE pc[g] = "lsr" /\ xmit' = xmit
           /\ \E dr \in BOOLEAN :
                /\ readLSR(g, dr)
                /\ pc' = [pc EXCEPT ![g] = IF dr THEN "rbr"
                                           ELSE IF xmit[g] > 0 THEN "thr" ELSE "ier"]
  <2>1. IER' = IER /\ rxbuf' = rxbuf
    BY <1>4 DEF readLSR, uartVars
  <2>2. \/ pc'[g] = "rbr"
        \/ ~(rxbuf[g] > 0) /\ pc'[g] = IF xmit[g] > 0 THEN "thr" ELSE "ier"
    BY <1>1, <1>4, Zenon DEF readLSR, DriverTyped
  <2>3. xmit'[g] > 0 => "TX" \in IER'[g] /\ Ready(g)'
    BY <1>1, <1>2, <1>4, <2>1, Zenon DEF Waiting
  <2>4. (pc'[g] = "ier" => xmit'[g] = 0) /\ (pc'[g] = "thr" => xmit'[g] > 0)
    BY <1>1, <1>4, <2>2
  <2>5. ~(pc'[g] \in {"idle", "iir"}) /\ ~(pc'[g] \notin {"lsr", "rbr"} /\ rxbuf'[g] > 0)
    BY <2>1, <2>2
  <2> QED BY <2>3, <2>4, <2>5, Zenon DEF Waiting
<1>5. CASE pc[g] = "rbr" /\ readRBR(g) /\ pc' = [pc EXCEPT ![g] = "lsr"] /\ xmit' = xmit
  <2>1. IER' = IER /\ pc'[g] = "lsr"
    BY <1>1, <1>5, Zenon DEF readRBR, DriverTyped
  <2>2. xmit'[g] > 0 => "TX" \in IER'[g] /\ Ready(g)'
    BY <1>1, <1>2, <1>5, <2>1, Zenon DEF Waiting
  <2> QED BY <2>1, <2>2 DEF Waiting
<1>6. CASE /\ pc[g] = "thr" /\ writeTHR(g) /\ xmit' = [xmit EXCEPT ![g] = @ - 1]
           /\ IF xmit[g] = 1 THEN pc' = [pc EXCEPT ![g] = "ier"] ELSE Again(c)
  <2>1. xmit[g] > 0 /\ "TX" \in IER[g] /\ Ready(g)
    BY <1>1, <1>6, Zenon DEF Waiting
  <2>2. ~LCR[g]
    BY <1>1, <2>1, EnabledPort
  <2>3. IER' = IER /\ rxbuf' = rxbuf /\ scheduled'[g] = scheduled[g] \cup {"TX"}
    BY <1>1, <1>6, <2>1, <2>2, Zenon DEF writeTHR, UartTypeOK
  <2>4. xmit'[g] = xmit[g] - 1
    BY <1>1, <1>6 DEF DriverTyped
  <2>5. (pc'[g] = "ier" /\ xmit[g] = 1) \/ pc'[g] \in {"idle", "iir"}
    BY <1>1, <1>3, <1>6 DEF DriverTyped
  <2>6. rxbuf'[g] > 0 /\ "RX" \in IER'[g] => "RX" \in scheduled'[g] \/ OnTheWay(g)'
    BY <1>1, <1>6, <2>3, Zenon DEF Waiting
  <2>7. (pc'[g] = "ier" => xmit'[g] = 0) /\ pc'[g] # "thr"
    BY <1>1, <2>4, <2>5
  <2>8. "TX" \in IER'[g] /\ Ready(g)' /\ "TX" \in scheduled'[g]
    BY <1>2, <2>1, <2>3
  <2> QED BY <2>6, <2>7, <2>8 DEF Waiting
<1>7. CASE /\ pc[g] = "ier" /\ Again(c) /\ xmit' = xmit
           /\ IF "TX" \in IER[g]
                THEN \E post \in BOOLEAN : writeIER(g, IER[g] \ {"TX"}, post) /\ Posts(g, post)
                ELSE UNCHANGED <<uartVars, ioapicVars>>
  <2>1. xmit'[g] = 0 /\ pc'[g] \in {"idle", "iir"}
    BY <1>1, <1>3, <1>7, Zenon DEF Waiting
  <2>2. /\ "TX" \notin IER'[g]
        /\ rxbuf'[g] > 0 /\ "RX" \in IER'[g] => "RX" \in scheduled'[g] \/ OnTheWay(g)'
    <3>1. CASE "TX" \in IER[g]
      <4>1. PICK post \in BOOLEAN : writeIER(g, IER[g] \ {"TX"}, post)
        BY <1>7, <3>1
      <4>2. ~LCR[g]
        BY <1>1, <3>1, EnabledPort
      <4>3. ~post
        BY <4>1, Zenon DEF writeIER
      <4>4. IER[g] \ {"TX"} \in SUBSET Bit
        BY <1>1 DEF UartTypeOK
      <4>5. /\ IER'[g] = IER[g] \ {"TX"}
            /\ rxbuf'[g] > 0 /\ "RX" \in IER'[g] => "RX" \in scheduled'[g]
        BY <1>1, <4>1, <4>2, <4>3, <4>4, EnableWaits, Zenon
      <4> QED BY <4>5
    <3>2. CASE "TX" \notin IER[g]
      <4>1. IER' = IER /\ rxbuf' = rxbuf /\ scheduled' = scheduled
        BY <1>7, <3>2 DEF uartVars
      <4> QED BY <1>1, <1>7, <3>2, <4>1, Zenon DEF Waiting
    <3> QED BY <3>1, <3>2
  <2>3. ~(xmit'[g] > 0) /\ pc'[g] # "ier" /\ pc'[g] # "thr"
    BY <2>1
  <2> QED BY <2>1, <2>2, <2>3 DEF Waiting
<1> QED BY <1>0, <1>4, <1>5, <1>6, <1>7, Zenon DEF Serves

(* What waits is announced.                                                  *)
LEMMA DriverKept == ASSUME CInv, Next PROVE Driver'
<1>1. ASSUME NEW c \in Cpu, Delivers(c) \/ Takes(c) \/ Ends(c) PROVE Driver'
  <2>1. \A h \in Guest : OnTheWay(h) => OnTheWay(h)'
    BY <1>1, DeliversKeeps, TakesKeeps, EndsKeeps
  <2>2. UNCHANGED <<uartVars, pc, xmit, scenario, made, written>>
    BY <1>1, Zenon DEF Delivers, Takes, Ends, driverVars, scenarioVars
  <2>3. Driver
    BY DEF CInv
  <2> QED BY <2>1, <2>2, <2>3, DriverSame
<1>2. ASSUME NEW c \in Cpu, Runs(c) PROVE Driver'
  BY <1>1, <1>2, IdentifiesDrives, ServesDrives DEF Runs, Handles
<1> QED BY <1>2, SetupDrives, WritesDrives, TypesDrives, FiresDrives, TimeDrives DEF Next

-----------------------------------------------------------------------------
(* It holds at the start, when nothing has been programmed.                  *)
LEMMA StartsRight == ASSUME Init PROVE CInv
<1>1. IInv
  BY Inductive DEF Init
<1>2. IoApicTypeOK
  BY TableStarts DEF Init
<1>3. LInv
  BY DEF Init, LocalApicInit, LInv, LocalApicTypeOK, HighestExact, findRegArrayMSB
<1>4. Started
  <2>1. /\ scenario \in Scenarios /\ made \in [Guest -> Nat]
        /\ pinStates[TimerLine] = FALSE
    BY IoApicAssumption, Zenon DEF Init, IoApicInit
  <2>2. ASSUME NEW g \in Guest PROVE Along(g)
    <3>1. made[g] = 0 /\ 1..made[g] = {}
      BY DEF Init
    <3>2. \A l, half : ~Has(g, half, l)
      BY <3>1 DEF Has
    <3>3. made[g] <= Len(scenario.setup[g]) /\ ~(made[g] > 0)
      <4>1. Len(scenario.setup[g]) \in Nat
        BY <2>1, ConsoleAssumption, Zenon
      <4> QED BY <3>1, <4>1
    <3>4. redirTable[g][TimerLine].bottom.mask
      BY IoApicAssumption, Zenon DEF Init, IoApicInit
    <3>5. IER[g] = {} /\ ~LCR[g]
      BY DEF Init, UartInit
    <3> QED BY <3>2, <3>3, <3>4, <3>5, Zenon DEF Along
  <2> QED BY <2>1, <2>2 DEF Started
<1>5. Home
  <2>1. msgs = [c \in Cpu |-> <<>>]
    BY Zenon DEF Init, IoApicInit
  <2>2. \A c \in Cpu : Len(msgs[c]) = 0
    BY <2>1
  <2> QED BY <2>2 DEF Home
<1>6. Nested
  <2>1. stack = [c \in Cpu |-> <<>>] /\ isr = [c \in Cpu |-> {}]
    BY DEF Init, LocalApicInit
  <2>2. stack \in [Cpu -> Seq(Handler)] /\ \A c \in Cpu : Len(stack[c]) = 0 /\ isr[c] = {}
    BY <2>1
  <2> QED BY <2>2 DEF Nested, Nest
<1>7. Driver
  <2>1. pc = [g \in Guest |-> "idle"] /\ xmit = [g \in Guest |-> 0] /\ written = [g \in Guest |-> 0]
    BY DEF Init
  <2>2. \A g \in Guest : IER[g] = {} /\ rxbuf[g] = 0
    BY Zenon DEF Init, UartInit
  <2>3. ASSUME NEW g \in Guest PROVE Waiting(g)
    <3>1. IER[g] = {} /\ xmit[g] = 0 /\ pc[g] = "idle"
      BY <2>1, <2>2
    <3>2. ~(xmit[g] > 0) /\ pc[g] # "ier" /\ pc[g] # "thr" /\ "RX" \notin IER[g] /\ "TX" \notin IER[g]
      BY <3>1
    <3> QED BY <3>2 DEF Waiting
  <2> QED BY <2>1, <2>3 DEF Driver
<1> QED BY <1>1, <1>2, <1>3, <1>4, <1>5, <1>6, <1>7 DEF CInv

(* Nothing but the state tells whether it holds.                             *)
LEMMA CInvStays == ASSUME CInv, UNCHANGED vars PROVE CInv'
<1>1. /\ UNCHANGED <<uartVars, ioapicVars, lapicVars>>
      /\ UNCHANGED <<pc, xmit, stack, scenario, made, written>>
  BY DEF vars, driverVars, scenarioVars
<1>2. IInv' /\ IoApicTypeOK' /\ LInv'
  BY <1>1, Zenon DEF CInv, IInv, UartTypeOK, InputNoticed, OnlyEnabled, IoApicTypeOK, LInv,
       LocalApicTypeOK, HighestExact, uartVars, ioapicVars, lapicVars
<1>3. Started'
  <2>1. /\ scenario' = scenario /\ made' = made /\ redirTable' = redirTable
        /\ regSel' = regSel /\ pinStates' = pinStates /\ LCR' = LCR /\ IER' = IER
    BY <1>1 DEF uartVars, ioapicVars
  <2> QED BY <2>1, SetupStays DEF CInv
<1>4. Home' /\ Nested'
  BY <1>1, Zenon DEF CInv, Home, Nested, Nest, ioapicVars, lapicVars
<1>5. Driver'
  <2>1. \A h \in Guest : OnTheWay(h) => OnTheWay(h)'
    BY <1>1, Zenon DEF OnTheWay, ioapicVars, lapicVars
  <2>2. Driver
    BY DEF CInv
  <2> QED BY <1>1, <2>1, <2>2, DriverSame
<1> QED BY <1>2, <1>3, <1>4, <1>5 DEF CInv

(* The whole way keeps its inductive invariant.                              *)
THEOREM WayInvariant == Spec => []CInv
<1>1. Init => CInv
  BY StartsRight
<1>2. CInv /\ [Next]_vars => CInv'
  <2>1. ASSUME CInv, Next PROVE CInv'
    BY <2>1, PartsKept, NestedKept, DriverKept DEF CInv
  <2> QED BY <2>1, CInvStays
<1> QED BY <1>1, <1>2, PTL DEF Spec

(* While the driver is not looking, the bytes that were typed and those that *)
(* software has to send are announced by an interrupt on its way, or by one  *)
(* that the port will send, whatever the order of typing, reading, writing,  *)
(* giving up and restarting (read, write, dataAvailable, process).           *)
THEOREM AlwaysAnnounced == Spec => []Announced
<1>1. CInv => Announced
  <2> SUFFICES ASSUME CInv, NEW g \in Guest, pc[g] = "idle"
               PROVE  /\ rxbuf[g] > 0 /\ "RX" \in IER[g] => "RX" \in scheduled[g] \/ OnTheWay(g)
                      /\ xmit[g] > 0 => "TX" \in scheduled[g] \/ OnTheWay(g)
    BY DEF Announced
  <2>1. Waiting(g)
    BY DEF CInv, Driver
  <2> QED BY <2>1 DEF Waiting
<1> QED BY <1>1, WayInvariant, PTL

(* Interrupts are on their way to processors of their own LDom only.         *)
THEOREM InterruptsApart == Spec => []LDomsApart
<1>1. CInv => LDomsApart
  BY DEF CInv, Home, LDomsApart
<1> QED BY <1>1, WayInvariant, PTL

(* The vectors in service are those of the handlers a processor is in, and   *)
(* an EOI ends the innermost of them (updateIntrInfo, setReg).               *)
THEOREM HandlersAlwaysNest == Spec => []HandlersNest
<1>1. CInv => HandlersNest
  <2> SUFFICES ASSUME CInv, NEW c \in Cpu
               PROVE  /\ isr[c] = {stack[c][i].vector : i \in 1..Len(stack[c])}
                      /\ stack[c] # <<>> => ISRV[c] = stack[c][1].vector
    BY DEF HandlersNest
  <2>1. LInv /\ Nested
    BY DEF CInv
  <2> QED BY <2>1, Innermost, Zenon DEF Nested, Nest
<1> QED BY <1>1, WayInvariant, PTL

(* Drivers, timers and restarts use the ports and both interrupt controllers *)
(* as their own specifications allow: the composition implements all three.  *)
THEOREM WayImplements == Spec => ComponentSpecs
<1>1. Init => UartInit /\ IoApicInit /\ LocalApicInit
  BY DEF Init
<1>2. ASSUME CInv, [Next]_vars
      PROVE  [UartNext]_uartVars /\ [IoApicNext]_ioapicVars /\ [LocalApicNext]_lapicVars
  <2>1. CASE Next
    BY <1>2, <2>1, Moves DEF Moved
  <2>2. CASE UNCHANGED vars
    BY <2>2 DEF vars
  <2> QED BY <1>2, <2>1, <2>2
<1> QED BY <1>1, <1>2, WayInvariant, PTL
        DEF Spec, ComponentSpecs, UartSpec, IoApicSpec, LocalApicSpec

\* The counts of ticks, and the step of EveryTickSent.
TicksTyped == ticked \in [Guest -> Nat]
TickSent == \A g \in Guest : ticked'[g] > ticked[g] /\ ~Masked(g, TimerLine)
                               => \E c \in Cpus(g) : Len(msgs'[c]) > Len(msgs[c])

(* Every tick of a timer is sent to its LDom, although the timers share a    *)
(* pin (raiseInterruptPin, counterInterrupt).                                *)
THEOREM TicksAlwaysSent == Spec => EveryTickSent
<1>1. Init => TicksTyped
  BY DEF Init, TicksTyped
<1>2. ASSUME ticked \in [Guest -> Nat], NEW g \in Guest, Ticks(g)
      PROVE  ticked' \in [Guest -> Nat] /\ \A h \in Guest : h # g => ticked'[h] = ticked[h]
  BY <1>2 DEF Ticks
<1>3. [Next]_vars => ticked' = ticked \/ \E g \in Guest : Ticks(g)
  <2>1. ASSUME NEW c \in Cpu, Runs(c) PROVE ticked' = ticked
    BY <2>1, Zenon DEF Runs, Handles, Delivers, Takes, Identifies, Serves, Ends, driverVars, scenarioVars
  <2>2. ASSUME NEW g \in Guest,
               Setup(g) \/ Writes(g) \/ (\E n \in 1..BufLen : Types(g, n))
                 \/ (\E e \in Bit : Fires(g, e)) \/ Elapses(g)
        PROVE  ticked' = ticked
    BY <2>2, Zenon DEF Setup, Writes, Types, Fires, Elapses, driverVars, scenarioVars
  <2>3. Restarts \/ UNCHANGED vars => ticked' = ticked
    BY DEF Restarts, vars, driverVars, scenarioVars
  <2> QED BY <2>1, <2>2, <2>3 DEF Next
<1>4. TicksTyped /\ [Next]_vars => TicksTyped'
  BY <1>2, <1>3 DEF TicksTyped
<1>5. CInv /\ TicksTyped /\ [Next]_vars => [TickSent]_vars
  <2> SUFFICES ASSUME CInv, ticked \in [Guest -> Nat], [Next]_vars, NEW h \in Guest,
                      ticked'[h] > ticked[h], ~Masked(h, TimerLine)
               PROVE  \E c \in Cpus(h) : Len(msgs'[c]) > Len(msgs[c])
    BY DEF TickSent, TicksTyped
  <2>1. ticked[h] \in Nat /\ ticked'[h] # ticked[h]
    OBVIOUS
  <2>2. Ticks(h)
    BY <1>2, <1>3, <2>1
  <2>3. \E v \in Vector : Adds(h, v)
    BY <2>2, TickMoves
  <2> QED BY <2>3 DEF Adds
<1> QED BY <1>1, <1>4, <1>5, WayInvariant, PTL DEF Spec, EveryTickSent, TickSent
=============================================================================
