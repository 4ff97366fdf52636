--------------------------- MODULE DmaPortProofs ----------------------------
(***************************************************************************)
(* Proofs about the DMA port, for every line size, every number of events  *)
(* and transfers of every size: the packets of a transfer partition it, the *)
(* count of pending packets is exact, there is always exactly one wake-up  *)
(* for a list that is not empty, and a transfer completes with its last    *)
(* response whatever the order.                                             *)
(***************************************************************************)
EXTENDS DmaPort, FiniteSetTheorems, TLAPS

Packet == [event : Event, addr : Nat, size : Nat \ {0}]
ReqState == [tot : Nat, num : Nat]
Interval(p) == p.addr..p.addr + p.size - 1
Elems(list) == {list[i] : i \in 1..Len(list)}
Of(all, e) == {p \in all : p.event = e}
Cover(all, e) == UNION {Interval(p) : p \in Of(all, e)}

\* The packets queued and in flight are all different.
Sound(list, fl) ==
  /\ list \in Seq(Packet) /\ fl \subseteq Packet /\ IsFiniteSet(fl)
  /\ \A i, j \in 1..Len(list) : i # j => list[i] # list[j]
  /\ Elems(list) \cap fl = {}

(* The strengthening: packets of a transfer do not overlap, and what they    *)
(* cover is exactly what the transfer's state says is still to be acked.     *)
Served(all, rs) ==
  /\ \A p, q \in all : p # q /\ p.event = q.event => Interval(p) \cap Interval(q) = {}
  /\ \A e \in Event : rs[e] = NoState <=> Of(all, e) = {}
  /\ \A e \in Event : rs[e] # NoState =>
       /\ IsFiniteSet(Cover(all, e))
       /\ Cardinality(Cover(all, e)) = rs[e].tot - rs[e].num

\* A set of packets that cuts up one transfer (Packets).
Pieces(new, e, addr, size) ==
  /\ new \subseteq Packet /\ new # {} /\ \A p \in new : p.event = e
  /\ \A p, q \in new : p # q => Interval(p) \cap Interval(q) = {}
  /\ UNION {Interval(p) : p \in new} = addr..addr + size - 1

\* The transfers' states once one starts, and once a packet is answered.
Opened(rs, e, size) == [rs EXCEPT ![e] = [tot |-> size, num |-> 0]]
Closed(rs, p) ==
  LET s == Acked(rs[p.event], p) IN
  [rs EXCEPT ![p.event] = IF s.num = s.tot THEN NoState ELSE s]

-----------------------------------------------------------------------------
(* Division by the line size (Boundary, Lines).                              *)
LEMMA DivBounds ==
  ASSUME NEW a \in Nat, NEW L \in Nat \ {0}
  PROVE  a \div L \in Nat /\ (a \div L) * L <= a /\ a < (a \div L) * L + L
OBVIOUS

(* Lines further on start further on (Boundary).                             *)
LEMMA MulMono ==
  ASSUME NEW L \in Nat, NEW i \in Nat, NEW j \in Nat, i < j
  PROVE  i * L + L <= j * L
OBVIOUS

(* A later address is in no earlier line (Lines).                            *)
LEMMA DivMono ==
  ASSUME NEW a \in Nat, NEW b \in Nat, a <= b, NEW L \in Nat \ {0}
  PROVE  a \div L <= b \div L
<1> DEFINE q == a \div L  r == b \div L
<1>1. q \in Nat /\ r \in Nat /\ q * L <= a /\ b < r * L + L
  BY DivBounds
<1>2. q * L \in Nat /\ r * L \in Nat
  BY <1>1
<1>3. SUFFICES ASSUME r < q PROVE FALSE
  BY <1>1
<1>4. r * L + L <= q * L
  BY <1>1, <1>3, MulMono
<1> QED BY <1>1, <1>2, <1>4

(* The boundaries that the ChunkGenerator steps through begin with the start *)
(* of the range, end with its end, increase, and leave no unit out.          *)
LEMMA Boundaries ==
  ASSUME NEW addr \in Nat, NEW size \in Nat \ {0}
  PROVE  LET n == Lines(addr, size)  B(i) == Boundary(addr, size, i) IN
         /\ n \in Nat \ {0}
         /\ \A i \in 0..n : B(i) \in Nat
         /\ \A i, j \in 0..n : i < j => B(i) < B(j)
         /\ B(0) = addr /\ B(n) = addr + size
         /\ \A x \in addr..addr + size - 1 :
              \E i \in 1..n : B(i - 1) <= x /\ x < B(i)
<1> DEFINE L == LineSize
           last == addr + size - 1
           q == addr \div L
           r == last \div L
           n == Lines(addr, size)
           line(i) == (q + i) * L
           B(i) == Boundary(addr, size, i)
<1>0. L \in Nat \ {0} /\ last \in Nat /\ addr <= last /\ addr + size = last + 1
  BY DmaPortAssumption
<1>1. /\ q \in Nat /\ q * L <= addr /\ addr < q * L + L
      /\ r \in Nat /\ r * L <= last /\ last < r * L + L
      /\ q <= r
  BY <1>0, DivBounds, DivMono
<1>2. n = r - q + 1 /\ n \in Nat \ {0}
  BY <1>1 DEF Lines
<1>3. \A i \in Nat : line(i) \in Nat /\ B(i) = IF i = 0 THEN addr
        ELSE IF line(i) < addr + size THEN line(i) ELSE addr + size
  BY <1>0, <1>1 DEF Boundary
<1>4. \A i, j \in Nat : i < j => line(i) + L <= line(j)
  <2> SUFFICES ASSUME NEW i \in Nat, NEW j \in Nat, i < j
               PROVE  line(i) + L <= line(j)
    OBVIOUS
  <2>1. q + i \in Nat /\ q + j \in Nat /\ q + i < q + j
    BY <1>1
  <2> QED BY <2>1, <1>0, MulMono
<1>5. line(0) = q * L /\ line(r - q) = r * L /\ line(n) = (r + 1) * L
  BY <1>1, <1>2
<1>6. (r + 1) * L = r * L + L
  BY <1>0, <1>1
<1>7. B(0) = addr
  BY <1>3
<1> HIDE DEF line, B, n, q, r, L, last
<1>8. B(n) = addr + size
  <2>1. line(n) >= addr + size
    BY <1>0, <1>1, <1>5, <1>6
  <2> QED BY <2>1, <1>2, <1>3, <1>0
<1>9. \A i \in 1..n - 1 : B(i) = line(i) /\ line(i) <= last
  <2> SUFFICES ASSUME NEW i \in 1..n - 1 PROVE B(i) = line(i) /\ line(i) <= last
    OBVIOUS
  <2>0. i \in Nat /\ r - q \in Nat /\ i <= r - q
    BY <1>1, <1>2
  <2>1. line(i) <= line(r - q)
    <3>1. CASE i = r - q
      BY <3>1, <2>0, <1>3
    <3>2. CASE i < r - q
      <4>1. line(i) + L <= line(r - q)
        BY <3>2, <2>0, <1>4
      <4>2. line(i) \in Nat /\ line(r - q) \in Nat
        BY <2>0, <1>3
      <4> QED BY <4>1, <4>2, <1>0
    <3> QED BY <3>1, <3>2, <2>0
  <2>2. line(i) <= last
    BY <2>0, <2>1, <1>1, <1>3, <1>5, <1>0
  <2> QED BY <2>0, <2>2, <1>3, <1>0
<1>10. \A i \in 0..n : B(i) \in Nat
  BY <1>3, <1>2, <1>0
<1>11. \A i, j \in 0..n : i < j => B(i) < B(j)
  <2> SUFFICES ASSUME NEW i \in 0..n, NEW j \in 0..n, i < j PROVE B(i) < B(j)
    OBVIOUS
  <2>1. B(i) <= last
    BY <1>2, <1>7, <1>9, <1>0
  <2>2. CASE j = n
    BY <2>1, <2>2, <1>8, <1>0, <1>10
  <2>3. CASE j # n
    <3>1. j \in 1..n - 1 /\ B(j) = line(j)
      BY <2>3, <1>2, <1>9
    <3>2. CASE i = 0
      <4>1. line(0) + L <= line(j)
        BY <3>1, <1>4
      <4> QED BY <4>1, <3>1, <3>2, <1>5, <1>7, <1>1, <1>0, <1>3
    <3>3. CASE i # 0
      <4>1. B(i) = line(i) /\ line(i) + L <= line(j)
        <5>1. i \in 1..n - 1 /\ i \in Nat /\ j \in Nat
          BY <3>1, <3>3, <1>2
        <5> QED BY <5>1, <1>9, <1>4
      <4> QED BY <4>1, <3>1, <1>0, <1>3
    <3> QED BY <3>2, <3>3
  <2> QED BY <2>2, <2>3
<1>12. ASSUME NEW x \in addr..last
       PROVE  \E i \in 1..n : B(i - 1) <= x /\ x < B(i)
  <2> DEFINE s == x \div L
  <2>1. s \in Nat /\ s * L <= x /\ x < s * L + L
    BY <1>0, DivBounds
  <2>2. q <= s /\ s <= r
    BY <1>0, DivMono DEF q, r
  <2> DEFINE i == s - q + 1
  <2>3. i \in 1..n /\ i - 1 \in Nat
    BY <2>1, <2>2, <1>1, <1>2
  <2>4. line(i - 1) = s * L /\ line(i) = (s + 1) * L /\ (s + 1) * L = s * L + L
    BY <2>1, <1>0, <1>1 DEF line
  <2> HIDE DEF i, s
  <2>5. B(i - 1) <= x
    <3>1. CASE i - 1 = 0
      BY <3>1, <1>7, <1>0
    <3>2. CASE i - 1 # 0
      <4>1. i - 1 \in 1..n - 1
        BY <3>2, <2>3, <1>2
      <4> QED BY <4>1, <1>9, <2>1, <2>4
    <3> QED BY <3>1, <3>2
  <2>6. x < B(i)
    <3>1. CASE i = n
      BY <3>1, <1>8, <1>0
    <3>2. CASE i # n
      <4>1. i \in 1..n - 1
        BY <3>2, <2>3, <1>2
      <4> QED BY <4>1, <1>9, <2>1, <2>4
    <3> QED BY <3>1, <3>2
  <2> QED BY <2>3, <2>5, <2>6
<1> QED BY <1>2, <1>7, <1>8, <1>10, <1>11, <1>12 DEF B, n, last

(* The packets that dmaAction queues are different, do not overlap and       *)
(* cover the transfer.                                                       *)
LEMMA PacketsPartition ==
  ASSUME NEW e \in Event, NEW addr \in Nat, NEW size \in Nat \ {0}
  PROVE  LET new == Packets(e, addr, size) IN
         /\ new \in Seq(Packet) /\ Len(new) \in Nat \ {0}
         /\ \A i \in 1..Len(new) : new[i].event = e
         /\ \A i, j \in 1..Len(new) : i # j => Interval(new[i]) \cap Interval(new[j]) = {}
         /\ \A i, j \in 1..Len(new) : i # j => new[i] # new[j]
         /\ UNION {Interval(p) : p \in Elems(new)} = addr..addr + size - 1
<1> DEFINE n == Lines(addr, size)
           B(i) == Boundary(addr, size, i)
           new == Packets(e, addr, size)
<1>1. /\ n \in Nat \ {0}
      /\ \A i \in 0..n : B(i) \in Nat
      /\ \A i, j \in 0..n : i < j => B(i) < B(j)
      /\ B(0) = addr /\ B(n) = addr + size
      /\ \A x \in addr..addr + size - 1 :
           \E i \in 1..n : B(i - 1) <= x /\ x < B(i)
  BY Boundaries
<1>2. new = [i \in 1..n |-> [event |-> e, addr |-> B(i - 1), size |-> B(i) - B(i - 1)]]
  BY DEF Packets
<1> HIDE DEF n, B, new
<1>3. \A i \in 1..n : /\ i - 1 \in 0..n /\ i \in 0..n
                      /\ B(i - 1) \in Nat /\ B(i) \in Nat /\ B(i - 1) < B(i)
  BY <1>1
<1>4. \A i \in 1..n : /\ new[i] \in Packet /\ new[i].event = e
                      /\ Interval(new[i]) = B(i - 1)..B(i) - 1
  <2> SUFFICES ASSUME NEW i \in 1..n
               PROVE  /\ new[i] \in Packet /\ new[i].event = e
                      /\ Interval(new[i]) = B(i - 1)..B(i) - 1
    OBVIOUS
  <2>1. new[i] = [event |-> e, addr |-> B(i - 1), size |-> B(i) - B(i - 1)]
    BY <1>2
  <2>2. B(i - 1) \in Nat /\ B(i) - B(i - 1) \in Nat \ {0} /\ B(i) \in Nat
    BY <1>3
  <2>3. B(i - 1) + (B(i) - B(i - 1)) - 1 = B(i) - 1
    BY <2>2
  <2> QED BY <2>1, <2>2, <2>3 DEF Packet, Interval
<1>5. new \in Seq(Packet) /\ Len(new) = n
  BY <1>1, <1>2, <1>4
<1>6. ASSUME NEW i \in 1..n, NEW j \in 1..n, i # j
      PROVE  Interval(new[i]) \cap Interval(new[j]) = {}
  <2>1. \A a, b \in 1..n : a < b => B(a) <= B(b - 1)
    <3> SUFFICES ASSUME NEW a \in 1..n, NEW b \in 1..n, a < b PROVE B(a) <= B(b - 1)
      OBVIOUS
    <3>1. a \in 0..n /\ b - 1 \in 0..n /\ (a = b - 1 \/ a < b - 1)
      BY <1>1
    <3>2. B(a) \in Nat /\ B(b - 1) \in Nat
      BY <3>1, <1>1
    <3> QED BY <3>1, <3>2, <1>1
  <2>2. CASE i < j
    BY <2>1, <2>2, <1>3, <1>4
  <2>3. CASE j < i
    BY <2>1, <2>3, <1>3, <1>4
  <2> QED BY <1>6, <1>1, <2>2, <2>3
<1>7. ASSUME NEW i \in 1..n, NEW j \in 1..n, i # j
      PROVE  new[i] # new[j]
  <2>1. B(i - 1) \in Interval(new[i])
    BY <1>3, <1>4
  <2> QED BY <2>1, <1>6, <1>7
<1>8. UNION {Interval(p) : p \in Elems(new)} = addr..addr + size - 1
  <2>1. ASSUME NEW x \in addr..addr + size - 1
        PROVE  \E i \in 1..n : x \in Interval(new[i])
    <3>1. PICK i \in 1..n : B(i - 1) <= x /\ x < B(i)
      BY <1>1
    <3>2. x \in B(i - 1)..B(i) - 1
      BY <3>1, <1>3
    <3> QED BY <3>2, <1>4
  <2>2. ASSUME NEW i \in 1..n, NEW x \in Interval(new[i])
        PROVE  x \in addr..addr + size - 1
    <3>1. x \in B(i - 1)..B(i) - 1 /\ B(i - 1) \in Nat /\ B(i) \in Nat
      BY <1>3, <1>4
    <3>2. addr <= B(i - 1)
      <4>1. 0 \in 0..n /\ i - 1 \in 0..n /\ (i - 1 = 0 \/ 0 < i - 1)
        BY <1>1
      <4> QED BY <4>1, <1>1, <3>1
    <3>3. B(i) <= addr + size
      <4>1. n \in 0..n /\ i \in 0..n /\ (i = n \/ i < n)
        BY <1>1
      <4> QED BY <4>1, <1>1, <3>1
    <3> QED BY <3>1, <3>2, <3>3
  <2> QED BY <2>1, <2>2, <1>5 DEF Elems
<1> QED BY <1>1, <1>4, <1>5, <1>6, <1>7, <1>8 DEF new

-----------------------------------------------------------------------------
(* Sending the head moves it from the list to memory: nothing is lost.       *)
LEMMA Sends ==
  ASSUME NEW list, NEW fl, Sound(list, fl), list # <<>>
  PROVE  /\ Sound(Tail(list), fl \cup {Head(list)})
         /\ Elems(Tail(list)) \cup (fl \cup {Head(list)}) = Elems(list) \cup fl
         /\ Len(Tail(list)) + Cardinality(fl \cup {Head(list)})
              = Len(list) + Cardinality(fl)
         /\ Len(Tail(list)) = Len(list) - 1 /\ Len(list) \in Nat \ {0}
<1> DEFINE t == Tail(list)  h == Head(list)
<1>1. list \in Seq(Packet) /\ fl \subseteq Packet /\ IsFiniteSet(fl)
  BY DEF Sound
<1>2. /\ Len(list) \in Nat \ {0} /\ t \in Seq(Packet) /\ Len(t) = Len(list) - 1
      /\ h = list[1] /\ h \in Packet /\ \A i \in 1..Len(t) : t[i] = list[i + 1]
  BY <1>1
<1> HIDE DEF t, h
<1>3. Elems(list) = Elems(t) \cup {h}
  <2>1. ASSUME NEW x \in Elems(list) PROVE x \in Elems(t) \cup {h}
    <3>1. PICK i \in 1..Len(list) : x = list[i]
      BY DEF Elems
    <3>2. CASE i = 1
      BY <3>1, <3>2, <1>2
    <3>3. CASE i # 1
      <4>1. i - 1 \in 1..Len(t) /\ t[i - 1] = list[i]
        BY <3>3, <1>2
      <4> QED BY <4>1, <3>1 DEF Elems
    <3> QED BY <3>2, <3>3
  <2>2. ASSUME NEW x \in Elems(t) PROVE x \in Elems(list)
    <3>1. PICK i \in 1..Len(t) : x = t[i]
      BY DEF Elems
    <3>2. i + 1 \in 1..Len(list) /\ x = list[i + 1]
      BY <3>1, <1>2
    <3> QED BY <3>2 DEF Elems
  <2>3. h \in Elems(list)
    <3>1. 1 \in 1..Len(list)
      BY <1>2
    <3> QED BY <3>1, <1>2 DEF Elems
  <2> QED BY <2>1, <2>2, <2>3
<1>4. \A i, j \in 1..Len(t) : i # j => t[i] # t[j]
  <2> SUFFICES ASSUME NEW i \in 1..Len(t), NEW j \in 1..Len(t), i # j
               PROVE  t[i] # t[j]
    OBVIOUS
  <2>1. i + 1 \in 1..Len(list) /\ j + 1 \in 1..Len(list) /\ i + 1 # j + 1
    BY <1>2
  <2> QED BY <2>1, <1>2 DEF Sound
<1>5. h \notin Elems(t)
  <2> SUFFICES ASSUME NEW i \in 1..Len(t) PROVE t[i] # h
    BY DEF Elems
  <2>1. i + 1 \in 1..Len(list) /\ 1 \in 1..Len(list) /\ i + 1 # 1
    BY <1>2
  <2> QED BY <2>1, <1>2 DEF Sound
<1>6. h \notin fl /\ Elems(t) \cap fl = {}
  BY <1>3 DEF Sound
<1>7. IsFiniteSet(fl \cup {h}) /\ Cardinality(fl \cup {h}) = Cardinality(fl) + 1
  BY <1>1, <1>6, FS_AddElement
<1>8. Cardinality(fl) \in Nat
  BY <1>1, FS_CardinalityType
<1>9. Sound(t, fl \cup {h})
  BY <1>1, <1>2, <1>4, <1>5, <1>6, <1>7 DEF Sound
<1> QED BY <1>2, <1>3, <1>7, <1>8, <1>9 DEF t, h

(* Queueing packets that are neither queued nor in flight (queueDma).        *)
LEMMA Queues ==
  ASSUME NEW list, NEW fl, Sound(list, fl),
         NEW new \in Seq(Packet),
         \A i, j \in 1..Len(new) : i # j => new[i] # new[j],
         Elems(new) \cap (Elems(list) \cup fl) = {}
  PROVE  /\ Sound(list \o new, fl)
         /\ Elems(list \o new) = Elems(list) \cup Elems(new)
         /\ Len(list \o new) = Len(list) + Len(new)
         /\ Len(list) \in Nat /\ Len(new) \in Nat
<1> DEFINE s == list \o new  m == Len(list)  n == Len(new)
<1>1. /\ list \in Seq(Packet) /\ m \in Nat /\ n \in Nat
      /\ s \in Seq(Packet) /\ Len(s) = m + n
      /\ \A i \in 1..m + n : s[i] = IF i <= m THEN list[i] ELSE new[i - m]
  BY DEF Sound
<1> HIDE DEF s, m, n
<1>2. \A i \in 1..m : i \in 1..m + n /\ s[i] = list[i]
  BY <1>1
<1>3. \A i \in 1..n : i + m \in 1..m + n /\ s[i + m] = new[i]
  BY <1>1
<1>4. \A i \in 1..m + n : i \in 1..m \/ i - m \in 1..n
  BY <1>1
<1>5. Elems(list) = {list[i] : i \in 1..m} /\ Elems(new) = {new[i] : i \in 1..n}
      /\ Elems(s) = {s[i] : i \in 1..m + n}
  BY <1>1 DEF Elems, m, n
<1>6. Elems(s) = Elems(list) \cup Elems(new)
  <2>1. ASSUME NEW i \in 1..m + n PROVE s[i] \in Elems(list) \cup Elems(new)
    <3>1. CASE i \in 1..m
      BY <3>1, <1>2, <1>5
    <3>2. CASE i - m \in 1..n
      <4>1. s[i] = new[i - m]
        BY <3>2, <1>1
      <4> QED BY <4>1, <3>2, <1>5
    <3> QED BY <3>1, <3>2, <1>4
  <2> QED BY <2>1, <1>2, <1>3, <1>5
<1>7. \A i, j \in 1..m + n : i # j => s[i] # s[j]
  <2>0. \A i, j \in 1..m : i # j => list[i] # list[j]
    BY DEF Sound, m
  <2>1. \A i \in 1..m, j \in 1..n : list[i] # new[j]
    BY <1>5
  <2>2. \A i, j \in 1..n : i # j => new[i] # new[j]
    BY DEF n
  <2> SUFFICES ASSUME NEW i \in 1..m + n, NEW j \in 1..m + n, i # j
               PROVE  s[i] # s[j]
    OBVIOUS
  <2>3. CASE i <= m /\ j <= m
    BY <2>3, <1>1, <2>0
  <2>4. CASE i <= m /\ ~(j <= m)
    BY <2>4, <1>1, <2>1
  <2>5. CASE ~(i <= m) /\ j <= m
    BY <2>5, <1>1, <2>1, SMTT(20)
  <2>6. CASE ~(i <= m) /\ ~(j <= m)
    <3>1. i - m \in 1..n /\ j - m \in 1..n /\ i - m # j - m
      BY <2>6, <1>1
    <3> QED BY <3>1, <2>2, <2>6, <1>1
  <2> QED BY <2>3, <2>4, <2>5, <2>6
<1>8. Elems(s) \cap fl = {} /\ fl \subseteq Packet /\ IsFiniteSet(fl)
  BY <1>6 DEF Sound
<1>9. Sound(s, fl)
  BY <1>1, <1>7, <1>8 DEF Sound
<1> QED BY <1>1, <1>6, <1>9 DEF s, m, n

(* A transfer that starts is served by its packets, all of it (dmaAction).   *)
LEMMA Starts ==
  ASSUME NEW all, NEW rs, all \subseteq Packet,
         rs \in [Event -> ReqState \cup {NoState}], Served(all, rs),
         NEW e \in Event, rs[e] = NoState,
         NEW addr \in Nat, NEW size \in Nat \ {0},
         NEW new, Pieces(new, e, addr, size)
  PROVE  /\ Served(all \cup new, Opened(rs, e, size))
         /\ new \cap all = {}
<1> USE DEF Pieces, Opened
<1> DEFINE st == [tot |-> size, num |-> 0]
           rt == [rs EXCEPT ![e] = st]
<1>1. rt[e] = st /\ \A f \in Event : f # e => rt[f] = rs[f]
  OBVIOUS
<1>2. st # NoState /\ st.tot = size /\ st.num = 0
  BY DmaPortAssumption
<1>3. Of(all, e) = {}
  BY DEF Served
<1>4. Of(all \cup new, e) = new /\ \A f \in Event : f # e => Of(all \cup new, f) = Of(all, f)
  BY <1>3 DEF Of
<1>5. Cover(all \cup new, e) = addr..addr + size - 1
  BY <1>4 DEF Cover
<1>6. /\ IsFiniteSet(addr..addr + size - 1)
      /\ Cardinality(addr..addr + size - 1) = size
  <2>1. addr \in Int /\ addr + size - 1 \in Int /\ ~(addr > addr + size - 1)
        /\ addr + size - 1 - addr + 1 = size
    OBVIOUS
  <2> QED BY <2>1, FS_Interval
<1>7. \A f \in Event : f # e => Cover(all \cup new, f) = Cover(all, f)
  BY <1>4 DEF Cover
<1> HIDE DEF st, rt
<1>8. ASSUME NEW p \in all \cup new, NEW q \in all \cup new, p # q, p.event = q.event
      PROVE  Interval(p) \cap Interval(q) = {}
  <2>1. CASE p.event = e
    <3>1. p \in new /\ q \in new
      BY <2>1, <1>8, <1>3 DEF Of
    <3> QED BY <3>1, <1>8
  <2>2. CASE p.event # e
    <3>1. p \in all /\ q \in all
      BY <2>2, <1>8
    <3> QED BY <3>1, <1>8 DEF Served
  <2> QED BY <2>1, <2>2
<1>9. ASSUME NEW f \in Event
      PROVE  /\ rt[f] = NoState <=> Of(all \cup new, f) = {}
             /\ rt[f] # NoState =>
                  /\ IsFiniteSet(Cover(all \cup new, f))
                  /\ Cardinality(Cover(all \cup new, f)) = rt[f].tot - rt[f].num
  <2>1. CASE f = e
    <3>1. rt[f].tot - rt[f].num = size
      BY <2>1, <1>1, <1>2
    <3> QED BY <3>1, <2>1, <1>1, <1>2, <1>4, <1>5, <1>6
  <2>2. CASE f # e
    BY <2>2, <1>1, <1>4, <1>7 DEF Served
  <2> QED BY <2>1, <2>2
<1>10. Served(all \cup new, rt)
  BY <1>8, <1>9 DEF Served
<1>11. new \cap all = {}
  BY <1>3 DEF Of
<1> QED BY <1>10, <1>11 DEF rt, st

(* A packet covers as many units as its size says.                           *)
LEMMA IntervalSize ==
  ASSUME NEW p \in Packet
  PROVE  /\ IsFiniteSet(Interval(p)) /\ Cardinality(Interval(p)) = p.size
         /\ p.addr \in Interval(p)
<1> DEFINE a == p.addr  b == p.addr + p.size - 1
<1>1. p.addr \in Nat /\ p.size \in Nat \ {0} /\ Interval(p) = a..b
  BY DEF Packet, Interval
<1>2. a \in Int /\ b \in Int /\ ~(a > b) /\ b - a + 1 = p.size /\ a <= b
  BY <1>1
<1> HIDE DEF b
<1>3. IsFiniteSet(a..b) /\ Cardinality(a..b) = IF a > b THEN 0 ELSE b - a + 1
  BY <1>2, FS_Interval
<1> QED BY <1>1, <1>2, <1>3

(* A response leaves the rest of its transfer, and completes it exactly when *)
(* nothing is left (handleResp).                                             *)
LEMMA Answered ==
  ASSUME NEW all, NEW rs, all \subseteq Packet,
         rs \in [Event -> ReqState \cup {NoState}], Served(all, rs),
         NEW p \in all
  PROVE  /\ Served(all \ {p}, Closed(rs, p))
         /\ Closed(rs, p) \in [Event -> ReqState \cup {NoState}]
         /\ p.event \in Event /\ rs[p.event] # NoState
<1> USE DEF Closed
<1> DEFINE e == p.event
           s == Acked(rs[e], p)
           rt == [rs EXCEPT ![e] = IF s.num = s.tot THEN NoState ELSE s]
           C == Cover(all, e)
           D == Cover(all \ {p}, e)
<1>1. e \in Event /\ p.addr \in Nat /\ p.size \in Nat \ {0} /\ p \in Of(all, e)
  BY DEF Packet, Of
<1>2. rs[e] # NoState /\ rs[e] \in ReqState
  BY <1>1 DEF Served
<1>3. s = [tot |-> rs[e].tot, num |-> rs[e].num + p.size] /\ s \in ReqState
  BY <1>1, <1>2 DEF Acked, ReqState
<1>4. s # NoState /\ s.tot = rs[e].tot /\ s.num = rs[e].num + p.size
  BY <1>3, DmaPortAssumption DEF ReqState
<1>5. rs[e].tot \in Nat /\ rs[e].num \in Nat
  BY <1>2 DEF ReqState
<1>6. rt[e] = (IF s.num = s.tot THEN NoState ELSE s) /\ \A f \in Event : f # e => rt[f] = rs[f]
  BY <1>1
<1>7. rt \in [Event -> ReqState \cup {NoState}]
  BY <1>3
<1> HIDE DEF s, rt
<1>8. IsFiniteSet(C) /\ Cardinality(C) = rs[e].tot - rs[e].num
  BY <1>1, <1>2 DEF Served
<1>9. D = C \ Interval(p)
  <2>1. ASSUME NEW x \in D PROVE x \in C /\ x \notin Interval(p)
    <3>1. PICK q \in Of(all \ {p}, e) : x \in Interval(q)
      BY DEF Cover
    <3>2. q \in all /\ q # p /\ q.event = p.event /\ q \in Of(all, e)
      BY <3>1 DEF Of
    <3>3. Interval(q) \cap Interval(p) = {}
      BY <3>2 DEF Served
    <3> QED BY <3>1, <3>2, <3>3 DEF Cover
  <2>2. ASSUME NEW x \in C, x \notin Interval(p) PROVE x \in D
    <3>1. PICK q \in Of(all, e) : x \in Interval(q)
      BY DEF Cover
    <3>2. q \in Of(all \ {p}, e)
      BY <3>1, <2>2 DEF Of
    <3> QED BY <3>1, <3>2 DEF Cover
  <2> QED BY <2>1, <2>2
<1>10. C \cap Interval(p) = Interval(p)
  BY <1>1 DEF Cover
<1>11. IsFiniteSet(Interval(p)) /\ Cardinality(Interval(p)) = p.size
  BY IntervalSize
<1> HIDE DEF C, D
<1>12. IsFiniteSet(D) /\ Cardinality(D) = Cardinality(C) - p.size
  <2>1. /\ IsFiniteSet(C \ Interval(p))
        /\ Cardinality(C \ Interval(p)) = Cardinality(C) - Cardinality(C \cap Interval(p))
    BY <1>8, FS_Difference
  <2> QED BY <2>1, <1>9, <1>10, <1>11
<1>13. Cardinality(D) = s.tot - s.num
  BY <1>12, <1>8, <1>4, <1>5, <1>1
<1>14. s.num = s.tot <=> D = {}
  <2>1. s.tot \in Nat /\ s.num \in Nat
    BY <1>4, <1>5, <1>1
  <2>2. Cardinality(D) = 0 <=> D = {}
    BY <1>12, FS_EmptySet
  <2> QED BY <2>1, <2>2, <1>13
<1>15. D = {} <=> Of(all \ {p}, e) = {}
  <2>1. ASSUME NEW q \in Of(all \ {p}, e) PROVE q.addr \in D
    <3>1. q \in Packet
      BY DEF Of
    <3>2. q.addr \in Interval(q)
      BY <3>1, IntervalSize
    <3> QED BY <3>2 DEF D, Cover
  <2>2. ASSUME Of(all \ {p}, e) = {} PROVE D = {}
    BY <2>2 DEF D, Cover
  <2> QED BY <2>1, <2>2
<1>16. \A f \in Event : f # e => Of(all \ {p}, f) = Of(all, f)
  BY DEF Of
<1>17. \A f \in Event : f # e => Cover(all \ {p}, f) = Cover(all, f)
  BY <1>16 DEF Cover
<1>18. ASSUME NEW f \in Event
       PROVE  /\ rt[f] = NoState <=> Of(all \ {p}, f) = {}
              /\ rt[f] # NoState =>
                   /\ IsFiniteSet(Cover(all \ {p}, f))
                   /\ Cardinality(Cover(all \ {p}, f)) = rt[f].tot - rt[f].num
  <2>1. CASE f = e /\ s.num = s.tot
    BY <2>1, <1>6, <1>14, <1>15
  <2>2. CASE f = e /\ s.num # s.tot
    <3>1. rt[f] = s /\ Cover(all \ {p}, f) = D
      BY <2>2, <1>6 DEF D
    <3> QED BY <3>1, <2>2, <1>4, <1>12, <1>13, <1>14, <1>15
  <2>3. CASE f # e
    BY <2>3, <1>6, <1>16, <1>17 DEF Served
  <2> QED BY <2>1, <2>2, <2>3
<1>19. Served(all \ {p}, rt)
  BY <1>18 DEF Served
<1> QED BY <1>1, <1>2, <1>7, <1>19 DEF rt, s

-----------------------------------------------------------------------------
(* The inductive invariant.                                                  *)
All == Elems(transmitList) \cup inFlight

PInv ==
  /\ Sound(transmitList, inFlight)
  /\ reqState \in [Event -> ReqState \cup {NoState}]
  /\ Served(All, reqState)
  /\ scheduled \subseteq Event
  /\ \A e \in scheduled : reqState[e] = NoState
  /\ PendingExact
  /\ inRetry \in BOOLEAN /\ sendEvent \in BOOLEAN
  /\ OneWakeup
  /\ DrainHeard

(* Offering the head of a list to the bus keeps every packet, queued or in   *)
(* flight, and arms one wake-up if something is left (trySendTimingReq).     *)
LEMMA Tries ==
  ASSUME NEW list, NEW ok \in BOOLEAN, Sound(list, inFlight), list # <<>>,
         trySendTimingReq(list, ok)
  PROVE  /\ Sound(transmitList', inFlight')
         /\ All' = Elems(list) \cup inFlight
         /\ Len(transmitList') + Cardinality(inFlight') = Len(list) + Cardinality(inFlight)
         /\ inRetry' \in BOOLEAN /\ sendEvent' \in BOOLEAN
         /\ OneWakeup'
<1>1. /\ Sound(Tail(list), inFlight \cup {Head(list)})
      /\ Elems(Tail(list)) \cup (inFlight \cup {Head(list)}) = Elems(list) \cup inFlight
      /\ Len(Tail(list)) + Cardinality(inFlight \cup {Head(list)})
           = Len(list) + Cardinality(inFlight)
      /\ Len(Tail(list)) = Len(list) - 1 /\ Len(list) \in Nat \ {0}
  BY Sends
<1>2. CASE ok
  <2>1. transmitList' = Tail(list) /\ inFlight' = inFlight \cup {Head(list)}
    BY <1>2 DEF trySendTimingReq
  <2>2. ~inRetry' /\ (sendEvent' <=> Len(list) > 1)
    BY <1>2 DEF trySendTimingReq
  <2>5. inRetry' \in BOOLEAN /\ sendEvent' \in BOOLEAN
    BY Zenon DEF trySendTimingReq
  <2>3. Tail(list) = <<>> <=> ~(Len(list) > 1)
    <3> DEFINE t == Tail(list)
    <3>1. t \in Seq(Packet) /\ Len(t) = Len(list) - 1
      BY <1>1 DEF Sound
    <3> HIDE DEF t
    <3>2. t = <<>> <=> Len(t) = 0
      BY <3>1
    <3>0. Len(list) \in Nat \ {0}
      BY <1>1
    <3>3. \A n \in Nat \ {0} : n - 1 = 0 <=> ~(n > 1)
      OBVIOUS
    <3> QED BY <3>0, <3>1, <3>2, <3>3, Zenon DEF t
  <2>4. OneWakeup'
    BY <2>1, <2>2, <2>3, <2>5, Zenon DEF OneWakeup
  <2>6. Sound(transmitList', inFlight')
    BY <2>1, <1>1, Zenon
  <2>7. All' = Elems(list) \cup inFlight
    BY <2>1, <1>1, Zenon DEF All
  <2>8. Len(transmitList') + Cardinality(inFlight') = Len(list) + Cardinality(inFlight)
    BY <2>1, <1>1, Zenon
  <2> QED BY <2>4, <2>5, <2>6, <2>7, <2>8
<1>3. CASE ~ok
  <2>1. /\ transmitList' = list /\ inFlight' = inFlight
        /\ inRetry' = TRUE /\ sendEvent' = FALSE
    BY <1>3 DEF trySendTimingReq
  <2>2. OneWakeup'
    BY <2>1 DEF OneWakeup
  <2> QED BY <2>1, <2>2 DEF All
<1> QED BY <1>2, <1>3

(* A device that starts a transfer keeps the invariant (dmaAction).          *)
LEMMA DmaActionKeeps ==
  ASSUME PInv, NEW e \in Event, NEW addr \in 0..MaxAddr, NEW size \in Size,
         NEW ok \in BOOLEAN, reqState[e] = NoState, dmaAction(e, addr, size, ok),
         scheduled' \subseteq Event, \A f \in scheduled' : reqState'[f] = NoState
  PROVE  PInv'
<1> DEFINE new == Packets(e, addr, size)
           st == [tot |-> size, num |-> 0]
           list == transmitList \o new
<1>1. addr \in Nat /\ size \in Nat \ {0}
  BY DmaPortAssumption DEF Size
<1>2. /\ new \in Seq(Packet) /\ Len(new) \in Nat \ {0}
      /\ \A i \in 1..Len(new) : new[i].event = e
      /\ \A i, j \in 1..Len(new) : i # j => Interval(new[i]) \cap Interval(new[j]) = {}
      /\ \A i, j \in 1..Len(new) : i # j => new[i] # new[j]
      /\ UNION {Interval(p) : p \in Elems(new)} = addr..addr + size - 1
  BY <1>1, PacketsPartition, ZenonT(40)
<1>3. /\ reqState' = [reqState EXCEPT ![e] = st]
      /\ pendingCount' = pendingCount + Len(new)
      /\ sendDma(list, ok)
      /\ drainManager' = drainManager
  BY DEF dmaAction
<1> HIDE DEF new
<1>4. /\ Elems(new) \subseteq Packet /\ Elems(new) # {}
      /\ \A p \in Elems(new) : p.event = e
      /\ \A p, q \in Elems(new) : p # q => Interval(p) \cap Interval(q) = {}
  <2>1. 1 \in 1..Len(new) /\ \A i \in 1..Len(new) : new[i] \in Packet
    BY <1>2
  <2>2. Elems(new) \subseteq Packet /\ Elems(new) # {}
    BY <2>1 DEF Elems
  <2>3. \A p \in Elems(new) : p.event = e
    BY <1>2 DEF Elems
  <2>4. ASSUME NEW p \in Elems(new), NEW q \in Elems(new), p # q
        PROVE  Interval(p) \cap Interval(q) = {}
    <3>1. PICK i \in 1..Len(new) : p = new[i]
      BY DEF Elems
    <3>2. PICK j \in 1..Len(new) : q = new[j]
      BY DEF Elems
    <3> QED BY <3>1, <3>2, <2>4, <1>2
  <2> QED BY <2>2, <2>3, <2>4
<1>5. Sound(transmitList, inFlight) /\ Served(All, reqState)
      /\ reqState \in [Event -> ReqState \cup {NoState}] /\ All \subseteq Packet
  <2>1. \A i \in 1..Len(transmitList) : transmitList[i] \in Packet
    BY DEF PInv, Sound
  <2> QED BY <2>1 DEF PInv, Sound, All, Elems
<1>6. Served(All \cup Elems(new), reqState') /\ Elems(new) \cap All = {}
  <2> DEFINE all == All  set == Elems(new)  rs == reqState
  <2>1. Pieces(set, e, addr, size)
    BY <1>2, <1>4 DEF Pieces
  <2>2. /\ rs[e] = NoState /\ all \subseteq Packet /\ Served(all, rs)
        /\ rs \in [Event -> ReqState \cup {NoState}]
    BY <1>5
  <2> HIDE DEF all, set, rs
  <2>3. Served(all \cup set, Opened(rs, e, size)) /\ set \cap all = {}
    BY <1>1, <2>1, <2>2, Starts
  <2> QED BY <2>3, <1>3 DEF all, set, rs, Opened
<1>7. /\ Sound(list, inFlight) /\ Elems(list) = Elems(transmitList) \cup Elems(new)
      /\ Len(list) = Len(transmitList) + Len(new)
      /\ Len(transmitList) \in Nat
  BY <1>2, <1>5, <1>6, Queues DEF All
<1> HIDE DEF list
<1>8. list # <<>>
  <2>1. list \in Seq(Packet)
    BY <1>7 DEF Sound
  <2> QED BY <2>1, <1>7, <1>2
<1>9. /\ Sound(transmitList', inFlight')
      /\ All' = Elems(list) \cup inFlight
      /\ Len(transmitList') + Cardinality(inFlight') = Len(list) + Cardinality(inFlight)
      /\ inRetry' \in BOOLEAN /\ sendEvent' \in BOOLEAN
      /\ OneWakeup'
  <2>1. CASE inRetry \/ sendEvent
    <3>1. transmitList' = list /\ inFlight' = inFlight /\ inRetry' = inRetry
          /\ sendEvent' = sendEvent
      BY <2>1, <1>3 DEF sendDma
    <3>2. inRetry # sendEvent
      BY <2>1 DEF PInv, OneWakeup
    <3>3. OneWakeup'
      BY <3>1, <3>2, <1>8 DEF OneWakeup
    <3> QED BY <3>1, <3>3, <1>7 DEF All, PInv
  <2>2. CASE ~(inRetry \/ sendEvent)
    <3>1. trySendTimingReq(list, ok)
      BY <2>2, <1>3 DEF sendDma
    <3> QED BY <3>1, <1>7, <1>8, Tries
  <2> QED BY <2>1, <2>2
<1>10. Cardinality(inFlight) \in Nat
  BY <1>5, FS_CardinalityType DEF Sound
<1>11. PendingExact'
  BY <1>3, <1>7, <1>9, <1>10, <1>2 DEF PInv, PendingExact
<1>12. DrainHeard'
  <2>1. pendingCount' # 0
    BY <1>3, <1>7, <1>10, <1>2 DEF PInv, PendingExact
  <2> QED BY <2>1 DEF DrainHeard
<1>13. All' = All \cup Elems(new)
  BY <1>7, <1>9 DEF All
<1>14. Served(All, reqState)'
  BY <1>6, <1>13
<1>15. reqState' \in [Event -> ReqState \cup {NoState}]
  <2>1. st \in ReqState
    BY <1>1 DEF ReqState
  <2> QED BY <2>1, <1>3, <1>5
<1> QED BY <1>9, <1>11, <1>12, <1>14, <1>15 DEF PInv

(* A response keeps the invariant (handleResp).                              *)
LEMMA RespKeeps ==
  ASSUME PInv, NEW p \in inFlight, RecvTimingResp(p)
  PROVE  PInv'
<1> DEFINE s == Acked(reqState[p.event], p)
           done == s.num = s.tot
<1>1. /\ inFlight' = inFlight \ {p} /\ pendingCount' = pendingCount - 1
      /\ reqState' = [reqState EXCEPT ![p.event] = IF done THEN NoState ELSE s]
      /\ scheduled' = IF done THEN scheduled \cup {p.event} ELSE scheduled
      /\ drainManager' = (drainManager /\ pendingCount' # 0)
      /\ transmitList' = transmitList /\ inRetry' = inRetry /\ sendEvent' = sendEvent
  BY DEF RecvTimingResp, handleResp
<1>2. Sound(transmitList, inFlight) /\ Served(All, reqState)
      /\ reqState \in [Event -> ReqState \cup {NoState}] /\ All \subseteq Packet
      /\ p \in All
  <2>1. \A i \in 1..Len(transmitList) : transmitList[i] \in Packet
    BY DEF PInv, Sound
  <2> QED BY <2>1 DEF PInv, Sound, All, Elems
<1>3. /\ Served(All \ {p}, reqState')
      /\ reqState' \in [Event -> ReqState \cup {NoState}]
      /\ p.event \in Event /\ reqState[p.event] # NoState
  <2> DEFINE all == All  rs == reqState
  <2>0. /\ all \subseteq Packet /\ Served(all, rs) /\ p \in all
        /\ rs \in [Event -> ReqState \cup {NoState}]
    BY <1>2
  <2> HIDE DEF all, rs
  <2>1. /\ Served(all \ {p}, Closed(rs, p))
        /\ Closed(rs, p) \in [Event -> ReqState \cup {NoState}]
        /\ p.event \in Event /\ rs[p.event] # NoState
    BY <2>0, Answered
  <2>2. reqState' = Closed(rs, p)
    BY <1>1 DEF rs, Closed
  <2> QED BY <2>1, <2>2, Zenon DEF all, rs
<1>4. All' = All \ {p}
  BY <1>1, <1>2 DEF All, Sound
<1>5. Served(All, reqState)'
  BY <1>3, <1>4
<1>6. IsFiniteSet(inFlight) /\ IsFiniteSet(inFlight \ {p})
      /\ Cardinality(inFlight \ {p}) = Cardinality(inFlight) - 1
      /\ Cardinality(inFlight) \in Nat
  BY <1>2, FS_RemoveElement, FS_CardinalityType DEF Sound
<1>7. Sound(transmitList, inFlight)'
  BY <1>1, <1>2, <1>6 DEF Sound
<1>8. Len(transmitList) \in Nat
  BY <1>2 DEF Sound
<1>9. PendingExact'
  BY <1>1, <1>6, <1>8, SMTT(20) DEF PInv, PendingExact
<1>10. OneWakeup' /\ inRetry' \in BOOLEAN /\ sendEvent' \in BOOLEAN
  BY <1>1 DEF PInv, OneWakeup
<1>11. DrainHeard'
  BY <1>1 DEF DrainHeard
<1>12. scheduled' \subseteq Event /\ \A f \in scheduled' : reqState'[f] = NoState
  <2>1. scheduled \subseteq Event /\ \A f \in scheduled : reqState[f] = NoState
    BY DEF PInv
  <2>2. \A f \in scheduled : reqState'[f] = NoState
    BY <2>1, <1>1, <1>2, <1>3
  <2>3. done => reqState'[p.event] = NoState
    BY <1>1, <1>2, <1>3
  <2> HIDE DEF done
  <2> QED BY <2>1, <2>2, <2>3, <1>1, <1>3
<1> QED BY <1>3, <1>5, <1>7, <1>9, <1>10, <1>11, <1>12 DEF PInv

(* Every step of the port and of its device keeps the invariant.             *)
LEMMA PInvInductive == PInv /\ [PortNext]_dmaVars => PInv'
<1> SUFFICES ASSUME PInv, [PortNext]_dmaVars PROVE PInv'
  OBVIOUS
<1>0. Sound(transmitList, inFlight)
  BY DEF PInv
<1>1. CASE Device
  <2>1. scheduled' \subseteq Event /\ \A f \in scheduled' : reqState'[f] = NoState
    BY <1>1 DEF Device
  <2>2. CASE UNCHANGED portVars
    BY <2>1, <2>2 DEF PInv, portVars, All, PendingExact, OneWakeup, DrainHeard
  <2>3. CASE \E e \in Event, addr \in 0..MaxAddr, size \in Size, ok \in BOOLEAN :
               reqState[e] = NoState /\ dmaAction(e, addr, size, ok)
    <3>1. PICK e \in Event, addr \in 0..MaxAddr, size \in Size, ok \in BOOLEAN :
               reqState[e] = NoState /\ dmaAction(e, addr, size, ok)
      BY <2>3
    <3> QED BY <3>1, <2>1, DmaActionKeeps
  <2> QED BY <1>1, <2>2, <2>3 DEF Device
<1>2. CASE Drain
  BY <1>2 DEF Drain, PInv, All, PendingExact, OneWakeup, DrainHeard
<1>3. ASSUME NEW ok \in BOOLEAN, trySendTimingReq(transmitList, ok),
             transmitList # <<>>,
             UNCHANGED <<pendingCount, reqState, scheduled, drainManager>>
      PROVE  PInv'
  <2>1. /\ Sound(transmitList', inFlight')
        /\ All' = All
        /\ Len(transmitList') + Cardinality(inFlight')
             = Len(transmitList) + Cardinality(inFlight)
        /\ inRetry' \in BOOLEAN /\ sendEvent' \in BOOLEAN
        /\ OneWakeup'
    BY <1>0, <1>3, Tries DEF All
  <2>2. PendingExact' /\ DrainHeard'
    BY <1>3, <2>1 DEF PInv, PendingExact, DrainHeard
  <2>3. Served(All, reqState)'
    BY <1>3, <2>1 DEF PInv
  <2> QED BY <2>1, <2>2, <2>3, <1>3 DEF PInv
<1>4. CASE \E ok \in BOOLEAN : SendEvent(ok)
  <2>1. PICK ok \in BOOLEAN : SendEvent(ok)
    BY <1>4
  <2>2. transmitList # <<>> /\ ~inRetry
    BY <2>1 DEF PInv, OneWakeup, SendEvent
  <2> QED BY <2>1, <2>2, <1>3 DEF SendEvent
<1>5. CASE \E ok \in BOOLEAN : RecvRetry(ok)
  <2>1. PICK ok \in BOOLEAN : RecvRetry(ok)
    BY <1>5
  <2>2. transmitList # <<>>
    BY <2>1 DEF PInv, OneWakeup, RecvRetry
  <2> QED BY <2>1, <2>2, <1>3 DEF RecvRetry
<1>6. CASE \E p \in inFlight : RecvTimingResp(p)
  BY <1>6, RespKeeps
<1>7. CASE UNCHANGED dmaVars
  BY <1>7 DEF dmaVars, portVars, PInv, All, PendingExact, OneWakeup, DrainHeard
<1> QED BY <1>1, <1>2, <1>4, <1>5, <1>6, <1>7 DEF PortNext

(* The port that was just constructed satisfies the invariant.               *)
LEMMA PInvInit == PortInit /\ scheduled \subseteq Event => PInv
<1> SUFFICES ASSUME PortInit, scheduled \subseteq Event PROVE PInv
  OBVIOUS
<1>1. /\ transmitList = <<>> /\ inFlight = {} /\ Len(<<>>) = 0 /\ 1..0 = {}
      /\ <<>> \in Seq(Packet)
  BY DEF PortInit
<1>2. IsFiniteSet({}) /\ Cardinality({}) = 0
  BY FS_EmptySet
<1>3. Elems(transmitList) = {} /\ All = {}
  BY <1>1 DEF Elems, All
<1>4. Sound(transmitList, inFlight)
  BY <1>1, <1>2, <1>3 DEF Sound
<1>5. \A e \in Event : reqState[e] = NoState /\ Of(All, e) = {}
  BY <1>3 DEF PortInit, Of
<1>6. Served(All, reqState)
  BY <1>3, <1>5 DEF Served
<1>7. PendingExact /\ OneWakeup /\ DrainHeard
  BY <1>1, <1>2 DEF PortInit, PendingExact, OneWakeup, DrainHeard
<1>8. reqState \in [Event -> ReqState \cup {NoState}] /\ inRetry \in BOOLEAN
      /\ sendEvent \in BOOLEAN
  BY DEF PortInit
<1> QED BY <1>4, <1>5, <1>6, <1>7, <1>8 DEF PInv

(* The invariant holds throughout.                                           *)
LEMMA PInvAlways == PortSpec => []PInv
<1>1. PInv /\ [PortNext]_dmaVars => PInv'
  BY PInvInductive
<1> QED BY <1>1, PInvInit, PTL DEF PortSpec

-----------------------------------------------------------------------------
(* For any line size and any transfers: the count that the disks and the     *)
(* drain look at is the number of packets not yet answered (handleResp).     *)
THEOREM PendingAlwaysExact == PortSpec => []PendingExact
<1>1. PInv => PendingExact
  BY DEF PInv
<1> QED BY <1>1, PInvAlways, PTL

(* Exactly one of the retry and the send event is coming while the list is   *)
(* not empty: the list neither stalls nor is sent twice (trySendTimingReq).  *)
THEOREM AlwaysOneWakeup == PortSpec => []OneWakeup
<1>1. PInv => OneWakeup
  BY DEF PInv
<1> QED BY <1>1, PInvAlways, PTL

(* Whatever the line size, the alignment and the order of the responses, a   *)
(* transfer completes with its last response and not before (handleResp).    *)
THEOREM TransferCompletesWithLast == PortSpec => []CompletesWithLast
<1>1. PInv => CompletesWithLast
  <2> SUFFICES ASSUME PInv PROVE CompletesWithLast
    OBVIOUS
  <2>1. \A e \in Event : Outstanding(e) = Of(All, e)
    BY DEF Outstanding, Of, All, Queued, Elems
  <2> QED BY <2>1 DEF PInv, Served, CompletesWithLast
<1> QED BY <1>1, PInvAlways, PTL

(* A drain never waits for a port that has nothing pending (drain).          *)
THEOREM DrainAlwaysHeard == PortSpec => []DrainHeard
<1>1. PInv => DrainHeard
  BY DEF PInv
<1> QED BY <1>1, PInvAlways, PTL
=============================================================================
