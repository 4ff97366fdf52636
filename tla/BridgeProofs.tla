---------------------------- MODULE BridgeProofs ----------------------------
(***************************************************************************)
(* Proofs about Bridge for any set of packets and ports and any queue      *)
(* sizes.  None of the safety properties is inductive alone: that a credit *)
(* is there to be released when a response leaves needs exact credits,     *)
(* exact credits need to know that a packet is in one place only, and that *)
(* a packet object is not reused while it is inside needs its fields.      *)
(***************************************************************************)
EXTENDS Bridge, TLAPS, SequenceTheorems, FiniteSetTheorems, FunctionTheorems

-----------------------------------------------------------------------------
(* First-in first-out lists without repeated elements.                       *)

\* No element occurs twice in s.
Distinct(s) == \A i, j \in 1..Len(s) : s[i] = s[j] => i = j

(* Appending a new element to a list: what push_back does to it.             *)
LEMMA QueueAppend ==
  ASSUME NEW S, NEW s \in Seq(S), NEW x \in S
  PROVE  /\ Append(s, x) \in Seq(S)
         /\ Append(s, x) # <<>>
         /\ Len(Append(s, x)) = Len(s) + 1
         /\ Range(Append(s, x)) = Range(s) \cup {x}
         /\ Distinct(s) /\ x \notin Range(s) => Distinct(Append(s, x))
<1> DEFINE t == Append(s, x)
<1>1. /\ t \in Seq(S)
      /\ t # <<>>
      /\ Len(t) = Len(s) + 1
      /\ \A i \in 1..Len(s) : t[i] = s[i]
      /\ t[Len(s) + 1] = x
      /\ Len(s) \in Nat
  BY AppendProperties, LenProperties
<1>2. /\ Range(s) = {s[i] : i \in 1..Len(s)}
      /\ Range(t) = {t[i] : i \in 1..Len(t)}
  BY <1>1, RangeEquality
<1> HIDE DEF t
<1>3. Range(t) = Range(s) \cup {x}
  <2>1. ASSUME NEW y \in Range(t) PROVE y \in Range(s) \cup {x}
    <3>1. PICK i \in 1..Len(t) : y = t[i]
      BY <1>2
    <3>2. CASE i \in 1..Len(s)
      BY <1>1, <1>2, <3>1, <3>2
    <3>3. CASE i = Len(s) + 1
      BY <1>1, <3>1, <3>3
    <3> QED
      BY <1>1, <3>2, <3>3
  <2>2. ASSUME NEW y \in Range(s) PROVE y \in Range(t)
    <3>1. PICK i \in 1..Len(s) : y = s[i]
      BY <1>2
    <3>2. i \in 1..Len(t) /\ y = t[i]
      BY <1>1, <3>1
    <3> QED
      BY <1>2, <3>2
  <2>3. x \in Range(t)
    <3>1. Len(s) + 1 \in 1..Len(t)
      BY <1>1
    <3> QED
      BY <1>1, <1>2, <3>1
  <2> QED
    BY <2>1, <2>2, <2>3
<1>4. ASSUME Distinct(s), x \notin Range(s) PROVE Distinct(t)
  <2> SUFFICES ASSUME NEW i \in 1..Len(t), NEW j \in 1..Len(t), t[i] = t[j]
               PROVE  i = j
    BY DEF Distinct
  <2>1. \A k \in 1..Len(s) : t[k] # x
    BY <1>1, <1>2, <1>4
  <2>2. CASE i \in 1..Len(s) /\ j \in 1..Len(s)
    BY <1>1, <1>4, <2>2 DEF Distinct
  <2>3. CASE i = Len(s) + 1
    BY <1>1, <2>1, <2>3
  <2>4. CASE j = Len(s) + 1
    BY <1>1, <2>1, <2>4
  <2> QED
    BY <1>1, <2>2, <2>3, <2>4
<1> QED
  BY <1>1, <1>3, <1>4 DEF t

(* Removing the head of a list: what pop_front does to it.                   *)
LEMMA QueueTail ==
  ASSUME NEW S, NEW s \in Seq(S), s # <<>>
  PROVE  /\ Head(s) \in S
         /\ Head(s) \in Range(s)
         /\ Tail(s) \in Seq(S)
         /\ Len(s) \in Nat \ {0}
         /\ Len(Tail(s)) = Len(s) - 1
         /\ Distinct(s) => Distinct(Tail(s)) /\ Range(Tail(s)) = Range(s) \ {Head(s)}
<1> DEFINE t == Tail(s)
<1>1. /\ Head(s) \in S
      /\ Head(s) = s[1]
      /\ t \in Seq(S)
      /\ Len(t) = Len(s) - 1
      /\ \A i \in 1..Len(t) : t[i] = s[i + 1]
      /\ Len(s) \in Nat \ {0}
  BY HeadTailProperties, EmptySeq
<1>2. /\ Range(s) = {s[i] : i \in 1..Len(s)}
      /\ Range(t) = {t[i] : i \in 1..Len(t)}
  BY <1>1, RangeEquality, ZenonT(30)
<1>3. Head(s) \in Range(s)
  BY <1>1, <1>2
<1> HIDE DEF t
<1>4. ASSUME Distinct(s) PROVE Distinct(t)
  BY <1>1, <1>4 DEF Distinct
<1>5. ASSUME Distinct(s) PROVE Range(t) = Range(s) \ {Head(s)}
  <2>1. ASSUME NEW y \in Range(t) PROVE y \in Range(s) /\ y # Head(s)
    <3>1. PICK i \in 1..Len(t) : y = t[i]
      BY <1>2
    <3>2. i + 1 \in 1..Len(s) /\ y = s[i + 1] /\ i + 1 # 1 /\ 1 \in 1..Len(s)
      BY <1>1, <3>1
    <3> QED
      BY <1>1, <1>2, <1>5, <3>2 DEF Distinct
  <2>2. ASSUME NEW y \in Range(s), y # Head(s) PROVE y \in Range(t)
    <3>1. PICK i \in 1..Len(s) : y = s[i]
      BY <1>2
    <3>2. i - 1 \in 1..Len(t)
      BY <1>1, <2>2, <3>1
    <3>3. y = t[i - 1]
      BY <1>1, <3>1, <3>2
    <3> QED
      BY <1>2, <3>2, <3>3
  <2> QED
    BY <2>1, <2>2
<1> QED
  BY <1>1, <1>3, <1>4, <1>5 DEF t

(* A list without repeated elements has as many elements as its range.       *)
LEMMA QueueCardinality ==
  ASSUME NEW S, NEW s \in Seq(S), Distinct(s)
  PROVE  IsFiniteSet(Range(s)) /\ Cardinality(Range(s)) = Len(s)
<1>1. /\ Len(s) \in Nat
      /\ s \in [1..Len(s) -> S]
      /\ DOMAIN s = 1..Len(s)
  BY LenProperties
<1>2. s \in Surjection(1..Len(s), Range(s))
  BY <1>1, Fun_RangeProperties
<1>3. s \in Injection(1..Len(s), Range(s))
  BY <1>1, <1>2, SMTT(20) DEF Distinct, Injection, Surjection, IsInjective
<1>4. IsFiniteSet(1..Len(s)) /\ Cardinality(1..Len(s)) = Len(s)
  BY <1>1, FS_Interval
<1> QED
  BY <1>2, <1>3, <1>4, FS_Surjection

-----------------------------------------------------------------------------
\* Packets in the bridge or beyond it.
Inside == Range(reqList) \cup inService \cup Range(respList)

(* A packet is in one place: one of the lists, the far side, or held by the *)
(* upstream bus.                                                            *)
Placement ==
  /\ Distinct(reqList) /\ Distinct(respList)
  /\ Range(reqList) \cap inService = {}
  /\ Range(reqList) \cap Range(respList) = {}
  /\ inService \cap Range(respList) = {}
  /\ inService \subseteq NeedsResponse
  /\ Range(respList) \subseteq NeedsResponse
  /\ stalled \notin Inside
  /\ stalled = None <=> upstream = "idle"

(* The routing state on the packets: a packet in use has an issuer, and the *)
(* issuer can be recovered at each stage of the round trip.                 *)
Fields ==
  /\ \A p \in Inside : pkt[p].issuer \in Port
  /\ stalled # None => /\ pkt[stalled].issuer \in Port
                       /\ pkt[stalled].src = pkt[stalled].issuer
  /\ \A p \in (Range(reqList) \cap NeedsResponse) \cup inService :
       pkt[p].origSrc = pkt[p].issuer
  /\ ResponsesRouted

Credits ==
  /\ CreditsExact
  /\ outstandingResponses <= RespQueueLimit
  /\ Len(reqList) <= ReqQueueLimit

IInv == /\ TypeOK /\ Placement /\ Fields /\ Credits
        /\ WakeupExact /\ NoRetryLost /\ NoRequestInRetry

(* The sets a packet can be in contain packets, and those owed a response   *)
(* are finitely many.                                                       *)
LEMMA InsidePackets ==
  ASSUME TypeOK
  PROVE  /\ Range(reqList) \subseteq Packet
         /\ Range(respList) \subseteq Packet
         /\ Inside \subseteq Packet
         /\ None \notin Inside
         /\ IsFiniteSet(Owed) /\ Cardinality(Owed) \in Nat
<1>1. Range(reqList) \subseteq Packet /\ Range(respList) \subseteq Packet
  BY RangeOfSeq DEF TypeOK
<1>2. Inside \subseteq Packet /\ Owed \subseteq Packet /\ None \notin Packet
  BY <1>1, BridgeAssumption DEF TypeOK, Inside, Owed
<1>3. IsFiniteSet(Owed)
  BY <1>2, FS_Subset, BridgeAssumption
<1> QED
  BY <1>1, <1>2, <1>3, FS_CardinalityType

(* The constructors establish the invariant.                                *)
LEMMA InitIInv == Init => IInv
<1> SUFFICES ASSUME Init PROVE IInv
  OBVIOUS
<1>1. Deleted \in PktFields
  BY DEF Deleted, PktFields
<1>2. TypeOK
  <2>1. /\ pkt \in [Packet -> PktFields]
        /\ reqList \in Seq(Packet) /\ respList \in Seq(Packet)
        /\ outstandingResponses \in Nat
    BY <1>1, EmptySeq DEF Init
  <2> QED
    BY <2>1, Zenon DEF Init, TypeOK
<1>3. Len(reqList) = 0 /\ Len(respList) = 0
  BY DEF Init
<1>4. Range(reqList) = {} /\ Range(respList) = {}
  BY DEF Init, Range
<1>5. Placement
  BY <1>3, <1>4, BridgeAssumption DEF Placement, Init, Distinct, Inside
<1>6. Fields
  BY <1>4 DEF Fields, Init, ResponsesRouted, Inside
<1>7. Credits
  <2>1. Owed = {}
    BY <1>4 DEF Owed, Init
  <2>2. Cardinality(Owed) = 0
    BY <2>1, FS_EmptySet
  <2> QED
    BY <1>3, <2>2, BridgeAssumption DEF Credits, CreditsExact, Init
<1>8. WakeupExact /\ NoRetryLost /\ NoRequestInRetry
  BY DEF Init, WakeupExact, NoRetryLost, NoRequestInRetry
<1> QED
  BY <1>2, <1>5, <1>6, <1>7, <1>8 DEF IInv

(* recvTimingReq preserves the invariant, for a packet that is new to the   *)
(* bridge or that the upstream bus was holding for it.                      *)
LEMMA RecvTimingReqStep ==
  ASSUME IInv, NEW p \in Packet, NEW f \in PktFields,
         p \notin Inside, f.issuer \in Port, f.src = f.issuer,
         retryReq = FALSE,
         recvTimingReq(p, f),
         UNCHANGED <<respList, respSched, reqRefused, respRefused, inService>>
  PROVE  IInv'
<1> USE DEF IInv
<1>1. /\ Range(reqList) \subseteq Packet
      /\ Range(respList) \subseteq Packet
      /\ Inside \subseteq Packet
      /\ IsFiniteSet(Owed) /\ Cardinality(Owed) \in Nat
      /\ None \notin Packet
  BY InsidePackets, BridgeAssumption
<1>2. CASE reqQueueFull \/ (p \in NeedsResponse /\ respQueueFull)
  <2>1. /\ retryReq' = TRUE
        /\ pkt' = [pkt EXCEPT ![p] = f]
        /\ upstream' = "waiting" /\ stalled' = p
        /\ UNCHANGED <<reqList, respList, respSched, reqSched, inService,
                       reqRefused, respRefused, outstandingResponses>>
    BY <1>2 DEF recvTimingReq
  <2>2. TypeOK'
    BY <2>1 DEF TypeOK
  <2>3. Inside' = Inside /\ Owed' = Owed
    BY <2>1 DEF Inside, Owed
  <2>4. Placement'
    BY <1>1, <2>1, <2>3 DEF Placement
  <2>5. \A x \in Inside : pkt'[x] = pkt[x]
    BY <1>1, <2>1 DEF TypeOK
  <2>6. Fields'
    BY <1>1, <2>1, <2>3, <2>5 DEF Fields, ResponsesRouted, TypeOK, Inside
  <2>7. Credits' /\ WakeupExact'
    BY <2>1, <2>3 DEF Credits, CreditsExact, WakeupExact
  <2>8. NoRetryLost' /\ NoRequestInRetry'
    BY <1>2, <2>1 DEF NoRetryLost, NoRequestInRetry, reqQueueFull, respQueueFull
  <2> QED
    BY <2>2, <2>4, <2>6, <2>7, <2>8
<1>3. CASE ~(reqQueueFull \/ (p \in NeedsResponse /\ respQueueFull))
  <2> DEFINE g == IF p \in NeedsResponse THEN [f EXCEPT !.origSrc = f.src] ELSE f
             n == IF p \in NeedsResponse THEN 1 ELSE 0
  <2>1. /\ outstandingResponses' = outstandingResponses + n
        /\ pkt' = [pkt EXCEPT ![p] = g]
        /\ reqSched' = (reqSched \/ reqList = <<>>)
        /\ reqList' = Append(reqList, p)
        /\ upstream' = "idle" /\ stalled' = None
        /\ UNCHANGED <<respList, respSched, inService, reqRefused, respRefused,
                       retryReq>>
    BY <1>3 DEF recvTimingReq, schedTimingReq
  <2>2. /\ g \in PktFields
        /\ g.issuer \in Port
        /\ p \in NeedsResponse => g.origSrc = g.issuer
    BY DEF PktFields
  <2>3. /\ reqList' \in Seq(Packet) /\ reqList' # <<>>
        /\ Len(reqList') = Len(reqList) + 1
        /\ Range(reqList') = Range(reqList) \cup {p}
        /\ Distinct(reqList')
    <3>1. p \notin Range(reqList) /\ reqList \in Seq(Packet) /\ Distinct(reqList)
      BY DEF Inside, TypeOK, Placement
    <3> QED
      BY <2>1, <3>1, QueueAppend
  <2> HIDE DEF g
  <2>4. TypeOK'
    <3>1. pkt' \in [Packet -> PktFields]
      BY <2>1, <2>2 DEF TypeOK
    <3>2. outstandingResponses' \in Nat
      BY <2>1 DEF TypeOK
    <3>3. reqSched' \in BOOLEAN
      BY <2>1 DEF TypeOK
    <3> QED
      BY <2>1, <2>3, <3>1, <3>2, <3>3 DEF TypeOK
  <2>5. Inside' = Inside \cup {p}
    BY <2>1, <2>3 DEF Inside
  <2>6. Placement'
    BY <1>1, <2>1, <2>3, <2>5 DEF Placement, Inside
  <2>7. pkt'[p] = g /\ \A x \in Inside : pkt'[x] = pkt[x]
    BY <1>1, <2>1 DEF TypeOK
  <2>8. Fields'
    <3>1. \A x \in Inside' : pkt'[x].issuer \in Port
      BY <2>2, <2>5, <2>7 DEF Fields
    <3>2. \A x \in ((Range(reqList) \cap NeedsResponse) \cup inService)' :
            pkt'[x].origSrc = pkt'[x].issuer
      BY <2>1, <2>2, <2>3, <2>7 DEF Fields, Inside
    <3>3. ResponsesRouted'
      BY <2>1, <2>7 DEF Fields, ResponsesRouted, Inside
    <3> QED
      BY <2>1, <3>1, <3>2, <3>3 DEF Fields
  <2>9. Credits'
    <3>1. CASE p \in NeedsResponse
      <4>1. Owed' = Owed \cup {p} /\ p \notin Owed
        BY <2>1, <2>3, <3>1 DEF Owed, Inside
      <4>2. Cardinality(Owed') = Cardinality(Owed) + 1
        BY <1>1, <4>1, FS_AddElement, Zenon
      <4>3. outstandingResponses < RespQueueLimit /\ Len(reqList) < ReqQueueLimit
        BY <1>3, <3>1, BridgeAssumption, LenProperties
           DEF Credits, reqQueueFull, respQueueFull, TypeOK
      <4> QED
        BY <2>1, <2>3, <3>1, <4>2, <4>3, BridgeAssumption, LenProperties
           DEF Credits, CreditsExact, TypeOK
    <3>2. CASE p \notin NeedsResponse
      <4>1. Owed' = Owed
        BY <2>1, <2>3, <3>2 DEF Owed
      <4>2. Len(reqList) < ReqQueueLimit
        BY <1>3, BridgeAssumption, LenProperties DEF Credits, reqQueueFull, TypeOK
      <4> QED
        BY <2>1, <2>3, <3>2, <4>1, <4>2, BridgeAssumption, LenProperties
           DEF Credits, CreditsExact, TypeOK
    <3> QED
      BY <3>1, <3>2
  <2>10. WakeupExact'
    <3>0. reqSched' = (reqSched \/ reqList = <<>>) /\ reqRefused' = reqRefused
      BY <1>3 DEF recvTimingReq, schedTimingReq
    <3>1. CASE reqList = <<>>
      <4>1. ~reqRefused
        BY <3>1 DEF WakeupExact
      <4>2. reqSched'
        BY <3>0, <3>1, Zenon
      <4>3. ~reqRefused'
        BY <3>0, <4>1
      <4> QED
        BY <2>1, <2>3, <4>2, <4>3 DEF WakeupExact
    <3>2. CASE reqList # <<>>
      <4>1. reqSched' = reqSched /\ reqRefused' = reqRefused
        BY <2>1, <3>2 DEF TypeOK
      <4> QED
        BY <2>1, <2>3, <3>2, <4>1 DEF WakeupExact
    <3> QED
      BY <3>1, <3>2
  <2>11. NoRetryLost' /\ NoRequestInRetry'
    BY <2>1 DEF NoRetryLost, NoRequestInRetry
  <2> QED
    BY <2>4, <2>6, <2>8, <2>9, <2>10, <2>11
<1> QED
  BY <1>2, <1>3

(* A request the downstream bus takes, with the retry that follows it.      *)
LEMMA MasterAcceptedStep == IInv /\ MasterTrySendAccepted => IInv'
<1> SUFFICES ASSUME IInv, MasterTrySendAccepted PROVE IInv'
  OBVIOUS
<1> USE DEF IInv
<1> DEFINE p == Head(reqList)
<1>1. /\ reqList # <<>>
      /\ reqList' = Tail(reqList)
      /\ reqSched' = (Tail(reqList) # <<>>)
      /\ reqRefused' = FALSE
      /\ stalled' = stalled
      /\ UNCHANGED <<respList, respSched, outstandingResponses, respRefused>>
  BY DEF MasterTrySendAccepted, masterCalled, WakeupExact
<1>2. /\ p \in Packet /\ p \in Range(reqList)
      /\ reqList' \in Seq(Packet)
      /\ Len(reqList) \in Nat \ {0} /\ Len(reqList') = Len(reqList) - 1
      /\ Distinct(reqList') /\ Range(reqList') = Range(reqList) \ {p}
  <2>1. reqList \in Seq(Packet) /\ Distinct(reqList)
    BY DEF TypeOK, Placement
  <2> QED
    BY <1>1, <2>1, QueueTail
<1>3. /\ p \in NeedsResponse => /\ inService' = inService \cup {p}
                                /\ pkt' = [pkt EXCEPT ![p].src = FarPort]
      /\ p \notin NeedsResponse => /\ inService' = inService
                                   /\ pkt' = [pkt EXCEPT ![p] = Deleted]
  BY DEF MasterTrySendAccepted
<1>4. /\ retryReq' = FALSE
      /\ upstream' = (IF retryReq THEN "retry" ELSE upstream)
  BY DEF MasterTrySendAccepted, retryStalledReq, sendRetry, TypeOK
<1> HIDE DEF p
<1>5. /\ Range(reqList) \subseteq Packet /\ Range(respList) \subseteq Packet
      /\ Inside \subseteq Packet
  BY InsidePackets
<1>6. TypeOK'
  <2>1. pkt' \in [Packet -> PktFields]
    <3>1. CASE p \in NeedsResponse
      <4>1. [pkt[p] EXCEPT !.src = FarPort] \in PktFields
        BY <1>2, Zenon DEF TypeOK, PktFields
      <4> QED
        BY <1>2, <1>3, <3>1, <4>1, Zenon DEF TypeOK
    <3>2. CASE p \notin NeedsResponse
      BY <1>2, <1>3, <3>2 DEF TypeOK, PktFields, Deleted
    <3> QED
      BY <3>1, <3>2
  <2>2. inService' \subseteq Packet
    BY <1>2, <1>3 DEF TypeOK
  <2>3. upstream' \in {"idle", "waiting", "retry"} /\ retryReq' \in BOOLEAN
    BY <1>4, Zenon DEF TypeOK
  <2>4. reqSched' \in BOOLEAN /\ reqRefused' \in BOOLEAN
    BY <1>1, Zenon
  <2> QED
    BY <1>1, <1>2, <2>1, <2>2, <2>3, <2>4 DEF TypeOK
<1>7. Inside' \subseteq Inside /\ Owed' = Owed
  BY <1>1, <1>2, <1>3 DEF Inside, Owed, Placement
<1>8. Placement'
  <2>1. stalled' \notin Inside'
    BY <1>1, <1>7 DEF Placement
  <2>2. stalled' = None <=> upstream' = "idle"
    BY <1>1, <1>4 DEF Placement, NoRequestInRetry
  <2>3. /\ (Range(reqList) \cap inService)' = {}
        /\ (Range(reqList) \cap Range(respList))' = {}
        /\ (inService \cap Range(respList))' = {}
        /\ inService' \subseteq NeedsResponse
        /\ Range(respList)' \subseteq NeedsResponse
    BY <1>1, <1>2, <1>3 DEF Placement
  <2> QED
    BY <1>1, <1>2, <2>1, <2>2, <2>3 DEF Placement
<1>9. \A x \in Packet : (x # p \/ p \in NeedsResponse) =>
        /\ pkt'[x].issuer = pkt[x].issuer
        /\ pkt'[x].origSrc = pkt[x].origSrc
        /\ pkt'[x].dest = pkt[x].dest
        /\ x # p => pkt'[x] = pkt[x]
  <2>1. CASE p \in NeedsResponse
    BY <1>2, <1>3, <2>1 DEF TypeOK, PktFields
  <2>2. CASE p \notin NeedsResponse
    BY <1>2, <1>3, <2>2 DEF TypeOK, PktFields
  <2> QED
    BY <2>1, <2>2
<1>10. p \notin NeedsResponse => p \notin Inside'
  BY <1>1, <1>2, <1>3 DEF Inside, Placement
<1>11. Fields'
  <2>1. \A x \in Inside' : pkt'[x].issuer \in Port
    BY <1>5, <1>7, <1>9, <1>10 DEF Fields
  <2>2. stalled' # None => /\ pkt'[stalled'].issuer \in Port
                           /\ pkt'[stalled'].src = pkt'[stalled'].issuer
    <3>1. stalled # p
      BY <1>2 DEF Placement, Inside
    <3> QED
      BY <1>1, <1>9, <3>1 DEF Fields, TypeOK
  <2>3. \A x \in ((Range(reqList) \cap NeedsResponse) \cup inService)' :
          pkt'[x].origSrc = pkt'[x].issuer
    <3> SUFFICES ASSUME NEW x \in ((Range(reqList) \cap NeedsResponse) \cup inService)'
                 PROVE  pkt'[x].origSrc = pkt'[x].issuer
      OBVIOUS
    <3>1. x \in (Range(reqList) \cap NeedsResponse) \cup inService
      BY <1>2, <1>3
    <3>2. x \in Packet /\ (x # p \/ p \in NeedsResponse)
      BY <1>2, <1>3, <1>5, <3>1 DEF Inside, Placement
    <3> QED
      BY <1>9, <3>1, <3>2 DEF Fields
  <2>4. ResponsesRouted'
    <3>1. \A x \in Range(respList) : x \in Packet /\ x # p
      BY <1>2, <1>5 DEF Placement
    <3> QED
      BY <1>1, <1>9, <3>1 DEF Fields, ResponsesRouted
  <2> QED
    BY <2>1, <2>2, <2>3, <2>4 DEF Fields
<1>12. Credits'
  BY <1>1, <1>2, <1>7, BridgeAssumption DEF Credits, CreditsExact
<1>13. WakeupExact'
  BY <1>1, Zenon DEF WakeupExact
<1>14. NoRetryLost' /\ NoRequestInRetry'
  BY <1>4 DEF NoRetryLost, NoRequestInRetry, TypeOK
<1> QED
  BY <1>6, <1>8, <1>11, <1>12, <1>13, <1>14

(* The arrival of a response (recvTimingResp, schedTimingResp).             *)
LEMMA RecvTimingRespStep ==
  ASSUME IInv, NEW p \in Packet, RecvTimingResp(p)
  PROVE  IInv'
<1> USE DEF IInv
<1> DEFINE g == [pkt[p] EXCEPT !.dest = pkt[p].origSrc, !.origSrc = None, !.src = None]
<1>1. /\ p \in inService
      /\ inService' = inService \ {p}
      /\ pkt' = [pkt EXCEPT ![p] = g]
      /\ respSched' = (respSched \/ respList = <<>>)
      /\ respList' = Append(respList, p)
      /\ UNCHANGED <<reqList, reqSched, outstandingResponses, retryReq,
                     reqRefused, respRefused, upstream, stalled>>
  BY Zenon DEF RecvTimingResp, schedTimingResp, TypeOK, PktFields
<1>2. /\ g \in PktFields
      /\ g.issuer = pkt[p].issuer
      /\ g.dest = pkt[p].issuer
  BY <1>1, ZenonT(30) DEF TypeOK, PktFields, Fields
<1>3. /\ respList' \in Seq(Packet) /\ respList' # <<>>
      /\ Range(respList') = Range(respList) \cup {p}
      /\ Distinct(respList')
  <2>1. respList \in Seq(Packet) /\ Distinct(respList) /\ p \notin Range(respList)
    BY <1>1 DEF TypeOK, Placement
  <2> QED
    BY <1>1, <2>1, QueueAppend
<1> HIDE DEF g
<1>4. Inside \subseteq Packet
  BY InsidePackets
<1>5. TypeOK'
  <2>1. pkt' \in [Packet -> PktFields]
    BY <1>1, <1>2 DEF TypeOK
  <2>2. respSched' \in BOOLEAN
    BY <1>1 DEF TypeOK
  <2>3. inService' \subseteq Packet
    BY <1>1 DEF TypeOK
  <2> QED
    BY <1>1, <1>3, <2>1, <2>2, <2>3 DEF TypeOK
<1>6. Inside' = Inside /\ Owed' = Owed
  BY <1>1, <1>3 DEF Inside, Owed
<1>7. Placement'
  BY <1>1, <1>3, <1>6 DEF Placement
<1>8. pkt'[p] = g /\ \A x \in Packet : x # p => pkt'[x] = pkt[x]
  BY <1>1 DEF TypeOK
<1>9. Fields'
  <2>1. \A x \in Inside' : pkt'[x].issuer \in Port
    BY <1>2, <1>4, <1>6, <1>8 DEF Fields, Inside
  <2>2. stalled' # None => /\ pkt'[stalled'].issuer \in Port
                           /\ pkt'[stalled'].src = pkt'[stalled'].issuer
    <3>1. stalled # p
      BY <1>1 DEF Placement, Inside
    <3> QED
      BY <1>1, <1>8, <3>1 DEF Fields, TypeOK
  <2>3. \A x \in ((Range(reqList) \cap NeedsResponse) \cup inService)' :
          pkt'[x].origSrc = pkt'[x].issuer
    BY <1>1, <1>4, <1>8, SMTT(30) DEF Fields, Placement, Inside
  <2>4. ResponsesRouted'
    BY <1>1, <1>2, <1>3, <1>4, <1>8 DEF Fields, ResponsesRouted, Inside
  <2> QED
    BY <2>1, <2>2, <2>3, <2>4 DEF Fields
<1>10. Credits'
  BY <1>1, <1>6 DEF Credits, CreditsExact
<1>11. WakeupExact'
  <2>1. CASE respList = <<>>
    <3>1. ~respRefused
      BY <2>1 DEF WakeupExact
    <3>2. respSched' /\ ~respRefused'
      BY <1>1, <2>1, <3>1, Zenon
    <3> QED
      BY <1>1, <1>3, <3>2 DEF WakeupExact
  <2>2. CASE respList # <<>>
    <3>1. respSched' = respSched /\ respRefused' = respRefused
      BY <1>1, <2>2 DEF TypeOK
    <3> QED
      BY <1>1, <1>3, <2>2, <3>1 DEF WakeupExact
  <2> QED
    BY <2>1, <2>2
<1>12. NoRetryLost' /\ NoRequestInRetry'
  BY <1>1 DEF NoRetryLost, NoRequestInRetry, reqQueueFull, respQueueFull
<1> QED
  BY <1>5, <1>7, <1>9, <1>10, <1>11, <1>12

(* A response the upstream bus takes releases its credit.                   *)
LEMMA SlaveAcceptedStep == IInv /\ SlaveTrySendAccepted => IInv'
<1> SUFFICES ASSUME IInv, SlaveTrySendAccepted PROVE IInv'
  OBVIOUS
<1> USE DEF IInv
<1> DEFINE p == Head(respList)
<1>1. /\ respList # <<>>
      /\ respList' = Tail(respList)
      /\ outstandingResponses' = outstandingResponses - 1
      /\ respSched' = (Tail(respList) # <<>>)
      /\ respRefused' = FALSE
      /\ pkt' = [pkt EXCEPT ![p] = Deleted]
      /\ UNCHANGED <<reqList, reqSched, reqRefused, inService, stalled>>
  BY DEF SlaveTrySendAccepted, slaveCalled, WakeupExact
<1>2. /\ retryReq' = (retryReq /\ reqQueueFull)
      /\ upstream' = (IF retryReq /\ ~reqQueueFull THEN "retry" ELSE upstream)
  BY Zenon DEF SlaveTrySendAccepted, sendRetry, TypeOK
<1>3. /\ p \in Packet /\ p \in Range(respList)
      /\ respList' \in Seq(Packet)
      /\ Distinct(respList') /\ Range(respList') = Range(respList) \ {p}
  <2>1. respList \in Seq(Packet) /\ Distinct(respList)
    BY DEF TypeOK, Placement
  <2> QED
    BY <1>1, <2>1, QueueTail
<1> HIDE DEF p
<1>4. /\ Range(reqList) \subseteq Packet /\ Range(respList) \subseteq Packet
      /\ Inside \subseteq Packet
      /\ IsFiniteSet(Owed) /\ Cardinality(Owed) \in Nat
  BY InsidePackets
<1>5. Inside' = Inside \ {p} /\ Owed' = Owed \ {p} /\ p \in Owed
  BY <1>1, <1>3 DEF Inside, Owed, Placement
<1>6. Cardinality(Owed') = Cardinality(Owed) - 1 /\ Cardinality(Owed') \in Nat
  BY <1>4, <1>5, FS_RemoveElement, FS_CardinalityType
<1>7. TypeOK'
  <2>1. pkt' \in [Packet -> PktFields]
    BY <1>1, <1>3 DEF TypeOK, PktFields, Deleted
  <2>2. outstandingResponses' \in Nat
    BY <1>1, <1>6 DEF Credits, CreditsExact
  <2>3. upstream' \in {"idle", "waiting", "retry"} /\ retryReq' \in BOOLEAN
    BY <1>2 DEF TypeOK
  <2>4. respSched' \in BOOLEAN /\ respRefused' \in BOOLEAN
    BY <1>1, Zenon
  <2> QED
    BY <1>1, <1>3, <2>1, <2>2, <2>3, <2>4 DEF TypeOK
<1>8. Placement'
  <2>1. stalled' = None <=> upstream' = "idle"
    BY <1>1, <1>2 DEF Placement, NoRequestInRetry
  <2> QED
    BY <1>1, <1>3, <1>5, <2>1 DEF Placement
<1>9. \A x \in Packet : x # p => pkt'[x] = pkt[x]
  BY <1>1 DEF TypeOK
<1>10. Fields'
  <2>1. \A x \in Inside' : pkt'[x].issuer \in Port
    BY <1>4, <1>5, <1>9 DEF Fields
  <2>2. stalled' # None => /\ pkt'[stalled'].issuer \in Port
                           /\ pkt'[stalled'].src = pkt'[stalled'].issuer
    <3>1. stalled # p
      BY <1>3 DEF Placement, Inside
    <3> QED
      BY <1>1, <1>9, <3>1 DEF Fields, TypeOK
  <2>3. \A x \in ((Range(reqList) \cap NeedsResponse) \cup inService)' :
          pkt'[x].origSrc = pkt'[x].issuer
    <3> SUFFICES ASSUME NEW x \in (Range(reqList) \cap NeedsResponse) \cup inService
                 PROVE  pkt'[x].origSrc = pkt'[x].issuer
      BY <1>1
    <3>1. x \in Packet /\ x # p
      BY <1>3, <1>4 DEF Placement, Inside
    <3>2. pkt[x].origSrc = pkt[x].issuer
      BY DEF Fields
    <3> QED BY <1>9, <3>1, <3>2
  <2>4. ResponsesRouted'
    BY <1>3, <1>4, <1>9 DEF Fields, ResponsesRouted
  <2> QED
    BY <2>1, <2>2, <2>3, <2>4 DEF Fields
<1>11. Credits'
  BY <1>1, <1>6, BridgeAssumption DEF Credits, CreditsExact, TypeOK
<1>12. WakeupExact'
  BY <1>1, Zenon DEF WakeupExact
<1>13. NoRetryLost' /\ NoRequestInRetry'
  BY <1>1, <1>2, Zenon DEF NoRetryLost, NoRequestInRetry, reqQueueFull, TypeOK
<1> QED
  BY <1>7, <1>8, <1>10, <1>11, <1>12, <1>13

(* A sender that gives up a refused request leaves the bridge alone.        *)
LEMMA BusAbandonStep == IInv /\ BusAbandon => IInv'
<1> SUFFICES ASSUME IInv, BusAbandon PROVE IInv'
  OBVIOUS
<1> USE DEF IInv
<1>1. /\ upstream' = "idle" /\ stalled' = None
      /\ pkt' = [pkt EXCEPT ![stalled] = Deleted]
      /\ UNCHANGED <<reqList, respList, reqSched, respSched, retryReq, inService,
                     outstandingResponses, reqRefused, respRefused>>
      /\ upstream = "retry"
  BY DEF BusAbandon
<1>2. Inside' = Inside /\ Owed' = Owed /\ Inside \subseteq Packet /\ None \notin Inside
  BY <1>1, InsidePackets DEF Inside, Owed
<1>3. TypeOK'
  <2>1. Deleted \in PktFields
    BY DEF Deleted, PktFields
  <2>2. pkt' \in [Packet -> PktFields]
    BY <1>1, <2>1 DEF TypeOK
  <2> QED
    BY <1>1, <2>2 DEF TypeOK
<1>4. Placement'
  BY <1>1, <1>2 DEF Placement
<1>5. \A x \in Inside : pkt'[x] = pkt[x]
  BY <1>1, <1>2 DEF TypeOK, Placement
<1>6. Fields'
  BY <1>1, <1>2, <1>5 DEF Fields, ResponsesRouted, Inside
<1>7. Credits' /\ WakeupExact'
  BY <1>1, <1>2 DEF Credits, CreditsExact, WakeupExact
<1>8. NoRetryLost' /\ NoRequestInRetry'
  BY <1>1 DEF NoRetryLost, NoRequestInRetry, reqQueueFull, respQueueFull
<1> QED
  BY <1>3, <1>4, <1>6, <1>7, <1>8

(* A refusal by either bus moves the wake-up from the event to the retry.   *)
LEMMA RefusedStep == IInv /\ (MasterTrySendRefused \/ SlaveTrySendRefused) => IInv'
<1> SUFFICES ASSUME IInv, MasterTrySendRefused \/ SlaveTrySendRefused PROVE IInv'
  OBVIOUS
<1> USE DEF IInv
<1>1. UNCHANGED <<reqList, respList, outstandingResponses, retryReq, pkt,
                  inService, upstream, stalled>>
  BY DEF MasterTrySendRefused, SlaveTrySendRefused
<1>2. Inside' = Inside /\ Owed' = Owed
  BY <1>1 DEF Inside, Owed
<1>3. Placement'
  BY <1>1, <1>2 DEF Placement
<1>4. Fields'
  BY <1>1, <1>2 DEF Fields, ResponsesRouted
<1>5. Credits'
  BY <1>1, <1>2 DEF Credits, CreditsExact
<1>6. TypeOK' /\ WakeupExact'
  <2>1. CASE MasterTrySendRefused
    BY <1>1, <2>1, Zenon DEF TypeOK, WakeupExact, MasterTrySendRefused, masterCalled
  <2>2. CASE SlaveTrySendRefused
    BY <1>1, <2>2, Zenon DEF TypeOK, WakeupExact, SlaveTrySendRefused, slaveCalled
  <2> QED
    BY <2>1, <2>2
<1>7. NoRetryLost' /\ NoRequestInRetry'
  BY <1>1 DEF NoRetryLost, NoRequestInRetry, reqQueueFull, respQueueFull
<1> QED
  BY <1>3, <1>4, <1>5, <1>6, <1>7

(* Every step preserves the invariant.                                      *)
LEMMA NextIInv == IInv /\ [Next]_vars => IInv'
<1> SUFFICES ASSUME IInv, [Next]_vars PROVE IInv'
  OBVIOUS
<1>1. ASSUME NEW p \in Packet, NEW s \in Port, BusSend(p, s) PROVE IInv'
  <2> DEFINE f == [Deleted EXCEPT !.src = s, !.issuer = s]
  <2>1. f \in PktFields /\ f.issuer \in Port /\ f.src = f.issuer
    BY Zenon DEF Deleted, PktFields
  <2>2. p \notin Inside
    BY <1>1, BridgeAssumption DEF BusSend, Free, Deleted, IInv, Fields
  <2>3. retryReq = FALSE
    BY <1>1 DEF BusSend, IInv, NoRequestInRetry, TypeOK
  <2>4. /\ recvTimingReq(p, f)
        /\ UNCHANGED <<respList, respSched, reqRefused, respRefused, inService>>
    BY <1>1 DEF BusSend
  <2> HIDE DEF f
  <2> QED
    BY <2>1, <2>2, <2>3, <2>4, RecvTimingReqStep, Zenon
<1>2. CASE BusResend
  <2>1. stalled \in Packet /\ stalled \notin Inside /\ stalled # None
    BY <1>2 DEF BusResend, IInv, Placement, TypeOK
  <2>2. /\ pkt[stalled] \in PktFields /\ pkt[stalled].issuer \in Port
        /\ pkt[stalled].src = pkt[stalled].issuer
    BY <2>1 DEF IInv, Fields, TypeOK
  <2>3. retryReq = FALSE
    BY <1>2 DEF BusResend, IInv, NoRequestInRetry, TypeOK
  <2>4. /\ recvTimingReq(stalled, pkt[stalled])
        /\ UNCHANGED <<respList, respSched, reqRefused, respRefused, inService>>
    BY <1>2 DEF BusResend
  <2> QED
    BY <2>1, <2>2, <2>3, <2>4, RecvTimingReqStep, Zenon
<1>3. CASE MasterTrySendAccepted
  BY <1>3, MasterAcceptedStep
<1>4. ASSUME NEW p \in Packet, RecvTimingResp(p) PROVE IInv'
  BY <1>4, RecvTimingRespStep
<1>5. CASE SlaveTrySendAccepted
  BY <1>5, SlaveAcceptedStep
<1>6. CASE MasterTrySendRefused \/ SlaveTrySendRefused
  BY <1>6, RefusedStep
<1>7. CASE BusAbandon
  BY <1>7, BusAbandonStep
<1>8. CASE UNCHANGED vars
  BY <1>8 DEF vars, IInv, TypeOK, Placement, Fields, Credits, WakeupExact,
              NoRetryLost, NoRequestInRetry, ResponsesRouted, CreditsExact,
              Owed, Inside, reqQueueFull, respQueueFull
<1> QED
  BY <1>1, <1>2, <1>3, <1>4, <1>5, <1>6, <1>7, <1>8 DEF Next

(* The strengthened invariant holds in every state the bridge can reach.    *)
THEOREM Invariance == Spec => []IInv
  BY InitIInv, NextIInv, PTL DEF Spec

(* The lists, flags, counter and packet fields keep their types; the credit *)
(* counter in particular never goes below zero.                             *)
THEOREM TypeCorrect == Spec => []TypeOK
<1>1. IInv => TypeOK
  BY DEF IInv
<1> QED
  BY <1>1, Invariance, PTL

(* outstandingResponses is the number of responses still owed: recvTimingReq *)
(* and trySendTiming never leak a credit nor release one twice.              *)
THEOREM CreditsAreExact == Spec => []CreditsExact
<1>1. IInv => CreditsExact
  BY DEF IInv, Credits
<1> QED
  BY <1>1, Invariance, PTL

(* With exact credits a response always finds room: the response list cannot *)
(* outgrow resp_size whatever the devices answer, nor the request list       *)
(* req_size.                                                                 *)
THEOREM QueuesStayBounded == Spec => []QueuesBounded
<1>1. ASSUME IInv PROVE QueuesBounded
  <2>1. /\ IsFiniteSet(Range(respList))
        /\ Cardinality(Range(respList)) = Len(respList)
    BY <1>1, QueueCardinality DEF IInv, TypeOK, Placement
  <2>2. IsFiniteSet(inService) /\ Cardinality(inService) \in Nat
    BY <1>1, FS_Subset, FS_CardinalityType, BridgeAssumption DEF IInv, TypeOK
  <2>3. Cardinality(Range(respList) \cap inService) = 0
    <3>1. Range(respList) \cap inService = {}
      BY <1>1 DEF IInv, Placement
    <3> QED
      BY <3>1, FS_EmptySet
  <2>4. Cardinality(Range(respList) \cup inService) =
          Len(respList) + Cardinality(inService)
    <3>1. Cardinality(Range(respList) \cup inService) =
            Cardinality(Range(respList)) + Cardinality(inService)
              - Cardinality(Range(respList) \cap inService)
      BY <2>1, <2>2, FS_Union
    <3>2. Len(respList) \in Nat
      BY <1>1, LenProperties DEF IInv, TypeOK
    <3> QED
      BY <2>1, <2>2, <2>3, <3>1, <3>2
  <2>5. Cardinality(Range(respList) \cup inService) <= Cardinality(Owed)
    <3>1. Range(respList) \cup inService \subseteq Owed
      BY <1>1 DEF IInv, Placement, Owed
    <3>2. IsFiniteSet(Owed)
      BY <1>1, InsidePackets DEF IInv
    <3> QED
      BY <3>1, <3>2, FS_Subset
  <2>6. Len(respList) + Cardinality(inService) <= outstandingResponses
    BY <1>1, <2>4, <2>5 DEF IInv, Credits, CreditsExact
  <2>7. Len(respList) \in Nat /\ outstandingResponses \in Nat
    BY <1>1, LenProperties DEF IInv, TypeOK
  <2> QED
    BY <1>1, <2>2, <2>6, <2>7, BridgeAssumption DEF IInv, Credits, QueuesBounded
<1> QED
  BY <1>1, Invariance, PTL

(* No wake-up of either port is lost or doubled: a port with packets to send *)
(* has either its send event scheduled or a retry from the bus to come.      *)
THEOREM WakeupsExact == Spec => []WakeupExact
<1>1. IInv => WakeupExact
  BY DEF IInv
<1> QED
  BY <1>1, Invariance, PTL

(* A retry is owed only while the stalled request has no room: whichever     *)
(* port makes room sends it.                                                 *)
THEOREM RetriesNotLost == Spec => []NoRetryLost
<1>1. IInv => NoRetryLost
  BY DEF IInv
<1> QED
  BY <1>1, Invariance, PTL

(* No request arrives while a retry is owed (assert(!retryReq) in            *)
(* recvTimingReq).                                                           *)
THEOREM RetryAwaited == Spec => []NoRequestInRetry
<1>1. IInv => NoRequestInRetry
  BY DEF IInv
<1> QED
  BY <1>1, Invariance, PTL

(* Every queued response carries the port its request came from.             *)
THEOREM ResponsesAreRouted == Spec => []ResponsesRouted
<1>1. IInv => ResponsesRouted
  BY DEF IInv, Fields
<1> QED
  BY <1>1, Invariance, PTL

(* The comment at the retry in trySendTiming of the slave port is right: the *)
(* request it wakes can be accepted at once.                                 *)
THEOREM RetryAccepted == Spec => RetryAfterResponseAccepted
<1>1. ASSUME IInv, SlaveTrySendAccepted, upstream' # upstream
      PROVE  ~reqQueueFull' /\ ~respQueueFull'
  <2>1. ~reqQueueFull /\ reqList' = reqList
    BY <1>1 DEF SlaveTrySendAccepted
  <2>2. outstandingResponses' = outstandingResponses - 1
    BY <1>1 DEF SlaveTrySendAccepted
  <2> QED
    BY <1>1, <2>1, <2>2, BridgeAssumption
       DEF IInv, TypeOK, Credits, reqQueueFull, respQueueFull
<1>2. IInv => [SlaveTrySendAccepted /\ upstream' # upstream
                 => ~reqQueueFull' /\ ~respQueueFull']_vars
  BY <1>1
<1> QED
  BY <1>2, Invariance, PTL DEF RetryAfterResponseAccepted

(* A request the bridge queues enters the link; a refused one leaves it      *)
(* unchanged.                                                                *)
LEMMA RecvTimingReqEnters ==
  ASSUME IInv, NEW p \in Packet, NEW f, p \notin Inside,
         recvTimingReq(p, f),
         UNCHANGED <<respList, inService>>
  PROVE  Link!Enter(p) \/ UNCHANGED <<reqList, inService, respList>>
<1>1. CASE reqQueueFull \/ (p \in NeedsResponse /\ respQueueFull)
  BY <1>1 DEF recvTimingReq
<1>2. CASE ~(reqQueueFull \/ (p \in NeedsResponse /\ respQueueFull))
  <2>1. reqList' = Append(reqList, p)
    BY <1>2 DEF recvTimingReq, schedTimingReq
  <2>2. p \notin Link!Inside
    BY DEF Link!Inside, Inside, Link!Range, Range
  <2>3. Len(reqList) < ReqQueueLimit
    BY <1>2, BridgeAssumption, LenProperties DEF IInv, Credits, TypeOK, reqQueueFull
  <2>4. p \in NeedsResponse => Cardinality(Link!Owed) < RespQueueLimit
    <3>1. Link!Owed = Owed
      BY DEF Link!Owed, Link!Inside, Owed, Link!Range, Range
    <3>2. p \in NeedsResponse => outstandingResponses < RespQueueLimit
      BY <1>2, BridgeAssumption DEF IInv, Credits, TypeOK, respQueueFull
    <3> QED
      BY <3>1, <3>2 DEF IInv, Credits, CreditsExact
  <2>5. Link!Cardinality(Link!Owed) = Cardinality(Link!Owed)
    BY DEF Link!Cardinality, Cardinality
  <2> QED
    BY <2>1, <2>2, <2>3, <2>4, <2>5 DEF Link!Enter
<1> QED
  BY <1>1, <1>2

(* The bridge implements CreditLink: its counters, events and retries are    *)
(* one way of keeping the abstract link's two rules on entering.             *)
THEOREM ImplementsLink == Spec => LinkSpec
<1>1. Init => Link!Init
  BY DEF Init, Link!Init
<1>2. IInv /\ [Next]_vars => [Link!Next]_(Link!linkVars)
  <2> SUFFICES ASSUME IInv, [Next]_vars
               PROVE  Link!Next \/ UNCHANGED <<reqList, inService, respList>>
    BY DEF Link!linkVars
  <2>1. ASSUME NEW p \in Packet, NEW s \in Port, BusSend(p, s)
        PROVE  Link!Next \/ UNCHANGED <<reqList, inService, respList>>
    <3>1. p \notin Inside
      BY <2>1, BridgeAssumption DEF BusSend, Free, Deleted, IInv, Fields
    <3>2. Link!Enter(p) \/ UNCHANGED <<reqList, inService, respList>>
      BY <2>1, <3>1, RecvTimingReqEnters DEF BusSend
    <3> QED
      BY <3>2 DEF Link!Next
  <2>2. CASE BusResend
    <3>1. stalled \in Packet /\ stalled \notin Inside
      BY <2>2 DEF BusResend, IInv, Placement, TypeOK
    <3>2. Link!Enter(stalled) \/ UNCHANGED <<reqList, inService, respList>>
      BY <2>2, <3>1, RecvTimingReqEnters DEF BusResend
    <3> QED
      BY <3>1, <3>2 DEF Link!Next
  <2>3. CASE MasterTrySendAccepted
    <3>1. reqList # <<>>
      BY <2>3 DEF MasterTrySendAccepted, masterCalled, IInv, WakeupExact
    <3>2. inService' = inService \cup ({Head(reqList)} \cap NeedsResponse)
      BY <2>3 DEF MasterTrySendAccepted
    <3> QED
      BY <2>3, <3>1, <3>2 DEF MasterTrySendAccepted, Link!Next, Link!Forward
  <2>4. ASSUME NEW p \in Packet, RecvTimingResp(p) PROVE Link!Next
    BY <2>4 DEF RecvTimingResp, schedTimingResp, Link!Next, Link!Answer
  <2>5. CASE SlaveTrySendAccepted
    <3>1. respList # <<>>
      BY <2>5 DEF SlaveTrySendAccepted, slaveCalled, IInv, WakeupExact
    <3> QED
      BY <2>5, <3>1 DEF SlaveTrySendAccepted, Link!Next, Link!Deliver
  <2>6. CASE MasterTrySendRefused \/ SlaveTrySendRefused
    BY <2>6 DEF MasterTrySendRefused, SlaveTrySendRefused
  <2>7. CASE BusAbandon \/ UNCHANGED vars
    BY <2>7 DEF vars, BusAbandon
  <2> QED
    BY <2>1, <2>2, <2>3, <2>4, <2>5, <2>6, <2>7 DEF Next
<1> QED
  BY <1>1, <1>2, Invariance, PTL DEF Spec, LinkSpec, Link!Spec
=============================================================================
