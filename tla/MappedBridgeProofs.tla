------------------------- MODULE MappedBridgeProofs -------------------------
(***************************************************************************)
(* The mapper and the bridge composed.  The bridge runs as Bridge has it,  *)
(* so its inductive invariant holds here too; what of it is needed is      *)
(* BridgeFacts.  StatesAgree then rests on an invariant that joins the     *)
(* two: which packets have the mapper's state, that packets the mapper     *)
(* dropped are not inside the bridge, and that a packet inside cannot be   *)
(* retired.  RoundTrip adds that the address saved for a packet inside is  *)
(* the one it was issued to, which takes senders that rebuild what they    *)
(* send again.                                                             *)
(***************************************************************************)
EXTENDS MappedBridge, TLAPS

(* Every step of the composition is one of the bridge, or leaves it alone.   *)
LEMMA StepOfBridge == ASSUME [Next]_vars PROVE [B!Next]_B!vars
<1>1. ASSUME NEW p \in Packet, NEW a \in Issue, Drop(p, a) PROVE [B!Next]_B!vars
  BY <1>1 DEF Drop, bvars, B!vars
<1>2. ASSUME NEW p \in Packet, NEW a \in Issue, NEW s \in Port, Send(p, s, a)
      PROVE [B!Next]_B!vars
  BY <1>2 DEF Send, B!Next
<1>3. ASSUME NEW p \in Packet, Consume(p) \/ Answer(p) \/ Retire(p)
      PROVE [B!Next]_B!vars
  BY <1>3 DEF Consume, Answer, Retire, bvars, B!vars, B!Next
<1>4. ASSUME Resend \/ Abandon \/ Forward \/ Return \/ ReturnRefused
      PROVE [B!Next]_B!vars
  BY <1>4 DEF Resend, Abandon, Forward, Return, ReturnRefused, B!Next
<1>5. UNCHANGED vars => UNCHANGED B!vars
  BY DEF vars, bvars, B!vars
<1> QED BY <1>1, <1>2, <1>3, <1>4, <1>5 DEF Next

(* The bridge behaves behind the mapper as it does behind the bus, so all    *)
(* that is proved of it holds in the north bridge (FSConfig.py).             *)
THEOREM BridgeImplemented == Spec => BridgeSpec
<1>1. Init => B!Init
  BY DEF Init
<1>2. [Next]_vars => [B!Next]_B!vars
  BY StepOfBridge
<1> QED BY <1>1, <1>2, PTL DEF Spec, BridgeSpec, B!Spec

-----------------------------------------------------------------------------
\* Packets in the bridge or beyond it.
Inside == Range(reqList) \cup inService \cup Range(respList)

-----------------------------------------------------------------------------
(* What the mapper's operations do to sender states.                         *)

Parts == {"addr", "saved", "issued", "place"}
Shaped == DOMAIN req = Packet /\ \A p \in Packet : DOMAIN req[p] = Parts

(* recvTimingReq of a packet that is not inhibited: only a packet that was   *)
(* accepted, and will be answered, has one state more.                       *)
LEMMA RequestEffect ==
  ASSUME Shaped, NEW p \in Packet \ Inhibited, NEW r, DOMAIN r = Parts,
         NEW ok \in BOOLEAN, M!recvTimingReq(p, r, ok)
  PROVE  /\ Shaped' /\ pendingDelete' = {}
         /\ \A q \in Packet \ {p} : req'[q] = IF q \in pendingDelete THEN M!Deleted ELSE req[q]
         /\ ok /\ p \in NeedsResponse =>
              req'[p].saved = <<r.addr>> \o r.saved /\ req'[p].place = "below"
         /\ ~ok => req'[p].saved = r.saved
<1> DEFINE sent == [r EXCEPT
                      !.saved = IF p \in NeedsResponse THEN <<r.addr>> \o @ ELSE @,
                      !.addr = M!remapAddr(GuestOf[p], @)]
           new == IF ok THEN [sent EXCEPT !.place = "below"]
                        ELSE [sent EXCEPT !.saved = r.saved, !.place = "held"]
<1>1. pendingDelete' = {} /\ req' = [M!Cleared EXCEPT ![p] = new]
  BY DEF M!recvTimingReq
<1>2. DOMAIN M!Deleted = Parts
  BY DEF M!Deleted, Parts
<1>3. DOMAIN sent = Parts /\ sent.saved = IF p \in NeedsResponse THEN <<r.addr>> \o r.saved ELSE r.saved
  BY DEF Parts
<1>4. /\ DOMAIN new = Parts
      /\ ok => new.saved = sent.saved /\ new.place = "below"
      /\ ~ok => new.saved = r.saved
  <2> HIDE DEF sent
  <2> QED BY <1>3 DEF Parts
<1> HIDE DEF new, sent
<1>5. /\ DOMAIN req' = Packet /\ req'[p] = new
      /\ \A q \in Packet \ {p} : req'[q] = IF q \in pendingDelete THEN M!Deleted ELSE req[q]
  BY <1>1 DEF M!Cleared
<1>6. Shaped'
  BY <1>2, <1>4, <1>5 DEF Shaped
<1> QED BY <1>1, <1>3, <1>4, <1>5, <1>6

(* A packet as its sender hands it over has all its parts, and no state if   *)
(* it had none when it was refused.                                          *)
LEMMA Handed ==
  ASSUME Shaped
  PROVE  /\ \A a : DOMAIN M!Fresh(a) = Parts /\ M!Fresh(a).saved = <<>>
         /\ \A p \in Packet :
              DOMAIN M!Resent(p) = Parts /\ (req[p].saved = <<>> => M!Resent(p).saved = <<>>)
         /\ DOMAIN M!Deleted = Parts /\ M!Deleted.saved = <<>>
<1>1. DOMAIN M!Deleted = Parts /\ M!Deleted.saved = <<>>
  BY DEF M!Deleted, Parts
<1>2. \A a : DOMAIN M!Fresh(a) = Parts /\ M!Fresh(a).saved = <<>>
  BY <1>1 DEF M!Fresh, Parts
<1> QED BY <1>1, <1>2 DEF M!Resent, Shaped

(* recvTimingResp takes one state off a packet that goes on to the bus.      *)
LEMMA ResponseEffect ==
  ASSUME Shaped, NEW p \in Packet, M!recvTimingResp(p, TRUE)
  PROVE  /\ Shaped' /\ \A q \in Packet \ {p} : req'[q] = req[q]
         /\ req'[p].saved = Tail(req[p].saved)
<1> DEFINE r1 == [req EXCEPT ![p].addr = Head(req[p].saved)]
           r2 == [r1 EXCEPT ![p].saved = Tail(@)]
           r3 == [r2 EXCEPT ![p].place = "returned"]
<1>1. req' = r3
  BY DEF M!recvTimingResp
<1>2. /\ DOMAIN r1 = Packet /\ DOMAIN r1[p] = Parts /\ r1[p].saved = req[p].saved
      /\ \A q \in Packet \ {p} : r1[q] = req[q]
  BY DEF Shaped, Parts
<1> HIDE DEF r1
<1>3. /\ DOMAIN r2 = Packet /\ DOMAIN r2[p] = Parts /\ r2[p].saved = Tail(req[p].saved)
      /\ \A q \in Packet \ {p} : r2[q] = req[q]
  BY <1>2 DEF Parts
<1> HIDE DEF r2
<1>4. /\ DOMAIN r3 = Packet /\ DOMAIN r3[p] = Parts /\ r3[p].saved = Tail(req[p].saved)
      /\ \A q \in Packet \ {p} : r3[q] = req[q]
  BY <1>3 DEF Parts
<1> HIDE DEF r3
<1> QED BY <1>1, <1>4 DEF Shaped

-----------------------------------------------------------------------------
(* The bridge's lists hold a packet once.                                    *)
Distinct(s) == \A i, j \in 1..Len(s) : s[i] = s[j] => i = j

(* What is in a list after push_back ...                                     *)
LEMMA AddedLast ==
  ASSUME NEW S, NEW s \in Seq(S), NEW x \in S
  PROVE  Range(Append(s, x)) = Range(s) \cup {x}
<1> DEFINE t == Append(s, x)
<1>1. /\ DOMAIN s = 1..Len(s) /\ DOMAIN t = 1..(Len(s) + 1) /\ Len(s) \in Nat
      /\ \A i \in 1..Len(s) : t[i] = s[i]
      /\ t[Len(s) + 1] = x
  OBVIOUS
<1> HIDE DEF t
<1>2. ASSUME NEW y \in Range(s) \cup {x} PROVE y \in Range(t)
  <2>1. CASE y = x
    BY <1>1, <2>1 DEF Range
  <2>2. CASE y \in Range(s)
    BY <1>1, <2>2 DEF Range
  <2> QED BY <2>1, <2>2
<1>3. ASSUME NEW y \in Range(t) PROVE y \in Range(s) \cup {x}
  <2>1. PICK i \in 1..(Len(s) + 1) : y = t[i]
    BY <1>1 DEF Range
  <2>2. CASE i = Len(s) + 1
    BY <1>1, <2>1, <2>2
  <2>3. CASE i \in 1..Len(s)
    BY <1>1, <2>1, <2>3 DEF Range
  <2> QED BY <1>1, <2>2, <2>3
<1> QED BY <1>2, <1>3 DEF t

(* ... and after pop_front.                                                  *)
LEMMA RemovedFirst ==
  ASSUME NEW S, NEW s \in Seq(S), s # <<>>, Distinct(s)
  PROVE  Head(s) \in Range(s) /\ Range(Tail(s)) = Range(s) \ {Head(s)}
<1> DEFINE t == Tail(s)
<1>1. /\ DOMAIN s = 1..Len(s) /\ DOMAIN t = 1..(Len(s) - 1) /\ Len(s) \in Nat /\ Len(s) > 0
      /\ \A i \in 1..(Len(s) - 1) : t[i] = s[i + 1]
      /\ Head(s) = s[1]
  OBVIOUS
<1> HIDE DEF t
<1>2. Head(s) \in Range(s)
  BY <1>1 DEF Range
<1>3. ASSUME NEW y \in Range(t) PROVE y \in Range(s) \ {Head(s)}
  <2>1. PICK i \in 1..(Len(s) - 1) : y = t[i]
    BY <1>1 DEF Range
  <2>2. i + 1 \in 1..Len(s) /\ 1 \in 1..Len(s) /\ i + 1 # 1 /\ y = s[i + 1]
    BY <1>1, <2>1
  <2>3. y # s[1]
    BY <2>2 DEF Distinct
  <2> QED BY <1>1, <2>2, <2>3 DEF Range
<1>4. ASSUME NEW y \in Range(s) \ {Head(s)} PROVE y \in Range(t)
  <2>1. PICK i \in 1..Len(s) : y = s[i]
    BY <1>1 DEF Range
  <2>2. i - 1 \in 1..(Len(s) - 1) /\ y = t[i - 1]
    <3>1. i # 1
      BY <1>1, <2>1
    <3>2. i - 1 \in 1..(Len(s) - 1) /\ (i - 1) + 1 = i
      BY <1>1, <3>1
    <3> QED BY <1>1, <2>1, <3>2
  <2> QED BY <1>1, <2>2 DEF Range
<1> QED BY <1>2, <1>3, <1>4 DEF t

-----------------------------------------------------------------------------
(* What the bridge's operations do to the packets inside it.                 *)

(* The part of the bridge's inductive invariant that is needed.              *)
BridgeFacts ==
  /\ reqList \in Seq(Packet) /\ respList \in Seq(Packet) /\ inService \subseteq Packet
  /\ Distinct(reqList) /\ Distinct(respList)
  /\ Range(reqList) \cap Range(respList) = {} /\ inService \cap Range(respList) = {}
  /\ Range(respList) \subseteq NeedsResponse
  /\ stalled \notin Inside /\ stalled \in Packet \cup {None}
  /\ stalled = None <=> upstream = "idle"
  /\ (reqSched \/ reqRefused => reqList # <<>>) /\ (respSched \/ respRefused => respList # <<>>)
  /\ \A p \in Inside : pkt[p] # B!Deleted
  /\ \A p \in (Range(reqList) \cap NeedsResponse) \cup inService : pkt[p].origSrc # None

(* A request is inside once it is accepted, and not before.                  *)
LEMMA RequestInside ==
  ASSUME BridgeFacts, NEW p \in Packet, NEW f, B!recvTimingReq(p, f),
         UNCHANGED <<respList, inService>>
  PROVE  \/ stalled' = None /\ Inside' = Inside \cup {p}
         \/ stalled' = p /\ stalled' # None /\ Inside' = Inside
<1>1. None \notin Packet
  BY MappedBridgeAssumption DEF B!BridgeAssumption
<1>2. Range(Append(reqList, p)) = Range(reqList) \cup {p}
  BY AddedLast DEF BridgeFacts
<1>3. \/ stalled' = None /\ reqList' = Append(reqList, p)
      \/ stalled' = p /\ reqList' = reqList
  BY DEF B!recvTimingReq, B!schedTimingReq
<1> QED BY <1>1, <1>2, <1>3 DEF Inside

(* Sending a request on keeps it inside, if it will be answered.             *)
LEMMA ForwardInside ==
  ASSUME BridgeFacts, B!MasterTrySendAccepted \/ B!MasterTrySendRefused
  PROVE  /\ Inside' \subseteq Inside /\ stalled' = stalled
         /\ Inside \cap NeedsResponse \subseteq Inside'
<1>1. CASE B!MasterTrySendRefused
  BY <1>1 DEF B!MasterTrySendRefused, Inside
<1>2. CASE B!MasterTrySendAccepted
  <2>1. reqList # <<>>
    BY <1>2 DEF B!MasterTrySendAccepted, B!masterCalled, BridgeFacts
  <2>2. Head(reqList) \in Range(reqList) /\ Range(Tail(reqList)) = Range(reqList) \ {Head(reqList)}
    BY <2>1, RemovedFirst DEF BridgeFacts
  <2>3. /\ reqList' = Tail(reqList) /\ respList' = respList /\ stalled' = stalled
        /\ inService' = IF Head(reqList) \in NeedsResponse THEN inService \cup {Head(reqList)}
                        ELSE inService
    BY <1>2 DEF B!MasterTrySendAccepted
  <2> QED BY <2>2, <2>3 DEF Inside
<1> QED BY <1>1, <1>2

(* A response stays inside when it is queued ...                             *)
LEMMA AnswerInside ==
  ASSUME BridgeFacts, NEW p \in Packet, B!RecvTimingResp(p)
  PROVE  Inside' = Inside /\ stalled' = stalled
<1>1. /\ p \in inService /\ inService' = inService \ {p} /\ respList' = Append(respList, p)
      /\ reqList' = reqList /\ stalled' = stalled
  BY DEF B!RecvTimingResp, B!schedTimingResp
<1>2. Range(Append(respList, p)) = Range(respList) \cup {p}
  BY AddedLast DEF BridgeFacts
<1> QED BY <1>1, <1>2 DEF Inside

(* ... until the bus takes it.                                               *)
LEMMA ReturnInside ==
  ASSUME BridgeFacts, B!SlaveTrySendAccepted
  PROVE  /\ Head(respList) \in Inside \cap NeedsResponse
         /\ Inside' = Inside \ {Head(respList)} /\ stalled' = stalled
<1>1. respList # <<>>
  BY DEF B!SlaveTrySendAccepted, B!slaveCalled, BridgeFacts
<1>2. Head(respList) \in Range(respList) /\ Range(Tail(respList)) = Range(respList) \ {Head(respList)}
  BY <1>1, RemovedFirst DEF BridgeFacts
<1>3. respList' = Tail(respList) /\ reqList' = reqList /\ inService' = inService /\ stalled' = stalled
  BY DEF B!SlaveTrySendAccepted
<1> QED BY <1>2, <1>3 DEF Inside, BridgeFacts

-----------------------------------------------------------------------------
(* The invariant that joins the mapper and the bridge.                       *)

\* A dropped packet is neither inside the bridge nor waiting for it.
Apart == /\ pendingDelete \subseteq Inhibited
         /\ Inside \cap Inhibited = {} /\ stalled \notin Inhibited

\* One sender state, and no way to retire the packet, exactly while inside.
Agree(p) == IF p \in Inside THEN /\ \E a : req[p].saved = <<a>>
                                 /\ req[p].place = "below"
            ELSE req[p].saved = <<>>

Joint == Shaped /\ Apart /\ \A p \in NeedsResponse : Agree(p)

(* The sets of packets the constants name contain packets.                   *)
LEMMA PacketSets ==
  NeedsResponse \subseteq Packet /\ Inhibited \subseteq Packet /\ None \notin Packet
BY MappedBridgeAssumption DEF B!BridgeAssumption, M!AddrMapperAssumption

(* An arriving request, accepted or refused.                                 *)
LEMMA RequestJoint ==
  ASSUME Joint, NEW p \in Packet \ Inhibited, p \notin Inside,
         NEW r, DOMAIN r = Parts, p \in NeedsResponse => r.saved = <<>>,
         NEW ok \in BOOLEAN, M!recvTimingReq(p, r, ok),
         \/ ok /\ stalled' = None /\ Inside' = Inside \cup {p}
         \/ ~ok /\ stalled' = p /\ Inside' = Inside
  PROVE  Joint'
<1>1. /\ Shaped' /\ pendingDelete' = {}
      /\ \A q \in Packet \ {p} : req'[q] = IF q \in pendingDelete THEN M!Deleted ELSE req[q]
      /\ ok /\ p \in NeedsResponse =>
           req'[p].saved = <<r.addr>> \o r.saved /\ req'[p].place = "below"
      /\ ~ok => req'[p].saved = r.saved
  BY RequestEffect DEF Joint
<1>2. Apart'
  BY <1>1, PacketSets DEF Joint, Apart
<1>3. ASSUME NEW q \in NeedsResponse PROVE Agree(q)'
  <2>1. CASE q = p /\ ok
    <3>1. <<r.addr>> \o <<>> = <<r.addr>>
      OBVIOUS
    <3>2. req'[p].saved = <<r.addr>>
      BY <1>1, <2>1, <3>1
    <3> QED BY <1>1, <2>1, <3>2 DEF Agree
  <2>2. CASE q = p /\ ~ok
    BY <1>1, <2>2 DEF Agree
  <2>3. CASE q # p
    <3>1. (q \in Inside' <=> q \in Inside) /\ q \in Packet /\ Agree(q)
      BY <2>3, PacketSets DEF Joint
    <3>2. CASE q \in pendingDelete
      <4>1. q \notin Inside
        BY <3>2 DEF Joint, Apart
      <4>2. req'[q].saved = <<>>
        BY <1>1, <2>3, <3>1, <3>2, Handed DEF Joint
      <4> QED BY <3>1, <4>1, <4>2 DEF Agree
    <3>3. CASE q \notin pendingDelete
      BY <1>1, <2>3, <3>1, <3>3 DEF Agree
    <3> QED BY <3>2, <3>3
  <2> QED BY <2>1, <2>2, <2>3
<1> QED BY <1>1, <1>2, <1>3 DEF Joint

(* A request the mapper drops.                                               *)
LEMMA DropJoint ==
  ASSUME Joint, NEW p \in Packet, NEW a \in Issue, Drop(p, a)
  PROVE  Joint'
<1> DEFINE new == [M!Fresh(a) EXCEPT !.place = "dropped"]
<1>1. p \in Inhibited /\ pendingDelete' = {p} /\ req' = [M!Cleared EXCEPT ![p] = new]
  BY DEF Drop, M!recvTimingReq
<1>2. Inside' = Inside /\ stalled' = stalled
  BY DEF Drop, bvars, Inside
<1>3. DOMAIN new = Parts /\ new.saved = <<>>
  <2> HIDE DEF Parts
  <2>1. DOMAIN M!Fresh(a) = Parts /\ M!Fresh(a).saved = <<>>
    BY Handed DEF Joint
  <2> QED BY <2>1 DEF Parts
<1> HIDE DEF new
<1>4. /\ DOMAIN req' = Packet /\ req'[p] = new
      /\ \A q \in Packet \ {p} : req'[q] = IF q \in pendingDelete THEN M!Deleted ELSE req[q]
  BY <1>1 DEF M!Cleared
<1>5. Shaped'
  BY <1>3, <1>4, Handed DEF Joint, Shaped
<1>6. Apart'
  BY <1>1, <1>2 DEF Joint, Apart
<1>7. ASSUME NEW q \in NeedsResponse PROVE Agree(q)'
  <2>1. CASE q \in Inhibited
    <3>1. q \notin Inside /\ q \in Packet /\ req[q].saved = <<>>
      BY <2>1, PacketSets DEF Joint, Apart, Agree
    <3> QED BY <1>2, <1>3, <1>4, <3>1, Handed DEF Agree, Joint
  <2>2. CASE q \notin Inhibited
    <3>1. q # p /\ q \notin pendingDelete /\ q \in Packet
      BY <1>1, <2>2, PacketSets DEF Joint, Apart
    <3> QED BY <1>2, <1>4, <3>1 DEF Agree, Joint
  <2> QED BY <2>1, <2>2
<1> QED BY <1>5, <1>6, <1>7 DEF Joint

(* A packet outside the bridge whose object is deleted.                      *)
LEMMA DeleteJoint ==
  ASSUME Joint, NEW p \in Packet, p \in NeedsResponse => p \notin Inside,
         req' = [req EXCEPT ![p] = M!Deleted], UNCHANGED pendingDelete,
         Inside' = Inside, stalled' \in {stalled, None}
  PROVE  Joint'
<1>1. Shaped' /\ req'[p].saved = <<>> /\ \A q \in Packet \ {p} : req'[q] = req[q]
  BY Handed DEF Joint, Shaped
<1>2. Apart'
  BY PacketSets DEF Joint, Apart
<1>3. \A q \in NeedsResponse : Agree(q)'
  BY <1>1, PacketSets DEF Joint, Agree
<1> QED BY <1>1, <1>2, <1>3 DEF Joint

(* A step that leaves sender states alone, and where packets that will be    *)
(* answered are.                                                             *)
LEMMA QuietJoint ==
  ASSUME Joint, UNCHANGED mvars, stalled' = stalled, Inside' \subseteq Inside,
         Inside \cap NeedsResponse \subseteq Inside'
  PROVE  Joint'
<1>1. UNCHANGED <<req, pendingDelete>>
  BY DEF mvars
<1>2. Shaped' /\ Apart'
  BY <1>1 DEF Joint, Shaped, Apart
<1>3. \A q \in NeedsResponse : Agree(q)'
  BY <1>1 DEF Joint, Agree
<1> QED BY <1>2, <1>3 DEF Joint

(* A response that goes on to the bus.                                       *)
LEMMA ReturnJoint ==
  ASSUME Joint, BridgeFacts, Return
  PROVE  Joint'
<1>1. PICK p : p = Head(respList)
  OBVIOUS
<1>2. /\ p \in Inside \cap NeedsResponse /\ Inside' = Inside \ {p} /\ stalled' = stalled
      /\ p \in Packet /\ M!recvTimingResp(p, TRUE) /\ UNCHANGED pendingDelete
  BY <1>1, ReturnInside, PacketSets DEF Return
<1>3. /\ Shaped' /\ \A q \in Packet \ {p} : req'[q] = req[q]
      /\ req'[p].saved = Tail(req[p].saved)
  BY <1>2, ResponseEffect DEF Joint
<1>4. req'[p].saved = <<>>
  <2>1. PICK a : req[p].saved = <<a>>
    BY <1>2 DEF Joint, Agree
  <2>2. Tail(<<a>>) = <<>>
    OBVIOUS
  <2> QED BY <1>3, <2>1, <2>2
<1>5. Apart'
  BY <1>2 DEF Joint, Apart
<1>6. \A q \in NeedsResponse : Agree(q)'
  BY <1>2, <1>3, <1>4, PacketSets DEF Joint, Agree
<1> QED BY <1>3, <1>5, <1>6 DEF Joint

(* Every step keeps the mapper and the bridge in agreement.                  *)
LEMMA JointNext == ASSUME Joint, BridgeFacts, [Next]_vars PROVE Joint'
<1>1. ASSUME NEW p \in Packet, NEW a \in Issue, Drop(p, a) PROVE Joint'
  BY <1>1, DropJoint
<1>2. ASSUME NEW p \in Packet, NEW a \in Issue, NEW s \in Port, Send(p, s, a) PROVE Joint'
  <2>1. PICK ok \in BOOLEAN : ok <=> stalled' = None
    OBVIOUS
  <2>2. PICK r : r = M!Fresh(a)
    OBVIOUS
  <2>3. p \notin Inside
    BY <1>2 DEF Send, B!BusSend, B!Free, BridgeFacts
  <2>4. \/ stalled' = None /\ Inside' = Inside \cup {p}
        \/ stalled' = p /\ stalled' # None /\ Inside' = Inside
    BY <1>2, RequestInside DEF Send, B!BusSend
  <2>5. M!recvTimingReq(p, r, ok) /\ p \in Packet \ Inhibited
    BY <1>2, <2>1, <2>2 DEF Send, M!recvTimingReq
  <2>6. DOMAIN r = Parts /\ r.saved = <<>>
    BY <2>2, Handed DEF Joint
  <2> QED BY <2>1, <2>3, <2>4, <2>5, <2>6, RequestJoint
<1>3. CASE Resend
  <2>1. PICK ok \in BOOLEAN : ok <=> stalled' = None
    OBVIOUS
  <2>2. PICK p : p = stalled
    OBVIOUS
  <2>3. PICK r : r = M!Resent(p)
    OBVIOUS
  <2>4. p \in Packet \ Inhibited /\ p \notin Inside
    BY <1>3, <2>2 DEF Resend, B!BusResend, BridgeFacts, Joint, Apart
  <2>5. \/ stalled' = None /\ Inside' = Inside \cup {p}
        \/ stalled' = p /\ stalled' # None /\ Inside' = Inside
    BY <1>3, <2>2, <2>4, RequestInside DEF Resend, B!BusResend
  <2>6. M!recvTimingReq(p, r, ok)
    BY <1>3, <2>1, <2>2, <2>3 DEF Resend, M!recvTimingReq
  <2>7. DOMAIN r = Parts /\ (p \in NeedsResponse => r.saved = <<>>)
    BY <2>3, <2>4, Handed DEF Joint, Agree
  <2> QED BY <2>1, <2>4, <2>5, <2>6, <2>7, RequestJoint
<1>4. CASE Abandon
  <2>1. PICK p : p = stalled
    OBVIOUS
  <2>2. /\ p \in Packet /\ p \notin Inside /\ Inside' = Inside /\ stalled' = None
        /\ req' = [req EXCEPT ![p] = M!Deleted] /\ UNCHANGED pendingDelete
    BY <1>4, <2>1 DEF Abandon, B!BusAbandon, BridgeFacts, Inside
  <2> QED BY <2>2, DeleteJoint
<1>5. CASE Forward
  BY <1>5, ForwardInside, QuietJoint DEF Forward
<1>6. ASSUME NEW p \in Packet, Consume(p) \/ Retire(p) PROVE Joint'
  <2>1. /\ req' = [req EXCEPT ![p] = M!Deleted] /\ UNCHANGED pendingDelete
        /\ Inside' = Inside /\ stalled' = stalled
    BY <1>6 DEF Consume, Retire, bvars, Inside
  <2>2. p \in NeedsResponse => p \notin Inside
    BY <1>6 DEF Consume, Retire, Joint, Agree
  <2> QED BY <2>1, <2>2, DeleteJoint
<1>7. ASSUME NEW p \in Packet, Answer(p) PROVE Joint'
  <2>1. Inside' = Inside /\ stalled' = stalled /\ UNCHANGED mvars
    BY <1>7, AnswerInside DEF Answer
  <2> QED BY <2>1, QuietJoint
<1>8. CASE Return
  BY <1>8, ReturnJoint
<1>9. CASE ReturnRefused
  <2>1. Inside' = Inside /\ stalled' = stalled /\ UNCHANGED mvars
    BY <1>9 DEF ReturnRefused, B!SlaveTrySendRefused, M!recvTimingResp, Inside, mvars
  <2> QED BY <2>1, QuietJoint
<1>10. CASE UNCHANGED vars
  <2>1. Inside' = Inside /\ stalled' = stalled /\ UNCHANGED mvars
    BY <1>10 DEF vars, bvars, Inside
  <2> QED BY <2>1, QuietJoint
<1> QED BY <1>1, <1>2, <1>3, <1>4, <1>5, <1>6, <1>7, <1>8, <1>9, <1>10 DEF Next

(* Initially no packet is inside and none has a sender state.                *)
LEMMA JointInit == Init => Joint
<1> SUFFICES ASSUME Init PROVE Joint
  OBVIOUS
<1>1. req = [p \in Packet |-> M!Deleted] /\ pendingDelete = {} /\ stalled = None
  BY DEF Init, M!Init
<1>2. Inside = {}
  BY DEF Init, B!Init, Inside, Range
<1>3. M!Deleted.saved = <<>> /\ DOMAIN M!Deleted = Parts
  BY DEF M!Deleted, Parts
<1> QED BY <1>1, <1>2, <1>3, PacketSets DEF Joint, Shaped, Apart, Agree

(* The two together say that the components agree.                           *)
LEMMA JointAgrees == ASSUME Joint, BridgeFacts PROVE StatesAgree
<1>1. ASSUME NEW p \in NeedsResponse PROVE (req[p].saved # <<>>) <=> p \in Inside
  <2>1. \A a : <<a>> # <<>>
    OBVIOUS
  <2> QED BY <2>1 DEF Joint, Agree
<1>2. \A p \in NeedsResponse : p \in Range(reqList) \cup inService => pkt[p].origSrc # None
  BY DEF BridgeFacts
<1> QED BY <1>1, <1>2 DEF StatesAgree, Inside

-----------------------------------------------------------------------------
(* The way back.  While a packet is inside, the address the mapper saved is  *)
(* the one the packet was issued to.                                         *)
Original(p) == p \in Inside => Head(req[p].saved) = req[p].issued
Kept == \A p \in NeedsResponse : Original(p)

\* What a step may do to a packet: leave it alone, put it inside as it was
\* issued or take it out of use, or return it.
Fate(q) ==
  \/ req'[q] = req[q] /\ (q \in Inside' => q \in Inside)
  \/ req'[q].place # "returned" /\ (q \in NeedsResponse => Original(q)')
  \/ /\ q \notin Inside' /\ q \in Inside \cap NeedsResponse /\ q \in Range(respList)
     /\ req'[q].addr = Head(req[q].saved) /\ req'[q].issued = req[q].issued

(* Then the saved addresses stay the original ones, and packets return with  *)
(* them.                                                                     *)
LEMMA FateKeeps ==
  ASSUME Kept, \A q \in Packet : Fate(q)
  PROVE  /\ Kept'
         /\ \A q \in Packet : req[q].place = "below" /\ req'[q].place = "returned" =>
              req'[q].addr = req[q].issued /\ q \in Range(respList)
<1>1. ASSUME NEW q \in NeedsResponse PROVE Original(q)'
  <2>1. Fate(q) /\ Original(q)
    BY PacketSets DEF Kept
  <2> QED BY <2>1 DEF Fate, Original
<1>2. ASSUME NEW q \in Packet, req[q].place = "below", req'[q].place = "returned"
      PROVE  req'[q].addr = req[q].issued /\ q \in Range(respList)
  <2>1. req'[q] # req[q]
    BY <1>2
  <2>2. q \in Inside \cap NeedsResponse /\ q \in Range(respList) /\ req'[q].addr = Head(req[q].saved)
    BY <1>2, <2>1 DEF Fate
  <2> QED BY <2>2 DEF Kept, Original
<1> QED BY <1>1, <1>2 DEF Kept

(* recvTimingReq neither returns a packet nor changes where it was issued.   *)
LEMMA RequestIssued ==
  ASSUME Shaped, NEW p \in Packet \ Inhibited, NEW r, DOMAIN r = Parts,
         NEW ok \in BOOLEAN, M!recvTimingReq(p, r, ok)
  PROVE  req'[p].issued = r.issued /\ req'[p].place \in {"below", "held"}
<1> DEFINE sent == [r EXCEPT
                      !.saved = IF p \in NeedsResponse THEN <<r.addr>> \o @ ELSE @,
                      !.addr = M!remapAddr(GuestOf[p], @)]
           new == IF ok THEN [sent EXCEPT !.place = "below"]
                        ELSE [sent EXCEPT !.saved = r.saved, !.place = "held"]
<1>1. req' = [M!Cleared EXCEPT ![p] = new]
  BY DEF M!recvTimingReq
<1>2. DOMAIN sent = Parts /\ sent.issued = r.issued
  BY DEF Parts
<1>3. new.issued = r.issued /\ new.place \in {"below", "held"}
  <2> HIDE DEF sent
  <2> QED BY <1>2 DEF Parts
<1> HIDE DEF new, sent
<1>4. req'[p] = new
  BY <1>1 DEF M!Cleared
<1> QED BY <1>3, <1>4

(* An arriving request goes inside with the address it was issued to.        *)
LEMMA RequestFate ==
  ASSUME Joint, NEW p \in Packet \ Inhibited,
         NEW r, DOMAIN r = Parts, p \in NeedsResponse => r.saved = <<>> /\ r.addr = r.issued,
         NEW ok \in BOOLEAN, M!recvTimingReq(p, r, ok), p \notin Inside,
         \/ ok /\ Inside' = Inside \cup {p}
         \/ ~ok /\ Inside' = Inside
  PROVE  \A q \in Packet : Fate(q)
<1>1. /\ \A q \in Packet \ {p} : req'[q] = IF q \in pendingDelete THEN M!Deleted ELSE req[q]
      /\ ok /\ p \in NeedsResponse => req'[p].saved = <<r.addr>> \o r.saved
  BY RequestEffect DEF Joint
<1>2. req'[p].issued = r.issued /\ req'[p].place # "returned"
  BY RequestIssued DEF Joint
<1>3. Fate(p)
  <2>1. \A a : Head(<<a>>) = a /\ <<a>> \o <<>> = <<a>>
    OBVIOUS
  <2>2. p \in NeedsResponse => Original(p)'
    BY <1>1, <1>2, <2>1 DEF Original
  <2> QED BY <1>2, <2>2 DEF Fate
<1>4. ASSUME NEW q \in Packet, q # p PROVE Fate(q)
  <2>1. q \in Inside' => q \in Inside
    BY <1>4
  <2>2. CASE q \in pendingDelete
    <3>1. q \notin Inside'
      BY <2>1, <2>2 DEF Joint, Apart
    <3>2. req'[q].place # "returned"
      BY <1>1, <1>4, <2>2 DEF M!Deleted
    <3> QED BY <3>1, <3>2 DEF Fate, Original
  <2>3. CASE q \notin pendingDelete
    BY <1>1, <1>4, <2>1, <2>3 DEF Fate
  <2> QED BY <2>2, <2>3
<1> QED BY <1>3, <1>4

(* A packet that is deleted, outside the bridge.                             *)
LEMMA DeleteFate ==
  ASSUME Joint, NEW p \in Packet, p \in NeedsResponse => p \notin Inside,
         req' = [req EXCEPT ![p] = M!Deleted], Inside' = Inside
  PROVE  \A q \in Packet : Fate(q)
<1>1. req'[p] = M!Deleted /\ \A q \in Packet \ {p} : req'[q] = req[q]
  BY DEF Joint, Shaped
<1>2. M!Deleted.place # "returned"
  BY DEF M!Deleted
<1> QED BY <1>1, <1>2 DEF Fate, Original

(* A request the mapper drops.                                               *)
LEMMA DropFate ==
  ASSUME Joint, NEW p \in Packet, NEW a \in Issue, Drop(p, a)
  PROVE  \A q \in Packet : Fate(q)
<1> DEFINE new == [M!Fresh(a) EXCEPT !.place = "dropped"]
<1>1. p \in Inhibited /\ req' = [M!Cleared EXCEPT ![p] = new]
  BY DEF Drop, M!recvTimingReq
<1>2. Inside' = Inside
  BY DEF Drop, bvars, Inside
<1>3. new.place # "returned"
  BY DEF M!Fresh, M!Deleted
<1> HIDE DEF new
<1>4. /\ req'[p] = new
      /\ \A q \in Packet \ {p} : req'[q] = IF q \in pendingDelete THEN M!Deleted ELSE req[q]
  BY <1>1 DEF M!Cleared
<1>5. Inside \cap Inhibited = {} /\ pendingDelete \subseteq Inhibited
  BY DEF Joint, Apart
<1>6. M!Deleted.place # "returned"
  BY DEF M!Deleted
<1> QED BY <1>1, <1>2, <1>3, <1>4, <1>5, <1>6 DEF Fate, Original

(* A response that goes on to the bus has its address restored.              *)
LEMMA ReturnFate ==
  ASSUME Joint, BridgeFacts, Return
  PROVE  \A q \in Packet : Fate(q)
<1>1. PICK p : p = Head(respList)
  OBVIOUS
<1>2. /\ p \in Inside \cap NeedsResponse /\ Inside' = Inside \ {p}
      /\ p \in Packet /\ M!recvTimingResp(p, TRUE)
  BY <1>1, ReturnInside, PacketSets DEF Return
<1>3. p \in Range(respList)
  <2>1. respList # <<>>
    BY DEF Return, B!SlaveTrySendAccepted, B!slaveCalled, BridgeFacts
  <2> QED BY <1>1, <2>1, RemovedFirst DEF BridgeFacts
<1>4. \A q \in Packet \ {p} : req'[q] = req[q]
  BY <1>2, ResponseEffect DEF Joint
<1>5. req'[p].addr = Head(req[p].saved) /\ req'[p].issued = req[p].issued
  <2>1. req' = [req EXCEPT ![p].addr = Head(req[p].saved), ![p].saved = Tail(@),
                            ![p].place = "returned"]
    BY <1>2 DEF M!recvTimingResp
  <2>2. DOMAIN req = Packet /\ DOMAIN req[p] = Parts
    BY <1>2 DEF Joint, Shaped
  <2> QED BY <1>2, <2>1, <2>2 DEF Parts
<1> QED BY <1>2, <1>3, <1>4, <1>5 DEF Fate

(* No step does anything else to a packet, if those that will be answered    *)
(* are built anew for a retry.                                               *)
LEMMA Fates ==
  ASSUME NeedsResponse \ Inhibited \subseteq Rebuilt, Joint, BridgeFacts, [Next]_vars
  PROVE  \A q \in Packet : Fate(q)
<1>1. ASSUME UNCHANGED req, Inside' \subseteq Inside PROVE \A q \in Packet : Fate(q)
  BY <1>1 DEF Fate
<1>2. \A a : M!Fresh(a).addr = a /\ M!Fresh(a).issued = a
  BY DEF M!Fresh, M!Deleted
<1>3. ASSUME NEW p \in Packet, NEW a \in Issue, NEW s \in Port, Send(p, s, a)
      PROVE  \A q \in Packet : Fate(q)
  <2>1. PICK ok \in BOOLEAN : ok <=> stalled' = None
    OBVIOUS
  <2>2. PICK r : r = M!Fresh(a)
    OBVIOUS
  <2>3. p \notin Inside
    BY <1>3 DEF Send, B!BusSend, B!Free, BridgeFacts
  <2>4. \/ stalled' = None /\ Inside' = Inside \cup {p}
        \/ stalled' = p /\ stalled' # None /\ Inside' = Inside
    BY <1>3, RequestInside DEF Send, B!BusSend
  <2>5. M!recvTimingReq(p, r, ok) /\ p \in Packet \ Inhibited
    BY <1>3, <2>1, <2>2 DEF Send, M!recvTimingReq
  <2>6. DOMAIN r = Parts /\ r.saved = <<>> /\ r.addr = r.issued
    BY <1>2, <2>2, Handed DEF Joint
  <2> QED BY <2>1, <2>3, <2>4, <2>5, <2>6, RequestFate
<1>4. CASE Resend
  <2>1. PICK ok \in BOOLEAN : ok <=> stalled' = None
    OBVIOUS
  <2>2. PICK p : p = stalled
    OBVIOUS
  <2>3. PICK r : r = M!Resent(p)
    OBVIOUS
  <2>4. p \in Packet \ Inhibited /\ p \notin Inside
    BY <1>4, <2>2 DEF Resend, B!BusResend, BridgeFacts, Joint, Apart
  <2>5. \/ stalled' = None /\ Inside' = Inside \cup {p}
        \/ stalled' = p /\ stalled' # None /\ Inside' = Inside
    BY <1>4, <2>2, <2>4, RequestInside DEF Resend, B!BusResend
  <2>6. M!recvTimingReq(p, r, ok)
    BY <1>4, <2>1, <2>2, <2>3 DEF Resend, M!recvTimingReq
  <2>7. DOMAIN r = Parts /\ (p \in NeedsResponse => r.saved = <<>>)
    BY <2>3, <2>4, Handed DEF Joint, Agree
  <2>8. p \in NeedsResponse => r.addr = r.issued
    BY <1>2, <2>3, <2>4 DEF M!Resent
  <2> QED BY <2>1, <2>4, <2>5, <2>6, <2>7, <2>8, RequestFate
<1>5. CASE Abandon
  <2>1. PICK p : p = stalled
    OBVIOUS
  <2>2. p \in Packet /\ p \notin Inside /\ Inside' = Inside /\ req' = [req EXCEPT ![p] = M!Deleted]
    BY <1>5, <2>1 DEF Abandon, B!BusAbandon, BridgeFacts, Inside
  <2> QED BY <2>2, DeleteFate
<1>6. CASE Forward
  BY <1>1, <1>6, ForwardInside DEF Forward, mvars
<1>7. ASSUME NEW p \in Packet, Consume(p) \/ Retire(p) PROVE \A q \in Packet : Fate(q)
  <2>1. req' = [req EXCEPT ![p] = M!Deleted] /\ Inside' = Inside
    BY <1>7 DEF Consume, Retire, bvars, Inside
  <2>2. p \in NeedsResponse => p \notin Inside
    BY <1>7 DEF Consume, Retire, Joint, Agree
  <2> QED BY <2>1, <2>2, DeleteFate
<1>8. ASSUME NEW p \in Packet, Answer(p) PROVE \A q \in Packet : Fate(q)
  BY <1>1, <1>8, AnswerInside DEF Answer, mvars
<1>9. CASE ReturnRefused
  BY <1>1, <1>9 DEF ReturnRefused, B!SlaveTrySendRefused, M!recvTimingResp, Inside
<1>10. CASE UNCHANGED vars
  BY <1>1, <1>10 DEF vars, bvars, mvars, Inside
<1> QED BY <1>3, <1>4, <1>5, <1>6, <1>7, <1>8, <1>9, <1>10, DropFate, ReturnFate DEF Next

-----------------------------------------------------------------------------
(* BridgeFacts from the invariant proved of the bridge.                      *)

BP == INSTANCE BridgeProofs

(* The two names of the bridge's specification mean the same.                *)
LEMMA SameBridge == B!Spec => BP!Spec
<1>1. B!Init => BP!Init
  BY DEF B!Init, BP!Init, B!Deleted, BP!Deleted
<1>2. [B!Next]_B!vars => [BP!Next]_BP!vars
  <2> USE DEF B!vars, BP!vars, B!Deleted, BP!Deleted, B!Free, BP!Free,
       B!recvTimingReq, BP!recvTimingReq, B!schedTimingReq, BP!schedTimingReq,
       B!reqQueueFull, BP!reqQueueFull, B!respQueueFull, BP!respQueueFull,
       B!retryStalledReq, BP!retryStalledReq, B!sendRetry, BP!sendRetry,
       B!masterCalled, BP!masterCalled, B!slaveCalled, BP!slaveCalled,
       B!schedTimingResp, BP!schedTimingResp
  <2>1. \A p \in Packet, s \in Port : B!BusSend(p, s) => BP!BusSend(p, s)
    BY DEF B!BusSend, BP!BusSend
  <2>2. B!BusResend => BP!BusResend
    BY DEF B!BusResend, BP!BusResend
  <2>3. B!BusAbandon => BP!BusAbandon
    BY DEF B!BusAbandon, BP!BusAbandon
  <2>4. B!MasterTrySendAccepted => BP!MasterTrySendAccepted
    BY DEF B!MasterTrySendAccepted, BP!MasterTrySendAccepted
  <2>5. B!MasterTrySendRefused => BP!MasterTrySendRefused
    BY DEF B!MasterTrySendRefused, BP!MasterTrySendRefused
  <2>6. \A p \in Packet : B!RecvTimingResp(p) => BP!RecvTimingResp(p)
    BY DEF B!RecvTimingResp, BP!RecvTimingResp
  <2>7. B!SlaveTrySendAccepted => BP!SlaveTrySendAccepted
    BY DEF B!SlaveTrySendAccepted, BP!SlaveTrySendAccepted
  <2>8. B!SlaveTrySendRefused => BP!SlaveTrySendRefused
    BY DEF B!SlaveTrySendRefused, BP!SlaveTrySendRefused
  <2> QED BY <2>1, <2>2, <2>3, <2>4, <2>5, <2>6, <2>7, <2>8 DEF B!Next, BP!Next
<1> QED BY <1>1, <1>2, PTL DEF B!Spec, BP!Spec

(* The bridge's inductive invariant holds in the composition.                *)
LEMMA BridgeInv == Spec => []BP!IInv
<1>1. BP!BridgeAssumption
  BY MappedBridgeAssumption DEF B!BridgeAssumption, BP!BridgeAssumption, B!IsFiniteSet, BP!IsFiniteSet
<1>2. BP!Spec => []BP!IInv
  BY <1>1, BP!Invariance
<1> QED BY <1>2, BridgeImplemented, SameBridge, PTL DEF BridgeSpec

(* It contains the facts about the bridge used above.                        *)
LEMMA FactsHold == BP!IInv => BridgeFacts
<1> SUFFICES ASSUME BP!IInv PROVE BridgeFacts
  OBVIOUS
<1>1. None \notin Port
  BY MappedBridgeAssumption DEF B!BridgeAssumption
<1>2. /\ reqList \in Seq(Packet) /\ respList \in Seq(Packet) /\ inService \subseteq Packet
      /\ stalled \in Packet \cup {None}
  BY DEF BP!IInv, BP!TypeOK
<1>3. /\ Distinct(reqList) /\ Distinct(respList)
      /\ Range(reqList) \cap Range(respList) = {} /\ inService \cap Range(respList) = {}
      /\ Range(respList) \subseteq NeedsResponse
      /\ stalled \notin Inside /\ (stalled = None <=> upstream = "idle")
  BY DEF BP!IInv, BP!Placement, BP!Inside, Inside, BP!Range, Range, BP!Distinct, Distinct
<1>4. (reqSched \/ reqRefused => reqList # <<>>) /\ (respSched \/ respRefused => respList # <<>>)
  BY DEF BP!IInv, BP!WakeupExact
<1>5. /\ \A p \in Inside : pkt[p].issuer \in Port
      /\ \A p \in (Range(reqList) \cap NeedsResponse) \cup inService :
           p \in Inside /\ pkt[p].origSrc = pkt[p].issuer
  BY DEF BP!IInv, BP!Fields, BP!Inside, Inside, BP!Range, Range
<1>6. \A p \in Inside : pkt[p] # B!Deleted
  <2>1. B!Deleted.issuer = None
    BY DEF B!Deleted
  <2> QED BY <1>1, <1>5, <2>1
<1>7. \A p \in (Range(reqList) \cap NeedsResponse) \cup inService : pkt[p].origSrc # None
  BY <1>1, <1>5
<1> QED BY <1>2, <1>3, <1>4, <1>6, <1>7 DEF BridgeFacts

(* Mapper and bridge agree on every packet, for any packets, queues and      *)
(* translations: both find their own state on a response                     *)
(* (addr_mapper.cc recvTimingResp, bridge.cc recvTimingResp).                *)
THEOREM AlwaysAgree == Spec => []StatesAgree
<1>1. BP!IInv /\ Joint /\ [Next]_vars => Joint'
  BY FactsHold, JointNext
<1>2. BP!IInv /\ Joint => StatesAgree
  BY FactsHold, JointAgrees
<1> QED BY <1>1, <1>2, JointInit, BridgeInv, PTL DEF Spec

\* The step of RoundTrip.
TripStep == \A p \in Packet :
  req[p].place = "below" /\ req'[p].place = "returned"
    => req'[p].addr = req[p].issued /\ pkt[p].dest = pkt[p].issuer

(* If senders build the packets that will be answered anew for a retry, as   *)
(* caches do, then every response returns to the port that issued the        *)
(* request, with the address it was issued to, whatever was refused on the   *)
(* way (addr_mapper.cc recvTimingResp, bridge.cc schedTimingResp).           *)
THEOREM RoundTrips ==
  ASSUME NeedsResponse \ Inhibited \subseteq Rebuilt
  PROVE  Spec => RoundTrip
<1>1. Init => Kept
  <2>1. Init => Inside = {}
    BY DEF Init, B!Init, Inside, Range
  <2> QED BY <2>1 DEF Kept, Original
<1>2. BP!IInv /\ Joint /\ [Next]_vars => Joint'
  BY FactsHold, JointNext
<1>3. BP!IInv /\ Joint /\ Kept /\ [Next]_vars => Kept' /\ [TripStep]_vars
  <2> SUFFICES ASSUME BP!IInv, Joint, Kept, [Next]_vars PROVE Kept' /\ TripStep
    OBVIOUS
  <2>1. /\ Kept'
        /\ \A q \in Packet : req[q].place = "below" /\ req'[q].place = "returned" =>
             req'[q].addr = req[q].issued /\ q \in Range(respList)
    BY FactsHold, Fates, FateKeeps
  <2>2. \A q \in Range(respList) : pkt[q].dest = pkt[q].issuer
    BY DEF BP!IInv, BP!Fields, BP!ResponsesRouted, BP!Range, Range
  <2> QED BY <2>1, <2>2 DEF TripStep
<1> QED BY <1>1, <1>2, <1>3, JointInit, BridgeInv, PTL DEF Spec, RoundTrip, TripStep
=============================================================================
