-------------------------- MODULE AddrMapperProofs --------------------------
(***************************************************************************)
(* Proofs about AddrMapper, for every table, every set of packets and      *)
(* every address space.  The strengthening says what the two peers hold    *)
(* between calls: a refused request is "held" above the mapper, a refused  *)
(* response is still "below" it, and dropped packets are what the mapper   *)
(* frees next.                                                             *)
(***************************************************************************)
EXTENDS AddrMapper, WellFoundedInduction, TLAPS

(* The table leaves the addresses it produces alone.                         *)
Idempotent ==
  \A g \in Range(GuestOf), a \in Addr :
    remapAddr(g, remapAddr(g, a)) = remapAddr(g, a)

(* The table keeps the addresses the masters issue apart.                    *)
Separating ==
  \A g, h \in Range(GuestOf), a, b \in Issue :
    remapAddr(g, a) = remapAddr(h, b) => g = h /\ a = b

Stack ==
  \A p \in Packet :
    IF req[p].place = "below" /\ p \in NeedsResponse
    THEN \E x \in Addr : req[p].saved = <<x>>
    ELSE req[p].saved = <<>>

Peers ==
  /\ layer # "idle" => held \in Packet /\ req[held].place = "held"
  /\ refusedResp # None =>
       refusedResp \in NeedsResponse /\ req[refusedResp].place = "below"
  /\ \A p \in pendingDelete : req[p].place = "dropped"

InFlight(p) == req[p].place \in {"held", "below"}

Address ==
  \A p \in Packet :
    /\ InFlight(p) => req[p].issued \in Issue
    /\ InFlight(p) /\ (p \in Rebuilt \/ Idempotent) =>
         req[p].addr = remapAddr(GuestOf[p], req[p].issued)
    /\ req[p].place = "below" /\ p \in NeedsResponse /\ p \in Rebuilt =>
         req[p].saved = <<req[p].issued>>
    /\ req[p].place = "returned" /\ p \in Rebuilt => req[p].addr = req[p].issued

IInv == TypeOK /\ Stack /\ Peers /\ Address

----------------------------------------------------------------------------
(* A nonempty set of naturals has the least element Min chooses.             *)
LEMMA MinExists ==
  ASSUME NEW S, S \subseteq Nat, S # {}
  PROVE  Min(S) \in S
<1> DEFINE R == OpToRel(<, Nat)
<1>1. IsWellFoundedOn(R, Nat)
  BY NatLessThanWellFounded
<1>2. \E x \in S : \A y \in S : ~(<<y, x>> \in R)
  <2> HIDE DEF R
  <2> QED BY <1>1, WFMin
<1>3. PICK x \in S : \A y \in S : ~(<<y, x>> \in R)
  BY <1>2
<1>4. \A y \in S : x =< y
  <2> SUFFICES ASSUME NEW y \in S, ~(x =< y) PROVE FALSE
    OBVIOUS
  <2>1. x \in Nat /\ y \in Nat /\ y < x
    OBVIOUS
  <2>2. <<y, x>> \in Nat \X Nat /\ <<y, x>>[1] < <<y, x>>[2]
    BY <2>1
  <2>3. R = {ss \in Nat \X Nat : ss[1] < ss[2]}
    BY DEF OpToRel
  <2> QED BY <1>3, <2>2, <2>3
<1> QED BY <1>4 DEF Min

(* LDomAddrTLB::remapAddr yields an address of the address space.            *)
LEMMA RemapType ==
  ASSUME NEW g, NEW a \in Addr
  PROVE  remapAddr(g, a) \in Addr
<1> DEFINE hits == {i \in DOMAIN TLB : contains(TLB[i], g, a)}
<1>1. CASE hits = {}
  BY <1>1 DEF remapAddr
<1>2. CASE hits # {}
  <2>1. hits \subseteq Nat /\ hits \subseteq DOMAIN TLB
    BY AddrMapperAssumption
  <2>2. Min(hits) \in DOMAIN TLB
    <3> HIDE DEF hits
    <3> QED BY <1>2, <2>1, MinExists
  <2>3. TLB[Min(hits)] \in TLBEntry
    <3> HIDE DEF hits
    <3> QED BY <2>2, AddrMapperAssumption
  <2>4. ASSUME NEW e \in TLBEntry PROVE translate(e, a) \in Addr
    BY <2>4, AddrMapperAssumption DEF translate, Addr, TLBEntry
  <2>5. remapAddr(g, a) = translate(TLB[Min(hits)], a)
    BY <1>2 DEF remapAddr
  <2> HIDE DEF hits
  <2> QED BY <2>3, <2>4, <2>5
<1> QED BY <1>1, <1>2

----------------------------------------------------------------------------
(* The constructor establishes the invariant.                                *)
LEMMA InitIInv == Init => IInv
<1> SUFFICES ASSUME Init PROVE IInv
  OBVIOUS
<1>1. Deleted \in PktFields
  BY AddrMapperAssumption DEF Deleted, PktFields, Addr
<1>2. \A p \in Packet : req[p] = Deleted
  BY DEF Init
<1>3. TypeOK
  BY <1>1 DEF Init, TypeOK
<1>4. Stack
  BY <1>2 DEF Stack, Deleted
<1>5. Peers
  BY DEF Init, Peers
<1>6. Address
  BY <1>2 DEF Address, InFlight, Deleted
<1> QED BY <1>3, <1>4, <1>5, <1>6 DEF IInv

(* The packet a sender hands over, new or refused before, has no sender      *)
(* state of the mapper on it and, when the table is idempotent or the packet *)
(* is new, an address that is translated to the right one.                   *)
Offered(p, r) ==
  /\ r \in PktFields /\ r.saved = <<>>
  /\ r.issued \in Issue
  /\ p \in Rebuilt => r.addr = r.issued
  /\ p \in Rebuilt \/ Idempotent =>
       remapAddr(GuestOf[p], r.addr) = remapAddr(GuestOf[p], r.issued)

(* recvTimingReq keeps the invariant, whether the packet is dropped, passed  *)
(* on or refused.                                                            *)
LEMMA RecvTimingReqStep ==
  ASSUME IInv, NEW p \in Packet, NEW r, Offered(p, r), NEW ok \in BOOLEAN,
         layer = "idle" \/ held = p,
         req[p].place \in {"free", "held"},
         recvTimingReq(p, r, ok), UNCHANGED refusedResp
  PROVE  IInv'
<1> USE DEF Offered
<1> DEFINE a == remapAddr(GuestOf[p], r.addr)
<1>1. a \in Addr
  BY RemapType DEF PktFields
<1>3. Cleared \in [Packet -> PktFields]
  <2>1. Deleted \in PktFields
    BY AddrMapperAssumption DEF Deleted, PktFields, Addr
  <2> QED BY <2>1 DEF Cleared, IInv, TypeOK
<1>4. PICK s : /\ req' = [Cleared EXCEPT ![p] = s]
               /\ s \in PktFields /\ s.issued = r.issued
               /\ \/ /\ s.place = "dropped" /\ s.saved = <<>>
                     /\ pendingDelete' = {p} /\ layer' = "idle" /\ held' = None
                  \/ /\ s.place = "below" /\ s.addr = a
                     /\ s.saved = IF p \in NeedsResponse THEN <<r.addr>> ELSE <<>>
                     /\ pendingDelete' = {} /\ layer' = "idle" /\ held' = None
                  \/ /\ s.place = "held" /\ s.addr = a /\ s.saved = <<>>
                     /\ pendingDelete' = {} /\ layer' = "waiting" /\ held' = p
  <2>1. CASE p \in Inhibited
    <3> DEFINE s == [r EXCEPT !.place = "dropped"]
    <3>1. s \in PktFields /\ s.issued = r.issued /\ s.place = "dropped" /\ s.saved = <<>>
      BY DEF PktFields
    <3>2. req' = [Cleared EXCEPT ![p] = s] /\ pendingDelete' = {p}
          /\ layer' = "idle" /\ held' = None
      BY <2>1 DEF recvTimingReq
    <3> HIDE DEF s
    <3> QED BY <3>1, <3>2
  <2>2. CASE p \notin Inhibited
    <3> DEFINE stack == IF p \in NeedsResponse THEN <<r.addr>> \o r.saved ELSE r.saved
               sent == [r EXCEPT !.saved = stack, !.addr = a]
    <3>1. stack = IF p \in NeedsResponse THEN <<r.addr>> ELSE <<>>
      BY DEF PktFields
    <3>2. stack \in Seq(Addr)
      BY <3>1 DEF PktFields
    <3>3. /\ sent \in PktFields /\ sent.issued = r.issued /\ sent.addr = a
          /\ sent.saved = stack
      <4> HIDE DEF a, stack
      <4> QED BY <1>1, <3>2 DEF PktFields
    <3>4. CASE ok
      <4> DEFINE s == [sent EXCEPT !.place = "below"]
      <4>1. req' = [Cleared EXCEPT ![p] = s] /\ pendingDelete' = {}
            /\ layer' = "idle" /\ held' = None
        BY <2>2, <3>4 DEF recvTimingReq
      <4>2. s \in PktFields /\ s.issued = r.issued /\ s.place = "below" /\ s.addr = a
            /\ s.saved = stack
        <5> HIDE DEF sent, stack, a
        <5> QED BY <3>3 DEF PktFields
      <4> HIDE DEF s
      <4> QED BY <3>1, <4>1, <4>2
    <3>5. CASE ~ok
      <4> DEFINE s == [sent EXCEPT !.saved = r.saved, !.place = "held"]
      <4>1. req' = [Cleared EXCEPT ![p] = s] /\ pendingDelete' = {}
            /\ layer' = "waiting" /\ held' = p
        BY <2>2, <3>5 DEF recvTimingReq
      <4>2. s \in PktFields /\ s.issued = r.issued /\ s.place = "held" /\ s.addr = a
            /\ s.saved = <<>>
        <5> HIDE DEF sent, a
        <5> QED BY <3>3 DEF PktFields
      <4> HIDE DEF s
      <4> QED BY <4>1, <4>2
    <3> QED BY <3>4, <3>5
  <2> QED BY <2>1, <2>2
<1>5. req'[p] = s /\ \A q \in Packet : q # p => req'[q] = Cleared[q]
  BY <1>3, <1>4
<1>6. \A q \in Packet : q # p =>
        \/ req'[q] = req[q]
        \/ req'[q] = Deleted /\ req[q].place = "dropped"
  BY <1>5 DEF Cleared, IInv, Peers
<1>7. TypeOK'
  <2>1. req' \in [Packet -> PktFields]
    BY <1>3, <1>4
  <2>2. pendingDelete' \subseteq Packet /\ layer' \in {"idle", "waiting", "retry"}
        /\ held' \in Packet \cup {None}
    BY <1>4
  <2> QED BY <2>1, <2>2 DEF TypeOK, IInv
<1>8. Stack'
  <2>1. ASSUME NEW q \in Packet, q # p
        PROVE  IF req'[q].place = "below" /\ q \in NeedsResponse
               THEN \E x \in Addr : req'[q].saved = <<x>> ELSE req'[q].saved = <<>>
    <3>1. CASE req'[q] = req[q]
      BY <3>1 DEF IInv, Stack
    <3>2. CASE req'[q] = Deleted
      BY <3>2 DEF Deleted
    <3> QED BY <1>6, <2>1, <3>1, <3>2
  <2>2. IF s.place = "below" /\ p \in NeedsResponse
        THEN \E x \in Addr : s.saved = <<x>> ELSE s.saved = <<>>
    <3>1. r.addr \in Addr
      BY DEF PktFields
    <3> QED BY <1>4, <3>1
  <2> QED BY <1>5, <2>1, <2>2 DEF Stack
<1>9. Peers'
  <2>1. layer' # "idle" => held' \in Packet /\ req'[held'].place = "held"
    BY <1>4, <1>5
  <2>2. refusedResp' # None =>
          refusedResp' \in NeedsResponse /\ req'[refusedResp'].place = "below"
    BY <1>6, AddrMapperAssumption DEF IInv, Peers
  <2>3. \A q \in pendingDelete' : req'[q].place = "dropped"
    BY <1>4, <1>5
  <2> QED BY <2>1, <2>2, <2>3 DEF Peers
<1>10. Address'
  <2>1. ASSUME NEW q \in Packet, q # p
        PROVE  req'[q] = req[q] \/ req'[q].place = "free"
    BY <1>6, <2>1 DEF Deleted
  <2>2. /\ s.place \in {"held", "below"} => s.issued \in Issue
        /\ s.place \in {"held", "below"} /\ (p \in Rebuilt \/ Idempotent) =>
             s.addr = remapAddr(GuestOf[p], s.issued)
        /\ s.place = "below" /\ p \in NeedsResponse /\ p \in Rebuilt =>
             s.saved = <<s.issued>>
        /\ s.place # "returned"
    BY <1>4
  <2> QED BY <1>5, <2>1, <2>2 DEF Address, InFlight, IInv
<1> QED BY <1>7, <1>8, <1>9, <1>10 DEF IInv

(* A step that changes the record of one packet and, of the rest of the      *)
(* state, only what the peers hold, keeps the invariant if the new record    *)
(* is one the invariant allows.                                              *)
LEMMA OnePacketStep ==
  ASSUME IInv, NEW p \in Packet, NEW s \in PktFields,
         req' = [req EXCEPT ![p] = s], UNCHANGED pendingDelete,
         p \notin pendingDelete,
         \/ layer' = layer /\ held' = held
         \/ layer' = "idle" /\ held' = None,
         layer' # "idle" => held # p,
         refusedResp' = refusedResp \/ refusedResp' = None,
         refusedResp' # p,
         s.place \in {"free", "returned"}, s.saved = <<>>,
         s.place = "returned" /\ p \in Rebuilt => s.addr = s.issued
  PROVE  IInv'
<1>1. req'[p] = s /\ \A q \in Packet : q # p => req'[q] = req[q]
  BY DEF IInv, TypeOK
<1>2. TypeOK'
  <2>1. req' \in [Packet -> PktFields]
    BY DEF IInv, TypeOK
  <2> QED BY <2>1 DEF IInv, TypeOK
<1>3. Stack'
  BY <1>1 DEF IInv, Stack
<1>4. Peers'
  <2>1. layer' # "idle" => held' \in Packet /\ req'[held'].place = "held"
    BY <1>1 DEF IInv, Peers
  <2>2. refusedResp' # None =>
          refusedResp' \in NeedsResponse /\ req'[refusedResp'].place = "below"
    BY <1>1, AddrMapperAssumption DEF IInv, Peers
  <2>3. \A q \in pendingDelete' : req'[q].place = "dropped"
    BY <1>1 DEF IInv, Peers, TypeOK
  <2> QED BY <2>1, <2>2, <2>3 DEF Peers
<1>5. Address'
  BY <1>1 DEF IInv, Address, InFlight
<1> QED BY <1>2, <1>3, <1>4, <1>5 DEF IInv

(* recvTimingResp keeps the invariant: it finds a sender state, and a        *)
(* refusal by the bus upstream leaves the packet as it was.                  *)
LEMMA RecvTimingRespStep ==
  ASSUME IInv, NEW p \in NeedsResponse, NEW ok \in BOOLEAN,
         req[p].place = "below", refusedResp \in {None, p},
         recvTimingResp(p, ok), UNCHANGED <<pendingDelete, layer, held>>
  PROVE  IInv'
<1>1. p \in Packet /\ p # None
  BY AddrMapperAssumption
<1>2. CASE ok
  <2>1. PICK x \in Addr : req[p].saved = <<x>>
    BY <1>1 DEF IInv, Stack
  <2>2. Head(req[p].saved) = x /\ Tail(req[p].saved) = <<>>
    BY <2>1
  <2> DEFINE s == [req[p] EXCEPT !.addr = x, !.saved = <<>>, !.place = "returned"]
  <2>3. req' = [req EXCEPT ![p] = s]
    BY <1>1, <1>2, <2>2 DEF recvTimingResp, IInv, TypeOK
  <2>4. /\ s \in PktFields /\ s.place = "returned" /\ s.saved = <<>>
        /\ s.addr = x /\ s.issued = req[p].issued
    <3>1. req[p] \in PktFields
      BY <1>1 DEF IInv, TypeOK
    <3>2. ASSUME NEW r \in PktFields
          PROVE  LET t == [r EXCEPT !.addr = x, !.saved = <<>>, !.place = "returned"]
                 IN  /\ t \in PktFields /\ t.place = "returned" /\ t.saved = <<>>
                     /\ t.addr = x /\ t.issued = r.issued
      <4>1. <<>> \in Seq(Addr)
        OBVIOUS
      <4> QED BY <4>1 DEF PktFields
    <3> QED BY <3>1, <3>2
  <2>5. p \in Rebuilt => x = req[p].issued
    BY <1>1, <2>1 DEF IInv, Address
  <2>6. p \notin pendingDelete /\ (layer # "idle" => held # p)
    BY DEF IInv, Peers
  <2>7. refusedResp' = None
    BY <1>2 DEF recvTimingResp
  <2> HIDE DEF s
  <2> QED BY <1>1, <2>3, <2>4, <2>5, <2>6, <2>7, OnePacketStep
<1>3. CASE ~ok
  <2>1. refusedResp' = p /\ req' = req
    BY <1>3 DEF recvTimingResp
  <2>2. TypeOK' /\ Stack'
    BY <1>1, <2>1 DEF IInv, TypeOK, Stack
  <2>3. Peers'
    BY <1>1, <2>1 DEF IInv, Peers
  <2>4. Address'
    BY <2>1 DEF IInv, Address, InFlight
  <2> QED BY <2>2, <2>3, <2>4 DEF IInv
<1> QED BY <1>2, <1>3

(* A packet its owner is done with is deleted.                               *)
LEMMA DeleteStep ==
  ASSUME IInv, NEW p \in Packet,
         req' = [req EXCEPT ![p] = Deleted], UNCHANGED <<pendingDelete, refusedResp>>,
         \/ req[p].place = "returned" /\ UNCHANGED <<layer, held>>
         \/ /\ req[p].place = "below" /\ p \notin NeedsResponse
            /\ UNCHANGED <<layer, held>>
         \/ req[p].place = "held" /\ layer' = "idle" /\ held' = None
  PROVE  IInv'
<1>1. Deleted \in PktFields /\ Deleted.place = "free" /\ Deleted.saved = <<>>
  BY AddrMapperAssumption DEF Deleted, PktFields, Addr
<1>2. p \notin pendingDelete /\ refusedResp # p /\ (layer' # "idle" => held # p)
  BY AddrMapperAssumption DEF IInv, Peers
<1>3. /\ \/ layer' = layer /\ held' = held
         \/ layer' = "idle" /\ held' = None
      /\ refusedResp' = refusedResp /\ pendingDelete' = pendingDelete
  OBVIOUS
<1> HIDE DEF Deleted
<1> QED BY <1>1, <1>2, <1>3, OnePacketStep

(* The fields of a packet that a master has just made.                       *)
LEMMA FreshFields ==
  ASSUME NEW a \in Addr
  PROVE  Fresh(a) \in PktFields /\ Fresh(a).addr = a /\ Fresh(a).issued = a
         /\ Fresh(a).saved = <<>>
<1>1. Deleted \in PktFields /\ Deleted.saved = <<>>
  BY AddrMapperAssumption DEF Deleted, PktFields, Addr
<1>2. ASSUME NEW d \in PktFields, d.saved = <<>>
      PROVE  LET f == [d EXCEPT !.addr = a, !.issued = a]
             IN  f \in PktFields /\ f.addr = a /\ f.issued = a /\ f.saved = <<>>
  BY <1>2 DEF PktFields
<1> HIDE DEF Deleted
<1> QED BY <1>1, <1>2 DEF Fresh

(* Every step keeps the invariant.                                           *)
LEMMA NextIInv == IInv /\ [Next]_vars => IInv'
<1> SUFFICES ASSUME IInv, [Next]_vars PROVE IInv'
  OBVIOUS
<1>1. ASSUME NEW p \in Packet, NEW a \in Issue, NEW ok \in BOOLEAN, SendReq(p, a, ok)
      PROVE  IInv'
  <2>1. Fresh(a) \in PktFields /\ Fresh(a).addr = a /\ Fresh(a).issued = a
        /\ Fresh(a).saved = <<>>
    BY FreshFields, AddrMapperAssumption
  <2>2. Offered(p, Fresh(a))
    BY <2>1 DEF Offered
  <2>3. layer = "idle" /\ req[p].place = "free"
        /\ recvTimingReq(p, Fresh(a), ok) /\ UNCHANGED refusedResp
    BY <1>1 DEF SendReq, Free
  <2> QED BY <2>2, <2>3, RecvTimingReqStep
<1>2. ASSUME NEW ok \in BOOLEAN, ResendReq(ok) PROVE IInv'
  <2>1. held \in Packet /\ req[held].place = "held" /\ req[held] \in PktFields
    BY <1>2 DEF ResendReq, IInv, Peers, TypeOK
  <2>2. req[held].issued \in Issue /\ req[held].issued \in Addr /\ req[held].saved = <<>>
        /\ req[held].addr \in Addr
    BY <2>1, AddrMapperAssumption DEF IInv, Address, InFlight, Stack, PktFields
  <2>3. Offered(held, Resent(held))
    <3>1. CASE held \in Rebuilt
      <4> DEFINE i == req[held].issued
                 r == Fresh(i)
      <4>1. r \in PktFields /\ r.addr = i /\ r.issued = i /\ r.saved = <<>>
        BY <2>1, <2>2, AddrMapperAssumption DEF Fresh, Deleted, PktFields, Addr
      <4>2. Resent(held) = r
        BY <3>1 DEF Resent
      <4> HIDE DEF r
      <4> QED BY <2>2, <4>1, <4>2 DEF Offered
    <3>2. CASE held \notin Rebuilt
      <4>1. Resent(held) = req[held]
        BY <3>2 DEF Resent
      <4>2. Idempotent => req[held].addr = remapAddr(GuestOf[held], req[held].issued)
        BY <2>1 DEF IInv, Address, InFlight
      <4>3. GuestOf[held] \in Range(GuestOf)
        BY <2>1, AddrMapperAssumption DEF Range
      <4>4. Idempotent => remapAddr(GuestOf[held], req[held].addr)
                            = remapAddr(GuestOf[held], req[held].issued)
        BY <2>2, <4>2, <4>3 DEF Idempotent
      <4> QED BY <2>1, <2>2, <3>2, <4>1, <4>4 DEF Offered
    <3> QED BY <3>1, <3>2
  <2>4. recvTimingReq(held, Resent(held), ok) /\ UNCHANGED refusedResp
    BY <1>2 DEF ResendReq
  <2> QED BY <2>1, <2>3, <2>4, RecvTimingReqStep
<1>3. ASSUME NEW ok \in BOOLEAN, RecvRetrySlave(ok) PROVE IInv'
  <2>1. refusedResp \in NeedsResponse /\ req[refusedResp].place = "below"
    BY <1>3 DEF RecvRetrySlave, IInv, Peers
  <2>2. recvTimingResp(refusedResp, ok) /\ UNCHANGED <<pendingDelete, layer, held>>
    BY <1>3 DEF RecvRetrySlave
  <2> QED BY <2>1, <2>2, RecvTimingRespStep
<1>4. CASE RecvRetryMaster
  <2>1. UNCHANGED <<req, pendingDelete, held, refusedResp>> /\ layer # "idle"
        /\ layer' = "retry"
    BY <1>4 DEF RecvRetryMaster
  <2>2. TypeOK' /\ Stack'
    BY <2>1 DEF IInv, TypeOK, Stack
  <2>3. Peers'
    BY <2>1 DEF IInv, Peers
  <2>4. Address'
    BY <2>1 DEF IInv, Address, InFlight
  <2> QED BY <2>2, <2>3, <2>4 DEF IInv
<1>5. CASE AbandonReq
  <2>1. held \in Packet /\ req[held].place = "held"
    BY <1>5 DEF AbandonReq, IInv, Peers
  <2> QED BY <1>5, <2>1, DeleteStep DEF AbandonReq
<1>6. ASSUME NEW p \in Packet, NEW ok \in BOOLEAN, SendResp(p, ok) PROVE IInv'
  BY <1>6, RecvTimingRespStep DEF SendResp
<1>7. ASSUME NEW p \in Packet, Consume(p) PROVE IInv'
  BY <1>7, DeleteStep DEF Consume
<1>8. ASSUME NEW p \in Packet, Retire(p) PROVE IInv'
  BY <1>8, DeleteStep DEF Retire
<1>9. CASE UNCHANGED vars
  <2>1. TypeOK' /\ Stack'
    BY <1>9 DEF vars, IInv, TypeOK, Stack
  <2>2. Peers' /\ Address'
    BY <1>9 DEF vars, IInv, Peers, Address, InFlight
  <2> QED BY <2>1, <2>2 DEF IInv
<1> QED BY <1>1, <1>2, <1>3, <1>4, <1>5, <1>6, <1>7, <1>8, <1>9 DEF Next

----------------------------------------------------------------------------
(* The strengthened invariant holds in every reachable state.                *)
THEOREM Invariance == Spec => []IInv
BY InitIInv, NextIInv, PTL DEF Spec

(* Types: in particular, translation never leaves the address space.         *)
THEOREM TypeCorrect == Spec => []TypeOK
<1>1. IInv => TypeOK
  BY DEF IInv
<1> QED BY <1>1, Invariance, PTL

(* Whatever the table and the senders do, and however often either side      *)
(* refuses, recvTimingResp finds exactly the one sender state that           *)
(* recvTimingReq pushed, and senders get their packets back without one.     *)
THEOREM SenderStatesExact == Spec => []SenderStateExact
<1>1. IInv => SenderStateExact
  <2>1. Len(<<>>) = 0 /\ \A x \in Addr : Len(<<x>>) = 1
    OBVIOUS
  <2> QED BY <2>1 DEF IInv, Stack, SenderStateExact
<1> QED BY <1>1, Invariance, PTL

(* Every response reaches a sender that rebuilds refused packets with the    *)
(* address the request was issued to.                                        *)
THEOREM RestoredIfRebuilt == Spec => []Restored
<1>1. IInv => Restored
  BY AddrMapperAssumption DEF IInv, Address, Restored
<1> QED BY <1>1, Invariance, PTL

(* If senders rebuild refused packets, or the table leaves its own targets   *)
(* alone, every request is translated as if once.                            *)
THEOREM TranslatedAsIfOnce ==
  ASSUME Rebuilt = Packet \/ Idempotent PROVE Spec => []TranslatedOnce
<1>1. IInv => TranslatedOnce
  BY DEF IInv, Address, InFlight, TranslatedOnce
<1> QED BY <1>1, Invariance, PTL

(* Isolation: if in addition the table sends no two issued addresses to one  *)
(* place, requests of different LDoms never meet below the mapper.           *)
THEOREM LDomsStayApart ==
  ASSUME Rebuilt = Packet \/ Idempotent, Separating PROVE Spec => []LDomsApart
<1>1. IInv => LDomsApart
  <2> SUFFICES ASSUME IInv, NEW p \in Packet, NEW q \in Packet,
                      req[p].place = "below", req[q].place = "below",
                      req[p].addr = req[q].addr
               PROVE  GuestOf[p] = GuestOf[q] /\ req[p].issued = req[q].issued
    BY DEF LDomsApart
  <2>1. /\ req[p].issued \in Issue /\ req[q].issued \in Issue
        /\ remapAddr(GuestOf[p], req[p].issued) = remapAddr(GuestOf[q], req[q].issued)
    BY DEF IInv, Address, InFlight
  <2>2. GuestOf[p] \in Range(GuestOf) /\ GuestOf[q] \in Range(GuestOf)
    BY AddrMapperAssumption DEF Range
  <2> QED BY <2>1, <2>2 DEF Separating
<1> QED BY <1>1, Invariance, PTL
=============================================================================
