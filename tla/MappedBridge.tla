---------------------------- MODULE MappedBridge ----------------------------
(***************************************************************************)
(* The north bridge as configured in configs/common/FSConfig.py: the       *)
(* memory bus, the address mapper below it and the I/O bridge below that.  *)
(* The mapper asks the bridge within the call it received, so each step    *)
(* joins an operation of AddrMapper with one of Bridge: whether the mapper *)
(* reports success is what the bridge answered.                            *)
(***************************************************************************)
EXTENDS Integers, Sequences, Functions

CONSTANTS Packet, NeedsResponse, Port, FarPort, ReqQueueLimit, RespQueueLimit,
          None, Inhibited, Rebuilt, GuestOf, AddrSpace, TLB, Issue

VARIABLES reqList, respList, reqSched, respSched, outstandingResponses,
          retryReq, pkt, reqRefused, respRefused, inService, upstream, stalled,
          req, pendingDelete

B == INSTANCE Bridge
M == INSTANCE AddrMapper WITH
       layer <- upstream, held <- stalled,
       refusedResp <- IF respRefused THEN Head(respList) ELSE None

ASSUME MappedBridgeAssumption == B!BridgeAssumption /\ M!AddrMapperAssumption

bvars == <<reqList, respList, reqSched, respSched, outstandingResponses,
           retryReq, pkt, reqRefused, respRefused, inService, upstream, stalled>>
mvars == <<req, pendingDelete>>
vars == <<bvars, mvars>>

Init == B!Init /\ M!Init

\* Mutant: inhibited packets, which no bus holds back, are passed on.
Drop_PassedOn(p, a) ==
  /\ p \in Inhibited /\ M!Free(p) /\ p \in B!Free
  /\ \E s \in Port : B!schedTimingReq(p, [B!Deleted EXCEPT !.src = s, !.issuer = s])
  /\ UNCHANGED <<respList, respSched, outstandingResponses, retryReq, reqRefused,
                 respRefused, inService, upstream, stalled, mvars>>

\* The bus hands a new request to the mapper, which drops it ...
Drop(p, a) ==
  /\ p \in Inhibited
  /\ upstream = "idle" /\ M!Free(p)
  /\ M!recvTimingReq(p, M!Fresh(a), TRUE)
  /\ UNCHANGED bvars

\* ... or passes it to the bridge.
Send(p, s, a) ==
  /\ p \notin Inhibited
  /\ M!Free(p)
  /\ B!BusSend(p, s)
  /\ M!recvTimingReq(p, M!Fresh(a), stalled' = None)

Resend ==
  /\ B!BusResend
  /\ M!recvTimingReq(stalled, M!Resent(stalled), stalled' = None)

Abandon ==
  /\ B!BusAbandon
  /\ req' = [req EXCEPT ![stalled] = M!Deleted]
  /\ UNCHANGED pendingDelete

\* The bridge's master port does not involve the mapper, but for the retry
\* that recvRetryMaster passes on in the same call.
Forward ==
  /\ B!MasterTrySendAccepted \/ B!MasterTrySendRefused
  /\ UNCHANGED mvars

Consume(p) ==
  /\ p \notin NeedsResponse /\ req[p].place = "below" /\ p \in B!Free
  /\ req' = [req EXCEPT ![p] = M!Deleted]
  /\ UNCHANGED <<bvars, pendingDelete>>

Answer(p) == B!RecvTimingResp(p) /\ UNCHANGED mvars

\* The bridge's slave port sends a response through the mapper to the bus.
Return ==
  /\ B!SlaveTrySendAccepted /\ M!recvTimingResp(Head(respList), TRUE)
  /\ UNCHANGED pendingDelete

ReturnRefused ==
  /\ B!SlaveTrySendRefused /\ M!recvTimingResp(Head(respList), FALSE)
  /\ UNCHANGED pendingDelete

Retire(p) ==
  /\ req[p].place = "returned"
  /\ req' = [req EXCEPT ![p] = M!Deleted]
  /\ UNCHANGED <<bvars, pendingDelete>>

Next ==
  \/ \E p \in Packet, a \in Issue : Drop(p, a) \/ \E s \in Port : Send(p, s, a)
  \/ Resend \/ Abandon
  \/ Forward \/ Return \/ ReturnRefused
  \/ \E p \in Packet : Consume(p) \/ Answer(p) \/ Retire(p)

Spec == Init /\ [][Next]_vars

(* As for Bridge: events fire, buses do not refuse for ever, devices answer. *)
FairSpec ==
  /\ Spec
  /\ WF_vars(Resend)
  /\ SF_vars(B!MasterTrySendAccepted /\ UNCHANGED mvars)
  /\ SF_vars(Return)
  /\ \A p \in Packet : WF_vars(Answer(p)) /\ WF_vars(Retire(p)) /\ WF_vars(Consume(p))

----------------------------------------------------------------------------
(* The bridge behaves behind the mapper as it does behind the bus: dropped,  *)
(* refused and retried requests show it nothing but the bus protocol.        *)
BridgeSpec == B!Spec

(* The two components agree on every packet: one that will be answered has   *)
(* the mapper's state exactly while the bridge or the side beyond has it, so *)
(* both find their own state on the response, whatever was refused between.  *)
StatesAgree ==
  \A p \in NeedsResponse :
    /\ (req[p].saved # <<>>) <=>
         (p \in Range(reqList) \cup inService \cup Range(respList))
    /\ p \in Range(reqList) \cup inService => pkt[p].origSrc # None

(* A request that is resent after any number of refusals, by the bridge or   *)
(* by the bus above, returns to the port that issued it with the address it  *)
(* was issued to.                                                            *)
RoundTrip ==
  [][\A p \in Packet :
       req[p].place = "below" /\ req'[p].place = "returned"
         => req'[p].addr = req[p].issued /\ pkt[p].dest = pkt[p].issuer]_vars

(* A request that stalls at the bridge is eventually accepted through the    *)
(* mapper, or given up by its sender.                                        *)
StalledAccepted == \A p \in Packet : (stalled = p) ~> (stalled # p)
=============================================================================
