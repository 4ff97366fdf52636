------------------------------- MODULE Bridge -------------------------------
(***************************************************************************)
(* The timing protocol of PARDg5VBridge (hyper/mem/bridge.cc): a slave     *)
(* port that accepts requests and a master port that forwards them, each   *)
(* with a transmit list, joined by a credit counter for responses.         *)
(*                                                                         *)
(* The bridge sits between two buses.  The upstream bus holds a refused    *)
(* request until the bridge calls sendRetry; the downstream bus, and the   *)
(* upstream bus for responses, may refuse a packet and then owe a retry.   *)
(* Ticks are abstracted away: a scheduled sendEvent fires some time later. *)
(***************************************************************************)
EXTENDS Integers, Sequences, FiniteSets, Functions

CONSTANTS
  Packet,          \* packet objects; an object is reused once it is deleted
  NeedsResponse,   \* those that expect a response and are not inhibited
  Port,            \* slave ports of the upstream bus
  FarPort,         \* the bridge's own slave port id on the downstream bus
  ReqQueueLimit,   \* req_size
  RespQueueLimit,  \* resp_size
  None

ASSUME BridgeAssumption ==
  /\ NeedsResponse \subseteq Packet
  /\ IsFiniteSet(Packet)
  /\ FarPort \notin Port
  /\ None \notin Packet \cup Port \cup {FarPort}
  /\ ReqQueueLimit \in Nat \ {0}
  /\ RespQueueLimit \in Nat \ {0}

VARIABLES
  reqList,               \* BridgeMasterPort::transmitList
  respList,              \* BridgeSlavePort::transmitList
  reqSched, respSched,   \* sendEvent.scheduled() of either port
  outstandingResponses,  \* responses for which space has been reserved
  retryReq,              \* a request was refused and is owed a retry
  pkt,                   \* fields of each packet the bridge reads or writes
  reqRefused,            \* the downstream bus owes the master port a retry
  respRefused,           \* the upstream bus owes the slave port a retry
  inService,             \* requests accepted downstream, not yet answered
  upstream,              \* the bus layer in front of the slave port
  stalled                \* the request that layer is holding, or None

vars == <<reqList, respList, reqSched, respSched, outstandingResponses,
          retryReq, pkt, reqRefused, respRefused, inService, upstream, stalled>>

\* A packet object that is not in use.
Deleted == [src |-> None, dest |-> None, origSrc |-> None, issuer |-> None]

PktFields == [src     : Port \cup {FarPort, None},
              dest    : Port \cup {FarPort, None},
              origSrc : Port \cup {None},
              issuer  : Port \cup {None}]

Free == {p \in Packet : pkt[p] = Deleted}

Init ==
  /\ reqList = <<>> /\ respList = <<>>
  /\ reqSched = FALSE /\ respSched = FALSE
  /\ outstandingResponses = 0
  /\ retryReq = FALSE
  /\ pkt = [p \in Packet |-> Deleted]
  /\ reqRefused = FALSE /\ respRefused = FALSE
  /\ inService = {}
  /\ upstream = "idle"
  /\ stalled = None

----------------------------------------------------------------------------
respQueueFull == outstandingResponses = RespQueueLimit
reqQueueFull == Len(reqList) = ReqQueueLimit

\* Mutant: the event is scheduled for every packet, not only for the head.
schedTimingReq_AlwaysSchedules(p, f) ==
  /\ pkt' = [pkt EXCEPT ![p] =
       IF p \in NeedsResponse THEN [f EXCEPT !.origSrc = f.src] ELSE f]
  /\ reqSched' = TRUE
  /\ reqList' = Append(reqList, p)

(* schedTimingReq: remember the source in a RequestState on the packet, and *)
(* schedule the send event if the packet becomes the head of the list.      *)
schedTimingReq(p, f) ==
  /\ pkt' = [pkt EXCEPT ![p] =
       IF p \in NeedsResponse THEN [f EXCEPT !.origSrc = f.src] ELSE f]
  /\ reqSched' = (reqSched \/ reqList = <<>>)
  /\ reqList' = Append(reqList, p)

\* Mutant: a request that wants no response reserves space too.
recvTimingReq_ReservesAlways(p, f) ==
  IF reqQueueFull \/ respQueueFull
  THEN /\ retryReq' = TRUE
       /\ pkt' = [pkt EXCEPT ![p] = f]
       /\ upstream' = "waiting" /\ stalled' = p
       /\ UNCHANGED <<reqList, reqSched, outstandingResponses>>
  ELSE /\ outstandingResponses' = outstandingResponses + 1
       /\ schedTimingReq(p, f)
       /\ upstream' = "idle" /\ stalled' = None
       /\ UNCHANGED retryReq

(* recvTimingReq: refuse when either queue has no room, else reserve space  *)
(* for the response and queue the request.  f are the fields of the packet  *)
(* as the bus hands it over; a refused packet stays with the bus.           *)
recvTimingReq(p, f) ==
  IF reqQueueFull \/ (p \in NeedsResponse /\ respQueueFull)
  THEN /\ retryReq' = TRUE
       /\ pkt' = [pkt EXCEPT ![p] = f]
       /\ upstream' = "waiting" /\ stalled' = p
       /\ UNCHANGED <<reqList, reqSched, outstandingResponses>>
  ELSE /\ outstandingResponses' =
            outstandingResponses + (IF p \in NeedsResponse THEN 1 ELSE 0)
       /\ schedTimingReq(p, f)
       /\ upstream' = "idle" /\ stalled' = None
       /\ UNCHANGED retryReq

(* sendRetry on the slave port: the layer of the upstream bus that holds    *)
(* the refused request leaves its waiting state.                            *)
sendRetry == upstream' = "retry"

retryStalledReq ==
  IF retryReq THEN retryReq' = FALSE /\ sendRetry
              ELSE UNCHANGED <<retryReq, upstream>>

(* A new request reaches the upstream bus on port s; the bus marks it with  *)
(* its source.  A layer that waits for its peer forwards nothing.           *)
BusSend(p, s) ==
  /\ upstream = "idle"
  /\ p \in Free
  /\ recvTimingReq(p, [Deleted EXCEPT !.src = s, !.issuer = s])
  /\ UNCHANGED <<respList, respSched, reqRefused, respRefused, inService>>

(* The refused request is first in line when the layer retries.             *)
BusResend ==
  /\ upstream = "retry"
  /\ recvTimingReq(stalled, pkt[stalled])
  /\ UNCHANGED <<respList, respSched, reqRefused, respRefused, inService>>

(* Or its sender no longer wants it by then (a cache whose writeback was     *)
(* snooped away, MemSidePacketQueue::sendDeferredPacket), and deletes it.    *)
BusAbandon ==
  /\ upstream = "retry"
  /\ upstream' = "idle" /\ stalled' = None
  /\ pkt' = [pkt EXCEPT ![stalled] = Deleted]
  /\ UNCHANGED <<reqList, respList, reqSched, respSched, outstandingResponses,
                 retryReq, reqRefused, respRefused, inService>>

(* trySendTiming of the master port, called by sendEvent or by recvRetry.   *)
masterCalled == reqSched \/ reqRefused

\* Mutant: a request that wants no response is not popped once it is sent.
MasterTrySendAccepted_KeepsPosted ==
  LET p == Head(reqList)
      rest == IF p \in NeedsResponse THEN Tail(reqList) ELSE reqList IN
  /\ masterCalled
  /\ reqList' = rest
  /\ reqSched' = (rest # <<>>)
  /\ reqRefused' = FALSE
  /\ inService' = inService \cup ({p} \cap NeedsResponse)
  /\ pkt' = [pkt EXCEPT ![p].src = FarPort]
  /\ retryStalledReq
  /\ UNCHANGED <<respList, respSched, outstandingResponses, respRefused, stalled>>

(* ... the downstream bus takes the request.  It overwrites the source with *)
(* the bridge's own port; a request without response is consumed there.     *)
MasterTrySendAccepted ==
  LET p == Head(reqList) IN
  /\ masterCalled
  /\ reqList' = Tail(reqList)
  /\ reqSched' = (Tail(reqList) # <<>>)
  /\ reqRefused' = FALSE
  /\ IF p \in NeedsResponse
       THEN /\ inService' = inService \cup {p}
            /\ pkt' = [pkt EXCEPT ![p].src = FarPort]
       ELSE /\ pkt' = [pkt EXCEPT ![p] = Deleted]
            /\ UNCHANGED inService
  /\ retryStalledReq
  /\ UNCHANGED <<respList, respSched, outstandingResponses, respRefused, stalled>>

(* ... the downstream bus refuses it and will call recvRetry.               *)
MasterTrySendRefused ==
  /\ masterCalled
  /\ reqSched' = FALSE
  /\ reqRefused' = TRUE
  /\ UNCHANGED <<reqList, respList, respSched, outstandingResponses, retryReq,
                 pkt, respRefused, inService, upstream, stalled>>

(* schedTimingResp: the original source becomes the destination, the sender *)
(* state is dropped, and the send event is scheduled for a new head.        *)
schedTimingResp(p) ==
  /\ pkt' = [pkt EXCEPT ![p].dest = pkt[p].origSrc, ![p].origSrc = None,
                        ![p].src = None]
  /\ respSched' = (respSched \/ respList = <<>>)
  /\ respList' = Append(respList, p)

(* recvTimingResp of the master port: the device answered and the far bus   *)
(* routed the response here.  It is never refused.                          *)
RecvTimingResp(p) ==
  /\ p \in inService
  /\ inService' = inService \ {p}
  /\ schedTimingResp(p)
  /\ UNCHANGED <<reqList, reqSched, outstandingResponses, retryReq, reqRefused,
                 respRefused, upstream, stalled>>

slaveCalled == respSched \/ respRefused

\* Mutant: only the master port retries stalled requests.
SlaveTrySendAccepted_NoRetry ==
  LET p == Head(respList) IN
  /\ slaveCalled
  /\ respList' = Tail(respList)
  /\ outstandingResponses' = outstandingResponses - 1
  /\ respSched' = (Tail(respList) # <<>>)
  /\ respRefused' = FALSE
  /\ pkt' = [pkt EXCEPT ![p] = Deleted]
  /\ UNCHANGED <<reqList, reqSched, reqRefused, inService, stalled, retryReq,
                 upstream>>

(* trySendTiming of the slave port: the upstream bus takes the response, a  *)
(* credit is released and a stalled request may be retried.                 *)
SlaveTrySendAccepted ==
  LET p == Head(respList) IN
  /\ slaveCalled
  /\ respList' = Tail(respList)
  /\ outstandingResponses' = outstandingResponses - 1
  /\ respSched' = (Tail(respList) # <<>>)
  /\ respRefused' = FALSE
  /\ pkt' = [pkt EXCEPT ![p] = Deleted]
  /\ IF ~reqQueueFull /\ retryReq
       THEN retryReq' = FALSE /\ sendRetry
       ELSE UNCHANGED <<retryReq, upstream>>
  /\ UNCHANGED <<reqList, reqSched, reqRefused, inService, stalled>>

SlaveTrySendRefused ==
  /\ slaveCalled
  /\ respSched' = FALSE
  /\ respRefused' = TRUE
  /\ UNCHANGED <<reqList, respList, reqSched, outstandingResponses, retryReq,
                 pkt, reqRefused, inService, upstream, stalled>>

Next ==
  \/ \E p \in Packet, s \in Port : BusSend(p, s)
  \/ BusResend
  \/ BusAbandon
  \/ MasterTrySendAccepted
  \/ MasterTrySendRefused
  \/ \E p \in Packet : RecvTimingResp(p)
  \/ SlaveTrySendAccepted
  \/ SlaveTrySendRefused

Spec == Init /\ [][Next]_vars

(* Scheduled events fire, a bus that owes a retry calls it and does not     *)
(* refuse for ever, and devices answer.  Nothing obliges a master to send a *)
(* new request.                                                             *)
FairSpec ==
  /\ Spec
  /\ WF_vars(BusResend)
  /\ SF_vars(MasterTrySendAccepted)
  /\ SF_vars(SlaveTrySendAccepted)
  /\ \A p \in Packet : WF_vars(RecvTimingResp(p))

----------------------------------------------------------------------------
(* Types of the bridge's lists, flags, counter and packet fields.           *)
TypeOK ==
  /\ reqList \in Seq(Packet) /\ respList \in Seq(Packet)
  /\ reqSched \in BOOLEAN /\ respSched \in BOOLEAN
  /\ outstandingResponses \in Nat
  /\ retryReq \in BOOLEAN
  /\ pkt \in [Packet -> PktFields]
  /\ reqRefused \in BOOLEAN /\ respRefused \in BOOLEAN
  /\ inService \subseteq Packet
  /\ upstream \in {"idle", "waiting", "retry"}
  /\ stalled \in Packet \cup {None}

\* Requests somewhere in the bridge or beyond it that will be answered.
Owed == (Range(reqList) \cup inService \cup Range(respList)) \cap NeedsResponse

(* The counter of reserved responses is exactly the number of requests whose *)
(* response has not been handed to the upstream bus (recvTimingReq adds,     *)
(* trySendTiming subtracts: no credit leaks, none is released twice).        *)
CreditsExact == outstandingResponses = Cardinality(Owed)

(* bridge.cc:132 "we are guaranteed to have space for the response": even if *)
(* every request being served were answered now, the response list would not *)
(* outgrow resp_size, and the request list never outgrows req_size (assert   *)
(* in schedTimingReq).                                                       *)
QueuesBounded ==
  /\ Len(respList) + Cardinality(inService) <= RespQueueLimit
  /\ Len(reqList) <= ReqQueueLimit

(* Exactly one thing will call trySendTiming on a port with packets to send: *)
(* its send event or a retry from the bus, never both (a second schedule of  *)
(* the event is fatal) and never neither (the port would hang).  An empty    *)
(* port is not called at all (assert(!transmitList.empty())).                *)
WakeupExact ==
  /\ (reqList # <<>>) <=> (reqSched \/ reqRefused)
  /\ ~(reqSched /\ reqRefused)
  /\ (respList # <<>>) <=> (respSched \/ respRefused)
  /\ ~(respSched /\ respRefused)

(* A request is owed a retry only while there is no room for it: whichever   *)
(* queue made recvTimingReq refuse, the step that makes room sends the retry.*)
NoRetryLost ==
  retryReq => reqQueueFull \/ (stalled \in NeedsResponse /\ respQueueFull)

(* bridge.cc:153 "we should not see a timing request if we are already in a  *)
(* retry": whenever the upstream layer may call recvTimingReq, retryReq is   *)
(* false, and a layer that waits is indeed owed a retry.                     *)
NoRequestInRetry == retryReq <=> (upstream = "waiting")

(* A response leaves for the port its request came from, although the far    *)
(* bus overwrote the source on the way (RequestState::origSrc).              *)
ResponsesRouted == \A p \in Range(respList) : pkt[p].dest = pkt[p].issuer

(* bridge.cc:329 "it will definitely be possible to accept it now": when the *)
(* slave port sends a retry after a response, a request resent at once is    *)
(* accepted, whichever queue it was stalled on.                              *)
RetryAfterResponseAccepted ==
  [][SlaveTrySendAccepted /\ upstream' # upstream
       => ~reqQueueFull' /\ ~respQueueFull']_vars

(* The bridge implements the counter-free link of CreditLink, including that *)
(* everything which enters leaves.                                           *)
Link == INSTANCE CreditLink WITH
          ReqLimit <- ReqQueueLimit, RespLimit <- RespQueueLimit,
          reqs <- reqList, far <- inService, resps <- respList
LinkSpec == Link!Spec
LinkFairSpec == Link!FairSpec
=============================================================================
