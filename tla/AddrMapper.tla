----------------------------- MODULE AddrMapper -----------------------------
(***************************************************************************)
(* PARDg5VRangeAddrMapper (hyper/mem/addr_mapper.cc) and the table it      *)
(* translates with (hyper/base/ldom_addr.hh).  The mapper has no queues: a *)
(* request is translated and passed on in the same call, and refused if    *)
(* the peer below refuses it; a response has its address put back from a   *)
(* sender state the request carried.  What it may get wrong is therefore   *)
(* the packet itself, which a refusal hands back to its sender.            *)
(***************************************************************************)
EXTENDS Integers, Sequences, FiniteSets, FiniteSetsExt

CONSTANTS
  Packet,         \* packet objects
  NeedsResponse,  \* those that expect a response
  Inhibited,      \* those a cache upstream has claimed (memInhibitAsserted)
  Rebuilt,        \* those whose sender builds the packet anew for a retry
  GuestOf,        \* LDom of each packet
  AddrSpace,      \* addresses are 0 .. AddrSpace-1 and wrap around
  TLB,            \* the table: a sequence of ranges, fixed by the constructor
  Issue,          \* addresses the masters use
  None

Addr == 0..AddrSpace-1
TLBEntry == [domid : Range(GuestOf), start : Addr, size : Addr, remapped : Addr]

ASSUME AddrMapperAssumption ==
  /\ NeedsResponse \cup Inhibited \cup Rebuilt \subseteq Packet
  /\ DOMAIN GuestOf = Packet
  /\ AddrSpace \in Nat \ {0}
  /\ Issue \subseteq Addr
  /\ TLB \in Seq(TLBEntry)
  /\ None \notin Packet

VARIABLES
  req,            \* each packet: its address, its sender states, and history
  pendingDelete,  \* dropped packets, freed when the next request arrives
  layer, held,    \* upstream bus: waiting for a retry, with the refused request
  refusedResp     \* response the upstream bus refused and owes a retry

vars == <<req, pendingDelete, layer, held, refusedResp>>

----------------------------------------------------------------------------
\* Mutant: the LDom is not compared.
contains_AnyLDom(e, g, a) ==
  a >= e.start /\ a <= (e.start + e.size - 1) % AddrSpace

\* LDomAddrTLBEntry::contains; the end of the range is computed modulo 2^64.
contains(e, g, a) ==
  e.domid = g /\ a >= e.start /\ a <= (e.start + e.size - 1) % AddrSpace

translate(e, a) == (a - e.start + e.remapped) % AddrSpace

\* The first entry that contains the address wins; others are left alone.
remapAddr(g, a) ==
  LET hits == {i \in DOMAIN TLB : contains(TLB[i], g, a)} IN
  IF hits = {} THEN a ELSE translate(TLB[Min(hits)], a)

----------------------------------------------------------------------------
(* A packet: its address and the stack of mapper sender states on it.        *)
(* issued (the address the master asked for) and place are history.          *)
Deleted == [addr |-> 0, saved |-> <<>>, issued |-> 0, place |-> "free"]

Fresh(a) == [Deleted EXCEPT !.addr = a, !.issued = a]

PktFields == [addr : Addr, saved : Seq(Addr), issued : Addr,
              place : {"free", "held", "dropped", "below", "returned"}]

Init ==
  /\ req = [p \in Packet |-> Deleted]
  /\ pendingDelete = {}
  /\ layer = "idle" /\ held = None
  /\ refusedResp = None

\* delete pendingDelete[x]; pendingDelete.clear()
Cleared == [q \in Packet |-> IF q \in pendingDelete THEN Deleted ELSE req[q]]

\* Mutant: the sender state is left on a packet that was refused.
recvTimingReq_KeepsState(p, r, ok) ==
  IF p \in Inhibited
  THEN /\ pendingDelete' = {p}
       /\ req' = [Cleared EXCEPT ![p] = [r EXCEPT !.place = "dropped"]]
       /\ layer' = "idle" /\ held' = None
  ELSE LET sent == [r EXCEPT
                      !.saved = IF p \in NeedsResponse THEN <<r.addr>> \o @ ELSE @,
                      !.addr = remapAddr(GuestOf[p], @)] IN
       /\ pendingDelete' = {}
       /\ IF ok
            THEN /\ req' = [Cleared EXCEPT ![p] = [sent EXCEPT !.place = "below"]]
                 /\ layer' = "idle" /\ held' = None
            ELSE /\ req' = [Cleared EXCEPT ![p] = [sent EXCEPT !.place = "held"]]
                 /\ layer' = "waiting" /\ held' = p

(* recvTimingReq of packet p, in the state r its sender hands it over; ok is *)
(* the answer of the peer below.  An inhibited packet is dropped without     *)
(* asking the peer.  Otherwise the address is saved and replaced, and on a   *)
(* refusal the sender state, and nothing else, is undone.                    *)
recvTimingReq(p, r, ok) ==
  IF p \in Inhibited
  THEN /\ pendingDelete' = {p}
       /\ req' = [Cleared EXCEPT ![p] = [r EXCEPT !.place = "dropped"]]
       /\ layer' = "idle" /\ held' = None
  ELSE LET sent == [r EXCEPT
                      !.saved = IF p \in NeedsResponse THEN <<r.addr>> \o @ ELSE @,
                      !.addr = remapAddr(GuestOf[p], @)] IN
       /\ pendingDelete' = {}
       /\ IF ok
            THEN /\ req' = [Cleared EXCEPT ![p] = [sent EXCEPT !.place = "below"]]
                 /\ layer' = "idle" /\ held' = None
            ELSE /\ req' = [Cleared EXCEPT ![p] =
                             [sent EXCEPT !.saved = r.saved, !.place = "held"]]
                 /\ layer' = "waiting" /\ held' = p

\* Mutant: the address is not restored.
recvTimingResp_NoRestore(p, ok) ==
  IF ok
  THEN /\ req' = [req EXCEPT ![p].saved = Tail(@), ![p].place = "returned"]
       /\ refusedResp' = None
  ELSE refusedResp' = p /\ UNCHANGED req

(* recvTimingResp: pop the sender state and restore the address; if the bus  *)
(* upstream refuses, put both back as they were.                             *)
recvTimingResp(p, ok) ==
  IF ok
  THEN /\ req' = [req EXCEPT ![p].addr = Head(req[p].saved), ![p].saved = Tail(@),
                            ![p].place = "returned"]
       /\ refusedResp' = None
  ELSE refusedResp' = p /\ UNCHANGED req

----------------------------------------------------------------------------
Free(p) == req[p].place = "free"

(* A master issues a request; the bus forwards nothing while it waits.       *)
SendReq(p, a, ok) ==
  /\ layer = "idle" /\ Free(p)
  /\ recvTimingReq(p, Fresh(a), ok)
  /\ UNCHANGED refusedResp

\* The packet p its sender hands over for another attempt.
Resent(p) == IF p \in Rebuilt THEN Fresh(req[p].issued) ELSE req[p]

(* The refused request is sent again, as the very same object or, by caches, *)
(* as a new packet made from the miss they still have recorded.              *)
ResendReq(ok) ==
  /\ layer = "retry"
  /\ recvTimingReq(held, Resent(held), ok)
  /\ UNCHANGED refusedResp

(* Or given up by its sender before the retry.                               *)
AbandonReq ==
  /\ layer = "retry"
  /\ layer' = "idle" /\ held' = None
  /\ req' = [req EXCEPT ![held] = Deleted]
  /\ UNCHANGED <<pendingDelete, refusedResp>>

\* Mutant: the retry is passed to the wrong port.
RecvRetryMaster_WrongPort ==
  /\ layer = "waiting"
  /\ UNCHANGED vars

\* recvRetryMaster: the peer below can accept again; slavePort.sendRetry().
RecvRetryMaster ==
  /\ layer = "waiting"
  /\ layer' = "retry"
  /\ UNCHANGED <<req, pendingDelete, held, refusedResp>>

(* The side below answers p, or consumes it if it needs no response.         *)
SendResp(p, ok) ==
  /\ refusedResp = None
  /\ p \in NeedsResponse /\ req[p].place = "below"
  /\ recvTimingResp(p, ok)
  /\ UNCHANGED <<pendingDelete, layer, held>>

Consume(p) ==
  /\ p \notin NeedsResponse /\ req[p].place = "below"
  /\ req' = [req EXCEPT ![p] = Deleted]
  /\ UNCHANGED <<pendingDelete, layer, held, refusedResp>>

(* recvRetrySlave: masterPort.sendRetry(), and the side below sends the       *)
(* refused response again in the same call.                                  *)
RecvRetrySlave(ok) ==
  /\ refusedResp # None
  /\ recvTimingResp(refusedResp, ok)
  /\ UNCHANGED <<pendingDelete, layer, held>>

\* The master is done with the response.
Retire(p) ==
  /\ req[p].place = "returned"
  /\ req' = [req EXCEPT ![p] = Deleted]
  /\ UNCHANGED <<pendingDelete, layer, held, refusedResp>>

Next ==
  \/ \E p \in Packet, a \in Issue, ok \in BOOLEAN : SendReq(p, a, ok)
  \/ \E ok \in BOOLEAN : ResendReq(ok) \/ RecvRetrySlave(ok)
  \/ RecvRetryMaster \/ AbandonReq
  \/ \E p \in Packet, ok \in BOOLEAN : SendResp(p, ok)
  \/ \E p \in Packet : Consume(p) \/ Retire(p)

Spec == Init /\ [][Next]_vars

(* Peers that refuse a packet retry it and do not refuse for ever; devices   *)
(* answer.                                                                   *)
FairSpec ==
  /\ Spec
  /\ WF_vars(RecvRetryMaster) /\ SF_vars(ResendReq(TRUE))
  /\ SF_vars(RecvRetrySlave(TRUE))
  /\ \A p \in Packet : SF_vars(SendResp(p, TRUE)) /\ WF_vars(Consume(p))

----------------------------------------------------------------------------
(* Types of the mapper's state and of the packets that pass through it.      *)
TypeOK ==
  /\ req \in [Packet -> PktFields]
  /\ pendingDelete \subseteq Packet
  /\ layer \in {"idle", "waiting", "retry"} /\ held \in Packet \cup {None}
  /\ refusedResp \in Packet \cup {None}

(* A packet below the mapper carries exactly one sender state if it will be  *)
(* answered, else none, and a packet above carries none, however often       *)
(* either side refused it: recvTimingResp never panics for want of a state   *)
(* and leaves none behind for the sender to trip over.                       *)
SenderStateExact ==
  \A p \in Packet :
    Len(req[p].saved) =
      IF req[p].place = "below" /\ p \in NeedsResponse THEN 1 ELSE 0

(* A request reaches the side below at the address its LDom's table gives    *)
(* for the address it was issued to, translated once.                        *)
TranslatedOnce ==
  \A p \in Packet :
    req[p].place = "below" => req[p].addr = remapAddr(GuestOf[p], req[p].issued)

(* A response reaches a master that builds refused packets anew with "the    *)
(* original address the packet was destined for" (AddrMapperSenderState in   *)
(* addr_mapper.hh).                                                          *)
Restored ==
  \A p \in Rebuilt : req[p].place = "returned" => req[p].addr = req[p].issued

(* Requests of two LDoms are never below the mapper at the same address, nor *)
(* one LDom's two addresses folded into one, even after refused attempts.    *)
LDomsApart ==
  \A p, q \in Packet :
    /\ req[p].place = "below" /\ req[q].place = "below"
    /\ req[p].addr = req[q].addr
    => GuestOf[p] = GuestOf[q] /\ req[p].issued = req[q].issued

(* Every request the bus sends gets through, and every response gets back:   *)
(* the retries of each side reach the other side (recvRetryMaster,           *)
(* recvRetrySlave).                                                          *)
Answered ==
  \A p \in Packet :
    req[p].place \in {"held", "below"} ~> req[p].place \in {"returned", "free"}
=============================================================================
