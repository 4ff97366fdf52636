------------------------------ MODULE DmaPort -------------------------------
(***************************************************************************)
(* PARDg5VDmaPort (hyper/dev/dma_device.cc) in timing mode.  A device asks  *)
(* for a transfer between memory and one of its buffers; the port cuts it   *)
(* at line boundaries, sends the packets one at a time, and schedules the   *)
(* device's completion event when the last response is in.  Responses come  *)
(* in any order.  A transfer is named by its completion event: the device   *)
(* hands each event to at most one transfer at a time.                      *)
(***************************************************************************)
EXTENDS Integers, Sequences, FiniteSets

CONSTANTS Event,      \* the events of the device
          LineSize,   \* of the memory, in units of data
          MaxSize,    \* bound on the size of a transfer
          MaxAddr,    \* bound on where one starts
          NoState     \* no transfer: the DmaReqState is deleted

ASSUME DmaPortAssumption ==
  /\ LineSize \in Nat \ {0} /\ MaxSize \in Nat \ {0} /\ MaxAddr \in Nat
  /\ NoState \notin [tot : Nat, num : Nat]

VARIABLES
  transmitList,  \* packets to be sent
  inRetry,       \* the bus refused the head of the list and owes a retry
  sendEvent,     \* the port's own event is scheduled
  pendingCount,
  inFlight,      \* packets the bus took and memory has not answered
  reqState,      \* DmaReqState of each transfer: its size and the part acked
  scheduled,     \* the device's events in the event queue
  drainManager   \* somebody waits for the port to drain

portVars == <<transmitList, inRetry, sendEvent, pendingCount, inFlight,
              reqState, drainManager>>
dmaVars == <<portVars, scheduled>>

Size == 1..MaxSize
Addr == 0..MaxAddr + MaxSize

PortInit ==
  /\ transmitList = <<>> /\ inFlight = {}
  /\ inRetry = FALSE /\ sendEvent = FALSE
  /\ pendingCount = 0
  /\ reqState = [e \in Event |-> NoState]
  /\ drainManager = FALSE

(* The ChunkGenerator over [addr, addr + size): its i-th boundary is the      *)
(* end of the i-th line the range touches, or the end of the range.          *)
Boundary(addr, size, i) ==
  LET line == (addr \div LineSize + i) * LineSize IN
  IF i = 0 THEN addr ELSE IF line < addr + size THEN line ELSE addr + size

Lines(addr, size) == (addr + size - 1) \div LineSize - addr \div LineSize + 1

Packets(e, addr, size) ==
  [i \in 1..Lines(addr, size) |->
     [event |-> e, addr |-> Boundary(addr, size, i - 1),
      size |-> Boundary(addr, size, i) - Boundary(addr, size, i - 1)]]

(* Offers the head of the list to the bus, which takes it (ok) or refuses.   *)
trySendTimingReq(list, ok) ==
  /\ transmitList' = IF ok THEN Tail(list) ELSE list
  /\ inFlight' = IF ok THEN inFlight \cup {Head(list)} ELSE inFlight
  /\ inRetry' = ~ok
  /\ sendEvent' = (ok /\ Len(list) > 1)

(* Sends at once unless a retry or the send event will.                      *)
sendDma(list, ok) ==
  IF inRetry \/ sendEvent
  THEN transmitList' = list /\ UNCHANGED <<inFlight, inRetry, sendEvent>>
  ELSE trySendTimingReq(list, ok)

dmaAction(e, addr, size, ok) ==
  LET new == Packets(e, addr, size) IN
  /\ reqState' = [reqState EXCEPT ![e] = [tot |-> size, num |-> 0]]
  /\ pendingCount' = pendingCount + Len(new)
  /\ sendDma(transmitList \o new, ok)
  /\ UNCHANGED drainManager

\* The request's size is added, whatever the packet was rounded up to.
Acked(s, p) == [s EXCEPT !.num = @ + p.size]

handleResp(p) ==
  LET s == Acked(reqState[p.event], p) done == s.num = s.tot IN
  /\ inFlight' = inFlight \ {p}
  /\ pendingCount' = pendingCount - 1
  /\ reqState' = [reqState EXCEPT ![p.event] = IF done THEN NoState ELSE s]
  /\ scheduled' = IF done THEN scheduled \cup {p.event} ELSE scheduled
  /\ drainManager' = (drainManager /\ pendingCount' # 0)

-----------------------------------------------------------------------------
(* The device: an event of its own fires or an access from outside arrives;  *)
(* it may schedule events that no transfer holds, and start a transfer with  *)
(* an event that is neither scheduled nor held.                              *)
Device ==
  /\ scheduled' \subseteq Event
  /\ \A e \in scheduled' : reqState[e] = NoState /\ reqState'[e] = NoState
  /\ \/ UNCHANGED portVars
     \/ \E e \in Event, addr \in 0..MaxAddr, size \in Size, ok \in BOOLEAN :
          reqState[e] = NoState /\ dmaAction(e, addr, size, ok)

\* The port's own event, no longer scheduled when it calls sendDma.
SendEvent(ok) ==
  /\ sendEvent
  /\ IF inRetry
     THEN sendEvent' = FALSE /\ UNCHANGED <<transmitList, inFlight, inRetry>>
     ELSE trySendTimingReq(transmitList, ok)
  /\ UNCHANGED <<pendingCount, reqState, scheduled, drainManager>>

RecvRetry(ok) ==
  /\ inRetry
  /\ trySendTimingReq(transmitList, ok)
  /\ UNCHANGED <<pendingCount, reqState, scheduled, drainManager>>

RecvTimingResp(p) ==
  /\ p \in inFlight
  /\ handleResp(p)
  /\ UNCHANGED <<transmitList, inRetry, sendEvent>>

Drain ==
  /\ drainManager' = (drainManager \/ pendingCount # 0)
  /\ UNCHANGED <<transmitList, inRetry, sendEvent, pendingCount, inFlight,
                 reqState, scheduled>>

PortNext ==
  \/ Device \/ Drain
  \/ \E ok \in BOOLEAN : SendEvent(ok) \/ RecvRetry(ok)
  \/ \E p \in inFlight : RecvTimingResp(p)

PortSpec == PortInit /\ scheduled \subseteq Event /\ [][PortNext]_dmaVars

-----------------------------------------------------------------------------
Queued == {transmitList[i] : i \in 1..Len(transmitList)}
Outstanding(e) == {p \in Queued \cup inFlight : p.event = e}

(* pendingCount, which the disks and the drain look at, counts the packets   *)
(* that have not been answered, sent or not.                                 *)
PendingExact == pendingCount = Len(transmitList) + Cardinality(inFlight)

(* While there is something to send, exactly one of the retry the bus owes   *)
(* and the send event is going to send it; otherwise neither is coming.      *)
OneWakeup ==
  IF transmitList = <<>> THEN ~inRetry /\ ~sendEvent ELSE inRetry # sendEvent

(* The state of a transfer is deleted, and its completion event scheduled,   *)
(* with the response to its last packet and not before, in whatever order    *)
(* responses arrive.                                                         *)
CompletesWithLast ==
  \A e \in Event :
    /\ reqState[e] = NoState <=> Outstanding(e) = {}
    /\ e \in scheduled => reqState[e] = NoState

(* Whoever waits for the port to drain is told by the response that empties  *)
(* it: nobody waits for a port with nothing pending.                         *)
DrainHeard == drainManager => pendingCount # 0
=============================================================================
