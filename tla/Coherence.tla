------------------------------ MODULE Coherence -----------------------------
(***************************************************************************)
(* The coherent caches of the machine in timing mode                       *)
(* (hyper/mem/cache/cache_impl.hh, base.hh, base.cc, mshr_queue.cc) and    *)
(* the snooping buses between them (mem/coherent_bus.cc).  The caches form *)
(* a tree: processors above the top-level caches, a bus below each group   *)
(* of caches with the same parent, the memory at the root.  A request and  *)
(* the snoops it causes are one call tree, and so one step; responses are  *)
(* events of their own, and may arrive in any order.                       *)
(*                                                                         *)
(* A block is <<LDom, address>>.  Its data is the number of writes that    *)
(* were made to it.  Which block is replaced is left open; CacheTags has   *)
(* the way-partitioned choice.                                             *)
(***************************************************************************)
EXTENDS Mshr, FiniteSets, FiniteSetsExt

CONSTANTS
  Cache, Parent, \* the caches, and the cache below each (or Mem)
  Private,       \* the private caches with the LDom of each: a function
  Block,         \* blocks
  Ways,          \* how many blocks a cache holds
  Mshrs, WriteBuffers, Targets, \* parameters mshrs, write_buffers, tgts_per_mshr
  Loads, Stores, \* blocks that the processor above a cache reads and writes
  MaxOps,        \* bound: requests of each processor
  Mem, Cpu, None

Above(c) == {d \in Cache : Parent[d] = c}
Top == {c \in Cache : Above(c) = {}}

ASSUME CoherenceAssumption ==
  /\ Parent \in [Cache -> Cache \cup {Mem}]
  /\ DOMAIN Private \subseteq Cache
  /\ \A f \in {Ways, Mshrs, WriteBuffers, Targets} : f \in [Cache -> Nat \ {0}]
  /\ Loads \in [Top -> SUBSET Block] /\ Stores \in [Top -> SUBSET Block]
  /\ MaxOps \in [Top -> Nat]

VARIABLES
  cache,  \* the caches
  net,    \* responses on their way
  mem,    \* the data in memory
  lay,    \* per bus: the cache that was refused and waits for a retry, or None
  cpu,    \* per processor: requests left, and one that was refused (or None)
  ver,    \* history: how many writes were made to each block
  seen,   \* history: the newest write to each block that each processor saw
  wrong,  \* history: reads and writes that saw old data
  failed  \* assertions of the code that failed: the simulation is over

vars == <<cache, net, mem, lay, cpu, ver, seen, wrong, failed>>

NoBlk == [valid |-> FALSE, readable |-> FALSE, writable |-> FALSE, dirty |-> FALSE, data |-> 0]

Pkt(cmd, src, b, data) ==
  [cmd |-> cmd, src |-> src, blk |-> b, data |-> data,
   shared |-> FALSE, inhibit |-> FALSE, supplyEx |-> FALSE, express |-> FALSE]

Init ==
  /\ cache = [c \in Cache |->
       [blk |-> [b \in Block |-> NoBlk], mshr |-> [b \in Block |-> NoMSHR],
        ready |-> <<>>, wb |-> <<>>, noTarget |-> None,
        blocked |-> {}, mustRetry |-> FALSE, retry |-> FALSE]]
  /\ net = {}
  /\ mem = [b \in Block |-> 0]
  /\ lay = [p \in Cache \cup {Mem} |-> None]
  /\ cpu = [c \in Top |-> [left |-> MaxOps[c], refused |-> None]]
  /\ ver = [b \in Block |-> 0]
  /\ seen = [c \in Top |-> [b \in Block |-> 0]]
  /\ wrong = {} /\ failed = {}

(* The handlers call each other across caches, so they are functions of the  *)
(* state they change: the record s of all variables but lay and cpu.         *)
Now ==
  [k |-> cache, net |-> net, mem |-> mem, ver |-> ver, seen |-> seen, wrong |-> wrong,
   failed |-> failed]

Become(s) ==
  /\ cache' = s.k /\ net' = s.net /\ mem' = s.mem
  /\ ver' = s.ver /\ seen' = s.seen /\ wrong' = s.wrong /\ failed' = s.failed

Claim(s, ok, what) == IF ok THEN s ELSE [s EXCEPT !.failed = @ \cup {what}]

----------------------------------------------------------------------------
(* Blocking the side of the processors (BaseCache and CacheSlavePort).       *)

setBlocked(s, c, cause) ==
  LET first == s.k[c].blocked = {} IN
  [s EXCEPT !.k[c].blocked = @ \cup {cause},
            !.k[c].mustRetry = @ \/ (first /\ s.k[c].retry),
            !.k[c].retry = @ /\ ~first]

\* Mutant: unblocked without a retry for the request that was refused.
clearBlocked_NoRetry(s, c, cause) ==
  [s EXCEPT !.k[c].blocked = @ \ {cause}]

clearBlocked(s, c, cause) ==
  LET free == s.k[c].blocked \subseteq {cause} IN
  Claim([s EXCEPT !.k[c].blocked = @ \ {cause},
                   !.k[c].retry = @ \/ (free /\ s.k[c].mustRetry),
                   !.k[c].mustRetry = @ /\ ~free],
         free => s.k[c].blocked # {}, "clearBlocked")

used(k) == {b \in Block : k.mshr[b].used}
mshrsFull(s, c) == Cardinality(used(s.k[c])) >= Mshrs[c]
wbFull(s, c) == Len(s.k[c].wb) >= WriteBuffers[c]

\* allocateWriteBuffer for the data of block b, writable or not.
allocateWriteBuffer(s, c, b, data, writable) ==
  LET e == [blk |-> b, data |-> data, writable |-> writable, ripe |-> FALSE,
            behind |-> s.k[c].mshr[b].used]
      t == [s EXCEPT !.k[c].wb = Append(@, e)] IN
  IF wbFull(t, c) THEN setBlocked(t, c, "writebuffers") ELSE t

\* A writeback leaves the write buffer, sent or discarded.
releaseWriteBuffer(s, c, i) ==
  LET t == [s EXCEPT !.k[c].wb = RemoveAt(@, i)] IN
  IF wbFull(s, c) /\ ~wbFull(t, c) THEN clearBlocked(t, c, "writebuffers") ELSE t

\* The register that sent p learns that p is buffered in another one.
markPending(s, p) ==
  IF p.src = Cpu THEN s
  ELSE Claim([s EXCEPT !.k[p.src].mshr[p.blk].downstreamPending = TRUE],
              ~s.k[p.src].mshr[p.blk].downstreamPending, "TargetList::add")

\* allocateMissBuffer.  The queue has a reserve of 4 registers, less one.
allocateMissBuffer(s, c, p) ==
  LET s1 == Claim(s, Cardinality(used(s.k[c])) < Mshrs[c] + 4 - 1, "MSHRQueue::allocate")
      t == markPending([s1 EXCEPT !.k[c].mshr[p.blk] = MSHR(p),
                                  !.k[c].ready = Append(@, p.blk)], p) IN
  IF mshrsFull(t, c) THEN setBlocked(t, c, "mshrs") ELSE t

(* clearDownstreamPending: the senders of these targets learn that a         *)
(* response is certain, and so on up the tree.                               *)
RECURSIVE clearDownstreamPending(_, _)
clearDownstreamPending(s, ts) ==
  LET one(t, x) ==
        LET m == t.k[x.pkt.src].mshr[x.pkt.blk] IN
        IF ~x.marked \/ x.pkt.src = Cpu THEN t
        ELSE clearDownstreamPending(
               Claim([t EXCEPT !.k[x.pkt.src].mshr[x.pkt.blk].downstreamPending = FALSE],
                      m.used /\ m.downstreamPending, "clearDownstreamPending"),
               m.targets) IN
  FoldLeft(one, s, ts)

----------------------------------------------------------------------------
(* Snoops.                                                                   *)

\* doTimingSupplyResponse and schedTimingResp: p becomes a response to p.src.
respond(s, p, cmd, data) ==
  LET r == [p EXCEPT !.cmd = cmd, !.data = data, !.express = FALSE, !.supplyEx = FALSE] IN
  [s EXCEPT !.net = @ \cup {r}]

supplyResponse(s, p, data, pendingInval) ==
  LET cmd == responseCommand(p.cmd) IN
  respond(Claim(s, isInvalidate(p) \/ p.shared, "doTimingSupplyResponse"), p, IF cmd = "ReadResp" /\ pendingInval THEN "ReadRespWithInvalidate" ELSE cmd,
          IF isRead(p) THEN data ELSE 0)

RECURSIVE recvTimingSnoopReq(_, _, _)

\* The snoopers on a bus see the same packet, one after the other.
forwardTiming(s, cs, p) ==
  LET one(c, x) == recvTimingSnoopReq(x.s, c, x.p) IN
  FoldSet(one, [s |-> s, p |-> p], cs)

\* Cache::handleSnoop on the block value bk, after the caches above were asked.
snoopBlk(s, bk, p, pendingInval) ==
  LET read == isRead(p) /\ ~isInvalidate(p)
      q == [p EXCEPT !.shared = @ \/ read,
                     !.inhibit = @ \/ bk.dirty,
                     !.supplyEx = @ \/ (bk.dirty /\ bk.writable)]
      s1 == Claim(s, ~(bk.dirty /\ p.inhibit), "handleSnoop") IN
  IF ~bk.valid THEN [s |-> s, p |-> p, bk |-> bk]
  ELSE [s |-> IF bk.dirty THEN supplyResponse(s1, q, bk.data, pendingInval) ELSE s1,
        p |-> q,
        bk |-> CASE isInvalidate(p) -> NoBlk
                 [] read -> [bk EXCEPT !.writable = FALSE]
                 [] OTHER -> bk]

(* Cache::handleSnoop: first the caches above, then this one.  The block may *)
(* be the temporary one.                                                     *)
handleSnoopBlk(s, c, bk, p, pendingInval) ==
  LET here(up) ==
        snoopBlk(Claim(up.s, ~(up.p.inhibit /\ p.inhibit), "alreadyResponded"), bk,
                 [p EXCEPT !.inhibit = @ \/ up.p.inhibit, !.shared = @ \/ up.p.shared],
                 pendingInval) IN
  here(forwardTiming(s, Above(c), [ClearFlags(p) EXCEPT !.express = TRUE]))

\* Mutant: the writeback answers a snoop that takes the block, and stays.
snoopWriteBuffer_Keeps(s, c, p) ==
  LET hits == {i \in DOMAIN s.k[c].wb : s.k[c].wb[i].blk = p.blk}
      i == CHOOSE i \in hits : TRUE
      q == [p EXCEPT !.inhibit = TRUE, !.shared = @ \/ ~needsExclusive(p)] IN
  IF hits = {} THEN [s |-> s, p |-> p]
  ELSE [s |-> supplyResponse(s, q, s.k[c].wb[i].data, FALSE), p |-> q]

\* A writeback in the write buffer answers a snoop, and is discarded if the
\* snoop takes the block.
snoopWriteBuffer(s, c, p) ==
  LET hits == {i \in DOMAIN s.k[c].wb : s.k[c].wb[i].blk = p.blk} IN
  IF hits = {} THEN [s |-> s, p |-> p]
  ELSE
  LET i  == CHOOSE i \in hits : TRUE
      e  == s.k[c].wb[i]
      s1 == Claim(s, Cardinality(hits) = 1 /\ ~p.inhibit, "writebacks.size")
      q  == [p EXCEPT !.inhibit = TRUE, !.shared = @ \/ ~needsExclusive(p)]
      s2 == supplyResponse(s1, q, e.data, FALSE) IN
  [s |-> IF isInvalidate(p) THEN releaseWriteBuffer(s2, c, i)
         ELSE [s2 EXCEPT !.k[c].wb[i].writable = FALSE],
   p |-> q]

recvTimingSnoopReq(s, c, p) ==
  LET k == s.k[c]
      h == handleSnoop(k.mshr[p.blk], p)
      s1 == [s EXCEPT !.k[c].mshr[p.blk] = h.m]
      last == h.m.targets[Len(h.m.targets)] IN
  CASE c \in DOMAIN Private /\ Private[c] # p.blk[1] -> [s |-> s, p |-> p]
    [] p.cmd = "Writeback" -> [s |-> s, p |-> p]
    [] k.mshr[p.blk].used /\ h.taken ->
         [s |-> IF h.saved /\ last.marked THEN markPending(s1, p) ELSE s1, p |-> h.p]
    [] OTHER ->
         LET store(x) == [s |-> [x.s EXCEPT !.k[c].blk[p.blk] = x.bk], p |-> x.p]
             here(w) == store(handleSnoopBlk(w.s, c, k.blk[p.blk], w.p, FALSE)) IN
         here(snoopWriteBuffer(IF k.mshr[p.blk].used THEN s1 ELSE s, c, p))

----------------------------------------------------------------------------
(* Requests.                                                                 *)

\* What the processor above c does to a block: a write and a read of it.
cpuWrites(s, c, b, bk) ==
  LET n == s.ver[b] + 1 IN
  [s |-> [s EXCEPT !.ver[b] = n, !.seen[c][b] = n,
                   !.wrong = IF bk.data = s.ver[b] THEN @ ELSE @ \cup {"lost update"}],
   bk |-> [bk EXCEPT !.data = n, !.dirty = TRUE]]
cpuReads(s, c, b, bk) ==
  [s EXCEPT !.seen[c][b] = bk.data,
            !.wrong = IF bk.data >= s.seen[c][b] THEN @ ELSE @ \cup {"stale read"}]

(* satisfyCpuSideRequest for request p on block value bk; late says that p   *)
(* waited for the block, down that someone else was promised a copy.         *)
satisfy(s, c, bk, p, late, down) ==
  LET same == [s |-> s, bk |-> bk, p |-> p]
      pass == bk.dirty /\ ~late /\ c \notin Top IN
  CASE p.cmd = "WriteReq" ->
         LET x == cpuWrites(s, c, p.blk, bk) IN [same EXCEPT !.s = x.s, !.bk = x.bk]
    [] p.cmd = "Writeback" -> [same EXCEPT !.bk.data = p.data, !.bk.dirty = TRUE]
    [] p.src = Cpu -> [same EXCEPT !.s = cpuReads(s, c, p.blk, bk)]
    [] p.cmd = "UpgradeReq" -> [same EXCEPT !.bk = NoBlk]
    [] p.cmd = "ReadExReq" ->
         [same EXCEPT !.bk = NoBlk, !.p.inhibit = @ \/ bk.dirty, !.p.data = bk.data]
    [] p.cmd = "ReadReq" ->
         IF bk.writable /\ ~down /\ ~p.shared
         THEN [same EXCEPT !.p.inhibit = @ \/ pass, !.bk.dirty = @ /\ ~pass,
                           !.p.shared = bk.dirty /\ ~pass, !.p.data = bk.data]
         ELSE [same EXCEPT !.p.shared = TRUE, !.p.data = bk.data]

\* makeTimingResponse and schedTimingResp for a request that was satisfied.
answer(s, p, inval) ==
  IF p.src = Cpu \/ p.cmd = "Writeback" THEN s
  ELSE respond(s, p, IF p.cmd = "ReadReq" /\ inval THEN "ReadRespWithInvalidate"
                     ELSE responseCommand(p.cmd),
               IF isRead(p) THEN p.data ELSE 0)

\* findVictim: v is None while there is room, otherwise a block.
mayReplace(s, c, v) ==
  LET held == {b \in Block : s.k[c].blk[b].valid} IN
  IF Cardinality(held) < Ways[c] THEN v = None ELSE v \in held

\* allocateBlock gives up if the victim has an outstanding upgrade.
transient(s, c, v) == v # None /\ s.k[c].mshr[v].used

checkTransient(s, c, v) ==
  Claim(s, transient(s, c, v) =>
             /\ ~s.k[c].blk[v].writable
             /\ wantsExclusive(s.k[c].mshr[v].targets), "allocateBlock")

\* The victim goes, to the write buffer if it is dirty.
evict(s, c, v) ==
  IF v = None THEN s
  ELSE LET bk == s.k[c].blk[v]
           t == [s EXCEPT !.k[c].blk[v] = NoBlk] IN
       IF bk.dirty THEN allocateWriteBuffer(t, c, v, bk.data, bk.writable) ELSE t

\* access() for a writeback that needs a block; if there is none it is passed on.
accessWriteback(s, c, p, v) ==
  LET bk == s.k[c].blk[p.blk]
      new == [valid |-> TRUE, readable |-> TRUE, writable |-> p.supplyEx,
              dirty |-> TRUE, data |-> p.data] IN
  CASE bk.valid ->
         [s EXCEPT !.k[c].blk[p.blk].data = p.data, !.k[c].blk[p.blk].dirty = TRUE,
                   !.k[c].blk[p.blk].writable = @ \/ p.supplyEx]
    [] transient(s, c, v) ->
         Claim(allocateWriteBuffer(checkTransient(s, c, v), c, p.blk, p.data, p.supplyEx),
               ~s.k[c].mshr[p.blk].used, "makeResponse")
    [] OTHER -> evict([s EXCEPT !.k[c].blk[p.blk] = new], c, v)

\* A miss: join the register of the block, or take one.
miss(s, c, p) ==
  LET k == s.k[c]
      m == k.mshr[p.blk]
      joined == [s EXCEPT !.k[c].mshr[p.blk] = allocateTarget(m, p)]
      t == IF marksPending(m, p) THEN markPending(joined, p) ELSE joined
      s1 == Claim([s EXCEPT !.k[c].blk[p.blk].readable = FALSE],
                  k.blk[p.blk].valid => needsExclusive(p) /\ ~k.blk[p.blk].writable,
                  "recvTimingReq") IN
  CASE ~m.used -> allocateMissBuffer(s1, c, p)
    [] getNumTargets(t.k[c].mshr[p.blk]) = Targets[c] ->
         setBlocked([t EXCEPT !.k[c].noTarget = p.blk], c, "targets")
    [] OTHER -> t

RECURSIVE sendBus(_, _, _, _)

(* CpuSidePort::recvTimingReq and Cache::recvTimingReq: the state, the packet *)
(* and whether it was accepted.                                              *)
recvTimingReq(s, c, p, v) ==
  LET k  == s.k[c]
      bk == k.blk[p.blk]
      snoop == [ClearFlags(p) EXCEPT !.express = TRUE, !.inhibit = TRUE]
      accept(t, q) == [s |-> t, p |-> q, ok |-> TRUE]
      hit(x) == accept(answer([x.s EXCEPT !.k[c].blk[p.blk] = x.bk], x.p, FALSE), x.p) IN
  IF p.inhibit
  THEN accept(IF needsExclusive(p) /\ ~p.supplyEx THEN sendBus(s, c, snoop, None).s ELSE s, p)
  ELSE IF k.blocked # {}
  THEN [s |-> [s EXCEPT !.k[c].mustRetry = TRUE], p |-> p, ok |-> FALSE]
  ELSE IF bk.valid /\ (IF needsExclusive(p) THEN bk.writable ELSE bk.readable)
  THEN hit(satisfy(s, c, bk, p, FALSE, FALSE))
  ELSE IF p.cmd = "Writeback" THEN accept(accessWriteback(s, c, p, v), p)
  ELSE accept(miss(s, c, p), p)

\* The memory answers at once unless a cache will, or refuses.
recvMemory(s, p, busy) ==
  [s |-> IF p.inhibit \/ busy THEN s
         ELSE IF p.cmd = "Writeback" THEN [s EXCEPT !.mem[p.blk] = p.data]
         ELSE answer(s, [p EXCEPT !.data = s.mem[p.blk]], FALSE),
   p |-> p,
   ok |-> p.inhibit \/ ~busy]

(* CoherentBus::recvTimingReq: every other cache on the bus snoops p, also   *)
(* if p is refused below.  v is the block replaced below, or Mem if the      *)
(* memory is busy.                                                           *)
sendBus(s, c, p, v) ==
  LET below == Parent[c]
      arrive(x) == IF below = Mem THEN recvMemory(x.s, x.p, v = Mem)
                                  ELSE recvTimingReq(x.s, below, x.p, v) IN
  arrive(forwardTiming(s, Above(below) \ {c}, p))

----------------------------------------------------------------------------
(* Sending: MemSidePacketQueue::sendDeferredPacket.                          *)

(* getNextMSHR: the miss, the writeback (by index) or nothing (0) to send.   *)
(* A miss waits for a writeback of its block, and misses go first unless the *)
(* write buffer is full.  An entry is ripe when the hit latency has passed.  *)
missRipe(k) == k.ready # <<>> /\ k.mshr[Head(k.ready)].ripe
wbRipe(k) == k.wb # <<>> /\ Head(k.wb).ripe

getNextMSHR(s, c) ==
  LET k == s.k[c]
      conflicts == {i \in DOMAIN k.wb : k.wb[i].blk = Head(k.ready)}
      behind == Head(k.wb).behind /\ \E i \in DOMAIN k.ready : k.ready[i] = Head(k.wb).blk IN
  CASE missRipe(k) /\ ~wbRipe(k) -> [miss |-> Head(k.ready), wb |-> 0]
    [] wbRipe(k) /\ ~missRipe(k) -> [miss |-> None, wb |-> 1]
    [] missRipe(k) /\ wbRipe(k) /\ wbFull(s, c) ->
         IF behind THEN [miss |-> Head(k.wb).blk, wb |-> 0] ELSE [miss |-> None, wb |-> 1]
    [] missRipe(k) /\ wbRipe(k) /\ ~wbFull(s, c) ->
         IF conflicts = {} THEN [miss |-> Head(k.ready), wb |-> 0]
                           ELSE [miss |-> None, wb |-> Min(conflicts)]
    [] OTHER -> [miss |-> None, wb |-> 0]

\* getBusPacket: the command that is sent for a miss, and whether it is forwarded.
busCommand(k, b) ==
  LET m == k.mshr[b] IN
  CASE k.blk[b].valid -> "UpgradeReq"
    [] ~k.blk[b].valid /\ Head(m.targets).pkt.cmd = "UpgradeReq" -> "UpgradeReq"
    [] OTHER -> IF wantsExclusive(m.targets) THEN "ReadExReq" ELSE "ReadReq"

sendMiss(s, c, b, v) ==
  LET k == s.k[c]
      forward == ~k.blk[b].valid /\ Head(k.mshr[b].targets).pkt.cmd = "UpgradeReq"
      s1 == Claim(s, k.blk[b].valid =>
                       wantsExclusive(k.mshr[b].targets) /\ ~k.blk[b].writable, "getBusPacket")
      tell(t, m) == IF m.downstreamPending THEN t ELSE clearDownstreamPending(t, m.targets)
      sent(x) ==
        LET m == x.s.k[c].mshr[b] IN
        IF ~x.ok THEN x
        ELSE [x EXCEPT !.s = tell(
               [@ EXCEPT !.k[c].mshr[b] = [markInService(m, x.p) EXCEPT !.isForward = forward],
                         !.k[c].ready = SelectSeq(@, LAMBDA y : y # b)], m)] IN
  sent(sendBus(s1, c, Pkt(busCommand(k, b), c, b, 0), v))

sendWriteback(s, c, i, v) ==
  LET e == s.k[c].wb[i]
      p == [Pkt("Writeback", c, e.blk, e.data) EXCEPT !.supplyEx = e.writable]
      s1 == Claim(s, ~s.k[c].blk[e.blk].valid, "getTimingPacket")
      sent(x) == IF x.ok THEN [x EXCEPT !.s = releaseWriteBuffer(@, c, i)] ELSE x IN
  sent(sendBus(s1, c, p, v))

\* One attempt of cache c to send; v as in sendBus.
sendDeferredPacket(s, c, v) ==
  LET n == getNextMSHR(s, c) IN
  CASE n.wb # 0 -> sendWriteback(s, c, n.wb, v)
    [] n.miss # None -> sendMiss(s, c, n.miss, v)
    [] OTHER -> [s |-> s, p |-> None, ok |-> TRUE]

----------------------------------------------------------------------------
(* Responses: Cache::recvTimingResp.                                         *)

\* Mutant: a block that others share is taken to be writable.
fill_Exclusive(bk, r) ==
  [valid |-> TRUE, readable |-> TRUE, writable |-> TRUE,
   dirty |-> bk.dirty \/ (~r.shared /\ r.inhibit),
   data |-> IF isRead(r) THEN r.data ELSE bk.data]

\* handleFill: the block that the response makes of the one found.
fill(bk, r) ==
  [valid |-> TRUE, readable |-> TRUE,
   writable |-> bk.writable \/ ~r.shared,
   dirty |-> bk.dirty \/ (~r.shared /\ r.inhibit),
   data |-> IF isRead(r) THEN r.data ELSE bk.data]

\* One target is served from block x.bk, or its response passed on.
serve(c, m, r, isFill, x, t) ==
  LET inval == isInvalidate(r) \/ m.postInvalidate
      snooped(y) ==
        [s |-> Claim(y.s, isInvalidate(r) => m.postInvalidate, "FromSnoop"), bk |-> y.bk]
      satisfied(y) ==
        [s |-> answer(Claim(y.s, x.bk.valid, "satisfyCpuSideRequest"), y.p, inval), bk |-> y.bk] IN
  CASE t.snoop -> snooped(handleSnoopBlk(x.s, c, x.bk, t.pkt, m.postInvalidate))
    [] ~t.snoop /\ isFill -> satisfied(satisfy(x.s, c, x.bk, t.pkt, TRUE, m.postDowngrade))
    [] OTHER -> [s |-> answer(x.s, t.pkt, inval), bk |-> x.bk]

\* The register is sent again for its deferred targets, or released.
finish(s, c, b) ==
  LET k == s.k[c]
      ripe == {i \in DOMAIN k.ready : k.mshr[k.ready[i]].ripe}
      t == [s EXCEPT !.k[c].mshr[b] = NoMSHR] IN
  IF k.mshr[b].deferred # <<>>
  THEN [s EXCEPT !.k[c].mshr[b] = promote(@),
                 !.k[c].blk[b].readable = FALSE,
                 !.k[c].ready = InsertAt(@, Cardinality(ripe) + 1, b)]
  ELSE IF mshrsFull(s, c) /\ ~mshrsFull(t, c) THEN clearBlocked(t, c, "mshrs") ELSE t

recvTimingResp(s, c, r, v) ==
  LET b == r.blk
      k == s.k[c]
      isFill == ~k.mshr[b].isForward
      m == IF isFill THEN handleFill(k.mshr[b], r) ELSE k.mshr[b]
      new == isFill /\ ~k.blk[b].valid
      temp == new /\ transient(s, c, v)
      unblock(t) ==
        IF k.noTarget = b THEN clearBlocked([t EXCEPT !.k[c].noTarget = None], c, "targets") ELSE t
      join(t) ==
        IF isFill /\ movesUp(k.mshr[b], r)
        THEN clearDownstreamPending(
               Claim([t EXCEPT !.k[c].mshr[b] = m],
                     ~wantsExclusive(k.mshr[b].targets) /\ ~m.downstreamPending, "MSHR::handleFill"),
               k.mshr[b].deferred)
        ELSE t
      replace(t) == IF new /\ ~temp /\ v # None THEN [t EXCEPT !.k[c].blk[v] = NoBlk] ELSE t
      claim(t) == IF new THEN Claim(checkTransient(t, c, v), isRead(r), "hasData") ELSE t
      one(x, t) == serve(c, m, r, isFill, x, t)
      writeback(t, w, bk) ==
        IF bk.dirty THEN allocateWriteBuffer(t, c, w, bk.data, bk.writable) ELSE t
      leave(x) ==
        LET gone == x.bk.valid /\ (isInvalidate(r) \/ m.postInvalidate)
            bk == IF gone THEN NoBlk ELSE [x.bk EXCEPT !.writable = @ /\ ~m.postDowngrade]
            done == finish([Claim(x.s, ~(gone /\ temp), "tempBlock") EXCEPT
                              !.k[c].mshr[b].targets = <<>>,
                              !.k[c].blk[b] = IF temp THEN NoBlk ELSE bk], c, b) IN
        IF temp THEN writeback(done, b, bk)
        ELSE IF new /\ v # None THEN writeback(done, v, k.blk[v]) ELSE done IN
  leave(FoldLeft(one, [s |-> replace(claim(join(unblock(s)))),
                       bk |-> IF isFill THEN fill(k.blk[b], r) ELSE k.blk[b]], m.targets))

----------------------------------------------------------------------------
(* The steps of the machine.                                                 *)

Running == failed = {}

\* The block replaced when cache c receives what n sends, if it matters.
Victims(s, c, n) ==
  LET below == Parent[c] IN
  IF below = Mem THEN {None}
  ELSE IF n.wb # 0 /\ ~s.k[below].blk[s.k[c].wb[n.wb].blk].valid
       THEN {v \in Block \cup {None} : mayReplace(s, below, v)}
       ELSE {None}

\* A processor issues a request.
CpuRequest(c, cmd, b) ==
  /\ Running
  /\ cpu[c].left > 0 /\ cpu[c].refused = None
  /\ \E x \in {recvTimingReq(Now, c, Pkt(cmd, Cpu, b, 0), None)} :
       /\ Become(x.s)
       /\ cpu' = [cpu EXCEPT ![c].left = @ - 1, ![c].refused = IF x.ok THEN None ELSE <<cmd, b>>]
  /\ UNCHANGED lay

\* When each of the scheduled events below is due.
MayCpuRetry(c) == cache[c].retry /\ cpu[c].refused # None
MayBusRetry(c) == cache[c].retry /\ lay[c] # None
MaySend(c) ==
  LET n == getNextMSHR(Now, c) IN lay[Parent[c]] = None /\ (n.wb # 0 \/ n.miss # None)
MayRipen(c) ==
  \/ \E b \in used(cache[c]) : ~cache[c].mshr[b].ripe
  \/ \E i \in DOMAIN cache[c].wb : ~cache[c].wb[i].ripe

\* sendRetryEvent of a top-level cache: the processor repeats its request.
CpuRetry(c) ==
  LET s == [Now EXCEPT !.k[c].retry = FALSE]
      q == cpu[c].refused IN
  /\ Running /\ MayCpuRetry(c)
  /\ \E x \in {recvTimingReq(s, c, Pkt(q[1], Cpu, q[2], 0), None)} :
       /\ Become(x.s)
       /\ cpu' = [cpu EXCEPT ![c].refused = IF x.ok THEN None ELSE q]
  /\ UNCHANGED lay

\* Cache d sends from state s on the bus above p; v as in sendBus.
SendOn(p, d, s, v) ==
  /\ \E x \in {sendDeferredPacket(s, d, v)} :
       /\ Become(x.s)
       /\ lay' = [lay EXCEPT ![p] = IF x.ok THEN None ELSE d]
  /\ UNCHANGED cpu

\* sendRetryEvent of a cache with a bus above: the waiting cache may send.
BusRetry(c) ==
  LET s == [Now EXCEPT !.k[c].retry = FALSE] IN
  /\ Running /\ MayBusRetry(c)
  /\ \E v \in Victims(s, lay[c], getNextMSHR(s, lay[c])) : SendOn(c, lay[c], s, v)

\* The memory has room again.
MemRetry ==
  /\ Running /\ lay[Mem] # None
  /\ SendOn(Mem, lay[Mem], Now, None)

\* The send event of a cache; the memory may refuse.
Send(c) ==
  /\ Running /\ MaySend(c)
  /\ \E v \in Victims(Now, c, getNextMSHR(Now, c)) \cup (IF Parent[c] = Mem THEN {Mem} ELSE {}) :
       SendOn(Parent[c], c, Now, v)

\* The hit latency of cache c passes.
Ripen(c) ==
  LET k == cache[c] IN
  /\ Running /\ MayRipen(c)
  /\ cache' = [cache EXCEPT
       ![c].mshr = [b \in Block |-> IF k.mshr[b].used THEN [k.mshr[b] EXCEPT !.ripe = TRUE] ELSE NoMSHR],
       ![c].wb = [i \in DOMAIN k.wb |-> [k.wb[i] EXCEPT !.ripe = TRUE]]]
  /\ UNCHANGED <<net, mem, lay, cpu, ver, seen, wrong, failed>>

\* A response arrives.
Deliver(r) ==
  LET s == [Now EXCEPT !.net = @ \ {r}]
      c == r.src IN
  /\ Running
  /\ \E v \in IF cache[c].mshr[r.blk].isForward \/ cache[c].blk[r.blk].valid THEN {None}
               ELSE {v \in Block \cup {None} : mayReplace(s, c, v)} :
       Become(recvTimingResp(s, c, r, v))
  /\ UNCHANGED <<lay, cpu>>

Next ==
  \/ \E c \in Top :
       \/ \E b \in Loads[c] : CpuRequest(c, "ReadReq", b)
       \/ \E b \in Stores[c] : CpuRequest(c, "WriteReq", b)
       \/ CpuRetry(c)
  \/ \E c \in Cache : Send(c) \/ BusRetry(c) \/ Ripen(c)
  \/ \E r \in net : Deliver(r)
  \/ MemRetry

Spec == Init /\ [][Next]_vars

(* The event queue runs: while an event is due, events happen.  This is weak *)
(* fairness of all steps but CpuRequest, which alone changes cpu[c].left;    *)
(* EventDue is when one of them is enabled.                                  *)
EventDue ==
  \/ net # {} \/ lay[Mem] # None
  \/ \E c \in Top : MayCpuRetry(c)
  \/ \E c \in Cache : MaySend(c) \/ MayBusRetry(c) \/ MayRipen(c)

FairSpec ==
  /\ Spec
  /\ <>[](Running /\ EventDue) => []<><<\A c \in Top : cpu'[c].left = cpu[c].left>>_vars

----------------------------------------------------------------------------
\* The assertions of the code hold: on the registers, on who answers a snoop,
\* on the temporary block, on blocking.
NoAssertionFails == failed = {}

\* No read returns older data than its processor has already seen, and no write
\* is made to an old copy: satisfyCpuSideRequest only sees current blocks.
Coherent == wrong = {}

(* Who has the data that memory lacks: a dirty block, a writeback not sent, or *)
(* the cache that a response makes the owner.                                  *)
DirtyBlocks(b) == {c \in Cache : cache[c].blk[b].dirty}
Writebacks(b) ==
  UNION {{<<c, i>> : i \in {j \in DOMAIN cache[c].wb : cache[c].wb[j].blk = b}} : c \in Cache}
Handovers(b) == {r \in net : r.blk = b /\ r.inhibit /\ ~r.shared}

\* A block has at most one owner, which has its newest data; if there is none and
\* nobody waits for the block, memory has it: data is neither lost nor duplicated
\* on its way between caches, whatever was snooped or replaced meanwhile.
OneOwner ==
  \A b \in Block :
    LET d == DirtyBlocks(b)  w == Writebacks(b)  h == Handovers(b) IN
    /\ Cardinality(d) + Cardinality(w) + Cardinality(h) <= 1
    /\ \A c \in d : cache[c].blk[b].data = ver[b]
    /\ \A x \in w : cache[x[1]].wb[x[2]].data = ver[b]
    /\ \A r \in h : isRead(r) => r.data = ver[b]
    /\ (d = {} /\ w = {} /\ \A c \in Cache : ~cache[c].mshr[b].used) => mem[b] = ver[b]

RECURSIVE Below(_)
Below(c) == IF c = Mem THEN {} ELSE {c} \cup Below(Parent[c])

\* A cache that may write a block shares it only with caches on its way to memory.
SingleWriter ==
  \A c \in Cache, d \in Cache, b \in Block :
    cache[c].blk[b].writable /\ cache[d].blk[b].valid => c \in Below(d) \/ d \in Below(c)

\* Everything accepted is answered and everything refused is tried again, until
\* the caches are empty of requests: no retry is lost, no one waits in a circle.
Quiet ==
  /\ net = {}
  /\ \A c \in Cache : used(cache[c]) = {} /\ cache[c].wb = <<>>
  /\ \A c \in Top : cpu[c].refused = None
  /\ \A p \in DOMAIN lay : lay[p] = None
Drains == []<>Quiet

\* "We need to make sure to perform the writeback first to preserve the dirty
\* data" (getNextMSHR): no request for a block is out while its writeback waits.
WritebackFirst ==
  \A c \in Cache : \A i \in DOMAIN cache[c].wb :
    LET m == cache[c].mshr[cache[c].wb[i].blk] IN ~(m.used /\ m.inService)
=============================================================================
