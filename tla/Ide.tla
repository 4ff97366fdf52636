-------------------------------- MODULE Ide ---------------------------------
(***************************************************************************)
(* The IDE controller and its disks (hyper/dev/ide_ctrl.cc, ide_disk.cc),   *)
(* over the DMA port they share.  Every LDom has a channel of its own, with *)
(* a master and a slave.  The driver of an LDom is modelled at the level of *)
(* register accesses: it follows the ATA protocol, one command at a time    *)
(* on its channel, with interrupts or polling, by programmed I/O or by DMA, *)
(* and may stop a transfer or reset a disk between commands.                *)
(*                                                                         *)
(* Data are in units of a short.  The handlers of a disk are operators on a *)
(* working record (see Work): the disk and its channel, the image, and what *)
(* the handler asks of the event queue and of the port.                     *)
(***************************************************************************)
EXTENDS DmaPort, SequencesExt

CONSTANTS Guest, Disk,
          Master, Slave,   \* [Guest -> Disk]
          SectorSize, Sectors, PageSize,
          MemSize,         \* of the part of an LDom's memory that is used
          Scenarios,       \* the bounds, a set of records: plan, the jobs that
                           \* drivers may ask for in turn, [Guest ->
                           \* Seq(SUBSET jobs)]; setups, how many accesses they
                           \* make between commands; drains, of checkpoints
          None

VARIABLES disk, channel, image, mem, host, running, bound

vars == <<dmaVars, disk, channel, image, mem, host, running, bound>>

ASSUME IdeAssumption ==
  /\ Event = Disk \X {"Transfer", "PrdRead", "ReadWait", "WriteWait"}
  /\ Guest # {} /\ SectorSize \in Nat \ {0} /\ Sectors \in Nat \ {0}

Channel(d) == CHOOSE g \in Guest : d \in {Master[g], Slave[g]}

(* A job: the command, the first sector, and the memory to transfer, as a    *)
(* table of physical region descriptors.                                     *)
Kind == {"nondata", "identify", "read", "write", "readdma", "writedma"}
Count(job) == FoldSeq(LAMBDA e, n : e.count + n, 0, job.table)
Addrs(job) == FlattenSeq([i \in 1..Len(job.table) |->
                [k \in 1..job.table[i].count |-> job.table[i].base + k - 1]])
NoPrd == [base |-> 0, count |-> 0, eot |-> FALSE]
NoJob == [cmd |-> "none", lba |-> 0, table |-> <<>>]
BufSize == MaxSize
Blank == [i \in 0..BufSize-1 |-> None]
Identity == [i \in 0..BufSize-1 |-> <<"id", i>>]

-----------------------------------------------------------------------------
(* The state of a disk.  reset() leaves the interrupt enable bit alone, and  *)
(* nothing initializes it.                                                   *)
reset(d, nIEN) ==
  [devState |-> IF d \in Range(Master) THEN "Idle_S" ELSE "Idle_NS",
   dmaState |-> "Idle", dmaRead |-> FALSE, dmaAborted |-> FALSE,
   intrPending |-> FALSE, nIEN |-> nIEN, bsy |-> FALSE, drq |-> FALSE,
   cmd |-> "none", cmdBytes |-> 0, cmdBytesLeft |-> 0, drqBytesLeft |-> 0,
   curSector |-> 0, prdTable |-> <<>>, curPrd |-> NoPrd, cg |-> None,
   dataBuffer |-> Blank, data |-> None, panic |-> FALSE]

Work(d) == [k |-> disk[d], c |-> channel[Channel(d)], irq |-> FALSE,
            img |-> image[d], sched |-> {}, dma |-> None]

Panic(w) == [w EXCEPT !.k.panic = TRUE]
Claim(w, p) == IF p THEN w ELSE Panic(w)

\* Mutant: an interrupt is posted to the guest but not marked pending.
intrPost_NotPending(w) == [w EXCEPT !.c.intStatus = TRUE, !.irq = TRUE]

\* Sets the channel's status and raises the LDom's interrupt line.
intrPost(w) ==
  [Claim(w, ~w.k.intrPending) EXCEPT !.k.intrPending = TRUE,
                                     !.c.intStatus = TRUE, !.irq = TRUE]

intrClear(w) == [Claim(w, w.k.intrPending) EXCEPT !.k.intrPending = FALSE]

setComplete(w) == [w EXCEPT !.k.bsy = FALSE, !.k.drq = FALSE]

setDmaComplete(w) ==
  [w EXCEPT !.c.startStop = FALSE, !.c.active = FALSE, !.c.intStatus = TRUE]

\* To state s with an interrupt, or to t without if the host disabled them.
Interrupting(w, s, t) ==
  IF w.k.nIEN THEN [w EXCEPT !.k.devState = t]
  ELSE intrPost([w EXCEPT !.k.devState = s])

Idle(w) == Interrupting(setComplete(w), "Idle_SI", "Idle_S")

Sector(img, s) == [i \in 0..BufSize-1 |->
  IF i < SectorSize THEN img[s * SectorSize + i] ELSE None]

\* Prepare_Data_In on ACT_DATA_READY.
DataReadyIn(w) ==
  LET ident == w.k.cmd = "identify"
      buf == IF ident THEN Identity ELSE Sector(w.img, w.k.curSector) IN
  Interrupting(
    [w EXCEPT !.k.bsy = FALSE, !.k.drq = TRUE, !.k.drqBytesLeft = SectorSize,
              !.k.dataBuffer = buf, !.k.data = buf[0],
              !.k.curSector = IF ident THEN @ ELSE @ + 1],
    "Data_Ready_INTRQ_In", "Transfer_Data_In")

\* Prepare_Data_Out on ACT_DATA_READY: done, or ready for the next block.
DataReadyOut(w) ==
  LET ready == [w EXCEPT !.k.bsy = FALSE, !.k.drq = TRUE,
                         !.k.dataBuffer = Blank, !.k.drqBytesLeft = SectorSize] IN
  IF w.k.cmdBytesLeft = 0 THEN Idle(w)
  ELSE IF w.k.cmdBytesLeft = w.k.cmdBytes
  THEN [ready EXCEPT !.k.devState = "Transfer_Data_Out"]
  ELSE Interrupting(ready, "Data_Ready_INTRQ_Out", "Transfer_Data_Out")

\* Prepare_Data_Dma on ACT_DMA_READY.
DmaReady(w) ==
  [Claim(w, w.k.dmaState = "Idle") EXCEPT
     !.k.bsy = FALSE, !.k.drq = TRUE, !.k.devState = "Transfer_Data_Dma",
     !.k.dmaState = "Start"]

(* Decodes the command register; size and first sector come from the job.    *)
startCommand(w, job) ==
  LET n == IF job.cmd = "identify" THEN SectorSize ELSE Count(job)
      v == [w EXCEPT !.k.bsy = TRUE, !.k.drq = FALSE, !.k.cmd = job.cmd,
                     !.k.dmaRead = (job.cmd = "writedma")]
      s == [v EXCEPT !.k.cmdBytes = n, !.k.cmdBytesLeft = n]
      t == [s EXCEPT !.k.curSector = job.lba] IN
  CASE job.cmd = "nondata" -> Idle(v)
    [] job.cmd = "identify" -> DataReadyIn(s)
    [] job.cmd = "read" -> DataReadyIn(t)
    [] job.cmd = "write" -> DataReadyOut(t)
    [] OTHER -> DmaReady(t)

-----------------------------------------------------------------------------
(* updateState, one operator per action of the host or of the disk.          *)

SelectWrite(w) ==   \* the disk that sees it is the selected one
  IF w.k.devState = "Idle_NS"
  THEN IF ~w.k.nIEN /\ w.k.intrPending
       THEN intrPost([w EXCEPT !.k.devState = "Idle_SI"])
       ELSE [w EXCEPT !.k.devState = "Idle_S"]
  ELSE IF w.k.devState = "Idle_SI" /\ w.k.nIEN
  THEN intrClear([w EXCEPT !.k.devState = "Idle_S"])
  ELSE w

CmdWrite(w, job) ==
  CASE w.k.devState = "Idle_S" -> startCommand(w, job)
    [] w.k.devState = "Idle_SI" ->
         IF w.k.nIEN THEN intrClear([w EXCEPT !.k.devState = "Idle_S"])
         ELSE startCommand(intrClear(w), job)
    [] OTHER -> w

StatRead(w) ==
  LET next == CASE w.k.devState = "Idle_SI" -> "Idle_S"
                [] w.k.devState = "Data_Ready_INTRQ_In" -> "Transfer_Data_In"
                [] w.k.devState = "Data_Ready_INTRQ_Out" -> "Transfer_Data_Out"
                [] OTHER -> None IN
  IF next = None THEN w ELSE intrClear([w EXCEPT !.k.devState = next])

DataReadShort(w) ==
  LET left == w.k.drqBytesLeft - 1
      v == [w EXCEPT !.k.drqBytesLeft = left, !.k.cmdBytesLeft = @ - 1,
              !.k.data = IF left = 0 THEN @
                         ELSE w.k.dataBuffer[SectorSize - left]] IN
  IF w.k.devState # "Transfer_Data_In" THEN w
  ELSE IF left > 0 THEN v
  ELSE IF v.k.cmdBytesLeft = 0
  THEN [setComplete(v) EXCEPT !.k.devState = "Idle_S"]
  ELSE DataReadyIn(v)

Written(img, s, buf, from) == [i \in DOMAIN img |->
  IF i \div SectorSize = s THEN buf[from + (i % SectorSize)] ELSE img[i]]

DataWriteShort(w) ==
  LET left == w.k.drqBytesLeft - 1
      v == [w EXCEPT !.k.drqBytesLeft = left, !.k.cmdBytesLeft = @ - 1,
              !.k.dataBuffer[SectorSize - w.k.drqBytesLeft] = w.k.data] IN
  IF w.k.devState # "Transfer_Data_Out" THEN w
  ELSE IF left > 0 THEN v
  ELSE DataReadyOut([v EXCEPT
         !.img = Written(@, w.k.curSector, v.k.dataBuffer, 0),
         !.k.curSector = @ + 1])

\* Mutant: the end of an abort does not interrupt.
CmdError_Silent(w) ==
  CASE w.k.devState = "Transfer_Data_Dma" ->
         [w EXCEPT !.k.dmaAborted = TRUE, !.k.devState = "Dma_Abort"]
    [] w.k.devState = "Dma_Abort" ->
         [setComplete(setDmaComplete(w)) EXCEPT !.k.dmaAborted = FALSE,
            !.k.dmaState = "Idle", !.k.devState = "Idle_S"]
    [] OTHER -> w

\* The host stops a transfer; the second time, a step of the transfer found out.
CmdError(w) ==
  CASE w.k.devState = "Transfer_Data_Dma" ->
         [w EXCEPT !.k.dmaAborted = TRUE, !.k.devState = "Dma_Abort"]
    [] w.k.devState = "Dma_Abort" ->
         Idle(setDmaComplete([w EXCEPT !.k.dmaAborted = FALSE,
                                       !.k.dmaState = "Idle"]))
    [] OTHER -> w

DmaDone(w) ==
  IF w.k.devState = "Transfer_Data_Dma"
  THEN Idle(setDmaComplete([w EXCEPT !.k.dmaState = "Idle"]))
  ELSE [w EXCEPT !.k.dmaState = "Idle"]

-----------------------------------------------------------------------------
(* The steps of a DMA command, each an event that schedules the next.  free  *)
(* says that the port has nothing pending and no checkpoint is being taken;  *)
(* otherwise the event comes again after the back-off period.                *)

\* Mutant: the transfer starts whatever the port is doing.
doDmaTransfer_Impatient(w, free) ==
  IF w.k.dmaAborted THEN CmdError(w)
  ELSE IF w.k.dmaState # "Transfer" \/ w.k.devState # "Transfer_Data_Dma"
  THEN Panic(w)
  ELSE [w EXCEPT !.dma = [event |-> "PrdRead", addr |-> 0, size |-> 1]]

\* Mutant: the completion event is scheduled besides given to the port.
doDmaTransfer_Scheduled(w, free) ==
  IF w.k.dmaAborted THEN CmdError(w)
  ELSE IF w.k.dmaState # "Transfer" \/ w.k.devState # "Transfer_Data_Dma"
  THEN Panic(w)
  ELSE IF ~free THEN [w EXCEPT !.sched = {"Transfer"}]
  ELSE [w EXCEPT !.dma = [event |-> "PrdRead", addr |-> 0, size |-> 1],
                 !.sched = {"PrdRead"}]

doDmaTransfer(w, free) ==
  IF w.k.dmaAborted THEN CmdError(w)
  ELSE IF w.k.dmaState # "Transfer" \/ w.k.devState # "Transfer_Data_Dma"
  THEN Panic(w)
  ELSE IF ~free THEN [w EXCEPT !.sched = {"Transfer"}]
  ELSE [w EXCEPT !.dma = [event |-> "PrdRead", addr |-> 0, size |-> 1]]

\* Descriptors transfer whole sectors.
Rounded(n) == ((n + SectorSize - 1) \div SectorSize) * SectorSize

\* The disk's sectors go to the buffer before the delay of the disk.
doDmaDataWrite(w) ==
  LET n == Rounded(w.k.curPrd.count) IN
  [w EXCEPT !.sched = {"WriteWait"},
            !.k.dataBuffer = [i \in 0..BufSize-1 |->
              IF i < n THEN w.img[w.k.curSector * SectorSize + i] ELSE None],
            !.k.curSector = @ + n \div SectorSize,
            !.k.cmdBytesLeft = @ - n]

dmaPrdReadDone(w) ==
  LET v == [w EXCEPT !.k.prdTable = Tail(@)] IN
  IF w.k.dmaAborted THEN CmdError(w)
  ELSE IF w.k.dmaRead THEN [v EXCEPT !.sched = {"ReadWait"}]
  ELSE doDmaDataWrite(v)

\* At the end of a descriptor: the end of the command, or the next one.
NextPrd(w, free) ==
  IF w.k.curPrd.eot THEN DmaDone(Claim(w, w.k.cmdBytesLeft = 0))
  ELSE doDmaTransfer(w, free)

dmaReadDone(w, free) ==
  LET n == Rounded(w.k.curPrd.count) from == w.k.curSector * SectorSize
      v == [w EXCEPT !.k.cmdBytesLeft = @ - n,
              !.k.curSector = @ + n \div SectorSize,
              !.img = [i \in DOMAIN @ |-> IF i \in from..from + n - 1
                       THEN w.k.dataBuffer[i - from] ELSE @[i]]] IN
  NextPrd(v, free)

\* Mutant: the rest of the page, past the end of the descriptor.
Chunk_Page(prd, at) == PageSize - ((prd.base + at) % PageSize)

\* The ChunkGenerator of a descriptor: from its at-th unit to the end of a page.
Chunk(prd, at) ==
  LET a == prd.base + at page == PageSize - (a % PageSize) IN
  IF prd.count - at < page THEN prd.count - at ELSE page

(* doDmaRead and doDmaWrite.  cg is how much of the descriptor has been      *)
(* asked for, None when there is no chunk generator; event is the disk's     *)
(* event that comes here, after a back-off as after a chunk.                 *)
Chunks(w, free, event, Done(_, _)) ==
  LET at == IF w.k.cg = None THEN 0 ELSE w.k.cg
      v == [w EXCEPT !.k.cg = at]
      n == Chunk(w.k.curPrd, at) IN
  IF w.k.dmaAborted THEN CmdError([w EXCEPT !.k.cg = None])
  ELSE IF ~free THEN [v EXCEPT !.sched = {event}]
  ELSE IF at < w.k.curPrd.count
  THEN [v EXCEPT !.k.cg = at + n,
                 !.dma = [event |-> event, addr |-> w.k.curPrd.base + at,
                          size |-> n]]
  ELSE Done([v EXCEPT !.k.cg = None], free)

doDmaRead(w, free) ==
  Chunks([w EXCEPT !.k.dataBuffer = IF w.k.cg = None /\ ~w.k.dmaAborted
                                       THEN Blank ELSE @],
         free, "ReadWait", dmaReadDone)

doDmaWrite(w, free) == Chunks(w, free, "WriteWait", NextPrd)

Process(w, kind, free) ==
  CASE kind = "Transfer" -> doDmaTransfer(w, free)
    [] kind = "PrdRead" -> dmaPrdReadDone(w)
    [] kind = "ReadWait" -> doDmaRead(w, free)
    [] kind = "WriteWait" -> doDmaWrite(w, free)

(* The bus master register of the channel: start and stop.                   *)
startDma(w, table) ==
  [Claim(w, w.k.dmaState = "Start" /\ w.k.devState = "Transfer_Data_Dma") EXCEPT
     !.k.prdTable = table, !.k.dmaState = "Transfer", !.sched = {"Transfer"},
     !.c.active = TRUE, !.c.startStop = TRUE]

abortDma(w) ==
  CmdError([Claim(w, w.k.dmaState # "Idle" /\ w.k.devState = "Transfer_Data_Dma")
    EXCEPT !.c.active = FALSE, !.c.startStop = FALSE])

-----------------------------------------------------------------------------
\* A disk that no command goes to need not be told from another.
Used(d) == /\ host[Channel(d)].plan # <<>>
           /\ d = Master[Channel(d)] \/ bound.setups > 0

Init ==
  /\ PortInit /\ scheduled = {}
  /\ channel = [g \in Guest |-> [selected |-> Master[g], startStop |-> FALSE,
                                 active |-> FALSE, intStatus |-> FALSE]]
  /\ image = [d \in Disk |-> [i \in 0..Sectors * SectorSize - 1 |-> <<d, i>>]]
  /\ mem = [g \in Guest |-> [a \in 0..MemSize-1 |-> <<g, a>>]]
  /\ \E s \in Scenarios :
       /\ host = [g \in Guest |-> [phase |-> "idle", job |-> NoJob, moved |-> 0,
                  stopped |-> FALSE, irq |-> FALSE, plan |-> s.plan[g]]]
       /\ bound = [setups |-> s.setups, drains |-> s.drains]
  /\ \E ien \in [{d \in Disk : Used(d)} -> BOOLEAN] :
       disk = [d \in Disk |-> reset(d, Used(d) /\ ien[d])]
  /\ running = TRUE

(* The effects of a handler of disk d, and the host's next state h.  An event *)
(* may only be scheduled when it is not.                                     *)
Effect(d, work, before, ok, h) ==
  \E w \in {work} : LET new == {<<d, k>> : k \in w.sched} g == Channel(d) IN
    /\ disk' = [disk EXCEPT ![d] =
                  [w.k EXCEPT !.panic = @ \/ new \cap before # {}]]
    /\ channel' = [channel EXCEPT ![g] = w.c]
    /\ image' = [image EXCEPT ![d] = w.img]
    /\ scheduled' = before \cup new
    /\ host' = [host EXCEPT ![g] = [h EXCEPT !.irq = @ \/ w.irq]]
    /\ IF w.dma = None THEN ok /\ UNCHANGED portVars
       ELSE dmaAction(<<d, w.dma.event>>, w.dma.addr, w.dma.size, ok)
    /\ UNCHANGED running

Fire(d, kind, ok) ==
  /\ <<d, kind>> \in scheduled
  /\ \E w \in {Work(d)}, free \in {running /\ pendingCount = 0} :
       Effect(d, Process(w, kind, free), scheduled \ {<<d, kind>>}, ok,
              host[Channel(d)])
  /\ UNCHANGED <<mem, bound>>

-----------------------------------------------------------------------------
(* The driver's register accesses, to the selected disk of its channel.      *)
Selected(g) == channel[g].selected

Access(g, w, h) == Effect(Selected(g), w, scheduled, TRUE, h)

More(g) == host[g].plan # <<>>
Quiet(g) == host[g].phase = "idle" /\ ~disk[Selected(g)].intrPending
Setup(g) ==
  /\ More(g) /\ bound.setups > 0
  /\ bound' = [bound EXCEPT !.setups = @ - 1]
  /\ UNCHANGED mem

Select(g, d) ==
  /\ host[g].phase = "idle" /\ d \in {Master[g], Slave[g]} \ {Selected(g)}
  /\ Effect(d, SelectWrite([Work(d) EXCEPT !.c.selected = d]), scheduled, TRUE,
            host[g])
  /\ Setup(g)

Jobs(g) == IF More(g) THEN Head(host[g].plan) ELSE {}

Command(g, job) ==
  LET h == host[g] IN
  /\ h.phase = "idle" /\ job \in Jobs(g)
  /\ disk[Selected(g)].devState \in {"Idle_S", "Idle_SI"}
  /\ Access(g, CmdWrite(Work(Selected(g)), job),
            [h EXCEPT !.phase = "busy", !.job = job, !.moved = 0,
                      !.stopped = FALSE, !.plan = Tail(@)])
  /\ UNCHANGED <<mem, bound>>

\* Enables and disables interrupts, with none pending.
WriteControl(g, ien) ==
  /\ Quiet(g)
  /\ Access(g, [Work(Selected(g)) EXCEPT !.k.nIEN = ien], host[g])
  /\ Setup(g)

\* A software reset, in two accesses.
SetReset(g, ien) ==
  LET w == Work(Selected(g)) IN
  /\ host[g].phase = "idle"
  /\ Access(g, [w EXCEPT !.k.devState = "Srst", !.k.bsy = TRUE, !.k.nIEN = ien],
            [host[g] EXCEPT !.phase = "reset"])
  /\ Setup(g)

ClearReset(g, ien) ==
  LET d == Selected(g) w == Work(d) IN
  /\ host[g].phase = "reset"
  /\ Access(g, [w EXCEPT !.k = [reset(d, ien) EXCEPT !.panic = w.k.panic,
                                                         !.cg = w.k.cg]],
            [host[g] EXCEPT !.phase = "idle"])
  /\ UNCHANGED <<mem, bound>>

PIO(job) == job.cmd \in {"identify", "read", "write"}
DMA(job) == job.cmd \in {"readdma", "writedma"}
Total(job) == IF job.cmd = "identify" THEN SectorSize ELSE Count(job)

\* What the host makes of the status it reads.
Seen(h, k) ==
  CASE k.bsy -> h.phase
    [] k.drq /\ h.phase = "busy" /\ PIO(h.job) -> "data"
    [] ~k.drq -> "idle"
    [] OTHER -> h.phase

ReadStatus(g) ==
  LET w == Work(Selected(g)) h == host[g] IN
  /\ h.phase \notin {"reset", "data"}
  /\ Access(g, StatRead(w), [h EXCEPT !.phase = Seen(h, w.k), !.irq = FALSE])
  /\ UNCHANGED <<mem, bound>>

\* Reads the status without acknowledging the interrupt, after a command.
ReadAltStatus(g) ==
  LET w == Work(Selected(g)) h == host[g] IN
  /\ h.phase \in {"busy", "dma", "stopping"} /\ Seen(h, w.k) = "idle"
  /\ Access(g, w, [h EXCEPT !.phase = "idle"])
  /\ UNCHANGED <<mem, bound>>

\* One short, or two in one access of the double width.
Twice(Op(_), w, two) == IF two THEN Op(Op(w)) ELSE Op(w)

Moved(g, n) ==
  LET h == host[g] m == h.moved + n IN
  [h EXCEPT !.moved = m, !.phase = IF m % SectorSize = 0 THEN "busy" ELSE "data"]

ReadData(g, two) ==
  LET w == Work(Selected(g)) h == host[g] n == IF two THEN 2 ELSE 1
      at(i) == Addrs(h.job)[h.moved + i] IN
  /\ h.phase = "data" /\ h.job.cmd \in {"identify", "read"}
  /\ n <= SectorSize - (h.moved % SectorSize)
  /\ Access(g, Twice(DataReadShort, w, two), Moved(g, n))
  /\ mem' = [mem EXCEPT ![g][at(1)] = w.k.data,
               ![g][at(n)] = IF two THEN DataReadShort(w).k.data ELSE w.k.data]
  /\ UNCHANGED bound

WriteData(g, two) ==
  LET w == Work(Selected(g)) h == host[g] n == IF two THEN 2 ELSE 1
      Put(v, i) == DataWriteShort([v EXCEPT
                     !.k.data = mem[g][Addrs(h.job)[h.moved + i]]]) IN
  /\ h.phase = "data" /\ h.job.cmd = "write"
  /\ n <= SectorSize - (h.moved % SectorSize)
  /\ Access(g, IF two THEN Put(Put(w, 1), 2) ELSE Put(w, 1), Moved(g, n))
  /\ UNCHANGED <<mem, bound>>

StartDma(g) ==
  LET h == host[g] IN
  /\ h.phase = "busy" /\ DMA(h.job) /\ ~channel[g].startStop
  /\ Access(g, startDma(Work(Selected(g)), h.job.table), [h EXCEPT !.phase = "dma"])
  /\ UNCHANGED <<mem, bound>>

\* Stops the bus master: a transfer in progress is aborted, one that is done not.
StopDma(g) ==
  LET w == Work(Selected(g)) h == host[g] IN
  /\ h.phase = "dma" /\ channel[g].startStop
  /\ Access(g, abortDma(w), [h EXCEPT !.phase = "stopping", !.stopped = TRUE])
  /\ UNCHANGED <<mem, bound>>

WriteBMIStatus(g) ==
  /\ Quiet(g) /\ channel[g].intStatus
  /\ Access(g, [Work(Selected(g)) EXCEPT !.c.intStatus = FALSE], host[g])
  /\ UNCHANGED <<mem, bound>>

-----------------------------------------------------------------------------
(* Memory serves a packet and the port gets the response: a descriptor, or   *)
(* data into or out of the disk's buffer, which packets point into.          *)
Respond(p) ==
  LET d == p.event[1] g == Channel(d) k == disk[d]
      in == p.addr..p.addr + p.size - 1 IN
  /\ RecvTimingResp(p)
  /\ disk' = [disk EXCEPT ![d] =
       CASE p.event[2] = "PrdRead" ->
              [k EXCEPT !.curPrd = [base |-> Head(k.prdTable).base,
                                    count |-> Head(k.prdTable).count,
                                    eot |-> Len(k.prdTable) = 1]]
         [] p.event[2] = "ReadWait" ->
              [k EXCEPT !.dataBuffer = [i \in 0..BufSize-1 |->
                 IF k.curPrd.base + i \in in THEN mem[g][k.curPrd.base + i]
                 ELSE @[i]]]
         [] OTHER -> k]
  /\ mem' = IF p.event[2] # "WriteWait" THEN mem
            ELSE [mem EXCEPT ![g] = [a \in 0..MemSize-1 |->
                    IF a \in in THEN k.dataBuffer[a - k.curPrd.base] ELSE @[a]]]
  /\ UNCHANGED <<channel, image, host, running, bound>>

ideVars == <<disk, channel, image, mem, host, running, bound>>

PortSends(ok) == SendEvent(ok) /\ UNCHANGED ideVars
PortRetries(ok) == RecvRetry(ok) /\ UNCHANGED ideVars

(* A checkpoint: the controller drains with its port ...                     *)
StartDrain ==
  /\ running /\ bound.drains > 0
  /\ Drain
  /\ running' = FALSE /\ bound' = [bound EXCEPT !.drains = @ - 1]
  /\ UNCHANGED <<disk, channel, image, mem, host>>

\* Mutant: the buffer is not part of the checkpoint.
restored_NoBuffer(d) ==
  [disk[d] EXCEPT !.cg = None, !.dataBuffer = Blank]

\* serialize and unserialize: one event at most, and no chunk generator.
restored(d) ==
  [disk[d] EXCEPT !.cg = None,
     !.panic = @ \/ Cardinality({e \in scheduled : e[1] = d}) > 1]

(* ... and the machine goes on, as it was or as a checkpoint restores it.    *)
Resume(restore) ==
  /\ ~running /\ ~drainManager
  /\ disk' = IF restore THEN [d \in Disk |-> restored(d)] ELSE disk
  /\ running' = TRUE
  /\ UNCHANGED <<dmaVars, channel, image, mem, host, bound>>

Next ==
  \/ \E d \in Disk, ok \in BOOLEAN,
        kind \in {"Transfer", "PrdRead", "ReadWait", "WriteWait"} :
       Fire(d, kind, ok)
  \/ \E p \in inFlight : Respond(p)
  \/ \E ok \in BOOLEAN : PortSends(ok) \/ PortRetries(ok)
  \/ StartDrain \/ \E restore \in BOOLEAN : Resume(restore)
  \/ \E g \in Guest :
       \/ \E d \in Disk : Select(g, d)
       \/ \E job \in Jobs(g) : Command(g, job)
       \/ \E b \in BOOLEAN : \/ WriteControl(g, b)
                             \/ SetReset(g, b) \/ ClearReset(g, b)
                             \/ ReadData(g, b) \/ WriteData(g, b)
       \/ ReadStatus(g) \/ ReadAltStatus(g)
       \/ StartDma(g) \/ StopDma(g) \/ WriteBMIStatus(g)

Spec == Init /\ [][Next]_vars

(* A host with interrupts enabled looks at the status when one has arrived   *)
(* and, during DMA, the bus master status says that it is the channel's; a   *)
(* host that polls, or is not promised an interrupt, looks now and then.     *)
Polls(g) ==
  LET h == host[g] IN
  \/ disk[Selected(g)].nIEN
  \/ h.job.cmd = "write" /\ h.moved = 0
  \/ h.job.cmd \in {"read", "identify"} /\ h.moved = Total(h.job)

Answers(g) ==
  /\ host[g].irq \/ Polls(g)
  /\ host[g].phase \in {"dma", "stopping"} => channel[g].intStatus
  /\ host[g].phase # "idle"
  /\ ReadStatus(g) /\ host'[g].phase # host[g].phase

Drives(g) ==
  \/ Answers(g) \/ StartDma(g)
  \/ \E b \in BOOLEAN : ReadData(g, b) \/ WriteData(g, b) \/ ClearReset(g, b)

(* A driver goes on with the command it has started; the bus takes a packet  *)
(* it refused in the end, and memory answers; a checkpoint ends; an event of *)
(* a disk fires, after any number of back-offs, with the port free.          *)
Fires(d) ==
  /\ running /\ pendingCount = 0
  /\ \E ok \in BOOLEAN, kind \in {"Transfer", "PrdRead", "ReadWait", "WriteWait"} :
       Fire(d, kind, ok)

FairSpec ==
  /\ Spec
  /\ \A g \in Guest : WF_vars(Drives(g))
  /\ \A d \in Disk : WF_vars(Fires(d))
  /\ WF_vars(\E p \in inFlight : Respond(p))
  /\ WF_vars(PortSends(TRUE)) /\ WF_vars(PortRetries(TRUE))
  /\ WF_vars(Resume(FALSE))

-----------------------------------------------------------------------------
DevState == {"Idle_S", "Idle_SI", "Idle_NS", "Srst", "Data_Ready_INTRQ_In",
             "Data_Ready_INTRQ_Out", "Transfer_Data_In", "Transfer_Data_Out",
             "Transfer_Data_Dma", "Dma_Abort"}

(* Types, and that transfers and blocks stay within the buffer and the disk. *)
TypeOK ==
  /\ \A d \in Disk :
       /\ disk[d].devState \in DevState
       /\ disk[d].dmaState \in {"Idle", "Start", "Transfer"}
       /\ disk[d].cmd \in Kind \cup {"none"}
       /\ disk[d].drqBytesLeft \in 0..SectorSize
       /\ disk[d].cmdBytesLeft \in 0..disk[d].cmdBytes
       /\ disk[d].curSector \in 0..Sectors
       /\ DOMAIN disk[d].dataBuffer = 0..BufSize-1
       /\ DOMAIN image[d] = 0..Sectors * SectorSize - 1
  /\ \A g \in Guest :
       /\ channel[g].selected \in {Master[g], Slave[g]}
       /\ host[g].phase \in {"idle", "busy", "data", "dma", "stopping", "reset"}
  /\ running \in BOOLEAN

(* Whatever the drivers of the LDoms do on their channels, when a transfer is *)
(* stopped and when a checkpoint is taken, no assertion or panic of the disk *)
(* is reached and no event is scheduled twice.                               *)
NoPanic == \A d \in Disk : ~disk[d].panic

Live(d) == {e \in Event : e[1] = d /\ (e \in scheduled \/ reqState[e] # NoState)}

(* A disk in a transfer has exactly one thing going on for it, an event in   *)
(* the queue or a request at the port, until the transfer is over, also when *)
(* it is being aborted; a disk in none has nothing.  And the port that all   *)
(* the disks share serves one request at a time.                             *)
OneAtATime ==
  /\ \A d \in Disk :
       Cardinality(Live(d)) = IF disk[d].dmaState = "Transfer" THEN 1 ELSE 0
  /\ Cardinality({e \in Event : reqState[e] # NoState}) <= 1

(* When the driver finds its command done and has not stopped it, the memory *)
(* the command names and the sectors it names hold the same, for programmed  *)
(* I/O and DMA in either direction, however descriptors, pages, lines and    *)
(* sectors divide the data.                                                  *)
DataMoved ==
  [][\A g \in Guest :
       LET h == host[g] d == Selected(g) at == Addrs(h.job) IN
       /\ h.phase \notin {"idle", "reset"} /\ host'[g].phase = "idle"
       /\ h.job.cmd \in {"read", "write", "readdma", "writedma"} /\ ~h.stopped
       => \A i \in 1..Len(at) :
            mem[g][at[i]] = image[d][h.job.lba * SectorSize + i - 1]]_vars

(* The memory of an LDom changes only by the command its own driver has not  *)
(* yet seen done, and only where that command says: no packet of another     *)
(* LDom's transfer, or of one that was stopped, arrives there.               *)
NoStrayWrite ==
  [][\A g \in Guest : \A a \in 0..MemSize-1 :
       mem'[g][a] # mem[g][a] =>
         /\ host[g].phase # "idle"
         /\ host[g].job.cmd \in {"read", "identify", "readdma"}
         /\ \E i \in 1..Len(Addrs(host[g].job)) : Addrs(host[g].job)[i] = a]_vars

(* A driver that has issued a command sees its end, waiting for interrupts   *)
(* where the disk promises one, whether or not it stops the transfer, with   *)
(* other disks contending for the port and checkpoints in between.           *)
CommandsFinish ==
  \A g \in Guest : host[g].phase # "idle" ~> host[g].phase = "idle"
=============================================================================
