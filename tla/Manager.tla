------------------------------- MODULE Manager ------------------------------
(***************************************************************************)
(* The global manager (arch/glomgr.cc): its listening socket, the one       *)
(* connection it serves, the framing of packets and the commands; with the  *)
(* poll queue that calls it (base/pollevent.cc) from the simulation loop    *)
(* (sim/simulate.cc), the LDoms that the commands start and stop, and the   *)
(* parameters that they set.                                                *)
(*                                                                         *)
(* The host signals input on a descriptor once, with SIGIO, which only sets *)
(* a flag.  Between two events of the simulation the loop tests the flag,   *)
(* clears it, polls, and has every descriptor that is ready processed.  The *)
(* reads are blocking: in the middle of a packet the simulation waits for   *)
(* the client.                                                              *)
(*                                                                         *)
(* A client (utils/command.sh) connects, sends one packet, in one piece or  *)
(* in several, and closes the connection when it likes.                     *)
(***************************************************************************)
EXTENDS Processors, ControlPlanes, Sequences

CONSTANTS Client,
          Command,   \* what the clients send, a set of [op, id, arg]
          Plans,     \* the bound, a set of records: guests, the LDoms of the
                     \* configuration; asks, the command of each client, if
                     \* any; whole, whether packets are sent in one piece;
                     \* insns, what processors do; ops, what writers ask for
          MaxLen     \* the size of the packet buffer, in bytes of this model

ASSUME ManagerAssumption ==
  /\ None \notin Client /\ MaxLen \in Nat /\ MaxLen >= 2
  /\ \A m \in Command :
       /\ m.op \in {"create", "startup", "shutdown", "set", "other", "long", "none"}
       /\ m.id \in Nat
       /\ m.op = "set" => m.id \in LDom /\ m.arg \in Plane \X Dest \X Value
  /\ \A pl \in Plans :
       /\ pl.guests \in 0..NumContexts /\ pl.asks \in [Client -> Command \cup {None}]
       /\ pl.whole \in BOOLEAN /\ pl.insns \subseteq {"work", "halt", "arm", "disarm"}
       /\ pl.ops \subseteq Operation

VARIABLES async,     \* async_event and async_io
          service,   \* PollQueue::service: the descriptors left to process
          fd,        \* the client that the manager is attached to, or None
          reading,   \* where recv is: "no", "find" a start, or in the "body"
          body,      \* what recv has read of the packet
          backlog,   \* clients not accepted yet
          conn,      \* [Client -> the state of its connection]
          wire,      \* [Client -> Seq(bytes)], sent and not read
          toSend,    \* [Client -> Seq(bytes)], the rest of its packet
          shut,      \* [Client -> whether, and when, it closed its end]
          plan,      \* the one of Plans that is followed
          ran        \* [Client -> Seq(packets executed for it)]

machineVars == <<processorVars, planeVars>>
managerVars == <<async, service, fd, reading, body>>
clientVars == <<backlog, conn, wire, toSend, plan, shut, ran>>
vars == <<machineVars, managerVars, clientVars>>

GMStart == [op |-> "$", id |-> 0, arg |-> None]
GMEnd == [op |-> "#", id |-> 0, arg |-> None]
EOF == [op |-> "0xFF", id |-> 0, arg |-> None]
\* A packet, one that is longer than the buffer, and none at all.
Packet(m) ==
  IF m = None \/ m.op = "none" THEN <<>>
  ELSE IF m.op = "long" THEN <<GMStart>> \o [i \in 1..MaxLen + 1 |-> m] \o <<GMEnd>>
  ELSE <<GMStart, m, GMEnd>>
Byte == Command \cup {GMStart, GMEnd, EOF}

TypeOK ==
  /\ ProcessorsTypeOK /\ PlanesTypeOK /\ async \in BOOLEAN /\ fd \in Client \cup {None}
  /\ service \in {<<>>, <<"poll">>, <<"listener">>, <<"data">>, <<"listener", "data">>}
  /\ reading \in {"no", "find", "body"} /\ body \in Seq(Byte) /\ Len(body) <= MaxLen
  /\ backlog \in Seq(Client)
  /\ conn \in [Client -> {"out", "first", "behind", "served", "refused", "detached"}]
  /\ wire \in [Client -> Seq(Byte)] /\ toSend \in [Client -> Seq(Byte)]
  /\ shut \in [Client -> {"open", "early", "late"}] /\ plan \in Plans
  /\ ran \in [Client -> Seq(Seq(Byte))]

Init ==
  /\ plan \in Plans /\ ProcessorsInit(plan.guests) /\ PlanesInit
  /\ async = FALSE /\ service = <<>> /\ fd = None /\ reading = "no" /\ body = <<>>
  /\ backlog = <<>> /\ conn = [c \in Client |-> "out"]
  /\ wire = [c \in Client |-> <<>>] /\ toSend = [c \in Client |-> Packet(plan.asks[c])]
  /\ shut = [c \in Client |-> "open"] /\ ran = [c \in Client |-> <<>>]

-----------------------------------------------------------------------------
(* The clients and the host's sockets.                                       *)

\* Who connects while others wait is behind them.
Connect(c) ==
  /\ conn[c] = "out" /\ plan.asks[c] # None
  /\ conn' = [conn EXCEPT ![c] = IF backlog = <<>> THEN "first" ELSE "behind"]
  /\ backlog' = Append(backlog, c)
  /\ async' = TRUE
  /\ UNCHANGED <<machineVars, service, fd, reading, body, wire, toSend, plan, shut, ran>>

\* A descriptor signals only once the manager has it.
Signal(c) == async' = (async \/ fd = c)

Send(c, n) ==
  /\ conn[c] \in {"first", "behind", "served"} /\ shut[c] = "open" /\ n <= Len(toSend[c])
  /\ plan.whole => n = Len(toSend[c])
  /\ wire' = [wire EXCEPT ![c] = @ \o SubSeq(toSend[c], 1, n)]
  /\ toSend' = [toSend EXCEPT ![c] = SubSeq(@, n + 1, Len(@))]
  /\ Signal(c)
  /\ UNCHANGED <<machineVars, service, fd, reading, body, backlog, conn, plan, shut, ran>>

\* Late: after the manager turned to all that the client sent.
Close(c) ==
  /\ conn[c] \in {"first", "behind", "served"} /\ shut[c] = "open"
  /\ shut' = [shut EXCEPT ![c] =
       IF fd = c /\ (wire[c] = <<>> \/ reading # "no") THEN "late" ELSE "early"]
  /\ Signal(c)
  /\ UNCHANGED <<machineVars, service, fd, reading, body, backlog, conn, wire, toSend, plan, ran>>

-----------------------------------------------------------------------------
(* The simulation loop and the poll queue.                                   *)

\* doSimLoop: the flag is cleared before the descriptors are polled.
testAndClear ==
  /\ async /\ service = <<>>
  /\ async' = FALSE /\ service' = <<"poll">>
  /\ UNCHANGED <<machineVars, fd, reading, body, clientVars>>

\* Mutant: the listener is not polled while there is a connection.
Ready_OneAtATime(d) ==
  \/ d = "listener" /\ backlog # <<>> /\ fd = None
  \/ d = "data" /\ fd # None /\ (wire[fd] # <<>> \/ shut[fd] # "open")

Ready(d) ==
  \/ d = "listener" /\ backlog # <<>>
  \/ d = "data" /\ fd # None /\ (wire[fd] # <<>> \/ shut[fd] # "open")

poll ==
  /\ service = <<"poll">>
  /\ service' = (IF Ready("listener") THEN <<"listener">> ELSE <<>>)
                \o (IF Ready("data") THEN <<"data">> ELSE <<>>)
  /\ UNCHANGED <<machineVars, async, fd, reading, body, clientVars>>

\* Mutant: what arrived before the descriptor could signal is not looked for.
accept_Unpolled ==
  /\ service # <<>> /\ Head(service) = "listener"
  /\ backlog' = Tail(backlog) /\ service' = Tail(service)
  /\ LET c == Head(backlog) IN
     IF fd # None THEN conn' = [conn EXCEPT ![c] = "refused"] /\ UNCHANGED fd
     ELSE conn' = [conn EXCEPT ![c] = "served"] /\ fd' = c
  /\ UNCHANGED <<machineVars, async, reading, body, wire, toSend, plan, shut, ran>>

\* PARDg5VGlobalManagerListener::accept.  To attach schedules an event in the
\* poll queue: what this poll found is forgotten, and the flag is set.
accept ==
  /\ service # <<>> /\ Head(service) = "listener"
  /\ backlog' = Tail(backlog)
  /\ LET c == Head(backlog) IN
     IF fd # None
       THEN /\ conn' = [conn EXCEPT ![c] = "refused"] /\ service' = Tail(service)
            /\ UNCHANGED <<fd, async>>
       ELSE /\ conn' = [conn EXCEPT ![c] = "served"] /\ service' = <<>>
            /\ fd' = c /\ async' = TRUE
  /\ UNCHANGED <<machineVars, reading, body, wire, toSend, plan, shut, ran>>

process ==
  /\ service = <<"data">> /\ reading = "no"
  /\ reading' = "find"
  /\ UNCHANGED <<machineVars, async, service, fd, body, clientVars>>

-----------------------------------------------------------------------------
(* PARDg5VGlobalManager::recv, one byte at a time, and what process does     *)
(* with a packet.                                                            *)

\* getbyte blocks until there is a byte, or the client has closed its end.
getbyte(b) ==
  /\ reading # "no"
  /\ \/ wire[fd] # <<>> /\ b = Head(wire[fd]) /\ wire' = [wire EXCEPT ![fd] = Tail(@)]
     \/ wire[fd] = <<>> /\ shut[fd] # "open" /\ b = EOF /\ UNCHANGED wire

Return == reading' = "no" /\ body' = <<>> /\ service' = Tail(service)

detach ==
  /\ Return
  /\ fd' = None /\ conn' = [conn EXCEPT ![fd] = "detached"]

Execute(m) ==
  \/ m.op = "create" /\ createLDom /\ UNCHANGED planeVars
  \/ m.op = "startup" /\ startupLDomVM(m.id) /\ UNCHANGED planeVars
  \/ m.op = "shutdown" /\ shutdownLDomVM(m.id) /\ UNCHANGED planeVars
  \/ m.op = "set" /\ setResource(m.arg[1], m.id, m.arg[2], m.arg[3]) /\ UNCHANGED processorVars
  \/ m.op \in {"other", "long"} /\ UNCHANGED machineVars

\* Mutant: the end of the connection ends the call, not the connection.
findStart_Attached(b) ==
  /\ reading = "find" /\ getbyte(b)
  /\ IF b = EOF THEN Return
     ELSE reading' = (IF b = GMStart THEN "body" ELSE "find") /\ UNCHANGED <<body, service>>
  /\ UNCHANGED <<machineVars, async, fd, conn, backlog, toSend, plan, shut, ran>>

findStart(b) ==
  /\ reading = "find" /\ getbyte(b)
  /\ IF b = EOF THEN detach
     ELSE /\ reading' = IF b = GMStart THEN "body" ELSE "find"
          /\ UNCHANGED <<body, service, fd, conn>>
  /\ UNCHANGED <<machineVars, async, backlog, toSend, plan, shut, ran>>

\* Mutant: the end of the connection is taken for the end of the packet.
goodPacket_Truncated ==
  /\ reading = "body" /\ (getbyte(GMEnd) \/ getbyte(EOF)) /\ body # <<>> /\ Len(body) < MaxLen
  /\ Execute(Head(body)) /\ ran' = [ran EXCEPT ![fd] = Append(@, body)]
  /\ Return
  /\ UNCHANGED <<async, fd, backlog, conn, toSend, plan, shut>>

\* The end of a packet that fits: its command is executed.
goodPacket ==
  /\ reading = "body" /\ getbyte(GMEnd) /\ Len(body) < MaxLen
  /\ Execute(Head(body)) /\ ran' = [ran EXCEPT ![fd] = Append(@, body)]
  /\ Return
  /\ UNCHANGED <<async, fd, backlog, conn, toSend, plan, shut>>

\* The end of one that does not, or no room for more of it: the next start.
badPacket(b) ==
  /\ reading = "body" /\ getbyte(b) /\ Len(body) = MaxLen
  /\ reading' = "find" /\ body' = <<>>
  /\ UNCHANGED <<machineVars, async, service, fd, backlog, conn, toSend, plan, shut, ran>>

inBody(b) ==
  /\ reading = "body" /\ b # GMEnd /\ getbyte(b) /\ Len(body) < MaxLen
  /\ body' = Append(body, b)
  /\ UNCHANGED <<machineVars, async, service, fd, reading, backlog, conn, toSend, plan, shut, ran>>

-----------------------------------------------------------------------------
(* An event of the simulation, between two rounds of the loop: an LDom's     *)
(* processor, an interrupt, or a step of a writer's processor.               *)
serviceOne ==
  /\ service = <<>>
  /\ \/ /\ \E p \in Processor : wakeup(p) \/ \E insn \in plan.insns : tick(p, insn)
        /\ UNCHANGED planeVars
     \/ /\ \E w \in Writer : Access(w) \/ \E o \in plan.ops : Begin(w, o)
        /\ UNCHANGED processorVars
  /\ UNCHANGED <<managerVars, clientVars>>

clientStep(c) == (\E n \in 1..MaxLen + 3 : Send(c, n)) \/ Close(c)

recv == goodPacket \/ \E b \in Byte : findStart(b) \/ inBody(b) \/ badPacket(b)

loop == testAndClear \/ poll \/ accept \/ process \/ recv

Next ==
  /\ ~aborted
  /\ \/ \E c \in Client : Connect(c) \/ clientStep(c)
     \/ loop \/ serviceOne

\* The loop goes on, between events that are over, and a client that has
\* connected sends its packet or gives up.
Spec == Init /\ [][Next]_vars /\ WF_vars(~aborted /\ loop)
             /\ \A c \in Client : WF_vars(~aborted /\ clientStep(c))

-----------------------------------------------------------------------------
(* Properties.                                                               *)
Sound(m) == m.op \notin {"long", "none"}

\* What is executed for a client is the packet it sent, whole, and once: a
\* packet that the end of the connection cuts short, or that does not fit,
\* is never executed, and nothing is executed twice.
WholeCommands ==
  \A c \in Client : ran[c] # <<>> =>
     Sound(plan.asks[c]) /\ toSend[c] = <<>> /\ ran[c] = << <<plan.asks[c]>> >>

\* The command of a client that was accepted and has sent its packet is
\* executed, also when it was sent before the connection was accepted and the
\* host's signal for it is not seen.
Served ==
  \A c \in Client : (conn[c] = "served" /\ toSend[c] = <<>> /\ Sound(plan.asks[c]))
                      ~> (ran[c] # <<>> \/ aborted)

\* A client that connects while no other waits is accepted or refused.  (Those
\* behind it may wait for the next signal.)
FirstHeard == \A c \in Client : conn[c] = "first" ~> (conn[c] # "first" \/ aborted)

\* When a client closes its end after the manager turned to what it sent, the
\* manager detaches, and can accept another.  (If it closes before that, the
\* manager stays attached until something else signals.)
Released == \A c \in Client : shut[c] = "late" ~> (conn[c] = "detached" \/ aborted)
=============================================================================
