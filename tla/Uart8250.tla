------------------------------ MODULE Uart8250 ------------------------------
(***************************************************************************)
(* The serial ports of the LDoms (hyper/dev/uart8250p5v.cc), one per LDom,  *)
(* with the receive buffer of the terminal behind each.                     *)
(*                                                                         *)
(* The bits of IER, of status and of the two interrupt events are the same: *)
(* "RX" (RDI, RX_INT) and "TX" (THRI, TX_INT).  Bytes are counted, not told *)
(* apart.  Time is kept as what the code asks of it: which events are       *)
(* scheduled and whether the last interrupt is recent, that is, at most the *)
(* 225 ns of the code away.  Events that are due fire in any order.         *)
(*                                                                         *)
(* A handler that may interrupt has a parameter, post: whether it does.     *)
(***************************************************************************)
EXTENDS Integers, LDoms

CONSTANT BufLen   \* size of the terminal's receive buffer, in bytes

VARIABLES IER, LCR, status, scheduled, recent, rxbuf

uartVars == <<IER, LCR, status, scheduled, recent, rxbuf>>

ASSUME UartAssumption == BufLen \in Nat \ {0}

Bit == {"RX", "TX"}

\* One TypeOK for the ports: LCR is its divisor latch bit.
UartTypeOK ==
  /\ IER \in [Guest -> SUBSET Bit] /\ LCR \in [Guest -> BOOLEAN]
  /\ status \in [Guest -> SUBSET Bit] /\ scheduled \in [Guest -> SUBSET Bit]
  /\ recent \in [Guest -> BOOLEAN] /\ rxbuf \in [Guest -> 0..BufLen]

\* lastTxInt and the clock are both 0 at first.
UartInit ==
  /\ IER = [g \in Guest |-> {}] /\ LCR = [g \in Guest |-> FALSE]
  /\ status = [g \in Guest |-> {}] /\ scheduled = [g \in Guest |-> {}]
  /\ recent = [g \in Guest |-> TRUE] /\ rxbuf = [g \in Guest |-> 0]

-----------------------------------------------------------------------------
\* Reading the receive buffer register, empty or not.
readRBR(g) ==
  /\ IF LCR[g]
       THEN UNCHANGED <<rxbuf, status, scheduled>>
       ELSE /\ rxbuf' = [rxbuf EXCEPT ![g] = IF @ > 0 THEN @ - 1 ELSE 0]
            /\ status' = [status EXCEPT ![g] = @ \ {"RX"}]
            /\ scheduled' = [scheduled EXCEPT ![g] =
                 IF rxbuf'[g] > 0 /\ "RX" \in IER[g] THEN @ \cup {"RX"} ELSE @]
  /\ UNCHANGED <<IER, LCR, recent>>

\* Reading the interrupt identification register: id is what it says.
readIIR(g, id) ==
  /\ id = CASE "RX" \in status[g] -> "RX"
            [] status[g] = {"TX"} -> "TX"
            [] OTHER -> "NOPEND"
  /\ status' = [status EXCEPT ![g] = IF id = "TX" THEN {} ELSE @]
  /\ UNCHANGED <<IER, LCR, scheduled, recent, rxbuf>>

\* Reading the line status register: the transmitter is always empty.
readLSR(g, dr) == dr = (rxbuf[g] > 0) /\ UNCHANGED uartVars

\* Mutant: the next transmit interrupt is not scheduled.
writeTHR_Unscheduled(g) ==
  /\ status' = [status EXCEPT ![g] = IF LCR[g] THEN @ ELSE @ \ {"TX"}]
  /\ UNCHANGED <<IER, LCR, recent, rxbuf, scheduled>>

\* Writing a byte to send.
writeTHR(g) ==
  /\ status' = [status EXCEPT ![g] = IF LCR[g] THEN @ ELSE @ \ {"TX"}]
  /\ scheduled' = [scheduled EXCEPT ![g] =
       IF ~LCR[g] /\ "TX" \in IER[g] THEN @ \cup {"TX"} ELSE @]
  /\ UNCHANGED <<IER, LCR, recent, rxbuf>>

\* Mutant: bytes that are there when the interrupt is enabled are overlooked.
writeIER_Edge(g, v, post) ==
  LET late == IF "TX" \in v /\ recent[g] THEN {"TX"} ELSE {} IN
  /\ post = (~LCR[g] /\ "TX" \in v /\ ~recent[g])
  /\ IF LCR[g]
       THEN UNCHANGED <<IER, status, scheduled, recent>>
       ELSE /\ IER' = [IER EXCEPT ![g] = v]
            /\ scheduled' = [scheduled EXCEPT ![g] = (@ \cap v) \cup late]
            /\ status' = [status EXCEPT ![g] = (@ \cap v) \cup IF post THEN {"TX"} ELSE {}]
            /\ recent' = [recent EXCEPT ![g] = @ \/ post]
  /\ UNCHANGED <<LCR, rxbuf>>

\* Writing the interrupt enable register.  A transmit interrupt comes at once,
\* or later if the last interrupt is recent.
writeIER(g, v, post) ==
  LET rx == "RX" \in v /\ rxbuf[g] > 0
      off == (Bit \ v) \cup IF rx THEN {} ELSE {"RX"}
      late == (IF "TX" \in v /\ recent[g] THEN {"TX"} ELSE {})
              \cup (IF rx THEN {"RX"} ELSE {}) IN
  /\ post = (~LCR[g] /\ "TX" \in v /\ ~recent[g])
  /\ IF LCR[g]
       THEN UNCHANGED <<IER, status, scheduled, recent>>
       ELSE /\ IER' = [IER EXCEPT ![g] = v]
            /\ scheduled' = [scheduled EXCEPT ![g] = (@ \ off) \cup late]
            /\ status' = [status EXCEPT ![g] = (@ \ off) \cup IF post THEN {"TX"} ELSE {}]
            /\ recent' = [recent EXCEPT ![g] = @ \/ post]
  /\ UNCHANGED <<LCR, rxbuf>>

writeLCR(g, latch) ==
  /\ LCR' = [LCR EXCEPT ![g] = latch]
  /\ UNCHANGED <<IER, status, scheduled, recent, rxbuf>>

-----------------------------------------------------------------------------
\* Terminal::data with n bytes from the host, and dataAvailable; the buffer
\* drops its oldest bytes when it is full.
dataAvailable(g, n, post) ==
  /\ rxbuf' = [rxbuf EXCEPT ![g] = IF @ + n > BufLen THEN BufLen ELSE @ + n]
  /\ post = ("RX" \in IER[g])
  /\ status' = [status EXCEPT ![g] = IF post THEN @ \cup {"RX"} ELSE @]
  /\ UNCHANGED <<IER, LCR, scheduled, recent>>

\* IntrEvent::process.
process(g, e, post) ==
  /\ e \in scheduled[g]
  /\ scheduled' = [scheduled EXCEPT ![g] = @ \ {e}]
  /\ post = (e \in IER[g])
  /\ status' = [status EXCEPT ![g] = IF post THEN @ \cup {e} ELSE @]
  /\ recent' = [recent EXCEPT ![g] = @ \/ post]
  /\ UNCHANGED <<IER, LCR, rxbuf>>

\* 225 ns pass without an interrupt.
Quiet(g) ==
  /\ recent[g]
  /\ recent' = [recent EXCEPT ![g] = FALSE]
  /\ UNCHANGED <<IER, LCR, status, scheduled, rxbuf>>

\* The simulator restarts from a checkpoint, which has neither the bytes of
\* the terminals nor the time of the last interrupt.
unserialize ==
  /\ rxbuf' = [g \in Guest |-> 0] /\ recent' = [g \in Guest |-> FALSE]
  /\ UNCHANGED <<IER, LCR, status, scheduled>>

UartNext ==
  \/ \E g \in Guest :
       \/ readRBR(g) \/ \E id \in Bit \cup {"NOPEND"} : readIIR(g, id)
       \/ writeTHR(g) \/ \E latch \in BOOLEAN : writeLCR(g, latch)
       \/ \E v \in SUBSET Bit, post \in BOOLEAN : writeIER(g, v, post)
       \/ \E n \in 1..BufLen, post \in BOOLEAN : dataAvailable(g, n, post)
       \/ \E e \in Bit, post \in BOOLEAN : process(g, e, post)
       \/ Quiet(g)
  \/ unserialize

(* The discipline: software may access any register at any time.             *)
UartSpec == UartInit /\ [][UartNext]_uartVars

-----------------------------------------------------------------------------
(* Whatever software does to the registers and whenever bytes arrive, bytes  *)
(* that wait are noticed: their interrupt is raised or will be (read, write, *)
(* dataAvailable).                                                           *)
InputNoticed == \A g \in Guest :
  rxbuf[g] > 0 /\ "RX" \in IER[g] => "RX" \in status[g] \cup scheduled[g]

(* An interrupt that software disabled is neither raised nor scheduled: the  *)
(* branch of IntrEvent::process that does not interrupt is never taken.      *)
OnlyEnabled == \A g \in Guest : status[g] \cup scheduled[g] \subseteq IER[g]
=============================================================================
