----------------------------- MODULE UartDriver -----------------------------
(***************************************************************************)
(* The UART driver of components/uart_driver: init and sendData, above the *)
(* transmit half of the UART (ESP-IDF's uart_write_bytes with no transmit  *)
(* ring buffer, the hardware FIFO, the shift register).                    *)
(*                                                                         *)
(* One task calls the driver at a time: app_main until it has created the  *)
(* Zigbee task, the Zigbee task from then on.  A byte is <<f, i>>, the     *)
(* i-th byte of frame f; what the bytes mean does not matter here.         *)
(***************************************************************************)
EXTENDS Naturals, Integers, Sequences

CONSTANTS
  Frame,     \* the payloads sendData is called with
  Size,      \* Size[f]: the length argument that goes with payload f
  FifoLen,   \* SOC_UART_FIFO_LEN: 128 on the ESP32-C6 (sdkconfig:286)
  InitArgs,  \* what init is called with: [cts, rts: Int, hwFlow: BOOLEAN]
  MaxSends,  \* bound: calls of sendData
  MaxResets  \* bound: restarts of the controller

ASSUME SizeAssumption == Size \in [Frame -> Nat \ {0}]
ASSUME FifoAssumption == FifoLen \in Nat \ {0}
ASSUME InitArgsAssumption ==
  InitArgs \subseteq [cts : Int, rts : Int, hwFlow : BOOLEAN]

VARIABLES
  up,         \* init has been called since the last restart
  installed,  \* uart_is_driver_installed
  hwFlow,     \* the UART waits for CTS before it shifts a byte out
  flowPins,   \* CTS and RTS are routed to GPIO 10 and 11
  ctsHigh,    \* the level of GPIO 10, to which nothing is connected
  call,       \* where sendData is: "idle", or "writing" in uart_write_bytes
  ret,        \* what the last call returned
  pending,    \* the bytes uart_write_bytes has not put into the FIFO yet
  fifo,       \* the transmit FIFO
  wire,       \* history: the bytes shifted out to the lock
  accepted,   \* history: the bytes of the frames uart_write_bytes took on,
              \*   without what a restart cut off
  cuts,       \* history: the lengths the wire had at the restarts
  sends,      \* calls of sendData so far
  resets      \* restarts so far

lineVars    == <<installed, hwFlow, flowPins>>
callVars    == <<call, ret, pending>>
historyVars == <<accepted, cuts, sends, resets>>
uartVars    == <<up, lineVars, ctsHigh, callVars, fifo, wire, historyVars>>

Byte == Frame \X Nat

FrameBytes(f) == [i \in 1 .. Size[f] |-> <<f, i>>]

UartInit ==
  /\ up = FALSE /\ installed = FALSE /\ hwFlow = FALSE /\ flowPins = FALSE
  /\ ctsHigh \in BOOLEAN
  /\ call = "idle" /\ ret = "none"
  /\ pending = <<>> /\ fifo = <<>> /\ wire = <<>>
  /\ accepted = <<>> /\ cuts = {} /\ sends = 0 /\ resets = 0

-----------------------------------------------------------------------------
(***************************************************************************)
(* Faulty variants of operations defined below, each a bug the properties  *)
(* at the end of the module are there to catch.                            *)
(***************************************************************************)

\* init turns hardware flow control on.
InitDriver_FlowOn(a) ==
  /\ ~up /\ call = "idle"
  /\ up' = TRUE /\ hwFlow' \in {TRUE, hwFlow} /\ flowPins' \in {TRUE, flowPins}
  /\ \/ installed' = TRUE  /\ ret' = "OK"
     \/ installed' = FALSE /\ ret' = "FAIL"
  /\ UNCHANGED <<ctsHigh, call, pending, fifo, wire, historyVars>>

\* A failed write is taken for success.
SendFails_Masked == ret' = "OK" /\ UNCHANGED <<call, pending, accepted>>

\* A second task does not wait for the first one's write.
SendData_Reentrant(f) ==
  /\ sends < MaxSends /\ sends' = sends + 1
  /\ installed /\ call' = "writing"
  /\ pending' = FrameBytes(f)
  /\ accepted' = SubSeq(accepted, 1, Len(accepted) - Len(pending))
                   \o FrameBytes(f)
  /\ UNCHANGED <<up, lineVars, ctsHigh, ret, fifo, wire, cuts, resets>>

\* The FIFO is filled from the wrong end of the frame.
PutByte_Last ==
  /\ call = "writing" /\ pending /= <<>> /\ Len(fifo) < FifoLen
  /\ fifo' = Append(fifo, pending[Len(pending)])
  /\ pending' = SubSeq(pending, 1, Len(pending) - 1)
  /\ UNCHANGED <<up, lineVars, ctsHigh, call, ret, wire, historyVars>>

\* A write stops when the FIFO is full, its short count taken for success.
WriteDone_Short ==
  /\ call = "writing" /\ (pending = <<>> \/ Len(fifo) = FifoLen)
  /\ call' = "idle" /\ ret' = "OK" /\ pending' = <<>>
  /\ UNCHANGED <<up, lineVars, ctsHigh, fifo, wire, historyVars>>

\* A transmit ring buffer: the write returns with bytes not in the FIFO yet.
WriteDone_Ring ==
  /\ call = "writing"
  /\ call' = "idle" /\ ret' = "OK"
  /\ UNCHANGED <<up, lineVars, ctsHigh, pending, fifo, wire, historyVars>>

\* The byte count is returned in place of ESP_OK.
WriteDone_Count ==
  /\ call = "writing" /\ pending = <<>>
  /\ call' = "idle" /\ ret' = "COUNT"
  /\ UNCHANGED <<up, lineVars, ctsHigh, pending, fifo, wire, historyVars>>

\* A restart leaves the FIFO alone, and the shift register goes on with it.
Reset_KeepsFifo ==
  /\ resets < MaxResets
  /\ resets' = resets + 1
  /\ up' = FALSE /\ installed' = FALSE /\ hwFlow' = FALSE /\ flowPins' = FALSE
  /\ call' = "idle" /\ ret' = "none" /\ pending' = <<>>
  /\ accepted' = wire \o fifo /\ cuts' = cuts \cup {Len(wire) + Len(fifo)}
  /\ UNCHANGED <<ctsHigh, fifo, wire, sends>>

-----------------------------------------------------------------------------
\* A pin argument is an int at the call and a uint8_t in init.
UART_PIN_NO_CHANGE == -1
Uint8(n) == n % 256

\* The test of init that leaves CTS and RTS alone: the uint8_t is promoted to
\* int and compared with -1.
PinsUnchanged(a) == /\ Uint8(a.cts) = UART_PIN_NO_CHANGE
                    /\ Uint8(a.rts) = UART_PIN_NO_CHANGE

\* init: each of the three ESP-IDF calls may fail, none of them stops init,
\* and only the result of uart_driver_install is returned.
InitDriver(a) ==
  /\ ~up /\ call = "idle"
  /\ up' = TRUE
  /\ hwFlow' \in {a.hwFlow, hwFlow}                    \* uart_param_config
  /\ flowPins' \in {~PinsUnchanged(a), flowPins}       \* uart_set_pin
  /\ \/ installed' = TRUE  /\ ret' = "OK"              \* uart_driver_install
     \/ installed' = FALSE /\ ret' = "FAIL"
  /\ UNCHANGED <<ctsHigh, call, pending, fifo, wire, historyVars>>

\* sendData returns ESP_FAIL at once: no driver, or uart_write_bytes < 0.
SendFails == ret' = "FAIL" /\ UNCHANGED <<call, pending, accepted>>

\* uart_write_bytes takes the whole frame on and blocks.
WriteStarts(f) == /\ installed
                  /\ call' = "writing"
                  /\ pending' = FrameBytes(f)
                  /\ accepted' = accepted \o FrameBytes(f)
                  /\ UNCHANGED ret

SendData(f) ==
  /\ call = "idle" /\ sends < MaxSends
  /\ sends' = sends + 1
  /\ SendFails \/ WriteStarts(f)
  /\ UNCHANGED <<up, lineVars, ctsHigh, fifo, wire, cuts, resets>>

\* uart_write_bytes puts the next byte into the FIFO when there is room.
PutByte ==
  /\ call = "writing" /\ pending /= <<>> /\ Len(fifo) < FifoLen
  /\ fifo' = Append(fifo, Head(pending))
  /\ pending' = Tail(pending)
  /\ UNCHANGED <<up, lineVars, ctsHigh, call, ret, wire, historyVars>>

\* uart_write_bytes returns when the last byte is in the FIFO.
WriteDone ==
  /\ call = "writing" /\ pending = <<>>
  /\ call' = "idle" /\ ret' = "OK"
  /\ UNCHANGED <<up, lineVars, ctsHigh, pending, fifo, wire, historyVars>>

-----------------------------------------------------------------------------
\* The hardware side: the shift register, the CTS input and a restart.

HeldByCts == hwFlow /\ flowPins /\ ctsHigh

ShiftOut ==
  /\ fifo /= <<>> /\ ~HeldByCts
  /\ wire' = Append(wire, Head(fifo))
  /\ fifo' = Tail(fifo)
  /\ UNCHANGED <<up, lineVars, ctsHigh, callVars, historyVars>>

FloatingPin ==
  /\ ctsHigh' = ~ctsHigh
  /\ UNCHANGED <<up, lineVars, callVars, fifo, wire, historyVars>>

\* Power loss, watchdog or panic: everything but the histories is volatile.
Reset ==
  /\ resets < MaxResets
  /\ resets' = resets + 1
  /\ up' = FALSE /\ installed' = FALSE /\ hwFlow' = FALSE /\ flowPins' = FALSE
  /\ call' = "idle" /\ ret' = "none"
  /\ pending' = <<>> /\ fifo' = <<>>
  /\ accepted' = wire /\ cuts' = cuts \cup {Len(wire)}
  /\ UNCHANGED <<ctsHigh, wire, sends>>

-----------------------------------------------------------------------------
UartNext ==
  \/ \E a \in InitArgs : InitDriver(a)
  \/ \E f \in Frame : SendData(f)
  \/ PutByte \/ WriteDone \/ ShiftOut \/ FloatingPin \/ Reset

\* The transmit interrupt feeds the FIFO, the driver's loop goes on and the
\* shift register runs by itself; nothing makes a caller call.
UartFairness == /\ WF_uartVars(PutByte)
                /\ WF_uartVars(WriteDone)
                /\ WF_uartVars(ShiftOut)

UartSpec == UartInit /\ [][UartNext]_uartVars /\ UartFairness

-----------------------------------------------------------------------------
(***************************************************************************)
(* Properties                                                              *)
(***************************************************************************)

\* Every variable has its type.
TypeOK ==
  /\ up \in BOOLEAN /\ installed \in BOOLEAN
  /\ hwFlow \in BOOLEAN /\ flowPins \in BOOLEAN /\ ctsHigh \in BOOLEAN
  /\ call \in {"idle", "writing"} /\ ret \in {"none", "OK", "FAIL"}
  /\ pending \in Seq(Byte) /\ fifo \in Seq(Byte)
  /\ wire \in Seq(Byte) /\ accepted \in Seq(Byte)
  /\ cuts \in SUBSET Nat /\ sends \in Nat /\ resets \in Nat

\* What sendData took on is, in this order, on the wire, in the FIFO or still
\* with the blocked caller: no byte is lost, repeated or overtaken between
\* uart_write_bytes and the lock, whatever the room in the FIFO.
StreamIntegrity == wire \o fifo \o pending = accepted

FirstByte(b) == b[2] = 1
LastByte(b)  == b[2] = Size[b[1]]
NextByte(b, c) == c[1] = b[1] /\ c[2] = b[2] + 1

\* The wire carries whole frames back to back: a frame starts only after the
\* last byte of the one before it, or where a restart cut that one off.  (A
\* frame torn in the middle would make the lock misread the next command.)
FramesWhole ==
  /\ wire /= <<>> => FirstByte(wire[1])
  /\ \A i \in 1 .. Len(wire) - 1 :
       \/ NextByte(wire[i], wire[i + 1])
       \/ FirstByte(wire[i + 1]) /\ (LastByte(wire[i]) \/ i \in cuts)

\* When sendData has returned, at most a FIFO of bytes is still to be sent:
\* the 50 ms pause of Lock::turnOffAutomaticLatch counts on it.
BacklogBounded == call = "idle" => Len(accepted) - Len(wire) <= FifoLen

\* sendData never blocks its caller for good, not even with CTS and RTS
\* routed to unconnected pins: the FIFO always drains.
SendReturns == call = "writing" ~> call = "idle"

\* The inductive invariant behind StreamIntegrity, FramesWhole and
\* BacklogBounded.  FramesWhole is not inductive: what it says of the wire must
\* hold of everything accepted, and a frame may be appended to that only because
\* what is there ends with a last byte, or where a restart cut it.
AcceptedFramed ==
  /\ accepted /= <<>> => FirstByte(accepted[1])
  /\ \A i \in 1 .. Len(accepted) - 1 :
       \/ NextByte(accepted[i], accepted[i + 1])
       \/ FirstByte(accepted[i + 1]) /\ (LastByte(accepted[i]) \/ i \in cuts)
AcceptedEndsFrame ==
  accepted /= <<>> => \/ LastByte(accepted[Len(accepted)])
                      \/ Len(accepted) \in cuts
IdleHasWritten == call = "idle" => pending = <<>>
FifoBounded == Len(fifo) <= FifoLen
UartInv == /\ TypeOK /\ StreamIntegrity
           /\ AcceptedFramed /\ AcceptedEndsFrame
           /\ IdleHasWritten /\ FifoBounded

Link == INSTANCE ByteLink WITH sent <- accepted, got <- wire

\* The driver is a byte link: nothing reaches the wire that was not submitted,
\* in order, and whatever was submitted arrives unless a restart cuts it off.
ImplementsByteLink == Link!LinkSpec

=============================================================================
