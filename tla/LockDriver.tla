----------------------------- MODULE LockDriver -----------------------------
(***************************************************************************)
(* The lock driver of components/Lock_Driver above the UART driver: init,  *)
(* setKey, open and turnOffAutomaticLatch.  Each sends one command frame,  *)
(* turnOffAutomaticLatch a wake-up frame, a pause of 50 ms and its command.*)
(*                                                                         *)
(* During the pause time counts: one Tick is the time of one byte on the   *)
(* line.  Everywhere else the UART runs at its own pace.                   *)
(***************************************************************************)
EXTENDS UartDriver

CONSTANTS
  Pins,          \* the <<rxPin, txPin>> init is called with
  TickPeriodMs,  \* portTICK_PERIOD_MS: 10 with FREERTOS_HZ = 100 (sdkconfig:1173)
  TickBytes      \* bytes the line carries in a tick: 115 at 115200 baud 8N1

\* The payloads of the four frames (with their own wake-up in setKey and open).
LockFrames == {"setKey", "open", "wakeup", "disableLatch"}

ASSUME FrameAssumption == Frame = LockFrames
ASSUME PinsAssumption  == Pins \subseteq Nat \X Nat
ASSUME TickAssumption  == TickPeriodMs \in Nat \ {0} /\ TickBytes \in Nat

\* vTaskDelay(50 / portTICK_PERIOD_MS) counts tick interrupts, the first of
\* which may come at once.
DelayTicks == 50 \div TickPeriodMs
PauseBytes == IF DelayTicks = 0 THEN {0}
              ELSE (DelayTicks - 1) * TickBytes .. DelayTicks * TickBytes

\* Even the shortest pause is long enough to empty a full FIFO: 460 byte times
\* against 128 bytes with the values of sdkconfig.
ASSUME PauseAssumption == \A n \in PauseBytes : FifoLen <= n

VARIABLES
  stage,  \* "idle", the frame of the call in progress, or "pause"
  left,   \* how much of the pause is left, in byte times
  result  \* what the last call of the lock driver returned

lockVars == <<stage, left, result>>
vars     == <<uartVars, lockVars>>

LockInit == UartInit /\ stage = "idle" /\ left = 0 /\ result = "none"

-----------------------------------------------------------------------------
(***************************************************************************)
(* Faulty variants of operations defined below.                            *)
(***************************************************************************)

\* Flow control enabled, with CTS and RTS routed all the same.
UartArgs_Flow == [cts |-> UART_PIN_NO_CHANGE, rts |-> UART_PIN_NO_CHANGE,
                  hwFlow |-> TRUE]

\* open writes its payload to the FIFO behind the UART driver's back.
OpenLock_Direct ==
  /\ stage = "idle" /\ Len(fifo) + Size["open"] <= FifoLen
  /\ fifo' = fifo \o FrameBytes("open")
  /\ UNCHANGED <<up, lineVars, ctsHigh, callVars, wire, historyVars, lockVars>>

\* The wake-up is left out.
TurnOffAutomaticLatch_NoWakeup ==
  /\ stage = "idle" /\ sends + 1 < MaxSends
  /\ stage' = "wakeup" /\ UNCHANGED <<uartVars, left, result>>

\* The pause is left out.
StartPause_None ==
  /\ stage = "wakeup" /\ call = "idle"
  /\ stage' = "pause" /\ left' = 0
  /\ UNCHANGED <<uartVars, result>>

\* A wake-up that failed is sent again, until it is taken.
StartPause_Retries ==
  /\ stage = "wakeup" /\ call = "idle"
  /\ IF ret = "FAIL" /\ sends + 1 < MaxSends
     THEN SendData("wakeup") /\ UNCHANGED lockVars
     ELSE stage' = "pause" /\ left' \in PauseBytes /\ UNCHANGED <<uartVars, result>>

\* Time passes two bytes at a time.
Tick_Coarse ==
  /\ stage = "pause" /\ left > 0
  /\ left' = left - 2
  /\ IF fifo /= <<>> /\ ~HeldByCts THEN ShiftOut ELSE UNCHANGED uartVars
  /\ UNCHANGED <<stage, result>>

-----------------------------------------------------------------------------
\* The arguments init passes on: flow control disabled, CTS and RTS not used.
UartArgs == [cts |-> UART_PIN_NO_CHANGE, rts |-> UART_PIN_NO_CHANGE,
             hwFlow |-> FALSE]

ASSUME ArgsAssumption == InitArgs = {UartArgs}

\* init refuses pin 0 before it touches the UART.
InitLock(rxPin, txPin) ==
  /\ stage = "idle" /\ rxPin /= 0 /\ txPin /= 0
  /\ InitDriver(UartArgs)
  /\ result' = ret' /\ UNCHANGED <<stage, left>>

InitRefused(rxPin, txPin) ==
  /\ stage = "idle" /\ ~up /\ (rxPin = 0 \/ txPin = 0)
  /\ result' = "INVALID_ARG"
  /\ UNCHANGED <<uartVars, stage, left>>

\* setKey and open send one frame and return what sendData returns.
SendFrame(f) ==
  /\ stage = "idle"
  /\ SendData(f)
  /\ stage' = f /\ UNCHANGED <<left, result>>

SetKey   == SendFrame("setKey")
OpenLock == SendFrame("open")

\* turnOffAutomaticLatch: the wake-up, ...
TurnOffAutomaticLatch ==
  /\ stage = "idle" /\ sends + 1 < MaxSends
  /\ SendData("wakeup")
  /\ stage' = "wakeup" /\ UNCHANGED <<left, result>>

\* ... whatever its result the pause, ...
StartPause ==
  /\ stage = "wakeup" /\ call = "idle"
  /\ stage' = "pause" /\ left' \in PauseBytes
  /\ UNCHANGED <<uartVars, result>>

Tick ==
  /\ stage = "pause" /\ left > 0
  /\ left' = left - 1
  /\ IF fifo /= <<>> /\ ~HeldByCts THEN ShiftOut ELSE UNCHANGED uartVars
  /\ UNCHANGED <<stage, result>>

\* ... and the command, whose result alone is returned.
DisableLatch ==
  /\ stage = "pause" /\ left = 0
  /\ SendData("disableLatch")
  /\ stage' = "disableLatch" /\ UNCHANGED <<left, result>>

Return ==
  /\ stage \in {"setKey", "open", "disableLatch"} /\ call = "idle"
  /\ stage' = "idle" /\ result' = ret
  /\ UNCHANGED <<uartVars, left>>

Restart == Reset /\ stage' = "idle" /\ left' = 0 /\ result' = "none"

\* The UART by itself; while the pause runs its shift register runs in Tick.
UartRuns ==
  /\ \/ PutByte \/ WriteDone \/ FloatingPin
     \/ stage /= "pause" /\ ShiftOut
  /\ UNCHANGED lockVars

LockNext ==
  \/ \E p \in Pins : InitLock(p[1], p[2]) \/ InitRefused(p[1], p[2])
  \/ SetKey \/ OpenLock \/ TurnOffAutomaticLatch
  \/ StartPause \/ Tick \/ DisableLatch \/ Return
  \/ UartRuns \/ Restart

\* A call, once made, is carried on with by its task; the UART does not stop.
LockFairness ==
  /\ WF_vars(StartPause) /\ WF_vars(Tick) /\ WF_vars(DisableLatch)
  /\ WF_vars(Return)
  /\ WF_vars(PutByte /\ UNCHANGED lockVars)
  /\ WF_vars(WriteDone /\ UNCHANGED lockVars)
  /\ WF_vars(stage /= "pause" /\ ShiftOut /\ UNCHANGED lockVars)

LockSpec == LockInit /\ [][LockNext]_vars /\ LockFairness

-----------------------------------------------------------------------------
(***************************************************************************)
(* Properties                                                              *)
(***************************************************************************)

\* Every variable has its type.
LockTypeOK ==
  /\ TypeOK
  /\ stage \in LockFrames \cup {"idle", "pause"}
  /\ left \in Nat
  /\ result \in {"none", "OK", "FAIL", "INVALID_ARG"}

EndsWith(s, t) ==
  /\ Len(t) <= Len(s)
  /\ SubSeq(s, Len(s) - Len(t) + 1, Len(s)) = t

\* A call returns ESP_OK only when the UART has taken its whole command frame,
\* and nothing after it.
OkMeansSent == [][Return /\ result' = "OK"
                    => EndsWith(accepted, FrameBytes(stage))]_vars

\* Whenever turnOffAutomaticLatch sends its command, the wake-up is right in
\* front of it, unless sendData failed for the wake-up (until the command is
\* written, ret is still the result of the wake-up).
LatchAfterWakeup ==
  stage = "disableLatch" /\ call = "writing" /\ ret = "OK"
    => EndsWith(accepted, FrameBytes("wakeup") \o FrameBytes("disableLatch"))

\* When turnOffAutomaticLatch sends its command the line is silent: the pause
\* separates the wake-up from the command on the wire, not only in the code,
\* however full the FIFO was.
LineSilentBeforeLatch == stage = "pause" /\ left = 0 => wire = accepted

\* The reason: the rest of the pause is always enough for the rest of the FIFO,
\* because flow control is off even though CTS and RTS are routed.
PauseEmptiesFifo == stage = "pause" => call = "idle" /\ Len(fifo) <= left
LockInv == LockTypeOK /\ UartInv /\ PauseEmptiesFifo /\ ~hwFlow

\* Every call of the lock driver returns or the controller restarts: no caller
\* hangs in the middle of turnOffAutomaticLatch or on a full FIFO.
CallsReturn == stage /= "idle" ~> stage = "idle"

\* Whoever is in a call of the lock driver has something to go on with, or the UART
\* has: the task, the pause and the FIFO never wait for each other in a circle, and
\* none of them for the CTS pin to which nothing is connected.
CallNeverStuck ==
  stage /= "idle" =>
    \/ call = "idle" /\ stage /= "pause"
    \/ stage = "pause" /\ (left > 0 \/ (call = "idle" /\ sends < MaxSends))
    \/ call = "writing" /\ (pending = <<>> \/ Len(fifo) < FifoLen)
    \/ stage /= "pause" /\ fifo /= <<>> /\ ~HeldByCts

\* The steps a call may still take: a byte in the caller's hands takes two, one in
\* the FIFO one, a byte time of the pause one.
WriteLeft == 2 * Len(pending) + Len(fifo) + (IF call = "writing" THEN 1 ELSE 0)
LatchWork == 2 * Size["disableLatch"] + 2
AfterWrite == IF stage = "wakeup" THEN DelayTicks * TickBytes + LatchWork + 2
              ELSE IF stage = "pause" THEN left + LatchWork + 1 ELSE 1
WorkLeft == IF stage = "idle" THEN 0 ELSE WriteLeft + AfterWrite

\* Every step of a call, the task's or the UART's, brings its return nearer: no
\* loop waits for another one to be through first, nothing starts over, so that a
\* call is through after WorkLeft steps.
CallAdvances ==
  [][stage /= "idle" /\ ~UNCHANGED <<stage, left, callVars, fifo>>
       => WorkLeft' < WorkLeft]_vars

\* The lock driver uses the UART driver as UartDriver.tla says, one call at a
\* time, and the UART's own progress is not held up by the lock driver.
UsesUartDriver == UartSpec
=============================================================================
