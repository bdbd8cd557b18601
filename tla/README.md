# Smart Lock: specifications, model checking and proofs

TLA+ modules for the firmware of an ESP32-C6 door lock: a Zigbee device that, told so over the network, sends
command frames to the lock's electronics over a UART. The program's own code is small (about 570 lines in
`src/main` and `src/components`); everything else in the repository is vendored (ESP Zigbee SDK, ZBOSS headers)
or generated (`src/build`). What is hard about it is not the size: a blocking driver under a callback-driven
stack, frames cut by restarts, a pause that has to outlast a FIFO, a commissioning chain that lives on retries,
and results that are dropped almost everywhere.

## 1. Inventory

| Component | Code | State | Operations |
|---|---|---|---|
| UART driver | `components/uart_driver/src/uart_driver.cpp` | driver installed, line configuration, transmit FIFO | `init` 12-50, `sendData` 52-70 |
| Lock driver | `components/Lock_Driver/src/Lock_driver.cpp` | the call in progress, the pause in it | `init` 12-39, `setKey` 41-55, `open` 57-70, `turnOffAutomaticLatch` 72-101 |
| Command callbacks | `components/zigbee/src/zigbee.cpp` 22-113 | the command being processed | `attribute_handler`, `action_handler`, `esp_zb_zcl_raw_command_callback`; `sendData` (body commented out) |
| Commissioning | `main/main.cpp` 18-62 | the stack's commissioning machine, queued signals, alarms | `esp_zb_app_signal_handler`, `esp_zb_bdb_start_top_level_commissioning` from an alarm |
| Boot | `main/main.cpp` 10-16, `zigbee.cpp` 115-121, 205-207, 210-222 | which task exists, the calls of the lock still to make | `app_main`, `Zigbee::init`, `rtosTask` |
| Data model registration | `zigbee.cpp` 123-201 | attribute, cluster and endpoint lists | 28 library calls, no result looked at |
| Configuration | `sdkconfig` | constants: FIFO 128 bytes (286), 100 Hz tick (1173), log level INFO (1281) | - |

**Interactions.** `app_main` calls `Zigbee::init`, which initializes the lock driver (and through it the UART
driver), sends the key and switches the automatic latch off; only then does `app_main` create the Zigbee task.
From then on everything runs in that task: the stack's scheduler calls the signal handler, the alarms and the
command callbacks, and the callbacks call the lock driver, which blocks in `uart_write_bytes` or `vTaskDelay`.
So one task at a time uses the lock driver, and what runs concurrently with it is the UART hardware, the network
and the possibility of a restart at any point. The network reaches the task by way of the stack's buffers.

**Hard behaviours and what makes each component correct.**

* *UART driver.* Frames of 16 to 50 bytes meet a FIFO of 128 which the shift register empties while the writer
  blocks on it. Correct: no byte lost, repeated or overtaken; whole frames on the wire except where a restart
  cuts one; the caller never blocks for good, although CTS and RTS are routed to unconnected pins (the test for
  "no change" compares a `uint8_t` with -1); a bounded backlog when a call has returned.
* *Lock driver.* The pause in `turnOffAutomaticLatch` is counted in ticks, not in transmitted bytes, and the
  result of the wake-up is overwritten. Correct: the latch command follows its wake-up on a line that has gone
  silent; a returned ESP_OK means the command was taken by the UART; every call returns.
* *Command callbacks.* One command passes through two callbacks that both open the lock, and the first of them
  reads the cluster id through the wrong type. Correct: each Unlock Door opens the lock, none opens it twice,
  commands with another id do not open it.
* *Commissioning.* A chain of signal, handler, start or alarm, in which every result of a start is dropped.
  Correct: one attempt at a time, no start into a busy stack, no silent end of the chain, a connection in the end.
* *Boot.* Ignored results of the lock driver and of `xTaskCreate`, aborts after the key was sent. Correct: the key
  goes out before any opening; an abort loop repeats the key and nothing else; the lock is opened as often as asked.
* *Data model.* Some thirty calls whose failure nobody sees. Correct: a failing call costs the cluster it was for and no
  other; what is configured is what is registered.

`PROJECT.json` lists the hazards one by one, at their lines, with the properties that cover them.

## 2. Modules

```
ByteLink  <== implemented by ==  UartDriver  <-- extended by --  LockDriver  <-- extended by --  SmartLock
DoorLock  <== implemented by ======================================================================/  |
                                                                     ^---- implemented by =====/    |
                                                                        ZclDispatch  <-- instanced -+
JoinRetry <== implemented by ==  Commissioning
DataModel

Proofs:  UartDriverProofs <- LockDriverProofs <- SmartLockProofs <- OpeningsProofs <- DoorLockProofs
         ZclDispatchProofs,  CommissioningProofs,  DataModelProofs
```

The `MC*` modules give the constants values that a `.cfg` cannot express. SmartLock and Commissioning stay apart:
what they share is the Zigbee task, which both have get back to its loop, and `Reboot` in one is `Crash` in the other.
Some modules hold, before the operations, faulty variants of them: what a plausible slip in the code would make of
the operation. No specification uses them; each property of the runs is violated when its variant takes the
operation's place.

### ByteLink
The promise of the link to the lock: `sent`, `got`, and three steps. `Submit` a whole frame, `Deliver` the next
byte, `Cut` what is still on its way (a restart). `Deliver` is weakly fair.

### UartDriver
A byte is `<<f, i>>`, the i-th byte of frame f: the contents of the frames do not matter to any property, their
boundaries do.

| TLA+ | Code |
|---|---|
| `InitDriver(a)` | `init`: `uart_param_config`, `uart_set_pin` and `uart_driver_install` may each fail, nothing stops init, only the last result is returned |
| `Uint8`, `PinsUnchanged` | the conversion of the pin arguments to `uint8_t` and the comparison with `UART_PIN_NO_CHANGE` |
| `SendData(f)` | the call of `uart_write_bytes`, either failing at once or taking the frame on |
| `PutByte`, `WriteDone` | the loop in `uart_write_bytes` (no transmit ring buffer: `init` passes 0) and its return |
| `ShiftOut`, `FloatingPin` | shift register and the level of the unconnected CTS pin |
| `Reset` | a restart: FIFO and caller are gone, `wire`, `accepted` and `cuts` remember |

### LockDriver
Extends UartDriver, so that a step of the lock driver *is* a step of the UART driver. `stage` says which frame is
being sent or that the pause is on. `turnOffAutomaticLatch` is three actions (`TurnOffAutomaticLatch`,
`StartPause` with its `Tick`s, `DisableLatch`) because the task blocks twice in between. `Return` is the return of
all three operations. Time is counted only in the pause, in byte times of the line; a pause of `DelayTicks`
ticks lasts between `DelayTicks - 1` and `DelayTicks` tick periods, as the first tick may come at once.

`WorkLeft` is what is left of a call: two steps for a byte the caller still holds, one for a byte in the FIFO and for a
byte time of the pause, and the calls of `sendData` still to come. That every step of a call makes it smaller
(`CallAdvances`), and that there always is one (`CallNeverStuck`), is what "every call returns" means without
fairness.

### ZclDispatch
`Arrive` puts any command into the stack's buffer; `Take`, `RawCommandCallback`, `StackProcesses` and
`ActionHandler` are the path of one command through the task. The reading of the header is modelled by what the
cast does: `TailSize` places a parameter in the buffer, `HeaderByte` is the layout of `zb_zcl_parsed_hdr_t`,
`CmdInfoClusterId` is what comes out of reading `zb_zcl_attr_addr_info_t` there: the high byte of the profile id
and the command id, which is 257 (the Door Lock cluster) for profile 0x0104 and command 1.

### Commissioning
One action per case of the signal handler, `AlarmFires` for the callback of the alarm, and the stack: `StackStart`,
`InitFinishes`, `SteeringSucceeds`, `SteeringFails`, `LoseNetwork`, `Reboot`. `Start(mode)` is
`esp_zb_bdb_start_top_level_commissioning`, whose result every caller drops; a busy machine refuses. The handler's
starts are arguments of `ESP_LOGI`; they are executed because the maximum log level is INFO.

### JoinRetry
What a user of the lock sees of commissioning: `down`, `trying`, `on` a network, or `off` (given up until the next
restart). Giving up takes a failed start or a lost network. `Commissioning!Retry` maps the stack's machine, the
queued signals and the alarm to these four phases.

### DoorLock
What whoever stands in front of the door knows of the device: `asked`, `waiting`, `opened`, `failed`, `forgotten`, and
whether it is `booted`. An opening is asked for, waits, and then opens the lock or fails; a restart forgets what waits. It
does not wait for ever, and each of its fates is counted, so that none can stand for another. In `SmartLock!Door` an opening
waits from the callback's call of `Lock::open` until its last byte is shifted out: in `todo`, with the blocked caller, or in
the FIFO (`OnTheirWay`); it has opened the lock when that byte is on the wire. `failed` and `forgotten` are the history
variables of SmartLock: an opening that vanishes anywhere else, in `uart_write_bytes` for one, is no step of DoorLock.

### DataModel
`Program` is the list of the calls of `rtosTask` 136-198 in their order: which object each creates, fills or
updates. `CreateObject`, `AddItem` and `UpdateAttr` are calls that succeed, `CallFails` one that does not; nothing
but the next call follows in any case. A failed create leaves NULL, and calls that are given NULL fail. The registration
of the device (198) ends the list; that of the two handlers (200-201), which cannot fail, is left out.

### SmartLock
The device: LockDriver extended by the tasks, ZclDispatch instanced for the callbacks.

| TLA+ | Code |
|---|---|
| `AppMain` | `app_main` 13 and `Zigbee::init` up to the return of `Lock.init(4, 5)` (216), with the two calls that follow it in `todo` |
| `CallLock` | the next call in `todo`: `setKey` and `turnOffAutomaticLatch` of `Zigbee::init` (217-218), then the openings of callbacks (105). Its result is dropped; `failed` counts the openings whose `sendData` fails in it |
| `CreateTask` | both `ESP_ERROR_CHECK`s pass, then `xTaskCreate`, which may fail unnoticed |
| `StartStack` | `rtosTask` 115-205 (DataModel has the inside of it) |
| `Arrive`, `Loop` | the radio, and `esp_zb_main_loop_iteration`; a callback's calls of the lock go to `todo`, and the loop waits until they have returned |
| `Under(...)` | the steps of LockDriver and UartDriver inside a call |
| `Crash` | power, panic, or an `ESP_ERROR_CHECK` that fails: everything but the flash and the histories is lost; `forgotten` counts the openings that were on their way |

`failed` and `forgotten` are history variables, read by no guard: they tie each excuse for an opening that does not arrive to
the step that is the excuse, its own failing `sendData` (not one of boot's) or the restart that met it on its way (not any
other). `flashOk` is the state of the flash for `nvs_flash_init`: with a bad one the device restarts before each
`CreateTask`, and all the lock hears is its configuration. `TaskWork` is to a command what `WorkLeft` is to a call:
the steps of the loop still to come, with a whole opening for each of them, and what is left of the call in progress.

## 3. Runs

| Run | Instance | Distinct states | Shows |
|---|---|---|---|
| `uart_driver` | frames of 3 and 2 bytes, FIFO of 2, 3 sends, 1 restart | 6,960 | the driver is a byte link; framing; backlog; no caller blocks for good |
| `lock_driver` | frames of 3, 2, 2, 1 bytes, FIFO of 3, 4 sends, 1 restart, a byte per tick | 89,420 | wake-up, silence, command; ESP_OK means taken; no call stuck, each step of it nearer to its return, every call returns; the UART driver is used as specified |
| `zcl_dispatch` | 6 commands, 2 buffered, 3 processed | 17,157 | exactly one opening per Unlock Door, none for ids other than 1 |
| `commissioning` | 1 failing start, 2 lost networks, 2 restarts | 448 | one chain of attempts, unbroken, ending in a connection; implements JoinRetry |
| `smart_lock` | frames of 2, 2, 1, 1 bytes, FIFO of 1, 8 sends, 1 restart, 3 commands, 1 buffered, 2 processed | 1,111,768 | configuration before openings; openings exactly as asked, none without an Unlock Door, and what became of each accounted for; every step of a command nearer to its end |
| `smart_lock_live` | the same with 7 sends, 1 command processed | 150,208 | the task gets back to its loop; an opening gets to the lock, unless its own `sendData` fails or a restart takes it; the lock driver is used as specified, and the device is a DoorLock, fairness included for both |
| `data_model` | 2 calls out of memory, any number that fail because of another | 5,841 | failures stay local |
| `opens_only_for_unlock` | as `zcl_dispatch` | - | **violated**: On of the On/Off cluster opens the lock by way of the raw callback |
| `boolean_write` | as `zcl_dispatch` | - | **violated**: setting the Boolean On/Off attribute is refused as a "Wrong Lock command" |
| `lock_attributes` | as `data_model` | - | **violated**: OpenPeriod is configured in a list that is never registered |
| `identify_time` | as `data_model` | - | **violated**: Identify Time may start at 1024 seconds |

**Bounds.** `uart_driver`: the FIFO is shorter than one frame, so writers block in the middle; three sends
give every pair of neighbouring frames with one more behind; one restart can fall into any of them, before, at or
after the block. `lock_driver`: the FIFO holds the wake-up and what is left of a command sent before, so that the
pause can begin with a full FIFO, and its shortest length (4 byte times) is just above the FIFO, far tighter than
the real 460 against 128; four sends are two latch calls, or one between two others. `zcl_dispatch`: each
command is handled on its own, so three in sequence already exceed what the code can remember; the six commands
are those that share a cluster or an id with Unlock Door, their opposites, and one of a third cluster.
`commissioning`: the number of failed steerings is not bounded at all; the bounded events are the ones that end
the chain, and twice is once more than needed to come back to the same state. `smart_lock`: a boot is three sends, so
eight are a whole boot, a restart and a second one with two openings; key and opening are one byte longer than the
FIFO, so the task blocks in both and a restart can tear both; ticks of 25 ms make the pause two ticks, of which the
shortest outlasts the FIFO of one byte. The properties under fairness have an instance of their own with one command, as the
behaviour graph with two is too large for the liveness checker; a second opening is in `smart_lock`.
`data_model`: two independent failures are a cluster's own and one of the lists it shares with others, or those of
two clusters.
The theorems of section 4 have none of these bounds.

**The line's rate.** `TickBytes` is how many bytes the line carries in a tick at the baud rate `Lock::init` asks for. A
`uart_param_config` that fails (36) is possible in `InitDriver`, but does not change that rate: `LineSilentBeforeLatch` is
about a line that runs at the rate configured.

**Deadlock** is checked where the hardware or the boot keeps the system moving (`uart_driver`, `lock_driver`,
`smart_lock`, `smart_lock_live`), but says little there: `FloatingPin` is a step in nearly every state, and a bound that is
used up does not show. That nobody waits for ever is the business of the properties about progress: `CallNeverStuck`,
`CallAdvances`, `TaskAdvances`, and those under fairness (`SendReturns`, `CallsReturn`, `TaskReturns`,
`OpeningsReachLock`). Deadlock is not checked in `zcl_dispatch`, where the bound on commands ends the run, in
`commissioning`, where a device whose start failed or which lost its network really does nothing more, nor in
`data_model`, where the registration ends.

**Fairness.** UART: weak fairness of the interrupt and loop that feed the FIFO and of the shift register; none
of the callers, of `FloatingPin` or of restarts. Lock driver: in addition the task carries on with a call it has begun
(after a blocking call it becomes ready again, and the tick interrupt keeps coming). SmartLock: the same, and the steps of
the two tasks (`AppMain`, `CallLock`, `CreateTask`, `StartStack`, `Loop`), none of which waits for anything but the
lock driver and the stack; none of `Arrive` and `Crash`. Commissioning: weak fairness of the
Zigbee task's loop, which never returns, and strong fairness of `SteeringSucceeds`: the assumption that a network
is found some day by a device that keeps looking. Without the latter nothing could be promised. JoinRetry: the device does not
stay down, and a device that tries ends up on a network or gives up.

**Findings.** The four violated runs are disagreements between code and documentation met while modelling.
(1) `zigbee.cpp:89` takes the cluster id from the wrong struct, so line 104 is true of every command with id 1
on the profile of this device. (2) `zigbee.cpp:24` wants the attribute's type to be 0 and 0x10 at once, so the
branch that sets the key and opens the lock (27-28) is dead. Each hides the other: an On command opens the lock
once, through (1), and `NeverOpensTwice` would fail if (2) alone were repaired. (3) `zigbee.cpp:187` creates the
Door Lock attributes a second time; the list of lines 175-185, with OpenPeriod, is dropped. (4) `zigbee.cpp:147`
gives a 16-bit attribute the address of an 8-bit variable, and the byte next to it is the high byte of Identify Time.

## 4. Proofs

All theorems hold for every value of the constants that satisfies the named assumptions: any frame and FIFO
length, any set of commands, any number of sends, commands, failures and restarts.

**UART driver.** `FramesWhole` speaks of the wire alone and is not inductive. The invariant `UartInv` says of
*everything accepted* that it is framed (`AcceptedFramed`) and ends with a last byte or at a cut
(`AcceptedEndsFrame`), and ties it to the wire by `StreamIntegrity`: `wire \o fifo \o pending = accepted`. A
frame may be appended because the previous call has emptied `pending` (`IdleHasWritten`), a restart keeps the
invariant because the wire is a prefix of what was accepted and its length is recorded in `cuts`. From
`UartInv` (`Invariance`) follow `Typing`, `Integrity`, `Framing` and `Backlog`; `LinkSafety` maps every step to one of
`ByteLink` or a stutter: the refinement without its fairness. Assumptions: `SizeAssumption` (frames are not
empty), `FifoAssumption`, `InitArgsAssumption`.

**Lock driver.** `LockInvariance` adds to `UartInv` that flow control is off (from `ArgsAssumption`: the only
caller passes `UART_HW_FLOWCTRL_DISABLE`) and that during the pause the rest of the FIFO fits into the rest of the
pause (`PauseEmptiesFifo`). It holds at the start of the pause by `FifoBounded` and `PauseAssumption`, that even
the shortest pause is as long as a full FIFO (460 and 128 with the values of sdkconfig), and each tick takes from
both. With nothing left of the pause, `StreamIntegrity` gives `SilentLine`. `UsesUartSafely` is the
implementation of UartDriver's initial condition and steps.
`LatchFollowsWakeup` and `OkIsSent` need to know where the frame of the call in progress lies: `FramesInv` says that a
call that is writing or has written *ends* what was accepted (`FrameAtEnd`), and that during the pause the wake-up
does (`WakeupAtEnd`), as nobody else can send. `BuildPause` is that the values of sdkconfig satisfy `PauseAssumption`.

*That a call returns* is a liveness property and stays with TLC, but all that is in it except fairness is proved. `NeverStuck`:
whoever is in a call has a step to take, or the UART has. It needs that the FIFO drains, `~hwFlow` of `LockInv`, that a
caller with bytes left meets a FIFO within its bound, and, as the number of sends is bounded in the model, that
`turnOffAutomaticLatch` begins with its second send in hand (`LatchHasSend`). `Advances`: each such step makes `WorkLeft`
smaller (a restart ends the call altogether), and no other step changes it. `CallsBounded`: it begins at no more than `CallBound` of the frame, at
most 2 * Size + FifoLen + 2 for `setKey` and `open`. So a call is through after that many steps, whatever the frame,
the tick and the FIFO, as long as those who have a step to take do take it.

**Command callbacks.** `ZclInv`: the command in progress is the head of the buffer; every call of the lock is an opening
made for a command whose id the raw callback accepts, at most one for each command, and none is missing for those
the raw callback has seen. `RawReads` computes what the misplaced read yields, 1 + 256 * id for every command of the
profile (`CommandAssumption`), so that the condition on the "cluster" is one on the id; `NeverArrives` is that
no attribute passes `attribute_handler`. `EveryUnlockOpensHolds`, `NeverOpensTwiceHolds` and
`OtherIdsNeverOpenHolds` follow.

**Commissioning.** The sum in `SingleChain` is not inductive. `OneLink` says where the one link of the chain is: in
the stack, in an alarm, or in exactly one queued signal; `Unbroken` that there is one unless a start failed, the network was
lost, or the device is on; `OffIsQuiet` what a restart leaves. `CommissioningInv` is these three and the types. From
it follow `SingleChainHolds`, `NeverStrandedHolds` and `NeverStartsWhenBusyHolds`, and `RetrySafety`: every step is a step of
JoinRetry or none.

**Device.** `UsesLockSafely`: every step of SmartLock is one of LockDriver or leaves it alone (`BootPinsAssumption`:
the pins of `Zigbee::init` are among those LockDriver is modelled with), whence `DevicePromises` carries the results about
the drivers over. `BootOrder` says for each place the boot can be at which calls are still to be made and which
frames can have been accepted since the last restart; `CutsOnWire`, that cuts are not ahead of the wire, makes a restart
begin a new such stretch. With them `BootComesFirst` is inductive. `OpensAreAsked` counts: an opening asked for is still in
`todo`, was accepted, or its own `sendData` failed (`CountInv`), and a restart only ever takes openings away.

`AnswersRequests` goes from the UART back to the network. `OpensAsAsked` compares the UART with the callbacks' calls;
`RequestInv` says that each of these calls belongs to a command of its own, that the command has the id of Unlock Door, and that
the command in progress has none yet while the raw callback has not seen it. With a command of its own for each, the map from calls to
commands is injective, so there are no more calls than commands (`OpeningsHaveRequests`); `ActionHandlerSilent`, that the second
callback calls nothing, is what keeps it so.

`CommandAdvances` and `CommandsBounded` do for a command what `Advances` and `CallsBounded` do for a call: it begins with
`3 * (OpenWork + 1)` steps before it, and every step the task takes for it leaves less, as an opening takes less than `OpenWork`
steps (`OpenWorkBound`).

**Door lock.** `IsDoorLock` maps every step of the device to one of DoorLock or to none. Openings are counted by where they
are (`Times`, with a lemma for each way a sequence changes). A callback's `Loop` step is `Ask` (`LoopDoor`: at most one
opening for each); a `CallLock` whose `sendData` fails is `Fail` and the only step that is, one that succeeds moves an opening from `todo` to the
caller's bytes, where it counts once, by its last byte (`TimesFrame`); `PutByte` moves it to the FIFO, `ShiftOut` to the wire,
which is `Open`. An `Open` needs a device that has booted: what is in the FIFO was accepted since the last restart
(`CutsOnWire`), and by `BootOrder` no opening was before boot was through (`OpeningsOnlyBooted`). `OpeningsAreAccountedFor`
is the invariant DoorLock has by itself, carried back: openings asked for are those on the wire, on their way, failed and
forgotten, no more and no fewer. `OpensAsAsked` compares requests with what the UART took on, `OpeningsAccounted` with what came out
of it.

**Data model.** `SuccessesLast`: what a successful call has put into an object stays there. It is inductive because no
object is created once something was put into it (`CreatedFirst`, read off the list of calls), and because later calls
only add. At the end of the list it gives `FailuresStayLocalHolds` for any number of failures.

**Only model-checked.** Everything under fairness (`SendReturns`, `CallsReturn`, `EventuallyConnected`, `TaskReturns`,
`OpeningsReachLock`, the fairness of the refinements `ImplementsByteLink`, `UsesUartDriver`, `UsesLockDriver`,
`ImplementsJoinRetry` and `ImplementsDoorLock`), which is out of the prover's reach: `CallsReturn` and `TaskReturns` would follow
from the theorems above by induction over `WorkLeft` and `TaskWork`, which takes both ENABLED and an induction theorem
with an operator for parameter. Every invariant and every action property of a passing run is proved, and so is the safety part
of every refinement.

Two arguments of the code carry the proofs about the UART: with flow control on, the floating CTS pin would hold the
FIFO through the pause, and with the transmit ring buffer whose size `init` is given (and ignores) `BacklogBounded` would be
lost.

## 5. Not modelled

* The receive side of the UART: the ring buffer is installed and no code reads it.
* `Zigbee::start_high_level_commissioning` (no caller) and `Zigbee::sendData` (empty).
* The contents of frames, the wording of logs, the memory the stack and the tasks take.
* The vendored libraries. Of them the repository has headers (about 110,000 lines: declarations and constants), not the
  code; what the device relies on is in the modules, marked external in the map. The device's own code, about
  570 lines with comments and includes, is modelled as far as it has behaviour, so that the map covers most of it and a
  very small share of the repository.
* `sdkconfig` and the build tree: their values appear as constants, with assumptions that the proofs name.

## 6. Plan

Done: ByteLink, UartDriver, LockDriver, ZclDispatch, Commissioning, JoinRetry, DataModel, SmartLock, DoorLock, proofs of every
safety property that the passing runs check and of the steps of every refinement.

Left, in order of worth:

1. `SendReturns` and `EventuallyConnected` without their fairness, the way `Advances` and `CommandAdvances` are `CallsReturn` and
   `TaskReturns` without theirs: the bound on what a send has left, and a state of the chain that is never without a step.
2. Duplicates of one request as such, with its sequence number, to say how often a repeated Unlock Door opens the lock.
   Nothing in the repository says what should happen, so today each delivery is a command of its own.
3. Should the code come to read the lock's answers, the receive ring buffer and its overflow.
