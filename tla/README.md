# Verification of the Robstride motor controller

TLA+ models of the motor controller in `src/`, their TLC runs, and TLAPS proofs.
The program drives Robstride motors over Linux SocketCAN: an application calls
`XyberController`, a control-loop thread per device sends the setpoints every
cycle, and two threads per CAN interface move frames between the program and the
socket.

## The system

| Part | State | Operations |
|---|---|---|
| `XyberController` (xyber_controller.cpp) | `device_map_`, `actr_dev_map_`, `is_running_`, realtime settings | create device, attach, set realtime, start, stop, and every actuator call, found by name |
| `CanDevice` (can_device.cpp) | up to four buses, `actuator_bus_map_`, `is_running_`, the control-loop thread | attach, start, stop, the loop, actuator calls passed on to the bus |
| `CanBus` (can_bus.cpp) | `send_buf_`/`send_mtx_`, `recv_buf_`/`recv_mtx_`, the actuators by name and id | register, `TransmitAll`, `SendOnce`, enable, disable, setters, getters |
| `RobstrideMotor` (robstride.cpp) | pointers to its two slots, decoded feedback, mode | writes a frame into its send slot, decodes its receive slot when asked |
| `SocketCAN` (protocol/socket_can.cpp) | lock-free `tx_queue_`, `receiving_`, callback table; one object per interface name | transmit, sender thread, RX thread, callbacks, close |
| Python bindings, example, script, utilities, build files | none that matters | forward calls, call the API, system calls |

How they interact: `XyberController` passes on enable, disable, `SetMitCmd`,
`SetMitParam`, `SetHomingPosition` and the getters. `SetMode`, `ClearError`, `SaveConfig`, `SetEffort`,
`SetVelocity` and `SetPosition` end at `CanDevice`, an internal header; they are modelled as calls all the same.
API threads and the control loop share the send slots under
`send_mtx_`; both hand frames to `SocketCAN::transmit`, the control loop with the
lock held, `SendOnce` after releasing it. The sender thread takes frames from the
queue. The RX thread copies the callback of a frame's motor id and runs it, which
writes the receive slot under `recv_mtx_`. Getters decode the slot under the same
lock. Enable and disable are a `SendOnce` followed by polls of a getter. The
control loops are told to stop by a flag and joined.

What is hard: one slot per actuator serves both periodic and one-shot commands
and is written in two stores; one-shots are transmitted outside the lock; the
queue is notified without the mutex of the wait; full queues and failed writes are
not reported to the caller; answers are read from a slot that may hold older
frames; SocketCAN objects are shared between buses; the maps the loops read are
changed without a lock and protected only by the join in `Stop`.
`PROJECT.json` lists each hazard with its line.

What makes each part correct:

* send path: frames are whole, one-shots go out once and never from the loop, a
  setpoint never follows a newer command, an uncancelled setpoint is handed to
  `transmit()`, again and again (where a full queue may drop it);
* transmit: accepted frames are not lost, duplicated or reordered, failures are
  reported, the queue drains as long as somebody transmits, `close` returns with the
  two exceptions named below;
* command path: the last call on a motor decides, the tracked mode is the motor's, a
  stop leaves no setpoint behind;
* codec: a command says to the motor what the caller meant, and to no other motor;
  a getter says what the newest frame reported when it was asked, or what it said before;
* handshake: `true` means that the motor is in the state asked for;
* receive: a getter decodes whole frames of its own motor, the maps agree;
* lifecycle: no loop survives `Stop`, no map changes under a loop, every started
  device is served.

## Modules

| Module | Models | Code |
|---|---|---|
| `CommandMailbox` | abstract: one mailbox per actuator, one-shots in their callers' hands | the contract in can_bus.h, lines 33-49 |
| `CanBusSend` | slots, `send_mtx_`, setters, `SendOnce`, `TransmitAll` | can_bus.cpp, robstride.cpp frame writers |
| `TxChannel` | abstract: a bounded channel that settles what it accepts in order | the contract of `transmit` |
| `SocketCANTx` | queue, condition variable, sender thread, `close` | socket_can.cpp, TX half |
| `CommandPath` | composition: mailboxes, control loop, tracked mode, lossy socket, motors | can_bus.cpp, can_device.cpp, robstride.cpp |
| `MotorCodec` | identifiers, payloads, quantisation, dispatch key, decoding | robstride.cpp, robstride.h, common_type.h |
| `PowerHandshake` | enable/disable of one and of all, polls, an external motor | can_bus.cpp 205-256 |
| `FeedbackService` | abstract: each attached name is a register of one motor's frames, in order | what `FeedbackPath` promises a reader |
| `FeedbackPath` | create/attach, callback tables, RX thread, getters | socket_can.cpp RX half, can_bus.cpp, the maps |
| `DeviceLifecycle` | start, stop, join, control loops, configuration calls | can_device.cpp, xyber_controller.cpp |
| `CanBusSend_refinement`, `*_proofs` | theorems about the module they are named after | |

How they fit together: `CanBusSend` implements `CommandMailbox`, `SocketCANTx`
implements `TxChannel`, and `FeedbackPath` implements `FeedbackService`. `CommandPath`
is built on the mailboxes: each of its steps is proved to be one of theirs or to leave
the bus alone, so it speaks of whole frames and of indivisible steps because
`CanBusSend` has been shown to allow no others; its socket takes frames in order, as `TxChannel` does, and may lose the
one it has taken. `PowerHandshake` and `FeedbackPath` cover the way back.
`MotorCodec` gives the meaning of the commands that are only names elsewhere.

`MC*.tla` instantiate them for TLC. Definitions named "Mistake" in a comment are
plausible bugs of a definition; each shows that a property can fail.

### How the models correspond to the code

* **CanBusSend.** A command is abstracted to kind, number (in the order in which
  `send_mtx_` was taken) and caller; a slot is the pair of commands its identifier
  and its payload come from, because `WriteFrame` stores them in this order. A
  client is a program counter through `lock / write_id / write_data / capture /
  zero+unlock / transmit`. `SaveConfig` zeroes the slot; `SetMode` with a value
  outside its table writes nothing and so captures what was there ("reject").
  `TransmitAll` visits the actuators in any order, as the hash map does. Numbers,
  `via` and `newest` are history.
* **SocketCANTx.** Test of the wait condition, blocking and waking are separate
  steps, since neither push nor notification takes `tx_mutex_`; a push to a full
  queue is dropped; a write may fail any number of times. `close` clears the flag,
  notifies, joins the RX thread and then the sender, each a step. Of the RX thread
  there is what the first join waits for: the test of `receiving_`, the select, and
  the inner loop, which reads and calls back until nothing is left and does not test
  `receiving_`. `close` is called only when no thread is in `transmit`, as the
  destructor is.
* **TxChannel.** What is left of `SocketCANTx` without threads, notifications and
  retries: accept, take, settle, close, with the oldest frame first.
* **CommandPath.** Each step is a step of `CommandMailbox` together with what the
  caller, `current_mode_` and the motor do in it. Calls are numbered per actuator in
  the order in which they take `send_mtx_`. `SetMode` tracks the mode when its frame is
  written and reads it back in a later step; a value outside the table sends what the
  slot held. A taken frame is obeyed or lost; a running motor refuses a new mode
  (robstride.cpp:204). `ClearError` is a stop frame, so it counts as one.
  `SetHomingPosition` and `SaveConfig` settle neither power nor mode and are left to
  `CanBusSend`, polls to `PowerHandshake`. `last`, `stopped_by` and `astray` are history.
* **MotorCodec.** One frame at a time: the host speaks or a motor does, the frame
  arrives, getters are called at any time. The RX callback stores what arrives, of
  whatever type, over what was in the slot; a getter decodes the slot if there is
  feedback in it and otherwise leaves the decoded fields alone (`Get`). A report that is
  overwritten unread is never told. `said`, `newest` and `told` are history. An identifier is its 29 bits as a number and the extended flag beside it, a
  payload eight bytes. Quantities are integers in units of 1/20 rad, rad/s or Nm, so 4π
  is 251, and the formulas are exact where the code rounds to `float`. The four bytes
  of a float parameter are one value. The motor's side is external and follows the
  layouts of robstride.h. Frames with fewer than eight bytes are left out.
* **PowerHandshake.** The send path and the receive path are channels here. A
  request may be lost, a motor may already run when the process starts, may fault,
  may report unasked or send frames of other types that overwrite the slot.
* **FeedbackPath.** A callback is the bus and slot it captured; the table belongs
  to the interface; the write of a slot is two steps under `recv_mtx_`; a getter goes
  through the maps of controller, device and bus.
  Configuration comes from one thread.
* **FeedbackService.** No buses, slots, callbacks or locks: a name stands for one motor
  from its attachment on; an interface has at most one frame in hand; recording it needs
  a name that stands for its motor, and nothing later may have been recorded from that
  interface. A getter answers from the newest recorded frame if that is feedback, else
  as before. In the refinement a name's `motor` is the interface of its bus and its id, and its
  `newest` the payload in its slot: a frame is recorded by the second store, with
  `recv_mtx_` held, and `told` is what was decoded. Where two buses share an interface the frame is recorded
  for one of the names that stand for its motor, which is as much as the code does.
* **DeviceLifecycle.** One thread configures, starts and stops; each loop is a
  program counter over the buses; a setpoint is a number per bus.

## Runs

| Run | Instance | Shows |
|---|---|---|
| `send` | 2 actuators, 2 clients, 2 commands each, queue of 2, symmetry | types, whole frames, no rebroadcast, order |
| `send_implements_mailbox` | the same with one kind of one-shot, fairness | refinement of `CommandMailbox`; an uncancelled setpoint is handed to `transmit()` |
| `tx` | 2 callers, 1 loop, queue of 2, 2 retries, 3 one-shots, fairness | types, nothing lost or reordered, failures logged, everything settles while somebody keeps transmitting, `close` ends with the frame the sender is at and returns (two exceptions), refinement of `TxChannel` |
| `tx_lost_wakeup` | violation, 2 callers, 1 loop, 1 retry, 2 one-shots | a lost notification leaves a one-shot in the queue when no other frame follows, also while a control loop runs that has no setpoint to send |
| `path` | 1 actuator, 2 clients, 3 calls, 2 modes and one outside the table, queue of 2, fairness | the last call decides, and takes effect under a loop that keeps notifying; the tracked mode is the motor's, `SetMode` answers right, a stop leaves no setpoint behind |
| `codec` | motors 1, 2, 4 of the three types; each MIT argument at, next to and beyond its limits, and all beyond at once; every mode and one outside the table; four reports; constraint `MCHeardFrom` | types, commands and feedback are understood |
| `codec_limits` | violation, same instance | the limits in force are not the documented ones |
| `handshake` | 2 actuators, 2 clients, 2 calls, 1 poll, loss and faults, symmetry | answers are true until something goes wrong with the actuator, also through enable-all and disable-all |
| `handshake_live` | 1 actuator, 1 client, 3 calls, no loss, fairness | answers become true, at the latest when the motor has obeyed what was sent |
| `feedback` | 2 devices, 2 bus indices, 2 interfaces, ids 0-3 of which 1-2 valid, 3 frames | maps agree, whole frames of one's own motor, the sole listener is called back, refinement of `FeedbackService` |
| `feedback_shared` | violation | a second bus on an interface takes the first one's feedback |
| `lifecycle` | 2 devices, 2 buses, 2 settings | quiet after stop, maps still, settings agree, a loop told to stop begins no other cycle, stop returns, setpoints are served |

**Why the bounds are enough.** What goes wrong in these parts needs two actors on
one slot, or one actor on two slots: two clients and the loop over two actuators,
with two commands per actuator, so that one can replace, cancel or overtake
another. A queue of two is empty, partly filled and full. In `tx`, three
one-shots with two retries let a failing frame be followed by others and meet the
control loop's frames. In `path` it takes three calls to put a motor into a
state it should not be in (a setpoint, a stop and an enable, or two power calls and
a mode), a queue of two to make one of them meet a full queue, and two clients to have
two one-shots in hand; actuators share nothing there but the queue, whose room
the other frames of the one actuator take as well. In `codec` every branch of the
clamps, of the mode table and of the decoder is taken, and every bit of the status is
set and cleared; `MCHeardFrom` lets two motors be heard from, or one when the host has spoken last,
which is what it takes to mix up two slots or a command with a report. In the handshake an answer can be stale only with respect
to an earlier call, so two and three calls suffice (`handshake_live` repeats polls), and one or two frames in flight
let an old frame arrive between request and answer. In `feedback` every combination
of two devices with one bus, two interfaces or one interface twice is built, with
ids below, in and above the range; three frames let one arrive while another is
being written and a third is of another type. In `lifecycle` two devices make
"created while running" and "stopped one after the other" happen; starts and stops
are unbounded. The invariants that are proved hold without any of these bounds.

**Deadlock** is checked, except in `SocketCANTx`, which ends when it is closed.

**Fairness.** Threads that can move do: a call that has begun goes on, the control
loop and the sender keep running (both are unbounded loops with no exit while
running), the RX thread reads what has arrived. No client is made to call
anything, and a write to the socket may fail for ever. A control loop that runs is not
made to transmit: it skips empty slots, so it need not notify the sender again. What depends on
later notifications says so: `SettlesWhileNotified` and the channel's `TakeFairness` assume
that somebody transmits again and again (`KeepsNotifying`), and in `CommandPath` the sender is
fair only while the loop runs with a setpoint to repeat (`LoopNotifies`); without that a
queued frame may stay there. The sender gives up a frame after its retries, so a frame it has taken is
obeyed or lost. `CanBusSend` assumes nothing of the sender, and a queue that is never drained is among its
behaviours; in `PowerHandshake` a request that stays in the queue counts as lost, and no request is lost in
`handshake_live`. The RX thread may find frames to read for ever. `std::mutex` promises no
order, so weak fairness is all that is assumed of it: a handed-over setpoint is
shown for clients whose calls come to an end (`MaxStamp` bounds them), since
clients that call without pause could keep the control loop from the lock. The
motor is strongly fair in obeying because its own reports can fill the channel
again and again. Spurious wakeups are allowed and never assumed.

**What the properties leave out** is named in them. `LastCallWins` and `ModeIsTracked` exclude commands
that two clients had in hand at once, frames that were dropped or given up, and modes a running motor refused;
`AnswersAreTrue` excludes lost requests, timeouts, and motors that ran before. A frame that a full queue drops
was never accepted, so the promises of `SocketCANTx` do not speak of it. A `SetMode` with a value
outside its table sends the setpoint in the slot once more and cancels it, which the mailboxes allow;
`NoOldSetpointMoves` speaks of what the loop sends. `SetpointsServed` speaks of the devices the last `Start`
visited.

## Disagreements with the documentation

1. `transmit` notifies without the mutex, so a wakeup can be lost; unless somebody
   transmits again a one-shot stays queued, against "fire exactly once",
   can_bus.cpp:200 (`tx_lost_wakeup`). A running control loop is no help when its slots are
   empty (can_bus.cpp:166), and `SendOnce` empties the slot it used: the last disable
   of the last enabled motor may be the frame that stays. For the same reason `close` can hang in its
   second join. `CloseReturns` excludes that moment, and an RX thread that finds frames for
   ever, whose read loop does not test `receiving_` (socket_can.cpp:106); no document says that `close` returns.
2. Two buses on one interface with the same id share one callback entry, against
   "DEDICATED RX callback", can_bus.cpp:115 (`feedback_shared`).
3. `GetLimits` has 44 rad/s for type 00 and 33 rad/s for type 05, the default MIT
   parameters, from which it says its values are "taken directly"
   (robstride.cpp:51), have 33 and 44, so a velocity read in that range is a quarter too small for type 00 and a third too
   large for type 05; and limits overridden with `SetMitParam`
   (robstride.cpp:23, xyber_controller.h:118) are never read (`codec_limits`).

Seen while reading and not checked by a run: `SaveConfig` transmits a frame of zeros
without `CAN_EFF_FLAG`, against robstride.h:6; a frame that is written by the last
retry is logged as failed, socket_can.cpp:172; the headers speak of at most three
actuators and ids 1-3 (can_bus.h:2, xyber_controller.h:64) while
`MAX_ACTUATORS_PER_BUS` is 4; `ParseFeedback` never updates the mode although
robstride.h:198 says so; `GetMode` of an unknown name is `MODE_CURRENT` in the
controller and the device and `MODE_MIT` in the bus; common_utils.cpp tests
`pthread_setschedparam` for a negative result, which it never has.

## Proofs

Proved with TLAPS for all values of the constants that satisfy the named
assumptions of each module, which ask little more than that bounds are natural
numbers and that different things have different names. No theorem uses fairness.

| Module | Theorem | States |
|---|---|---|
| `CanBusSend_proofs` | `TypeCorrect`, `WholeFrames`, `NeverRebroadcast`, `CallsInOrder`, `NewestFirst` | all safety properties of run `send` |
| `CanBusSend_refinement` | `Refinement` | `CanBusSend` implements `CommandMailbox` |
| `SocketCANTx_proofs` | `TypeCorrect`, `FailuresAreReported`, `NoOneShotGoesMissing`, `ImplementsChannelSafety`, `CloseTakesNoOtherFrame` | all safety properties of run `tx`; the steps of `SocketCANTx` are steps of `TxChannel` |
| `CommandPath_proofs` | `TypeCorrect`, `LastPowerCallWins`, `TrackedModeIsTheMotors`, `SetModeAnswersRight`, `StopForgetsSetpoints`, `PathUsesMailbox` | all invariants of run `path`; the composition's steps are the mailboxes' |
| `MotorCodec_proofs` | `QuantityStands`, `QuantityIsSharp`, `QuantityMonotone`, `QuantitiesDistinct`, `TypeCorrect`, `EveryCommandUnderstood`, `EveryReportUnderstood` | all invariants of run `codec`, for arbitrary arguments; a quantity's code stands for it, no other does, it keeps the order, and quantities a step apart get different ones |
| `PowerHandshake_proofs` | `TypeCorrect`, `TrueAnswersAreTrue`, `TrueAnswersSettle`, `SingleClientAnswersSettle` | `true` means that the motor is in the state asked for, until something goes wrong with it; without loss and faults it does in the end, even after timeouts |
| `FeedbackPath_proofs` | `TypeCorrect`, `NamesAlwaysResolve`, `NoTornFeedback`, `NoForeignFeedback`, `SoleListenerIsHeard`, `ServesReaders`, `AnswersGoForward` | all properties of run `feedback`; getters never go back to an older frame |
| `DeviceLifecycle_proofs` | `TypeCorrect`, `StopLeavesNoLoop`, `OneRealtimeSetting`, `AttachIsSafe`, `StopEndsWithinCycle` | all safety properties of run `lifecycle` |

None of the invariants is inductive by itself. Each module has an `IInv`, the
conjunction of the parts below, lemmas that every action keeps each part, and
`Invariance`, from which the theorems follow.

**CanBusSend.** A queue holds whole frames only if slots are whole when somebody
reads them, which holds only for slots nobody is writing, and that depends on who
holds the lock.

* `LockInv`: the mutex is held by the one thread in a critical section;
* `CallInv`: what a client is writing, or has captured, is its own command, or a
  whole setpoint or zeros when it wrote nothing;
* `SlotInv`: a slot nobody is writing is empty or holds, whole, the newest command
  of its actuator, which is a periodic one;
* `StampInv`, `QueueInv`: nothing is newer than the newest command, and nothing in
  the queue newer than the newest handed over;
* `OrderInv`: while a client has a one-shot in hand, nothing else of that client
  for that actuator is newer. It makes `ProgramOrder` inductive.

`NewestFirst` follows from `SlotInv` and `StampInv`: what the loop finds in a slot
is the newest command. For the refinement a setter takes effect when it completes
the slot and a one-shot when its frame is in the slot; each action then maps to
one step of the mailboxes or to none.

**SocketCANTx.** `HandInv` ties the sender's place in its loop to what it holds:
one frame while it writes or reports, no retries counted otherwise, and a frame
that reaches the report without having been written has used up its retries.
`OneShotsAccounted` says where the one-shots are by position: one-shot number n is the
n-th settled one, the one in hand, or in the queue with all later ones behind it; in
that form every step keeps it. For the refinement a push is an `Accept`, the pop a `Take`,
the report a `Settle`, the clearing of `receiving_` a `Close`, and everything else changes
nothing the channel sees. `CloseTakesNoOtherFrame` counts the steps the sender has left once
`close` has begun (`CloseStepsLeft`): `ClosedInv` says that `receiving_` stays false, so the wait
lets it through and the test after it ends the loop. A sender on its way to
sleep is excepted, which is the lost wakeup again. The RX thread touches nothing that these
theorems speak of, and `close` waits for it before it waits for the sender.

**CommandPath.** A motor is as the last call asked because of where the frames can be.
`AspectInv`: for power and for mode, unless the aspect is astray, whatever command of it
is in somebody's hand is the newest and nobody else holds one; when none is in hand,
the last of its aspect in the queue is the newest; and when none is queued either, the
motor does as it says. `ModeInv`: the tracked mode is that of the newest mode command, and
a call between `SetMode`'s two steps has its own mode tracked or a rival. `OrderInv` is
about setpoints: one in a mailbox is newer than every stop in a hand, in the queue or
obeyed, and one the loop has queued newer than those before it in the queue.

**MotorCodec.** Lemmas say how the fields of an identifier and the bytes of a payload are
read back, in linear arithmetic: a field that fits its width does not disturb the
others. `OnTheBus` holds between speaking and hearing: the frame on the bus has its
type, everybody at the other end would make of it what is right, and a motor's frame
carries what its motor reported, or is no feedback. Once it has arrived, `FeedbackKnown` says that of each
slot (`Stored`: the slot carries the newest report, or the newest frame was none and the slot
is not decoded), and of the decoded fields that they tell the last report a getter found
(`Decoded`). A getter leads from the first to the second. `QuantityStands` needs no state at all.

**PowerHandshake.** An answer may be read from a stale slot. It is true all the
same because of where things can be (`PhaseInv`). As long as nothing has gone
wrong with an actuator, and nobody asks, its cached state, its slot, the frames on
their way back, the motor and the requests on their way out all say the same
(`Uniform`). While one call asks for a new state, the new state spreads along that
chain from the request end only: where any link has it, every link before it has
it too (`Sorted`). The poll reads the last link of the chain, so when it sees the
new state everything is uniform again. `CallInv` keeps the calls apart.

Once a call has timed out the chain is no longer uniform, and an answer may be false
when it is given. `TrueAnswersSettle` says that it becomes true all the same, and when:
with the requests that are on their way. `LastInv` is why. Whoever asks an actuator, and
whoever was told that it obeyed, wants what the last request says that was sent to it,
or what the motor is when none is on its way. It needs motors that obey (`Mishaps = {}`)
and that no two calls ask the actuator at once (`Uncontended`, a hypothesis about the
callers, which holds by itself for a single one): the second request would go behind the first one.

**FeedbackPath.** Three parts speak of the maps: every callback in a table belongs
to a registered actuator of that interface and id (`CallbackInv`), every
registered actuator has an entry where it listens (`HeardInv`), and `NamesResolve`,
which is inductive with the type invariant. `RxInv` says that a callback an RX thread has
copied still leads to a registered actuator with the frame's id, also when the
table was changed since; `HeldInv` and `TornInv` that a half-written slot belongs
to the thread that holds `recv_mtx_`; `OwnInv` and `DecodedInv` that slots and
decoded values come from the actuator's own motor.

The refinement of `FeedbackService` needs three more (`SInv`). `FreshInv`: nothing has been
decoded for an actuator that is not attached yet, so attaching a name changes nothing
that its getters say. `PayloadInv`: the payload in a slot is of the slot's own motor even
while the identifier beside it is of another frame. `OrderInv`: what an RX thread holds is newer
than everything its interface has delivered, and nothing is newer than the last arrival.
`Resolved` turns a name into its bus and id and back. `AnswersGoForward` is then
proved about the service alone (`AnswerInv`: what was told is no newer than what is recorded)
and carried over through the refinement.

**DeviceLifecycle.** A loop exists only for a device that runs or is being joined
(`LoopInv`); a device that runs is known (`KnownInv`); and at each point of `Start` and
`Stop` the devices that still run are those left to visit (`PhaseInv`), which is
why a device created in between is no exception. `StopEndsWithinCycle` is an action
property: while a loop is joined, each of its steps leaves fewer (`StepsLeft`). `JoinInv`
says that a device that is joined is not running, so the test at the top of the cycle
ends the loop.

**Safety halves.** `SettledAnswersAreTrue`, `StopsWithinCycle` and `ClosesWithinFrame` are what
`AnswersBecomeTrue`, `StopReturns` and `CloseReturns` say apart from the fairness: when the requests
have been obeyed the answer is true, and the join of a control loop or of the sender waits for a bounded
number of steps. These are proved; that the steps are taken is model-checked. The join of the RX
thread has no such bound.

**Only model-checked.** Liveness and the fairness it rests on, which are out of this
prover's reach: `SetpointHandedOver`, `SettlesWhileNotified`, `CloseReturns`, `AnswersBecomeTrue`,
`StopReturns`, `SetpointsServed`, `LastCallTakesEffect`, and the fairness part of
`ImplementsChannel`.

## Not modelled

* The rounding of `float`: `MotorCodec` is exact, so it says nothing of a last bit lost
  in `FloatToUint16`, nor of NaN, whose cast is undefined.
* `ClearError` in the handshake: it sends a stop frame that nobody waits for, and
  nothing in `XyberController` calls it.
* Failures to open an interface (exceptions out of `CreateDevice`), and threads
  that end the process when they may not set their priority. The rollback of
  `XyberController::Start` cannot be reached, since `CanDevice::Start` always answers true.
* Destruction: the controller is a singleton that the code never deletes, so `~CanDevice`
  and `~CanBus`, which leaves callbacks behind that point to it, do not run while
  anything else does. A model would have to invent who deletes what.
* The clock: cycles have no length, and polls are counted rather than timed.
* Several threads in the configuration calls.
* Python bindings, example, measurement script, logging, build files: no state or
  no logic of the controller.

## Plan

1. `CanBusSend`, `CommandMailbox`, `SocketCANTx`, `PowerHandshake`, `FeedbackPath`,
   `DeviceLifecycle`, and the proofs of their invariants and of the refinement: done.
2. `TxChannel` and the refinement of it; the composition `CommandPath`; the codec,
   `MotorCodec`; the proofs of their invariants: done.
3. `FeedbackService` and the refinement of it; the safety halves of `AnswersBecomeTrue`,
   `StopReturns` and `CloseReturns`; that the command path uses the mailboxes as they are: done.
4. Left: the handshake over the command path, so that an answer speaks of the motor
   `CommandPath` has rather than of one of its own; a proof that `CanBusSend` and
   `SocketCANTx` together implement the mailboxes and the queue of `CommandPath`
   (so far each implements its own abstraction); larger instances of `path`.
