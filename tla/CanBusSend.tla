------------------------------ MODULE CanBusSend ------------------------------
(***************************************************************************)
(* The send half of CanBus (can_bus.cpp): the slots of send_buf_, the      *)
(* mutex send_mtx_ that guards them, the API threads that write periodic   *)
(* and one-shot commands, and the control-loop thread that calls           *)
(* TransmitAll() every cycle.  RobstrideMotor writes a slot in two parts,  *)
(* the identifier and then the payload (robstride.cpp, WriteFrame), so a   *)
(* slot is a pair of the commands its two parts come from.                 *)
(*                                                                         *)
(* A command is abstracted to its kind, its number among the commands of   *)
(* its actuator in the order send_mtx_ was taken, and the thread that gave *)
(* it.  The numbers, `via' and `newest' are history: no guard of the code  *)
(* reads them.                                                             *)
(***************************************************************************)
EXTENDS Naturals, Sequences

CONSTANTS
  Actuators,    \* the actuators registered on this bus, one slot each
  Clients,      \* threads that call the actuator API
  Loop,         \* the control-loop thread
  Free,         \* owner of an unlocked mutex
  OneShotOps,   \* which classes of one-shot the clients call
  MaxStamp,     \* bound: commands per actuator
  TxQueueSize   \* capacity of SocketCAN's tx_queue_

(* "write": RequestState, ClearError, SetHomingPosition, SetMode write a    *)
(* frame.  "save": SaveConfig zeroes the slot.  "reject": SetMode with a    *)
(* mode outside its table returns without writing.                          *)
ASSUME ThreadsAssumption ==
  /\ Loop \notin Clients
  /\ Free \notin Clients \cup {Loop}
ASSUME BoundsAssumption ==
  /\ OneShotOps \subseteq {"write", "save", "reject"}
  /\ MaxStamp \in Nat
  /\ TxQueueSize \in Nat

VARIABLES
  send_buf,     \* send_buf[a]: the CanFrame slot of actuator a
  send_mtx,     \* the thread that holds send_mtx_, or Free
  tx_queue,     \* frames SocketCAN has accepted and not yet written
  pc,           \* pc[c]: where client c is in a call, "idle" outside
  call,         \* call[c]: the actuator and command of c's call, NoCall outside
  frame,        \* frame[c]: SendOnce's local copy of the slot, zero outside
  loop,         \* the control loop: "sleep" between cycles, "scan" in TransmitAll
  todo,         \* the actuators TransmitAll has still to visit
  stamp,        \* history: stamp[a] commands were given to a
  newest        \* history: the newest command of a handed to transmit()

vars == <<send_buf, send_mtx, tx_queue, pc, call, frame, loop, todo, stamp, newest>>

(***************************************************************************)
(* Frames                                                                  *)
(***************************************************************************)
Zero     == [kind |-> "none", n |-> 0, by |-> Free]
Command  == [kind : {"none", "periodic", "oneshot"}, n : 0 .. MaxStamp, by : Clients \cup {Free}]
CanFrame == [id : Command, data : Command]
ZeroSlot == [id |-> Zero, data |-> Zero]
NoCall   == [act |-> Free, cmd |-> Zero]

Outgoing(a, via, slot) == [act |-> a, via |-> via, id |-> slot.id, data |-> slot.data]
Frame == [act : Actuators, via : {"once", "loop"}, id : Command, data : Command]

Larger(m, n) == IF m < n THEN n ELSE m

(* Mistake: push() grows the queue past its capacity. *)
transmitUnbounded(f) ==
  /\ tx_queue' = Append(tx_queue, f)
  /\ newest' = [newest EXCEPT ![f.act] = Larger(@, f.id.n)]

(* Mistake: one-shots overtake the setpoints in the queue. *)
transmitUrgent(f) ==
  /\ tx_queue' = IF Len(tx_queue) >= TxQueueSize THEN tx_queue
                 ELSE IF f.via = "once" THEN <<f>> \o tx_queue
                 ELSE Append(tx_queue, f)
  /\ newest' = [newest EXCEPT ![f.act] = Larger(@, f.id.n)]

(* SocketCAN::transmit: bounded_push, whose result is ignored.             *)
transmit(f) ==
  /\ tx_queue' = IF Len(tx_queue) < TxQueueSize THEN Append(tx_queue, f) ELSE tx_queue
  /\ newest' = [newest EXCEPT ![f.act] = Larger(@, f.id.n)]

(***************************************************************************)
(* Initial state: SetDataFiled has zeroed the slots.                       *)
(***************************************************************************)
Init ==
  /\ send_buf = [a \in Actuators |-> ZeroSlot]
  /\ send_mtx = Free
  /\ tx_queue = <<>>
  /\ pc = [c \in Clients |-> "idle"]
  /\ call = [c \in Clients |-> NoCall]
  /\ frame = [c \in Clients |-> ZeroSlot]
  /\ loop = "sleep"
  /\ todo = {}
  /\ stamp = [a \in Actuators |-> 0]
  /\ newest = [a \in Actuators |-> 0]

(***************************************************************************)
(* API threads.  A call begins when it has taken send_mtx_.                *)
(***************************************************************************)
(* Mistake: nobody locks. *)
EnterUnlocked(c, a, cmd, at) ==
  /\ pc[c] = "idle"
  /\ call' = [call EXCEPT ![c] = [act |-> a, cmd |-> cmd]]
  /\ pc' = [pc EXCEPT ![c] = at]
  /\ UNCHANGED <<send_buf, send_mtx, tx_queue, frame, loop, todo, newest>>

(* Mistake: the setters of periodic commands do not lock. *)
EnterSetterUnlocked(c, a, cmd, at) ==
  /\ pc[c] = "idle"
  /\ cmd.kind # "periodic" => send_mtx = Free
  /\ send_mtx' = IF cmd.kind = "periodic" THEN send_mtx ELSE c
  /\ call' = [call EXCEPT ![c] = [act |-> a, cmd |-> cmd]]
  /\ pc' = [pc EXCEPT ![c] = at]
  /\ UNCHANGED <<send_buf, tx_queue, frame, loop, todo, newest>>

Enter(c, a, cmd, at) ==
  /\ pc[c] = "idle"
  /\ send_mtx = Free
  /\ send_mtx' = c
  /\ call' = [call EXCEPT ![c] = [act |-> a, cmd |-> cmd]]
  /\ pc' = [pc EXCEPT ![c] = at]
  /\ UNCHANGED <<send_buf, tx_queue, frame, loop, todo, newest>>

NewCommand(c, a, kind) == [kind |-> kind, n |-> stamp[a] + 1, by |-> c]

BeginWrite(c, a, kind) ==
  /\ stamp[a] < MaxStamp
  /\ stamp' = [stamp EXCEPT ![a] = @ + 1]
  /\ Enter(c, a, NewCommand(c, a, kind), "write_id")

(* SetMitCmd, SetEffort, SetVelocity, SetPosition *)
SetPeriodic(c, a) == BeginWrite(c, a, "periodic")

(* SendOnce from EnableActuator, DisableActuator, ClearError,              *)
(* SetHomingPosition and SetMode                                           *)
OnceWrite(c, a) == "write" \in OneShotOps /\ BeginWrite(c, a, "oneshot")

OnceSave(c, a) == "save" \in OneShotOps /\ Enter(c, a, Zero, "save") /\ UNCHANGED stamp

OnceReject(c, a) == "reject" \in OneShotOps /\ Enter(c, a, Zero, "capture") /\ UNCHANGED stamp

(* WriteFrame: send_slot_->can_id, then send_slot_->data *)
WriteId(c) ==
  /\ pc[c] = "write_id"
  /\ send_buf' = [send_buf EXCEPT ![call[c].act].id = call[c].cmd]
  /\ pc' = [pc EXCEPT ![c] = "write_data"]
  /\ UNCHANGED <<send_mtx, tx_queue, call, frame, loop, todo, stamp, newest>>

WriteData(c) ==
  /\ pc[c] = "write_data"
  /\ send_buf' = [send_buf EXCEPT ![call[c].act].data = call[c].cmd]
  /\ \/ /\ call[c].cmd.kind = "periodic"
        /\ pc' = [pc EXCEPT ![c] = "idle"]
        /\ call' = [call EXCEPT ![c] = NoCall]
        /\ send_mtx' = Free
     \/ /\ call[c].cmd.kind = "oneshot"
        /\ pc' = [pc EXCEPT ![c] = "capture"]
        /\ UNCHANGED <<send_mtx, call>>
  /\ UNCHANGED <<tx_queue, frame, loop, todo, stamp, newest>>

SaveConfig(c) ==
  /\ pc[c] = "save"
  /\ send_buf' = [send_buf EXCEPT ![call[c].act] = ZeroSlot]
  /\ pc' = [pc EXCEPT ![c] = "capture"]
  /\ UNCHANGED <<send_mtx, tx_queue, call, frame, loop, todo, stamp, newest>>

(* SendOnce, step 2 *)
Capture(c) ==
  /\ pc[c] = "capture"
  /\ frame' = [frame EXCEPT ![c] = send_buf[call[c].act]]
  /\ pc' = [pc EXCEPT ![c] = "zero"]
  /\ UNCHANGED <<send_buf, send_mtx, tx_queue, call, loop, todo, stamp, newest>>

(* Mistake: the one-shot stays in the slot. *)
UnlockOnly(c) ==
  /\ pc[c] = "zero"
  /\ send_mtx' = Free
  /\ pc' = [pc EXCEPT ![c] = "transmit"]
  /\ UNCHANGED <<send_buf, tx_queue, call, frame, loop, todo, stamp, newest>>

(* SendOnce, step 3, and the end of the lock's scope *)
ZeroAndUnlock(c) ==
  /\ pc[c] = "zero"
  /\ send_buf' = [send_buf EXCEPT ![call[c].act] = ZeroSlot]
  /\ send_mtx' = Free
  /\ pc' = [pc EXCEPT ![c] = "transmit"]
  /\ UNCHANGED <<tx_queue, call, frame, loop, todo, stamp, newest>>

(* SendOnce, step 4, outside the lock *)
TransmitOnce(c) ==
  /\ pc[c] = "transmit"
  /\ transmit(Outgoing(call[c].act, "once", frame[c]))
  /\ pc' = [pc EXCEPT ![c] = "idle"]
  /\ call' = [call EXCEPT ![c] = NoCall]
  /\ frame' = [frame EXCEPT ![c] = ZeroSlot]
  /\ UNCHANGED <<send_buf, send_mtx, loop, todo, stamp>>

(***************************************************************************)
(* The control loop: TransmitAll visits every actuator under send_mtx_, in *)
(* the unspecified order of an unordered_map.                              *)
(***************************************************************************)
LoopLock ==
  /\ loop = "sleep"
  /\ Actuators # {}
  /\ send_mtx = Free
  /\ send_mtx' = Loop
  /\ loop' = "scan"
  /\ todo' = Actuators
  /\ UNCHANGED <<send_buf, tx_queue, pc, call, frame, stamp, newest>>

(* Mistake: a slot is sent once and cleared. *)
LoopVisitAndClear(a) ==
  /\ loop = "scan"
  /\ a \in todo
  /\ todo' = todo \ {a}
  /\ send_buf' = [send_buf EXCEPT ![a] = ZeroSlot]
  /\ \/ /\ send_buf[a].id = Zero
        /\ UNCHANGED <<tx_queue, newest>>
     \/ /\ send_buf[a].id # Zero
        /\ transmit(Outgoing(a, "loop", send_buf[a]))
  /\ UNCHANGED <<send_mtx, pc, call, frame, loop, stamp>>

(* Mistake: the first empty slot ends the scan (break for continue). *)
LoopVisitOrBreak(a) ==
  /\ loop = "scan"
  /\ a \in todo
  /\ \/ /\ send_buf[a].id = Zero
        /\ todo' = {}
        /\ UNCHANGED <<tx_queue, newest>>
     \/ /\ send_buf[a].id # Zero
        /\ todo' = todo \ {a}
        /\ transmit(Outgoing(a, "loop", send_buf[a]))
  /\ UNCHANGED <<send_buf, send_mtx, pc, call, frame, loop, stamp>>

LoopVisit(a) ==
  /\ loop = "scan"
  /\ a \in todo
  /\ todo' = todo \ {a}
  /\ \/ /\ send_buf[a].id = Zero
        /\ UNCHANGED <<tx_queue, newest>>
     \/ /\ send_buf[a].id # Zero
        /\ transmit(Outgoing(a, "loop", send_buf[a]))
  /\ UNCHANGED <<send_buf, send_mtx, pc, call, frame, loop, stamp>>

LoopUnlock ==
  /\ loop = "scan"
  /\ todo = {}
  /\ send_mtx' = Free
  /\ loop' = "sleep"
  /\ UNCHANGED <<send_buf, tx_queue, pc, call, frame, todo, stamp, newest>>

(* SocketCAN's sender thread takes the oldest frame. *)
SenderPop ==
  /\ tx_queue # <<>>
  /\ tx_queue' = Tail(tx_queue)
  /\ UNCHANGED <<send_buf, send_mtx, pc, call, frame, loop, todo, stamp, newest>>

(***************************************************************************)
(* Specification                                                           *)
(***************************************************************************)
Begin(c, a) == SetPeriodic(c, a) \/ OnceWrite(c, a) \/ OnceSave(c, a) \/ OnceReject(c, a)

Continue(c) ==
  \/ WriteId(c) \/ WriteData(c) \/ SaveConfig(c)
  \/ Capture(c) \/ ZeroAndUnlock(c) \/ TransmitOnce(c)

ControlLoop == LoopLock \/ (\E a \in Actuators : LoopVisit(a)) \/ LoopUnlock

Next ==
  \/ \E c \in Clients, a \in Actuators : Begin(c, a)
  \/ \E c \in Clients : Continue(c)
  \/ ControlLoop
  \/ SenderPop

(* A started call runs to its end and the loop keeps cycling.  Nothing      *)
(* makes a client call, and no thread is promised the mutex against rivals  *)
(* that keep taking it: WF only asks that a thread moves when it can.  The  *)
(* sender, which may sleep through a notification (SocketCANTx), owes       *)
(* nothing here.                                                            *)
Fairness ==
  /\ \A c \in Clients : WF_vars(Continue(c))
  /\ WF_vars(ControlLoop)

SafetySpec == Init /\ [][Next]_vars
Spec == SafetySpec /\ Fairness

-------------------------------------------------------------------------------
(***************************************************************************)
(* Properties                                                              *)
(***************************************************************************)
(* Every variable holds a value of its type. *)
TypeOK ==
  /\ send_buf \in [Actuators -> CanFrame]
  /\ send_mtx \in Clients \cup {Loop, Free}
  /\ tx_queue \in Seq(Frame) /\ Len(tx_queue) <= TxQueueSize
  /\ pc \in [Clients -> {"idle", "write_id", "write_data", "save", "capture", "zero", "transmit"}]
  /\ call \in [Clients -> [act : Actuators, cmd : Command] \cup {NoCall}]
  /\ frame \in [Clients -> CanFrame]
  /\ loop \in {"sleep", "scan"}
  /\ todo \in SUBSET Actuators
  /\ stamp \in [Actuators -> 0 .. MaxStamp]
  /\ newest \in [Actuators -> 0 .. MaxStamp]

(* No frame mixes two commands: the torque in its identifier and the        *)
(* position, velocity and gains in its payload were given in one call       *)
(* (can_bus.h, "Thread-safety contract").                                   *)
NoTornFrame == \A i \in DOMAIN tx_queue : tx_queue[i].id = tx_queue[i].data

(* "TransmitAll() NEVER re-broadcasts the one-shot command" (can_bus.h:49): *)
(* every frame of the loop is a periodic command, never an enable, stop or  *)
(* parameter write that SendOnce put in the slot.                           *)
LoopNeverRebroadcasts ==
  \A i \in DOMAIN tx_queue : tx_queue[i].via = "loop" => tx_queue[i].id.kind = "periodic"

(* A frame of the loop is never older than a frame of the same actuator     *)
(* that was handed over before it: once a stop has gone out, the loop does  *)
(* not send a setpoint given before that stop.                              *)
SetpointsInOrder ==
  [][LET f == tx_queue'[Len(tx_queue')]
     IN  Len(tx_queue') > Len(tx_queue) /\ f.via = "loop" => f.id.n >= newest[f.act]]_vars

(* The frames that carry one thread's commands to one actuator leave in the *)
(* order of its calls, although SendOnce transmits outside the lock.  A     *)
(* rejected SetMode, which sends another call's setpoint again, is not one  *)
(* of them.                                                                 *)
OwnFrame(f) == f.via = "loop" \/ f.id.kind = "oneshot"

ProgramOrder ==
  \A i, j \in DOMAIN tx_queue :
    /\ i < j
    /\ tx_queue[i].act = tx_queue[j].act
    /\ tx_queue[i].id.by = tx_queue[j].id.by
    /\ OwnFrame(tx_queue[j])
    => tx_queue[i].id.n <= tx_queue[j].id.n

(***************************************************************************)
(* The bus as a set of mailboxes.  A setter takes effect when it completes *)
(* the slot, a one-shot when its frame is in the slot: from then on the    *)
(* mailbox is empty and the frame is in the hands of its caller.           *)
(***************************************************************************)
Issued(c) == pc[c] \in {"capture", "zero"}
Cancelled(a) == \E c \in Clients : Issued(c) /\ call[c].act = a

mailboxBar ==
  [a \in Actuators |-> IF Cancelled(a) \/ send_buf[a].data.kind # "periodic"
                       THEN Zero
                       ELSE send_buf[a].data]

HeldSlot(c) == IF pc[c] = "capture" THEN send_buf[call[c].act] ELSE frame[c]

inHandBar ==
  [c \in Clients |-> IF Issued(c) \/ pc[c] = "transmit"
                     THEN {Outgoing(call[c].act, "once", HeldSlot(c))}
                     ELSE {}]

OfKind(kind) == {cmd \in Command : cmd.kind = kind}

Mailbox == INSTANCE CommandMailbox
  WITH mailbox <- mailboxBar, inHand <- inHandBar,
       Periodic <- OfKind("periodic"), OneShot <- OfKind("oneshot"), Nothing <- Zero

(* The slots, the lock and the steps of SendOnce and TransmitAll implement  *)
(* the mailboxes: to its callers each command is one indivisible event.     *)
ImplementsMailbox == Mailbox!Spec

(* A setpoint that nothing cancels or replaces is handed to transmit() by   *)
(* the control loop, however the clients' calls interleave with it, and     *)
(* whether the sender drains the queue or sleeps: a full queue drops it     *)
(* there, and the loop repeats it in the next cycle.                        *)
SetpointHandedOver ==
  \A a \in Actuators, n \in 1 .. MaxStamp :
    mailboxBar[a].n = n ~> newest[a] >= n \/ mailboxBar[a] = Zero
===============================================================================
