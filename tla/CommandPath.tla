------------------------------ MODULE CommandPath ------------------------------
(***************************************************************************)
(* From a call to the motor: the mailboxes of a bus (CommandMailbox, which *)
(* CanBusSend implements), a control loop that is started and stopped, the *)
(* mode RobstrideMotor tracks, the socket, which may lose a frame, and the *)
(* motors at the other end.  SetHomingPosition and SaveConfig, which settle *)
(* neither power nor mode, are left to CanBusSend.                         *)
(*                                                                         *)
(* The steps of the bus are CommandMailbox's; each is taken here together  *)
(* with what the caller, the tracked mode and the motor do in it.  Polls   *)
(* and feedback are left out (PowerHandshake, FeedbackPath).  `last',      *)
(* `stopped_by' and `astray' are history: no guard of the code reads them. *)
(***************************************************************************)
EXTENDS Naturals, Sequences

CONSTANTS
  Actuators, Clients, TxQueueSize,
  Modes,        \* the modes in the table of RobstrideMotor::SetMode
  DefaultMode,  \* MODE_MIT, which current_mode_ starts with
  BadMode,      \* a value of ActuatorMode outside the table
  MaxCommands   \* bound: calls per actuator

ASSUME PathAssumption ==
  /\ DefaultMode \in Modes
  /\ BadMode \notin Modes
  /\ TxQueueSize \in Nat
  /\ MaxCommands \in Nat

VARIABLES
  mailbox, inHand, tx_queue,  \* see CommandMailbox
  call,          \* call[c]: the SetMode client c is in, NoCall when in none
  current_mode,  \* current_mode[a]: current_mode_ of actuator a
  is_running,    \* whether the control loop runs
  motor,         \* motor[a]: power, mode and target of the motor (external)
  stamp,         \* history: stamp[a] calls were made for a
  last,          \* history: last[a]: the newest power and mode command of a
  stopped_by,    \* history: stopped_by[a]: the newest stop the motor has obeyed
  astray         \* history: astray[a]: aspects whose newest command may not hold

bus     == <<mailbox, inHand, tx_queue>>
tracked == <<call, current_mode>>
history == <<stamp, last, astray>>
vars    == <<bus, tracked, is_running, motor, stopped_by, history>>

(***************************************************************************)
(* Calls are numbered per actuator in their order; a command has the number*)
(* of its call.                                                            *)
(***************************************************************************)
Cmd(op, n, mode) == [op |-> op, n |-> n, mode |-> mode]
Nothing   == Cmd("nothing", 0, BadMode)
PowerOps  == {"enable", "stop"}
Numbers   == 1 .. MaxCommands
Periodic  == {Cmd("setpoint", n, BadMode) : n \in Numbers}
OneShot   == {Cmd(op, n, BadMode) : op \in PowerOps, n \in Numbers}
               \cup {Cmd("mode", n, mode) : n \in Numbers, mode \in Modes}

Mailbox == INSTANCE CommandMailbox

NoCall == [act |-> Nothing, mode |-> BadMode, rival |-> FALSE]
Idle   == [n |-> 0, via |-> "loop"]

(* The aspects of the motor that a command settles. *)
Aspects(cmd) == IF cmd.op \in PowerOps THEN {"power"} ELSE IF cmd.op = "mode" THEN {"mode"} ELSE {}

Init ==
  /\ Mailbox!Init
  /\ call = [c \in Clients |-> NoCall]
  /\ current_mode = [a \in Actuators |-> DefaultMode]
  /\ is_running = FALSE
  /\ motor \in [Actuators -> [on : BOOLEAN, mode : Modes, target : {Idle}]]
  /\ stamp = [a \in Actuators |-> 0]
  /\ last = [a \in Actuators |-> [power |-> Nothing, mode |-> Nothing]]
  /\ stopped_by = [a \in Actuators |-> 0]
  /\ astray = [a \in Actuators |-> {}]

(***************************************************************************)
(* API calls                                                               *)
(***************************************************************************)
Number(a, n) == stamp[a] < MaxCommands /\ n = stamp[a] + 1 /\ stamp' = [stamp EXCEPT ![a] = n]

Set(a) ==
  \E n \in Numbers :
    /\ Number(a, n)
    /\ Mailbox!Post(a, Cmd("setpoint", n, BadMode))
    /\ UNCHANGED <<tracked, is_running, motor, stopped_by, last, astray>>

(* Another client holds a one-shot of the same aspect: the two may leave in *)
(* either order.                                                            *)
Overlaps(c, a, aspect) ==
  \E d \in Clients \ {c} : \E f \in inHand[d] : f.act = a /\ aspect \in Aspects(f.id)

Given(c, a, cmd) ==
  LET aspect == IF cmd.op = "mode" THEN "mode" ELSE "power"
  IN  /\ Number(a, cmd.n)
      /\ last' = [last EXCEPT ![a][aspect] = cmd]
      /\ astray' = [astray EXCEPT ![a] = IF Overlaps(c, a, aspect) THEN @ \cup {aspect}
                                                                   ELSE @ \ {aspect}]

(* EnableActuator; DisableActuator and ClearError, whose frames are stops.  *)
Power(c, a) ==
  \E op \in PowerOps, n \in Numbers :
    /\ call[c] = NoCall
    /\ Mailbox!Issue(c, a, Cmd(op, n, BadMode))
    /\ Given(c, a, Cmd(op, n, BadMode))
    /\ UNCHANGED <<tracked, is_running, motor, stopped_by>>

BeginSetMode(c, a, mode) ==
  /\ call[c] = NoCall
  /\ call' = [d \in Clients |->
                IF d = c THEN [act |-> a, mode |-> mode, rival |-> FALSE]
                ELSE IF call[d].act = a /\ mode \in Modes THEN [call[d] EXCEPT !.rival = TRUE]
                ELSE call[d]]

(* Mistake: the mode is not tracked. *)
SetModeUntracked(c, a) ==
  \E mode \in Modes, n \in Numbers :
    /\ BeginSetMode(c, a, mode)
    /\ Mailbox!Issue(c, a, Cmd("mode", n, mode))
    /\ Given(c, a, Cmd("mode", n, mode))
    /\ UNCHANGED <<current_mode, is_running, motor, stopped_by>>

(* RobstrideMotor::SetMode tracks the mode under send_mtx_ ... *)
SetMode(c, a) ==
  \E mode \in Modes, n \in Numbers :
    /\ BeginSetMode(c, a, mode)
    /\ Mailbox!Issue(c, a, Cmd("mode", n, mode))
    /\ Given(c, a, Cmd("mode", n, mode))
    /\ current_mode' = [current_mode EXCEPT ![a] = mode]
    /\ UNCHANGED <<is_running, motor, stopped_by>>

(* Mistake: the mode is tracked before the table is asked. *)
RejectModeTracked(c, a) ==
  /\ \E n \in Numbers : Number(a, n)
  /\ BeginSetMode(c, a, BadMode)
  /\ Mailbox!Issue(c, a, mailbox[a])
  /\ current_mode' = [current_mode EXCEPT ![a] = BadMode]
  /\ UNCHANGED <<is_running, motor, stopped_by, last, astray>>

(* A mode outside the table is not written; what the slot held goes out.    *)
RejectMode(c, a) ==
  /\ \E n \in Numbers : Number(a, n)
  /\ BeginSetMode(c, a, BadMode)
  /\ Mailbox!Issue(c, a, mailbox[a])
  /\ UNCHANGED <<current_mode, is_running, motor, stopped_by, last, astray>>

(* The newest command of an aspect is lost. *)
Lost(f) ==
  astray' = [astray EXCEPT ![f.act] = @ \cup {x \in Aspects(f.id) : last[f.act][x] = f.id}]

Fire(c) ==
  /\ Mailbox!Fire(c)
  /\ \/ /\ Len(tx_queue) < TxQueueSize
        /\ UNCHANGED astray
     \/ /\ Len(tx_queue) >= TxQueueSize
        /\ \E f \in inHand[c] : Lost(f)
  /\ UNCHANGED <<tracked, is_running, motor, stopped_by, stamp, last>>

(* ... and CanBus::SetMode reads it back under recv_mtx_: SetMode returns.  *)
Verifies(c) == call[c] # NoCall /\ inHand[c] = {}
Answer(c)   == current_mode[call[c].act] = call[c].mode

Verify(c) ==
  /\ Verifies(c)
  /\ call' = [call EXCEPT ![c] = NoCall]
  /\ UNCHANGED <<bus, current_mode, is_running, motor, stopped_by, history>>

(***************************************************************************)
(* The control loop.  Stop() joins it (DeviceLifecycle, StoppedIsQuiet),   *)
(* and leaves the slots as they are.                                       *)
(***************************************************************************)
StartStop ==
  /\ is_running' = ~is_running
  /\ UNCHANGED <<bus, tracked, motor, stopped_by, history>>

Repeat(a) ==
  /\ is_running
  /\ Mailbox!Repeat(a)
  /\ UNCHANGED <<tracked, is_running, motor, stopped_by, history>>

(***************************************************************************)
(* The socket and the motors (external).  A motor changes its mode only    *)
(* while it is stopped (robstride.cpp:204).                                *)
(***************************************************************************)
Obey(f) ==
  LET a == f.act
      cmd == f.id
      refused == cmd.op = "mode" /\ motor[a].on
  IN  /\ motor' =
           [motor EXCEPT ![a].on     = IF cmd.op \in PowerOps THEN cmd.op = "enable" ELSE @,
                         ![a].mode   = IF cmd.op = "mode" /\ ~refused THEN cmd.mode ELSE @,
                         ![a].target = IF cmd.op = "stop" THEN Idle
                                       ELSE IF cmd.op = "setpoint" /\ motor[a].on
                                       THEN [n |-> cmd.n, via |-> f.via]
                                       ELSE @]
      /\ stopped_by' = [stopped_by EXCEPT ![a] = IF cmd.op = "stop" THEN cmd.n ELSE @]
      /\ IF refused THEN Lost(f) ELSE UNCHANGED astray

Deliver ==
  /\ Mailbox!Take
  /\ Obey(Head(tx_queue))
  /\ UNCHANGED <<tracked, is_running, stamp, last>>

Lose ==
  /\ Mailbox!Take
  /\ Lost(Head(tx_queue))
  /\ UNCHANGED <<tracked, is_running, motor, stopped_by, stamp, last>>

-------------------------------------------------------------------------------
Socket    == Deliver \/ Lose
Finish(c) == Fire(c) \/ Verify(c)

Next ==
  \/ \E a \in Actuators : Set(a) \/ Repeat(a)
  \/ \E c \in Clients, a \in Actuators :
       Power(c, a) \/ SetMode(c, a) \/ RejectMode(c, a)
  \/ \E c \in Clients : Finish(c)
  \/ StartStop
  \/ Socket

(* The loop runs and some slot holds a setpoint: it transmits, and so       *)
(* notifies the sender, every cycle.                                        *)
LoopNotifies == is_running /\ \E a \in Actuators : mailbox[a] # Nothing

(* A call that has begun goes on.  The sender takes what is queued as long  *)
(* as the loop notifies it; otherwise it may have missed the notification   *)
(* of the queued frame and sleep on (SocketCANTx, OneShotsSettle).          *)
Fairness == (\A c \in Clients : WF_vars(Finish(c))) /\ WF_vars(LoopNotifies /\ Socket)

SafetySpec == Init /\ [][Next]_vars
Spec == SafetySpec /\ Fairness

-------------------------------------------------------------------------------
(***************************************************************************)
(* Properties                                                              *)
(***************************************************************************)
Command == OneShot \cup Periodic \cup {Nothing}
Frame   == [act : Actuators, via : {"once", "loop"}, id : Command, data : Command]

(* Every variable holds a value of its type. *)
TypeOK ==
  /\ mailbox \in [Actuators -> Periodic \cup {Nothing}]
  /\ inHand \in [Clients -> SUBSET Frame]
  /\ tx_queue \in Seq(Frame) /\ Len(tx_queue) <= TxQueueSize
  /\ call \in [Clients -> [act : Actuators, mode : Modes \cup {BadMode}, rival : BOOLEAN] \cup {NoCall}]
  /\ current_mode \in [Actuators -> Modes \cup {BadMode}]
  /\ is_running \in BOOLEAN
  /\ motor \in [Actuators -> [on : BOOLEAN, mode : Modes,
                              target : [n : 0 .. MaxCommands, via : {"once", "loop"}]]]
  /\ stamp \in [Actuators -> 0 .. MaxCommands]
  /\ last \in [Actuators -> [power : Command, mode : Command]]
  /\ stopped_by \in [Actuators -> 0 .. MaxCommands]
  /\ astray \in [Actuators -> SUBSET {"power", "mode"}]

(* Nothing that settles the aspect is on its way to the motor. *)
Settled(a, aspect) ==
  /\ \A c \in Clients : \A f \in inHand[c] : f.act = a => aspect \notin Aspects(f.id)
  /\ \A i \in DOMAIN tx_queue : tx_queue[i].act = a => aspect \notin Aspects(tx_queue[i].id)

(* When its commands have arrived, a motor is on or off as the last call    *)
(* asked for, although SendOnce transmits outside the lock: unless that     *)
(* frame was lost, or two clients had power commands in hand at once.       *)
LastCallWins ==
  \A a \in Actuators :
    /\ Settled(a, "power")
    /\ "power" \notin astray[a]
    /\ last[a].power # Nothing
    => motor[a].on = (last[a].power.op = "enable")

(* "GetMode() returns the new mode immediately" (can_bus.cpp:294), before   *)
(* any frame is sent.  Once a mode was set, the tracked mode is the motor's *)
(* as soon as nothing is on its way, unless the frame was lost, the motor   *)
(* was running, or two clients set modes at once.                           *)
ModeIsTracked ==
  \A a \in Actuators :
    /\ Settled(a, "mode")
    /\ "mode" \notin astray[a]
    /\ last[a].mode # Nothing
    => motor[a].mode = current_mode[a]

(* SetMode reads the mode back under another mutex than the one it wrote it *)
(* under: it answers true for a mode of the table unless another client has *)
(* set one since, and false for any other value.                            *)
SetModeAnswers ==
  \A c \in Clients :
    Verifies(c) => IF call[c].mode = BadMode THEN ~Answer(c) ELSE Answer(c) \/ call[c].rival

(* What the loop makes a running motor do was asked for after the motor was *)
(* last stopped: a stop, and whatever starts and stops of the loop follow   *)
(* it, leave no setpoint behind for the next enable.                        *)
NoOldSetpointMoves ==
  \A a \in Actuators :
    LET target == motor[a].target
    IN  target # Idle /\ target.via = "loop" => target.n > stopped_by[a]

(* Under a loop that stays running with a setpoint to repeat, for whichever *)
(* motor, the last call on the power of a motor takes effect, unless it     *)
(* goes astray or another call takes its place.  Without such a loop its    *)
(* frame may stay in the queue, its notification missed (SocketCANTx).      *)
LastCallTakesEffect ==
  <>[]LoopNotifies =>
    \A a \in Actuators, n \in Numbers :
      last[a].power.n = n
        ~> motor[a].on = (last[a].power.op = "enable") \/ "power" \in astray[a] \/ last[a].power.n # n
===============================================================================
