----------------------------- MODULE DeviceLifecycle -----------------------------
(***************************************************************************)
(* Starting and stopping: XyberController owns the devices, each CanDevice *)
(* owns one control-loop thread, and the loop calls TransmitAll() on one   *)
(* bus after another while is_running_ is set.  One thread calls           *)
(* CreateDevice, AttachActuator, SetRealtime, Start and Stop; none of them *)
(* takes a lock, so what keeps the loops away from the maps they change is *)
(* that Stop() joins.  Other threads give setpoints all the time.          *)
(*                                                                         *)
(* A bus sends the setpoint of its slot each cycle (see CanBusSend); here  *)
(* a setpoint is a number, 0 when there is none.  `served' and `sent' are  *)
(* history: no guard of the code reads them.                               *)
(***************************************************************************)
EXTENDS Naturals

CONSTANTS
  Devices,        \* device names
  NBuses,         \* MAX_CAN_BUSES
  Realtime,       \* realtime settings: priority and core
  MaxActuators,   \* bound: actuators per bus
  MaxSetpoints    \* bound: setpoints per bus

ASSUME LifecycleAssumption ==
  /\ NBuses \in Nat \ {0}
  /\ Realtime # {}
  /\ MaxActuators \in Nat
  /\ MaxSetpoints \in Nat

VARIABLES
  device_map,     \* the devices that were created
  is_running,     \* the controller's is_running_
  realtime,       \* the controller's rt_priority_ and bind_cpu_
  dev_running,    \* dev_running[d]: the device's is_running_
  loop,           \* loop[d]: where control_loop_thread_ is, "none" if there is none
  loop_realtime,  \* loop_realtime[d]: the settings the loop was started with
  visiting,       \* visiting[d]: the bus the loop transmits on next
  attached,       \* attached[d][b]: number of actuators registered on bus b
  setpoint,       \* setpoint[d][b]: the setpoint in bus b's slot, 0 if none
  sent,           \* history: sent[d][b], the setpoint the loop sent last
  pc,             \* what the lifecycle thread does: "idle", "start", "stop", "join"
  todo,           \* the devices its Start or Stop has still to visit
  joining,        \* the device whose loop it joins
  served          \* history: the devices the last Start visited

lifecycle == <<device_map, is_running, realtime, pc, todo, joining, served>>
loops     == <<dev_running, loop, loop_realtime, visiting>>
traffic   == <<attached, setpoint, sent>>
vars      == <<lifecycle, loops, traffic>>

Buses == 0 .. NBuses - 1

Init ==
  /\ device_map = {}
  /\ is_running = FALSE
  /\ realtime \in Realtime
  /\ dev_running = [d \in Devices |-> FALSE]
  /\ loop = [d \in Devices |-> "none"]
  /\ loop_realtime = [d \in Devices |-> realtime]
  /\ visiting = [d \in Devices |-> 0]
  /\ attached = [d \in Devices |-> [b \in Buses |-> 0]]
  /\ setpoint = [d \in Devices |-> [b \in Buses |-> 0]]
  /\ sent = [d \in Devices |-> [b \in Buses |-> 0]]
  /\ pc = "idle"
  /\ todo = {}
  /\ joining = {}
  /\ served = {}

(***************************************************************************)
(* Configuration.                                                          *)
(***************************************************************************)
CreateDevice(d) ==
  /\ pc = "idle"
  /\ d \notin device_map
  /\ device_map' = device_map \cup {d}
  /\ UNCHANGED <<is_running, realtime, pc, todo, joining, served, loops, traffic>>

(* Mistake: a running device is not refused. *)
AttachAnyTime(d, b) ==
  /\ pc = "idle"
  /\ d \in device_map
  /\ attached[d][b] < MaxActuators
  /\ attached' = [attached EXCEPT ![d][b] = @ + 1]
  /\ UNCHANGED <<lifecycle, loops, setpoint, sent>>

(* RegisterActuator changes the maps TransmitAll reads, without a lock. *)
AttachActuator(d, b) ==
  /\ pc = "idle"
  /\ d \in device_map
  /\ ~dev_running[d]
  /\ attached[d][b] < MaxActuators
  /\ attached' = [attached EXCEPT ![d][b] = @ + 1]
  /\ UNCHANGED <<lifecycle, loops, setpoint, sent>>

(* Mistake: the settings may change while loops run. *)
SetRealtimeAnyTime(r) ==
  /\ pc = "idle"
  /\ realtime' = r
  /\ UNCHANGED <<device_map, is_running, pc, todo, joining, served, loops, traffic>>

SetRealtime(r) ==
  /\ pc = "idle"
  /\ ~is_running
  /\ realtime' = r
  /\ UNCHANGED <<device_map, is_running, pc, todo, joining, served, loops, traffic>>

(***************************************************************************)
(* XyberController::Start and CanDevice::Start.                            *)
(***************************************************************************)
StartBegin ==
  /\ pc = "idle"
  /\ ~is_running
  /\ device_map # {}
  /\ pc' = "start"
  /\ todo' = device_map
  /\ served' = device_map
  /\ UNCHANGED <<device_map, is_running, realtime, joining, loops, traffic>>

StartDevice(d) ==
  /\ pc = "start"
  /\ d \in todo
  /\ todo' = todo \ {d}
  /\ \/ /\ dev_running[d]
        /\ UNCHANGED loops
     \/ /\ ~dev_running[d]
        /\ dev_running' = [dev_running EXCEPT ![d] = TRUE]
        /\ loop' = [loop EXCEPT ![d] = "test"]
        /\ loop_realtime' = [loop_realtime EXCEPT ![d] = realtime]
        /\ UNCHANGED visiting
  /\ UNCHANGED <<device_map, is_running, realtime, pc, joining, served, traffic>>

StartEnd ==
  /\ pc = "start"
  /\ todo = {}
  /\ is_running' = TRUE
  /\ pc' = "idle"
  /\ UNCHANGED <<device_map, realtime, todo, joining, served, loops, traffic>>

(***************************************************************************)
(* XyberController::Stop and CanDevice::Stop.                              *)
(***************************************************************************)
StopBegin ==
  /\ pc = "idle"
  /\ is_running
  /\ pc' = "stop"
  /\ todo' = device_map
  /\ UNCHANGED <<device_map, is_running, realtime, joining, served, loops, traffic>>

(* Mistake: the loop is told to stop and not waited for. *)
StopDeviceDetached(d) ==
  /\ pc = "stop"
  /\ d \in todo
  /\ todo' = todo \ {d}
  /\ dev_running' = [dev_running EXCEPT ![d] = FALSE]
  /\ UNCHANGED <<device_map, is_running, realtime, pc, joining, served,
                 loop, loop_realtime, visiting, traffic>>

StopDevice(d) ==
  /\ pc = "stop"
  /\ d \in todo
  /\ todo' = todo \ {d}
  /\ \/ /\ ~dev_running[d]
        /\ UNCHANGED <<dev_running, pc, joining>>
     \/ /\ dev_running[d]
        /\ dev_running' = [dev_running EXCEPT ![d] = FALSE]
        /\ pc' = "join"
        /\ joining' = {d}
  /\ UNCHANGED <<device_map, is_running, realtime, served,
                 loop, loop_realtime, visiting, traffic>>

Join ==
  /\ pc = "join"
  /\ \A d \in joining : loop[d] = "done"
  /\ loop' = [d \in Devices |-> IF d \in joining THEN "none" ELSE loop[d]]
  /\ joining' = {}
  /\ pc' = "stop"
  /\ UNCHANGED <<device_map, is_running, realtime, todo, served,
                 dev_running, loop_realtime, visiting, traffic>>

StopEnd ==
  /\ pc = "stop"
  /\ todo = {}
  /\ is_running' = FALSE
  /\ pc' = "idle"
  /\ UNCHANGED <<device_map, realtime, todo, joining, served, loops, traffic>>

(***************************************************************************)
(* CanDevice::ControlLoop.                                                 *)
(***************************************************************************)
(* Mistake: the loop does not ask whether it should go on. *)
LoopTestForever(d) ==
  /\ loop[d] = "test"
  /\ loop' = [loop EXCEPT ![d] = "scan"]
  /\ visiting' = [visiting EXCEPT ![d] = 0]
  /\ UNCHANGED <<lifecycle, dev_running, loop_realtime, traffic>>

LoopTest(d) ==
  /\ loop[d] = "test"
  /\ loop' = [loop EXCEPT ![d] = IF dev_running[d] THEN "scan" ELSE "done"]
  /\ visiting' = [visiting EXCEPT ![d] = 0]
  /\ UNCHANGED <<lifecycle, dev_running, loop_realtime, traffic>>

(* CanBus::TransmitAll returns at once on a bus without actuators. *)
TransmitAll(d, b) ==
  sent' = IF attached[d][b] > 0 /\ setpoint[d][b] # 0
          THEN [sent EXCEPT ![d][b] = setpoint[d][b]]
          ELSE sent

(* Mistake: one bus too many. *)
LoopVisitPastEnd(d) ==
  /\ loop[d] = "scan"
  /\ TransmitAll(d, visiting[d])
  /\ \/ /\ visiting[d] <= NBuses - 1
        /\ visiting' = [visiting EXCEPT ![d] = @ + 1]
        /\ UNCHANGED loop
     \/ /\ visiting[d] > NBuses - 1
        /\ loop' = [loop EXCEPT ![d] = "test"]
        /\ UNCHANGED visiting
  /\ UNCHANGED <<lifecycle, dev_running, loop_realtime, attached, setpoint>>

(* Mistake: the first bus without actuators ends the cycle. *)
LoopVisitOrBreak(d) ==
  /\ loop[d] = "scan"
  /\ TransmitAll(d, visiting[d])
  /\ \/ /\ visiting[d] < NBuses - 1
        /\ attached[d][visiting[d]] > 0
        /\ visiting' = [visiting EXCEPT ![d] = @ + 1]
        /\ UNCHANGED loop
     \/ /\ visiting[d] = NBuses - 1 \/ attached[d][visiting[d]] = 0
        /\ loop' = [loop EXCEPT ![d] = "test"]
        /\ UNCHANGED visiting
  /\ UNCHANGED <<lifecycle, dev_running, loop_realtime, attached, setpoint>>

(* After the last bus the loop sleeps until its next cycle. *)
LoopVisit(d) ==
  /\ loop[d] = "scan"
  /\ TransmitAll(d, visiting[d])
  /\ \/ /\ visiting[d] < NBuses - 1
        /\ visiting' = [visiting EXCEPT ![d] = @ + 1]
        /\ UNCHANGED loop
     \/ /\ visiting[d] = NBuses - 1
        /\ loop' = [loop EXCEPT ![d] = "test"]
        /\ UNCHANGED visiting
  /\ UNCHANGED <<lifecycle, dev_running, loop_realtime, attached, setpoint>>

(***************************************************************************)
(* API threads: a setter writes a slot, running or not.                    *)
(***************************************************************************)
SetPeriodic(d, b) ==
  /\ attached[d][b] > 0
  /\ setpoint[d][b] < MaxSetpoints
  /\ setpoint' = [setpoint EXCEPT ![d][b] = @ + 1]
  /\ UNCHANGED <<lifecycle, loops, attached, sent>>

-------------------------------------------------------------------------------
Configure ==
  \/ \E d \in Devices : CreateDevice(d) \/ \E b \in Buses : AttachActuator(d, b)
  \/ \E r \in Realtime : SetRealtime(r)

Proceed ==
  \/ \E d \in Devices : StartDevice(d) \/ StopDevice(d)
  \/ StartEnd \/ Join \/ StopEnd

ControlLoop(d) == LoopTest(d) \/ LoopVisit(d)

Next ==
  \/ Configure
  \/ StartBegin \/ StopBegin
  \/ Proceed
  \/ \E d \in Devices : ControlLoop(d) \/ \E b \in Buses : SetPeriodic(d, b)

(* A Start() or Stop() that has begun goes on, and the control loops run.   *)
(* Nobody has to call anything.                                             *)
Fairness == WF_vars(Proceed) /\ \A d \in Devices : WF_vars(ControlLoop(d))

SafetySpec == Init /\ [][Next]_vars
Spec == SafetySpec /\ Fairness

-------------------------------------------------------------------------------
PerBus(n) == [Devices -> [Buses -> 0 .. n]]

(* Every variable holds a value of its type; the loop stays on its buses. *)
TypeOK ==
  /\ device_map \in SUBSET Devices
  /\ is_running \in BOOLEAN
  /\ realtime \in Realtime
  /\ dev_running \in [Devices -> BOOLEAN]
  /\ loop \in [Devices -> {"none", "test", "scan", "done"}]
  /\ loop_realtime \in [Devices -> Realtime]
  /\ visiting \in [Devices -> Buses]
  /\ attached \in PerBus(MaxActuators)
  /\ setpoint \in PerBus(MaxSetpoints)
  /\ sent \in PerBus(MaxSetpoints)
  /\ pc \in {"idle", "start", "stop", "join"}
  /\ todo \in SUBSET Devices
  /\ joining \in SUBSET Devices
  /\ served \in SUBSET Devices

(* Stop() returns only when no control loop is left, devices created while  *)
(* others ran included, so that Start() never assigns a thread to a handle  *)
(* that still has one, which would end the process.                         *)
StoppedIsQuiet ==
  /\ pc = "idle" /\ ~is_running => \A d \in Devices : loop[d] = "none"
  /\ pc = "start" => \A d \in todo : loop[d] = "none"

(* The maps a control loop iterates never change under it.                  *)
AttachedWhileQuiet ==
  [][\A d \in Devices : attached'[d] # attached[d] => loop[d] = "none"]_vars

(* All control loops run with the settings the controller holds now.        *)
LoopsAgreeOnRealtime ==
  \A d \in Devices : loop[d] # "none" => loop_realtime[d] = realtime

(* Steps left to a loop that is told to stop: the buses of the cycle it is  *)
(* in, and the test of is_running_ after them.                              *)
StepsLeft(d) ==
  IF loop[d] = "scan" THEN NBuses - visiting[d] + 1 ELSE IF loop[d] = "test" THEN 1 ELSE 0

(* While Stop() joins a loop, whatever the loop does, transmitting included,*)
(* belongs to the cycle it was in when CanDevice::Stop() told it: it begins *)
(* no other, so that no bus of the device sends twice after that, and the   *)
(* join ends.  Devices the controller's Stop() has not come to yet run on.  *)
StopsWithinCycle ==
  [][\A d \in joining \cap joining' :
       <<loop[d], visiting[d], sent[d]>>' # <<loop[d], visiting[d], sent[d]>>
         => StepsLeft(d)' < StepsLeft(d)]_vars

(* Stop() returns, whatever the loops are doing when it is called.          *)
StopReturns == pc \in {"stop", "join"} ~> pc = "idle"

(* A setpoint for a device that Start() has visited is sent, unless another *)
(* replaces it or the controller is stopped.                                *)
SetpointsServed ==
  \A d \in Devices, b \in Buses, n \in 1 .. MaxSetpoints :
    is_running /\ d \in served /\ setpoint[d][b] = n
      ~> sent[d][b] = n \/ setpoint[d][b] # n \/ ~is_running \/ pc # "idle"
===============================================================================
