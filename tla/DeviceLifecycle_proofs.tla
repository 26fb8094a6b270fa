------------------------- MODULE DeviceLifecycle_proofs -------------------------
(***************************************************************************)
(* Proofs about DeviceLifecycle, for every set of devices and every number *)
(* of buses.  The properties say what a quiet controller is; the inductive *)
(* invariant adds why it gets there: a loop exists only while its device   *)
(* is running or being joined, and Stop() has still to visit every device  *)
(* that runs.                                                              *)
(***************************************************************************)
EXTENDS DeviceLifecycle, TLAPS

(* Start() and Stop() know every device that has a loop. *)
KnownInv ==
  /\ todo \subseteq device_map
  /\ \A d \in Devices : dev_running[d] => d \in device_map

(* A loop exists only while its device runs or Stop() waits for it. *)
LoopInv ==
  \A d \in Devices : loop[d] # "none" => dev_running[d] \/ d \in joining

(* Which devices run, by what the lifecycle thread does. *)
PhaseInv ==
  /\ pc # "join" => joining = {}
  /\ pc = "start" => ~is_running /\ \A d \in todo : ~dev_running[d]
  /\ pc \in {"stop", "join"} =>
       is_running /\ \A d \in Devices : dev_running[d] => d \in todo
  /\ pc = "idle" /\ ~is_running => \A d \in Devices : ~dev_running[d]

IInv == TypeOK /\ KnownInv /\ LoopInv /\ PhaseInv /\ LoopsAgreeOnRealtime

-------------------------------------------------------------------------------
(* Changing the entry of one bus keeps a table of the buses a table. *)
LEMMA PerBusUpdate ==
  ASSUME NEW n, NEW f \in PerBus(n), NEW d \in Devices, NEW b \in Buses, NEW v \in 0 .. n
  PROVE  [f EXCEPT ![d][b] = v] \in PerBus(n)
  BY DEF PerBus

(* The invariant holds before anything is created. *)
LEMMA InitIInv == Init => IInv
<1> SUFFICES ASSUME Init PROVE IInv
    OBVIOUS
<1>1. \A n \in Nat : [d \in Devices |-> [b \in Buses |-> 0]] \in PerBus(n)
  BY DEF PerBus
<1>2. 0 \in Buses
  BY LifecycleAssumption DEF Buses
<1>3. TypeOK
  BY <1>1, <1>2, LifecycleAssumption DEF Init, TypeOK
<1> QED
  BY <1>3 DEF Init, IInv, KnownInv, LoopInv, PhaseInv, LoopsAgreeOnRealtime

(* Configuration, by a thread that neither starts nor stops anything. *)
LEMMA ConfigureStep == IInv /\ Configure => IInv'
<1> SUFFICES ASSUME IInv, Configure PROVE IInv'
    OBVIOUS
<1> USE LifecycleAssumption DEF IInv, TypeOK, KnownInv, LoopInv, PhaseInv, LoopsAgreeOnRealtime,
                                lifecycle, loops, traffic
<1>1. ASSUME NEW d \in Devices, CreateDevice(d) PROVE IInv'
  BY <1>1 DEF CreateDevice
<1>2. ASSUME NEW d \in Devices, NEW b \in Buses, AttachActuator(d, b) PROVE IInv'
  <2>1. attached' \in PerBus(MaxActuators)
    BY <1>2 DEF AttachActuator, PerBus
  <2> QED
    BY <1>2, <2>1 DEF AttachActuator
<1>3. ASSUME NEW r \in Realtime, SetRealtime(r) PROVE IInv'
  BY <1>3 DEF SetRealtime
<1> QED
  BY <1>1, <1>2, <1>3 DEF Configure

(* Start() gives every idle device one loop. *)
LEMMA StartStep ==
  IInv /\ (StartBegin \/ (\E d \in Devices : StartDevice(d)) \/ StartEnd) => IInv'
<1> USE DEF IInv, TypeOK, KnownInv, LoopInv, PhaseInv, LoopsAgreeOnRealtime,
            lifecycle, loops, traffic
<1>1. ASSUME IInv, StartBegin PROVE IInv'
  BY <1>1 DEF StartBegin
<1>2. ASSUME IInv, NEW d \in Devices, StartDevice(d) PROVE IInv'
  <2>1. CASE dev_running[d]
    BY <1>2, <2>1 DEF StartDevice
  <2>2. CASE ~dev_running[d]
    <3>1. TypeOK'
      <4>1. dev_running' \in [Devices -> BOOLEAN]
        BY <1>2, <2>2 DEF StartDevice
      <4>2. loop' \in [Devices -> {"none", "test", "scan", "done"}]
        BY <1>2, <2>2 DEF StartDevice
      <4>3. loop_realtime' \in [Devices -> Realtime]
        BY <1>2, <2>2 DEF StartDevice
      <4> QED
        BY <1>2, <2>2, <4>1, <4>2, <4>3 DEF StartDevice
    <3>2. KnownInv' /\ PhaseInv'
      BY <1>2, <2>2 DEF StartDevice
    <3>3. LoopInv' /\ LoopsAgreeOnRealtime'
      BY <1>2, <2>2 DEF StartDevice
    <3> QED
      BY <3>1, <3>2, <3>3
  <2> QED
    BY <2>1, <2>2, <1>2
<1>3. ASSUME IInv, StartEnd PROVE IInv'
  BY <1>3 DEF StartEnd
<1> QED
  BY <1>1, <1>2, <1>3

(* Stop() takes the loops away one by one. *)
LEMMA StopStep ==
  IInv /\ (StopBegin \/ (\E d \in Devices : StopDevice(d)) \/ Join \/ StopEnd) => IInv'
<1> USE DEF IInv, TypeOK, KnownInv, LoopInv, PhaseInv, LoopsAgreeOnRealtime,
            lifecycle, loops, traffic
<1>1. ASSUME IInv, StopBegin PROVE IInv'
  BY <1>1 DEF StopBegin
<1>2. ASSUME IInv, NEW d \in Devices, StopDevice(d) PROVE IInv'
  <2>1. CASE ~dev_running[d]
    BY <1>2, <2>1 DEF StopDevice
  <2>2. CASE dev_running[d]
    BY <1>2, <2>2 DEF StopDevice
  <2> QED
    BY <2>1, <2>2, <1>2
<1>3. ASSUME IInv, Join PROVE IInv'
  BY <1>3 DEF Join
<1>4. ASSUME IInv, StopEnd PROVE IInv'
  BY <1>4 DEF StopEnd
<1> QED
  BY <1>1, <1>2, <1>3, <1>4

(* The loops and the setters change neither who runs nor who is joined. *)
LEMMA TrafficStep ==
  ASSUME IInv, NEW d \in Devices,
         ControlLoop(d) \/ \E b \in Buses : SetPeriodic(d, b)
  PROVE  IInv'
<1> USE LifecycleAssumption DEF IInv, TypeOK, KnownInv, LoopInv, PhaseInv, LoopsAgreeOnRealtime,
                                lifecycle, loops, traffic
<1>1. CASE LoopTest(d)
  BY <1>1 DEF LoopTest, Buses
<1>2. CASE LoopVisit(d)
  <2>1. visiting[d] \in Buses /\ setpoint[d][visiting[d]] \in 0 .. MaxSetpoints
    BY DEF PerBus
  <2>2. sent' \in PerBus(MaxSetpoints)
    BY <1>2, <2>1, PerBusUpdate DEF LoopVisit, TransmitAll
  <2>3. visiting' \in [Devices -> Buses]
    BY <1>2 DEF LoopVisit, Buses
  <2> QED
    BY <1>2, <2>2, <2>3 DEF LoopVisit
<1>3. ASSUME NEW b \in Buses, SetPeriodic(d, b) PROVE IInv'
  <2>1. setpoint[d][b] + 1 \in 0 .. MaxSetpoints
    BY <1>3 DEF SetPeriodic, PerBus
  <2>2. setpoint' \in PerBus(MaxSetpoints)
    BY <1>3, <2>1, PerBusUpdate DEF SetPeriodic
  <2> QED
    BY <1>3, <2>2 DEF SetPeriodic
<1> QED
  BY <1>1, <1>2, <1>3 DEF ControlLoop

(* Every step keeps the invariant. *)
LEMMA NextIInv == IInv /\ [Next]_vars => IInv'
<1>1. ASSUME IInv, UNCHANGED vars PROVE IInv'
  BY <1>1 DEF IInv, TypeOK, KnownInv, LoopInv, PhaseInv, LoopsAgreeOnRealtime,
              vars, lifecycle, loops, traffic
<1> QED
  BY <1>1, ConfigureStep, StartStep, StopStep, TrafficStep DEF Next, Proceed

-------------------------------------------------------------------------------
(* The invariant holds in every reachable state. *)
LEMMA Invariance == SafetySpec => []IInv
  BY InitIInv, NextIInv, PTL DEF SafetySpec

(* Every variable keeps its type: no loop visits a bus that does not exist. *)
THEOREM TypeCorrect == SafetySpec => []TypeOK
<1>1. IInv => TypeOK
  BY DEF IInv
<1> QED
  BY <1>1, Invariance, PTL

(* Stop() leaves no loop behind and Start() finds no thread in a handle it  *)
(* is about to assign, however many devices were created, and whenever.     *)
THEOREM StopLeavesNoLoop == SafetySpec => []StoppedIsQuiet
<1>1. IInv => StoppedIsQuiet
  BY DEF IInv, TypeOK, KnownInv, LoopInv, PhaseInv, StoppedIsQuiet
<1> QED
  BY <1>1, Invariance, PTL

(* All control loops run with the settings the controller holds.            *)
THEOREM OneRealtimeSetting == SafetySpec => []LoopsAgreeOnRealtime
<1>1. IInv => LoopsAgreeOnRealtime
  BY DEF IInv
<1> QED
  BY <1>1, Invariance, PTL

(* AttachActuator, which takes no lock, never changes the maps of a device  *)
(* whose control loop still exists: "not running" means "joined".           *)
THEOREM AttachIsSafe == SafetySpec => AttachedWhileQuiet
<1>1. IInv /\ [Next]_vars =>
        [\A d \in Devices : attached'[d] # attached[d] => loop[d] = "none"]_vars
  <2> SUFFICES ASSUME IInv, Next, NEW d \in Devices, attached'[d] # attached[d]
               PROVE  loop[d] = "none"
      OBVIOUS
  <2>1. PICK e \in Devices, b \in Buses : AttachActuator(e, b)
    BY DEF Next, Configure, Proceed, CreateDevice, SetRealtime, StartBegin, StartDevice, StartEnd,
           StopBegin, StopDevice, Join, StopEnd, ControlLoop, LoopTest, LoopVisit, SetPeriodic,
           lifecycle, loops, traffic
  <2>2. e = d
    BY <2>1 DEF AttachActuator, IInv, TypeOK, PerBus
  <2> QED
    BY <2>1, <2>2 DEF AttachActuator, IInv, LoopInv, PhaseInv
<1> QED
  BY <1>1, Invariance, PTL DEF SafetySpec, AttachedWhileQuiet
-------------------------------------------------------------------------------
(* The loop that Stop() waits for exists, was told to stop, and will not be *)
(* visited again; a device that runs has a loop that has not ended.         *)
JoinInv ==
  /\ \A d \in Devices : dev_running[d] => loop[d] \in {"test", "scan"}
  /\ \A d \in joining : ~dev_running[d] /\ loop[d] # "none" /\ d \notin todo

LEMMA NextJoinInv == IInv /\ JoinInv /\ [Next]_vars => JoinInv'
<1> SUFFICES ASSUME IInv, JoinInv, [Next]_vars PROVE JoinInv'
    OBVIOUS
<1>0. TypeOK /\ PhaseInv
  BY DEF IInv
<1>1. ASSUME NEW d \in Devices, StartDevice(d) PROVE JoinInv'
  <2>1. joining = {} /\ joining' = {}
    BY <1>0, <1>1 DEF StartDevice, PhaseInv
  <2> QED
    BY <1>0, <1>1, <2>1 DEF StartDevice, JoinInv, TypeOK, loops
<1>2. ASSUME NEW d \in Devices, StopDevice(d) PROVE JoinInv'
  <2>1. joining = {}
    BY <1>0, <1>2 DEF StopDevice, PhaseInv
  <2>2. CASE ~dev_running[d]
    BY <1>2, <2>1, <2>2 DEF StopDevice, JoinInv
  <2>3. CASE dev_running[d]
    BY <1>0, <1>2, <2>1, <2>3 DEF StopDevice, JoinInv, TypeOK
  <2> QED
    BY <2>2, <2>3
<1>3. CASE Join
  BY <1>0, <1>3 DEF Join, JoinInv, TypeOK
<1>4. ASSUME NEW d \in Devices, LoopTest(d) \/ LoopVisit(d) PROVE JoinInv'
  BY <1>0, <1>4 DEF LoopTest, LoopVisit, JoinInv, TypeOK, lifecycle
<1>5. ASSUME StartBegin \/ StopBegin PROVE JoinInv'
  <2>1. joining' = {}
    BY <1>0, <1>5 DEF StartBegin, StopBegin, PhaseInv
  <2> QED
    BY <1>5, <2>1 DEF StartBegin, StopBegin, JoinInv, loops
<1>6. ASSUME UNCHANGED <<loops, todo, joining>> PROVE JoinInv'
  BY <1>6 DEF JoinInv, loops
<1>7. ASSUME \/ Configure \/ StartEnd \/ StopEnd \/ UNCHANGED vars
             \/ \E d \in Devices, b \in Buses : SetPeriodic(d, b)
      PROVE  JoinInv'
  BY <1>6, <1>7 DEF Configure, CreateDevice, AttachActuator, SetRealtime, StartEnd, StopEnd,
                    SetPeriodic, vars, lifecycle
<1> QED
  BY <1>1, <1>2, <1>3, <1>4, <1>5, <1>7 DEF Next, Proceed, ControlLoop

(* A loop that is joined finishes its cycle and ends: every step it takes   *)
(* is one less of those it had left, so the join waits for NBuses visits at *)
(* most, and every bus sends once more at most.                             *)
THEOREM StopEndsWithinCycle == SafetySpec => StopsWithinCycle
<1>1. Init => JoinInv
  BY DEF Init, JoinInv
<1>2. ASSUME IInv, JoinInv, Next, NEW d \in joining \cap joining',
             <<loop[d], visiting[d], sent[d]>>' # <<loop[d], visiting[d], sent[d]>>
      PROVE  StepsLeft(d)' < StepsLeft(d)
  <2>0. TypeOK /\ PhaseInv /\ d \in Devices
    BY <1>2 DEF IInv, TypeOK
  <2>1. ~dev_running[d] /\ loop[d] # "none" /\ pc = "join"
    BY <1>2, <2>0 DEF JoinInv, PhaseInv
  <2>2. ~Join
    BY <1>2 DEF Join
  <2>3. PICK e \in Devices : LoopTest(e) \/ LoopVisit(e)
    BY <1>2, <2>1, <2>2 DEF Next, Configure, CreateDevice, AttachActuator, SetRealtime, StartBegin,
       StartDevice, StartEnd, StopBegin, StopDevice, StopEnd, Proceed, ControlLoop, SetPeriodic,
       lifecycle, loops, traffic
  <2>4. e = d
    <3>1. visiting[e] \in Buses
      BY <2>0 DEF TypeOK
    <3> QED
      BY <1>2, <2>0, <2>3, <3>1 DEF LoopTest, LoopVisit, TransmitAll, TypeOK, PerBus, traffic
  <2>5. visiting[d] \in 0 .. NBuses - 1 /\ NBuses \in Nat
    BY <2>0, LifecycleAssumption DEF TypeOK, Buses
  <2>6. CASE LoopTest(d)
    BY <2>0, <2>1, <2>6 DEF LoopTest, StepsLeft, TypeOK
  <2>7. CASE LoopVisit(d)
    BY <2>0, <2>5, <2>7 DEF LoopVisit, StepsLeft, TypeOK
  <2> QED
    BY <2>3, <2>4, <2>6, <2>7
<1>3. IInv /\ JoinInv /\ [Next]_vars =>
        [\A d \in joining \cap joining' :
           <<loop[d], visiting[d], sent[d]>>' # <<loop[d], visiting[d], sent[d]>>
             => StepsLeft(d)' < StepsLeft(d)]_vars
  BY <1>2
<1> QED
  BY <1>1, <1>3, NextJoinInv, Invariance, PTL DEF SafetySpec, StopsWithinCycle
===============================================================================
