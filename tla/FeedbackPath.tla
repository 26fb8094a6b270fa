------------------------------ MODULE FeedbackPath ------------------------------
(***************************************************************************)
(* From the frame a motor sends to the value a getter returns.             *)
(* XyberController::CreateDevice and AttachActuator fill the maps that     *)
(* lead from an actuator's name to its device, its bus and its slot of     *)
(* recv_buf_, and CanBus::RegisterActuator enters a callback in the table  *)
(* of the SocketCAN of its interface.  That SocketCAN is one object per    *)
(* interface name, shared by all buses that name it.  Its RX thread reads  *)
(* a frame, copies the callback of the frame's motor id under              *)
(* can_callback_mutex_, and runs the copy outside of it: the callback      *)
(* writes the slot, identifier and then payload, under recv_mtx_.  Nothing *)
(* is decoded before a getter asks (RobstrideMotor::ParseFeedback).        *)
(*                                                                         *)
(* Configuration is one thread's work, before Start().                     *)
(***************************************************************************)
EXTENDS Naturals, FiniteSets

CONSTANTS
  Devices,            \* device names
  Names,              \* actuator names
  Interfaces,         \* CAN interface names
  Nothing,            \* no interface, nobody, no entry of a map
  BusIdx,             \* indices into a device's interface array
  Layouts,            \* the interface arrays CreateDevice is called with
  CanIds,             \* the ids AttachActuator is called with, and of the motors
  MaxActuatorsPerBus, \* MAX_ACTUATORS_PER_BUS
  MaxFrames           \* bound: frames that arrive

VARIABLES
  device_map,       \* device_map[d]: the interfaces of d, or Nothing
  actr_dev_map,     \* actr_dev_map[n]: the device of actuator n, or Nothing
  actuator_bus_map, \* actuator_bus_map[d][n]: the bus of n in d, or Nothing
  actuators,        \* actuators[b][id]: the actuator with this id on bus b, or Nothing
  callbacks,        \* callbacks[i][id]: can_callback_list_ of interface i
  rx,               \* rx[i]: what i's RX thread holds
  recv_mtx,         \* recv_mtx[b]: the interface whose RX thread holds it, or Nothing
  recv_buf,         \* recv_buf[b][s]: the receive slots of bus b
  decoded,          \* decoded[b][id]: what ParseFeedback cached last
  arrived           \* number of frames that have arrived, which numbers them

config == <<device_map, actr_dev_map, actuator_bus_map, actuators, callbacks>>
vars == <<config, rx, recv_mtx, recv_buf, decoded, arrived>>

Bus      == Devices \X BusIdx
Ids      == 1 .. MaxActuatorsPerBus
Slots    == 0 .. MaxActuatorsPerBus - 1
Iface(b) == device_map[b[1]][b[2]]

(* A frame comes from a motor (an interface and an id), is type-2 feedback  *)
(* or of another type, and is the n-th to arrive.                           *)
Frame    == [on : Interfaces, from : CanIds, type : {"feedback", "other"}, n : 1 .. MaxFrames]
NoFrame  == [on |-> Nothing, from |-> 0, type |-> "none", n |-> 0]
CanFrame == [id : Frame \cup {NoFrame}, data : Frame \cup {NoFrame}]
Empty    == [id |-> NoFrame, data |-> NoFrame]

(* The lambda of RegisterActuator: the bus and the slot it captured.        *)
Callback == [bus : Bus, slot : Slots]

ASSUME FeedbackAssumption ==
  /\ Nothing \notin Devices \cup Names \cup Interfaces \cup BusIdx \cup Callback
  /\ Nothing \notin Interfaces \X Nat
  /\ Layouts \subseteq [BusIdx -> Interfaces \cup {Nothing}]
  /\ CanIds \subseteq Nat
  /\ MaxActuatorsPerBus \in Nat
  /\ MaxFrames \in Nat

Reading  == [at |-> "read"]
Delivery == [at : {"write_id", "write_data"}, callback : Callback, frame : Frame]

Init ==
  /\ device_map = [d \in Devices |-> Nothing]
  /\ actr_dev_map = [n \in Names |-> Nothing]
  /\ actuator_bus_map = [d \in Devices |-> [n \in Names |-> Nothing]]
  /\ actuators = [b \in Bus |-> [id \in Ids |-> Nothing]]
  /\ callbacks = [i \in Interfaces |-> [id \in Ids |-> Nothing]]
  /\ rx = [i \in Interfaces |-> Reading]
  /\ recv_mtx = [b \in Bus |-> Nothing]
  /\ recv_buf = [b \in Bus |-> [s \in Slots |-> Empty]]
  /\ decoded = [b \in Bus |-> [id \in Ids |-> Empty]]
  /\ arrived = 0

(***************************************************************************)
(* Configuration.  A call that fails one of its checks changes nothing.    *)
(***************************************************************************)
(* Mistake: a bus clears the callbacks of the SocketCAN it gets. *)
CreateDeviceClearing(d, layout) ==
  /\ device_map[d] = Nothing
  /\ device_map' = [device_map EXCEPT ![d] = layout]
  /\ callbacks' = [i \in Interfaces |->
       IF \E x \in BusIdx : layout[x] = i THEN [id \in Ids |-> Nothing] ELSE callbacks[i]]
  /\ UNCHANGED <<actr_dev_map, actuator_bus_map, actuators,
                 rx, recv_mtx, recv_buf, decoded, arrived>>

CreateDevice(d, layout) ==
  /\ device_map[d] = Nothing
  /\ device_map' = [device_map EXCEPT ![d] = layout]
  /\ UNCHANGED <<actr_dev_map, actuator_bus_map, actuators, callbacks,
                 rx, recv_mtx, recv_buf, decoded, arrived>>

(* SocketCAN::add_can_callback, by RegisterActuator: the newest callback of *)
(* a key replaces the one before it.                                        *)
add_can_callback(i, key, cb) ==
  callbacks' = [callbacks EXCEPT ![i][key] = cb]

(* Mistake: an occupied id is taken over. *)
RegisterActuatorTakingOver(b, n, id) ==
  /\ id \in Ids
  /\ \A other \in Ids : actuators[b][other] # n
  /\ actuators' = [actuators EXCEPT ![b][id] = n]
  /\ recv_buf' = [recv_buf EXCEPT ![b][id - 1] = Empty]
  /\ add_can_callback(Iface(b), id, [bus |-> b, slot |-> id - 1])

(* Mistake: the offset is id, not id - 1. *)
RegisterActuatorNextSlot(b, n, id) ==
  /\ id \in Ids
  /\ actuators[b][id] = Nothing
  /\ \A other \in Ids : actuators[b][other] # n
  /\ actuators' = [actuators EXCEPT ![b][id] = n]
  /\ recv_buf' = [recv_buf EXCEPT ![b][id - 1] = Empty]
  /\ add_can_callback(Iface(b), id, [bus |-> b, slot |-> id])

(* Mistake: the callback writes at the base of recv_buf_. *)
RegisterActuatorAtBase(b, n, id) ==
  /\ id \in Ids
  /\ actuators[b][id] = Nothing
  /\ \A other \in Ids : actuators[b][other] # n
  /\ actuators' = [actuators EXCEPT ![b][id] = n]
  /\ recv_buf' = [recv_buf EXCEPT ![b][id - 1] = Empty]
  /\ add_can_callback(Iface(b), id, [bus |-> b, slot |-> 0])

(* CanBus::RegisterActuator *)
RegisterActuator(b, n, id) ==
  /\ id \in Ids
  /\ actuators[b][id] = Nothing
  /\ \A other \in Ids : actuators[b][other] # n
  /\ actuators' = [actuators EXCEPT ![b][id] = n]
  /\ recv_buf' = [recv_buf EXCEPT ![b][id - 1] = Empty]
  /\ add_can_callback(Iface(b), id, [bus |-> b, slot |-> id - 1])

(* CanDevice::AttachActuator *)
CanDeviceAttachActuator(d, i, n, id) ==
  /\ device_map[d][i] # Nothing
  /\ actuator_bus_map[d][n] = Nothing
  /\ RegisterActuator(<<d, i>>, n, id)
  /\ actuator_bus_map' = [actuator_bus_map EXCEPT ![d][n] = i]

(* XyberController::AttachActuator *)
AttachActuator(d, i, n, id) ==
  /\ device_map[d] # Nothing
  /\ actr_dev_map[n] = Nothing
  /\ CanDeviceAttachActuator(d, i, n, id)
  /\ actr_dev_map' = [actr_dev_map EXCEPT ![n] = d]
  /\ UNCHANGED <<device_map, rx, recv_mtx, decoded, arrived>>

(***************************************************************************)
(* The RX thread of an interface.                                          *)
(***************************************************************************)
(* The callback of the frame's key, copied under can_callback_mutex_.       *)
Lookup(i, id) == IF id \in Ids THEN callbacks[i][id] ELSE Nothing

RxRead(i, id, type) ==
  /\ rx[i].at = "read"
  /\ arrived < MaxFrames
  /\ \E b \in Bus : device_map[b[1]] # Nothing /\ Iface(b) = i
  /\ arrived' = arrived + 1
  /\ \/ /\ Lookup(i, id) = Nothing
        /\ UNCHANGED rx
     \/ /\ Lookup(i, id) # Nothing
        /\ rx' = [rx EXCEPT ![i] =
             [at |-> "write_id", callback |-> Lookup(i, id),
              frame |-> [on |-> i, from |-> id, type |-> type, n |-> arrived']]]
  /\ UNCHANGED <<config, recv_mtx, recv_buf, decoded>>

(* Mistake: the callback does not lock recv_mtx_. *)
RxWriteIdUnlocked(i) ==
  /\ rx[i].at = "write_id"
  /\ LET cb == rx[i].callback IN
       recv_buf' = [recv_buf EXCEPT ![cb.bus][cb.slot].id = rx[i].frame]
  /\ rx' = [rx EXCEPT ![i].at = "write_data"]
  /\ UNCHANGED <<config, recv_mtx, decoded, arrived>>

RxWriteId(i) ==
  /\ rx[i].at = "write_id"
  /\ LET cb == rx[i].callback IN
     /\ recv_mtx[cb.bus] = Nothing
     /\ recv_mtx' = [recv_mtx EXCEPT ![cb.bus] = i]
     /\ recv_buf' = [recv_buf EXCEPT ![cb.bus][cb.slot].id = rx[i].frame]
  /\ rx' = [rx EXCEPT ![i].at = "write_data"]
  /\ UNCHANGED <<config, decoded, arrived>>

RxWriteData(i) ==
  /\ rx[i].at = "write_data"
  /\ LET cb == rx[i].callback IN
     /\ recv_mtx' = [recv_mtx EXCEPT ![cb.bus] = Nothing]
     /\ recv_buf' = [recv_buf EXCEPT ![cb.bus][cb.slot].data = rx[i].frame]
  /\ rx' = [rx EXCEPT ![i] = Reading]
  /\ UNCHANGED <<config, decoded, arrived>>

(***************************************************************************)
(* Getters: GetPosition, GetVelocity, GetEffort, GetTempure,               *)
(* GetErrorString, GetPowerState.  The controller finds the device by the  *)
(* actuator's name, the device the bus, the bus the actuator, whose slot is*)
(* decoded under recv_mtx_.  Frames of other types leave what was decoded  *)
(* before.                                                                 *)
(***************************************************************************)
BusOf(n) == <<actr_dev_map[n], actuator_bus_map[actr_dev_map[n]][n]>>

(* Mistake: frames of every type are decoded. *)
ParseFeedbackAnyType(b, id) ==
  decoded' = [decoded EXCEPT ![b][id] = recv_buf[b][id - 1]]

ParseFeedback(b, id) ==
  decoded' = IF recv_buf[b][id - 1].id.type = "feedback"
             THEN [decoded EXCEPT ![b][id] = recv_buf[b][id - 1]]
             ELSE decoded

CanBusGet(b, n) ==
  /\ recv_mtx[b] = Nothing
  /\ \E id \in Ids : actuators[b][id] = n /\ ParseFeedback(b, id)

CanDeviceGet(d, n) ==
  /\ actuator_bus_map[d][n] # Nothing
  /\ CanBusGet(<<d, actuator_bus_map[d][n]>>, n)

Get(n) ==
  /\ actr_dev_map[n] # Nothing
  /\ CanDeviceGet(actr_dev_map[n], n)
  /\ UNCHANGED <<config, rx, recv_mtx, recv_buf, arrived>>

-------------------------------------------------------------------------------
Configure ==
  \/ \E d \in Devices, layout \in Layouts : CreateDevice(d, layout)
  \/ \E d \in Devices, i \in BusIdx, n \in Names, id \in CanIds : AttachActuator(d, i, n, id)

Receive(i) ==
  \/ \E id \in CanIds, type \in {"feedback", "other"} : RxRead(i, id, type)
  \/ RxWriteId(i)
  \/ RxWriteData(i)

Next ==
  \/ Configure
  \/ \E i \in Interfaces : Receive(i)
  \/ \E n \in Names : Get(n)

Spec == Init /\ [][Next]_vars

-------------------------------------------------------------------------------
(* Every variable holds a value of its type; a callback captured a slot of  *)
(* recv_buf_.                                                               *)
TypeOK ==
  /\ device_map \in [Devices -> Layouts \cup {Nothing}]
  /\ actr_dev_map \in [Names -> Devices \cup {Nothing}]
  /\ actuator_bus_map \in [Devices -> [Names -> BusIdx \cup {Nothing}]]
  /\ actuators \in [Bus -> [Ids -> Names \cup {Nothing}]]
  /\ callbacks \in [Interfaces -> [Ids -> Callback \cup {Nothing}]]
  /\ rx \in [Interfaces -> {Reading} \cup Delivery]
  /\ recv_mtx \in [Bus -> Interfaces \cup {Nothing}]
  /\ recv_buf \in [Bus -> [Slots -> CanFrame]]
  /\ decoded \in [Bus -> [Ids -> CanFrame]]
  /\ arrived \in 0 .. MaxFrames

(* The maps of XyberController, CanDevice and CanBus agree: an attached     *)
(* name leads to one slot of one bus, which no other name leads to, and a   *)
(* name whose attachment was refused at any level leads to none.            *)
Places(n) == {p \in Bus \X Ids : actuators[p[1]][p[2]] = n}
NamesResolve ==
  \A n \in Names :
    IF actr_dev_map[n] = Nothing THEN Places(n) = {}
    ELSE \E id \in Ids : Places(n) = {<<BusOf(n), id>>}

(* What a getter decodes is one frame: the status bits of its identifier    *)
(* and the position, velocity, torque and temperature of its payload.       *)
FeedbackWhole == \A b \in Bus, id \in Ids : decoded[b][id].id = decoded[b][id].data

(* What a getter decodes came from the motor with the actuator's id on the  *)
(* actuator's interface, never from another motor.                          *)
FeedbackIsOwn ==
  \A b \in Bus, id \in Ids :
    decoded[b][id] # Empty =>
      decoded[b][id].id.on = Iface(b) /\ decoded[b][id].id.from = id

(* An actuator whose id no other bus on its interface has registered is the *)
(* one called back for it, whatever else was configured in between.         *)
SoleListener ==
  \A b \in Bus, id \in Ids :
    /\ actuators[b][id] # Nothing
    /\ \A o \in Bus \ {b} :
         device_map[o[1]] # Nothing /\ Iface(o) = Iface(b) => actuators[o][id] = Nothing
    => callbacks[Iface(b)][id] # Nothing /\ callbacks[Iface(b)][id].bus = b

(***************************************************************************)
(* The receive side as a service.  What a name stands for is where the     *)
(* maps lead; a frame counts as recorded when its payload, the part that   *)
(* is written last, is in the slot.                                        *)
(***************************************************************************)
IdOf(n) == CHOOSE id \in Ids : actuators[BusOf(n)][id] = n

Attached(n) == actr_dev_map[n] # Nothing

motorBar ==
  [n \in Names |-> IF Attached(n) THEN <<Iface(BusOf(n)), IdOf(n)>> ELSE Nothing]
newestBar ==
  [n \in Names |-> IF Attached(n) THEN recv_buf[BusOf(n)][IdOf(n) - 1].data ELSE NoFrame]
toldBar ==
  [n \in Names |-> IF Attached(n) THEN decoded[BusOf(n)][IdOf(n)].id ELSE NoFrame]
dueBar ==
  [i \in Interfaces |-> IF rx[i] = Reading THEN NoFrame ELSE rx[i].frame]

Service == INSTANCE FeedbackService
  WITH motor <- motorBar, due <- dueBar, newest <- newestBar, told <- toldBar

(* Maps, callback tables, slots and recv_mtx_ implement the service: a      *)
(* reader sees whole frames of its own motor, in the order they arrived,    *)
(* and no frame of a motor that has been attached is dropped.               *)
ImplementsService == Service!Spec

(* "Register a DEDICATED RX callback for this motor's CAN id"               *)
(* (can_bus.cpp:115), on a SocketCAN that may have several CanBus users     *)
(* (can_bus.cpp:60).  Two buses on one interface that register the same id  *)
(* break it: the second callback replaces the first.                        *)
DedicatedCallback ==
  \A b \in Bus, id \in Ids :
    actuators[b][id] # Nothing =>
      callbacks[Iface(b)][id] # Nothing /\ callbacks[Iface(b)][id].bus = b
===============================================================================
