-------------------------- MODULE FeedbackPath_proofs --------------------------
(***************************************************************************)
(* Proofs about FeedbackPath, for every configuration and any number of    *)
(* frames.  The properties speak of what getters return and of whom the    *)
(* SocketCAN calls back; the inductive invariant follows a frame there: an *)
(* entered callback names a slot of an actuator registered on the same     *)
(* interface, the RX thread holds such a callback even when the entry has  *)
(* been replaced meanwhile, and only the slot it is writing, under the     *)
(* lock it holds, may be torn.                                             *)
(***************************************************************************)
EXTENDS FeedbackPath, TLAPS

(* cb may deliver what motor id sends on interface i. *)
Listener(i, id, cb) ==
  /\ cb \in Callback
  /\ device_map[cb.bus[1]] # Nothing
  /\ Iface(cb.bus) = i
  /\ cb.slot = id - 1
  /\ actuators[cb.bus][id] # Nothing

(* Every entered callback is a listener. *)
CallbackInv ==
  \A i \in Interfaces, id \in Ids :
    callbacks[i][id] # Nothing => Listener(i, id, callbacks[i][id])

(* A registered actuator's key has a callback, perhaps another bus's. *)
HeardInv ==
  \A b \in Bus, id \in Ids :
    actuators[b][id] # Nothing =>
      /\ device_map[b[1]] # Nothing
      /\ Iface(b) \in Interfaces
      /\ callbacks[Iface(b)][id] # Nothing

(* What an RX thread has in hand. *)
RxInv ==
  \A i \in Interfaces : rx[i] \in Delivery =>
    /\ rx[i].frame.on = i
    /\ rx[i].frame.from \in Ids
    /\ Listener(i, rx[i].frame.from, rx[i].callback)

(* Between its two writes an RX thread holds the lock of the bus. *)
HeldInv ==
  \A i \in Interfaces : rx[i] \in Delivery /\ rx[i].at = "write_data" =>
    /\ recv_mtx[rx[i].callback.bus] = i
    /\ recv_buf[rx[i].callback.bus][rx[i].callback.slot].id = rx[i].frame

(* A torn slot is being written. *)
Torn(b, s) == recv_buf[b][s].id # recv_buf[b][s].data
TornInv ==
  \A b \in Bus, s \in Slots : Torn(b, s) =>
    \E i \in Interfaces :
      /\ recv_mtx[b] = i
      /\ rx[i] \in Delivery /\ rx[i].at = "write_data"
      /\ rx[i].callback.bus = b /\ rx[i].callback.slot = s

(* f came from the motor with this id on the interface of bus b. *)
Own(f, b, id) ==
  device_map[b[1]] # Nothing /\ f.on = Iface(b) /\ f.from = id

OwnInv ==
  \A b \in Bus, s \in Slots :
    recv_buf[b][s].id = NoFrame \/ Own(recv_buf[b][s].id, b, s + 1)

DecodedInv ==
  \A b \in Bus, id \in Ids :
    \/ decoded[b][id] = Empty
    \/ decoded[b][id].id = decoded[b][id].data /\ Own(decoded[b][id].id, b, id)

IInv == /\ TypeOK /\ CallbackInv /\ HeardInv /\ RxInv /\ HeldInv
        /\ TornInv /\ OwnInv /\ DecodedInv /\ NamesResolve

-------------------------------------------------------------------------------
(* The invariant holds before anything is created. *)
LEMMA InitIInv == Init => IInv
<1> SUFFICES ASSUME Init PROVE IInv
    OBVIOUS
<1> USE FeedbackAssumption DEF Init
<1>1. Reading \notin Delivery
  BY DEF Reading, Delivery
<1>2. Empty \in CanFrame
  BY DEF Empty, CanFrame
<1>3. TypeOK
  BY <1>2 DEF TypeOK
<1>4. CallbackInv /\ HeardInv
  BY DEF CallbackInv, HeardInv
<1>5. RxInv /\ HeldInv
  BY <1>1 DEF RxInv, HeldInv
<1>6. TornInv /\ OwnInv /\ DecodedInv
  BY DEF TornInv, Torn, OwnInv, DecodedInv, Empty, Slots
<1>7. NamesResolve
  BY DEF NamesResolve, Places
<1> QED
  BY <1>3, <1>4, <1>5, <1>6, <1>7 DEF IInv

(* Creating a device leaves the buses that exist alone. *)
LEMMA CreateStep ==
  ASSUME IInv, NEW d \in Devices, NEW layout \in Layouts, CreateDevice(d, layout)
  PROVE  IInv'
<1> USE DEF CreateDevice, IInv
<1>1. \A b \in Bus : device_map[b[1]] # Nothing => device_map'[b[1]] = device_map[b[1]]
  BY DEF TypeOK, Bus
<1>2. TypeOK'
  BY DEF TypeOK
<1>3. \A i, id, cb : Listener(i, id, cb) => Listener(i, id, cb)'
  BY <1>1 DEF Listener, Iface, Callback
<1>4. CallbackInv' /\ RxInv'
  BY <1>3 DEF CallbackInv, RxInv
<1>5. HeardInv'
  BY <1>1 DEF HeardInv, Iface
<1>6. HeldInv' /\ TornInv'
  BY DEF HeldInv, TornInv, Torn
<1>7. OwnInv' /\ DecodedInv'
  BY <1>1 DEF OwnInv, DecodedInv, Own, Iface, Ids, Slots
<1>8. NamesResolve'
  BY DEF NamesResolve, Places, BusOf
<1> QED
  BY <1>2, <1>4, <1>5, <1>6, <1>7, <1>8

(* Attaching an actuator takes a free slot, which no RX thread writes.      *)
LEMMA AttachStep ==
  ASSUME IInv, NEW d \in Devices, NEW i \in BusIdx, NEW n \in Names, NEW id \in CanIds,
         AttachActuator(d, i, n, id)
  PROVE  IInv'
<1> USE DEF AttachActuator, CanDeviceAttachActuator, RegisterActuator, add_can_callback
<1> DEFINE b == <<d, i>>
           cb == [bus |-> b, slot |-> id - 1]
<1>0. TypeOK
  BY DEF IInv
<1>1. /\ b \in Bus /\ b[1] = d /\ b[2] = i /\ id \in Ids /\ id - 1 \in Slots /\ cb \in Callback
      /\ n # Nothing /\ device_map[d] # Nothing /\ actuators[b][id] = Nothing
  BY FeedbackAssumption DEF Bus, Ids, Slots, Callback
<1>2. Iface(b) \in Interfaces
  BY <1>0, <1>1, FeedbackAssumption DEF TypeOK, Iface
<1>3. /\ actuators' = [actuators EXCEPT ![b][id] = n]
      /\ recv_buf' = [recv_buf EXCEPT ![b][id - 1] = Empty]
      /\ callbacks' = [callbacks EXCEPT ![Iface(b)][id] = cb]
      /\ actuator_bus_map' = [actuator_bus_map EXCEPT ![d][n] = i]
      /\ actr_dev_map' = [actr_dev_map EXCEPT ![n] = d]
      /\ UNCHANGED <<device_map, rx, recv_mtx, decoded, arrived>>
      /\ actr_dev_map[n] = Nothing
  OBVIOUS
<1> HIDE DEF b, cb, AttachActuator, CanDeviceAttachActuator, RegisterActuator, add_can_callback
<1>4. TypeOK'
  <2>1. actuators' \in [Bus -> [Ids -> Names \cup {Nothing}]]
    BY <1>0, <1>1, <1>3 DEF TypeOK
  <2>2. recv_buf' \in [Bus -> [Slots -> CanFrame]]
    <3>1. Empty \in CanFrame
      BY DEF Empty, CanFrame
    <3> QED
      BY <1>0, <1>1, <1>3, <3>1 DEF TypeOK
  <2>3. callbacks' \in [Interfaces -> [Ids -> Callback \cup {Nothing}]]
    BY <1>0, <1>1, <1>2, <1>3 DEF TypeOK
  <2>4. actuator_bus_map' \in [Devices -> [Names -> BusIdx \cup {Nothing}]]
    BY <1>0, <1>3 DEF TypeOK
  <2>5. actr_dev_map' \in [Names -> Devices \cup {Nothing}]
    BY <1>0, <1>3 DEF TypeOK
  <2> QED
    BY <1>0, <1>3, <2>1, <2>2, <2>3, <2>4, <2>5 DEF TypeOK
<1>5. \A c \in Bus, k \in Ids :
        actuators'[c][k] = IF c = b /\ k = id THEN n ELSE actuators[c][k]
  BY <1>0, <1>1, <1>3 DEF TypeOK
<1>6. \A c \in Bus, s \in Slots :
        recv_buf'[c][s] = IF c = b /\ s = id - 1 THEN Empty ELSE recv_buf[c][s]
  BY <1>0, <1>1, <1>3 DEF TypeOK
<1>7. \A j \in Interfaces, k \in Ids :
        callbacks'[j][k] = IF j = Iface(b) /\ k = id THEN cb ELSE callbacks[j][k]
  BY <1>0, <1>1, <1>2, <1>3 DEF TypeOK
<1>8. CallbackInv'
  <2> SUFFICES ASSUME NEW j \in Interfaces, NEW k \in Ids, callbacks'[j][k] # Nothing
               PROVE  Listener(j, k, callbacks[j][k])'
    BY DEF CallbackInv
  <2>1. CASE j = Iface(b) /\ k = id
    <3>1. callbacks'[j][k] = cb
      BY <1>7, <2>1
    <3> QED
      BY <1>1, <1>3, <1>5, <2>1, <3>1 DEF Listener, Iface, cb
  <2>2. CASE ~(j = Iface(b) /\ k = id)
    <3>1. callbacks'[j][k] = callbacks[j][k]
      BY <1>7, <2>2
    <3>2. Listener(j, k, callbacks[j][k])
      BY <3>1 DEF IInv, CallbackInv
    <3>3. callbacks[j][k].bus \in Bus /\ actuators[callbacks[j][k].bus][k] # Nothing
      BY <3>2 DEF Listener, Callback
    <3>4. actuators'[callbacks[j][k].bus][k] # Nothing
      BY <1>1, <1>5, <3>3
    <3> QED
      BY <1>3, <3>1, <3>2, <3>4 DEF Listener, Iface
  <2> QED
    BY <2>1, <2>2
<1>9. HeardInv'
  <2>1. cb # Nothing
    BY <1>1, FeedbackAssumption
  <2> QED
    BY <1>1, <1>2, <1>3, <1>5, <1>7, <2>1 DEF IInv, HeardInv, Iface
<1>10. RxInv'
  <2> SUFFICES ASSUME NEW j \in Interfaces, rx[j] \in Delivery
               PROVE  Listener(j, rx[j].frame.from, rx[j].callback)'
    BY <1>3 DEF IInv, RxInv
  <2>1. rx[j].frame.from \in Ids /\ Listener(j, rx[j].frame.from, rx[j].callback)
    BY DEF IInv, RxInv
  <2> QED
    BY <1>1, <1>3, <1>5, <2>1 DEF Listener, Iface, Callback
<1>11. HeldInv'
  <2> SUFFICES ASSUME NEW j \in Interfaces, rx[j] \in Delivery, rx[j].at = "write_data"
               PROVE  recv_buf'[rx[j].callback.bus][rx[j].callback.slot]
                        = recv_buf[rx[j].callback.bus][rx[j].callback.slot]
    BY <1>3 DEF IInv, HeldInv
  <2>1. /\ rx[j].callback.bus \in Bus /\ rx[j].callback.slot \in Slots
        /\ rx[j].frame.from \in Ids /\ rx[j].callback.slot = rx[j].frame.from - 1
        /\ actuators[rx[j].callback.bus][rx[j].frame.from] # Nothing
    BY DEF IInv, RxInv, Listener, Callback
  <2>2. ~(rx[j].callback.bus = b /\ rx[j].callback.slot = id - 1)
    BY <1>1, <2>1 DEF Ids
  <2> QED
    BY <1>6, <2>1, <2>2
<1>12. TornInv'
  BY <1>3, <1>6 DEF IInv, TornInv, Torn, Empty
<1>13. OwnInv' /\ DecodedInv'
  BY <1>3, <1>6 DEF IInv, OwnInv, DecodedInv, Own, Iface, Empty
<1>14. NamesResolve'
  <2>1. ASSUME NEW m \in Names, m # n
        PROVE  Places(m)' = Places(m) /\ BusOf(m)' = BusOf(m) /\ actr_dev_map'[m] = actr_dev_map[m]
    <3>1. Places(m)' = Places(m)
      <4>1. \A c \in Bus, k \in Ids : actuators'[c][k] = m <=> actuators[c][k] = m
        BY <1>1, <1>5, <2>1, FeedbackAssumption
      <4>2. \A q \in Bus \X Ids : q[1] \in Bus /\ q[2] \in Ids
        OBVIOUS
      <4> QED
        BY <4>1, <4>2 DEF Places
    <3>2. actr_dev_map'[m] = actr_dev_map[m]
      BY <1>0, <1>3, <2>1 DEF TypeOK
    <3>3. \A e : actuator_bus_map'[e][m] = actuator_bus_map[e][m]
      BY <1>0, <1>3, <2>1 DEF TypeOK
    <3> QED
      BY <3>1, <3>2, <3>3 DEF BusOf
  <2>2. Places(n)' = {<<b, id>>}
    BY <1>1, <1>3, <1>5 DEF IInv, NamesResolve, Places
  <2>3. actr_dev_map'[n] = d /\ BusOf(n)' = b
    BY <1>0, <1>3 DEF TypeOK, BusOf, b
  <2>4. actr_dev_map'[n] # Nothing
    BY <2>3, FeedbackAssumption
  <2> QED
    BY <1>1, <2>1, <2>2, <2>3, <2>4 DEF IInv, NamesResolve
<1> QED
  BY <1>4, <1>8, <1>9, <1>10, <1>11, <1>12, <1>13, <1>14 DEF IInv

(* The RX thread copies the callback of the frame's key.                    *)
LEMMA ReadStep ==
  ASSUME IInv, NEW i \in Interfaces, NEW id \in CanIds, NEW type \in {"feedback", "other"},
         RxRead(i, id, type)
  PROVE  IInv'
<1> DEFINE f == [on |-> i, from |-> id, type |-> type, n |-> arrived + 1]
           r == [at |-> "write_id", callback |-> callbacks[i][id], frame |-> f]
<1>0. TypeOK
  BY DEF IInv
<1>1. CASE Lookup(i, id) = Nothing
  <2>1. arrived' \in 0 .. MaxFrames /\ UNCHANGED <<config, rx, recv_mtx, recv_buf, decoded>>
    BY <1>0, <1>1, FeedbackAssumption DEF RxRead, TypeOK
  <2>2. TypeOK'
    BY <1>0, <2>1 DEF TypeOK, config
  <2>3. CallbackInv' /\ HeardInv' /\ RxInv' /\ HeldInv' /\ TornInv'
    BY <2>1 DEF IInv, CallbackInv, HeardInv, RxInv, HeldInv, TornInv, Torn, Listener, Iface, config
  <2>4. OwnInv' /\ DecodedInv' /\ NamesResolve'
    BY <2>1 DEF IInv, OwnInv, DecodedInv, Own, Iface, NamesResolve, Places, BusOf, config
  <2> QED
    BY <2>2, <2>3, <2>4 DEF IInv
<1>2. CASE Lookup(i, id) # Nothing
  <2>1. id \in Ids /\ callbacks[i][id] # Nothing /\ Lookup(i, id) = callbacks[i][id]
    BY <1>2 DEF Lookup
  <2>2. /\ rx' = [rx EXCEPT ![i] = r] /\ arrived' = arrived + 1 /\ rx[i].at = "read"
        /\ arrived < MaxFrames /\ UNCHANGED <<config, recv_mtx, recv_buf, decoded>>
    BY <1>2, <2>1 DEF RxRead
  <2>3. Listener(i, id, callbacks[i][id])
    BY <2>1 DEF IInv, CallbackInv
  <2>4. arrived' \in 1 .. MaxFrames /\ f \in Frame /\ r \in Delivery
    BY <1>0, <2>2, <2>3, FeedbackAssumption DEF TypeOK, Frame, Delivery, Listener
  <2>5. r.at = "write_id" /\ r.callback = callbacks[i][id] /\ r.frame.on = i /\ r.frame.from = id
    OBVIOUS
  <2>6. rx'[i] = r /\ \A j \in Interfaces \ {i} : rx'[j] = rx[j]
    BY <1>0, <2>2 DEF TypeOK
  <2> HIDE DEF r
  <2>7. TypeOK'
    BY <1>0, <2>2, <2>4 DEF TypeOK, config
  <2>8. CallbackInv' /\ HeardInv'
    BY <2>2 DEF IInv, CallbackInv, HeardInv, Listener, Iface, config
  <2>9. RxInv'
    <3> SUFFICES ASSUME NEW j \in Interfaces, rx'[j] \in Delivery
                 PROVE  /\ rx'[j].frame.on = j
                        /\ rx'[j].frame.from \in Ids
                        /\ Listener(j, rx'[j].frame.from, rx'[j].callback)
      BY <2>2 DEF RxInv, Listener, Iface, config
    <3>1. CASE j = i
      BY <2>1, <2>3, <2>5, <2>6, <3>1
    <3>2. CASE j # i
      BY <2>6, <3>2 DEF IInv, RxInv
    <3> QED
      BY <3>1, <3>2
  <2>10. HeldInv'
    BY <2>2, <2>5, <2>6 DEF IInv, HeldInv
  <2>11. TornInv'
    BY <2>2, <2>6 DEF IInv, TornInv, Torn
  <2>12. OwnInv' /\ DecodedInv' /\ NamesResolve'
    BY <2>2 DEF IInv, OwnInv, DecodedInv, Own, Iface, NamesResolve, Places, BusOf, config
  <2> QED
    BY <2>7, <2>8, <2>9, <2>10, <2>11, <2>12 DEF IInv
<1> QED
  BY <1>1, <1>2

(* The callback takes recv_mtx_ and writes the identifier into its slot.    *)
LEMMA WriteIdStep ==
  ASSUME IInv, NEW i \in Interfaces, RxWriteId(i)
  PROVE  IInv'
<1> DEFINE b == rx[i].callback.bus
           s == rx[i].callback.slot
           f == rx[i].frame
           r == [rx[i] EXCEPT !.at = "write_data"]
<1>0. TypeOK
  BY DEF IInv
<1>1. rx[i] \in Delivery
  BY <1>0 DEF RxWriteId, TypeOK, Reading
<1>2. /\ b \in Bus /\ s \in Slots /\ f \in Frame /\ f # NoFrame
      /\ Own(f, b, s + 1)
  BY <1>1, FeedbackAssumption
  DEF IInv, RxInv, Listener, Own, Delivery, Callback, Frame, NoFrame, Ids
<1>3. r \in Delivery /\ r.at = "write_data" /\ r.callback = rx[i].callback /\ r.frame = f
  BY <1>1 DEF Delivery
<1>4. /\ recv_mtx[b] = Nothing
      /\ recv_mtx' = [recv_mtx EXCEPT ![b] = i]
      /\ recv_buf' = [recv_buf EXCEPT ![b][s].id = f]
      /\ rx' = [rx EXCEPT ![i] = r] /\ rx[i].at = "write_id"
      /\ UNCHANGED <<config, decoded, arrived>>
  BY <1>0 DEF RxWriteId, TypeOK
<1> HIDE DEF b, s, f, r
<1>5. rx'[i] = r /\ \A j \in Interfaces \ {i} : rx'[j] = rx[j]
  BY <1>0, <1>4 DEF TypeOK
<1>6. recv_mtx'[b] = i /\ \A c \in Bus \ {b} : recv_mtx'[c] = recv_mtx[c]
  BY <1>0, <1>2, <1>4 DEF TypeOK
<1>7. /\ recv_buf'[b][s] = [recv_buf[b][s] EXCEPT !.id = f]
      /\ \A c \in Bus, k \in Slots : c # b \/ k # s => recv_buf'[c][k] = recv_buf[c][k]
  BY <1>0, <1>2, <1>4 DEF TypeOK
<1>8. recv_buf'[b][s] \in CanFrame /\ recv_buf'[b][s].id = f
  <2>1. recv_buf[b][s] \in CanFrame
    BY <1>0, <1>2 DEF TypeOK
  <2> QED
    BY <1>2, <1>7, <2>1 DEF CanFrame
<1>9. TypeOK'
  <2>1. recv_buf' \in [Bus -> [Slots -> CanFrame]]
    <3>1. recv_buf' = [recv_buf EXCEPT ![b] = [recv_buf[b] EXCEPT ![s] = recv_buf'[b][s]]]
      BY <1>0, <1>2, <1>4, <1>7 DEF TypeOK
    <3>2. [recv_buf[b] EXCEPT ![s] = recv_buf'[b][s]] \in [Slots -> CanFrame]
      BY <1>0, <1>2, <1>8 DEF TypeOK
    <3> QED
      BY <1>0, <1>2, <3>1, <3>2 DEF TypeOK
  <2>2. rx' \in [Interfaces -> {Reading} \cup Delivery]
    BY <1>0, <1>3, <1>4 DEF TypeOK
  <2>3. recv_mtx' \in [Bus -> Interfaces \cup {Nothing}]
    BY <1>0, <1>4 DEF TypeOK
  <2> QED
    BY <1>0, <1>4, <2>1, <2>2, <2>3 DEF TypeOK, config
<1>10. CallbackInv' /\ HeardInv'
  BY <1>4 DEF IInv, CallbackInv, HeardInv, Listener, Iface, config
<1>11. RxInv'
  <2> SUFFICES ASSUME NEW j \in Interfaces, rx'[j] \in Delivery
               PROVE  /\ rx'[j].frame.on = j
                      /\ rx'[j].frame.from \in Ids
                      /\ Listener(j, rx'[j].frame.from, rx'[j].callback)
    BY <1>4 DEF RxInv, Listener, Iface, config
  <2> QED
    BY <1>1, <1>3, <1>5 DEF IInv, RxInv, f
<1>12. HeldInv'
  <2> SUFFICES ASSUME NEW j \in Interfaces, rx'[j] \in Delivery, rx'[j].at = "write_data"
               PROVE  /\ recv_mtx'[rx'[j].callback.bus] = j
                      /\ recv_buf'[rx'[j].callback.bus][rx'[j].callback.slot].id = rx'[j].frame
    BY DEF HeldInv
  <2>1. CASE j = i
    BY <1>3, <1>5, <1>6, <1>8, <2>1 DEF b, s
  <2>2. CASE j # i
    <3>1. /\ rx'[j] = rx[j] /\ recv_mtx[rx[j].callback.bus] = j
          /\ recv_buf[rx[j].callback.bus][rx[j].callback.slot].id = rx[j].frame
          /\ rx[j].callback.bus \in Bus /\ rx[j].callback.slot \in Slots
      BY <1>5, <2>2 DEF IInv, HeldInv, RxInv, Listener, Callback
    <3>2. rx[j].callback.bus # b
      BY <1>4, <3>1, FeedbackAssumption
    <3> QED
      BY <1>6, <1>7, <3>1, <3>2
  <2> QED
    BY <2>1, <2>2
<1>13. TornInv'
  <2> SUFFICES ASSUME NEW c \in Bus, NEW k \in Slots, Torn(c, k)'
               PROVE  \E j \in Interfaces :
                        /\ recv_mtx'[c] = j
                        /\ rx'[j] \in Delivery /\ rx'[j].at = "write_data"
                        /\ rx'[j].callback.bus = c /\ rx'[j].callback.slot = k
    BY DEF TornInv
  <2>1. CASE c = b /\ k = s
    BY <1>3, <1>5, <1>6, <2>1 DEF b, s
  <2>2. CASE c # b \/ k # s
    <3>1. Torn(c, k)
      BY <1>7, <2>2 DEF Torn
    <3>2. PICK j \in Interfaces :
            /\ recv_mtx[c] = j
            /\ rx[j] \in Delivery /\ rx[j].at = "write_data"
            /\ rx[j].callback.bus = c /\ rx[j].callback.slot = k
      BY <3>1 DEF IInv, TornInv
    <3>3. c # b /\ j # i
      BY <1>4, <3>2, FeedbackAssumption
    <3> QED
      BY <1>5, <1>6, <3>2, <3>3
  <2> QED
    BY <2>1, <2>2
<1>14. OwnInv'
  BY <1>2, <1>4, <1>7, <1>8 DEF IInv, OwnInv, Own, Iface, config
<1>15. DecodedInv' /\ NamesResolve'
  BY <1>4 DEF IInv, DecodedInv, Own, Iface, NamesResolve, Places, BusOf, config
<1> QED
  BY <1>9, <1>10, <1>11, <1>12, <1>13, <1>14, <1>15 DEF IInv

(* The callback writes the payload and lets recv_mtx_ go.                   *)
LEMMA WriteDataStep ==
  ASSUME IInv, NEW i \in Interfaces, RxWriteData(i)
  PROVE  IInv'
<1> DEFINE b == rx[i].callback.bus
           s == rx[i].callback.slot
           f == rx[i].frame
<1>0. TypeOK
  BY DEF IInv
<1>1. rx[i] \in Delivery /\ rx[i].at = "write_data"
  BY <1>0 DEF RxWriteData, TypeOK, Reading
<1>2. /\ b \in Bus /\ s \in Slots /\ f \in Frame
      /\ recv_mtx[b] = i /\ recv_buf[b][s].id = f
  BY <1>1 DEF IInv, RxInv, HeldInv, Listener, Delivery, Callback
<1>3. /\ recv_mtx' = [recv_mtx EXCEPT ![b] = Nothing]
      /\ recv_buf' = [recv_buf EXCEPT ![b][s].data = f]
      /\ rx' = [rx EXCEPT ![i] = Reading]
      /\ UNCHANGED <<config, decoded, arrived>>
  BY DEF RxWriteData
<1>4. Reading \notin Delivery
  BY DEF Reading, Delivery
<1> HIDE DEF b, s, f
<1>5. rx'[i] = Reading /\ \A j \in Interfaces \ {i} : rx'[j] = rx[j]
  BY <1>0, <1>3 DEF TypeOK
<1>6. \A c \in Bus \ {b} : recv_mtx'[c] = recv_mtx[c]
  BY <1>0, <1>2, <1>3 DEF TypeOK
<1>7. /\ recv_buf'[b][s] = [recv_buf[b][s] EXCEPT !.data = f]
      /\ \A c \in Bus, k \in Slots : c # b \/ k # s => recv_buf'[c][k] = recv_buf[c][k]
  BY <1>0, <1>2, <1>3 DEF TypeOK
<1>8. /\ recv_buf'[b][s] \in CanFrame
      /\ recv_buf'[b][s].id = recv_buf[b][s].id /\ recv_buf'[b][s].data = f
  <2>1. recv_buf[b][s] \in CanFrame
    BY <1>0, <1>2 DEF TypeOK
  <2> QED
    BY <1>2, <1>7, <2>1 DEF CanFrame
<1>9. TypeOK'
  <2>1. recv_buf' \in [Bus -> [Slots -> CanFrame]]
    <3>1. recv_buf' = [recv_buf EXCEPT ![b] = [recv_buf[b] EXCEPT ![s] = recv_buf'[b][s]]]
      BY <1>0, <1>2, <1>3, <1>7 DEF TypeOK
    <3>2. [recv_buf[b] EXCEPT ![s] = recv_buf'[b][s]] \in [Slots -> CanFrame]
      BY <1>0, <1>2, <1>8 DEF TypeOK
    <3> QED
      BY <1>0, <1>2, <3>1, <3>2 DEF TypeOK
  <2>2. rx' \in [Interfaces -> {Reading} \cup Delivery]
    BY <1>0, <1>3 DEF TypeOK
  <2>3. recv_mtx' \in [Bus -> Interfaces \cup {Nothing}]
    BY <1>0, <1>3 DEF TypeOK
  <2> QED
    BY <1>0, <1>3, <2>1, <2>2, <2>3 DEF TypeOK, config
<1>10. CallbackInv' /\ HeardInv'
  BY <1>3 DEF IInv, CallbackInv, HeardInv, Listener, Iface, config
<1>11. RxInv'
  BY <1>3, <1>4, <1>5 DEF IInv, RxInv, Listener, Iface, config
<1>12. HeldInv'
  <2> SUFFICES ASSUME NEW j \in Interfaces, rx'[j] \in Delivery, rx'[j].at = "write_data"
               PROVE  /\ recv_mtx'[rx'[j].callback.bus] = j
                      /\ recv_buf'[rx'[j].callback.bus][rx'[j].callback.slot].id = rx'[j].frame
    BY DEF HeldInv
  <2>1. j # i /\ rx'[j] = rx[j]
    BY <1>4, <1>5
  <2>2. /\ recv_mtx[rx[j].callback.bus] = j
        /\ recv_buf[rx[j].callback.bus][rx[j].callback.slot].id = rx[j].frame
        /\ rx[j].callback.bus \in Bus /\ rx[j].callback.slot \in Slots
    BY <2>1 DEF IInv, HeldInv, RxInv, Listener, Callback
  <2> QED
    BY <1>2, <1>6, <1>7, <2>1, <2>2
<1>13. TornInv'
  <2> SUFFICES ASSUME NEW c \in Bus, NEW k \in Slots, Torn(c, k)'
               PROVE  \E j \in Interfaces :
                        /\ recv_mtx'[c] = j
                        /\ rx'[j] \in Delivery /\ rx'[j].at = "write_data"
                        /\ rx'[j].callback.bus = c /\ rx'[j].callback.slot = k
    BY DEF TornInv
  <2>1. c # b \/ k # s
    BY <1>2, <1>8 DEF Torn
  <2>2. Torn(c, k)
    BY <1>7, <2>1 DEF Torn
  <2>3. PICK j \in Interfaces :
          /\ recv_mtx[c] = j
          /\ rx[j] \in Delivery /\ rx[j].at = "write_data"
          /\ rx[j].callback.bus = c /\ rx[j].callback.slot = k
    BY <2>2 DEF IInv, TornInv
  <2>4. j # i /\ c # b
    BY <1>2, <2>1, <2>3 DEF b, s
  <2> QED
    BY <1>5, <1>6, <2>3, <2>4
<1>14. OwnInv'
  BY <1>2, <1>3, <1>7, <1>8 DEF IInv, OwnInv, Own, Iface, config
<1>15. DecodedInv' /\ NamesResolve'
  BY <1>3 DEF IInv, DecodedInv, Own, Iface, NamesResolve, Places, BusOf, config
<1> QED
  BY <1>9, <1>10, <1>11, <1>12, <1>13, <1>14, <1>15 DEF IInv

(* A getter decodes a slot that nobody is writing.                          *)
LEMMA GetStep ==
  ASSUME IInv, NEW n \in Names, Get(n)
  PROVE  IInv'
<1> DEFINE b == BusOf(n)
<1>0. TypeOK
  BY DEF IInv
<1>1. PICK id \in Ids : actuators[b][id] = n /\ ParseFeedback(b, id)
  BY DEF Get, CanDeviceGet, CanBusGet, BusOf
<1>2. b \in Bus
  <2>1. PICK k \in Ids : Places(n) = {<<b, k>>}
    BY DEF Get, IInv, NamesResolve
  <2> HIDE DEF b
  <2>2. <<b, k>> \in Places(n)
    BY <2>1
  <2> QED
    BY <2>2 DEF Places
<1>3. id - 1 \in Slots /\ (id - 1) + 1 = id
  BY FeedbackAssumption DEF Ids, Slots
<1>4. recv_mtx[b] = Nothing /\ UNCHANGED <<config, rx, recv_mtx, recv_buf, arrived>>
  BY DEF Get, CanDeviceGet, CanBusGet, BusOf
<1> HIDE DEF b
<1>5. recv_buf[b][id - 1] \in CanFrame /\ ~Torn(b, id - 1)
  BY <1>0, <1>2, <1>3, <1>4, FeedbackAssumption DEF IInv, TypeOK, TornInv
<1>6. TypeOK' /\ DecodedInv'
  <2>1. CASE recv_buf[b][id - 1].id.type = "feedback"
    <3>1. decoded' = [decoded EXCEPT ![b][id] = recv_buf[b][id - 1]]
      BY <1>1, <2>1 DEF ParseFeedback
    <3>2. recv_buf[b][id - 1].id # NoFrame
      BY <2>1 DEF NoFrame
    <3>3. Own(recv_buf[b][id - 1].id, b, id)
      BY <1>2, <1>3, <3>2 DEF IInv, OwnInv
    <3>4. decoded' \in [Bus -> [Ids -> CanFrame]]
      BY <1>0, <1>2, <1>5, <3>1 DEF TypeOK
    <3>5. /\ decoded'[b][id] = recv_buf[b][id - 1]
          /\ \A c \in Bus, k \in Ids : c # b \/ k # id => decoded'[c][k] = decoded[c][k]
      BY <1>0, <1>2, <3>1 DEF TypeOK
    <3>6. TypeOK'
      BY <1>0, <1>4, <3>4 DEF TypeOK, config
    <3>7. DecodedInv'
      BY <1>4, <1>5, <3>3, <3>5 DEF IInv, DecodedInv, Own, Iface, Torn, config
    <3> QED
      BY <3>6, <3>7
  <2>2. CASE recv_buf[b][id - 1].id.type # "feedback"
    <3>1. decoded' = decoded
      BY <1>1, <2>2 DEF ParseFeedback
    <3> QED
      BY <1>4, <3>1 DEF IInv, TypeOK, DecodedInv, Own, Iface, config
  <2> QED
    BY <2>1, <2>2
<1>7. CallbackInv' /\ HeardInv' /\ RxInv' /\ HeldInv' /\ TornInv'
  BY <1>4 DEF IInv, CallbackInv, HeardInv, RxInv, HeldInv, TornInv, Torn, Listener, Iface, config
<1>8. OwnInv' /\ NamesResolve'
  BY <1>4 DEF IInv, OwnInv, Own, Iface, NamesResolve, Places, BusOf, config
<1> QED
  BY <1>6, <1>7, <1>8 DEF IInv

(* Every step keeps the invariant. *)
LEMMA NextIInv == IInv /\ [Next]_vars => IInv'
<1>1. ASSUME IInv, UNCHANGED vars PROVE IInv'
  <2>1. TypeOK' /\ CallbackInv' /\ HeardInv' /\ RxInv' /\ HeldInv'
    BY <1>1 DEF IInv, TypeOK, CallbackInv, HeardInv, RxInv, HeldInv, Listener, Iface, vars, config
  <2>2. TornInv' /\ OwnInv' /\ DecodedInv' /\ NamesResolve'
    BY <1>1 DEF IInv, TornInv, Torn, OwnInv, DecodedInv, Own, Iface, NamesResolve, Places, BusOf,
                vars, config
  <2> QED
    BY <2>1, <2>2 DEF IInv
<1> QED
  BY <1>1, CreateStep, AttachStep, ReadStep, WriteIdStep, WriteDataStep, GetStep
  DEF Next, Configure, Receive

-------------------------------------------------------------------------------
(* The invariant holds in every reachable state. *)
LEMMA Invariance == Spec => []IInv
  BY InitIInv, NextIInv, PTL DEF Spec

(* Every variable keeps its type: no callback leaves recv_buf_.             *)
THEOREM TypeCorrect == Spec => []TypeOK
<1>1. IInv => TypeOK
  BY DEF IInv
<1> QED
  BY <1>1, Invariance, PTL

(* An attached name leads to one slot of one bus through three maps that    *)
(* are filled one after another, and a refused one to none.                 *)
THEOREM NamesAlwaysResolve == Spec => []NamesResolve
<1>1. IInv => NamesResolve
  BY DEF IInv
<1> QED
  BY <1>1, Invariance, PTL

(* A getter never sees half of a frame, however many RX threads and getters *)
(* there are: recv_mtx_ is held over both writes of the callback.           *)
THEOREM NoTornFeedback == Spec => []FeedbackWhole
<1>1. IInv => FeedbackWhole
  BY DEF IInv, DecodedInv, FeedbackWhole, Empty
<1> QED
  BY <1>1, Invariance, PTL

(* A getter never returns what another motor sent, even when the RX thread  *)
(* runs a callback that was replaced after it had copied it.                *)
THEOREM NoForeignFeedback == Spec => []FeedbackIsOwn
<1>1. IInv => FeedbackIsOwn
  BY DEF IInv, DecodedInv, Own, FeedbackIsOwn
<1> QED
  BY <1>1, Invariance, PTL

(* An id that one bus of an interface has registered is delivered to that   *)
(* bus, whatever else was configured before and after.                      *)
THEOREM SoleListenerIsHeard == Spec => []SoleListener
<1>1. IInv => SoleListener
  <2> SUFFICES ASSUME IInv, NEW b \in Bus, NEW id \in Ids, actuators[b][id] # Nothing,
                      \A o \in Bus \ {b} :
                        device_map[o[1]] # Nothing /\ Iface(o) = Iface(b)
                          => actuators[o][id] = Nothing
               PROVE  callbacks[Iface(b)][id] # Nothing /\ callbacks[Iface(b)][id].bus = b
    BY DEF SoleListener
  <2>1. Iface(b) \in Interfaces /\ callbacks[Iface(b)][id] # Nothing
    BY DEF IInv, HeardInv
  <2>2. Listener(Iface(b), id, callbacks[Iface(b)][id])
    BY <2>1 DEF IInv, CallbackInv
  <2> QED
    BY <2>1, <2>2 DEF Listener, Callback
<1> QED
  BY <1>1, Invariance, PTL

-------------------------------------------------------------------------------
(***************************************************************************)
(* The service.  Beside the invariant above, the refinement rests on what  *)
(* is in slots before anybody is attached to them, and on the order of the *)
(* frames.                                                                 *)
(***************************************************************************)
(* Nothing was decoded for an id before an actuator has it. *)
FreshInv ==
  \A b \in Bus, id \in Ids : actuators[b][id] = Nothing => decoded[b][id] = Empty

(* A payload, too, is of the slot's own motor. *)
PayloadInv ==
  \A b \in Bus, s \in Slots :
    recv_buf[b][s].data = NoFrame \/ Own(recv_buf[b][s].data, b, s + 1)

(* What an RX thread has in hand is newer than what its interface has       *)
(* delivered, and nothing is newer than the last frame that arrived.        *)
OrderInv ==
  /\ \A b \in Bus, s \in Slots : recv_buf[b][s].data.n <= arrived
  /\ \A i \in Interfaces : rx[i] \in Delivery => rx[i].frame.n <= arrived
  /\ \A i \in Interfaces, b \in Bus, s \in Slots :
       rx[i] \in Delivery /\ recv_buf[b][s].data.on = i => recv_buf[b][s].data.n < rx[i].frame.n

SInv == FreshInv /\ PayloadInv /\ OrderInv

(* An attached name leads to exactly one place. *)
Resolved ==
  \A n \in Names :
    /\ Attached(n) =>
         /\ BusOf(n) \in Bus /\ IdOf(n) \in Ids
         /\ actuators[BusOf(n)][IdOf(n)] = n
    /\ \A b \in Bus, id \in Ids :
         actuators[b][id] = n => Attached(n) /\ b = BusOf(n) /\ id = IdOf(n)

LEMMA Resolve == IInv => Resolved
<1> SUFFICES ASSUME IInv, NEW n \in Names
             PROVE  /\ Attached(n) =>
                         /\ BusOf(n) \in Bus /\ IdOf(n) \in Ids
                         /\ actuators[BusOf(n)][IdOf(n)] = n
                    /\ \A b \in Bus, id \in Ids :
                         actuators[b][id] = n => Attached(n) /\ b = BusOf(n) /\ id = IdOf(n)
  BY DEF Resolved
<1>1. CASE actr_dev_map[n] = Nothing
  <2>1. Places(n) = {}
    BY <1>1 DEF IInv, NamesResolve
  <2>2. \A b \in Bus, id \in Ids : actuators[b][id] # n
    <3> SUFFICES ASSUME NEW b \in Bus, NEW id \in Ids, actuators[b][id] = n PROVE FALSE
      OBVIOUS
    <3>1. <<b, id>> \in Places(n)
      BY DEF Places
    <3> QED
      BY <2>1, <3>1
  <2> QED
    BY <1>1, <2>2 DEF Attached
<1>2. CASE actr_dev_map[n] # Nothing
  <2> DEFINE c == BusOf(n)
  <2>1. PICK k \in Ids : Places(n) = {<<c, k>>}
    BY <1>2 DEF IInv, NamesResolve
  <2> HIDE DEF c
  <2>2. <<c, k>> \in Places(n)
    BY <2>1
  <2>3. c \in Bus /\ actuators[c][k] = n
    BY <2>2 DEF Places
  <2>4. \A b \in Bus, id \in Ids : actuators[b][id] = n => b = c /\ id = k
    <3> SUFFICES ASSUME NEW b \in Bus, NEW id \in Ids, actuators[b][id] = n
                 PROVE  b = c /\ id = k
      OBVIOUS
    <3>1. <<b, id>> \in Places(n)
      BY DEF Places
    <3> QED
      BY <2>1, <3>1
  <2>5. IdOf(n) \in Ids /\ actuators[c][IdOf(n)] = n
    BY <2>3 DEF IdOf, c
  <2>6. IdOf(n) = k
    BY <2>3, <2>4, <2>5
  <2> QED
    BY <1>2, <2>3, <2>4, <2>5, <2>6 DEF Attached, c
<1> QED
  BY <1>1, <1>2

LEMMA ResolveNext == IInv' => Resolved'
  BY Resolve, PTL

LEMMA InitSInv == Init => SInv
  BY FeedbackAssumption DEF Init, SInv, FreshInv, PayloadInv, OrderInv, Empty, NoFrame,
                            Reading, Delivery, Slots, Ids

(* Slots that nobody is attached to are as they were created, so attaching  *)
(* changes nothing a reader of the name has seen.                           *)
LEMMA ConfigSInv ==
  ASSUME IInv, IInv', SInv, Configure
  PROVE  SInv'
<1>1. /\ \A b \in Bus : device_map[b[1]] # Nothing => device_map'[b[1]] = device_map[b[1]]
      /\ \A b \in Bus, s \in Slots :
           recv_buf'[b][s] = recv_buf[b][s] \/ recv_buf'[b][s] = Empty
      /\ \A b \in Bus, id \in Ids : actuators[b][id] # Nothing => actuators'[b][id] # Nothing
      /\ UNCHANGED <<rx, recv_mtx, decoded, arrived>>
  <2>1. CASE \E d \in Devices, layout \in Layouts : CreateDevice(d, layout)
    BY <2>1 DEF CreateDevice, IInv, TypeOK, Bus
  <2>2. ASSUME NEW d \in Devices, NEW i \in BusIdx, NEW n \in Names, NEW id \in CanIds,
               AttachActuator(d, i, n, id)
        PROVE  <1>1
    <3> DEFINE b == <<d, i>>
    <3>1. /\ b \in Bus /\ id \in Ids /\ n # Nothing
          /\ actuators' = [actuators EXCEPT ![b][id] = n]
          /\ recv_buf' = [recv_buf EXCEPT ![b][id - 1] = Empty]
          /\ UNCHANGED <<device_map, rx, recv_mtx, decoded, arrived>>
      BY <2>2, FeedbackAssumption
      DEF AttachActuator, CanDeviceAttachActuator, RegisterActuator, Bus
    <3> HIDE DEF b
    <3> QED
      BY <3>1 DEF IInv, TypeOK
  <2> QED
    BY <2>1, <2>2 DEF Configure
<1>2. FreshInv'
  BY <1>1 DEF SInv, FreshInv
<1>3. PayloadInv'
  BY <1>1 DEF SInv, PayloadInv, Own, Iface, Empty
<1>4. OrderInv'
  <2>1. arrived \in Nat /\ \A i \in Interfaces : rx[i] \in Delivery => rx[i].frame.n \in Nat /\ rx[i].frame.n >= 1
    BY FeedbackAssumption DEF IInv, TypeOK, Delivery, Frame
  <2>2. Empty.data.n = 0
    BY DEF Empty, NoFrame
  <2> QED
    BY <1>1, <2>1, <2>2 DEF SInv, OrderInv
<1> QED
  BY <1>2, <1>3, <1>4 DEF SInv

(* A frame gets its number when it arrives. *)
LEMMA ReadSInv ==
  ASSUME IInv, IInv', SInv, NEW i \in Interfaces, NEW id \in CanIds,
         NEW type \in {"feedback", "other"}, RxRead(i, id, type)
  PROVE  SInv'
<1>1. /\ arrived' = arrived + 1 /\ arrived \in Nat
      /\ UNCHANGED <<config, recv_mtx, recv_buf, decoded>>
  BY FeedbackAssumption DEF RxRead, IInv, TypeOK
<1>2. \A j \in Interfaces : rx'[j] = rx[j] \/ rx'[j].frame.n = arrived + 1
  BY DEF RxRead, IInv, TypeOK
<1>3. FreshInv' /\ PayloadInv'
  BY <1>1 DEF SInv, FreshInv, PayloadInv, Own, Iface, config
<1>4. OrderInv'
  <2>1. \A b \in Bus, s \in Slots : recv_buf[b][s].data.n \in Nat
    BY FeedbackAssumption DEF IInv, TypeOK, CanFrame, Frame, NoFrame
  <2>2. \A j \in Interfaces : rx[j] \in Delivery => rx[j].frame.n \in Nat
    BY FeedbackAssumption DEF IInv, TypeOK, Delivery, Frame
  <2>3. /\ \A b \in Bus, s \in Slots : recv_buf[b][s].data.n <= arrived
        /\ \A j \in Interfaces : rx[j] \in Delivery => rx[j].frame.n <= arrived
        /\ \A j \in Interfaces, b \in Bus, s \in Slots :
             rx[j] \in Delivery /\ recv_buf[b][s].data.on = j => recv_buf[b][s].data.n < rx[j].frame.n
    BY DEF SInv, OrderInv
  <2> QED
    BY <1>1, <1>2, <2>1, <2>2, <2>3 DEF OrderInv
<1> QED
  BY <1>3, <1>4 DEF SInv

(* RxWriteId leaves every payload alone. *)
LEMMA IdWritten ==
  ASSUME IInv, NEW i \in Interfaces, RxWriteId(i)
  PROVE  \A b \in Bus, s \in Slots : recv_buf'[b][s].data = recv_buf[b][s].data
<1> DEFINE c == rx[i].callback.bus
           t == rx[i].callback.slot
<1>0. TypeOK
  BY DEF IInv
<1>1. rx[i] \in Delivery
  BY <1>0 DEF RxWriteId, TypeOK, Reading
<1>2. c \in Bus /\ t \in Slots
  BY <1>1 DEF Delivery, Callback
<1>3. recv_buf' = [recv_buf EXCEPT ![c][t].id = rx[i].frame]
  BY DEF RxWriteId
<1> HIDE DEF c, t
<1>4. recv_buf[c][t] \in CanFrame
  BY <1>0, <1>2 DEF TypeOK
<1>5. recv_buf'[c][t].data = recv_buf[c][t].data
  BY <1>0, <1>2, <1>3, <1>4 DEF TypeOK, CanFrame
<1>6. \A b \in Bus, s \in Slots : b # c \/ s # t => recv_buf'[b][s] = recv_buf[b][s]
  BY <1>0, <1>2, <1>3 DEF TypeOK
<1> QED
  BY <1>5, <1>6

(* The first store leaves the payload, which is all the service sees. *)
LEMMA WriteIdSInv ==
  ASSUME IInv, IInv', SInv, NEW i \in Interfaces, RxWriteId(i)
  PROVE  SInv'
<1>0. TypeOK
  BY DEF IInv
<1>1. rx[i] \in Delivery
  BY <1>0 DEF RxWriteId, TypeOK, Reading
<1>2. UNCHANGED <<config, decoded, arrived>>
  BY DEF RxWriteId
<1>3. \A j \in Interfaces : rx'[j] \in Delivery => rx[j] \in Delivery /\ rx'[j].frame = rx[j].frame
  <2>1. rx'[i].frame = rx[i].frame /\ \A j \in Interfaces \ {i} : rx'[j] = rx[j]
    BY <1>0, <1>1 DEF RxWriteId, TypeOK, Delivery
  <2> QED
    BY <1>1, <2>1
<1>4. \A b \in Bus, s \in Slots : recv_buf'[b][s].data = recv_buf[b][s].data
  BY IdWritten
<1>5. FreshInv' /\ PayloadInv'
  BY <1>2, <1>4 DEF SInv, FreshInv, PayloadInv, Own, Iface, config
<1>6. OrderInv'
  BY <1>2, <1>3, <1>4 DEF SInv, OrderInv
<1> QED
  BY <1>5, <1>6 DEF SInv

(* The slot that RxWriteData writes, and what it writes there. *)
LEMMA DataWritten ==
  ASSUME IInv, NEW i \in Interfaces, RxWriteData(i),
         NEW b, b = rx[i].callback.bus, NEW s, s = rx[i].callback.slot
  PROVE  /\ b \in Bus /\ s \in Slots /\ rx[i] \in Delivery
         /\ recv_buf'[b][s].data = rx[i].frame
         /\ \A c \in Bus, k \in Slots : c # b \/ k # s => recv_buf'[c][k] = recv_buf[c][k]
         /\ rx'[i] = Reading /\ \A j \in Interfaces \ {i} : rx'[j] = rx[j]
         /\ rx[i].frame.on = i /\ Own(rx[i].frame, b, s + 1)
         /\ actuators[b][s + 1] # Nothing /\ rx[i].frame.from = s + 1 /\ s + 1 \in Ids
         /\ UNCHANGED <<config, decoded, arrived>>
<1>0. TypeOK
  BY DEF IInv
<1>1. rx[i] \in Delivery
  BY <1>0 DEF RxWriteData, TypeOK, Reading
<1>2. b \in Bus /\ s \in Slots /\ s + 1 \in Ids
  BY <1>1, FeedbackAssumption DEF Delivery, Callback, Slots, Ids
<1>3. /\ recv_buf' = [recv_buf EXCEPT ![b][s].data = rx[i].frame]
      /\ rx' = [rx EXCEPT ![i] = Reading]
      /\ UNCHANGED <<config, decoded, arrived>>
  BY DEF RxWriteData
<1>4. recv_buf[b][s] \in CanFrame
  BY <1>0, <1>2 DEF TypeOK
<1>5. recv_buf'[b][s].data = rx[i].frame
  BY <1>0, <1>2, <1>3, <1>4 DEF TypeOK, CanFrame
<1>6. \A c \in Bus, k \in Slots : c # b \/ k # s => recv_buf'[c][k] = recv_buf[c][k]
  BY <1>0, <1>2, <1>3 DEF TypeOK
<1>7. rx'[i] = Reading /\ \A j \in Interfaces \ {i} : rx'[j] = rx[j]
  BY <1>0, <1>3 DEF TypeOK
<1>8. rx[i].frame.on = i /\ rx[i].frame.from \in Ids /\ Listener(i, rx[i].frame.from, rx[i].callback)
  BY <1>1 DEF IInv, RxInv
<1>9. s = rx[i].frame.from - 1 /\ device_map[b[1]] # Nothing /\ Iface(b) = i
      /\ actuators[b][rx[i].frame.from] # Nothing
  BY <1>8 DEF Listener
<1>10. rx[i].frame.from = s + 1
  BY <1>8, <1>9, FeedbackAssumption DEF Ids
<1>11. Own(rx[i].frame, b, s + 1)
  BY <1>8, <1>9, <1>10 DEF Own
<1>12. actuators[b][s + 1] # Nothing
  BY <1>9, <1>10
<1> QED
  BY <1>1, <1>2, <1>3, <1>5, <1>6, <1>7, <1>8, <1>10, <1>11, <1>12

LEMMA WriteDataSInv ==
  ASSUME IInv, IInv', SInv, NEW i \in Interfaces, RxWriteData(i)
  PROVE  SInv'
<1> DEFINE b == rx[i].callback.bus
           s == rx[i].callback.slot
<1>1. /\ b \in Bus /\ s \in Slots /\ rx[i] \in Delivery
      /\ recv_buf'[b][s].data = rx[i].frame
      /\ \A c \in Bus, k \in Slots : c # b \/ k # s => recv_buf'[c][k] = recv_buf[c][k]
      /\ rx'[i] = Reading /\ \A j \in Interfaces \ {i} : rx'[j] = rx[j]
      /\ rx[i].frame.on = i /\ Own(rx[i].frame, b, s + 1)
      /\ UNCHANGED <<config, decoded, arrived>>
  BY DataWritten
<1>2. Reading \notin Delivery
  BY DEF Reading, Delivery
<1> HIDE DEF b, s
<1>3. FreshInv'
  BY <1>1 DEF SInv, FreshInv, config
<1>4. PayloadInv'
  BY <1>1 DEF SInv, PayloadInv, Own, Iface, config
<1>5. OrderInv'
  BY <1>1, <1>2 DEF SInv, OrderInv
<1> QED
  BY <1>3, <1>4, <1>5 DEF SInv

LEMMA GetSInv ==
  ASSUME IInv, IInv', SInv, NEW n \in Names, Get(n)
  PROVE  SInv'
<1> DEFINE b == BusOf(n)
<1>1. PICK id \in Ids : actuators[b][id] = n /\ ParseFeedback(b, id)
  BY DEF Get, CanDeviceGet, CanBusGet, BusOf
<1>2. UNCHANGED <<config, rx, recv_mtx, recv_buf, arrived>>
  BY DEF Get
<1>3. b \in Bus
  <2>1. Attached(n)
    BY DEF Get, Attached
  <2> QED
    BY <2>1, Resolve DEF Resolved
<1> HIDE DEF b
<1>4. FreshInv'
  <2>1. \A c \in Bus, k \in Ids : c # b \/ k # id => decoded'[c][k] = decoded[c][k]
    BY <1>1, <1>3 DEF ParseFeedback, IInv, TypeOK
  <2>2. actuators[b][id] # Nothing
    BY <1>1, FeedbackAssumption
  <2> QED
    BY <1>2, <2>1, <2>2 DEF SInv, FreshInv, config
<1>5. PayloadInv' /\ OrderInv'
  BY <1>2 DEF SInv, PayloadInv, OrderInv, Own, Iface, config
<1> QED
  BY <1>4, <1>5 DEF SInv

LEMMA NextSInv == IInv /\ IInv' /\ SInv /\ [Next]_vars => SInv'
<1>1. ASSUME SInv, UNCHANGED vars PROVE SInv'
  BY <1>1 DEF SInv, FreshInv, PayloadInv, OrderInv, Own, Iface, vars, config
<1> QED
  BY <1>1, ConfigSInv, ReadSInv, WriteIdSInv, WriteDataSInv, GetSInv DEF Next, Receive

-------------------------------------------------------------------------------
(* The initial state of the service. *)
LEMMA ServiceInit == Init => Service!Init
<1> SUFFICES ASSUME Init PROVE Service!Init
  OBVIOUS
<1>1. \A n \in Names : ~Attached(n)
  BY DEF Init, Attached
<1>2. motorBar = [n \in Names |-> Nothing] /\ newestBar = [n \in Names |-> NoFrame]
      /\ toldBar = [n \in Names |-> NoFrame]
  BY <1>1 DEF motorBar, newestBar, toldBar
<1>3. dueBar = [i \in Interfaces |-> NoFrame]
  BY DEF Init, dueBar
<1> QED
  BY <1>2, <1>3 DEF Init, Service!Init

(* The mapped variables, name by name and interface by interface.           *)
LEMMA Bars ==
  /\ \A n \in Names :
       /\ motorBar[n] = IF Attached(n) THEN <<Iface(BusOf(n)), IdOf(n)>> ELSE Nothing
       /\ newestBar[n] = IF Attached(n) THEN recv_buf[BusOf(n)][IdOf(n) - 1].data ELSE NoFrame
       /\ toldBar[n] = IF Attached(n) THEN decoded[BusOf(n)][IdOf(n)].id ELSE NoFrame
  /\ \A i \in Interfaces : dueBar[i] = IF rx[i] = Reading THEN NoFrame ELSE rx[i].frame
  /\ motorBar = [n \in Names |-> motorBar[n]]
  /\ newestBar = [n \in Names |-> newestBar[n]]
  /\ toldBar = [n \in Names |-> toldBar[n]]
  /\ dueBar = [i \in Interfaces |-> dueBar[i]]
  BY DEF motorBar, newestBar, toldBar, dueBar

LEMMA BarsNext ==
  /\ \A n \in Names :
       /\ motorBar'[n] = IF Attached(n)' THEN <<Iface(BusOf(n)), IdOf(n)>>' ELSE Nothing
       /\ newestBar'[n] = IF Attached(n)' THEN recv_buf'[BusOf(n)'][IdOf(n)' - 1].data ELSE NoFrame
       /\ toldBar'[n] = IF Attached(n)' THEN decoded'[BusOf(n)'][IdOf(n)'].id ELSE NoFrame
  /\ \A i \in Interfaces : dueBar'[i] = IF rx'[i] = Reading THEN NoFrame ELSE rx'[i].frame
  /\ motorBar' = [n \in Names |-> motorBar'[n]]
  /\ newestBar' = [n \in Names |-> newestBar'[n]]
  /\ toldBar' = [n \in Names |-> toldBar'[n]]
  /\ dueBar' = [i \in Interfaces |-> dueBar'[i]]
  BY DEF motorBar, newestBar, toldBar, dueBar

(* A name that stays where it is attached. *)
LEMMA Stays ==
  ASSUME IInv, IInv', NEW n \in Names,
         Attached(n)' <=> Attached(n),
         \A b \in Bus, id \in Ids : actuators[b][id] = n => actuators'[b][id] = n
  PROVE  Attached(n) => BusOf(n)' = BusOf(n) /\ IdOf(n)' = IdOf(n)
<1> SUFFICES ASSUME Attached(n) PROVE BusOf(n)' = BusOf(n) /\ IdOf(n)' = IdOf(n)
  OBVIOUS
<1>1. BusOf(n) \in Bus /\ IdOf(n) \in Ids /\ actuators[BusOf(n)][IdOf(n)] = n
  BY Resolve DEF Resolved
<1>2. actuators'[BusOf(n)][IdOf(n)] = n
  BY <1>1
<1> QED
  BY <1>1, <1>2, ResolveNext DEF Resolved

(* Creating a device is nothing to a reader. *)
LEMMA CreateServes ==
  ASSUME IInv, IInv', NEW d \in Devices, NEW layout \in Layouts, CreateDevice(d, layout)
  PROVE  UNCHANGED Service!vars
<1>1. /\ UNCHANGED <<actr_dev_map, actuator_bus_map, actuators, rx, recv_buf, decoded, arrived>>
      /\ \A b \in Bus : device_map[b[1]] # Nothing => device_map'[b[1]] = device_map[b[1]]
  BY DEF CreateDevice, IInv, TypeOK, Bus
<1>2. ASSUME NEW n \in Names
      PROVE  /\ Attached(n)' <=> Attached(n)
             /\ Attached(n) => /\ BusOf(n)' = BusOf(n) /\ IdOf(n)' = IdOf(n)
                               /\ Iface(BusOf(n))' = Iface(BusOf(n))
  <2>1. Attached(n)' <=> Attached(n)
    BY <1>1 DEF Attached
  <2>2. Attached(n) => BusOf(n)' = BusOf(n) /\ IdOf(n)' = IdOf(n)
    BY <1>1, <2>1, Stays
  <2>3. Attached(n) => BusOf(n) \in Bus /\ device_map[BusOf(n)[1]] # Nothing
    BY Resolve, FeedbackAssumption DEF Resolved, IInv, HeardInv
  <2> QED
    BY <1>1, <2>1, <2>2, <2>3 DEF Iface
<1>3. \A n \in Names : motorBar'[n] = motorBar[n] /\ newestBar'[n] = newestBar[n] /\ toldBar'[n] = toldBar[n]
  BY <1>1, <1>2, Bars, BarsNext
<1>4. \A i \in Interfaces : dueBar'[i] = dueBar[i]
  BY <1>1, Bars, BarsNext
<1>5. motorBar' = motorBar /\ newestBar' = newestBar /\ toldBar' = toldBar /\ dueBar' = dueBar
  BY <1>3, <1>4, Bars, BarsNext
<1> QED
  BY <1>1, <1>5 DEF Service!vars

(* Outside of configuration every name stands for what it stood for. *)
LEMMA NamesStay ==
  ASSUME IInv, IInv', UNCHANGED config
  PROVE  /\ \A n \in Names :
              /\ Attached(n)' <=> Attached(n)
              /\ Attached(n) => /\ BusOf(n)' = BusOf(n) /\ IdOf(n)' = IdOf(n)
                                /\ Iface(BusOf(n))' = Iface(BusOf(n))
         /\ motorBar' = motorBar
<1>1. ASSUME NEW n \in Names
      PROVE  /\ Attached(n)' <=> Attached(n)
             /\ Attached(n) => /\ BusOf(n)' = BusOf(n) /\ IdOf(n)' = IdOf(n)
                               /\ Iface(BusOf(n))' = Iface(BusOf(n))
  <2>1. Attached(n)' <=> Attached(n)
    BY DEF Attached, config
  <2>2. Attached(n) => BusOf(n)' = BusOf(n) /\ IdOf(n)' = IdOf(n)
    BY <2>1, Stays DEF config
  <2> QED
    BY <2>1, <2>2 DEF Iface, config
<1>2. \A n \in Names : motorBar'[n] = motorBar[n]
  BY <1>1, Bars, BarsNext
<1>3. motorBar' = motorBar
  BY <1>2, Bars, BarsNext
<1> QED
  BY <1>1, <1>3

(* A motor is heard exactly when some name stands for it. *)
LEMMA HeardExactly ==
  ASSUME IInv, NEW i \in Interfaces, NEW id \in CanIds
  PROVE  Lookup(i, id) # Nothing <=> \E n \in Names : motorBar[n] = <<i, id>>
<1>1. ASSUME Lookup(i, id) # Nothing
      PROVE  \E n \in Names : motorBar[n] = <<i, id>>
  <2> DEFINE b == callbacks[i][id].bus
             n == actuators[b][id]
  <2>1. id \in Ids /\ callbacks[i][id] # Nothing
    BY <1>1 DEF Lookup
  <2>2. Listener(i, id, callbacks[i][id])
    BY <2>1 DEF IInv, CallbackInv
  <2>3. b \in Bus /\ Iface(b) = i /\ n # Nothing
    BY <2>2 DEF Listener, Callback
  <2>4. n \in Names
    BY <2>1, <2>3 DEF IInv, TypeOK
  <2>5. Attached(n) /\ b = BusOf(n) /\ id = IdOf(n)
    BY <2>1, <2>3, <2>4, Resolve DEF Resolved
  <2> HIDE DEF b, n
  <2> QED
    BY <2>3, <2>4, <2>5, Bars
<1>2. ASSUME NEW n \in Names, motorBar[n] = <<i, id>>
      PROVE  Lookup(i, id) # Nothing
  <2>1. Attached(n)
    BY <1>2, Bars, FeedbackAssumption
  <2>2. Iface(BusOf(n)) = i /\ IdOf(n) = id
    BY <1>2, <2>1, Bars
  <2>3. BusOf(n) \in Bus /\ id \in Ids /\ actuators[BusOf(n)][id] = n
    BY <2>1, <2>2, Resolve DEF Resolved
  <2>4. callbacks[i][id] # Nothing
    BY <2>2, <2>3, FeedbackAssumption DEF IInv, HeardInv
  <2> QED
    BY <2>3, <2>4 DEF Lookup
<1> QED
  BY <1>1, <1>2

(* Attaching, in three classes and four maps, is one step of the service.   *)
LEMMA AttachServes ==
  ASSUME IInv, IInv', SInv, NEW d \in Devices, NEW i \in BusIdx, NEW n \in Names, NEW id \in CanIds,
         AttachActuator(d, i, n, id)
  PROVE  Service!Next
<1> DEFINE b == <<d, i>>
<1>1. /\ b \in Bus /\ id \in Ids /\ n # Nothing /\ ~Attached(n)
      /\ actuators[b][id] = Nothing /\ device_map[b[1]] # Nothing
      /\ actuators' = [actuators EXCEPT ![b][id] = n]
      /\ recv_buf' = [recv_buf EXCEPT ![b][id - 1] = Empty]
      /\ actr_dev_map' = [actr_dev_map EXCEPT ![n] = d]
      /\ UNCHANGED <<device_map, rx, recv_mtx, decoded, arrived>>
  BY FeedbackAssumption
  DEF AttachActuator, CanDeviceAttachActuator, RegisterActuator, Bus, Attached
<1>2. Iface(b) \in Interfaces
  <2>1. d \in Devices /\ i \in BusIdx /\ b[1] = d /\ b[2] = i /\ device_map[d] # Nothing
        /\ device_map[d][i] # Nothing
    BY DEF AttachActuator, CanDeviceAttachActuator
  <2> QED
    BY <2>1, FeedbackAssumption DEF IInv, TypeOK, Iface
<1>3. id - 1 \in Slots
  BY <1>1, FeedbackAssumption DEF Ids, Slots
<1> HIDE DEF b
<1>4. /\ actuators'[b][id] = n
      /\ \A c \in Bus, k \in Ids : c # b \/ k # id => actuators'[c][k] = actuators[c][k]
  BY <1>1 DEF IInv, TypeOK
<1>5. /\ recv_buf'[b][id - 1] = Empty
      /\ \A c \in Bus, k \in Ids : c # b \/ k # id => recv_buf'[c][k - 1] = recv_buf[c][k - 1]
  <2>1. \A k \in Ids : k - 1 \in Slots /\ (k # id => k - 1 # id - 1)
    BY <1>1, FeedbackAssumption DEF Ids, Slots
  <2> QED
    BY <1>1, <1>3, <2>1 DEF IInv, TypeOK
<1>6. Attached(n)' /\ BusOf(n)' = b /\ IdOf(n)' = id
  BY <1>1, <1>4, ResolveNext DEF Resolved
<1>7. ASSUME NEW m \in Names, m # n
      PROVE  /\ Attached(m)' <=> Attached(m)
             /\ Attached(m) => /\ BusOf(m)' = BusOf(m) /\ IdOf(m)' = IdOf(m)
                               /\ BusOf(m) \in Bus /\ IdOf(m) \in Ids
                               /\ BusOf(m) # b \/ IdOf(m) # id
  <2>1. Attached(m)' <=> Attached(m)
    BY <1>1, <1>7 DEF Attached, IInv, TypeOK
  <2>2. \A c \in Bus, k \in Ids : actuators[c][k] = m => actuators'[c][k] = m
    BY <1>1, <1>4, FeedbackAssumption
  <2>3. Attached(m) => BusOf(m)' = BusOf(m) /\ IdOf(m)' = IdOf(m)
    BY <2>1, <2>2, Stays
  <2>4. Attached(m) => /\ BusOf(m) \in Bus /\ IdOf(m) \in Ids
                       /\ actuators[BusOf(m)][IdOf(m)] = m
    BY Resolve DEF Resolved
  <2> QED
    BY <1>1, <2>1, <2>3, <2>4, FeedbackAssumption
<1>8. motorBar[n] = Nothing
  BY <1>1, Bars
<1>9. motorBar' = [motorBar EXCEPT ![n] = <<Iface(b), id>>]
  <2>1. \A c : Iface(c)' = Iface(c)
    BY <1>1 DEF Iface
  <2>2. motorBar'[n] = <<Iface(b), id>>
    BY <1>6, <2>1, BarsNext
  <2>3. \A m \in Names : m # n => motorBar'[m] = motorBar[m]
    BY <1>7, <2>1, Bars, BarsNext
  <2> QED
    BY <2>2, <2>3, Bars, BarsNext
<1>10. newestBar' = newestBar
  <2>1. newestBar'[n] = newestBar[n]
    BY <1>1, <1>5, <1>6, Bars, BarsNext DEF Empty
  <2>2. \A m \in Names : m # n => newestBar'[m] = newestBar[m]
    BY <1>5, <1>7, Bars, BarsNext
  <2> QED
    BY <2>1, <2>2, Bars, BarsNext
<1>11. toldBar' = toldBar
  <2>1. toldBar'[n] = toldBar[n]
    <3>1. decoded[b][id] = Empty
      BY <1>1 DEF SInv, FreshInv
    <3> QED
      BY <1>1, <1>6, <3>1, Bars, BarsNext DEF Empty
  <2>2. \A m \in Names : m # n => toldBar'[m] = toldBar[m]
    BY <1>1, <1>7, Bars, BarsNext
  <2> QED
    BY <2>1, <2>2, Bars, BarsNext
<1>12. dueBar' = dueBar
  BY <1>1 DEF dueBar
<1>13. Service!Attach(n, Iface(b), id)
  BY <1>1, <1>8, <1>9, <1>10, <1>11, <1>12 DEF Service!Attach
<1> QED
  BY <1>2, <1>13 DEF Service!Next

(* Reading a frame is its arrival: it is kept when somebody stands for its  *)
(* motor and dropped when nobody does.                                      *)
LEMMA ReadServes ==
  ASSUME IInv, IInv', SInv, NEW i \in Interfaces, NEW id \in CanIds,
         NEW type \in {"feedback", "other"}, RxRead(i, id, type)
  PROVE  Service!Next
<1> DEFINE f == [on |-> i, from |-> id, type |-> type, n |-> arrived + 1]
<1>1. f \in Frame /\ f.on = i /\ f.from = id /\ f.n = arrived + 1 /\ f # NoFrame
      /\ arrived' = f.n /\ rx[i] = Reading
      /\ UNCHANGED <<config, recv_mtx, recv_buf, decoded>>
  <2>1. arrived \in 0 .. MaxFrames /\ arrived < MaxFrames
    BY DEF RxRead, IInv, TypeOK
  <2>2. rx[i] = Reading
    BY DEF RxRead, IInv, TypeOK, Delivery
  <2>3. arrived' = arrived + 1 /\ UNCHANGED <<config, recv_mtx, recv_buf, decoded>>
    BY DEF RxRead
  <2>4. f \in Frame
    BY <2>1, FeedbackAssumption DEF Frame
  <2>5. f # NoFrame
    BY FeedbackAssumption DEF NoFrame
  <2> QED
    BY <2>2, <2>3, <2>4, <2>5
<1>2. newestBar' = newestBar /\ toldBar' = toldBar /\ motorBar' = motorBar
  <2>1. \A m \in Names : newestBar'[m] = newestBar[m] /\ toldBar'[m] = toldBar[m]
    BY <1>1, NamesStay, Bars, BarsNext
  <2> QED
    BY <1>1, <2>1, NamesStay, Bars, BarsNext
<1>3. dueBar[i] = NoFrame
  BY <1>1, Bars
<1>4. dueBar' = IF \E n \in Names : motorBar[n] = <<i, id>> THEN [dueBar EXCEPT ![i] = f] ELSE dueBar
  <2>1. CASE Lookup(i, id) # Nothing
    <3>1. rx' = [rx EXCEPT ![i] = [at |-> "write_id", callback |-> Lookup(i, id), frame |-> f]]
      BY <1>1, <2>1 DEF RxRead
    <3>2. /\ rx'[i].frame = f /\ rx'[i] # Reading
          /\ \A j \in Interfaces : j # i => rx'[j] = rx[j]
      BY <3>1 DEF IInv, TypeOK, Reading
    <3>3. dueBar'[i] = f /\ \A j \in Interfaces : j # i => dueBar'[j] = dueBar[j]
      BY <3>2, Bars, BarsNext
    <3>4. dueBar' = [dueBar EXCEPT ![i] = f]
      BY <3>3, Bars, BarsNext
    <3> QED
      BY <2>1, <3>4, HeardExactly
  <2>2. CASE Lookup(i, id) = Nothing
    <3>1. rx' = rx
      BY <2>2 DEF RxRead
    <3>2. dueBar' = dueBar
      BY <3>1 DEF dueBar
    <3> QED
      BY <2>2, <3>2, HeardExactly
  <2> QED
    BY <2>1, <2>2
<1> HIDE DEF f
<1>5. Service!Arrive(f)
  BY <1>1, <1>2, <1>3, <1>4 DEF Service!Arrive
<1> QED
  BY <1>1, <1>5 DEF Service!Next

(* The identifier alone is not yet a frame. *)
LEMMA WriteIdServes ==
  ASSUME IInv, IInv', NEW i \in Interfaces, RxWriteId(i)
  PROVE  UNCHANGED Service!vars
<1>0. TypeOK
  BY DEF IInv
<1>1. rx[i] \in Delivery
  BY <1>0 DEF RxWriteId, TypeOK, Reading
<1>2. UNCHANGED <<config, decoded, arrived>>
  BY DEF RxWriteId
<1>3. dueBar' = dueBar
  <2>1. /\ rx'[i].frame = rx[i].frame /\ rx'[i] # Reading /\ rx[i] # Reading
        /\ \A j \in Interfaces \ {i} : rx'[j] = rx[j]
    BY <1>0, <1>1 DEF RxWriteId, TypeOK, Delivery, Reading
  <2>2. \A j \in Interfaces : dueBar'[j] = dueBar[j]
    BY <2>1, Bars, BarsNext
  <2> QED
    BY <2>2, Bars, BarsNext
<1>4. \A b \in Bus, s \in Slots : recv_buf'[b][s].data = recv_buf[b][s].data
  BY <1>1, IdWritten
<1>5. newestBar' = newestBar /\ toldBar' = toldBar /\ motorBar' = motorBar
  <2>1. \A m \in Names : Attached(m) => BusOf(m) \in Bus /\ IdOf(m) \in Ids /\ IdOf(m) - 1 \in Slots
    BY Resolve, FeedbackAssumption DEF Resolved, Ids, Slots
  <2>2. \A m \in Names : newestBar'[m] = newestBar[m] /\ toldBar'[m] = toldBar[m]
    BY <1>2, <1>4, <2>1, NamesStay, Bars, BarsNext
  <2> QED
    BY <1>2, <2>2, NamesStay, Bars, BarsNext
<1> QED
  BY <1>2, <1>3, <1>5 DEF Service!vars

(* The payload completes the frame: it is recorded for the name that the    *)
(* slot belongs to, after everything its interface has delivered before.    *)
LEMMA WriteDataServes ==
  ASSUME IInv, IInv', SInv, NEW i \in Interfaces, RxWriteData(i)
  PROVE  Service!Next
<1> DEFINE b == rx[i].callback.bus
           s == rx[i].callback.slot
           f == rx[i].frame
<1>1. /\ b \in Bus /\ s \in Slots /\ rx[i] \in Delivery
      /\ recv_buf'[b][s].data = f
      /\ \A c \in Bus, k \in Slots : c # b \/ k # s => recv_buf'[c][k] = recv_buf[c][k]
      /\ rx'[i] = Reading /\ \A j \in Interfaces \ {i} : rx'[j] = rx[j]
      /\ f.on = i /\ Own(f, b, s + 1)
      /\ actuators[b][s + 1] # Nothing /\ f.from = s + 1 /\ s + 1 \in Ids
      /\ UNCHANGED <<config, decoded, arrived>>
  BY DataWritten
<1>2. f \in Frame /\ f # NoFrame /\ rx[i] # Reading /\ s \in Nat
  BY <1>1, FeedbackAssumption DEF Delivery, Frame, NoFrame, Reading, Slots
<1> HIDE DEF b, s, f
<1>3. PICK n \in Names : n = actuators[b][s + 1]
  BY <1>1 DEF IInv, TypeOK
<1>4. Attached(n) /\ BusOf(n) = b /\ IdOf(n) = s + 1
  BY <1>1, <1>3, Resolve DEF Resolved
<1>5. \A m \in Names : Attached(m) =>
        BusOf(m) \in Bus /\ IdOf(m) \in Ids /\ IdOf(m) - 1 \in Slots
          /\ actuators[BusOf(m)][IdOf(m)] = m
  BY Resolve, FeedbackAssumption DEF Resolved, Ids, Slots
<1>6. dueBar[i] = f
  BY <1>2, Bars DEF f
<1>7. motorBar[n] = <<i, f.from>>
  BY <1>1, <1>3, <1>4, Bars DEF Own
<1>8. ASSUME NEW m \in Names, motorBar[m] # Nothing, motorBar[m][1] = i
      PROVE  newestBar[m].n < f.n
  <2>1. Attached(m)
    BY <1>8, Bars
  <2> DEFINE c == BusOf(m)
             k == IdOf(m) - 1
  <2>2. c \in Bus /\ k \in Slots /\ newestBar[m] = recv_buf[c][k].data /\ Iface(c) = i
    BY <1>5, <1>8, <2>1, Bars
  <2> HIDE DEF c, k
  <2>3. CASE recv_buf[c][k].data = NoFrame
    BY <1>2, <2>2, <2>3 DEF NoFrame, Frame
  <2>4. CASE recv_buf[c][k].data # NoFrame
    <3>1. recv_buf[c][k].data.on = i
      BY <2>2, <2>4 DEF SInv, PayloadInv, Own
    <3> QED
      BY <1>1, <2>2, <3>1 DEF SInv, OrderInv, f
  <2> QED
    BY <2>3, <2>4
<1>9. newestBar' = [newestBar EXCEPT ![n] = f]
  <2>1. newestBar'[n] = f
    <3>1. Attached(n)' /\ BusOf(n)' = b /\ IdOf(n)' = s + 1
      BY <1>1, <1>3, <1>4, NamesStay
    <3>2. newestBar'[n] = recv_buf'[BusOf(n)'][IdOf(n)' - 1].data
      BY <3>1, BarsNext
    <3>3. IdOf(n)' - 1 = s
      BY <1>2, <3>1
    <3>4. newestBar'[n] = recv_buf'[b][s].data
      BY ONLY <3>1, <3>2, <3>3
    <3> QED
      BY <1>1, <3>4
  <2>2. ASSUME NEW m \in Names, m # n
        PROVE  newestBar'[m] = newestBar[m]
    <3>1. CASE ~Attached(m)
      BY <1>1, <3>1, NamesStay, Bars, BarsNext
    <3>2. CASE Attached(m)
      <4>1. BusOf(m) # b \/ IdOf(m) # s + 1
        BY <1>3, <1>5, <2>2, <3>2
      <4>2. BusOf(m) # b \/ IdOf(m) - 1 # s
        BY <1>2, <1>5, <3>2, <4>1, FeedbackAssumption DEF Ids
      <4>3. recv_buf'[BusOf(m)][IdOf(m) - 1] = recv_buf[BusOf(m)][IdOf(m) - 1]
        BY <1>1, <1>5, <3>2, <4>2
      <4>4. Attached(m)' /\ BusOf(m)' = BusOf(m) /\ IdOf(m)' = IdOf(m)
        BY <1>1, <3>2, NamesStay
      <4> QED
        BY <3>2, <4>3, <4>4, Bars, BarsNext
    <3> QED
      BY <3>1, <3>2
  <2> QED
    BY <2>1, <2>2, Bars, BarsNext
<1>10. dueBar' = [dueBar EXCEPT ![i] = NoFrame]
  <2>1. dueBar'[i] = NoFrame /\ \A j \in Interfaces : j # i => dueBar'[j] = dueBar[j]
    BY <1>1, Bars, BarsNext
  <2> QED
    BY <2>1, Bars, BarsNext
<1>11. toldBar' = toldBar /\ motorBar' = motorBar
  <2>1. \A m \in Names : toldBar'[m] = toldBar[m]
    BY <1>1, NamesStay, Bars, BarsNext
  <2> QED
    BY <1>1, <2>1, NamesStay, Bars, BarsNext
<1>12. Service!Record(n, i)
  BY <1>1, <1>2, <1>6, <1>7, <1>8, <1>9, <1>10, <1>11 DEF Service!Record
<1> QED
  BY <1>3, <1>12 DEF Service!Next

(* A getter answers from the payload that was recorded last: nobody is      *)
(* writing while it has recv_mtx_.                                          *)
LEMMA GetServes ==
  ASSUME IInv, IInv', NEW n \in Names, Get(n)
  PROVE  Service!Next
<1> DEFINE b == BusOf(n)
           k == IdOf(n)
<1>1. Attached(n) /\ recv_mtx[b] = Nothing
      /\ UNCHANGED <<config, rx, recv_mtx, recv_buf, arrived>>
  BY DEF Get, CanDeviceGet, CanBusGet, BusOf, Attached
<1>2. b \in Bus /\ k \in Ids /\ k - 1 \in Slots /\ actuators[b][k] = n
  BY <1>1, Resolve, FeedbackAssumption DEF Resolved, Ids, Slots
<1>3. ParseFeedback(b, k)
  <2>1. PICK id \in Ids : actuators[b][id] = n /\ ParseFeedback(b, id)
    BY DEF Get, CanDeviceGet, CanBusGet, BusOf
  <2>2. id = k
    BY <1>2, <2>1, Resolve DEF Resolved
  <2> QED
    BY <2>1, <2>2
<1>4. newestBar[n] = recv_buf[b][k - 1].data /\ toldBar[n] = decoded[b][k].id
  BY <1>1, Bars
<1>5. motorBar[n] # Nothing
  <2>1. Iface(b) \in Interfaces
    BY <1>2, FeedbackAssumption DEF IInv, HeardInv
  <2>2. k \in Nat
    BY <1>2 DEF Ids
  <2>3. motorBar[n] = <<Iface(b), k>>
    BY <1>1, Bars
  <2> HIDE DEF b, k
  <2> QED
    BY <2>1, <2>2, <2>3, FeedbackAssumption
<1> HIDE DEF b, k
<1>6. recv_buf[b][k - 1].id = recv_buf[b][k - 1].data
  BY <1>1, <1>2, FeedbackAssumption DEF IInv, TornInv, Torn
<1>7. ASSUME NEW m \in Names, m # n, Attached(m)
      PROVE  BusOf(m) \in Bus /\ IdOf(m) \in Ids /\ (BusOf(m) # b \/ IdOf(m) # k)
  BY <1>2, <1>7, Resolve DEF Resolved
<1>8. toldBar' = [toldBar EXCEPT ![n] = IF newestBar[n].type = "feedback" THEN newestBar[n] ELSE @]
  <2>1. \A c \in Bus, j \in Ids : c # b \/ j # k => decoded'[c][j] = decoded[c][j]
    BY <1>2, <1>3 DEF ParseFeedback, IInv, TypeOK
  <2>2. \A m \in Names : m # n => toldBar'[m] = toldBar[m]
    BY <1>1, <1>7, <2>1, NamesStay, Bars, BarsNext
  <2>3. toldBar'[n] = decoded'[b][k].id
    BY <1>1, NamesStay, BarsNext DEF b, k
  <2>4. decoded'[b][k].id = IF newestBar[n].type = "feedback" THEN newestBar[n] ELSE toldBar[n]
    BY <1>2, <1>3, <1>4, <1>6 DEF ParseFeedback, IInv, TypeOK
  <2> QED
    BY <2>2, <2>3, <2>4, Bars, BarsNext
<1>9. newestBar' = newestBar /\ motorBar' = motorBar /\ dueBar' = dueBar
  <2>1. \A m \in Names : newestBar'[m] = newestBar[m]
    BY <1>1, NamesStay, Bars, BarsNext
  <2>2. dueBar' = dueBar
    BY <1>1 DEF dueBar
  <2> QED
    BY <1>1, <2>1, <2>2, NamesStay, Bars, BarsNext
<1>10. Service!Get(n)
  BY <1>1, <1>5, <1>8, <1>9 DEF Service!Get
<1> QED
  BY <1>10 DEF Service!Next

LEMMA ServiceNext == IInv /\ IInv' /\ SInv /\ [Next]_vars => [Service!Next]_(Service!vars)
<1> SUFFICES ASSUME IInv, IInv', SInv, [Next]_vars PROVE Service!Next \/ UNCHANGED Service!vars
  OBVIOUS
<1>1. CASE UNCHANGED vars
  <2>1. UNCHANGED <<config, rx, recv_mtx, recv_buf, decoded, arrived>>
    BY <1>1 DEF vars
  <2>2. dueBar' = dueBar
    BY <2>1 DEF dueBar
  <2>3. \A m \in Names : newestBar'[m] = newestBar[m] /\ toldBar'[m] = toldBar[m]
    BY <2>1, NamesStay, Bars, BarsNext
  <2>4. newestBar' = newestBar /\ toldBar' = toldBar /\ motorBar' = motorBar
    BY <2>1, <2>3, NamesStay, Bars, BarsNext
  <2> QED
    BY <2>1, <2>2, <2>4 DEF Service!vars
<1> QED
  BY <1>1, CreateServes, AttachServes, ReadServes, WriteIdServes, WriteDataServes, GetServes
  DEF Next, Configure, Receive

(* The receive side implements the service: for whoever reads an actuator,  *)
(* its name is a register of one motor, which takes that motor's frames     *)
(* whole and in the order they arrived and drops none of them, whatever     *)
(* buses, interfaces, RX threads and getters there are.                     *)
THEOREM ServesReaders == Spec => ImplementsService
<1>1. Spec => []SInv
  BY InitSInv, NextSInv, Invariance, PTL DEF Spec
<1> QED
  BY <1>1, ServiceInit, ServiceNext, Invariance, PTL DEF Spec, ImplementsService, Service!Spec

-------------------------------------------------------------------------------
(* What the service promises of its numbers: a getter's answer is never     *)
(* newer than the newest frame recorded for its name.                       *)
AnswerInv ==
  /\ \A i \in Interfaces : dueBar[i] \in Frame \cup {NoFrame}
  /\ \A n \in Names : newestBar[n].n \in Nat /\ toldBar[n].n \in Nat /\ toldBar[n].n <= newestBar[n].n

LEMMA AnswerInit == Service!Init => AnswerInv
  BY DEF Service!Init, AnswerInv, NoFrame

LEMMA AnswerNext ==
  ASSUME AnswerInv, [Service!Next]_(Service!vars)
  PROVE  AnswerInv' /\ \A n \in Names : toldBar[n].n <= toldBar'[n].n
<1>1. CASE UNCHANGED Service!vars
  BY <1>1 DEF Service!vars, AnswerInv
<1>2. ASSUME NEW n \in Names, NEW i \in Interfaces, NEW id \in CanIds, Service!Attach(n, i, id)
      PROVE  AnswerInv' /\ UNCHANGED toldBar
  BY <1>2 DEF Service!Attach, AnswerInv
<1>3. ASSUME NEW f \in Frame, Service!Arrive(f)
      PROVE  AnswerInv' /\ UNCHANGED toldBar
  <2>1. f.on \in Interfaces
    BY DEF Frame
  <2>2. \A i \in Interfaces : dueBar'[i] = dueBar[i] \/ dueBar'[i] = f
    <3>1. dueBar' = [dueBar EXCEPT ![f.on] = f] \/ dueBar' = dueBar
      BY <1>3 DEF Service!Arrive
    <3> QED
      BY <3>1, BarsNext, Bars
  <2> QED
    BY <1>3, <2>1, <2>2 DEF Service!Arrive, AnswerInv
<1>4. ASSUME NEW n \in Names, NEW i \in Interfaces, Service!Record(n, i)
      PROVE  AnswerInv' /\ UNCHANGED toldBar
  <2>1. /\ motorBar[n] = <<i, dueBar[i].from>> /\ motorBar[n] # Nothing
        /\ newestBar[n].n < dueBar[i].n
    <3>1. dueBar[i].from \in Nat
      BY <1>4, FeedbackAssumption DEF Service!Record, AnswerInv, Frame
    <3>2. motorBar[n] = <<i, dueBar[i].from>> /\ motorBar[n] # Nothing /\ motorBar[n][1] = i
      BY <1>4, <3>1, FeedbackAssumption DEF Service!Record
    <3> QED
      BY <1>4, <3>2 DEF Service!Record
  <2>2. \A m \in Names : newestBar'[m] = IF m = n THEN dueBar[i] ELSE newestBar[m]
    BY <1>4, Bars DEF Service!Record
  <2>3. \A j \in Interfaces : dueBar'[j] = IF j = i THEN NoFrame ELSE dueBar[j]
    BY <1>4, Bars DEF Service!Record
  <2>4. dueBar[i].n \in Nat
    BY FeedbackAssumption DEF AnswerInv, Frame, NoFrame
  <2> QED
    BY <1>4, <2>1, <2>2, <2>3, <2>4 DEF Service!Record, AnswerInv
<1>5. ASSUME NEW n \in Names, Service!Get(n)
      PROVE  AnswerInv' /\ \A m \in Names : toldBar[m].n <= toldBar'[m].n
  <2>1. \A m \in Names : toldBar'[m] = toldBar[m] \/ toldBar'[m] = newestBar[m]
    BY <1>5, Bars DEF Service!Get
  <2> QED
    BY <1>5, <2>1 DEF Service!Get, AnswerInv
<1> QED
  BY <1>1, <1>2, <1>3, <1>4, <1>5 DEF Service!Next, AnswerInv

(* What the service implies for a reader: the getters of a name never go    *)
(* back to an older frame, although the RX threads overwrite slots whenever *)
(* they like and a getter may decode nothing for a while.                   *)
THEOREM AnswersGoForward ==
  Spec => [][\A n \in Names : toldBar[n].n <= toldBar'[n].n]_toldBar
<1>1. ImplementsService => []AnswerInv
  BY AnswerInit, AnswerNext, PTL DEF ImplementsService, Service!Spec
<1>2. AnswerInv /\ [Service!Next]_(Service!vars)
        => [\A n \in Names : toldBar[n].n <= toldBar'[n].n]_toldBar
  BY AnswerNext
<1> QED
  BY <1>1, <1>2, ServesReaders, PTL DEF ImplementsService, Service!Spec
===============================================================================
