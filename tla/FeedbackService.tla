---------------------------- MODULE FeedbackService ----------------------------
(***************************************************************************)
(* What the receive side promises to whoever reads an actuator, without    *)
(* buses, slots, callbacks or locks.  An attached name stands for one      *)
(* motor.  An interface takes one frame at a time; a frame of a motor that *)
(* some name stands for is recorded, whole, for one such name, in the order*)
(* of arrival, and other frames are dropped.  A getter answers from the    *)
(* newest frame recorded for its name, or from the one it answered from    *)
(* before when the newest is not feedback.                                 *)
(***************************************************************************)
EXTENDS Naturals

CONSTANTS
  Names,        \* actuator names
  Interfaces,   \* CAN interface names
  CanIds,       \* the ids of the motors
  Frame,        \* frames: where one comes from, its type, and its number
  NoFrame,      \* no frame yet
  Nothing       \* no motor

VARIABLES
  motor,        \* motor[n]: the interface and id that n stands for, or Nothing
  due,          \* due[i]: the frame interface i has taken, or NoFrame
  newest,       \* newest[n]: the newest frame recorded for n
  told,         \* told[n]: the frame the getters of n answer from
  arrived       \* number of frames that have arrived

vars == <<motor, due, newest, told, arrived>>

Init ==
  /\ motor = [n \in Names |-> Nothing]
  /\ due = [i \in Interfaces |-> NoFrame]
  /\ newest = [n \in Names |-> NoFrame]
  /\ told = [n \in Names |-> NoFrame]
  /\ arrived = 0

(* A name is attached once, and has heard nothing before. *)
Attach(n, i, id) ==
  /\ motor[n] = Nothing
  /\ motor' = [motor EXCEPT ![n] = <<i, id>>]
  /\ UNCHANGED <<due, newest, told, arrived>>

Arrive(f) ==
  /\ due[f.on] = NoFrame
  /\ f.n = arrived + 1
  /\ arrived' = f.n
  /\ due' = IF \E n \in Names : motor[n] = <<f.on, f.from>> THEN [due EXCEPT ![f.on] = f] ELSE due
  /\ UNCHANGED <<motor, newest, told>>

(* No frame is recorded after a later one of the same interface. *)
Record(n, i) ==
  /\ due[i] # NoFrame
  /\ motor[n] = <<i, due[i].from>>
  /\ \A m \in Names : motor[m] # Nothing /\ motor[m][1] = i => newest[m].n < due[i].n
  /\ newest' = [newest EXCEPT ![n] = due[i]]
  /\ due' = [due EXCEPT ![i] = NoFrame]
  /\ UNCHANGED <<motor, told, arrived>>

Get(n) ==
  /\ motor[n] # Nothing
  /\ told' = [told EXCEPT ![n] = IF newest[n].type = "feedback" THEN newest[n] ELSE @]
  /\ UNCHANGED <<motor, due, newest, arrived>>

Next ==
  \/ \E n \in Names, i \in Interfaces, id \in CanIds : Attach(n, i, id)
  \/ \E f \in Frame : Arrive(f)
  \/ \E n \in Names, i \in Interfaces : Record(n, i)
  \/ \E n \in Names : Get(n)

Spec == Init /\ [][Next]_vars
===============================================================================
