----------------------------- MODULE PowerHandshake -----------------------------
(***************************************************************************)
(* Enabling and disabling actuators: CanBus::EnableActuator and            *)
(* DisableActuator send a one-shot and then poll the actuator's cached     *)
(* state until it is the one asked for or the polls are used up; EnableAll *)
(* and DisableAll do so for one actuator after another and stop at the     *)
(* first that fails.  The state comes from the receive slot, which the RX  *)
(* thread overwrites with every frame of the motor, and which is decoded   *)
(* only when somebody reads it (RobstrideMotor::ParseFeedback).            *)
(*                                                                         *)
(* The motor and the wire are not code of the repository: a motor obeys    *)
(* its requests in order, answers each with its status, and may report     *)
(* its status, or send a frame of another type, at any time.               *)
(***************************************************************************)
EXTENDS Naturals, Sequences

CONSTANTS
  Actuators,
  Clients,      \* threads that call the API
  MaxPolls,     \* COM_TIMEOUT_MS / 10
  Mishaps,      \* what may go wrong: "loss" of a frame, "fault" of a motor
  MaxCalls,     \* bound: calls begun
  MaxInFlight   \* bound: frames of one motor on their way back

ASSUME HandshakeAssumption ==
  /\ Actuators # {}
  /\ MaxPolls \in Nat \ {0}
  /\ MaxCalls \in Nat
  /\ MaxInFlight \in Nat
  /\ Mishaps \subseteq {"loss", "fault"}

VARIABLES
  wire,         \* wire[a]: requests on their way to motor a
  motor,        \* motor[a]: the status of the motor itself
  back,         \* back[a]: frames on their way from motor a
  recv_buf,     \* recv_buf[a]: the frame in the receive slot of a
  power_state,  \* power_state[a]: the state decoded last
  pc,           \* pc[c]: "idle", about to send "next" request, or in "poll"
  call,         \* call[c]: what c's call is about, NoCall outside of one
  calls,        \* bound: calls begun
  confirmed,    \* history: the state the last call that asked a returned true for
  clean         \* history: nothing has gone wrong with a, see AnswersAreTrue

vars == <<wire, motor, back, recv_buf, power_state, pc, call, calls, confirmed, clean>>

State  == {"enable", "disable"}
Status == {"reset", "run"}
Frame  == Status \cup {"other"}   \* "other": not a type-2 feedback frame

(* A call asks the actuators of todo, after the one in asked, for a state,  *)
(* and has polled the one in asked so many times.                           *)
CallRecord == [want : State, todo : SUBSET Actuators, asked : SUBSET Actuators, polls : 0 .. MaxPolls]
NoCall     == [want |-> "disable", todo |-> {}, asked |-> {}, polls |-> 0]

(* ParseFeedback *)
Decode(status) == IF status = "run" THEN "enable" ELSE "disable"

(* A motor may run already when this process starts, for instance when the  *)
(* process was restarted.                                                   *)
Init ==
  /\ wire = [a \in Actuators |-> <<>>]
  /\ motor \in [Actuators -> Status]
  /\ back = [a \in Actuators |-> <<>>]
  /\ recv_buf = [a \in Actuators |-> "none"]
  /\ power_state = [a \in Actuators |-> "disable"]
  /\ pc = [c \in Clients |-> "idle"]
  /\ call = [c \in Clients |-> NoCall]
  /\ calls = 0
  /\ confirmed = [a \in Actuators |-> "none"]
  /\ clean = [a \in Actuators |-> motor[a] = "reset"]

(***************************************************************************)
(* The API.                                                                *)
(***************************************************************************)
Begin(c, w, acts) ==
  /\ pc[c] = "idle"
  /\ calls < MaxCalls
  /\ calls' = calls + 1
  /\ pc' = [pc EXCEPT ![c] = "next"]
  /\ call' = [call EXCEPT ![c].want = w, ![c].todo = acts]
  /\ UNCHANGED <<wire, motor, back, recv_buf, power_state, confirmed, clean>>

EnableActuator(c, a)  == Begin(c, "enable", {a})
DisableActuator(c, a) == Begin(c, "disable", {a})
EnableAll(c)  == Begin(c, "enable", Actuators)
DisableAll(c) == Begin(c, "disable", Actuators)

(* Mistake: frames of every type are decoded as feedback. *)
ReadAnything(a) == IF recv_buf[a] # "none" THEN Decode(recv_buf[a]) ELSE power_state[a]

(* GetPowerState under recv_mtx_, which decodes the slot: only a type-2     *)
(* frame changes the cached state.                                          *)
Read(a) == IF recv_buf[a] \in Status THEN Decode(recv_buf[a]) ELSE power_state[a]

(* Two calls that ask the same actuator at the same time. *)
Contended(c, a) == \E d \in Clients \ {c} : a \in call[d].asked

(* Mistake: the cached state is set to the one asked for, as SetMode does.  *)
RequestOptimistic(c, a) ==
  /\ pc[c] = "next"
  /\ a \in call[c].todo
  /\ call' = [call EXCEPT ![c].todo = @ \ {a}, ![c].asked = {a}, ![c].polls = 0]
  /\ pc' = [pc EXCEPT ![c] = "poll"]
  /\ confirmed' = [confirmed EXCEPT ![a] = "none"]
  /\ wire' = [wire EXCEPT ![a] = Append(@, call[c].want)]
  /\ power_state' = [power_state EXCEPT ![a] = call[c].want]
  /\ clean' = [clean EXCEPT ![a] = @ /\ ~Contended(c, a)]
  /\ UNCHANGED <<motor, back, recv_buf, calls>>

(* Mistake: nothing is sent to an actuator that seems to obey already. *)
RequestUnlessThere(c, a) ==
  /\ pc[c] = "next"
  /\ a \in call[c].todo
  /\ call' = [call EXCEPT ![c].todo = @ \ {a}, ![c].asked = {a}, ![c].polls = 0]
  /\ pc' = [pc EXCEPT ![c] = "poll"]
  /\ confirmed' = [confirmed EXCEPT ![a] = "none"]
  /\ wire' = IF Read(a) = call[c].want THEN wire
             ELSE [wire EXCEPT ![a] = Append(@, call[c].want)]
  /\ UNCHANGED <<motor, back, recv_buf, power_state, calls, clean>>

(* SendOnce(RequestState): the frame is on its way, or it is lost: refused  *)
(* by a full queue or given up by the sender.                               *)
Request(c, a) ==
  /\ pc[c] = "next"
  /\ a \in call[c].todo
  /\ call' = [call EXCEPT ![c].todo = @ \ {a}, ![c].asked = {a}, ![c].polls = 0]
  /\ pc' = [pc EXCEPT ![c] = "poll"]
  /\ confirmed' = [confirmed EXCEPT ![a] = "none"]
  /\ \/ /\ wire' = [wire EXCEPT ![a] = Append(@, call[c].want)]
        /\ clean' = [clean EXCEPT ![a] = @ /\ ~Contended(c, a)]
     \/ /\ "loss" \in Mishaps
        /\ clean' = [clean EXCEPT ![a] = FALSE]
        /\ UNCHANGED wire
  /\ UNCHANGED <<motor, back, recv_buf, power_state, calls>>

GetPowerState(a) ==
  /\ power_state' = [power_state EXCEPT ![a] = Read(a)]
  /\ UNCHANGED <<wire, motor, back, recv_buf, pc, call, calls, confirmed, clean>>

(* Mistake: on to the next actuator, even after the last. *)
PollSucceedsOn(c) ==
  \E a \in call[c].asked :
    /\ pc[c] = "poll"
    /\ Read(a) = call[c].want
    /\ power_state' = [power_state EXCEPT ![a] = Read(a)]
    /\ confirmed' = [confirmed EXCEPT ![a] = call[c].want]
    /\ pc' = [pc EXCEPT ![c] = "next"]
    /\ call' = [call EXCEPT ![c].asked = {}, ![c].polls = 0]
    /\ UNCHANGED <<wire, motor, back, recv_buf, calls, clean>>

(* The poll that sees the state asked for ends the loop: on to the next     *)
(* actuator, or back to the caller with true.                               *)
PollSucceeds(c) ==
  \E a \in call[c].asked :
    /\ pc[c] = "poll"
    /\ Read(a) = call[c].want
    /\ power_state' = [power_state EXCEPT ![a] = Read(a)]
    /\ confirmed' = [confirmed EXCEPT ![a] = call[c].want]
    /\ \/ /\ call[c].todo # {}
          /\ pc' = [pc EXCEPT ![c] = "next"]
          /\ call' = [call EXCEPT ![c].asked = {}, ![c].polls = 0]
       \/ /\ call[c].todo = {}
          /\ pc' = [pc EXCEPT ![c] = "idle"]
          /\ call' = [call EXCEPT ![c] = NoCall]
    /\ UNCHANGED <<wire, motor, back, recv_buf, calls, clean>>

(* A poll that does not is repeated; the last one ends the call with false, *)
(* whatever it had still to ask.                                            *)
PollFails(c) ==
  \E a \in call[c].asked :
    /\ pc[c] = "poll"
    /\ Read(a) # call[c].want
    /\ power_state' = [power_state EXCEPT ![a] = Read(a)]
    /\ \/ /\ call[c].polls + 1 < MaxPolls
          /\ call' = [call EXCEPT ![c].polls = @ + 1]
          /\ UNCHANGED <<pc, clean>>
       \/ /\ call[c].polls + 1 = MaxPolls
          /\ call' = [call EXCEPT ![c] = NoCall]
          /\ pc' = [pc EXCEPT ![c] = "idle"]
          /\ clean' = [clean EXCEPT ![a] = FALSE]
    /\ UNCHANGED <<wire, motor, back, recv_buf, calls, confirmed>>

(***************************************************************************)
(* The RX thread: the callback CanBus registers for the actuator.          *)
(***************************************************************************)
Receive(a) ==
  /\ back[a] # <<>>
  /\ recv_buf' = [recv_buf EXCEPT ![a] = Head(back[a])]
  /\ back' = [back EXCEPT ![a] = Tail(@)]
  /\ UNCHANGED <<wire, motor, power_state, pc, call, calls, confirmed, clean>>

(***************************************************************************)
(* The motor and the wire (external).                                      *)
(***************************************************************************)
Send(a, f) ==
  /\ Len(back[a]) < MaxInFlight
  /\ back' = [back EXCEPT ![a] = Append(@, f)]

MotorObeys(a) ==
  /\ wire[a] # <<>>
  /\ wire' = [wire EXCEPT ![a] = Tail(@)]
  /\ LET status == IF Head(wire[a]) = "enable" THEN "run" ELSE "reset" IN
     /\ motor' = [motor EXCEPT ![a] = status]
     /\ Send(a, status)
  /\ UNCHANGED <<recv_buf, power_state, pc, call, calls, confirmed, clean>>

MotorReports(a) ==
  /\ \E f \in {motor[a], "other"} : Send(a, f)
  /\ UNCHANGED <<wire, motor, recv_buf, power_state, pc, call, calls, confirmed, clean>>

MotorFaults(a) ==
  /\ "fault" \in Mishaps
  /\ motor[a] = "run"
  /\ motor' = [motor EXCEPT ![a] = "reset"]
  /\ clean' = [clean EXCEPT ![a] = FALSE]
  /\ UNCHANGED <<wire, back, recv_buf, power_state, pc, call, calls, confirmed>>

FeedbackLost(a) ==
  /\ "loss" \in Mishaps
  /\ back[a] # <<>>
  /\ back' = [back EXCEPT ![a] = Tail(@)]
  /\ UNCHANGED <<wire, motor, recv_buf, power_state, pc, call, calls, confirmed, clean>>

-------------------------------------------------------------------------------
Call(c) ==
  \/ \E a \in Actuators : EnableActuator(c, a) \/ DisableActuator(c, a)
  \/ EnableAll(c) \/ DisableAll(c)

Proceed(c) == (\E a \in Actuators : Request(c, a)) \/ PollSucceeds(c) \/ PollFails(c)

External(a) == MotorObeys(a) \/ MotorReports(a) \/ MotorFaults(a) \/ FeedbackLost(a)

Next ==
  \/ \E c \in Clients : Call(c) \/ Proceed(c)
  \/ \E a \in Actuators : GetPowerState(a) \/ Receive(a) \/ External(a)

(* Calls that have begun go on, the RX thread reads what has arrived, and a *)
(* motor obeys what was sent to it.  A request that stays in the queue      *)
(* because the sender missed its notification (SocketCANTx) never reaches   *)
(* the motor: for the handshake it is lost, and a run without "loss" has    *)
(* none.                                                                    *)
Fairness ==
  /\ \A c \in Clients : WF_vars(Proceed(c))
  /\ \A a \in Actuators : WF_vars(Receive(a)) /\ SF_vars(MotorObeys(a))

SafetySpec == Init /\ [][Next]_vars
Spec == SafetySpec /\ Fairness

-------------------------------------------------------------------------------
TypeOK ==
  /\ wire \in [Actuators -> Seq(State)]
  /\ motor \in [Actuators -> Status]
  /\ back \in [Actuators -> Seq(Frame)]
  /\ recv_buf \in [Actuators -> Frame \cup {"none"}]
  /\ power_state \in [Actuators -> State]
  /\ pc \in [Clients -> {"idle", "next", "poll"}]
  /\ call \in [Clients -> CallRecord]
  /\ \A c \in Clients :
       /\ pc[c] = "next" => call[c].todo # {}
       /\ pc[c] = "poll" => \E a \in Actuators : call[c].asked = {a}
  /\ calls \in 0 .. MaxCalls
  /\ confirmed \in [Actuators -> State \cup {"none"}]
  /\ clean \in [Actuators -> BOOLEAN]

Is(status, w) == Decode(status) = w

(* Until something goes wrong with an actuator, a call that has returned    *)
(* true for it told the truth, although the answer was read from a slot     *)
(* that may hold, or hide, older frames: the motor is in the state asked    *)
(* for until the next call asks for another.  Wrong is: the motor was       *)
(* running already when the process started, a request was lost, a call     *)
(* timed out, two calls asked at once, or the motor stopped by itself.      *)
AnswersAreTrue ==
  \A a \in Actuators : clean[a] /\ confirmed[a] # "none" => Is(motor[a], confirmed[a])

(* Without losses and faults a true answer of a single client is true at    *)
(* the latest when the motor has obeyed all that was sent to it, even if a  *)
(* call before it timed out and left its request, and the frames that answer*)
(* it, on the way, or the motor was running when the process started.       *)
SettledAnswersAreTrue ==
  \A a \in Actuators :
    confirmed[a] # "none" /\ wire[a] = <<>> => Is(motor[a], confirmed[a])

(* Without losses (missed notifications included) and faults a true answer  *)
(* of a single client becomes true and stays so, even one that was read     *)
(* from a stale slot after a timeout.                                       *)
AnswersBecomeTrue ==
  \A a \in Actuators, w \in State :
    <>[](confirmed[a] = w) => <>[]Is(motor[a], w)
===============================================================================
