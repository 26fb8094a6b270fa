------------------------- MODULE PowerHandshake_proofs -------------------------
(***************************************************************************)
(* Proofs about PowerHandshake, for any number of actuators, clients,      *)
(* calls, polls and frames in flight, with and without mishaps.            *)
(*                                                                         *)
(* Between a request and the state a getter returns lie, from the oldest   *)
(* news of an actuator to the newest: the cached state, the receive slot,  *)
(* the frames on their way back, the motor, and the requests on their way  *)
(* to it.  While nothing has gone wrong, all of these say the same when no *)
(* call asks the actuator, and while a call asks it for w they are in      *)
(* order: once one of them says w, all newer ones do.  A poll that reads w *)
(* therefore knows that the motor is there, however old what it read is.   *)
(***************************************************************************)
EXTENDS PowerHandshake, SequenceTheorems, TLAPS

(* Frame f does not contradict w; it tells w. *)
Says(f, w)  == f \in Status => Decode(f) = w
Tells(f, w) == f \in Status /\ Decode(f) = w

WireSays(a, w) == \A k \in 1 .. Len(wire[a]) : wire[a][k] = w
BackSays(a, w) == \A k \in 1 .. Len(back[a]) : Says(back[a][k], w)

(* All news of a say w. *)
Uniform(a, w) ==
  /\ power_state[a] = w
  /\ Says(recv_buf[a], w)
  /\ BackSays(a, w)
  /\ Is(motor[a], w)
  /\ WireSays(a, w)

(* Once one of the news of a says w, all newer ones do. *)
Sorted(a, w) ==
  /\ power_state[a] = w => Uniform(a, w)
  /\ Tells(recv_buf[a], w) => BackSays(a, w) /\ Is(motor[a], w) /\ WireSays(a, w)
  /\ \A k \in 1 .. Len(back[a]) : Tells(back[a][k], w) =>
       /\ \A m \in 1 .. Len(back[a]) : m > k => Says(back[a][m], w)
       /\ Is(motor[a], w) /\ WireSays(a, w)
  /\ Is(motor[a], w) => WireSays(a, w)
  /\ \A k, m \in 1 .. Len(wire[a]) : k < m /\ wire[a][k] = w => wire[a][m] = w

(* What is known of an actuator with which nothing has gone wrong. *)
Asks(c, a) == a \in call[c].asked
Phase(a) ==
  /\ \A c, d \in Clients : Asks(c, a) /\ Asks(d, a) => c = d
  /\ \A c \in Clients, w \in State :
       Asks(c, a) /\ call[c].want = w => Sorted(a, w) /\ confirmed[a] = "none"
  /\ (\A c \in Clients : ~Asks(c, a)) =>
       \E w \in State : Uniform(a, w) /\ confirmed[a] \in {"none", w}

PhaseInv == \A a \in Actuators : clean[a] => Phase(a)

(* Outside of the polls a call asks nobody. *)
CallInv ==
  \A c \in Clients :
    /\ pc[c] = "idle" => call[c] = NoCall
    /\ pc[c] = "next" => call[c].asked = {}

IInv == TypeOK /\ CallInv /\ PhaseInv

-------------------------------------------------------------------------------
(* What is uniform is sorted, for the state it says and for the other one,  *)
(* which none of the news says.                                             *)
LEMMA UniformIsSorted ==
  ASSUME NEW a \in Actuators, NEW v \in State, NEW w \in State, Uniform(a, v)
  PROVE  Sorted(a, w)
<1>1. CASE v = w
  BY <1>1 DEF Uniform, Sorted, BackSays, WireSays
<1>2. CASE v # w
  BY <1>2 DEF Uniform, Sorted, BackSays, WireSays, Says, Tells, Is
<1> QED
  BY <1>1, <1>2

(* A step that changes neither the news of an actuator nor who asks it.     *)
LEMMA Untouched ==
  ASSUME NEW a \in Actuators, Phase(a),
         wire'[a] = wire[a], motor'[a] = motor[a], back'[a] = back[a],
         recv_buf'[a] = recv_buf[a], power_state'[a] = power_state[a],
         confirmed'[a] = confirmed[a],
         \A c \in Clients : Asks(c, a)' <=> Asks(c, a),
         \A c \in Clients : Asks(c, a) => call'[c].want = call[c].want
  PROVE  Phase(a)'
<1>1. \A w : Sorted(a, w)' <=> Sorted(a, w)
  BY DEF Sorted, Uniform, BackSays, WireSays
<1>2. \A w : Uniform(a, w)' <=> Uniform(a, w)
  BY DEF Uniform, BackSays, WireSays
<1>3. \A c, d \in Clients : Asks(c, a)' /\ Asks(d, a)' => c = d
  BY DEF Phase
<1>4. \A c \in Clients, w \in State :
        Asks(c, a)' /\ call'[c].want = w => Sorted(a, w)' /\ confirmed'[a] = "none"
  BY <1>1 DEF Phase
<1>5. (\A c \in Clients : ~Asks(c, a)') =>
        \E w \in State : Uniform(a, w)' /\ confirmed'[a] \in {"none", w}
  BY <1>2 DEF Phase
<1> QED
  BY <1>3, <1>4, <1>5 DEF Phase

(* A step that only moves news along: it may make things more uniform, and  *)
(* asks nobody.                                                             *)
LEMMA Moved ==
  ASSUME NEW a \in Actuators, Phase(a),
         \A w \in State : Sorted(a, w) => Sorted(a, w)',
         \A w \in State : Uniform(a, w) => Uniform(a, w)',
         call' = call, confirmed' = confirmed
  PROVE  Phase(a)'
<1>1. \A c, d \in Clients : Asks(c, a)' /\ Asks(d, a)' => c = d
  BY DEF Phase, Asks
<1>2. \A c \in Clients, w \in State :
        Asks(c, a)' /\ call'[c].want = w => Sorted(a, w)' /\ confirmed'[a] = "none"
  BY DEF Phase, Asks
<1>3. (\A c \in Clients : ~Asks(c, a)') =>
        \E w \in State : Uniform(a, w)' /\ confirmed'[a] \in {"none", w}
  BY DEF Phase, Asks
<1> QED
  BY <1>1, <1>2, <1>3 DEF Phase

(* The invariant holds in the beginning, whatever motors run then.          *)
LEMMA InitIInv == Init => IInv
<1> SUFFICES ASSUME Init PROVE IInv
    OBVIOUS
<1>1. TypeOK
  BY HandshakeAssumption DEF Init, TypeOK, State, Status, Frame, CallRecord, NoCall
<1>2. CallInv
  BY DEF Init, CallInv
<1>3. ASSUME NEW a \in Actuators, clean[a] PROVE Phase(a)
  <2>1. \A c \in Clients : ~Asks(c, a)
    BY DEF Init, Asks, NoCall
  <2>2. Uniform(a, "disable")
    <3>1. motor[a] = "reset" /\ power_state[a] = "disable" /\ recv_buf[a] = "none"
      BY <1>3 DEF Init
    <3>2. Len(wire[a]) = 0 /\ Len(back[a]) = 0
      BY DEF Init
    <3> QED
      BY <3>1, <3>2 DEF Uniform, Says, BackSays, WireSays, Is, Decode, Status
  <2>3. confirmed[a] = "none"
    BY DEF Init
  <2> QED
    BY <2>1, <2>2, <2>3 DEF Phase, State
<1> QED
  BY <1>1, <1>2, <1>3 DEF IInv, PhaseInv
-------------------------------------------------------------------------------
(* A call that begins asks nobody yet. *)
LEMMA BeginStep ==
  ASSUME IInv, NEW c \in Clients, NEW w \in State, NEW acts \in SUBSET Actuators, acts # {},
         Begin(c, w, acts)
  PROVE  IInv'
<1>0. TypeOK /\ CallInv
  BY DEF IInv
<1>1. call[c].asked = {}
  BY <1>0 DEF Begin, CallInv, NoCall
<1>r. PICK r : r = [call[c] EXCEPT !.want = w, !.todo = acts]
  OBVIOUS
<1>2. /\ call' = [call EXCEPT ![c] = r]
      /\ pc' = [pc EXCEPT ![c] = "next"]
      /\ calls < MaxCalls /\ calls' = calls + 1
      /\ UNCHANGED <<wire, motor, back, recv_buf, power_state, confirmed, clean>>
  BY <1>0, <1>r DEF Begin, TypeOK
<1>3. r \in CallRecord /\ r.todo = acts /\ r.asked = {} /\ r.want = w
  <2>1. call[c] \in CallRecord
    BY <1>0 DEF TypeOK
  <2> QED
    BY <1>1, <1>r, <2>1 DEF CallRecord
<1>4. TypeOK'
  <2>1. call' \in [Clients -> CallRecord] /\ pc' \in [Clients -> {"idle", "next", "poll"}]
    BY <1>0, <1>2, <1>3 DEF TypeOK
  <2>2. \A d \in Clients :
          /\ pc'[d] = "next" => call'[d].todo # {}
          /\ pc'[d] = "poll" => \E a \in Actuators : call'[d].asked = {a}
    BY <1>0, <1>2, <1>3 DEF TypeOK
  <2>3. calls' \in 0 .. MaxCalls
    BY <1>0, <1>2, HandshakeAssumption DEF TypeOK
  <2> QED
    BY <1>0, <1>2, <2>1, <2>2, <2>3 DEF TypeOK
<1>5. CallInv'
  BY <1>0, <1>2, <1>3 DEF TypeOK, CallInv
<1>6. ASSUME NEW a \in Actuators, clean'[a] PROVE Phase(a)'
  <2>1. Phase(a)
    BY <1>2, <1>6 DEF IInv, PhaseInv
  <2>2. ~Asks(c, a) /\ \A d \in Clients : Asks(d, a)' <=> Asks(d, a)
    BY <1>0, <1>1, <1>2, <1>3 DEF TypeOK, Asks
  <2>3. \A d \in Clients : Asks(d, a) => call'[d].want = call[d].want
    BY <1>0, <1>2, <2>2 DEF TypeOK
  <2> QED
    BY <1>2, <2>1, <2>2, <2>3, Untouched
<1> QED
  BY <1>4, <1>5, <1>6 DEF IInv, PhaseInv

(* A request joins the news of an actuator that all say the same.           *)
LEMMA RequestStep ==
  ASSUME IInv, NEW c \in Clients, NEW a \in Actuators, Request(c, a)
  PROVE  IInv'
<1>0. TypeOK /\ CallInv
  BY DEF IInv
<1>1. call[c].asked = {} /\ pc[c] = "next" /\ a \in call[c].todo
  BY <1>0 DEF CallInv, Request
<1>w. PICK w \in State : call[c].want = w
  BY <1>0 DEF TypeOK, CallRecord
<1>r. PICK r : r = [call[c] EXCEPT !.todo = call[c].todo \ {a}, !.asked = {a}, !.polls = 0]
  OBVIOUS
<1>2. /\ call' = [call EXCEPT ![c] = r]
      /\ pc' = [pc EXCEPT ![c] = "poll"]
      /\ confirmed' = [confirmed EXCEPT ![a] = "none"]
      /\ UNCHANGED <<motor, back, recv_buf, power_state, calls>>
  BY <1>0, <1>r DEF Request, TypeOK
<1>3. r \in CallRecord /\ r.want = w /\ r.asked = {a}
  <2>1. call[c] \in CallRecord /\ 0 \in 0 .. MaxPolls
    BY <1>0, HandshakeAssumption DEF TypeOK
  <2> QED
    BY <1>w, <1>r, <2>1 DEF CallRecord
<1>4. \/ /\ wire' = [wire EXCEPT ![a] = Append(wire[a], w)]
         /\ clean' = [clean EXCEPT ![a] = clean[a] /\ ~Contended(c, a)]
      \/ clean' = [clean EXCEPT ![a] = FALSE] /\ wire' = wire
  BY <1>0, <1>w DEF Request, TypeOK
<1>5. TypeOK'
  <2>1. call' \in [Clients -> CallRecord] /\ pc' \in [Clients -> {"idle", "next", "poll"}]
    BY <1>0, <1>2, <1>3 DEF TypeOK
  <2>2. \A d \in Clients :
          /\ pc'[d] = "next" => call'[d].todo # {}
          /\ pc'[d] = "poll" => \E e \in Actuators : call'[d].asked = {e}
    BY <1>0, <1>2, <1>3 DEF TypeOK
  <2>3. Append(wire[a], w) \in Seq(State)
    BY <1>0, <1>1 DEF TypeOK
  <2>4. wire' \in [Actuators -> Seq(State)] /\ clean' \in [Actuators -> BOOLEAN]
    <3>1. wire' \in [Actuators -> Seq(State)]
      BY <1>0, <1>4, <2>3 DEF TypeOK
    <3>2. clean' \in [Actuators -> BOOLEAN]
      BY <1>0, <1>4, Zenon DEF TypeOK, Contended
    <3> QED
      BY <3>1, <3>2
  <2>5. confirmed' \in [Actuators -> State \cup {"none"}]
    BY <1>0, <1>2 DEF TypeOK
  <2> QED
    BY <1>0, <1>2, <2>1, <2>2, <2>4, <2>5 DEF TypeOK
<1>6. CallInv'
  BY <1>0, <1>2 DEF TypeOK, CallInv
<1>7. ASSUME NEW e \in Actuators, e # a, clean'[e] PROVE Phase(e)'
  <2>1. clean[e] /\ wire'[e] = wire[e] /\ confirmed'[e] = confirmed[e]
    BY <1>0, <1>2, <1>4, <1>7 DEF TypeOK
  <2>2. ~Asks(c, e) /\ \A d \in Clients : Asks(d, e)' <=> Asks(d, e)
    BY <1>0, <1>1, <1>2, <1>3, <1>7 DEF TypeOK, Asks
  <2>3. \A d \in Clients : Asks(d, e) => call'[d].want = call[d].want
    BY <1>0, <1>2, <2>2 DEF TypeOK
  <2> QED
    BY <1>2, <2>1, <2>2, <2>3, Untouched DEF IInv, PhaseInv
<1>8. ASSUME clean'[a] PROVE Phase(a)'
  <2>1. /\ wire' = [wire EXCEPT ![a] = Append(wire[a], w)]
        /\ clean[a] /\ ~Contended(c, a)
    BY <1>0, <1>4, <1>8 DEF TypeOK
  <2>2. \A d \in Clients : ~Asks(d, a)
    BY <1>1, <2>1 DEF Asks, Contended
  <2>3. PICK v \in State : Uniform(a, v)
    BY <2>1, <2>2 DEF IInv, PhaseInv, Phase
  <2>4. Sorted(a, w) /\ \A k \in 1 .. Len(wire[a]) : wire[a][k] = v
    BY <1>1, <2>3, UniformIsSorted DEF Uniform, WireSays
  <2>5. /\ wire[a] \in Seq(State) /\ Len(wire'[a]) = Len(wire[a]) + 1
        /\ \A k \in 1 .. Len(wire[a]) : wire'[a][k] = wire[a][k]
        /\ wire'[a][Len(wire[a]) + 1] = w
    BY <1>0, <1>1, <2>1 DEF TypeOK
  <2>6. Len(wire[a]) \in Nat
    BY <2>5
  <2>7. WireSays(a, w) => WireSays(a, w)'
    BY <2>5, <2>6 DEF WireSays
  <2>8. Uniform(a, w) => Uniform(a, w)'
    BY <1>2, <2>7 DEF Uniform, BackSays
  <2>9. Sorted(a, w)'
    <3>1. \A k, m \in 1 .. Len(wire'[a]) : k < m /\ wire'[a][k] = w => wire'[a][m] = w
      BY <2>4, <2>5, <2>6
    <3> QED
      BY <1>2, <2>4, <2>7, <2>8, <3>1 DEF Sorted, BackSays
  <2>10. \A d \in Clients : Asks(d, a)' <=> d = c
    BY <1>0, <1>2, <1>3, <2>2 DEF TypeOK, Asks
  <2>11. call'[c].want = w /\ confirmed'[a] = "none"
    BY <1>0, <1>2, <1>3 DEF TypeOK
  <2>12. \A d \in Clients, x \in State :
           Asks(d, a)' /\ call'[d].want = x => Sorted(a, x)' /\ confirmed'[a] = "none"
    BY <2>9, <2>10, <2>11
  <2> QED
    BY <2>10, <2>12 DEF Phase
<1> QED
  BY <1>5, <1>6, <1>7, <1>8 DEF IInv, PhaseInv
-------------------------------------------------------------------------------
(* A getter that reads w while the news are sorted for w has read that all  *)
(* of them say so.                                                          *)
LEMMA ReadKnows ==
  ASSUME NEW a \in Actuators, NEW w \in State, Sorted(a, w), Read(a) = w
  PROVE  Says(recv_buf[a], w) /\ BackSays(a, w) /\ Is(motor[a], w) /\ WireSays(a, w)
<1>1. CASE recv_buf[a] \in Status
  BY <1>1 DEF Read, Tells, Says, Sorted
<1>2. CASE recv_buf[a] \notin Status
  BY <1>2 DEF Read, Says, Sorted, Uniform
<1> QED
  BY <1>1, <1>2

(* Decoding the slot keeps the news in order, and makes them uniform if it  *)
(* finds what they are sorted for.                                          *)
LEMMA Decoded ==
  ASSUME NEW a \in Actuators, power_state'[a] = Read(a), NEW w \in State,
         UNCHANGED <<wire, motor, back, recv_buf>>
  PROVE  /\ Sorted(a, w) => Sorted(a, w)'
         /\ Sorted(a, w) /\ Read(a) = w => Uniform(a, w)'
         /\ Uniform(a, w) => Uniform(a, w)'
<1>1. Sorted(a, w) /\ Read(a) = w => Uniform(a, w)'
  BY ReadKnows DEF Uniform, BackSays, WireSays
<1>2. Uniform(a, w) => Uniform(a, w)'
  <2> SUFFICES ASSUME Uniform(a, w) PROVE Uniform(a, w)'
      OBVIOUS
  <2>1. Read(a) = w
    BY DEF Uniform, Says, Read
  <2> QED
    BY <2>1 DEF Uniform, BackSays, WireSays
<1>3. Sorted(a, w) => Sorted(a, w)'
  BY <1>1 DEF Sorted, BackSays, WireSays
<1> QED
  BY <1>1, <1>2, <1>3

LEMMA ReadType == TypeOK => \A a \in Actuators : Read(a) \in State
  BY DEF TypeOK, Read, Decode, State

(* A getter of another thread. *)
LEMMA GetStep ==
  ASSUME IInv, NEW a \in Actuators, GetPowerState(a)
  PROVE  IInv'
<1>0. TypeOK /\ CallInv
  BY DEF IInv
<1>1. /\ power_state' = [power_state EXCEPT ![a] = Read(a)]
      /\ UNCHANGED <<wire, motor, back, recv_buf, pc, call, calls, confirmed, clean>>
  BY DEF GetPowerState
<1>2. TypeOK' /\ CallInv'
  BY <1>0, <1>1, ReadType DEF TypeOK, CallInv
<1>3. ASSUME NEW e \in Actuators, e # a, clean'[e] PROVE Phase(e)'
  <2>1. power_state'[e] = power_state[e]
    BY <1>0, <1>1, <1>3 DEF TypeOK
  <2> QED
    BY <1>1, <1>3, <2>1, Untouched DEF IInv, PhaseInv, Asks
<1>4. ASSUME clean'[a] PROVE Phase(a)'
  <2>1. power_state'[a] = Read(a)
    BY <1>0, <1>1 DEF TypeOK
  <2> QED
    BY <1>1, <1>4, <2>1, Decoded, Moved DEF IInv, PhaseInv
<1> QED
  BY <1>2, <1>3, <1>4 DEF IInv, PhaseInv

(* The poll that answers true. *)
LEMMA PollSucceedsStep ==
  ASSUME IInv, NEW c \in Clients, PollSucceeds(c)
  PROVE  IInv'
<1>0. TypeOK /\ CallInv
  BY DEF IInv
<1>1. PICK a \in Actuators : call[c].asked = {a}
  BY <1>0 DEF PollSucceeds, TypeOK
<1>w. PICK w \in State : call[c].want = w
  BY <1>0 DEF TypeOK, CallRecord
<1>2. /\ pc[c] = "poll" /\ Read(a) = w
      /\ power_state' = [power_state EXCEPT ![a] = Read(a)]
      /\ confirmed' = [confirmed EXCEPT ![a] = w]
      /\ UNCHANGED <<wire, motor, back, recv_buf, calls, clean>>
  BY <1>1, <1>w DEF PollSucceeds
<1>r. PICK r : r = [call[c] EXCEPT !.asked = {}, !.polls = 0]
  OBVIOUS
<1>3. r \in CallRecord /\ r.asked = {} /\ r.todo = call[c].todo
  <2>1. call[c] \in CallRecord /\ 0 \in 0 .. MaxPolls
    BY <1>0, HandshakeAssumption DEF TypeOK
  <2> QED
    BY <1>r, <2>1 DEF CallRecord
<1>4. NoCall \in CallRecord /\ NoCall.asked = {}
  BY HandshakeAssumption DEF NoCall, CallRecord, State
<1>5. \/ /\ r.todo # {}
         /\ pc' = [pc EXCEPT ![c] = "next"] /\ call' = [call EXCEPT ![c] = r]
      \/ pc' = [pc EXCEPT ![c] = "idle"] /\ call' = [call EXCEPT ![c] = NoCall]
  BY <1>0, <1>1, <1>r, <1>3 DEF PollSucceeds, TypeOK
<1>6. TypeOK'
  <2>1. call' \in [Clients -> CallRecord] /\ pc' \in [Clients -> {"idle", "next", "poll"}]
    BY <1>0, <1>3, <1>4, <1>5 DEF TypeOK
  <2>2. \A d \in Clients :
          /\ pc'[d] = "next" => call'[d].todo # {}
          /\ pc'[d] = "poll" => \E e \in Actuators : call'[d].asked = {e}
    BY <1>0, <1>5 DEF TypeOK
  <2>3. power_state' \in [Actuators -> State]
    BY <1>0, <1>2, ReadType DEF TypeOK
  <2>4. confirmed' \in [Actuators -> State \cup {"none"}]
    BY <1>0, <1>2 DEF TypeOK
  <2> QED
    BY <1>0, <1>2, <2>1, <2>2, <2>3, <2>4 DEF TypeOK
<1>7. CallInv'
  BY <1>0, <1>3, <1>5 DEF TypeOK, CallInv
<1>8. \A d \in Clients \ {c} : call'[d] = call[d]
  BY <1>0, <1>5 DEF TypeOK
<1>9. call'[c].asked = {}
  BY <1>0, <1>3, <1>4, <1>5 DEF TypeOK
<1>10. ASSUME NEW e \in Actuators, e # a, clean'[e] PROVE Phase(e)'
  <2>1. power_state'[e] = power_state[e] /\ confirmed'[e] = confirmed[e]
    BY <1>0, <1>2, <1>10 DEF TypeOK
  <2>2. ~Asks(c, e) /\ \A d \in Clients : Asks(d, e)' <=> Asks(d, e)
    BY <1>1, <1>8, <1>9, <1>10 DEF Asks
  <2>3. \A d \in Clients : Asks(d, e) => call'[d].want = call[d].want
    BY <1>8, <2>2
  <2> QED
    BY <1>2, <1>10, <2>1, <2>2, <2>3, Untouched DEF IInv, PhaseInv
<1>11. ASSUME clean'[a] PROVE Phase(a)'
  <2>1. Asks(c, a) /\ Phase(a)
    BY <1>1, <1>2, <1>11 DEF Asks, IInv, PhaseInv
  <2>2. \A d \in Clients : ~Asks(d, a)'
    BY <1>8, <1>9, <2>1 DEF Asks, Phase
  <2>3. Sorted(a, w)
    BY <1>w, <2>1 DEF Phase
  <2>4. power_state'[a] = Read(a) /\ confirmed'[a] = w
    BY <1>0, <1>2 DEF TypeOK
  <2>5. Uniform(a, w)'
    BY <1>2, <2>3, <2>4, Decoded
  <2> QED
    BY <2>2, <2>4, <2>5 DEF Phase
<1> QED
  BY <1>6, <1>7, <1>10, <1>11 DEF IInv, PhaseInv

(* The poll that answers false, once more or for good. *)
LEMMA PollFailsStep ==
  ASSUME IInv, NEW c \in Clients, PollFails(c)
  PROVE  IInv'
<1>0. TypeOK /\ CallInv
  BY DEF IInv
<1>1. PICK a \in Actuators : call[c].asked = {a}
  BY <1>0 DEF PollFails, TypeOK
<1>2. /\ pc[c] = "poll"
      /\ power_state' = [power_state EXCEPT ![a] = Read(a)]
      /\ UNCHANGED <<wire, motor, back, recv_buf, calls, confirmed>>
  BY <1>1 DEF PollFails
<1>3. power_state' \in [Actuators -> State] /\ power_state'[a] = Read(a)
  BY <1>0, <1>2, ReadType DEF TypeOK
<1>4. CASE call[c].polls + 1 < MaxPolls
  <2>r. PICK r : r = [call[c] EXCEPT !.polls = call[c].polls + 1]
    OBVIOUS
  <2>1. call' = [call EXCEPT ![c] = r] /\ UNCHANGED <<pc, clean>>
    BY <1>0, <1>1, <1>4, <2>r, HandshakeAssumption DEF PollFails, TypeOK, CallRecord
  <2>2. r \in CallRecord /\ r.asked = call[c].asked /\ r.todo = call[c].todo /\ r.want = call[c].want
    <3>1. call[c] \in CallRecord /\ call[c].polls + 1 \in 0 .. MaxPolls
      BY <1>0, <1>4, HandshakeAssumption DEF TypeOK, CallRecord
    <3> QED
      BY <2>r, <3>1 DEF CallRecord
  <2>3. TypeOK'
    <3>1. call' \in [Clients -> CallRecord]
      BY <1>0, <2>1, <2>2 DEF TypeOK
    <3>2. \A d \in Clients :
            /\ pc'[d] = "next" => call'[d].todo # {}
            /\ pc'[d] = "poll" => \E e \in Actuators : call'[d].asked = {e}
      BY <1>0, <2>1, <2>2 DEF TypeOK
    <3> QED
      BY <1>0, <1>2, <1>3, <2>1, <3>1, <3>2 DEF TypeOK
  <2>4. CallInv'
    BY <1>0, <1>2, <2>1 DEF TypeOK, CallInv
  <2>5. \A d \in Clients : call'[d].asked = call[d].asked /\ call'[d].want = call[d].want
    BY <1>0, <2>1, <2>2 DEF TypeOK
  <2>6. ASSUME NEW e \in Actuators, e # a, clean'[e] PROVE Phase(e)'
    <3>1. power_state'[e] = power_state[e]
      BY <1>0, <1>2, <2>6 DEF TypeOK
    <3> QED
      BY <1>2, <2>1, <2>5, <2>6, <3>1, Untouched DEF IInv, PhaseInv, Asks
  <2>7. ASSUME clean'[a] PROVE Phase(a)'
    <3>1. Phase(a) /\ Asks(c, a) /\ Asks(c, a)'
      BY <1>1, <2>1, <2>5, <2>7 DEF IInv, PhaseInv, Asks
    <3>2. \A w \in State : Sorted(a, w) => Sorted(a, w)'
      BY <1>2, <1>3, Decoded
    <3>3. \A d, e \in Clients : Asks(d, a)' /\ Asks(e, a)' => d = e
      BY <2>5, <3>1 DEF Phase, Asks
    <3>4. \A d \in Clients, w \in State :
            Asks(d, a)' /\ call'[d].want = w => Sorted(a, w)' /\ confirmed'[a] = "none"
      BY <1>2, <2>5, <3>1, <3>2 DEF Phase, Asks
    <3> QED
      BY <3>1, <3>3, <3>4 DEF Phase
  <2> QED
    BY <2>3, <2>4, <2>6, <2>7 DEF IInv, PhaseInv
<1>5. CASE call[c].polls + 1 = MaxPolls
  <2>1. /\ call' = [call EXCEPT ![c] = NoCall]
        /\ pc' = [pc EXCEPT ![c] = "idle"]
        /\ clean' = [clean EXCEPT ![a] = FALSE]
    BY <1>0, <1>1, <1>5, HandshakeAssumption DEF PollFails, TypeOK, CallRecord
  <2>2. NoCall \in CallRecord /\ NoCall.asked = {}
    BY HandshakeAssumption DEF NoCall, CallRecord, State
  <2>3. TypeOK'
    <3>1. /\ call' \in [Clients -> CallRecord]
          /\ pc' \in [Clients -> {"idle", "next", "poll"}]
          /\ clean' \in [Actuators -> BOOLEAN]
      BY <1>0, <2>1, <2>2 DEF TypeOK
    <3>2. \A d \in Clients :
            /\ pc'[d] = "next" => call'[d].todo # {}
            /\ pc'[d] = "poll" => \E e \in Actuators : call'[d].asked = {e}
      BY <1>0, <2>1 DEF TypeOK
    <3> QED
      BY <1>0, <1>2, <1>3, <3>1, <3>2 DEF TypeOK
  <2>4. CallInv'
    BY <1>0, <2>1 DEF TypeOK, CallInv
  <2>5. ASSUME NEW e \in Actuators, clean'[e] PROVE Phase(e)'
    <3>1. e # a /\ clean[e] /\ power_state'[e] = power_state[e]
      BY <1>0, <1>2, <2>1, <2>5 DEF TypeOK
    <3>2. ~Asks(c, e) /\ \A d \in Clients : Asks(d, e)' <=> Asks(d, e)
      BY <1>0, <1>1, <2>1, <2>2, <3>1 DEF TypeOK, Asks
    <3>3. \A d \in Clients : Asks(d, e) => call'[d].want = call[d].want
      BY <1>0, <2>1, <3>2 DEF TypeOK
    <3> QED
      BY <1>2, <3>1, <3>2, <3>3, Untouched DEF IInv, PhaseInv
  <2> QED
    BY <2>3, <2>4, <2>5 DEF IInv, PhaseInv
<1>6. call[c].polls + 1 < MaxPolls \/ call[c].polls + 1 = MaxPolls
  BY <1>1 DEF PollFails
<1> QED
  BY <1>4, <1>5, <1>6

-------------------------------------------------------------------------------
(* The head of what comes back reaches the slot. *)
LEMMA ReceiveStep ==
  ASSUME IInv, NEW a \in Actuators, Receive(a)
  PROVE  IInv'
<1>0. TypeOK /\ CallInv
  BY DEF IInv
<1>1. /\ back[a] # <<>>
      /\ recv_buf' = [recv_buf EXCEPT ![a] = Head(back[a])]
      /\ back' = [back EXCEPT ![a] = Tail(back[a])]
      /\ UNCHANGED <<wire, motor, power_state, pc, call, calls, confirmed, clean>>
  BY DEF Receive
<1>2. /\ back[a] \in Seq(Frame) /\ Len(back[a]) \in Nat \ {0} /\ Head(back[a]) = back[a][1]
      /\ back[a][1] \in Frame /\ Tail(back[a]) \in Seq(Frame)
      /\ Len(Tail(back[a])) = Len(back[a]) - 1
      /\ \A k \in 1 .. Len(back[a]) - 1 : Tail(back[a])[k] = back[a][k + 1]
  BY <1>0, <1>1 DEF TypeOK
<1>3. recv_buf'[a] = back[a][1] /\ back'[a] = Tail(back[a])
  BY <1>0, <1>1, <1>2 DEF TypeOK
<1>4. TypeOK' /\ CallInv'
  BY <1>0, <1>1, <1>2 DEF TypeOK, CallInv
<1>5. ASSUME NEW e \in Actuators, e # a, clean'[e] PROVE Phase(e)'
  <2>1. recv_buf'[e] = recv_buf[e] /\ back'[e] = back[e]
    BY <1>0, <1>1, <1>5 DEF TypeOK
  <2> QED
    BY <1>1, <1>5, <2>1, Untouched DEF IInv, PhaseInv, Asks
<1>6. ASSUME NEW w \in State
      PROVE  (Uniform(a, w) => Uniform(a, w)') /\ (Sorted(a, w) => Sorted(a, w)')
  <2>1. BackSays(a, w) => Says(recv_buf'[a], w) /\ BackSays(a, w)'
    BY <1>2, <1>3 DEF BackSays
  <2>2. Uniform(a, w) => Uniform(a, w)'
    BY <1>1, <2>1 DEF Uniform, WireSays
  <2>3. ASSUME Sorted(a, w) PROVE Sorted(a, w)'
    <3>1. power_state'[a] = w => Uniform(a, w)'
      BY <1>1, <2>2, <2>3 DEF Sorted
    <3>2. Tells(recv_buf'[a], w) => BackSays(a, w)' /\ Is(motor'[a], w) /\ WireSays(a, w)'
      <4> SUFFICES ASSUME Tells(back[a][1], w)
                   PROVE  BackSays(a, w)' /\ Is(motor'[a], w) /\ WireSays(a, w)'
        BY <1>3
      <4>1. /\ \A m \in 1 .. Len(back[a]) : m > 1 => Says(back[a][m], w)
            /\ Is(motor[a], w) /\ WireSays(a, w)
        BY <1>2, <2>3 DEF Sorted
      <4>2. BackSays(a, w)'
        BY <1>2, <1>3, <4>1 DEF BackSays
      <4> QED
        BY <1>1, <4>1, <4>2 DEF WireSays
    <3>3. \A k \in 1 .. Len(back'[a]) : Tells(back'[a][k], w) =>
            /\ \A m \in 1 .. Len(back'[a]) : m > k => Says(back'[a][m], w)
            /\ Is(motor'[a], w) /\ WireSays(a, w)'
      <4> SUFFICES ASSUME NEW k \in 1 .. Len(back'[a]), Tells(back'[a][k], w)
                   PROVE  /\ \A m \in 1 .. Len(back'[a]) : m > k => Says(back'[a][m], w)
                          /\ Is(motor'[a], w) /\ WireSays(a, w)'
          OBVIOUS
      <4>1. k + 1 \in 1 .. Len(back[a]) /\ Tells(back[a][k + 1], w)
        BY <1>2, <1>3
      <4>2. /\ \A m \in 1 .. Len(back[a]) : m > k + 1 => Says(back[a][m], w)
            /\ Is(motor[a], w) /\ WireSays(a, w)
        BY <2>3, <4>1 DEF Sorted
      <4>3. \A m \in 1 .. Len(back'[a]) : m > k => Says(back'[a][m], w)
        BY <1>2, <1>3, <4>2
      <4> QED
        BY <1>1, <4>2, <4>3 DEF WireSays
    <3> QED
      BY <1>1, <2>3, <3>1, <3>2, <3>3 DEF Sorted, WireSays
  <2> QED
    BY <2>2, <2>3
<1>7. ASSUME clean'[a] PROVE Phase(a)'
  BY <1>1, <1>6, <1>7, Moved DEF IInv, PhaseInv
<1> QED
  BY <1>4, <1>5, <1>7 DEF IInv, PhaseInv

(* The motor obeys the oldest request and answers it. *)
LEMMA ObeyStep ==
  ASSUME IInv, NEW a \in Actuators, MotorObeys(a)
  PROVE  IInv'
<1>0. TypeOK /\ CallInv
  BY DEF IInv
<1>h. PICK h \in State : h = Head(wire[a])
  BY <1>0 DEF MotorObeys, TypeOK
<1>s. PICK status \in Status : status = (IF h = "enable" THEN "run" ELSE "reset")
  BY DEF Status
<1>1. Decode(status) = h
  BY <1>h, <1>s DEF Decode, State
<1>2. /\ wire[a] # <<>>
      /\ wire' = [wire EXCEPT ![a] = Tail(wire[a])]
      /\ motor' = [motor EXCEPT ![a] = status]
      /\ back' = [back EXCEPT ![a] = Append(back[a], status)]
      /\ UNCHANGED <<recv_buf, power_state, pc, call, calls, confirmed, clean>>
  BY <1>h, <1>s DEF MotorObeys, Send
<1>3. /\ wire[a] \in Seq(State) /\ Len(wire[a]) \in Nat \ {0} /\ h = wire[a][1]
      /\ Tail(wire[a]) \in Seq(State) /\ Len(Tail(wire[a])) = Len(wire[a]) - 1
      /\ \A k \in 1 .. Len(wire[a]) - 1 : Tail(wire[a])[k] = wire[a][k + 1]
  BY <1>0, <1>h, <1>2 DEF TypeOK
<1>4. /\ back[a] \in Seq(Frame) /\ Len(back[a]) \in Nat /\ status \in Frame
      /\ Append(back[a], status) \in Seq(Frame)
      /\ Len(Append(back[a], status)) = Len(back[a]) + 1
      /\ \A k \in 1 .. Len(back[a]) : Append(back[a], status)[k] = back[a][k]
      /\ Append(back[a], status)[Len(back[a]) + 1] = status
  BY <1>0 DEF TypeOK, Frame
<1>5. /\ wire'[a] = Tail(wire[a]) /\ motor'[a] = status
      /\ back'[a] = Append(back[a], status)
  BY <1>0, <1>2 DEF TypeOK
<1>6. TypeOK' /\ CallInv'
  BY <1>0, <1>2, <1>3, <1>4 DEF TypeOK, CallInv
<1>7. ASSUME NEW e \in Actuators, e # a, clean'[e] PROVE Phase(e)'
  <2>1. wire'[e] = wire[e] /\ motor'[e] = motor[e] /\ back'[e] = back[e]
    BY <1>0, <1>2, <1>7 DEF TypeOK
  <2> QED
    BY <1>2, <1>7, <2>1, Untouched DEF IInv, PhaseInv, Asks
<1>8. ASSUME NEW w \in State
      PROVE  (Uniform(a, w) => Uniform(a, w)') /\ (Sorted(a, w) => Sorted(a, w)')
  <2>1. WireSays(a, w) => h = w /\ WireSays(a, w)'
    BY <1>3, <1>5 DEF WireSays
  <2>2. BackSays(a, w) /\ h = w => BackSays(a, w)'
    BY <1>1, <1>4, <1>5 DEF BackSays, Says
  <2>3. Is(motor'[a], w) <=> h = w
    BY <1>1, <1>5 DEF Is
  <2>4. Uniform(a, w) => Uniform(a, w)'
    BY <1>2, <2>1, <2>2, <2>3 DEF Uniform
  <2>5. ASSUME Sorted(a, w) PROVE Sorted(a, w)'
    <3>1. ASSUME h = w PROVE WireSays(a, w)'
      <4>1. 1 \in 1 .. Len(wire[a])
        BY <1>3
      <4>2. \A m \in 1 .. Len(wire[a]) : 1 < m => wire[a][m] = w
        BY <1>3, <2>5, <3>1, <4>1 DEF Sorted
      <4> QED
        BY <1>3, <1>5, <4>2 DEF WireSays
    <3>2. Tells(recv_buf'[a], w) => BackSays(a, w)' /\ Is(motor'[a], w) /\ WireSays(a, w)'
      BY <1>2, <2>1, <2>2, <2>3, <2>5 DEF Sorted
    <3>3. ASSUME NEW k \in 1 .. Len(back'[a]), Tells(back'[a][k], w)
          PROVE  /\ \A m \in 1 .. Len(back'[a]) : m > k => Says(back'[a][m], w)
                 /\ Is(motor'[a], w) /\ WireSays(a, w)'
      <4>1. CASE k \in 1 .. Len(back[a])
        <5>1. Tells(back[a][k], w)
          BY <1>4, <1>5, <3>3, <4>1
        <5>2. /\ \A m \in 1 .. Len(back[a]) : m > k => Says(back[a][m], w)
              /\ WireSays(a, w)
          BY <2>5, <4>1, <5>1 DEF Sorted
        <5>3. h = w /\ WireSays(a, w)'
          BY <2>1, <5>2
        <5>4. Says(status, w)
          BY <1>1, <5>3 DEF Says
        <5> QED
          BY <1>4, <1>5, <2>3, <5>2, <5>3, <5>4
      <4>2. CASE k = Len(back[a]) + 1
        <5>1. h = w
          BY <1>1, <1>4, <1>5, <3>3, <4>2 DEF Tells
        <5> QED
          BY <1>4, <1>5, <2>3, <3>1, <4>2, <5>1
      <4> QED
        BY <1>4, <1>5, <4>1, <4>2
    <3>4. \A k, m \in 1 .. Len(wire'[a]) : k < m /\ wire'[a][k] = w => wire'[a][m] = w
      BY <1>3, <1>5, <2>5 DEF Sorted
    <3>5. power_state'[a] = w => Uniform(a, w)'
      BY <1>2, <2>4, <2>5 DEF Sorted
    <3> QED
      BY <2>3, <3>1, <3>2, <3>3, <3>4, <3>5 DEF Sorted
  <2> QED
    BY <2>4, <2>5
<1>9. ASSUME clean'[a] PROVE Phase(a)'
  BY <1>2, <1>8, <1>9, Moved DEF IInv, PhaseInv
<1> QED
  BY <1>6, <1>7, <1>9 DEF IInv, PhaseInv

(* The motor reports what it is doing, or something else.                   *)
LEMMA ReportStep ==
  ASSUME IInv, NEW a \in Actuators, MotorReports(a)
  PROVE  IInv'
<1>0. TypeOK /\ CallInv
  BY DEF IInv
<1>1. PICK f \in {motor[a], "other"} :
        /\ back' = [back EXCEPT ![a] = Append(back[a], f)]
        /\ UNCHANGED <<wire, motor, recv_buf, power_state, pc, call, calls, confirmed, clean>>
  BY DEF MotorReports, Send
<1>2. /\ back[a] \in Seq(Frame) /\ Len(back[a]) \in Nat /\ f \in Frame
      /\ Append(back[a], f) \in Seq(Frame)
      /\ Len(Append(back[a], f)) = Len(back[a]) + 1
      /\ \A k \in 1 .. Len(back[a]) : Append(back[a], f)[k] = back[a][k]
      /\ Append(back[a], f)[Len(back[a]) + 1] = f
  BY <1>0 DEF TypeOK, Frame
<1>3. back'[a] = Append(back[a], f)
  BY <1>0, <1>1 DEF TypeOK
<1>4. TypeOK' /\ CallInv'
  BY <1>0, <1>1, <1>2 DEF TypeOK, CallInv
<1>5. ASSUME NEW e \in Actuators, e # a, clean'[e] PROVE Phase(e)'
  <2>1. back'[e] = back[e]
    BY <1>0, <1>1, <1>5 DEF TypeOK
  <2> QED
    BY <1>1, <1>5, <2>1, Untouched DEF IInv, PhaseInv, Asks
<1>6. ASSUME NEW w \in State
      PROVE  (Uniform(a, w) => Uniform(a, w)') /\ (Sorted(a, w) => Sorted(a, w)')
  <2>1. /\ Is(motor[a], w) => Says(f, w)
        /\ Tells(f, w) => Is(motor[a], w)
    BY DEF Is, Says, Tells, Status
  <2>2. BackSays(a, w) /\ Is(motor[a], w) => BackSays(a, w)'
    BY <1>2, <1>3, <2>1 DEF BackSays
  <2>3. Uniform(a, w) => Uniform(a, w)'
    BY <1>1, <2>2 DEF Uniform, WireSays
  <2>4. ASSUME Sorted(a, w) PROVE Sorted(a, w)'
    <3>1. ASSUME NEW k \in 1 .. Len(back'[a]), Tells(back'[a][k], w)
          PROVE  /\ \A m \in 1 .. Len(back'[a]) : m > k => Says(back'[a][m], w)
                 /\ Is(motor[a], w) /\ WireSays(a, w)
      <4>1. CASE k \in 1 .. Len(back[a])
        <5>1. Tells(back[a][k], w)
          BY <1>2, <1>3, <3>1, <4>1
        <5>2. /\ \A m \in 1 .. Len(back[a]) : m > k => Says(back[a][m], w)
              /\ Is(motor[a], w) /\ WireSays(a, w)
          BY <2>4, <4>1, <5>1 DEF Sorted
        <5> QED
          BY <1>2, <1>3, <2>1, <5>2
      <4>2. CASE k = Len(back[a]) + 1
        BY <1>2, <1>3, <2>1, <2>4, <3>1, <4>2 DEF Sorted
      <4> QED
        BY <1>2, <1>3, <4>1, <4>2
    <3>2. Tells(recv_buf[a], w) => BackSays(a, w)'
      BY <2>2, <2>4 DEF Sorted
    <3> QED
      BY <1>1, <2>3, <2>4, <3>1, <3>2 DEF Sorted, WireSays
  <2> QED
    BY <2>3, <2>4
<1>7. ASSUME clean'[a] PROVE Phase(a)'
  BY <1>1, <1>6, <1>7, Moved DEF IInv, PhaseInv
<1> QED
  BY <1>4, <1>5, <1>7 DEF IInv, PhaseInv

(* A motor that stops by itself is no longer accounted for. *)
LEMMA FaultStep ==
  ASSUME IInv, NEW a \in Actuators, MotorFaults(a)
  PROVE  IInv'
<1>0. TypeOK /\ CallInv
  BY DEF IInv
<1>1. TypeOK' /\ CallInv'
  BY <1>0 DEF MotorFaults, TypeOK, CallInv, Status
<1>2. ASSUME NEW e \in Actuators, clean'[e] PROVE Phase(e)'
  <2>1. e # a /\ clean[e] /\ motor'[e] = motor[e]
    BY <1>0, <1>2 DEF MotorFaults, TypeOK
  <2> QED
    BY <2>1, Untouched DEF MotorFaults, IInv, PhaseInv, Asks
<1> QED
  BY <1>1, <1>2 DEF IInv, PhaseInv

(* A frame that is lost takes its news with it, and the order stays.        *)
LEMMA LossStep ==
  ASSUME IInv, NEW a \in Actuators, FeedbackLost(a)
  PROVE  IInv'
<1>0. TypeOK /\ CallInv
  BY DEF IInv
<1>1. /\ back[a] # <<>>
      /\ back' = [back EXCEPT ![a] = Tail(back[a])]
      /\ UNCHANGED <<wire, motor, recv_buf, power_state, pc, call, calls, confirmed, clean>>
  BY DEF FeedbackLost
<1>2. /\ back[a] \in Seq(Frame) /\ Len(back[a]) \in Nat \ {0} /\ Tail(back[a]) \in Seq(Frame)
      /\ Len(Tail(back[a])) = Len(back[a]) - 1
      /\ \A k \in 1 .. Len(back[a]) - 1 : Tail(back[a])[k] = back[a][k + 1]
  BY <1>0, <1>1 DEF TypeOK
<1>3. back'[a] = Tail(back[a])
  BY <1>0, <1>1 DEF TypeOK
<1>4. TypeOK' /\ CallInv'
  BY <1>0, <1>1, <1>2 DEF TypeOK, CallInv
<1>5. ASSUME NEW e \in Actuators, e # a, clean'[e] PROVE Phase(e)'
  <2>1. back'[e] = back[e]
    BY <1>0, <1>1, <1>5 DEF TypeOK
  <2> QED
    BY <1>1, <1>5, <2>1, Untouched DEF IInv, PhaseInv, Asks
<1>6. ASSUME NEW w \in State
      PROVE  (Uniform(a, w) => Uniform(a, w)') /\ (Sorted(a, w) => Sorted(a, w)')
  <2>1. BackSays(a, w) => BackSays(a, w)'
    BY <1>2, <1>3 DEF BackSays
  <2>2. Uniform(a, w) => Uniform(a, w)'
    BY <1>1, <2>1 DEF Uniform, WireSays
  <2>3. ASSUME Sorted(a, w), NEW k \in 1 .. Len(back'[a]), Tells(back'[a][k], w)
        PROVE  /\ \A m \in 1 .. Len(back'[a]) : m > k => Says(back'[a][m], w)
               /\ Is(motor[a], w) /\ WireSays(a, w)
    <3>1. k + 1 \in 1 .. Len(back[a]) /\ Tells(back[a][k + 1], w)
      BY <1>2, <1>3, <2>3
    <3>2. /\ \A m \in 1 .. Len(back[a]) : m > k + 1 => Says(back[a][m], w)
          /\ Is(motor[a], w) /\ WireSays(a, w)
      BY <2>3, <3>1 DEF Sorted
    <3> QED
      BY <1>2, <1>3, <3>2
  <2>4. Sorted(a, w) => Sorted(a, w)'
    BY <1>1, <2>1, <2>2, <2>3 DEF Sorted, WireSays
  <2> QED
    BY <2>2, <2>4
<1>7. ASSUME clean'[a] PROVE Phase(a)'
  BY <1>1, <1>6, <1>7, Moved DEF IInv, PhaseInv
<1> QED
  BY <1>4, <1>5, <1>7 DEF IInv, PhaseInv

-------------------------------------------------------------------------------
(* Every step keeps the invariant. *)
LEMMA NextIInv == IInv /\ [Next]_vars => IInv'
<1>1. ASSUME IInv, NEW c \in Clients, Call(c) PROVE IInv'
  <2>1. \A a \in Actuators : {a} \in SUBSET Actuators /\ {a} # {}
    OBVIOUS
  <2>2. "enable" \in State /\ "disable" \in State
    BY DEF State
  <2>3. Actuators \in SUBSET Actuators /\ Actuators # {}
    BY HandshakeAssumption
  <2> QED
    BY <1>1, <2>1, <2>2, <2>3, BeginStep
    DEF Call, EnableActuator, DisableActuator, EnableAll, DisableAll
<1>2. ASSUME IInv, NEW c \in Clients, Proceed(c) PROVE IInv'
  BY <1>2, RequestStep, PollSucceedsStep, PollFailsStep DEF Proceed
<1>3. ASSUME IInv, NEW a \in Actuators, GetPowerState(a) \/ Receive(a) \/ External(a)
      PROVE  IInv'
  BY <1>3, GetStep, ReceiveStep, ObeyStep, ReportStep, FaultStep, LossStep DEF External
<1>4. ASSUME IInv, UNCHANGED vars PROVE IInv'
  <2>1. TypeOK' /\ CallInv'
    BY <1>4 DEF IInv, TypeOK, CallInv, vars
  <2>2. ASSUME NEW a \in Actuators, clean'[a] PROVE Phase(a)'
    BY <1>4, <2>2, Untouched DEF IInv, PhaseInv, Asks, vars
  <2> QED
    BY <2>1, <2>2 DEF IInv, PhaseInv
<1> QED
  BY <1>1, <1>2, <1>3, <1>4 DEF Next

(* The invariant holds in every reachable state. *)
LEMMA Invariance == SafetySpec => []IInv
  BY InitIInv, NextIInv, PTL DEF SafetySpec

(* Every variable keeps its type: a call that is polling polls one          *)
(* actuator, and one that has still to ask has somebody to ask.             *)
THEOREM TypeCorrect == SafetySpec => []TypeOK
<1>1. IInv => TypeOK
  BY DEF IInv
<1> QED
  BY <1>1, Invariance, PTL

(* A call that returned true told the truth, until something goes wrong     *)
(* with the actuator, although it may have read an old frame, or none.      *)
THEOREM TrueAnswersAreTrue == SafetySpec => []AnswersAreTrue
<1>1. IInv => AnswersAreTrue
  <2> SUFFICES ASSUME IInv, NEW a \in Actuators, clean[a], confirmed[a] # "none"
               PROVE  Is(motor[a], confirmed[a])
    BY DEF AnswersAreTrue
  <2>1. Phase(a)
    BY DEF IInv, PhaseInv
  <2>2. \A c \in Clients : ~Asks(c, a)
    BY <2>1 DEF Phase, IInv, TypeOK, CallRecord
  <2>3. PICK w \in State : Uniform(a, w) /\ confirmed[a] = w
    BY <2>1, <2>2 DEF Phase
  <2> QED
    BY <2>3 DEF Uniform
<1> QED
  BY <1>1, Invariance, PTL

-------------------------------------------------------------------------------
(* What the motor will do once it has obeyed all that was sent to it is w.  *)
LastIs(a, w) == IF wire[a] = <<>> THEN Is(motor[a], w) ELSE wire[a][Len(wire[a])] = w

(* An answer may be older than the request it is taken for, but the request *)
(* is the last one sent: whoever asks an actuator, and whoever was told it  *)
(* obeys, wants what was asked of it last.                                  *)
LastInv ==
  \A a \in Actuators, w \in State :
    /\ \A c \in Clients : Asks(c, a) /\ call[c].want = w => LastIs(a, w)
    /\ confirmed[a] = w => LastIs(a, w)

(* No two calls ask the same actuator at the same time.                     *)
Uncontended == \A a \in Actuators : \A c, d \in Clients : Asks(c, a) /\ Asks(d, a) => c = d

(* Steps that ask nobody and answer nobody. *)
LEMMA LastStays ==
  ASSUME LastInv, confirmed' = confirmed,
         \A a \in Actuators, w \in State : LastIs(a, w) => LastIs(a, w)',
         \A a \in Actuators, c \in Clients :
           Asks(c, a)' => Asks(c, a) /\ call'[c].want = call[c].want
  PROVE  LastInv'
  BY DEF LastInv

LEMMA LastRequest ==
  ASSUME IInv, IInv', LastInv, Uncontended', Mishaps = {},
         NEW c \in Clients, NEW a \in Actuators, Request(c, a)
  PROVE  LastInv'
<1>0. TypeOK /\ TypeOK'
  BY DEF IInv
<1>1. /\ wire' = [wire EXCEPT ![a] = Append(wire[a], call[c].want)]
      /\ confirmed' = [confirmed EXCEPT ![a] = "none"]
      /\ call' = [call EXCEPT ![c].todo = call[c].todo \ {a}, ![c].asked = {a}, ![c].polls = 0]
      /\ motor' = motor
  BY DEF Request
<1>2. /\ call'[c].asked = {a} /\ call'[c].want = call[c].want
      /\ \A d \in Clients \ {c} : call'[d] = call[d]
  BY <1>0, <1>1 DEF TypeOK, CallRecord
<1>3. /\ wire'[a] = Append(wire[a], call[c].want) /\ confirmed'[a] = "none"
      /\ \A e \in Actuators \ {a} : wire'[e] = wire[e] /\ confirmed'[e] = confirmed[e]
  BY <1>0, <1>1 DEF TypeOK
<1>4. LastIs(a, call[c].want)'
  <2>1. /\ wire[a] \in Seq(State) /\ call[c].want \in State
    BY <1>0 DEF TypeOK, CallRecord
  <2>2. /\ wire'[a] # <<>>
        /\ wire'[a][Len(wire'[a])] = call[c].want
    BY <1>3, <2>1
  <2> QED
    BY <1>2, <2>2 DEF LastIs
<1>5. ASSUME NEW w \in State, NEW d \in Clients, Asks(d, a)', call'[d].want = w
      PROVE  LastIs(a, w)'
  <2>1. d = c
    BY <1>2, <1>5 DEF Uncontended, Asks
  <2> QED
    BY <1>2, <1>4, <1>5, <2>1 DEF LastIs
<1>6. ASSUME NEW w \in State, NEW e \in Actuators \ {a}
      PROVE  /\ \A d \in Clients : Asks(d, e)' /\ call'[d].want = w => LastIs(e, w)'
             /\ confirmed'[e] = w => LastIs(e, w)'
  <2>1. LastIs(e, w)' <=> LastIs(e, w)
    BY <1>1, <1>3 DEF LastIs
  <2>2. \A d \in Clients : Asks(d, e)' => d # c
    BY <1>2 DEF Asks
  <2> QED
    BY <1>2, <1>3, <2>1, <2>2 DEF LastInv, Asks
<1>7. \A w \in State : confirmed'[a] # w
  BY <1>3 DEF State
<1> QED
  BY <1>5, <1>6, <1>7 DEF LastInv

LEMMA LastPollSucceeds ==
  ASSUME IInv, LastInv, NEW c \in Clients, PollSucceeds(c)
  PROVE  LastInv'
<1>0. TypeOK
  BY DEF IInv
<1>1. PICK a \in Actuators : call[c].asked = {a}
  BY <1>0 DEF PollSucceeds, TypeOK
<1>2. /\ confirmed' = [confirmed EXCEPT ![a] = call[c].want]
      /\ UNCHANGED <<wire, motor>>
      /\ \/ call' = [call EXCEPT ![c].asked = {}, ![c].polls = 0]
         \/ call' = [call EXCEPT ![c] = NoCall]
  BY <1>1 DEF PollSucceeds
<1>3. call'[c].asked = {} /\ \A d \in Clients \ {c} : call'[d] = call[d]
  BY <1>0, <1>2 DEF TypeOK, CallRecord, NoCall
<1>4. \A e \in Actuators, d \in Clients :
        Asks(d, e)' => Asks(d, e) /\ call'[d].want = call[d].want
  BY <1>3 DEF Asks
<1>5. \A e \in Actuators, w \in State : LastIs(e, w)' <=> LastIs(e, w)
  BY <1>2 DEF LastIs
<1>6. \A e \in Actuators, w \in State : confirmed'[e] = w => LastIs(e, w)
  BY <1>0, <1>1, <1>2 DEF LastInv, TypeOK, Asks
<1> QED
  BY <1>4, <1>5, <1>6 DEF LastInv

(* A call that ends or is told no asks no more than before. *)
LEMMA LastPollFails ==
  ASSUME IInv, LastInv, NEW c \in Clients, PollFails(c)
  PROVE  LastInv'
<1>0. TypeOK
  BY DEF IInv
<1>1. /\ UNCHANGED <<wire, motor, confirmed>>
      /\ \/ call' = [call EXCEPT ![c].polls = call[c].polls + 1]
         \/ call' = [call EXCEPT ![c] = NoCall]
  BY DEF PollFails
<1>2. \A e \in Actuators, d \in Clients :
        Asks(d, e)' => Asks(d, e) /\ call'[d].want = call[d].want
  <2>1. CASE call' = [call EXCEPT ![c].polls = call[c].polls + 1]
    BY <1>0, <2>1 DEF TypeOK, CallRecord, Asks
  <2>2. CASE call' = [call EXCEPT ![c] = NoCall]
    BY <1>0, <2>2 DEF TypeOK, Asks, NoCall
  <2> QED
    BY <1>1, <2>1, <2>2
<1>3. \A e \in Actuators, w \in State : LastIs(e, w) => LastIs(e, w)'
  BY <1>1 DEF LastIs
<1> QED
  BY <1>1, <1>2, <1>3, LastStays

(* The motor obeys the oldest request; if it was the only one, the motor is *)
(* where the request wanted it.                                             *)
LEMMA LastObey ==
  ASSUME IInv, LastInv, NEW a \in Actuators, MotorObeys(a)
  PROVE  LastInv'
<1>0. TypeOK
  BY DEF IInv
<1>1. /\ wire[a] # <<>> /\ wire' = [wire EXCEPT ![a] = Tail(wire[a])]
      /\ motor' = [motor EXCEPT ![a] = IF Head(wire[a]) = "enable" THEN "run" ELSE "reset"]
      /\ UNCHANGED <<call, confirmed>>
  BY DEF MotorObeys
<1>q. PICK q : q = wire[a]
  OBVIOUS
<1>t. PICK t : t = Tail(q)
  OBVIOUS
<1>2. /\ wire'[a] = t
      /\ motor'[a] = IF q[1] = "enable" THEN "run" ELSE "reset"
      /\ \A e \in Actuators \ {a} : wire'[e] = wire[e] /\ motor'[e] = motor[e]
  BY <1>0, <1>1, <1>q, <1>t DEF TypeOK
<1>3. /\ q \in Seq(State) /\ q # <<>> /\ q[1] \in State /\ Len(q) \in Nat \ {0}
      /\ t \in Seq(State) /\ Len(t) = Len(q) - 1
      /\ \A k \in 1 .. Len(q) - 1 : t[k] = q[k + 1]
  BY <1>0, <1>1, <1>q, <1>t DEF TypeOK
<1>4. ASSUME NEW w \in State, LastIs(a, w) PROVE LastIs(a, w)'
  <2>1. q[Len(q)] = w
    BY <1>1, <1>4, <1>q DEF LastIs
  <2>2. CASE t = <<>>
    <3>1. Len(q) = 1
      BY <1>3, <2>2, EmptySeq
    <3>2. Is(motor'[a], w)
      BY <1>2, <1>3, <2>1, <3>1 DEF Is, Decode, State
    <3> QED
      BY <1>2, <2>2, <3>2 DEF LastIs
  <2>3. CASE t # <<>>
    <3>1. Len(t) \in Nat \ {0}
      BY <1>3, <2>3, EmptySeq
    <3>2. Len(t) \in 1 .. Len(q) - 1 /\ Len(t) + 1 = Len(q)
      BY <1>3, <3>1
    <3>3. t[Len(t)] = w
      BY <1>3, <2>1, <3>2
    <3> QED
      BY <1>2, <2>3, <3>3 DEF LastIs
  <2> QED
    BY <2>2, <2>3
<1>5. \A e \in Actuators, w \in State : LastIs(e, w) => LastIs(e, w)'
  BY <1>2, <1>4 DEF LastIs
<1> QED
  BY <1>1, <1>5, LastStays DEF Asks

LEMMA LastNext ==
  ASSUME IInv, IInv', LastInv, Uncontended', Mishaps = {}, [Next]_vars
  PROVE  LastInv'
<1>1. ASSUME UNCHANGED <<wire, motor, confirmed>>,
             \A e \in Actuators, d \in Clients :
               Asks(d, e)' => Asks(d, e) /\ call'[d].want = call[d].want
      PROVE  LastInv'
  BY <1>1, LastStays DEF LastIs
<1>2. ASSUME NEW c \in Clients, Call(c) PROVE LastInv'
  <2>1. PICK w \in State, acts \in SUBSET Actuators : Begin(c, w, acts)
    BY <1>2 DEF Call, EnableActuator, DisableActuator, EnableAll, DisableAll, State
  <2>2. call[c].asked = {}
    BY <2>1 DEF Begin, IInv, CallInv, NoCall
  <2>3. call'[c].asked = {} /\ \A d \in Clients \ {c} : call'[d] = call[d]
    BY <2>1, <2>2 DEF Begin, IInv, TypeOK, CallRecord
  <2> QED
    BY <1>1, <2>1, <2>3 DEF Begin, Asks
<1>3. ASSUME NEW c \in Clients, Proceed(c) PROVE LastInv'
  BY <1>3, LastRequest, LastPollSucceeds, LastPollFails DEF Proceed
<1>4. ASSUME NEW a \in Actuators, GetPowerState(a) \/ Receive(a) \/ External(a) PROVE LastInv'
  <2>1. ~MotorFaults(a) /\ ~FeedbackLost(a)
    BY DEF MotorFaults, FeedbackLost
  <2>2. CASE MotorObeys(a)
    BY <2>2, LastObey
  <2>3. CASE GetPowerState(a) \/ Receive(a) \/ MotorReports(a)
    BY <1>1, <2>3 DEF GetPowerState, Receive, MotorReports, Asks
  <2> QED
    BY <1>4, <2>1, <2>2, <2>3 DEF External
<1>5. ASSUME UNCHANGED vars PROVE LastInv'
  BY <1>1, <1>5 DEF vars, Asks
<1> QED
  BY <1>2, <1>3, <1>4, <1>5 DEF Next

(* Without losses and faults, and while no two calls ask the same actuator  *)
(* at the same time, a true answer is true once the motor has obeyed what   *)
(* was sent to it, however many calls have timed out before.                *)
THEOREM TrueAnswersSettle ==
  ASSUME Mishaps = {}
  PROVE  SafetySpec /\ []Uncontended => []SettledAnswersAreTrue
<1>1. Init => LastInv
  BY DEF Init, LastInv, Asks, NoCall, State
<1>2. IInv /\ IInv' /\ LastInv /\ Uncontended' /\ [Next]_vars => LastInv'
  BY LastNext
<1>3. IInv /\ LastInv => SettledAnswersAreTrue
  BY DEF IInv, TypeOK, LastInv, LastIs, SettledAnswersAreTrue
<1> QED
  BY <1>1, <1>2, <1>3, Invariance, PTL DEF SafetySpec

(* A single client never asks twice at the same time. *)
THEOREM SingleClientAnswersSettle ==
  ASSUME Mishaps = {}, NEW c, Clients = {c}
  PROVE  SafetySpec => []SettledAnswersAreTrue
<1>1. Uncontended
  BY DEF Uncontended
<1> QED
  BY <1>1, TrueAnswersSettle, PTL
===============================================================================
