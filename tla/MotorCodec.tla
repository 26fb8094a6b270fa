------------------------------ MODULE MotorCodec ------------------------------
(***************************************************************************)
(* What the frames between the host and its motors say: how RobstrideMotor *)
(* (robstride.cpp) puts a command into an identifier and eight bytes, how  *)
(* CanBus stores a frame in the slot of the motor it comes from, and how a *)
(* getter takes apart what is in the slot when it is called.  The motors   *)
(* are external: they read and write frames by the layouts of robstride.h, *)
(* lines 3-49.                                                             *)
(*                                                                         *)
(* One frame is on the bus at a time; queues and threads are the business  *)
(* of the other modules.  A quantity is an integer in units of 1/20 (rad,  *)
(* rad/s, Nm), a temperature in tenths; the formulas are exact where the   *)
(* code rounds to float.  `said', `newest' and `told' are history.         *)
(***************************************************************************)
EXTENDS Integers, Sequences

CONSTANTS
  Motors,     \* CAN ids registered on the bus
  TypeOf,     \* TypeOf[m]: the ActuatorType of motor m
  MitArgs,    \* arguments of SetMitCmd: <<pos, vel, effort, kp, kd>>
  Setpoints,  \* arguments of SetVelocity, SetPosition, SetEffort
  Modes,      \* arguments of SetMode
  MitParams,  \* arguments of SetMitParam: half the velocity range
  Reports     \* what a motor says of itself: status, faults, 16-bit words

Types  == {"Robstride_00", "Robstride_02", "Robstride_05"}
(* Bits 13 down to 8 of the extra data, bit 13 first. *)
Faults == <<"uncalibrated", "hall_encoder_fault", "magnetic_encoder_fault",
            "over_temperature", "over_current", "under_voltage">>
ActuatorMode == <<"MODE_MIT", "MODE_POSITION", "MODE_VELOCITY", "MODE_CURRENT", "MODE_ZERO">>

U16  == 0 .. 2^16 - 1
Byte == 0 .. 2^8 - 1

ASSUME CodecAssumption ==
  /\ Motors \subseteq 1 .. 4              \* MAX_ACTUATORS_PER_BUS
  /\ TypeOf \in [Motors -> Types]
  /\ MitArgs \subseteq Int \X Int \X Int \X Int \X Int
  /\ Setpoints \subseteq Int
  /\ MitParams \subseteq Nat
  /\ Modes \subseteq Byte                 \* ActuatorMode : uint8_t
  /\ Reports \subseteq [status : 0 .. 3,
                         faults : SUBSET {Faults[i] : i \in DOMAIN Faults},
                         pos : U16, vel : U16, torque : U16, temp : U16]

VARIABLES
  said,      \* history: who spoke last, and what was meant
  wire,      \* the frame on the bus, Silence when there is none
  heard,     \* heard[m]: what motor m made of the last frame
  mit_param, \* mit_param[m]: half the velocity range in motor m's mit_param_
  slot,      \* slot[m]: recv_slot_ of motor m, the last frame with its number
  readings,  \* readings[m]: the fields ParseFeedback last decoded for motor m
  newest,    \* history: newest[m]: what the newest frame of motor m reports
  told       \* history: told[m]: the report a getter of m found last

feedback == <<slot, readings, newest, told>>
vars     == <<said, wire, heard, mit_param, feedback>>

(***************************************************************************)
(* Constants of robstride.h                                                *)
(***************************************************************************)
COMM_MIT_CONTROL == 1
COMM_FEEDBACK    == 2
COMM_ENABLE      == 3
COMM_STOP        == 4
COMM_SET_ZERO    == 6
COMM_SET_PARAM   == 18
PARAM_RUN_MODE   == 28677   \* 0x7005
PARAM_IQ_REF     == 28678   \* 0x7006
PARAM_SPD_REF    == 28682   \* 0x700A
PARAM_LOC_REF    == 28694   \* 0x7016
MASTER_ID        == 255

(* RUN_MIT, RUN_POS_PP, RUN_VEL, RUN_CURRENT, RUN_SET_ZERO *)
kModeMap == <<0, 1, 2, 3, 4>>

Limits(position, velocity, torque) ==
  [position |-> position, velocity |-> velocity, torque |-> torque, kp |-> 10000, kd |-> 100]

GetLimits(m) ==
  CASE TypeOf[m] = "Robstride_00" -> Limits(251, 880, 280)
    [] TypeOf[m] = "Robstride_02" -> Limits(251, 880, 340)
    [] OTHER                      -> Limits(251, 660, 120)

(* ROBSTRIDE_0x_MIT_MODE_DEFAULT_PARAM, which mit_param_ starts with *)
DefaultVelocity(m) == IF TypeOf[m] = "Robstride_00" THEN 660 ELSE 880

(***************************************************************************)
(* Numbers and bytes                                                       *)
(***************************************************************************)
Clamp(x, lo, hi) == IF x < lo THEN lo ELSE IF x > hi THEN hi ELSE x

(* Mistake: no upper limit. *)
FloatToUint16Unclamped(x, lo, hi) ==
  (((IF x < lo THEN lo ELSE x) - lo) * 65535) \div (hi - lo)

FloatToUint16(x, lo, hi) == ((Clamp(x, lo, hi) - lo) * 65535) \div (hi - lo)

(* In units of 1/65535, so that it stays an integer. *)
Uint16ToFloat(raw, lo, hi) == lo * 65535 + raw * (hi - lo)

(* Four 16-bit words as eight bytes, the high byte first. *)
BigEndian(words) ==
  [i \in 0 .. 7 |-> LET w == words[i \div 2 + 1]
                    IN  IF i % 2 = 0 THEN w \div 256 ELSE w % 256]
Word(d, i) == d[2 * i] * 256 + d[2 * i + 1]

Zeros    == [i \in 0 .. 7 |-> 0]
First(b) == [Zeros EXCEPT ![0] = b]
(* The four bytes of a float stay one value, in data[4]. *)
Param(index, value) == [Zeros EXCEPT ![0] = index % 256, ![1] = index \div 256, ![4] = value]

(***************************************************************************)
(* Frames.  The flag of an extended frame is kept apart from the 29 bits.  *)
(***************************************************************************)
Silence == [eff |-> FALSE, id |-> 0, data |-> <<>>]
ZeroFrame == [eff |-> FALSE, id |-> 0, data |-> Zeros]

Comm(f)  == f.id \div 2^24
Extra(f) == (f.id \div 2^8) % 2^16
Node(f)  == f.id % 2^8

(* Mistake: the extra data is masked to a byte. *)
FrameByteExtra(m, comm, extra, data) ==
  [eff |-> TRUE, id |-> comm * 2^24 + (extra % 2^8) * 2^8 + m, data |-> data]

(* WriteFrame *)
Frame(m, comm, extra, data) ==
  [eff |-> TRUE, id |-> comm * 2^24 + extra * 2^8 + m, data |-> data]

(* set_key_extractor *)
Key(f) == (f.id \div 2^8) % 2^8

(***************************************************************************)
(* The host speaks                                                         *)
(***************************************************************************)
Meant(op, args) == [op |-> op, args |-> args]
Nothing == Meant("nothing", <<>>)

Speak(by, m, meaning, f) ==
  /\ wire = Silence
  /\ wire' = f
  /\ said' = [by |-> by, node |-> m, meaning |-> meaning]
  /\ heard' = [n \in Motors |-> Nothing]
  /\ UNCHANGED <<mit_param, feedback>>

Command(m, op, args, f) == Speak("host", m, Meant(op, args), f)

SetMitCmd(m) ==
  \E args \in MitArgs :
    LET lim == GetLimits(m)
        pos == FloatToUint16(args[1], -lim.position, lim.position)
        vel == FloatToUint16(args[2], -lim.velocity, lim.velocity)
        toq == FloatToUint16(args[3], -lim.torque, lim.torque)
        kp  == FloatToUint16(args[4], 0, lim.kp)
        kd  == FloatToUint16(args[5], 0, lim.kd)
    IN  Command(m, "mit", args,
                Frame(m, COMM_MIT_CONTROL, toq, BigEndian(<<pos, vel, kp, kd>>)))

WriteSetParam(m, op, args, index, value) ==
  Command(m, op, args, Frame(m, COMM_SET_PARAM, MASTER_ID, Param(index, value)))

SetVelocity(m) == \E v \in Setpoints : WriteSetParam(m, "velocity", <<v>>, PARAM_SPD_REF, v)
SetPosition(m) == \E v \in Setpoints : WriteSetParam(m, "position", <<v>>, PARAM_LOC_REF, v)
SetEffort(m)   == \E v \in Setpoints : WriteSetParam(m, "effort", <<v>>, PARAM_IQ_REF, v)

(* A mode outside the table writes nothing. *)
SetMode(m) ==
  \E mode \in Modes :
    /\ mode < Len(kModeMap)
    /\ WriteSetParam(m, "mode", <<ActuatorMode[mode + 1]>>, PARAM_RUN_MODE, kModeMap[mode + 1])

(* Nothing reads what is stored here. *)
SetMitParam(m) ==
  /\ mit_param' \in {[mit_param EXCEPT ![m] = p] : p \in MitParams}
  /\ UNCHANGED <<said, wire, heard, feedback>>

RequestState(m) ==
  \/ Command(m, "enable", <<>>, Frame(m, COMM_ENABLE, MASTER_ID, Zeros))
  \/ Command(m, "disable", <<>>, Frame(m, COMM_STOP, MASTER_ID, Zeros))

ClearError(m)        == Command(m, "clear", <<>>, Frame(m, COMM_STOP, MASTER_ID, First(1)))
SetHomingPosition(m) == Command(m, "set_zero", <<>>, Frame(m, COMM_SET_ZERO, MASTER_ID, First(1)))
SaveConfig(m)        == Command(m, "save", <<>>, ZeroFrame)

(***************************************************************************)
(* The motors (external)                                                   *)
(***************************************************************************)
SetParam(data) ==
  LET index == data[0] + 256 * data[1]
  IN  CASE index = PARAM_SPD_REF  -> Meant("velocity", <<data[4]>>)
        [] index = PARAM_LOC_REF  -> Meant("position", <<data[4]>>)
        [] index = PARAM_IQ_REF   -> Meant("effort", <<data[4]>>)
        [] index = PARAM_RUN_MODE -> Meant("mode", <<ActuatorMode[data[4] + 1]>>)
        [] OTHER                  -> Nothing

Obey(f) ==
  LET d == f.data
  IN  CASE Comm(f) = COMM_MIT_CONTROL -> Meant("mit", <<Word(d, 0), Word(d, 1), Extra(f),
                                                        Word(d, 2), Word(d, 3)>>)
        [] Comm(f) = COMM_SET_PARAM   -> SetParam(d)
        [] Comm(f) = COMM_ENABLE      -> Meant("enable", <<>>)
        [] Comm(f) = COMM_STOP        -> Meant(IF d[0] = 1 THEN "clear" ELSE "disable", <<>>)
        [] Comm(f) = COMM_SET_ZERO    -> Meant("set_zero", <<>>)
        [] OTHER                      -> Nothing

Hear(m, f) == IF f.eff /\ Node(f) = m THEN Obey(f) ELSE Nothing

(* A motor's frames carry its id in bits 15 to 8 and the host's id, 0, in   *)
(* bits 7 to 0.                                                             *)
FromMotor(m, comm, status, words) ==
  [eff |-> TRUE, id |-> comm * 2^24 + (status * 2^8 + m) * 2^8, data |-> BigEndian(words)]

StatusBits(r) ==
  LET bit(i) == IF Faults[i] \in r.faults THEN 1 ELSE 0
  IN  r.status * 2^6 + 32 * bit(1) + 16 * bit(2) + 8 * bit(3) + 4 * bit(4) + 2 * bit(5) + bit(6)

Report(m) ==
  \E r \in Reports :
    Speak("motor", m, Meant("report", <<r>>),
          FromMotor(m, COMM_FEEDBACK, StatusBits(r), <<r.pos, r.vel, r.torque, r.temp>>))

(* A frame of another type, or with a standard identifier that has the      *)
(* motor's number where a feedback frame has it.                            *)
OtherFrame(m) ==
  \/ Speak("motor", m, Nothing, FromMotor(m, 17, 0, <<1, 1, 1, 1>>))   \* COMM_GET_PARAM
  \/ Speak("motor", m, Nothing, [FromMotor(m, 0, 0, <<1, 1, 1, 1>>) EXCEPT !.eff = FALSE])

(***************************************************************************)
(* The frame arrives.  The callback only stores what a motor has sent, of  *)
(* whatever type, over what was in the slot.                               *)
(***************************************************************************)
HostReceives ==
  /\ slot' = [m \in Motors |-> IF Key(wire) = m THEN wire ELSE slot[m]]
  /\ newest' = [newest EXCEPT ![said.node] = IF said.meaning.op = "report"
                                             THEN said.meaning.args ELSE <<>>]
  /\ UNCHANGED <<readings, told>>

Deliver ==
  /\ wire # Silence
  /\ wire' = Silence
  /\ heard' = [m \in Motors |-> Hear(m, wire)]
  /\ \/ said.by = "motor" /\ HostReceives
     \/ said.by = "host" /\ UNCHANGED feedback
  /\ UNCHANGED <<said, mit_param>>

(***************************************************************************)
(* A getter decodes the slot, if there is a feedback frame in it.          *)
(***************************************************************************)
Reading(m, f) ==
  LET lim == GetLimits(m)
      d   == f.data
  IN  [power       |-> IF Extra(f) \div 2^14 = 2 THEN "STATE_ENABLE" ELSE "STATE_DISABLE",
       error_flags |-> (Extra(f) \div 2^8) % 2^6,
       position    |-> Uint16ToFloat(Word(d, 0), -lim.position, lim.position),
       velocity    |-> Uint16ToFloat(Word(d, 1), -lim.velocity, lim.velocity),
       torque      |-> Uint16ToFloat(Word(d, 2), -lim.torque, lim.torque),
       temperature |-> Word(d, 3)]

(* Mistake: frames of every type are taken for feedback. *)
ParseAnything(m, f) == IF f.eff THEN Reading(m, f) ELSE readings[m]

ParseFeedback(m, f) ==
  IF f.eff /\ Comm(f) = COMM_FEEDBACK THEN Reading(m, f) ELSE readings[m]

(* GetErrorString; no fault is "OK". *)
GetErrorString(flags) == {Faults[i] : i \in {j \in 1 .. 6 : (flags \div 2^(6 - j)) % 2 = 1}}

Get(m) ==
  /\ readings' = [readings EXCEPT ![m] = ParseFeedback(m, slot[m])]
  /\ told' = [told EXCEPT ![m] = IF newest[m] = <<>> THEN @ ELSE newest[m]]
  /\ UNCHANGED <<said, wire, heard, mit_param, slot, newest>>

-------------------------------------------------------------------------------
Init ==
  /\ said = [by |-> "host", node |-> 0, meaning |-> Nothing]
  /\ wire = Silence
  /\ heard = [m \in Motors |-> Nothing]
  /\ mit_param = [m \in Motors |-> DefaultVelocity(m)]
  /\ readings = [m \in Motors |-> [power |-> "STATE_DISABLE", error_flags |-> 0, position |-> 0,
                                   velocity |-> 0, torque |-> 0, temperature |-> 0]]
  /\ slot = [m \in Motors |-> ZeroFrame]
  /\ newest = [m \in Motors |-> <<>>]
  /\ told = [m \in Motors |-> <<>>]

Next ==
  \/ \E m \in Motors :
       \/ SetMitCmd(m) \/ SetVelocity(m) \/ SetPosition(m) \/ SetEffort(m) \/ SetMode(m)
       \/ SetMitParam(m) \/ RequestState(m) \/ ClearError(m) \/ SetHomingPosition(m) \/ SaveConfig(m)
       \/ Report(m) \/ OtherFrame(m) \/ Get(m)
  \/ Deliver

Spec == Init /\ [][Next]_vars

-------------------------------------------------------------------------------
(***************************************************************************)
(* Properties                                                              *)
(***************************************************************************)
(* Identifiers have 29 bits and the bytes of a payload eight, whatever the  *)
(* arguments: nothing spills from one field into the next.  A float         *)
(* parameter keeps its value in one place.                                  *)
TypeOK ==
  /\ said.by \in {"host", "motor"} /\ said.node \in (Motors \cup {0})
  /\ wire.eff \in BOOLEAN
  /\ wire.id \in 0 .. 2^29 - 1
  /\ \A i \in DOMAIN wire.data : wire.data[i] \in Byte \cup (IF i = 4 THEN Setpoints ELSE {})
  /\ \A m \in Motors : readings[m].error_flags \in 0 .. 63 /\ readings[m].temperature \in U16

(* The quantity that raw stands for is x, or the limit x is beyond, rounded *)
(* down by less than a step.                                                *)
Stands(raw, x, lo, hi) ==
  LET short == Clamp(x, lo, hi) * 65535 - Uint16ToFloat(raw, lo, hi)
  IN  raw \in U16 /\ 0 <= short /\ short < hi - lo

Agrees(m, meant, h) ==
  LET lim == GetLimits(m)
  IN  \/ meant.op = "save" /\ h = Nothing
      \/ meant.op \notin {"save", "mit"} /\ h = meant
      \/ /\ meant.op = "mit" /\ h.op = "mit"
         /\ Stands(h.args[1], meant.args[1], -lim.position, lim.position)
         /\ Stands(h.args[2], meant.args[2], -lim.velocity, lim.velocity)
         /\ Stands(h.args[3], meant.args[3], -lim.torque, lim.torque)
         /\ Stands(h.args[4], meant.args[4], 0, lim.kp)
         /\ Stands(h.args[5], meant.args[5], 0, lim.kd)

(* A command is understood by the motor it is for, as it was meant, within  *)
(* the motor's limits and a quantisation step, and by no other motor; the   *)
(* frame of zeros SaveConfig sends and the motors' own frames command none. *)
CommandUnderstood ==
  wire = Silence =>
    \A m \in Motors :
      IF said.by = "host" /\ said.node = m THEN Agrees(m, said.meaning, heard[m])
                                           ELSE heard[m] = Nothing

(* The fields g say what motor m has reported as r. *)
Tells(m, r, g) ==
  LET lim == GetLimits(m)
  IN  /\ g.power = "STATE_ENABLE" <=> r.status = 2
      /\ GetErrorString(g.error_flags) = r.faults
      /\ g.position + 65535 * lim.position = r.pos * 2 * lim.position
      /\ g.velocity + 65535 * lim.velocity = r.vel * 2 * lim.velocity
      /\ g.torque + 65535 * lim.torque = r.torque * 2 * lim.torque
      /\ g.temperature = r.temp

(* What the getters of a motor say is the report that was the newest frame  *)
(* of that motor when one of them was last called; if that frame was no     *)
(* report they go on saying what they said before, and a report that such a *)
(* frame has overwritten is never told.  The status and fault bits share    *)
(* the identifier with the dispatch key, and other frames of the motor,     *)
(* with bytes that look like a report, reach its slot as well.              *)
FeedbackUnderstood ==
  \A m \in Motors : \A i \in DOMAIN told[m] : Tells(m, told[m][i], readings[m])

(* The limits in force are mit_param_: the type's default parameters        *)
(* ("Values taken directly from common_type.h                               *)
(* ROBSTRIDE_0x_MIT_MODE_DEFAULT_PARAM", robstride.cpp:51), unless the user *)
(* has overridden them.  A velocity within them, and read in their range,   *)
(* is the one asked for.                                                    *)
VelocityAsDocumented ==
  \A m \in Motors :
    LET range == mit_param[m]
        v     == said.meaning.args[2]
    IN  /\ wire = Silence /\ heard[m].op = "mit"
        /\ -range <= v /\ v <= range
        => Stands(heard[m].args[2], v, -range, range)
===============================================================================
