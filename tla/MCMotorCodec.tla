----------------------------- MODULE MCMotorCodec -----------------------------
EXTENDS MotorCodec, FiniteSets, TLC

MCTypeOf == 1 :> "Robstride_00" @@ 2 :> "Robstride_02" @@ 4 :> "Robstride_05"

(* One argument at a time at, next to and beyond its limits, and everything *)
(* beyond them at once.                                                     *)
At(i, x) == [<<1, -3, 7, 600, 20>> EXCEPT ![i] = x]
MCMitArgs ==
  {At(1, x) : x \in {-300, -251, -250, 0, 250, 251, 300}}
  \cup {At(2, x) : x \in {-900, -880, -660, 0, 660, 661, 880}}
  \cup {At(3, x) : x \in {-350, -340, -120, 0, 119, 280, 341}}
  \cup {At(4, x) : x \in {-1, 0, 9999, 10001}}
  \cup {At(5, x) : x \in {-1, 0, 99, 101}}
  \cup {<<-999, -999, -999, -1, -1>>, <<999, 999, 999, 20000, 999>>}

MCSetpoints == {-7, 300}

Says(status, faults, pos, vel, torque, temp) ==
  [status |-> status, faults |-> faults, pos |-> pos, vel |-> vel, torque |-> torque, temp |-> temp]
MCReports == {
  Says(0, {}, 0, 65535, 256, 255),
  Says(2, {"uncalibrated", "over_current"}, 65535, 0, 32768, 1),
  Says(1, {}, 32767, 1, 0, 256),
  Says(3, {"under_voltage", "hall_encoder_fault"}, 255, 256, 65535, 65535)}

(* Bound: two motors are heard from; once the host speaks, only one.        *)
MCHeardFrom ==
  Cardinality({m \in Motors : slot[m] # ZeroFrame}) <= IF said.by = "host" THEN 1 ELSE 2
===============================================================================
