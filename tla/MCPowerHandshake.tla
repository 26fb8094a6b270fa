--------------------------- MODULE MCPowerHandshake ---------------------------
(* Instances of PowerHandshake for TLC. *)
EXTENDS PowerHandshake, TLC

(* Actuators are interchangeable, and so are clients. *)
Symmetry == Permutations(Actuators) \cup Permutations(Clients)
===============================================================================
