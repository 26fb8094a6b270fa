----------------------------- MODULE MCCanBusSend -----------------------------
(* Instances of CanBusSend for TLC. *)
EXTENDS CanBusSend, TLC

(* Threads and actuators are interchangeable: no definition names one. *)
Symmetry == Permutations(Clients) \cup Permutations(Actuators)
===============================================================================
