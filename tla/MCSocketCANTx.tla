---------------------------- MODULE MCSocketCANTx -----------------------------
(* Instances of SocketCANTx for TLC. *)
EXTENDS SocketCANTx, TLC

(* Callers are interchangeable. *)
Symmetry == Permutations(Callers)
===============================================================================
