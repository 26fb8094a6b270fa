---------------------------- MODULE MCFeedbackPath ----------------------------
(* Instances of FeedbackPath for TLC. *)
EXTENDS FeedbackPath, TLC

CONSTANTS can0, can1

(* One bus, two buses on two interfaces, and two buses on one interface. *)
SomeLayouts ==
  {[i \in BusIdx |-> IF i = 0 THEN can0 ELSE other] : other \in {Nothing, can0, can1}}

Symmetry == Permutations(Names) \cup Permutations(Devices)
===============================================================================
