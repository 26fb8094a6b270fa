---------------------------- MODULE CommandMailbox ----------------------------
(***************************************************************************)
(* What a CAN bus promises its callers about the commands they give it,    *)
(* without locks, buffers or bytes (the contract of can_bus.h, "Command    *)
(* routing").  Every actuator has a mailbox for one periodic command: a    *)
(* new one replaces the old one, and every cycle may send what the mailbox *)
(* holds.  A one-shot empties the mailbox in the instant it is issued, and *)
(* its frame then goes out once, from the hands of the client that issued  *)
(* it.  Frames are handed over whole.                                      *)
(***************************************************************************)
EXTENDS Naturals, Sequences

CONSTANTS
  Actuators,    \* the actuators registered on the bus
  Clients,      \* the threads that call the actuator API
  Periodic,     \* the periodic commands
  OneShot,      \* the one-shot commands
  Nothing,      \* the empty mailbox, and the command of a frame of zeros
  TxQueueSize   \* capacity of the transmit queue

VARIABLES
  mailbox,      \* mailbox[a]: the periodic command each cycle sends, or Nothing
  inHand,       \* inHand[c]: the one-shot frame client c has still to send, if any
  tx_queue      \* frames accepted for transmission, oldest first

vars == <<mailbox, inHand, tx_queue>>

(* A whole frame: its identifier and its payload are of one command. *)
Whole(a, via, cmd) == [act |-> a, via |-> via, id |-> cmd, data |-> cmd]

(* Mistake: the queue grows past its capacity. *)
AcceptUnbounded(f) == tx_queue' = Append(tx_queue, f)

(* A full queue refuses the frame, and nobody is told. *)
Accept(f) ==
  tx_queue' = IF Len(tx_queue) < TxQueueSize THEN Append(tx_queue, f) ELSE tx_queue

Init ==
  /\ mailbox = [a \in Actuators |-> Nothing]
  /\ inHand = [c \in Clients |-> {}]
  /\ tx_queue = <<>>

(* A periodic command replaces the one before it. *)
Post(a, cmd) ==
  /\ mailbox' = [mailbox EXCEPT ![a] = cmd]
  /\ UNCHANGED <<inHand, tx_queue>>

(* Mistake: a one-shot leaves the periodic command in place. *)
IssueKeeping(c, a, cmd) ==
  /\ inHand[c] = {}
  /\ cmd \in OneShot \cup {Nothing, mailbox[a]}
  /\ inHand' = [inHand EXCEPT ![c] = {Whole(a, "once", cmd)}]
  /\ UNCHANGED <<mailbox, tx_queue>>

(* A one-shot cancels the periodic command.  Its frame is the command it    *)
(* writes, a frame of zeros, or, when the actuator refuses to write one,    *)
(* a last copy of what the mailbox held.                                    *)
Issue(c, a, cmd) ==
  /\ inHand[c] = {}
  /\ cmd \in OneShot \cup {Nothing, mailbox[a]}
  /\ inHand' = [inHand EXCEPT ![c] = {Whole(a, "once", cmd)}]
  /\ mailbox' = [mailbox EXCEPT ![a] = Nothing]
  /\ UNCHANGED tx_queue

(* Mistake: one-shots overtake what is queued. *)
FireAhead(c) ==
  /\ \E f \in inHand[c] : tx_queue' = IF Len(tx_queue) < TxQueueSize THEN <<f>> \o tx_queue ELSE tx_queue
  /\ inHand' = [inHand EXCEPT ![c] = {}]
  /\ UNCHANGED mailbox

(* Mistake: the frame is forgotten. *)
FireForgotten(c) ==
  /\ inHand[c] # {}
  /\ inHand' = [inHand EXCEPT ![c] = {}]
  /\ UNCHANGED <<mailbox, tx_queue>>

Fire(c) ==
  /\ \E f \in inHand[c] : Accept(f)
  /\ inHand' = [inHand EXCEPT ![c] = {}]
  /\ UNCHANGED mailbox

Repeat(a) ==
  /\ mailbox[a] # Nothing
  /\ Accept(Whole(a, "loop", mailbox[a]))
  /\ UNCHANGED <<mailbox, inHand>>

Take ==
  /\ tx_queue # <<>>
  /\ tx_queue' = Tail(tx_queue)
  /\ UNCHANGED <<mailbox, inHand>>

Next ==
  \/ \E a \in Actuators, cmd \in Periodic : Post(a, cmd)
  \/ \E c \in Clients, a \in Actuators, cmd \in OneShot \cup Periodic \cup {Nothing} :
       Issue(c, a, cmd)
  \/ \E c \in Clients : Fire(c)
  \/ \E a \in Actuators : Repeat(a)
  \/ Take

Spec == Init /\ [][Next]_vars
===============================================================================
