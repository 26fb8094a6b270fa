------------------------------ MODULE SocketCANTx ------------------------------
(***************************************************************************)
(* The transmit half of SocketCAN (protocol/socket_can.cpp): callers of    *)
(* transmit() push frames into the lock-free tx_queue_ and notify tx_cv_;  *)
(* the sender thread waits for them, writes them to the socket with a      *)
(* bounded number of retries, and stops when close() clears receiving_.    *)
(* Of the RX thread there is what close() waits for: its loop over select  *)
(* and read (what it does with the frames is in FeedbackPath).             *)
(*                                                                         *)
(* Neither the push nor the notification is made under tx_mutex_, which    *)
(* only the sender takes.  The sender's test of the wait condition and its *)
(* going to sleep are therefore two steps, and a notification that comes   *)
(* between them wakes nobody.                                              *)
(*                                                                         *)
(* One-shots are numbered in the order in which the queue accepted them;   *)
(* the frames of the control loop are all alike (Setpoint).  `wrote',       *)
(* `accepted' and `settled' are history: no guard of the code reads them.  *)
(***************************************************************************)
EXTENDS Naturals, Sequences

CONSTANTS
  Callers,        \* threads that transmit one-shots
  Loops,          \* control-loop threads; a cycle transmits a setpoint or nothing
  TxQueueSize,    \* TX_QUEUE_SIZE
  MaxRetryCount,  \* MAX_RETRY_COUNT
  MaxOneShots     \* bound: one-shots accepted by the queue

ASSUME TxThreadsAssumption == Callers \cap Loops = {}
ASSUME TxBoundsAssumption ==
  TxQueueSize \in Nat /\ MaxRetryCount \in Nat /\ MaxOneShots \in Nat

VARIABLES
  tx_queue,     \* frames accepted and not yet taken by the sender
  receiving,    \* receiving_: cleared by close(), read by the sender
  sender,       \* where the sender thread is
  tx_frame,     \* the frame the sender has popped: a sequence of at most one
  count,        \* the sender's retries of that frame
  receiver,     \* where the RX thread is in its two loops
  wrote,        \* history: whether a write of that frame succeeded
  pc,           \* pc[t]: thread t is "idle" or has pushed and must "notify"
  closer,       \* close(): "open", "notify", "join_rx", "join_tx", "closed"
  accepted,     \* history: one-shots the queue accepted
  settled       \* history: what became of the one-shots the sender is done with

vars ==
  <<tx_queue, receiving, sender, tx_frame, count, receiver, wrote, pc, closer, accepted, settled>>

Setpoint == 0
Frame    == 0 .. MaxOneShots

Init ==
  /\ tx_queue = <<>>
  /\ receiving = TRUE
  /\ sender = "test"
  /\ tx_frame = <<>>
  /\ count = 0
  /\ receiver = "test"
  /\ wrote = FALSE
  /\ pc = [t \in Callers \cup Loops |-> "idle"]
  /\ closer = "open"
  /\ accepted = 0
  /\ settled = <<>>

(***************************************************************************)
(* transmit(): bounded_push, whose result is ignored, then notify_one.     *)
(***************************************************************************)
(* Mistake: push() grows the queue past its capacity. *)
PushUnbounded(t, f) ==
  /\ pc[t] = "idle"
  /\ closer = "open"
  /\ pc' = [pc EXCEPT ![t] = "notify"]
  /\ tx_queue' = Append(tx_queue, f)
  /\ accepted' = IF f = Setpoint THEN accepted ELSE f
  /\ UNCHANGED <<receiving, sender, tx_frame, count, wrote, closer, settled, receiver>>

Push(t, f) ==
  /\ pc[t] = "idle"
  /\ closer = "open"
  /\ pc' = [pc EXCEPT ![t] = "notify"]
  /\ \/ /\ Len(tx_queue) < TxQueueSize
        /\ tx_queue' = Append(tx_queue, f)
        /\ accepted' = IF f = Setpoint THEN accepted ELSE f
     \/ /\ Len(tx_queue) >= TxQueueSize
        /\ UNCHANGED <<tx_queue, accepted>>
  /\ UNCHANGED <<receiving, sender, tx_frame, count, wrote, closer, settled, receiver>>

PushOneShot(t) == t \in Callers /\ accepted < MaxOneShots /\ Push(t, accepted + 1)
PushSetpoint(t) == t \in Loops /\ Push(t, Setpoint)

(* notify_one wakes the sender if it is asleep, and is lost otherwise. *)
notify_one == sender' = IF sender = "asleep" THEN "check" ELSE sender

(* Mistake: transmit() only pushes. *)
NotifyNobody(t) ==
  /\ pc[t] = "notify"
  /\ pc' = [pc EXCEPT ![t] = "idle"]
  /\ UNCHANGED <<tx_queue, receiving, sender, tx_frame, count, wrote, closer, accepted, settled, receiver>>

Notify(t) ==
  /\ pc[t] = "notify"
  /\ notify_one
  /\ pc' = [pc EXCEPT ![t] = "idle"]
  /\ UNCHANGED <<tx_queue, receiving, tx_frame, count, wrote, closer, accepted, settled, receiver>>

(***************************************************************************)
(* The sender thread.                                                      *)
(***************************************************************************)
(* while (receiving_) *)
SenderTest ==
  /\ sender = "test"
  /\ sender' = IF receiving THEN "check" ELSE "exit"
  /\ UNCHANGED <<tx_queue, receiving, tx_frame, count, wrote, pc, closer, accepted, settled, receiver>>

(* Mistake: the wait does not end when receiving_ is cleared. *)
AwaitedFrame == tx_queue # <<>>

(* The condition of tx_cv_.wait. *)
Awaited == tx_queue # <<>> \/ ~receiving

SenderCheck ==
  /\ sender = "check"
  /\ sender' = IF Awaited THEN "pop" ELSE "block"
  /\ UNCHANGED <<tx_queue, receiving, tx_frame, count, wrote, pc, closer, accepted, settled, receiver>>

SenderBlock ==
  /\ sender = "block"
  /\ sender' = "asleep"
  /\ UNCHANGED <<tx_queue, receiving, tx_frame, count, wrote, pc, closer, accepted, settled, receiver>>

SpuriousWakeup ==
  /\ sender = "asleep"
  /\ sender' = "check"
  /\ UNCHANGED <<tx_queue, receiving, tx_frame, count, wrote, pc, closer, accepted, settled, receiver>>

(* Mistake: the newest frame is taken first. *)
SenderPopNewest ==
  /\ sender = "pop"
  /\ \/ /\ ~receiving
        /\ sender' = "exit"
        /\ UNCHANGED <<tx_queue, tx_frame>>
     \/ /\ receiving
        /\ tx_queue = <<>>
        /\ sender' = "test"
        /\ UNCHANGED <<tx_queue, tx_frame>>
     \/ /\ receiving
        /\ tx_queue # <<>>
        /\ tx_frame' = <<tx_queue[Len(tx_queue)]>>
        /\ tx_queue' = SubSeq(tx_queue, 1, Len(tx_queue) - 1)
        /\ sender' = "write"
  /\ UNCHANGED <<receiving, count, wrote, pc, closer, accepted, settled, receiver>>

SenderPop ==
  /\ sender = "pop"
  /\ \/ /\ ~receiving
        /\ sender' = "exit"
        /\ UNCHANGED <<tx_queue, tx_frame>>
     \/ /\ receiving
        /\ tx_queue = <<>>
        /\ sender' = "test"
        /\ UNCHANGED <<tx_queue, tx_frame>>
     \/ /\ receiving
        /\ tx_queue # <<>>
        /\ tx_frame' = <<Head(tx_queue)>>
        /\ tx_queue' = Tail(tx_queue)
        /\ sender' = "write"
  /\ UNCHANGED <<receiving, count, wrote, pc, closer, accepted, settled, receiver>>

WriteSucceeds ==
  /\ sender = "write"
  /\ wrote' = TRUE
  /\ sender' = "report"
  /\ UNCHANGED <<tx_queue, receiving, tx_frame, count, pc, closer, accepted, settled, receiver>>

(* Mistake: a frame given up goes back to the queue. *)
WriteFailsRequeue ==
  /\ sender = "write"
  /\ \/ /\ count < MaxRetryCount
        /\ count' = count + 1
        /\ UNCHANGED <<sender, tx_queue>>
     \/ /\ count >= MaxRetryCount
        /\ sender' = "report"
        /\ tx_queue' = tx_queue \o tx_frame
        /\ UNCHANGED count
  /\ UNCHANGED <<receiving, tx_frame, wrote, pc, closer, accepted, settled, receiver>>

WriteFails ==
  /\ sender = "write"
  /\ \/ /\ count < MaxRetryCount
        /\ count' = count + 1
        /\ UNCHANGED sender
     \/ /\ count >= MaxRetryCount
        /\ sender' = "report"
        /\ UNCHANGED count
  /\ UNCHANGED <<tx_queue, receiving, tx_frame, wrote, pc, closer, accepted, settled, receiver>>

(* Mistake: only a retry more than the limit counts as a failure. *)
ReportedPastLimit == count > MaxRetryCount

(* "Failed to transmit CAN frame" is logged when the retries are used up. *)
Reported == count >= MaxRetryCount

Outcome(f) == [frame |-> f, wrote |-> wrote, reported |-> Reported]

SenderReport ==
  /\ sender = "report"
  /\ settled' = IF Head(tx_frame) = Setpoint THEN settled
                ELSE Append(settled, Outcome(Head(tx_frame)))
  /\ tx_frame' = <<>>
  /\ count' = 0
  /\ wrote' = FALSE
  /\ sender' = "test"
  /\ UNCHANGED <<tx_queue, receiving, pc, closer, accepted, receiver>>

(***************************************************************************)
(* close(), from the destructor when the last caller is gone.              *)
(***************************************************************************)
CloseFlag ==
  /\ closer = "open"
  /\ \A t \in Callers \cup Loops : pc[t] = "idle"
  /\ receiving' = FALSE
  /\ closer' = "notify"
  /\ UNCHANGED <<tx_queue, sender, tx_frame, count, wrote, pc, accepted, settled, receiver>>

CloseNotify ==
  /\ closer = "notify"
  /\ notify_one
  /\ closer' = "join_rx"
  /\ UNCHANGED <<tx_queue, receiving, tx_frame, count, wrote, pc, accepted, settled, receiver>>

CloseJoinReceiver ==
  /\ closer = "join_rx"
  /\ receiver = "exit"
  /\ closer' = "join_tx"
  /\ UNCHANGED <<tx_queue, receiving, sender, tx_frame, count, receiver, wrote, pc, accepted, settled>>

CloseJoinSender ==
  /\ closer = "join_tx"
  /\ sender = "exit"
  /\ closer' = "closed"
  /\ UNCHANGED <<tx_queue, receiving, sender, tx_frame, count, receiver, wrote, pc, accepted, settled>>

(***************************************************************************)
(* The RX thread: select with a timeout, then read until nothing is left.  *)
(* The inner loop does not look at receiving_.                             *)
(***************************************************************************)
(* Mistake: while (true) *)
RxTestNothing ==
  /\ receiver = "test"
  /\ receiver' = "select"

(* while (receiving_) *)
RxTest ==
  /\ receiver = "test"
  /\ receiver' = IF receiving THEN "select" ELSE "exit"

RxSelect ==
  /\ receiver = "select"
  /\ receiver' \in {"read", "test"}

RxRead ==
  /\ receiver = "read"
  /\ receiver' \in {"callback", "test"}

RxCallback ==
  /\ receiver = "callback"
  /\ receiver' = "read"

-------------------------------------------------------------------------------
Write  == WriteSucceeds \/ WriteFails
Sender == SenderTest \/ SenderCheck \/ SenderBlock \/ SenderPop \/ Write \/ SenderReport
Close  == CloseNotify \/ CloseJoinReceiver \/ CloseJoinSender

Receiver ==
  /\ RxTest \/ RxSelect \/ RxRead \/ RxCallback
  /\ UNCHANGED <<tx_queue, receiving, sender, tx_frame, count, wrote, pc, closer, accepted, settled>>

Next ==
  \/ \E t \in Callers \cup Loops : PushOneShot(t) \/ PushSetpoint(t) \/ Notify(t)
  \/ Sender
  \/ SpuriousWakeup
  \/ Receiver
  \/ CloseFlag \/ Close

(* Threads run: a transmit() that has pushed goes on to notify, the sender  *)
(* and the RX thread move when they can, and a close() that has begun goes  *)
(* on.  No one has to call transmit(): a control loop cycles for ever, but  *)
(* a cycle that finds every slot empty transmits nothing (can_bus.cpp:166). *)
(* No one has to call close(), a write may fail and the bus may deliver     *)
(* frames for ever, and spurious wakeups are allowed and never promised.    *)
Fairness ==
  /\ \A t \in Callers \cup Loops : WF_vars(Notify(t))
  /\ WF_vars(Sender)
  /\ WF_vars(Receiver)
  /\ WF_vars(Close)

SafetySpec == Init /\ [][Next]_vars
Spec == SafetySpec /\ Fairness

-------------------------------------------------------------------------------
TypeOK ==
  /\ tx_queue \in Seq(Frame) /\ Len(tx_queue) <= TxQueueSize
  /\ receiving \in BOOLEAN
  /\ sender \in {"test", "check", "block", "asleep", "pop", "write", "report", "exit"}
  /\ tx_frame \in Seq(Frame) /\ Len(tx_frame) <= 1
  /\ count \in 0 .. MaxRetryCount
  /\ wrote \in BOOLEAN
  /\ pc \in [Callers \cup Loops -> {"idle", "notify"}]
  /\ receiver \in {"test", "select", "read", "callback", "exit"}
  /\ closer \in {"open", "notify", "join_rx", "join_tx", "closed"}
  /\ accepted \in 0 .. MaxOneShots
  /\ settled \in Seq([frame : 1 .. MaxOneShots, wrote : BOOLEAN, reported : BOOLEAN])

(* Between transmit() and the wire no one-shot is lost, duplicated or       *)
(* overtaken: the settled ones, the one in the sender's hands and those in  *)
(* the queue are the accepted ones, in the order of their acceptance.       *)
Taken ==
  IF \E i \in DOMAIN tx_frame : tx_frame[i] # Setpoint THEN Len(settled) + 1 ELSE Len(settled)

OneShotsAccounted ==
  /\ \A i \in DOMAIN settled : settled[i].frame = i
  /\ \A i \in DOMAIN tx_frame : tx_frame[i] \in {Setpoint, Len(settled) + 1}
  /\ \A i \in DOMAIN tx_queue : tx_queue[i] \in {Setpoint} \cup (Taken + 1 .. accepted)
  /\ \A i, j \in DOMAIN tx_queue :
       i < j /\ tx_queue[i] # Setpoint /\ tx_queue[j] # Setpoint => tx_queue[i] < tx_queue[j]
  /\ \A n \in Taken + 1 .. accepted : \E i \in DOMAIN tx_queue : tx_queue[i] = n
  /\ Taken <= accepted

(* A frame the socket never took is always reported: the retries of one     *)
(* frame do not use up those of the next, nor hide its failure.             *)
NoSilentFailure ==
  \A i \in DOMAIN settled : settled[i].wrote \/ settled[i].reported

(* An accepted one-shot is written or reported in the end, unless the       *)
(* socket is closed first (SendOnce: "fire exactly once", can_bus.cpp:200). *)
OneShotsSettle ==
  \A n \in 1 .. MaxOneShots : accepted >= n ~> Len(settled) >= n \/ ~receiving

(* Somebody transmits again and again, whoever it is: a sender that has     *)
(* missed a notification is woken by a later one.                           *)
KeepsNotifying == []<><<\E t \in Callers \cup Loops : Notify(t)>>_vars

(* As long as somebody keeps transmitting, every accepted one-shot is       *)
(* written or reported in the end, whatever notifications were lost.        *)
SettlesWhileNotified == KeepsNotifying => OneShotsSettle

(* Queue, condition variable, retries and close() implement the channel: a  *)
(* frame in the sender's hands is settled in any case, a queued one gets    *)
(* its turn as long as somebody keeps transmitting.                         *)
Channel == INSTANCE TxChannel WITH queue <- tx_queue, sending <- tx_frame, open <- receiving

ImplementsChannel ==
  /\ Channel!SafetySpec
  /\ Channel!SettleFairness
  /\ KeepsNotifying => Channel!TakeFairness

(* How many steps the sender takes at most once close() has begun: those of *)
(* the frame in its hands, then to the next test of receiving_.             *)
CloseStepsLeft ==
  CASE sender = "exit"             -> 0
    [] sender \in {"test", "pop"}  -> 1
    [] sender \in {"check", "report"} -> 2
    [] sender = "write"            -> 3 + MaxRetryCount - count
    [] sender \in {"block", "asleep"} -> 3

(* Once close() has begun, the sender finishes the frame it is at and ends: *)
(* it takes no other frame, however many are queued, begins no retries anew *)
(* and does not go to sleep, unless it was on its way when close() came.    *)
ClosesWithinFrame ==
  [][closer # "open" /\ sender \notin {"block", "asleep"}
       => CloseStepsLeft' < CloseStepsLeft]_<<sender, count>>

(* close() returns, unless it came between the sender's test of its wait    *)
(* condition and its going to sleep, or the RX thread finds frame after     *)
(* frame for ever: those two waits, and no third, depend on something that  *)
(* need not happen.                                                         *)
CloseReturns ==
  ~<>[](receiver \in {"read", "callback"})
    => (closer = "notify" /\ sender # "block" ~> closer = "closed")
===============================================================================
