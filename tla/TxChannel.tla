------------------------------- MODULE TxChannel -------------------------------
(***************************************************************************)
(* What a SocketCAN promises about the frames it has accepted, without     *)
(* threads, notifications or retries: a bounded channel that hands them on *)
(* one at a time, in the order of their acceptance, and says of every      *)
(* one-shot whether it was written or given up.  What is being sent is     *)
(* settled in the end; while the channel is open every frame gets its      *)
(* turn; once it is closed nothing more is taken.                          *)
(***************************************************************************)
EXTENDS Naturals, Sequences

CONSTANTS
  TxQueueSize,  \* frames that can wait
  MaxOneShots   \* bound: one-shots accepted

VARIABLES
  queue,        \* frames accepted and not yet taken, oldest first
  sending,      \* the frame being sent: a sequence of at most one
  accepted,     \* number of one-shots accepted
  settled,      \* what became of the one-shots, in order
  open          \* whether the channel is open

vars == <<queue, sending, accepted, settled, open>>

Setpoint == 0

Init ==
  /\ queue = <<>>
  /\ sending = <<>>
  /\ accepted = 0
  /\ settled = <<>>
  /\ open = TRUE

(* One-shots are numbered; a full channel refuses, and nobody is told.      *)
Accept(f) ==
  /\ open
  /\ Len(queue) < TxQueueSize
  /\ f = Setpoint \/ f = accepted + 1
  /\ queue' = Append(queue, f)
  /\ accepted' = IF f = Setpoint THEN accepted ELSE f
  /\ UNCHANGED <<sending, settled, open>>

Take ==
  /\ open
  /\ sending = <<>>
  /\ queue # <<>>
  /\ sending' = <<Head(queue)>>
  /\ queue' = Tail(queue)
  /\ UNCHANGED <<accepted, settled, open>>

Settle ==
  /\ sending # <<>>
  /\ \/ /\ Head(sending) = Setpoint
        /\ UNCHANGED settled
     \/ /\ Head(sending) # Setpoint
        /\ \E wrote, reported \in BOOLEAN :
             /\ wrote \/ reported
             /\ settled' = Append(settled, [frame |-> Head(sending),
                                            wrote |-> wrote, reported |-> reported])
  /\ sending' = <<>>
  /\ UNCHANGED <<queue, accepted, open>>

Close ==
  /\ open
  /\ open' = FALSE
  /\ UNCHANGED <<queue, sending, accepted, settled>>

Next == (\E f \in 0 .. MaxOneShots : Accept(f)) \/ Take \/ Settle \/ Close

SafetySpec == Init /\ [][Next]_vars
TakeFairness   == WF_vars(Take)
SettleFairness == WF_vars(Settle)
Spec == SafetySpec /\ TakeFairness /\ SettleFairness
===============================================================================
