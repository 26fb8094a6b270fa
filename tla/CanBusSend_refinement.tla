------------------------- MODULE CanBusSend_refinement -------------------------
(***************************************************************************)
(* CanBusSend implements CommandMailbox: its initial states are initial    *)
(* states of the mailboxes and each of its steps is a step of theirs, or   *)
(* leaves them alone.                                                      *)
(***************************************************************************)
EXTENDS CanBusSend_proofs

barVars == <<mailboxBar, inHandBar, tx_queue>>

(* Who holds no lock has issued nothing, and only he can.                   *)
LEMMA IssuedHoldsLock == \A c \in Clients : Issued(c) => HoldsLock(c)
BY DEF Issued, HoldsLock

(* While no client holds the lock, no one-shot is between slot and caller.  *)
LEMMA NobodyIssued ==
  ASSUME LockInv, send_mtx \in {Free, Loop}
  PROVE  \A a \in Actuators : ~Cancelled(a)
BY Exclusive, IssuedHoldsLock DEF Cancelled

(* No client but the holder of the lock has issued a one-shot.              *)
LEMMA OnlyIssuer ==
  ASSUME LockInv, NEW c \in Clients, HoldsLock(c)
  PROVE  \A d \in Clients : d # c => ~Issued(d)
BY Exclusive, IssuedHoldsLock

(* A step that touches no slot and no call that is under way.               *)
LEMMA BarKept ==
  ASSUME UNCHANGED <<send_buf, frame, tx_queue>>,
         \A c \in Clients : /\ pc'[c] \in {"capture", "zero", "transmit"} => UNCHANGED <<pc[c], call[c]>>
                            /\ pc[c] \in {"capture", "zero", "transmit"} => UNCHANGED <<pc[c], call[c]>>
  PROVE  UNCHANGED barVars
<1>1. \A c \in Clients : Issued(c)' <=> Issued(c)
  BY DEF Issued
<1>2. \A a \in Actuators : Cancelled(a)' <=> Cancelled(a)
  BY <1>1 DEF Cancelled, Issued
<1>3. UNCHANGED mailboxBar
  BY <1>2 DEF mailboxBar
<1>4. UNCHANGED inHandBar
  BY <1>1 DEF inHandBar, HeldSlot, Issued
<1> QED
  BY <1>3, <1>4 DEF barVars

(* Initially every mailbox is empty and nobody has a frame in hand.         *)
LEMMA MailboxInit == Init => Mailbox!Init
<1> SUFFICES ASSUME Init PROVE Mailbox!Init
    OBVIOUS
<1>1. \A c \in Clients : ~Issued(c) /\ pc[c] # "transmit"
  BY DEF Init, Issued
<1>2. mailboxBar = [a \in Actuators |-> Zero]
  BY <1>1 DEF Init, mailboxBar, Cancelled, ZeroSlot, Zero
<1>3. inHandBar = [c \in Clients |-> {}]
  BY <1>1 DEF inHandBar
<1> QED
  BY <1>2, <1>3 DEF Mailbox!Init, Init

(***************************************************************************)
(* The steps that issue a one-shot.                                        *)
(***************************************************************************)
(* Client c reaches "capture" with the whole frame of cmd in the slot of a. *)
LEMMA IssueStep ==
  ASSUME IInv, NEW c \in Clients, NEW a \in Actuators, NEW cmd \in Command,
         pc[c] \notin {"capture", "zero", "transmit"},
         \A d \in Clients : d # c => ~HoldsLock(d),
         pc' = [pc EXCEPT ![c] = "capture"], call'[c].act = a,
         \A d \in Clients \ {c} : call'[d] = call[d],
         send_buf' = [send_buf EXCEPT ![a] = [id |-> cmd, data |-> cmd]],
         UNCHANGED <<frame, tx_queue>>,
         cmd \in OfKind("oneshot") \cup {Zero, mailboxBar[a]}
  PROVE  Mailbox!Issue(c, a, cmd)
<1> USE DEF IInv, TypeInv
<1>1. \A d \in Clients : ~Issued(d)
  BY IssuedHoldsLock DEF Issued
<1>2. \A d \in Clients : Issued(d)' <=> d = c
  BY <1>1 DEF Issued, TypeOK
<1>3. inHandBar[c] = {}
  BY <1>1 DEF inHandBar
<1>4. mailboxBar' = [mailboxBar EXCEPT ![a] = Zero]
  <2>1. \A b \in Actuators : ~Cancelled(b)
    BY <1>1 DEF Cancelled
  <2>2. \A b \in Actuators : Cancelled(b)' <=> b = a
    BY <1>2 DEF Cancelled
  <2> QED
    BY <2>1, <2>2 DEF mailboxBar, TypeOK
<1>5. inHandBar' = [inHandBar EXCEPT ![c] = {Mailbox!Whole(a, "once", cmd)}]
  <2>1. HeldSlot(c)' = [id |-> cmd, data |-> cmd]
    BY DEF HeldSlot, TypeOK
  <2>2. inHandBar'[c] = {Mailbox!Whole(a, "once", cmd)}
    BY <1>2, <2>1 DEF inHandBar, Outgoing, Mailbox!Whole
  <2>3. ASSUME NEW d \in Clients, d # c PROVE inHandBar'[d] = inHandBar[d]
    <3>1. pc'[d] = pc[d] /\ ~Issued(d) /\ ~Issued(d)' /\ call'[d] = call[d]
      BY <1>1, <1>2, <2>3 DEF TypeOK
    <3>2. pc[d] = "transmit" => HeldSlot(d)' = HeldSlot(d)
      BY <3>1 DEF HeldSlot
    <3> QED
      BY <3>1, <3>2 DEF inHandBar
  <2> QED
    BY <2>2, <2>3 DEF inHandBar
<1> QED
  BY <1>3, <1>4, <1>5 DEF Mailbox!Issue

(* Entering a call is an Issue when nothing is written, and else unseen.    *)
LEMMA BeginMaps ==
  ASSUME IInv, NEW c \in Clients, NEW a \in Actuators, Begin(c, a)
  PROVE  [Mailbox!Next]_barVars
<1> USE DEF IInv, TypeInv
<1>0. PICK cmd, at : EnterWrite(c, a, cmd) \/ EnterOther(c, a, cmd, at)
  BY BeginCases
<1>1. send_mtx = Free /\ pc[c] = "idle" /\ \A d \in Clients : ~HoldsLock(d)
  BY <1>0, Exclusive DEF EnterWrite, EnterOther, Enter
<1>2. CASE EnterWrite(c, a, cmd)
  BY <1>1, <1>2, BarKept DEF EnterWrite, Enter, TypeOK
(* A SetMode that writes nothing issues what is in the slot.                *)
<1>3. CASE at = "capture" /\ EnterOther(c, a, cmd, at)
  <2> DEFINE last == send_buf[a].data
  <2>1. ~Writing(a) /\ ~Cancelled(a)
    BY <1>1, NobodyIssued DEF Writing
  <2>2. /\ send_buf[a] \in CanFrame /\ send_buf[a].id = last
        /\ last = Zero \/ last.kind = "periodic"
    BY <2>1 DEF SlotInv, TypeOK, ZeroSlot
  <2>3. send_buf[a] = [id |-> last, data |-> last] /\ last \in Command
    BY <2>2 DEF CanFrame
  <2>4. last \in {Zero, mailboxBar[a]}
    BY <2>1, <2>2 DEF mailboxBar
  <2>5. last \in OfKind("oneshot") \cup OfKind("periodic") \cup {Zero}
    BY <2>2, <2>3 DEF OfKind
  <2> HIDE DEF last
  <2>6. send_buf' = [send_buf EXCEPT ![a] = [id |-> last, data |-> last]]
    BY <1>3, <2>3 DEF EnterOther, Enter, TypeOK
  <2>7. Mailbox!Issue(c, a, last)
    BY <1>1, <1>3, <2>3, <2>4, <2>6, IssueStep DEF EnterOther, Enter, TypeOK
  <2> QED
    BY <2>5, <2>7 DEF Mailbox!Next
<1>4. CASE at = "save" /\ EnterOther(c, a, cmd, at)
  BY <1>1, <1>4, BarKept DEF EnterOther, Enter, TypeOK
<1>5. CASE EnterOther(c, a, cmd, at)
  <2>1. at = "save" \/ at = "capture"
    BY <1>5 DEF EnterOther
  <2> QED
    BY <1>3, <1>4, <1>5, <2>1
<1> QED
  BY <1>0, <1>2, <1>5

(* Completing a slot is a Post or an Issue.                                 *)
LEMMA WriteDataMaps ==
  ASSUME IInv, NEW c \in Clients, WriteData(c)
  PROVE  [Mailbox!Next]_barVars
<1> USE DEF IInv, TypeInv
<1> DEFINE a == call[c].act  cmd == call[c].cmd
<1>1. /\ a \in Actuators /\ cmd \in Command /\ pc[c] = "write_data"
      /\ HoldsLock(c) /\ \A d \in Clients : d # c => ~HoldsLock(d)
  BY Exclusive DEF WriteData, InCall, HoldsLock
<1>2. send_buf[a] \in CanFrame /\ send_buf[a].id = cmd
  BY <1>1 DEF CallInv, TypeOK
<1>3. send_buf' = [send_buf EXCEPT ![a] = [id |-> cmd, data |-> cmd]]
  <2>1. [send_buf[a] EXCEPT !.data = cmd] = [id |-> cmd, data |-> cmd]
    BY <1>2 DEF CanFrame
  <2>2. send_buf' = [send_buf EXCEPT ![a] = [send_buf[a] EXCEPT !.data = cmd]]
    BY <1>1 DEF WriteData, TypeOK
  <2> QED
    BY <2>1, <2>2
<1>4. CASE cmd.kind = "oneshot"
  <2>1. Mailbox!Issue(c, a, cmd)
    BY <1>1, <1>3, <1>4, IssueStep DEF WriteData, OfKind
  <2>2. cmd \in OfKind("oneshot")
    BY <1>1, <1>4 DEF OfKind
  <2> QED
    BY <1>1, <2>1, <2>2 DEF Mailbox!Next
<1>5. CASE cmd.kind = "periodic"
  <2>1. \A d \in Clients : ~Issued(d) /\ ~Issued(d)'
    BY <1>1, <1>5, IssuedHoldsLock DEF WriteData, Issued, TypeOK, HoldsLock
  <2>2. \A b \in Actuators : ~Cancelled(b) /\ ~Cancelled(b)'
    BY <2>1 DEF Cancelled
  <2>3. mailboxBar' = [mailboxBar EXCEPT ![a] = cmd]
    BY <1>1, <1>3, <1>5, <2>2 DEF mailboxBar, TypeOK
  <2>4. inHandBar' = inHandBar
    BY <1>1, <1>5, <2>1 DEF WriteData, inHandBar, HeldSlot, TypeOK
  <2>5. Mailbox!Post(a, cmd) /\ cmd \in OfKind("periodic")
    BY <1>1, <1>5, <2>3, <2>4 DEF Mailbox!Post, WriteData, OfKind
  <2> QED
    BY <1>1, <2>5 DEF Mailbox!Next
<1> QED
  BY <1>4, <1>5 DEF WriteData

(* SaveConfig issues a frame of zeros.                                      *)
LEMMA SaveConfigMaps ==
  ASSUME IInv, NEW c \in Clients, SaveConfig(c)
  PROVE  [Mailbox!Next]_barVars
<1> USE DEF IInv, TypeInv
<1>1. call[c].act \in Actuators /\ \A d \in Clients : d # c => ~HoldsLock(d)
  BY Exclusive DEF SaveConfig, InCall, HoldsLock
<1>2. Mailbox!Issue(c, call[c].act, Zero)
  BY <1>1, ZeroType, IssueStep DEF SaveConfig, ZeroSlot
<1> QED
  BY <1>1, <1>2 DEF Mailbox!Next

(***************************************************************************)
(* The steps that nobody sees, and the hand-over.                          *)
(***************************************************************************)
(* Copying the slot is unseen.                                              *)
LEMMA CaptureMaps ==
  ASSUME IInv, NEW c \in Clients, Capture(c)
  PROVE  UNCHANGED barVars
<1> USE DEF IInv, TypeInv
<1>1. \A d \in Clients : Issued(d)' <=> Issued(d)
  BY DEF Capture, Issued, TypeOK
<1>2. \A a \in Actuators : Cancelled(a)' <=> Cancelled(a)
  BY <1>1 DEF Cancelled, Capture
<1>3. UNCHANGED mailboxBar
  BY <1>2 DEF mailboxBar, Capture
<1>4. \A d \in Clients : HeldSlot(d)' = HeldSlot(d) /\ (pc'[d] = "transmit" <=> pc[d] = "transmit")
  BY DEF Capture, HeldSlot, TypeOK
<1>5. UNCHANGED inHandBar
  BY <1>1, <1>4 DEF inHandBar, Capture
<1> QED
  BY <1>3, <1>5 DEF barVars, Capture

(* Clearing the slot is unseen: the mailbox is empty already.               *)
LEMMA ZeroAndUnlockMaps ==
  ASSUME IInv, NEW c \in Clients, ZeroAndUnlock(c)
  PROVE  UNCHANGED barVars
<1> USE DEF IInv, TypeInv
<1> DEFINE a == call[c].act
<1>1. a \in Actuators /\ HoldsLock(c)
  BY DEF ZeroAndUnlock, InCall, HoldsLock
<1>2. \A d \in Clients : (Issued(d) <=> d = c) /\ ~Issued(d)'
  BY <1>1, OnlyIssuer DEF ZeroAndUnlock, Issued, TypeOK
<1>3. \A b \in Actuators : (Cancelled(b) <=> b = a) /\ ~Cancelled(b)'
  BY <1>2 DEF Cancelled
<1>4. UNCHANGED mailboxBar
  BY <1>1, <1>3 DEF mailboxBar, ZeroAndUnlock, TypeOK, ZeroSlot, Zero
<1>5. ASSUME NEW d \in Clients PROVE inHandBar'[d] = inHandBar[d]
  <2>1. CASE d = c
    BY <1>2, <2>1 DEF inHandBar, HeldSlot, ZeroAndUnlock, TypeOK
  <2>2. CASE d # c
    <3>1. pc'[d] = pc[d] /\ ~Issued(d) /\ ~Issued(d)'
      BY <1>2, <2>2 DEF ZeroAndUnlock
    <3>2. pc[d] = "transmit" => HeldSlot(d)' = HeldSlot(d)
      BY <3>1 DEF HeldSlot, ZeroAndUnlock
    <3> QED
      BY <3>1, <3>2 DEF inHandBar, ZeroAndUnlock
  <2> QED
    BY <2>1, <2>2
<1>6. UNCHANGED inHandBar
  BY <1>5 DEF inHandBar
<1> QED
  BY <1>4, <1>6 DEF barVars, ZeroAndUnlock

(* Handing over the captured frame is a Fire.                               *)
LEMMA TransmitOnceMaps ==
  ASSUME IInv, NEW c \in Clients, TransmitOnce(c)
  PROVE  Mailbox!Fire(c)
<1> USE DEF IInv, TypeInv
<1> DEFINE f == Outgoing(call[c].act, "once", frame[c])
<1>1. inHandBar[c] = {f}
  BY DEF TransmitOnce, inHandBar, HeldSlot
<1>2. Mailbox!Accept(f)
  BY DEF TransmitOnce, transmit, Mailbox!Accept
<1>3. \A d \in Clients : Issued(d)' <=> Issued(d)
  BY DEF TransmitOnce, Issued, TypeOK
<1>4. \A d \in Clients : d # c => /\ pc'[d] = pc[d] /\ call'[d] = call[d] /\ HeldSlot(d)' = HeldSlot(d)
  BY DEF TransmitOnce, HeldSlot
<1>5. \A b \in Actuators : Cancelled(b)' <=> Cancelled(b)
  BY <1>3, <1>4 DEF Cancelled, TransmitOnce, Issued
<1>6. UNCHANGED mailboxBar
  BY <1>5 DEF mailboxBar, TransmitOnce
<1>7. inHandBar'[c] = {} /\ \A d \in Clients : d # c => inHandBar'[d] = inHandBar[d]
  BY <1>3, <1>4 DEF inHandBar, TransmitOnce, TypeOK, Issued
<1>8. inHandBar' = [inHandBar EXCEPT ![c] = {}]
  BY <1>7 DEF inHandBar
<1> HIDE DEF f
<1> QED
  BY <1>1, <1>2, <1>6, <1>8 DEF Mailbox!Fire

(* Every step of a call maps to a step of the mailboxes or is unseen.       *)
LEMMA ContinueMaps ==
  ASSUME IInv, NEW c \in Clients, Continue(c)
  PROVE  [Mailbox!Next]_barVars
<1> USE DEF IInv, TypeInv
<1>1. CASE WriteId(c)
  <2>1. HoldsLock(c) /\ \A d \in Clients : ~Issued(d)
    BY <1>1, OnlyIssuer DEF WriteId, HoldsLock, Issued
  <2>2. \A d \in Clients : ~Issued(d)' /\ (pc'[d] = "transmit" <=> pc[d] = "transmit")
    BY <1>1, <2>1 DEF WriteId, Issued, TypeOK
  <2>3. \A a \in Actuators : send_buf'[a].data = send_buf[a].data
    BY <1>1 DEF WriteId, TypeOK, CanFrame
  <2>4. UNCHANGED mailboxBar
    BY <2>1, <2>2, <2>3 DEF mailboxBar, Cancelled
  <2>5. UNCHANGED inHandBar
    BY <1>1, <2>1, <2>2 DEF inHandBar, HeldSlot, WriteId
  <2> QED
    BY <1>1, <2>4, <2>5 DEF barVars, WriteId
<1>2. CASE WriteData(c) \/ SaveConfig(c)
  BY <1>2, WriteDataMaps, SaveConfigMaps
<1>3. CASE Capture(c) \/ ZeroAndUnlock(c)
  BY <1>3, CaptureMaps, ZeroAndUnlockMaps
<1>4. CASE TransmitOnce(c)
  BY <1>4, TransmitOnceMaps DEF Mailbox!Next
<1> QED
  BY <1>1, <1>2, <1>3, <1>4 DEF Continue

(* Visiting a slot is a Repeat, or unseen when it is empty.                 *)
LEMMA LoopVisitMaps ==
  ASSUME IInv, NEW a \in Actuators, LoopVisit(a)
  PROVE  [Mailbox!Next]_barVars
<1> USE DEF IInv, TypeInv
<1>1. UNCHANGED mailboxBar /\ UNCHANGED inHandBar
  BY DEF LoopVisit, mailboxBar, inHandBar, Cancelled, Issued, HeldSlot
<1>2. CASE send_buf[a].id = Zero
  BY <1>1, <1>2 DEF LoopVisit, barVars
<1>3. CASE send_buf[a].id # Zero
  <2>1. send_buf[a].id = send_buf[a].data /\ send_buf[a].data.kind = "periodic"
    BY <1>3, VisitedSlot
  <2>2. send_mtx = Loop
    BY DEF LoopVisit, LockInv
  <2>3. mailboxBar[a] = send_buf[a].data /\ mailboxBar[a] # Zero
    BY <1>3, <2>1, <2>2, NobodyIssued DEF mailboxBar
  <2>4. Mailbox!Accept(Mailbox!Whole(a, "loop", mailboxBar[a]))
    BY <1>3, <2>1, <2>3 DEF LoopVisit, transmit, Mailbox!Accept, Mailbox!Whole, Outgoing
  <2> QED
    BY <1>1, <2>3, <2>4 DEF Mailbox!Next, Mailbox!Repeat
<1> QED
  BY <1>2, <1>3

(* Every step maps to a step of the mailboxes or is unseen.                 *)
LEMMA NextMaps == IInv /\ [Next]_vars => [Mailbox!Next]_barVars
<1> SUFFICES ASSUME IInv, [Next]_vars PROVE [Mailbox!Next]_barVars
    OBVIOUS
<1>1. ASSUME UNCHANGED <<send_buf, frame, pc, call>>
      PROVE  UNCHANGED mailboxBar /\ UNCHANGED inHandBar
  BY <1>1 DEF mailboxBar, inHandBar, Cancelled, Issued, HeldSlot
<1>2. CASE LoopLock \/ LoopUnlock \/ UNCHANGED vars
  BY <1>1, <1>2 DEF LoopLock, LoopUnlock, vars, barVars
<1>3. CASE SenderPop
  BY <1>1, <1>3 DEF SenderPop, Mailbox!Take, Mailbox!Next
<1> QED
  BY <1>2, <1>3, BeginMaps, ContinueMaps, LoopVisitMaps DEF Next, ControlLoop

(* To its callers every command of the bus is one indivisible event.        *)
THEOREM Refinement == SafetySpec => ImplementsMailbox
<1>1. IInv /\ [Next]_vars => [Mailbox!Next]_Mailbox!vars
  BY NextMaps DEF barVars, Mailbox!vars
<1> QED
  BY MailboxInit, Invariance, <1>1, PTL DEF SafetySpec, ImplementsMailbox, Mailbox!Spec
===============================================================================
