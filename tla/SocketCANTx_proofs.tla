--------------------------- MODULE SocketCANTx_proofs ---------------------------
(***************************************************************************)
(* Proofs about SocketCANTx, for every size of the queue, every number of  *)
(* retries, callers and control loops.  The sender leaves its write loop   *)
(* either because a write succeeded or because the retries of this very    *)
(* frame are used up, since count is 0 whenever it takes a frame.          *)
(***************************************************************************)
EXTENDS SocketCANTx, TLAPS

(* The sender holds a frame between its pop and its report, and only then   *)
(* has retries or a successful write to remember.                           *)
HandInv ==
  /\ sender \in {"write", "report"} <=> Len(tx_frame) = 1
  /\ sender \notin {"write", "report"} => count = 0 /\ ~wrote
  /\ sender = "report" => wrote \/ Reported

IInv == TypeOK /\ HandInv /\ NoSilentFailure

-------------------------------------------------------------------------------
(* The invariant holds in the beginning. *)
LEMMA InitIInv == Init => IInv
<1> SUFFICES ASSUME Init PROVE IInv
    OBVIOUS
<1>1. Len(<<>>) = 0
  OBVIOUS
<1>2. TypeOK
  <2>1. tx_queue \in Seq(Frame) /\ tx_frame \in Seq(Frame)
    BY DEF Init
  <2>2. settled \in Seq([frame : 1 .. MaxOneShots, wrote : BOOLEAN, reported : BOOLEAN])
    BY DEF Init
  <2>3. Len(tx_queue) <= TxQueueSize /\ Len(tx_frame) <= 1
    BY <1>1, TxBoundsAssumption DEF Init
  <2>4. count \in 0 .. MaxRetryCount /\ accepted \in 0 .. MaxOneShots
    BY TxBoundsAssumption DEF Init
  <2> QED
    BY <2>1, <2>2, <2>3, <2>4 DEF Init, TypeOK
<1>3. HandInv /\ NoSilentFailure
  BY <1>1 DEF Init, HandInv, NoSilentFailure
<1> QED
  BY <1>2, <1>3 DEF IInv

(* transmit(), by a caller or a control loop: the push. *)
LEMMA PushStep ==
  ASSUME IInv, NEW t \in Callers \cup Loops, NEW f \in Frame, Push(t, f)
  PROVE  IInv'
<1>1. TypeOK'
  <2>1. tx_queue' \in Seq(Frame) /\ Len(tx_queue') <= TxQueueSize
    <3>1. tx_queue \in Seq(Frame) /\ Len(tx_queue) \in Nat /\ Len(tx_queue) <= TxQueueSize
      BY DEF IInv, TypeOK
    <3>2. /\ Append(tx_queue, f) \in Seq(Frame)
          /\ Len(Append(tx_queue, f)) = Len(tx_queue) + 1
      BY <3>1
    <3>3. tx_queue' = tx_queue \/ (tx_queue' = Append(tx_queue, f) /\ Len(tx_queue) < TxQueueSize)
      BY DEF Push
    <3> QED
      BY <3>1, <3>2, <3>3, TxBoundsAssumption
  <2>2. accepted' \in 0 .. MaxOneShots
    BY TxBoundsAssumption DEF IInv, TypeOK, Push, Frame, Setpoint
  <2> QED
    BY <2>1, <2>2 DEF IInv, TypeOK, Push
<1>2. HandInv' /\ NoSilentFailure'
  BY DEF IInv, HandInv, NoSilentFailure, Reported, Push
<1> QED
  BY <1>1, <1>2 DEF IInv

(* The notification of transmit(), the steps of close() and of the RX thread. *)
LEMMA SignalStep ==
  ASSUME IInv, (\E t \in Callers \cup Loops : Notify(t)) \/ CloseFlag \/ Close \/ Receiver
  PROVE  IInv'
<1> USE DEF IInv, TypeOK, HandInv, NoSilentFailure, Reported
<1>1. ASSUME NEW t \in Callers \cup Loops, Notify(t) PROVE IInv'
  BY <1>1 DEF Notify, notify_one
<1>2. CASE CloseFlag
  BY <1>2 DEF CloseFlag
<1>3. CASE CloseNotify
  BY <1>3 DEF CloseNotify, notify_one
<1>4. CASE CloseJoinReceiver \/ CloseJoinSender
  BY <1>4 DEF CloseJoinReceiver, CloseJoinSender
<1>5. CASE Receiver
  BY <1>5 DEF Receiver, RxTest, RxSelect, RxRead, RxCallback
<1> QED
  BY <1>1, <1>2, <1>3, <1>4, <1>5 DEF Close

(* The sender waits for a frame and takes it. *)
LEMMA WaitStep ==
  ASSUME IInv, SenderTest \/ SenderCheck \/ SenderBlock \/ SpuriousWakeup \/ SenderPop
  PROVE  IInv'
<1> USE DEF IInv, TypeOK, HandInv, NoSilentFailure, Reported
<1>1. CASE SenderTest
  BY <1>1 DEF SenderTest
<1>2. CASE SenderCheck
  BY <1>2 DEF SenderCheck
<1>3. CASE SenderBlock
  BY <1>3 DEF SenderBlock
<1>4. CASE SpuriousWakeup
  BY <1>4 DEF SpuriousWakeup
<1>5. CASE SenderPop
  <2>1. CASE sender' \in {"exit", "test"}
    BY <1>5, <2>1 DEF SenderPop
  <2>2. CASE sender' = "write"
    <3>1. tx_queue # <<>> /\ tx_frame' = <<Head(tx_queue)>> /\ tx_queue' = Tail(tx_queue)
      BY <1>5, <2>2 DEF SenderPop
    <3>2. Head(tx_queue) \in Frame /\ tx_queue' \in Seq(Frame) /\ Len(tx_queue') <= TxQueueSize
      BY <3>1, TxBoundsAssumption
    <3>3. tx_frame' \in Seq(Frame) /\ Len(tx_frame') = 1
      BY <3>1, <3>2
    <3> QED
      BY <1>5, <2>2, <3>2, <3>3 DEF SenderPop
  <2> QED
    BY <1>5, <2>1, <2>2 DEF SenderPop
<1> QED
  BY <1>1, <1>2, <1>3, <1>4, <1>5

(* The sender says what became of its frame, which was written or reported. *)
LEMMA ReportStep ==
  ASSUME IInv, SenderReport
  PROVE  IInv'
<1> DEFINE Outcomes == [frame : 1 .. MaxOneShots, wrote : BOOLEAN, reported : BOOLEAN]
<1>1. tx_frame \in Seq(Frame) /\ Len(tx_frame) = 1 /\ (wrote \/ Reported)
  BY DEF SenderReport, IInv, TypeOK, HandInv
<1>2. Head(tx_frame) \in Frame
  BY <1>1
<1>3. tx_frame' = <<>> /\ sender' = "test" /\ count' = 0 /\ wrote' = FALSE
  BY DEF SenderReport
<1>4. Len(tx_frame') = 0 /\ tx_frame' \in Seq(Frame)
  BY <1>3
<1>5. settled' \in Seq(Outcomes) /\ NoSilentFailure'
  <2>0. settled \in Seq(Outcomes) /\ NoSilentFailure
    BY DEF IInv, TypeOK
  <2>1. CASE Head(tx_frame) = Setpoint
    BY <2>0, <2>1 DEF SenderReport, NoSilentFailure
  <2>2. CASE Head(tx_frame) # Setpoint
    <3>1. PICK o : o = Outcome(Head(tx_frame))
      OBVIOUS
    <3>2. Head(tx_frame) \in 1 .. MaxOneShots
      BY <1>2, <2>2, TxBoundsAssumption DEF Frame, Setpoint
    <3>3. wrote \in BOOLEAN /\ Reported \in BOOLEAN
      BY DEF IInv, TypeOK, Reported
    <3>4. o \in Outcomes /\ (o.wrote \/ o.reported)
      BY <1>1, <3>1, <3>2, <3>3, Zenon DEF Outcome
    <3>5. settled' = Append(settled, o)
      BY <2>2, <3>1 DEF SenderReport
    <3> HIDE DEF Outcomes
    <3>6. /\ settled' \in Seq(Outcomes)
          /\ \A i \in DOMAIN settled' :
               settled'[i] = o \/ (i \in DOMAIN settled /\ settled'[i] = settled[i])
      BY <2>0, <3>4, <3>5
    <3> QED
      BY <2>0, <3>4, <3>6 DEF NoSilentFailure
  <2> QED
    BY <2>1, <2>2
<1>6. TypeOK'
  <2>1. UNCHANGED <<tx_queue, receiving, receiver, pc, closer, accepted>>
    BY DEF SenderReport
  <2>2. tx_frame' \in Seq(Frame) /\ Len(tx_frame') <= 1 /\ count' \in 0 .. MaxRetryCount
    BY <1>3, <1>4, TxBoundsAssumption
  <2>3. /\ tx_queue' \in Seq(Frame) /\ Len(tx_queue') <= TxQueueSize
        /\ receiving' \in BOOLEAN
        /\ pc' \in [Callers \cup Loops -> {"idle", "notify"}]
        /\ receiver' \in {"test", "select", "read", "callback", "exit"}
        /\ closer' \in {"open", "notify", "join_rx", "join_tx", "closed"}
        /\ accepted' \in 0 .. MaxOneShots
    BY <2>1 DEF IInv, TypeOK
  <2> QED
    BY <1>3, <1>5, <2>2, <2>3, Zenon DEF TypeOK
<1>7. HandInv'
  BY <1>3, <1>4 DEF HandInv
<1> QED
  BY <1>5, <1>6, <1>7 DEF IInv

(* The sender writes the frame and says what became of it. *)
LEMMA WriteStep ==
  ASSUME IInv, Write \/ SenderReport
  PROVE  IInv'
<1> USE TxBoundsAssumption DEF IInv, TypeOK, HandInv, NoSilentFailure
<1>1. CASE WriteSucceeds
  BY <1>1 DEF WriteSucceeds, Reported
<1>2. CASE WriteFails
  BY <1>2 DEF WriteFails, Reported
<1>3. CASE SenderReport
  BY <1>3, ReportStep
<1> QED
  BY <1>1, <1>2, <1>3 DEF Write

(* Every step keeps the invariant. *)
LEMMA NextIInv == IInv /\ [Next]_vars => IInv'
<1>1. ASSUME IInv, NEW t \in Callers \cup Loops, PushOneShot(t) \/ PushSetpoint(t)
      PROVE  IInv'
  <2>1. Setpoint \in Frame /\ (accepted < MaxOneShots => accepted + 1 \in Frame)
    BY <1>1, TxBoundsAssumption DEF IInv, TypeOK, Setpoint, Frame
  <2> QED
    BY <1>1, <2>1, PushStep DEF PushOneShot, PushSetpoint
<1>2. ASSUME IInv, UNCHANGED vars PROVE IInv'
  BY <1>2 DEF IInv, TypeOK, HandInv, NoSilentFailure, Reported, vars
<1> QED
  BY <1>1, <1>2, SignalStep, WaitStep, WriteStep DEF Next, Sender

-------------------------------------------------------------------------------
(* The invariant holds in every reachable state. *)
LEMMA Invariance == SafetySpec => []IInv
  BY InitIInv, NextIInv, PTL DEF SafetySpec

(* Every variable keeps its type: the queue never outgrows its capacity and *)
(* the retries never their limit.                                           *)
THEOREM TypeCorrect == SafetySpec => []TypeOK
<1>1. IInv => TypeOK
  BY DEF IInv
<1> QED
  BY <1>1, Invariance, PTL

(* A frame that the socket never took is reported, whatever happened to the *)
(* frames before it, for every retry limit, also for none.                  *)
THEOREM FailuresAreReported == SafetySpec => []NoSilentFailure
<1>1. IInv => NoSilentFailure
  BY DEF IInv
<1> QED
  BY <1>1, Invariance, PTL

-------------------------------------------------------------------------------
(* Nothing is accounted for in the beginning. *)
LEMMA InitAccounted == Init => OneShotsAccounted
  BY DEF Init, OneShotsAccounted, Taken

(* A push appends the next one-shot, or a setpoint. *)
LEMMA PushAccounted ==
  ASSUME IInv, OneShotsAccounted, NEW t \in Callers \cup Loops, PushOneShot(t) \/ PushSetpoint(t)
  PROVE  OneShotsAccounted'
<1>1. PICK f : Push(t, f) /\ (f = Setpoint \/ f = accepted + 1)
  BY DEF PushOneShot, PushSetpoint
<1>2. accepted \in Nat /\ tx_queue \in Seq(Nat) /\ Len(settled) \in Nat
  BY TxBoundsAssumption DEF IInv, TypeOK, Frame
<1>3. Taken' = Taken /\ Taken \in Nat
  BY <1>1, <1>2 DEF Push, Taken
<1>4. CASE UNCHANGED <<tx_queue, accepted>>
  BY <1>1, <1>3, <1>4 DEF Push, OneShotsAccounted
<1>5. CASE tx_queue' = Append(tx_queue, f) /\ accepted' = IF f = Setpoint THEN accepted ELSE f
  <2>1. /\ DOMAIN tx_queue' = 1 .. Len(tx_queue) + 1
        /\ DOMAIN tx_queue = 1 .. Len(tx_queue)
        /\ Len(tx_queue) \in Nat
        /\ \A i \in DOMAIN tx_queue : tx_queue'[i] = tx_queue[i]
        /\ tx_queue'[Len(tx_queue) + 1] = f
    BY <1>2, <1>5
  <2>2. accepted' = IF f = Setpoint THEN accepted ELSE accepted + 1
    BY <1>1, <1>5
  <2>3. UNCHANGED <<settled, tx_frame>>
    BY <1>1 DEF Push
  <2>4. \A i \in DOMAIN tx_queue' : tx_queue'[i] \in {Setpoint} \cup (Taken + 1 .. accepted')
    BY <1>1, <1>2, <1>3, <2>1, <2>2 DEF OneShotsAccounted, Setpoint
  <2>5. ASSUME NEW i \in DOMAIN tx_queue', NEW j \in DOMAIN tx_queue',
               i < j, tx_queue'[i] # Setpoint, tx_queue'[j] # Setpoint
        PROVE  tx_queue'[i] < tx_queue'[j]
    <3>1. /\ i \in DOMAIN tx_queue /\ tx_queue'[i] = tx_queue[i]
          /\ j \in DOMAIN tx_queue \/ j = Len(tx_queue) + 1
      BY <2>1, <2>5
    <3>2. CASE j \in DOMAIN tx_queue
      BY <2>1, <2>5, <3>1, <3>2 DEF OneShotsAccounted
    <3>3. CASE j = Len(tx_queue) + 1
      <4>1. tx_queue'[j] = accepted + 1
        BY <1>1, <2>1, <2>5, <3>3
      <4>2. tx_queue[i] \in Taken + 1 .. accepted
        BY <2>5, <3>1 DEF OneShotsAccounted
      <4> QED
        BY <1>2, <1>3, <3>1, <4>1, <4>2
    <3> QED
      BY <3>1, <3>2, <3>3
  <2>6. ASSUME NEW n \in Taken + 1 .. accepted'
        PROVE  \E i \in DOMAIN tx_queue' : tx_queue'[i] = n
    <3>1. CASE n \in Taken + 1 .. accepted
      <4>1. PICK i \in DOMAIN tx_queue : tx_queue[i] = n
        BY <3>1 DEF OneShotsAccounted
      <4> QED
        BY <2>1, <4>1
    <3>2. CASE n \notin Taken + 1 .. accepted
      <4>1. n = f
        BY <1>1, <1>2, <1>3, <2>2, <3>2
      <4> QED
        BY <2>1, <4>1
    <3> QED
      BY <3>1, <3>2
  <2> QED
    BY <1>2, <1>3, <2>2, <2>3, <2>4, <2>5, <2>6 DEF OneShotsAccounted
<1> QED
  BY <1>1, <1>4, <1>5 DEF Push

(* The sender that takes a frame holds none. *)
LEMMA NothingInHand ==
  ASSUME IInv, SenderPop
  PROVE  tx_frame \in Seq(Frame) /\ Len(tx_frame) = 0
<1> DEFINE held == Len(tx_frame)
<1>1. tx_frame \in Seq(Frame) /\ held \in Nat /\ held <= 1
  BY DEF IInv, TypeOK
<1>2. held # 1
  BY DEF IInv, HandInv, SenderPop
<1> HIDE DEF held
<1>3. held = 0
  BY <1>1, <1>2, SMT
<1> QED
  BY <1>1, <1>3 DEF held

(* The sender takes the oldest frame: if it is a one-shot, it is the next   *)
(* one, because the queue holds all that follow and holds them in order.    *)
LEMMA PopAccounted ==
  ASSUME IInv, OneShotsAccounted, SenderPop
  PROVE  OneShotsAccounted'
<1>1. /\ accepted \in Nat /\ tx_queue \in Seq(Nat) /\ Len(settled) \in Nat
      /\ tx_frame \in Seq(Nat) /\ Len(tx_frame) = 0
  <2>1. tx_frame \in Seq(Frame)
    BY NothingInHand
  <2>2. Len(tx_frame) = 0
    BY NothingInHand
  <2>3. accepted \in Nat /\ tx_queue \in Seq(Nat) /\ Len(settled) \in Nat
    BY TxBoundsAssumption DEF IInv, TypeOK, Frame
  <2>4. tx_frame \in Seq(Nat)
    BY <2>1, TxBoundsAssumption DEF Frame
  <2> QED
    BY <2>2, <2>3, <2>4, Zenon
<1>2. Taken = Len(settled)
  BY <1>1 DEF Taken
<1>3. CASE UNCHANGED <<tx_queue, tx_frame>>
  BY <1>3 DEF SenderPop, OneShotsAccounted, Taken
<1>4. CASE tx_queue # <<>> /\ tx_frame' = <<Head(tx_queue)>> /\ tx_queue' = Tail(tx_queue)
  <2> DEFINE f == Head(tx_queue)
  <2>1. /\ DOMAIN tx_queue = 1 .. Len(tx_queue)
        /\ DOMAIN tx_queue' = 1 .. Len(tx_queue) - 1
        /\ Len(tx_queue) \in Nat \ {0}
        /\ f = tx_queue[1]
        /\ \A i \in DOMAIN tx_queue' : tx_queue'[i] = tx_queue[i + 1]
    BY <1>1, <1>4
  <2>2. DOMAIN tx_frame' = {1} /\ tx_frame'[1] = f
    BY <1>4
  <2>3. settled' = settled /\ accepted' = accepted
    BY DEF SenderPop
  <2>4. f \in {Setpoint, Len(settled) + 1}
    <3>1. ASSUME f # Setpoint, f # Len(settled) + 1 PROVE FALSE
      <4>1. f \in Taken + 1 .. accepted
        BY <2>1, <3>1 DEF OneShotsAccounted
      <4>2. Taken + 1 \in Taken + 1 .. accepted /\ Taken + 1 < f /\ Taken + 1 # Setpoint
        BY <1>1, <1>2, <3>1, <4>1 DEF Setpoint
      <4>3. PICK i \in DOMAIN tx_queue : tx_queue[i] = Taken + 1
        BY <4>2 DEF OneShotsAccounted
      <4>4. i # 1 /\ 1 < i /\ 1 \in DOMAIN tx_queue
        BY <2>1, <4>2, <4>3
      <4>5. tx_queue[1] < tx_queue[i]
        BY <2>1, <3>1, <4>2, <4>3, <4>4 DEF OneShotsAccounted
      <4> QED
        BY <1>1, <1>2, <2>1, <4>1, <4>2, <4>3, <4>5
    <3> QED
      BY <3>1
  <2>5. Taken' = IF f = Setpoint THEN Len(settled) ELSE Len(settled) + 1
    BY <2>2, <2>3 DEF Taken
  <2>6. \A i \in DOMAIN tx_queue' : tx_queue'[i] \in {Setpoint} \cup (Taken' + 1 .. accepted)
    <3> SUFFICES ASSUME NEW i \in DOMAIN tx_queue', tx_queue'[i] # Setpoint
                 PROVE  tx_queue'[i] \in Taken' + 1 .. accepted
      OBVIOUS
    <3>1. i + 1 \in DOMAIN tx_queue /\ 1 \in DOMAIN tx_queue /\ 1 < i + 1
          /\ tx_queue[i + 1] # Setpoint /\ tx_queue'[i] = tx_queue[i + 1]
      BY <2>1
    <3>2. tx_queue[i + 1] \in Len(settled) + 1 .. accepted
      BY <1>2, <3>1 DEF OneShotsAccounted
    <3>3. f # Setpoint => f < tx_queue[i + 1]
      BY <2>1, <3>1 DEF OneShotsAccounted
    <3> QED
      BY <1>1, <2>4, <2>5, <3>1, <3>2, <3>3
  <2>7. ASSUME NEW i \in DOMAIN tx_queue', NEW j \in DOMAIN tx_queue',
               i < j, tx_queue'[i] # Setpoint, tx_queue'[j] # Setpoint
        PROVE  tx_queue'[i] < tx_queue'[j]
    BY <2>1, <2>7 DEF OneShotsAccounted
  <2>8. ASSUME NEW n \in Taken' + 1 .. accepted
        PROVE  \E i \in DOMAIN tx_queue' : tx_queue'[i] = n
    <3>1. n \in Taken + 1 .. accepted /\ n # f
      BY <1>1, <1>2, <2>4, <2>5, <2>8 DEF Setpoint
    <3>2. PICK i \in DOMAIN tx_queue : tx_queue[i] = n
      BY <3>1 DEF OneShotsAccounted
    <3>3. i - 1 \in DOMAIN tx_queue' /\ tx_queue'[i - 1] = n
      BY <2>1, <3>1, <3>2
    <3> QED
      BY <3>3
  <2>9. Taken' <= accepted
    <3>1. f # Setpoint => f \in Taken + 1 .. accepted
      BY <2>1 DEF OneShotsAccounted
    <3> QED
      BY <1>1, <1>2, <2>4, <2>5, <3>1 DEF OneShotsAccounted
  <2> QED
    BY <2>2, <2>3, <2>4, <2>6, <2>7, <2>8, <2>9 DEF OneShotsAccounted
<1> QED
  BY <1>3, <1>4 DEF SenderPop

(* The report moves the sender's one-shot to the settled ones. *)
LEMMA ReportAccounted ==
  ASSUME IInv, OneShotsAccounted, SenderReport
  PROVE  OneShotsAccounted'
<1> DEFINE f == Head(tx_frame)
<1>1. /\ tx_frame \in Seq(Frame) /\ Len(tx_frame) = 1
      /\ settled \in Seq([frame : 1 .. MaxOneShots, wrote : BOOLEAN, reported : BOOLEAN])
  BY DEF SenderReport, IInv, TypeOK, HandInv
<1>2. DOMAIN tx_frame = {1} /\ tx_frame[1] = f /\ DOMAIN tx_frame' = {}
  BY <1>1 DEF SenderReport
<1>3. f \in {Setpoint, Len(settled) + 1}
  BY <1>2 DEF OneShotsAccounted
<1>4. Taken = (IF f = Setpoint THEN Len(settled) ELSE Len(settled) + 1) /\ Taken' = Len(settled')
  BY <1>2 DEF Taken
<1>5. UNCHANGED <<tx_queue, accepted>>
  BY DEF SenderReport
<1>6. Taken' = Taken /\ \A i \in DOMAIN settled' : settled'[i].frame = i
  <2>1. CASE f = Setpoint
    BY <1>4, <2>1 DEF SenderReport, OneShotsAccounted
  <2>2. CASE f # Setpoint
    <3>1. PICK o : o = Outcome(f)
      OBVIOUS
    <3>2. o.frame = Len(settled) + 1
      BY <1>3, <2>2, <3>1 DEF Outcome
    <3>3. settled' = Append(settled, o)
      BY <2>2, <3>1 DEF SenderReport
    <3>4. /\ Len(settled') = Len(settled) + 1
          /\ DOMAIN settled' = DOMAIN settled \cup {Len(settled) + 1}
          /\ settled'[Len(settled) + 1] = o
          /\ \A i \in DOMAIN settled : settled'[i] = settled[i]
      BY <1>1, <3>3
    <3> QED
      BY <1>4, <2>2, <3>2, <3>4 DEF OneShotsAccounted
  <2> QED
    BY <2>1, <2>2
<1> QED
  BY <1>2, <1>5, <1>6 DEF OneShotsAccounted

(* No other step touches a frame. *)
LEMMA NextAccounted == IInv /\ OneShotsAccounted /\ [Next]_vars => OneShotsAccounted'
<1> SUFFICES ASSUME IInv, OneShotsAccounted, [Next]_vars PROVE OneShotsAccounted'
  OBVIOUS
<1>1. CASE UNCHANGED <<tx_queue, tx_frame, accepted, settled>>
  BY <1>1 DEF OneShotsAccounted, Taken
<1>2. CASE \E t \in Callers \cup Loops : PushOneShot(t) \/ PushSetpoint(t)
  BY <1>2, PushAccounted
<1>3. CASE (\E t \in Callers \cup Loops : Notify(t)) \/ CloseFlag \/ Close \/ Receiver
  BY <1>1, <1>3 DEF Receiver, Notify, CloseFlag, Close, CloseNotify, CloseJoinReceiver,
                    CloseJoinSender
<1>4. CASE SenderTest \/ SenderCheck \/ SenderBlock \/ SpuriousWakeup \/ Write
  BY <1>1, <1>4 DEF SenderTest, SenderCheck, SenderBlock, SpuriousWakeup,
                    Write, WriteSucceeds, WriteFails
<1> QED
  BY <1>1, <1>2, <1>3, <1>4, PopAccounted, ReportAccounted DEF Next, Sender, vars

(* One-shots are neither lost, duplicated nor overtaken on their way to the *)
(* wire, for every size of the queue and every number of retries.           *)
THEOREM NoOneShotGoesMissing == SafetySpec => []OneShotsAccounted
  BY Invariance, InitAccounted, NextAccounted, PTL DEF SafetySpec

-------------------------------------------------------------------------------
(* Until close() begins the loops run. *)
OpenInv == closer = "open" => receiving

LEMMA OpenInvariance == SafetySpec => []OpenInv
<1>1. Init => OpenInv
  BY DEF Init, OpenInv
<1>2. OpenInv /\ [Next]_vars => OpenInv'
  <2> SUFFICES ASSUME OpenInv, [Next]_vars PROVE OpenInv'
    OBVIOUS
  <2>1. CASE UNCHANGED <<closer, receiving>>
    BY <2>1 DEF OpenInv
  <2>2. CASE CloseFlag \/ Close
    BY <2>2 DEF OpenInv, CloseFlag, Close, CloseNotify, CloseJoinReceiver, CloseJoinSender
  <2>3. CASE \E t \in Callers \cup Loops : PushOneShot(t) \/ PushSetpoint(t) \/ Notify(t)
    BY <2>1, <2>3 DEF PushOneShot, PushSetpoint, Push, Notify
  <2>4. CASE Sender \/ SpuriousWakeup \/ Receiver
    BY <2>1, <2>4 DEF Receiver, Sender, SenderTest, SenderCheck, SenderBlock, SenderPop,
                      SenderReport, Write, WriteSucceeds, WriteFails, SpuriousWakeup
  <2> QED
    BY <2>1, <2>2, <2>3, <2>4 DEF Next, vars
<1> QED
  BY <1>1, <1>2, PTL DEF SafetySpec

(* A push that finds room is the channel's acceptance, any other is no step *)
(* of the channel.                                                          *)
LEMMA PushImplements ==
  ASSUME IInv, OpenInv, NEW t \in Callers \cup Loops, PushOneShot(t) \/ PushSetpoint(t)
  PROVE  [Channel!Next]_(Channel!vars)
<1>1. PICK f \in Frame : Push(t, f) /\ (f = Setpoint \/ f = accepted + 1)
  <2>1. Setpoint \in Frame /\ (accepted < MaxOneShots => accepted + 1 \in Frame)
    BY TxBoundsAssumption DEF IInv, TypeOK, Setpoint, Frame
  <2> QED
    BY <2>1 DEF PushOneShot, PushSetpoint
<1>2. CASE UNCHANGED <<tx_queue, accepted>>
  BY <1>1, <1>2 DEF Push, Channel!vars
<1>3. CASE Len(tx_queue) < TxQueueSize /\ tx_queue' = Append(tx_queue, f)
           /\ accepted' = IF f = Setpoint THEN accepted ELSE f
  <2>1. Channel!Accept(f)
    BY <1>1, <1>3 DEF Push, OpenInv, Channel!Accept, Setpoint, Channel!Setpoint
  <2> QED
    BY <1>1, <2>1 DEF Channel!Next, Frame
<1> QED
  BY <1>1, <1>2, <1>3 DEF Push

(* What the sender reports settles the frame: written, or its retries used  *)
(* up.                                                                      *)
LEMMA ReportImplements ==
  ASSUME IInv, SenderReport
  PROVE  Channel!Settle
<1>1. Len(tx_frame) = 1 /\ tx_frame \in Seq(Frame)
  BY DEF IInv, TypeOK, HandInv, SenderReport
<1>2. tx_frame # <<>>
  BY <1>1
<1>3. wrote \in BOOLEAN /\ Reported \in BOOLEAN /\ (wrote \/ Reported)
  BY DEF IInv, TypeOK, HandInv, SenderReport, Reported
<1>4. CASE Head(tx_frame) = Setpoint
  BY <1>2, <1>4 DEF SenderReport, Channel!Settle, Setpoint, Channel!Setpoint
<1>5. CASE Head(tx_frame) # Setpoint
  BY <1>2, <1>3, <1>5 DEF SenderReport, Outcome, Channel!Settle, Setpoint, Channel!Setpoint
<1> QED
  BY <1>4, <1>5

LEMMA NextImplements ==
  ASSUME IInv, OpenInv, [Next]_vars
  PROVE  [Channel!Next]_(Channel!vars)
<1>1. CASE UNCHANGED <<tx_queue, tx_frame, accepted, settled, receiving>>
  BY <1>1 DEF Channel!vars
<1>2. CASE \E t \in Callers \cup Loops : PushOneShot(t) \/ PushSetpoint(t)
  BY <1>2, PushImplements
<1>3. CASE \E t \in Callers \cup Loops : Notify(t)
  BY <1>1, <1>3 DEF Notify
<1>4. CASE CloseFlag
  BY <1>4 DEF CloseFlag, OpenInv, Channel!Next, Channel!Close
<1>5. CASE Close \/ Receiver \/ SenderTest \/ SenderCheck \/ SenderBlock \/ SpuriousWakeup \/ Write
  BY <1>1, <1>5 DEF Receiver, Close, CloseNotify, CloseJoinReceiver, CloseJoinSender, SenderTest,
                    SenderCheck, SenderBlock, SpuriousWakeup, Write, WriteSucceeds, WriteFails
<1>6. CASE SenderPop
  <2>1. CASE UNCHANGED <<tx_queue, tx_frame>>
    BY <1>1, <1>6, <2>1 DEF SenderPop
  <2>2. CASE receiving /\ tx_queue # <<>> /\ tx_frame' = <<Head(tx_queue)>>
             /\ tx_queue' = Tail(tx_queue)
    <3>1. tx_frame \in Seq(Frame) /\ Len(tx_frame) = 0
      BY <1>6, NothingInHand
    <3>2. tx_frame = <<>>
      BY <3>1
    <3> QED
      BY <1>6, <2>2, <3>2 DEF SenderPop, Channel!Next, Channel!Take
  <2> QED
    BY <1>6, <2>1, <2>2 DEF SenderPop
<1>7. CASE SenderReport
  BY <1>7, ReportImplements DEF Channel!Next
<1> QED
  BY <1>1, <1>2, <1>3, <1>4, <1>5, <1>6, <1>7 DEF Next, Sender, vars

(* Threads, notifications, retries and close() implement the bounded        *)
(* channel of TxChannel, for every capacity and every number of retries;    *)
(* that the channel keeps moving is left to the model checker.              *)
THEOREM ImplementsChannelSafety == SafetySpec => Channel!SafetySpec
<1>1. Init => Channel!Init
  BY DEF Init, Channel!Init
<1> QED
  BY <1>1, Invariance, OpenInvariance, NextImplements, PTL DEF SafetySpec, Channel!SafetySpec

-------------------------------------------------------------------------------
(* Once close() has begun the loops are told to end, and stay told. *)
ClosedInv == closer # "open" => ~receiving

LEMMA ClosedInvariance == SafetySpec => []ClosedInv
<1>1. Init => ClosedInv
  BY DEF Init, ClosedInv
<1>2. ClosedInv /\ [Next]_vars => ClosedInv'
  <2> SUFFICES ASSUME ClosedInv, [Next]_vars PROVE ClosedInv'
    OBVIOUS
  <2>1. CASE UNCHANGED <<closer, receiving>>
    BY <2>1 DEF ClosedInv
  <2>2. CASE CloseFlag \/ Close
    BY <2>2 DEF ClosedInv, CloseFlag, Close, CloseNotify, CloseJoinReceiver, CloseJoinSender
  <2>3. CASE \E t \in Callers \cup Loops : PushOneShot(t) \/ PushSetpoint(t) \/ Notify(t)
    BY <2>1, <2>3 DEF PushOneShot, PushSetpoint, Push, Notify
  <2>4. CASE Sender \/ SpuriousWakeup \/ Receiver
    BY <2>1, <2>4 DEF Receiver, Sender, SenderTest, SenderCheck, SenderBlock, SenderPop,
                      SenderReport, Write, WriteSucceeds, WriteFails, SpuriousWakeup
  <2> QED
    BY <2>1, <2>2, <2>3, <2>4 DEF Next, vars
<1> QED
  BY <1>1, <1>2, PTL DEF SafetySpec

(* What each of the sender's steps leaves of those it had. *)
LEMMA CloseStep ==
  ASSUME IInv, ~receiving, sender \notin {"block", "asleep"}, Next,
         <<sender, count>>' # <<sender, count>>
  PROVE  CloseStepsLeft' < CloseStepsLeft
<1>0. /\ sender \in {"test", "check", "pop", "write", "report", "exit"}
      /\ count \in 0 .. MaxRetryCount /\ MaxRetryCount \in Nat
  BY TxBoundsAssumption DEF IInv, TypeOK
<1>1. CASE SenderTest
  BY <1>1 DEF SenderTest, CloseStepsLeft
<1>2. CASE SenderCheck
  BY <1>2 DEF SenderCheck, Awaited, CloseStepsLeft
<1>3. CASE SenderPop
  BY <1>3 DEF SenderPop, CloseStepsLeft
<1>4. CASE Write
  <2>1. sender = "write" /\ CloseStepsLeft = 3 + MaxRetryCount - count
    BY <1>4 DEF Write, WriteSucceeds, WriteFails, CloseStepsLeft
  <2>2. CASE sender' = "report"
    BY <1>0, <2>1, <2>2 DEF CloseStepsLeft
  <2>3. CASE sender' = "write" /\ count' = count + 1
    <3>1. CloseStepsLeft' = 3 + MaxRetryCount - count'
      BY <1>4, <2>3 DEF Write, WriteSucceeds, WriteFails, CloseStepsLeft
    <3> QED
      BY <1>0, <2>1, <2>3, <3>1
  <2> QED
    BY <1>4, <2>1, <2>2, <2>3 DEF Write, WriteSucceeds, WriteFails
<1>5. CASE SenderReport
  BY <1>5 DEF SenderReport, CloseStepsLeft
<1>6. CASE SenderBlock \/ SpuriousWakeup \/ Receiver \/ CloseFlag \/ Close
  BY <1>6 DEF SenderBlock, Receiver, SpuriousWakeup, CloseFlag, Close, CloseNotify,
              CloseJoinReceiver, CloseJoinSender, notify_one
<1>7. CASE \E t \in Callers \cup Loops : PushOneShot(t) \/ PushSetpoint(t) \/ Notify(t)
  BY <1>7 DEF PushOneShot, PushSetpoint, Push, Notify, notify_one
<1> QED
  BY <1>1, <1>2, <1>3, <1>4, <1>5, <1>6, <1>7 DEF Next, Sender

(* Once close() has begun the sender takes no other frame and begins no     *)
(* retries anew: every step leaves fewer, so that its join waits for one    *)
(* frame at most, whatever is queued, for every number of retries.          *)
THEOREM CloseTakesNoOtherFrame == SafetySpec => ClosesWithinFrame
<1>1. ASSUME IInv, ClosedInv, [Next]_vars
      PROVE  [closer # "open" /\ sender \notin {"block", "asleep"}
                => CloseStepsLeft' < CloseStepsLeft]_<<sender, count>>
  <2> SUFFICES ASSUME closer # "open", sender \notin {"block", "asleep"},
                      <<sender, count>>' # <<sender, count>>
               PROVE  CloseStepsLeft' < CloseStepsLeft
    OBVIOUS
  <2>1. Next /\ ~receiving
    BY <1>1 DEF vars, ClosedInv
  <2> QED
    BY <1>1, <2>1, CloseStep
<1> QED
  BY <1>1, Invariance, ClosedInvariance, PTL DEF SafetySpec, ClosesWithinFrame
===============================================================================
