--------------------------- MODULE CanBusSend_proofs ---------------------------
(***************************************************************************)
(* Proofs about CanBusSend, for any number of actuators and clients, any   *)
(* bound on the commands and any capacity of the transmit queue.           *)
(***************************************************************************)
EXTENDS CanBusSend, TLAPS

-------------------------------------------------------------------------------
(***************************************************************************)
(* Types.                                                                  *)
(***************************************************************************)
(* A client that is in a call has an actuator and a command. *)
InCall == \A c \in Clients : pc[c] # "idle" => call[c] \in [act : Actuators, cmd : Command]

TypeInv == TypeOK /\ InCall

(* The empty slot and its command are of their types.                       *)
LEMMA ZeroType == Zero \in Command /\ ZeroSlot \in CanFrame
BY BoundsAssumption DEF Zero, ZeroSlot, Command, CanFrame

(* The types hold initially.                                                *)
LEMMA TypeInit == Init => TypeInv
<1> SUFFICES ASSUME Init PROVE TypeInv
    OBVIOUS
<1>1. 0 \in 0 .. MaxStamp
  BY BoundsAssumption
<1>2. TypeOK
  BY <1>1, ZeroType, BoundsAssumption DEF Init, TypeOK
<1>3. InCall
  BY DEF Init, InCall
<1> QED
  BY <1>2, <1>3 DEF TypeInv

(* What handing a frame to the socket does to the queue. *)
LEMMA TransmitType ==
  ASSUME TypeOK, NEW f \in Frame, transmit(f)
  PROVE  /\ tx_queue' \in Seq(Frame) /\ Len(tx_queue') <= TxQueueSize
         /\ newest' \in [Actuators -> 0 .. MaxStamp]
         /\ \/ tx_queue' = tx_queue
            \/ /\ tx_queue' = Append(tx_queue, f)
               /\ Len(tx_queue') = Len(tx_queue) + 1
               /\ tx_queue'[Len(tx_queue')] = f
               /\ \A i \in 1 .. Len(tx_queue) : tx_queue'[i] = tx_queue[i]
<1>1. f.id.n \in 0 .. MaxStamp /\ f.act \in Actuators
  BY DEF Frame, Command
<1>2. newest' \in [Actuators -> 0 .. MaxStamp]
  BY <1>1 DEF TypeOK, transmit, Larger
<1>3. tx_queue' \in Seq(Frame) /\ Len(tx_queue') <= TxQueueSize
  BY BoundsAssumption DEF TypeOK, transmit
<1>4. tx_queue' = tx_queue \/ tx_queue' = Append(tx_queue, f)
  BY DEF transmit
<1> QED
  BY <1>2, <1>3, <1>4 DEF TypeOK

(* A frame made of a well-typed slot is a frame.                            *)
LEMMA OutgoingType ==
  ASSUME NEW a \in Actuators, NEW via \in {"once", "loop"}, NEW slot \in CanFrame
  PROVE  Outgoing(a, via, slot) \in Frame
BY DEF Outgoing, Frame, CanFrame

(* Entering a call keeps every type but that of stamp, which it leaves to   *)
(* its caller.                                                              *)
LEMMA EnterType ==
  ASSUME TypeInv, NEW c \in Clients, NEW a \in Actuators, NEW cmd \in Command,
         NEW at \in {"write_id", "save", "capture"}, Enter(c, a, cmd, at),
         stamp' \in [Actuators -> 0 .. MaxStamp]
  PROVE  TypeInv'
<1>1. call' \in [Clients -> [act : Actuators, cmd : Command] \cup {NoCall}]
  BY DEF TypeInv, TypeOK, Enter
<1>2. pc' \in [Clients -> {"idle", "write_id", "write_data", "save", "capture", "zero", "transmit"}]
  BY DEF TypeInv, TypeOK, Enter
<1>3. InCall'
  BY DEF TypeInv, TypeOK, Enter, InCall
<1>4. TypeOK'
  BY <1>1, <1>2 DEF TypeInv, TypeOK, Enter
<1> QED
  BY <1>3, <1>4 DEF TypeInv

(* Every step keeps the types.                                              *)
LEMMA TypeStep == TypeInv /\ [Next]_vars => TypeInv'
<1> SUFFICES ASSUME TypeInv, [Next]_vars PROVE TypeInv'
    OBVIOUS
<1> USE DEF TypeInv
<1>1. ASSUME NEW c \in Clients, NEW a \in Actuators, Begin(c, a) PROVE TypeInv'
  <2>1. ASSUME NEW kind \in {"periodic", "oneshot"}, BeginWrite(c, a, kind) PROVE TypeInv'
    <3>1. stamp[a] + 1 \in 0 .. MaxStamp
      BY <2>1, BoundsAssumption DEF BeginWrite, TypeOK
    <3>2. NewCommand(c, a, kind) \in Command
      BY <3>1 DEF NewCommand, Command
    <3>3. stamp' \in [Actuators -> 0 .. MaxStamp]
      BY <2>1, <3>1 DEF BeginWrite, TypeOK
    <3> QED
      BY <2>1, <3>2, <3>3, EnterType DEF BeginWrite
  <2>2. CASE SetPeriodic(c, a) \/ OnceWrite(c, a)
    BY <2>1, <2>2 DEF SetPeriodic, OnceWrite
  <2>3. CASE OnceSave(c, a)
    BY <2>3, ZeroType, EnterType DEF OnceSave, TypeOK
  <2>4. CASE OnceReject(c, a)
    BY <2>4, ZeroType, EnterType DEF OnceReject, TypeOK
  <2> QED
    BY <1>1, <2>2, <2>3, <2>4 DEF Begin
<1>2. ASSUME NEW c \in Clients, Continue(c) PROVE TypeInv'
  <2>1. CASE WriteId(c)
    BY <2>1 DEF WriteId, TypeOK, InCall, CanFrame
  <2>2. CASE WriteData(c)
    BY <2>2 DEF WriteData, TypeOK, InCall, CanFrame
  <2>3. CASE SaveConfig(c)
    BY <2>3, ZeroType DEF SaveConfig, TypeOK, InCall
  <2>4. CASE Capture(c)
    BY <2>4 DEF Capture, TypeOK, InCall
  <2>5. CASE ZeroAndUnlock(c)
    BY <2>5, ZeroType DEF ZeroAndUnlock, TypeOK, InCall
  <2>6. CASE TransmitOnce(c)
    <3> DEFINE f == Outgoing(call[c].act, "once", frame[c])
    <3>1. f \in Frame
      BY <2>6, OutgoingType DEF TransmitOnce, TypeOK, InCall
    <3>2. transmit(f)
      BY <2>6 DEF TransmitOnce
    <3> HIDE DEF f
    <3> QED
      BY <2>6, <3>1, <3>2, TransmitType, ZeroType DEF TransmitOnce, TypeOK, InCall
  <2> QED
    BY <1>2, <2>1, <2>2, <2>3, <2>4, <2>5, <2>6 DEF Continue
<1>3. CASE LoopLock
  BY <1>3 DEF LoopLock, TypeOK, InCall
<1>4. ASSUME NEW a \in Actuators, LoopVisit(a) PROVE TypeInv'
  <2>1. CASE send_buf[a].id = Zero
    BY <1>4, <2>1 DEF LoopVisit, TypeOK, InCall
  <2>2. CASE send_buf[a].id # Zero
    <3> DEFINE f == Outgoing(a, "loop", send_buf[a])
    <3>1. f \in Frame
      BY OutgoingType DEF TypeOK
    <3>2. transmit(f)
      BY <1>4, <2>2 DEF LoopVisit
    <3> HIDE DEF f
    <3> QED
      BY <1>4, <3>1, <3>2, TransmitType DEF LoopVisit, TypeOK, InCall
  <2> QED
    BY <2>1, <2>2
<1>5. CASE LoopUnlock
  BY <1>5 DEF LoopUnlock, TypeOK, InCall
<1>6. CASE SenderPop
  BY <1>6, BoundsAssumption DEF SenderPop, TypeOK, InCall
<1>7. CASE UNCHANGED vars
  BY <1>7 DEF vars, TypeOK, InCall
<1> QED
  BY <1>1, <1>2, <1>3, <1>4, <1>5, <1>6, <1>7 DEF Next, ControlLoop

(* Every variable of CanBusSend keeps its type, and the queue its capacity. *)
THEOREM TypeCorrect == SafetySpec => []TypeOK
<1>1. TypeInv => TypeOK
  BY DEF TypeInv
<1> QED
  BY TypeInit, TypeStep, <1>1, PTL DEF SafetySpec

-------------------------------------------------------------------------------
(***************************************************************************)
(* The inductive invariant.                                                *)
(***************************************************************************)
HoldsLock(c) == pc[c] \in {"write_id", "write_data", "save", "capture", "zero"}

(* send_mtx_ is held by the one thread that is inside a critical section. *)
LockInv ==
  /\ \A c \in Clients : HoldsLock(c) <=> send_mtx = c
  /\ loop = "scan" <=> send_mtx = Loop

(* A client's command is its own.  While it writes it, it is the newest of  *)
(* its actuator.  What SendOnce captures is what cmd_fn wrote, or, if it    *)
(* wrote nothing, a whole periodic command or zeros.                        *)
NotOneShot(slot) == slot.id = slot.data /\ slot.id.kind # "oneshot"

CallInv ==
  \A c \in Clients : LET a == call[c].act  cmd == call[c].cmd IN
    /\ cmd = Zero \/ cmd.by = c
    /\ pc[c] \in {"write_id", "write_data"} => cmd.n = stamp[a] /\ cmd.kind \in {"periodic", "oneshot"}
    /\ pc[c] = "write_data" => send_buf[a].id = cmd
    /\ pc[c] = "capture" => \/ send_buf[a] = [id |-> cmd, data |-> cmd]
                             \/ NotOneShot(send_buf[a])
    /\ pc[c] \in {"zero", "transmit"} => \/ frame[c] = [id |-> cmd, data |-> cmd]
                                          \/ NotOneShot(frame[c])

(* A slot nobody is writing is empty or holds, whole, the newest command of *)
(* its actuator, and that is a periodic one.                                *)
Writing(a) == \E c \in Clients : HoldsLock(c) /\ call[c].act = a

SlotInv ==
  \A a \in Actuators : ~Writing(a) =>
    \/ send_buf[a] = ZeroSlot
    \/ /\ send_buf[a].id = send_buf[a].data
       /\ send_buf[a].id.kind = "periodic"
       /\ send_buf[a].id.n = stamp[a]

(* Nothing is newer than the newest command. *)
Captured(c) == pc[c] \in {"zero", "transmit"}

StampInv ==
  /\ \A a \in Actuators : newest[a] <= stamp[a] /\ send_buf[a].id.n <= stamp[a]
  /\ \A c \in Clients : Captured(c) => frame[c].id.n <= stamp[call[c].act]

(* The frames in the queue are whole, those of the loop periodic, and none  *)
(* is newer than the newest handed over.                                    *)
GoodFrame(f) ==
  /\ f.id = f.data
  /\ f.via = "loop" => f.id.kind = "periodic"

QueueInv ==
  \A i \in DOMAIN tx_queue :
    GoodFrame(tx_queue[i]) /\ tx_queue[i].id.n <= newest[tx_queue[i].act]

(* While a client has a one-shot of its own in hand, no other command of    *)
(* that client to that actuator, wherever it is, is newer.                  *)
NotNewer(cmd, c) == cmd.by = c => cmd.n <= call[c].cmd.n

OneShotInHand(c) == pc[c] # "idle" /\ call[c].cmd.kind = "oneshot"

OrderInv ==
  \A c \in Clients : OneShotInHand(c) => LET a == call[c].act IN
    /\ NotNewer(send_buf[a].id, c)
    /\ \A d \in Clients : Captured(d) /\ call[d].act = a => NotNewer(frame[d].id, c)
    /\ \A i \in DOMAIN tx_queue : tx_queue[i].act = a => NotNewer(tx_queue[i].id, c)

IInv == TypeInv /\ LockInv /\ CallInv /\ SlotInv /\ StampInv /\ QueueInv /\ OrderInv /\ ProgramOrder

-------------------------------------------------------------------------------
(***************************************************************************)
(* The lock and the calls.                                                 *)
(***************************************************************************)
(* At most one thread holds send_mtx_, and the loop only while it scans.    *)
LEMMA Exclusive ==
  ASSUME LockInv, NEW c \in Clients
  PROVE  /\ send_mtx \in {Free, Loop} => ~HoldsLock(c)
         /\ HoldsLock(c) => loop # "scan"
         /\ \A d \in Clients : HoldsLock(c) /\ HoldsLock(d) => c = d
BY ThreadsAssumption DEF LockInv

(* The four kinds of call in one form. *)
EnterWrite(c, a, cmd) ==
  /\ Enter(c, a, cmd, "write_id")
  /\ cmd.kind \in {"periodic", "oneshot"} /\ cmd.n = stamp[a] + 1 /\ cmd.by = c
  /\ stamp' = [stamp EXCEPT ![a] = @ + 1]

EnterOther(c, a, cmd, at) ==
  Enter(c, a, cmd, at) /\ cmd = Zero /\ at \in {"save", "capture"} /\ UNCHANGED stamp

(* A call begins by writing a frame of its own or with nothing to write.    *)
LEMMA BeginCases ==
  ASSUME NEW c \in Clients, NEW a \in Actuators, Begin(c, a)
  PROVE  \E cmd, at : EnterWrite(c, a, cmd) \/ EnterOther(c, a, cmd, at)
<1>1. CASE SetPeriodic(c, a)
  BY <1>1 DEF SetPeriodic, BeginWrite, EnterWrite, NewCommand
<1>2. CASE OnceWrite(c, a)
  BY <1>2 DEF OnceWrite, BeginWrite, EnterWrite, NewCommand
<1>3. CASE OnceSave(c, a)
  BY <1>3 DEF OnceSave, EnterOther
<1>4. CASE OnceReject(c, a)
  BY <1>4 DEF OnceReject, EnterOther
<1> QED
  BY <1>1, <1>2, <1>3, <1>4 DEF Begin

(* Every step keeps the lock with the thread that uses it.                  *)
LEMMA LockStep == IInv /\ Next => LockInv'
<1> SUFFICES ASSUME IInv, Next PROVE LockInv'
    OBVIOUS
<1> USE DEF IInv, HoldsLock
<1>1. ASSUME NEW c \in Clients, NEW a \in Actuators, Begin(c, a) PROVE LockInv'
  BY <1>1, BeginCases, Exclusive, ThreadsAssumption
     DEF EnterWrite, EnterOther, Enter, LockInv, TypeInv, TypeOK
<1>2. ASSUME NEW c \in Clients, Continue(c) PROVE LockInv'
  <2>1. CASE WriteId(c)
    BY <2>1 DEF WriteId, LockInv, TypeInv, TypeOK
  <2>2. CASE WriteData(c)
    BY <2>2, Exclusive, ThreadsAssumption DEF WriteData, LockInv, TypeInv, TypeOK
  <2>3. CASE SaveConfig(c)
    BY <2>3 DEF SaveConfig, LockInv, TypeInv, TypeOK
  <2>4. CASE Capture(c)
    BY <2>4 DEF Capture, LockInv, TypeInv, TypeOK
  <2>5. CASE ZeroAndUnlock(c)
    BY <2>5, Exclusive, ThreadsAssumption DEF ZeroAndUnlock, LockInv, TypeInv, TypeOK
  <2>6. CASE TransmitOnce(c)
    BY <2>6 DEF TransmitOnce, LockInv, TypeInv, TypeOK
  <2> QED
    BY <1>2, <2>1, <2>2, <2>3, <2>4, <2>5, <2>6 DEF Continue
<1>3. CASE LoopLock
  BY <1>3, Exclusive, ThreadsAssumption DEF LoopLock, LockInv
<1>4. ASSUME NEW a \in Actuators, LoopVisit(a) PROVE LockInv'
  BY <1>4 DEF LoopVisit, LockInv
<1>5. CASE LoopUnlock
  BY <1>5, Exclusive, ThreadsAssumption DEF LoopUnlock, LockInv
<1>6. CASE SenderPop
  BY <1>6 DEF SenderPop, LockInv
<1> QED
  BY <1>1, <1>2, <1>3, <1>4, <1>5, <1>6 DEF Next, ControlLoop

(* Every step keeps what is known of the calls under way.                   *)
LEMMA CallStep == IInv /\ Next => CallInv'
<1> SUFFICES ASSUME IInv, Next, NEW d \in Clients PROVE CallInv!(d)'
    BY DEF CallInv
<1> USE DEF IInv
<1>1. ASSUME NEW c \in Clients, NEW a \in Actuators, Begin(c, a) PROVE CallInv!(d)'
  <2>1. PICK cmd, at : EnterWrite(c, a, cmd) \/ EnterOther(c, a, cmd, at)
    BY <1>1, BeginCases
  <2>2. ~HoldsLock(d) /\ ~HoldsLock(c)
    BY <2>1, Exclusive DEF EnterWrite, EnterOther, Enter
  <2>3. CASE d # c
    BY <2>1, <2>2, <2>3 DEF EnterWrite, EnterOther, Enter, CallInv, HoldsLock, TypeInv, TypeOK, NotOneShot
  <2>4. CASE d = c /\ EnterWrite(c, a, cmd)
    BY <2>4 DEF EnterWrite, Enter, TypeInv, TypeOK
  <2>5. CASE d = c /\ EnterOther(c, a, cmd, at)
    <3>1. NotOneShot(send_buf[a])
      BY <2>5, Exclusive DEF EnterOther, Enter, SlotInv, Writing, ZeroSlot, Zero, NotOneShot
    <3> QED
      BY <2>5, <3>1 DEF EnterOther, Enter, TypeInv, TypeOK, NotOneShot
  <2> QED
    BY <2>1, <2>3, <2>4, <2>5
<1>2. ASSUME NEW c \in Clients, Continue(c) PROVE CallInv!(d)'
  <2> USE DEF CallInv, TypeInv, TypeOK, NotOneShot
  <2>0. HoldsLock(c) /\ HoldsLock(d) => c = d
    BY Exclusive
  <2>1. CASE WriteId(c)
    BY <2>0, <2>1 DEF WriteId, HoldsLock, CanFrame, InCall
  <2>2. CASE WriteData(c)
    <3>1. CASE d # c
      BY <2>0, <2>2, <3>1 DEF WriteData, HoldsLock
    <3>2. CASE d = c /\ call[c].cmd.kind = "periodic"
      BY <2>2, <3>2 DEF WriteData, NoCall
    <3>3. CASE d = c /\ call[c].cmd.kind = "oneshot"
      <4> DEFINE a == call[c].act
      <4>1. a \in Actuators /\ send_buf[a] \in CanFrame /\ send_buf[a].id = call[c].cmd
        BY <2>2 DEF WriteData, InCall
      <4>2. send_buf'[a] = [id |-> call[c].cmd, data |-> call[c].cmd]
        BY <2>2, <4>1 DEF WriteData, CanFrame
      <4> QED
        BY <2>2, <3>3, <4>2 DEF WriteData
    <3> QED
      BY <2>2, <3>1, <3>2, <3>3 DEF WriteData
  <2>3. CASE SaveConfig(c)
    BY <2>0, <2>3 DEF SaveConfig, HoldsLock, ZeroSlot, Zero, InCall
  <2>4. CASE Capture(c)
    BY <2>0, <2>4 DEF Capture, HoldsLock
  <2>5. CASE ZeroAndUnlock(c)
    BY <2>0, <2>5 DEF ZeroAndUnlock, HoldsLock
  <2>6. CASE TransmitOnce(c)
    BY <2>6 DEF TransmitOnce, NoCall
  <2> QED
    BY <1>2, <2>1, <2>2, <2>3, <2>4, <2>5, <2>6 DEF Continue
<1>3. CASE LoopLock
  BY <1>3 DEF LoopLock, CallInv, NotOneShot
<1>4. ASSUME NEW a \in Actuators, LoopVisit(a) PROVE CallInv!(d)'
  BY <1>4 DEF LoopVisit, CallInv, NotOneShot
<1>5. CASE LoopUnlock
  BY <1>5 DEF LoopUnlock, CallInv, NotOneShot
<1>6. CASE SenderPop
  BY <1>6 DEF SenderPop, CallInv, NotOneShot
<1> QED
  BY <1>1, <1>2, <1>3, <1>4, <1>5, <1>6 DEF Next, ControlLoop

-------------------------------------------------------------------------------
(***************************************************************************)
(* The slots and the numbers of the commands.                              *)
(***************************************************************************)
(* A slot nobody is writing stays whole, and empty or periodic.             *)
LEMMA SlotStep == IInv /\ Next => SlotInv'
<1> SUFFICES ASSUME IInv, Next, NEW b \in Actuators, ~Writing(b)'
             PROVE  \/ send_buf'[b] = ZeroSlot
                    \/ /\ send_buf'[b].id = send_buf'[b].data
                       /\ send_buf'[b].id.kind = "periodic"
                       /\ send_buf'[b].id.n = stamp'[b]
    BY DEF SlotInv
<1> DEFINE Goal == \/ send_buf'[b] = ZeroSlot
                   \/ /\ send_buf'[b].id = send_buf'[b].data
                      /\ send_buf'[b].id.kind = "periodic"
                      /\ send_buf'[b].id.n = stamp'[b]
<1> USE DEF IInv, TypeInv
<1>1. ASSUME NEW c \in Clients, NEW a \in Actuators, Begin(c, a) PROVE Goal
  <2>1. PICK cmd, at : EnterWrite(c, a, cmd) \/ EnterOther(c, a, cmd, at)
    BY <1>1, BeginCases
  <2>2. ~Writing(b)
    BY <2>1, Exclusive DEF EnterWrite, EnterOther, Enter, Writing
  <2>3. a # b
    BY <2>1 DEF EnterWrite, EnterOther, Enter, Writing, HoldsLock, TypeOK
  <2> QED
    BY <2>1, <2>2, <2>3 DEF EnterWrite, EnterOther, Enter, SlotInv, TypeOK
<1>2. ASSUME NEW c \in Clients, Continue(c) PROVE Goal
  <2> USE DEF SlotInv, Writing, HoldsLock, TypeOK
  <2>1. CASE WriteId(c)
    BY <2>1 DEF WriteId
  <2>2. CASE WriteData(c)
    <3>1. CASE call[c].act = b
      <4>1. call[c].cmd.kind = "periodic"
        BY <2>2, <3>1 DEF WriteData
      <4>2. /\ send_buf[b].id = call[c].cmd
            /\ call[c].cmd.n = stamp[b]
        BY <2>2, <3>1 DEF WriteData, CallInv
      <4> QED
        BY <2>2, <3>1, <4>1, <4>2 DEF WriteData, CanFrame
    <3>2. CASE call[c].act # b
      <4>1. ~Writing(b)
        BY <2>2, <3>2 DEF WriteData
      <4> QED
        BY <2>2, <3>2, <4>1 DEF WriteData
    <3> QED
      BY <3>1, <3>2
  <2>3. CASE SaveConfig(c)
    BY <2>3 DEF SaveConfig
  <2>4. CASE Capture(c)
    BY <2>4 DEF Capture
  <2>5. CASE ZeroAndUnlock(c)
    BY <2>5 DEF ZeroAndUnlock
  <2>6. CASE TransmitOnce(c)
    BY <2>6 DEF TransmitOnce
  <2> QED
    BY <1>2, <2>1, <2>2, <2>3, <2>4, <2>5, <2>6 DEF Continue
<1>3. CASE LoopLock
  BY <1>3 DEF LoopLock, SlotInv, Writing, HoldsLock
<1>4. ASSUME NEW a \in Actuators, LoopVisit(a) PROVE Goal
  BY <1>4 DEF LoopVisit, SlotInv, Writing, HoldsLock
<1>5. CASE LoopUnlock
  BY <1>5 DEF LoopUnlock, SlotInv, Writing, HoldsLock
<1>6. CASE SenderPop
  BY <1>6 DEF SenderPop, SlotInv, Writing, HoldsLock
<1> QED
  BY <1>1, <1>2, <1>3, <1>4, <1>5, <1>6 DEF Next, ControlLoop

(* A slot that the loop visits holds a whole periodic command, the newest.  *)
LEMMA VisitedSlot ==
  ASSUME IInv, NEW a \in Actuators, LoopVisit(a), send_buf[a].id # Zero
  PROVE  /\ send_buf[a].id = send_buf[a].data
         /\ send_buf[a].id.kind = "periodic"
         /\ send_buf[a].id.n = stamp[a]
BY Exclusive DEF LoopVisit, IInv, LockInv, SlotInv, Writing, ZeroSlot

(* No command is numbered higher than the last one given.                   *)
LEMMA StampStep == IInv /\ Next => StampInv'
<1> SUFFICES ASSUME IInv, Next PROVE StampInv'
    OBVIOUS
<1> USE DEF IInv, TypeInv, StampInv
<1>0. TypeInv'
  BY TypeStep
<1>1. ASSUME NEW c \in Clients, NEW a \in Actuators, Begin(c, a) PROVE StampInv'
  <2>1. PICK cmd, at : EnterWrite(c, a, cmd) \/ EnterOther(c, a, cmd, at)
    BY <1>1, BeginCases
  <2>2. ASSUME NEW b \in Actuators PROVE stamp[b] <= stamp'[b]
    <3>1. stamp[b] \in Nat
      BY DEF TypeOK
    <3>2. stamp' = stamp \/ stamp' = [stamp EXCEPT ![a] = stamp[a] + 1]
      BY <2>1 DEF EnterWrite, EnterOther
    <3>3. stamp'[b] \in {stamp[b], stamp[b] + 1}
      BY <3>2 DEF TypeOK
    <3> QED
      BY <3>1, <3>3
  <2>3. UNCHANGED <<newest, send_buf, frame>>
    BY <2>1 DEF EnterWrite, EnterOther, Enter
  <2>4. \A b \in Actuators : newest'[b] <= stamp'[b] /\ send_buf'[b].id.n <= stamp'[b]
    BY <1>0, <2>2, <2>3 DEF TypeOK, CanFrame, Command
  <2>5. ASSUME NEW d \in Clients, Captured(d)' PROVE frame'[d].id.n <= stamp'[call'[d].act]
    <3>1. Captured(d) /\ call'[d] = call[d] /\ call[d].act \in Actuators
      BY <2>1, <2>5 DEF EnterWrite, EnterOther, Enter, Captured, TypeOK, InCall
    <3> QED
      BY <1>0, <2>2, <2>3, <3>1 DEF TypeOK, CanFrame, Command
  <2> QED
    BY <2>4, <2>5
<1>2. ASSUME NEW c \in Clients, Continue(c) PROVE StampInv'
  <2>1. CASE WriteId(c)
    <3>0. call[c].cmd.n = stamp[call[c].act]
      BY <2>1 DEF WriteId, CallInv
    <3>1. call[c].act \in Actuators /\ stamp[call[c].act] \in Nat
      BY <2>1 DEF WriteId, InCall, TypeOK
    <3>2. ASSUME NEW b \in Actuators
          PROVE  send_buf'[b].id = IF b = call[c].act THEN call[c].cmd ELSE send_buf[b].id
      BY <2>1 DEF WriteId, TypeOK, CanFrame
    <3> QED
      BY <2>1, <3>0, <3>1, <3>2 DEF WriteId, TypeOK, Captured
  <2>2. CASE WriteData(c)
    <3>1. ASSUME NEW b \in Actuators PROVE send_buf'[b].id = send_buf[b].id
      BY <2>2 DEF WriteData, TypeOK, CanFrame
    <3>2. ASSUME NEW d \in Clients, Captured(d)' PROVE Captured(d) /\ call'[d] = call[d]
      BY <2>2, <3>2 DEF WriteData, TypeOK, Captured
    <3> QED
      BY <2>2, <3>1, <3>2 DEF WriteData
  <2>3. CASE SaveConfig(c)
    BY <2>3 DEF SaveConfig, TypeOK, ZeroSlot, Zero, Captured
  <2>4. CASE Capture(c)
    BY <2>4 DEF Capture, TypeOK, Captured, InCall
  <2>5. CASE ZeroAndUnlock(c)
    BY <2>5 DEF ZeroAndUnlock, TypeOK, ZeroSlot, Zero, Captured
  <2>6. CASE TransmitOnce(c)
    <3>1. frame[c].id.n <= stamp[call[c].act]
      BY <2>6 DEF TransmitOnce, Captured
    <3>2. newest' = [newest EXCEPT ![call[c].act] = Larger(@, frame[c].id.n)]
      BY <2>6 DEF TransmitOnce, transmit, Outgoing
    <3> QED
      BY <2>6, <3>1, <3>2 DEF TransmitOnce, TypeOK, Captured, Larger
  <2> QED
    BY <1>2, <2>1, <2>2, <2>3, <2>4, <2>5, <2>6 DEF Continue
<1>3. CASE LoopLock
  BY <1>3 DEF LoopLock, Captured
<1>4. ASSUME NEW a \in Actuators, LoopVisit(a) PROVE StampInv'
  <2>1. newest' = newest \/ newest' = [newest EXCEPT ![a] = Larger(@, send_buf[a].id.n)]
    BY <1>4 DEF LoopVisit, transmit, Outgoing
  <2> QED
    BY <1>4, <2>1 DEF LoopVisit, TypeOK, Captured, Larger
<1>5. CASE LoopUnlock
  BY <1>5 DEF LoopUnlock, Captured
<1>6. CASE SenderPop
  BY <1>6 DEF SenderPop, Captured
<1> QED
  BY <1>1, <1>2, <1>3, <1>4, <1>5, <1>6 DEF Next, ControlLoop

(* A frame that SendOnce has captured is whole, and a one-shot is the       *)
(* caller's own.                                                            *)
LEMMA CapturedFrame ==
  ASSUME CallInv, NEW c \in Clients, Captured(c)
  PROVE  /\ frame[c].id = frame[c].data
         /\ frame[c].id.kind = "oneshot" => frame[c].id = call[c].cmd /\ call[c].cmd.by = c
<1>1. \/ frame[c] = [id |-> call[c].cmd, data |-> call[c].cmd]
      \/ NotOneShot(frame[c])
  BY DEF CallInv, Captured
<1>2. CASE frame[c] = [id |-> call[c].cmd, data |-> call[c].cmd]
  <2>1. frame[c].id = call[c].cmd /\ frame[c].data = call[c].cmd
    BY <1>2
  <2>2. call[c].cmd.kind = "oneshot" => call[c].cmd.by = c
    <3>1. call[c].cmd = Zero \/ call[c].cmd.by = c
      BY DEF CallInv
    <3>2. Zero.kind # "oneshot"
      BY DEF Zero
    <3> QED
      BY <3>1, <3>2
  <2> QED
    BY <2>1, <2>2
<1>3. CASE NotOneShot(frame[c])
  BY <1>3 DEF NotOneShot
<1> QED
  BY <1>1, <1>2, <1>3

-------------------------------------------------------------------------------
(***************************************************************************)
(* The queue.                                                              *)
(***************************************************************************)
(* The frames behind the first are frames of the queue, in its order.       *)
LEMMA TailElements ==
  ASSUME NEW S, NEW q \in Seq(S), q # <<>>
  PROVE  /\ Tail(q) \in Seq(S) /\ Len(Tail(q)) = Len(q) - 1
         /\ \A i \in 1 .. Len(Tail(q)) : i + 1 \in 1 .. Len(q) /\ Tail(q)[i] = q[i + 1]
OBVIOUS

(* The frames of the queue stay whole, and those of the loop periodic.      *)
LEMMA QueueStep == IInv /\ Next => QueueInv'
<1> SUFFICES ASSUME IInv, Next PROVE QueueInv'
    OBVIOUS
<1> USE DEF IInv, TypeInv
<1>1. ASSUME UNCHANGED <<tx_queue, newest>> PROVE QueueInv'
  BY <1>1 DEF QueueInv
(* A good frame may be handed over whatever its age. *)
<1>2. ASSUME NEW f \in Frame, GoodFrame(f), transmit(f) PROVE QueueInv'
  <2>1. newest' = [newest EXCEPT ![f.act] = Larger(@, f.id.n)]
    BY <1>2 DEF transmit
  <2>2. f.act \in Actuators /\ f.id.n \in Nat
    BY DEF Frame, Command
  <2>3. newest'[f.act] >= f.id.n /\ \A a \in Actuators : newest'[a] >= newest[a] /\ newest'[a] \in Nat
    BY <2>1, <2>2 DEF TypeOK, Larger
  <2>4. ASSUME NEW i \in 1 .. Len(tx_queue) PROVE
          /\ tx_queue[i].act \in Actuators /\ tx_queue[i].id.n \in Nat
          /\ GoodFrame(tx_queue[i]) /\ tx_queue[i].id.n <= newest'[tx_queue[i].act]
    <3>1. tx_queue[i] \in Frame
      BY DEF TypeOK
    <3>2. tx_queue[i].act \in Actuators /\ tx_queue[i].id.n \in Nat
      BY <3>1 DEF Frame, Command
    <3>3. GoodFrame(tx_queue[i]) /\ tx_queue[i].id.n <= newest[tx_queue[i].act]
      BY DEF QueueInv, TypeOK
    <3> QED
      BY <2>3, <3>2, <3>3 DEF TypeOK
  <2>5. CASE tx_queue' = tx_queue
    BY <2>4, <2>5 DEF QueueInv, TypeOK
  <2>6. CASE tx_queue' # tx_queue
    <3>1. /\ tx_queue' \in Seq(Frame)
          /\ Len(tx_queue') = Len(tx_queue) + 1
          /\ tx_queue'[Len(tx_queue')] = f
          /\ \A i \in 1 .. Len(tx_queue) : tx_queue'[i] = tx_queue[i]
      BY <1>2, <2>6, TransmitType
    <3>2. \A i \in DOMAIN tx_queue' : i \in 1 .. Len(tx_queue) \/ i = Len(tx_queue')
      BY <3>1 DEF TypeOK
    <3> QED
      BY <1>2, <2>3, <2>4, <3>1, <3>2 DEF QueueInv
  <2> QED
    BY <2>5, <2>6
<1>3. ASSUME NEW c \in Clients, NEW a \in Actuators, Begin(c, a) PROVE QueueInv'
  BY <1>1, <1>3, BeginCases DEF EnterWrite, EnterOther, Enter
<1>4. ASSUME NEW c \in Clients, Continue(c) PROVE QueueInv'
  <2>1. CASE TransmitOnce(c)
    <3> DEFINE f == Outgoing(call[c].act, "once", frame[c])
    <3>1. f \in Frame /\ transmit(f)
      BY <2>1, OutgoingType DEF TransmitOnce, TypeOK, InCall
    <3>2. frame[c].id = frame[c].data
      BY <2>1, CapturedFrame DEF TransmitOnce, Captured
    <3>3. GoodFrame(f)
      BY <3>2 DEF GoodFrame, Outgoing
    <3> QED
      BY <1>2, <3>1, <3>3
  <2>2. CASE ~TransmitOnce(c)
    BY <1>1, <1>4, <2>2 DEF Continue, WriteId, WriteData, SaveConfig, Capture, ZeroAndUnlock
  <2> QED
    BY <2>1, <2>2
<1>5. CASE LoopLock \/ LoopUnlock
  BY <1>1, <1>5 DEF LoopLock, LoopUnlock
<1>6. ASSUME NEW a \in Actuators, LoopVisit(a) PROVE QueueInv'
  <2>1. CASE send_buf[a].id = Zero
    BY <1>1, <1>6, <2>1 DEF LoopVisit
  <2>2. CASE send_buf[a].id # Zero
    <3> DEFINE f == Outgoing(a, "loop", send_buf[a])
    <3>1. f \in Frame /\ transmit(f)
      BY <1>6, <2>2, OutgoingType DEF LoopVisit, TypeOK
    <3>2. GoodFrame(f)
      BY <1>6, <2>2, VisitedSlot DEF GoodFrame, Outgoing
    <3> QED
      BY <1>2, <3>1, <3>2
  <2> QED
    BY <2>1, <2>2
<1>7. CASE SenderPop
  <2>1. tx_queue \in Seq(Frame) /\ tx_queue # <<>> /\ tx_queue' = Tail(tx_queue) /\ newest' = newest
    BY <1>7 DEF SenderPop, TypeOK
  <2>2. \A i \in DOMAIN tx_queue' : i + 1 \in DOMAIN tx_queue /\ tx_queue'[i] = tx_queue[i + 1]
    BY <2>1, TailElements
  <2> QED
    BY <2>1, <2>2 DEF QueueInv
<1> QED
  BY <1>3, <1>4, <1>5, <1>6, <1>7 DEF Next, ControlLoop

-------------------------------------------------------------------------------
(***************************************************************************)
(* The order of a client's commands.                                       *)
(***************************************************************************)
(* What OrderInv says of client d and of the actuator a of its one-shot.    *)
OrderOf(d, a) ==
  /\ NotNewer(send_buf[a].id, d)
  /\ \A e \in Clients : Captured(e) /\ call[e].act = a => NotNewer(frame[e].id, d)
  /\ \A i \in DOMAIN tx_queue : tx_queue[i].act = a => NotNewer(tx_queue[i].id, d)

(* OrderInv, stated for one client at a time.                               *)
LEMMA OrderInvOf == OrderInv <=> \A d \in Clients : OneShotInHand(d) => OrderOf(d, call[d].act)
BY DEF OrderInv, OrderOf

(* A frame of cmd is handed over: it joins the queue, or is refused.        *)
LEMMA TransmitOrder ==
  ASSUME IInv, NEW d \in Clients, NEW a \in Actuators, OrderOf(d, a), NEW f \in Frame,
         transmit(f), f.act = a => NotNewer(f.id, d)
  PROVE  \A i \in DOMAIN tx_queue' : tx_queue'[i].act = a => NotNewer(tx_queue'[i].id, d)
<1>1. CASE tx_queue' = tx_queue
  BY <1>1 DEF OrderOf, NotNewer
<1>2. CASE tx_queue' # tx_queue
  <2>1. /\ tx_queue' \in Seq(Frame) /\ tx_queue \in Seq(Frame)
        /\ Len(tx_queue') = Len(tx_queue) + 1
        /\ tx_queue'[Len(tx_queue')] = f
        /\ \A i \in 1 .. Len(tx_queue) : tx_queue'[i] = tx_queue[i]
    BY <1>2, TransmitType DEF IInv, TypeInv, TypeOK
  <2>2. \A i \in DOMAIN tx_queue' : i \in 1 .. Len(tx_queue) \/ i = Len(tx_queue')
    BY <2>1
  <2> QED
    BY <2>1, <2>2 DEF OrderOf, NotNewer
<1> QED
  BY <1>1, <1>2

(* A step that keeps d's call keeps its order if whatever it puts into the  *)
(* slot or captures is not newer, and it hands over nothing.                *)
LEMMA OrderKept ==
  ASSUME NEW d, NEW a, OrderOf(d, a), call'[d] = call[d], call[d].act = a,
         NotNewer(send_buf'[a].id, d),
         \A e \in Clients : Captured(e)' /\ call'[e].act = a => NotNewer(frame'[e].id, d),
         \A i \in DOMAIN tx_queue' : tx_queue'[i].act = a => NotNewer(tx_queue'[i].id, d)
  PROVE  OrderOf(d, call[d].act)'
<1>1. NotNewer(send_buf[a].id, d)'
  BY DEF NotNewer
<1>2. (\A e \in Clients : Captured(e) /\ call[e].act = a => NotNewer(frame[e].id, d))'
  BY DEF NotNewer
<1>3. (\A i \in DOMAIN tx_queue : tx_queue[i].act = a => NotNewer(tx_queue[i].id, d))'
  BY DEF NotNewer
<1> QED
  BY <1>1, <1>2, <1>3 DEF OrderOf

(* A one-shot in hand stays the newest of its client for its actuator.      *)
LEMMA OrderStep == IInv /\ Next => OrderInv'
<1> SUFFICES ASSUME IInv, Next, NEW d \in Clients, OneShotInHand(d)'
             PROVE  OrderOf(d, call[d].act)'
    BY DEF OrderInv, OrderOf
<1> DEFINE a == call[d].act
<1> USE DEF IInv, TypeInv
<1>0. ASSUME OneShotInHand(d)
      PROVE  /\ OrderOf(d, a) /\ a \in Actuators /\ call[d].cmd.n \in Nat
             /\ NotNewer(Zero, d) /\ \A c \in Clients : NotNewer(call[c].cmd, d)
  <2>1. OrderOf(d, a) /\ a \in Actuators /\ call[d].cmd.n \in Nat
    BY <1>0, OrderInvOf DEF OneShotInHand, InCall, Command
  <2>2. NotNewer(Zero, d)
    BY <2>1, ThreadsAssumption DEF NotNewer, Zero
  <2>3. ASSUME NEW c \in Clients PROVE NotNewer(call[c].cmd, d)
    <3>1. call[c].cmd = Zero \/ call[c].cmd.by = c
      BY DEF CallInv
    <3> QED
      BY <2>1, <2>2, <3>1 DEF NotNewer
  <2> QED
    BY <2>1, <2>2, <2>3
<1>1. ASSUME NEW c \in Clients, NEW b \in Actuators, Begin(c, b) PROVE OrderOf(d, a)'
  <2>1. PICK cmd, at : EnterWrite(c, b, cmd) \/ EnterOther(c, b, cmd, at)
    BY <1>1, BeginCases
  <2>2. UNCHANGED <<send_buf, frame, tx_queue, newest>>
    BY <2>1 DEF EnterWrite, EnterOther, Enter
  <2>3. ASSUME NEW e \in Clients, Captured(e)' PROVE Captured(e) /\ call'[e] = call[e]
    BY <2>1, <2>3 DEF EnterWrite, EnterOther, Enter, Captured, TypeOK
  <2>4. CASE d # c
    <3>1. OneShotInHand(d) /\ call'[d] = call[d]
      BY <2>1, <2>4 DEF EnterWrite, EnterOther, Enter, OneShotInHand, TypeOK
    <3>2. OrderOf(d, a)
      BY <1>0, <3>1
    <3> QED
      BY <2>2, <2>3, <3>1, <3>2, OrderKept DEF OrderOf
  <2>5. CASE d = c
    <3>1. call'[d].act = b /\ call'[d].cmd.n = stamp[b] + 1
      BY <2>1, <2>5 DEF EnterWrite, EnterOther, Enter, OneShotInHand, TypeOK, Zero
    <3>2. stamp[b] \in Nat /\ newest[b] \in Nat /\ newest[b] <= stamp[b]
      BY DEF TypeOK, StampInv
    <3>3. NotNewer(send_buf[b].id, d)'
      BY <2>2, <3>1, <3>2 DEF NotNewer, StampInv, TypeOK, CanFrame, Command
    <3>4. ASSUME NEW e \in Clients, Captured(e)', call'[e].act = b
          PROVE  NotNewer(frame[e].id, d)'
      <4>1. frame[e].id.n <= stamp[b] /\ frame[e].id.n \in Nat
        BY <2>3, <3>4 DEF StampInv, TypeOK, CanFrame, Command
      <4> QED
        BY <2>2, <3>1, <3>2, <4>1 DEF NotNewer
    <3>5. ASSUME NEW i \in DOMAIN tx_queue, tx_queue[i].act = b
          PROVE  NotNewer(tx_queue[i].id, d)'
      <4>1. tx_queue[i] \in Frame
        BY DEF TypeOK
      <4>2. tx_queue[i].id.n <= newest[b] /\ tx_queue[i].id.n \in Nat
        BY <3>5, <4>1 DEF QueueInv, Frame, Command
      <4> QED
        BY <2>2, <3>1, <3>2, <4>2 DEF NotNewer
    <3> QED
      BY <2>2, <3>1, <3>3, <3>4, <3>5 DEF OrderOf
  <2> QED
    BY <2>4, <2>5
<1>2. ASSUME NEW c \in Clients, Continue(c) PROVE OrderOf(d, a)'
  <2> USE DEF OneShotInHand
  <2>1. CASE WriteId(c)
    <3>1. OneShotInHand(d) /\ call' = call /\ UNCHANGED <<frame, tx_queue>>
      BY <2>1 DEF WriteId, TypeOK
    <3>2. \A e \in Clients : Captured(e)' => Captured(e)
      BY <2>1 DEF WriteId, TypeOK, Captured
    <3>3. send_buf'[a].id \in {send_buf[a].id, call[c].cmd}
      BY <2>1, <1>0, <3>1 DEF WriteId, TypeOK, CanFrame
    <3> QED
      BY <1>0, <3>1, <3>2, <3>3, OrderKept DEF OrderOf
  <2>2. CASE WriteData(c)
    <3>1. OneShotInHand(d) /\ call'[d] = call[d] /\ UNCHANGED <<frame, tx_queue>>
      BY <2>2 DEF WriteData, TypeOK, NoCall, Zero
    <3>2. \A e \in Clients : Captured(e)' => Captured(e) /\ call'[e] = call[e]
      BY <2>2 DEF WriteData, TypeOK, Captured
    <3>3. send_buf'[a].id = send_buf[a].id
      BY <2>2, <1>0, <3>1 DEF WriteData, TypeOK, CanFrame
    <3> QED
      BY <1>0, <3>1, <3>2, <3>3, OrderKept DEF OrderOf
  <2>3. CASE SaveConfig(c)
    <3>1. OneShotInHand(d) /\ call' = call /\ UNCHANGED <<frame, tx_queue>>
      BY <2>3 DEF SaveConfig, TypeOK
    <3>2. \A e \in Clients : Captured(e)' => Captured(e)
      BY <2>3 DEF SaveConfig, TypeOK, Captured
    <3>3. send_buf'[a].id \in {send_buf[a].id, Zero}
      BY <2>3, <1>0, <3>1 DEF SaveConfig, TypeOK, ZeroSlot
    <3> QED
      BY <1>0, <3>1, <3>2, <3>3, OrderKept DEF OrderOf
  <2>4. CASE Capture(c)
    <3>1. OneShotInHand(d) /\ call' = call /\ UNCHANGED <<send_buf, tx_queue>>
      BY <2>4 DEF Capture, TypeOK
    <3>2. ASSUME NEW e \in Clients, Captured(e)', call[e].act = a
          PROVE  (Captured(e) /\ frame'[e] = frame[e]) \/ frame'[e] = send_buf[a]
      BY <2>4, <3>2 DEF Capture, TypeOK, Captured
    <3> QED
      BY <1>0, <3>1, <3>2, OrderKept DEF OrderOf
  <2>5. CASE ZeroAndUnlock(c)
    <3>1. OneShotInHand(d) /\ call' = call /\ UNCHANGED <<frame, tx_queue>>
      BY <2>5 DEF ZeroAndUnlock, TypeOK
    <3>2. \A e \in Clients : Captured(e)' => Captured(e)
      BY <2>5 DEF ZeroAndUnlock, TypeOK, Captured
    <3>3. send_buf'[a].id \in {send_buf[a].id, Zero}
      BY <2>5, <1>0, <3>1 DEF ZeroAndUnlock, TypeOK, ZeroSlot
    <3> QED
      BY <1>0, <3>1, <3>2, <3>3, OrderKept DEF OrderOf
  <2>6. CASE TransmitOnce(c)
    <3> DEFINE f == Outgoing(call[c].act, "once", frame[c])
    <3>1. OneShotInHand(d) /\ call'[d] = call[d] /\ send_buf' = send_buf
      BY <2>6 DEF TransmitOnce, TypeOK, NoCall, Zero
    <3>2. \A e \in Clients : Captured(e)' => Captured(e) /\ call'[e] = call[e] /\ frame'[e] = frame[e]
      BY <2>6 DEF TransmitOnce, TypeOK, Captured
    <3>3. f \in Frame /\ transmit(f)
      BY <2>6, OutgoingType DEF TransmitOnce, TypeOK, InCall
    <3>4. f.act = a => NotNewer(f.id, d)
      BY <1>0, <2>6, <3>1 DEF TransmitOnce, Captured, Outgoing, OrderOf
    <3> HIDE DEF f
    <3>5. \A i \in DOMAIN tx_queue' : tx_queue'[i].act = a => NotNewer(tx_queue'[i].id, d)
      BY <1>0, <3>1, <3>3, <3>4, TransmitOrder
    <3> QED
      BY <1>0, <3>1, <3>2, <3>5, OrderKept DEF OrderOf
  <2> QED
    BY <1>2, <2>1, <2>2, <2>3, <2>4, <2>5, <2>6 DEF Continue
<1>3. ASSUME OneShotInHand(d), UNCHANGED <<send_buf, pc, call, frame>>,
             \A i \in DOMAIN tx_queue' : tx_queue'[i].act = a => NotNewer(tx_queue'[i].id, d)
      PROVE  OrderOf(d, a)'
  BY <1>0, <1>3, OrderKept DEF OrderOf, Captured
<1>4. CASE LoopLock \/ LoopUnlock
  <2>1. OneShotInHand(d) /\ UNCHANGED <<send_buf, pc, call, frame, tx_queue>>
    BY <1>4 DEF LoopLock, LoopUnlock, OneShotInHand
  <2> QED
    BY <1>0, <1>3, <2>1 DEF OrderOf
<1>5. ASSUME NEW b \in Actuators, LoopVisit(b) PROVE OrderOf(d, a)'
  <2>1. OneShotInHand(d) /\ UNCHANGED <<send_buf, pc, call, frame>>
    BY <1>5 DEF LoopVisit, OneShotInHand
  <2>2. CASE send_buf[b].id = Zero
    BY <1>0, <1>3, <1>5, <2>1, <2>2 DEF LoopVisit, OrderOf
  <2>3. CASE send_buf[b].id # Zero
    <3> DEFINE f == Outgoing(b, "loop", send_buf[b])
    <3>1. f \in Frame /\ transmit(f)
      BY <1>5, <2>3, OutgoingType DEF LoopVisit, TypeOK
    <3>2. f.act = a => NotNewer(f.id, d)
      BY <1>0, <2>1 DEF Outgoing, OrderOf
    <3> HIDE DEF f
    <3> QED
      BY <1>0, <1>3, <2>1, <3>1, <3>2, TransmitOrder
  <2> QED
    BY <2>2, <2>3
<1>6. CASE SenderPop
  <2>1. OneShotInHand(d) /\ UNCHANGED <<send_buf, pc, call, frame>>
    BY <1>6 DEF SenderPop, OneShotInHand
  <2>2. tx_queue \in Seq(Frame) /\ tx_queue # <<>> /\ tx_queue' = Tail(tx_queue)
    BY <1>6 DEF SenderPop, TypeOK
  <2>3. \A i \in DOMAIN tx_queue' : i + 1 \in DOMAIN tx_queue /\ tx_queue'[i] = tx_queue[i + 1]
    BY <2>2, TailElements
  <2> QED
    BY <1>0, <1>3, <2>1, <2>3 DEF OrderOf
<1> QED
  BY <1>1, <1>2, <1>4, <1>5, <1>6 DEF Next, ControlLoop

(* A frame handed over keeps the order of the queue if it is not one of a   *)
(* client's own, or no frame of that client to the actuator is newer.       *)
LEMMA TransmitProgramOrder ==
  ASSUME TypeInv, ProgramOrder, NEW f \in Frame, transmit(f),
         OwnFrame(f) => \A i \in DOMAIN tx_queue :
           tx_queue[i].act = f.act /\ tx_queue[i].id.by = f.id.by => tx_queue[i].id.n <= f.id.n
  PROVE  ProgramOrder'
<1>1. CASE tx_queue' = tx_queue
  BY <1>1 DEF ProgramOrder
<1>2. CASE tx_queue' # tx_queue
  <2>1. /\ tx_queue' \in Seq(Frame) /\ tx_queue \in Seq(Frame)
        /\ Len(tx_queue') = Len(tx_queue) + 1
        /\ tx_queue'[Len(tx_queue')] = f
        /\ \A i \in 1 .. Len(tx_queue) : tx_queue'[i] = tx_queue[i]
    BY <1>2, TransmitType DEF TypeInv, TypeOK
  <2>2. SUFFICES ASSUME NEW i \in DOMAIN tx_queue', NEW j \in DOMAIN tx_queue', i < j,
                        tx_queue'[i].act = tx_queue'[j].act,
                        tx_queue'[i].id.by = tx_queue'[j].id.by,
                        OwnFrame(tx_queue'[j])
                 PROVE  tx_queue'[i].id.n <= tx_queue'[j].id.n
    BY DEF ProgramOrder, OwnFrame
  <2>3. i \in DOMAIN tx_queue
    BY <2>1, <2>2
  <2>4. CASE j \in DOMAIN tx_queue
    BY <2>1, <2>2, <2>3, <2>4 DEF ProgramOrder
  <2>5. CASE j = Len(tx_queue')
    BY <2>1, <2>2, <2>3, <2>5
  <2> QED
    BY <2>1, <2>4, <2>5
<1> QED
  BY <1>1, <1>2

(* The queue keeps each client's frames in the order of its calls.          *)
LEMMA ProgramOrderStep == IInv /\ Next => ProgramOrder'
<1> SUFFICES ASSUME IInv, Next PROVE ProgramOrder'
    OBVIOUS
<1> USE DEF IInv, TypeInv
<1>1. ASSUME UNCHANGED tx_queue PROVE ProgramOrder'
  BY <1>1 DEF ProgramOrder
<1>2. ASSUME NEW c \in Clients, NEW a \in Actuators, Begin(c, a) PROVE ProgramOrder'
  BY <1>1, <1>2, BeginCases DEF EnterWrite, EnterOther, Enter
<1>3. ASSUME NEW c \in Clients, TransmitOnce(c) PROVE ProgramOrder'
  <2> DEFINE f == Outgoing(call[c].act, "once", frame[c])
  <2>1. f \in Frame /\ transmit(f)
    BY <1>3, OutgoingType DEF TransmitOnce, TypeOK, InCall
  <2>2. ASSUME OwnFrame(f), NEW i \in DOMAIN tx_queue,
               tx_queue[i].act = f.act, tx_queue[i].id.by = f.id.by
        PROVE  tx_queue[i].id.n <= f.id.n
    <3>1. frame[c].id = call[c].cmd /\ call[c].cmd.by = c /\ call[c].cmd.kind = "oneshot"
      BY <1>3, <2>2, CapturedFrame DEF TransmitOnce, Captured, OwnFrame, Outgoing
    <3>2. OneShotInHand(c)
      BY <1>3, <3>1 DEF TransmitOnce, OneShotInHand
    <3>3. NotNewer(tx_queue[i].id, c)
      BY <2>2, <3>2 DEF OrderInv, Outgoing
    <3> QED
      BY <2>2, <3>1, <3>3 DEF NotNewer, Outgoing
  <2> HIDE DEF f
  <2> QED
    BY <2>1, <2>2, TransmitProgramOrder
<1>4. ASSUME NEW c \in Clients, Continue(c) PROVE ProgramOrder'
  BY <1>1, <1>3, <1>4 DEF Continue, WriteId, WriteData, SaveConfig, Capture, ZeroAndUnlock
<1>5. CASE LoopLock \/ LoopUnlock
  BY <1>1, <1>5 DEF LoopLock, LoopUnlock
<1>6. ASSUME NEW a \in Actuators, LoopVisit(a) PROVE ProgramOrder'
  <2>1. CASE send_buf[a].id = Zero
    BY <1>1, <1>6, <2>1 DEF LoopVisit
  <2>2. CASE send_buf[a].id # Zero
    <3> DEFINE f == Outgoing(a, "loop", send_buf[a])
    <3>1. f \in Frame /\ transmit(f)
      BY <1>6, <2>2, OutgoingType DEF LoopVisit, TypeOK
    <3>2. ASSUME NEW i \in DOMAIN tx_queue, tx_queue[i].act = f.act
          PROVE  tx_queue[i].id.n <= f.id.n
      <4>1. f.id.n = stamp[a] /\ f.act = a
        BY <1>6, <2>2, VisitedSlot DEF Outgoing
      <4>2. tx_queue[i] \in Frame
        BY DEF TypeOK
      <4>3. tx_queue[i].id.n <= newest[a] /\ tx_queue[i].id.n \in Nat
        BY <3>2, <4>1, <4>2 DEF QueueInv, Frame, Command
      <4>4. newest[a] <= stamp[a] /\ newest[a] \in Nat /\ stamp[a] \in Nat
        BY DEF StampInv, TypeOK
      <4> QED
        BY <4>1, <4>3, <4>4
    <3> HIDE DEF f
    <3> QED
      BY <3>1, <3>2, TransmitProgramOrder
  <2> QED
    BY <2>1, <2>2
<1>7. CASE SenderPop
  <2>1. tx_queue \in Seq(Frame) /\ tx_queue # <<>> /\ tx_queue' = Tail(tx_queue)
    BY <1>7 DEF SenderPop, TypeOK
  <2>2. \A i \in DOMAIN tx_queue' : /\ i \in Nat /\ i + 1 \in DOMAIN tx_queue
                                   /\ tx_queue'[i] = tx_queue[i + 1]
    BY <2>1, TailElements
  <2> QED
    BY <2>2 DEF ProgramOrder, OwnFrame
<1> QED
  BY <1>2, <1>4, <1>5, <1>6, <1>7 DEF Next, ControlLoop

-------------------------------------------------------------------------------
(***************************************************************************)
(* The invariant, and what follows from it.                                *)
(***************************************************************************)
(* The invariant holds initially.                                           *)
LEMMA InvInit == Init => IInv
<1> SUFFICES ASSUME Init PROVE IInv
    OBVIOUS
<1>1. TypeInv
  BY TypeInit
<1>2. LockInv
  BY ThreadsAssumption DEF Init, LockInv, HoldsLock
<1>3. CallInv
  BY DEF Init, CallInv, NoCall
<1>4. SlotInv /\ StampInv
  BY DEF Init, SlotInv, StampInv, ZeroSlot, Zero, Captured
<1>5. QueueInv /\ ProgramOrder
  BY DEF Init, QueueInv, ProgramOrder
<1>6. OrderInv
  BY DEF Init, OrderInv, OneShotInHand
<1> QED
  BY <1>1, <1>2, <1>3, <1>4, <1>5, <1>6 DEF IInv

(* Every step keeps the invariant.                                          *)
LEMMA InvStep == IInv /\ [Next]_vars => IInv'
<1>1. IInv /\ Next => IInv'
  BY TypeStep, LockStep, CallStep, SlotStep, StampStep, QueueStep, OrderStep, ProgramOrderStep
     DEF IInv
<1>2. ASSUME IInv, UNCHANGED vars PROVE IInv'
  <2> USE <1>2 DEF IInv, vars
  <2>1. TypeInv'
    BY TypeStep
  <2>2. LockInv' /\ SlotInv' /\ StampInv'
    BY DEF LockInv, HoldsLock, SlotInv, Writing, StampInv, Captured
  <2>3. CallInv'
    BY DEF CallInv, NotOneShot
  <2>4. QueueInv' /\ ProgramOrder'
    BY DEF QueueInv, ProgramOrder
  <2>5. OrderInv'
    BY DEF OrderInv, OneShotInHand, NotNewer, Captured
  <2> QED
    BY <2>1, <2>2, <2>3, <2>4, <2>5
<1> QED
  BY <1>1, <1>2

(* The inductive invariant behind the safety properties of the send path.   *)
THEOREM Invariance == SafetySpec => []IInv
BY InvInit, InvStep, PTL DEF SafetySpec

(* No frame that leaves the bus mixes the identifier of one command with    *)
(* the payload of another.                                                  *)
THEOREM WholeFrames == SafetySpec => []NoTornFrame
<1>1. IInv => NoTornFrame
  BY DEF IInv, QueueInv, GoodFrame, NoTornFrame
<1> QED
  BY Invariance, <1>1, PTL

(* The control loop never sends a one-shot: SendOnce clears the slot before *)
(* the loop can see it.                                                     *)
THEOREM NeverRebroadcast == SafetySpec => []LoopNeverRebroadcasts
<1>1. IInv => LoopNeverRebroadcasts
  BY DEF IInv, QueueInv, GoodFrame, LoopNeverRebroadcasts
<1> QED
  BY Invariance, <1>1, PTL

(* The frames of one client to one actuator leave in the order of its calls.*)
THEOREM CallsInOrder == SafetySpec => []ProgramOrder
<1>1. IInv => ProgramOrder
  BY DEF IInv
<1> QED
  BY Invariance, <1>1, PTL

(* What the loop hands over is never older than what was handed over.       *)
NotOlder == LET f == tx_queue'[Len(tx_queue')]
            IN  Len(tx_queue') > Len(tx_queue) /\ f.via = "loop" => f.id.n >= newest[f.act]

(* A frame the loop hands over is not older than any before it.             *)
LEMMA NotOlderStep == IInv /\ [Next]_vars => NotOlder
<1> SUFFICES ASSUME IInv, [Next]_vars PROVE NotOlder
    OBVIOUS
<1> USE DEF IInv, TypeInv
<1>0. tx_queue \in Seq(Frame)
  BY DEF TypeOK
<1>1. ASSUME UNCHANGED tx_queue PROVE NotOlder
  BY <1>0, <1>1 DEF NotOlder
<1>2. ASSUME NEW c \in Clients, NEW a \in Actuators, Begin(c, a) PROVE NotOlder
  BY <1>1, <1>2, BeginCases DEF EnterWrite, EnterOther, Enter
<1>3. ASSUME NEW c \in Clients, TransmitOnce(c) PROVE NotOlder
  <2> DEFINE f == Outgoing(call[c].act, "once", frame[c])
  <2>1. f \in Frame /\ transmit(f)
    BY <1>3, OutgoingType DEF TransmitOnce, TypeOK, InCall
  <2>2. f.via = "once"
    BY DEF Outgoing
  <2> HIDE DEF f
  <2> QED
    BY <1>1, <2>1, <2>2, TransmitType DEF NotOlder
<1>4. ASSUME NEW c \in Clients, Continue(c) PROVE NotOlder
  BY <1>1, <1>3, <1>4 DEF Continue, WriteId, WriteData, SaveConfig, Capture, ZeroAndUnlock
<1>5. CASE LoopLock \/ LoopUnlock
  BY <1>1, <1>5 DEF LoopLock, LoopUnlock
<1>6. ASSUME NEW a \in Actuators, LoopVisit(a) PROVE NotOlder
  <2>1. CASE send_buf[a].id = Zero
    BY <1>1, <1>6, <2>1 DEF LoopVisit
  <2>2. CASE send_buf[a].id # Zero
    <3> DEFINE f == Outgoing(a, "loop", send_buf[a])
    <3>1. f \in Frame /\ transmit(f)
      BY <1>6, <2>2, OutgoingType DEF LoopVisit, TypeOK
    <3>2. f.id.n >= newest[f.act]
      BY <1>6, <2>2, VisitedSlot DEF Outgoing, StampInv, TypeOK
    <3> HIDE DEF f
    <3> QED
      BY <1>1, <3>1, <3>2, TransmitType DEF NotOlder
  <2> QED
    BY <2>1, <2>2
<1>7. CASE SenderPop
  <2>1. Len(tx_queue') = Len(tx_queue) - 1
    BY <1>0, <1>7, TailElements DEF SenderPop
  <2> QED
    BY <1>0, <2>1 DEF NotOlder
<1>8. CASE UNCHANGED vars
  BY <1>1, <1>8 DEF vars
<1> QED
  BY <1>2, <1>4, <1>5, <1>6, <1>7, <1>8 DEF Next, ControlLoop

(* Once a command has gone out, the loop sends nothing given before it.     *)
THEOREM NewestFirst == SafetySpec => SetpointsInOrder
<1>1. IInv /\ [Next]_vars => [NotOlder]_vars
  BY NotOlderStep
<1>2. SafetySpec => [][NotOlder]_vars
  BY Invariance, <1>1, PTL DEF SafetySpec
<1> QED
  BY <1>2 DEF SetpointsInOrder, NotOlder
===============================================================================
