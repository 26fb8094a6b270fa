-------------------------- MODULE CommandPath_proofs --------------------------
(***************************************************************************)
(* Proofs about CommandPath, for every number of actuators, clients, modes *)
(* and calls and every size of the queue.                                  *)
(***************************************************************************)
EXTENDS CommandPath, TLAPS

(* The frame f settles the aspect x of the motor of a. *)
Of(f, a, x) == f.act = a /\ x \in Aspects(f.id)

IsStop(f, a) == f.act = a /\ f.id.op = "stop"

(* The newest command of an aspect, and whether the motor does as it says.  *)
Newest(a, x) == IF x = "power" THEN last[a].power ELSE last[a].mode

Holds(a, x) == IF x = "power" THEN motor[a].on = (last[a].power.op = "enable")
                              ELSE motor[a].mode = last[a].mode.mode

(* A client has one frame in hand at most. *)
HandInv == \A c \in Clients : \A f, g \in inHand[c] : f = g

(* An aspect that did not go astray: only its newest command can be in hand;*)
(* when none is, the last one queued is the newest, and when none is queued *)
(* either, the motor has obeyed it.                                         *)
HandsHoldNewest(a, x) ==
  \A c, d \in Clients : \A f \in inHand[c], g \in inHand[d] :
    Of(f, a, x) /\ Of(g, a, x) => c = d /\ f.id = Newest(a, x)

InHands(a, x) == \E c \in Clients : \E f \in inHand[c] : Of(f, a, x)

Last(i, a, x) ==
  Of(tx_queue[i], a, x) /\ \A j \in DOMAIN tx_queue : j > i => ~Of(tx_queue[j], a, x)

Arrives(a, x) ==
  /\ \A i \in DOMAIN tx_queue : Last(i, a, x) => tx_queue[i].id = Newest(a, x)
  /\ (\A i \in DOMAIN tx_queue : ~Of(tx_queue[i], a, x)) => Holds(a, x)

AspectInv ==
  \A a \in Actuators, x \in {"power", "mode"} :
    x \notin astray[a] /\ Newest(a, x) # Nothing
      => HandsHoldNewest(a, x) /\ (InHands(a, x) \/ Arrives(a, x))

(* What is tracked is the newest mode, and a call's own unless a rival's.   *)
ModeInv ==
  /\ current_mode \in [Actuators -> Modes]
  /\ \A a \in Actuators : last[a].mode # Nothing => current_mode[a] = last[a].mode.mode
  /\ \A c \in Clients :
       \/ call[c] = NoCall
       \/ call[c].mode = BadMode
       \/ current_mode[call[c].act] = call[c].mode
       \/ call[c].rival

(* Every stop that was obeyed last, is in hand or is queued came before m.  *)
NewerThanStops(a, m) ==
  /\ stopped_by[a] < m
  /\ \A c \in Clients : \A f \in inHand[c] : IsStop(f, a) => f.id.n < m
  /\ \A i \in DOMAIN tx_queue : IsStop(tx_queue[i], a) => tx_queue[i].id.n < m

(* No stop is newer than the last call; what is in the slot is newer than   *)
(* every stop, and what the loop has queued newer than those before it.     *)
StopInv == \A a \in Actuators : NewerThanStops(a, stamp[a] + 1)

SlotInv == \A a \in Actuators : mailbox[a] # Nothing => NewerThanStops(a, mailbox[a].n)

FromLoop(f, a) == f.act = a /\ f.via = "loop"

QueueInv ==
  \A a \in Actuators : \A i \in DOMAIN tx_queue : FromLoop(tx_queue[i], a) =>
    /\ stopped_by[a] < tx_queue[i].id.n
    /\ \A j \in DOMAIN tx_queue : j < i /\ IsStop(tx_queue[j], a) => tx_queue[j].id.n < tx_queue[i].id.n

OnceInv == \A c \in Clients : \A f \in inHand[c] : f.via = "once"

-------------------------------------------------------------------------------
(* What the steps do to the queue, and what they put into it.               *)
LEMMA CommandFacts ==
  /\ \A cmd \in Command : cmd.n \in 0 .. MaxCommands /\ cmd.n \in Nat
  /\ \A cmd \in Periodic : cmd.op = "setpoint" /\ cmd \in Command /\ cmd.n \in Numbers
  /\ \A cmd \in OneShot : cmd \in Command
  /\ Nothing \in Command /\ Nothing.op = "nothing"
  BY PathAssumption DEF Command, Periodic, OneShot, Nothing, Cmd, Numbers, PowerOps

LEMMA Aspectless == \A cmd \in Periodic \cup {Nothing} : Aspects(cmd) = {} /\ cmd.op # "stop"
  BY CommandFacts DEF Aspects, PowerOps

LEMMA WholeFrame ==
  ASSUME NEW a \in Actuators, NEW via \in {"once", "loop"}, NEW cmd \in Command
  PROVE  /\ Mailbox!Whole(a, via, cmd) \in Frame
         /\ Mailbox!Whole(a, via, cmd).act = a
         /\ Mailbox!Whole(a, via, cmd).via = via
         /\ Mailbox!Whole(a, via, cmd).id = cmd
  BY DEF Mailbox!Whole, Frame

LEMMA FrameFacts ==
  \A f \in Frame : f.act \in Actuators /\ f.via \in {"once", "loop"} /\ f.id \in Command
  BY DEF Frame

Appended(f) ==
  /\ Len(tx_queue) \in Nat
  /\ DOMAIN tx_queue = 1 .. Len(tx_queue)
  /\ DOMAIN tx_queue' = 1 .. Len(tx_queue) + 1
  /\ \A i \in DOMAIN tx_queue : tx_queue'[i] = tx_queue[i]
  /\ tx_queue'[Len(tx_queue) + 1] = f

LEMMA AcceptStep ==
  ASSUME TypeOK, NEW f \in Frame, Mailbox!Accept(f)
  PROVE  /\ tx_queue' \in Seq(Frame) /\ Len(tx_queue') <= TxQueueSize
         /\ \/ Len(tx_queue) >= TxQueueSize /\ UNCHANGED tx_queue
            \/ Len(tx_queue) < TxQueueSize /\ Appended(f)
<1> USE PathAssumption
<1>1. tx_queue \in Seq(Frame) /\ Len(tx_queue) \in Nat /\ Len(tx_queue) <= TxQueueSize
  BY DEF TypeOK
<1>2. CASE Len(tx_queue) < TxQueueSize
  <2>1. tx_queue' = Append(tx_queue, f)
    BY <1>2 DEF Mailbox!Accept
  <2>2. tx_queue' \in Seq(Frame) /\ Len(tx_queue') = Len(tx_queue) + 1
    BY <1>1, <2>1
  <2>3. Appended(f)
    BY <1>1, <2>1 DEF Appended
  <2> QED
    BY <1>1, <1>2, <2>2, <2>3
<1>3. CASE ~(Len(tx_queue) < TxQueueSize)
  BY <1>1, <1>3 DEF Mailbox!Accept
<1> QED
  BY <1>2, <1>3

LEMMA TakeStep ==
  ASSUME TypeOK, Mailbox!Take
  PROVE  /\ tx_queue' \in Seq(Frame) /\ Len(tx_queue') <= TxQueueSize
         /\ Head(tx_queue) = tx_queue[1] /\ tx_queue[1] \in Frame
         /\ Len(tx_queue) \in Nat \ {0}
         /\ DOMAIN tx_queue = 1 .. Len(tx_queue)
         /\ DOMAIN tx_queue' = 1 .. Len(tx_queue) - 1
         /\ \A i \in DOMAIN tx_queue' : tx_queue'[i] = tx_queue[i + 1]
         /\ UNCHANGED <<mailbox, inHand>>
<1>1. /\ tx_queue \in Seq(Frame) /\ Len(tx_queue) \in Nat /\ Len(tx_queue) <= TxQueueSize
      /\ tx_queue # <<>> /\ tx_queue' = Tail(tx_queue) /\ UNCHANGED <<mailbox, inHand>>
  BY DEF TypeOK, Mailbox!Take
<1>2. Len(tx_queue) \in Nat \ {0} /\ DOMAIN tx_queue = 1 .. Len(tx_queue)
  BY <1>1
<1>3. tx_queue' \in Seq(Frame) /\ Len(tx_queue') = Len(tx_queue) - 1
  BY <1>1, <1>2
<1>4. Len(tx_queue') <= TxQueueSize
  BY <1>1, <1>2, <1>3, PathAssumption
<1> QED
  BY <1>1, <1>2, <1>3, <1>4

-------------------------------------------------------------------------------
(* Types.                                                                   *)
Base == TypeOK /\ HandInv

LEMMA NumberFacts ==
  ASSUME TypeOK, NEW a \in Actuators, NEW n, Number(a, n)
  PROVE  /\ stamp[a] \in Nat /\ n = stamp[a] + 1 /\ n \in Numbers /\ n \in Nat
         /\ stamp' = [stamp EXCEPT ![a] = n] /\ stamp' \in [Actuators -> 0 .. MaxCommands]
  BY PathAssumption DEF TypeOK, Number, Numbers

LEMMA SetType ==
  ASSUME Base, NEW a \in Actuators, Set(a)
  PROVE  Base'
<1>1. PICK n \in Numbers : Number(a, n) /\ Mailbox!Post(a, Cmd("setpoint", n, BadMode))
  BY DEF Set
<1>2. Cmd("setpoint", n, BadMode) \in Periodic
  BY DEF Periodic
<1>3. mailbox' \in [Actuators -> Periodic \cup {Nothing}]
  BY <1>1, <1>2 DEF Base, TypeOK, Mailbox!Post
<1>4. stamp' \in [Actuators -> 0 .. MaxCommands]
  BY <1>1, NumberFacts DEF Base
<1>5. UNCHANGED <<inHand, tx_queue, call, current_mode, is_running, motor, last, stopped_by, astray>>
  BY <1>1 DEF Set, Mailbox!Post, tracked
<1> QED
  BY <1>3, <1>4, <1>5 DEF Base, TypeOK, HandInv

(* A client takes a frame in hand and empties the slot. *)
LEMMA IssueType ==
  ASSUME Base, NEW c \in Clients, NEW a \in Actuators, NEW cmd \in Command, Mailbox!Issue(c, a, cmd)
  PROVE  /\ inHand' \in [Clients -> SUBSET Frame] /\ HandInv'
         /\ mailbox' \in [Actuators -> Periodic \cup {Nothing}]
         /\ UNCHANGED tx_queue
<1>1. Mailbox!Whole(a, "once", cmd) \in Frame
  BY WholeFrame
<1> QED
  BY <1>1 DEF Base, TypeOK, HandInv, Mailbox!Issue

LEMMA GivenType ==
  ASSUME TypeOK, NEW c \in Clients, NEW a \in Actuators, NEW cmd \in Command, Given(c, a, cmd)
  PROVE  /\ stamp' \in [Actuators -> 0 .. MaxCommands]
         /\ last' \in [Actuators -> [power : Command, mode : Command]]
         /\ astray' \in [Actuators -> SUBSET {"power", "mode"}]
<1>1. stamp' \in [Actuators -> 0 .. MaxCommands]
  BY NumberFacts DEF Given
<1>2. CASE cmd.op = "mode"
  BY <1>1, <1>2 DEF Given, TypeOK
<1>3. CASE cmd.op # "mode"
  BY <1>1, <1>3 DEF Given, TypeOK
<1> QED
  BY <1>2, <1>3

LEMMA CallType ==
  ASSUME TypeOK, NEW c \in Clients, NEW a \in Actuators, NEW mode \in Modes \cup {BadMode},
         BeginSetMode(c, a, mode)
  PROVE  call' \in [Clients -> [act : Actuators, mode : Modes \cup {BadMode}, rival : BOOLEAN]
                                 \cup {NoCall}]
<1>1. ASSUME NEW d \in Clients, call[d].act = a
      PROVE  [call[d] EXCEPT !.rival = TRUE] \in
               [act : Actuators, mode : Modes \cup {BadMode}, rival : BOOLEAN] \cup {NoCall}
  <2> DEFINE Open == [act : Actuators, mode : Modes \cup {BadMode}, rival : BOOLEAN]
  <2>1. call[d] \in Open \cup {NoCall}
    BY DEF TypeOK
  <2>2. call[d] = NoCall => call[d] = [act |-> a, mode |-> BadMode, rival |-> FALSE]
    BY <1>1 DEF NoCall
  <2>3. [act |-> a, mode |-> BadMode, rival |-> FALSE] \in Open
    OBVIOUS
  <2>4. call[d] \in Open
    BY <2>1, <2>2, <2>3
  <2> QED
    BY <2>4
<1> QED
  BY <1>1 DEF BeginSetMode, TypeOK

LEMMA PowerType ==
  ASSUME Base, NEW c \in Clients, NEW a \in Actuators, Power(c, a)
  PROVE  Base'
<1>1. PICK op \in PowerOps, n \in Numbers :
        Mailbox!Issue(c, a, Cmd(op, n, BadMode)) /\ Given(c, a, Cmd(op, n, BadMode))
  BY DEF Power
<1>2. Cmd(op, n, BadMode) \in Command
  BY CommandFacts DEF OneShot
<1>3. UNCHANGED <<call, current_mode, is_running, motor, stopped_by>>
  BY DEF Power, tracked
<1> QED
  BY <1>1, <1>2, <1>3, IssueType, GivenType DEF Base, TypeOK

LEMMA SetModeType ==
  ASSUME Base, NEW c \in Clients, NEW a \in Actuators, SetMode(c, a)
  PROVE  Base'
<1>1. PICK mode \in Modes, n \in Numbers :
        /\ BeginSetMode(c, a, mode)
        /\ Mailbox!Issue(c, a, Cmd("mode", n, mode))
        /\ Given(c, a, Cmd("mode", n, mode))
        /\ current_mode' = [current_mode EXCEPT ![a] = mode]
  BY DEF SetMode
<1>2. Cmd("mode", n, mode) \in Command
  BY CommandFacts DEF OneShot
<1>3. UNCHANGED <<is_running, motor, stopped_by>>
  BY DEF SetMode
<1>4. current_mode' \in [Actuators -> Modes \cup {BadMode}]
  BY <1>1 DEF Base, TypeOK
<1> QED
  BY <1>1, <1>2, <1>3, <1>4, IssueType, GivenType, CallType DEF Base, TypeOK

LEMMA RejectType ==
  ASSUME Base, NEW c \in Clients, NEW a \in Actuators, RejectMode(c, a)
  PROVE  Base'
<1>1. PICK n \in Numbers : Number(a, n)
  BY DEF RejectMode
<1>2. mailbox[a] \in Command
  BY CommandFacts DEF Base, TypeOK
<1>3. stamp' \in [Actuators -> 0 .. MaxCommands]
  BY <1>1, NumberFacts DEF Base
<1>4. UNCHANGED <<current_mode, is_running, motor, stopped_by, last, astray>>
  BY DEF RejectMode
<1>5. BeginSetMode(c, a, BadMode) /\ Mailbox!Issue(c, a, mailbox[a])
  BY DEF RejectMode
<1> QED
  BY <1>2, <1>3, <1>4, <1>5, IssueType, CallType DEF Base, TypeOK

LEMMA LostType ==
  ASSUME TypeOK, NEW f \in Frame, Lost(f)
  PROVE  astray' \in [Actuators -> SUBSET {"power", "mode"}]
<1>1. Aspects(f.id) \subseteq {"power", "mode"}
  BY DEF Aspects
<1> QED
  BY <1>1 DEF TypeOK, Lost

(* The frame a client has in hand is the one that is accepted or lost. *)
LEMMA FireShape ==
  ASSUME Base, NEW c \in Clients, Fire(c)
  PROVE  \E f \in Frame :
           /\ inHand[c] = {f}
           /\ inHand' = [inHand EXCEPT ![c] = {}]
           /\ tx_queue' \in Seq(Frame) /\ Len(tx_queue') <= TxQueueSize
           /\ \/ UNCHANGED tx_queue /\ Lost(f)
              \/ Appended(f) /\ UNCHANGED astray
           /\ UNCHANGED <<mailbox, call, current_mode, is_running, motor, stopped_by, stamp, last>>
<1>1. PICK f \in inHand[c] : Mailbox!Accept(f)
  BY DEF Fire, Mailbox!Fire
<1>2. inHand[c] = {f} /\ f \in Frame
  BY <1>1 DEF Base, HandInv, TypeOK
<1>3. /\ tx_queue' \in Seq(Frame) /\ Len(tx_queue') <= TxQueueSize
      /\ \/ Len(tx_queue) >= TxQueueSize /\ UNCHANGED tx_queue
         \/ Len(tx_queue) < TxQueueSize /\ Appended(f)
  BY <1>1, <1>2, AcceptStep DEF Base
<1>4. UNCHANGED <<mailbox, call, current_mode, is_running, motor, stopped_by, stamp, last>>
      /\ inHand' = [inHand EXCEPT ![c] = {}]
  BY DEF Fire, Mailbox!Fire, tracked
<1>5. \/ Len(tx_queue) < TxQueueSize /\ UNCHANGED astray
      \/ Len(tx_queue) >= TxQueueSize /\ Lost(f)
  BY <1>2 DEF Fire
<1>6. Len(tx_queue) \in Nat /\ TxQueueSize \in Nat
  BY PathAssumption DEF Base, TypeOK
<1>7. \/ UNCHANGED tx_queue /\ Lost(f)
      \/ Appended(f) /\ UNCHANGED astray
  BY <1>3, <1>5, <1>6
<1> QED
  BY <1>2, <1>3, <1>4, <1>7

LEMMA FireType ==
  ASSUME Base, NEW c \in Clients, Fire(c)
  PROVE  Base'
<1>1. PICK f \in Frame :
        /\ inHand' = [inHand EXCEPT ![c] = {}]
        /\ tx_queue' \in Seq(Frame) /\ Len(tx_queue') <= TxQueueSize
        /\ Lost(f) \/ UNCHANGED astray
        /\ UNCHANGED <<mailbox, call, current_mode, is_running, motor, stopped_by, stamp, last>>
  BY FireShape
<1>2. astray' \in [Actuators -> SUBSET {"power", "mode"}]
  BY <1>1, LostType DEF Base, TypeOK
<1>3. inHand' \in [Clients -> SUBSET Frame] /\ HandInv'
  BY <1>1 DEF Base, TypeOK, HandInv
<1> QED
  BY <1>1, <1>2, <1>3 DEF Base, TypeOK

LEMMA RepeatShape ==
  ASSUME TypeOK, NEW a \in Actuators, Repeat(a)
  PROVE  LET f == Mailbox!Whole(a, "loop", mailbox[a])
         IN  /\ mailbox[a] \in Periodic /\ f \in Frame
             /\ f.act = a /\ f.via = "loop" /\ f.id = mailbox[a]
             /\ tx_queue' \in Seq(Frame) /\ Len(tx_queue') <= TxQueueSize
             /\ UNCHANGED tx_queue \/ Appended(f)
             /\ UNCHANGED <<mailbox, inHand, call, current_mode, is_running, motor,
                            stopped_by, stamp, last, astray>>
<1>1. mailbox[a] \in Periodic /\ mailbox[a] \in Command /\ "loop" \in {"once", "loop"}
  BY CommandFacts DEF TypeOK, Repeat, Mailbox!Repeat
<1>2. /\ Mailbox!Accept(Mailbox!Whole(a, "loop", mailbox[a]))
      /\ UNCHANGED <<mailbox, inHand, call, current_mode, is_running, motor,
                     stopped_by, stamp, last, astray>>
  BY DEF Repeat, Mailbox!Repeat, tracked, history
<1> QED
  BY <1>1, <1>2, WholeFrame, AcceptStep

LEMMA ObeyType ==
  ASSUME TypeOK, NEW f \in Frame, Obey(f)
  PROVE  /\ motor' \in [Actuators -> [on : BOOLEAN, mode : Modes,
                                      target : [n : 0 .. MaxCommands, via : {"once", "loop"}]]]
         /\ stopped_by' \in [Actuators -> 0 .. MaxCommands]
         /\ astray' \in [Actuators -> SUBSET {"power", "mode"}]
<1>1. f.act \in Actuators /\ f.via \in {"once", "loop"} /\ f.id.n \in 0 .. MaxCommands
  BY FrameFacts, CommandFacts
<1>2. Idle \in [n : 0 .. MaxCommands, via : {"once", "loop"}]
  BY PathAssumption DEF Idle
<1>3. f.id.op = "mode" => f.id.mode \in Modes
  BY PathAssumption, FrameFacts DEF Command, OneShot, Periodic, Nothing, Cmd, PowerOps
<1>4. motor[f.act] \in [on : BOOLEAN, mode : Modes,
                        target : [n : 0 .. MaxCommands, via : {"once", "loop"}]]
  BY <1>1 DEF TypeOK
<1>5. PICK on \in BOOLEAN, mode \in Modes, target \in [n : 0 .. MaxCommands, via : {"once", "loop"}] :
        motor' = [motor EXCEPT ![f.act].on = on, ![f.act].mode = mode, ![f.act].target = target]
  <2> DEFINE cmd == f.id
             refused == cmd.op = "mode" /\ motor[f.act].on
             on == IF cmd.op \in PowerOps THEN cmd.op = "enable" ELSE motor[f.act].on
             mode == IF cmd.op = "mode" /\ ~refused THEN cmd.mode ELSE motor[f.act].mode
             target == IF cmd.op = "stop" THEN Idle
                       ELSE IF cmd.op = "setpoint" /\ motor[f.act].on
                       THEN [n |-> cmd.n, via |-> f.via]
                       ELSE motor[f.act].target
  <2>1. on \in BOOLEAN
    BY <1>4
  <2>2. mode \in Modes
    BY <1>3, <1>4
  <2>3. target \in [n : 0 .. MaxCommands, via : {"once", "loop"}]
    BY <1>1, <1>2, <1>4
  <2>4. motor' = [motor EXCEPT ![f.act].on = on, ![f.act].mode = mode, ![f.act].target = target]
    BY <1>1, <1>4 DEF Obey, TypeOK
  <2> QED
    BY <2>1, <2>2, <2>3, <2>4
<1>6. motor' \in [Actuators -> [on : BOOLEAN, mode : Modes,
                                target : [n : 0 .. MaxCommands, via : {"once", "loop"}]]]
  BY <1>1, <1>5 DEF TypeOK
<1>7. stopped_by' \in [Actuators -> 0 .. MaxCommands]
  BY <1>1 DEF Obey, TypeOK
<1>8. Lost(f) \/ UNCHANGED astray
  BY DEF Obey
<1> QED
  BY <1>6, <1>7, <1>8, LostType DEF TypeOK

LEMMA SocketType ==
  ASSUME Base, Socket
  PROVE  Base'
<1>1. CASE Deliver
  <2>1. UNCHANGED <<mailbox, inHand, call, current_mode, is_running, stamp, last>>
    BY <1>1, TakeStep DEF Deliver, tracked, Base
  <2>2. Obey(Head(tx_queue)) /\ Mailbox!Take
    BY <1>1 DEF Deliver
  <2> QED
    BY <2>1, <2>2, TakeStep, ObeyType DEF Base, TypeOK, HandInv
<1>2. CASE Lose
  <2>1. UNCHANGED <<mailbox, inHand, call, current_mode, is_running, motor, stopped_by, stamp, last>>
    BY <1>2, TakeStep DEF Lose, tracked, Base
  <2>2. Lost(Head(tx_queue)) /\ Mailbox!Take
    BY <1>2 DEF Lose
  <2> QED
    BY <2>1, <2>2, TakeStep, LostType DEF Base, TypeOK, HandInv
<1> QED
  BY <1>1, <1>2 DEF Socket

LEMMA NextType == Base /\ [Next]_vars => Base'
<1> SUFFICES ASSUME Base, [Next]_vars PROVE Base'
  OBVIOUS
<1>1. CASE UNCHANGED vars
  BY <1>1 DEF Base, TypeOK, HandInv, vars, bus, tracked, history
<1>2. CASE StartStop
  BY <1>2 DEF Base, TypeOK, HandInv, StartStop, bus, tracked, history
<1>3. ASSUME NEW c \in Clients, Verify(c) PROVE Base'
  BY <1>3 DEF Base, TypeOK, HandInv, Verify, bus, history
<1>4. ASSUME NEW a \in Actuators, Repeat(a) PROVE Base'
  BY <1>4, RepeatShape DEF Base, TypeOK, HandInv
<1> QED
  BY <1>1, <1>2, <1>3, <1>4, SetType, PowerType, SetModeType, RejectType, FireType, SocketType
  DEF Next, Finish

-------------------------------------------------------------------------------
(* The tracked mode. *)
LEMMA SetModeTracks ==
  ASSUME Base, ModeInv, NEW c \in Clients, NEW a \in Actuators, SetMode(c, a)
  PROVE  ModeInv'
<1>1. PICK mode \in Modes, n \in Numbers :
        /\ BeginSetMode(c, a, mode)
        /\ Given(c, a, Cmd("mode", n, mode))
        /\ current_mode' = [current_mode EXCEPT ![a] = mode]
  BY DEF SetMode
<1>2. current_mode' \in [Actuators -> Modes]
  BY <1>1 DEF ModeInv
<1>3. ASSUME NEW b \in Actuators, last'[b].mode # Nothing
      PROVE  current_mode'[b] = last'[b].mode.mode
  <2>1. Cmd("mode", n, mode).mode = mode /\ Cmd("mode", n, mode).op = "mode"
    BY DEF Cmd
  <2>2. last' = [last EXCEPT ![a]["mode"] = Cmd("mode", n, mode)]
    BY <1>1, <2>1 DEF Given
  <2>3. CASE b = a
    BY <1>1, <2>1, <2>2, <2>3 DEF Base, TypeOK
  <2>4. CASE b # a
    BY <1>1, <1>3, <2>2, <2>4 DEF ModeInv, Base, TypeOK
  <2> QED
    BY <2>3, <2>4
<1>4. ASSUME NEW d \in Clients
      PROVE  \/ call'[d] = NoCall
             \/ call'[d].mode = BadMode
             \/ current_mode'[call'[d].act] = call'[d].mode
             \/ call'[d].rival
  <2>1. CASE d = c
    BY <1>1, <2>1 DEF BeginSetMode, ModeInv
  <2>2. CASE d # c /\ call[d].act = a
    <3>1. call'[d] = [call[d] EXCEPT !.rival = TRUE]
      BY <1>1, <2>2 DEF BeginSetMode
    <3>2. call[d] = NoCall => call'[d].mode = BadMode
      BY <3>1 DEF NoCall
    <3>3. call[d] # NoCall => call'[d].rival
      BY <3>1 DEF Base, TypeOK
    <3> QED
      BY <3>2, <3>3
  <2>3. CASE d # c /\ call[d].act # a
    BY <1>1, <2>3 DEF BeginSetMode, ModeInv
  <2> QED
    BY <2>1, <2>2, <2>3
<1> QED
  BY <1>2, <1>3, <1>4 DEF ModeInv

LEMMA NextTracks ==
  ASSUME Base, ModeInv, [Next]_vars
  PROVE  ModeInv'
<1>1. CASE UNCHANGED <<call, current_mode, last>>
  BY <1>1 DEF ModeInv
<1>2. ASSUME NEW a \in Actuators, Set(a) \/ Repeat(a) PROVE ModeInv'
  BY <1>1, <1>2 DEF Set, Repeat, tracked, history
<1>3. ASSUME NEW c \in Clients, NEW a \in Actuators, Power(c, a) PROVE ModeInv'
  <2>1. PICK op \in PowerOps, n \in Numbers : Given(c, a, Cmd(op, n, BadMode))
    BY <1>3 DEF Power
  <2>2. last' = [last EXCEPT ![a]["power"] = Cmd(op, n, BadMode)]
    BY <2>1 DEF Given, Cmd, PowerOps
  <2>3. \A b \in Actuators : last'[b].mode = last[b].mode
    BY <2>2 DEF Base, TypeOK
  <2>4. UNCHANGED <<call, current_mode>>
    BY <1>3 DEF Power, tracked
  <2> QED
    BY <2>3, <2>4 DEF ModeInv
<1>4. ASSUME NEW c \in Clients, NEW a \in Actuators, RejectMode(c, a) PROVE ModeInv'
  <2>1. BeginSetMode(c, a, BadMode) /\ UNCHANGED <<current_mode, last>>
    BY <1>4 DEF RejectMode
  <2>2. call'[c].mode = BadMode /\ \A d \in Clients \ {c} : call'[d] = call[d]
    BY <2>1, PathAssumption DEF BeginSetMode
  <2> QED
    BY <2>1, <2>2 DEF ModeInv
<1>5. ASSUME NEW c \in Clients, Verify(c) PROVE ModeInv'
  <2>1. call' = [call EXCEPT ![c] = NoCall] /\ UNCHANGED <<current_mode, last>>
    BY <1>5 DEF Verify, history
  <2>2. call'[c] = NoCall /\ \A d \in Clients \ {c} : call'[d] = call[d]
    BY <2>1 DEF Base, TypeOK
  <2> QED
    BY <2>1, <2>2 DEF ModeInv
<1>6. ASSUME NEW c \in Clients, Fire(c) PROVE ModeInv'
  BY <1>1, <1>6 DEF Fire, tracked
<1>7. CASE StartStop \/ Socket
  BY <1>1, <1>7 DEF StartStop, Socket, Deliver, Lose, tracked, history
<1> QED
  BY <1>1, <1>2, <1>3, <1>4, <1>5, <1>6, <1>7, SetModeTracks
  DEF Next, Finish, vars, tracked, history

-------------------------------------------------------------------------------
(* The newest command of an aspect.                                         *)
(* Nothing that is in hand, queued, given or obeyed of this aspect changes. *)
LEMMA AspectUntouched ==
  ASSUME AspectInv, UNCHANGED <<inHand, tx_queue, last, astray>>,
         \A a \in Actuators : motor'[a].on = motor[a].on /\ motor'[a].mode = motor[a].mode
  PROVE  AspectInv'
  BY DEF AspectInv, HandsHoldNewest, InHands, Arrives, Last, Holds, Newest, Of

(* A client takes a command of the aspect y, given now, in hand. *)
LEMMA GiveStep ==
  ASSUME Base, AspectInv, NEW c \in Clients, NEW a \in Actuators, NEW cmd \in OneShot,
         Mailbox!Issue(c, a, cmd), Given(c, a, cmd), UNCHANGED motor
  PROVE  AspectInv'
<1> DEFINE y == IF cmd.op = "mode" THEN "mode" ELSE "power"
           g == Mailbox!Whole(a, "once", cmd)
<1>1. Aspects(cmd) = {y} /\ cmd \in Command
  BY CommandFacts DEF OneShot, Cmd, PowerOps, Aspects
<1>2. g.act = a /\ g.id = cmd
  BY <1>1, WholeFrame
<1>3. /\ inHand[c] = {} /\ inHand'[c] = {g}
      /\ \A d \in Clients \ {c} : inHand'[d] = inHand[d]
      /\ UNCHANGED tx_queue
  BY DEF Mailbox!Issue, Base, TypeOK
<1>4. Newest(a, y)' = cmd
  BY DEF Given, Newest, Base, TypeOK
<1>5. ASSUME NEW b \in Actuators, NEW x \in {"power", "mode"}, b # a \/ x # y
      PROVE  /\ Newest(b, x)' = Newest(b, x) /\ Holds(b, x)' = Holds(b, x)
             /\ x \in astray'[b] <=> x \in astray[b]
  <2>1. Newest(b, x)' = Newest(b, x) /\ Holds(b, x)' = Holds(b, x)
    BY <1>5 DEF Given, Newest, Holds, Base, TypeOK
  <2>2. x \in astray'[b] <=> x \in astray[b]
    BY <1>5 DEF Given, Base, TypeOK
  <2> QED
    BY <2>1, <2>2
<1>6. y \notin astray'[a] => ~Overlaps(c, a, y)
  BY DEF Given, Base, TypeOK
<1> HIDE DEF y, g
<1> SUFFICES ASSUME NEW b \in Actuators, NEW x \in {"power", "mode"},
                    x \notin astray'[b], Newest(b, x)' # Nothing
             PROVE  HandsHoldNewest(b, x)' /\ (InHands(b, x)' \/ Arrives(b, x)')
  BY DEF AspectInv
<1>7. CASE b = a /\ x = y
  <2>1. \A d \in Clients \ {c} : \A f \in inHand'[d] : ~Of(f, b, x)
    BY <1>3, <1>6, <1>7 DEF Overlaps, Of
  <2>2. HandsHoldNewest(b, x)'
    BY <1>2, <1>3, <1>4, <1>7, <2>1 DEF HandsHoldNewest, Of
  <2>3. Of(g, b, x) /\ g \in inHand'[c]
    BY <1>1, <1>2, <1>3, <1>7 DEF Of
  <2> QED
    BY <2>2, <2>3 DEF InHands, Of
<1>8. CASE b # a \/ x # y
  <2>1. ~Of(g, b, x)
    BY <1>1, <1>2, <1>8 DEF Of
  <2>2. Newest(b, x)' = Newest(b, x) /\ Holds(b, x)' = Holds(b, x) /\ x \notin astray[b]
    BY <1>5, <1>8
  <2>3. HandsHoldNewest(b, x) /\ (InHands(b, x) \/ Arrives(b, x))
    BY <2>2 DEF AspectInv
  <2>4. \A d \in Clients : \A f \in inHand'[d] : Of(f, b, x) => f \in inHand[d]
    BY <1>3, <2>1
  <2>5. HandsHoldNewest(b, x)'
    BY <2>2, <2>3, <2>4 DEF HandsHoldNewest, Of
  <2>6. InHands(b, x) => InHands(b, x)'
    <3> SUFFICES ASSUME NEW d \in Clients, NEW f \in inHand[d], Of(f, b, x) PROVE InHands(b, x)'
      BY DEF InHands
    <3>1. f \in inHand'[d]
      BY <1>3
    <3> QED
      BY <3>1 DEF InHands, Of
  <2>7. Arrives(b, x) => Arrives(b, x)'
    BY <1>3, <2>2 DEF Arrives, Last, Of
  <2> QED
    BY <2>3, <2>5, <2>6, <2>7
<1> QED
  BY <1>7, <1>8

(* A rejected mode: the frame in hand settles nothing. *)
LEMMA RejectStep ==
  ASSUME Base, AspectInv, NEW c \in Clients, NEW a \in Actuators, RejectMode(c, a)
  PROVE  AspectInv'
<1> DEFINE g == Mailbox!Whole(a, "once", mailbox[a])
<1>1. mailbox[a] \in Periodic \cup {Nothing} /\ mailbox[a] \in Command
  BY CommandFacts DEF Base, TypeOK
<1>2. g.id = mailbox[a] /\ Aspects(g.id) = {}
  BY <1>1, Aspectless, WholeFrame
<1>3. /\ inHand[c] = {} /\ inHand'[c] = {g}
      /\ \A d \in Clients \ {c} : inHand'[d] = inHand[d]
      /\ UNCHANGED <<tx_queue, motor, last, astray>>
  BY DEF RejectMode, Mailbox!Issue, Base, TypeOK
<1> HIDE DEF g
<1> SUFFICES ASSUME NEW b \in Actuators, NEW x \in {"power", "mode"},
                    x \notin astray[b], Newest(b, x) # Nothing
             PROVE  HandsHoldNewest(b, x)' /\ (InHands(b, x)' \/ Arrives(b, x)')
  BY <1>3 DEF AspectInv, Newest
<1>4. ~Of(g, b, x) /\ HandsHoldNewest(b, x) /\ (InHands(b, x) \/ Arrives(b, x))
  BY <1>2 DEF Of, AspectInv
<1>5. HandsHoldNewest(b, x)'
  BY <1>3, <1>4 DEF HandsHoldNewest, Of, Newest
<1>6. InHands(b, x) => InHands(b, x)'
  <2> SUFFICES ASSUME NEW d \in Clients, NEW f \in inHand[d], Of(f, b, x) PROVE InHands(b, x)'
    BY DEF InHands
  <2>1. f \in inHand'[d]
    BY <1>3
  <2> QED
    BY <2>1 DEF InHands, Of
<1>7. Arrives(b, x) => Arrives(b, x)'
  BY <1>3 DEF Arrives, Last, Of, Newest, Holds
<1> QED
  BY <1>4, <1>5, <1>6, <1>7

(* The queue grows by a frame: the last of the aspect is this one, or the   *)
(* one that was the last before.                                            *)
LEMMA AppendArrives ==
  ASSUME NEW a \in Actuators, NEW x \in {"power", "mode"}, NEW f, Appended(f),
         UNCHANGED <<last, motor>>,
         IF Of(f, a, x) THEN f.id = Newest(a, x) ELSE Arrives(a, x)
  PROVE  Arrives(a, x)'
<1> DEFINE n == Len(tx_queue)
<1>1. /\ n \in Nat /\ DOMAIN tx_queue = 1 .. n /\ DOMAIN tx_queue' = 1 .. n + 1
      /\ \A i \in 1 .. n : tx_queue'[i] = tx_queue[i]
      /\ tx_queue'[n + 1] = f
  BY DEF Appended
<1> HIDE DEF n
<1>2. Newest(a, x)' = Newest(a, x) /\ Holds(a, x)' = Holds(a, x)
  BY DEF Newest, Holds
<1>3. CASE Of(f, a, x)
  <2>1. \A i \in 1 .. n + 1 : Last(i, a, x)' => i = n + 1
    BY <1>1, <1>3 DEF Last, Of
  <2>2. ~(\A i \in DOMAIN tx_queue' : ~Of(tx_queue'[i], a, x))
    BY <1>1, <1>3
  <2> QED
    BY <1>1, <1>2, <1>3, <2>1, <2>2 DEF Arrives, Of
<1>4. CASE ~Of(f, a, x)
  <2>1. ASSUME NEW i \in DOMAIN tx_queue', Last(i, a, x)'
        PROVE  tx_queue'[i].id = Newest(a, x)
    <3>1. i \in 1 .. n /\ Last(i, a, x)
      BY <1>1, <1>4, <2>1 DEF Last, Of
    <3> QED
      BY <1>1, <1>4, <3>1 DEF Arrives
  <2>2. ASSUME \A i \in DOMAIN tx_queue' : ~Of(tx_queue'[i], a, x)
        PROVE  Holds(a, x)
    BY <1>1, <1>4, <2>2 DEF Arrives
  <2> QED
    BY <1>2, <2>1, <2>2 DEF Arrives, Of
<1> QED
  BY <1>3, <1>4

(* A lost frame takes its aspect with it if it was the newest of it. *)
LEMMA LostFacts ==
  ASSUME Base, NEW f \in Frame, Lost(f),
         NEW b \in Actuators, NEW x \in {"power", "mode"}, x \notin astray'[b]
  PROVE  x \notin astray[b] /\ ~(Of(f, b, x) /\ f.id = Newest(b, x))
<1>1. f.act \in Actuators /\ astray \in [Actuators -> SUBSET {"power", "mode"}]
  BY FrameFacts DEF Base, TypeOK
<1> DEFINE lost == {y \in Aspects(f.id) : last[f.act][y] = f.id}
<1>2. astray'[b] = IF b = f.act THEN astray[b] \cup lost ELSE astray[b]
  BY <1>1 DEF Lost
<1>3. x \notin astray[b]
  BY <1>2
<1>4. Of(f, b, x) /\ f.id = Newest(b, x) => x \in lost /\ b = f.act
  BY DEF Of, Newest
<1> QED
  BY <1>2, <1>3, <1>4

(* The frame in hand goes to the queue, or is refused. *)
LEMMA FireStep ==
  ASSUME Base, AspectInv, NEW c \in Clients, Fire(c)
  PROVE  AspectInv'
<1>1. PICK f \in Frame :
        /\ inHand[c] = {f} /\ inHand' = [inHand EXCEPT ![c] = {}]
        /\ \/ UNCHANGED tx_queue /\ Lost(f)
           \/ Appended(f) /\ UNCHANGED astray
        /\ UNCHANGED <<motor, last>>
  BY FireShape
<1>2. inHand'[c] = {} /\ \A d \in Clients \ {c} : inHand'[d] = inHand[d]
  BY <1>1 DEF Base, TypeOK
<1> SUFFICES ASSUME NEW b \in Actuators, NEW x \in {"power", "mode"},
                    x \notin astray'[b], Newest(b, x) # Nothing
             PROVE  HandsHoldNewest(b, x)' /\ (InHands(b, x)' \/ Arrives(b, x)')
  BY <1>1 DEF AspectInv, Newest
<1>3. x \notin astray[b]
  BY <1>1, LostFacts
<1>4. HandsHoldNewest(b, x) /\ (InHands(b, x) \/ Arrives(b, x))
  BY <1>3 DEF AspectInv
<1>5. HandsHoldNewest(b, x)'
  BY <1>1, <1>2, <1>4 DEF HandsHoldNewest, Of, Newest
<1>6. CASE Of(f, b, x)
  <2>1. f.id = Newest(b, x)
    BY <1>1, <1>4, <1>6 DEF HandsHoldNewest
  <2>2. ~Lost(f)
    BY <1>6, <2>1, LostFacts
  <2>3. Arrives(b, x)'
    BY <1>1, <1>6, <2>1, <2>2, AppendArrives
  <2> QED
    BY <1>5, <2>3
<1>7. CASE ~Of(f, b, x)
  <2>1. InHands(b, x) => InHands(b, x)'
    <3> SUFFICES ASSUME NEW d \in Clients, NEW e \in inHand[d], Of(e, b, x) PROVE InHands(b, x)'
      BY DEF InHands
    <3>1. d # c
      BY <1>1, <1>7
    <3>2. e \in inHand'[d]
      BY <1>2, <3>1
    <3> QED
      BY <3>2 DEF InHands, Of
  <2>2. ASSUME Arrives(b, x) PROVE Arrives(b, x)'
    <3>1. CASE Appended(f)
      BY <1>1, <1>7, <2>2, <3>1, AppendArrives
    <3>2. CASE UNCHANGED tx_queue
      BY <1>1, <2>2, <3>2 DEF Arrives, Last, Of, Newest, Holds
    <3> QED
      BY <1>1, <3>1, <3>2
  <2> QED
    BY <1>4, <1>5, <2>1, <2>2
<1> QED
  BY <1>6, <1>7

(* The loop repeats a setpoint. *)
LEMMA RepeatStep ==
  ASSUME Base, AspectInv, NEW a \in Actuators, Repeat(a)
  PROVE  AspectInv'
<1>1. PICK f :
        /\ f.id \in Periodic
        /\ UNCHANGED tx_queue \/ Appended(f)
        /\ UNCHANGED <<inHand, motor, last, astray>>
  BY RepeatShape DEF Base
<1>2. CASE UNCHANGED tx_queue
  BY <1>1, <1>2, AspectUntouched
<1>3. CASE Appended(f)
  <2> SUFFICES ASSUME NEW b \in Actuators, NEW x \in {"power", "mode"},
                      x \notin astray[b], Newest(b, x) # Nothing
               PROVE  HandsHoldNewest(b, x)' /\ (InHands(b, x)' \/ Arrives(b, x)')
    BY <1>1 DEF AspectInv, Newest
  <2>1. ~Of(f, b, x)
    BY <1>1, Aspectless DEF Of
  <2>2. HandsHoldNewest(b, x) /\ (InHands(b, x) \/ Arrives(b, x))
    BY DEF AspectInv
  <2>3. HandsHoldNewest(b, x)' /\ (InHands(b, x) => InHands(b, x)')
    BY <1>1, <2>2 DEF HandsHoldNewest, InHands, Of, Newest
  <2>4. Arrives(b, x) => Arrives(b, x)'
    BY <1>1, <1>3, <2>1, AppendArrives
  <2> QED
    BY <2>2, <2>3, <2>4
<1> QED
  BY <1>1, <1>2, <1>3

(* What the motor does with a frame settles the aspects of that frame only. *)
LEMMA ObeyFacts ==
  ASSUME Base, NEW f \in Frame, Obey(f), UNCHANGED last,
         NEW b \in Actuators, NEW x \in {"power", "mode"}, x \notin astray'[b]
  PROVE  /\ x \notin astray[b]
         /\ ~Of(f, b, x) => Holds(b, x)' = Holds(b, x)
         /\ Of(f, b, x) /\ f.id = Newest(b, x) => Holds(b, x)'
<1>1. f.act \in Actuators
  BY FrameFacts
<1>2. x \notin astray[b]
  BY LostFacts DEF Obey
<1>3. f.act = b /\ f.id = Newest(b, x) /\ x = "mode" /\ f.id.op = "mode" => ~motor[b].on
  BY DEF Obey, Lost, Newest, Aspects, PowerOps, Base, TypeOK
<1>4. motor'[b].on = IF f.act = b /\ f.id.op \in PowerOps THEN f.id.op = "enable" ELSE motor[b].on
  BY <1>1 DEF Obey, Base, TypeOK
<1>5. motor'[b].mode = IF f.act = b /\ f.id.op = "mode" /\ ~motor[b].on THEN f.id.mode
                       ELSE motor[b].mode
  BY <1>1 DEF Obey, Base, TypeOK
<1>6. CASE x = "power"
  BY <1>2, <1>4, <1>6 DEF Of, Aspects, Holds, Newest
<1>7. CASE x = "mode"
  BY <1>2, <1>3, <1>5, <1>7 DEF Of, Aspects, Holds, Newest, PowerOps
<1> QED
  BY <1>6, <1>7

(* The head of the queue leaves: if it was the last of its aspect it was    *)
(* the newest, and then the motor obeys it, or it goes astray.              *)
LEMMA SocketStep ==
  ASSUME Base, AspectInv, Socket
  PROVE  AspectInv'
<1> DEFINE f == tx_queue[1]
           n == Len(tx_queue)
<1>1. /\ f \in Frame /\ n \in Nat \ {0}
      /\ DOMAIN tx_queue = 1 .. n /\ DOMAIN tx_queue' = 1 .. n - 1
      /\ \A i \in 1 .. n - 1 : tx_queue'[i] = tx_queue[i + 1]
      /\ UNCHANGED <<inHand, last>>
      /\ Obey(f) \/ (Lost(f) /\ UNCHANGED motor)
  BY TakeStep DEF Socket, Deliver, Lose, Base
<1> SUFFICES ASSUME NEW b \in Actuators, NEW x \in {"power", "mode"},
                    x \notin astray'[b], Newest(b, x) # Nothing
             PROVE  HandsHoldNewest(b, x)' /\ (InHands(b, x)' \/ Arrives(b, x)')
  BY <1>1 DEF AspectInv, Newest
<1>2. /\ x \notin astray[b]
      /\ ~Of(f, b, x) => Holds(b, x)' = Holds(b, x)
      /\ Of(f, b, x) /\ f.id = Newest(b, x) => Holds(b, x)'
  <2>1. CASE Obey(f)
    BY <1>1, <2>1, ObeyFacts
  <2>2. CASE Lost(f) /\ UNCHANGED motor
    BY <1>1, <2>2, LostFacts DEF Holds
  <2> QED
    BY <1>1, <2>1, <2>2
<1> HIDE DEF f, n
<1>3. f = tx_queue[1]
  BY DEF f
<1>4. HandsHoldNewest(b, x) /\ (InHands(b, x) \/ Arrives(b, x))
  BY <1>2 DEF AspectInv
<1>5. HandsHoldNewest(b, x)' /\ (InHands(b, x) => InHands(b, x)')
  BY <1>1, <1>4 DEF HandsHoldNewest, InHands, Of, Newest
<1>6. ASSUME Arrives(b, x) PROVE Arrives(b, x)'
  <2>1. ASSUME NEW i \in DOMAIN tx_queue', Last(i, b, x)'
        PROVE  tx_queue'[i].id = Newest(b, x)
    <3>1. i + 1 \in 1 .. n /\ tx_queue'[i] = tx_queue[i + 1]
      BY <1>1
    <3>2. \A j \in 1 .. n : j > i + 1 => j - 1 \in 1 .. n - 1 /\ j - 1 > i
                                         /\ tx_queue'[j - 1] = tx_queue[j]
      BY <1>1
    <3>3. Last(i + 1, b, x)
      BY <1>1, <2>1, <3>1, <3>2 DEF Last, Of
    <3> QED
      BY <1>1, <1>6, <3>1, <3>3 DEF Arrives
  <2>2. ASSUME \A i \in DOMAIN tx_queue' : ~Of(tx_queue'[i], b, x)
        PROVE  Holds(b, x)'
    <3>1. \A j \in 1 .. n : j # 1 => ~Of(tx_queue[j], b, x)
      <4> SUFFICES ASSUME NEW j \in 1 .. n, j # 1 PROVE ~Of(tx_queue[j], b, x)
        OBVIOUS
      <4>1. j - 1 \in 1 .. n - 1 /\ tx_queue'[j - 1] = tx_queue[j]
        BY <1>1
      <4> QED
        BY <1>1, <2>2, <4>1
    <3>2. CASE Of(f, b, x)
      <4>1. Last(1, b, x) /\ 1 \in DOMAIN tx_queue
        BY <1>1, <1>3, <3>1, <3>2 DEF Last
      <4>2. f.id = Newest(b, x)
        BY <1>3, <1>6, <4>1 DEF Arrives
      <4> QED
        BY <1>2, <3>2, <4>2
    <3>3. CASE ~Of(f, b, x)
      <4>1. Holds(b, x)
        BY <1>1, <1>3, <1>6, <3>1, <3>3 DEF Arrives
      <4> QED
        BY <1>2, <3>3, <4>1
    <3> QED
      BY <3>2, <3>3
  <2>3. Newest(b, x)' = Newest(b, x)
    BY <1>1 DEF Newest
  <2> QED
    BY <2>1, <2>2, <2>3 DEF Arrives, Of
<1> QED
  BY <1>4, <1>5, <1>6

LEMMA NextAspect ==
  ASSUME Base, AspectInv, [Next]_vars
  PROVE  AspectInv'
<1>1. CASE UNCHANGED <<inHand, tx_queue, last, astray, motor>>
  BY <1>1, AspectUntouched
<1>2. ASSUME NEW a \in Actuators, Set(a) PROVE AspectInv'
  BY <1>1, <1>2 DEF Set, Mailbox!Post
<1>3. ASSUME NEW c \in Clients, NEW a \in Actuators, Power(c, a) PROVE AspectInv'
  <2>1. PICK op \in PowerOps, n \in Numbers :
          Mailbox!Issue(c, a, Cmd(op, n, BadMode)) /\ Given(c, a, Cmd(op, n, BadMode))
    BY <1>3 DEF Power
  <2>2. Cmd(op, n, BadMode) \in OneShot /\ UNCHANGED motor
    BY <1>3 DEF Power, OneShot
  <2> QED
    BY <2>1, <2>2, GiveStep
<1>4. ASSUME NEW c \in Clients, NEW a \in Actuators, SetMode(c, a) PROVE AspectInv'
  <2>1. PICK mode \in Modes, n \in Numbers :
          Mailbox!Issue(c, a, Cmd("mode", n, mode)) /\ Given(c, a, Cmd("mode", n, mode))
    BY <1>4 DEF SetMode
  <2>2. Cmd("mode", n, mode) \in OneShot /\ UNCHANGED motor
    BY <1>4 DEF SetMode, OneShot
  <2> QED
    BY <2>1, <2>2, GiveStep
<1>5. ASSUME NEW c \in Clients, Verify(c) PROVE AspectInv'
  BY <1>1, <1>5 DEF Verify, bus, history
<1>6. CASE StartStop
  BY <1>1, <1>6 DEF StartStop, bus, history
<1> QED
  BY <1>1, <1>2, <1>3, <1>4, <1>5, <1>6, RejectStep, FireStep, RepeatStep, SocketStep
  DEF Next, Finish, vars, bus, history

-------------------------------------------------------------------------------
(* Setpoints and stops. *)
OrderInv == OnceInv /\ StopInv /\ SlotInv /\ QueueInv /\ NoOldSetpointMoves

(* Nothing of setpoints and stops changes. *)
LEMMA OrderUntouched ==
  ASSUME OrderInv, UNCHANGED <<mailbox, inHand, tx_queue, stamp, stopped_by, motor>>
  PROVE  OrderInv'
  BY DEF OrderInv, OnceInv, StopInv, SlotInv, QueueInv, NoOldSetpointMoves, NewerThanStops,
         IsStop, FromLoop

LEMMA NewerStill ==
  ASSUME Base, NEW a \in Actuators, NEW m \in Nat, NEW k \in Nat, m <= k, NewerThanStops(a, m)
  PROVE  NewerThanStops(a, k)
<1>1. stopped_by[a] \in Nat
  BY DEF Base, TypeOK
<1>2. \A c \in Clients : \A f \in inHand[c] : f.id.n \in Nat
  BY FrameFacts, CommandFacts DEF Base, TypeOK
<1>3. \A i \in DOMAIN tx_queue : tx_queue[i].id.n \in Nat
  BY FrameFacts, CommandFacts DEF Base, TypeOK
<1> QED
  BY <1>1, <1>2, <1>3 DEF NewerThanStops

(* Set: the slot gets a setpoint with a number nobody has had yet. *)
LEMMA SetOrder ==
  ASSUME Base, OrderInv, NEW a \in Actuators, Set(a)
  PROVE  OrderInv'
<1>1. PICK n \in Numbers : Number(a, n) /\ Mailbox!Post(a, Cmd("setpoint", n, BadMode))
  BY DEF Set
<1>2. stamp[a] \in Nat /\ n = stamp[a] + 1 /\ n \in Nat /\ stamp' = [stamp EXCEPT ![a] = n]
  BY <1>1, NumberFacts DEF Base
<1>3. /\ mailbox' = [mailbox EXCEPT ![a] = Cmd("setpoint", n, BadMode)]
      /\ UNCHANGED <<inHand, tx_queue, stopped_by, motor>>
  BY <1>1 DEF Set, Mailbox!Post
<1>4. \A b \in Actuators, m \in Nat : NewerThanStops(b, m)' <=> NewerThanStops(b, m)
  BY <1>3 DEF NewerThanStops, IsStop
<1>5. ASSUME NEW b \in Actuators
      PROVE  NewerThanStops(b, stamp'[b] + 1)
  <2>1. stamp[b] + 1 \in Nat /\ stamp'[b] + 1 \in Nat /\ stamp[b] + 1 <= stamp'[b] + 1
    BY <1>2 DEF Base, TypeOK
  <2> QED
    BY <2>1, NewerStill DEF OrderInv, StopInv
<1>6. ASSUME NEW b \in Actuators, mailbox'[b] # Nothing
      PROVE  NewerThanStops(b, mailbox'[b].n) /\ mailbox'[b].n \in Nat
  <2>1. CASE b = a
    BY <1>2, <1>3, <2>1 DEF OrderInv, StopInv, Base, TypeOK, Cmd
  <2>2. CASE b # a
    BY <1>3, <1>6, <2>2, CommandFacts DEF OrderInv, SlotInv, Base, TypeOK
  <2> QED
    BY <2>1, <2>2
<1>7. StopInv'
  <2>1. \A b \in Actuators : stamp'[b] + 1 \in Nat
    BY <1>2 DEF Base, TypeOK
  <2> QED
    BY <1>4, <1>5, <2>1 DEF StopInv
<1>8. SlotInv'
  BY <1>4, <1>6 DEF SlotInv
<1> QED
  BY <1>3, <1>7, <1>8 DEF OrderInv, OnceInv, QueueInv, NoOldSetpointMoves, IsStop, FromLoop

(* A call takes a frame in hand: a stop is the newest command there is, and *)
(* the slot is empty.                                                       *)
LEMMA IssueOrder ==
  ASSUME Base, OrderInv, NEW c \in Clients, NEW a \in Actuators, NEW cmd \in Command,
         Mailbox!Issue(c, a, cmd), NEW n, Number(a, n), cmd.op = "stop" => cmd.n = n,
         UNCHANGED <<stopped_by, motor>>
  PROVE  OrderInv'
<1> DEFINE g == Mailbox!Whole(a, "once", cmd)
<1>1. stamp[a] \in Nat /\ n = stamp[a] + 1 /\ n \in Nat /\ stamp' = [stamp EXCEPT ![a] = n]
  BY NumberFacts DEF Base
<1>2. g.act = a /\ g.id = cmd /\ g.via = "once"
  BY WholeFrame
<1>3. /\ inHand'[c] = {g} /\ \A d \in Clients \ {c} : inHand'[d] = inHand[d]
      /\ mailbox' = [mailbox EXCEPT ![a] = Nothing]
      /\ UNCHANGED tx_queue
  BY DEF Mailbox!Issue, Base, TypeOK
<1> HIDE DEF g
<1>4. ASSUME NEW b \in Actuators, NEW m \in Nat, NewerThanStops(b, m), b = a => n < m
      PROVE  NewerThanStops(b, m)'
  <2>1. ASSUME NEW d \in Clients, NEW f \in inHand'[d], IsStop(f, b)
        PROVE  f.id.n < m
    <3>1. CASE d = c
      BY <1>2, <1>3, <1>4, <2>1, <3>1 DEF IsStop
    <3>2. CASE d # c
      BY <1>3, <1>4, <2>1, <3>2 DEF NewerThanStops
    <3> QED
      BY <3>1, <3>2
  <2> QED
    BY <1>3, <1>4, <2>1 DEF NewerThanStops, IsStop
<1>5. StopInv'
  <2> SUFFICES ASSUME NEW b \in Actuators PROVE NewerThanStops(b, stamp[b] + 1)'
    BY DEF StopInv
  <2>1. stamp[b] + 1 \in Nat /\ stamp'[b] + 1 \in Nat /\ stamp[b] + 1 <= stamp'[b] + 1
    BY <1>1 DEF Base, TypeOK
  <2>2. b = a => n < stamp'[b] + 1
    BY <1>1 DEF Base, TypeOK
  <2>3. NewerThanStops(b, stamp'[b] + 1)
    BY <2>1, NewerStill DEF OrderInv, StopInv
  <2>4. \A m \in Nat : m = stamp'[b] + 1 => NewerThanStops(b, m)'
    BY <1>4, <2>2, <2>3
  <2> QED
    BY <2>1, <2>4 DEF NewerThanStops, IsStop
<1>6. SlotInv'
  <2> SUFFICES ASSUME NEW b \in Actuators, mailbox'[b] # Nothing
               PROVE  NewerThanStops(b, mailbox[b].n)'
    BY DEF SlotInv
  <2>1. b # a /\ mailbox'[b] = mailbox[b]
    BY <1>3 DEF Base, TypeOK
  <2>2. mailbox[b].n \in Nat /\ NewerThanStops(b, mailbox[b].n)
    BY <2>1, CommandFacts DEF OrderInv, SlotInv, Base, TypeOK
  <2>3. \A m \in Nat : m = mailbox'[b].n => NewerThanStops(b, m)'
    BY <1>4, <2>1, <2>2
  <2> QED
    BY <2>1, <2>2, <2>3 DEF NewerThanStops, IsStop
<1>7. OnceInv'
  BY <1>2, <1>3 DEF OrderInv, OnceInv
<1> QED
  BY <1>3, <1>5, <1>6, <1>7 DEF OrderInv, QueueInv, NoOldSetpointMoves, IsStop, FromLoop

(* The queue grows by a frame from a hand, or by a setpoint that is newer   *)
(* than every stop.                                                         *)
LEMMA AppendOrder ==
  ASSUME Base, OrderInv, NEW f, Appended(f),
         UNCHANGED <<mailbox, stamp, stopped_by, motor>>,
         \A c \in Clients : inHand'[c] \subseteq inHand[c],
         \/ f.via = "once" /\ \E c \in Clients : f \in inHand[c]
         \/ \E a \in Actuators : f.act = a /\ f.id.op # "stop" /\ NewerThanStops(a, f.id.n)
  PROVE  OrderInv'
<1> DEFINE n == Len(tx_queue)
<1>1. /\ n \in Nat /\ DOMAIN tx_queue = 1 .. n /\ DOMAIN tx_queue' = 1 .. n + 1
      /\ \A i \in 1 .. n : tx_queue'[i] = tx_queue[i]
      /\ tx_queue'[n + 1] = f
  BY DEF Appended
<1> HIDE DEF n
<1>2. ASSUME NEW b \in Actuators, NEW m \in Nat, NewerThanStops(b, m)
      PROVE  NewerThanStops(b, m)'
  <2>1. IsStop(f, b) => f.id.n < m
    BY <1>2 DEF NewerThanStops, IsStop
  <2>2. ASSUME NEW i \in 1 .. n + 1, IsStop(tx_queue'[i], b)
        PROVE  tx_queue'[i].id.n < m
    BY <1>1, <1>2, <2>1, <2>2 DEF NewerThanStops
  <2> QED
    BY <1>1, <1>2, <2>2 DEF NewerThanStops, IsStop
<1>3. StopInv'
  <2>1. \A b \in Actuators : stamp[b] + 1 \in Nat
    BY DEF Base, TypeOK
  <2>2. \A b \in Actuators, m \in Nat : m = stamp[b] + 1 => NewerThanStops(b, m)'
    BY <1>2 DEF OrderInv, StopInv
  <2> QED
    BY <2>1, <2>2 DEF StopInv, NewerThanStops, IsStop
<1>4. SlotInv'
  <2> SUFFICES ASSUME NEW b \in Actuators, mailbox[b] # Nothing
               PROVE  NewerThanStops(b, mailbox[b].n)'
    BY DEF SlotInv
  <2>1. mailbox[b].n \in Nat /\ NewerThanStops(b, mailbox[b].n)
    BY CommandFacts DEF OrderInv, SlotInv, Base, TypeOK
  <2>2. \A m \in Nat : m = mailbox[b].n => NewerThanStops(b, m)'
    BY <1>2, <2>1
  <2> QED
    BY <2>1, <2>2 DEF NewerThanStops, IsStop
<1>5. QueueInv'
  <2> SUFFICES ASSUME NEW b \in Actuators, NEW i \in 1 .. n + 1, FromLoop(tx_queue'[i], b)
               PROVE  /\ stopped_by[b] < tx_queue'[i].id.n
                      /\ \A j \in 1 .. n + 1 : j < i /\ IsStop(tx_queue'[j], b)
                            => tx_queue'[j].id.n < tx_queue'[i].id.n
    BY <1>1 DEF QueueInv, FromLoop, IsStop
  <2>1. CASE i \in 1 .. n
    BY <1>1, <2>1 DEF OrderInv, QueueInv
  <2>2. CASE i = n + 1
    <3>1. NewerThanStops(b, f.id.n)
      BY <1>1, <2>2 DEF FromLoop
    <3>2. \A j \in 1 .. n + 1 : j < i => j \in 1 .. n
      BY <1>1, <2>2
    <3> QED
      BY <1>1, <2>2, <3>1, <3>2 DEF NewerThanStops
  <2> QED
    BY <1>1, <2>1, <2>2
<1>6. OnceInv' /\ NoOldSetpointMoves'
  BY DEF OrderInv, OnceInv, NoOldSetpointMoves
<1> QED
  BY <1>3, <1>4, <1>5, <1>6 DEF OrderInv

LEMMA FireOrder ==
  ASSUME Base, OrderInv, NEW c \in Clients, Fire(c)
  PROVE  OrderInv'
<1>1. PICK f \in Frame :
        /\ inHand[c] = {f} /\ inHand' = [inHand EXCEPT ![c] = {}]
        /\ UNCHANGED tx_queue \/ Appended(f)
        /\ UNCHANGED <<mailbox, stamp, stopped_by, motor>>
  BY FireShape
<1>2. inHand'[c] = {} /\ \A d \in Clients \ {c} : inHand'[d] = inHand[d]
  BY <1>1 DEF Base, TypeOK
<1>3. CASE UNCHANGED tx_queue
  <2>1. \A b \in Actuators : \A m : NewerThanStops(b, m) => NewerThanStops(b, m)'
    BY <1>1, <1>2, <1>3 DEF NewerThanStops, IsStop
  <2>2. StopInv' /\ SlotInv'
    BY <1>1, <2>1 DEF OrderInv, StopInv, SlotInv, NewerThanStops, IsStop
  <2> QED
    BY <1>1, <1>2, <1>3, <2>2
    DEF OrderInv, OnceInv, QueueInv, NoOldSetpointMoves, IsStop, FromLoop
<1>4. CASE Appended(f)
  <2>1. f.via = "once" /\ f \in inHand[c]
    BY <1>1 DEF OrderInv, OnceInv
  <2> QED
    BY <1>1, <1>2, <1>4, <2>1, AppendOrder
<1> QED
  BY <1>1, <1>3, <1>4

LEMMA RepeatOrder ==
  ASSUME Base, OrderInv, NEW a \in Actuators, Repeat(a)
  PROVE  OrderInv'
<1>1. PICK f :
        /\ f.act = a /\ f.id = mailbox[a] /\ mailbox[a] \in Periodic
        /\ UNCHANGED tx_queue \/ Appended(f)
        /\ UNCHANGED <<mailbox, inHand, stamp, stopped_by, motor>>
  BY RepeatShape DEF Base
<1>2. CASE UNCHANGED tx_queue
  BY <1>1, <1>2, OrderUntouched
<1>3. CASE Appended(f)
  <2>1. f.id.op # "stop" /\ mailbox[a] # Nothing
    BY <1>1, Aspectless, CommandFacts
  <2>2. NewerThanStops(a, f.id.n)
    BY <1>1, <2>1 DEF OrderInv, SlotInv
  <2> QED
    BY <1>1, <1>3, <2>1, <2>2, AppendOrder
<1> QED
  BY <1>1, <1>2, <1>3

(* The head of the queue leaves.  A stop that the motor obeys was queued    *)
(* before every setpoint that is left, and the motor's target is gone.      *)
LEMMA SocketOrder ==
  ASSUME Base, OrderInv, Socket
  PROVE  OrderInv'
<1> DEFINE f == tx_queue[1]
           n == Len(tx_queue)
<1>1. /\ f \in Frame /\ n \in Nat \ {0}
      /\ DOMAIN tx_queue = 1 .. n /\ DOMAIN tx_queue' = 1 .. n - 1
      /\ \A i \in 1 .. n - 1 : tx_queue'[i] = tx_queue[i + 1] /\ i + 1 \in 1 .. n
      /\ UNCHANGED <<mailbox, inHand, stamp>>
      /\ Obey(f) \/ UNCHANGED <<stopped_by, motor>>
  BY TakeStep DEF Socket, Deliver, Lose, Base
<1> HIDE DEF f, n
<1>2. f = tx_queue[1] /\ 1 \in 1 .. n
  BY <1>1 DEF f
<1>3. \A b \in Actuators : \/ stopped_by'[b] = stopped_by[b]
                           \/ IsStop(f, b) /\ stopped_by'[b] = f.id.n
  BY <1>1, FrameFacts DEF Obey, IsStop, Base, TypeOK
<1>4. ASSUME NEW b \in Actuators, NEW m, NewerThanStops(b, m)
      PROVE  /\ stopped_by'[b] < m
             /\ \A c \in Clients : \A g \in inHand[c] : IsStop(g, b) => g.id.n < m
             /\ \A i \in 1 .. n - 1 : IsStop(tx_queue'[i], b) => tx_queue'[i].id.n < m
  BY <1>1, <1>2, <1>3, <1>4 DEF NewerThanStops
<1>5. StopInv' /\ SlotInv'
  BY <1>1, <1>4 DEF OrderInv, StopInv, SlotInv, NewerThanStops, IsStop
<1>6. QueueInv'
  <2> SUFFICES ASSUME NEW b \in Actuators, NEW i \in 1 .. n - 1, FromLoop(tx_queue'[i], b)
               PROVE  /\ stopped_by'[b] < tx_queue'[i].id.n
                      /\ \A j \in 1 .. n - 1 : j < i /\ IsStop(tx_queue'[j], b)
                            => tx_queue'[j].id.n < tx_queue'[i].id.n
    BY <1>1 DEF QueueInv, FromLoop, IsStop
  <2>1. FromLoop(tx_queue[i + 1], b) /\ tx_queue'[i] = tx_queue[i + 1]
        /\ i + 1 \in 1 .. n /\ 1 < i + 1
    BY <1>1
  <2>2. /\ stopped_by[b] < tx_queue[i + 1].id.n
        /\ \A j \in 1 .. n : j < i + 1 /\ IsStop(tx_queue[j], b)
              => tx_queue[j].id.n < tx_queue[i + 1].id.n
    BY <1>1, <2>1 DEF OrderInv, QueueInv
  <2>3. stopped_by'[b] < tx_queue'[i].id.n
    BY <1>2, <1>3, <2>1, <2>2
  <2>4. ASSUME NEW j \in 1 .. n - 1, j < i, IsStop(tx_queue'[j], b)
        PROVE  tx_queue'[j].id.n < tx_queue'[i].id.n
    <3>1. j + 1 \in 1 .. n /\ j + 1 < i + 1 /\ tx_queue'[j] = tx_queue[j + 1]
      BY <1>1, <2>4
    <3> QED
      BY <2>1, <2>2, <2>4, <3>1
  <2> QED
    BY <2>3, <2>4
<1>7. NoOldSetpointMoves'
  <2> SUFFICES ASSUME NEW b \in Actuators, motor'[b].target # Idle, motor'[b].target.via = "loop"
               PROVE  stopped_by'[b] < motor'[b].target.n
    BY FrameFacts, CommandFacts, NextType DEF NoOldSetpointMoves
  <2>1. CASE UNCHANGED <<stopped_by, motor>>
    BY <2>1 DEF OrderInv, NoOldSetpointMoves, Base, TypeOK
  <2>2. CASE Obey(f)
    <3>1. motor'[b].target = IF f.act # b THEN motor[b].target
                             ELSE IF f.id.op = "stop" THEN Idle
                             ELSE IF f.id.op = "setpoint" /\ motor[b].on
                             THEN [n |-> f.id.n, via |-> f.via]
                             ELSE motor[b].target
      BY <1>1, <2>2, FrameFacts DEF Obey, Base, TypeOK
    <3>2. ~IsStop(f, b)
      BY <3>1 DEF IsStop
    <3>3. stopped_by'[b] = stopped_by[b]
      BY <1>3, <3>2
    <3>4. CASE motor'[b].target = motor[b].target
      BY <3>3, <3>4 DEF OrderInv, NoOldSetpointMoves, Base, TypeOK
    <3>5. CASE f.act = b /\ motor'[b].target = [n |-> f.id.n, via |-> f.via]
      <4>1. FromLoop(f, b)
        BY <3>5 DEF FromLoop
      <4> QED
        BY <1>1, <1>2, <3>3, <3>5, <4>1 DEF OrderInv, QueueInv
    <3> QED
      BY <3>1, <3>4, <3>5
  <2> QED
    BY <1>1, <2>1, <2>2
<1> QED
  BY <1>1, <1>5, <1>6, <1>7 DEF OrderInv, OnceInv

LEMMA NextOrder ==
  ASSUME Base, OrderInv, [Next]_vars
  PROVE  OrderInv'
<1>1. CASE UNCHANGED <<mailbox, inHand, tx_queue, stamp, stopped_by, motor>>
  BY <1>1, OrderUntouched
<1>2. ASSUME NEW c \in Clients, NEW a \in Actuators, Power(c, a) PROVE OrderInv'
  <2>1. PICK op \in PowerOps, n \in Numbers :
          Mailbox!Issue(c, a, Cmd(op, n, BadMode)) /\ Given(c, a, Cmd(op, n, BadMode))
    BY <1>2 DEF Power
  <2>2. /\ Cmd(op, n, BadMode) \in Command /\ Cmd(op, n, BadMode).n = n
        /\ UNCHANGED <<stopped_by, motor>> /\ Number(a, n)
    BY <1>2, <2>1, CommandFacts DEF Power, OneShot, Cmd, Given
  <2> QED
    BY <2>1, <2>2, IssueOrder
<1>3. ASSUME NEW c \in Clients, NEW a \in Actuators, SetMode(c, a) PROVE OrderInv'
  <2>1. PICK mode \in Modes, n \in Numbers :
          Mailbox!Issue(c, a, Cmd("mode", n, mode)) /\ Given(c, a, Cmd("mode", n, mode))
    BY <1>3 DEF SetMode
  <2>2. /\ Cmd("mode", n, mode) \in Command /\ Cmd("mode", n, mode).n = n
        /\ UNCHANGED <<stopped_by, motor>> /\ Number(a, n)
    BY <1>3, <2>1, CommandFacts DEF SetMode, OneShot, Cmd, Given
  <2> QED
    BY <2>1, <2>2, IssueOrder
<1>4. ASSUME NEW c \in Clients, NEW a \in Actuators, RejectMode(c, a) PROVE OrderInv'
  <2>1. PICK n \in Numbers : Number(a, n)
    BY <1>4 DEF RejectMode
  <2>2. mailbox[a] \in Command /\ mailbox[a].op # "stop"
    BY Aspectless, CommandFacts DEF Base, TypeOK
  <2>3. Mailbox!Issue(c, a, mailbox[a]) /\ UNCHANGED <<stopped_by, motor>>
    BY <1>4 DEF RejectMode
  <2> QED
    BY <2>1, <2>2, <2>3, IssueOrder
<1>5. ASSUME NEW c \in Clients, Verify(c) PROVE OrderInv'
  BY <1>1, <1>5 DEF Verify, bus, history
<1>6. CASE StartStop
  BY <1>1, <1>6 DEF StartStop, bus, history
<1> QED
  BY <1>1, <1>2, <1>3, <1>4, <1>5, <1>6, SetOrder, FireOrder, RepeatOrder, SocketOrder
  DEF Next, Finish, vars, bus, history

-------------------------------------------------------------------------------
IInv == Base /\ ModeInv /\ AspectInv /\ OrderInv

LEMMA InitIInv == Init => IInv
<1> SUFFICES ASSUME Init PROVE IInv
  OBVIOUS
<1>1. /\ mailbox = [a \in Actuators |-> Nothing]
      /\ inHand = [c \in Clients |-> {}]
      /\ tx_queue = <<>> /\ DOMAIN tx_queue = {}
      /\ tx_queue \in Seq(Frame) /\ Len(tx_queue) <= TxQueueSize
  BY PathAssumption DEF Init, Mailbox!Init
<1>2. Base
  <2>1. Idle \in [n : 0 .. MaxCommands, via : {"once", "loop"}]
    BY PathAssumption DEF Idle
  <2>2. motor \in [Actuators -> [on : BOOLEAN, mode : Modes,
                                 target : [n : 0 .. MaxCommands, via : {"once", "loop"}]]]
    BY <2>1 DEF Init
  <2>3. last \in [Actuators -> [power : Command, mode : Command]]
    BY CommandFacts DEF Init
  <2>4. /\ stamp \in [Actuators -> 0 .. MaxCommands]
        /\ stopped_by \in [Actuators -> 0 .. MaxCommands]
    BY PathAssumption DEF Init
  <2>5. /\ current_mode \in [Actuators -> Modes \cup {BadMode}]
        /\ is_running \in BOOLEAN
        /\ astray \in [Actuators -> SUBSET {"power", "mode"}]
        /\ call \in [Clients -> [act : Actuators, mode : Modes \cup {BadMode}, rival : BOOLEAN]
                                  \cup {NoCall}]
    BY PathAssumption DEF Init
  <2> QED
    BY <1>1, <2>2, <2>3, <2>4, <2>5 DEF Base, TypeOK, HandInv
<1>3. ModeInv
  BY PathAssumption DEF Init, ModeInv
<1>4. AspectInv
  BY DEF Init, AspectInv, Newest
<1>5. OrderInv
  <2>1. \A a \in Actuators : motor[a].target = Idle /\ stopped_by[a] = 0 /\ stamp[a] = 0
    BY DEF Init
  <2>2. StopInv
    <3> SUFFICES ASSUME NEW a \in Actuators PROVE NewerThanStops(a, stamp[a] + 1)
      BY DEF StopInv
    <3>1. stopped_by[a] < stamp[a] + 1
      BY <2>1
    <3>2. \A c \in Clients : inHand[c] = {}
      BY <1>1
    <3> QED
      BY <1>1, <3>1, <3>2 DEF NewerThanStops
  <2> QED
    BY <1>1, <2>1, <2>2 DEF OrderInv, OnceInv, SlotInv, QueueInv, NoOldSetpointMoves
<1> QED
  BY <1>2, <1>3, <1>4, <1>5 DEF IInv

LEMMA NextIInv == IInv /\ [Next]_vars => IInv'
  BY NextType, NextTracks, NextAspect, NextOrder DEF IInv

(* The invariant holds in every reachable state. *)
LEMMA Invariance == SafetySpec => []IInv
  BY InitIInv, NextIInv, PTL DEF SafetySpec

(* Every variable keeps its type. *)
THEOREM TypeCorrect == SafetySpec => []TypeOK
<1>1. IInv => TypeOK
  BY DEF IInv, Base
<1> QED
  BY <1>1, Invariance, PTL

(* The calls, the loop, the socket and the motors do to a bus only what a   *)
(* mailbox does: every step is one of its steps or leaves the bus alone. So *)
(* what is proved of the mailbox, which CanBusSend implements, is what this *)
(* module sees of the bus; nothing else is assumed about it.                *)
THEOREM PathUsesMailbox == SafetySpec => Mailbox!Spec
<1>1. Init => Mailbox!Init
  BY DEF Init
<1>2. ASSUME IInv, [Next]_vars PROVE [Mailbox!Next]_Mailbox!vars
  <2>0. TypeOK
    BY <1>2 DEF IInv, Base
  <2>1. ASSUME NEW a \in Actuators, Set(a) PROVE Mailbox!Next
    <3>1. PICK n \in Numbers : Mailbox!Post(a, Cmd("setpoint", n, BadMode))
      BY <2>1 DEF Set
    <3>2. Cmd("setpoint", n, BadMode) \in Periodic
      BY DEF Periodic
    <3> QED
      BY <3>1, <3>2 DEF Mailbox!Next
  <2>2. ASSUME NEW c \in Clients, NEW a \in Actuators, NEW cmd \in OneShot \cup Periodic \cup {Nothing},
               Mailbox!Issue(c, a, cmd)
        PROVE  Mailbox!Next
    BY <2>2 DEF Mailbox!Next
  <2>3. ASSUME NEW c \in Clients, NEW a \in Actuators, Power(c, a) PROVE Mailbox!Next
    <3>1. PICK op \in PowerOps, n \in Numbers : Mailbox!Issue(c, a, Cmd(op, n, BadMode))
      BY <2>3 DEF Power
    <3>2. Cmd(op, n, BadMode) \in OneShot
      BY DEF OneShot
    <3> QED
      BY <2>2, <3>1, <3>2
  <2>4. ASSUME NEW c \in Clients, NEW a \in Actuators, SetMode(c, a) PROVE Mailbox!Next
    <3>1. PICK mode \in Modes, n \in Numbers : Mailbox!Issue(c, a, Cmd("mode", n, mode))
      BY <2>4 DEF SetMode
    <3>2. Cmd("mode", n, mode) \in OneShot
      BY DEF OneShot
    <3> QED
      BY <2>2, <3>1, <3>2
  <2>5. ASSUME NEW c \in Clients, NEW a \in Actuators, RejectMode(c, a) PROVE Mailbox!Next
    <3>1. Mailbox!Issue(c, a, mailbox[a]) /\ mailbox[a] \in Periodic \cup {Nothing}
      BY <2>0, <2>5 DEF RejectMode, TypeOK
    <3> QED
      BY <2>2, <3>1
  <2>6. ASSUME NEW c \in Clients, Fire(c) PROVE Mailbox!Next
    BY <2>6 DEF Fire, Mailbox!Next
  <2>7. ASSUME NEW a \in Actuators, Repeat(a) PROVE Mailbox!Next
    BY <2>7 DEF Repeat, Mailbox!Next
  <2>8. ASSUME Socket PROVE Mailbox!Next
    BY <2>8 DEF Socket, Deliver, Lose, Mailbox!Next
  <2>9. ASSUME (\E c \in Clients : Verify(c)) \/ StartStop \/ UNCHANGED vars
        PROVE  UNCHANGED Mailbox!vars
    BY <2>9 DEF Verify, StartStop, vars, bus, Mailbox!vars
  <2> QED
    BY <1>2, <2>1, <2>3, <2>4, <2>5, <2>6, <2>7, <2>8, <2>9 DEF Next, Finish
<1> QED
  BY <1>1, <1>2, Invariance, PTL DEF SafetySpec, Mailbox!Spec

(* When its commands have arrived a motor is on or off as the last call     *)
(* asked for: a SendOnce that transmits outside the lock is no exception,   *)
(* unless two of them were under way at once or the frame was lost.         *)
THEOREM LastPowerCallWins == SafetySpec => []LastCallWins
<1>1. IInv => LastCallWins
  <2> SUFFICES ASSUME IInv, NEW a \in Actuators, Settled(a, "power"), "power" \notin astray[a],
                      last[a].power # Nothing
               PROVE  motor[a].on = (last[a].power.op = "enable")
    BY DEF LastCallWins
  <2>1. InHands(a, "power") \/ Arrives(a, "power")
    BY DEF IInv, AspectInv, Newest
  <2>2. ~InHands(a, "power") /\ \A i \in DOMAIN tx_queue : ~Of(tx_queue[i], a, "power")
    BY DEF Settled, InHands, Of
  <2> QED
    BY <2>1, <2>2 DEF Arrives, Holds
<1> QED
  BY <1>1, Invariance, PTL

(* The tracked mode is the mode of the motor, once nothing is on its way.   *)
THEOREM TrackedModeIsTheMotors == SafetySpec => []ModeIsTracked
<1>1. IInv => ModeIsTracked
  <2> SUFFICES ASSUME IInv, NEW a \in Actuators, Settled(a, "mode"), "mode" \notin astray[a],
                      last[a].mode # Nothing
               PROVE  motor[a].mode = current_mode[a]
    BY DEF ModeIsTracked
  <2>1. InHands(a, "mode") \/ Arrives(a, "mode")
    BY DEF IInv, AspectInv, Newest
  <2>2. ~InHands(a, "mode") /\ \A i \in DOMAIN tx_queue : ~Of(tx_queue[i], a, "mode")
    BY DEF Settled, InHands, Of
  <2>3. current_mode[a] = last[a].mode.mode
    BY DEF IInv, ModeInv
  <2> QED
    BY <2>1, <2>2, <2>3 DEF Arrives, Holds
<1> QED
  BY <1>1, Invariance, PTL

(* SetMode answers for its own mode, unless a rival set one since. *)
THEOREM SetModeAnswersRight == SafetySpec => []SetModeAnswers
<1>1. IInv => SetModeAnswers
  <2> SUFFICES ASSUME IInv, NEW c \in Clients, Verifies(c)
               PROVE  IF call[c].mode = BadMode THEN ~Answer(c) ELSE Answer(c) \/ call[c].rival
    BY DEF SetModeAnswers
  <2>1. call[c].act \in Actuators /\ call[c] # NoCall
    BY DEF IInv, Base, TypeOK, Verifies
  <2>2. current_mode[call[c].act] # BadMode
    BY <2>1, PathAssumption DEF IInv, ModeInv
  <2> QED
    BY <2>1, <2>2 DEF IInv, ModeInv, Answer
<1> QED
  BY <1>1, Invariance, PTL

(* A stop leaves no setpoint behind, whatever starts and stops of the       *)
(* control loop follow it.                                                  *)
THEOREM StopForgetsSetpoints == SafetySpec => []NoOldSetpointMoves
<1>1. IInv => NoOldSetpointMoves
  BY DEF IInv, OrderInv
<1> QED
  BY <1>1, Invariance, PTL
===============================================================================
