------------------------- MODULE Onboarding_proofs -------------------------
EXTENDS Onboarding, SequenceTheorems, TLAPS

-----------------------------------------------------------------------------
(* Types                                                                    *)

Messages == [kind : {"connect", "gone", "state"}, dev : Robots]
TaskRecords == [kind : Kinds, at : Places, dev : Robots, todo : SUBSET Robots,
                full : BOOLEAN, ctx : Nat, gen : Nat]

LEMMA FreeIsATask == Free \in TaskRecords
  BY RobotsAssumption DEF Free, TaskRecords, Kinds, Places

LEMMA HearTypes ==
  ASSUME TypeOK, NEW msgs \in Seq(Messages), Hear(msgs)
  PROVE  inbox' \in Seq(Messages)
<1>1. inbox \in Seq(Messages)
  BY DEF TypeOK, Messages
<1>2. inbox \o msgs \in Seq(Messages)
  BY <1>1
<1> QED
  BY <1>1, <1>2 DEF Hear

LEMMA TaskFields ==
  ASSUME TypeOK, NEW k \in Tasks
  PROVE  /\ task[k] \in TaskRecords
         /\ task[k].kind \in Kinds /\ task[k].at \in Places /\ task[k].dev \in Robots
         /\ task[k].todo \subseteq Robots /\ task[k].full \in BOOLEAN
         /\ task[k].ctx \in Nat /\ task[k].gen \in Nat
<1>1. task[k] \in TaskRecords
  BY DEF TypeOK, TaskRecords
<1> QED
  BY <1>1 DEF TaskRecords

(* Whatever a step writes into a task leaves it a task. *)
LEMMA TaskEdits ==
  ASSUME TypeOK, NEW k \in Tasks, NEW place \in Places
  PROVE  /\ \A ahead \in SUBSET Robots :
              [task EXCEPT ![k].at = place, ![k].todo = ahead] \in [Tasks -> TaskRecords]
         /\ \A d \in Robots, ahead \in SUBSET Robots :
              [task EXCEPT ![k].dev = d, ![k].todo = ahead, ![k].at = place]
                \in [Tasks -> TaskRecords]
         /\ \A b \in BOOLEAN :
              [task EXCEPT ![k].at = place, ![k].full = b] \in [Tasks -> TaskRecords]
         /\ \A n \in Nat :
              [task EXCEPT ![k].at = place, ![k].ctx = n] \in [Tasks -> TaskRecords]
<1>1. task \in [Tasks -> TaskRecords]
  BY DEF TypeOK, TaskRecords
<1>2. ASSUME NEW r \in TaskRecords, NEW ahead \in SUBSET Robots
      PROVE  [[r EXCEPT !.at = place] EXCEPT !.todo = ahead] \in TaskRecords
  BY DEF TaskRecords
<1>3. ASSUME NEW r \in TaskRecords, NEW d \in Robots, NEW ahead \in SUBSET Robots
      PROVE  [[[r EXCEPT !.dev = d] EXCEPT !.todo = ahead] EXCEPT !.at = place] \in TaskRecords
  BY DEF TaskRecords
<1>4. ASSUME NEW r \in TaskRecords, NEW b \in BOOLEAN
      PROVE  [[r EXCEPT !.at = place] EXCEPT !.full = b] \in TaskRecords
  BY DEF TaskRecords
<1>5. ASSUME NEW r \in TaskRecords, NEW n \in Nat
      PROVE  [[r EXCEPT !.at = place] EXCEPT !.ctx = n] \in TaskRecords
  BY DEF TaskRecords
<1> QED
  BY <1>1, <1>2, <1>3, <1>4, <1>5

(* A task that moves is a task. *)
LEMMA MoveTypes ==
  ASSUME TypeOK, NEW k \in Tasks, NEW place \in Places, Move(k, place)
  PROVE  task' \in [Tasks -> TaskRecords]
<1>1. task \in [Tasks -> TaskRecords]
  BY DEF TypeOK, TaskRecords
<1>2. ASSUME NEW r \in TaskRecords PROVE [r EXCEPT !.at = place] \in TaskRecords
  BY DEF TaskRecords
<1> QED
  BY <1>1, <1>2 DEF Move

LEMMA StartTypes ==
  ASSUME TypeOK, NEW what \in TaskRecords, StartTimer(what)
  PROVE  task' \in [Tasks -> TaskRecords]
  BY DEF TypeOK, TaskRecords, StartTimer

LEMMA InitTypes == Init => TypeOK
  BY FreeIsATask DEF Init, TypeOK, TaskRecords

LEMMA StepTypes ==
  ASSUME TypeOK, NEW k \in Tasks, Step(k)
  PROVE  TypeOK'
<1> USE DEF TypeOK
<1>1. ASSUME Expire(k) PROVE TypeOK'
  <2>1. task' \in [Tasks -> TaskRecords]
    BY <1>1, MoveTypes DEF Expire, Places
  <2> QED
    BY <1>1, <2>1 DEF Expire, TaskRecords, robotSide, beliefs, disk, history, counts
<1>2. ASSUME ListRobots(k) PROVE TypeOK'
  <2>1. task' \in [Tasks -> TaskRecords]
    <3> DEFINE todo == CASE task[k].kind = "resume" -> {d \in roster \ seen : Permitted(d)}
                         [] task[k].kind = "pick" -> robots
                         [] OTHER -> {task[k].dev} \cap robots
    <3>1. task' = [task EXCEPT ![k].at = "next", ![k].todo = todo]
      BY <1>2 DEF ListRobots
    <3>2. todo \in SUBSET Robots
      OBVIOUS
    <3>3. "next" \in Places
      BY DEF Places
    <3> HIDE DEF todo
    <3> QED
      BY <3>1, <3>2, <3>3, TaskEdits
  <2> QED
    BY <1>2, <2>1 DEF ListRobots, TaskRecords, robotSide, beliefs, disk, history, counts
<1>3. ASSUME Take(k) PROVE TypeOK'
  <2>1. task' \in [Tasks -> TaskRecords]
    <3>1. CASE task[k].todo = {}
      BY <1>3, <3>1, MoveTypes DEF Take, Places
    <3>2. CASE task[k].todo # {}
      <4>1. PICK d \in task[k].todo :
              task' = [task EXCEPT ![k].dev = d, ![k].todo = @ \ {d},
                        ![k].at = IF task[k].kind = "pick" THEN "ask" ELSE "decide"]
        BY <1>3, <3>2 DEF Take
      <4>2. d \in Robots /\ task[k].todo \ {d} \in SUBSET Robots
        BY TaskFields
      <4>3. (IF task[k].kind = "pick" THEN "ask" ELSE "decide") \in Places
        BY DEF Places
      <4> QED
        BY <4>1, <4>2, <4>3, TaskEdits
    <3> QED
      BY <3>1, <3>2
  <2> QED
    BY <1>3, <2>1 DEF Take, TaskRecords, robotSide, beliefs, disk, history, counts
<1>4. ASSUME DecideConfig(k) PROVE TypeOK'
  <2>1. task' \in [Tasks -> TaskRecords]
    <3>1. Permitted(task[k].dev) \in BOOLEAN
      BY DEF Permitted
    <3>2. task' = [task EXCEPT ![k].at = "push", ![k].full = Permitted(task[k].dev)]
      BY <1>4 DEF DecideConfig
    <3>3. "push" \in Places
      BY DEF Places
    <3> QED
      BY <3>1, <3>2, <3>3, TaskEdits
  <2> QED
    BY <1>4, <2>1 DEF DecideConfig, TaskRecords, robotSide, beliefs, disk, history, counts
<1>5. ASSUME PushConfig(k) PROVE TypeOK'
  <2>1. task' \in [Tasks -> TaskRecords]
    BY <1>5, MoveTypes DEF PushConfig, Places
  <2> QED
    BY <1>5, <2>1 DEF PushConfig, Published, TaskRecords, beliefs, disk, counts
<1>6. ASSUME AskForMic(k) PROVE TypeOK'
  <2>1. task' \in [Tasks -> TaskRecords]
    <3>1. CASE NextRobot(k)
      BY <3>1, MoveTypes DEF NextRobot, Places
    <3>2. CASE ~NextRobot(k)
      <4>1. PICK n \in Nat : task' = [task EXCEPT ![k].at = "send", ![k].ctx = n]
        BY <1>6, <3>2, TaskFields DEF AskForMic
      <4>2. "send" \in Places
        BY DEF Places
      <4> QED
        BY <4>1, <4>2, TaskEdits
    <3> QED
      BY <3>1, <3>2
  <2> QED
    BY <1>6, <2>1 DEF AskForMic, TaskRecords, robotSide, beliefs, disk, history, counts
<1>7. ASSUME CheckSeen(k) PROVE TypeOK'
  <2>1. task' \in [Tasks -> TaskRecords]
    BY <1>7, MoveTypes DEF CheckSeen, NextRobot, Places
  <2> QED
    BY <1>7, <2>1 DEF CheckSeen, TaskRecords, robotSide, beliefs, disk, history, counts
<1>8. ASSUME RecordAsk(k) PROVE TypeOK'
  <2>1. task' \in [Tasks -> TaskRecords]
    BY <1>8, MoveTypes DEF RecordAsk, NextRobot, Places
  <2> QED
    <3>1. latch' \in [Robots -> BOOLEAN] /\ late' \subseteq Robots /\ over' \subseteq Tasks
      <4> DEFINE d == task[k].dev
      <4>1. d \in Robots
        BY TaskFields
      <4>2. over' \subseteq Tasks
        BY <1>8 DEF RecordAsk
      <4>3. /\ latch' = latch \/ latch' = [latch EXCEPT ![d] = TRUE]
            /\ late' \in {late, late \cup {d}, late \ {d}}
        BY <1>8 DEF RecordAsk
      <4> HIDE DEF d
      <4> QED
        BY <4>1, <4>2, <4>3
    <3> QED
      BY <1>8, <2>1, <3>1 DEF RecordAsk, TaskRecords, robotSide, disk, counts
<1>9. ASSUME ForgetAsk(k) PROVE TypeOK'
  <2>1. task' \in [Tasks -> TaskRecords]
    BY <1>9, MoveTypes DEF ForgetAsk, NextRobot, Places
  <2> QED
    <3>1. latch' \in [Robots -> BOOLEAN] /\ late' \subseteq Robots
      BY <1>9 DEF ForgetAsk
    <3> QED
      BY <1>9, <2>1, <3>1 DEF ForgetAsk, TaskRecords, robotSide, disk, counts
<1>10. ASSUME NEW accepted \in BOOLEAN, SendAsk(k, accepted) PROVE TypeOK'
  <2>1. task' \in [Tasks -> TaskRecords]
    BY <1>10, MoveTypes DEF SendAsk, NextRobot, Places
  <2> QED
    BY <1>10, <2>1 DEF SendAsk, TaskRecords, beliefs, disk, counts
<1> QED
  BY <1>1, <1>2, <1>3, <1>4, <1>5, <1>6, <1>7, <1>8, <1>9, <1>10 DEF Step

LEMMA NextTypes ==
  ASSUME TypeOK, [Next]_vars
  PROVE  TypeOK'
<1> USE DEF TypeOK
<1>1. ASSUME NEW d \in Robots, RobotConnects(d) PROVE TypeOK'
  <2>1. inbox' \in Seq(Messages)
    <3>1. <<[kind |-> "connect", dev |-> d]>> \in Seq(Messages)
      BY DEF Messages
    <3> QED
      BY <1>1, <3>1, HearTypes DEF RobotConnects
  <2> QED
    BY <1>1, <2>1 DEF RobotConnects, Messages, beliefs, disk, history
<1>2. ASSUME NEW d \in Robots, NEW b \in BOOLEAN, RobotDrops(d, b) PROVE TypeOK'
  <2>1. inbox' \in Seq(Messages)
    <3>1. <<[kind |-> "gone", dev |-> d]>> \in Seq(Messages) /\ << >> \in Seq(Messages)
      BY DEF Messages
    <3> QED
      BY <1>2, <3>1, HearTypes DEF RobotDrops
  <2> QED
    BY <1>2, <2>1 DEF RobotDrops, Messages, beliefs, disk, counts
<1>3. ASSUME NEW d \in Robots, RobotReports(d) PROVE TypeOK'
  <2>1. inbox' \in Seq(Messages)
    <3>1. <<[kind |-> "state", dev |-> d]>> \in Seq(Messages)
      BY DEF Messages
    <3> QED
      BY <1>3, <3>1, HearTypes DEF RobotReports
  <2> QED
    BY <1>3, <2>1 DEF RobotReports, Messages, robotSide, beliefs, disk, history, counts
<1>4. ASSUME NEW d \in Robots, SetTranscriber(d) PROVE TypeOK'
  <2>1. task' \in [Tasks -> TaskRecords]
    BY <1>4, FreeIsATask DEF SetTranscriber, Request, TaskRecords, Kinds, Places
  <2> QED
    BY <1>4, <2>1 DEF SetTranscriber, TaskRecords, robotSide, beliefs, disk
<1>5. ASSUME NEW d \in Robots, NEW b \in BOOLEAN, SetPermit(d, b) PROVE TypeOK'
  <2>1. task' \in [Tasks -> TaskRecords]
    BY <1>5, FreeIsATask DEF SetPermit, Request, TaskRecords, Kinds, Places
  <2> QED
    BY <1>5, <2>1 DEF SetPermit, TaskRecords, robotSide, beliefs
<1>6. ASSUME OnConnect PROVE TypeOK'
  <2>1. ResumeFor(gen + 1) \in TaskRecords
    <3>1. gen + 1 \in Nat
      OBVIOUS
    <3> QED
      BY <3>1, FreeIsATask DEF ResumeFor, TaskRecords, Kinds, Places
  <2>2. task' \in [Tasks -> TaskRecords]
    BY <1>6, <2>1, StartTypes DEF OnConnect
  <2> QED
    BY <1>6, <2>2 DEF OnConnect, TaskRecords, robotSide, beliefs, disk, counts
<1>7. ASSUME OnMessage PROVE TypeOK'
  <2>1. inbox' \in Seq(Messages) /\ Head(inbox) \in Messages
    <3>1. inbox \in Seq(Messages) /\ inbox # << >> /\ inbox' = Tail(inbox)
      BY <1>7 DEF OnMessage, Messages
    <3> QED
      BY <3>1
  <2>2. SettleFor(Head(inbox).dev) \in TaskRecords
    BY <2>1, FreeIsATask DEF SettleFor, TaskRecords, Messages, Places
  <2>3. CASE DeviceDisconnect(Head(inbox))
    BY <1>7, <2>1, <2>3 DEF OnMessage, DeviceDisconnect, Overtake, Messages, robotSide, counts
  <2>4. CASE DeviceConnect(Head(inbox))
    <3>1. task' \in [Tasks -> TaskRecords]
      BY <2>2, <2>4, StartTypes DEF DeviceConnect, TaskRecords
    <3>2. Head(inbox).dev \in Robots
      BY <2>1 DEF Messages
    <3>3. /\ robots' \subseteq Robots /\ seen' \subseteq robots' /\ roster' \subseteq Robots
          /\ life' \in [Robots -> Nat] /\ latch' \in [Robots -> BOOLEAN]
      <4> DEFINE d == Head(inbox).dev
      <4>1. CASE UNCHANGED <<beliefs, roster>>
        BY <4>1 DEF beliefs
      <4>2. CASE /\ robots' = robots \cup {d} /\ seen' = seen \cup {d}
                 /\ roster' = roster \cup {d}
                 /\ life' = life \/ life' = [life EXCEPT ![d] = @ + 1]
                 /\ latch' = latch \/ latch' = [latch EXCEPT ![d] = FALSE]
        <5> HIDE DEF d
        <5>1. /\ robots' \subseteq Robots /\ seen' \subseteq robots'
              /\ roster' \subseteq Robots
          BY <3>2, <4>2 DEF d
        <5>2. life' \in [Robots -> Nat]
          <6>1. d \in Robots /\ life \in [Robots -> Nat] /\ life[d] + 1 \in Nat
            BY <3>2 DEF d
          <6>2. life' = life \/ life' = [life EXCEPT ![d] = life[d] + 1]
            BY <4>2
          <6> QED
            BY <6>1, <6>2
        <5>3. latch' \in [Robots -> BOOLEAN]
          BY <4>2
        <5> QED
          BY <5>1, <5>2, <5>3
      <4> QED
        BY <2>4, <4>1, <4>2 DEF DeviceConnect
    <3> QED
      <4>1. over' \subseteq Tasks /\ late' \subseteq Robots
        BY <2>4 DEF DeviceConnect, Overtake
      <4> QED
        BY <1>7, <2>1, <3>1, <3>3, <4>1 DEF OnMessage, Messages, TaskRecords, robotSide, counts
  <2> QED
    BY <1>7, <2>3, <2>4 DEF OnMessage
<1>8. ASSUME Suback \/ OnDisconnect \/ SocketLost PROVE TypeOK'
  <2>1. CASE Suback
    BY <2>1 DEF Suback, robotSide, beliefs, disk, history, counts
  <2>2. CASE OnDisconnect
    <3>1. inbox' \in Seq(Messages) /\ latch' \in [Robots -> BOOLEAN]
      BY <2>2 DEF OnDisconnect
    <3>2. over' \subseteq Tasks /\ late' \subseteq Robots
      BY <2>2 DEF OnDisconnect, Overtake
    <3> QED
      BY <2>2, <3>1, <3>2 DEF OnDisconnect, Messages, robotSide, disk, counts
  <2>3. CASE SocketLost
    BY <2>3 DEF SocketLost, robotSide, beliefs, disk
  <2> QED
    BY <1>8, <2>1, <2>2, <2>3
<1>9. ASSUME Restart PROVE TypeOK'
  BY <1>9, FreeIsATask DEF Restart, TaskRecords, robotSide, disk
<1>10. ASSUME UNCHANGED vars PROVE TypeOK'
  BY <1>10 DEF vars, robotSide, beliefs, disk, history, counts
<1> QED
  BY <1>1, <1>2, <1>3, <1>4, <1>5, <1>6, <1>7, <1>8, <1>9, <1>10, StepTypes DEF Next, Loop

THEOREM TypeCorrect == Spec => []TypeOK
  BY InitTypes, NextTypes, PTL DEF Spec

-----------------------------------------------------------------------------
(* The inductive invariant.  Quiet is the end of a chase: what has to hold  *)
(* before it is that someone is on the way to every robot that is due a     *)
(* config or an ask and was not sent one.                                   *)

Known(d) == net = "up" /\ d \in seen /\ on[d]

Connecting(d) == \E i \in DOMAIN inbox : inbox[i].kind = "connect" /\ inbox[i].dev = d

AtPush == {"decide", "push"}
AtSend == {"decide", "push", "ask", "send"}
BeforePush == AtPush \cup {"wait"}
BeforeSend == AtSend \cup {"wait"}
Settling(d, places) ==
  \E k \in Timers : task[k].kind = "settle" /\ task[k].dev = d /\ task[k].at \in places

Walking == Places \ {"free", "wait", "list"}

(* The request of the console will come to robot d, or is at it. *)
Comes(d, places) ==
  \/ task["http"].at = "list"
  \/ task["http"].at \in Walking /\ d \in task["http"].todo
  \/ task["http"].at \in places /\ task["http"].dev = d
Clicked(d, kinds, places) ==
  /\ task["http"].kind \in kinds
  /\ task["http"].at = "list" => task["http"].dev = d
  /\ Comes(d, places)
Picking(d) == task["http"].kind = "pick" /\ Comes(d, {"ask", "send"})

(* A resume will come to d, or is at it. *)
ResumeComes(k, d, places) ==
  /\ task[k].kind = "resume"
  /\ \/ task[k].at = "wait" /\ task[k].gen = gen
     \/ task[k].at = "list"
     \/ task[k].at \in Walking /\ d \in task[k].todo
     \/ task[k].at \in places /\ task[k].dev = d
Resuming(d, places) == \E k \in Timers : ResumeComes(k, d, places)

(* What we believe of a connection starts with its SUBACK. *)
FreshLink == net \in {"down", "deaf"} => inbox = << >> /\ seen = {}

(* Only a revoke forgets an ask, and it stands until it is done. *)
RevokeStands ==
  \A k \in Tasks :
    /\ task[k].at = "forget" => task[k].kind = "revoke"
    /\ task[k].kind = "revoke" /\ task[k].at # "free" =>
         k = "http" /\ task[k].dev \notin permits /\ task[k].todo \subseteq {task[k].dev}

(* A pick passes over a latched robot: unless it came too late, a record    *)
(* has to stand for an ask that arrived in the session the robot is in.     *)
Backed(d) ==
  \/ latch[d] /\ d \notin late
  \/ \E k \in Tasks \ over : task[k].dev = d /\ task[k].at \in {"record", "latch"}
LatchIsTrue(d) == Known(d) /\ Backed(d) => mic[d] \/ Connecting(d)

(* The latch of a robot not heard of on this connection can only be late.   *)
UnseenIsLate(d) ==
  d \notin seen => /\ latch[d] => d \in late
                   /\ \A k \in Tasks : task[k].dev = d /\ task[k].at = "latch" => k \in over

(* Someone who asks whatever the latch says is on the way, or was there.    *)
Due(d) == Known(d) /\ d \in permits /\ stt
Covered(d) ==
  \/ mic[d] \/ Connecting(d) \/ Settling(d, BeforeSend)
  \/ Clicked(d, {"permit"}, AtSend)
AskOnItsWay(d) == Due(d) => Covered(d) \/ Picking(d) \/ d \in late

Publishing(d) ==
  \/ Connecting(d) \/ Settling(d, BeforePush)
  \/ Clicked(d, {"permit", "revoke"}, AtPush)
ConfigOnItsWay(d) == Known(d) => Configured(d) \/ Publishing(d)

(* A robot that sits is not about to be struck off, and the resume of this  *)
(* connection finds it unless it speaks first.                              *)
SatStays(d) ==
  d \in sat => /\ on[d] /\ net \in {"deaf", "up"}
               /\ \A i \in DOMAIN inbox : ~(inbox[i].kind = "gone" /\ inbox[i].dev = d)
Silent(d) == d \in sat /\ d \in roster \ seen /\ d \in permits
SilentIsResumed(d) ==
  Silent(d) => /\ Configured(d) \/ Resuming(d, AtPush)
               /\ stt => mic[d] \/ d \in late \/ Resuming(d, AtSend)

RobotInv(d) ==
  /\ UnseenIsLate(d) /\ LatchIsTrue(d) /\ AskOnItsWay(d)
  /\ ConfigOnItsWay(d) /\ SatStays(d) /\ SilentIsResumed(d)
ServeInv == TypeOK /\ FreshLink /\ RevokeStands /\ \A d \in Robots : RobotInv(d)

LEMMA ServeInvInit == Init => ServeInv
<1> SUFFICES ASSUME Init PROVE ServeInv
  OBVIOUS
<1>1. FreshLink /\ RevokeStands
  BY DEF Init, FreshLink, RevokeStands, Free
<1>2. ASSUME NEW d \in Robots PROVE RobotInv(d)
  BY DEF Init, RobotInv, UnseenIsLate, LatchIsTrue, AskOnItsWay, ConfigOnItsWay, SatStays,
         SilentIsResumed, Silent, Due, Known, Free
<1> QED
  BY <1>1, <1>2, InitTypes DEF ServeInv

-----------------------------------------------------------------------------
(* What a step of a task does.                                              *)

(* What every step of a task leaves alone. *)
LEMMA StepFrame ==
  ASSUME TypeOK, NEW k \in Tasks, Step(k)
  PROVE  /\ UNCHANGED <<net, inbox, on, robots, life, seen, gen, stt, roster, permits,
                        sat, sessions, outages, restarts, clicks>>
         /\ \A j \in Tasks \ {k} : task'[j] = task[j]
         /\ task'[k].kind = task[k].kind
         /\ \A d \in Robots : mic[d] => mic'[d]
<1> USE DEF TypeOK, TaskRecords
<1>1. CASE Expire(k)
  BY <1>1 DEF Expire, Move, robotSide, beliefs, disk, history, counts
<1>2. CASE ListRobots(k)
  BY <1>2 DEF ListRobots, robotSide, beliefs, disk, history, counts
<1>3. CASE Take(k)
  BY <1>3 DEF Take, Move, robotSide, beliefs, disk, history, counts
<1>4. CASE DecideConfig(k)
  BY <1>4 DEF DecideConfig, robotSide, beliefs, disk, history, counts
<1>5. CASE PushConfig(k)
  BY <1>5 DEF PushConfig, Move, beliefs, disk, counts
<1>6. CASE AskForMic(k)
  BY <1>6 DEF AskForMic, NextRobot, Move, robotSide, beliefs, disk, history, counts
<1>7. CASE CheckSeen(k)
  BY <1>7 DEF CheckSeen, NextRobot, Move, robotSide, beliefs, disk, history, counts
<1>8. CASE RecordAsk(k)
  BY <1>8 DEF RecordAsk, NextRobot, Move, robotSide, disk, counts
<1>9. CASE ForgetAsk(k)
  BY <1>9 DEF ForgetAsk, NextRobot, Move, robotSide, disk, counts
<1>10. ASSUME NEW accepted \in BOOLEAN, SendAsk(k, accepted)
       PROVE  /\ UNCHANGED <<net, inbox, on, robots, life, seen, gen, stt, roster, permits,
                             sat, sessions, outages, restarts, clicks>>
              /\ \A j \in Tasks \ {k} : task'[j] = task[j]
              /\ task'[k].kind = task[k].kind
              /\ \A d \in Robots : mic[d] => mic'[d]
  BY <1>10 DEF SendAsk, NextRobot, Move, beliefs, disk, counts
<1> QED
  BY <1>1, <1>2, <1>3, <1>4, <1>5, <1>6, <1>7, <1>8, <1>9, <1>10 DEF Step

(* A step as its effect on the fields of its task, place by place. *)
Steady(k) == task'[k].dev = task[k].dev /\ task'[k].todo = task[k].todo

LEMMA StepEffect ==
  ASSUME TypeOK, NEW k \in Tasks, Step(k)
  PROVE  /\ task[k].at # "free"
         /\ task[k].at = "wait" =>
              /\ Steady(k)
              /\ task[k].kind = "settle" => task'[k].at = "decide"
              /\ task[k].kind # "settle" => task'[k].at \in {"list", "free"}
         /\ task[k].at = "list" =>
              /\ task'[k].dev = task[k].dev /\ task'[k].at = "next"
              /\ task[k].kind = "pick" => task'[k].todo = robots
              /\ task[k].kind = "permit" => task'[k].todo = {task[k].dev} \cap robots
         /\ task[k].at = "next" =>
              \/ task[k].todo = {} /\ task'[k].at = "free"
              \/ \E d \in task[k].todo :
                   /\ task'[k].dev = d /\ task'[k].todo = task[k].todo \ {d}
                   /\ task'[k].at = IF task[k].kind = "pick" THEN "ask" ELSE "decide"
         /\ task[k].at = "decide" =>
              /\ Steady(k) /\ task'[k].at = "push"
              /\ task'[k].full = Permitted(task[k].dev)
         /\ task[k].at = "push" =>
              Steady(k) /\ task'[k].at = IF task[k].kind = "revoke" THEN "forget" ELSE "ask"
         /\ task[k].at = "ask" =>
              /\ Steady(k) /\ task'[k].at \in {"send", "next"}
              /\ task'[k].at = "send" => stt /\ Permitted(task[k].dev)
              /\ stt /\ Permitted(task[k].dev) /\ task'[k].at = "next" =>
                   /\ task[k].dev \in robots /\ latch[task[k].dev]
                   /\ task[k].kind \notin {"settle", "permit"}
         /\ task[k].at = "send" =>
              /\ Steady(k) /\ task'[k].at \in {"record", "next"}
              /\ Reaches(task[k].dev) => mic'[task[k].dev]
         /\ task[k].at = "record" => Steady(k) /\ task'[k].at \in {"latch", "next"}
         /\ task[k].at \in {"latch", "forget"} => Steady(k) /\ task'[k].at = "next"
         /\ \A d \in Robots : latch'[d] =>
              latch[d] \/ (task[k].at = "latch" /\ task[k].dev = d)
<1> DEFINE rec == task[k]
           new == task'[k]
<1> USE DEF At, Steady
<1>0. task \in [Tasks -> TaskRecords] /\ rec \in TaskRecords
  BY DEF TypeOK, TaskRecords
<1>1. CASE Expire(k)
  <2>1. /\ rec.at = "wait" /\ latch' = latch /\ Steady(k)
        /\ new.at = IF rec.kind = "settle" THEN "decide" ELSE IF rec.gen = gen THEN "list" ELSE "free"
    BY <1>0, <1>1 DEF Expire, Move, TaskRecords, beliefs
  <2> QED
    BY <2>1
<1>2. CASE ListRobots(k)
  <2>1. /\ rec.at = "list" /\ latch' = latch /\ new.dev = rec.dev /\ new.at = "next"
        /\ new.todo = CASE rec.kind = "resume" -> {d \in roster \ seen : Permitted(d)}
                        [] rec.kind = "pick" -> robots
                        [] OTHER -> {rec.dev} \cap robots
    BY <1>0, <1>2 DEF ListRobots, TaskRecords, beliefs
  <2> QED
    BY <2>1
<1>3. CASE Take(k)
  <2>1. rec.at = "next" /\ latch' = latch
    BY <1>3 DEF Take, beliefs
  <2>2. CASE rec.todo = {}
    <3>1. new.at = "free"
      BY <1>0, <1>3, <2>2 DEF Take, Move, TaskRecords
    <3> QED
      BY <2>1, <2>2, <3>1
  <2>3. CASE rec.todo # {}
    <3>1. PICK d \in rec.todo :
            task' = [task EXCEPT ![k].dev = d, ![k].todo = @ \ {d},
                      ![k].at = IF rec.kind = "pick" THEN "ask" ELSE "decide"]
      BY <1>3, <2>3 DEF Take
    <3>2. /\ new.dev = d /\ new.todo = rec.todo \ {d}
          /\ new.at = IF rec.kind = "pick" THEN "ask" ELSE "decide"
      BY <1>0, <3>1 DEF TaskRecords
    <3> QED
      BY <2>1, <3>2
  <2> QED
    BY <2>2, <2>3
<1>4. CASE DecideConfig(k)
  <2>1. /\ rec.at = "decide" /\ latch' = latch /\ Steady(k) /\ new.at = "push"
        /\ new.full = Permitted(rec.dev)
    BY <1>0, <1>4 DEF DecideConfig, TaskRecords, beliefs
  <2> QED
    BY <2>1
<1>5. CASE PushConfig(k)
  <2>1. /\ rec.at = "push" /\ latch' = latch /\ Steady(k)
        /\ new.at = IF rec.kind = "revoke" THEN "forget" ELSE "ask"
    BY <1>0, <1>5 DEF PushConfig, Move, TaskRecords, beliefs
  <2> QED
    BY <2>1
<1>6. CASE AskForMic(k)
  <2>1. rec.at = "ask" /\ latch' = latch /\ Steady(k)
    BY <1>0, <1>6 DEF AskForMic, NextRobot, Move, TaskRecords, beliefs
  <2>2. CASE stt /\ Permitted(rec.dev) /\
             ~(rec.dev \in robots /\ latch[rec.dev] /\ rec.kind \notin {"settle", "permit"})
    <3>1. new.at = "send"
      BY <1>0, <1>6, <2>2 DEF AskForMic, TaskRecords
    <3> QED
      BY <2>1, <2>2, <3>1
  <2>3. CASE ~(stt /\ Permitted(rec.dev) /\
               ~(rec.dev \in robots /\ latch[rec.dev] /\ rec.kind \notin {"settle", "permit"}))
    <3>1. new.at = "next"
      BY <1>0, <1>6, <2>3 DEF AskForMic, NextRobot, Move, TaskRecords
    <3> QED
      BY <2>1, <2>3, <3>1
  <2> QED
    BY <2>2, <2>3
<1>7. CASE CheckSeen(k)
  <2>1. /\ rec.at = "record" /\ latch' = latch /\ Steady(k) /\ new.at \in {"latch", "next"}
    BY <1>0, <1>7 DEF CheckSeen, NextRobot, Move, TaskRecords, beliefs
  <2> QED
    BY <2>1
<1>8. CASE RecordAsk(k)
  <2>1. rec.at = "latch" /\ Steady(k) /\ new.at = "next"
    BY <1>0, <1>8 DEF RecordAsk, NextRobot, Move, TaskRecords
  <2>2. \A d \in Robots : latch'[d] => latch[d] \/ rec.dev = d
    BY <1>8 DEF RecordAsk, TypeOK
  <2> QED
    BY <2>1, <2>2
<1>9. CASE ForgetAsk(k)
  <2>1. rec.at = "forget" /\ Steady(k) /\ new.at = "next"
    BY <1>0, <1>9 DEF ForgetAsk, NextRobot, Move, TaskRecords
  <2>2. \A d \in Robots : latch'[d] => latch[d]
    BY <1>9 DEF ForgetAsk, TypeOK
  <2> QED
    BY <2>1, <2>2
<1>10. CASE \E accepted \in BOOLEAN : SendAsk(k, accepted)
  <2>1. rec.at = "send" /\ latch' = latch /\ Steady(k) /\ new.at \in {"record", "next"}
    BY <1>0, <1>10 DEF SendAsk, NextRobot, Move, TaskRecords, beliefs
  <2>2. Reaches(rec.dev) => mic'[rec.dev]
    BY <1>10, TaskFields DEF SendAsk, TypeOK
  <2> QED
    BY <2>1, <2>2
<1> QED
  BY <1>1, <1>2, <1>3, <1>4, <1>5, <1>6, <1>7, <1>8, <1>9, <1>10 DEF Step

(* A publication leaves the robot it reaches configured for its permit, or  *)
(* on the books as outdated; nothing else a task does changes a config.     *)
LEMMA PushEffect ==
  ASSUME TypeOK, NEW k \in Tasks, Step(k), NEW d \in Robots
  PROVE  /\ Configured(d) => Configured(d)'
         /\ task[k].at = "push" /\ task[k].dev = d /\ Reaches(d) => Configured(d)'
<1>1. permits' = permits
  BY StepFrame
<1>2. CASE PushConfig(k)
  <2>1. task[k].dev \in Robots
    BY TaskFields
  <2>2. CASE task[k].dev = d /\ Reaches(d)
    <3>1. config'[d] = IF task[k].full THEN "full" ELSE "minimal"
      BY <1>2, <2>2 DEF PushConfig, TypeOK
    <3>2. task[k].full # Permitted(d) => d \in outdated'
      BY <1>2, <2>2 DEF PushConfig, Published
    <3>3. task[k].full \in BOOLEAN /\ Permitted(d) \in BOOLEAN /\ (Permitted(d)' <=> Permitted(d))
      BY <1>1, TaskFields DEF Permitted
    <3>4. Configured(d)'
      <4>1. CASE task[k].full = Permitted(d)
        BY <3>1, <3>3, <4>1 DEF Configured
      <4> QED
        BY <3>2, <4>1 DEF Configured
    <3> QED
      BY <3>4
  <2>3. CASE task[k].dev # d \/ ~Reaches(d)
    <3>1. config'[d] = config[d] /\ (d \in outdated' <=> d \in outdated)
      BY <1>2, <2>1, <2>3 DEF PushConfig, Published, TypeOK
    <3> QED
      BY <1>1, <2>3, <3>1 DEF Configured, Permitted
  <2> QED
    BY <2>2, <2>3
<1>3. CASE ~PushConfig(k)
  <2>1. UNCHANGED <<config, outdated>> /\ task[k].at # "push"
    BY <1>3 DEF Step, Expire, ListRobots, Take, DecideConfig, AskForMic, CheckSeen, RecordAsk,
                ForgetAsk, SendAsk, At, robotSide, history
  <2> QED
    BY <1>1, <2>1 DEF Configured, Permitted
<1> QED
  BY <1>2, <1>3

(* What it does to the records of asks and to the books kept of them. *)
LEMMA RecordEffect ==
  ASSUME TypeOK, NEW k \in Tasks, Step(k)
  PROVE  /\ \A j \in Tasks \ {k} : j \in over' <=> j \in over
         /\ task'[k].at = "latch" =>
              /\ task[k].at = "record" /\ task[k].dev \in seen
              /\ k \in over' <=> k \in over
         /\ \A d \in Robots : task[k].at \notin {"latch", "forget"} \/ task[k].dev # d =>
              latch'[d] = latch[d] /\ (d \in late' <=> d \in late)
         /\ task[k].at = "latch" =>
              LET d == task[k].dev IN
              \/ latch'[d] = latch[d] /\ (d \in late' <=> d \in late)
              \/ latch'[d] /\ (d \in late' <=> k \in over /\ (latch[d] => d \in late))
         /\ task[k].at = "forget" => ~latch'[task[k].dev]
<1>0. task \in [Tasks -> TaskRecords] /\ latch \in [Robots -> BOOLEAN] /\ task[k].dev \in Robots
  BY TaskFields DEF TypeOK, TaskRecords
<1> USE DEF At
<1>1. CASE Expire(k)
  BY <1>0, <1>1 DEF Expire, Move, TaskRecords, beliefs, history
<1>2. CASE ListRobots(k)
  BY <1>0, <1>2 DEF ListRobots, TaskRecords, beliefs, history
<1>3. CASE Take(k)
  <2>1. UNCHANGED <<latch, over, late>> /\ task[k].at = "next"
    BY <1>3 DEF Take, beliefs, history
  <2>2. task'[k].at # "latch"
    BY <1>3, <2>1, StepEffect
  <2> QED
    BY <2>1, <2>2
<1>4. CASE DecideConfig(k)
  BY <1>0, <1>4 DEF DecideConfig, TaskRecords, beliefs, history
<1>5. CASE PushConfig(k)
  BY <1>0, <1>5 DEF PushConfig, Move, TaskRecords, beliefs
<1>6. CASE AskForMic(k)
  <2>1. UNCHANGED <<latch, over, late>> /\ task[k].at = "ask"
    BY <1>6 DEF AskForMic, beliefs, history
  <2>2. task'[k].at # "latch"
    BY <2>1, StepEffect
  <2> QED
    BY <2>1, <2>2
<1>7. CASE CheckSeen(k)
  <2>1. UNCHANGED <<latch, late>> /\ task[k].at = "record"
    BY <1>7 DEF CheckSeen, beliefs
  <2>2. CASE task[k].ctx # 0 /\ task[k].dev \in seen
    BY <1>7, <2>1, <2>2 DEF CheckSeen
  <2>3. CASE ~(task[k].ctx # 0 /\ task[k].dev \in seen)
    <3>1. over' = over \ {k} /\ task'[k].at = "next"
      BY <1>0, <1>7, <2>3 DEF CheckSeen, NextRobot, Move, TaskRecords
    <3> QED
      BY <2>1, <3>1
  <2> QED
    BY <2>2, <2>3
<1>8. CASE RecordAsk(k)
  <2>1. task[k].at = "latch" /\ over' = over \ {k} /\ task'[k].at = "next"
    BY <1>0, <1>8 DEF RecordAsk, NextRobot, Move, TaskRecords
  <2>2. \A d \in Robots : task[k].dev # d => latch'[d] = latch[d] /\ (d \in late' <=> d \in late)
    BY <1>0, <1>8 DEF RecordAsk
  <2>3. LET d == task[k].dev IN
        \/ latch'[d] = latch[d] /\ (d \in late' <=> d \in late)
        \/ latch'[d] /\ (d \in late' <=> k \in over /\ (latch[d] => d \in late))
    <3>1. CASE task[k].dev \in robots /\ life[task[k].dev] = task[k].ctx
      BY <1>0, <1>8, <3>1 DEF RecordAsk
    <3>2. CASE ~(task[k].dev \in robots /\ life[task[k].dev] = task[k].ctx)
      BY <1>0, <1>8, <3>2 DEF RecordAsk
    <3> QED
      BY <3>1, <3>2
  <2> QED
    BY <2>1, <2>2, <2>3
<1>9. CASE ForgetAsk(k)
  BY <1>0, <1>9 DEF ForgetAsk, NextRobot, Move, TaskRecords
<1>10. CASE \E accepted \in BOOLEAN : SendAsk(k, accepted)
  <2>1. UNCHANGED <<latch, late>> /\ task[k].at = "send" /\ over' = over \ {k}
    BY <1>10 DEF SendAsk, beliefs
  <2>2. task'[k].at # "latch"
    BY <2>1, StepEffect
  <2> QED
    BY <2>1, <2>2
<1> QED
  BY <1>1, <1>2, <1>3, <1>4, <1>5, <1>6, <1>7, <1>8, <1>9, <1>10 DEF Step

(* Whoever comes to a robot gets to the push and to the ask. *)
LEMMA SettleGoesOn ==
  ASSUME TypeOK, NEW k \in Tasks, Step(k), NEW d \in Robots, Known(d),
         task[k].kind = "settle", task[k].dev = d
  PROVE  /\ task[k].at \in BeforePush =>
              Configured(d)' \/ (task'[k].dev = d /\ task'[k].at \in BeforePush)
         /\ Due(d) /\ task[k].at \in BeforeSend =>
              mic'[d] \/ (task'[k].dev = d /\ task'[k].at \in BeforeSend)
<1>1. Reaches(d)
  BY DEF Known, Reaches
<1>2. task[k].at = "push" => Configured(d)'
  BY <1>1, PushEffect
<1>3. task[k].at \in BeforePush =>
        Configured(d)' \/ (task'[k].dev = d /\ task'[k].at \in BeforePush)
  BY <1>2, StepEffect DEF BeforePush, AtPush, Steady
<1>4. Due(d) /\ task[k].at \in BeforeSend =>
        mic'[d] \/ (task'[k].dev = d /\ task'[k].at \in BeforeSend)
  BY <1>1, StepEffect DEF BeforeSend, AtSend, Steady, Due, Permitted
<1> QED
  BY <1>3, <1>4

LEMMA ClickGoesOn ==
  ASSUME TypeOK, RevokeStands, Step("http"), NEW d \in Robots, Known(d)
  PROVE  /\ Clicked(d, {"permit", "revoke"}, AtPush) =>
              Configured(d)' \/ Clicked(d, {"permit", "revoke"}, AtPush)'
         /\ Due(d) /\ Clicked(d, {"permit"}, AtSend) =>
              mic'[d] \/ Clicked(d, {"permit"}, AtSend)'
         /\ Due(d) /\ Picking(d) => mic'[d] \/ Picking(d)' \/ latch[d]
<1>1. "http" \in Tasks /\ d \in robots /\ Reaches(d)
  BY DEF Tasks, Known, TypeOK, Reaches
<1>2. /\ task["http"].at \in Places /\ task'["http"].kind = task["http"].kind
      /\ task["http"].todo \subseteq Robots
  BY <1>1, TaskFields, StepFrame
<1>3. task["http"].at = "list" /\ task["http"].kind \in {"permit", "revoke"} =>
        task'["http"].todo = {task["http"].dev} \cap robots
  <2>1. CASE ListRobots("http")
    <3>1. task \in [Tasks -> TaskRecords]
      BY DEF TypeOK, TaskRecords
    <3> QED
      BY <1>1, <2>1, <3>1 DEF ListRobots, TaskRecords
  <2>2. CASE ~ListRobots("http")
    BY <2>2 DEF Step, Expire, Take, DecideConfig, PushConfig, AskForMic, CheckSeen, RecordAsk,
                ForgetAsk, SendAsk, At
  <2> QED
    BY <2>1, <2>2
<1>4. ASSUME Clicked(d, {"permit", "revoke"}, AtPush)
      PROVE  Configured(d)' \/ Clicked(d, {"permit", "revoke"}, AtPush)'
  <2>1. task["http"].at = "push" /\ task["http"].dev = d => Configured(d)'
    BY <1>1, PushEffect
  <2> QED
    BY <1>1, <1>2, <1>3, <1>4, <2>1, StepEffect DEF Clicked, Comes, Walking, Places, Steady, AtPush
<1>5. ASSUME Due(d), Clicked(d, {"permit"}, AtSend)
      PROVE  mic'[d] \/ Clicked(d, {"permit"}, AtSend)'
  BY <1>1, <1>2, <1>3, <1>5, StepEffect
     DEF Clicked, Comes, Walking, Places, Steady, Due, Permitted, AtSend
<1>6. ASSUME Due(d), Picking(d) PROVE mic'[d] \/ Picking(d)' \/ latch[d]
  BY <1>1, <1>2, <1>6, StepEffect DEF Picking, Comes, Walking, Places, Steady, Due, Permitted
<1> QED
  BY <1>4, <1>5, <1>6

(* A record follows an ask that arrived. *)
LEMMA RecordsFollowAsks ==
  ASSUME TypeOK, NEW k \in Tasks, Step(k), NEW d \in Robots, Known(d), Backed(d)'
  PROVE  Backed(d) \/ mic'[d]
<1>0. Reaches(d)
  BY DEF Known, Reaches
<1>1. CASE latch'[d] /\ d \notin late'
  <2>1. CASE task[k].at \notin {"latch", "forget"} \/ task[k].dev # d
    BY <1>1, <2>1, RecordEffect DEF Backed
  <2>2. CASE task[k].at = "forget" /\ task[k].dev = d
    BY <1>1, <2>2, RecordEffect
  <2>3. CASE task[k].at = "latch" /\ task[k].dev = d
    <3>1. (latch[d] /\ d \notin late) \/ k \notin over
      BY <1>1, <2>3, RecordEffect
    <3> QED
      BY <2>3, <3>1 DEF Backed
  <2> QED
    BY <2>1, <2>2, <2>3
<1>2. ASSUME NEW j \in Tasks \ over', task'[j].dev = d, task'[j].at \in {"record", "latch"}
      PROVE  Backed(d) \/ mic'[d]
  <2>1. CASE j # k
    BY <1>2, <2>1, StepFrame, RecordEffect DEF Backed
  <2>2. CASE j = k /\ task'[k].at = "latch"
    <3>1. task[k].at = "record" /\ task[k].dev = d /\ k \notin over
      BY <1>2, <2>2, RecordEffect, StepEffect DEF Steady
    <3> QED
      BY <3>1 DEF Backed
  <2>3. CASE j = k /\ task'[k].at = "record"
    <3>1. task[k].at \in Places
      BY TaskFields
    <3>2. task[k].at = "send" /\ task[k].dev = d
      BY <1>2, <2>3, <3>1, StepEffect DEF Places, Steady
    <3> QED
      BY <1>0, <3>2, StepEffect
  <2> QED
    BY <1>2, <2>1, <2>2, <2>3
<1> QED
  BY <1>1, <1>2 DEF Backed

(* A late record stays one as long as nobody takes it away. *)
LEMMA LateStays ==
  ASSUME TypeOK, RevokeStands, NEW k \in Tasks, Step(k), NEW d \in permits, d \in late
  PROVE  d \in late' \/ (k \notin over /\ task[k].at = "latch" /\ task[k].dev = d)
<1>1. d \in Robots
  BY DEF TypeOK
<1>2. ~(task[k].at = "forget" /\ task[k].dev = d)
  BY DEF RevokeStands
<1> QED
  BY <1>1, <1>2, RecordEffect

LEMMA StepKeepsRevokes ==
  ASSUME TypeOK, RevokeStands, NEW k \in Tasks, Step(k)
  PROVE  RevokeStands'
<1>1. /\ permits' = permits /\ task'[k].kind = task[k].kind
      /\ \A j \in Tasks \ {k} : task'[j] = task[j]
  BY StepFrame
<1>2. task[k].at \in Places /\ task[k].kind \in Kinds /\ task[k].at # "free"
  BY TaskFields, StepEffect
<1>3. task'[k].at = "forget" => task[k].at = "push" /\ task[k].kind = "revoke"
  BY <1>2, StepEffect DEF Places, Steady
<1>4. ASSUME task[k].kind = "revoke"
      PROVE  task'[k].dev = task[k].dev /\ task'[k].todo \subseteq {task[k].dev}
  <2>1. task[k].todo \subseteq {task[k].dev}
    BY <1>2, <1>4 DEF RevokeStands
  <2>2. CASE task[k].at = "list"
    <3>1. ListRobots(k)
      BY <2>2 DEF Step, Expire, Take, DecideConfig, PushConfig, AskForMic, CheckSeen, RecordAsk,
                  ForgetAsk, SendAsk, At
    <3>2. task \in [Tasks -> TaskRecords]
      BY DEF TypeOK, TaskRecords
    <3> QED
      BY <1>4, <3>1, <3>2 DEF ListRobots, TaskRecords
  <2>3. CASE Take(k)
    <3>1. task \in [Tasks -> TaskRecords]
      BY DEF TypeOK, TaskRecords
    <3>2. CASE task[k].todo = {}
      <4>1. task' = [task EXCEPT ![k].at = "free"]
        BY <2>3, <3>2 DEF Take, Move
      <4>2. task'[k].dev = task[k].dev /\ task'[k].todo = {}
        BY <3>1, <3>2, <4>1 DEF TaskRecords
      <4> QED
        BY <4>2
    <3>3. CASE task[k].todo # {}
      <4>1. PICK d \in task[k].todo :
              task' = [task EXCEPT ![k].dev = d, ![k].todo = @ \ {d},
                        ![k].at = IF task[k].kind = "pick" THEN "ask" ELSE "decide"]
        BY <2>3, <3>3 DEF Take
      <4>2. task'[k].dev = d /\ task'[k].todo = task[k].todo \ {d}
        BY <3>1, <4>1 DEF TaskRecords
      <4> QED
        BY <2>1, <4>2
    <3> QED
      BY <3>2, <3>3
  <2>4. CASE task[k].at # "list" /\ ~Take(k)
    <3>1. task[k].at # "next"
      BY <2>4 DEF Step, Expire, ListRobots, DecideConfig, PushConfig, AskForMic, CheckSeen,
                  RecordAsk, ForgetAsk, SendAsk, At
    <3> QED
      BY <1>2, <2>1, <2>4, <3>1, StepEffect DEF Places, Steady
  <2> QED
    BY <2>2, <2>3, <2>4
<1>5. task[k].kind = "revoke" => k = "http" /\ task[k].dev \notin permits
  BY <1>2 DEF RevokeStands
<1> QED
  BY <1>1, <1>3, <1>4, <1>5 DEF RevokeStands

LEMMA StepKeepsServeInv ==
  ASSUME ServeInv, NEW k \in Tasks, Step(k)
  PROVE  ServeInv'
<1> USE DEF ServeInv
<1>0. TypeOK' /\ FreshLink' /\ RevokeStands'
  BY StepTypes, StepFrame, StepKeepsRevokes DEF FreshLink
<1>1. ASSUME NEW d \in Robots
      PROVE  /\ Known(d)' <=> Known(d)
             /\ Due(d)' <=> Due(d)
             /\ Silent(d)' <=> Silent(d)
             /\ Connecting(d)' <=> Connecting(d)
  BY StepFrame DEF Known, Due, Silent, Connecting
<1>2. ASSUME NEW d \in Robots PROVE UnseenIsLate(d)'
  <2>1. SUFFICES ASSUME d \notin seen
                 PROVE  /\ latch'[d] => d \in late'
                        /\ \A j \in Tasks : task'[j].dev = d /\ task'[j].at = "latch" => j \in over'
    BY StepFrame DEF UnseenIsLate
  <2>2. /\ latch[d] => d \in late
        /\ \A j \in Tasks : task[j].dev = d /\ task[j].at = "latch" => j \in over
    BY <2>1 DEF RobotInv, UnseenIsLate
  <2>3. latch'[d] => d \in late'
    <3>1. CASE task[k].at \notin {"latch", "forget"} \/ task[k].dev # d
      BY <2>2, <3>1, RecordEffect
    <3>2. CASE task[k].at = "latch" /\ task[k].dev = d
      BY <2>2, <3>2, RecordEffect
    <3>3. CASE task[k].at = "forget" /\ task[k].dev = d
      BY <3>3, RecordEffect
    <3> QED
      BY <3>1, <3>2, <3>3
  <2>4. ASSUME NEW j \in Tasks, task'[j].dev = d, task'[j].at = "latch" PROVE j \in over'
    <3>1. CASE j # k
      BY <2>2, <2>4, <3>1, StepFrame, RecordEffect
    <3>2. CASE j = k
      BY <2>1, <2>4, <3>2, StepEffect, RecordEffect DEF Steady
    <3> QED
      BY <3>1, <3>2
  <2> QED
    BY <2>3, <2>4
<1>3. ASSUME NEW d \in Robots PROVE LatchIsTrue(d)'
  <2>1. SUFFICES ASSUME Known(d), Backed(d)' PROVE mic'[d] \/ Connecting(d)'
    BY <1>1 DEF LatchIsTrue
  <2>2. Backed(d) \/ mic'[d]
    BY <2>1, RecordsFollowAsks
  <2> QED
    BY <1>1, <2>1, <2>2, StepFrame DEF RobotInv, LatchIsTrue
<1>4. ASSUME NEW d \in Robots, Due(d), Covered(d) PROVE Covered(d)'
  <2>0. Known(d)
    BY <1>4 DEF Due
  <2>1. CASE mic[d] \/ Connecting(d)
    BY <1>1, <2>1, StepFrame DEF Covered
  <2>2. CASE Settling(d, BeforeSend)
    <3>1. PICK j \in Timers : task[j].kind = "settle" /\ task[j].dev = d /\ task[j].at \in BeforeSend
      BY <2>2 DEF Settling
    <3>2. CASE j # k
      BY <3>1, <3>2, StepFrame DEF Covered, Settling, Tasks
    <3>3. CASE j = k
      BY <1>4, <2>0, <3>1, <3>3, StepFrame, SettleGoesOn DEF Covered, Settling
    <3> QED
      BY <3>2, <3>3
  <2>3. CASE Clicked(d, {"permit"}, AtSend)
    <3>1. CASE k # "http"
      BY <2>3, <3>1, StepFrame DEF Covered, Clicked, Comes, Tasks
    <3>2. CASE k = "http"
      BY <1>4, <2>0, <2>3, <3>2, ClickGoesOn DEF Covered
    <3> QED
      BY <3>1, <3>2
  <2> QED
    BY <1>4, <2>1, <2>2, <2>3 DEF Covered
<1>5. ASSUME NEW d \in Robots PROVE AskOnItsWay(d)'
  <2>1. SUFFICES ASSUME Due(d) PROVE Covered(d)' \/ Picking(d)' \/ d \in late'
    BY <1>1 DEF AskOnItsWay
  <2>2. Known(d) /\ d \in permits
    BY <2>1 DEF Due
  <2>3. Backed(d) => Covered(d)
    BY <2>2 DEF RobotInv, LatchIsTrue, Covered
  <2>4. CASE Covered(d)
    BY <1>4, <2>1, <2>4
  <2>5. CASE d \in late /\ ~Covered(d)
    <3>1. ~(k \notin over /\ task[k].at = "latch" /\ task[k].dev = d)
      BY <2>3, <2>5 DEF Backed
    <3> QED
      BY <2>2, <2>5, <3>1, LateStays
  <2>6. CASE Picking(d) /\ ~Covered(d) /\ d \notin late
    <3>1. ~latch[d]
      BY <2>3, <2>6 DEF Backed
    <3>2. CASE k # "http"
      BY <2>6, <3>2, StepFrame DEF Picking, Comes, Tasks
    <3>3. CASE k = "http"
      BY <2>1, <2>2, <2>6, <3>1, <3>3, ClickGoesOn DEF Covered
    <3> QED
      BY <3>2, <3>3
  <2> QED
    BY <2>1, <2>4, <2>5, <2>6 DEF RobotInv, AskOnItsWay
<1>6. ASSUME NEW d \in Robots PROVE ConfigOnItsWay(d)'
  <2>1. SUFFICES ASSUME Known(d) PROVE Configured(d)' \/ Publishing(d)'
    BY <1>1 DEF ConfigOnItsWay
  <2>2. CASE Configured(d)
    BY <2>2, PushEffect
  <2>3. CASE Connecting(d)
    BY <1>1, <2>3 DEF Publishing
  <2>4. CASE Settling(d, BeforePush)
    <3>1. PICK j \in Timers : task[j].kind = "settle" /\ task[j].dev = d /\ task[j].at \in BeforePush
      BY <2>4 DEF Settling
    <3>2. CASE j # k
      BY <3>1, <3>2, StepFrame DEF Publishing, Settling, Tasks
    <3>3. CASE j = k
      BY <2>1, <3>1, <3>3, StepFrame, SettleGoesOn DEF Publishing, Settling
    <3> QED
      BY <3>2, <3>3
  <2>5. CASE Clicked(d, {"permit", "revoke"}, AtPush)
    <3>1. CASE k # "http"
      BY <2>5, <3>1, StepFrame DEF Publishing, Clicked, Comes, Tasks
    <3>2. CASE k = "http"
      BY <2>1, <2>5, <3>2, ClickGoesOn DEF Publishing
    <3> QED
      BY <3>1, <3>2
  <2> QED
    BY <2>1, <2>2, <2>3, <2>4, <2>5 DEF RobotInv, ConfigOnItsWay, Publishing
<1>7. ASSUME NEW d \in Robots PROVE SatStays(d)'
  BY StepFrame DEF RobotInv, SatStays
<1>8. ASSUME NEW d \in Robots PROVE SilentIsResumed(d)'
  <2>1. SUFFICES ASSUME Silent(d)
                 PROVE  /\ Configured(d)' \/ Resuming(d, AtPush)'
                        /\ stt => mic'[d] \/ d \in late' \/ Resuming(d, AtSend)'
    BY <1>1, StepFrame DEF SilentIsResumed
  <2>2. /\ Configured(d) \/ Resuming(d, AtPush)
        /\ stt => mic[d] \/ d \in late \/ Resuming(d, AtSend)
        /\ Permitted(d) /\ Reaches(d) /\ d \in permits /\ d \notin seen
        /\ latch[d] => d \in late
    BY <2>1 DEF RobotInv, SilentIsResumed, Silent, SatStays, Permitted, Reaches, UnseenIsLate
  <2>3. ASSUME NEW j \in Timers, NEW places, ResumeComes(j, d, places), j # k
        PROVE  ResumeComes(j, d, places)'
    BY <2>3, StepFrame DEF ResumeComes, Tasks
  <2>4. ASSUME task[k].kind = "resume"
        PROVE  /\ task'[k].kind = "resume" /\ task[k].at \in Places
               /\ task[k].at = "list" => d \in task'[k].todo
               /\ task[k].at = "wait" /\ task[k].gen = gen => task'[k].at = "list"
    <3>1. task \in [Tasks -> TaskRecords]
      BY DEF TypeOK, TaskRecords
    <3>2. ASSUME task[k].at = "list" PROVE d \in task'[k].todo
      <4>1. ListRobots(k)
        BY <3>2 DEF Step, Expire, ListRobots, Take, DecideConfig, PushConfig, AskForMic, CheckSeen,
                    RecordAsk, ForgetAsk, SendAsk, At
      <4>2. task'[k].todo = {e \in roster \ seen : Permitted(e)}
        BY <2>4, <3>1, <4>1 DEF ListRobots, TaskRecords
      <4> QED
        BY <2>1, <2>2, <4>2 DEF Silent
    <3>3. ASSUME task[k].at = "wait", task[k].gen = gen PROVE task'[k].at = "list"
      <4>1. Expire(k)
        BY <3>3 DEF Step, Expire, ListRobots, Take, DecideConfig, PushConfig, AskForMic, CheckSeen,
                    RecordAsk, ForgetAsk, SendAsk, At
      <4> QED
        BY <2>4, <3>1, <3>3, <4>1 DEF Expire, Move, TaskRecords
    <3> QED
      BY <2>4, <3>2, <3>3, StepFrame, TaskFields
  <2>5. ASSUME k \in Timers, ResumeComes(k, d, AtPush)
        PROVE  Configured(d)' \/ ResumeComes(k, d, AtPush)'
    <3>1. CASE task[k].at = "push" /\ task[k].dev = d
      BY <2>2, <3>1, PushEffect
    <3>2. CASE ~(task[k].at = "push" /\ task[k].dev = d)
      BY <2>4, <2>5, <3>2, StepEffect, StepFrame DEF ResumeComes, Walking, Places, Steady, AtPush
    <3> QED
      BY <3>1, <3>2
  <2>6. ASSUME k \in Timers, stt, ResumeComes(k, d, AtSend)
        PROVE  mic'[d] \/ d \in late \/ ResumeComes(k, d, AtSend)'
    BY <2>2, <2>4, <2>6, StepEffect, StepFrame DEF ResumeComes, Walking, Places, Steady, AtSend
  <2>7. d \in late => d \in late'
    <3>1. task[k].at = "latch" /\ task[k].dev = d => k \in over
      BY <2>2 DEF RobotInv, UnseenIsLate
    <3> QED
      BY <2>2, <3>1, LateStays
  <2>8. Configured(d)' \/ Resuming(d, AtPush)'
    <3>1. CASE Configured(d)
      BY <3>1, PushEffect
    <3>2. CASE Resuming(d, AtPush)
      BY <2>3, <2>5, <3>2 DEF Resuming
    <3> QED
      BY <2>2, <3>1, <3>2
  <2>9. stt => mic'[d] \/ d \in late' \/ Resuming(d, AtSend)'
    BY <2>2, <2>3, <2>6, <2>7, StepFrame DEF Resuming
  <2> QED
    BY <2>8, <2>9
<1> QED
  BY <1>0, <1>2, <1>3, <1>5, <1>6, <1>7, <1>8 DEF RobotInv

-----------------------------------------------------------------------------
(* What the others do.                                                      *)

(* A timer that starts takes a free place and waits. *)
LEMMA StartFrame ==
  ASSUME TypeOK, NEW what \in TaskRecords, what.at = "wait", StartTimer(what)
  PROVE  \E k \in Timers : /\ task[k].at = "free" /\ task'[k] = what
                           /\ \A j \in Tasks \ {k} : task'[j] = task[j]
                           /\ task'["http"] = task["http"]
<1>1. task \in [Tasks -> TaskRecords]
  BY DEF TypeOK, TaskRecords
<1>2. PICK k \in Timers : task[k].at = "free" /\ task' = [task EXCEPT ![k] = what]
  BY DEF StartTimer, Idle
<1>3. task'[k] = what /\ \A j \in Tasks \ {k} : task'[j] = task[j]
  BY <1>1, <1>2 DEF Tasks
<1> QED
  BY <1>2, <1>3, TimersAssumption DEF Tasks

(* Everybody at work goes on. *)
LEMMA StartKeepsWork ==
  ASSUME TypeOK, NEW what \in TaskRecords, what.at = "wait", what.kind # "revoke",
         StartTimer(what), permits' = permits, gen' = gen, NEW d \in Robots
  PROVE  /\ Settling(d, BeforePush) => Settling(d, BeforePush)'
         /\ Settling(d, BeforeSend) => Settling(d, BeforeSend)'
         /\ Resuming(d, AtPush) => Resuming(d, AtPush)'
         /\ Resuming(d, AtSend) => Resuming(d, AtSend)'
         /\ Picking(d)' <=> Picking(d)
         /\ \A kinds, places : Clicked(d, kinds, places)' <=> Clicked(d, kinds, places)
         /\ RevokeStands => RevokeStands'
<1>1. PICK k \in Timers : /\ task[k].at = "free" /\ task'[k] = what
                          /\ \A j \in Tasks \ {k} : task'[j] = task[j]
                          /\ task'["http"] = task["http"]
  BY StartFrame
<1>2. \A j \in Timers : task[j].at # "free" => task'[j] = task[j]
  BY <1>1 DEF Tasks
<1>3. /\ Settling(d, BeforePush) => Settling(d, BeforePush)'
      /\ Settling(d, BeforeSend) => Settling(d, BeforeSend)'
  BY <1>2 DEF Settling, BeforePush, BeforeSend, AtPush, AtSend
<1>4. \A j \in Timers : \A places : "free" \notin places /\ ResumeComes(j, d, places) =>
        ResumeComes(j, d, places)'
  BY <1>2 DEF ResumeComes, Walking
<1>5. /\ Resuming(d, AtPush) => Resuming(d, AtPush)'
      /\ Resuming(d, AtSend) => Resuming(d, AtSend)'
  <2>1. "free" \notin AtPush /\ "free" \notin AtSend
    BY DEF AtPush, AtSend
  <2> QED
    BY <1>4, <2>1 DEF Resuming
<1>6. /\ Picking(d)' <=> Picking(d)
      /\ \A kinds, places : Clicked(d, kinds, places)' <=> Clicked(d, kinds, places)
  BY <1>1 DEF Picking, Clicked, Comes
<1>7. RevokeStands => RevokeStands'
  BY <1>1 DEF RevokeStands, Tasks
<1> QED
  BY <1>3, <1>5, <1>6, <1>7

(* A message that is not the first waits on, and none is added. *)
LEMMA TailKeepsConnecting ==
  ASSUME TypeOK, inbox # << >>, inbox' = Tail(inbox), NEW d \in Robots
  PROVE  /\ Connecting(d) /\ (Head(inbox).kind # "connect" \/ Head(inbox).dev # d) => Connecting(d)'
         /\ \A i \in DOMAIN inbox' : \E j \in DOMAIN inbox : inbox'[i] = inbox[j]
<1>1. inbox \in Seq(Messages)
  BY DEF TypeOK, Messages
<1>2. \A i \in DOMAIN inbox' : i + 1 \in DOMAIN inbox /\ inbox'[i] = inbox[i + 1]
  BY <1>1
<1>3. ASSUME Connecting(d), Head(inbox).kind # "connect" \/ Head(inbox).dev # d
      PROVE  Connecting(d)'
  <2>1. PICK i \in DOMAIN inbox : inbox[i].kind = "connect" /\ inbox[i].dev = d
    BY <1>3 DEF Connecting
  <2>2. i \in 2 .. Len(inbox)
    BY <1>1, <1>3, <2>1
  <2>3. i - 1 \in DOMAIN inbox' /\ inbox'[i - 1] = inbox[i]
    BY <1>1, <2>2
  <2> QED
    BY <2>1, <2>3 DEF Connecting
<1> QED
  BY <1>2, <1>3

LEMMA HearKeepsConnecting ==
  ASSUME TypeOK, NEW msgs \in Seq(Messages), Hear(msgs), NEW d \in Robots
  PROVE  /\ Connecting(d) => Connecting(d)'
         /\ net = "up" => \A i \in DOMAIN msgs : msgs[i].kind = "connect" /\ msgs[i].dev = d =>
                            Connecting(d)'
         /\ \A i \in DOMAIN inbox' : \/ \E j \in DOMAIN inbox : inbox'[i] = inbox[j]
                                     \/ \E j \in DOMAIN msgs : inbox'[i] = msgs[j]
<1>1. inbox \in Seq(Messages)
  BY DEF TypeOK, Messages
<1>2. CASE net = "up"
  <2>1. inbox' = inbox \o msgs
    BY <1>2 DEF Hear
  <2>2. \A i \in DOMAIN inbox : i \in DOMAIN inbox' /\ inbox'[i] = inbox[i]
    BY <1>1, <2>1
  <2>3. \A i \in DOMAIN msgs : Len(inbox) + i \in DOMAIN inbox' /\ inbox'[Len(inbox) + i] = msgs[i]
    BY <1>1, <2>1
  <2>4. \A i \in DOMAIN inbox' : \/ i \in DOMAIN inbox /\ inbox'[i] = inbox[i]
                                 \/ i - Len(inbox) \in DOMAIN msgs /\ inbox'[i] = msgs[i - Len(inbox)]
    BY <1>1, <2>1
  <2> QED
    BY <2>2, <2>3, <2>4 DEF Connecting
<1> QED
  BY <1>2 DEF Hear, Connecting

LEMMA BrokerKeepsServeInv ==
  ASSUME ServeInv, NEW d \in Robots,
         \/ RobotConnects(d) \/ RobotReports(d) \/ \E b \in BOOLEAN : RobotDrops(d, b)
  PROVE  FreshLink' /\ RevokeStands' /\ \A e \in Robots : RobotInv(e)'
<1> USE DEF ServeInv
<1>1. UNCHANGED <<net, config, robots, life, seen, latch, gen, stt, roster, permits, task, over,
                  late, outdated>>
  BY DEF RobotConnects, RobotReports, RobotDrops, robotSide, beliefs, disk, history, counts
<1>2. PICK msgs \in Seq(Messages) :
        /\ Hear(msgs)
        /\ \/ /\ on' = [on EXCEPT ![d] = FALSE] /\ mic' = [mic EXCEPT ![d] = FALSE]
              /\ sat' = sat \ {d} /\ msgs \in {<< >>, <<[kind |-> "gone", dev |-> d]>>}
           \/ /\ on' = [on EXCEPT ![d] = TRUE] /\ ~on[d] /\ mic' = mic /\ sat' = sat
              /\ msgs = <<[kind |-> "connect", dev |-> d]>>
           \/ on' = on /\ mic' = mic /\ sat' = sat /\ msgs = <<[kind |-> "state", dev |-> d]>>
  <2>1. /\ <<[kind |-> "connect", dev |-> d]>> \in Seq(Messages)
        /\ <<[kind |-> "gone", dev |-> d]>> \in Seq(Messages)
        /\ <<[kind |-> "state", dev |-> d]>> \in Seq(Messages) /\ << >> \in Seq(Messages)
    BY DEF Messages
  <2>2. CASE RobotConnects(d)
    BY <2>1, <2>2 DEF RobotConnects, history
  <2>3. CASE RobotReports(d)
    BY <2>1, <2>3 DEF RobotReports, robotSide, history
  <2>4. ASSUME NEW b \in BOOLEAN, RobotDrops(d, b)
        PROVE  /\ Hear(<< >>) \/ Hear(<<[kind |-> "gone", dev |-> d]>>)
               /\ on' = [on EXCEPT ![d] = FALSE] /\ mic' = [mic EXCEPT ![d] = FALSE]
               /\ sat' = sat \ {d}
    BY <2>4 DEF RobotDrops
  <2> QED
    BY <2>1, <2>2, <2>3, <2>4
<1>3. ASSUME NEW e \in Robots PROVE Connecting(e) => Connecting(e)'
  BY <1>2, HearKeepsConnecting
<1>4. FreshLink' /\ RevokeStands'
  <2>1. net # "up" => inbox' = inbox
    BY <1>2 DEF Hear
  <2> QED
    BY <1>1, <2>1 DEF FreshLink, RevokeStands
<1>5. ASSUME NEW e \in Robots, Known(e)', ~Connecting(e)' PROVE Known(e) /\ mic'[e] = mic[e]
  <2>1. CASE on[e]
    BY <1>1, <1>2, <1>5, <2>1 DEF Known, TypeOK
  <2>2. CASE ~on[e]
    <3>1. e = d /\ msgs = <<[kind |-> "connect", dev |-> d]>> /\ net = "up"
      BY <1>1, <1>2, <1>5, <2>2 DEF Known, TypeOK
    <3>2. 1 \in DOMAIN msgs /\ msgs[1].kind = "connect" /\ msgs[1].dev = d
      BY <3>1
    <3> QED
      BY <1>2, <1>5, <3>1, <3>2, HearKeepsConnecting
  <2> QED
    BY <2>1, <2>2
<1>6. ASSUME NEW e \in Robots
      PROVE  /\ UnseenIsLate(e)' /\ LatchIsTrue(e)' /\ AskOnItsWay(e)' /\ ConfigOnItsWay(e)'
  <2>1. RobotInv(e)
    OBVIOUS
  <2>2. UnseenIsLate(e)'
    BY <1>1, <2>1 DEF RobotInv, UnseenIsLate
  <2>3. LatchIsTrue(e)'
    BY <1>1, <1>3, <1>5, <2>1 DEF RobotInv, LatchIsTrue, Backed
  <2>4. AskOnItsWay(e)'
    BY <1>1, <1>3, <1>5, <2>1 DEF RobotInv, AskOnItsWay, Due, Covered, Settling, Clicked, Comes,
                                  Picking
  <2>5. ConfigOnItsWay(e)'
    BY <1>1, <1>3, <1>5, <2>1 DEF RobotInv, ConfigOnItsWay, Configured, Permitted, Publishing,
                                  Settling, Clicked, Comes
  <2> QED
    BY <2>2, <2>3, <2>4, <2>5
<1>7. ASSUME NEW e \in Robots PROVE SatStays(e)' /\ SilentIsResumed(e)'
  <2>1. CASE e \in sat'
    <3>1. e \in sat /\ mic'[e] = mic[e] /\ (on[e] => on'[e])
      BY <1>2, <2>1 DEF TypeOK
    <3>2. SatStays(e) /\ SilentIsResumed(e)
      BY DEF RobotInv
    <3>3. \A i \in DOMAIN msgs : ~(msgs[i].kind = "gone" /\ msgs[i].dev = e)
      BY <1>2, <2>1
    <3>4. SatStays(e)'
      <4>1. ASSUME NEW i \in DOMAIN inbox', inbox'[i].kind = "gone", inbox'[i].dev = e PROVE FALSE
        BY <1>2, <3>1, <3>2, <3>3, <4>1, HearKeepsConnecting DEF SatStays
      <4> QED
        BY <1>1, <3>1, <3>2, <4>1 DEF SatStays
    <3>5. SilentIsResumed(e)'
      BY <1>1, <3>1, <3>2 DEF SilentIsResumed, Silent, Configured, Permitted, Resuming, ResumeComes
    <3> QED
      BY <3>4, <3>5
  <2>2. CASE e \notin sat'
    BY <2>2 DEF SatStays, SilentIsResumed, Silent
  <2> QED
    BY <2>1, <2>2
<1> QED
  BY <1>4, <1>6, <1>7 DEF RobotInv

(* A click of the parent at the console: a task that will come to every     *)
(* robot it changed something for.                                          *)
LEMMA ClickKeepsServeInv ==
  ASSUME ServeInv, NEW d \in Robots,
         SetTranscriber(d) \/ \E b \in BOOLEAN : SetPermit(d, b)
  PROVE  FreshLink' /\ RevokeStands' /\ \A e \in Robots : RobotInv(e)'
<1> USE DEF ServeInv
<1>1. UNCHANGED <<net, inbox, on, mic, config, robots, life, seen, latch, gen, roster, over, late,
                  outdated>>
  BY DEF SetPermit, SetTranscriber, robotSide, beliefs, disk
<1>2. PICK kind \in {"permit", "revoke", "pick"} :
        /\ task["http"].at = "free"
        /\ task' = [task EXCEPT !["http"] = [Free EXCEPT !.kind = kind, !.at = "list", !.dev = d]]
        /\ kind = "pick" => permits' = permits /\ sat' = {}
        /\ kind # "pick" => stt' = stt /\ sat' = sat \ {d}
        /\ kind = "permit" => permits' = permits \cup {d}
        /\ kind = "revoke" => permits' = permits \ {d}
  <2>1. CASE SetTranscriber(d)
    BY <2>1 DEF SetTranscriber, Request, Idle, disk
  <2>2. ASSUME NEW b \in BOOLEAN, SetPermit(d, b)
        PROVE  /\ task["http"].at = "free" /\ stt' = stt /\ sat' = sat \ {d}
               /\ permits' = IF b THEN permits \cup {d} ELSE permits \ {d}
               /\ task' = [task EXCEPT !["http"] =
                             [Free EXCEPT !.kind = IF b THEN "permit" ELSE "revoke",
                                          !.at = "list", !.dev = d]]
    BY <2>2 DEF SetPermit, Request, Idle
  <2> QED
    BY <2>1, <2>2
<1>3. /\ task'["http"].at = "list" /\ task'["http"].dev = d /\ task'["http"].kind = kind
      /\ task'["http"].todo = {} /\ \A k \in Timers : task'[k] = task[k]
  <2>1. task \in [Tasks -> TaskRecords] /\ Free \in TaskRecords /\ Free.todo = {}
    BY FreeIsATask DEF TypeOK, TaskRecords, Free
  <2> QED
    BY <1>2, <2>1, TimersAssumption DEF Tasks, TaskRecords
<1>4. FreshLink'
  BY <1>1 DEF FreshLink
<1>5. RevokeStands'
  BY <1>2, <1>3, TimersAssumption DEF RevokeStands, Tasks
<1>6. ASSUME NEW e \in Robots PROVE RobotInv(e)'
  <2>0. RobotInv(e)
    OBVIOUS
  <2>1. UnseenIsLate(e)'
    BY <1>1, <1>3, <2>0 DEF RobotInv, UnseenIsLate, Tasks
  <2>2. Backed(e)' => Backed(e)
    BY <1>1, <1>3 DEF Backed, Tasks
  <2>3. LatchIsTrue(e)'
    BY <1>1, <2>0, <2>2 DEF RobotInv, LatchIsTrue, Known, Connecting
  <2>4. ~Picking(e) /\ ~Clicked(e, {"permit"}, AtSend) /\ ~Clicked(e, {"permit", "revoke"}, AtPush)
    BY <1>2 DEF Picking, Clicked, Comes, Walking, AtPush, AtSend
  <2>5. Settling(e, BeforePush)' <=> Settling(e, BeforePush)
    BY <1>3 DEF Settling
  <2>6. Settling(e, BeforeSend)' <=> Settling(e, BeforeSend)
    BY <1>3 DEF Settling
  <2>7. AskOnItsWay(e)'
    <3>1. CASE kind = "pick"
      BY <1>3, <3>1 DEF AskOnItsWay, Picking, Comes
    <3>2. CASE kind = "permit" /\ e = d
      BY <1>3, <3>2 DEF AskOnItsWay, Covered, Clicked, Comes
    <3>3. CASE kind # "pick" /\ ~(kind = "permit" /\ e = d)
      <4>1. Due(e)' => Due(e)
        BY <1>1, <1>2, <3>3 DEF Due, Known
      <4> QED
        BY <1>1, <2>0, <2>4, <2>6, <4>1 DEF RobotInv, AskOnItsWay, Covered, Connecting
    <3> QED
      BY <3>1, <3>2, <3>3
  <2>8. ConfigOnItsWay(e)'
    <3>1. CASE kind # "pick" /\ e = d
      BY <1>3, <3>1 DEF ConfigOnItsWay, Publishing, Clicked, Comes
    <3>2. CASE kind = "pick" \/ e # d
      <4>1. e \in permits' <=> e \in permits
        BY <1>2, <3>2
      <4> QED
        BY <1>1, <2>0, <2>4, <2>5, <4>1 DEF RobotInv, ConfigOnItsWay, Known, Configured, Permitted,
                                           Publishing, Connecting
    <3> QED
      BY <3>1, <3>2
  <2>9. SatStays(e)' /\ SilentIsResumed(e)'
    <3>1. CASE e \in sat'
      <4>1. e \in sat /\ stt' = stt /\ (e \in permits' <=> e \in permits)
        BY <1>2, <3>1
      <4> QED
        BY <1>1, <1>3, <2>0, <4>1 DEF RobotInv, SatStays, SilentIsResumed, Silent, Configured,
                                      Permitted, Resuming, ResumeComes
    <3>2. CASE e \notin sat'
      BY <3>2 DEF SatStays, SilentIsResumed, Silent
    <3> QED
      BY <3>1, <3>2
  <2> QED
    BY <2>1, <2>3, <2>7, <2>8, <2>9 DEF RobotInv
<1> QED
  BY <1>4, <1>5, <1>6

(* What the MQTT loop does with the link. *)
LEMMA LinkKeepsServeInv ==
  ASSUME ServeInv, OnConnect \/ Suback \/ OnDisconnect \/ SocketLost \/ Restart
  PROVE  FreshLink' /\ RevokeStands' /\ \A e \in Robots : RobotInv(e)'
<1> USE DEF ServeInv
<1>1. \A e \in Robots : ~Known(e)'
  BY DEF OnConnect, Suback, OnDisconnect, SocketLost, Restart, Known, FreshLink, beliefs
<1>2. FreshLink'
  BY DEF OnConnect, Suback, OnDisconnect, SocketLost, Restart, FreshLink, beliefs, TypeOK
<1>3. ASSUME NEW e \in Robots PROVE LatchIsTrue(e)' /\ AskOnItsWay(e)' /\ ConfigOnItsWay(e)'
  BY <1>1 DEF LatchIsTrue, AskOnItsWay, ConfigOnItsWay, Due
<1>4. CASE OnConnect
  <2>1. /\ ResumeFor(gen + 1) \in TaskRecords /\ ResumeFor(gen + 1).at = "wait"
        /\ ResumeFor(gen + 1).kind = "resume" /\ ResumeFor(gen + 1).gen = gen + 1
    <3>1. gen + 1 \in Nat
      BY DEF TypeOK
    <3> QED
      BY <3>1, FreeIsATask DEF ResumeFor, Free, TaskRecords, Kinds, Places
  <2>2. PICK k \in Timers : /\ task[k].at = "free" /\ task'[k] = ResumeFor(gen + 1)
                            /\ \A j \in Tasks \ {k} : task'[j] = task[j]
    BY <1>4, <2>1, StartFrame DEF OnConnect
  <2>3. RevokeStands'
    BY <1>4, <2>1, <2>2 DEF OnConnect, RevokeStands, disk
  <2>4. ASSUME NEW e \in Robots PROVE UnseenIsLate(e)' /\ SatStays(e)' /\ SilentIsResumed(e)'
    <3>1. UnseenIsLate(e)'
      <4>1. UnseenIsLate(e)
        BY DEF RobotInv
      <4> QED
        BY <1>4, <2>1, <2>2, <4>1 DEF OnConnect, UnseenIsLate, beliefs
    <3>2. SatStays(e)'
      BY <1>4 DEF OnConnect, SatStays, FreshLink, robotSide
    <3>3. SilentIsResumed(e)'
      BY <1>4, <2>1, <2>2 DEF OnConnect, SilentIsResumed, Resuming, ResumeComes
    <3> QED
      BY <3>1, <3>2, <3>3
  <2> QED
    BY <1>2, <1>3, <2>3, <2>4 DEF RobotInv
<1>5. CASE Suback
  <2>1. RevokeStands'
    BY <1>5 DEF Suback, RevokeStands, disk
  <2>2. ASSUME NEW e \in Robots PROVE UnseenIsLate(e)' /\ SatStays(e)' /\ SilentIsResumed(e)'
    <3>1. UnseenIsLate(e) /\ SatStays(e) /\ SilentIsResumed(e)
      BY DEF RobotInv
    <3> QED
      BY <1>5, <3>1 DEF Suback, UnseenIsLate, SatStays, SilentIsResumed, Silent, Configured,
                        Permitted, Resuming, ResumeComes, robotSide, beliefs, disk, history
  <2> QED
    BY <1>2, <1>3, <2>1, <2>2 DEF RobotInv
<1>6. CASE OnDisconnect
  <2>1. RevokeStands'
    BY <1>6 DEF OnDisconnect, RevokeStands, disk
  <2>2. ASSUME NEW e \in Robots PROVE UnseenIsLate(e)' /\ SatStays(e)' /\ SilentIsResumed(e)'
    <3>1. ~latch'[e] /\ task' = task
      BY <1>6 DEF OnDisconnect
    <3>2. \A k \in Tasks : task[k].dev = e /\ task[k].at = "latch" => k \in over'
      BY <1>6 DEF OnDisconnect, Overtake
    <3>3. e \notin sat'
      BY <1>6 DEF OnDisconnect, RobotInv, SatStays
    <3> QED
      BY <3>1, <3>2, <3>3 DEF UnseenIsLate, SatStays, SilentIsResumed, Silent
  <2> QED
    BY <1>2, <1>3, <2>1, <2>2 DEF RobotInv
<1>7. CASE SocketLost
  <2>1. RevokeStands'
    BY <1>7 DEF SocketLost, RevokeStands, disk
  <2>2. ASSUME NEW e \in Robots PROVE UnseenIsLate(e)' /\ SatStays(e)' /\ SilentIsResumed(e)'
    <3>1. UnseenIsLate(e)
      BY DEF RobotInv
    <3> QED
      BY <1>7, <3>1 DEF SocketLost, UnseenIsLate, SatStays, SilentIsResumed, Silent, beliefs
  <2> QED
    BY <1>2, <1>3, <2>1, <2>2 DEF RobotInv
<1>8. CASE Restart
  <2>1. RevokeStands'
    BY <1>8 DEF Restart, RevokeStands, Free
  <2>2. ASSUME NEW e \in Robots PROVE UnseenIsLate(e)' /\ SatStays(e)' /\ SilentIsResumed(e)'
    BY <1>8 DEF Restart, UnseenIsLate, SatStays, SilentIsResumed, Silent, Free
  <2> QED
    BY <1>2, <1>3, <2>1, <2>2 DEF RobotInv
<1> QED
  BY <1>4, <1>5, <1>6, <1>7, <1>8

(* What it does with a message. *)
LEMMA MessageKeepsServeInv ==
  ASSUME ServeInv, OnMessage
  PROVE  FreshLink' /\ RevokeStands' /\ \A e \in Robots : RobotInv(e)'
<1> USE DEF ServeInv
<1> DEFINE m == Head(inbox)
<1>1. /\ UNCHANGED <<net, on, mic, config, gen, stt, permits, outdated, sat>>
      /\ inbox # << >> /\ inbox' = Tail(inbox)
  BY DEF OnMessage, robotSide
<1>2. m \in Messages /\ m = inbox[1] /\ 1 \in DOMAIN inbox
  <2>1. inbox \in Seq(Messages)
    BY DEF TypeOK, Messages
  <2> QED
    BY <1>1, <2>1
<1>. PICK d \in Robots : d = m.dev
  BY <1>2 DEF Messages
<1> HIDE DEF m
<1>3. FreshLink'
  BY <1>1 DEF FreshLink
<1>4. ASSUME NEW e \in Robots, m.kind # "connect" \/ e # d PROVE Connecting(e) => Connecting(e)'
  BY <1>1, <1>4, TailKeepsConnecting DEF m
<1>5. ASSUME NEW e \in Robots PROVE SatStays(e)'
  <2>1. SatStays(e)
    BY DEF RobotInv
  <2> QED
    BY <1>1, <2>1, TailKeepsConnecting DEF SatStays
<1>6. CASE UNCHANGED <<beliefs, roster, task, over, late>> /\ m.kind # "connect"
  <2>1. RevokeStands'
    BY <1>1, <1>6 DEF RevokeStands
  <2>2. ASSUME NEW e \in Robots PROVE RobotInv(e)'
    <3>0. RobotInv(e) /\ (Connecting(e) => Connecting(e)') /\ SatStays(e)'
      BY <1>4, <1>5, <1>6
    <3>1. Known(e)' <=> Known(e)
      BY <1>1, <1>6 DEF Known, beliefs
    <3>2. UnseenIsLate(e)'
      BY <1>6, <3>0 DEF RobotInv, UnseenIsLate, beliefs
    <3>3. LatchIsTrue(e)'
      BY <1>1, <1>6, <3>0, <3>1 DEF RobotInv, LatchIsTrue, Backed, beliefs
    <3>4. AskOnItsWay(e)'
      BY <1>1, <1>6, <3>0, <3>1 DEF RobotInv, AskOnItsWay, Due, Covered, Settling, Clicked, Comes,
                                    Picking
    <3>5. ConfigOnItsWay(e)'
      BY <1>1, <1>6, <3>0, <3>1 DEF RobotInv, ConfigOnItsWay, Configured, Permitted, Publishing,
                                    Settling, Clicked, Comes
    <3>6. SilentIsResumed(e)'
      BY <1>1, <1>6, <3>0 DEF RobotInv, SilentIsResumed, Silent, Configured, Permitted, Resuming,
                              ResumeComes, beliefs
    <3> QED
      BY <3>0, <3>2, <3>3, <3>4, <3>5, <3>6 DEF RobotInv
  <2> QED
    BY <1>3, <2>1, <2>2
(* The beliefs about d are reset, those about the others stand. *)
<1>7. ASSUME Overtake({d}), \A e \in Robots \ {d} : latch'[e] = latch[e]
      PROVE  /\ \A e \in Robots \ {d} : e \in late' <=> e \in late
             /\ over \subseteq over'
             /\ \A k \in Tasks : task[k].dev = d /\ task[k].at \in {"record", "latch"} => k \in over'
             /\ latch'[d] => (d \in late' <=> d \in late)
  BY <1>7 DEF Overtake
<1>8. CASE DeviceDisconnect(m) /\ m.kind = "gone"
  <2>1. /\ UNCHANGED <<task, roster>> /\ seen' = seen \ {d} /\ Overtake({d}) /\ ~latch'[d]
        /\ \A e \in Robots \ {d} : latch'[e] = latch[e]
    BY <1>8 DEF DeviceDisconnect, TypeOK
  <2>2. RevokeStands'
    BY <1>1, <2>1 DEF RevokeStands
  <2>3. ASSUME NEW e \in Robots \ {d} PROVE RobotInv(e)'
    <3>0. RobotInv(e) /\ (Connecting(e) => Connecting(e)') /\ SatStays(e)'
      BY <1>4, <1>5, <2>3
    <3>1. (Known(e)' <=> Known(e)) /\ latch'[e] = latch[e] /\ (e \in late' <=> e \in late)
          /\ (e \in seen' <=> e \in seen)
      BY <1>1, <1>7, <2>1, <2>3 DEF Known
    <3>2. UnseenIsLate(e)'
      BY <1>7, <2>1, <3>0, <3>1 DEF RobotInv, UnseenIsLate
    <3>3. LatchIsTrue(e)'
      BY <1>1, <1>7, <2>1, <3>0, <3>1 DEF RobotInv, LatchIsTrue, Backed
    <3>4. AskOnItsWay(e)'
      BY <1>1, <2>1, <3>0, <3>1 DEF RobotInv, AskOnItsWay, Due, Covered, Settling, Clicked, Comes,
                                    Picking
    <3>5. ConfigOnItsWay(e)'
      BY <1>1, <2>1, <3>0, <3>1 DEF RobotInv, ConfigOnItsWay, Configured, Permitted, Publishing,
                                    Settling, Clicked, Comes
    <3>6. SilentIsResumed(e)'
      BY <1>1, <2>1, <3>0, <3>1 DEF RobotInv, SilentIsResumed, Silent, Configured, Permitted,
                                    Resuming, ResumeComes
    <3> QED
      BY <3>0, <3>2, <3>3, <3>4, <3>5, <3>6 DEF RobotInv
  <2>4. RobotInv(d)'
    <3>1. d \notin sat
      BY <1>2, <1>8 DEF RobotInv, SatStays
    <3>2. ~Known(d)' /\ ~Silent(d)'
      BY <1>1, <2>1, <3>1 DEF Known, Silent
    <3>3. UnseenIsLate(d)'
      BY <1>7, <2>1 DEF UnseenIsLate
    <3> QED
      BY <1>5, <3>2, <3>3 DEF RobotInv, LatchIsTrue, AskOnItsWay, Due, ConfigOnItsWay,
                              SilentIsResumed
  <2> QED
    BY <1>3, <2>2, <2>3, <2>4
<1>9. CASE /\ seen' = seen \cup {d} /\ roster' = roster \cup {d}
           /\ StartTimer(SettleFor(d)) /\ Overtake({d})
           /\ \A e \in Robots \ {d} : latch'[e] = latch[e]
           /\ latch'[d] => latch[d] /\ d \notin seen
  <2>1. /\ SettleFor(d) \in TaskRecords /\ SettleFor(d).at = "wait"
        /\ SettleFor(d).dev = d /\ SettleFor(d).kind = "settle"
    BY FreeIsATask DEF SettleFor, Free, TaskRecords, Places
  <2>2. PICK t \in Timers : /\ task[t].at = "free" /\ task'[t] = SettleFor(d)
                            /\ \A j \in Tasks \ {t} : task'[j] = task[j]
    BY <1>9, <2>1, StartFrame
  <2>3. RevokeStands'
    BY <1>1, <1>9, <2>1, StartKeepsWork
  <2>4. ASSUME NEW e \in Robots \ {d} PROVE RobotInv(e)'
    <3>0. RobotInv(e) /\ (Connecting(e) => Connecting(e)') /\ SatStays(e)'
      BY <1>4, <1>5, <2>4
    <3>1. (Known(e)' <=> Known(e)) /\ latch'[e] = latch[e] /\ (e \in late' <=> e \in late)
          /\ (e \in seen' <=> e \in seen) /\ (e \in roster' <=> e \in roster)
      BY <1>1, <1>7, <1>9, <2>4 DEF Known
    <3>2. UnseenIsLate(e)'
      BY <1>7, <1>9, <2>1, <2>2, <3>0, <3>1 DEF RobotInv, UnseenIsLate
    <3>3. LatchIsTrue(e)'
      <4>1. Backed(e)' => Backed(e)
        BY <1>7, <1>9, <2>1, <2>2, <3>1 DEF Backed
      <4> QED
        BY <1>1, <3>0, <3>1, <4>1 DEF RobotInv, LatchIsTrue
    <3>4. /\ Settling(e, BeforePush) => Settling(e, BeforePush)'
          /\ Settling(e, BeforeSend) => Settling(e, BeforeSend)'
          /\ Resuming(e, AtPush) => Resuming(e, AtPush)'
          /\ Resuming(e, AtSend) => Resuming(e, AtSend)'
          /\ Picking(e)' <=> Picking(e)
          /\ \A kinds, places : Clicked(e, kinds, places)' <=> Clicked(e, kinds, places)
      BY <1>1, <1>9, <2>1, StartKeepsWork
    <3>5. AskOnItsWay(e)'
      BY <1>1, <3>0, <3>1, <3>4 DEF RobotInv, AskOnItsWay, Due, Covered
    <3>6. ConfigOnItsWay(e)'
      BY <1>1, <3>0, <3>1, <3>4 DEF RobotInv, ConfigOnItsWay, Configured, Permitted, Publishing
    <3>7. SilentIsResumed(e)'
      BY <1>1, <3>0, <3>1, <3>4 DEF RobotInv, SilentIsResumed, Silent, Configured, Permitted
    <3> QED
      BY <3>0, <3>2, <3>3, <3>5, <3>6, <3>7 DEF RobotInv
  <2>5. RobotInv(d)'
    <3>0. RobotInv(d) /\ d \in seen'
      BY <1>9
    <3>1. Settling(d, BeforePush)' /\ Settling(d, BeforeSend)'
      BY <2>1, <2>2 DEF Settling, BeforePush, BeforeSend, AtPush, AtSend
    <3>2. ~Backed(d)'
      <4>1. latch'[d] => d \in late'
        BY <1>7, <1>9, <3>0 DEF RobotInv, UnseenIsLate
      <4>2. ASSUME NEW k \in Tasks, task'[k].dev = d, task'[k].at \in {"record", "latch"}
            PROVE  k \in over'
        <5>1. k # t
          BY <2>1, <2>2, <4>2
        <5> QED
          BY <1>7, <1>9, <2>2, <4>2, <5>1
      <4> QED
        BY <4>1, <4>2 DEF Backed
    <3> QED
      BY <1>5, <3>0, <3>1, <3>2
         DEF RobotInv, UnseenIsLate, LatchIsTrue, AskOnItsWay, Covered, ConfigOnItsWay, Publishing,
             SilentIsResumed, Silent
  <2> QED
    BY <1>3, <2>3, <2>4, <2>5
<1>10. \/ DeviceDisconnect(m) /\ m.kind = "gone"
       \/ DeviceConnect(m) /\ m.kind # "gone"
  BY DEF OnMessage, m
<1>11. CASE DeviceConnect(m)
  <2>1. CASE m.dev \in robots /\ m.dev \in seen /\ m.kind # "connect"
    BY <1>6, <1>11, <2>1 DEF DeviceConnect
  <2>2. CASE ~(m.dev \in robots /\ m.dev \in seen /\ m.kind # "connect")
    <3>1. /\ seen' = seen \cup {d} /\ roster' = roster \cup {d}
          /\ StartTimer(SettleFor(d)) /\ Overtake({d})
      BY <1>11, <2>2 DEF DeviceConnect
    <3>2. \/ latch' = latch /\ d \notin seen
          \/ latch' = [latch EXCEPT ![d] = FALSE]
      BY <1>11, <2>2 DEF DeviceConnect
    <3>3. /\ \A e \in Robots \ {d} : latch'[e] = latch[e]
          /\ latch'[d] => latch[d] /\ d \notin seen
      BY <3>2 DEF TypeOK
    <3> QED
      BY <1>9, <3>1, <3>3
  <2> QED
    BY <2>1, <2>2
<1> QED
  BY <1>8, <1>10, <1>11

LEMMA NextKeepsServeInv ==
  ASSUME ServeInv, [Next]_vars
  PROVE  ServeInv'
<1>1. TypeOK'
  BY NextTypes DEF ServeInv
<1>2. CASE UNCHANGED vars
  BY <1>1, <1>2 DEF vars, robotSide, beliefs, disk, history, counts, ServeInv, FreshLink,
     RevokeStands, RobotInv, UnseenIsLate, LatchIsTrue, Known, Backed, AskOnItsWay, Due, Covered,
     Connecting, Settling, Clicked, Comes, Picking, ConfigOnItsWay, Configured, Permitted,
     Publishing, SatStays, SilentIsResumed, Silent, Resuming, ResumeComes
<1> QED
  BY <1>1, <1>2, StepKeepsServeInv, BrokerKeepsServeInv, ClickKeepsServeInv, LinkKeepsServeInv,
     MessageKeepsServeInv DEF Next, Loop, ServeInv

LEMMA ServeInvHolds == Spec => []ServeInv
  BY ServeInvInit, NextKeepsServeInv, PTL DEF Spec

-----------------------------------------------------------------------------
(* Once all is quiet there is nobody left to wait for.                      *)

LEMMA NobodyIsOnTheWay ==
  ASSUME Quiet, NEW d \in Robots
  PROVE  /\ ~Connecting(d) /\ ~Picking(d) /\ ~Publishing(d)
         /\ ~Settling(d, BeforeSend) /\ ~Resuming(d, AtPush) /\ ~Resuming(d, AtSend)
         /\ ~Clicked(d, {"permit"}, AtSend)
<1>1. ~Connecting(d)
  BY DEF Quiet, Connecting
<1>2. \A k \in Tasks : task[k].at = "free"
  BY DEF Quiet, Idle
<1>3. task["http"].at = "free" /\ \A k \in Timers : task[k].at = "free"
  BY <1>2 DEF Tasks
<1>4. /\ ~Settling(d, BeforeSend) /\ ~Settling(d, BeforePush)
      /\ ~Resuming(d, AtPush) /\ ~Resuming(d, AtSend)
  BY <1>3 DEF Settling, BeforeSend, BeforePush, AtPush, AtSend, Resuming, ResumeComes,
                 Walking
<1>5. /\ ~Picking(d) /\ ~Clicked(d, {"permit"}, AtSend)
      /\ ~Clicked(d, {"permit", "revoke"}, AtPush)
  BY <1>3 DEF Picking, Clicked, Comes, Walking, AtPush, AtSend
<1> QED
  BY <1>1, <1>4, <1>5 DEF Publishing

(* However often permits are given and revoked, the Listening picker is     *)
(* changed and robots, broker and supervisor come and go: a permitted robot *)
(* that was heard of on this connection ends up asked for its microphone,   *)
(* unless a record that came too late stands in the way.                    *)
THEOREM HeardRobotsAreAsked == Spec => []HeardRobotIsAsked
<1>1. ServeInv => HeardRobotIsAsked
  <2>1. SUFFICES ASSUME ServeInv, Quiet, NEW d \in seen, on[d], Permitted(d), stt
                 PROVE  mic[d] \/ d \in late
    BY DEF HeardRobotIsAsked, Asked
  <2>2. d \in Robots /\ Due(d)
    BY <2>1 DEF ServeInv, TypeOK, Due, Known, Quiet, Permitted
  <2> QED
    BY <2>1, <2>2, NobodyIsOnTheWay DEF ServeInv, RobotInv, AskOnItsWay, Covered
<1> QED
  BY <1>1, ServeInvHolds, PTL

(* Over any number of permits given and revoked, picks, outages, dropped    *)
(* sessions and restarts, a robot that was heard of on this connection ends *)
(* up with the config of its permit, unless the last one it got was decided *)
(* on a permit that changed before it went out.                             *)
THEOREM HeardRobotsAreServed == Spec => []HeardRobotIsServed
<1>1. ServeInv => HeardRobotIsServed
  <2>1. SUFFICES ASSUME ServeInv, Quiet, NEW d \in seen, on[d] PROVE Configured(d)
    BY DEF HeardRobotIsServed, ServeInv
  <2>2. d \in Robots /\ Known(d)
    BY <2>1 DEF ServeInv, TypeOK, Known, Quiet
  <2> QED
    BY <2>1, <2>2, NobodyIsOnTheWay DEF ServeInv, RobotInv, ConfigOnItsWay
<1> QED
  BY <1>1, ServeInvHolds, PTL

(* The roster resume finds everybody: over any number of restarts of the    *)
(* supervisor and reconnects of its link, a permitted robot of the roster   *)
(* that has sat connected since our last CONNACK with its permit and the    *)
(* picker left alone ends up configured and asked, without saying a word;   *)
(* the two races apart that the other theorems name.                        *)
THEOREM SilentRobotsAreServed == Spec => []SilentRobotIsServed
<1>1. ServeInv => SilentRobotIsServed
  <2>1. SUFFICES ASSUME ServeInv, Quiet, NEW d \in roster \cap sat, Permitted(d)
                 PROVE  Configured(d) /\ Asked(d)
    BY DEF SilentRobotIsServed
  <2>2. d \in Robots /\ on[d] /\ d \in permits /\ RobotInv(d) /\ net = "up"
    BY <2>1 DEF ServeInv, TypeOK, RobotInv, SatStays, Permitted, Quiet
  <2>3. CASE d \in seen
    <3>1. Known(d) /\ (stt => Due(d))
      BY <2>2, <2>3 DEF Known, Due
    <3> QED
      BY <2>1, <2>2, <3>1, NobodyIsOnTheWay
         DEF RobotInv, ConfigOnItsWay, AskOnItsWay, Covered, Asked
  <2>4. CASE d \notin seen
    <3>1. Silent(d)
      BY <2>1, <2>2, <2>4 DEF Silent
    <3> QED
      BY <2>1, <2>2, <3>1, NobodyIsOnTheWay DEF RobotInv, SilentIsResumed, Asked
  <2> QED
    BY <2>3, <2>4
<1> QED
  BY <1>1, ServeInvHolds, PTL

=============================================================================
