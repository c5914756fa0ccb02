----------------------------- MODULE Onboarding -----------------------------
(***************************************************************************)
(* How the supervisor keeps its robots configured and listening            *)
(* (moxie_runtime/connection.py with fleet.py and voice.py): robots come   *)
(* and go on the broker, the MQTT loop reads the broker's log and their    *)
(* reports, and settle timers, the roster resume and the console's HTTP    *)
(* thread push configs and ask for microphones, each reading the beliefs   *)
(* of the others between two statements.                                   *)
(*                                                                         *)
(* A definition Mut... is the next one with a fault put in: PROJECT.json   *)
(* names the property that each of them must break.                        *)
(***************************************************************************)
EXTENDS Naturals, Sequences, FiniteSets

CONSTANTS
  Robots,        \* device ids
  Timers,        \* bound: settle and resume timers alive at once
  MaxInbox,      \* bound: messages waiting for the MQTT loop
  MaxSessions,   \* bound: sessions one robot opens on the broker
  MaxOutages,    \* bound: broker sockets lost
  MaxRestarts,   \* bound: supervisors killed and started again
  MaxClicks      \* bound: permits given or revoked and changes of the Listening picker

ASSUME RobotsAssumption == Robots # {}
ASSUME TimersAssumption == "http" \notin Timers /\ IsFiniteSet(Timers)
ASSUME OnboardingBoundsAssumption ==
  /\ MaxInbox \in Nat /\ MaxSessions \in Nat /\ MaxOutages \in Nat
  /\ MaxRestarts \in Nat /\ MaxClicks \in Nat

Tasks == Timers \cup {"http"}
Kinds == {"settle", "resume", "permit", "revoke", "pick"}

(* A task walks over the robots of `todo`: config, then the mic ask.       *)
Places == {"free", "wait", "list", "next", "decide", "push", "ask", "send", "record",
           "latch", "forget"}

VARIABLES
  net,       \* our socket: "up", "deaf" (no SUBACK yet), "lost" (unnoticed), "down"
  inbox,     \* messages and broker log lines the MQTT loop has still to handle
  on,        \* on[d]: the robot has a session on the broker
  mic,       \* mic[d]: it was asked for its microphone in that session
  config,    \* config[d]: the config it holds
  robots,    \* self.robots
  life,      \* life[d]: RobotContexts made for d so far
  seen,      \* _seen_since_connect
  latch,     \* latch[d]: extra["stt_subscribed_at"] of its RobotContext
  gen,       \* _connect_generation
  stt,       \* a transcriber is installed
  roster, permits,          \* on disk
  task,      \* what each thread is about to do
  (* History, for the properties alone: no step reads it to decide.        *)
  over,      \* tasks whose ask of d went out before the beliefs about d were reset
  late,      \* robots whose latch was set by such a task only
  outdated,  \* robots whose config was decided on a permit changed before it went out
  sat,       \* robots with session, permit and transcriber unchanged since our CONNACK
  sessions, outages, restarts, clicks   \* counted for the bounds

robotSide == <<on, mic, config>>
beliefs == <<robots, life, seen, latch>>
disk == <<roster, permits>>
history == <<over, late, outdated, sat>>
counts == <<sessions, outages, restarts, clicks>>
vars == <<net, inbox, robotSide, beliefs, gen, stt, disk, task, history, counts>>

Permitted(d) == d \in permits
Free == [kind |-> "settle", at |-> "free", dev |-> CHOOSE d \in Robots : TRUE,
         todo |-> {}, full |-> FALSE, ctx |-> 0, gen |-> 0]
SettleFor(d) == [Free EXCEPT !.at = "wait", !.dev = d]
ResumeFor(g) == [Free EXCEPT !.kind = "resume", !.at = "wait", !.gen = g]

Idle(k) == task[k].at = "free"
At(k, place) == task[k].at = place
Move(k, place) == task' = [task EXCEPT ![k].at = place]

(* After the last thing a task does for one robot. *)
NextRobot(k) == Move(k, "next")

Init ==
  /\ net = "down" /\ inbox = << >>
  /\ on = [d \in Robots |-> FALSE] /\ mic = [d \in Robots |-> FALSE]
  /\ config = [d \in Robots |-> "none"]
  /\ robots = {} /\ life = [d \in Robots |-> 0] /\ seen = {}
  /\ latch = [d \in Robots |-> FALSE]
  /\ gen = 0 /\ stt \in BOOLEAN
  /\ roster = {} /\ permits \in SUBSET Robots
  /\ task = [k \in Tasks |-> Free]
  /\ over = {} /\ late = {} /\ outdated = {} /\ sat = {}
  /\ sessions = [d \in Robots |-> 0]
  /\ outages = 0 /\ restarts = 0 /\ clicks = 0

(***************************************************************************)
(* The robots and the broker.  QoS 0: without a subscribed socket of ours  *)
(* a message or log line is lost.                                          *)
(***************************************************************************)
Hear(msgs) ==
  IF net = "up" THEN Len(inbox) + Len(msgs) <= MaxInbox /\ inbox' = inbox \o msgs
                ELSE UNCHANGED inbox

RobotConnects(d) ==
  /\ ~on[d] /\ sessions[d] < MaxSessions
  /\ on' = [on EXCEPT ![d] = TRUE]
  /\ sessions' = [sessions EXCEPT ![d] = @ + 1]
  /\ Hear(<<[kind |-> "connect", dev |-> d]>>)
  /\ UNCHANGED <<net, mic, config, beliefs, gen, stt, disk, task, history, outages,
                 restarts, clicks>>

(* `logged`: the broker notices, in words DISCONNECT_RE knows. *)
RobotDrops(d, logged) ==
  /\ on[d]
  /\ on' = [on EXCEPT ![d] = FALSE] /\ mic' = [mic EXCEPT ![d] = FALSE]
  /\ Hear(IF logged THEN <<[kind |-> "gone", dev |-> d]>> ELSE << >>)
  /\ sat' = sat \ {d}
  /\ UNCHANGED <<net, config, beliefs, gen, stt, disk, task, over, late, outdated, counts>>

(* A /state report. *)
RobotReports(d) ==
  /\ on[d] /\ net = "up"
  /\ Hear(<<[kind |-> "state", dev |-> d]>>)
  /\ UNCHANGED <<net, robotSide, beliefs, gen, stt, disk, task, history, counts>>

(* What already reached us can still be read, until the loss is noticed.   *)
SocketLost ==
  /\ net \in {"up", "deaf"} /\ outages < MaxOutages
  /\ net' = "lost" /\ outages' = outages + 1 /\ sat' = {}
  /\ UNCHANGED <<inbox, robotSide, beliefs, gen, stt, disk, task, over, late, outdated,
                 sessions, restarts, clicks>>

Suback ==
  /\ net = "deaf" /\ net' = "up"
  /\ UNCHANGED <<inbox, robotSide, beliefs, gen, stt, disk, task, history, counts>>

(***************************************************************************)
(* The MQTT loop.                                                          *)
(***************************************************************************)
(* threading.Timer(...).start(): a thread of its own. *)
StartTimer(what) ==
  \E k \in Timers : Idle(k) /\ task' = [task EXCEPT ![k] = what]

MutResumeBeforeBump ==
  /\ net = "down"
  /\ net' = "deaf" /\ gen' = gen + 1
  /\ StartTimer(ResumeFor(gen))
  /\ sat' = {d \in Robots : on[d]}
  /\ UNCHANGED <<inbox, robotSide, beliefs, stt, disk, over, late, outdated, counts>>

(* _on_connect; a refused CONNACK would leave all of this as it was. *)
OnConnect ==
  /\ net = "down"
  /\ net' = "deaf" /\ gen' = gen + 1
  /\ StartTimer(ResumeFor(gen + 1))
  /\ sat' = {d \in Robots : on[d]}
  /\ UNCHANGED <<inbox, robotSide, beliefs, stt, disk, over, late, outdated, counts>>

(* A reset of the beliefs about the robots ds overtakes the asks of them   *)
(* that are out and not recorded yet.                                      *)
Overtake(ds) ==
  /\ over' = over \cup {k \in Tasks : task[k].dev \in ds /\ task[k].at \in {"record", "latch"}}
  /\ late' = {d \in late : d \in ds => latch'[d]}

MutDisconnectKeepsSeen ==
  /\ net = "lost"
  /\ net' = "down"
  /\ latch' = [d \in Robots |-> FALSE] /\ inbox' = << >>
  /\ Overtake(Robots)
  /\ UNCHANGED <<robotSide, robots, life, seen, gen, stt, disk, task, outdated, sat, counts>>

(* _on_disconnect: every belief about the robots' sessions is dropped. *)
OnDisconnect ==
  /\ net = "lost"
  /\ net' = "down"
  /\ seen' = {}
  /\ latch' = [d \in Robots |-> FALSE] /\ inbox' = << >>
  /\ Overtake(Robots)
  /\ UNCHANGED <<robotSide, robots, life, gen, stt, disk, task, outdated, sat, counts>>

MutFreshIgnored(m) ==
  IF m.dev \in robots /\ m.dev \in seen
  THEN UNCHANGED <<beliefs, roster, task, over, late>>
  ELSE /\ robots' = robots \cup {m.dev}
       /\ life' = IF m.dev \in robots THEN life ELSE [life EXCEPT ![m.dev] = @ + 1]
       /\ seen' = seen \cup {m.dev}
       /\ latch' = IF m.dev \in robots /\ m.dev \notin seen THEN latch
                   ELSE [latch EXCEPT ![m.dev] = FALSE]
       /\ roster' = roster \cup {m.dev}
       /\ StartTimer(SettleFor(m.dev))
       /\ Overtake({m.dev})

MutSettleOnce(m) ==
  IF m.dev \in robots /\ m.dev \in seen /\ m.kind # "connect"
  THEN UNCHANGED <<beliefs, roster, task, over, late>>
  ELSE /\ robots' = robots \cup {m.dev}
       /\ life' = IF m.dev \in robots THEN life ELSE [life EXCEPT ![m.dev] = @ + 1]
       /\ seen' = seen \cup {m.dev}
       /\ latch' = IF m.dev \in robots /\ m.dev \notin seen THEN latch
                   ELSE [latch EXCEPT ![m.dev] = FALSE]
       /\ roster' = roster \cup {m.dev}
       /\ IF \E k \in Timers : task[k].dev = m.dev /\ task[k].kind = "settle" /\ ~Idle(k)
          THEN UNCHANGED task ELSE StartTimer(SettleFor(m.dev))
       /\ Overtake({m.dev})

(* _device_connect: once per session we know of; the broker's connect line *)
(* is evidence of a new one, a report is not.  A robot not in self.robots  *)
(* gets a new RobotContext, without a latch.                               *)
DeviceConnect(m) ==
  IF m.dev \in robots /\ m.dev \in seen /\ m.kind # "connect"
  THEN UNCHANGED <<beliefs, roster, task, over, late>>
  ELSE /\ robots' = robots \cup {m.dev}
       /\ life' = IF m.dev \in robots THEN life ELSE [life EXCEPT ![m.dev] = @ + 1]
       /\ seen' = seen \cup {m.dev}
       /\ latch' = IF m.dev \in robots /\ m.dev \notin seen THEN latch
                   ELSE [latch EXCEPT ![m.dev] = FALSE]
       /\ roster' = roster \cup {m.dev}
       /\ StartTimer(SettleFor(m.dev))
       /\ Overtake({m.dev})

DeviceDisconnect(m) ==
  /\ robots' = robots \ {m.dev} /\ seen' = seen \ {m.dev}
  /\ latch' = [latch EXCEPT ![m.dev] = FALSE]
  /\ Overtake({m.dev})
  /\ UNCHANGED <<life, roster, task>>

OnMessage ==
  /\ inbox # << >>
  /\ inbox' = Tail(inbox)
  /\ IF Head(inbox).kind = "gone" THEN DeviceDisconnect(Head(inbox))
                                  ELSE DeviceConnect(Head(inbox))
  /\ UNCHANGED <<net, robotSide, gen, stt, permits, outdated, sat, counts>>

(***************************************************************************)
(* The console's HTTP thread, one request at a time.                       *)
(***************************************************************************)
Request(kind, d) ==
  /\ Idle("http")
  /\ task' = [task EXCEPT !["http"] = [Free EXCEPT !.kind = kind, !.at = "list", !.dev = d]]

SetPermit(d, permitted) ==
  /\ clicks < MaxClicks /\ clicks' = clicks + 1
  /\ permits' = IF permitted THEN permits \cup {d} ELSE permits \ {d}
  /\ Request(IF permitted THEN "permit" ELSE "revoke", d)
  /\ sat' = sat \ {d}
  /\ UNCHANGED <<net, inbox, robotSide, beliefs, gen, stt, roster, over, late, outdated,
                 sessions, outages, restarts>>

SetTranscriber(d) ==
  /\ clicks < MaxClicks /\ clicks' = clicks + 1
  /\ stt' = ~stt
  /\ Request("pick", d)
  /\ sat' = {}
  /\ UNCHANGED <<net, inbox, robotSide, beliefs, gen, disk, over, late, outdated, sessions,
                 outages, restarts>>

(***************************************************************************)
(* One step of a task.                                                     *)
(***************************************************************************)
(* A settle goes to work; a resume only if no newer connect superseded it. *)
Expire(k) ==
  /\ At(k, "wait")
  /\ Move(k, IF task[k].kind = "settle" THEN "decide"
             ELSE IF task[k].gen = gen THEN "list" ELSE "free")
  /\ UNCHANGED <<net, inbox, robotSide, beliefs, gen, stt, disk, history, counts>>

(* The robots a task is for: resume_targets, list(self.robots), or the one *)
(* of a permit if it is connected.                                         *)
ListRobots(k) ==
  /\ At(k, "list")
  /\ task' = [task EXCEPT ![k].at = "next", ![k].todo =
       CASE task[k].kind = "resume" -> {d \in roster \ seen : Permitted(d)}
         [] task[k].kind = "pick" -> robots
         [] OTHER -> {task[k].dev} \cap robots]
  /\ UNCHANGED <<net, inbox, robotSide, beliefs, gen, stt, disk, history, counts>>

Take(k) ==
  /\ At(k, "next")
  /\ IF task[k].todo = {} THEN Move(k, "free")
     ELSE \E d \in task[k].todo :
            task' = [task EXCEPT ![k].dev = d, ![k].todo = @ \ {d},
                                 ![k].at = IF task[k].kind = "pick" THEN "ask" ELSE "decide"]
  /\ UNCHANGED <<net, inbox, robotSide, beliefs, gen, stt, disk, history, counts>>

(* _push_config: which document ... *)
DecideConfig(k) ==
  /\ At(k, "decide")
  /\ task' = [task EXCEPT ![k].at = "push", ![k].full = Permitted(task[k].dev)]
  /\ UNCHANGED <<net, inbox, robotSide, beliefs, gen, stt, disk, history, counts>>

Reaches(d) == net \in {"up", "deaf"} /\ on[d]

Published(k) ==
  LET d == task[k].dev IN
  outdated' = IF ~Reaches(d) THEN outdated
              ELSE IF task[k].full # Permitted(d) THEN outdated \cup {d} ELSE outdated \ {d}

(* ... and its publication. *)
PushConfig(k) ==
  LET d == task[k].dev IN
  /\ At(k, "push")
  /\ config' = IF Reaches(d)
               THEN [config EXCEPT ![d] = IF task[k].full THEN "full" ELSE "minimal"]
               ELSE config
  /\ Move(k, IF task[k].kind = "revoke" THEN "forget" ELSE "ask")
  /\ Published(k)
  /\ UNCHANGED <<net, inbox, on, mic, beliefs, gen, stt, disk, over, late, sat, counts>>

(* _subscribe_stt: nothing without a transcriber or a permit, nor, but for *)
(* a settle and a permit, when this session was asked already.  `ctx` is   *)
(* the RobotContext it looked up, 0 for none.                              *)
AskForMic(k) ==
  LET d == task[k].dev
      again == task[k].kind \in {"settle", "permit"} IN
  /\ At(k, "ask")
  /\ IF stt /\ Permitted(d) /\ ~(d \in robots /\ latch[d] /\ ~again)
     THEN task' = [task EXCEPT ![k].at = "send",
                               ![k].ctx = IF d \in robots THEN life[d] ELSE 0]
     ELSE NextRobot(k)
  /\ UNCHANGED <<net, inbox, robotSide, beliefs, gen, stt, disk, history, counts>>

(* The ask goes out; on a dying socket the transport may still accept it.  *)
SendAsk(k, accepted) ==
  LET d == task[k].dev IN
  /\ At(k, "send")
  /\ net \in {"up", "deaf"} => accepted
  /\ net = "down" => ~accepted
  /\ mic' = IF Reaches(d) THEN [mic EXCEPT ![d] = TRUE] ELSE mic
  /\ IF accepted THEN Move(k, "record") ELSE NextRobot(k)
  /\ over' = over \ {k}
  /\ UNCHANGED <<net, inbox, on, config, beliefs, gen, stt, disk, late, outdated, sat, counts>>

(* Recorded only for a robot confirmed on this connection: the check ... *)
CheckSeen(k) ==
  /\ At(k, "record")
  /\ IF task[k].ctx # 0 /\ task[k].dev \in seen
     THEN Move(k, "latch") /\ UNCHANGED over
     ELSE NextRobot(k) /\ over' = over \ {k}
  /\ UNCHANGED <<net, inbox, robotSide, beliefs, gen, stt, disk, late, outdated, sat, counts>>

(* ... and the record, on the RobotContext looked up before. *)
RecordAsk(k) ==
  LET d == task[k].dev IN
  /\ At(k, "latch")
  /\ IF d \in robots /\ life[d] = task[k].ctx
     THEN /\ latch' = [latch EXCEPT ![d] = TRUE]
          /\ late' = IF k \in over /\ (latch[d] => d \in late) THEN late \cup {d} ELSE late \ {d}
     ELSE UNCHANGED <<latch, late>>
  /\ over' = over \ {k}
  /\ NextRobot(k)
  /\ UNCHANGED <<net, inbox, robotSide, robots, life, seen, gen, stt, disk, outdated, sat,
                 counts>>

(* _forget_stt_ask, last step of a revoke. *)
ForgetAsk(k) ==
  /\ At(k, "forget")
  /\ latch' = [latch EXCEPT ![task[k].dev] = FALSE]
  /\ late' = late \ {task[k].dev}
  /\ NextRobot(k)
  /\ UNCHANGED <<net, inbox, robotSide, robots, life, seen, gen, stt, disk, over, outdated, sat,
                 counts>>

(* The supervisor is killed and started again: RAM is gone, the disk and   *)
(* the robots' sessions are not; run.py installs the same transcriber.     *)
Restart ==
  /\ restarts < MaxRestarts /\ restarts' = restarts + 1
  /\ net' = "down" /\ inbox' = << >>
  /\ robots' = {} /\ seen' = {} /\ latch' = [d \in Robots |-> FALSE] /\ gen' = 0
  /\ task' = [k \in Tasks |-> Free]
  /\ over' = {} /\ late' = {} /\ sat' = {}
  /\ UNCHANGED <<robotSide, life, stt, disk, outdated, sessions, outages, clicks>>

(***************************************************************************)
(* The specification                                                       *)
(***************************************************************************)
Step(k) ==
  \/ Expire(k) \/ ListRobots(k) \/ Take(k) \/ DecideConfig(k) \/ PushConfig(k)
  \/ AskForMic(k) \/ CheckSeen(k) \/ RecordAsk(k) \/ ForgetAsk(k)
  \/ \E accepted \in BOOLEAN : SendAsk(k, accepted)

Loop == OnConnect \/ Suback \/ OnDisconnect \/ OnMessage

Next ==
  \/ Loop \/ SocketLost \/ Restart
  \/ \E d \in Robots :
       \/ RobotConnects(d) \/ RobotReports(d) \/ SetTranscriber(d)
       \/ \E b \in BOOLEAN : RobotDrops(d, b) \/ SetPermit(d, b)
  \/ \E k \in Tasks : Step(k)

Spec == Init /\ [][Next]_vars

(* paho reconnects, the broker answers, started threads run on. *)
FairSpec == Spec /\ WF_vars(Loop) /\ \A k \in Tasks : WF_vars(Step(k))

(***************************************************************************)
(* Properties                                                              *)
(***************************************************************************)
TypeOK ==
  /\ net \in {"up", "deaf", "lost", "down"}
  /\ inbox \in Seq([kind : {"connect", "gone", "state"}, dev : Robots])
  /\ on \in [Robots -> BOOLEAN] /\ mic \in [Robots -> BOOLEAN]
  /\ config \in [Robots -> {"none", "minimal", "full"}]
  /\ robots \subseteq Robots /\ life \in [Robots -> Nat]
  /\ seen \subseteq robots /\ latch \in [Robots -> BOOLEAN]
  /\ gen \in Nat /\ stt \in BOOLEAN /\ roster \subseteq Robots /\ permits \subseteq Robots
  /\ task \in [Tasks -> [kind : Kinds, at : Places, dev : Robots, todo : SUBSET Robots,
                         full : BOOLEAN, ctx : Nat, gen : Nat]]
  /\ over \subseteq Tasks /\ late \subseteq Robots
  /\ outdated \subseteq Robots /\ sat \subseteq Robots
  /\ sessions \in [Robots -> Nat] /\ outages \in Nat /\ restarts \in Nat
  /\ clicks \in Nat

(* Nothing is on its way: no message unread, no thread at work. *)
Quiet == net = "up" /\ inbox = << >> /\ \A k \in Tasks : Idle(k)

(* What d is due: the config of its permit, and to be asked for its        *)
(* microphone in the session it is in.  Two races the code does not settle *)
(* are told apart from a robot left half-connected: a config decided on a  *)
(* permit that changed before it went out, and a record that a sent ask    *)
(* left after the beliefs it was about had been reset.                     *)
Configured(d) == config[d] = (IF Permitted(d) THEN "full" ELSE "minimal") \/ d \in outdated
Asked(d) == Permitted(d) /\ stt => mic[d] \/ d \in late

(* A robot heard of on this connection ends up with the config of its      *)
(* permit, given or revoked while it comes, goes and is settled; but a     *)
(* config is not decided again before it goes out.                         *)
HeardRobotIsServed == TypeOK /\ (Quiet => \A d \in seen : on[d] => Configured(d))

(* However often the parent permits, revokes and picks meanwhile, a robot  *)
(* heard of on this connection ends up asked for its microphone: a permit, *)
(* a settle and the picker never each leave the ask to the other.  Only a  *)
(* record that came too late can keep the picker from asking.              *)
HeardRobotIsAsked == Quiet => \A d \in seen : on[d] => Asked(d)

(* A robot of the roster that sat connected through a restart of the       *)
(* supervisor or a flapping link and never said a word is served as well,  *)
(* if its permit and the picker were left alone since our last CONNACK:    *)
(* a permit reaches connected robots only, and the picker those of RAM.    *)
SilentRobotIsServed ==
  Quiet => \A d \in roster \cap sat : Permitted(d) => Configured(d) /\ Asked(d)

(* No such robot stays deaf while our socket lasts. *)
NoRobotLeftDeaf ==
  \A d \in Robots : (d \in roster \cap sat /\ net = "up") ~> (Asked(d) \/ d \notin sat)
=============================================================================
