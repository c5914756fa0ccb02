----------------------------- MODULE TurnEngine -----------------------------
(***************************************************************************)
(* The supervisor's conversation turns (moxie_runtime/turns.py with the    *)
(* parts of presence.py, safety.py, telehealth.py and connection.py that   *)
(* meet them): the MQTT loop numbers prompts and hands them to a thread    *)
(* pool, a worker answers each on the plain or on the streamed path, and   *)
(* timer threads cover a silent brain with fillers.                        *)
(*                                                                         *)
(* A turn is <<robot, seq>>, seq being the number `_on_remote_chat` gives  *)
(* it.  A turn is stale as soon as its robot's `_turn_seq` has moved on.   *)
(* Every check of staleness and the publication it allows are separate     *)
(* steps, for the MQTT loop writes `_turn_seq` without a turn's lock.      *)
(*                                                                         *)
(* A definition Mut... is the next one with a fault put in: PROJECT.json   *)
(* names the property that each of them must break.                        *)
(***************************************************************************)
EXTENDS Integers, Sequences, FiniteSets

CONSTANTS
  Robots,        \* device ids
  Workers,       \* threads of the turn pool
  MaxFillers,    \* MAX_FILLERS_PER_TURN
  MaxSeq,        \* bound: `_turn_seq` up to which a robot still prompts
  MaxChunks,     \* bound: chunks the brain streams for one turn
  MaxAbsences,   \* bound: times the child walks away from one robot
  MaxSessions,   \* bound: telehealth sessions the operator opens
  MaxOutages     \* bound: broker sockets lost

ASSUME WorkersAssumption == Workers \in Nat \ {0}
ASSUME BoundsAssumption ==
  /\ MaxFillers \in Nat /\ MaxSeq \in Nat /\ MaxChunks \in Nat
  /\ MaxAbsences \in Nat /\ MaxSessions \in Nat /\ MaxOutages \in Nat

Turns == Robots \X (1 .. MaxSeq)
Gens == 0 .. (MaxChunks + MaxFillers)
NoTimer == -1

(* The places a worker can be.  "hello", "chunk", "answer", "closing" and  *)
(* "redirect" lie between a staleness check and its publication.           *)
PCs == {"idle", "queued", "gate", "redirect", "route", "opener", "hello", "arm",
        "respond", "close", "answer", "stream", "chunk", "ended", "raised",
        "closed", "cancelled", "fallback", "closing", "finish", "done"}

(* One line the robot hears.  `late`: its turn was superseded already when *)
(* it went out.  `safe`: it passed, or did not need, the output check.     *)
Lines == [kind : {"hello", "filler", "answer", "redirect", "closing"},
          chunk : Nat, end : BOOLEAN, safe : BOOLEAN,
          late : BOOLEAN]

(* What a worker is about to say. *)
Speech == [kind : {"none", "answer", "redirect", "closing"},
           end : BOOLEAN, safe : BOOLEAN]
Nothing == [kind |-> "none", end |-> FALSE, safe |-> TRUE]
Redirect == [kind |-> "redirect", end |-> TRUE, safe |-> TRUE]
Closing == [kind |-> "closing", end |-> TRUE, safe |-> TRUE]
Answer(end, safe) == [kind |-> "answer", end |-> end, safe |-> safe]

(* A turn's `state` dict. *)
TurnState == [chunk : Nat, ans : Nat, fillers : Nat, gen : Nat,
              done : BOOLEAN, timer : Int]

VARIABLES
  net,       \* broker socket: "up", "lost" (on_disconnect still to run), "down"
  outages,   \* sockets lost so far
  turnSeq,   \* _turn_seq
  queue,     \* the pool's queue of submitted turns
  busy,      \* _busy: robots with the in-flight marker
  opener,    \* _pending_opener: a hello waits for the next turn
  face,      \* the child is "present" or "gone"
  absences,  \* times the child left
  greeting,  \* the robot the MQTT loop is about to greet, as a set
  hellos,    \* hellos said outside any turn
  session,   \* an open telehealth session
  sessions,  \* sessions opened so far
  pc, mode,  \* a turn's worker, and the path it took
  st,        \* a turn's `state` dict: chunk, ans, fillers, gen, done, timer
  lock,      \* holder of state["lock"]
  held,      \* what the worker is about to say
  armed,     \* generations of the running filler timers of a turn
  fired,     \* generations of the expired timers waiting for the lock
  rearm,     \* filler threads about to re-arm
  heard      \* per turn, the lines that reached the robot

worker == <<pc, mode, held>>
timers == <<armed, fired, rearm>>
inputs == <<opener, face, absences, greeting, hellos, session, sessions>>
link == <<net, outages>>
vars == <<link, turnSeq, queue, busy, inputs, worker, st, lock, timers, heard>>

(***************************************************************************)
(* Helpers                                                                 *)
(***************************************************************************)
Stale(t) == turnSeq[t[1]] # t[2]

Running(t) == pc[t] \notin {"idle", "queued", "done"}

(* One QoS 0 publish of turn t: without a socket it is dropped. *)
Publish(t, kind, n, end, safe) ==
  heard' = IF net # "up" THEN heard
           ELSE [heard EXCEPT ![t] = Append(@,
                  [kind |-> kind, chunk |-> n, end |-> end, safe |-> safe,
                   late |-> Stale(t)])]

Goto(t, place) == pc' = [pc EXCEPT ![t] = place]

FreshState == [chunk |-> 0, ans |-> 0, fillers |-> 0, gen |-> 0,
               done |-> FALSE, timer |-> NoTimer]

Init ==
  /\ net = "up" /\ outages = 0
  /\ turnSeq = [d \in Robots |-> 0]
  /\ queue = << >> /\ busy = {}
  /\ opener = [d \in Robots |-> FALSE]
  /\ face = [d \in Robots |-> "present"]
  /\ absences = [d \in Robots |-> 0]
  /\ greeting = {}
  /\ hellos = [d \in Robots |-> 0]
  /\ session = [d \in Robots |-> FALSE] /\ sessions = 0
  /\ pc = [t \in Turns |-> "idle"]
  /\ mode = [t \in Turns |-> "plain"]
  /\ st = [t \in Turns |-> FreshState]
  /\ lock = [t \in Turns |-> "free"]
  /\ held = [t \in Turns |-> Nothing]
  /\ armed = [t \in Turns |-> {}] /\ fired = [t \in Turns |-> {}]
  /\ rearm = [t \in Turns |-> 0]
  /\ heard = [t \in Turns |-> << >>]

(***************************************************************************)
(* The MQTT loop: one thread, so nothing else of it runs while it is about *)
(* to publish a greeting.                                                  *)
(***************************************************************************)
LoopFree == greeting = {}

(* A prompt outside a telehealth session is numbered and submitted. *)
Prompt(d) ==
  /\ LoopFree /\ net = "up" /\ ~session[d] /\ turnSeq[d] < MaxSeq
  /\ turnSeq' = [turnSeq EXCEPT ![d] = @ + 1]
  /\ queue' = Append(queue, <<d, turnSeq[d] + 1>>)
  /\ Goto(<<d, turnSeq[d] + 1>>, "queued")
  /\ UNCHANGED <<link, busy, inputs, mode, held, st, lock, timers, heard>>

FaceLost(d) ==
  /\ LoopFree /\ net = "up" /\ face[d] = "present" /\ absences[d] < MaxAbsences
  /\ face' = [face EXCEPT ![d] = "gone"]
  /\ absences' = [absences EXCEPT ![d] = @ + 1]
  /\ UNCHANGED <<link, turnSeq, queue, busy, opener, greeting, hellos, session,
                 sessions, worker, st, lock, timers, heard>>

(* The child is back.  Only a long absence earns a hello: said at once as  *)
(* the reply to this event, or kept for the next turn when a turn is in    *)
(* flight or the event came on its own subtopic (asRequest FALSE).  During *)
(* a telehealth session a request is ignored, the subtopic is not.         *)
FaceFound(d, long, asRequest) ==
  /\ LoopFree /\ net = "up" /\ face[d] = "gone"
  /\ asRequest => ~session[d]
  /\ face' = [face EXCEPT ![d] = "present"]
  /\ opener' = [opener EXCEPT ![d] = @ \/ (long /\ (d \in busy \/ ~asRequest))]
  /\ greeting' = IF long /\ asRequest /\ d \notin busy THEN {d} ELSE {}
  /\ UNCHANGED <<link, turnSeq, queue, busy, absences, hellos, session, sessions,
                 worker, st, lock, timers, heard>>

SayHello(d) ==
  /\ d \in greeting
  /\ greeting' = {}
  /\ hellos' = IF net = "up" THEN [hellos EXCEPT ![d] = @ + 1] ELSE hellos
  /\ UNCHANGED <<link, turnSeq, queue, busy, opener, face, absences, session,
                 sessions, worker, st, lock, timers, heard>>

(* The socket dies first; the callback that stales every turn runs later,  *)
(* and only after it does paho reconnect.                                  *)
SocketLost ==
  /\ net = "up" /\ outages < MaxOutages
  /\ net' = "lost" /\ outages' = outages + 1
  /\ UNCHANGED <<turnSeq, queue, busy, inputs, worker, st, lock, timers, heard>>

MutDisconnectKeepsTurns ==
  /\ LoopFree /\ net = "lost"
  /\ net' = "down"
  /\ UNCHANGED <<turnSeq, outages, queue, busy, inputs, worker, st, lock, timers, heard>>

OnDisconnect ==
  /\ LoopFree /\ net = "lost"
  /\ net' = "down"
  /\ turnSeq' = [d \in Robots |-> turnSeq[d] + 1]
  /\ UNCHANGED <<outages, queue, busy, inputs, worker, st, lock, timers, heard>>

OnConnect ==
  /\ LoopFree /\ net = "down"
  /\ net' = "up"
  /\ UNCHANGED <<outages, turnSeq, queue, busy, inputs, worker, st, lock, timers, heard>>

(***************************************************************************)
(* The operator's telehealth session, opened and closed by HTTP threads.   *)
(***************************************************************************)
StartSession(d) ==
  /\ ~session[d] /\ sessions < MaxSessions
  /\ session' = [session EXCEPT ![d] = TRUE]
  /\ sessions' = sessions + 1
  /\ UNCHANGED <<link, turnSeq, queue, busy, opener, face, absences, greeting,
                 hellos, worker, st, lock, timers, heard>>

EndSession(d) ==
  /\ session[d]
  /\ session' = [session EXCEPT ![d] = FALSE]
  /\ UNCHANGED <<link, turnSeq, queue, busy, opener, face, absences, greeting,
                 hellos, sessions, worker, st, lock, timers, heard>>

(***************************************************************************)
(* A worker, up to the choice of path: _turn_worker, _safety_gate_input,   *)
(* _handle_turn.                                                           *)
(***************************************************************************)
StartTurn ==
  /\ queue # << >>
  /\ Cardinality({t \in Turns : Running(t)}) < Workers
  /\ queue' = Tail(queue)
  /\ busy' = busy \cup {Head(queue)[1]}
  /\ Goto(Head(queue), "gate")
  /\ UNCHANGED <<link, turnSeq, inputs, mode, held, st, lock, timers, heard>>

(* `blocked`: the classifier blocks what the child said. *)
InputGate(t, blocked) ==
  /\ pc[t] = "gate"
  /\ Goto(t, IF ~blocked THEN "route" ELSE IF Stale(t) THEN "finish" ELSE "redirect")
  /\ held' = IF blocked THEN [held EXCEPT ![t] = Redirect] ELSE held
  /\ UNCHANGED <<link, turnSeq, queue, busy, inputs, mode, st, lock, timers, heard>>

(* `streamed`: streaming is on and the app's respond_stream gives a stream. *)
Route(t, streamed) ==
  /\ pc[t] = "route"
  /\ mode' = [mode EXCEPT ![t] = IF streamed THEN "stream" ELSE "plain"]
  /\ Goto(t, "opener")
  /\ UNCHANGED <<link, turnSeq, queue, busy, inputs, held, st, lock, timers, heard>>

MutOpenerNotPopped(t) ==
  /\ pc[t] = "opener"
  /\ Goto(t, IF opener[t[1]] /\ ~Stale(t) THEN "hello" ELSE "arm")
  /\ UNCHANGED <<link, turnSeq, queue, busy, inputs, mode, held, st, lock, timers, heard>>

(* The queued hello is popped before the staleness check, and lost by it. *)
TakeOpener(t) ==
  /\ pc[t] = "opener"
  /\ Goto(t, IF opener[t[1]] /\ ~Stale(t) THEN "hello" ELSE "arm")
  /\ opener' = [opener EXCEPT ![t[1]] = FALSE]
  /\ UNCHANGED <<link, turnSeq, queue, busy, face, absences, greeting, hellos,
                 session, sessions, mode, held, st, lock, timers, heard>>

SayOpener(t) ==
  /\ pc[t] = "hello"
  /\ Publish(t, "hello", 0, FALSE, TRUE)
  /\ st' = [st EXCEPT ![t].chunk = 1]
  /\ Goto(t, "arm")
  /\ UNCHANGED <<link, turnSeq, queue, busy, inputs, mode, held, lock, timers>>

MutClosingUnnumbered(t) ==
  /\ pc[t] \in {"redirect", "answer", "closing"}
  /\ Publish(t, held[t].kind, 0, held[t].end, held[t].safe)
  /\ Goto(t, "finish")
  /\ UNCHANGED <<link, turnSeq, queue, busy, inputs, mode, held, st, lock, timers>>

(* Every line that closes a turn outside state["lock"]. *)
SayClosing(t) ==
  /\ pc[t] \in {"redirect", "answer", "closing"}
  /\ Publish(t, held[t].kind, st[t].chunk, held[t].end, held[t].safe)
  /\ Goto(t, "finish")
  /\ UNCHANGED <<link, turnSeq, queue, busy, inputs, mode, held, st, lock, timers>>

Finish(t) ==
  /\ pc[t] = "finish"
  /\ busy' = busy \ {t[1]}
  /\ Goto(t, "done")
  /\ UNCHANGED <<link, turnSeq, queue, inputs, mode, held, st, lock, timers, heard>>

(***************************************************************************)
(* The plain path: one reply, one filler at most.  `chunk` 1 stands for    *)
(* state["filler"] being set.                                              *)
(***************************************************************************)
ArmBudget(t) ==
  /\ pc[t] = "arm" /\ mode[t] = "plain"
  /\ armed' = [armed EXCEPT ![t] = {0}]
  /\ Goto(t, "respond")
  /\ UNCHANGED <<link, turnSeq, queue, busy, inputs, mode, held, st, lock, fired,
                 rearm, heard>>

(* The brain answers; timer.cancel() spares only a timer not yet expired. *)
Respond(t, safe) ==
  /\ pc[t] = "respond"
  /\ held' = [held EXCEPT ![t] = Answer(TRUE, safe)]
  /\ armed' = [armed EXCEPT ![t] = {}]
  /\ Goto(t, "close")
  /\ UNCHANGED <<link, turnSeq, queue, busy, inputs, mode, st, lock, fired, rearm, heard>>

MutStaleAnswerKept(t) ==
  /\ pc[t] = "close" /\ lock[t] = "free"
  /\ st' = [st EXCEPT ![t].done = TRUE]
  /\ Goto(t, "answer")
  /\ UNCHANGED <<link, turnSeq, queue, busy, inputs, mode, held, lock, timers, heard>>

(* Close the filler door, drop a stale answer, assess the others. *)
CloseDoor(t) ==
  /\ pc[t] = "close" /\ lock[t] = "free"
  /\ st' = [st EXCEPT ![t].done = TRUE]
  /\ held' = IF held[t].safe THEN held ELSE [held EXCEPT ![t] = Redirect]
  /\ Goto(t, IF Stale(t) THEN "finish" ELSE "answer")
  /\ UNCHANGED <<link, turnSeq, queue, busy, inputs, mode, lock, timers, heard>>

(* _speak_filler takes the lock, and the filler door is open. *)
EnterFiller(t) ==
  /\ mode[t] = "plain" /\ fired[t] # {} /\ lock[t] = "free"
  /\ fired' = [fired EXCEPT ![t] = {}]
  /\ lock' = IF st[t].done \/ Stale(t) THEN lock ELSE [lock EXCEPT ![t] = "timer"]
  /\ UNCHANGED <<link, turnSeq, queue, busy, inputs, worker, st, armed, rearm, heard>>

MutFillerKeepsLock(t) ==
  /\ mode[t] = "plain" /\ lock[t] = "timer" /\ st[t].chunk = 0
  /\ Publish(t, "filler", 0, FALSE, TRUE)
  /\ st' = [st EXCEPT ![t].chunk = 1]
  /\ UNCHANGED <<link, turnSeq, queue, busy, inputs, worker, lock, timers>>

SayFiller(t) ==
  /\ mode[t] = "plain" /\ lock[t] = "timer"
  /\ Publish(t, "filler", 0, FALSE, TRUE)
  /\ st' = [st EXCEPT ![t].chunk = 1]
  /\ lock' = [lock EXCEPT ![t] = "free"]
  /\ UNCHANGED <<link, turnSeq, queue, busy, inputs, worker, timers>>

(* threading.Timer: a timer of either path expires and waits for the lock. *)
TimerExpires(t, g) ==
  /\ g \in armed[t]
  /\ armed' = [armed EXCEPT ![t] = @ \ {g}]
  /\ fired' = [fired EXCEPT ![t] = @ \cup {g}]
  /\ UNCHANGED <<link, turnSeq, queue, busy, inputs, worker, st, lock, rearm, heard>>

(***************************************************************************)
(* The streamed path (_handle_stream_turn).                                *)
(***************************************************************************)
MutCanArmAfterEnd(t) == st[t].fillers < MaxFillers
CanArm(t) == ~st[t].done /\ st[t].fillers < MaxFillers

(* _arm_filler by the worker ... *)
ArmStream(t) ==
  /\ pc[t] = "arm" /\ mode[t] = "stream" /\ lock[t] = "free"
  /\ IF CanArm(t)
     THEN /\ armed' = [armed EXCEPT ![t] = @ \cup {st[t].gen}]
          /\ st' = [st EXCEPT ![t].timer = st[t].gen]
     ELSE UNCHANGED <<armed, st>>
  /\ Goto(t, "stream")
  /\ UNCHANGED <<link, turnSeq, queue, busy, inputs, mode, held, lock, fired, rearm, heard>>

(* ... and by the filler thread, after it released the lock. *)
RearmStream(t) ==
  /\ rearm[t] > 0 /\ lock[t] = "free"
  /\ rearm' = [rearm EXCEPT ![t] = @ - 1]
  /\ IF CanArm(t)
     THEN /\ armed' = [armed EXCEPT ![t] = @ \cup {st[t].gen}]
          /\ st' = [st EXCEPT ![t].timer = st[t].gen]
     ELSE UNCHANGED <<armed, st>>
  /\ UNCHANGED <<link, turnSeq, queue, busy, inputs, worker, lock, fired, heard>>

(* A chunk arrives, is assessed, and takes the lock: the running timer is  *)
(* cancelled, an expired one outdated by `gen`.  A blocked chunk becomes   *)
(* the redirect that closes the turn.                                      *)
StreamChunk(t, final, safe) ==
  /\ pc[t] = "stream" /\ lock[t] = "free" /\ st[t].ans < MaxChunks
  /\ armed' = [armed EXCEPT ![t] = @ \ {st[t].timer}]
  /\ st' = [st EXCEPT ![t].gen = @ + 1, ![t].timer = NoTimer,
                      ![t].done = ~Stale(t) /\ (final \/ ~safe)]
  /\ held' = [held EXCEPT ![t] = IF safe THEN Answer(final, TRUE) ELSE Redirect]
  /\ IF Stale(t)
     THEN Goto(t, "cancelled") /\ UNCHANGED lock
     ELSE Goto(t, "chunk") /\ lock' = [lock EXCEPT ![t] = "worker"]
  /\ UNCHANGED <<link, turnSeq, queue, busy, inputs, mode, fired, rearm, heard>>

SayChunk(t) ==
  /\ pc[t] = "chunk"
  /\ Publish(t, held[t].kind, st[t].chunk, held[t].end, held[t].safe)
  /\ st' = [st EXCEPT ![t].chunk = @ + 1, ![t].ans = @ + 1]
  /\ lock' = [lock EXCEPT ![t] = "free"]
  /\ Goto(t, IF held[t].end THEN "closed" ELSE "arm")
  /\ UNCHANGED <<link, turnSeq, queue, busy, inputs, mode, held, timers>>

(* The generator stops without a final chunk, by returning or by raising. *)
StreamStops(t, failed) ==
  /\ pc[t] = "stream"
  /\ Goto(t, IF failed THEN "raised" ELSE "ended")
  /\ UNCHANGED <<link, turnSeq, queue, busy, inputs, mode, held, st, lock, timers, heard>>

(* The `finally` block, the second staleness check, and what is left to    *)
(* say: an unfinished sequence is closed, or, when the stream failed       *)
(* before a word, answered by a plain call of the brain.                   *)
CloseStream(t) ==
  /\ pc[t] \in {"ended", "raised", "closed", "cancelled"} /\ lock[t] = "free"
  /\ st' = [st EXCEPT ![t].done = TRUE, ![t].timer = NoTimer]
  /\ armed' = [armed EXCEPT ![t] = @ \ {st[t].timer}]
  /\ held' = [held EXCEPT ![t] = Closing]
  /\ Goto(t, IF Stale(t) \/ pc[t] = "closed" THEN "finish"
             ELSE IF pc[t] = "raised" /\ st[t].chunk = 0 THEN "fallback"
             ELSE "closing")
  /\ UNCHANGED <<link, turnSeq, queue, busy, inputs, mode, lock, fired, rearm, heard>>

(* _safe_respond on the streamed path; its reply is published unassessed. *)
Fallback(t, safe) ==
  /\ pc[t] = "fallback"
  /\ held' = [held EXCEPT ![t] = Answer(TRUE, safe)]
  /\ Goto(t, "closing")
  /\ UNCHANGED <<link, turnSeq, queue, busy, inputs, mode, st, lock, timers, heard>>

(* _speak_stream_filler of the timer armed at generation g takes the lock. *)
EnterStreamFiller(t, g) ==
  /\ mode[t] = "stream" /\ g \in fired[t] /\ lock[t] = "free"
  /\ fired' = [fired EXCEPT ![t] = @ \ {g}]
  /\ IF CanArm(t) /\ st[t].gen = g /\ ~Stale(t)
     THEN /\ lock' = [lock EXCEPT ![t] = "timer"]
          /\ st' = [st EXCEPT ![t].fillers = @ + 1, ![t].gen = @ + 1,
                              ![t].timer = NoTimer]
     ELSE UNCHANGED <<lock, st>>
  /\ UNCHANGED <<link, turnSeq, queue, busy, inputs, worker, armed, rearm, heard>>

SayStreamFiller(t) ==
  /\ mode[t] = "stream" /\ lock[t] = "timer"
  /\ Publish(t, "filler", st[t].chunk, FALSE, TRUE)
  /\ st' = [st EXCEPT ![t].chunk = @ + 1]
  /\ lock' = [lock EXCEPT ![t] = "free"]
  /\ rearm' = [rearm EXCEPT ![t] = @ + 1]
  /\ UNCHANGED <<link, turnSeq, queue, busy, inputs, worker, armed, fired>>

(***************************************************************************)
(* The specification                                                       *)
(***************************************************************************)
Worker(t) ==
  \/ SayOpener(t) \/ SayClosing(t) \/ Finish(t) \/ TakeOpener(t)
  \/ ArmBudget(t) \/ CloseDoor(t)
  \/ ArmStream(t) \/ SayChunk(t) \/ CloseStream(t)
  \/ \E b \in BOOLEAN :
       \/ InputGate(t, b) \/ Route(t, b) \/ Respond(t, b)
       \/ StreamStops(t, b) \/ Fallback(t, b)
  \/ \E final, safe \in BOOLEAN : StreamChunk(t, final, safe)

Filler(t) ==
  \/ EnterFiller(t) \/ SayFiller(t) \/ SayStreamFiller(t) \/ RearmStream(t)
  \/ \E g \in Gens : TimerExpires(t, g) \/ EnterStreamFiller(t, g)

Loop ==
  \/ SocketLost \/ OnDisconnect \/ OnConnect
  \/ \E d \in Robots :
       \/ Prompt(d) \/ FaceLost(d) \/ SayHello(d)
       \/ \E long, asRequest \in BOOLEAN : FaceFound(d, long, asRequest)

Operator == \E d \in Robots : StartSession(d) \/ EndSession(d)

Next ==
  \/ Loop \/ Operator \/ StartTurn
  \/ \E t \in Turns : Worker(t) \/ Filler(t)

Spec == Init /\ [][Next]_vars

(* What the operating system and the brain owe: a runnable thread runs, a  *)
(* brain call returns, a lost socket is noticed.  Nothing is asked of the  *)
(* child, of the operator or of a timer not yet expired.                   *)
Fairness ==
  /\ WF_vars(OnDisconnect) /\ WF_vars(StartTurn)
  /\ \A d \in Robots : WF_vars(SayHello(d))
  /\ \A t \in Turns :
       /\ WF_vars(Worker(t))
       /\ WF_vars(SayFiller(t)) /\ WF_vars(SayStreamFiller(t))

FairSpec == Spec /\ Fairness

(***************************************************************************)
(* Properties                                                              *)
(***************************************************************************)
TypeOK ==
  /\ net \in {"up", "lost", "down"} /\ outages \in Nat
  /\ turnSeq \in [Robots -> Nat]
  /\ queue \in Seq(Turns) /\ busy \subseteq Robots
  /\ opener \in [Robots -> BOOLEAN] /\ face \in [Robots -> {"present", "gone"}]
  /\ absences \in [Robots -> Nat] /\ hellos \in [Robots -> Nat]
  /\ greeting \subseteq Robots
  /\ session \in [Robots -> BOOLEAN] /\ sessions \in Nat
  /\ pc \in [Turns -> PCs] /\ mode \in [Turns -> {"plain", "stream"}]
  /\ st \in [Turns -> TurnState]
  /\ lock \in [Turns -> {"free", "worker", "timer"}]
  /\ held \in [Turns -> Speech]
  /\ armed \in [Turns -> SUBSET Int] /\ fired \in [Turns -> SUBSET Int]
  /\ rearm \in [Turns -> Nat]
  /\ heard \in [Turns -> Seq(Lines)]

(* However prompts, timers and the worker interleave, a superseded turn    *)
(* speaks at most one more line: the one already past its staleness check. *)
AtMostOneLateLine ==
  \A t \in Turns : \A i, j \in DOMAIN heard[t] :
    heard[t][i].late /\ heard[t][j].late => i = j

(* Nothing follows the line that closes a turn: no filler of a timer that  *)
(* lost the race, no second closing line.                                  *)
NothingAfterTheEnd ==
  \A t \in Turns : \A i \in DOMAIN heard[t] : heard[t][i].end => i = Len(heard[t])

(* What a robot hears of a streamed turn before it is superseded is        *)
(* numbered 0, 1, 2, ... without a gap, also when the socket dies midway.  *)
StreamIsGapFree ==
  \A t \in Turns : mode[t] = "stream" =>
    \A i \in DOMAIN heard[t] : ~heard[t][i].late => heard[t][i].chunk = i - 1

(* An absence of the child is greeted at most once, whichever of the three *)
(* ways the hello takes: at once, kept for a turn, or kept and dropped; and *)
(* a hello is kept only for a turn that is there: the in-flight marker     *)
(* never outlives the workers of a robot.                                  *)
Greetings(d) ==
  hellos[d] + Cardinality({t \in Turns : t[1] = d /\ heard[t] # << >>
                             /\ heard[t][1].kind = "hello"})
    + (IF opener[d] THEN 1 ELSE 0) + Cardinality(greeting \cap {d})
BusyHasAWorker ==
  \A d \in busy : \E t \in Turns : t[1] = d /\ Running(t)
OneHelloPerAbsence ==
  (\A d \in Robots : Greetings(d) <= absences[d]) /\ BusyHasAWorker

(* Every turn gives its thread back to the pool, and its prompt has then   *)
(* been answered to the end, unless a newer turn or a lost connection made *)
(* it stale first.                                                         *)
Answered(t) == heard[t] # << >> /\ heard[t][Len(heard[t])].end
EveryTurnEnds ==
  \A t \in Turns : pc[t] = "queued" ~> (pc[t] = "done" /\ (Answered(t) \/ Stale(t)))

(* The engine keeps the contract of TurnContract, told of each line its    *)
(* number, whether it closes the turn and whether it came late.            *)
Told(s) == [i \in DOMAIN s |->
              [chunk |-> s[i].chunk, end |-> s[i].end, late |-> s[i].late]]
AllTold == [t \in Turns |-> Told(heard[t])]
Contract == INSTANCE TurnContract WITH
  newest <- turnSeq, said <- AllTold, MaxChunk <- MaxChunks + MaxFillers + 1
KeepsTheContract == Contract!Spec
=============================================================================
