------------------------- MODULE TurnEngine_proofs -------------------------
(***************************************************************************)
(* Proofs about TurnEngine, in three parts: its type invariant, that a     *)
(* superseded turn says at most one more line and nothing follows a        *)
(* closing line; that the lines of a streamed turn are numbered without a  *)
(* gap and the engine implements TurnContract; and that no absence of the  *)
(* child is greeted twice.                                                 *)
(*                                                                         *)
(* The argument for the first: a turn has at most one speaker past its     *)
(* checks at a time, its worker or one of its filler threads, because      *)
(* timers do not exist before the turn is armed, find the door shut once   *)
(* the worker is about to close, and share state["lock"] with the worker   *)
(* while chunks flow. Numbers only grow, so a stale turn stays stale and   *)
(* lets nobody else past a check.                                          *)
(*                                                                         *)
(* The argument for the numbers: until a turn is over, state["chunk"] is   *)
(* the number of the next line, and while the turn is current and the      *)
(* socket is up it is how many lines the robot heard.  A line can only be  *)
(* lost on a dead socket, and before the socket is back _on_disconnect has *)
(* made every turn stale.                                                  *)
(***************************************************************************)
EXTENDS TurnEngine, SequenceTheorems, FiniteSetTheorems, TLAPS

-----------------------------------------------------------------------------
(* What one publication does to what the robots heard. *)
Line(t, kind, n, end, safe) ==
  [kind |-> kind, chunk |-> n, end |-> end, safe |-> safe,
   late |-> Stale(t)]

LEMMA PublishOne ==
  ASSUME TypeOK, NEW t \in Turns, NEW kind \in {"hello", "filler", "answer", "redirect", "closing"},
         NEW n \in Nat, NEW end \in BOOLEAN, NEW safe \in BOOLEAN,
         Publish(t, kind, n, end, safe)
  PROVE  /\ heard' \in [Turns -> Seq(Lines)]
         /\ \A x \in Turns \ {t} : heard'[x] = heard[x]
         /\ \/ heard'[t] = heard[t]
            \/ heard'[t] = Append(heard[t], Line(t, kind, n, end, safe))
<1>1. t[1] \in Robots
  BY DEF Turns
<1>2. Stale(t) \in BOOLEAN /\ session[t[1]] \in BOOLEAN
  BY <1>1 DEF TypeOK, Stale
<1>3. Line(t, kind, n, end, safe) \in Lines
  BY <1>2 DEF Line, Lines
<1>4. heard' = heard \/ heard' = [heard EXCEPT ![t] = Append(heard[t], Line(t, kind, n, end, safe))]
  BY DEF Publish, Line
<1>5. heard \in [Turns -> Seq(Lines)] /\ Append(heard[t], Line(t, kind, n, end, safe)) \in Seq(Lines)
  BY <1>3 DEF TypeOK
<1> QED
  BY <1>4, <1>5

(* The start. *)
LEMMA InitTypes == Init => TypeOK
  BY DEF Init, TypeOK, PCs, Nothing, Speech, FreshState, TurnState, NoTimer

(***************************************************************************)
(* The inductive invariant, turn by turn.                                  *)
(***************************************************************************)
(* Before a turn is armed it has no timer, so nobody but its worker.       *)
Early == {"idle", "queued", "gate", "redirect", "route", "opener", "hello"}

(* Where the worker is past its check and still to publish. *)
Speaking == {"hello", "redirect", "answer", "chunk", "fallback", "closing"}

Quiet(t) == pc[t] \notin Speaking /\ lock[t] = "free"

NoTimers(t) == armed[t] = {} /\ fired[t] = {} /\ rearm[t] = 0

(* A worker about to speak has something to say. *)
HeldOK(t) ==
  pc[t] \in {"redirect", "close", "answer", "chunk", "closing"} => held[t].kind # "none"

(* At most one of the worker and the timers is past its checks. *)
PlaceOK(t) ==
  /\ pc[t] # "idle" => t[2] <= turnSeq[t[1]]
  /\ pc[t] \in Early => NoTimers(t) /\ lock[t] = "free"
  /\ pc[t] \in {"answer", "fallback", "closing"} => st[t].done /\ lock[t] = "free"
  /\ pc[t] = "chunk" <=> lock[t] = "worker"
  /\ pc[t] = "chunk" /\ held[t].end => st[t].done
  /\ pc[t] = "closed" => st[t].done

(* Once a line came late nobody is past a check, and it was the only one.  *)
LateOK(t) ==
  /\ (\E i \in DOMAIN heard[t] : heard[t][i].late)
       => Stale(t) /\ pc[t] # "idle" /\ Quiet(t)
  /\ \A i, j \in DOMAIN heard[t] : heard[t][i].late /\ heard[t][j].late => i = j

(* Once the closing line is out, every door is shut, and it was the last. *)
Shut(t) ==
  /\ pc[t] \in {"closed", "finish", "done"} /\ lock[t] = "free"
  /\ st[t].done \/ NoTimers(t)

EndOK(t) ==
  /\ (\E i \in DOMAIN heard[t] : heard[t][i].end) => Shut(t)
  /\ \A i \in DOMAIN heard[t] : heard[t][i].end => i = Len(heard[t])

TurnOK(t) == HeldOK(t) /\ PlaceOK(t) /\ LateOK(t) /\ EndOK(t)

(* The pool's queue holds the queued turns, each once. *)
QueueOK ==
  /\ \A i \in DOMAIN queue : pc[queue[i]] = "queued"
  /\ \A i, j \in DOMAIN queue : queue[i] = queue[j] => i = j

IInv == TypeOK /\ QueueOK /\ \A t \in Turns : TurnOK(t)

LEMMA NoTimerIsInt == NoTimer \in Int
  BY DEF NoTimer

(* Every step keeps the types; `state` and what was heard first. *)
LEMMA StateStep == TypeOK /\ [Next]_vars => st' \in [Turns -> TurnState]
<1> SUFFICES ASSUME TypeOK, Next PROVE st' \in [Turns -> TurnState]
  BY DEF TypeOK, vars
<1>1. st \in [Turns -> TurnState]
  BY DEF TypeOK
<1>2. ASSUME NEW t \in Turns, SayOpener(t) \/ SayFiller(t) \/ SayStreamFiller(t)
      PROVE  st' \in [Turns -> TurnState]
  <2>1. CASE SayOpener(t) \/ SayFiller(t)
    <3>1. st' = [st EXCEPT ![t].chunk = 1]
      BY <2>1 DEF SayOpener, SayFiller
    <3> QED
      BY <1>1, <3>1 DEF TurnState
  <2>2. CASE SayStreamFiller(t)
    <3>1. st' = [st EXCEPT ![t].chunk = st[t].chunk + 1]
      BY <2>2 DEF SayStreamFiller
    <3> QED
      BY <1>1, <3>1 DEF TurnState
  <2> QED
    BY <1>2, <2>1, <2>2
<1>3. ASSUME NEW t \in Turns, CloseDoor(t) \/ ArmStream(t) \/ RearmStream(t)
      PROVE  st' \in [Turns -> TurnState]
  <2>1. st[t].gen \in Int
    BY <1>1 DEF TurnState
  <2>2. \/ st' = [st EXCEPT ![t].done = TRUE]
        \/ st' = [st EXCEPT ![t].timer = st[t].gen]
        \/ st' = st
    BY <1>3 DEF CloseDoor, ArmStream, RearmStream
  <2> QED
    BY <1>1, <2>1, <2>2 DEF TurnState
<1>4. ASSUME NEW t \in Turns, CloseStream(t) PROVE st' \in [Turns -> TurnState]
  BY <1>1, <1>4, NoTimerIsInt DEF CloseStream, TurnState
<1>5. ASSUME NEW t \in Turns, SayChunk(t) PROVE st' \in [Turns -> TurnState]
  <2> DEFINE s1 == [st EXCEPT ![t].chunk = st[t].chunk + 1]
  <2>1. s1 \in [Turns -> TurnState]
    BY <1>1 DEF TurnState
  <2>2. st' = [s1 EXCEPT ![t].ans = st[t].ans + 1]
    BY <1>5 DEF SayChunk
  <2> QED
    BY <1>1, <2>1, <2>2 DEF TurnState
<1>6. ASSUME NEW t \in Turns, NEW final \in BOOLEAN, NEW safe \in BOOLEAN,
             StreamChunk(t, final, safe)
      PROVE  st' \in [Turns -> TurnState]
  <2> DEFINE v == ~Stale(t) /\ (final \/ ~safe)
             s1 == [st EXCEPT ![t].gen = st[t].gen + 1]
             s2 == [s1 EXCEPT ![t].timer = NoTimer]
  <2>1. s1 \in [Turns -> TurnState]
    BY <1>1 DEF TurnState
  <2>2. s2 \in [Turns -> TurnState]
    BY <2>1, NoTimerIsInt DEF TurnState
  <2>3. v \in BOOLEAN /\ st' = [s2 EXCEPT ![t].done = v]
    BY <1>6 DEF StreamChunk
  <2> HIDE DEF v, s2
  <2> QED
    BY <2>2, <2>3 DEF TurnState
<1>7. ASSUME NEW t \in Turns, NEW g \in Gens, EnterStreamFiller(t, g)
      PROVE  st' \in [Turns -> TurnState]
  <2> DEFINE s1 == [st EXCEPT ![t].fillers = st[t].fillers + 1]
             s2 == [s1 EXCEPT ![t].gen = st[t].gen + 1]
  <2>1. s1 \in [Turns -> TurnState] /\ st[t].gen + 1 \in Nat
    BY <1>1 DEF TurnState
  <2> HIDE DEF s1
  <2>2. s2 \in [Turns -> TurnState]
    BY <2>1 DEF TurnState
  <2> USE DEF s1
  <2>3. st' = st \/ st' = [s2 EXCEPT ![t].timer = NoTimer]
    BY <1>7 DEF EnterStreamFiller
  <2> HIDE DEF s2
  <2> QED
    BY <1>1, <2>2, <2>3, NoTimerIsInt DEF TurnState
<1>8. ASSUME UNCHANGED st PROVE st' \in [Turns -> TurnState]
  BY <1>1, <1>8
<1> QED
  BY <1>2, <1>3, <1>4, <1>5, <1>6, <1>7, <1>8
     DEF Next, Loop, Operator, Worker, Filler, Prompt, FaceLost, FaceFound, SayHello,
         SocketLost, OnDisconnect, OnConnect, StartSession, EndSession, StartTurn,
         InputGate, Route, TakeOpener, SayClosing, Finish, ArmBudget, Respond,
         StreamStops, Fallback, EnterFiller, TimerExpires

LEMMA HeardStep == IInv /\ [Next]_vars => heard' \in [Turns -> Seq(Lines)]
<1> SUFFICES ASSUME IInv, Next PROVE heard' \in [Turns -> Seq(Lines)]
  BY DEF IInv, TypeOK, vars
<1>0. TypeOK
  BY DEF IInv
<1>1. ASSUME NEW t \in Turns, SayOpener(t) \/ SayFiller(t)
      PROVE  heard' \in [Turns -> Seq(Lines)]
  BY <1>0, <1>1, PublishOne DEF SayOpener, SayFiller
<1>2. ASSUME NEW t \in Turns, SayStreamFiller(t) PROVE heard' \in [Turns -> Seq(Lines)]
  <2>1. st[t].chunk \in Nat
    BY <1>0 DEF TypeOK, TurnState
  <2> QED
    BY <1>0, <1>2, <2>1, PublishOne DEF SayStreamFiller
<1>3. ASSUME NEW t \in Turns, SayClosing(t) \/ SayChunk(t)
      PROVE  heard' \in [Turns -> Seq(Lines)]
  <2>1. st[t].chunk \in Nat
    BY <1>0 DEF TypeOK, TurnState
  <2>2. held[t] \in Speech /\ held[t].kind # "none"
    BY <1>0, <1>3 DEF TypeOK, IInv, TurnOK, HeldOK, SayClosing, SayChunk
  <2>3. held[t].kind \in {"hello", "filler", "answer", "redirect", "closing"}
        /\ held[t].end \in BOOLEAN /\ held[t].safe \in BOOLEAN
    BY <2>2 DEF Speech
  <2>4. Publish(t, held[t].kind, st[t].chunk, held[t].end, held[t].safe)
    BY <1>3 DEF SayClosing, SayChunk
  <2> QED
    BY <1>0, <2>1, <2>3, <2>4, PublishOne
<1>4. ASSUME UNCHANGED heard PROVE heard' \in [Turns -> Seq(Lines)]
  BY <1>0, <1>4 DEF TypeOK
<1>5. ASSUME Loop \/ Operator \/ StartTurn PROVE UNCHANGED heard
  BY <1>5 DEF Loop, Operator, Prompt, FaceLost, FaceFound, SayHello, SocketLost,
       OnDisconnect, OnConnect, StartSession, EndSession, StartTurn
<1>6. ASSUME NEW t \in Turns, Worker(t)
      PROVE  SayOpener(t) \/ SayClosing(t) \/ SayChunk(t) \/ UNCHANGED heard
  BY <1>6 DEF Worker, InputGate, Route, TakeOpener, Finish, ArmBudget, Respond,
       CloseDoor, ArmStream, StreamChunk, CloseStream, StreamStops, Fallback
<1>7. ASSUME NEW t \in Turns, Filler(t)
      PROVE  SayFiller(t) \/ SayStreamFiller(t) \/ UNCHANGED heard
  BY <1>7 DEF Filler, EnterFiller, EnterStreamFiller, RearmStream, TimerExpires
<1> QED
  BY <1>1, <1>2, <1>3, <1>4, <1>5, <1>6, <1>7 DEF Next

LEMMA TypeStep == IInv /\ [Next]_vars => TypeOK'
<1> SUFFICES ASSUME IInv, TypeOK, Next PROVE TypeOK'
  BY DEF IInv, TypeOK, vars, link, inputs, worker, timers
<1>0. st' \in [Turns -> TurnState] /\ heard' \in [Turns -> Seq(Lines)]
  BY StateStep, HeardStep
<1>1. ASSUME NEW d \in Robots, Prompt(d) PROVE TypeOK'
  <2>1. <<d, turnSeq[d] + 1>> \in Turns
    BY <1>1, BoundsAssumption DEF Prompt, Turns, TypeOK
  <2>2. turnSeq' \in [Robots -> Nat]
    BY <1>1 DEF Prompt, TypeOK
  <2>3. queue' \in Seq(Turns)
    BY <1>1, <2>1 DEF Prompt, TypeOK
  <2> QED
    BY <1>0, <1>1, <2>1, <2>2, <2>3 DEF Prompt, TypeOK, PCs, Goto, link, inputs, timers
<1>2. ASSUME NEW d \in Robots, FaceLost(d) PROVE TypeOK'
  BY <1>0, <1>2 DEF FaceLost, TypeOK, link, inputs, worker, timers
<1>3. ASSUME NEW d \in Robots, NEW long \in BOOLEAN, NEW asRequest \in BOOLEAN,
             FaceFound(d, long, asRequest) PROVE TypeOK'
  BY <1>0, <1>3 DEF FaceFound, TypeOK, link, inputs, worker, timers
<1>4. ASSUME NEW d \in Robots, SayHello(d) PROVE TypeOK'
  BY <1>0, <1>4 DEF SayHello, TypeOK, link, inputs, worker, timers
<1>5. ASSUME SocketLost PROVE TypeOK'
  BY <1>0, <1>5 DEF SocketLost, TypeOK, link, inputs, worker, timers
<1>6. ASSUME OnDisconnect PROVE TypeOK'
  BY <1>0, <1>6 DEF OnDisconnect, TypeOK, link, inputs, worker, timers
<1>7. ASSUME OnConnect PROVE TypeOK'
  BY <1>0, <1>7 DEF OnConnect, TypeOK, link, inputs, worker, timers
<1>8. ASSUME NEW d \in Robots, StartSession(d) PROVE TypeOK'
  BY <1>0, <1>8 DEF StartSession, TypeOK, link, inputs, worker, timers
<1>9. ASSUME NEW d \in Robots, EndSession(d) PROVE TypeOK'
  BY <1>0, <1>9 DEF EndSession, TypeOK, link, inputs, worker, timers
<1>10. ASSUME StartTurn PROVE TypeOK'
  <2>1. queue # << >> /\ queue \in Seq(Turns)
    BY <1>10 DEF StartTurn, TypeOK
  <2>2. Head(queue) \in Turns /\ Tail(queue) \in Seq(Turns)
    BY <2>1
  <2>3. Head(queue)[1] \in Robots
    BY <2>2 DEF Turns
  <2> QED
    BY <1>0, <1>10, <2>2, <2>3 DEF StartTurn, TypeOK, PCs, Goto, link, inputs, timers
<1>11. ASSUME NEW t \in Turns, NEW b \in BOOLEAN, InputGate(t, b) PROVE TypeOK'
  BY <1>0, <1>11 DEF InputGate, TypeOK, PCs, Goto, link, inputs, worker, timers, Redirect, Speech
<1>12. ASSUME NEW t \in Turns, NEW b \in BOOLEAN, Route(t, b) PROVE TypeOK'
  BY <1>0, <1>12 DEF Route, TypeOK, PCs, Goto, link, inputs, worker, timers
<1>13. ASSUME NEW t \in Turns, TakeOpener(t) PROVE TypeOK'
  <2>1. t[1] \in Robots
    BY DEF Turns
  <2> QED
    BY <1>0, <1>13, <2>1 DEF TakeOpener, TypeOK, PCs, Goto, link, inputs, worker, timers
<1>14. ASSUME NEW t \in Turns, SayOpener(t) PROVE TypeOK'
  BY <1>0, <1>14 DEF SayOpener, TypeOK, PCs, Goto, link, inputs, worker, timers
<1>15. ASSUME NEW t \in Turns, SayClosing(t) PROVE TypeOK'
  BY <1>0, <1>15 DEF SayClosing, TypeOK, PCs, Goto, link, inputs, worker, timers
<1>16. ASSUME NEW t \in Turns, Finish(t) PROVE TypeOK'
  BY <1>0, <1>16 DEF Finish, TypeOK, PCs, Goto, link, inputs, worker, timers
<1>17. ASSUME NEW t \in Turns, ArmBudget(t) PROVE TypeOK'
  BY <1>0, <1>17 DEF ArmBudget, TypeOK, PCs, Goto, link, inputs, worker, timers
<1>18. ASSUME NEW t \in Turns, NEW b \in BOOLEAN, Respond(t, b) PROVE TypeOK'
  BY <1>0, <1>18 DEF Respond, TypeOK, PCs, Goto, link, inputs, worker, timers, Answer, Speech
<1>19. ASSUME NEW t \in Turns, CloseDoor(t) PROVE TypeOK'
  BY <1>0, <1>19 DEF CloseDoor, TypeOK, PCs, Goto, link, inputs, worker, timers, Redirect, Speech
<1>20. ASSUME NEW t \in Turns, EnterFiller(t) PROVE TypeOK'
  BY <1>0, <1>20 DEF EnterFiller, TypeOK, PCs, Goto, link, inputs, worker, timers
<1>21. ASSUME NEW t \in Turns, SayFiller(t) PROVE TypeOK'
  BY <1>0, <1>21 DEF SayFiller, TypeOK, PCs, Goto, link, inputs, worker, timers
<1>22. ASSUME NEW t \in Turns, ArmStream(t) PROVE TypeOK'
  <2>1. st[t].gen \in Int /\ armed \in [Turns -> SUBSET Int]
    BY DEF TypeOK, TurnState
  <2>2. armed' \in [Turns -> SUBSET Int]
    BY <1>22, <2>1 DEF ArmStream
  <2> QED
    BY <1>0, <1>22, <2>2 DEF ArmStream, TypeOK, PCs, Goto, link, inputs, worker, timers
<1>23. ASSUME NEW t \in Turns, RearmStream(t) PROVE TypeOK'
  <2>1. st[t].gen \in Int /\ armed \in [Turns -> SUBSET Int]
    BY DEF TypeOK, TurnState
  <2>2. armed' \in [Turns -> SUBSET Int]
    BY <1>23, <2>1 DEF RearmStream
  <2>3. rearm' \in [Turns -> Nat]
    BY <1>23 DEF RearmStream, TypeOK
  <2> QED
    BY <1>0, <1>23, <2>2, <2>3 DEF RearmStream, TypeOK, PCs, Goto, link, inputs, worker, timers
<1>24. ASSUME NEW t \in Turns, SayChunk(t) PROVE TypeOK'
  BY <1>0, <1>24 DEF SayChunk, TypeOK, PCs, Goto, link, inputs, worker, timers
<1>25. ASSUME NEW t \in Turns, NEW b \in BOOLEAN, StreamStops(t, b) PROVE TypeOK'
  BY <1>0, <1>25 DEF StreamStops, TypeOK, PCs, Goto, link, inputs, worker, timers
<1>26. ASSUME NEW t \in Turns, CloseStream(t) PROVE TypeOK'
  BY <1>0, <1>26 DEF CloseStream, TypeOK, PCs, Goto, link, inputs, worker, timers, Closing, Speech
<1>27. ASSUME NEW t \in Turns, NEW b \in BOOLEAN, Fallback(t, b) PROVE TypeOK'
  BY <1>0, <1>27 DEF Fallback, TypeOK, PCs, Goto, link, inputs, worker, timers, Answer, Speech
<1>28. ASSUME NEW t \in Turns, SayStreamFiller(t) PROVE TypeOK'
  BY <1>0, <1>28 DEF SayStreamFiller, TypeOK, PCs, Goto, link, inputs, worker, timers
<1>29. ASSUME NEW t \in Turns, NEW g \in Gens, TimerExpires(t, g) PROVE TypeOK'
  BY <1>0, <1>29 DEF TimerExpires, TypeOK, PCs, Goto, link, inputs, worker, timers, Gens
<1>30. ASSUME NEW t \in Turns, NEW g \in Gens, EnterStreamFiller(t, g) PROVE TypeOK'
  BY <1>0, <1>30 DEF EnterStreamFiller, TypeOK, PCs, Goto, link, inputs, worker, timers, Gens
<1>31. ASSUME NEW t \in Turns, NEW final \in BOOLEAN, NEW safe \in BOOLEAN,
             StreamChunk(t, final, safe) PROVE TypeOK'
  BY <1>0, <1>31 DEF StreamChunk, TypeOK, PCs, Goto, link, inputs, worker, timers, Redirect, Answer, Speech
<1> QED
  BY <1>1, <1>2, <1>3, <1>4, <1>5, <1>6, <1>7, <1>8, <1>9, <1>10, <1>11, <1>12, <1>13, <1>14, <1>15, <1>16, <1>17, <1>18, <1>19, <1>20, <1>21, <1>22, <1>23, <1>24, <1>25, <1>26, <1>27, <1>28, <1>29, <1>30, <1>31
     DEF Next, Loop, Operator, Worker, Filler

-----------------------------------------------------------------------------
(* One step and one turn. *)
SameTurn(t) ==
  /\ pc'[t] = pc[t] /\ held'[t] = held[t] /\ st'[t] = st[t] /\ lock'[t] = lock[t]
  /\ armed'[t] = armed[t] /\ fired'[t] = fired[t] /\ rearm'[t] = rearm[t]
  /\ heard'[t] = heard[t]

(* A turn the step leaves alone, though its robot's number may grow. *)
LEMMA Frame ==
  ASSUME IInv, NEW t \in Turns, SameTurn(t),
         turnSeq'[t[1]] \in Nat, turnSeq'[t[1]] >= turnSeq[t[1]]
  PROVE  TurnOK(t)'
<1>1. t[1] \in Robots /\ t[2] \in Nat /\ turnSeq[t[1]] \in Nat
  BY BoundsAssumption DEF IInv, TypeOK, Turns
<1>2. HeldOK(t) /\ PlaceOK(t) /\ LateOK(t) /\ EndOK(t)
  BY DEF IInv, TurnOK
<1>3. HeldOK(t)'
  BY <1>2 DEF HeldOK, SameTurn
<1>4. PlaceOK(t)'
  BY <1>1, <1>2 DEF PlaceOK, SameTurn, NoTimers
<1>5. pc[t] # "idle" /\ Stale(t) => Stale(t)'
  BY <1>1, <1>2 DEF PlaceOK, Stale
<1>6. LateOK(t)'
  BY <1>2, <1>5 DEF LateOK, Quiet, SameTurn
<1>7. EndOK(t)'
  BY <1>2 DEF EndOK, Shut, NoTimers, SameTurn
<1> QED
  BY <1>3, <1>4, <1>6, <1>7 DEF TurnOK

(* A step that says nothing for turn t. *)
LEMMA Silent ==
  ASSUME IInv, NEW t \in Turns, heard'[t] = heard[t], turnSeq' = turnSeq,
         HeldOK(t)', PlaceOK(t)',
         Stale(t) /\ pc[t] # "idle" /\ Quiet(t) => pc'[t] # "idle" /\ Quiet(t)',
         Shut(t) => Shut(t)'
  PROVE  TurnOK(t)'
<1>1. LateOK(t) /\ EndOK(t)
  BY DEF IInv, TurnOK
<1>2. Stale(t)' = Stale(t)
  BY DEF Stale
<1>3. LateOK(t)'
  BY <1>1, <1>2 DEF LateOK
<1>4. EndOK(t)'
  BY <1>1 DEF EndOK
<1> QED
  BY <1>3, <1>4 DEF TurnOK

(* A line more. *)
LEMMA AppendOne ==
  ASSUME NEW s \in Seq(Lines), NEW l
  PROVE  /\ DOMAIN s = 1 .. Len(s) /\ Len(s) \in Nat
         /\ DOMAIN Append(s, l) = 1 .. (Len(s) + 1)
         /\ Len(Append(s, l)) = Len(s) + 1
         /\ Append(s, l)[Len(s) + 1] = l
         /\ \A i \in 1 .. Len(s) : Append(s, l)[i] = s[i]
OBVIOUS

(* A step that may say one line for turn t: its speaker was past a check,  *)
(* so no late line and no closing line were out, and now nobody is.        *)
LEMMA Spoken ==
  ASSUME IInv, NEW t \in Turns, NEW kind, NEW n, NEW end, NEW safe,
         heard'[t] = heard[t] \/ heard'[t] = Append(heard[t], Line(t, kind, n, end, safe)),
         turnSeq' = turnSeq, HeldOK(t)', PlaceOK(t)',
         ~Quiet(t), ~Shut(t), pc'[t] # "idle", Quiet(t)', end => Shut(t)'
  PROVE  TurnOK(t)'
<1> DEFINE s == heard[t]
           l == Line(t, kind, n, end, safe)
<1>1. /\ \A i \in DOMAIN s : ~s[i].late
      /\ \A i \in DOMAIN s : ~s[i].end
  BY DEF IInv, TurnOK, LateOK, EndOK
<1>2. s \in Seq(Lines)
  BY DEF IInv, TypeOK
<1>3. l.late = Stale(t) /\ l.end = end
  BY DEF Line
<1>4. Stale(t)' = Stale(t)
  BY DEF Stale
<1>5. CASE heard'[t] = s
  <2>1. LateOK(t)' /\ EndOK(t)'
    BY <1>1, <1>5 DEF LateOK, EndOK
  <2> QED
    BY <2>1 DEF TurnOK
<1>6. CASE heard'[t] = Append(s, l)
  <2> HIDE DEF s, l
  <2>1. /\ DOMAIN heard'[t] = 1 .. (Len(s) + 1) /\ Len(heard'[t]) = Len(s) + 1
        /\ Len(s) \in Nat /\ heard'[t][Len(s) + 1] = l
        /\ \A i \in 1 .. Len(s) : i \in DOMAIN s /\ heard'[t][i] = s[i]
    BY <1>2, <1>6, AppendOne
  <2>2. \A i \in DOMAIN heard'[t] : heard'[t][i].late \/ heard'[t][i].end => i = Len(s) + 1
    BY <1>1, <2>1
  <2>3. LateOK(t)'
    <3>1. (\E i \in DOMAIN heard'[t] : heard'[t][i].late) => Stale(t)
      BY <1>3, <2>1, <2>2
    <3> QED
      BY <1>4, <2>2, <3>1 DEF LateOK
  <2>4. EndOK(t)'
    <3>1. (\E i \in DOMAIN heard'[t] : heard'[t][i].end) => end
      BY <1>3, <2>1, <2>2
    <3> QED
      BY <2>1, <2>2, <3>1 DEF EndOK
  <2> QED
    BY <2>3, <2>4 DEF TurnOK
<1> QED
  BY <1>5, <1>6

-----------------------------------------------------------------------------
(* What a worker or a filler thread of turn t leaves alone. *)
Elsewhere(t) == turnSeq' = turnSeq /\ \A x \in Turns \ {t} : SameTurn(x)

LEMMA WorkerElsewhere ==
  ASSUME TypeOK, NEW t \in Turns, Worker(t), HeldOK(t)
  PROVE  Elsewhere(t)
<1>1. ASSUME SayClosing(t) PROVE Elsewhere(t)
  <2>1. \A x \in Turns \ {t} : heard'[x] = heard[x]
    <3>1. held[t] \in Speech /\ held[t].kind # "none" /\ st[t].chunk \in Nat
      BY <1>1 DEF TypeOK, HeldOK, TurnState, SayClosing
    <3>2. Publish(t, held[t].kind, st[t].chunk, held[t].end, held[t].safe)
      BY <1>1 DEF SayClosing
    <3> QED
      BY <3>1, <3>2, PublishOne DEF Speech
  <2> QED
    BY <1>1, <2>1 DEF SayClosing, Goto, Elsewhere, SameTurn, TypeOK, link, inputs, worker, timers
<1>2. ASSUME SayOpener(t) PROVE Elsewhere(t)
  <2>1. \A x \in Turns \ {t} : heard'[x] = heard[x]
    BY <1>2, PublishOne DEF SayOpener
  <2> QED
    BY <1>2, <2>1 DEF SayOpener, Goto, Elsewhere, SameTurn, TypeOK, link, inputs, worker, timers
<1>3. ASSUME SayChunk(t) PROVE Elsewhere(t)
  <2>1. \A x \in Turns \ {t} : heard'[x] = heard[x]
    <3>1. held[t] \in Speech /\ held[t].kind # "none" /\ st[t].chunk \in Nat
      BY <1>3 DEF TypeOK, HeldOK, TurnState, SayChunk
    <3>2. Publish(t, held[t].kind, st[t].chunk, held[t].end, held[t].safe)
      BY <1>3 DEF SayChunk
    <3> QED
      BY <3>1, <3>2, PublishOne DEF Speech
  <2> QED
    BY <1>3, <2>1 DEF SayChunk, Goto, Elsewhere, SameTurn, TypeOK, link, inputs, worker, timers
<1>4. ASSUME Finish(t) PROVE Elsewhere(t)
  BY <1>4 DEF Finish, Goto, Elsewhere, SameTurn, TypeOK, link, inputs, worker, timers
<1>5. ASSUME TakeOpener(t) PROVE Elsewhere(t)
  BY <1>5 DEF TakeOpener, Goto, Elsewhere, SameTurn, TypeOK, link, inputs, worker, timers
<1>6. ASSUME ArmBudget(t) PROVE Elsewhere(t)
  BY <1>6 DEF ArmBudget, Goto, Elsewhere, SameTurn, TypeOK, link, inputs, worker, timers
<1>7. ASSUME CloseDoor(t) PROVE Elsewhere(t)
  BY <1>7 DEF CloseDoor, Goto, Elsewhere, SameTurn, TypeOK, link, inputs, worker, timers
<1>8. ASSUME ArmStream(t) PROVE Elsewhere(t)
  BY <1>8 DEF ArmStream, Goto, Elsewhere, SameTurn, TypeOK, link, inputs, worker, timers
<1>9. ASSUME CloseStream(t) PROVE Elsewhere(t)
  BY <1>9 DEF CloseStream, Goto, Elsewhere, SameTurn, TypeOK, link, inputs, worker, timers
<1>10. ASSUME NEW b \in BOOLEAN, InputGate(t, b) PROVE Elsewhere(t)
  BY <1>10 DEF InputGate, Goto, Elsewhere, SameTurn, TypeOK, link, inputs, worker, timers
<1>11. ASSUME NEW b \in BOOLEAN, Route(t, b) PROVE Elsewhere(t)
  BY <1>11 DEF Route, Goto, Elsewhere, SameTurn, TypeOK, link, inputs, worker, timers
<1>12. ASSUME NEW b \in BOOLEAN, Respond(t, b) PROVE Elsewhere(t)
  BY <1>12 DEF Respond, Goto, Elsewhere, SameTurn, TypeOK, link, inputs, worker, timers
<1>13. ASSUME NEW b \in BOOLEAN, StreamStops(t, b) PROVE Elsewhere(t)
  BY <1>13 DEF StreamStops, Goto, Elsewhere, SameTurn, TypeOK, link, inputs, worker, timers
<1>14. ASSUME NEW b \in BOOLEAN, Fallback(t, b) PROVE Elsewhere(t)
  BY <1>14 DEF Fallback, Goto, Elsewhere, SameTurn, TypeOK, link, inputs, worker, timers
<1>15. ASSUME NEW final \in BOOLEAN, NEW safe \in BOOLEAN,
             StreamChunk(t, final, safe) PROVE Elsewhere(t)
  BY <1>15 DEF StreamChunk, Goto, Elsewhere, SameTurn, TypeOK, link, inputs, worker, timers
<1> QED
  BY <1>1, <1>2, <1>3, <1>4, <1>5, <1>6, <1>7, <1>8, <1>9, <1>10, <1>11, <1>12, <1>13, <1>14, <1>15 DEF Worker

LEMMA FillerElsewhere ==
  ASSUME TypeOK, NEW t \in Turns, Filler(t)
  PROVE  Elsewhere(t)
<1>1. ASSUME SayFiller(t) PROVE Elsewhere(t)
  <2>1. \A x \in Turns \ {t} : heard'[x] = heard[x]
    BY <1>1, PublishOne DEF SayFiller
  <2> QED
    BY <1>1, <2>1 DEF SayFiller, Goto, Elsewhere, SameTurn, TypeOK, link, inputs, worker, timers
<1>2. ASSUME SayStreamFiller(t) PROVE Elsewhere(t)
  <2>1. \A x \in Turns \ {t} : heard'[x] = heard[x]
    <3>1. st[t].chunk \in Nat
      BY DEF TypeOK, TurnState
    <3> QED
      BY <1>2, <3>1, PublishOne DEF SayStreamFiller
  <2> QED
    BY <1>2, <2>1 DEF SayStreamFiller, Goto, Elsewhere, SameTurn, TypeOK, link, inputs, worker, timers
<1>3. ASSUME EnterFiller(t) PROVE Elsewhere(t)
  BY <1>3 DEF EnterFiller, Goto, Elsewhere, SameTurn, TypeOK, link, inputs, worker, timers
<1>4. ASSUME RearmStream(t) PROVE Elsewhere(t)
  BY <1>4 DEF RearmStream, Goto, Elsewhere, SameTurn, TypeOK, link, inputs, worker, timers
<1>5. ASSUME NEW g \in Gens, TimerExpires(t, g) PROVE Elsewhere(t)
  BY <1>5 DEF TimerExpires, Goto, Elsewhere, SameTurn, TypeOK, link, inputs, worker, timers
<1>6. ASSUME NEW g \in Gens, EnterStreamFiller(t, g) PROVE Elsewhere(t)
  BY <1>6 DEF EnterStreamFiller, Goto, Elsewhere, SameTurn, TypeOK, link, inputs, worker, timers
<1> QED
  BY <1>1, <1>2, <1>3, <1>4, <1>5, <1>6 DEF Filler

-----------------------------------------------------------------------------
(* The silent steps of a turn keep its invariant. *)
LEMMA SilentSteps ==
  ASSUME IInv, NEW t \in Turns, Worker(t) \/ Filler(t)
  PROVE  \/ TurnOK(t)'
         \/ SayOpener(t) \/ SayClosing(t) \/ SayChunk(t)
         \/ SayFiller(t) \/ SayStreamFiller(t)
<1>0. TypeOK /\ HeldOK(t) /\ PlaceOK(t)
  BY DEF IInv, TurnOK
<1> DEFINE Keeps == /\ heard'[t] = heard[t] /\ turnSeq' = turnSeq
                    /\ HeldOK(t)' /\ PlaceOK(t)'
                    /\ Stale(t) /\ pc[t] # "idle" /\ Quiet(t) => pc'[t] # "idle" /\ Quiet(t)'
                    /\ Shut(t) => Shut(t)'
<1>1. ASSUME Finish(t) PROVE Keeps
  <2>1. heard'[t] = heard[t] /\ turnSeq' = turnSeq
    BY <1>1 DEF Finish, timers
  <2>2. HeldOK(t)'
    BY <1>0, <1>1 DEF Finish, Goto, HeldOK, TypeOK, worker
  <2>3. PlaceOK(t)'
    BY <1>0, <1>1 DEF Finish, Goto, PlaceOK, NoTimers, Early, TypeOK, TurnState, worker, timers
  <2>4. Stale(t) /\ pc[t] # "idle" /\ Quiet(t) => pc'[t] # "idle" /\ Quiet(t)'
    BY <1>0, <1>1 DEF Finish, Goto, Quiet, Speaking, TypeOK, worker
  <2>5. Shut(t) => Shut(t)'
    BY <1>0, <1>1 DEF Finish, Goto, Shut, NoTimers, TypeOK, TurnState, worker, timers
  <2> QED
    BY <2>1, <2>2, <2>3, <2>4, <2>5
<1>2. ASSUME TakeOpener(t) PROVE Keeps
  <2>1. heard'[t] = heard[t] /\ turnSeq' = turnSeq
    BY <1>2 DEF TakeOpener, timers
  <2>2. HeldOK(t)'
    BY <1>0, <1>2 DEF TakeOpener, Goto, HeldOK, TypeOK, worker
  <2>3. PlaceOK(t)'
    BY <1>0, <1>2 DEF TakeOpener, Goto, PlaceOK, NoTimers, Early, TypeOK, TurnState, worker, timers
  <2>4. Stale(t) /\ pc[t] # "idle" /\ Quiet(t) => pc'[t] # "idle" /\ Quiet(t)'
    BY <1>0, <1>2 DEF TakeOpener, Goto, Quiet, Speaking, TypeOK, worker
  <2>5. Shut(t) => Shut(t)'
    BY <1>0, <1>2 DEF TakeOpener, Goto, Shut, NoTimers, TypeOK, TurnState, worker, timers
  <2> QED
    BY <2>1, <2>2, <2>3, <2>4, <2>5
<1>3. ASSUME ArmBudget(t) PROVE Keeps
  <2>1. heard'[t] = heard[t] /\ turnSeq' = turnSeq
    BY <1>3 DEF ArmBudget, timers
  <2>2. HeldOK(t)'
    BY <1>0, <1>3 DEF ArmBudget, Goto, HeldOK, TypeOK, worker
  <2>3. PlaceOK(t)'
    BY <1>0, <1>3 DEF ArmBudget, Goto, PlaceOK, NoTimers, Early, TypeOK, TurnState, worker, timers
  <2>4. Stale(t) /\ pc[t] # "idle" /\ Quiet(t) => pc'[t] # "idle" /\ Quiet(t)'
    BY <1>0, <1>3 DEF ArmBudget, Goto, Quiet, Speaking, TypeOK, worker
  <2>5. Shut(t) => Shut(t)'
    BY <1>0, <1>3 DEF ArmBudget, Goto, Shut, NoTimers, TypeOK, TurnState, worker, timers
  <2> QED
    BY <2>1, <2>2, <2>3, <2>4, <2>5
<1>4. ASSUME CloseDoor(t) PROVE Keeps
  <2>1. heard'[t] = heard[t] /\ turnSeq' = turnSeq
    BY <1>4 DEF CloseDoor, timers
  <2>2. HeldOK(t)'
    BY <1>0, <1>4 DEF CloseDoor, Goto, HeldOK, TypeOK, worker, Redirect
  <2>3. PlaceOK(t)'
    BY <1>0, <1>4 DEF CloseDoor, Goto, PlaceOK, NoTimers, Early, TypeOK, TurnState, worker, timers, Redirect
  <2>4. Stale(t) /\ pc[t] # "idle" /\ Quiet(t) => pc'[t] # "idle" /\ Quiet(t)'
    BY <1>0, <1>4 DEF CloseDoor, Goto, Quiet, Speaking, TypeOK, worker, Redirect
  <2>5. Shut(t) => Shut(t)'
    BY <1>0, <1>4 DEF CloseDoor, Goto, Shut, NoTimers, TypeOK, TurnState, worker, timers, Redirect
  <2> QED
    BY <2>1, <2>2, <2>3, <2>4, <2>5
<1>5. ASSUME ArmStream(t) PROVE Keeps
  <2>1. heard'[t] = heard[t] /\ turnSeq' = turnSeq
    BY <1>5 DEF ArmStream, timers
  <2>2. HeldOK(t)'
    BY <1>0, <1>5 DEF ArmStream, Goto, HeldOK, TypeOK, worker, CanArm
  <2>3. PlaceOK(t)'
    BY <1>0, <1>5 DEF ArmStream, Goto, PlaceOK, NoTimers, Early, TypeOK, TurnState, worker, timers, CanArm
  <2>4. Stale(t) /\ pc[t] # "idle" /\ Quiet(t) => pc'[t] # "idle" /\ Quiet(t)'
    BY <1>0, <1>5 DEF ArmStream, Goto, Quiet, Speaking, TypeOK, worker, CanArm
  <2>5. Shut(t) => Shut(t)'
    BY <1>0, <1>5 DEF ArmStream, Goto, Shut, NoTimers, TypeOK, TurnState, worker, timers, CanArm
  <2> QED
    BY <2>1, <2>2, <2>3, <2>4, <2>5
<1>6. ASSUME CloseStream(t) PROVE Keeps
  <2>1. heard'[t] = heard[t] /\ turnSeq' = turnSeq
    BY <1>6 DEF CloseStream, timers
  <2>2. HeldOK(t)'
    BY <1>0, <1>6 DEF CloseStream, Goto, HeldOK, TypeOK, worker, Closing
  <2>3. PlaceOK(t)'
    BY <1>0, <1>6 DEF CloseStream, Goto, PlaceOK, NoTimers, Early, TypeOK, TurnState, worker, timers, Closing
  <2>4. Stale(t) /\ pc[t] # "idle" /\ Quiet(t) => pc'[t] # "idle" /\ Quiet(t)'
    BY <1>0, <1>6 DEF CloseStream, Goto, Quiet, Speaking, TypeOK, worker, Closing
  <2>5. Shut(t) => Shut(t)'
    BY <1>0, <1>6 DEF CloseStream, Goto, Shut, NoTimers, TypeOK, TurnState, worker, timers, Closing
  <2> QED
    BY <2>1, <2>2, <2>3, <2>4, <2>5
<1>7. ASSUME NEW b \in BOOLEAN, InputGate(t, b) PROVE Keeps
  <2>1. heard'[t] = heard[t] /\ turnSeq' = turnSeq
    BY <1>7 DEF InputGate, timers
  <2>2. HeldOK(t)'
    BY <1>0, <1>7 DEF InputGate, Goto, HeldOK, TypeOK, worker, Redirect
  <2>3. PlaceOK(t)'
    BY <1>0, <1>7 DEF InputGate, Goto, PlaceOK, NoTimers, Early, TypeOK, TurnState, worker, timers, Redirect
  <2>4. Stale(t) /\ pc[t] # "idle" /\ Quiet(t) => pc'[t] # "idle" /\ Quiet(t)'
    BY <1>0, <1>7 DEF InputGate, Goto, Quiet, Speaking, TypeOK, worker, Redirect
  <2>5. Shut(t) => Shut(t)'
    BY <1>0, <1>7 DEF InputGate, Goto, Shut, NoTimers, TypeOK, TurnState, worker, timers, Redirect
  <2> QED
    BY <2>1, <2>2, <2>3, <2>4, <2>5
<1>8. ASSUME NEW b \in BOOLEAN, Route(t, b) PROVE Keeps
  <2>1. heard'[t] = heard[t] /\ turnSeq' = turnSeq
    BY <1>8 DEF Route, timers
  <2>2. HeldOK(t)'
    BY <1>0, <1>8 DEF Route, Goto, HeldOK, TypeOK, worker
  <2>3. PlaceOK(t)'
    BY <1>0, <1>8 DEF Route, Goto, PlaceOK, NoTimers, Early, TypeOK, TurnState, worker, timers
  <2>4. Stale(t) /\ pc[t] # "idle" /\ Quiet(t) => pc'[t] # "idle" /\ Quiet(t)'
    BY <1>0, <1>8 DEF Route, Goto, Quiet, Speaking, TypeOK, worker
  <2>5. Shut(t) => Shut(t)'
    BY <1>0, <1>8 DEF Route, Goto, Shut, NoTimers, TypeOK, TurnState, worker, timers
  <2> QED
    BY <2>1, <2>2, <2>3, <2>4, <2>5
<1>9. ASSUME NEW b \in BOOLEAN, Respond(t, b) PROVE Keeps
  <2>1. heard'[t] = heard[t] /\ turnSeq' = turnSeq
    BY <1>9 DEF Respond, timers
  <2>2. HeldOK(t)'
    BY <1>0, <1>9 DEF Respond, Goto, HeldOK, TypeOK, worker, Answer
  <2>3. PlaceOK(t)'
    BY <1>0, <1>9 DEF Respond, Goto, PlaceOK, NoTimers, Early, TypeOK, TurnState, worker, timers, Answer
  <2>4. Stale(t) /\ pc[t] # "idle" /\ Quiet(t) => pc'[t] # "idle" /\ Quiet(t)'
    BY <1>0, <1>9 DEF Respond, Goto, Quiet, Speaking, TypeOK, worker, Answer
  <2>5. Shut(t) => Shut(t)'
    BY <1>0, <1>9 DEF Respond, Goto, Shut, NoTimers, TypeOK, TurnState, worker, timers, Answer
  <2> QED
    BY <2>1, <2>2, <2>3, <2>4, <2>5
<1>10. ASSUME NEW b \in BOOLEAN, StreamStops(t, b) PROVE Keeps
  <2>1. heard'[t] = heard[t] /\ turnSeq' = turnSeq
    BY <1>10 DEF StreamStops, timers
  <2>2. HeldOK(t)'
    BY <1>0, <1>10 DEF StreamStops, Goto, HeldOK, TypeOK, worker
  <2>3. PlaceOK(t)'
    BY <1>0, <1>10 DEF StreamStops, Goto, PlaceOK, NoTimers, Early, TypeOK, TurnState, worker, timers
  <2>4. Stale(t) /\ pc[t] # "idle" /\ Quiet(t) => pc'[t] # "idle" /\ Quiet(t)'
    BY <1>0, <1>10 DEF StreamStops, Goto, Quiet, Speaking, TypeOK, worker
  <2>5. Shut(t) => Shut(t)'
    BY <1>0, <1>10 DEF StreamStops, Goto, Shut, NoTimers, TypeOK, TurnState, worker, timers
  <2> QED
    BY <2>1, <2>2, <2>3, <2>4, <2>5
<1>11. ASSUME NEW b \in BOOLEAN, Fallback(t, b) PROVE Keeps
  <2>1. heard'[t] = heard[t] /\ turnSeq' = turnSeq
    BY <1>11 DEF Fallback, timers
  <2>2. HeldOK(t)'
    BY <1>0, <1>11 DEF Fallback, Goto, HeldOK, TypeOK, worker, Answer
  <2>3. PlaceOK(t)'
    BY <1>0, <1>11 DEF Fallback, Goto, PlaceOK, NoTimers, Early, TypeOK, TurnState, worker, timers, Answer
  <2>4. Stale(t) /\ pc[t] # "idle" /\ Quiet(t) => pc'[t] # "idle" /\ Quiet(t)'
    BY <1>0, <1>11 DEF Fallback, Goto, Quiet, Speaking, TypeOK, worker, Answer
  <2>5. Shut(t) => Shut(t)'
    BY <1>0, <1>11 DEF Fallback, Goto, Shut, NoTimers, TypeOK, TurnState, worker, timers, Answer
  <2> QED
    BY <2>1, <2>2, <2>3, <2>4, <2>5
<1>12. ASSUME NEW final \in BOOLEAN, NEW safe \in BOOLEAN,
             StreamChunk(t, final, safe) PROVE Keeps
  <2>1. heard'[t] = heard[t] /\ turnSeq' = turnSeq
    BY <1>12 DEF StreamChunk, timers
  <2>2. HeldOK(t)'
    BY <1>0, <1>12 DEF StreamChunk, Goto, HeldOK, TypeOK, worker, Redirect, Answer
  <2>3. PlaceOK(t)'
    <3>1. pc[t] = "stream" /\ t[2] <= turnSeq[t[1]] /\ lock[t] = "free"
      BY <1>0, <1>12 DEF StreamChunk, PlaceOK
    <3>2. CASE Stale(t)
      <4>1. pc'[t] = "cancelled" /\ lock'[t] = "free" /\ turnSeq' = turnSeq
        BY <1>0, <1>12, <3>1, <3>2 DEF StreamChunk, Goto, TypeOK
      <4> QED
        BY <3>1, <4>1 DEF PlaceOK, Early
    <3>3. CASE ~Stale(t)
      <4>1. pc'[t] = "chunk" /\ lock'[t] = "worker" /\ turnSeq' = turnSeq
        BY <1>0, <1>12, <3>1, <3>3 DEF StreamChunk, Goto, TypeOK
      <4>2. held'[t].end => final \/ ~safe
        BY <1>0, <1>12 DEF StreamChunk, TypeOK, Answer, Redirect
      <4>3. st'[t].done = (final \/ ~safe)
        BY <1>0, <1>12, <3>3 DEF StreamChunk, TypeOK, TurnState
      <4> QED
        BY <3>1, <4>1, <4>2, <4>3 DEF PlaceOK, Early
    <3> QED
      BY <3>2, <3>3
  <2>4. Stale(t) /\ pc[t] # "idle" /\ Quiet(t) => pc'[t] # "idle" /\ Quiet(t)'
    BY <1>0, <1>12 DEF StreamChunk, Goto, Quiet, Speaking, TypeOK, worker, Redirect, Answer
  <2>5. Shut(t) => Shut(t)'
    BY <1>0, <1>12 DEF StreamChunk, Goto, Shut, NoTimers, TypeOK, TurnState, worker, timers, Redirect, Answer
  <2> QED
    BY <2>1, <2>2, <2>3, <2>4, <2>5
<1>13. ASSUME EnterFiller(t) PROVE Keeps
  <2>1. heard'[t] = heard[t] /\ turnSeq' = turnSeq
    BY <1>13 DEF EnterFiller, timers
  <2>2. HeldOK(t)'
    BY <1>0, <1>13 DEF EnterFiller, Goto, HeldOK, TypeOK, worker
  <2>3. PlaceOK(t)'
    BY <1>0, <1>13 DEF EnterFiller, Goto, PlaceOK, NoTimers, Early, TypeOK, TurnState, worker, timers
  <2>4. Stale(t) /\ pc[t] # "idle" /\ Quiet(t) => pc'[t] # "idle" /\ Quiet(t)'
    BY <1>0, <1>13 DEF EnterFiller, Goto, Quiet, Speaking, TypeOK, worker
  <2>5. Shut(t) => Shut(t)'
    BY <1>0, <1>13 DEF EnterFiller, Goto, Shut, NoTimers, TypeOK, TurnState, worker, timers
  <2> QED
    BY <2>1, <2>2, <2>3, <2>4, <2>5
<1>14. ASSUME RearmStream(t) PROVE Keeps
  <2>1. heard'[t] = heard[t] /\ turnSeq' = turnSeq
    BY <1>14 DEF RearmStream, timers
  <2>2. HeldOK(t)'
    BY <1>0, <1>14 DEF RearmStream, Goto, HeldOK, TypeOK, worker, CanArm
  <2>3. PlaceOK(t)'
    BY <1>0, <1>14 DEF RearmStream, Goto, PlaceOK, NoTimers, Early, TypeOK, TurnState, worker, timers, CanArm
  <2>4. Stale(t) /\ pc[t] # "idle" /\ Quiet(t) => pc'[t] # "idle" /\ Quiet(t)'
    BY <1>0, <1>14 DEF RearmStream, Goto, Quiet, Speaking, TypeOK, worker, CanArm
  <2>5. Shut(t) => Shut(t)'
    BY <1>0, <1>14 DEF RearmStream, Goto, Shut, NoTimers, TypeOK, TurnState, worker, timers, CanArm
  <2> QED
    BY <2>1, <2>2, <2>3, <2>4, <2>5
<1>15. ASSUME NEW g \in Gens, TimerExpires(t, g) PROVE Keeps
  <2>1. heard'[t] = heard[t] /\ turnSeq' = turnSeq
    BY <1>15 DEF TimerExpires, timers
  <2>2. HeldOK(t)'
    BY <1>0, <1>15 DEF TimerExpires, Goto, HeldOK, TypeOK, worker
  <2>3. PlaceOK(t)'
    BY <1>0, <1>15 DEF TimerExpires, Goto, PlaceOK, NoTimers, Early, TypeOK, TurnState, worker, timers
  <2>4. Stale(t) /\ pc[t] # "idle" /\ Quiet(t) => pc'[t] # "idle" /\ Quiet(t)'
    BY <1>0, <1>15 DEF TimerExpires, Goto, Quiet, Speaking, TypeOK, worker
  <2>5. Shut(t) => Shut(t)'
    BY <1>0, <1>15 DEF TimerExpires, Goto, Shut, NoTimers, TypeOK, TurnState, worker, timers
  <2> QED
    BY <2>1, <2>2, <2>3, <2>4, <2>5
<1>16. ASSUME NEW g \in Gens, EnterStreamFiller(t, g) PROVE Keeps
  <2>1. heard'[t] = heard[t] /\ turnSeq' = turnSeq
    BY <1>16 DEF EnterStreamFiller, timers
  <2>2. HeldOK(t)'
    BY <1>0, <1>16 DEF EnterStreamFiller, Goto, HeldOK, TypeOK, worker, CanArm
  <2>3. PlaceOK(t)'
    BY <1>0, <1>16 DEF EnterStreamFiller, Goto, PlaceOK, NoTimers, Early, TypeOK, TurnState, worker, timers, CanArm
  <2>4. Stale(t) /\ pc[t] # "idle" /\ Quiet(t) => pc'[t] # "idle" /\ Quiet(t)'
    BY <1>0, <1>16 DEF EnterStreamFiller, Goto, Quiet, Speaking, TypeOK, worker, CanArm
  <2>5. Shut(t) => Shut(t)'
    BY <1>0, <1>16 DEF EnterStreamFiller, Goto, Shut, NoTimers, TypeOK, TurnState, worker, timers, CanArm
  <2> QED
    BY <2>1, <2>2, <2>3, <2>4, <2>5
<1>17. Keeps => TurnOK(t)'
  BY Silent
<1> HIDE DEF Keeps
<1> QED
  BY <1>1, <1>2, <1>3, <1>4, <1>5, <1>6, <1>7, <1>8, <1>9, <1>10, <1>11, <1>12, <1>13, <1>14, <1>15, <1>16, <1>17 DEF Worker, Filler

(* The five steps that speak: the speaker was the only one past a check,   *)
(* and leaves nobody there.                                                *)
LEMMA SpeakingSteps ==
  ASSUME IInv, NEW t \in Turns,
         SayOpener(t) \/ SayClosing(t) \/ SayChunk(t) \/ SayFiller(t) \/ SayStreamFiller(t)
  PROVE  TurnOK(t)'
<1>0. TypeOK /\ HeldOK(t) /\ PlaceOK(t)
  BY DEF IInv, TurnOK
<1>1. st[t].chunk \in Nat /\ held[t] \in Speech
  BY <1>0 DEF TypeOK, TurnState
<1> DEFINE Says(kind, n, end, safe) ==
      /\ heard'[t] = heard[t] \/ heard'[t] = Append(heard[t], Line(t, kind, n, end, safe))
      /\ turnSeq' = turnSeq /\ HeldOK(t)' /\ PlaceOK(t)' /\ ~Quiet(t) /\ ~Shut(t)
      /\ pc'[t] # "idle" /\ Quiet(t)' /\ (end => Shut(t)')
<1>2. ASSUME SayOpener(t) PROVE Says("hello", 0, FALSE, TRUE)
  <2>1. Publish(t, "hello", 0, FALSE, TRUE)
    BY <1>2 DEF SayOpener
  <2>3. heard'[t] = heard[t] \/ heard'[t] = Append(heard[t], Line(t, "hello", 0, FALSE, TRUE))
    BY <1>0, <1>1, <2>1, PublishOne
  <2>4. turnSeq' = turnSeq /\ HeldOK(t)' /\ pc'[t] # "idle"
    BY <1>0, <1>2 DEF SayOpener, Goto, HeldOK, PlaceOK, Early, TypeOK, worker, timers
  <2>5. PlaceOK(t)'
    BY <1>0, <1>2 DEF SayOpener, Goto, PlaceOK, NoTimers, Early, TypeOK, TurnState, worker, timers
  <2>6. ~Quiet(t) /\ ~Shut(t)
    BY <1>2 DEF SayOpener, Quiet, Shut, Speaking
  <2>7. Quiet(t)'
    BY <1>0, <1>2 DEF SayOpener, Goto, PlaceOK, Early, Quiet, Speaking, TypeOK, worker
  <2> QED
    BY <2>3, <2>4, <2>5, <2>6, <2>7
<1>3. ASSUME SayClosing(t) PROVE Says(held[t].kind, st[t].chunk, held[t].end, held[t].safe)
  <2>1. Publish(t, held[t].kind, st[t].chunk, held[t].end, held[t].safe)
    BY <1>3 DEF SayClosing
  <2>2. held[t].kind # "none"
    BY <1>0, <1>3 DEF HeldOK, SayClosing
  <2>3. heard'[t] = heard[t] \/ heard'[t] = Append(heard[t], Line(t, held[t].kind, st[t].chunk, held[t].end, held[t].safe))
    BY <1>0, <1>1, <2>1, <2>2, PublishOne DEF Speech
  <2>4. turnSeq' = turnSeq /\ HeldOK(t)' /\ pc'[t] # "idle"
    BY <1>0, <1>3 DEF SayClosing, Goto, HeldOK, PlaceOK, Early, TypeOK, worker, timers
  <2>5. PlaceOK(t)'
    BY <1>0, <1>3 DEF SayClosing, Goto, PlaceOK, NoTimers, Early, TypeOK, TurnState, worker, timers
  <2>6. ~Quiet(t) /\ ~Shut(t)
    BY <1>3 DEF SayClosing, Quiet, Shut, Speaking
  <2>7. Quiet(t)'
    BY <1>0, <1>3 DEF SayClosing, Goto, PlaceOK, Early, Quiet, Speaking, TypeOK, worker
  <2>8. held[t].end => Shut(t)'
    BY <1>0, <1>3 DEF SayClosing, Goto, PlaceOK, Early, Shut, NoTimers, TypeOK, TurnState, worker, timers
  <2> QED
    BY <2>3, <2>4, <2>5, <2>6, <2>7, <2>8
<1>4. ASSUME SayChunk(t) PROVE Says(held[t].kind, st[t].chunk, held[t].end, held[t].safe)
  <2>1. Publish(t, held[t].kind, st[t].chunk, held[t].end, held[t].safe)
    BY <1>4 DEF SayChunk
  <2>2. held[t].kind # "none"
    BY <1>0, <1>4 DEF HeldOK, SayChunk
  <2>3. heard'[t] = heard[t] \/ heard'[t] = Append(heard[t], Line(t, held[t].kind, st[t].chunk, held[t].end, held[t].safe))
    BY <1>0, <1>1, <2>1, <2>2, PublishOne DEF Speech
  <2>4. turnSeq' = turnSeq /\ HeldOK(t)' /\ pc'[t] # "idle"
    BY <1>0, <1>4 DEF SayChunk, Goto, HeldOK, PlaceOK, Early, TypeOK, worker, timers
  <2>5. PlaceOK(t)'
    BY <1>0, <1>4 DEF SayChunk, Goto, PlaceOK, NoTimers, Early, TypeOK, TurnState, worker, timers
  <2>6. ~Quiet(t) /\ ~Shut(t)
    BY <1>4 DEF SayChunk, Quiet, Shut, Speaking
  <2>7. Quiet(t)'
    BY <1>0, <1>4 DEF SayChunk, Goto, PlaceOK, Early, Quiet, Speaking, TypeOK, worker
  <2>8. held[t].end => Shut(t)'
    BY <1>0, <1>4 DEF SayChunk, Goto, PlaceOK, Early, Shut, NoTimers, TypeOK, TurnState, worker, timers
  <2> QED
    BY <2>3, <2>4, <2>5, <2>6, <2>7, <2>8
<1>5. ASSUME SayFiller(t) PROVE Says("filler", 0, FALSE, TRUE)
  <2>1. Publish(t, "filler", 0, FALSE, TRUE)
    BY <1>5 DEF SayFiller
  <2>3. heard'[t] = heard[t] \/ heard'[t] = Append(heard[t], Line(t, "filler", 0, FALSE, TRUE))
    BY <1>0, <1>1, <2>1, PublishOne
  <2>4. turnSeq' = turnSeq /\ HeldOK(t)' /\ pc'[t] # "idle"
    BY <1>0, <1>5 DEF SayFiller, Goto, HeldOK, PlaceOK, Early, TypeOK, worker, timers
  <2>5. PlaceOK(t)'
    BY <1>0, <1>5 DEF SayFiller, Goto, PlaceOK, NoTimers, Early, TypeOK, TurnState, worker, timers
  <2>6. ~Quiet(t) /\ ~Shut(t)
    BY <1>5 DEF SayFiller, Quiet, Shut, Speaking
  <2>7. Quiet(t)'
    BY <1>0, <1>5 DEF SayFiller, Goto, PlaceOK, Early, Quiet, Speaking, TypeOK, worker
  <2> QED
    BY <2>3, <2>4, <2>5, <2>6, <2>7
<1>6. ASSUME SayStreamFiller(t) PROVE Says("filler", st[t].chunk, FALSE, TRUE)
  <2>1. Publish(t, "filler", st[t].chunk, FALSE, TRUE)
    BY <1>6 DEF SayStreamFiller
  <2>3. heard'[t] = heard[t] \/ heard'[t] = Append(heard[t], Line(t, "filler", st[t].chunk, FALSE, TRUE))
    BY <1>0, <1>1, <2>1, PublishOne
  <2>4. turnSeq' = turnSeq /\ HeldOK(t)' /\ pc'[t] # "idle"
    BY <1>0, <1>6 DEF SayStreamFiller, Goto, HeldOK, PlaceOK, Early, TypeOK, worker, timers
  <2>5. PlaceOK(t)'
    BY <1>0, <1>6 DEF SayStreamFiller, Goto, PlaceOK, NoTimers, Early, TypeOK, TurnState, worker, timers
  <2>6. ~Quiet(t) /\ ~Shut(t)
    BY <1>6 DEF SayStreamFiller, Quiet, Shut, Speaking
  <2>7. Quiet(t)'
    BY <1>0, <1>6 DEF SayStreamFiller, Goto, PlaceOK, Early, Quiet, Speaking, TypeOK, worker
  <2> QED
    BY <2>3, <2>4, <2>5, <2>6, <2>7
<1>7. ASSUME NEW kind, NEW n, NEW end, NEW safe, Says(kind, n, end, safe)
      PROVE  TurnOK(t)'
  BY <1>7, Spoken
<1> HIDE DEF Says
<1> QED
  BY <1>2, <1>3, <1>4, <1>5, <1>6, <1>7

-----------------------------------------------------------------------------
(* Any step keeps every turn's invariant. *)
LEMMA TurnStep == IInv /\ [Next]_vars => (\A x \in Turns : TurnOK(x))'
<1> SUFFICES ASSUME IInv, [Next]_vars, NEW x \in Turns PROVE TurnOK(x)'
  OBVIOUS
<1>0. TypeOK /\ x[1] \in Robots /\ turnSeq[x[1]] \in Nat
  BY DEF IInv, TypeOK, Turns
<1>1. ASSUME NEW t \in Turns, Worker(t) \/ Filler(t) PROVE TurnOK(x)'
  <2>1. Elsewhere(t)
    BY <1>0, <1>1, WorkerElsewhere, FillerElsewhere DEF IInv, TurnOK
  <2>2. CASE x = t
    BY <1>1, <2>2, SilentSteps, SpeakingSteps
  <2>3. CASE x # t
    BY <1>0, <2>1, <2>3, Frame DEF Elsewhere
  <2> QED
    BY <2>2, <2>3
<1>2. ASSUME NEW d \in Robots, Prompt(d) PROVE TurnOK(x)'
  <2> DEFINE t == <<d, turnSeq[d] + 1>>
  <2>1. t \in Turns /\ turnSeq[d] \in Nat
    BY <1>2, BoundsAssumption DEF IInv, TypeOK, Prompt, Turns
  <2>2. turnSeq'[x[1]] \in Nat /\ turnSeq'[x[1]] >= turnSeq[x[1]]
    BY <1>0, <1>2 DEF Prompt, TypeOK
  <2>3. CASE x = t
    <3>1. HeldOK(x) /\ PlaceOK(x) /\ LateOK(x) /\ EndOK(x)
      BY DEF IInv, TurnOK
    <3>2. pc[x] = "idle"
      BY <2>1, <2>3, <3>1 DEF PlaceOK
    <3>3. NoTimers(x) /\ lock[x] = "free"
      BY <3>1, <3>2 DEF PlaceOK, Early
    <3>4. pc'[x] = "queued" /\ turnSeq'[d] = turnSeq[d] + 1 /\ heard'[x] = heard[x]
          /\ lock'[x] = lock[x] /\ NoTimers(x)' = NoTimers(x)
      BY <1>2, <1>0, <2>1, <2>3 DEF Prompt, Goto, TypeOK, timers, NoTimers
    <3>5. /\ \A i \in DOMAIN heard[x] : ~heard[x][i].late
          /\ \A i \in DOMAIN heard[x] : ~heard[x][i].end
      BY <3>1, <3>2 DEF LateOK, EndOK, Shut
    <3>6. HeldOK(x)' /\ PlaceOK(x)'
      BY <2>1, <2>3, <3>3, <3>4 DEF HeldOK, PlaceOK, NoTimers
    <3>7. LateOK(x)' /\ EndOK(x)'
      BY <3>4, <3>5 DEF LateOK, EndOK
    <3> QED
      BY <3>6, <3>7 DEF TurnOK
  <2>4. CASE x # t
    <3>1. SameTurn(x)
      BY <1>0, <1>2, <2>1, <2>4 DEF Prompt, Goto, SameTurn, TypeOK, timers
    <3> QED
      BY <2>2, <3>1, Frame
  <2> QED
    BY <2>3, <2>4
<1>3. ASSUME StartTurn PROVE TurnOK(x)'
  <2> DEFINE t == Head(queue)
  <2>1. t \in Turns /\ t = queue[1] /\ 1 \in DOMAIN queue
    BY <1>0, <1>3 DEF StartTurn, TypeOK
  <2>2. pc[t] = "queued"
    BY <2>1 DEF IInv, QueueOK
  <2>3. CASE x = t
    <3>1. HeldOK(x) /\ PlaceOK(x) /\ LateOK(x) /\ EndOK(x)
      BY DEF IInv, TurnOK
    <3>2. pc'[x] = "gate" /\ turnSeq' = turnSeq /\ heard'[x] = heard[x]
          /\ lock'[x] = lock[x] /\ NoTimers(x)' = NoTimers(x)
      BY <1>0, <1>3, <2>1, <2>3 DEF StartTurn, Goto, TypeOK, timers, NoTimers
    <3>3. HeldOK(x)' /\ PlaceOK(x)'
      BY <2>2, <2>3, <3>1, <3>2 DEF HeldOK, PlaceOK, Early
    <3>4. Stale(x) /\ pc[x] # "idle" /\ Quiet(x) => pc'[x] # "idle" /\ Quiet(x)'
      BY <3>2 DEF Quiet, Speaking
    <3>5. Shut(x) => Shut(x)'
      BY <2>2, <2>3 DEF Shut
    <3> QED
      BY <3>2, <3>3, <3>4, <3>5, Silent
  <2>4. CASE x # t
    <3>1. SameTurn(x) /\ turnSeq' = turnSeq
      BY <1>0, <1>3, <2>1, <2>4 DEF StartTurn, Goto, SameTurn, TypeOK, timers
    <3> QED
      BY <1>0, <3>1, Frame
  <2> QED
    BY <2>3, <2>4
<1>4. ASSUME OnDisconnect PROVE TurnOK(x)'
  <2>1. SameTurn(x)
    BY <1>4 DEF OnDisconnect, SameTurn, worker, timers
  <2>2. turnSeq'[x[1]] = turnSeq[x[1]] + 1
    BY <1>0, <1>4 DEF OnDisconnect
  <2> QED
    BY <1>0, <2>1, <2>2, Frame
<1>5. ASSUME UNCHANGED <<turnSeq, worker, st, lock, timers, heard>> PROVE TurnOK(x)'
  <2>1. SameTurn(x)
    BY <1>5 DEF SameTurn, worker, timers
  <2> QED
    BY <1>0, <1>5, <2>1, Frame
<1>6. ASSUME Loop
      PROVE  \/ \E d \in Robots : Prompt(d)
             \/ OnDisconnect
             \/ UNCHANGED <<turnSeq, worker, st, lock, timers, heard>>
  BY <1>6 DEF Loop, SocketLost, OnConnect, FaceLost, FaceFound, SayHello
<1>7. Operator \/ UNCHANGED vars => UNCHANGED <<turnSeq, worker, st, lock, timers, heard>>
  BY DEF Operator, StartSession, EndSession, vars
<1> QED
  BY <1>1, <1>2, <1>3, <1>4, <1>5, <1>6, <1>7 DEF Next

(* Nor does any step spoil the pool's queue: only Prompt and StartTurn     *)
(* touch it, and a queued turn waits for its worker.                       *)
LEMMA QueueStep == IInv /\ [Next]_vars => QueueOK'
<1> SUFFICES ASSUME IInv, [Next]_vars PROVE QueueOK'
  OBVIOUS
<1>0. TypeOK /\ QueueOK
  BY DEF IInv
<1>1. queue \in Seq(Turns) /\ pc \in [Turns -> PCs]
      /\ DOMAIN queue = 1 .. Len(queue) /\ Len(queue) \in Nat
  BY <1>0 DEF TypeOK
<1>2. ASSUME NEW d \in Robots, Prompt(d) PROVE QueueOK'
  <2>1. PICK t \in Turns : t = <<d, turnSeq[d] + 1>>
    BY <1>0, <1>2, BoundsAssumption DEF TypeOK, Prompt, Turns
  <2>2. queue' = Append(queue, t) /\ pc' = [pc EXCEPT ![t] = "queued"]
    BY <1>2, <2>1 DEF Prompt, Goto
  <2>3. pc[t] = "idle"
    BY <1>0, <2>1 DEF IInv, TurnOK, PlaceOK, TypeOK
  <2>4. \A i \in DOMAIN queue : queue[i] \in Turns /\ queue[i] # t
    BY <1>0, <1>1, <2>3 DEF QueueOK
  <2>5. /\ DOMAIN queue' = 1 .. (Len(queue) + 1) /\ queue'[Len(queue) + 1] = t
        /\ \A i \in 1 .. Len(queue) : i \in DOMAIN queue /\ queue'[i] = queue[i]
    BY <1>1, <2>2
  <2>6. \A i \in DOMAIN queue' : pc'[queue'[i]] = "queued"
    BY <1>0, <1>1, <2>2, <2>4, <2>5 DEF QueueOK
  <2>7. \A i, j \in DOMAIN queue' : queue'[i] = queue'[j] => i = j
    BY <1>0, <1>1, <2>4, <2>5 DEF QueueOK
  <2> QED
    BY <2>6, <2>7 DEF QueueOK
<1>3. ASSUME StartTurn PROVE QueueOK'
  <2>1. queue # << >> /\ queue' = Tail(queue) /\ pc' = [pc EXCEPT ![queue[1]] = "gate"]
    BY <1>1, <1>3 DEF StartTurn, Goto
  <2>2. \A i \in DOMAIN queue' : /\ i + 1 \in DOMAIN queue /\ queue'[i] = queue[i + 1]
                                /\ i + 1 # 1 /\ i \in Nat
    BY <1>1, <2>1
  <2>3. 1 \in DOMAIN queue
    BY <1>1, <2>1
  <2>4. \A i \in DOMAIN queue : queue[i] \in Turns
    BY <1>1
  <2>5. \A i \in DOMAIN queue' : queue'[i] # queue[1] /\ queue'[i] \in Turns
    BY <1>0, <2>2, <2>3, <2>4 DEF QueueOK
  <2>6. \A i \in DOMAIN queue' : pc'[queue'[i]] = "queued"
    BY <1>0, <1>1, <2>1, <2>2, <2>5 DEF QueueOK
  <2>7. \A i, j \in DOMAIN queue' : queue'[i] = queue'[j] => i = j
    BY <1>0, <2>2 DEF QueueOK
  <2> QED
    BY <2>6, <2>7 DEF QueueOK
<1>4. ASSUME NEW t \in Turns, queue' = queue, pc[t] # "queued",
             \A x \in Turns \ {t} : pc'[x] = pc[x]
      PROVE  QueueOK'
  BY <1>0, <1>1, <1>4 DEF QueueOK
<1>5. ASSUME NEW t \in Turns, Worker(t) PROVE QueueOK'
  <2>1. queue' = queue /\ pc[t] # "queued"
    BY <1>5 DEF Worker, SayOpener, SayClosing, Finish, TakeOpener, ArmBudget, CloseDoor,
         ArmStream, SayChunk, CloseStream, InputGate, Route, Respond, StreamStops,
         Fallback, StreamChunk
  <2>2. \A x \in Turns \ {t} : pc'[x] = pc[x]
    BY <1>0, <1>5, WorkerElsewhere DEF IInv, TurnOK, Elsewhere, SameTurn
  <2> QED
    BY <1>4, <2>1, <2>2
<1>6. ASSUME UNCHANGED <<queue, pc>> PROVE QueueOK'
  BY <1>0, <1>6 DEF QueueOK
<1>7. ASSUME NEW t \in Turns, Filler(t) PROVE UNCHANGED <<queue, pc>>
  BY <1>7 DEF Filler, EnterFiller, SayFiller, SayStreamFiller, RearmStream, TimerExpires,
       EnterStreamFiller, worker
<1>8. ASSUME Loop
      PROVE  (\E d \in Robots : Prompt(d)) \/ UNCHANGED <<queue, pc>>
  BY <1>8 DEF Loop, SocketLost, OnConnect, OnDisconnect, FaceLost, FaceFound, SayHello, worker
<1>9. Operator \/ UNCHANGED vars => UNCHANGED <<queue, pc>>
  BY DEF Operator, StartSession, EndSession, vars, worker
<1> QED
  BY <1>2, <1>3, <1>5, <1>6, <1>7, <1>8, <1>9 DEF Next

-----------------------------------------------------------------------------
(* The inductive invariant holds throughout. *)
LEMMA InitInv == Init => IInv
<1> SUFFICES ASSUME Init PROVE IInv
  OBVIOUS
<1>1. TypeOK
  BY InitTypes
<1>2. QueueOK
  BY DEF Init, QueueOK
<1>3. ASSUME NEW t \in Turns PROVE TurnOK(t)
  <2>1. /\ pc[t] = "idle" /\ lock[t] = "free" /\ heard[t] = << >>
        /\ armed[t] = {} /\ fired[t] = {} /\ rearm[t] = 0
    BY DEF Init
  <2>2. DOMAIN heard[t] = {}
    BY <2>1
  <2> QED
    BY <2>1, <2>2 DEF TurnOK, HeldOK, PlaceOK, LateOK, EndOK, NoTimers
<1> QED
  BY <1>1, <1>2, <1>3 DEF IInv

LEMMA Invariance == Spec => []IInv
<1>1. IInv /\ [Next]_vars => IInv'
  BY TypeStep, TurnStep, QueueStep DEF IInv
<1> QED
  BY InitInv, <1>1, PTL DEF Spec

(* The types of turns.py's state: counters stay natural numbers, a worker  *)
(* is at one of the places of its path and says one of the known lines.    *)
THEOREM TypeCorrect == Spec => []TypeOK
<1>1. IInv => TypeOK
  BY DEF IInv
<1> QED
  BY <1>1, Invariance, PTL

(* However many workers, timers and prompts interleave, a turn that a      *)
(* newer one superseded says at most one more line.                        *)
THEOREM SupersededTurnsFallSilent == Spec => []AtMostOneLateLine
<1>1. IInv => AtMostOneLateLine
  BY DEF IInv, TurnOK, LateOK, AtMostOneLateLine
<1> QED
  BY <1>1, Invariance, PTL

(* The line that closes a turn is the last one the robot hears of it, on   *)
(* either path and whatever timer was still pending.                       *)
THEOREM ClosingLineIsLast == Spec => []NothingAfterTheEnd
<1>1. IInv => NothingAfterTheEnd
  BY DEF IInv, TurnOK, EndOK, NothingAfterTheEnd
<1> QED
  BY <1>1, Invariance, PTL

-----------------------------------------------------------------------------
(* Numbered lines and greetings                                             *)


Over == {"finish", "done"}

(* Nothing is said before a turn is routed, nobody speaks when it is over, *)
(* and in between no line is numbered past the next one.  The plain path   *)
(* numbers its only reply.                                                 *)
Streaming == {"stream", "chunk"}

Numbers(t) ==
  /\ pc[t] \in Streaming => mode[t] = "stream"
  /\ pc[t] \in Early => heard[t] = << >> /\ st[t].chunk = 0
  /\ pc[t] \in Over => Shut(t)
  /\ pc[t] \notin Over =>
       \A i \in DOMAIN heard[t] :
         heard[t][i].chunk <= (IF mode[t] = "plain" THEN 0 ELSE st[t].chunk)

(* Every number was used up by a hello, a chunk or a filler. *)
Spent(t) ==
  /\ st[t].ans <= MaxChunks /\ st[t].fillers <= MaxFillers
  /\ pc[t] = "chunk" => st[t].ans < MaxChunks
  /\ st[t].chunk <= 1 + st[t].ans + st[t].fillers
  /\ lock[t] = "timer" /\ mode[t] = "stream" => st[t].chunk <= st[t].ans + st[t].fillers

(* A current turn on a live socket heard all of its lines. *)
Gapless(t) ==
  /\ net = "down" /\ pc[t] # "idle" => Stale(t)
  /\ mode[t] = "stream" =>
       /\ \A i \in DOMAIN heard[t] : ~heard[t][i].late => heard[t][i].chunk = i - 1
       /\ net = "up" /\ ~Stale(t) /\ pc[t] \notin Over => Len(heard[t]) = st[t].chunk

LinesOK(t) == Numbers(t) /\ Spent(t) /\ Gapless(t)

LinesInv == IInv /\ \A t \in Turns : LinesOK(t)

-----------------------------------------------------------------------------
(* A turn the step leaves alone; the socket may die. *)
LEMMA LinesFrame ==
  ASSUME IInv, NEW t \in Turns, LinesOK(t), SameTurn(t), mode'[t] = mode[t],
         turnSeq'[t[1]] \in Nat, turnSeq'[t[1]] >= turnSeq[t[1]],
         \/ net' = net
         \/ net' = "lost"
         \/ net' = "down" /\ turnSeq'[t[1]] > turnSeq[t[1]]
         \/ net = "down" /\ net' = "up"
  PROVE  LinesOK(t)'
<1>1. /\ t[1] \in Robots /\ t[2] \in Nat /\ turnSeq[t[1]] \in Nat
      /\ heard[t] \in Seq(Lines)
  BY BoundsAssumption DEF IInv, TypeOK, Turns
<1>2. PlaceOK(t) /\ Numbers(t) /\ Spent(t) /\ Gapless(t)
  BY DEF IInv, TurnOK, LinesOK
<1>3. Numbers(t)'
  BY <1>2 DEF Numbers, Shut, NoTimers, SameTurn
<1>4. Spent(t)'
  BY <1>2 DEF Spent, SameTurn
<1>5. pc[t] # "idle" => t[2] <= turnSeq[t[1]]
  BY <1>2 DEF PlaceOK
<1>6. pc[t] # "idle" /\ Stale(t) => Stale(t)'
  BY <1>1, <1>5 DEF Stale
<1>7. net' = "down" /\ pc'[t] # "idle" => Stale(t)'
  BY <1>1, <1>2, <1>5, <1>6 DEF Gapless, Stale, SameTurn
<1>8. pc[t] = "idle" => Len(heard[t]) = st[t].chunk
  BY <1>2 DEF Numbers, Early
<1>9. net' = "up" /\ ~Stale(t)' /\ pc[t] # "idle" => net = "up" /\ ~Stale(t)
  BY <1>2, <1>6 DEF Gapless
<1>10. Gapless(t)'
  BY <1>2, <1>7, <1>8, <1>9 DEF Gapless, SameTurn
<1> QED
  BY <1>3, <1>4, <1>10 DEF LinesOK

(* A step of turn t that says nothing. *)
LEMMA SilentLines ==
  ASSUME NEW t \in Turns, LinesOK(t),
         heard' = heard, turnSeq' = turnSeq, net' = net, mode' = mode, st'[t].chunk = st[t].chunk,
         pc'[t] \in Early => pc[t] \in Early, pc[t] \in Over => pc'[t] \in Over,
         pc'[t] \in Streaming => mode[t] = "stream",
         pc[t] # "idle", pc'[t] \in Over => Shut(t)', Spent(t)'
  PROVE  LinesOK(t)'
<1>1. Numbers(t)'
  BY DEF LinesOK, Numbers
<1>2. Stale(t)' = Stale(t)
  BY DEF Stale
<1>3. Gapless(t)'
  BY <1>2 DEF LinesOK, Gapless
<1> QED
  BY <1>1, <1>3 DEF LinesOK

LEMMA SilentStepsCount ==
  ASSUME IInv, NEW t \in Turns, LinesOK(t), Worker(t) \/ Filler(t)
  PROVE  \/ LinesOK(t)'
         \/ SayOpener(t) \/ SayClosing(t) \/ SayChunk(t)
         \/ SayFiller(t) \/ SayStreamFiller(t)
<1>0. TypeOK /\ PlaceOK(t) /\ Numbers(t) /\ Spent(t)
  BY DEF IInv, TurnOK, LinesOK
<1> DEFINE Keeps == /\ heard' = heard /\ turnSeq' = turnSeq /\ net' = net /\ mode' = mode
                    /\ st'[t].chunk = st[t].chunk
                    /\ pc'[t] \in Early => pc[t] \in Early
                    /\ pc[t] \in Over => pc'[t] \in Over
                    /\ pc'[t] \in Streaming => mode[t] = "stream"
                    /\ pc'[t] \in Over => Shut(t)'
                    /\ Spent(t)'
<1>1. ASSUME Finish(t) PROVE Keeps
  <2>1. heard' = heard /\ turnSeq' = turnSeq /\ net' = net /\ mode' = mode /\ st'[t].chunk = st[t].chunk
    BY <1>0, <1>1 DEF Finish, TypeOK, TurnState, link, worker, timers
  <2>2. /\ pc'[t] \in Early => pc[t] \in Early
        /\ pc[t] \in Over => pc'[t] \in Over
        /\ pc'[t] \in Streaming => mode[t] = "stream"
    BY <1>0, <1>1 DEF Finish, Goto, Numbers, Streaming, Early, Over, TypeOK, worker
  <2>3. pc'[t] \in Over => Shut(t)'
    BY <1>0, <1>1 DEF Finish, Goto, PlaceOK, Numbers, Shut, NoTimers, Early, Over, TypeOK, TurnState, worker, timers
  <2>4. Spent(t)'
    BY <1>0, <1>1 DEF Finish, Goto, PlaceOK, Spent, Early, TypeOK, TurnState, worker, timers
  <2> QED
    BY <2>1, <2>2, <2>3, <2>4
<1>2. ASSUME TakeOpener(t) PROVE Keeps
  <2>1. heard' = heard /\ turnSeq' = turnSeq /\ net' = net /\ mode' = mode /\ st'[t].chunk = st[t].chunk
    BY <1>0, <1>2 DEF TakeOpener, TypeOK, TurnState, link, worker, timers
  <2>2. /\ pc'[t] \in Early => pc[t] \in Early
        /\ pc[t] \in Over => pc'[t] \in Over
        /\ pc'[t] \in Streaming => mode[t] = "stream"
    BY <1>0, <1>2 DEF TakeOpener, Goto, Numbers, Streaming, Early, Over, TypeOK, worker
  <2>3. pc'[t] \in Over => Shut(t)'
    BY <1>0, <1>2 DEF TakeOpener, Goto, PlaceOK, Numbers, Shut, NoTimers, Early, Over, TypeOK, TurnState, worker, timers
  <2>4. Spent(t)'
    BY <1>0, <1>2 DEF TakeOpener, Goto, PlaceOK, Spent, Early, TypeOK, TurnState, worker, timers
  <2> QED
    BY <2>1, <2>2, <2>3, <2>4
<1>3. ASSUME ArmBudget(t) PROVE Keeps
  <2>1. heard' = heard /\ turnSeq' = turnSeq /\ net' = net /\ mode' = mode /\ st'[t].chunk = st[t].chunk
    BY <1>0, <1>3 DEF ArmBudget, TypeOK, TurnState, link, worker, timers
  <2>2. /\ pc'[t] \in Early => pc[t] \in Early
        /\ pc[t] \in Over => pc'[t] \in Over
        /\ pc'[t] \in Streaming => mode[t] = "stream"
    BY <1>0, <1>3 DEF ArmBudget, Goto, Numbers, Streaming, Early, Over, TypeOK, worker
  <2>3. pc'[t] \in Over => Shut(t)'
    BY <1>0, <1>3 DEF ArmBudget, Goto, PlaceOK, Numbers, Shut, NoTimers, Early, Over, TypeOK, TurnState, worker, timers
  <2>4. Spent(t)'
    BY <1>0, <1>3 DEF ArmBudget, Goto, PlaceOK, Spent, Early, TypeOK, TurnState, worker, timers
  <2> QED
    BY <2>1, <2>2, <2>3, <2>4
<1>4. ASSUME CloseDoor(t) PROVE Keeps
  <2>1. heard' = heard /\ turnSeq' = turnSeq /\ net' = net /\ mode' = mode /\ st'[t].chunk = st[t].chunk
    BY <1>0, <1>4 DEF CloseDoor, TypeOK, TurnState, link, worker, timers, Redirect
  <2>2. /\ pc'[t] \in Early => pc[t] \in Early
        /\ pc[t] \in Over => pc'[t] \in Over
        /\ pc'[t] \in Streaming => mode[t] = "stream"
    BY <1>0, <1>4 DEF CloseDoor, Goto, Numbers, Streaming, Early, Over, TypeOK, worker
  <2>3. pc'[t] \in Over => Shut(t)'
    BY <1>0, <1>4 DEF CloseDoor, Goto, PlaceOK, Numbers, Shut, NoTimers, Early, Over, TypeOK, TurnState, worker, timers, Redirect
  <2>4. Spent(t)'
    BY <1>0, <1>4 DEF CloseDoor, Goto, PlaceOK, Spent, Early, TypeOK, TurnState, worker, timers, Redirect
  <2> QED
    BY <2>1, <2>2, <2>3, <2>4
<1>5. ASSUME ArmStream(t) PROVE Keeps
  <2>1. heard' = heard /\ turnSeq' = turnSeq /\ net' = net /\ mode' = mode /\ st'[t].chunk = st[t].chunk
    BY <1>0, <1>5 DEF ArmStream, TypeOK, TurnState, link, worker, timers, CanArm
  <2>2. /\ pc'[t] \in Early => pc[t] \in Early
        /\ pc[t] \in Over => pc'[t] \in Over
        /\ pc'[t] \in Streaming => mode[t] = "stream"
    BY <1>0, <1>5 DEF ArmStream, Goto, Numbers, Streaming, Early, Over, TypeOK, worker
  <2>3. pc'[t] \in Over => Shut(t)'
    BY <1>0, <1>5 DEF ArmStream, Goto, PlaceOK, Numbers, Shut, NoTimers, Early, Over, TypeOK, TurnState, worker, timers, CanArm
  <2>4. Spent(t)'
    <3>1. \/ st'[t] = [st[t] EXCEPT !.timer = st[t].gen]
          \/ st'[t] = st[t]
      BY <1>0, <1>5 DEF ArmStream, TypeOK
    <3>2. /\ st'[t].chunk = st[t].chunk /\ st'[t].ans = st[t].ans
          /\ st'[t].fillers = st[t].fillers
      BY <1>0, <3>1 DEF TypeOK, TurnState
    <3>3. pc'[t] = "stream" /\ lock' = lock
      BY <1>0, <1>5 DEF ArmStream, Goto, TypeOK, worker
    <3> QED
      BY <1>0, <2>1, <3>2, <3>3 DEF Spent
  <2> QED
    BY <2>1, <2>2, <2>3, <2>4
<1>6. ASSUME CloseStream(t) PROVE Keeps
  <2>1. heard' = heard /\ turnSeq' = turnSeq /\ net' = net /\ mode' = mode /\ st'[t].chunk = st[t].chunk
    BY <1>0, <1>6 DEF CloseStream, TypeOK, TurnState, link, worker, timers
  <2>2. /\ pc'[t] \in Early => pc[t] \in Early
        /\ pc[t] \in Over => pc'[t] \in Over
        /\ pc'[t] \in Streaming => mode[t] = "stream"
    BY <1>0, <1>6 DEF CloseStream, Goto, Numbers, Streaming, Early, Over, TypeOK, worker
  <2>3. pc'[t] \in Over => Shut(t)'
    BY <1>0, <1>6 DEF CloseStream, Goto, PlaceOK, Numbers, Shut, NoTimers, Early, Over, TypeOK, TurnState, worker, timers
  <2>4. Spent(t)'
    BY <1>0, <1>6 DEF CloseStream, Goto, PlaceOK, Spent, Early, TypeOK, TurnState, worker, timers
  <2> QED
    BY <2>1, <2>2, <2>3, <2>4
<1>7. ASSUME NEW b \in BOOLEAN, InputGate(t, b) PROVE Keeps
  <2>1. heard' = heard /\ turnSeq' = turnSeq /\ net' = net /\ mode' = mode /\ st'[t].chunk = st[t].chunk
    BY <1>0, <1>7 DEF InputGate, TypeOK, TurnState, link, worker, timers
  <2>2. /\ pc'[t] \in Early => pc[t] \in Early
        /\ pc[t] \in Over => pc'[t] \in Over
        /\ pc'[t] \in Streaming => mode[t] = "stream"
    BY <1>0, <1>7 DEF InputGate, Goto, Numbers, Streaming, Early, Over, TypeOK, worker
  <2>3. pc'[t] \in Over => Shut(t)'
    BY <1>0, <1>7 DEF InputGate, Goto, PlaceOK, Numbers, Shut, NoTimers, Early, Over, TypeOK, TurnState, worker, timers
  <2>4. Spent(t)'
    BY <1>0, <1>7 DEF InputGate, Goto, PlaceOK, Spent, Early, TypeOK, TurnState, worker, timers
  <2> QED
    BY <2>1, <2>2, <2>3, <2>4
<1>8. ASSUME NEW b \in BOOLEAN, Respond(t, b) PROVE Keeps
  <2>1. heard' = heard /\ turnSeq' = turnSeq /\ net' = net /\ mode' = mode /\ st'[t].chunk = st[t].chunk
    BY <1>0, <1>8 DEF Respond, TypeOK, TurnState, link, worker, timers
  <2>2. /\ pc'[t] \in Early => pc[t] \in Early
        /\ pc[t] \in Over => pc'[t] \in Over
        /\ pc'[t] \in Streaming => mode[t] = "stream"
    BY <1>0, <1>8 DEF Respond, Goto, Numbers, Streaming, Early, Over, TypeOK, worker
  <2>3. pc'[t] \in Over => Shut(t)'
    BY <1>0, <1>8 DEF Respond, Goto, PlaceOK, Numbers, Shut, NoTimers, Early, Over, TypeOK, TurnState, worker, timers
  <2>4. Spent(t)'
    BY <1>0, <1>8 DEF Respond, Goto, PlaceOK, Spent, Early, TypeOK, TurnState, worker, timers
  <2> QED
    BY <2>1, <2>2, <2>3, <2>4
<1>9. ASSUME NEW b \in BOOLEAN, StreamStops(t, b) PROVE Keeps
  <2>1. heard' = heard /\ turnSeq' = turnSeq /\ net' = net /\ mode' = mode /\ st'[t].chunk = st[t].chunk
    BY <1>0, <1>9 DEF StreamStops, TypeOK, TurnState, link, worker, timers
  <2>2. /\ pc'[t] \in Early => pc[t] \in Early
        /\ pc[t] \in Over => pc'[t] \in Over
        /\ pc'[t] \in Streaming => mode[t] = "stream"
    BY <1>0, <1>9 DEF StreamStops, Goto, Numbers, Streaming, Early, Over, TypeOK, worker
  <2>3. pc'[t] \in Over => Shut(t)'
    BY <1>0, <1>9 DEF StreamStops, Goto, PlaceOK, Numbers, Shut, NoTimers, Early, Over, TypeOK, TurnState, worker, timers
  <2>4. Spent(t)'
    BY <1>0, <1>9 DEF StreamStops, Goto, PlaceOK, Spent, Early, TypeOK, TurnState, worker, timers
  <2> QED
    BY <2>1, <2>2, <2>3, <2>4
<1>10. ASSUME NEW b \in BOOLEAN, Fallback(t, b) PROVE Keeps
  <2>1. heard' = heard /\ turnSeq' = turnSeq /\ net' = net /\ mode' = mode /\ st'[t].chunk = st[t].chunk
    BY <1>0, <1>10 DEF Fallback, TypeOK, TurnState, link, worker, timers
  <2>2. /\ pc'[t] \in Early => pc[t] \in Early
        /\ pc[t] \in Over => pc'[t] \in Over
        /\ pc'[t] \in Streaming => mode[t] = "stream"
    BY <1>0, <1>10 DEF Fallback, Goto, Numbers, Streaming, Early, Over, TypeOK, worker
  <2>3. pc'[t] \in Over => Shut(t)'
    BY <1>0, <1>10 DEF Fallback, Goto, PlaceOK, Numbers, Shut, NoTimers, Early, Over, TypeOK, TurnState, worker, timers
  <2>4. Spent(t)'
    BY <1>0, <1>10 DEF Fallback, Goto, PlaceOK, Spent, Early, TypeOK, TurnState, worker, timers
  <2> QED
    BY <2>1, <2>2, <2>3, <2>4
<1>11. ASSUME NEW final \in BOOLEAN, NEW safe \in BOOLEAN, StreamChunk(t, final, safe) PROVE Keeps
  <2>1. heard' = heard /\ turnSeq' = turnSeq /\ net' = net /\ mode' = mode /\ st'[t].chunk = st[t].chunk
    BY <1>0, <1>11 DEF StreamChunk, TypeOK, TurnState, link, worker, timers
  <2>2. /\ pc'[t] \in Early => pc[t] \in Early
        /\ pc[t] \in Over => pc'[t] \in Over
        /\ pc'[t] \in Streaming => mode[t] = "stream"
    BY <1>0, <1>11 DEF StreamChunk, Goto, Numbers, Streaming, Early, Over, TypeOK, worker
  <2>3. pc'[t] \in Over => Shut(t)'
    BY <1>0, <1>11 DEF StreamChunk, Goto, PlaceOK, Numbers, Shut, NoTimers, Early, Over, TypeOK, TurnState, worker, timers
  <2>4. Spent(t)'
    BY <1>0, <1>11 DEF StreamChunk, Goto, PlaceOK, Spent, Early, TypeOK, TurnState, worker, timers
  <2> QED
    BY <2>1, <2>2, <2>3, <2>4
<1>12. ASSUME EnterFiller(t) PROVE Keeps
  <2>1. heard' = heard /\ turnSeq' = turnSeq /\ net' = net /\ mode' = mode /\ st'[t].chunk = st[t].chunk
    BY <1>0, <1>12 DEF EnterFiller, TypeOK, TurnState, link, worker, timers
  <2>2. /\ pc'[t] \in Early => pc[t] \in Early
        /\ pc[t] \in Over => pc'[t] \in Over
        /\ pc'[t] \in Streaming => mode[t] = "stream"
    BY <1>0, <1>12 DEF EnterFiller, Goto, Numbers, Streaming, Early, Over, TypeOK, worker
  <2>3. pc'[t] \in Over => Shut(t)'
    BY <1>0, <1>12 DEF EnterFiller, Goto, PlaceOK, Numbers, Shut, NoTimers, Early, Over, TypeOK, TurnState, worker, timers
  <2>4. Spent(t)'
    BY <1>0, <1>12 DEF EnterFiller, Goto, PlaceOK, Spent, Early, TypeOK, TurnState, worker, timers
  <2> QED
    BY <2>1, <2>2, <2>3, <2>4
<1>13. ASSUME RearmStream(t) PROVE Keeps
  <2>1. heard' = heard /\ turnSeq' = turnSeq /\ net' = net /\ mode' = mode /\ st'[t].chunk = st[t].chunk
    BY <1>0, <1>13 DEF RearmStream, TypeOK, TurnState, link, worker, timers, CanArm
  <2>2. /\ pc'[t] \in Early => pc[t] \in Early
        /\ pc[t] \in Over => pc'[t] \in Over
        /\ pc'[t] \in Streaming => mode[t] = "stream"
    BY <1>0, <1>13 DEF RearmStream, Goto, Numbers, Streaming, Early, Over, TypeOK, worker
  <2>3. pc'[t] \in Over => Shut(t)'
    BY <1>0, <1>13 DEF RearmStream, Goto, PlaceOK, Numbers, Shut, NoTimers, Early, Over, TypeOK, TurnState, worker, timers, CanArm
  <2>4. Spent(t)'
    <3>1. \/ st'[t] = [st[t] EXCEPT !.timer = st[t].gen]
          \/ st'[t] = st[t]
      BY <1>0, <1>13 DEF RearmStream, TypeOK
    <3>2. /\ st'[t].chunk = st[t].chunk /\ st'[t].ans = st[t].ans
          /\ st'[t].fillers = st[t].fillers
      BY <1>0, <3>1 DEF TypeOK, TurnState
    <3>3. pc' = pc /\ lock' = lock
      BY <1>0, <1>13 DEF RearmStream, Goto, TypeOK, worker
    <3> QED
      BY <1>0, <2>1, <3>2, <3>3 DEF Spent
  <2> QED
    BY <2>1, <2>2, <2>3, <2>4
<1>14. ASSUME NEW g \in Gens, TimerExpires(t, g) PROVE Keeps
  <2>1. heard' = heard /\ turnSeq' = turnSeq /\ net' = net /\ mode' = mode /\ st'[t].chunk = st[t].chunk
    BY <1>0, <1>14 DEF TimerExpires, TypeOK, TurnState, link, worker, timers
  <2>2. /\ pc'[t] \in Early => pc[t] \in Early
        /\ pc[t] \in Over => pc'[t] \in Over
        /\ pc'[t] \in Streaming => mode[t] = "stream"
    BY <1>0, <1>14 DEF TimerExpires, Goto, Numbers, Streaming, Early, Over, TypeOK, worker
  <2>3. pc'[t] \in Over => Shut(t)'
    BY <1>0, <1>14 DEF TimerExpires, Goto, PlaceOK, Numbers, Shut, NoTimers, Early, Over, TypeOK, TurnState, worker, timers
  <2>4. Spent(t)'
    BY <1>0, <1>14 DEF TimerExpires, Goto, PlaceOK, Spent, Early, TypeOK, TurnState, worker, timers
  <2> QED
    BY <2>1, <2>2, <2>3, <2>4
<1>15. ASSUME NEW g \in Gens, EnterStreamFiller(t, g) PROVE Keeps
  <2>1. heard' = heard /\ turnSeq' = turnSeq /\ net' = net /\ mode' = mode /\ st'[t].chunk = st[t].chunk
    BY <1>0, <1>15 DEF EnterStreamFiller, TypeOK, TurnState, link, worker, timers, CanArm
  <2>2. /\ pc'[t] \in Early => pc[t] \in Early
        /\ pc[t] \in Over => pc'[t] \in Over
        /\ pc'[t] \in Streaming => mode[t] = "stream"
    BY <1>0, <1>15 DEF EnterStreamFiller, Goto, Numbers, Streaming, Early, Over, TypeOK, worker
  <2>3. pc'[t] \in Over => Shut(t)'
    BY <1>0, <1>15 DEF EnterStreamFiller, Goto, PlaceOK, Numbers, Shut, NoTimers, Early, Over, TypeOK, TurnState, worker, timers, CanArm
  <2>4. Spent(t)'
    <3>1. \/ st[t] \in TurnState /\ lock' = lock /\ st' = st /\ pc' = pc
          \/ /\ st[t] \in TurnState /\ pc' = pc /\ lock'[t] = "timer" /\ CanArm(t)
             /\ st'[t] = [st[t] EXCEPT !.fillers = @ + 1, !.gen = @ + 1, !.timer = NoTimer]
             /\ lock[t] = "free"
      BY <1>0, <1>15 DEF EnterStreamFiller, TypeOK, worker
    <3>2. CASE lock' = lock /\ st' = st /\ pc' = pc
      BY <1>0, <2>1, <3>2 DEF Spent
    <3>3. CASE /\ st[t] \in TurnState /\ pc' = pc /\ lock'[t] = "timer" /\ CanArm(t)
               /\ st'[t] = [st[t] EXCEPT !.fillers = @ + 1, !.gen = @ + 1, !.timer = NoTimer]
      <4>1. /\ st'[t].chunk = st[t].chunk /\ st'[t].ans = st[t].ans
            /\ st'[t].fillers = st[t].fillers + 1 /\ st[t].fillers < MaxFillers
            /\ st[t].fillers \in Nat /\ st[t].ans \in Nat /\ st[t].chunk \in Nat
        BY <3>3 DEF TurnState, CanArm
      <4>2. MaxFillers \in Nat
        BY BoundsAssumption
      <4> QED
        BY <1>0, <3>3, <4>1, <4>2 DEF Spent
    <3> QED
      BY <3>1, <3>2, <3>3
  <2> QED
    BY <2>1, <2>2, <2>3, <2>4
<1>16. ASSUME NEW b \in BOOLEAN, Route(t, b) PROVE LinesOK(t)'
  <2>1. /\ heard[t] = << >> /\ st[t].chunk = 0 /\ lock[t] = "free" /\ pc[t] = "route"
    BY <1>0, <1>16 DEF Route, Numbers, PlaceOK, Early
  <2>2. /\ heard' = heard /\ st' = st /\ lock' = lock /\ turnSeq' = turnSeq /\ net' = net
        /\ pc'[t] = "opener"
    BY <1>0, <1>16 DEF Route, Goto, TypeOK, link, timers
  <2>3. DOMAIN heard[t] = {} /\ Len(heard[t]) = 0
    BY <2>1
  <2>4. Numbers(t)' /\ Spent(t)'
    BY <1>0, <2>1, <2>2, <2>3 DEF Numbers, Spent, Streaming, Early, Over
  <2>5. Gapless(t)'
    BY <1>0, <2>1, <2>2, <2>3 DEF LinesOK, Gapless, Stale
  <2> QED
    BY <2>4, <2>5 DEF LinesOK
<1>17. pc[t] # "idle"
  <2>1. Worker(t) => pc[t] # "idle"
    BY DEF Worker, SayOpener, SayClosing, Finish, TakeOpener, ArmBudget, CloseDoor, ArmStream,
       SayChunk, CloseStream, InputGate, Route, Respond, StreamStops, Fallback, StreamChunk
  <2>2. Filler(t) => armed[t] # {} \/ fired[t] # {} \/ rearm[t] > 0 \/ lock[t] = "timer"
    BY DEF Filler, EnterFiller, SayFiller, SayStreamFiller, RearmStream, TimerExpires,
       EnterStreamFiller
  <2>3. pc[t] = "idle" => armed[t] = {} /\ fired[t] = {} /\ rearm[t] = 0 /\ lock[t] = "free"
    BY <1>0 DEF PlaceOK, Early, NoTimers
  <2> QED
    BY <2>1, <2>2, <2>3
<1>18. Keeps => LinesOK(t)'
  BY <1>17, SilentLines
<1> HIDE DEF Keeps
<1> QED
  BY <1>1, <1>2, <1>3, <1>4, <1>5, <1>6, <1>7, <1>8, <1>9, <1>10, <1>11, <1>12, <1>13, <1>14,
     <1>15, <1>16, <1>18 DEF Worker, Filler

-----------------------------------------------------------------------------
(* What the five steps that speak have in common: line n goes out, as the  *)
(* next one, and the turn is over or has the next number ready.            *)
Speaks(t, kind, n, end, safe) ==
  /\ Publish(t, kind, n, end, safe)
  /\ turnSeq' = turnSeq /\ net' = net /\ mode' = mode
  /\ pc[t] # "idle" /\ pc[t] \notin Over /\ ~Quiet(t) /\ ~Shut(t)
  /\ pc'[t] \notin Early
  /\ n \in Nat /\ n <= MaxChunks + MaxFillers + 1 /\ end \in BOOLEAN
  /\ \A i \in DOMAIN heard[t] : heard[t][i].chunk <= n
  /\ mode[t] = "stream" => n = st[t].chunk
  /\ pc'[t] \notin Over =>
       IF mode[t] = "plain" THEN n = 0 ELSE st'[t].chunk = n + 1
  /\ pc'[t] \in Streaming => mode[t] = "stream"
  /\ pc'[t] \in Over => Shut(t)'
  /\ Spent(t)'

LEMMA SpeakersSpeak ==
  ASSUME IInv, NEW t \in Turns, LinesOK(t),
         SayOpener(t) \/ SayClosing(t) \/ SayChunk(t) \/ SayFiller(t) \/ SayStreamFiller(t)
  PROVE  \E kind, n, end, safe : Speaks(t, kind, n, end, safe)
<1>0. TypeOK /\ HeldOK(t) /\ PlaceOK(t) /\ Numbers(t) /\ Spent(t)
  BY DEF IInv, TurnOK, LinesOK
<1>1. /\ st[t] \in TurnState /\ held[t] \in Speech /\ mode[t] \in {"plain", "stream"}
      /\ MaxChunks \in Nat /\ MaxFillers \in Nat
  BY <1>0, BoundsAssumption DEF TypeOK
<1>2. st[t].chunk \in Nat /\ st[t].ans \in Nat /\ st[t].fillers \in Nat /\ held[t].end \in BOOLEAN
  BY <1>1 DEF TurnState, Speech
<1>3. pc[t] \notin Over => \A i \in DOMAIN heard[t] :
         heard[t][i].chunk \in Nat /\ heard[t][i].chunk <= st[t].chunk
                                   /\ (mode[t] = "plain" => heard[t][i].chunk = 0)
  <2>1. \A i \in DOMAIN heard[t] : heard[t][i].chunk \in Nat
    <3>1. heard[t] \in Seq(Lines)
      BY <1>0 DEF TypeOK
    <3>2. \A i \in DOMAIN heard[t] : heard[t][i] \in Lines
      BY <3>1
    <3> QED
      BY <3>2 DEF Lines
  <2> QED
    BY <1>0, <1>2, <2>1 DEF Numbers
<1>4. st[t].chunk <= MaxChunks + MaxFillers + 1
  BY <1>0, <1>1, <1>2 DEF Spent
<1>5. ASSUME SayOpener(t) PROVE Speaks(t, "hello", 0, FALSE, TRUE)
  <2>1. Publish(t, "hello", 0, FALSE, TRUE) /\ turnSeq' = turnSeq /\ net' = net /\ mode' = mode
    BY <1>5 DEF SayOpener, link
  <2>2. pc[t] = "hello" /\ pc'[t] = "arm" /\ st'[t] = [st[t] EXCEPT !.chunk = 1]
    BY <1>0, <1>5 DEF SayOpener, Goto, TypeOK
  <2>3. heard[t] = << >> /\ st[t].chunk = 0
    BY <1>0, <2>2 DEF Numbers, Early
  <2>4. st'[t].chunk = 1 /\ st'[t].ans = st[t].ans /\ st'[t].fillers = st[t].fillers
    BY <1>1, <2>2 DEF TurnState
  <2>5. lock'[t] = "free"
    BY <1>0, <1>5, <2>2 DEF SayOpener, PlaceOK, Early
  <2>6. Spent(t)'
    BY <1>0, <1>2, <2>2, <2>4, <2>5 DEF Spent
  <2>7. ~Quiet(t) /\ ~Shut(t)
    BY <2>2 DEF Quiet, Shut, Speaking
  <2>8. DOMAIN heard[t] = {} /\ 0 <= MaxChunks + MaxFillers + 1
    BY <1>1, <2>3
  <2>9. /\ pc[t] # "idle" /\ pc[t] \notin Over /\ pc'[t] \notin Early
        /\ pc'[t] \notin Over /\ pc'[t] \notin Streaming
    BY <2>2 DEF Streaming, Early, Over
  <2>10. \A i \in DOMAIN heard[t] : heard[t][i].chunk <= 0
    BY <2>8
  <2>11. IF mode[t] = "plain" THEN 0 = 0 ELSE st'[t].chunk = 0 + 1
    BY <2>4
  <2> HIDE DEF Quiet, Shut
  <2> QED
    BY <2>1, <2>3, <2>6, <2>7, <2>8, <2>9, <2>10, <2>11 DEF Speaks
<1>6. ASSUME SayClosing(t) PROVE Speaks(t, held[t].kind, st[t].chunk, held[t].end, held[t].safe)
  <2>1. /\ Publish(t, held[t].kind, st[t].chunk, held[t].end, held[t].safe)
        /\ turnSeq' = turnSeq /\ net' = net /\ mode' = mode /\ st' = st /\ lock' = lock
    BY <1>6 DEF SayClosing, link
  <2>2. pc[t] \in {"redirect", "answer", "closing"} /\ pc'[t] = "finish"
    BY <1>0, <1>6 DEF SayClosing, Goto, TypeOK
  <2>3. Spent(t)'
    BY <1>0, <2>1, <2>2 DEF Spent
  <2>4. ~Quiet(t) /\ ~Shut(t)
    BY <2>2 DEF Quiet, Shut, Speaking
  <2>5. Shut(t)'
    BY <1>0, <1>6, <2>1, <2>2 DEF SayClosing, PlaceOK, Early, Shut, NoTimers, timers
  <2> QED
    BY <1>2, <1>3, <1>4, <2>1, <2>2, <2>3, <2>4, <2>5 DEF Speaks, Streaming, Early, Over
<1>7. ASSUME SayChunk(t) PROVE Speaks(t, held[t].kind, st[t].chunk, held[t].end, held[t].safe)
  <2>1. /\ Publish(t, held[t].kind, st[t].chunk, held[t].end, held[t].safe)
        /\ turnSeq' = turnSeq /\ net' = net /\ mode' = mode
    BY <1>7 DEF SayChunk, link
  <2>2. /\ pc[t] = "chunk" /\ pc'[t] \in {"closed", "arm"} /\ lock'[t] = "free"
        /\ st'[t] = [st[t] EXCEPT !.chunk = @ + 1, !.ans = @ + 1]
    BY <1>0, <1>7 DEF SayChunk, Goto, TypeOK
  <2>3. /\ st'[t].chunk = st[t].chunk + 1 /\ st'[t].ans = st[t].ans + 1
        /\ st'[t].fillers = st[t].fillers
    BY <1>1, <2>2 DEF TurnState
  <2>4. Spent(t)'
    BY <1>0, <1>1, <1>2, <2>2, <2>3 DEF Spent
  <2>5. ~Quiet(t) /\ ~Shut(t)
    BY <2>2 DEF Quiet, Shut, Speaking
  <2>6. mode[t] = "stream"
    BY <1>0, <2>2 DEF Numbers, Streaming
  <2> QED
    BY <1>1, <1>2, <1>3, <1>4, <2>1, <2>2, <2>3, <2>4, <2>5, <2>6 DEF Speaks, Streaming, Early, Over
<1>8. ASSUME SayFiller(t) PROVE Speaks(t, "filler", 0, FALSE, TRUE)
  <2>1. /\ Publish(t, "filler", 0, FALSE, TRUE) /\ mode[t] = "plain"
        /\ turnSeq' = turnSeq /\ net' = net /\ mode' = mode /\ pc' = pc
    BY <1>8 DEF SayFiller, link, worker
  <2>2. lock[t] = "timer" /\ lock'[t] = "free" /\ st'[t] = [st[t] EXCEPT !.chunk = 1]
    BY <1>0, <1>8 DEF SayFiller, TypeOK
  <2>3. st'[t].chunk = 1 /\ st'[t].ans = st[t].ans /\ st'[t].fillers = st[t].fillers
    BY <1>1, <2>2 DEF TurnState
  <2>4. pc[t] \notin Early /\ pc[t] \notin Over /\ pc[t] # "chunk" /\ ~Quiet(t) /\ ~Shut(t)
    BY <1>0, <2>2 DEF PlaceOK, Numbers, Quiet, Shut
  <2>5. Spent(t)'
    BY <1>0, <1>2, <2>1, <2>2, <2>3, <2>4 DEF Spent
  <2>8. pc[t] # "idle"
    BY <2>4 DEF Early
  <2>6. /\ \A i \in DOMAIN heard[t] : heard[t][i].chunk <= 0
        /\ 0 <= MaxChunks + MaxFillers + 1
    BY <1>1, <1>3, <2>1, <2>4
  <2>7. pc'[t] \in Streaming => mode[t] = "stream"
    BY <1>0, <2>1 DEF Numbers
  <2> QED
    BY <2>1, <2>3, <2>4, <2>5, <2>6, <2>7, <2>8 DEF Speaks
<1>9. ASSUME SayStreamFiller(t) PROVE Speaks(t, "filler", st[t].chunk, FALSE, TRUE)
  <2>1. /\ Publish(t, "filler", st[t].chunk, FALSE, TRUE) /\ mode[t] = "stream"
        /\ turnSeq' = turnSeq /\ net' = net /\ mode' = mode /\ pc' = pc
    BY <1>9 DEF SayStreamFiller, link, worker
  <2>2. lock[t] = "timer" /\ lock'[t] = "free" /\ st'[t] = [st[t] EXCEPT !.chunk = @ + 1]
    BY <1>0, <1>9 DEF SayStreamFiller, TypeOK
  <2>3. st'[t].chunk = st[t].chunk + 1 /\ st'[t].ans = st[t].ans /\ st'[t].fillers = st[t].fillers
    BY <1>1, <2>2 DEF TurnState
  <2>4. pc[t] \notin Early /\ pc[t] \notin Over /\ pc[t] # "chunk" /\ ~Quiet(t) /\ ~Shut(t)
    BY <1>0, <2>2 DEF PlaceOK, Numbers, Quiet, Shut
  <2>5. Spent(t)'
    BY <1>0, <1>2, <2>1, <2>2, <2>3, <2>4 DEF Spent
  <2> QED
    BY <1>1, <1>2, <1>3, <1>4, <2>1, <2>2, <2>3, <2>4, <2>5 DEF Speaks, Streaming, Early
<1> QED
  BY <1>5, <1>6, <1>7, <1>8, <1>9

LEMMA SpokenLines ==
  ASSUME IInv, NEW t \in Turns, LinesOK(t), NEW kind, NEW n, NEW end, NEW safe,
         Speaks(t, kind, n, end, safe)
  PROVE  LinesOK(t)'
<1> DEFINE s == heard[t]
           l == Line(t, kind, n, end, safe)
<1>0. /\ Numbers(t) /\ Gapless(t) /\ pc[t] \notin Over /\ mode[t] \in {"plain", "stream"}
      /\ s \in Seq(Lines) /\ Spent(t)' /\ mode' = mode /\ net' = net /\ Stale(t)' = Stale(t)
      /\ n \in Nat
  BY DEF IInv, TypeOK, LinesOK, Speaks, Stale
<1>1. l.chunk = n /\ l.late = Stale(t)
  BY DEF Line
<1>2. IF net = "up" THEN heard'[t] = Append(s, l) ELSE heard'[t] = s
  BY DEF IInv, TypeOK, Speaks, Publish, Line
<1>3. /\ mode[t] = "stream" => n = st[t].chunk
      /\ pc'[t] \notin Early
      /\ pc'[t] \notin Over => IF mode[t] = "plain" THEN n = 0 ELSE st'[t].chunk = n + 1
      /\ pc'[t] \in Streaming => mode[t] = "stream"
      /\ pc'[t] \in Over => Shut(t)'
      /\ \A i \in DOMAIN s : s[i].chunk <= n
  BY DEF Speaks
<1>4. \A i \in DOMAIN s : s[i].chunk \in Nat
  <2> HIDE DEF s
  <2>1. \A i \in DOMAIN s : s[i] \in Lines
    BY <1>0
  <2> QED
    BY <2>1 DEF Lines
<1>5. CASE net # "up"
  <2>1. heard'[t] = s
    BY <1>2, <1>5
  <2>2. Numbers(t)'
    BY <1>0, <1>3, <1>4, <2>1 DEF Numbers
  <2>3. Gapless(t)'
    BY <1>0, <1>5, <2>1 DEF Gapless, Speaks
  <2> QED
    BY <1>0, <2>2, <2>3 DEF LinesOK
<1>6. CASE net = "up"
  <2> HIDE DEF s, l
  <2>1. /\ DOMAIN heard'[t] = 1 .. (Len(s) + 1) /\ Len(heard'[t]) = Len(s) + 1
        /\ Len(s) \in Nat /\ heard'[t][Len(s) + 1] = l
        /\ \A i \in 1 .. Len(s) : i \in DOMAIN s /\ heard'[t][i] = s[i]
    BY <1>0, <1>2, <1>6, AppendOne
  <2>2. \A i \in DOMAIN heard'[t] : heard'[t][i].chunk \in Nat /\ heard'[t][i].chunk <= n
    BY <1>0, <1>1, <1>3, <1>4, <2>1
  <2>3. mode[t] = "plain" /\ pc'[t] \notin Over => n = 0
    BY <1>3
  <2>4. Numbers(t)'
    BY <1>0, <1>3, <2>2, <2>3 DEF Numbers
  <2>5. ASSUME mode[t] = "stream" PROVE
           \A i \in DOMAIN heard'[t] : ~heard'[t][i].late => heard'[t][i].chunk = i - 1
    <3>1. ~Stale(t) => n = Len(s)
      BY <1>0, <1>3, <1>6, <2>5 DEF Gapless, s
    <3>2. \A i \in DOMAIN s : ~s[i].late => s[i].chunk = i - 1
      BY <1>0, <2>5 DEF Gapless, s
    <3> QED
      BY <1>1, <2>1, <3>1, <3>2
  <2>6. ASSUME mode[t] = "stream", ~Stale(t), pc'[t] \notin Over
        PROVE  Len(heard'[t]) = st'[t].chunk
    <3>1. n = Len(s)
      BY <1>0, <1>3, <1>6, <2>6 DEF Gapless, s
    <3> QED
      BY <1>3, <2>1, <2>6, <3>1
  <2>7. Gapless(t)'
    BY <1>0, <1>6, <2>5, <2>6 DEF Gapless
  <2> QED
    BY <1>0, <2>4, <2>7 DEF LinesOK
<1> QED
  BY <1>5, <1>6

-----------------------------------------------------------------------------
(* What a step does to one turn. *)
LEMMA PathsStay ==
  ASSUME TypeOK, NEW t \in Turns, Worker(t) \/ Filler(t)
  PROVE  net' = net /\ \A x \in Turns \ {t} : mode'[x] = mode[x]
<1>1. net' = net
  BY DEF Worker, Filler, link, SayOpener, SayClosing, Finish, TakeOpener, ArmBudget, CloseDoor,
     ArmStream, SayChunk, CloseStream, InputGate, Route, Respond, StreamStops, Fallback, StreamChunk,
     EnterFiller, SayFiller, SayStreamFiller, RearmStream, TimerExpires, EnterStreamFiller
<1>2. (\E b \in BOOLEAN : Route(t, b)) \/ mode' = mode
  BY DEF Worker, Filler, worker, SayOpener, SayClosing, Finish, TakeOpener, ArmBudget, CloseDoor,
     ArmStream, SayChunk, CloseStream, InputGate, Respond, StreamStops, Fallback, StreamChunk,
     EnterFiller, SayFiller, SayStreamFiller, RearmStream, TimerExpires, EnterStreamFiller
<1>3. ASSUME NEW b \in BOOLEAN, Route(t, b) PROVE \A x \in Turns \ {t} : mode'[x] = mode[x]
  BY <1>3 DEF Route, TypeOK
<1> QED
  BY <1>1, <1>2, <1>3

LEMMA LinesStep ==
  ASSUME LinesInv, [Next]_vars, NEW x \in Turns PROVE LinesOK(x)'
<1>0. /\ IInv /\ TypeOK /\ x[1] \in Robots /\ turnSeq[x[1]] \in Nat /\ LinesOK(x)
      /\ Numbers(x) /\ Spent(x) /\ Gapless(x) /\ PlaceOK(x)
  BY DEF LinesInv, IInv, TypeOK, Turns, LinesOK, TurnOK
<1>1. ASSUME NEW t \in Turns, Worker(t) \/ Filler(t) PROVE LinesOK(x)'
  <2>1. Elsewhere(t)
    BY <1>0, <1>1, WorkerElsewhere, FillerElsewhere DEF IInv, TurnOK
  <2>2. CASE x = t
    <3>1. CASE SayOpener(t) \/ SayClosing(t) \/ SayChunk(t) \/ SayFiller(t) \/ SayStreamFiller(t)
      BY <1>0, <2>2, <3>1, SpeakersSpeak, SpokenLines
    <3> QED
      BY <1>0, <1>1, <2>2, <3>1, SilentStepsCount
  <2>3. CASE x # t
    <3>1. SameTurn(x) /\ turnSeq' = turnSeq
      BY <2>1, <2>3 DEF Elsewhere
    <3>2. mode'[x] = mode[x] /\ net' = net
      BY <1>0, <1>1, <2>3, PathsStay
    <3> QED
      BY <1>0, <3>1, <3>2, LinesFrame
  <2> QED
    BY <2>2, <2>3
<1>2. ASSUME NEW d \in Robots, Prompt(d) PROVE LinesOK(x)'
  <2> DEFINE t == <<d, turnSeq[d] + 1>>
  <2>1. t \in Turns /\ turnSeq[d] \in Nat
    BY <1>2, BoundsAssumption DEF IInv, TypeOK, Prompt, Turns, LinesInv
  <2>2. turnSeq'[x[1]] \in Nat /\ turnSeq'[x[1]] >= turnSeq[x[1]] /\ net' = net /\ mode' = mode
        /\ net = "up"
    BY <1>0, <1>2 DEF Prompt, TypeOK, link
  <2>3. CASE x = t
    <3>1. pc[x] = "idle"
      BY <1>0, <2>1, <2>3 DEF PlaceOK
    <3>2. /\ heard[x] = << >> /\ st[x].chunk = 0
      BY <1>0, <3>1 DEF Numbers, Early
    <3>3. pc'[x] = "queued" /\ heard' = heard /\ st' = st /\ lock' = lock
      BY <1>0, <1>2, <2>3 DEF Prompt, Goto, TypeOK
    <3>4. DOMAIN heard[x] = {} /\ Len(heard[x]) = 0
      BY <3>2
    <3>5. Numbers(x)' /\ Spent(x)'
      BY <1>0, <2>2, <3>1, <3>2, <3>3, <3>4 DEF Numbers, Spent, Streaming, Early, Over
    <3>6. Gapless(x)'
      BY <2>2, <3>2, <3>3, <3>4 DEF Gapless
    <3> QED
      BY <3>5, <3>6 DEF LinesOK
  <2>4. CASE x # t
    <3>1. SameTurn(x)
      BY <1>0, <1>2, <2>1, <2>4 DEF Prompt, Goto, SameTurn, TypeOK, timers
    <3> QED
      BY <1>0, <2>2, <3>1, LinesFrame
  <2> QED
    BY <2>3, <2>4
<1>3. ASSUME StartTurn PROVE LinesOK(x)'
  <2> DEFINE t == Head(queue)
  <2>1. t \in Turns /\ t = queue[1] /\ 1 \in DOMAIN queue
    BY <1>0, <1>3 DEF StartTurn, TypeOK
  <2>2. pc[t] = "queued"
    BY <1>0, <2>1 DEF IInv, QueueOK
  <2>3. /\ turnSeq' = turnSeq /\ net' = net /\ mode' = mode /\ heard' = heard /\ st' = st
        /\ lock' = lock
    BY <1>3 DEF StartTurn, link
  <2>4. CASE x = t
    <3>1. pc'[x] = "gate"
      BY <1>0, <1>3, <2>1, <2>4 DEF StartTurn, Goto, TypeOK
    <3>2. Numbers(x)' /\ Spent(x)'
      BY <1>0, <2>2, <2>3, <2>4, <3>1 DEF Numbers, Spent, Streaming, Early, Over
    <3>3. Gapless(x)'
      BY <1>0, <2>2, <2>3, <2>4, <3>1 DEF Gapless, Stale, Over
    <3> QED
      BY <3>2, <3>3 DEF LinesOK
  <2>5. CASE x # t
    <3>1. SameTurn(x)
      BY <1>0, <1>3, <2>1, <2>5 DEF StartTurn, Goto, SameTurn, TypeOK, timers
    <3> QED
      BY <1>0, <2>3, <3>1, LinesFrame
  <2> QED
    BY <2>4, <2>5
<1>4. ASSUME OnDisconnect PROVE LinesOK(x)'
  <2>1. SameTurn(x) /\ mode' = mode /\ net' = "down"
    BY <1>4 DEF OnDisconnect, SameTurn, worker, timers
  <2>2. turnSeq'[x[1]] = turnSeq[x[1]] + 1
    BY <1>0, <1>4 DEF OnDisconnect
  <2> QED
    BY <1>0, <2>1, <2>2, LinesFrame
<1>5. ASSUME UNCHANGED <<turnSeq, worker, st, lock, timers, heard>>,
             net' = net \/ net' = "lost" \/ (net = "down" /\ net' = "up")
      PROVE  LinesOK(x)'
  <2>1. SameTurn(x) /\ mode' = mode
    BY <1>5 DEF SameTurn, worker, timers
  <2> QED
    BY <1>0, <1>5, <2>1, LinesFrame
<1>6. ASSUME Loop
      PROVE  \/ \E d \in Robots : Prompt(d)
             \/ OnDisconnect
             \/ /\ UNCHANGED <<turnSeq, worker, st, lock, timers, heard>>
                /\ net' = net \/ net' = "lost" \/ (net = "down" /\ net' = "up")
  BY <1>6 DEF Loop, SocketLost, OnConnect, FaceLost, FaceFound, SayHello, link
<1>7. Operator \/ UNCHANGED vars =>
        UNCHANGED <<turnSeq, worker, st, lock, timers, heard>> /\ net' = net
  BY DEF Operator, StartSession, EndSession, vars, link
<1> QED
  BY <1>1, <1>2, <1>3, <1>4, <1>5, <1>6, <1>7 DEF Next

LEMMA InitLines == Init => LinesInv
<1> SUFFICES ASSUME Init, NEW t \in Turns PROVE LinesOK(t)
  BY InitInv DEF LinesInv
<1>1. /\ pc[t] = "idle" /\ heard[t] = << >> /\ st[t].chunk = 0 /\ st[t].ans = 0
      /\ st[t].fillers = 0 /\ mode[t] = "plain" /\ net = "up"
  BY DEF Init, FreshState
<1>2. DOMAIN heard[t] = {}
  BY <1>1
<1> QED
  BY <1>1, <1>2, BoundsAssumption DEF LinesOK, Numbers, Spent, Gapless, Streaming, Early, Over

LEMMA LinesInvariance == Spec => []LinesInv
<1>1. LinesInv /\ [Next]_vars => (\A x \in Turns : LinesOK(x))'
  BY LinesStep
<1>2. IInv /\ (\A x \in Turns : LinesOK(x)) => LinesInv
  BY DEF LinesInv
<1>3. LinesInv /\ [Next]_vars /\ IInv' => LinesInv'
  BY <1>1 DEF LinesInv
<1> QED
  BY InitLines, <1>3, Invariance, PTL DEF Spec

(* What a robot hears of a streamed turn before it is superseded is        *)
(* numbered 0, 1, 2, ... without a gap: turns.py numbers hellos, chunks,   *)
(* fillers and closing lines from one counter, and a line that a dead      *)
(* socket swallows makes the whole turn stale.                             *)
THEOREM StreamsAreGapFree == Spec => []StreamIsGapFree
<1>1. LinesInv => StreamIsGapFree
  BY DEF LinesInv, LinesOK, Gapless, StreamIsGapFree
<1> QED
  BY <1>1, LinesInvariance, PTL

-----------------------------------------------------------------------------
(***************************************************************************)
(* The refinement of TurnContract.                                         *)
(***************************************************************************)
(* What the contract knows of one line, and of the lines of a turn. *)
Said(l) == [chunk |-> l.chunk, end |-> l.end, late |-> l.late]
ToldLines == [chunk : Nat, end : BOOLEAN, late : BOOLEAN]

LEMMA ToldIsASeq ==
  ASSUME NEW s \in Seq(Lines)
  PROVE  /\ Told(s) \in Seq(ToldLines) /\ Len(Told(s)) = Len(s)
         /\ DOMAIN Told(s) = 1 .. Len(s)
         /\ \A i \in 1 .. Len(s) : Told(s)[i] = Said(s[i])
<1>1. Len(s) \in Nat /\ DOMAIN s = 1 .. Len(s)
  OBVIOUS
<1>2. \A i \in 1 .. Len(s) : s[i] \in Lines
  BY <1>1
<1>3. \A i \in 1 .. Len(s) : Said(s[i]) \in ToldLines
  BY <1>2 DEF Lines, ToldLines, Said
<1>4. Told(s) \in [1 .. Len(s) -> ToldLines] /\ \A i \in 1 .. Len(s) : Told(s)[i] = Said(s[i])
  BY <1>1, <1>3 DEF Told, Said
<1>5. Told(s) \in Seq(ToldLines)
  BY <1>1, <1>4, SeqDef
<1> QED
  BY <1>1, <1>4, <1>5, LenProperties

LEMMA ToldAppend ==
  ASSUME NEW s \in Seq(Lines), NEW l \in Lines
  PROVE  Told(Append(s, l)) = Append(Told(s), Said(l))
<1> DEFINE a == Append(s, l)
           b == Append(Told(s), Said(l))
<1>1. a \in Seq(Lines) /\ Said(l) \in ToldLines /\ Len(s) \in Nat
  BY DEF Lines, ToldLines, Said
<1>2. /\ Len(a) = Len(s) + 1 /\ a[Len(s) + 1] = l
      /\ \A i \in 1 .. Len(s) : a[i] = s[i]
  BY AppendOne
<1>3. /\ Told(a) \in Seq(ToldLines) /\ Len(Told(a)) = Len(s) + 1
      /\ \A i \in 1 .. (Len(s) + 1) : Told(a)[i] = Said(a[i])
  BY <1>1, <1>2, ToldIsASeq
<1>4. /\ Told(s) \in Seq(ToldLines) /\ Len(Told(s)) = Len(s)
      /\ \A i \in 1 .. Len(s) : Told(s)[i] = Said(s[i])
  BY ToldIsASeq
<1>5. /\ b \in Seq(ToldLines) /\ Len(b) = Len(s) + 1 /\ b[Len(s) + 1] = Said(l)
      /\ \A i \in 1 .. Len(s) : b[i] = Told(s)[i]
  BY <1>1, <1>4
<1> HIDE DEF a, b
<1>6. \A i \in 1 .. (Len(s) + 1) : Told(a)[i] = b[i]
  BY <1>1, <1>2, <1>3, <1>4, <1>5
<1>7. Told(a) = b
  BY <1>3, <1>5, <1>6, SeqEqual
<1> QED
  BY <1>7 DEF a, b

LEMMA ContractInit == Init => Contract!Init
<1> SUFFICES ASSUME Init PROVE Contract!Init
  OBVIOUS
<1>1. \A t \in Turns : heard[t] = << >>
  BY DEF Init
<1>2. Told(<< >>) = << >>
  <2>1. << >> \in Seq(Lines) /\ Len(<< >>) = 0
    BY EmptySeq
  <2>2. Told(<< >>) \in Seq(ToldLines) /\ Len(Told(<< >>)) = 0
    BY <2>1, ToldIsASeq
  <2> QED
    BY <2>2, EmptySeq
<1>3. AllTold = [t \in Turns |-> << >>]
  BY <1>1, <1>2 DEF AllTold
<1>4. turnSeq = [d \in Robots |-> 0]
  BY DEF Init
<1> QED
  BY <1>3, <1>4 DEF Contract!Init, Contract!Turns, Turns

(* A line that reaches the robot is one the contract allows. *)
LEMMA ContractSay ==
  ASSUME LinesInv, NEW t \in Turns, NEW kind, NEW n, NEW end, NEW safe,
         Speaks(t, kind, n, end, safe), Worker(t) \/ Filler(t), TypeOK', net = "up"
  PROVE  Contract!Say(t, n, end) /\ n \in 0 .. (MaxChunks + MaxFillers + 1) /\ end \in BOOLEAN
<1> DEFINE l == Line(t, kind, n, end, safe)
<1>0. /\ TypeOK /\ PlaceOK(t) /\ LateOK(t) /\ EndOK(t) /\ MaxChunks \in Nat /\ MaxFillers \in Nat
      /\ heard \in [Turns -> Seq(Lines)]
  BY BoundsAssumption DEF LinesInv, IInv, TurnOK, TypeOK
<1>1. /\ n \in 0 .. (MaxChunks + MaxFillers + 1) /\ end \in BOOLEAN
      /\ turnSeq' = turnSeq /\ t[2] <= turnSeq[t[1]]
      /\ ~Quiet(t) /\ ~Shut(t) /\ \A i \in DOMAIN heard[t] : heard[t][i].chunk <= n
  BY <1>0 DEF Speaks, PlaceOK
<1>2. heard' = [heard EXCEPT ![t] = Append(heard[t], l)]
  BY DEF Speaks, Publish, Line
<1>3. l \in Lines /\ heard[t] \in Seq(Lines)
  <2>1. heard'[t] = Append(heard[t], l) /\ heard'[t] \in Seq(Lines) /\ heard[t] \in Seq(Lines)
    BY <1>0, <1>2 DEF TypeOK
  <2>2. Len(heard[t]) + 1 \in DOMAIN heard'[t] /\ heard'[t][Len(heard[t]) + 1] = l
    BY <2>1, AppendOne
  <2> QED
    BY <2>1, <2>2
<1>4. Said(l) = [chunk |-> n, end |-> end, late |-> Stale(t)]
  BY DEF Said, Line
<1>5. Told(heard'[t]) = Append(AllTold[t], [chunk |-> n, end |-> end, late |-> Stale(t)])
  BY <1>0, <1>2, <1>3, <1>4, ToldAppend DEF AllTold
<1>6. AllTold' = [AllTold EXCEPT ![t] = Append(AllTold[t], [chunk |-> n, end |-> end, late |-> Stale(t)])]
  BY <1>0, <1>2, <1>5 DEF AllTold
<1>7. /\ DOMAIN AllTold[t] = DOMAIN heard[t]
      /\ \A i \in DOMAIN heard[t] : /\ AllTold[t][i].chunk = heard[t][i].chunk
                                    /\ AllTold[t][i].end = heard[t][i].end
                                    /\ AllTold[t][i].late = heard[t][i].late
  BY DEF AllTold, Told
<1>8. /\ \A i \in DOMAIN AllTold[t] : ~AllTold[t][i].end /\ AllTold[t][i].chunk <= n
      /\ Stale(t) => \A i \in DOMAIN AllTold[t] : ~AllTold[t][i].late
  BY <1>0, <1>1, <1>7 DEF LateOK, EndOK
<1>9. Contract!Say(t, n, end)
  BY <1>1, <1>6, <1>8 DEF Contract!Say, Contract!Closed, Contract!SpokeLate,
     Contract!Superseded, Stale, Turns
<1> QED
  BY <1>1, <1>9

LEMMA ContractStep ==
  ASSUME LinesInv, TypeOK', [Next]_vars PROVE [Contract!Next]_(Contract!vars)
<1>0. IInv /\ TypeOK
  BY DEF LinesInv, IInv
<1>1. heard' = heard /\ turnSeq' = turnSeq => [Contract!Next]_(Contract!vars)
  BY DEF Contract!vars, AllTold
<1>2. ASSUME NEW t \in Turns, Worker(t) \/ Filler(t) PROVE [Contract!Next]_(Contract!vars)
  <2>1. Elsewhere(t)
    BY <1>0, <1>2, WorkerElsewhere, FillerElsewhere DEF LinesInv, IInv, TurnOK
  <2>2. CASE SayOpener(t) \/ SayClosing(t) \/ SayChunk(t) \/ SayFiller(t) \/ SayStreamFiller(t)
    <3>1. PICK kind, n, end, safe : Speaks(t, kind, n, end, safe)
      BY <1>0, <2>2, SpeakersSpeak DEF LinesInv
    <3>2. CASE net = "up"
      <4>1. /\ Contract!Say(t, n, end) /\ t \in Contract!Turns
            /\ n \in 0 .. (MaxChunks + MaxFillers + 1) /\ end \in BOOLEAN
        BY <1>2, <3>1, <3>2, ContractSay DEF Contract!Turns, Turns
      <4> QED
        BY <4>1 DEF Contract!Next
    <3>3. CASE net # "up"
      BY <1>1, <3>1, <3>3 DEF Speaks, Publish
    <3> QED
      BY <3>2, <3>3
  <2>3. CASE ~(SayOpener(t) \/ SayClosing(t) \/ SayChunk(t) \/ SayFiller(t) \/ SayStreamFiller(t))
    <3>1. heard' = heard
      BY <1>2, <2>3 DEF Worker, Filler, Finish, TakeOpener, ArmBudget, CloseDoor, ArmStream,
         CloseStream, InputGate, Route, Respond, StreamStops, Fallback, StreamChunk,
         EnterFiller, RearmStream, TimerExpires, EnterStreamFiller, timers
    <3> QED
      BY <1>1, <2>1, <3>1 DEF Elsewhere
  <2> QED
    BY <2>2, <2>3
<1>3. ASSUME NEW d \in Robots, Prompt(d) PROVE [Contract!Next]_(Contract!vars)
  <2>1. turnSeq' = [x \in Robots |-> IF x \in {d} THEN turnSeq[x] + 1 ELSE turnSeq[x]]
    BY <1>0, <1>3 DEF Prompt, TypeOK
  <2>2. AllTold' = AllTold
    BY <1>3 DEF Prompt, AllTold
  <2>3. Contract!Supersede({d})
    BY <2>1, <2>2 DEF Contract!Supersede
  <2> QED
    BY <2>3 DEF Contract!Next
<1>4. ASSUME OnDisconnect PROVE [Contract!Next]_(Contract!vars)
  <2>1. turnSeq' = [x \in Robots |-> IF x \in Robots THEN turnSeq[x] + 1 ELSE turnSeq[x]]
    BY <1>0, <1>4 DEF OnDisconnect, TypeOK
  <2>2. AllTold' = AllTold
    BY <1>4 DEF OnDisconnect, AllTold
  <2>3. Contract!Supersede(Robots)
    BY <2>1, <2>2 DEF Contract!Supersede
  <2> QED
    BY <2>3 DEF Contract!Next
<1>5. Loop => \/ \E d \in Robots : Prompt(d)
              \/ OnDisconnect
              \/ heard' = heard /\ turnSeq' = turnSeq
  BY DEF Loop, SocketLost, OnConnect, FaceLost, FaceFound, SayHello
<1>6. Operator \/ StartTurn \/ UNCHANGED vars => heard' = heard /\ turnSeq' = turnSeq
  BY DEF Operator, StartSession, EndSession, StartTurn, vars
<1> QED
  BY <1>1, <1>2, <1>3, <1>4, <1>5, <1>6 DEF Next

(* The engine keeps the contract of TurnContract: the lines of a prompt    *)
(* come in order, nothing follows the closing line, and a superseded       *)
(* prompt speaks at most once more.  Every line that turns.py publishes is *)
(* a Say of the contract; a prompt and a lost connection are Supersede.    *)
THEOREM ContractIsKept == Spec => KeepsTheContract
<1>1. LinesInv' => TypeOK'
  BY DEF LinesInv, IInv
<1>2. LinesInv /\ LinesInv' /\ [Next]_vars => [Contract!Next]_(Contract!vars)
  BY <1>1, ContractStep
<1> QED
  BY <1>2, ContractInit, LinesInvariance, PTL DEF Spec, KeepsTheContract, Contract!Spec

-----------------------------------------------------------------------------
(***************************************************************************)
(* One hello per absence.                                                  *)
(***************************************************************************)
(* A turn that says, or is about to say, the hello kept for it.  *)
Hello(t) == pc[t] = "hello" \/ (heard[t] # << >> /\ heard[t][1].kind = "hello")
HelloTurns(d) == {t \in Turns : t[1] = d /\ Hello(t)}

(* The hellos still to come from what the child did so far: kept, about to *)
(* be said, or earned by an absence that lasts.                            *)
ToCome(d) ==
  (IF opener[d] THEN 1 ELSE 0) + (IF d \in greeting THEN 1 ELSE 0)
    + (IF face[d] = "gone" THEN 1 ELSE 0)

GreetOK(d) ==
  hellos[d] + Cardinality(HelloTurns(d)) + ToCome(d) <= absences[d]

GreetInv == (\A d \in Robots : GreetOK(d)) /\ BusyHasAWorker

LEMMA TurnsOfARobotAreFinite ==
  ASSUME NEW d \in Robots, NEW S, S \subseteq {t \in Turns : t[1] = d}
  PROVE  IsFiniteSet(S)
<1> DEFINE P == {d} \X (1 .. MaxSeq)
<1>0. 1 \in Int /\ MaxSeq \in Int
  BY BoundsAssumption
<1>1. IsFiniteSet({d}) /\ IsFiniteSet(1 .. MaxSeq)
  BY <1>0, FS_Singleton, FS_Interval
<1>2. IsFiniteSet(P)
  BY <1>1, FS_Product
<1>3. S \in SUBSET P
  BY DEF Turns
<1> HIDE DEF P
<1> QED
  BY <1>2, <1>3, FS_Subset

LEMMA HelloCount ==
  ASSUME NEW d \in Robots
  PROVE  /\ Cardinality(HelloTurns(d)) \in Nat
         /\ HelloTurns(d)' \subseteq HelloTurns(d)
              => Cardinality(HelloTurns(d)') \in Nat
                   /\ Cardinality(HelloTurns(d)') <= Cardinality(HelloTurns(d))
         /\ \A t \in Turns : HelloTurns(d)' \subseteq HelloTurns(d) \cup {t}
              => Cardinality(HelloTurns(d)') \in Nat
                   /\ Cardinality(HelloTurns(d)') <= Cardinality(HelloTurns(d)) + 1
<1>1. IsFiniteSet(HelloTurns(d))
  BY TurnsOfARobotAreFinite DEF HelloTurns
<1>2. ASSUME NEW S, IsFiniteSet(S), NEW T, T \subseteq S
      PROVE  Cardinality(T) \in Nat /\ Cardinality(S) \in Nat /\ Cardinality(T) <= Cardinality(S)
  BY <1>2, FS_Subset, FS_CardinalityType
<1>4. Cardinality(HelloTurns(d)) \in Nat
  BY <1>1, FS_CardinalityType
<1>3. ASSUME NEW t \in Turns
      PROVE  /\ IsFiniteSet(HelloTurns(d) \cup {t})
             /\ Cardinality(HelloTurns(d) \cup {t}) <= Cardinality(HelloTurns(d)) + 1
  <2>1. /\ IsFiniteSet(HelloTurns(d) \cup {t})
        /\ Cardinality(HelloTurns(d) \cup {t})
             = IF t \in HelloTurns(d) THEN Cardinality(HelloTurns(d))
               ELSE Cardinality(HelloTurns(d)) + 1
    BY <1>1, FS_AddElement
  <2> QED
    BY <1>4, <2>1
<1>5. HelloTurns(d)' \subseteq HelloTurns(d)
              => Cardinality(HelloTurns(d)') \in Nat
                   /\ Cardinality(HelloTurns(d)') <= Cardinality(HelloTurns(d))
  BY <1>1, <1>2
<1>6. ASSUME NEW t \in Turns, HelloTurns(d)' \subseteq HelloTurns(d) \cup {t}
      PROVE  Cardinality(HelloTurns(d)') \in Nat
                   /\ Cardinality(HelloTurns(d)') <= Cardinality(HelloTurns(d)) + 1
  <2> DEFINE U == HelloTurns(d) \cup {t}
             V == HelloTurns(d)'
  <2>1. IsFiniteSet(U) /\ Cardinality(U) <= Cardinality(HelloTurns(d)) + 1
    BY <1>3
  <2>2. V \subseteq U
    BY <1>6
  <2> HIDE DEF U, V
  <2>3. Cardinality(V) \in Nat /\ Cardinality(U) \in Nat /\ Cardinality(V) <= Cardinality(U)
    BY <1>2, <2>1, <2>2
  <2>4. Cardinality(V) \in Nat /\ Cardinality(V) <= Cardinality(HelloTurns(d)) + 1
    BY <1>4, <2>1, <2>3
  <2> QED
    BY <2>4 DEF V
<1> QED
  BY <1>4, <1>5, <1>6

(* No new hello in a turn, and none more to come than there was room for. *)
LEMMA GreetFrame ==
  ASSUME TypeOK, TypeOK', NEW d \in Robots, GreetOK(d), HelloTurns(d)' \subseteq HelloTurns(d),
         hellos'[d] + ToCome(d)' - absences'[d] <= hellos[d] + ToCome(d) - absences[d]
  PROVE  GreetOK(d)'
<1>1. /\ hellos[d] \in Nat /\ absences[d] \in Nat
      /\ hellos'[d] \in Nat /\ absences'[d] \in Nat
  BY DEF TypeOK
<1>5. ToCome(d) \in Nat /\ ToCome(d)' \in Nat
  BY DEF ToCome
<1>2. /\ Cardinality(HelloTurns(d)) \in Nat /\ Cardinality(HelloTurns(d)') \in Nat
      /\ Cardinality(HelloTurns(d)') <= Cardinality(HelloTurns(d))
  BY HelloCount
<1>3. hellos[d] + Cardinality(HelloTurns(d)) + ToCome(d) <= absences[d]
  BY DEF GreetOK
<1>4. GreetOK(d)' <=> hellos'[d] + Cardinality(HelloTurns(d)') + ToCome(d)' <= absences'[d]
  BY DEF GreetOK
<1> QED
  BY <1>1, <1>2, <1>3, <1>4, <1>5

(* Only a turn that pops the opener may come to say hello, and only a turn *)
(* that finishes stops running.                                            *)
LEMMA PlacesStep ==
  ASSUME LinesInv, TypeOK', NEW t \in Turns, Worker(t) \/ Filler(t)
  PROVE  /\ TakeOpener(t) \/ ((Hello(t)' => Hello(t)) /\ opener' = opener)
         /\ UNCHANGED <<face, absences, greeting, hellos>>
         /\ Finish(t) \/ (busy' = busy /\ (Running(t) => Running(t)'))
<1>0. TypeOK /\ LinesOK(t) /\ HeldOK(t) /\ IInv
  BY DEF LinesInv, IInv, TurnOK
<1>1. UNCHANGED <<face, absences, greeting, hellos>>
  BY DEF Worker, Filler, SayOpener, SayClosing, Finish, TakeOpener, ArmBudget, CloseDoor,
     ArmStream, SayChunk, CloseStream, InputGate, Route, Respond, StreamStops, Fallback, StreamChunk,
     EnterFiller, SayFiller, SayStreamFiller, RearmStream, TimerExpires, EnterStreamFiller, inputs
<1>2. TakeOpener(t) \/ opener' = opener
  BY DEF Worker, Filler, SayOpener, SayClosing, Finish, ArmBudget, CloseDoor,
     ArmStream, SayChunk, CloseStream, InputGate, Route, Respond, StreamStops, Fallback, StreamChunk,
     EnterFiller, SayFiller, SayStreamFiller, RearmStream, TimerExpires, EnterStreamFiller, inputs
<1>3. Finish(t) \/ busy' = busy
  BY DEF Worker, Filler, SayOpener, SayClosing, TakeOpener, ArmBudget, CloseDoor,
     ArmStream, SayChunk, CloseStream, InputGate, Route, Respond, StreamStops, Fallback, StreamChunk,
     EnterFiller, SayFiller, SayStreamFiller, RearmStream, TimerExpires, EnterStreamFiller
<1>8. \/ pc' = pc
      \/ \E p : /\ pc' = [pc EXCEPT ![t] = p] /\ p \notin {"idle", "queued"}
                /\ p = "done" => Finish(t)
                /\ p = "hello" => TakeOpener(t)
  <2> DEFINE Moves == \E p : /\ pc' = [pc EXCEPT ![t] = p] /\ p \notin {"idle", "queued"}
                             /\ p = "done" => Finish(t)
                             /\ p = "hello" => TakeOpener(t)
  <2>1. SayOpener(t) \/ SayClosing(t) \/ Finish(t) \/ ArmBudget(t) \/ ArmStream(t) => Moves
    BY DEF SayOpener, SayClosing, Finish, ArmBudget, ArmStream, Goto
  <2>2. TakeOpener(t) \/ CloseDoor(t) \/ SayChunk(t) \/ CloseStream(t) => Moves
    BY DEF TakeOpener, CloseDoor, SayChunk, CloseStream, Goto
  <2>3. ASSUME NEW b \in BOOLEAN, \/ InputGate(t, b) \/ Route(t, b) \/ Respond(t, b)
                                  \/ StreamStops(t, b) \/ Fallback(t, b)
        PROVE  Moves
    BY <2>3 DEF InputGate, Route, Respond, StreamStops, Fallback, Goto
  <2>4. ASSUME NEW final \in BOOLEAN, NEW safe \in BOOLEAN, StreamChunk(t, final, safe)
        PROVE  Moves
    BY <2>4 DEF StreamChunk, Goto
  <2>5. Filler(t) => pc' = pc
    BY DEF Filler, EnterFiller, SayFiller, SayStreamFiller, RearmStream, TimerExpires,
       EnterStreamFiller, worker
  <2> HIDE DEF Moves
  <2>6. Moves \/ pc' = pc
    BY <2>1, <2>2, <2>3, <2>4, <2>5 DEF Worker
  <2> QED
    BY <2>6 DEF Moves
<1>9. pc \in [Turns -> PCs]
  BY <1>0 DEF TypeOK
<1>4. ASSUME Running(t), ~Finish(t) PROVE Running(t)'
  <2>1. CASE pc' = pc
    BY <1>4, <2>1 DEF Running
  <2>2. ASSUME NEW p, pc' = [pc EXCEPT ![t] = p], p \notin {"idle", "queued", "done"}
        PROVE  Running(t)'
    BY <1>9, <2>2 DEF Running
  <2> QED
    BY <1>4, <1>8, <2>1, <2>2
<1>5. ASSUME ~TakeOpener(t) PROVE pc'[t] # "hello" \/ pc'[t] = pc[t]
  <2>1. ASSUME NEW p, pc' = [pc EXCEPT ![t] = p], p # "hello" PROVE pc'[t] # "hello"
    BY <1>9, <2>1
  <2> QED
    BY <1>5, <1>8, <2>1
<1>6. ASSUME heard'[t] # << >>, heard'[t][1].kind = "hello" PROVE Hello(t)
  <2>1. ASSUME NEW kind, NEW n, NEW end, NEW safe, Publish(t, kind, n, end, safe),
               kind # "hello"
        PROVE  Hello(t)
    <3>1. CASE heard'[t] = heard[t]
      BY <1>6, <3>1 DEF Hello
    <3>2. CASE heard'[t] # heard[t]
      <4>1. heard'[t] = Append(heard[t], Line(t, kind, n, end, safe)) /\ heard[t] \in Seq(Lines)
        BY <1>0, <2>1, <3>2 DEF Publish, Line, TypeOK
      <4>2. CASE heard[t] = << >>
        <5>1. Len(heard[t]) = 0
          BY <4>2
        <5>2. heard'[t][1] = Line(t, kind, n, end, safe)
          BY <4>1, <5>1, AppendOne
        <5> QED
          BY <1>6, <2>1, <5>2 DEF Line
      <4>3. CASE heard[t] # << >>
        <5>1. heard'[t][1] = heard[t][1]
          <6>1. 1 \in 1 .. Len(heard[t])
            BY <4>1, <4>3, EmptySeq
          <6> QED
            BY <4>1, <6>1, AppendOne
        <5> QED
          BY <1>6, <4>3, <5>1 DEF Hello
      <4> QED
        BY <4>2, <4>3
    <3> QED
      BY <3>1, <3>2
  <2>2. held[t].kind # "hello"
    BY <1>0 DEF TypeOK, Speech
  <2>3. CASE SayOpener(t)
    BY <2>3 DEF SayOpener, Hello
  <2>4. CASE SayClosing(t) \/ SayChunk(t)
    BY <2>1, <2>2, <2>4 DEF SayClosing, SayChunk
  <2>5. CASE SayFiller(t)
    BY <2>1, <2>5 DEF SayFiller
  <2>6. CASE SayStreamFiller(t)
    BY <2>1, <2>6 DEF SayStreamFiller
  <2>7. CASE ~(SayOpener(t) \/ SayClosing(t) \/ SayChunk(t) \/ SayFiller(t) \/ SayStreamFiller(t))
    <3>1. heard' = heard
      BY <2>7 DEF Worker, Filler, Finish, TakeOpener, ArmBudget, CloseDoor, ArmStream,
         CloseStream, InputGate, Route, Respond, StreamStops, Fallback, StreamChunk,
         EnterFiller, RearmStream, TimerExpires, EnterStreamFiller, timers
    <3> QED
      BY <1>6, <3>1 DEF Hello
  <2> QED
    BY <2>3, <2>4, <2>5, <2>6, <2>7
<1>7. TakeOpener(t) \/ (Hello(t)' => Hello(t))
  BY <1>5, <1>6 DEF Hello
<1> QED
  BY <1>1, <1>2, <1>3, <1>4, <1>7

LEMMA GreetStep == LinesInv /\ TypeOK' /\ GreetInv /\ [Next]_vars => (\A d \in Robots : GreetOK(d))'
<1> SUFFICES ASSUME LinesInv, TypeOK', GreetInv, [Next]_vars, NEW d \in Robots PROVE GreetOK(d)'
  OBVIOUS
<1>0. TypeOK /\ GreetOK(d) /\ IInv
  BY DEF LinesInv, IInv, GreetInv
<1>1. ASSUME NEW t \in Turns, Worker(t) \/ Filler(t) PROVE GreetOK(d)'
  <2>1. /\ \A x \in Turns \ {t} : Hello(x)' <=> Hello(x)
        /\ UNCHANGED <<face, absences, greeting, hellos>>
    <3>1. Elsewhere(t)
      BY <1>0, <1>1, WorkerElsewhere, FillerElsewhere DEF LinesInv, IInv, TurnOK
    <3> QED
      BY <1>1, <3>1, PlacesStep DEF Elsewhere, SameTurn, Hello
  <2>2. CASE ~TakeOpener(t)
    <3>1. (Hello(t)' => Hello(t)) /\ opener' = opener
      BY <1>1, <2>2, PlacesStep
    <3>2. HelloTurns(d)' \subseteq HelloTurns(d)
      BY <2>1, <3>1 DEF HelloTurns
    <3>3. hellos'[d] = hellos[d] /\ absences'[d] = absences[d] /\ ToCome(d)' = ToCome(d)
      BY <2>1, <3>1 DEF ToCome
    <3>4. hellos[d] \in Nat /\ absences[d] \in Nat /\ ToCome(d) \in Nat
      BY <1>0 DEF TypeOK, ToCome
    <3> QED
      BY <1>0, <3>2, <3>3, <3>4, GreetFrame
  <2>3. CASE TakeOpener(t)
    <3>1. /\ \A x \in Robots : x # t[1] => opener'[x] = opener[x]
          /\ t[1] \in Robots /\ opener'[t[1]] = FALSE /\ heard' = heard
          /\ ~opener[t[1]] => pc'[t] # "hello"
      BY <1>0, <2>3 DEF TakeOpener, TypeOK, Goto, Turns
    <3>2. CASE d = t[1] /\ opener[d]
      <4>1. HelloTurns(d)' \subseteq HelloTurns(d) \cup {t}
        BY <2>1 DEF HelloTurns
      <4>2. hellos'[d] = hellos[d] /\ absences'[d] = absences[d] /\ ToCome(d)' = ToCome(d) - 1
        BY <2>1, <3>1, <3>2 DEF ToCome
      <4>3. /\ hellos[d] \in Nat /\ absences[d] \in Nat /\ ToCome(d) \in Nat
        BY <1>0 DEF TypeOK, ToCome
      <4>4. /\ Cardinality(HelloTurns(d)) \in Nat /\ Cardinality(HelloTurns(d)') \in Nat
            /\ Cardinality(HelloTurns(d)') <= Cardinality(HelloTurns(d)) + 1
        BY <4>1, HelloCount
      <4>5. hellos[d] + Cardinality(HelloTurns(d)) + ToCome(d) <= absences[d]
        BY <1>0 DEF GreetOK
      <4>6. GreetOK(d)' <=> hellos'[d] + Cardinality(HelloTurns(d)') + ToCome(d)' <= absences'[d]
        BY DEF GreetOK
      <4> QED
        BY <4>2, <4>3, <4>4, <4>5, <4>6
    <3>3. CASE d # t[1] \/ ~opener[d]
      <4>1. HelloTurns(d)' \subseteq HelloTurns(d)
        BY <2>1, <3>1, <3>3 DEF HelloTurns, Hello
      <4>2. opener'[d] = opener[d]
        <5>1. opener[d] \in BOOLEAN
          BY <1>0 DEF TypeOK
        <5> QED
          BY <3>1, <3>3, <5>1
      <4>3. hellos'[d] = hellos[d] /\ absences'[d] = absences[d] /\ ToCome(d)' = ToCome(d)
        BY <2>1, <4>2 DEF ToCome
      <4>4. hellos[d] \in Nat /\ absences[d] \in Nat /\ ToCome(d) \in Nat
        BY <1>0 DEF TypeOK, ToCome
      <4> QED
        BY <1>0, <4>1, <4>3, <4>4, GreetFrame
    <3> QED
      BY <3>2, <3>3
  <2> QED
    BY <2>2, <2>3
<1>2. ASSUME heard' = heard, \A t \in Turns : pc'[t] = pc[t] \/ pc'[t] # "hello",
             hellos'[d] + ToCome(d)' - absences'[d] <= hellos[d] + ToCome(d) - absences[d]
      PROVE  GreetOK(d)'
  <2>1. HelloTurns(d)' \subseteq HelloTurns(d)
    BY <1>2 DEF HelloTurns, Hello
  <2> QED
    BY <1>0, <1>2, <2>1, GreetFrame
<1>3. /\ hellos[d] \in Nat /\ absences[d] \in Nat /\ ToCome(d) \in Nat
  BY <1>0 DEF TypeOK, ToCome
<1>4. ASSUME UNCHANGED <<hellos, absences, opener, greeting, face>>
      PROVE  hellos'[d] + ToCome(d)' - absences'[d] <= hellos[d] + ToCome(d) - absences[d]
  BY <1>3, <1>4 DEF ToCome
<1>5. ASSUME NEW e \in Robots, Prompt(e) PROVE GreetOK(d)'
  <2>1. heard' = heard /\ \A t \in Turns : pc'[t] = pc[t] \/ pc'[t] # "hello"
    BY <1>0, <1>5 DEF Prompt, Goto, TypeOK
  <2>2. UNCHANGED <<hellos, absences, opener, greeting, face>>
    BY <1>5 DEF Prompt, inputs
  <2> QED
    BY <1>2, <1>4, <2>1, <2>2
<1>6. ASSUME StartTurn PROVE GreetOK(d)'
  <2>1. heard' = heard /\ \A t \in Turns : pc'[t] = pc[t] \/ pc'[t] # "hello"
    BY <1>0, <1>6 DEF StartTurn, Goto, TypeOK
  <2>2. UNCHANGED <<hellos, absences, opener, greeting, face>>
    BY <1>6 DEF StartTurn, inputs
  <2> QED
    BY <1>2, <1>4, <2>1, <2>2
<1>7. ASSUME SocketLost \/ OnDisconnect \/ OnConnect \/ Operator \/ UNCHANGED vars PROVE GreetOK(d)'
  <2>1. UNCHANGED <<heard, pc, hellos, absences, opener, greeting, face>>
    BY <1>7 DEF SocketLost, OnDisconnect, OnConnect, Operator, StartSession, EndSession,
       inputs, worker, vars
  <2> QED
    BY <1>2, <1>4, <2>1
<1>8. ASSUME NEW e \in Robots, FaceLost(e) PROVE GreetOK(d)'
  <2>1. heard' = heard /\ pc' = pc /\ UNCHANGED <<hellos, opener, greeting>>
    BY <1>8 DEF FaceLost, worker
  <2>2. CASE d = e
    <3>1. absences'[d] = absences[d] + 1 /\ face[d] = "present" /\ face'[d] = "gone"
      BY <1>0, <1>8, <2>2 DEF FaceLost, TypeOK
    <3>2. ToCome(d)' = ToCome(d) + 1
      BY <2>1, <3>1 DEF ToCome
    <3> QED
      BY <1>2, <1>3, <2>1, <3>1, <3>2
  <2>3. CASE d # e
    <3>1. absences'[d] = absences[d] /\ face'[d] = face[d]
      BY <1>0, <1>8, <2>3 DEF FaceLost, TypeOK
    <3>2. ToCome(d)' = ToCome(d)
      BY <2>1, <3>1 DEF ToCome
    <3> QED
      BY <1>2, <1>3, <2>1, <3>1, <3>2
  <2> QED
    BY <2>2, <2>3
<1>9. ASSUME NEW e \in Robots, NEW long \in BOOLEAN, NEW asRequest \in BOOLEAN,
             FaceFound(e, long, asRequest)
      PROVE  GreetOK(d)'
  <2>1. /\ heard' = heard /\ pc' = pc /\ hellos' = hellos /\ absences' = absences
        /\ greeting = {}
    BY <1>9 DEF FaceFound, worker, LoopFree
  <2>2. greeting' = {} \/ greeting' = {e}
    BY <1>9 DEF FaceFound
  <2>3. CASE d = e
    <3>1. /\ face[d] = "gone" /\ face'[d] = "present"
          /\ opener'[d] = (opener[d] \/ (long /\ (d \in busy \/ ~asRequest)))
          /\ greeting' = IF long /\ asRequest /\ d \notin busy THEN {d} ELSE {}
      BY <1>0, <1>9, <2>3 DEF FaceFound, TypeOK
    <3>2. (opener'[d] = opener[d] /\ (greeting' = {} \/ greeting' = {d})) \/ greeting' = {}
      BY <1>0, <3>1 DEF TypeOK
    <3>3. ToCome(d)' <= ToCome(d) /\ ToCome(d)' \in Nat
      BY <2>1, <3>1, <3>2 DEF ToCome
    <3> QED
      BY <1>2, <1>3, <2>1, <3>3
  <2>4. CASE d # e
    <3>1. opener'[d] = opener[d] /\ face'[d] = face[d]
      BY <1>0, <1>9, <2>4 DEF FaceFound, TypeOK
    <3>2. ToCome(d)' = ToCome(d)
      BY <2>1, <2>2, <2>4, <3>1 DEF ToCome
    <3> QED
      BY <1>2, <1>3, <2>1, <3>2
  <2> QED
    BY <2>3, <2>4
<1>10. ASSUME NEW e \in Robots, SayHello(e) PROVE GreetOK(d)'
  <2>1. /\ heard' = heard /\ pc' = pc /\ UNCHANGED <<opener, absences, face>>
        /\ e \in greeting /\ greeting' = {}
    BY <1>10 DEF SayHello, worker
  <2>2. CASE d = e
    <3>1. hellos'[d] = hellos[d] \/ hellos'[d] = hellos[d] + 1
      BY <1>0, <1>10, <2>2 DEF SayHello, TypeOK
    <3>2. ToCome(d)' = ToCome(d) - 1
      BY <2>1, <2>2 DEF ToCome
    <3> QED
      BY <1>2, <1>3, <2>1, <3>1, <3>2
  <2>3. CASE d # e
    <3>1. hellos'[d] = hellos[d]
      BY <1>0, <1>10, <2>3 DEF SayHello, TypeOK
    <3>2. ToCome(d)' <= ToCome(d) /\ ToCome(d)' \in Nat
      BY <2>1 DEF ToCome
    <3> QED
      BY <1>2, <1>3, <2>1, <3>1, <3>2
  <2> QED
    BY <2>2, <2>3
<1> QED
  BY <1>1, <1>5, <1>6, <1>7, <1>8, <1>9, <1>10 DEF Next, Loop

LEMMA BusyStep == LinesInv /\ TypeOK' /\ BusyHasAWorker /\ [Next]_vars => BusyHasAWorker'
<1> SUFFICES ASSUME LinesInv, TypeOK', BusyHasAWorker, [Next]_vars, NEW d \in busy'
             PROVE  \E t \in Turns : t[1] = d /\ Running(t)'
  BY DEF BusyHasAWorker
<1>0. TypeOK /\ IInv
  BY DEF LinesInv, IInv
<1>1. ASSUME d \in busy, \A t \in Turns : Running(t) => Running(t)'
      PROVE  \E t \in Turns : t[1] = d /\ Running(t)'
  BY <1>1 DEF BusyHasAWorker
<1>2. ASSUME NEW t \in Turns, Worker(t) \/ Filler(t)
      PROVE  \E x \in Turns : x[1] = d /\ Running(x)'
  <2>1. \A x \in Turns \ {t} : Running(x)' <=> Running(x)
    <3>1. Elsewhere(t)
      BY <1>0, <1>2, WorkerElsewhere, FillerElsewhere DEF LinesInv, IInv, TurnOK
    <3> QED
      BY <3>1 DEF Elsewhere, SameTurn, Running
  <2>2. CASE ~Finish(t)
    <3>1. busy' = busy /\ (Running(t) => Running(t)')
      BY <1>2, <2>2, PlacesStep
    <3> QED
      BY <1>1, <2>1, <3>1
  <2>3. CASE Finish(t)
    <3>1. d \in busy /\ d # t[1]
      BY <2>3 DEF Finish
    <3>2. PICK x \in Turns : x[1] = d /\ Running(x)
      BY <3>1 DEF BusyHasAWorker
    <3> QED
      BY <2>1, <3>1, <3>2
  <2> QED
    BY <2>2, <2>3
<1>3. ASSUME StartTurn PROVE \E t \in Turns : t[1] = d /\ Running(t)'
  <2>1. PICK h \in Turns : h = Head(queue)
    BY <1>0, <1>3 DEF StartTurn, TypeOK
  <2>2. /\ pc' = [pc EXCEPT ![h] = "gate"] /\ pc \in [Turns -> PCs]
        /\ busy' = busy \cup {h[1]}
    BY <1>0, <1>3, <2>1 DEF StartTurn, Goto, TypeOK
  <2>3. Running(h)'
    BY <2>2 DEF Running
  <2>4. \A t \in Turns : Running(t) => Running(t)'
    BY <2>2 DEF Running
  <2>5. CASE d \in busy
    BY <1>1, <2>4, <2>5
  <2>6. CASE d = h[1]
    BY <2>3, <2>6
  <2> QED
    BY <2>2, <2>5, <2>6
<1>4. ASSUME NEW e \in Robots, Prompt(e) PROVE \E t \in Turns : t[1] = d /\ Running(t)'
  <2> DEFINE x == <<e, turnSeq[e] + 1>>
  <2>1. busy' = busy /\ pc' = [pc EXCEPT ![x] = "queued"] /\ pc \in [Turns -> PCs]
    BY <1>0, <1>4 DEF Prompt, Goto, TypeOK
  <2>2. x \in Turns /\ turnSeq[e] \in Nat
    BY <1>0, <1>4, BoundsAssumption DEF Prompt, TypeOK, Turns
  <2>3. pc[x] = "idle"
    <3>1. PlaceOK(x) /\ x[1] = e /\ x[2] = turnSeq[e] + 1
      BY <1>0, <2>2 DEF IInv, TurnOK
    <3> HIDE DEF x
    <3> QED
      BY <2>2, <3>1 DEF PlaceOK
  <2> HIDE DEF x
  <2>4. \A t \in Turns : Running(t) => Running(t)'
    BY <2>1, <2>2, <2>3 DEF Running
  <2> QED
    BY <1>1, <2>1, <2>4
<1>5. ASSUME UNCHANGED <<busy, pc>> PROVE \E t \in Turns : t[1] = d /\ Running(t)'
  BY <1>1, <1>5 DEF Running
<1>6. Loop => UNCHANGED <<busy, pc>> \/ \E e \in Robots : Prompt(e)
  BY DEF Loop, SocketLost, OnDisconnect, OnConnect, FaceLost, FaceFound, SayHello, worker
<1>7. Operator \/ UNCHANGED vars => UNCHANGED <<busy, pc>>
  BY DEF Operator, StartSession, EndSession, vars, worker
<1> QED
  BY <1>2, <1>3, <1>4, <1>5, <1>6, <1>7 DEF Next

LEMMA InitGreets == Init => GreetInv
<1> SUFFICES ASSUME Init PROVE GreetInv
  OBVIOUS
<1>1. BusyHasAWorker
  BY DEF Init, BusyHasAWorker
<1>2. ASSUME NEW d \in Robots PROVE GreetOK(d)
  <2>1. HelloTurns(d) = {}
    BY DEF Init, HelloTurns, Hello
  <2>2. Cardinality(HelloTurns(d)) = 0
    BY <2>1, FS_EmptySet
  <2>3. hellos[d] = 0 /\ ToCome(d) = 0 /\ absences[d] = 0
    BY DEF Init, ToCome
  <2> QED
    BY <2>2, <2>3 DEF GreetOK
<1> QED
  BY <1>1, <1>2 DEF GreetInv

LEMMA GreetInvGreets == LinesInv /\ GreetInv => OneHelloPerAbsence
<1> SUFFICES ASSUME LinesInv, GreetInv, NEW d \in Robots PROVE Greetings(d) <= absences[d]
  BY DEF OneHelloPerAbsence, GreetInv
<1> DEFINE S == {t \in Turns : t[1] = d /\ heard[t] # << >> /\ heard[t][1].kind = "hello"}
<1>1. S \subseteq HelloTurns(d)
  BY DEF HelloTurns, Hello
<1>2. IsFiniteSet(HelloTurns(d))
  BY TurnsOfARobotAreFinite DEF HelloTurns
<1> HIDE DEF S
<1>3. /\ Cardinality(S) \in Nat /\ Cardinality(HelloTurns(d)) \in Nat
      /\ Cardinality(S) <= Cardinality(HelloTurns(d))
  BY <1>1, <1>2, FS_Subset, FS_CardinalityType
<1>4. Cardinality(greeting \cap {d}) = IF d \in greeting THEN 1 ELSE 0
  <2>1. CASE d \in greeting
    <3>1. greeting \cap {d} = {d}
      BY <2>1
    <3> QED
      BY <2>1, <3>1, FS_Singleton
  <2>2. CASE d \notin greeting
    <3>1. greeting \cap {d} = {}
      BY <2>2
    <3> QED
      BY <2>2, <3>1, FS_EmptySet
  <2> QED
    BY <2>1, <2>2
<1>5. hellos[d] \in Nat /\ absences[d] \in Nat
  BY DEF LinesInv, IInv, TypeOK
<1>6. hellos[d] + Cardinality(HelloTurns(d)) + ToCome(d) <= absences[d]
  BY DEF GreetInv, GreetOK
<1>7. Greetings(d) = hellos[d] + Cardinality(S) + (IF opener[d] THEN 1 ELSE 0)
                       + Cardinality(greeting \cap {d})
  BY DEF Greetings, S
<1> QED
  BY <1>3, <1>4, <1>5, <1>6, <1>7 DEF ToCome

(* An absence of the child earns one hello at most, and a robot's marker   *)
(* _busy never outlives its workers: presence.py keeps, says or drops the  *)
(* hello, turns.py pops the kept one before a turn speaks.                 *)
THEOREM AbsencesAreGreetedOnce == Spec => []OneHelloPerAbsence
<1>1. LinesInv' => TypeOK'
  BY DEF LinesInv, IInv
<1>2. LinesInv /\ LinesInv' /\ GreetInv /\ [Next]_vars => GreetInv'
  BY <1>1, GreetStep, BusyStep DEF GreetInv
<1> QED
  BY <1>2, InitGreets, GreetInvGreets, LinesInvariance, PTL DEF Spec
=============================================================================
