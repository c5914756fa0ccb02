---------------------------- MODULE SpeechTurns ----------------------------
(***************************************************************************)
(* The live turn of the hosted page (sim/web/cloud-transport.js): one      *)
(* POST /api/chat, then the voice of its reply, redeemed from /api/speech  *)
(* one ticket at a time and routed in order into VoicePlayer.              *)
(*                                                                         *)
(* Turns overlap, and their replies land in any order.  One action is what *)
(* happens in one task of the event loop with the microtasks it queues: an *)
(* answer that lands, a timer that fires.                                  *)
(***************************************************************************)
EXTENDS VoicePlayer

CONSTANTS
    MaxTickets,     \* bound: chunks of a reply (MAX_TICKETS in the code)
    MaxLines        \* bound: turns that are sent and notices, together

NoTurns == {Nobody, Cloud, Murmur, Notice}

ASSUME SpeechAssumption ==
    /\ MaxTickets \in Nat \ {0} /\ MaxLines \in Nat
    /\ IsFiniteSet(Turns)
    /\ NoTurns \cap Turns = {} /\ Cardinality(NoTurns) = 4

VARIABLES
    turn,       \* turn -> where it stands
    posted,     \* turnSeq: how many turns were POSTed
    routed,     \* the chunks and the local lines given the speakers, in order
    notices     \* how many notices there were

vars == <<player, turn, posted, routed, notices>>

Newest == Cardinality(Turns) + 1    \* a line with no turn of its own
Nowhere == 0                        \* a line this transport knows nothing of

Fresh == [pc |-> "idle", seq |-> Newest, chunks |-> 0, landed |-> {}, settled |-> {},
          started |-> 0, next |-> 1, open |-> FALSE, voiced |-> FALSE, over |-> FALSE,
          superseded |-> FALSE, failed |-> FALSE]

Init ==
    /\ PlayerInit
    /\ turn = [t \in Turns |-> Fresh]
    /\ posted = 0
    /\ routed = <<>>
    /\ notices = 0

\* Another line may come.
MayCome == Cardinality({t \in Turns : turn[t].pc # "idle"}) + notices < MaxLines

\* The whole page, as one record the steps below pass along.
Page == [turn |-> turn, player |-> player, routed |-> routed]

Becomes(s) ==
    /\ turn' = s.turn
    /\ player' = s.player
    /\ routed' = s.routed

-----------------------------------------------------------------------------
(* The pipeline of one reply                                                *)

GiveUp(q) == [q EXCEPT !.over = TRUE, !.open = FALSE]

\* Mutant: a newer voice leaves the older replies alone.
MutLeavesThemOpen(s, seq) == s

\* A voice starts: every open pipeline of an earlier turn is over.
Supersede(s, seq) ==
    [s EXCEPT !.turn = [t \in Turns |->
        IF @[t].open /\ @[t].seq < seq THEN [GiveUp(@[t]) EXCEPT !.superseded = TRUE]
        ELSE @[t]]]

Hand(s, t, k) ==
    [s EXCEPT !.player = RouteTts(@, Chunk(t, k)), !.routed = Append(@, HersOf(Chunk(t, k)))]

\* A line with no voice coming takes the speakers at once.
SayLocally(s, t) ==
    LET given == Supersede(s, s.turn[t].seq)
    IN  [given EXCEPT !.routed = Append(@, LocalOf(t))]

Words(s, t) == [s EXCEPT !.player = RouteWords(@, t)]

InFlight(q) == q.started - Cardinality(q.settled)

\* fill(): one redemption at a time, never past a failure.
Fill(q) ==
    IF ~q.over /\ ~q.failed /\ q.started < q.chunks /\ InFlight(q) = 0
    THEN [q EXCEPT !.started = @ + 1] ELSE q

\* pump(): the chunk whose turn it is, if it has landed; a failed one ends
\* the voice.  One is in flight at a time, so at most one can be ready.
PumpTurn(s, t) ==
    LET q == s.turn[t]
        ready == q.voiced /\ ~q.over /\ q.next < q.chunks /\ q.next \in q.settled
        after == IF ~ready THEN s
                 ELSE IF q.next \in q.landed
                      THEN Hand([s EXCEPT !.turn[t].next = @ + 1], t, q.next)
                      ELSE [s EXCEPT !.turn[t] = GiveUp(@)]
        done(x) == IF x.voiced /\ ~x.over /\ x.next >= x.chunks THEN [x EXCEPT !.open = FALSE] ELSE x
    IN  [after EXCEPT !.turn[t] = Fill(done(@))]

\* Her voice starts with the reply's first chunk.
VoiceStarts(s, t) ==
    LET first == Hand(Supersede(s, s.turn[t].seq), t, 0)
    IN  [first EXCEPT !.turn[t].voiced = TRUE]

\* The voice is not coming: the held words are spoken locally, once.
FallBack(s, t) ==
    [SayLocally([s EXCEPT !.turn[t] = GiveUp(@)], t) EXCEPT !.player = Release(@, t)]

-----------------------------------------------------------------------------
(* Actions of a turn                                                        *)

\* sendUserTurn on a page that may spend: the bot control is asked first.
SendTurn(t) ==
    /\ turn[t].pc = "idle" /\ MayCome
    /\ turn' = [turn EXCEPT ![t].pc = "checking"]
    /\ player' = Thinks(player)
    /\ UNCHANGED <<posted, routed, notices>>

\* chatPost: the turn's place in the conversation is taken at the POST.
PostTurn(t) ==
    /\ turn[t].pc = "checking"
    /\ posted' = posted + 1
    /\ turn' = [turn EXCEPT ![t].pc = "posted", ![t].seq = posted + 1]
    /\ UNCHANGED <<player, routed, notices>>

\* No token: the first failure in a row is answered on the spot, later ones
\* from the stub after its beat.  Either line is the newest.
NoToken(t) ==
    /\ turn[t].pc = "checking"
    /\ \/ Becomes([SayLocally(Page, t) EXCEPT
                      !.turn[t].pc = "done", !.player = Speak(@, t)])
       \/ /\ turn' = [turn EXCEPT ![t].pc = "stub"]
          /\ UNCHANGED <<player, routed, notices>>
    /\ UNCHANGED <<posted, notices>>

\* ...and on one that may not: the bridge answers from the stub after its own beat,
\* and ends no older reply.
Delegate(t) ==
    /\ turn[t].pc = "idle" /\ MayCome
    /\ turn' = [turn EXCEPT ![t].pc = "delegated"]
    /\ player' = Converses(player)
    /\ UNCHANGED <<posted, routed, notices>>

DelegateAnswers(t) ==
    /\ turn[t].pc = "delegated"
    /\ turn' = [turn EXCEPT ![t].pc = "done", ![t].seq = Nowhere]
    /\ player' = Speak(player, t)
    /\ routed' = Append(routed, LocalOf(t))
    /\ UNCHANGED <<posted, notices>>

\* sendScriptedTurn: a line the page chose is answered from the stub.
SendScripted(t) ==
    /\ turn[t].pc = "idle" /\ MayCome
    /\ turn' = [turn EXCEPT ![t].pc = "stub"]
    /\ player' = Converses(player)
    /\ UNCHANGED <<posted, routed, notices>>

\* Unreachable or refused: the stub answers after its beat.
ChatRefused(t) ==
    /\ turn[t].pc = "posted"
    /\ turn' = [turn EXCEPT ![t].pc = "stub"]
    /\ player' = Settles(player)
    /\ UNCHANGED <<posted, routed, notices>>

StubAnswers(t) ==
    /\ turn[t].pc = "stub"
    /\ Becomes([SayLocally(Page, t) EXCEPT
                   !.turn[t].pc = "done", !.player = Speak(@, t)])
    /\ UNCHANGED <<posted, notices>>

\* A reply without tickets, or the redirect of a blocked turn.
VoicelessReply(t) ==
    /\ turn[t].pc = "posted"
    /\ Becomes([Words(SayLocally([Page EXCEPT !.player = Settles(@)], t), t) EXCEPT
                   !.turn[t].pc = "done"])
    /\ UNCHANGED <<posted, notices>>

\* voiceFirst: the event's voice is expected, and chunk 0 is asked for.
VoicedReply(t, n) ==
    /\ turn[t].pc = "posted"
    /\ turn' = [turn EXCEPT ![t] = [@ EXCEPT !.pc = "racing", !.chunks = n,
                                             !.open = TRUE, !.started = 1]]
    /\ player' = Expect(Settles(player), t)
    /\ UNCHANGED <<posted, routed, notices>>

\* SPEECH_WAIT_MS: the words go out and wait for their voice.
WaitElapses(t) ==
    /\ turn[t].pc = "racing"
    /\ Becomes([Words(Page, t) EXCEPT !.turn[t].pc = "waiting"])
    /\ UNCHANGED <<posted, notices>>

\* The request for the newest chunk asked for is settled: the audio landed,
\* or it was refused, unreachable or past its deadline.
Settled(s, t, ok) ==
    LET i == s.turn[t].started - 1
        q == [s.turn[t] EXCEPT !.settled = @ \union {i},
                 !.landed = IF ok /\ ~s.turn[t].over THEN @ \union {i} ELSE @]
        r == [q EXCEPT !.failed = @ \/ (i > 0 /\ i \notin q.landed)]
        lost == i = 0 /\ 0 \notin r.landed
    IN  PumpTurn([s EXCEPT !.turn[t] = IF lost THEN GiveUp(r) ELSE r], t)

SpeechAnswers(t, ok) ==
    /\ turn[t].pc \in {"racing", "waiting", "done"}
    /\ InFlight(turn[t]) = 1
    /\ LET s == Settled(Page, t, ok)
           first == turn[t].settled = {}
           here == 0 \in s.turn[t].landed
           silent == s.turn[t].superseded
           voice == IF here THEN VoiceStarts(s, t)
                    ELSE IF silent THEN s ELSE FallBack(s, t)
           words == IF turn[t].pc = "racing" THEN Words(voice, t) ELSE voice
       IN  Becomes(IF first THEN PumpTurn([words EXCEPT !.turn[t].pc = "done"], t) ELSE s)
    /\ UNCHANGED <<posted, notices>>

TurnStep(t) ==
    \/ PostTurn(t) \/ NoToken(t) \/ DelegateAnswers(t)
    \/ ChatRefused(t) \/ StubAnswers(t) \/ VoicelessReply(t)
    \/ \E n \in 1 .. MaxTickets : VoicedReply(t, n)
    \/ WaitElapses(t)
    \/ \E ok \in BOOLEAN : SpeechAnswers(t, ok)

\* CHAT_QUIET_MS after the last line: longer than any answer takes to come, not
\* longer than one can take to load or to be played.
HoldLapses ==
    /\ player.hold
    /\ \A t \in Turns : turn[t].pc \in {"idle", "done"}
    /\ player' = [player EXCEPT !.hold = FALSE]

Ambient == (FillerBeat \/ MutterTicks \/ HoldLapses) /\ UNCHANGED <<turn, posted, routed, notices>>

\* ambient.js says once that she is degraded; hud.js's panel, what is asked of it.
Announce ==
    /\ MayCome
    /\ notices' = notices + 1
    /\ GiveNotice
    /\ routed' = Append(routed, LocalOf(Notice))
    /\ UNCHANGED <<turn, posted>>

Next ==
    \/ \E t \in Turns : SendTurn(t) \/ Delegate(t) \/ SendScripted(t) \/ TurnStep(t)
    \/ PlayerNext /\ UNCHANGED <<turn, posted, routed, notices>>
    \/ Ambient \/ Announce

\* A turn's requests and waits have deadlines, a chunk comes to its end and a gap
\* timer fires.  A recorded line is fetched without a deadline: its start is not fair.
Fairness ==
    /\ \A t \in Turns : WF_vars(TurnStep(t))
    /\ \A t \in Turns : WF_vars(\E ok \in BOOLEAN : SpeechAnswers(t, ok))
    /\ WF_vars((ChunkEnds \/ GapFires) /\ UNCHANGED <<turn, posted, routed, notices>>)

Spec == Init /\ [][Next]_vars /\ Fairness

-----------------------------------------------------------------------------
(* Properties                                                               *)

\* Types, one redemption in flight per reply, and a pipeline that is open
\* only while something of it may still be redeemed or routed.
SpeechTypeOK ==
    /\ posted \in 0 .. Cardinality(Turns)
    /\ player.held \subseteq Turns /\ player.loading \subseteq Turns \union {Notice}
    /\ player.current \in Turns \union NoTurns
    /\ \A t \in Turns :
        LET q == turn[t] IN
        /\ q.pc \in {"idle", "delegated", "checking", "posted", "stub", "racing", "waiting", "done"}
        /\ q.landed \subseteq q.settled /\ q.settled \subseteq 0 .. q.started - 1
        /\ InFlight(q) \in {0, 1} /\ q.started <= q.chunks
        /\ q.open => ~q.over /\ (InFlight(q) = 1 \/ q.pc = "racing")

Heard(t) == SelectSeq(player.heard, LAMBDA x : x.reply = t)

\* The place in the conversation of whose line it is.
PlaceOf(x) == IF x = Notice THEN Nowhere ELSE turn[x].seq

\* Something took the speakers after t that does not end it: the reply of an
\* earlier turn that landed late, a delegated turn's, or a notice.
Overtaken(t) ==
    \E i, j \in DOMAIN routed :
        i < j /\ routed[i].reply = t /\ PlaceOf(routed[j].reply) < turn[t].seq

\* ONE VOICE: a reply is heard in one voice only and never twice: either its
\* line once, in a local voice, or its chunks in order, and with none missing
\* unless the reply of an earlier turn, of a turn this page could not spend on,
\* or a notice cut in.
HeardAsWritten ==
    SpeechTypeOK /\ \A t \in Turns :
      LET h == Heard(t) IN
      \/ h = <<LocalOf(t)>>
      \/ /\ \A k \in DOMAIN h : ~h[k].local /\ (k > 1 => h[k - 1].chunk < h[k].chunk)
         /\ \/ Overtaken(t)
            \/ h = [k \in DOMAIN h |-> HersOf(Chunk(t, k - 1))]

\* When a newer reply takes the speakers, with its first chunk or a local
\* line, nothing more is routed of an older reply that had begun before it: the
\* reply of a live or a scripted turn, for a delegated turn's line and a notice are
\* no reply of this transport, and end nothing.
OlderGivesWay ==
    \A i, j, k \in DOMAIN routed :
      (/\ i < j /\ j < k /\ routed[j].chunk = 0
       /\ routed[i].reply = routed[k].reply /\ routed[i].reply # Notice)
        => PlaceOf(routed[j].reply) <= PlaceOf(routed[k].reply)

\* THE THIRD SEAM: a murmur that was asked for in a silence does not begin on
\* top of a chunk of her answer, however long it took to load.
MurmursYield ==
    [][(player.murmur /\ Murmur \in player'.sounding)
         => (player.playing = NoChunk \/ player.cut)]_vars

\* Another line was given the speakers after t's own had been.
CutShort(t) ==
    \E i, j \in DOMAIN routed : i < j /\ routed[i].reply = t /\ routed[j].reply # t

\* Never two voices and never none: a turn that was sent is heard in some
\* voice in the end, or waits for the recording of its line alone, unless another
\* line took its place on the speakers.
EveryReplyIsHeard ==
    \A t \in Turns :
      (turn[t].pc # "idle") ~>
          (Heard(t) # <<>> \/ t \in player.loading \/ turn[t].superseded \/ CutShort(t))
=============================================================================
