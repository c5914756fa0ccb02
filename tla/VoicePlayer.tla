---------------------------- MODULE VoicePlayer ----------------------------
(***************************************************************************)
(* How the page decides in which voice a reply is said, and in what order  *)
(* its audio starts: the per-reply arbitration of sim/web/bridge/index.js  *)
(* (expected, voiced, held words), the queue of server audio of            *)
(* sim/web/voice/cloud.js, the local voices of voice/core.js and           *)
(* voice/local.js, which load before they sound, and what she says of her  *)
(* own: a filler while a turn is late (bridge/alive.js), the mutters of    *)
(* ambient.js between conversations, and a notice: a line in reply to      *)
(* nobody that takes the speakers as a reply does.                         *)
(*                                                                         *)
(* No broker is linked and no recording is replayed, sound is switched on, *)
(* and the audio context runs: the visitor has typed or tapped.  The       *)
(* child's own recorded clips, which voice/local.js plays in between (and  *)
(* refuses to while she speaks), are left out.                             *)
(* Every operator below takes the player's state and returns the next one. *)
(***************************************************************************)
EXTENDS Naturals, Sequences, FiniteSets, SequencesExt

CONSTANTS
    Turns,      \* the turns, each with at most one reply and one event id
    Nobody,     \* no reply, no chunk
    Cloud,      \* V.current is the server voice
    Murmur,     \* an ambient line, a reply to nothing: a filler or a mutter
    Notice      \* ambient.js's degraded line, or a line of hud.js's voice panel

VARIABLE player

NoUtterance == [reply |-> Nobody, next |-> 0, idle |-> FALSE]

Chunk(t, k) == [reply |-> t, chunk |-> k]
NoChunk == Chunk(Nobody, 0)

\* What is heard: a chunk of her voice, or the whole line in a local one.
HersOf(item) == [reply |-> item.reply, chunk |-> item.chunk, local |-> FALSE]
LocalOf(t) == [reply |-> t, chunk |-> 0, local |-> TRUE]

PlayerInit ==
    player = [voices |-> [t \in Turns |-> "none"],  \* bridge: event -> its voice
              held |-> {},            \* bridge: words kept for an expected voice
              queue |-> <<>>,         \* ttsQueue
              playing |-> NoChunk,    \* ttsPlaying, until its source has ended
              cut |-> FALSE,          \* ...whose source was stopped before its end
              utter |-> NoUtterance,  \* the event being assembled
              gapTimer |-> FALSE, gapFilled |-> FALSE,
              loading |-> {},         \* local lines being fetched
              murmur |-> FALSE,       \* one is being fetched, and has not lost the floor
              sounding |-> {},        \* local lines, and a murmur, on the speakers
              synth |-> {},           \* those the browser says, or has yet to end
              thinking |-> FALSE,     \* alive.js: a filler is due
              hold |-> FALSE,         \* ambient.js: a conversation is going on
              current |-> Nobody,     \* V.current
              heard |-> <<>>]         \* what started to sound, in order

-----------------------------------------------------------------------------
(* voice/cloud.js                                                           *)

\* ORDERING RULE: the next chunk of the current event, or the first of another.
Startable(v, item) ==
    IF v.utter.reply = item.reply THEN item.chunk <= v.utter.next ELSE item.chunk = 0

\* beginUtterance: a new event flushes what the old one still had queued.
Begin(v, item) ==
    [v EXCEPT !.queue = IF v.utter.reply \in {Nobody, item.reply} THEN @
                        ELSE SelectSeq(@, LAMBDA x : x.reply # v.utter.reply),
              !.utter = [reply |-> item.reply, next |-> item.chunk + 1, idle |-> FALSE]]

\* Mutant: an answer does not tell a murmur still loading to keep quiet.
MutKeepsLoading(v) == v

\* takeFloor(): a murmur that is still loading will not sound any more.
TakeFloor(v) == [v EXCEPT !.murmur = FALSE]

\* A chunk starts: the local voice in the air is cut.
Start(v, k) ==
    LET item == v.queue[k]
        w == TakeFloor(Begin([v EXCEPT !.queue = RemoveAt(@, k)], item))
    IN  [w EXCEPT !.playing = item, !.cut = FALSE, !.current = Cloud,
                  !.gapTimer = FALSE, !.gapFilled = FALSE,
                  !.sounding = @ \ {v.current},
                  !.heard = Append(@, HersOf(item))]

\* ttsPump, with the ordering gate and the bounded wait of the GAP RULE.
Pump(v) ==
    LET ready == {k \in DOMAIN v.queue : Startable(v, v.queue[k])} IN
    IF v.playing # NoChunk THEN v
    ELSE IF v.queue = <<>>
         THEN [v EXCEPT !.gapTimer = FALSE, !.gapFilled = FALSE,
                        !.utter.idle = (v.utter.reply # Nobody)]
    ELSE IF ready # {} THEN Start(v, Min(ready))
    ELSE IF v.gapFilled THEN Start(v, 1)
    ELSE [v EXCEPT !.gapTimer = TRUE]

\* ttsEnqueue keeps the chunks of one event sorted.
Enqueue(queue, item) ==
    LET later == {k \in DOMAIN queue :
                    /\ \A j \in k .. Len(queue) : queue[j].reply = item.reply
                    /\ queue[k].chunk > item.chunk}
    IN  IF later = {} THEN Append(queue, item) ELSE InsertAt(queue, Min(later), item)

\* playCloudTTS: a chunk whose slot has passed is dropped as late.
PlayCloud(v, item) ==
    IF v.utter.reply = item.reply /\ item.chunk < v.utter.next THEN v
    ELSE Pump([v EXCEPT !.queue = Enqueue(@, item)])

\* V.stop: the queue and the sound in V.current; a line still loading goes on.
Stop(v) ==
    [v EXCEPT !.queue = <<>>, !.utter = NoUtterance,
              !.gapTimer = FALSE, !.gapFilled = FALSE,
              !.cut = @ \/ (v.playing # NoChunk /\ v.current = Cloud),
              !.sounding = @ \ {v.current}, !.current = Nobody]

\* speak(): a reply's line in a local voice.
Speak(v, t) == [TakeFloor(Stop(v)) EXCEPT !.loading = @ \union {t}]

\* moxieIsSpeaking(): what loads or waits in the queue is not seen.
Speaking(v) == v.playing # NoChunk \/ v.current # Nobody

\* Mutant: a murmur does not look at the queue.
MutFlushesTheQueue(v) == [Stop(v) EXCEPT !.murmur = TRUE]

\* speak() of an ambient line: refused while an answer waits in the queue.
SpeakMurmur(v) == IF v.queue # <<>> THEN v ELSE [Stop(v) EXCEPT !.murmur = TRUE]

-----------------------------------------------------------------------------
(* bridge/alive.js and ambient.js                                           *)

\* thinking(), and the visitor's row in the transcript.
Thinks(v) == [v EXCEPT !.thinking = TRUE, !.hold = TRUE]
Converses(v) == [v EXCEPT !.hold = TRUE]
Settles(v) == [v EXCEPT !.thinking = FALSE]

\* The second beat: a filler, unless she was heard a moment ago.
FillerBeat ==
    /\ player.thinking
    /\ \/ player' = Settles(player)
       \/ ~Speaking(player) /\ player' = SpeakMurmur(Settles(player))

\* tick(): a mutter, in a conversation's pauses and never into her own voice.
MutterTicks ==
    /\ ~player.hold /\ ~Speaking(player)
    /\ player' = SpeakMurmur(player)

-----------------------------------------------------------------------------
(* bridge/index.js                                                          *)

Expect(v, t) ==
    IF v.voices[t] = "voiced" THEN v ELSE [v EXCEPT !.voices[t] = "expected"]

\* speakLocally, for the words of a reply.
RouteWords(v, t) ==
    CASE v.voices[t] = "voiced" -> v
      [] v.voices[t] = "expected" -> [v EXCEPT !.held = @ \union {t}]
      [] OTHER -> Speak(v, t)

RouteTts(v, item) ==
    PlayCloud([v EXCEPT !.voices[item.reply] = "voiced", !.held = @ \ {item.reply}], item)

\* Mutant: the expected voice is forgotten, and the words with it.
MutForgetsTheWords(v, t) ==
    IF v.voices[t] # "expected" THEN v
    ELSE [v EXCEPT !.voices[t] = "none", !.held = @ \ {t}]

\* releaseCloudVoice: the words held for a voice that is not coming.
Release(v, t) ==
    IF v.voices[t] # "expected" THEN v
    ELSE LET w == [v EXCEPT !.voices[t] = "none", !.held = @ \ {t}]
         IN  IF t \in v.held THEN Speak(w, t) ELSE w

-----------------------------------------------------------------------------
(* What happens to the player by itself                                     *)

\* finish(): the source of the chunk has ended or was stopped.
ChunkEnds ==
    /\ player.playing # NoChunk
    /\ player' = Pump([player EXCEPT !.playing = NoChunk, !.cut = FALSE,
                         !.current = IF @ = Cloud THEN Nobody ELSE @])

GapFires ==
    /\ player.gapTimer
    /\ player' = Pump([player EXCEPT !.gapTimer = FALSE,
                         !.gapFilled = @ \/ player.playing = NoChunk])

\* EVENT RULE: an event that has been idle too long is no longer current.
UtteranceGoesStale ==
    /\ player.utter.idle
    /\ player' = [player EXCEPT !.utter = NoUtterance]

\* A line sounds: a clip, fetched and decoded, or the browser's voice, which
\* cancels what it was saying.
Sounds(v, x, synth) ==
    [v EXCEPT !.sounding = (IF synth THEN @ \ v.synth ELSE @) \union {x},
              !.synth = IF synth THEN @ \union {x} ELSE @,
              !.current = x]

LocalStarts(x) ==
    /\ x \in player.loading
    /\ \E synth \in BOOLEAN :
          player' = Sounds([player EXCEPT !.loading = @ \ {x}, !.heard = Append(@, LocalOf(x))],
                           x, synth)

MurmurStarts ==
    /\ player.murmur
    /\ \E synth \in BOOLEAN : player' = Sounds([player EXCEPT !.murmur = FALSE], Murmur, synth)

ClipEnds(x) ==
    /\ x \in player.sounding \ player.synth
    /\ player' = [player EXCEPT !.sounding = @ \ {x},
                     !.current = IF @ = x THEN Nobody ELSE @]

\* The browser's voice ended, or was cancelled a moment ago: V.current is let go
\* of, whatever it has come to be.
SynthEnds(x) ==
    /\ x \in player.synth
    /\ player' = [player EXCEPT !.synth = @ \ {x}, !.sounding = @ \ {x}, !.current = Nobody]

\* A notice, at any time: nobody asks whether she is speaking.
GiveNotice == player' = Speak(player, Notice)

PlayerNext ==
    \/ ChunkEnds \/ GapFires \/ UtteranceGoesStale \/ MurmurStarts
    \/ \E x \in Turns \union {Notice} : LocalStarts(x)
    \/ \E x \in Turns \union {Notice, Murmur} : ClipEnds(x) \/ SynthEnds(x)
=============================================================================
