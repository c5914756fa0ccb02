----------------------------- MODULE MicTurns -----------------------------
(***************************************************************************)
(* Talking to Moxie on the hosted page (sim/web/mic.js): the Listen        *)
(* button, the recording with its silence stop and its hard stop, and the  *)
(* clip on its way through the bot control, the ears and the turn of what  *)
(* they heard.                                                             *)
(*                                                                         *)
(* The hosted capture encodes its own WAV and stops in the task that asks  *)
(* it to.  The MediaRecorder of the local sidecar measures no levels, its  *)
(* clips need no token, and its stop event comes later, or by itself: its  *)
(* device was unplugged, the permission withdrawn.                         *)
(***************************************************************************)
EXTENDS BotCheck

CONSTANTS
    Kinds           \* of capture: "hosted", "media"

ASSUME MicAssumption == Kinds \subseteq {"hosted", "media"}

VARIABLES
    mic,        \* the recorder's state and its timers
    clip,       \* where each recorded clip stands
    holds       \* work counted by `busy`: <<clip, stage>>

page == <<mic, clip, holds>>
vars == <<bot, page>>

Init ==
    /\ BotInit
    /\ mic = [recording |-> FALSE, opening |-> 0, rec |-> Nobody, stream |-> Nobody,
              cap |-> FALSE, silence |-> "none", speech |-> FALSE, measured |-> FALSE,
              auto |-> FALSE, guard |-> FALSE, said |-> FALSE, raced |-> FALSE]
    /\ clip = [c \in Clips |-> [pc |-> "idle", kind |-> "hosted", live |-> FALSE, mute |-> FALSE, overdue |-> FALSE]]
    /\ holds = {}

Sizes == {"small", "fits", "big"}     \* a clip too small, or too big, for the route

Busy == Cardinality(holds)

Page == [mic |-> mic, clip |-> clip, holds |-> holds]

Becomes(s) == mic' = s.mic /\ clip' = s.clip /\ holds' = s.holds

-----------------------------------------------------------------------------
(* Recording                                                                *)

\* releaseStream(): the tracks of whatever stream is kept.
ReleaseStream(s) ==
    [s EXCEPT !.clip = [c \in Clips |-> [s.clip[c] EXCEPT !.live = @ /\ c # s.mic.stream]],
              !.mic.stream = Nobody]

\* The clip goes on with its upload or, too big, with a scripted line.
Hold(s, c, stage) ==
    [s EXCEPT !.holds = @ \union {<<c, stage>>}, !.clip[c].pc = stage,
              !.clip[c].mute = s.mic.measured /\ ~s.mic.said]

\* The capture is over; after an auto-stop the button is guarded for a while.
CaptureOver(s) == ReleaseStream([s EXCEPT !.mic.cap = FALSE, !.mic.auto = FALSE])
Guarded(s) == IF s.mic.auto THEN [CaptureOver(s) EXCEPT !.mic.guard = TRUE] ELSE CaptureOver(s)

\* Mutant: a clip is judged by its size alone.
MutSizeAlone(s, c, size) ==
    IF size = "small" THEN [CaptureOver(s) EXCEPT !.clip[c].pc = "dropped"]
    ELSE Hold(Guarded(s), c, IF size = "big" THEN "scripted" ELSE "sending")

\* onstop: a clip that was measured and never loud is dropped unsent.
OnStop(s, c, size) ==
    IF (s.mic.measured /\ ~s.mic.speech) \/ size = "small"
    THEN [CaptureOver(s) EXCEPT !.clip[c].pc = "dropped"]
    ELSE Hold(Guarded(s), c, IF size = "big" THEN "scripted" ELSE "sending")

\* stop(), and with the hosted capture the onstop it runs: nothing, of a recorder
\* that has stopped by itself.
Stop(s, size) ==
    LET over == [s EXCEPT !.mic.recording = FALSE, !.mic.silence = "none",
                        !.mic.cap = FALSE]
    IN  IF s.clip[s.mic.rec].pc # "recording" THEN over
        ELSE IF s.clip[s.mic.rec].kind = "media"
        THEN [over EXCEPT !.clip[s.mic.rec].pc = "stopping"]
        ELSE OnStop(over, s.mic.rec, size)

\* Mutant: a second tap while the browser is still asking opens another one.
MutOpensAgain(c) ==
    /\ clip[c].pc = "idle"
    /\ ~mic.recording
    /\ mic' = [mic EXCEPT !.opening = @ + 1]
    /\ \E k \in Kinds : clip' = [clip EXCEPT ![c].pc = "opening", ![c].kind = k]
    /\ UNCHANGED holds

\* start(): the browser is asked for the microphone.
Open(c) ==
    /\ clip[c].pc = "idle"
    /\ ~mic.recording /\ mic.opening = 0
    /\ mic' = [mic EXCEPT !.opening = 1]
    /\ \E k \in Kinds : clip' = [clip EXCEPT ![c].pc = "opening", ![c].kind = k]
    /\ UNCHANGED holds

\* toggle(), the Listen button: stopping is never refused, starting waits for
\* the last turn and for the guard after an auto-stop.
Tap ==
    /\ IF mic.recording THEN \E size \in Sizes : Becomes(Stop(Page, size))
       ELSE ~mic.guard /\ Busy = 0 /\ \E c \in Clips : Open(c)

\* Mutant: no hard stop is set.
MutNoHardStop(c) ==
    /\ clip[c].pc = "opening"
    /\ mic' = [mic EXCEPT !.opening = 0, !.rec = c, !.stream = c, !.recording = TRUE, !.said = FALSE,
                          !.speech = FALSE, !.measured = FALSE, !.auto = FALSE, !.silence = "none"]
    /\ clip' = [clip EXCEPT ![c].pc = "recording", ![c].live = TRUE]
    /\ UNCHANGED holds

\* The microphone opened: the recording starts, with its hard stop.
Opened(c) ==
    /\ clip[c].pc = "opening"
    /\ mic' = [mic EXCEPT !.opening = 0, !.rec = c, !.stream = c, !.recording = TRUE, !.said = FALSE,
                          !.speech = FALSE, !.measured = FALSE, !.auto = FALSE,
                          !.silence = "none", !.cap = TRUE]
    /\ clip' = [clip EXCEPT ![c].pc = "recording", ![c].live = TRUE]
    /\ UNCHANGED holds

\* No permission, no microphone: whatever was held is released.  A stream that was
\* granted, but of which no capture could be made, is held by nobody.
OpenFails(c) ==
    /\ clip[c].pc = "opening"
    /\ \E granted \in BOOLEAN :
         Becomes(ReleaseStream([Page EXCEPT !.mic.opening = 0, !.mic.cap = FALSE,
                                   !.clip[c].pc = IF granted THEN "orphan" ELSE "dropped",
                                   !.clip[c].live = granted]))

\* onLevel: one block of sound.  Speech stops the silence clock, quiet starts
\* it: a short wait after speech, a long one before.
Level(loud) ==
    /\ mic.recording /\ clip[mic.rec].kind = "hosted"
    /\ mic' = [mic EXCEPT !.measured = TRUE, !.speech = @ \/ loud,
                 !.said = @ \/ loud,
                 !.silence = IF loud THEN "none"
                             ELSE IF @ # "none" THEN @
                             ELSE IF mic.speech THEN "end" ELSE "empty"]
    /\ UNCHANGED <<clip, holds>>

AutoStop(s) ==
    IF ~s.mic.recording THEN Becomes(s)
    ELSE \E size \in Sizes : Becomes(Stop([s EXCEPT !.mic.auto = TRUE], size))

SilenceFires ==
    /\ mic.silence # "none"
    /\ AutoStop([Page EXCEPT !.mic.silence = "none"])

\* The hard stop.
CapFires ==
    /\ mic.cap
    /\ AutoStop([Page EXCEPT !.mic.cap = FALSE])

\* The stop event of a MediaRecorder: it was told to, or stopped by itself, and the
\* page goes on as if it recorded.  raced: the next recording had already
\* been asked for, and what the handler resets may be that recording's.
StopEvent(c) ==
    /\ \/ clip[c].pc = "stopping"
       \/ clip[c].pc = "recording" /\ clip[c].kind = "media"
    /\ LET late == mic.rec # c \/ mic.opening > 0
       IN  \E size \in Sizes :
             Becomes(OnStop([Page EXCEPT !.mic.raced = @ \/ late], c, size))

GuardEnds ==
    /\ mic.guard
    /\ mic' = [mic EXCEPT !.guard = FALSE]
    /\ UNCHANGED <<clip, holds>>

-----------------------------------------------------------------------------
(* A clip on its way                                                        *)

\* transcribe: a hosted clip asks the bot control first.  A typed turn asks
\* for a token of its own at any time.
AskForToken(c) ==
    /\ c \in Clips => clip[c].pc = "sending" /\ clip[c].kind = "hosted"
    /\ Ask(c)
    /\ UNCHANGED page

\* No token, no upload: a scripted line instead.
Upload(c) ==
    /\ clip[c].pc = "sending"
    /\ clip[c].kind = "media" \/ call[c].pc = "done"
    /\ LET paid == clip[c].kind = "media" \/ call[c].token # NoToken
       IN  clip' = [clip EXCEPT ![c].pc = IF paid THEN "uploading" ELSE "scripted"]
    /\ UNCHANGED <<mic, holds>>

\* Mutant: what was heard is not counted as work in flight.
MutTurnNotHeld(c) ==
    /\ clip[c].pc \in {"uploading", "scripted"}
    /\ clip' = [clip EXCEPT ![c].pc = "turn"]
    /\ holds' = holds \ {<<c, "sending">>, <<c, "scripted">>}
    /\ UNCHANGED mic

\* The ears answered, or a scripted line was chosen: its turn is sent, and is
\* in flight before the clip's own work is over.  One the page may not spend on, or
\* for a linked broker, is delegated, and its promise has settled by then.
TurnSent(c) ==
    /\ clip[c].pc \in {"uploading", "scripted"}
    /\ \E delegated \in BOOLEAN :
         /\ clip' = [clip EXCEPT ![c].pc = IF delegated THEN "delegated" ELSE "turn"]
         /\ holds' = (holds \ {<<c, "sending">>, <<c, "scripted">>})
                        \union (IF delegated THEN {} ELSE {<<c, "turn">>})
    /\ UNCHANGED mic

\* Refused, unreachable or late: a line nobody spoke, which costs nothing.
EarsRefuse(c) ==
    /\ clip[c].pc = "uploading"
    /\ clip' = [clip EXCEPT ![c].pc = "scripted"]
    /\ UNCHANGED <<mic, holds>>

\* Nothing was heard, or there is no scripted line; or the live turn's promise
\* settled, which is when she answers.
ClipOver(c) ==
    /\ clip[c].pc \in {"uploading", "scripted", "turn"}
    /\ clip' = [clip EXCEPT ![c].pc = "over"]
    /\ holds' = {h \in holds : h[1] # c}
    /\ UNCHANGED mic

\* BUSY_MAX_MS: work that does not settle no longer holds the button.
Valve(c) ==
    /\ \E h \in holds : h[1] = c
       /\ holds' = holds \ {h}
    /\ clip' = [clip EXCEPT ![c].overdue = TRUE]
    /\ UNCHANGED mic

ClipStep(c) ==
    \/ Opened(c) \/ OpenFails(c) \/ StopEvent(c)
    \/ Upload(c) \/ TurnSent(c) \/ EarsRefuse(c) \/ ClipOver(c) \/ Valve(c)

PageStep ==
    \/ Tap \/ SilenceFires \/ CapFires \/ GuardEnds
    \/ \E loud \in BOOLEAN : Level(loud)
    \/ \E c \in Clips : ClipStep(c)

Next ==
    \/ PageStep /\ UNCHANGED bot
    \/ \E c \in Calls : AskForToken(c)
    \/ BotNext /\ UNCHANGED page

\* The page's timers fire and its continuations run.  Nothing says that the
\* browser, Cloudflare, the ears or the turn ever answer.
Fairness ==
    /\ BotFairness
    /\ WF_vars(CapFires /\ UNCHANGED bot) /\ WF_vars(GuardEnds /\ UNCHANGED bot)
    /\ \A c \in Clips :
        /\ WF_vars(AskForToken(c))
        /\ WF_vars(Upload(c) /\ UNCHANGED bot) /\ WF_vars(Valve(c) /\ UNCHANGED bot)

Spec == Init /\ [][Next]_vars /\ Fairness

-----------------------------------------------------------------------------
(* Properties                                                               *)

\* The page says that it records, and its recorder has stopped by itself.
Stranded == mic.recording /\ clip[mic.rec].pc # "recording"

MicTypeOK ==
    /\ mic.opening \in {0, 1}
    /\ mic.rec \in Clips \union {Nobody} /\ mic.stream \in Clips \union {Nobody}
    /\ mic.silence \in {"none", "empty", "end"}
    /\ mic.recording => clip[mic.rec].pc \notin {"idle", "opening", "stopping", "orphan"}
    /\ \A h \in holds : h[1] \in Clips /\ h[2] \in {"sending", "scripted", "turn"}

\* The microphone is live only while the page records: however a recording
\* ends (a tap, the silence stop, the hard stop, its recorder by itself), its stream
\* is released, and no second one is opened beside it.  Two exceptions: a
\* MediaRecorder's stop event that came after the next tap; and a stream that was
\* granted before the capture failed to be made, which stays live for good.
MicReleased ==
    MicTypeOK /\ \A c \in Clips : clip[c].live =>
        \/ mic.recording /\ mic.rec = c /\ ~Stranded
        \/ clip[c].pc \in {"stopping", "orphan"} \/ mic.raced

\* NOTHING SAID, NOTHING SENT: a clip that was measured is uploaded only when
\* speech was heard in that very clip.
NothingSaidNothingSent ==
    \A c \in Clips : clip[c].pc = "uploading" => ~clip[c].mute

\* ONE TURN AT A TIME: the microphone is opened for a clip only when every
\* earlier clip and its live turn are over, or held the button past BUSY_MAX_MS.
\* A delegated turn's answer is counted by nobody.
InFlight(c) == clip[c].pc \in {"sending", "scripted", "uploading", "turn"}
OneTurnAtATime ==
    \A c, d \in Clips :
      (clip[c].pc \in {"opening", "recording"} /\ InFlight(d)) => clip[d].overdue \/ mic.raced

\* A recording ends by itself (on the page as well, unless its recorder went
\* first), every call for a token is answered, and the button comes back, though
\* the browser, Cloudflare's script, the challenge, the ears and the turn may
\* never answer: a hung promise would hang Send.
RecordingEnds ==
    /\ mic.recording ~> (~mic.recording \/ Stranded \/ mic.raced)
    /\ \A c \in Calls : (call[c].pc # "idle") ~> (call[c].pc = "done")
    /\ []<>(Busy = 0)
=============================================================================
