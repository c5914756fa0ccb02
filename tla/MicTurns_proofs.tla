-------------------------- MODULE MicTurns_proofs --------------------------
(***************************************************************************)
(* Proofs about MicTurns: however a recording ends its stream is released, *)
(* a clip in which nothing was said is not uploaded, and no microphone is  *)
(* opened while an earlier turn is under way.  The bot control is opaque   *)
(* to the three.  Its own promise, at the end: a token pays for one send.  *)
(***************************************************************************)
EXTENDS MicTurns, FiniteSetTheorems, SequenceTheorems, TLAPS

Stages == {"sending", "scripted", "turn"}
ClipStates == {"idle", "opening", "recording", "stopping", "orphan", "dropped", "sending",
               "scripted", "uploading", "turn", "delegated", "over"}
\* A clip the page cannot take for the one it records.
Elsewhere == {"idle", "opening", "stopping", "orphan"}

MicRec ==
  [recording : BOOLEAN, opening : {0, 1}, rec : Clips \union {Nobody},
   stream : Clips \union {Nobody}, cap : BOOLEAN, silence : {"none", "empty", "end"},
   speech : BOOLEAN, measured : BOOLEAN, auto : BOOLEAN, guard : BOOLEAN,
   said : BOOLEAN, raced : BOOLEAN]
ClipRec ==
  [pc : ClipStates, kind : {"hosted", "media"}, live : BOOLEAN, mute : BOOLEAN,
   overdue : BOOLEAN]
PageRec == [mic : MicRec, clip : [Clips -> ClipRec], holds : SUBSET (Clips \X Stages)]

(* One clip at a time has the microphone, or is asking for it. *)
OneRecorder(s) ==
  /\ s.mic.recording => /\ s.mic.opening = 0 /\ s.mic.rec \in Clips
                        /\ s.clip[s.mic.rec].pc \notin Elsewhere
  /\ \A c \in Clips :
       /\ s.clip[c].pc = "recording" => s.mic.recording /\ s.mic.rec = c
       /\ s.clip[c].pc = "opening" => s.mic.opening = 1
  /\ \A c, d \in Clips : s.clip[c].pc = "opening" /\ s.clip[d].pc = "opening" => c = d

(* The latest recording's stream is the one that is kept. *)
Released(s) ==
  \A c \in Clips : s.clip[c].live =>
    /\ \/ s.mic.recording /\ s.mic.rec = c /\ s.clip[c].pc = "recording"
       \/ s.clip[c].pc \in {"stopping", "orphan"} \/ s.mic.raced
    /\ s.mic.rec = c /\ s.clip[c].pc # "orphan" => s.mic.stream = c \/ s.mic.raced

Spoken(s) ==
  /\ s.mic.speech = s.mic.said
  /\ \A c \in Clips : s.clip[c].pc \in {"sending", "uploading"} => ~s.clip[c].mute

(* Work in flight is counted until it has been held too long. *)
Underway(s, c) == s.clip[c].pc \in {"sending", "scripted", "uploading", "turn"}
Counted(s) ==
  /\ IsFiniteSet(s.holds)
  /\ \A c \in Clips : Underway(s, c) => s.clip[c].overdue \/ \E h \in s.holds : h[1] = c
OneAtATime(s) ==
  \A c, d \in Clips : s.clip[c].pc \in {"opening", "recording"} /\ Underway(s, d)
                        => s.clip[d].overdue \/ s.mic.raced

Fine(s) == s \in PageRec /\ OneRecorder(s) /\ Released(s) /\ Spoken(s) /\ Counted(s) /\ OneAtATime(s)
MicInv == Fine(Page)

-----------------------------------------------------------------------------
(* What the parts of mic.js do, field by field. *)

LetGo(s, r) ==
  /\ r \in PageRec /\ r.holds = s.holds
  /\ r.mic = [s.mic EXCEPT !.stream = Nobody]
  /\ \A c \in Clips :
       /\ r.clip[c].pc = s.clip[c].pc /\ r.clip[c].kind = s.clip[c].kind
       /\ r.clip[c].mute = s.clip[c].mute /\ r.clip[c].overdue = s.clip[c].overdue
       /\ r.clip[c].live = (s.clip[c].live /\ c # s.mic.stream)

LEMMA ReleaseFields ==
  ASSUME NEW s \in PageRec PROVE LetGo(s, ReleaseStream(s))
<1>r. PICK r : r = ReleaseStream(s)
  OBVIOUS
<1> DEFINE cl == [c \in Clips |-> [s.clip[c] EXCEPT !.live = s.clip[c].live /\ c # s.mic.stream]]
           m == [s.mic EXCEPT !.stream = Nobody]
<1>1. r = [s EXCEPT !.clip = cl, !.mic = m]
  BY <1>r DEF ReleaseStream
<1>2. m \in MicRec
  BY DEF PageRec, MicRec
<1>3. /\ cl \in [Clips -> ClipRec]
      /\ \A c \in Clips :
              /\ cl[c].pc = s.clip[c].pc /\ cl[c].kind = s.clip[c].kind
              /\ cl[c].mute = s.clip[c].mute /\ cl[c].overdue = s.clip[c].overdue
              /\ cl[c].live = (s.clip[c].live /\ c # s.mic.stream)
  <2>1. ASSUME NEW c \in Clips
        PROVE  LET k == [s.clip[c] EXCEPT !.live = s.clip[c].live /\ c # s.mic.stream] IN
               /\ k \in ClipRec /\ k.pc = s.clip[c].pc /\ k.kind = s.clip[c].kind
               /\ k.mute = s.clip[c].mute /\ k.overdue = s.clip[c].overdue
               /\ k.live = (s.clip[c].live /\ c # s.mic.stream)
    <3>1. s.clip[c] \in ClipRec
      BY DEF PageRec
    <3> QED
      BY <3>1 DEF ClipRec
  <2> QED
    BY <2>1
<1> HIDE DEF cl, m
<1>4. r \in PageRec /\ r.holds = s.holds /\ r.mic = m /\ r.clip = cl
  BY <1>1, <1>2, <1>3 DEF PageRec
<1> QED
  BY <1>r, <1>3, <1>4 DEF LetGo, m

Held(s, r, c, stage) ==
  /\ r \in PageRec /\ r.holds = s.holds \union {<<c, stage>>} /\ r.mic = s.mic
  /\ \A d \in Clips \ {c} : r.clip[d] = s.clip[d]
  /\ r.clip[c].pc = stage /\ r.clip[c].mute = (s.mic.measured /\ ~s.mic.said)
  /\ r.clip[c].live = s.clip[c].live /\ r.clip[c].overdue = s.clip[c].overdue

LEMMA HoldFields ==
  ASSUME NEW s \in PageRec, NEW c \in Clips, NEW stage \in {"sending", "scripted"}
  PROVE  Held(s, Hold(s, c, stage), c, stage)
<1>r. PICK r : r = Hold(s, c, stage)
  OBVIOUS
<1> DEFINE k == [s.clip[c] EXCEPT !.pc = stage, !.mute = s.mic.measured /\ ~s.mic.said]
           cl == [s.clip EXCEPT ![c] = k]
           h == s.holds \union {<<c, stage>>}
<1>1. r = [s EXCEPT !.holds = h, !.clip = cl]
  BY <1>r DEF Hold
<1>2. /\ k \in ClipRec /\ k.pc = stage /\ k.mute = (s.mic.measured /\ ~s.mic.said)
      /\ k.live = s.clip[c].live /\ k.overdue = s.clip[c].overdue
  BY DEF PageRec, ClipRec, ClipStates
<1> HIDE DEF k
<1>3. cl \in [Clips -> ClipRec] /\ cl[c] = k /\ \A d \in Clips \ {c} : cl[d] = s.clip[d]
  BY <1>2 DEF PageRec
<1>4. h \in SUBSET (Clips \X Stages)
  BY DEF PageRec, Stages
<1> HIDE DEF cl, h
<1>5. r \in PageRec /\ r.holds = h /\ r.clip = cl /\ r.mic = s.mic
  BY <1>1, <1>3, <1>4 DEF PageRec
<1> QED
  BY <1>r, <1>2, <1>3, <1>5 DEF Held, h

(* What onstop makes of s: the stream is released and clip c goes on, or not. *)
Stopped(s, r, c) ==
  /\ r \in PageRec
  /\ /\ r.mic.recording = s.mic.recording /\ r.mic.opening = s.mic.opening
     /\ r.mic.rec = s.mic.rec /\ r.mic.stream = Nobody /\ r.mic.raced = s.mic.raced
     /\ r.mic.speech = s.mic.speech /\ r.mic.said = s.mic.said
  /\ \A d \in Clips : /\ r.clip[d].live = (s.clip[d].live /\ d # s.mic.stream)
                      /\ r.clip[d].overdue = s.clip[d].overdue
  /\ \A d \in Clips \ {c} : r.clip[d].pc = s.clip[d].pc /\ r.clip[d].mute = s.clip[d].mute
  /\ r.clip[c].pc \in {"dropped", "sending", "scripted"}
  /\ r.holds = IF r.clip[c].pc = "dropped" THEN s.holds ELSE s.holds \union {<<c, r.clip[c].pc>>}
  /\ r.clip[c].pc = "sending" =>
        /\ r.clip[c].mute = (s.mic.measured /\ ~s.mic.said)
        /\ ~(s.mic.measured /\ ~s.mic.speech)

LEMMA OnStopFields ==
  ASSUME NEW s \in PageRec, NEW c \in Clips, NEW size \in Sizes
  PROVE  Stopped(s, OnStop(s, c, size), c)
<1>r. PICK r : r = OnStop(s, c, size)
  OBVIOUS
<1>o. PICK over : over = CaptureOver(s)
  OBVIOUS
<1>k. PICK kept : kept = Guarded(s)
  OBVIOUS
<1>5. r = IF (s.mic.measured /\ ~s.mic.speech) \/ size = "small"
          THEN [over EXCEPT !.clip[c].pc = "dropped"]
          ELSE Hold(kept, c, IF size = "big" THEN "scripted" ELSE "sending")
  BY <1>r, <1>o, <1>k, Zenon DEF OnStop
<1> DEFINE e == [s EXCEPT !.mic.cap = FALSE, !.mic.auto = FALSE]
<1>0. over = ReleaseStream(e)
  BY <1>o DEF CaptureOver
<1>1. /\ e \in PageRec /\ e.clip = s.clip /\ e.holds = s.holds
      /\ e.mic = [s.mic EXCEPT !.cap = FALSE, !.auto = FALSE]
  BY DEF PageRec, MicRec
<1> HIDE DEF e
<1>2. /\ over \in PageRec /\ over.holds = s.holds
      /\ over.mic = [s.mic EXCEPT !.cap = FALSE, !.auto = FALSE, !.stream = Nobody]
      /\ \A d \in Clips :
           /\ over.clip[d].pc = s.clip[d].pc /\ over.clip[d].mute = s.clip[d].mute
           /\ over.clip[d].overdue = s.clip[d].overdue
           /\ over.clip[d].live = (s.clip[d].live /\ d # s.mic.stream)
  <2>1. e.mic.stream = s.mic.stream
    BY <1>1 DEF PageRec, MicRec
  <2>2. /\ over \in PageRec /\ over.holds = e.holds
        /\ over.mic = [e.mic EXCEPT !.stream = Nobody]
        /\ \A d \in Clips :
             /\ over.clip[d].pc = e.clip[d].pc /\ over.clip[d].kind = e.clip[d].kind
             /\ over.clip[d].mute = e.clip[d].mute /\ over.clip[d].overdue = e.clip[d].overdue
             /\ over.clip[d].live = (e.clip[d].live /\ d # e.mic.stream)
    BY <1>0, <1>1, ReleaseFields DEF LetGo
  <2>3. over.mic = [s.mic EXCEPT !.cap = FALSE, !.auto = FALSE, !.stream = Nobody]
    BY <1>1, <2>2
  <2> QED
    BY <1>1, <2>1, <2>2, <2>3
<1> DEFINE g == [over EXCEPT !.mic.guard = TRUE]
<1>3. kept = IF s.mic.auto THEN g ELSE over
  BY <1>o, <1>k DEF Guarded
<1>4. \A q \in {over, kept} :
         /\ q \in PageRec /\ q.holds = over.holds /\ q.clip = over.clip
         /\ q.mic.recording = s.mic.recording /\ q.mic.opening = s.mic.opening
         /\ q.mic.rec = s.mic.rec /\ q.mic.stream = Nobody /\ q.mic.raced = s.mic.raced
         /\ q.mic.speech = s.mic.speech /\ q.mic.said = s.mic.said
         /\ q.mic.measured = s.mic.measured
  <2>1. s.mic \in MicRec
    BY DEF PageRec
  <2>2. /\ over.mic.recording = s.mic.recording /\ over.mic.opening = s.mic.opening
        /\ over.mic.rec = s.mic.rec /\ over.mic.stream = Nobody /\ over.mic.raced = s.mic.raced
        /\ over.mic.speech = s.mic.speech /\ over.mic.said = s.mic.said
        /\ over.mic.measured = s.mic.measured
    BY <1>2, <2>1 DEF MicRec
  <2>3. /\ g \in PageRec /\ g.holds = over.holds /\ g.clip = over.clip
        /\ g.mic = [over.mic EXCEPT !.guard = TRUE]
    BY <1>2 DEF PageRec, MicRec
  <2> HIDE DEF g
  <2>4. over.mic \in MicRec
    BY <1>2 DEF PageRec
  <2>5. /\ g.mic.recording = over.mic.recording /\ g.mic.opening = over.mic.opening
        /\ g.mic.rec = over.mic.rec /\ g.mic.stream = over.mic.stream
        /\ g.mic.raced = over.mic.raced /\ g.mic.measured = over.mic.measured
        /\ g.mic.speech = over.mic.speech /\ g.mic.said = over.mic.said
    BY <2>3, <2>4 DEF MicRec
  <2> QED
    BY <1>2, <1>3, <2>2, <2>3, <2>5
<1> HIDE DEF g
<1> SUFFICES Stopped(s, r, c)
  BY <1>r
<1>6. CASE (s.mic.measured /\ ~s.mic.speech) \/ size = "small"
  <2> DEFINE k == [over.clip[c] EXCEPT !.pc = "dropped"]
             cl == [over.clip EXCEPT ![c] = k]
  <2>1. r = [over EXCEPT !.clip = cl]
    BY <1>5, <1>6
  <2>2. /\ k \in ClipRec /\ k.pc = "dropped" /\ k.live = over.clip[c].live
        /\ k.overdue = over.clip[c].overdue
    <3>1. over.clip[c] \in ClipRec
      BY <1>2 DEF PageRec
    <3> QED
      BY <3>1 DEF ClipRec, ClipStates
  <2> HIDE DEF k
  <2>3. cl \in [Clips -> ClipRec] /\ cl[c] = k /\ \A d \in Clips \ {c} : cl[d] = over.clip[d]
    BY <1>2, <2>2 DEF PageRec
  <2> HIDE DEF cl
  <2>4. r \in PageRec /\ r.mic = over.mic /\ r.holds = over.holds /\ r.clip = cl
    BY <1>2, <2>1, <2>3 DEF PageRec
  <2> QED
    BY <1>2, <1>4, <2>2, <2>3, <2>4 DEF Stopped
<1>7. CASE ~((s.mic.measured /\ ~s.mic.speech) \/ size = "small")
  <2>1. PICK stage \in {"sending", "scripted"} : r = Hold(kept, c, stage)
    BY <1>5, <1>7
  <2>2. kept \in PageRec
    BY <1>4
  <2>3. /\ r \in PageRec /\ r.holds = kept.holds \union {<<c, stage>>} /\ r.mic = kept.mic
        /\ \A d \in Clips \ {c} : r.clip[d] = kept.clip[d]
        /\ r.clip[c].pc = stage /\ r.clip[c].mute = (kept.mic.measured /\ ~kept.mic.said)
        /\ r.clip[c].live = kept.clip[c].live /\ r.clip[c].overdue = kept.clip[c].overdue
    <3>1. Held(kept, Hold(kept, c, stage), c, stage)
      BY <2>2, HoldFields
    <3>2. Held(kept, r, c, stage)
      BY <2>1, <3>1
    <3> QED
      BY <3>2 DEF Held
  <2> QED
    BY <1>2, <1>4, <1>7, <2>3 DEF Stopped
<1> QED
  BY <1>6, <1>7

-----------------------------------------------------------------------------
(* The invariant of the page, step by step. *)

(* The page whose recording c is over: what onstop needs of it. *)
Ready(s, c) ==
  /\ s \in PageRec /\ Spoken(s) /\ Counted(s) /\ OneAtATime(s)
  /\ s.mic.recording => /\ s.mic.opening = 0 /\ s.mic.rec \in Clips
                        /\ s.mic.rec # c => s.clip[s.mic.rec].pc \notin Elsewhere
  /\ \A d \in Clips \ {c} :
       /\ s.clip[d].pc = "recording" => s.mic.recording /\ s.mic.rec = d
       /\ s.clip[d].pc = "opening" => s.mic.opening = 1
       /\ s.clip[d].live => s.clip[d].pc \in {"stopping", "orphan"} \/ s.mic.raced
       /\ s.clip[d].pc \in {"opening", "recording"} => s.mic.raced
  /\ \A d, x \in Clips \ {c} : s.clip[d].pc = "opening" /\ s.clip[x].pc = "opening" => d = x
  /\ s.clip[c].live => s.mic.stream = c \/ s.mic.raced
  /\ s.mic.rec = c \/ s.mic.raced

LEMMA StoppedIsFine ==
  ASSUME NEW s, NEW r, NEW c \in Clips, Ready(s, c), Stopped(s, r, c)
  PROVE  Fine(r)
<1>1. OneRecorder(r)
  BY DEF Ready, Stopped, OneRecorder, Elsewhere
<1>2. Released(r)
  <2>1. ASSUME NEW d \in Clips, r.clip[d].live, d = c PROVE r.mic.raced
    BY <2>1 DEF Ready, Stopped
  <2>2. ASSUME NEW d \in Clips, r.clip[d].live, d # c
        PROVE  r.clip[d].pc \in {"stopping", "orphan"} \/ r.mic.raced
    <3>1. s.clip[d].live /\ r.clip[d].pc = s.clip[d].pc
      BY <2>2 DEF Stopped
    <3> QED
      BY <2>2, <3>1 DEF Ready, Stopped
  <2>3. r.mic.rec = c \/ r.mic.raced
    BY DEF Ready, Stopped
  <2> QED
    BY <2>1, <2>2, <2>3 DEF Released
<1>3. Spoken(r)
  BY DEF Ready, Stopped, Spoken
<1>4. Counted(r)
  <2>1. IsFiniteSet(r.holds)
    <3>1. IsFiniteSet(s.holds) /\ IsFiniteSet(s.holds \union {<<c, r.clip[c].pc>>})
      BY FS_AddElement DEF Ready, Counted
    <3>2. r.holds \in {s.holds, s.holds \union {<<c, r.clip[c].pc>>}}
      BY DEF Stopped
    <3> QED
      BY <3>1, <3>2
  <2>2. s.holds \subseteq r.holds
    BY DEF Stopped
  <2>3. ASSUME NEW d \in Clips, Underway(r, d)
        PROVE  r.clip[d].overdue \/ \E h \in r.holds : h[1] = d
    <3>1. CASE d = c
      <4>1. r.clip[c].pc # "dropped"
        BY <2>3, <3>1 DEF Underway
      <4>2. <<c, r.clip[c].pc>> \in r.holds
        BY <4>1 DEF Stopped
      <4> QED
        BY <3>1, <4>2
    <3>2. CASE d # c
      <4>1. Underway(s, d)
        BY <2>3, <3>2 DEF Underway, Stopped
      <4> QED
        BY <2>2, <4>1 DEF Ready, Counted, Stopped
    <3> QED
      BY <3>1, <3>2
  <2> QED
    BY <2>1, <2>3 DEF Counted
<1>5. OneAtATime(r)
  BY DEF Ready, Stopped, OneAtATime, Underway
<1> QED
  BY <1>1, <1>2, <1>3, <1>4, <1>5 DEF Fine, Stopped

(* The timers and the marks of the page do not matter to Fine. *)
Alike(s, r) ==
  /\ r \in PageRec /\ r.clip = s.clip /\ r.holds = s.holds
  /\ r.mic.recording = s.mic.recording /\ r.mic.opening = s.mic.opening
  /\ r.mic.rec = s.mic.rec /\ r.mic.stream = s.mic.stream /\ r.mic.raced = s.mic.raced
  /\ r.mic.speech = s.mic.speech /\ r.mic.said = s.mic.said

LEMMA AlikeIsFine ==
  ASSUME NEW s, NEW r, Fine(s), Alike(s, r) PROVE Fine(r)
<1>1. OneRecorder(r)
  BY DEF Fine, Alike, OneRecorder
<1>2. Released(r)
  BY DEF Fine, Alike, Released
<1>3. Spoken(r)
  BY DEF Fine, Alike, Spoken
<1>4. Counted(r)
  BY DEF Fine, Alike, Counted, Underway
<1>5. OneAtATime(r)
  BY DEF Fine, Alike, OneAtATime, Underway
<1> QED
  BY <1>1, <1>2, <1>3, <1>4, <1>5 DEF Fine, Alike

LEMMA BecomesFine ==
  ASSUME NEW s, Fine(s), Becomes(s) PROVE MicInv'
<1>1. s \in PageRec
  BY DEF Fine
<1>2. s = [mic |-> mic', clip |-> clip', holds |-> holds']
  BY <1>1 DEF Becomes, PageRec
<1> QED
  BY <1>2 DEF MicInv, Page

LEMMA StopIsFine ==
  ASSUME NEW s, Fine(s), s.mic.recording, NEW size \in Sizes
  PROVE  Fine(Stop(s, size))
<1> DEFINE c == s.mic.rec
           over == [s EXCEPT !.mic.recording = FALSE, !.mic.silence = "none", !.mic.cap = FALSE]
<1>0. /\ s \in PageRec /\ c \in Clips /\ s.mic.opening = 0
      /\ \A d \in Clips : s.clip[d].pc = "recording" => d = c
      /\ \A d \in Clips : s.clip[d].pc # "opening"
  BY DEF Fine, OneRecorder
<1>1. /\ over \in PageRec /\ over.clip = s.clip /\ over.holds = s.holds
      /\ over.mic = [s.mic EXCEPT !.recording = FALSE, !.silence = "none", !.cap = FALSE]
  BY <1>0 DEF PageRec, MicRec
<1>3. Stop(s, size) = IF s.clip[c].pc # "recording" THEN over
                      ELSE IF s.clip[c].kind = "media"
                      THEN [over EXCEPT !.clip[c].pc = "stopping"]
                      ELSE OnStop(over, c, size)
  BY DEF Stop
<1> HIDE DEF over
<1>2. /\ ~over.mic.recording /\ over.mic.opening = 0 /\ over.mic.rec = c
      /\ over.mic.stream = s.mic.stream /\ over.mic.raced = s.mic.raced
      /\ over.mic.speech = s.mic.speech /\ over.mic.said = s.mic.said
  BY <1>0, <1>1 DEF PageRec, MicRec
<1>4. Spoken(over) /\ Counted(over) /\ OneAtATime(over)
  BY <1>1, <1>2 DEF Fine, Spoken, Counted, OneAtATime, Underway
<1>7. CASE s.clip[c].pc # "recording"
  <2>1. OneRecorder(over)
    BY <1>0, <1>1, <1>2, <1>7 DEF OneRecorder
  <2>2. Released(over)
    BY <1>0, <1>1, <1>2, <1>7 DEF Fine, Released
  <2> QED
    BY <1>1, <1>3, <1>4, <1>7, <2>1, <2>2 DEF Fine
<1>5. CASE s.clip[c].pc = "recording" /\ s.clip[c].kind # "media"
  <2>1. Ready(over, c)
    BY <1>0, <1>1, <1>2, <1>4, <1>5 DEF Fine, Released, Ready
  <2>2. Stopped(over, Stop(s, size), c)
    BY <1>0, <1>1, <1>3, <1>5, OnStopFields
  <2> QED
    BY <1>0, <2>1, <2>2, StoppedIsFine
<1>6. CASE s.clip[c].pc = "recording" /\ s.clip[c].kind = "media"
  <2>1. PICK r : r = Stop(s, size)
    OBVIOUS
  <2> DEFINE k == [over.clip[c] EXCEPT !.pc = "stopping"]
             cl == [over.clip EXCEPT ![c] = k]
  <2>2. r = [over EXCEPT !.clip = cl]
    BY <1>3, <1>6, <2>1
  <2>3. /\ k \in ClipRec /\ k.pc = "stopping" /\ k.live = s.clip[c].live
        /\ k.overdue = s.clip[c].overdue
    <3>1. s.clip[c] \in ClipRec
      BY <1>0 DEF PageRec
    <3> QED
      BY <1>1, <3>1 DEF ClipRec, ClipStates
  <2> HIDE DEF k
  <2>4. cl \in [Clips -> ClipRec] /\ cl[c] = k /\ \A d \in Clips \ {c} : cl[d] = s.clip[d]
    BY <1>0, <1>1, <2>3 DEF PageRec
  <2> HIDE DEF cl
  <2>5. r \in PageRec /\ r.mic = over.mic /\ r.holds = s.holds /\ r.clip = cl
    BY <1>1, <2>2, <2>4 DEF PageRec
  <2>6. OneRecorder(r)
    BY <1>0, <1>2, <2>3, <2>4, <2>5 DEF OneRecorder
  <2>7. Released(r)
    BY <1>0, <1>2, <1>6, <2>3, <2>4, <2>5 DEF Fine, Released
  <2>8. Spoken(r)
    BY <1>2, <1>4, <2>3, <2>4, <2>5 DEF Fine, Spoken
  <2>9. Counted(r)
    BY <1>1, <1>4, <2>3, <2>4, <2>5 DEF Counted, Underway
  <2>10. OneAtATime(r)
    BY <1>1, <1>4, <2>3, <2>4, <2>5 DEF OneAtATime, Underway
  <2> QED
    BY <2>1, <2>5, <2>6, <2>7, <2>8, <2>9, <2>10 DEF Fine
<1> QED
  BY <1>5, <1>6, <1>7

LEMMA InitFine == Init => MicInv
<1> SUFFICES ASSUME Init PROVE Fine(Page)
  BY DEF MicInv
<1>1. /\ Page.mic = mic /\ Page.clip = clip /\ Page.holds = holds /\ holds = {}
      /\ \A c \in Clips : clip[c].pc = "idle" /\ ~clip[c].live
      /\ ~mic.recording /\ ~mic.speech /\ ~mic.said
  BY DEF Page, Init
<1>2. Page \in PageRec
  BY DEF Page, Init, PageRec, MicRec, ClipRec, ClipStates
<1>3. OneRecorder(Page) /\ Released(Page) /\ OneAtATime(Page)
  BY <1>1 DEF OneRecorder, Released, OneAtATime
<1>4. Spoken(Page)
  BY <1>1 DEF Spoken, Init
<1>5. Counted(Page)
  BY <1>1, FS_EmptySet DEF Counted, Underway
<1> QED
  BY <1>2, <1>3, <1>4, <1>5 DEF Fine

LEMMA PageFields ==
  /\ Page.mic = mic /\ Page.clip = clip /\ Page.holds = holds
  /\ Page.mic' = mic' /\ Page.clip' = clip' /\ Page.holds' = holds'
  /\ Page' = [mic |-> mic', clip |-> clip', holds |-> holds']
BY DEF Page

(* Only the mode of one clip changes, along with the microphone. *)
LEMMA OpenFine ==
  ASSUME MicInv, NEW c \in Clips, Open(c), Busy = 0 PROVE MicInv'
<1>1. PICK k \in Kinds : clip' = [clip EXCEPT ![c].pc = "opening", ![c].kind = k]
  BY DEF Open
<1>2. /\ clip \in [Clips -> ClipRec] /\ mic \in MicRec /\ holds \in SUBSET (Clips \X Stages)
      /\ clip[c].pc = "idle" /\ ~mic.recording /\ mic.opening = 0
      /\ mic' = [mic EXCEPT !.opening = 1] /\ holds' = holds
  BY PageFields DEF MicInv, Fine, PageRec, Open
<1>3. /\ mic' \in MicRec /\ ~mic'.recording /\ mic'.opening = 1 /\ mic'.rec = mic.rec
      /\ mic'.stream = mic.stream /\ mic'.raced = mic.raced
      /\ mic'.speech = mic.speech /\ mic'.said = mic.said
  BY <1>2 DEF MicRec
<1>4. /\ clip' \in [Clips -> ClipRec] /\ clip'[c].pc = "opening"
      /\ clip'[c].live = clip[c].live /\ clip'[c].overdue = clip[c].overdue
      /\ \A d \in Clips \ {c} : clip'[d] = clip[d]
  <2> DEFINE e == [clip[c] EXCEPT !.pc = "opening", !.kind = k]
  <2>1. clip' = [clip EXCEPT ![c] = e]
    BY <1>1
  <2>2. /\ e \in ClipRec /\ e.pc = "opening" /\ e.live = clip[c].live
        /\ e.overdue = clip[c].overdue
    <3>1. clip[c] \in ClipRec /\ k \in {"hosted", "media"}
      BY <1>2, MicAssumption
    <3> QED
      BY <3>1 DEF ClipRec, ClipStates
  <2> HIDE DEF e
  <2> QED
    BY <1>2, <2>1, <2>2
<1>5. holds = {}
  <2>1. IsFiniteSet(holds)
    BY PageFields DEF MicInv, Fine, Counted
  <2> QED
    BY <2>1, FS_EmptySet DEF Busy
<1>6. \A d \in Clips : Underway(Page, d) => clip[d].overdue
  BY <1>5, PageFields DEF MicInv, Fine, Counted
<1>7. OneRecorder(Page')
  BY <1>2, <1>3, <1>4, PageFields DEF MicInv, Fine, OneRecorder
<1>8. Released(Page')
  BY <1>2, <1>3, <1>4, PageFields DEF MicInv, Fine, Released
<1>9. Spoken(Page')
  BY <1>2, <1>3, <1>4, PageFields DEF MicInv, Fine, Spoken
<1>10. Counted(Page')
  BY <1>2, <1>4, PageFields DEF MicInv, Fine, Counted, Underway
<1>11. OneAtATime(Page')
  BY <1>4, <1>6, PageFields DEF OneAtATime, Underway
<1>12. Page' \in PageRec
  BY <1>2, <1>3, <1>4, PageFields DEF PageRec
<1> QED
  BY <1>7, <1>8, <1>9, <1>10, <1>11, <1>12 DEF MicInv, Fine

LEMMA TapFine == ASSUME MicInv, Tap PROVE MicInv'
<1>1. CASE mic.recording
  <2>1. PICK size \in Sizes : Becomes(Stop(Page, size))
    BY <1>1 DEF Tap
  <2>2. Fine(Stop(Page, size))
    BY <1>1, StopIsFine, PageFields DEF MicInv
  <2> QED
    BY <2>1, <2>2, BecomesFine
<1>2. CASE ~mic.recording
  <2>1. PICK c \in Clips : Open(c) /\ Busy = 0
    BY <1>2 DEF Tap
  <2> QED
    BY <2>1, OpenFine
<1> QED
  BY <1>1, <1>2

(* The silence stop and the hard stop. *)
LEMMA AutoStopFine ==
  ASSUME NEW s, Fine(s), AutoStop(s) PROVE MicInv'
<1>1. CASE ~s.mic.recording
  BY <1>1, BecomesFine DEF AutoStop
<1>2. CASE s.mic.recording
  <2> DEFINE e == [s EXCEPT !.mic.auto = TRUE]
  <2>1. PICK size \in Sizes : Becomes(Stop(e, size))
    BY <1>2 DEF AutoStop
  <2>2. Alike(s, e)
    BY DEF Fine, Alike, PageRec, MicRec
  <2>3. e.mic.recording
    BY <1>2, <2>2 DEF Alike
  <2> HIDE DEF e
  <2>4. Fine(Stop(e, size))
    BY <2>2, <2>3, AlikeIsFine, StopIsFine
  <2> QED
    BY <2>1, <2>4, BecomesFine
<1> QED
  BY <1>1, <1>2

LEMMA TimersFine == ASSUME MicInv, SilenceFires \/ CapFires PROVE MicInv'
<1>1. CASE SilenceFires
  <2> DEFINE e == [Page EXCEPT !.mic.silence = "none"]
  <2>1. Alike(Page, e)
    BY DEF MicInv, Fine, Alike, PageRec, MicRec
  <2>2. AutoStop(e)
    BY <1>1 DEF SilenceFires
  <2> HIDE DEF e
  <2> QED
    BY <2>1, <2>2, AlikeIsFine, AutoStopFine DEF MicInv
<1>2. CASE CapFires
  <2> DEFINE e == [Page EXCEPT !.mic.cap = FALSE]
  <2>1. Alike(Page, e)
    BY DEF MicInv, Fine, Alike, PageRec, MicRec
  <2>2. AutoStop(e)
    BY <1>2 DEF CapFires
  <2> HIDE DEF e
  <2> QED
    BY <2>1, <2>2, AlikeIsFine, AutoStopFine DEF MicInv
<1> QED
  BY <1>1, <1>2

LEMMA GuardFine == ASSUME MicInv, GuardEnds PROVE MicInv'
<1>1. mic' = [mic EXCEPT !.guard = FALSE] /\ UNCHANGED <<clip, holds>>
  BY DEF GuardEnds
<1>2. Alike(Page, Page')
  BY <1>1, PageFields DEF MicInv, Fine, Alike, PageRec, MicRec
<1> QED
  BY <1>2, AlikeIsFine DEF MicInv

LEMMA LevelFine == ASSUME MicInv, NEW loud \in BOOLEAN, Level(loud) PROVE MicInv'
<1>1. /\ mic' = [mic EXCEPT !.measured = TRUE, !.speech = mic.speech \/ loud,
                   !.said = mic.said \/ loud,
                   !.silence = IF loud THEN "none"
                               ELSE IF mic.silence # "none" THEN mic.silence
                               ELSE IF mic.speech THEN "end" ELSE "empty"]
      /\ UNCHANGED <<clip, holds>>
  BY DEF Level
<1>2. mic \in MicRec /\ clip \in [Clips -> ClipRec] /\ holds \in SUBSET (Clips \X Stages)
  BY PageFields DEF MicInv, Fine, PageRec
<1>3. /\ mic' \in MicRec /\ mic'.recording = mic.recording /\ mic'.opening = mic.opening
      /\ mic'.rec = mic.rec /\ mic'.stream = mic.stream /\ mic'.raced = mic.raced
      /\ mic'.speech = (mic.speech \/ loud) /\ mic'.said = (mic.said \/ loud)
  <2> DEFINE sl == IF loud THEN "none"
                   ELSE IF mic.silence # "none" THEN mic.silence
                   ELSE IF mic.speech THEN "end" ELSE "empty"
             sp == mic.speech \/ loud
             sd == mic.said \/ loud
  <2>1. sl \in {"none", "empty", "end"} /\ sp \in BOOLEAN /\ sd \in BOOLEAN
    BY <1>2 DEF MicRec
  <2>2. mic' = [mic EXCEPT !.measured = TRUE, !.speech = sp, !.said = sd, !.silence = sl]
    BY <1>1
  <2>3. (mic.speech \/ loud) = sp /\ (mic.said \/ loud) = sd
    OBVIOUS
  <2> SUFFICES /\ mic' \in MicRec /\ mic'.recording = mic.recording
               /\ mic'.opening = mic.opening /\ mic'.rec = mic.rec
               /\ mic'.stream = mic.stream /\ mic'.raced = mic.raced
               /\ mic'.speech = sp /\ mic'.said = sd
    BY <2>3
  <2> HIDE DEF sl, sp, sd
  <2> QED
    BY <1>2, <2>1, <2>2 DEF MicRec
<1>4. OneRecorder(Page')
  BY <1>1, <1>3, PageFields DEF MicInv, Fine, OneRecorder
<1>5. Released(Page')
  BY <1>1, <1>3, PageFields DEF MicInv, Fine, Released
<1>6. Spoken(Page')
  BY <1>1, <1>3, PageFields DEF MicInv, Fine, Spoken
<1>7. Counted(Page') /\ OneAtATime(Page')
  BY <1>1, <1>3, PageFields DEF MicInv, Fine, Counted, OneAtATime, Underway
<1>8. Page' \in PageRec
  BY <1>1, <1>2, <1>3, PageFields DEF PageRec
<1> QED
  BY <1>4, <1>5, <1>6, <1>7, <1>8 DEF MicInv, Fine

LEMMA OpenedFine == ASSUME MicInv, NEW c \in Clips, Opened(c) PROVE MicInv'
<1>1. /\ clip \in [Clips -> ClipRec] /\ mic \in MicRec /\ holds \in SUBSET (Clips \X Stages)
      /\ clip[c].pc = "opening" /\ UNCHANGED holds
      /\ clip' = [clip EXCEPT ![c].pc = "recording", ![c].live = TRUE]
      /\ mic' = [mic EXCEPT !.opening = 0, !.rec = c, !.stream = c, !.recording = TRUE, !.said = FALSE,
                          !.speech = FALSE, !.measured = FALSE, !.auto = FALSE,
                          !.silence = "none", !.cap = TRUE]
  BY PageFields DEF MicInv, Fine, PageRec, Opened
<1>2. /\ mic' \in MicRec /\ mic'.recording /\ mic'.opening = 0 /\ mic'.rec = c
      /\ mic'.stream = c /\ mic'.raced = mic.raced /\ mic'.speech = FALSE /\ mic'.said = FALSE
  <2>1. mic \in MicRec
    BY <1>1
  <2>2. mic' = [mic EXCEPT !.opening = 0, !.rec = c, !.stream = c, !.recording = TRUE,
                           !.said = FALSE, !.speech = FALSE, !.measured = FALSE,
                           !.auto = FALSE, !.silence = "none", !.cap = TRUE]
    BY <1>1
  <2>3. mic' \in MicRec
    <3> DEFINE n == [mic EXCEPT !.opening = 0, !.rec = c, !.stream = c, !.recording = TRUE,
                                !.said = FALSE]
    <3>1. n \in MicRec
      BY <2>1 DEF MicRec
    <3>2. mic' = [n EXCEPT !.speech = FALSE, !.measured = FALSE, !.auto = FALSE,
                           !.silence = "none", !.cap = TRUE]
      BY <2>2
    <3> HIDE DEF n
    <3> QED
      BY <3>1, <3>2 DEF MicRec
  <2>4. /\ mic'.recording = TRUE /\ mic'.opening = 0 /\ mic'.rec = c /\ mic'.stream = c
        /\ mic'.speech = FALSE /\ mic'.said = FALSE
    BY <2>1, <2>2 DEF MicRec
  <2>5. mic'.raced = mic.raced
    BY <2>1, <2>2 DEF MicRec
  <2> QED
    BY <2>3, <2>4, <2>5
<1>3. /\ clip' \in [Clips -> ClipRec] /\ clip'[c].pc = "recording"
      /\ clip'[c].overdue = clip[c].overdue
      /\ \A d \in Clips \ {c} : clip'[d] = clip[d]
  <2> DEFINE e == [clip[c] EXCEPT !.pc = "recording", !.live = TRUE]
  <2>1. clip' = [clip EXCEPT ![c] = e]
    BY <1>1
  <2>2. e \in ClipRec /\ e.pc = "recording" /\ e.overdue = clip[c].overdue
    <3>1. clip[c] \in ClipRec
      BY <1>1
    <3> QED
      BY <3>1 DEF ClipRec, ClipStates
  <2> HIDE DEF e
  <2> QED
    BY <1>1, <2>1, <2>2
<1>4. /\ mic.opening = 1 /\ ~mic.recording
      /\ \A d \in Clips \ {c} : clip[d].pc \notin {"opening", "recording"}
  BY <1>1, PageFields DEF MicInv, Fine, OneRecorder
<1>5. OneRecorder(Page')
  BY <1>2, <1>3, <1>4, PageFields DEF OneRecorder, Elsewhere
<1>6. Released(Page')
  <2>1. \A d \in Clips \ {c} : clip[d].live => clip[d].pc \in {"stopping", "orphan"} \/ mic.raced
    BY <1>4, PageFields DEF MicInv, Fine, Released
  <2> QED
    BY <1>2, <1>3, <2>1, PageFields DEF Released
<1>7. Spoken(Page')
  BY <1>2, <1>3, PageFields DEF MicInv, Fine, Spoken
<1>8. Counted(Page')
  BY <1>1, <1>3, PageFields DEF MicInv, Fine, Counted, Underway
<1>9. OneAtATime(Page')
  BY <1>1, <1>2, <1>3, <1>4, PageFields DEF MicInv, Fine, OneAtATime, Underway
<1>10. Page' \in PageRec
  BY <1>1, <1>2, <1>3, PageFields DEF PageRec
<1> QED
  BY <1>5, <1>6, <1>7, <1>8, <1>9, <1>10 DEF MicInv, Fine

LEMMA StopEventFine == ASSUME MicInv, NEW c \in Clips, StopEvent(c) PROVE MicInv'
<1> DEFINE late == mic.rec # c \/ mic.opening > 0
           e == [Page EXCEPT !.mic.raced = mic.raced \/ late]
<1>1. PICK size \in Sizes : Becomes(OnStop(e, c, size))
  BY PageFields DEF StopEvent
<1>2. /\ e \in PageRec /\ e.clip = clip /\ e.holds = holds
      /\ e.mic = [mic EXCEPT !.raced = mic.raced \/ late]
  BY PageFields DEF MicInv, Fine, PageRec, MicRec
<1>3. mic \in MicRec /\ clip[c].pc \in {"stopping", "recording"}
  BY PageFields DEF MicInv, Fine, PageRec, StopEvent
<1> HIDE DEF e
<1>4. /\ e.mic.recording = mic.recording /\ e.mic.opening = mic.opening /\ e.mic.rec = mic.rec
      /\ e.mic.stream = mic.stream /\ e.mic.raced = (mic.raced \/ late)
      /\ e.mic.speech = mic.speech /\ e.mic.said = mic.said
  BY <1>2, <1>3 DEF MicRec
<1>5. Spoken(e) /\ Counted(e) /\ OneAtATime(e)
  <2>1. Spoken(e)
    BY <1>2, <1>4, PageFields DEF MicInv, Fine, Spoken
  <2>2. Counted(e)
    BY <1>2, PageFields DEF MicInv, Fine, Counted, Underway
  <2>3. OneAtATime(e)
    BY <1>2, <1>4, PageFields DEF MicInv, Fine, OneAtATime, Underway
  <2> QED
    BY <2>1, <2>2, <2>3
<1>6. mic.recording => mic.opening = 0 /\ mic.rec \in Clips /\ clip[mic.rec].pc \notin Elsewhere
  BY <1>3, PageFields DEF MicInv, Fine, OneRecorder
<1>7. \A d \in Clips \ {c} :
        /\ clip[d].pc = "recording" => mic.recording /\ mic.rec = d
        /\ clip[d].pc = "opening" => mic.opening = 1
        /\ clip[d].live => clip[d].pc \in {"stopping", "orphan"} \/ mic.raced \/ mic.rec = d
  BY PageFields DEF MicInv, Fine, OneRecorder, Released
<1>8. clip[c].live => mic.stream = c \/ mic.raced \/ mic.rec # c
  BY <1>3, PageFields DEF MicInv, Fine, Released
<1>9. \A d, x \in Clips : clip[d].pc = "opening" /\ clip[x].pc = "opening" => d = x
  BY PageFields DEF MicInv, Fine, OneRecorder
<1>10. /\ ~late => mic.rec = c /\ mic.opening # 1
       /\ late \in BOOLEAN
  BY <1>3 DEF MicRec
<1> HIDE DEF late
<1>11. Ready(e, c)
  <2>1. mic.raced \/ late \/ mic.rec = c
    BY <1>10
  <2>2. \A d \in Clips \ {c} :
          /\ clip[d].live => clip[d].pc \in {"stopping", "orphan"} \/ mic.raced \/ late
          /\ clip[d].pc \in {"opening", "recording"} => mic.raced \/ late
    BY <1>6, <1>7, <1>10
  <2>3. clip[c].live => mic.stream = c \/ mic.raced \/ late
    BY <1>8, <1>10
  <2> QED
    BY <1>2, <1>4, <1>5, <1>6, <1>7, <1>9, <2>1, <2>2, <2>3 DEF Ready
<1>12. Stopped(e, OnStop(e, c, size), c)
  BY <1>2, OnStopFields
<1>13. Fine(OnStop(e, c, size))
  BY <1>11, <1>12, StoppedIsFine
<1> QED
  BY <1>1, <1>13, BecomesFine

LEMMA OpenFailsFine == ASSUME MicInv, NEW c \in Clips, OpenFails(c) PROVE MicInv'
<1>g. PICK granted \in BOOLEAN :
        Becomes(ReleaseStream([Page EXCEPT !.mic.opening = 0, !.mic.cap = FALSE,
                                   !.clip[c].pc = IF granted THEN "orphan" ELSE "dropped",
                                   !.clip[c].live = granted]))
  BY Zenon DEF OpenFails
<1>p. PICK p : p = IF granted THEN "orphan" ELSE "dropped"
  OBVIOUS
<1> DEFINE k == [clip[c] EXCEPT !.pc = p, !.live = granted]
           cl == [clip EXCEPT ![c] = k]
           e == [Page EXCEPT !.mic.opening = 0, !.mic.cap = FALSE, !.clip[c].pc = p,
                             !.clip[c].live = granted]
<1>1. PICK r : r = ReleaseStream(e) /\ Becomes(r)
  BY <1>g, <1>p
<1>2. /\ mic \in MicRec /\ clip \in [Clips -> ClipRec] /\ holds \in SUBSET (Clips \X Stages)
      /\ clip[c].pc = "opening"
  BY PageFields DEF MicInv, Fine, PageRec, OpenFails
<1>3. k \in ClipRec /\ k.pc = p /\ k.live = granted /\ k.overdue = clip[c].overdue
  <2>1. clip[c] \in ClipRec /\ p \in ClipStates
    BY <1>2, <1>p DEF ClipStates
  <2> QED
    BY <2>1 DEF ClipRec
<1> DEFINE m == [mic EXCEPT !.opening = 0, !.cap = FALSE]
<1>4. e = [Page EXCEPT !.mic = m, !.clip = cl]
  BY PageFields
<1>m. /\ m \in MicRec /\ m.recording = mic.recording /\ m.opening = 0 /\ m.rec = mic.rec
      /\ m.stream = mic.stream /\ m.raced = mic.raced
      /\ m.speech = mic.speech /\ m.said = mic.said
  BY <1>2 DEF MicRec
<1> HIDE DEF k, e, m
<1>5. cl \in [Clips -> ClipRec] /\ cl[c] = k /\ \A d \in Clips \ {c} : cl[d] = clip[d]
  BY <1>2, <1>3
<1> HIDE DEF cl
<1>6. /\ e \in PageRec /\ e.clip = cl /\ e.holds = holds
      /\ e.mic.recording = mic.recording /\ e.mic.opening = 0 /\ e.mic.rec = mic.rec
      /\ e.mic.stream = mic.stream /\ e.mic.raced = mic.raced
      /\ e.mic.speech = mic.speech /\ e.mic.said = mic.said
  <2>1. e.mic = m /\ e.clip = cl /\ e.holds = holds /\ e \in PageRec
    BY <1>2, <1>4, <1>5, <1>m, PageFields DEF PageRec, Page
  <2> QED
    BY <1>m, <2>1
<1>7. LetGo(e, r)
  BY <1>1, <1>6, ReleaseFields
<1>8. /\ r \in PageRec /\ r.holds = holds
      /\ r.mic.recording = mic.recording /\ r.mic.opening = 0 /\ r.mic.rec = mic.rec
      /\ r.mic.stream = Nobody /\ r.mic.raced = mic.raced
      /\ r.mic.speech = mic.speech /\ r.mic.said = mic.said
  <2>1. r.mic = [e.mic EXCEPT !.stream = Nobody] /\ e.mic \in MicRec
    BY <1>6, <1>7 DEF LetGo, PageRec
  <2> QED
    BY <1>6, <1>7, <2>1 DEF LetGo, MicRec
<1>9. \A d \in Clips : /\ r.clip[d].pc = cl[d].pc /\ r.clip[d].mute = cl[d].mute
                       /\ r.clip[d].overdue = cl[d].overdue
                       /\ r.clip[d].live = (cl[d].live /\ d # mic.stream)
  BY <1>6, <1>7 DEF LetGo
<1>10. /\ ~mic.recording
       /\ \A d \in Clips \ {c} : clip[d].pc \notin {"opening", "recording"}
  BY <1>2, PageFields DEF MicInv, Fine, OneRecorder
<1>11. OneRecorder(r)
  BY <1>p, <1>3, <1>5, <1>8, <1>9, <1>10 DEF OneRecorder
<1>12. Released(r)
  <2>1. \A d \in Clips : clip[d].live =>
          /\ clip[d].pc \in {"stopping", "orphan"} \/ mic.raced
          /\ mic.rec = d /\ clip[d].pc # "orphan" => mic.stream = d \/ mic.raced
    BY <1>10, PageFields DEF MicInv, Fine, Released
  <2>2. ASSUME NEW d \in Clips, r.clip[d].live
        PROVE  /\ r.clip[d].pc \in {"stopping", "orphan"} \/ mic.raced
               /\ mic.rec = d /\ r.clip[d].pc # "orphan" => mic.raced
    <3>1. CASE d = c
      BY <1>p, <1>3, <1>5, <1>9, <2>2, <3>1
    <3>2. CASE d # c
      <4>1. clip[d].live /\ d # mic.stream /\ r.clip[d].pc = clip[d].pc
        BY <1>5, <1>9, <2>2, <3>2
      <4> QED
        BY <2>1, <4>1
    <3> QED
      BY <3>1, <3>2
  <2> QED
    BY <1>8, <2>2 DEF Released
<1>13. Spoken(r)
  BY <1>p, <1>3, <1>5, <1>8, <1>9, PageFields DEF MicInv, Fine, Spoken
<1>14. Counted(r)
  BY <1>p, <1>3, <1>5, <1>8, <1>9, PageFields DEF MicInv, Fine, Counted, Underway
<1>15. OneAtATime(r)
  BY <1>p, <1>3, <1>5, <1>9, <1>10 DEF OneAtATime
<1> QED
  BY <1>1, <1>8, <1>11, <1>12, <1>13, <1>14, <1>15, BecomesFine DEF Fine

(* A clip on its way: the microphone is left alone. *)
LEMMA MovedFine ==
  ASSUME MicInv, NEW c \in Clips, mic' = mic,
         clip' \in [Clips -> ClipRec], \A d \in Clips \ {c} : clip'[d] = clip[d],
         clip'[c].live = clip[c].live, clip'[c].mute = clip[c].mute,
         clip[c].overdue => clip'[c].overdue,
         \/ clip'[c].pc = clip[c].pc
         \/ /\ Underway(Page, c)
            /\ clip'[c].pc \in {"scripted", "uploading", "turn", "delegated", "over"}
            /\ clip'[c].pc = "uploading" => clip[c].pc = "sending",
         holds' \in SUBSET (Clips \X Stages), IsFiniteSet(holds'),
         \A h \in holds : h[1] # c => h \in holds',
         Underway(Page', c) => clip'[c].overdue \/ \E h \in holds' : h[1] = c
  PROVE  MicInv'
<1>1. Page' \in PageRec
  BY PageFields DEF MicInv, Fine, PageRec
<1>2. OneRecorder(Page')
  BY PageFields DEF MicInv, Fine, OneRecorder, Underway, Elsewhere
<1>3. Released(Page')
  <2>1. ASSUME NEW d \in Clips, clip'[d].live
        PROVE  /\ \/ mic.recording /\ mic.rec = d /\ clip'[d].pc = "recording"
                  \/ clip'[d].pc \in {"stopping", "orphan"} \/ mic.raced
               /\ mic.rec = d /\ clip'[d].pc # "orphan" => mic.stream = d \/ mic.raced
    <3>1. /\ clip[d].live
          /\ \/ mic.recording /\ mic.rec = d /\ clip[d].pc = "recording"
             \/ clip[d].pc \in {"stopping", "orphan"} \/ mic.raced
          /\ mic.rec = d /\ clip[d].pc # "orphan" => mic.stream = d \/ mic.raced
      BY <2>1, PageFields DEF MicInv, Fine, Released
    <3> QED
      BY <3>1, PageFields DEF Underway
  <2> QED
    BY <2>1, PageFields DEF Released
<1>4. Spoken(Page')
  BY PageFields DEF MicInv, Fine, Spoken
<1>5. Counted(Page')
  <2>1. ASSUME NEW d \in Clips, d # c, Underway(Page', d)
        PROVE  clip'[d].overdue \/ \E h \in holds' : h[1] = d
    <3>1. Underway(Page, d) /\ clip'[d] = clip[d]
      BY <2>1, PageFields DEF Underway
    <3> QED
      BY <2>1, <3>1, PageFields DEF MicInv, Fine, Counted
  <2> QED
    BY <2>1, PageFields DEF Counted
<1>6. OneAtATime(Page')
  <2>1. ASSUME NEW d \in Clips, NEW x \in Clips, clip'[d].pc \in {"opening", "recording"},
               Underway(Page', x)
        PROVE  clip'[x].overdue \/ mic.raced
    <3>1. clip[d].pc \in {"opening", "recording"}
      BY <2>1, PageFields DEF Underway
    <3>2. Underway(Page, x)
      BY <2>1, PageFields DEF Underway
    <3>3. clip[x].overdue \/ mic.raced
      BY <3>1, <3>2, PageFields DEF MicInv, Fine, OneAtATime
    <3> QED
      BY <3>3
  <2> QED
    BY <2>1, PageFields DEF OneAtATime
<1> QED
  BY <1>1, <1>2, <1>3, <1>4, <1>5, <1>6 DEF MicInv, Fine

LEMMA StepsPc ==
  ASSUME MicInv, NEW c \in Clips, NEW p \in ClipStates, clip' = [clip EXCEPT ![c].pc = p]
  PROVE  /\ clip' \in [Clips -> ClipRec] /\ \A d \in Clips \ {c} : clip'[d] = clip[d]
         /\ clip'[c].pc = p /\ clip'[c].live = clip[c].live /\ clip'[c].mute = clip[c].mute
         /\ clip'[c].overdue = clip[c].overdue
<1>1. clip \in [Clips -> ClipRec] /\ clip[c] \in ClipRec
  BY PageFields DEF MicInv, Fine, PageRec
<1> DEFINE k == [clip[c] EXCEPT !.pc = p]
<1>2. k \in ClipRec /\ k.pc = p /\ k.live = clip[c].live /\ k.mute = clip[c].mute
      /\ k.overdue = clip[c].overdue
  BY <1>1 DEF ClipRec
<1>3. clip' = [clip EXCEPT ![c] = k]
  OBVIOUS
<1> HIDE DEF k
<1> QED
  BY <1>1, <1>2, <1>3

LEMMA HoldsFacts ==
  ASSUME MicInv
  PROVE  /\ holds \in SUBSET (Clips \X Stages) /\ IsFiniteSet(holds)
         /\ \A c \in Clips : Underway(Page, c) => clip[c].overdue \/ \E h \in holds : h[1] = c
BY PageFields DEF MicInv, Fine, PageRec, Counted

LEMMA UploadFine == ASSUME MicInv, NEW c \in Clips, Upload(c) PROVE MicInv'
<1>1. PICK p \in {"uploading", "scripted"} : clip' = [clip EXCEPT ![c].pc = p]
  BY DEF Upload
<1>2. clip[c].pc = "sending" /\ mic' = mic /\ holds' = holds
  BY DEF Upload
<1>3. p \in ClipStates
  BY DEF ClipStates
<1>4. Underway(Page, c)
  BY <1>2, PageFields DEF Underway
<1>5. clip[c].overdue \/ \E h \in holds : h[1] = c
  BY <1>4, HoldsFacts
<1>6. /\ clip' \in [Clips -> ClipRec] /\ \A d \in Clips \ {c} : clip'[d] = clip[d]
      /\ clip'[c].pc = p /\ clip'[c].live = clip[c].live /\ clip'[c].mute = clip[c].mute
      /\ clip'[c].overdue = clip[c].overdue
  BY <1>1, <1>3, StepsPc
<1>7. holds' \in SUBSET (Clips \X Stages) /\ IsFiniteSet(holds')
      /\ \A h \in holds : h[1] # c => h \in holds'
  BY <1>2, HoldsFacts
<1>8. clip'[c].overdue \/ \E h \in holds' : h[1] = c
  BY <1>2, <1>5, <1>6
<1> QED
  BY <1>1, <1>2, <1>4, <1>6, <1>7, <1>8, MovedFine

LEMMA EarsRefuseFine == ASSUME MicInv, NEW c \in Clips, EarsRefuse(c) PROVE MicInv'
<1>2. /\ clip[c].pc = "uploading" /\ mic' = mic /\ holds' = holds
      /\ clip' = [clip EXCEPT ![c].pc = "scripted"]
  BY DEF EarsRefuse
<1>3. "scripted" \in ClipStates
  BY DEF ClipStates
<1>4. Underway(Page, c)
  BY <1>2, PageFields DEF Underway
<1>5. clip[c].overdue \/ \E h \in holds : h[1] = c
  BY <1>4, HoldsFacts
<1>6. /\ clip' \in [Clips -> ClipRec] /\ \A d \in Clips \ {c} : clip'[d] = clip[d]
      /\ clip'[c].pc = "scripted" /\ clip'[c].live = clip[c].live
      /\ clip'[c].mute = clip[c].mute /\ clip'[c].overdue = clip[c].overdue
  BY <1>2, <1>3, StepsPc
<1>7. holds' \in SUBSET (Clips \X Stages) /\ IsFiniteSet(holds')
      /\ \A h \in holds : h[1] # c => h \in holds'
  BY <1>2, HoldsFacts
<1>8. clip'[c].overdue \/ \E h \in holds' : h[1] = c
  BY <1>2, <1>5, <1>6
<1> QED
  BY <1>2, <1>4, <1>6, <1>7, <1>8, MovedFine

LEMMA TurnSentFine == ASSUME MicInv, NEW c \in Clips, TurnSent(c) PROVE MicInv'
<1> DEFINE left == holds \ {<<c, "sending">>, <<c, "scripted">>}
<1>1. PICK delegated \in BOOLEAN :
        /\ clip' = [clip EXCEPT ![c].pc = IF delegated THEN "delegated" ELSE "turn"]
        /\ holds' = left \union (IF delegated THEN {} ELSE {<<c, "turn">>})
  BY DEF TurnSent
<1>2. clip[c].pc \in {"uploading", "scripted"} /\ mic' = mic
  BY DEF TurnSent
<1>3. IsFiniteSet(left)
  BY HoldsFacts, FS_Subset
<1>4. \A h \in holds : h[1] # c => h \in left
  OBVIOUS
<1>5. left \in SUBSET (Clips \X Stages)
  BY HoldsFacts
<1> HIDE DEF left
<1>6. IsFiniteSet(holds') /\ holds' \in SUBSET (Clips \X Stages)
  <2>1. IsFiniteSet(left \union {<<c, "turn">>})
    BY <1>3, FS_AddElement
  <2>2. <<c, "turn">> \in Clips \X Stages
    BY DEF Stages
  <2> QED
    BY <1>1, <1>3, <1>5, <2>1, <2>2
<1>7. PICK p \in ClipStates : p = IF delegated THEN "delegated" ELSE "turn"
  BY DEF ClipStates
<1>8. Underway(Page, c)
  BY <1>2, PageFields DEF Underway
<1>9. /\ clip' \in [Clips -> ClipRec] /\ \A d \in Clips \ {c} : clip'[d] = clip[d]
      /\ clip'[c].pc = p /\ clip'[c].live = clip[c].live
      /\ clip'[c].mute = clip[c].mute /\ clip'[c].overdue = clip[c].overdue
  BY <1>1, <1>7, StepsPc
<1>10. \A h \in holds : h[1] # c => h \in holds'
  BY <1>1, <1>4
<1>11. Underway(Page', c) => \E h \in holds' : h[1] = c
  <2>1. CASE delegated
    BY <1>7, <1>9, <2>1, PageFields DEF Underway
  <2>2. CASE ~delegated
    <3>1. <<c, "turn">> \in holds' /\ <<c, "turn">>[1] = c
      BY <1>1, <2>2
    <3> QED
      BY <3>1
  <2> QED
    BY <2>1, <2>2
<1>12. p \in {"scripted", "uploading", "turn", "delegated", "over"} /\ p # "uploading"
  BY <1>7
<1> QED
  BY <1>2, <1>6, <1>8, <1>9, <1>10, <1>11, <1>12, MovedFine

LEMMA ClipOverFine == ASSUME MicInv, NEW c \in Clips, ClipOver(c) PROVE MicInv'
<1>1. /\ clip[c].pc \in {"uploading", "scripted", "turn"} /\ mic' = mic
      /\ clip' = [clip EXCEPT ![c].pc = "over"] /\ holds' = {h \in holds : h[1] # c}
  BY DEF ClipOver
<1>2. "over" \in ClipStates
  BY DEF ClipStates
<1>3. IsFiniteSet(holds') /\ holds' \in SUBSET (Clips \X Stages)
  BY <1>1, HoldsFacts, FS_Subset
<1>4. Underway(Page, c)
  BY <1>1, PageFields DEF Underway
<1>5. clip'[c].pc = "over"
  BY <1>1, <1>2, StepsPc
<1>6. ~Underway(Page', c)
  BY <1>5, PageFields DEF Underway
<1>7. \A h \in holds : h[1] # c => h \in holds'
  BY <1>1
<1> QED
  BY <1>1, <1>2, <1>3, <1>4, <1>5, <1>6, <1>7, StepsPc, MovedFine

LEMMA ValveFine == ASSUME MicInv, NEW c \in Clips, Valve(c) PROVE MicInv'
<1>1. PICK h \in holds : h[1] = c /\ holds' = holds \ {h}
  BY DEF Valve
<1>2. mic' = mic /\ clip' = [clip EXCEPT ![c].overdue = TRUE]
  BY DEF Valve
<1>3. /\ clip' \in [Clips -> ClipRec] /\ \A d \in Clips \ {c} : clip'[d] = clip[d]
      /\ clip'[c].pc = clip[c].pc /\ clip'[c].live = clip[c].live
      /\ clip'[c].mute = clip[c].mute /\ clip'[c].overdue
  <2> DEFINE k == [clip[c] EXCEPT !.overdue = TRUE]
  <2>1. clip \in [Clips -> ClipRec] /\ clip[c] \in ClipRec
    BY PageFields DEF MicInv, Fine, PageRec
  <2>2. k \in ClipRec /\ k.pc = clip[c].pc /\ k.live = clip[c].live /\ k.mute = clip[c].mute
        /\ k.overdue = TRUE
    BY <2>1 DEF ClipRec
  <2>3. clip' = [clip EXCEPT ![c] = k]
    BY <1>2
  <2> HIDE DEF k
  <2> QED
    BY <2>1, <2>2, <2>3
<1>4. IsFiniteSet(holds') /\ holds' \in SUBSET (Clips \X Stages)
  BY <1>1, HoldsFacts, FS_Subset
<1>5. \A g \in holds : g[1] # c => g \in holds'
  BY <1>1
<1> QED
  BY <1>2, <1>3, <1>4, <1>5, MovedFine

LEMMA PageStepFine == ASSUME MicInv, PageStep PROVE MicInv'
<1>1. CASE Tap
  BY <1>1, TapFine
<1>2. CASE SilenceFires \/ CapFires
  BY <1>2, TimersFine
<1>3. CASE GuardEnds
  BY <1>3, GuardFine
<1>4. ASSUME NEW loud \in BOOLEAN, Level(loud) PROVE MicInv'
  BY <1>4, LevelFine
<1>5. ASSUME NEW c \in Clips, ClipStep(c) PROVE MicInv'
  BY <1>5, OpenedFine, OpenFailsFine, StopEventFine, UploadFine, TurnSentFine, EarsRefuseFine,
     ClipOverFine, ValveFine DEF ClipStep
<1> QED
  BY <1>1, <1>2, <1>3, <1>4, <1>5 DEF PageStep

LEMMA NextFine == MicInv /\ [Next]_vars => MicInv'
<1>1. MicInv /\ UNCHANGED page => MicInv'
  BY DEF page, MicInv, Page
<1> QED
  BY <1>1, PageStepFine DEF Next, vars, AskForToken

LEMMA AlwaysFine == Spec => []MicInv
BY InitFine, NextFine, PTL DEF Spec

(***************************************************************************)
(* The microphone is live only while the page records: however a recording *)
(* ends, its stream is released, and none is opened beside it (mic.js      *)
(* releaseStream).  The exceptions are two: a late stop event of a         *)
(* MediaRecorder, and a stream of which no capture could be made.          *)
(***************************************************************************)
THEOREM MicrophonesAreReleased == Spec => []MicReleased
<1>1. MicInv => MicReleased
  <2> SUFFICES ASSUME MicInv PROVE MicReleased
    OBVIOUS
  <2>1. MicTypeOK
    BY PageFields DEF MicInv, Fine, PageRec, MicRec, OneRecorder, MicTypeOK, Stages, Elsewhere
  <2> QED
    BY <2>1, PageFields DEF MicInv, Fine, Released, MicReleased, Stranded
<1> QED
  BY <1>1, AlwaysFine, PTL

(***************************************************************************)
(* NOTHING SAID, NOTHING SENT (mic.js): a clip that was measured is        *)
(* uploaded only when speech was heard in that very clip.                  *)
(***************************************************************************)
THEOREM SilenceIsNotSent == Spec => []NothingSaidNothingSent
<1>1. MicInv => NothingSaidNothingSent
  BY PageFields DEF MicInv, Fine, Spoken, NothingSaidNothingSent
<1> QED
  BY <1>1, AlwaysFine, PTL

(***************************************************************************)
(* ONE TURN AT A TIME (mic.js): the microphone is opened for a clip only   *)
(* when every earlier clip and its live turn are over, or held the button  *)
(* past BUSY_MAX_MS, for any number of clips.  A delegated turn has let    *)
(* the button go before it is answered, and is not counted.                *)
(***************************************************************************)
THEOREM TurnsDoNotOverlap == Spec => []OneTurnAtATime
<1>1. MicInv => OneTurnAtATime
  BY PageFields DEF MicInv, Fine, OneAtATime, Underway, OneTurnAtATime, InFlight
<1> QED
  BY <1>1, AlwaysFine, PTL

-----------------------------------------------------------------------------
(* The bot control (turnstile.js): a token pays for one send.               *)

CallRec == [pc : {"idle", "script", "minting", "done"}, token : Nat]
SlotRec ==
  [rendered : BOOLEAN, pending : Calls \union {Nobody}, chain : Seq(Calls),
   outstanding : BOOLEAN, spent : Nat, held : Nat, screen : BOOLEAN, wasted : BOOLEAN]
ScriptRec ==
  [api : BOOLEAN, loading : BOOLEAN, tries : 0 .. MaxScriptTries, late : BOOLEAN,
   waiting : [Actions -> Seq(Calls)], wanted : SUBSET Actions, minted : Nat]
MintRec == [w : SlotRec, calls : [Calls -> CallRec]]

CallsOf(a) == {c \in Calls : ActionOf(c) = a}
Minting(a, calls) == {c \in CallsOf(a) : calls[c].pc = "minting"}
NoTwice(q) == \A i, j \in DOMAIN q : q[i] = q[j] => i = j

(* No token was given twice, and the one the widget holds to nobody, unless *)
(* it is the one the widget knows as spent; m tokens were ever solved.      *)
TokensOK(a, s, m) ==
  /\ s.w.held <= m /\ s.w.spent <= m
  /\ \A c \in CallsOf(a) :
       /\ s.calls[c].token <= m
       /\ s.calls[c].token # NoToken /\ s.calls[c].token = s.w.held => s.w.held = s.w.spent
  /\ \A c, d \in CallsOf(a) :
       c # d /\ s.calls[c].token # NoToken => s.calls[c].token # s.calls[d].token

Good(a, s, m) ==
  /\ s \in MintRec /\ NoTwice(s.w.chain) /\ TokensOK(a, s, m)
  /\ s.w.screen => s.w.outstanding /\ s.w.held = NoToken
  /\ ~s.w.wasted

(* The mint of c runs; none runs; the mint in flight waits for a challenge. *)
Mints(a, s, m, c) ==
  /\ Good(a, s, m) /\ s.w.pending \in {Nobody, c}
  /\ c \in CallsOf(a) /\ c \notin Range(s.w.chain)
  /\ Minting(a, s.calls) = Range(s.w.chain) \union {c}
Rests(a, s, m) ==
  /\ Good(a, s, m) /\ s.w.pending = Nobody
  /\ Minting(a, s.calls) = Range(s.w.chain)
Awaits(a, s, m) ==
  /\ s.w.pending # Nobody /\ s.w.outstanding
  /\ Mints(a, s, m, s.w.pending)

SlotOK(a, s, m) == Awaits(a, s, m) \/ (Rests(a, s, m) /\ s.w.chain = <<>>)

(* The calls of other actions stay as they are; those of this one, but for  *)
(* the mints that resolve.                                                  *)
Follows(a, s, t) ==
  \A c \in Calls :
    t.calls[c] = s.calls[c] \/ (c \in Minting(a, s.calls) /\ t.calls[c].pc = "done")

(* So do they, but for the calls of cs, which come to mint.                 *)
Joins(a, s, cs, t) ==
  \A c \in Calls \ Range(cs) :
    t.calls[c] = s.calls[c] \/ (c \in Minting(a, s.calls) /\ t.calls[c].pc = "done")

BotInv ==
  /\ script \in ScriptRec /\ slot \in [Actions -> SlotRec] /\ call \in [Calls -> CallRec]
  /\ \A a \in Actions :
       /\ SlotOK(a, Of(slot[a], call), script.minted)
       /\ NoTwice(script.waiting[a])
       /\ \A c \in Range(script.waiting[a]) : ActionOf(c) = a /\ call[c].pc = "script"

(* Sequences without repetition. *)
LEMMA TailOnce ==
  ASSUME NEW S, NEW q \in Seq(S), q # << >>, NoTwice(q)
  PROVE  /\ Tail(q) \in Seq(S) /\ Head(q) \in S /\ NoTwice(Tail(q))
         /\ Range(q) = Range(Tail(q)) \union {Head(q)} /\ Head(q) \notin Range(Tail(q))
<1>1. /\ Tail(q) \in Seq(S) /\ Head(q) = q[1] /\ Len(Tail(q)) = Len(q) - 1 /\ Len(q) \in Nat \ {0}
      /\ \A i \in 1 .. Len(q) - 1 : Tail(q)[i] = q[i + 1]
  BY HeadTailProperties, EmptySeq
<1>2. DOMAIN q = 1 .. Len(q) /\ DOMAIN Tail(q) = 1 .. Len(q) - 1
  BY <1>1, LenProperties
<1>3. \A i \in 1 .. Len(q) : q[i] \in S
  BY ElementOfSeq
<1>4. NoTwice(Tail(q))
  BY <1>1, <1>2 DEF NoTwice
<1>5. Head(q) \notin Range(Tail(q))
  <2> SUFFICES ASSUME NEW i \in 1 .. Len(q) - 1, Tail(q)[i] = q[1] PROVE FALSE
    BY <1>1, <1>2 DEF Range
  <2> QED
    BY <1>1, <1>2 DEF NoTwice
<1>6. Range(q) \subseteq Range(Tail(q)) \union {Head(q)}
  <2> SUFFICES ASSUME NEW i \in 1 .. Len(q), i # 1 PROVE q[i] \in Range(Tail(q))
    BY <1>1, <1>2 DEF Range
  <2>1. i - 1 \in 1 .. Len(q) - 1 /\ Tail(q)[i - 1] = q[i]
    BY <1>1
  <2> QED
    BY <2>1, <1>2 DEF Range
<1>7. Range(Tail(q)) \union {Head(q)} \subseteq Range(q)
  <2>1. q[1] \in Range(q)
    BY <1>1, <1>2 DEF Range
  <2>2. \A i \in 1 .. Len(q) - 1 : Tail(q)[i] \in Range(q)
    <3> TAKE i \in 1 .. Len(q) - 1
    <3>1. i + 1 \in 1 .. Len(q) /\ Tail(q)[i] = q[i + 1]
      BY <1>1
    <3> QED
      BY <3>1, <1>2 DEF Range
  <2> QED
    BY <2>1, <2>2, <1>1, <1>2 DEF Range
<1> QED
  BY <1>1, <1>3, <1>4, <1>5, <1>6, <1>7

LEMMA JoinOnce ==
  ASSUME NEW S, NEW p \in Seq(S), NEW q \in Seq(S), NoTwice(p), NoTwice(q),
         Range(p) \cap Range(q) = {}
  PROVE  p \o q \in Seq(S) /\ NoTwice(p \o q) /\ Range(p \o q) = Range(p) \union Range(q)
<1>1. /\ p \o q \in Seq(S) /\ Len(p \o q) = Len(p) + Len(q)
      /\ Len(p) \in Nat /\ Len(q) \in Nat
      /\ \A i \in 1 .. Len(p) + Len(q) :
           (p \o q)[i] = IF i <= Len(p) THEN p[i] ELSE q[i - Len(p)]
  BY ConcatProperties, LenProperties
<1>2. /\ DOMAIN p = 1 .. Len(p) /\ DOMAIN q = 1 .. Len(q)
      /\ DOMAIN (p \o q) = 1 .. Len(p) + Len(q)
  BY <1>1, LenProperties
<1>3. \A i \in 1 .. Len(p), j \in 1 .. Len(q) : p[i] # q[j]
  BY <1>2 DEF Range
<1>4. NoTwice(p \o q)
  <2> SUFFICES ASSUME NEW i \in 1 .. Len(p) + Len(q), NEW j \in 1 .. Len(p) + Len(q),
                      (p \o q)[i] = (p \o q)[j]
               PROVE  i = j
    BY <1>2 DEF NoTwice
  <2>1. CASE i <= Len(p) /\ j <= Len(p)
    BY <2>1, <1>1, <1>2 DEF NoTwice
  <2>2. CASE i > Len(p) /\ j > Len(p)
    <3>1. i - Len(p) \in 1 .. Len(q) /\ j - Len(p) \in 1 .. Len(q)
      BY <2>2, <1>1
    <3>2. q[i - Len(p)] = q[j - Len(p)]
      BY <2>2, <1>1
    <3>3. i - Len(p) = j - Len(p)
      BY <3>1, <3>2, <1>2 DEF NoTwice
    <3> QED
      BY <3>3, <1>1
  <2>3. CASE i <= Len(p) /\ j > Len(p)
    <3>1. i \in 1 .. Len(p) /\ j - Len(p) \in 1 .. Len(q)
      BY <2>3, <1>1
    <3> QED
      BY <3>1, <2>3, <1>1, <1>3
  <2>4. CASE i > Len(p) /\ j <= Len(p)
    <3>1. j \in 1 .. Len(p) /\ i - Len(p) \in 1 .. Len(q)
      BY <2>4, <1>1
    <3> QED
      BY <3>1, <2>4, <1>1, <1>3
  <2> QED
    BY <2>1, <2>2, <2>3, <2>4, <1>1
<1>5. Range(p \o q) = Range(p) \union Range(q)
  <2>1. \A i \in 1 .. Len(p) + Len(q) : (p \o q)[i] \in Range(p) \union Range(q)
    <3> TAKE i \in 1 .. Len(p) + Len(q)
    <3>1. CASE i <= Len(p)
      BY <3>1, <1>1, <1>2 DEF Range
    <3>2. CASE i > Len(p)
      <4>1. i - Len(p) \in 1 .. Len(q) /\ (p \o q)[i] = q[i - Len(p)]
        BY <3>2, <1>1
      <4> QED
        BY <4>1, <1>2 DEF Range
    <3> QED
      BY <3>1, <3>2, <1>1
  <2>2. \A i \in 1 .. Len(p) : p[i] \in Range(p \o q)
    <3> TAKE i \in 1 .. Len(p)
    <3>1. i \in 1 .. Len(p) + Len(q) /\ (p \o q)[i] = p[i]
      BY <1>1
    <3> QED
      BY <3>1, <1>2 DEF Range
  <2>3. \A i \in 1 .. Len(q) : q[i] \in Range(p \o q)
    <3> TAKE i \in 1 .. Len(q)
    <3>1. i + Len(p) \in 1 .. Len(p) + Len(q) /\ (p \o q)[i + Len(p)] = q[i]
      BY <1>1
    <3> QED
      BY <3>1, <1>2 DEF Range
  <2> QED
    BY <2>1, <2>2, <2>3, <1>2 DEF Range
<1> QED
  BY <1>1, <1>4, <1>5

(* The mint of c resolves, with no token or with the one the widget holds,  *)
(* which nobody else was given.                                             *)
LEMMA ResolveOK ==
  ASSUME NEW a, NEW m \in Nat, NEW s, NEW c, NEW token,
         Mints(a, s, m, c),
         token = NoToken \/ (/\ token = s.w.held
                             /\ \A d \in CallsOf(a) : s.calls[d].token # token)
  PROVE  /\ Rests(a, Resolve(s, c, token), m) /\ Follows(a, s, Resolve(s, c, token))
         /\ Resolve(s, c, token).w.chain = s.w.chain
         /\ Resolve(s, c, token).w.held = s.w.held
         /\ Resolve(s, c, token).w.outstanding = s.w.outstanding
         /\ token # NoToken => Resolve(s, c, token).w.spent = s.w.held
<1> DEFINE t == Resolve(s, c, token)
<1>1. /\ s.w \in SlotRec /\ s.calls \in [Calls -> CallRec] /\ c \in CallsOf(a) /\ c \in Calls
      /\ s.calls[c].pc = "minting"
  BY DEF Mints, Good, MintRec, CallsOf, Minting
<1>2. token \in Nat /\ token <= m
  BY <1>1 DEF Mints, Good, TokensOK, SlotRec, NoToken
<1>3. /\ t.w = [s.w EXCEPT !.pending = Nobody, !.spent = IF token # NoToken THEN token ELSE @]
      /\ t.calls = [s.calls EXCEPT ![c] = [pc |-> "done", token |-> token]]
      /\ t = [w |-> t.w, calls |-> t.calls]
  BY <1>1 DEF Resolve, Mints, SlotRec
<1>4. t \in MintRec
  <2>1. t.w \in SlotRec
    BY <1>1, <1>2, <1>3 DEF SlotRec
  <2>2. [pc |-> "done", token |-> token] \in CallRec
    BY <1>2 DEF CallRec
  <2>3. t.calls \in [Calls -> CallRec]
    BY <2>2, <1>1, <1>3
  <2> QED
    BY <2>1, <2>3, <1>3 DEF MintRec
<1>5. /\ t.w.pending = Nobody /\ t.w.chain = s.w.chain /\ t.w.held = s.w.held
      /\ t.w.screen = s.w.screen /\ t.w.outstanding = s.w.outstanding
      /\ t.w.rendered = s.w.rendered /\ t.w.wasted = s.w.wasted
      /\ t.w.spent = IF token # NoToken THEN token ELSE s.w.spent
  BY <1>1, <1>3 DEF SlotRec
<1>6. /\ t.calls[c] = [pc |-> "done", token |-> token]
      /\ \A d \in Calls : d # c => t.calls[d] = s.calls[d]
  BY <1>1, <1>3
<1>7. TokensOK(a, t, m)
  BY <1>1, <1>2, <1>5, <1>6 DEF Mints, Good, TokensOK, CallsOf
<1>8. Good(a, t, m)
  BY <1>4, <1>5, <1>7 DEF Mints, Good
<1>9. Minting(a, t.calls) = Range(t.w.chain)
  BY <1>1, <1>5, <1>6 DEF Mints, Minting, CallsOf
<1> QED
  BY <1>1, <1>5, <1>6, <1>8, <1>9 DEF Rests, Follows, Minting

(* A widget that holds no token its next mint could take, and one of which  *)
(* the next mint will wait for a challenge.                                 *)
Bare(s) == s.w.held \in {NoToken, s.w.spent}
Pending(s) == Bare(s) /\ s.w.outstanding

(* The mint of c takes the token the widget holds, waits for a challenge,   *)
(* or fails on the one it asked for.                                        *)
LEMMA RunOK ==
  ASSUME NEW a, NEW m \in Nat, NEW s, NEW c, NEW throws \in BOOLEAN,
         Mints(a, s, m, c), s.w.pending = Nobody
  PROVE  LET t == Run(s, c, throws) IN
         /\ Follows(a, s, t) /\ t.w.chain = s.w.chain
         /\ Awaits(a, t, m) \/ (Rests(a, t, m) /\ Bare(t))
         /\ Bare(s) => Awaits(a, t, m) \/ (Rests(a, t, m) /\ Pending(t))
         /\ Pending(s) => Awaits(a, t, m)
<1>t. PICK t : t = Run(s, c, throws)
  OBVIOUS
<1> SUFFICES /\ Follows(a, s, t) /\ t.w.chain = s.w.chain
             /\ \/ Awaits(a, t, m)
                \/ Rests(a, t, m) /\ Bare(t) /\ ~Bare(s)
                \/ Rests(a, t, m) /\ Pending(t) /\ ~Pending(s)
  BY <1>t DEF Pending
<1>1. /\ s.w \in SlotRec /\ s.calls \in [Calls -> CallRec] /\ c \in CallsOf(a) /\ c \in Calls
      /\ c # Nobody /\ s = [w |-> s.w, calls |-> s.calls]
  BY BotAssumption DEF Mints, Good, MintRec, CallsOf, Calls
<1>2. CASE ~Bare(s)
  <2>1. t = Resolve(s, c, s.w.held) /\ s.w.held # NoToken
    BY <1>2, <1>t DEF Run, Bare
  <2>2. \A d \in CallsOf(a) : s.calls[d].token # s.w.held
    BY <1>2 DEF Mints, Good, TokensOK, Bare
  <2>3. /\ Rests(a, t, m) /\ Follows(a, s, t) /\ t.w.chain = s.w.chain
        /\ t.w.held = s.w.held /\ t.w.spent = s.w.held
    BY <2>1, <2>2, ResolveOK
  <2> QED
    BY <1>2, <2>3 DEF Bare
<1>3. ASSUME NEW w, w \in SlotRec, t = [s EXCEPT !.w = w],
             w.pending = c, w.outstanding, w.chain = s.w.chain, w.rendered = s.w.rendered,
             w.spent = s.w.spent, w.held \in {NoToken, s.w.held},
             w.screen => w.held = NoToken, ~w.wasted
      PROVE  /\ Follows(a, s, t) /\ t.w.chain = s.w.chain
             /\ Awaits(a, t, m)
  <2>1. t \in MintRec /\ t.w = w /\ t.calls = s.calls
    BY <1>1, <1>3 DEF MintRec, Mints, Good
  <2>2. TokensOK(a, t, m)
    BY <1>1, <1>3, <2>1 DEF Mints, Good, TokensOK, SlotRec, NoToken
  <2>3. Good(a, t, m)
    BY <1>3, <2>1, <2>2 DEF Mints, Good
  <2> QED
    BY <1>1, <1>3, <2>1, <2>3 DEF Mints, Awaits, Follows
<1>4. CASE Bare(s) /\ s.w.outstanding
  <2> DEFINE w == [s.w EXCEPT !.pending = c]
  <2>1. t = [s EXCEPT !.w = w]
    BY <1>4, <1>t DEF Run, Bare
  <2>2. w \in SlotRec
    BY <1>1 DEF SlotRec
  <2>3. /\ w.pending = c /\ w.outstanding /\ w.chain = s.w.chain /\ w.rendered = s.w.rendered
        /\ w.spent = s.w.spent /\ w.held = s.w.held /\ w.screen = s.w.screen
        /\ w.wasted = s.w.wasted
    BY <1>1, <1>4 DEF SlotRec
  <2>4. (w.screen => w.held = NoToken) /\ ~w.wasted
    BY <2>3 DEF Mints, Good
  <2> HIDE DEF w
  <2> QED
    BY <1>3, <2>1, <2>2, <2>3, <2>4
<1>5. ~s.w.wasted /\ (s.w.screen => s.w.outstanding)
  BY DEF Mints, Good
<1>6. CASE Bare(s) /\ ~s.w.outstanding /\ ~throws
  <2> DEFINE w == Challenge(s.w, c)
  <2>1. t = [s EXCEPT !.w = w]
    BY <1>6, <1>t DEF Run, Bare
  <2>2. w \in SlotRec
    BY <1>1 DEF SlotRec, Challenge, Reset, NoToken
  <2>3. /\ w.pending = c /\ w.outstanding /\ w.chain = s.w.chain /\ w.rendered = s.w.rendered
        /\ w.spent = s.w.spent /\ w.held = NoToken /\ ~w.wasted
    BY <1>1, <1>5, <1>6 DEF SlotRec, Challenge, Reset
  <2> HIDE DEF w
  <2> QED
    BY <1>3, <2>1, <2>2, <2>3
<1>7. CASE Bare(s) /\ ~s.w.outstanding /\ throws
  <2> DEFINE w == Reset(s.w)
             e == [s EXCEPT !.w = w]
  <2>1. t = Resolve(e, c, NoToken)
    BY <1>7, <1>t DEF Run, Bare
  <2>2. w \in SlotRec
    BY <1>1 DEF SlotRec, Reset, NoToken
  <2>3. /\ w.pending = s.w.pending /\ w.outstanding /\ w.chain = s.w.chain
        /\ w.spent = s.w.spent /\ w.held = NoToken /\ ~w.wasted /\ ~w.screen
    BY <1>1, <1>5, <1>7 DEF SlotRec, Reset
  <2> HIDE DEF w
  <2>4. e \in MintRec /\ e.w = w /\ e.calls = s.calls
    BY <1>1, <2>2 DEF MintRec
  <2> HIDE DEF e
  <2>5. TokensOK(a, e, m)
    BY <1>1, <2>3, <2>4 DEF Mints, Good, TokensOK, NoToken
  <2>6. Good(a, e, m)
    BY <2>3, <2>4, <2>5 DEF Mints, Good
  <2>7. Mints(a, e, m, c)
    BY <2>3, <2>4, <2>6 DEF Mints
  <2>8. /\ Rests(a, t, m) /\ Follows(a, e, t) /\ t.w.chain = e.w.chain
        /\ t.w.held = NoToken /\ t.w.outstanding
    BY <2>1, <2>3, <2>4, <2>7, ResolveOK
  <2> QED
    BY <1>7, <2>3, <2>4, <2>8 DEF Follows, Pending, Bare
<1> QED
  BY <1>2, <1>4, <1>6, <1>7

LEMMA RunNextOK ==
  ASSUME NEW a, NEW m \in Nat, NEW s, NEW throws \in BOOLEAN, Awaits(a, s, m) \/ Rests(a, s, m)
  PROVE  LET t == RunNext(s, throws) IN
         /\ Follows(a, s, t)
         /\ SlotOK(a, t, m) \/ (Rests(a, t, m) /\ Bare(t))
         /\ Bare(s) => SlotOK(a, t, m) \/ (Rests(a, t, m) /\ Pending(t))
         /\ Pending(s) => SlotOK(a, t, m)
<1>t. PICK t : t = RunNext(s, throws)
  OBVIOUS
<1> SUFFICES /\ Follows(a, s, t)
             /\ SlotOK(a, t, m) \/ (Rests(a, t, m) /\ Bare(t))
             /\ Bare(s) => SlotOK(a, t, m) \/ (Rests(a, t, m) /\ Pending(t))
             /\ Pending(s) => SlotOK(a, t, m)
  BY <1>t
<1> DEFINE r == [s EXCEPT !.w.chain = Tail(@)]
           c == Head(s.w.chain)
<1>1. s \in MintRec /\ s.w \in SlotRec /\ s.w.chain \in Seq(Calls) /\ NoTwice(s.w.chain)
  BY DEF Awaits, Rests, Mints, Good, MintRec, SlotRec
<1>2. CASE s.w.pending # Nobody \/ s.w.chain = << >>
  <2>1. t = s
    BY <1>2, <1>t DEF RunNext
  <2> QED
    BY <1>2, <2>1 DEF Follows, SlotOK, Awaits, Rests
<1>3. CASE s.w.pending = Nobody /\ s.w.chain # << >>
  <2>1. Rests(a, s, m) /\ t = Run(r, c, throws)
    BY <1>3, <1>t DEF Awaits, RunNext
  <2>2. /\ Tail(s.w.chain) \in Seq(Calls) /\ c \in Calls /\ NoTwice(Tail(s.w.chain))
        /\ Range(s.w.chain) = Range(Tail(s.w.chain)) \union {c}
        /\ c \notin Range(Tail(s.w.chain))
    BY <1>1, <1>3, TailOnce
  <2>3. /\ r.w = [s.w EXCEPT !.chain = Tail(s.w.chain)] /\ r.calls = s.calls
        /\ r = [w |-> r.w, calls |-> r.calls]
    <3>1. s = [w |-> s.w, calls |-> s.calls]
      BY <1>1 DEF MintRec
    <3> DEFINE w == [s.w EXCEPT !.chain = Tail(s.w.chain)]
    <3>2. r = [s EXCEPT !.w = w]
      OBVIOUS
    <3>3. [s EXCEPT !.w = w] = [w |-> w, calls |-> s.calls]
      <4> HIDE DEF w
      <4> QED BY <3>1
    <3> HIDE DEF r
    <3> QED
      BY <3>2, <3>3
  <2>4. r.w \in SlotRec
    BY <1>1, <2>2, <2>3 DEF SlotRec
  <2>5. r \in MintRec
    BY <1>1, <2>3, <2>4 DEF MintRec
  <2>6. /\ r.w.chain = Tail(s.w.chain) /\ r.w.pending = s.w.pending /\ r.w.held = s.w.held
        /\ r.w.spent = s.w.spent /\ r.w.screen = s.w.screen
        /\ r.w.outstanding = s.w.outstanding /\ r.w.rendered = s.w.rendered
        /\ r.w.wasted = s.w.wasted
    BY <1>1, <2>3 DEF SlotRec
  <2> HIDE DEF r, c
  <2>7. Good(a, r, m)
    BY <2>1, <2>2, <2>3, <2>5, <2>6 DEF Rests, Good, TokensOK
  <2>8. c \in CallsOf(a)
    BY <2>1, <2>2 DEF Rests, Minting
  <2>9. Mints(a, r, m, c) /\ r.w.pending = Nobody
    BY <1>3, <2>1, <2>2, <2>3, <2>6, <2>7, <2>8 DEF Rests, Mints
  <2>10. Follows(a, r, t) => Follows(a, s, t)
    BY <2>3, <2>6 DEF Follows
  <2>11. Bare(r) = Bare(s) /\ Pending(r) = Pending(s)
    BY <2>6 DEF Bare, Pending
  <2>12. /\ Follows(a, r, t)
         /\ Awaits(a, t, m) \/ (Rests(a, t, m) /\ Bare(t))
         /\ Bare(r) => Awaits(a, t, m) \/ (Rests(a, t, m) /\ Pending(t))
         /\ Pending(r) => Awaits(a, t, m)
    BY <2>1, <2>9, RunOK
  <2> QED
    BY <2>10, <2>11, <2>12 DEF SlotOK
<1> QED
  BY <1>2, <1>3

LEMMA RunChainOK ==
  ASSUME NEW a, NEW m \in Nat, NEW s, NEW throws \in BOOLEAN, Awaits(a, s, m) \/ Rests(a, s, m)
  PROVE  SlotOK(a, RunChain(s, throws), m) /\ Follows(a, s, RunChain(s, throws))
<1>1. PICK t : t = RunNext(s, throws)
  OBVIOUS
<1>2. PICK u : u = RunNext(t, throws)
  OBVIOUS
<1>3. PICK v : v = RunNext(u, throws)
  OBVIOUS
<1>4. RunChain(s, throws) = v
  BY <1>1, <1>2, <1>3 DEF RunChain
<1>5. \A q : SlotOK(a, q, m) => RunNext(q, throws) = q
  BY DEF SlotOK, Awaits, Rests, RunNext
<1>6. Follows(a, s, t) /\ (SlotOK(a, t, m) \/ (Rests(a, t, m) /\ Bare(t)))
  BY <1>1, RunNextOK
<1>7. Awaits(a, t, m) \/ Rests(a, t, m)
  BY <1>6 DEF SlotOK
<1>8. Follows(a, t, u) /\ (SlotOK(a, u, m) \/ (Rests(a, u, m) /\ Pending(u)))
  BY <1>2, <1>5, <1>6, <1>7, RunNextOK
<1>9. Awaits(a, u, m) \/ Rests(a, u, m)
  BY <1>8 DEF SlotOK
<1>10. Follows(a, u, v) /\ SlotOK(a, v, m)
  BY <1>3, <1>5, <1>8, <1>9, RunNextOK
<1>11. Follows(a, s, u)
  BY <1>6, <1>8 DEF Follows, Minting
<1>12. Follows(a, s, v)
  BY <1>10, <1>11 DEF Follows, Minting
<1> QED
  BY <1>4, <1>10, <1>12

(* The calls of cs mint after those of the chain; the other calls of the    *)
(* action resolve or stay, and those of the other action stay.              *)
LEMMA MintOK ==
  ASSUME NEW a, NEW m \in Nat, NEW s, SlotOK(a, s, m), NEW cs \in Seq(Calls), NoTwice(cs),
         NEW throws \in BOOLEAN,
         \A c \in Range(cs) : c \in CallsOf(a) /\ s.calls[c].pc # "minting"
  PROVE  SlotOK(a, Mint(s, cs, throws), m) /\ Joins(a, s, cs, Mint(s, cs, throws))
<1> DEFINE w == [s.w EXCEPT !.chain = s.w.chain \o cs]
           calls == [c \in Calls |-> IF c \in Range(cs) THEN [s.calls[c] EXCEPT !.pc = "minting"]
                                     ELSE s.calls[c]]
           r == [w |-> w, calls |-> calls]
<1>1. Mint(s, cs, throws) = RunChain(r, throws)
  BY DEF Mint
<1>2. /\ s.w \in SlotRec /\ s.calls \in [Calls -> CallRec] /\ s.w.chain \in Seq(Calls)
      /\ NoTwice(s.w.chain)
  BY DEF SlotOK, Awaits, Rests, Mints, Good, MintRec, SlotRec
<1>3. Range(s.w.chain) \subseteq Minting(a, s.calls)
  BY DEF SlotOK, Awaits, Rests, Mints
<1>4. Range(s.w.chain) \cap Range(cs) = {}
  BY <1>3 DEF Minting
<1>5. /\ s.w.chain \o cs \in Seq(Calls) /\ NoTwice(s.w.chain \o cs)
      /\ Range(s.w.chain \o cs) = Range(s.w.chain) \union Range(cs)
  BY <1>2, <1>4, JoinOnce
<1>6. /\ w \in SlotRec /\ w.chain = s.w.chain \o cs /\ w.pending = s.w.pending
      /\ w.held = s.w.held /\ w.spent = s.w.spent /\ w.screen = s.w.screen
      /\ w.outstanding = s.w.outstanding /\ w.rendered = s.w.rendered
      /\ w.wasted = s.w.wasted
  BY <1>2, <1>5 DEF SlotRec
<1>7. /\ calls \in [Calls -> CallRec]
      /\ \A c \in Calls : calls[c].token = s.calls[c].token
      /\ \A c \in Calls : calls[c].pc = IF c \in Range(cs) THEN "minting" ELSE s.calls[c].pc
      /\ \A c \in Calls \ Range(cs) : calls[c] = s.calls[c]
  <2> SUFFICES ASSUME NEW c \in Calls
               PROVE  /\ calls[c] \in CallRec /\ calls[c].token = s.calls[c].token
                      /\ calls[c].pc = IF c \in Range(cs) THEN "minting" ELSE s.calls[c].pc
    OBVIOUS
  <2>1. s.calls[c] \in CallRec
    BY <1>2
  <2> QED
    BY <2>1 DEF CallRec
<1>8. r \in MintRec /\ r.w = w /\ r.calls = calls
  BY <1>6, <1>7 DEF MintRec
<1> HIDE DEF w, calls, r
<1>9. CallsOf(a) \subseteq Calls
  BY DEF CallsOf
<1>10. TokensOK(a, s, m) /\ (s.w.screen => s.w.outstanding /\ s.w.held = NoToken) /\ ~s.w.wasted
  BY DEF SlotOK, Awaits, Rests, Mints, Good
<1>11. Good(a, r, m)
  <2>1. /\ \A c \in CallsOf(a) : r.calls[c].token = s.calls[c].token
        /\ r.w.held = s.w.held /\ r.w.spent = s.w.spent
    BY <1>6, <1>7, <1>8, <1>9
  <2>2. TokensOK(a, r, m)
    BY <2>1, <1>10 DEF TokensOK
  <2> QED
    BY <2>2, <1>5, <1>6, <1>8, <1>10 DEF Good
<1>12. Minting(a, calls) = Minting(a, s.calls) \union Range(cs)
  BY <1>7, <1>9 DEF Minting
<1>13. Awaits(a, r, m) \/ Rests(a, r, m)
  <2>1. CASE Awaits(a, s, m)
    <3>1. s.w.pending \notin Range(cs)
      BY <2>1 DEF Awaits, Mints, Minting
    <3> QED
      BY <2>1, <3>1, <1>5, <1>6, <1>8, <1>11, <1>12 DEF Awaits, Mints
  <2>2. CASE Rests(a, s, m)
    BY <2>2, <1>5, <1>6, <1>8, <1>11, <1>12 DEF Rests
  <2> QED
    BY <2>1, <2>2 DEF SlotOK
<1>14. SlotOK(a, RunChain(r, throws), m) /\ Follows(a, r, RunChain(r, throws))
  BY <1>13, RunChainOK
<1> QED
  BY <1>1, <1>7, <1>8, <1>12, <1>14 DEF Follows, Joins

(* A slot stands as its calls other than the minting ones change, and as    *)
(* the widget renders.                                                      *)
LEMMA Bystander ==
  ASSUME NEW a, NEW m \in Nat, NEW n \in Nat, m <= n, NEW s, SlotOK(a, s, m),
         NEW w \in SlotRec, NEW calls \in [Calls -> CallRec],
         w.pending = s.w.pending, w.chain = s.w.chain, w.outstanding = s.w.outstanding,
         w.spent = s.w.spent, w.held = s.w.held, w.screen = s.w.screen, w.wasted = s.w.wasted,
         \A c \in CallsOf(a) :
            \/ calls[c] = s.calls[c]
            \/ /\ s.calls[c].pc # "minting" /\ calls[c].pc # "minting"
               /\ calls[c].token \in {NoToken, s.calls[c].token}
  PROVE  SlotOK(a, Of(w, calls), n)
<1> DEFINE t == Of(w, calls)
<1>1. t \in MintRec /\ t.w = w /\ t.calls = calls
  BY DEF Of, MintRec
<1> HIDE DEF t
<1>2. Minting(a, calls) = Minting(a, s.calls)
  BY DEF Minting
<1>3. Good(a, s, m)
  BY DEF SlotOK, Awaits, Rests, Mints
<1>4. TokensOK(a, t, n)
  <2>1. \A c \in CallsOf(a) : s.calls[c].token \in Nat /\ calls[c].token \in {NoToken, s.calls[c].token}
    BY <1>3 DEF Good, MintRec, CallRec, CallsOf
  <2>2. s.w.held \in Nat /\ s.w.spent \in Nat
    BY <1>3 DEF Good, MintRec, SlotRec
  <2> QED
    BY <1>1, <1>3, <2>1, <2>2 DEF Good, TokensOK, NoToken
<1>5. Good(a, t, n)
  BY <1>1, <1>3, <1>4 DEF Good
<1>6. SlotOK(a, t, n)
  BY <1>1, <1>2, <1>5 DEF SlotOK, Awaits, Rests, Mints
<1> QED
  BY <1>6 DEF t

(* One slot steps, and script.waiting stays.                                *)
LEMMA SlotStep ==
  ASSUME BotInv, NEW a \in Actions, NEW t, SlotOK(a, t, script'.minted),
         slot' = [slot EXCEPT ![a] = t.w], call' = t.calls, script' \in ScriptRec,
         script.minted <= script'.minted, script'.waiting = script.waiting,
         \A c \in Calls : t.calls[c] = call[c] \/ (c \in CallsOf(a) /\ call[c].pc # "script")
  PROVE  BotInv'
<1>1. t \in MintRec /\ t = Of(t.w, t.calls) /\ t.w \in SlotRec /\ t.calls \in [Calls -> CallRec]
  BY DEF SlotOK, Awaits, Rests, Mints, Good, MintRec, Of
<1>2. /\ slot \in [Actions -> SlotRec] /\ call \in [Calls -> CallRec] /\ script \in ScriptRec
      /\ \A b \in Actions : SlotOK(b, Of(slot[b], call), script.minted)
  BY DEF BotInv
<1>3. slot' \in [Actions -> SlotRec]
  BY <1>1, <1>2
<1>4. script.minted \in Nat /\ script'.minted \in Nat
  BY <1>2 DEF ScriptRec
<1>5. \A b \in Actions : SlotOK(b, Of(slot'[b], call'), script'.minted)
  <2> TAKE b \in Actions
  <2>1. CASE b = a
    BY <2>1, <1>1, <1>2
  <2>2. CASE b # a
    <3>1. \A c \in CallsOf(b) : c \in Calls /\ c \notin CallsOf(a)
      BY <2>2 DEF CallsOf
    <3> DEFINE o == Of(slot[b], call)
               w == slot[b]
               m == script.minted
               n == script'.minted
    <3>2. /\ \A c \in CallsOf(b) : t.calls[c] = o.calls[c]
          /\ o.w = w /\ w \in SlotRec /\ SlotOK(b, o, m)
      BY <3>1, <1>2 DEF Of
    <3>3. m \in Nat /\ n \in Nat /\ m <= n
      BY <1>4
    <3>4. Of(slot'[b], call') = Of(w, t.calls)
      BY <1>2, <2>2
    <3> HIDE DEF o, w, m
    <3>5. SlotOK(b, Of(w, t.calls), n)
      <4> HIDE DEF n
      <4> QED BY <3>2, <3>3, <1>1, Bystander
    <3> QED
      BY <3>4, <3>5
  <2> QED
    BY <2>1, <2>2
<1>6. \A b \in Actions :
        /\ NoTwice(script'.waiting[b])
        /\ \A c \in Range(script'.waiting[b]) : ActionOf(c) = b /\ call'[c].pc = "script"
  <2> TAKE b \in Actions
  <2>1. /\ NoTwice(script.waiting[b])
        /\ \A c \in Range(script.waiting[b]) : ActionOf(c) = b /\ call[c].pc = "script"
    BY DEF BotInv
  <2>2. \A c \in Range(script.waiting[b]) : c \in Calls
    <3>1. script.waiting[b] \in Seq(Calls)
      BY <1>2 DEF ScriptRec
    <3> QED
      BY <3>1, ElementOfSeq, LenProperties DEF Range
  <2> QED
    BY <2>1, <2>2
<1> QED
  BY <1>1, <1>3, <1>5, <1>6 DEF BotInv

(* settle(), with the token that was solved or with none.                   *)
LEMMA SettleOK ==
  ASSUME BotInv, NEW a \in Actions, NEW w \in SlotRec, NEW token \in Nat,
         w.pending = slot[a].pending, w.chain = slot[a].chain, w.spent = slot[a].spent,
         w.wasted = slot[a].wasted,
         script' \in ScriptRec, script'.waiting = script.waiting,
         \/ /\ token = NoToken /\ w.held \in {NoToken, slot[a].held}
            /\ script'.minted = script.minted
         \/ token = w.held /\ token = script.minted + 1 /\ script'.minted = token,
         Settle(a, w, token)
  PROVE  BotInv'
<1>t. PICK throws \in BOOLEAN :
        LET rest == [w EXCEPT !.outstanding = FALSE, !.screen = FALSE, !.pending = Nobody]
            s == Of(rest, call)
            after == IF w.pending = Nobody THEN s
                     ELSE RunChain(Resolve(s, w.pending, token), throws)
        IN  slot' = [slot EXCEPT ![a] = after.w] /\ call' = after.calls
  BY Zenon DEF Settle
<1> DEFINE rest == [w EXCEPT !.outstanding = FALSE, !.screen = FALSE, !.pending = Nobody]
           s == Of(rest, call)
           r == Resolve(s, w.pending, token)
           after == IF w.pending = Nobody THEN s ELSE RunChain(r, throws)
           m == script.minted
           n == script'.minted
           p == w.pending
<1>1. slot' = [slot EXCEPT ![a] = after.w] /\ call' = after.calls
  BY <1>t
<1>2. /\ slot \in [Actions -> SlotRec] /\ call \in [Calls -> CallRec] /\ script \in ScriptRec
      /\ SlotOK(a, Of(slot[a], call), m)
  BY DEF BotInv
<1>3. m \in Nat /\ n \in Nat /\ m <= n
  BY <1>2 DEF ScriptRec
<1>4. /\ rest \in SlotRec /\ rest.pending = Nobody /\ rest.chain = w.chain
      /\ rest.spent = w.spent /\ rest.held = w.held /\ ~rest.screen
      /\ rest.wasted = w.wasted
  BY DEF SlotRec
<1>5. s \in MintRec /\ s.w = rest /\ s.calls = call
  BY <1>2, <1>4 DEF Of, MintRec
<1>6. /\ Of(slot[a], call).w = slot[a] /\ Of(slot[a], call).calls = call
  BY DEF Of
<1> HIDE DEF rest, s
<1>7. TokensOK(a, Of(slot[a], call), m) /\ NoTwice(w.chain) /\ ~w.wasted
  BY <1>2, <1>6 DEF SlotOK, Awaits, Rests, Mints, Good
<1>8. \A c \in CallsOf(a) : call[c].token \in Nat
  BY <1>2 DEF CallRec, CallsOf
<1>9. slot[a].held \in Nat /\ slot[a].spent \in Nat /\ w.held \in Nat
  BY <1>2 DEF SlotRec
<1>10. TokensOK(a, s, n)
  BY <1>3, <1>4, <1>5, <1>6, <1>7, <1>8, <1>9 DEF TokensOK, NoToken
<1>11. Good(a, s, n)
  BY <1>4, <1>5, <1>7, <1>10 DEF Good
<1>12. token = NoToken \/ (token = s.w.held /\ \A d \in CallsOf(a) : s.calls[d].token # token)
  BY <1>3, <1>4, <1>5, <1>6, <1>7, <1>8 DEF TokensOK
<1>13. CASE p = Nobody
  <2>1. Rests(a, Of(slot[a], call), m) /\ w.chain = << >>
    BY <1>13, <1>2, <1>6 DEF SlotOK, Awaits
  <2>2. SlotOK(a, s, n)
    BY <2>1, <1>4, <1>5, <1>6, <1>11 DEF SlotOK, Rests
  <2>3. slot' = [slot EXCEPT ![a] = s.w] /\ call' = s.calls
    BY <1>1, <1>13
  <2>4. \A c \in Calls : s.calls[c] = call[c]
    BY <1>5
  <2> QED
    BY <2>2, <2>3, <2>4, <1>3, SlotStep
<1>14. CASE p # Nobody
  <2>1. Mints(a, Of(slot[a], call), m, p)
    BY <1>14, <1>2, <1>6 DEF SlotOK, Awaits, Rests
  <2>2. Mints(a, s, n, p)
    BY <2>1, <1>4, <1>5, <1>6, <1>11 DEF Mints
  <2>3. Rests(a, r, n) /\ Follows(a, s, r)
    BY <2>2, <1>3, <1>12, ResolveOK
  <2> HIDE DEF r
  <2>4. SlotOK(a, RunChain(r, throws), n) /\ Follows(a, r, RunChain(r, throws))
    BY <2>3, <1>3, RunChainOK
  <2>5. \A c \in Calls : \/ RunChain(r, throws).calls[c] = call[c]
                         \/ c \in CallsOf(a) /\ call[c].pc # "script"
    BY <2>3, <2>4, <1>5 DEF Follows, Minting
  <2>6. slot' = [slot EXCEPT ![a] = RunChain(r, throws).w] /\ call' = RunChain(r, throws).calls
    BY <1>1, <1>14
  <2> QED
    BY <2>4, <2>5, <2>6, <1>3, SlotStep
<1> QED
  BY <1>13, <1>14

LEMMA BotTyped ==
  ASSUME BotInv
  PROVE  /\ script \in ScriptRec /\ slot \in [Actions -> SlotRec] /\ call \in [Calls -> CallRec]
         /\ script.minted \in Nat /\ script.waiting \in [Actions -> Seq(Calls)]
         /\ \A a \in Actions : /\ SlotOK(a, Of(slot[a], call), script.minted)
                               /\ script.waiting[a] \in Seq(Calls)
                               /\ Range(script.waiting[a]) \subseteq Calls
<1>1. \A a \in Actions : script.waiting[a] \in Seq(Calls)
  BY DEF BotInv, ScriptRec
<1>2. \A a \in Actions : Range(script.waiting[a]) \subseteq Calls
  BY <1>1, ElementOfSeq, LenProperties DEF Range
<1> QED
  BY <1>1, <1>2 DEF BotInv, ScriptRec

(* Every slot stands as calls that were not minting change.                 *)
LEMMA AllStand ==
  ASSUME BotInv, script' \in ScriptRec, script'.minted = script.minted,
         slot' \in [Actions -> SlotRec], call' \in [Calls -> CallRec],
         \A a \in Actions : \E r \in BOOLEAN : slot'[a] = [slot[a] EXCEPT !.rendered = r],
         \A c \in Calls :
            \/ call'[c] = call[c]
            \/ /\ call[c].pc # "minting" /\ call'[c].pc # "minting"
               /\ call'[c].token \in {NoToken, call[c].token}
  PROVE  \A a \in Actions : SlotOK(a, Of(slot'[a], call'), script'.minted)
<1> TAKE a \in Actions
<1> DEFINE o == Of(slot[a], call)
           w == slot'[a]
           k == call'
           m == script.minted
<1>1. /\ SlotOK(a, o, m) /\ m \in Nat /\ m <= m /\ w \in SlotRec /\ k \in [Calls -> CallRec]
      /\ o.w = slot[a] /\ o.calls = call /\ slot[a] \in SlotRec
  BY BotTyped DEF Of
<1>2. PICK r \in BOOLEAN : w = [slot[a] EXCEPT !.rendered = r]
  OBVIOUS
<1>3. /\ w.pending = o.w.pending /\ w.chain = o.w.chain /\ w.outstanding = o.w.outstanding
      /\ w.spent = o.w.spent /\ w.held = o.w.held /\ w.screen = o.w.screen
      /\ w.wasted = o.w.wasted
  BY <1>1, <1>2 DEF SlotRec
<1>4. \A c \in CallsOf(a) :
            \/ k[c] = o.calls[c]
            \/ /\ o.calls[c].pc # "minting" /\ k[c].pc # "minting"
               /\ k[c].token \in {NoToken, o.calls[c].token}
  BY <1>1 DEF CallsOf
<1> HIDE DEF o, w, k, m
<1>5. SlotOK(a, Of(w, k), m)
  BY <1>1, <1>3, <1>4, Bystander
<1> QED
  BY <1>5 DEF w, k, m

LEMMA LoadTyped ==
  ASSUME BotInv, NEW waiting \in [Actions -> Seq(Calls)], NEW wanted \in SUBSET Actions,
         script.loading \/ script.tries < MaxScriptTries, LoadFor(waiting, wanted)
  PROVE  /\ script' \in ScriptRec /\ script'.minted = script.minted
         /\ script'.waiting = waiting
<1>1. script \in ScriptRec /\ MaxScriptTries \in Nat
  BY BotTyped, BotAssumption
<1> DEFINE n == IF script.loading THEN script.tries ELSE script.tries + 1
<1>2. n \in 0 .. MaxScriptTries
  BY <1>1 DEF ScriptRec
<1>3. script' = [script EXCEPT !.loading = TRUE, !.tries = n, !.waiting = waiting,
                               !.wanted = script.wanted \union wanted]
  BY DEF LoadFor
<1> HIDE DEF n
<1> QED
  BY <1>1, <1>2, <1>3 DEF ScriptRec

LEMMA RefuseFields ==
  ASSUME NEW calls \in [Calls -> CallRec], NEW R
  PROVE  /\ Refuse(calls, R) \in [Calls -> CallRec]
         /\ \A c \in Calls :
              Refuse(calls, R)[c] = IF c \in R THEN [pc |-> "done", token |-> NoToken]
                                    ELSE calls[c]
  BY DEF Refuse, CallRec, NoToken

LEMMA EagerRenderOK ==
  ASSUME BotInv, EagerRender PROVE BotInv'
<1> USE BotTyped
<1>1. ChatAction \in Actions
  BY BotAssumption
<1>2. CASE script.api
  <2>1. slot' = [slot EXCEPT ![ChatAction].rendered = TRUE] /\ UNCHANGED <<script, call>>
    BY <1>2 DEF EagerRender
  <2>2. /\ slot' = [slot EXCEPT ![ChatAction] = [slot[ChatAction] EXCEPT !.rendered = TRUE]]
        /\ slot[ChatAction] \in SlotRec
    BY <1>1, <2>1
  <2>3. [slot[ChatAction] EXCEPT !.rendered = TRUE] \in SlotRec
    BY <2>2 DEF SlotRec
  <2>4. slot' \in [Actions -> SlotRec]
    BY <1>1, <2>2, <2>3
  <2>5. \A a \in Actions : \E r \in BOOLEAN : slot'[a] = [slot[a] EXCEPT !.rendered = r]
    <3> TAKE a \in Actions
    <3>1. CASE a = ChatAction
      BY <3>1, <2>2
    <3>2. CASE a # ChatAction
      <4>1. slot[a] \in SlotRec /\ slot'[a] = slot[a]
        BY <3>2, <2>2
      <4>2. slot[a] = [slot[a] EXCEPT !.rendered = slot[a].rendered] /\ slot[a].rendered \in BOOLEAN
        BY <4>1 DEF SlotRec
      <4> QED
        BY <4>1, <4>2
    <3> QED
      BY <3>1, <3>2
  <2>6. \A a \in Actions : SlotOK(a, Of(slot'[a], call'), script'.minted)
    BY <2>1, <2>4, <2>5, AllStand
  <2> QED
    BY <2>1, <2>4, <2>6 DEF BotInv
<1>3. CASE ~script.api
  <2>1. /\ script.loading \/ script.tries < MaxScriptTries
        /\ LoadFor(script.waiting, {ChatAction}) /\ UNCHANGED <<slot, call>>
    BY <1>3 DEF EagerRender
  <2>2. script' \in ScriptRec /\ script'.minted = script.minted /\ script'.waiting = script.waiting
    <3>1. {ChatAction} \in SUBSET Actions
      BY <1>1
    <3>2. PICK waiting : waiting = script.waiting
      OBVIOUS
    <3>3. LoadFor(waiting, {ChatAction})
      BY <2>1, <3>2
    <3> QED
      BY <2>1, <3>1, <3>2, <3>3, LoadTyped
  <2> QED
    BY <2>1, <2>2 DEF BotInv
<1> QED
  BY <1>2, <1>3

(* Calls that were not minting change, and no slot does.                    *)
LEMMA CallsChange ==
  ASSUME BotInv, script' \in ScriptRec, script'.minted = script.minted, slot' = slot,
         call' \in [Calls -> CallRec],
         \A c \in Calls :
            \/ call'[c] = call[c]
            \/ /\ call[c].pc # "minting" /\ call'[c].pc # "minting"
               /\ call'[c].token \in {NoToken, call[c].token},
         \A a \in Actions :
            /\ NoTwice(script'.waiting[a])
            /\ \A c \in Range(script'.waiting[a]) : ActionOf(c) = a /\ call'[c].pc = "script"
  PROVE  BotInv'
<1>1. slot' \in [Actions -> SlotRec]
  BY BotTyped
<1>2. \A a \in Actions : \E r \in BOOLEAN : slot'[a] = [slot[a] EXCEPT !.rendered = r]
  <2> TAKE a \in Actions
  <2>1. slot[a] \in SlotRec
    BY BotTyped
  <2>2. slot[a] = [slot[a] EXCEPT !.rendered = slot[a].rendered] /\ slot[a].rendered \in BOOLEAN
    BY <2>1 DEF SlotRec
  <2> QED
    BY <2>2
<1>3. \A a \in Actions : SlotOK(a, Of(slot'[a], call'), script'.minted)
  BY <1>1, <1>2, AllStand
<1> QED
  BY <1>1, <1>3 DEF BotInv

LEMMA RefuseOK ==
  ASSUME BotInv, script' \in ScriptRec, script'.minted = script.minted, slot' = slot,
         NEW R, \A c \in R : call[c].pc # "minting",
         call' = Refuse(call, R),
         \A a \in Actions :
            /\ NoTwice(script'.waiting[a])
            /\ \A c \in Range(script'.waiting[a]) :
                 c \in Calls \ R /\ ActionOf(c) = a /\ call[c].pc = "script"
  PROVE  BotInv'
<1>1. /\ call' \in [Calls -> CallRec]
      /\ \A c \in Calls :
           call'[c] = IF c \in R THEN [pc |-> "done", token |-> NoToken] ELSE call[c]
  BY BotTyped, RefuseFields
<1>2. \A c \in Calls :
            \/ call'[c] = call[c]
            \/ /\ call[c].pc # "minting" /\ call'[c].pc # "minting"
               /\ call'[c].token \in {NoToken, call[c].token}
  BY <1>1
<1>3. \A a \in Actions :
            /\ NoTwice(script'.waiting[a])
            /\ \A c \in Range(script'.waiting[a]) : ActionOf(c) = a /\ call'[c].pc = "script"
  BY <1>1
<1> QED
  BY <1>1, <1>2, <1>3, CallsChange

(* A widget renders, and the calls of cs mint.                              *)
LEMMA RenderMintOK ==
  ASSUME BotInv, NEW a \in Actions, NEW cs \in Seq(Calls), NoTwice(cs),
         \A c \in Range(cs) : c \in CallsOf(a) /\ call[c].pc # "minting",
         NEW throws \in BOOLEAN,
         NEW t, t = Mint(Of([slot[a] EXCEPT !.rendered = TRUE], call), cs, throws)
  PROVE  /\ SlotOK(a, t, script.minted)
         /\ \A c \in Calls \ Range(cs) :
              t.calls[c] = call[c] \/ (c \in Minting(a, call) /\ t.calls[c].pc = "done")
<1> DEFINE o == Of(slot[a], call)
           w == [slot[a] EXCEPT !.rendered = TRUE]
           s == Of(w, call)
           m == script.minted
           k == call
<1>1. /\ SlotOK(a, o, m) /\ m \in Nat /\ m <= m /\ k \in [Calls -> CallRec]
      /\ o.w = slot[a] /\ o.calls = k /\ slot[a] \in SlotRec
  BY BotTyped DEF Of
<1>2. /\ w \in SlotRec /\ w.pending = o.w.pending /\ w.chain = o.w.chain
      /\ w.outstanding = o.w.outstanding
      /\ w.spent = o.w.spent /\ w.held = o.w.held /\ w.screen = o.w.screen
      /\ w.wasted = o.w.wasted
  BY <1>1 DEF SlotRec
<1>3. s.calls = k /\ s = Of(w, k) /\ t = Mint(s, cs, throws)
  BY DEF Of
<1>4. \A c \in Range(cs) : c \in CallsOf(a) /\ k[c].pc # "minting"
  OBVIOUS
<1> HIDE DEF o, w, s, m
<1>5. SlotOK(a, s, m)
  <2> HIDE DEF k
  <2> QED BY <1>1, <1>2, <1>3, Bystander
<1>6. /\ SlotOK(a, t, m)
      /\ \A c \in Calls \ Range(cs) :
              \/ t.calls[c] = k[c]
              \/ c \in Minting(a, k) /\ t.calls[c].pc = "done"
  <2> HIDE DEF k
  <2>1. \A c \in Range(cs) : c \in CallsOf(a) /\ s.calls[c].pc # "minting"
    BY <1>3, <1>4
  <2>2. SlotOK(a, Mint(s, cs, throws), m) /\ Joins(a, s, cs, Mint(s, cs, throws))
    BY <1>1, <1>5, <2>1, MintOK
  <2> QED
    BY <1>3, <2>2 DEF Joins
<1> QED
  BY <1>6 DEF m

LEMMA OneCall ==
  ASSUME NEW S, NEW c \in S
  PROVE  <<c>> \in Seq(S) /\ NoTwice(<<c>>) /\ Range(<<c>>) = {c}
  BY DEF NoTwice, Range

LEMMA AskOK ==
  ASSUME BotInv, NEW c \in Calls, Ask(c) PROVE BotInv'
<1> DEFINE a == ActionOf(c)
           rendered == [slot[a] EXCEPT !.rendered = TRUE]
<1>1. a \in Actions /\ c \in CallsOf(a) /\ call[c].pc = "idle"
  BY BotAssumption DEF ActionOf, CallsOf, Ask
<1>2. \A b \in Actions : c \notin Range(script.waiting[b])
  BY <1>1 DEF BotInv
<1>3. ASSUME call' = Refuse(call, {c}), UNCHANGED <<script, slot>> PROVE BotInv'
  <2>1. /\ script' \in ScriptRec /\ script'.minted = script.minted /\ slot' = slot
        /\ \A d \in {c} : call[d].pc # "minting"
    BY <1>1, <1>3, BotTyped
  <2>2. \A b \in Actions :
            /\ NoTwice(script'.waiting[b])
            /\ \A d \in Range(script'.waiting[b]) :
                 d \in Calls \ {c} /\ ActionOf(d) = b /\ call[d].pc = "script"
    BY <1>2, <1>3, BotTyped DEF BotInv
  <2> QED
    BY <1>3, <2>1, <2>2, RefuseOK
<1>4. ASSUME NEW throws \in BOOLEAN, NEW t, t = Mint(Of(rendered, call), <<c>>, throws),
             slot' = [slot EXCEPT ![a] = t.w], call' = t.calls, UNCHANGED script
      PROVE  BotInv'
  <2>1. <<c>> \in Seq(Calls) /\ NoTwice(<<c>>) /\ Range(<<c>>) = {c}
    BY OneCall
  <2>2. /\ SlotOK(a, t, script.minted)
        /\ \A d \in Calls \ {c} :
             t.calls[d] = call[d] \/ (d \in Minting(a, call) /\ t.calls[d].pc = "done")
    <3>1. PICK one : one = <<c>>
      OBVIOUS
    <3>2. /\ one \in Seq(Calls) /\ NoTwice(one) /\ Range(one) = {c}
          /\ t = Mint(Of([slot[a] EXCEPT !.rendered = TRUE], call), one, throws)
      BY <1>4, <2>1, <3>1
    <3>3. \A d \in Range(one) : d \in CallsOf(a) /\ call[d].pc # "minting"
      BY <1>1, <3>2
    <3> HIDE DEF a
    <3> QED
      BY <1>1, <3>2, <3>3, RenderMintOK
  <2>3. \A d \in Calls : t.calls[d] = call[d] \/ (d \in CallsOf(a) /\ call[d].pc # "script")
    BY <1>1, <2>2 DEF Minting
  <2>4. script' \in ScriptRec /\ script.minted <= script'.minted /\ script'.waiting = script.waiting
    BY <1>4, BotTyped
  <2>5. SlotOK(a, t, script'.minted)
    BY <1>4, <2>2
  <2> QED
    BY <1>1, <1>4, <2>3, <2>4, <2>5, SlotStep
<1>5. ASSUME script.loading \/ script.tries < MaxScriptTries, UNCHANGED slot,
             LoadFor([script.waiting EXCEPT ![a] = Append(@, c)], {}),
             call' = [call EXCEPT ![c].pc = "script"]
      PROVE  BotInv'
  <2> DEFINE q == script.waiting[a]
  <2>1. q \in Seq(Calls) /\ NoTwice(q) /\ c \notin Range(q) /\ Range(q) \subseteq Calls
    BY <1>1, <1>2, BotTyped DEF BotInv
  <2>2. /\ Append(q, c) \in Seq(Calls) /\ NoTwice(Append(q, c))
        /\ Range(Append(q, c)) = Range(q) \union {c}
    <3>1. <<c>> \in Seq(Calls) /\ NoTwice(<<c>>) /\ Range(<<c>>) = {c}
      BY OneCall
    <3>2. Append(q, c) = q \o <<c>>
      BY <2>1, AppendIsConcat
    <3> DEFINE one == <<c>>
    <3>3. one \in Seq(Calls) /\ NoTwice(one) /\ Range(one) = {c} /\ Append(q, c) = q \o one
      BY <3>1, <3>2
    <3> HIDE DEF q, one
    <3>4. Range(q) \cap Range(one) = {}
      BY <2>1, <3>3
    <3>5. q \o one \in Seq(Calls) /\ NoTwice(q \o one) /\ Range(q \o one) = Range(q) \union Range(one)
      BY <2>1, <3>3, <3>4, JoinOnce
    <3> QED
      BY <3>3, <3>5
  <2>3. PICK waiting : waiting = [script.waiting EXCEPT ![a] = Append(q, c)]
    OBVIOUS
  <2>4. /\ waiting \in [Actions -> Seq(Calls)] /\ waiting[a] = Append(q, c)
        /\ \A b \in Actions : b # a => waiting[b] = script.waiting[b]
    BY <1>1, <2>2, <2>3, BotTyped
  <2>5. LoadFor(waiting, {})
    BY <1>5, <2>3
  <2>6. script' \in ScriptRec /\ script'.minted = script.minted /\ script'.waiting = waiting
    BY <1>5, <2>4, <2>5, LoadTyped
  <2>7. call[c] \in CallRec /\ call \in [Calls -> CallRec]
    BY BotTyped
  <2>8. [call[c] EXCEPT !.pc = "script"] = [pc |-> "script", token |-> call[c].token]
    BY <2>7 DEF CallRec
  <2>9. call' = [call EXCEPT ![c] = [pc |-> "script", token |-> call[c].token]]
    BY <1>5, <2>8
  <2>10. /\ call' \in [Calls -> CallRec]
         /\ call'[c] = [pc |-> "script", token |-> call[c].token]
         /\ \A d \in Calls : d # c => call'[d] = call[d]
    BY <2>7, <2>9 DEF CallRec
  <2>11. \A d \in Calls :
            \/ call'[d] = call[d]
            \/ /\ call[d].pc # "minting" /\ call'[d].pc # "minting"
               /\ call'[d].token \in {NoToken, call[d].token}
    BY <1>1, <2>10
  <2>12. \A b \in Actions :
            /\ NoTwice(script'.waiting[b])
            /\ \A d \in Range(script'.waiting[b]) : ActionOf(d) = b /\ call'[d].pc = "script"
    <3> TAKE b \in Actions
    <3>1. /\ NoTwice(script.waiting[b])
          /\ \A d \in Range(script.waiting[b]) :
               d \in Calls /\ d # c /\ ActionOf(d) = b /\ call[d].pc = "script"
      BY <1>2, BotTyped DEF BotInv
    <3>2. \A d \in Range(script.waiting[b]) : ActionOf(d) = b /\ call'[d].pc = "script"
      BY <2>10, <3>1
    <3>3. CASE b # a
      BY <3>1, <3>2, <3>3, <2>4, <2>6
    <3>4. CASE b = a
      <4>1. script'.waiting[b] = Append(q, c) /\ q = script.waiting[b]
        BY <3>4, <2>4, <2>6
      <4>2. ActionOf(c) = b /\ call'[c].pc = "script"
        BY <3>4, <2>10
      <4> HIDE DEF q
      <4> QED
        BY <3>2, <4>1, <4>2, <2>2
    <3> QED
      BY <3>3, <3>4
  <2> QED
    BY <1>5, <2>6, <2>10, <2>11, <2>12, CallsChange
<1> QED
  BY <1>3, <1>4, <1>5 DEF Ask

LEMMA NoneWaits ==
  /\ NoneWait \in [Actions -> Seq(Calls)]
  /\ \A a \in Actions : NoTwice(NoneWait[a]) /\ Range(NoneWait[a]) = {}
  BY DEF NoneWait, NoTwice, Range

LEMMA ScriptEndsOK ==
  ASSUME BotInv, NEW loaded \in BOOLEAN, NEW late \in BOOLEAN, ScriptEnds(loaded, late)
  PROVE  BotInv'
<1>1. /\ script' \in ScriptRec /\ script'.minted = script.minted
      /\ script'.waiting = NoneWait
  BY BotTyped, NoneWaits DEF ScriptEnds, ScriptRec
<1>2. \A a \in Actions : NoTwice(script'.waiting[a]) /\ Range(script'.waiting[a]) = {}
  BY <1>1, NoneWaits
<1>3. CASE ~loaded
  <2> DEFINE R == UNION {Range(script.waiting[a]) : a \in Actions}
  <2>1. call' = Refuse(call, R) /\ slot' = slot
    BY <1>3 DEF ScriptEnds
  <2>2. \A c \in R : call[c].pc # "minting"
    BY DEF BotInv
  <2> HIDE DEF R
  <2> QED
    BY <1>1, <1>2, <2>1, <2>2, RefuseOK
<1>4. ASSUME NEW broken \in SUBSET Actions, NEW throws \in SUBSET Actions, GoOn(broken, throws) PROVE BotInv'
  <2> DEFINE asked(a) == a \in script.wanted \/ script.waiting[a] # <<>>
             goes(a) == slot[a].rendered \/ (asked(a) /\ a \notin broken)
             after(a) == IF goes(a)
                         THEN Mint(Of([slot[a] EXCEPT !.rendered = TRUE], call), script.waiting[a],
                                   a \in throws)
                         ELSE Of(slot[a], Refuse(call, Range(script.waiting[a])))
  <2>1. /\ slot' = [a \in Actions |-> after(a).w]
        /\ call' = [c \in Calls |-> after(ActionOf(c)).calls[c]]
    BY <1>4 DEF GoOn
  <2>2. \A a \in Actions : SlotOK(a, after(a), script.minted)
    <3> TAKE a \in Actions
    <3> DEFINE cs == script.waiting[a]
    <3>1. /\ cs \in Seq(Calls) /\ NoTwice(cs) /\ Range(cs) \subseteq Calls
          /\ \A c \in Range(cs) : ActionOf(c) = a /\ call[c].pc = "script"
      BY BotTyped DEF BotInv
    <3>2. CASE goes(a)
      <4>0. PICK th \in BOOLEAN : th = (a \in throws)
        <5>1. (a \in throws) \in BOOLEAN
          OBVIOUS
        <5> QED
          BY <5>1, Zenon
      <4>1. PICK t : t = Mint(Of([slot[a] EXCEPT !.rendered = TRUE], call), cs, th)
        OBVIOUS
      <4>2. \A c \in Range(cs) : c \in CallsOf(a) /\ call[c].pc # "minting"
        BY <3>1 DEF CallsOf
      <4>3. after(a) = t
        BY <3>2, <4>0, <4>1
      <4> HIDE DEF cs, after
      <4>4. SlotOK(a, t, script.minted)
        BY <3>1, <4>1, <4>2, RenderMintOK
      <4> QED
        BY <4>3, <4>4
    <3>3. CASE ~goes(a)
      <4> DEFINE k == Refuse(call, Range(cs))
                 w == slot[a]
                 o == Of(w, call)
                 m == script.minted
      <4>1. /\ k \in [Calls -> CallRec]
            /\ \A c \in Calls :
                 k[c] = IF c \in Range(cs) THEN [pc |-> "done", token |-> NoToken] ELSE call[c]
        BY BotTyped, RefuseFields
      <4>2. /\ w \in SlotRec /\ m \in Nat /\ m <= m /\ SlotOK(a, o, m)
            /\ o.w = w /\ o.calls = call
        BY BotTyped DEF Of
      <4>3. after(a) = Of(w, k)
        BY <3>3
      <4>4. \A c \in CallsOf(a) :
            \/ k[c] = o.calls[c]
            \/ /\ o.calls[c].pc # "minting" /\ k[c].pc # "minting"
               /\ k[c].token \in {NoToken, o.calls[c].token}
        BY <3>1, <4>1, <4>2 DEF CallsOf
      <4> HIDE DEF k, w, o, m, after
      <4>5. SlotOK(a, Of(w, k), m)
        BY <4>1, <4>2, <4>4, Bystander
      <4> QED
        BY <4>3, <4>5 DEF m
    <3> QED
      BY <3>2, <3>3
  <2> HIDE DEF after
  <2>3. \A a \in Actions : /\ after(a) \in MintRec /\ after(a).w \in SlotRec
                           /\ after(a).calls \in [Calls -> CallRec]
    BY <2>2 DEF SlotOK, Awaits, Rests, Mints, Good, MintRec
  <2>4. \A c \in Calls : ActionOf(c) \in Actions
    BY BotAssumption DEF ActionOf
  <2>5. slot' \in [Actions -> SlotRec] /\ call' \in [Calls -> CallRec]
    BY <2>1, <2>3, <2>4
  <2>6. \A a \in Actions : SlotOK(a, Of(slot'[a], call'), script'.minted)
    <3> TAKE a \in Actions
    <3>1. PICK t : t = after(a)
      OBVIOUS
    <3> DEFINE w == slot'[a]
               k == call'
               m == script.minted
    <3>2. /\ SlotOK(a, t, m) /\ m \in Nat /\ m <= m /\ w \in SlotRec /\ w = t.w
          /\ k \in [Calls -> CallRec]
      BY <2>1, <2>2, <2>5, <3>1, BotTyped
    <3>3. \A c \in CallsOf(a) : k[c] = t.calls[c]
      BY <2>1, <3>1 DEF CallsOf
    <3> HIDE DEF w, k, m
    <3>4. SlotOK(a, Of(w, k), m)
      BY <3>2, <3>3, Bystander
    <3> QED
      BY <3>4, <1>1 DEF w, k, m
  <2> QED
    BY <1>1, <1>2, <2>5, <2>6 DEF BotInv
<1> QED
  BY <1>3, <1>4 DEF ScriptEnds

LEMMA WidgetOK ==
  ASSUME BotInv, NEW a \in Actions,
         Solved(a) \/ Failed(a) \/ TokenExpires(a) \/ MintDeadline(a)
  PROVE  BotInv'
<1>1. /\ script \in ScriptRec /\ script.minted \in Nat /\ slot[a] \in SlotRec
      /\ call \in [Calls -> CallRec]
  BY BotTyped
<1> DEFINE o == Of(slot[a], call)
<1>2. o.w = slot[a] /\ o.calls = call /\ SlotOK(a, o, script.minted)
  BY BotTyped DEF Of
<1>3. slot[a].screen => slot[a].outstanding /\ slot[a].held = NoToken
  BY <1>2 DEF SlotOK, Awaits, Rests, Mints, Good
<1>4. CASE Solved(a)
  <2> DEFINE token == script.minted + 1
             w == [slot[a] EXCEPT !.held = token]
  <2>1. Settle(a, w, token) /\ script' = [script EXCEPT !.minted = token]
    BY <1>1, <1>3, <1>4 DEF Solved
  <2>2. /\ script' \in ScriptRec /\ script'.waiting = script.waiting /\ script'.minted = token
        /\ token \in Nat
    BY <1>1, <2>1 DEF ScriptRec
  <2>3. /\ w \in SlotRec /\ w.held = token /\ w.pending = slot[a].pending
        /\ w.chain = slot[a].chain /\ w.spent = slot[a].spent
        /\ w.wasted = slot[a].wasted
    BY <1>1 DEF SlotRec
  <2>4. PICK v, k : v = w /\ k = token
    OBVIOUS
  <2> HIDE DEF w, token
  <2>5. Settle(a, v, k)
    BY <2>1, <2>4
  <2> QED
    BY <2>2, <2>3, <2>4, <2>5, SettleOK DEF token
<1>5. ASSUME NEW v \in SlotRec, Settle(a, v, NoToken), UNCHANGED script,
             v.pending = slot[a].pending, v.chain = slot[a].chain, v.spent = slot[a].spent,
             v.wasted = slot[a].wasted, v.held \in {NoToken, slot[a].held}
      PROVE  BotInv'
  <2>1. PICK k : k = NoToken
    OBVIOUS
  <2>2. Settle(a, v, k) /\ k \in Nat
    BY <1>5, <2>1 DEF NoToken
  <2>3. script' \in ScriptRec /\ script'.waiting = script.waiting /\ script'.minted = script.minted
    BY <1>1, <1>5
  <2> QED
    BY <1>5, <2>1, <2>2, <2>3, SettleOK
<1>6. CASE Failed(a)
  <2>1. PICK v : v = slot[a]
    OBVIOUS
  <2>2. Settle(a, v, NoToken) /\ UNCHANGED script
    BY <1>6, <2>1 DEF Failed
  <2> QED
    BY <1>1, <1>5, <2>1, <2>2
<1>7. CASE TokenExpires(a)
  <2>1. PICK v : v = [slot[a] EXCEPT !.held = NoToken]
    OBVIOUS
  <2>2. Settle(a, v, NoToken) /\ UNCHANGED script
    BY <1>7, <2>1 DEF TokenExpires
  <2>3. /\ v \in SlotRec /\ v.held = NoToken /\ v.pending = slot[a].pending
        /\ v.chain = slot[a].chain /\ v.spent = slot[a].spent
        /\ v.wasted = slot[a].wasted
    BY <1>1, <2>1 DEF SlotRec, NoToken
  <2> QED
    BY <1>5, <2>2, <2>3
<1>8. CASE MintDeadline(a)
  <2>0. PICK throws \in BOOLEAN :
          LET s == RunChain(Resolve(Of(slot[a], call), slot[a].pending, NoToken), throws)
          IN  slot' = [slot EXCEPT ![a] = s.w] /\ call' = s.calls
    BY <1>8 DEF MintDeadline
  <2> DEFINE p == slot[a].pending
             r == Resolve(o, p, NoToken)
             m == script.minted
             t == RunChain(r, throws)
  <2>1. p # Nobody /\ slot' = [slot EXCEPT ![a] = t.w] /\ call' = t.calls /\ UNCHANGED script
    BY <1>8, <2>0 DEF MintDeadline
  <2>2. Mints(a, o, m, p)
    BY <1>2, <2>1 DEF SlotOK, Awaits, Rests
  <2> HIDE DEF o, p
  <2>3. Rests(a, r, m) /\ Follows(a, o, r)
    BY <1>1, <2>2, ResolveOK
  <2> HIDE DEF r
  <2>4. SlotOK(a, t, m) /\ Follows(a, r, t)
    BY <1>1, <2>3, RunChainOK
  <2>5. \A c \in Calls : t.calls[c] = call[c] \/ (c \in CallsOf(a) /\ call[c].pc # "script")
    BY <1>2, <2>3, <2>4 DEF Follows, Minting
  <2> HIDE DEF t
  <2>6. script' \in ScriptRec /\ script.minted <= script'.minted /\ script'.waiting = script.waiting
    BY <1>1, <2>1
  <2>7. SlotOK(a, t, script'.minted)
    BY <2>1, <2>4
  <2> QED
    BY <2>1, <2>5, <2>6, <2>7, SlotStep
<1> QED
  BY <1>4, <1>6, <1>7, <1>8

LEMMA BotInitially ==
  ASSUME BotInit PROVE BotInv
<1>1. script \in ScriptRec /\ slot \in [Actions -> SlotRec] /\ call \in [Calls -> CallRec]
  BY BotAssumption, NoneWaits DEF BotInit, ScriptRec, SlotRec, CallRec, NoToken
<1>2. \A a \in Actions : NoTwice(script.waiting[a]) /\ Range(script.waiting[a]) = {}
  BY NoneWaits DEF BotInit
<1>3. ASSUME NEW a \in Actions PROVE SlotOK(a, Of(slot[a], call), script.minted)
  <2> DEFINE s == Of(slot[a], call)
  <2>1. s \in MintRec /\ s.w = slot[a] /\ s.calls = call
    BY <1>1 DEF Of, MintRec
  <2>2. /\ slot[a].pending = Nobody /\ slot[a].chain = << >> /\ slot[a].spent = 0
        /\ slot[a].held = 0 /\ ~slot[a].screen /\ ~slot[a].wasted /\ script.minted = 0
        /\ \A c \in CallsOf(a) : call[c].token = 0 /\ call[c].pc = "idle"
    BY DEF BotInit, NoToken, CallsOf
  <2> HIDE DEF s
  <2>3. TokensOK(a, s, script.minted)
    BY <2>1, <2>2 DEF TokensOK, NoToken
  <2>4. NoTwice(<< >>) /\ Range(<< >>) = {}
    BY DEF NoTwice, Range
  <2>5. Good(a, s, script.minted)
    BY <2>1, <2>2, <2>3, <2>4 DEF Good
  <2>6. Minting(a, s.calls) = {}
    BY <2>1, <2>2 DEF Minting
  <2>7. Rests(a, s, script.minted) /\ s.w.chain = << >>
    BY <2>1, <2>2, <2>4, <2>5, <2>6 DEF Rests
  <2>8. SlotOK(a, s, script.minted)
    BY <2>7 DEF SlotOK
  <2> QED
    BY <2>8 DEF s
<1> QED
  BY <1>1, <1>2, <1>3 DEF BotInv

LEMMA BotStep ==
  ASSUME BotInv, [Next]_vars PROVE BotInv'
<1>1. CASE UNCHANGED bot
  BY <1>1 DEF BotInv, bot
<1>2. ASSUME NEW c \in Calls, AskForToken(c) PROVE BotInv'
  BY <1>2, AskOK DEF AskForToken
<1>3. CASE BotNext
  <2>1. CASE EagerRender
    BY <2>1, EagerRenderOK
  <2>2. ASSUME NEW loaded \in BOOLEAN, NEW late \in BOOLEAN, ScriptEnds(loaded, late)
        PROVE  BotInv'
    BY <2>2, ScriptEndsOK
  <2>3. CASE ScriptArrivesLate
    <3>1. /\ script' \in ScriptRec /\ script'.minted = script.minted
          /\ script'.waiting = script.waiting /\ UNCHANGED <<slot, call>>
      BY <2>3, BotTyped DEF ScriptArrivesLate, ScriptRec
    <3> QED
      BY <3>1 DEF BotInv
  <2>4. ASSUME NEW a \in Actions, Solved(a) \/ Failed(a) \/ TokenExpires(a) \/ MintDeadline(a)
        PROVE  BotInv'
    BY <2>4, WidgetOK
  <2> QED
    BY <1>3, <2>1, <2>2, <2>3, <2>4 DEF BotNext
<1> QED
  BY <1>1, <1>2, <1>3 DEF Next, vars

LEMMA TokenPays ==
  ASSUME BotInv PROVE TokenPaysOnce
<1>1. /\ script \in ScriptRec /\ slot \in [Actions -> SlotRec] /\ call \in [Calls -> CallRec]
      /\ \A c \in Calls : ActionOf(c) \in Actions
  BY BotTyped, BotAssumption DEF ActionOf
<1>2. ASSUME NEW a \in Actions
      PROVE  LET w == slot[a] IN
             /\ w.pending \in Calls \union {Nobody}
             /\ w.pending # Nobody => call[w.pending].pc = "minting" /\ w.outstanding
             /\ w.chain # <<>> => w.pending # Nobody
             /\ {c \in Calls : call[c].pc = "minting" /\ ActionOf(c) = a}
                  = Range(w.chain) \union ({w.pending} \ {Nobody})
             /\ (w.screen => w.outstanding) /\ ~w.wasted
             /\ TokensOK(a, Of(w, call), script.minted)
  <2> DEFINE s == Of(slot[a], call)
  <2>1. s.w = slot[a] /\ s.calls = call /\ SlotOK(a, s, script.minted)
    BY BotTyped DEF Of
  <2>2. slot[a].pending \in Calls \union {Nobody}
    BY <1>1 DEF SlotRec
  <2>3. {c \in Calls : call[c].pc = "minting" /\ ActionOf(c) = a} = Minting(a, call)
    BY DEF Minting, CallsOf
  <2>4. /\ (slot[a].screen => slot[a].outstanding) /\ ~slot[a].wasted
        /\ TokensOK(a, s, script.minted)
    BY <2>1 DEF SlotOK, Awaits, Rests, Mints, Good
  <2>5. CASE Awaits(a, s, script.minted)
    <3> DEFINE p == slot[a].pending
    <3>1. /\ p # Nobody /\ slot[a].outstanding /\ p \in CallsOf(a)
          /\ Minting(a, call) = Range(slot[a].chain) \union {p}
      BY <2>1, <2>5 DEF Awaits, Mints
    <3>2. call[p].pc = "minting"
      BY <3>1 DEF Minting
    <3> HIDE DEF s
    <3> QED
      BY <2>2, <2>3, <2>4, <3>1, <3>2 DEF s
  <2>6. CASE Rests(a, s, script.minted) /\ slot[a].chain = << >>
    <3>1. slot[a].pending = Nobody /\ Minting(a, call) = Range(slot[a].chain)
      BY <2>1, <2>6 DEF Rests
    <3> QED
      BY <2>2, <2>3, <2>4, <2>6, <3>1
  <2> QED
    BY <2>1, <2>5, <2>6 DEF SlotOK
<1>3. BotTypeOK
  <2>1. script.tries \in 0 .. MaxScriptTries
    BY <1>1 DEF ScriptRec
  <2>2. \A c \in Calls : call[c].pc \in {"idle", "script", "minting", "done"}
    BY <1>1 DEF CallRec
  <2> QED
    BY <1>2, <2>1, <2>2 DEF BotTypeOK
<1>4. \A c, d \in Calls :
        (c # d /\ ActionOf(c) = ActionOf(d) /\ call[c].token # NoToken)
          => call[c].token # call[d].token
  <2> SUFFICES ASSUME NEW c \in Calls, NEW d \in Calls, c # d, ActionOf(c) = ActionOf(d),
                      call[c].token # NoToken
               PROVE  call[c].token # call[d].token
    OBVIOUS
  <2> DEFINE a == ActionOf(c)
  <2>1. c \in CallsOf(a) /\ d \in CallsOf(a)
    BY DEF CallsOf
  <2>2. TokensOK(a, Of(slot[a], call), script.minted) /\ Of(slot[a], call).calls = call
    BY <1>1, <1>2 DEF Of
  <2> QED
    BY <2>1, <2>2 DEF TokensOK
<1> QED
  BY <1>2, <1>3, <1>4 DEF TokenPaysOnce

(*************************************************************************)
(* A token pays for one send: no two calls of turnstile.js's getToken are  *)
(* given the same one, whatever became of the challenges, the deadlines    *)
(* and the expiries between them, for any number of calls; and the         *)
(* challenge on screen is never reset away.                                *)
(*************************************************************************)
THEOREM OneSendPerToken == Spec => []TokenPaysOnce
<1>1. Init => BotInv
  BY BotInitially DEF Init
<1>2. BotInv /\ [Next]_vars => BotInv'
  BY BotStep
<1>3. BotInv => TokenPaysOnce
  BY TokenPays
<1> QED
  BY <1>1, <1>2, <1>3, PTL DEF Spec
=============================================================================
