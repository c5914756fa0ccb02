------------------------------ MODULE EdgeAudio ------------------------------
(***************************************************************************)
(* Bytes that claim to be sound: the utterance a browser uploads and the   *)
(* voice the gateway returns (functions/api/_lib: wav.js, body.js, and the *)
(* container and transcript checks of transcribe.js).                      *)
(*                                                                         *)
(* A body is what its first bytes say it is, the chunks a RIFF header      *)
(* announces and how many bytes arrived.  Rates are multiples of 25 Hz.    *)
(***************************************************************************)
EXTENDS EdgeConfig, Sequences, SequencesExt, FiniteSets

\* The magic numbers: "sync" is the frame sync of an mp3 without a tag; "json",
\* "html" and "text" are documents, "none" is anything else, as samples are.
Body(magic, chunks, bytes, type) ==
    [magic |-> magic, chunks |-> chunks, bytes |-> bytes, type |-> type]

Fmt(format, channels, rate, bits) ==
    [id |-> "fmt", size |-> 16, format |-> format, channels |-> channels, rate |-> rate, bits |-> bits]
Data(size) == [id |-> "data", size |-> size]
Chunk(id, size) == [id |-> id, size |-> size]

NoFmt == [id |-> "none"]

-----------------------------------------------------------------------------
(* RIFF                                                                     *)

\* The chunks in order, odd ones padded, until one is cut short: of a data
\* chunk that is, what arrived counts.  The first or the last fmt is kept.
WalkRiff(body, firstFmt) ==
    LET Walk(s, c) ==
          LET at == s.pos + 8
              left == body.bytes - at IN
          CASE s.cut \/ left < 0 -> [s EXCEPT !.cut = TRUE]
            [] ~s.cut /\ left >= 0 /\ c.size > left ->
                  [s EXCEPT !.cut = TRUE, !.data = IF c.id = "data" /\ @ < 0 THEN left ELSE @]
            [] OTHER ->
                  [s EXCEPT !.pos = at + c.size + (c.size % 2),
                            !.fmt = IF c.id = "fmt" /\ c.size >= 16 /\ ~(firstFmt /\ @ # NoFmt)
                                    THEN c ELSE @,
                            !.data = IF c.id = "data" /\ @ < 0 THEN c.size ELSE @] IN
    Fold(Walk, [pos |-> 12, fmt |-> NoFmt, data |-> -1, cut |-> FALSE], body.chunks)

\* Milliseconds, to the nearest; -1: the header says nothing of it.
Lasting(body, riff) ==
    LET channels == IF riff.fmt.channels = 0 THEN 1 ELSE riff.fmt.channels
        bits == (riff.fmt.rate \div 25) * channels * riff.fmt.bits IN
    IF body.magic # "wav" \/ riff.fmt = NoFmt \/ riff.data <= 0 \/ bits = 0 THEN -1
    ELSE (640 * riff.data + bits) \div (2 * bits)
WavDurationMs(body) == Lasting(body, WalkRiff(body, TRUE))

SttWav == [format |-> 1, bits |-> 16, channels |-> 1 .. 2, rate |-> 8000 .. 48000]

ProblemOf(ms, fmt) ==
    CASE ms < 0 -> "unreadable"
      [] ms >= 0 /\ fmt.format # SttWav.format -> "format"
      [] ms >= 0 /\ fmt.bits # SttWav.bits -> "bit_depth"
      [] ms >= 0 /\ fmt.channels \notin SttWav.channels -> "channels"
      [] ms >= 0 /\ fmt.rate \notin SttWav.rate -> "sample_rate"
      [] OTHER -> "none"
SttWavProblem(body) == ProblemOf(WavDurationMs(body), WalkRiff(body, TRUE).fmt)

-----------------------------------------------------------------------------
(* The utterance                                                            *)

\* The containers the route forwards, by magic number, else by what the browser
\* declares; an mp3 shows a tag or a frame sync.
KindByMagic == [wav |-> "wav", webm |-> "webm", ogg |-> "ogg", mp4 |-> "mp4",
                flac |-> "flac", mp3 |-> "mp3", sync |-> "mp3"]
DeclaredTypes == SttContainers

AudioKind(body) ==
    IF body.bytes >= 12 /\ body.magic \in DOMAIN KindByMagic THEN KindByMagic[body.magic]
    ELSE IF body.type \in DeclaredTypes THEN body.type
    ELSE "none"

\* Unread if it declares too many bytes, and counted once it is read.
ReadAudioBody(body) ==
    CASE body.bytes > IntOf("DEMO_MAX_AUDIO_BYTES") -> "too_long"
      [] body.bytes < IntOf("DEMO_MIN_AUDIO_BYTES") -> "too_short"
      [] OTHER -> "none"

\* A container this gateway takes; of a WAV, not too long and one it can decode.
RefusalOfClip(body) ==
    LET bounds == ReadAudioBody(body)
        kind == AudioKind(body)
        wave == bounds = "none" /\ kind = "wav" /\ kind \in SttFormats IN
    CASE bounds # "none" -> bounds
      [] bounds = "none" /\ kind \notin SttFormats -> "bad_request"
      [] wave /\ WavDurationMs(body) > IntOf("DEMO_MAX_RECORD_MS") -> "too_long"
      [] wave /\ WavDurationMs(body) <= IntOf("DEMO_MAX_RECORD_MS")
              /\ SttWavProblem(body) # "none" -> "bad_request"
      [] OTHER -> "none"

\* What was heard: nothing where only the names of sounds are left, and cut to
\* the input cap.  A transcript is its length and whether words are in it.
CleanTranscript(heard) ==
    IF ~heard.words THEN [size |-> 0, truncated |-> FALSE]
    ELSE IF heard.size > IntOf("DEMO_MAX_INPUT_CHARS")
    THEN [size |-> IntOf("DEMO_MAX_INPUT_CHARS"), truncated |-> TRUE]
    ELSE [size |-> heard.size, truncated |-> FALSE]

-----------------------------------------------------------------------------
(* The voice                                                                *)

\* Why a body is no audio.
NoAudio(kind) == [ok |-> FALSE, kind |-> kind]
Audio(size, rate, channels) ==
    [ok |-> TRUE, kind |-> "none", size |-> size, rate |-> rate, channels |-> channels]

Within(n, low, high) == IF n < low THEN low ELSE IF n > high THEN high ELSE n

\* Containers it can name but not decode.
ForeignContainers == {"webm", "ogg", "flac", "mp3", "mp4"}

\* Samples without a header, where they were asked for: whole, and not prose.
RawSamples(body, format) ==
    IF body.magic \in ForeignContainers \/ format # "pcm" \/ body.bytes % 2 # 0 \/ body.magic = "text"
    THEN NoAudio("unreadable")
    ELSE Audio(body.bytes, IntOf("DEMO_TTS_SAMPLE_RATE"), 1)

\* Samples with a header of their own: its rate and channels, within bounds.
WaveSamples(body) ==
    LET riff == WalkRiff(body, FALSE) IN
    CASE riff.fmt = NoFmt \/ riff.data <= 0 -> NoAudio("unreadable")
      [] riff.fmt # NoFmt /\ riff.data > 0 /\ riff.fmt.bits # 16 -> NoAudio("bit_depth")
      [] OTHER -> Audio(riff.data,
                        Within(IF riff.fmt.rate = 0 THEN IntOf("DEMO_TTS_SAMPLE_RATE")
                               ELSE riff.fmt.rate, 3000, 384000),
                        Within(riff.fmt.channels, 1, 8))

\* By its bytes, never by its declared type.
PcmFromAudio(body, format) ==
    CASE body.bytes = 0 -> NoAudio("empty")
      [] body.bytes > 0 /\ body.magic \in {"json", "html"} -> NoAudio(body.magic)
      [] body.bytes > 0 /\ body.magic = "wav" -> WaveSamples(body)
      [] OTHER -> RawSamples(body, format)

\* What the audio cache stores: the same samples in a header of ours.
WriteWav(audio) ==
    Body("wav", <<Fmt(1, audio.channels, audio.rate, 16), Data(audio.size)>>, 44 + audio.size, "")

-----------------------------------------------------------------------------
(* What is promised of both                                                 *)

\* Headers to measure the promises with: two formats and no channels at all, a
\* chunk to skip, and data that says how long it is, before and after each other.
ProbedChunks == {Fmt(1, 1, 16000, 16), Fmt(1, 2, 8000, 16), Fmt(6, 1, 8000, 8), Fmt(1, 0, 8000, 16),
                 Chunk("LIST", 5), Data(64000)}
ProbedBodies ==
    {Body("wav", chunks, bytes, "") :
        chunks \in UNION {[1 .. n -> ProbedChunks] : n \in 1 .. 3},
        bytes \in {40, 16044, 64100}}

\* Where a chunk begins by the layout of RIFF, what came of it, and which of a kind
\* were reached: without walking them.
BeginsAt(body, i) ==
    LET spans == [c \in DOMAIN body.chunks |-> 8 + body.chunks[c].size + (body.chunks[c].size % 2)] IN
    20 + SumFunctionOnSet(spans, 1 .. i - 1)
Came(body, i) ==
    LET left == body.bytes - BeginsAt(body, i) IN
    IF body.chunks[i].size > left THEN left ELSE body.chunks[i].size
Reached(body, id) ==
    {i \in DOMAIN body.chunks : body.chunks[i].id = id /\ Came(body, i) >= 0}

\* wav.js: a WAV is charged for the time the bytes that came play, to the nearest
\* millisecond and however many its header claims, so nothing passes for shorter or
\* longer than it is; it goes unmeasured only if no format or no data came; and only
\* what decoders of speech read is fit.
WavesAreMeasured ==
    \A body \in ProbedBodies :
        LET ms == WavDurationMs(body)
            formats == {i \in Reached(body, "fmt") : Came(body, i) = body.chunks[i].size}
            samples == {i \in Reached(body, "data") : Came(body, i) > 0} IN
        IF formats = {} \/ samples = {}
        THEN ms < 0 /\ SttWavProblem(body) = "unreadable"
        ELSE LET fmt == body.chunks[Min(formats)]
                 rate == fmt.rate * fmt.bits * (IF fmt.channels = 0 THEN 1 ELSE fmt.channels)
                 off == ms * rate - 8000 * Came(body, Min(samples)) IN
             /\ 0 - rate <= 2 * off /\ 2 * off <= rate
             /\ (SttWavProblem(body) = "none")
                = (fmt.bits = 16 /\ fmt.format = 1 /\ fmt.channels \in 1 .. 2)

\* ttscache.js: what is stored decodes to what was stored.
StoredIsPlayed ==
    \A sound \in {Audio(2, 3000, 1), Audio(480, 48000, 8)} :
        PcmFromAudio(WriteWav(sound), "wav") = sound

=============================================================================
