----------------------------- MODULE EdgeConfig -----------------------------
(***************************************************************************)
(* What a deployment of the edge functions is set up to do:                *)
(* functions/api/_lib/env.js, the one reader of the DEMO_* variables.      *)
(*                                                                         *)
(* Env holds the variables that are set; an empty or blank value reads as  *)
(* unset.  Credentials are told apart only as set and unset.               *)
(***************************************************************************)
EXTENDS Integers, Sequences, TLC

CONSTANT Env            \* variable -> what the deployment sets it to

\* A number has a whole part and tenths; a model's name ends in a word or not;
\* a list has parts.
Number(n) == [is |-> "number", whole |-> n, tenths |-> 0]
Word(w) == [is |-> "word", word |-> w]
Model(tail) == [is |-> "model", tail |-> tail]
List(parts) == [is |-> "list", parts |-> parts]

\* A function by its values, so that they are worked out once.
Tabled(f) == f @@ <<>>

\* What `op` makes of a sequence from the left: FoldLeft by prefixes, for the same
\* reason.
Fold(op(_, _), base, s) ==
    LET upTo[k \in 0 .. Len(s)] == IF k = 0 THEN base ELSE op(upTo[k - 1], s[k]) IN
    upTo[Len(s)]

ASSUME EnvAssumption ==
    \A v \in DOMAIN Env :
        /\ Env[v].is \in {"number", "word", "model", "list"}
        /\ Env[v].is = "number" => Env[v].whole \in Int /\ Env[v].tenths \in 0 .. 9

-----------------------------------------------------------------------------
(* One variable                                                             *)

\* DEFAULTS.
Default == [
    DEMO_TTS_SAMPLE_RATE |-> 22050,     DEMO_MAX_TOKENS |-> 160,
    DEMO_MAX_INPUT_CHARS |-> 500,       DEMO_MAX_TTS_CHARS |-> 300,
    DEMO_MAX_CONTEXT_CHARS |-> 4000,    DEMO_MAX_HISTORY_TURNS |-> 12,
    DEMO_MAX_AUDIO_BYTES |-> 500000,    DEMO_MIN_AUDIO_BYTES |-> 2000,
    DEMO_MAX_RECORD_MS |-> 15000,
    DEMO_CHAT_PER_MIN |-> 5,            DEMO_CHAT_PER_HOUR |-> 40,
    DEMO_CHAT_PER_DAY |-> 150,
    DEMO_SPEECH_PER_MIN |-> 10,         DEMO_SPEECH_PER_HOUR |-> 80,
    DEMO_STT_PER_MIN |-> 10,            DEMO_STT_PER_HOUR |-> 60,
    DEMO_MAX_CONCURRENT_CHAT |-> 4,     DEMO_MAX_CONCURRENT_SPEECH |-> 8,
    DEMO_QUEUE_MAX_WAIT_MS |-> 2500,    DEMO_QUEUE_MAX_DEPTH |-> 8,
    DEMO_CACHE_TIMEOUT_MS |-> 250,
    DEMO_TTS_CACHE_TTL_S |-> 86400,     DEMO_TTS_CACHE_TIMEOUT_MS |-> 1000,
    DEMO_UNIT_BUDGET_HOUR |-> 600,      DEMO_UNIT_BUDGET_DAY |-> 4000,
    DEMO_CHAT_TIMEOUT_MS |-> 20000,     DEMO_SPEECH_TIMEOUT_MS |-> 12000,
    DEMO_STT_TIMEOUT_MS |-> 12000,
    DEMO_TICKET_TTL_S |-> 60,           DEMO_TURNSTILE_TIMEOUT_MS |-> 2000]

\* The least and the most readConfig lets each of them be.
Bounds == [
    DEMO_TTS_SAMPLE_RATE |-> <<3000, 384000>>,    DEMO_MAX_TOKENS |-> <<1, 4096>>,
    DEMO_MAX_INPUT_CHARS |-> <<1, 20000>>,        DEMO_MAX_TTS_CHARS |-> <<1, 20000>>,
    DEMO_MAX_CONTEXT_CHARS |-> <<0, 100000>>,     DEMO_MAX_HISTORY_TURNS |-> <<0, 64>>,
    DEMO_MAX_AUDIO_BYTES |-> <<1, 50000000>>,     DEMO_MIN_AUDIO_BYTES |-> <<0, 50000000>>,
    DEMO_MAX_RECORD_MS |-> <<1000, 600000>>,
    DEMO_CHAT_PER_MIN |-> <<1, 100000>>,          DEMO_CHAT_PER_HOUR |-> <<1, 1000000>>,
    DEMO_CHAT_PER_DAY |-> <<1, 10000000>>,
    DEMO_SPEECH_PER_MIN |-> <<1, 100000>>,        DEMO_SPEECH_PER_HOUR |-> <<1, 1000000>>,
    DEMO_STT_PER_MIN |-> <<1, 100000>>,           DEMO_STT_PER_HOUR |-> <<1, 1000000>>,
    DEMO_MAX_CONCURRENT_CHAT |-> <<1, 10000>>,    DEMO_MAX_CONCURRENT_SPEECH |-> <<1, 10000>>,
    DEMO_QUEUE_MAX_WAIT_MS |-> <<0, 10000>>,      DEMO_QUEUE_MAX_DEPTH |-> <<0, 1000>>,
    DEMO_CACHE_TIMEOUT_MS |-> <<10, 2000>>,
    DEMO_TTS_CACHE_TTL_S |-> <<60, 604800>>,      DEMO_TTS_CACHE_TIMEOUT_MS |-> <<50, 5000>>,
    DEMO_UNIT_BUDGET_HOUR |-> <<0, 100000000>>,   DEMO_UNIT_BUDGET_DAY |-> <<0, 100000000>>,
    DEMO_CHAT_TIMEOUT_MS |-> <<1000, 120000>>,    DEMO_SPEECH_TIMEOUT_MS |-> <<1000, 120000>>,
    DEMO_STT_TIMEOUT_MS |-> <<1000, 120000>>,
    DEMO_TICKET_TTL_S |-> <<5, 3600>>,            DEMO_TURNSTILE_TIMEOUT_MS |-> <<100, 10000>>]

IsSet(v) == v \in DOMAIN Env

\* A cap: a whole number in its range, and the default for anything else.
IntOf(v) ==
    IF IsSet(v) /\ Env[v].is = "number" /\ Env[v].tenths = 0 /\ Env[v].whole \in Bounds[v][1] .. Bounds[v][2]
    THEN Env[v].whole
    ELSE Default[v]

\* A penalty in tenths: a number from -2 to 2, and 0.4 or 0.3 for anything else.
PenaltyOf(v) ==
    LET tenths == 10 * Env[v].whole + Env[v].tenths IN
    IF IsSet(v) /\ Env[v].is = "number" /\ tenths \in -20 .. 20 THEN tenths
    ELSE IF v = "DEMO_FREQUENCY_PENALTY" THEN 4 ELSE 3

\* A switch: off by one of four words, on by any other value.
SwitchOf(v, default) ==
    IF IsSet(v)
    THEN Env[v] \notin {Number(0), Word("false"), Word("no"), Word("off")}
    ELSE default

\* One word of a closed set, and its default for anything else.
ChoiceOf(v, choices, default) ==
    IF IsSet(v) /\ Env[v] \in {Word(w) : w \in choices} THEN Env[v].word ELSE default

\* The parts of a list; an unset one has none.
PartsOf(v) == IF IsSet(v) /\ Env[v].is = "list" THEN Env[v].parts ELSE {}

-----------------------------------------------------------------------------
(* The configuration                                                        *)

RequiredForLive == {"DEMO_GATEWAY_BASE_URL", "DEMO_GATEWAY_API_KEY", "DEMO_CHAT_MODEL"}
AccessVars == {"DEMO_GATEWAY_ACCESS_CLIENT_ID", "DEMO_GATEWAY_ACCESS_CLIENT_SECRET"}
TurnstileVars == {"DEMO_TURNSTILE_SECRET", "DEMO_TURNSTILE_SITEKEY"}

Complete(pair) == \A v \in pair : IsSet(v)

\* Both or neither: the half that a pair lacks.
LackingHalf(pair) == {v \in pair : ~IsSet(v) /\ \E w \in pair : IsSet(w)}

Missing ==
    {v \in RequiredForLive : ~IsSet(v)} \union LackingHalf(AccessVars) \union LackingHalf(TurnstileVars)

Enabled == SwitchOf("DEMO_ENABLED", TRUE)
Configured == Enabled /\ Missing = {}

HasVoice == Configured /\ IsSet("DEMO_TTS_MODEL")
HasEars == Configured /\ IsSet("DEMO_STT_MODEL")

\* The voice field the gateway insists on: named, or the word the model's name
\* ends in, or OpenAI's.
VoiceForModel(m) == IF m.is = "model" /\ m.tail # "" THEN m.tail ELSE "alloy"

TtsVoice ==
    IF IsSet("DEMO_TTS_VOICE") THEN Env["DEMO_TTS_VOICE"].word
    ELSE IF IsSet("DEMO_TTS_MODEL") THEN VoiceForModel(Env["DEMO_TTS_MODEL"]) ELSE ""

TtsFormat == ChoiceOf("DEMO_TTS_FORMAT", {"wav", "pcm"}, "wav")
PromptLayout == ChoiceOf("DEMO_PROMPT_LAYOUT", {"anchor", "single"}, "anchor")

SttContainers == {"wav", "webm", "ogg", "mp4", "mp3", "flac"}

\* The containers the gateway is believed to take: never none.
SttFormats ==
    LET named == PartsOf("DEMO_STT_FORMATS") \intersect SttContainers IN
    IF named = {} THEN {"wav"} ELSE named

\* A part is a bare host, or a URL and then its origin.
AllowedOrigins == {part.origin : part \in PartsOf("DEMO_ALLOWED_ORIGINS")}
TurnstileHosts == {part.host : part \in PartsOf("DEMO_TURNSTILE_HOSTS")}

\* The bot control is on with its pair, whatever else is missing, and the page
\* is told the sitekey only then.
Guarded == Complete(TurnstileVars)
PublicTurnstile == IF Guarded THEN "sitekey" ELSE ""

\* A penalty of zero is not sent.
Penalties ==
    PenaltyOf("DEMO_FREQUENCY_PENALTY") # 0 \/ PenaltyOf("DEMO_PRESENCE_PENALTY") # 0

\* What every upstream call presents.
UpstreamHeaders ==
    {"Authorization"} \union
        (IF Complete(AccessVars) THEN {"CF-Access-Client-Id", "CF-Access-Client-Secret"} ELSE {})

\* The mode this configuration supports, given whether the budget is spent.
ModeOf(exhausted) ==
    CASE ~Configured -> [mode |-> "degraded", reason |-> "gateway_not_configured"]
      [] Configured /\ exhausted -> [mode |-> "degraded", reason |-> "budget_exhausted"]
      [] OTHER -> [mode |-> "live", reason |-> "none"]

\* A route is open: for a turn, and for the voice and the ears with a model.
Open(route) ==
    CASE route = "speech" -> HasVoice
      [] route = "transcribe" -> HasEars
      [] OTHER -> ModeOf(FALSE).mode = "live"

\* The caps the page is told, and must obey.
PublicLimits == [
    max_input_chars |-> IntOf("DEMO_MAX_INPUT_CHARS"),
    max_tts_chars |-> IntOf("DEMO_MAX_TTS_CHARS"),
    max_tokens |-> IntOf("DEMO_MAX_TOKENS"),
    chat_per_min |-> IntOf("DEMO_CHAT_PER_MIN"),
    max_record_ms |-> IntOf("DEMO_MAX_RECORD_MS"),
    max_audio_bytes |-> IntOf("DEMO_MAX_AUDIO_BYTES"),
    min_audio_bytes |-> IntOf("DEMO_MIN_AUDIO_BYTES")]

=============================================================================
