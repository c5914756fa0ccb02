----------------------------- MODULE EdgeGateway -----------------------------
(***************************************************************************)
(* What a route makes of the gateway's answer to its one call              *)
(* (functions/api/_lib/upstream.js and the callGateway of chat.js,         *)
(* speech.js and transcribe.js).                                           *)
(*                                                                         *)
(* A reply is what became of the fetch, a status, whether the body is a    *)
(* page by its type, whether it parses, and what is in it: a completion,   *)
(* a voice's bytes, or what was heard.                                     *)
(***************************************************************************)
EXTENDS EdgePrompt, EdgeAudio

GatewayReply(status, page, json, content) ==
    [sent |-> "answered", status |-> status, page |-> page, json |-> json, content |-> content]
Completes(raw) == GatewayReply(200, FALSE, TRUE, raw)
Speaks(body) == GatewayReply(200, FALSE, FALSE, body)
Hears(size, words) == GatewayReply(200, FALSE, TRUE, [size |-> size, words |-> words])
LoginPage == GatewayReply(200, TRUE, FALSE, <<>>)
Status(code) == GatewayReply(code, FALSE, TRUE, <<>>)
Unsent(how) == [sent |-> how, status |-> 0]         \* "timeout" or "failed"

\* The gateway's own limiter, and a redirect nobody follows.
LimitedOrRedirected(status) ==
    CASE status = 429 -> "rate_limited"
      [] status \in 300 .. 399 -> "gateway_unreachable_or_gated"
      [] OTHER -> "none"

\* What every route says before it looks at the body.
EarlyOutcome(reply) ==
    CASE reply.sent = "timeout" -> "timeout"
      [] reply.sent = "failed" -> "upstream_down"
      [] OTHER -> LimitedOrRedirected(reply.status)

Fine(status) == status \in 200 .. 299

\* A completion to serve, a page that is a login, or nothing to say.
ChatOutcome(reply) ==
    IF ~Fine(reply.status) THEN "upstream_down"
    ELSE IF reply.page /\ (~reply.json \/ reply.content = <<>>) THEN "gateway_unreachable_or_gated"
    ELSE IF ~reply.json \/ Serve(reply.content).text = <<>> THEN "upstream_down"
    ELSE "none"

\* Sound, or a body that is none; a page is told apart by its bytes.
SpeechOutcome(reply) ==
    LET audio == PcmFromAudio(reply.content, TtsFormat) IN
    IF ~Fine(reply.status) THEN "upstream_down"
    ELSE IF audio.kind = "html" THEN "gateway_unreachable_or_gated"
    ELSE IF ~audio.ok THEN "upstream_down"
    ELSE "none"

\* Whose fault a status is: these bytes', or the deployment's.
ReasonForUpstreamStatus(status) ==
    CASE status = 413 -> "too_long"
      [] status \in 400 .. 499 \ {401, 403, 407, 413, 429} -> "bad_request"
      [] OTHER -> "upstream_down"

\* Words or silence; a page is a login whatever its status.
EarsOutcome(reply) ==
    IF reply.page THEN "gateway_unreachable_or_gated"
    ELSE IF ~Fine(reply.status) THEN ReasonForUpstreamStatus(reply.status)
    ELSE IF ~reply.json \/ reply.content = <<>> THEN "upstream_down"
    ELSE "none"

\* What the body is worth, unless that was said before it was looked at.
EarlyOr(reply, later) == IF EarlyOutcome(reply) = "none" THEN later ELSE EarlyOutcome(reply)

-----------------------------------------------------------------------------
(* What is sent                                                             *)

\* The one string that comes from a visitor is one we wrote and signed.
BuildSpeechBody(text) ==
    [model |-> "tts", input |-> text, format |-> TtsFormat, voice |-> TtsVoice]

\* No key and no redirect leaves with it: the bytes, the model and a file name.
BuildTranscribeForm(clip) ==
    [model |-> "stt", response |-> "json", file |-> AudioKind(clip)]

=============================================================================
