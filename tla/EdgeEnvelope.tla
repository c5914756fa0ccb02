---------------------------- MODULE EdgeEnvelope ----------------------------
(***************************************************************************)
(* The one reply shape of the edge functions: functions/api/_lib/          *)
(* envelope.js, and the refusal every route answers (upstream.js).  The    *)
(* routes send no free text, so the scrubbed message is left out.          *)
(***************************************************************************)
EXTENDS EdgeConfig, Sequences, TLC

StatusFor == [
    rate_limited |-> 429, at_capacity |-> 503, budget_exhausted |-> 503,
    upstream_down |-> 503, gateway_unreachable_or_gated |-> 503,
    gateway_not_configured |-> 503, timeout |-> 504,
    bad_request |-> 400, too_long |-> 400, too_short |-> 400, bad_ticket |-> 400,
    blocked |-> 200, forbidden_origin |-> 403,
    turnstile_failed |-> 403, turnstile_misconfigured |-> 503]

Reasons == DOMAIN StatusFor

\* Seconds, where the route itself names none; zero: no header.
RetryAfterFor(reason) ==
    CASE reason = "at_capacity" -> 15
      [] reason \in {"upstream_down", "gateway_unreachable_or_gated",
                     "turnstile_misconfigured"} -> 60
      [] reason = "timeout" -> 10
      [] OTHER -> 0

\* ok, busy from 60% of the ceiling on, full at it.
LoadLevel(inflight, capacity) ==
    CASE inflight >= capacity -> "full"
      [] inflight < capacity /\ 10 * inflight >= 6 * capacity -> "busy"
      [] OTHER -> "ok"

\* What a reply says of the deployment, whatever else it says.
Standing(load) == [
    load |-> [level |-> LoadLevel(load.inflight, load.capacity),
              inflight |-> load.inflight, capacity |-> load.capacity],
    limits |-> PublicLimits, voice |-> HasVoice, ears |-> HasEars]

Silent == [turnstile |-> "", messages |-> <<>>, speech |-> {}, context |-> "",
           transcript |-> "", diagram |-> "", cited |-> ""]

\* Every public key and no other; a reason outside the closed set is ours.
PublicKeys ==
    {"ok", "degraded", "reason", "retry_after_s", "mode", "load", "limits", "turnstile",
     "messages", "speech", "context", "transcript", "voice", "ears", "diagram", "cited"}

InClosedSet(reason) == IF reason \in Reasons \union {"none"} THEN reason ELSE "bad_request"

Envelope(fields, load) ==
    LET why == InClosedSet(fields.reason)
        plain == [ok |-> why \in {"none", "blocked"}, degraded |-> why # "none"]
        standing == Standing(load)
        said(k) == CASE k \in DOMAIN fields -> fields[k]
                     [] k \in DOMAIN plain \ DOMAIN fields -> plain[k]
                     [] k \in DOMAIN standing \ DOMAIN fields -> standing[k]
                     [] OTHER -> Silent[k] IN
    [k \in PublicKeys |-> IF k = "reason" THEN why ELSE said(k)]

\* The reply: its status, its Retry-After (zero: none) and its body.
Respond(fields, load) ==
    LET body == Envelope(fields, load) IN
    [status |-> IF body.reason = "none" THEN 200 ELSE StatusFor[body.reason],
     retryAfter |-> IF body.reason = "none" THEN 0
                    ELSE IF body.retry_after_s > 0 THEN body.retry_after_s
                    ELSE RetryAfterFor(body.reason),
     body |-> body]

\* refusal(): the envelope of a route that spends nothing more on the visitor.
Refusal(reason, retry) ==
    [ok |-> FALSE, degraded |-> TRUE, reason |-> reason, retry_after_s |-> retry,
     mode |-> "degraded"]

=============================================================================
