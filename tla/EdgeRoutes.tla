---------------------------- MODULE EdgeRoutes ----------------------------
(***************************************************************************)
(* What the three spending routes of the edge functions do with the slot   *)
(* EdgeAdmission grants them: /api/chat (one turn, its voice tickets and   *)
(* the signed history of the next turn), /api/speech (one ticket, one      *)
(* voice) and /api/transcribe (the ears); functions/api/chat.js, speech.js *)
(* and transcribe.js with the parts of functions/api/_lib they call.       *)
(*                                                                         *)
(* One action is one stretch between two awaits that leave the process:    *)
(* the body, siteverify, the docs lookup, the gateway, the audio cache.    *)
(* Signing and verifying are local and belong to the stretch they are in.  *)
(***************************************************************************)
EXTENDS EdgeAdmission, EdgeGateway, EdgeSafety

CONSTANTS
    Sayings,            \* what children say, by name
    Clips,              \* what microphones upload
    BadBodies,          \* route -> reasons a body nobody could read is refused for
    Replies,            \* route -> what the gateway may answer
    Tokens,             \* the tokens browsers obtained
    WidgetOf,           \* token -> the action and host of the widget that solved it
    Troubles,           \* what siteverify may answer instead of a verdict
    Lifetime,           \* ticks a ticket and a context stay valid
    SpentMax,           \* redeemed tickets an isolate remembers
    Elsewhere,          \* contexts other isolates signed before the run
    Posted,             \* tickets they signed, perhaps under other caps
    Nobody              \* no line, no token, no ticket, no context

\* What a body may be refused for unread, or for a field that is not ours: no
\* context or ticket can be forged.
UnreadJson == {"too_long", "bad_request"}
UnreadBody == [chat |-> UnreadJson, speech |-> UnreadJson \union {"bad_ticket"},
               transcribe |-> {"too_long", "bad_request"}]

Completions ==
    {reply.content : reply \in
        {x \in Replies["chat"] : EarlyOutcome(x) = "none" /\ ChatOutcome(x) = "none"}}

ASSUME RoutesAssumption ==
    /\ \A rt \in Routes : BadBodies[rt] \subseteq UnreadBody[rt]
    /\ \A raw \in Completions : WellShaped(raw)
    /\ \A k \in Tokens : WidgetOf[k].action \in {"chat", "transcribe"}
    /\ \A says \in Troubles : ~says.success
    /\ Lifetime \in Nat /\ SpentMax \in Nat \ {0}
    /\ \A s \in DOMAIN Sayings : Sayings[s].size \in Nat /\ Sayings[s].draws \in BOOLEAN

\* The switches of the routes beside admission's.
Reroll == SwitchOf("DEMO_REROLL", TRUE)
TtsCache == SwitchOf("DEMO_TTS_CACHE", TRUE) /\ HasCache

\* The lines a completion may serve, with their chunks and sizes, the sayings
\* that are goodbyes, and how each reply of the gateway ends.
Servings == {Serve(raw) : raw \in Completions}
Texts == {line.text : line \in Servings}
ChunksOf == Tabled([text \in Texts |-> SplitForSpeech(text)])
SizeOf == Tabled([text \in Texts |-> Size(text)])
Leaving == Tabled([s \in DOMAIN Sayings |-> IsGoodbye(Sayings[s])])
ChatOutcomes == Tabled([x \in Replies["chat"] |-> EarlyOr(x, ChatOutcome(x))])
SpeechOutcomes == Tabled([x \in Replies["speech"] |-> EarlyOr(x, SpeechOutcome(x))])
EarsOutcomes == Tabled([x \in Replies["transcribe"] |-> EarlyOr(x, EarsOutcome(x))])
Outcome == [chat |-> ChatOutcomes, speech |-> SpeechOutcomes, transcribe |-> EarsOutcomes]

VARIABLES
    turn,       \* where each request's route stands
    penaltiesOk,\* isolate -> it still sends the penalty fields
    spent,      \* isolate -> the tickets redeemed here
    audio,      \* the colo's audio cache: the texts it holds the voice of
    tickets,    \* the voice tickets signed so far
    contexts,   \* the context blobs signed so far
    used        \* the tokens Cloudflare has already seen

routeVars == <<turn, penaltiesOk, spent, audio, tickets, contexts, used>>
vars == <<admissionVars, routeVars>>

Unread == [leg |-> "body", calls |-> 0, retries |-> 0, said |-> Nobody, clip |-> Nobody,
           history |-> <<>>, token |-> Nobody, bot |-> "none", ticket |-> Nobody,
           asked |-> Nobody, first |-> Nobody, answer |-> Nobody]

InLeg(r, leg) == req[r].pc = "granted" /\ turn[r].leg = leg

-----------------------------------------------------------------------------
(* The ways out of a route                                                  *)

\* A refusal that spent nothing: the units go back, then the slot.
SpentNothing(r, reason) ==
    /\ RefundUnits(r)
    /\ HandOffOrRelease(IsolateOf[r], RouteOf[r])
    /\ req' = WithHandOff([req EXCEPT ![r] =
                  [@ EXCEPT !.pc = "done", !.reason = reason,
                            !.refunded = TRUE, !.times = 0]],
                IsolateOf[r], RouteOf[r])
    /\ UNCHANGED <<now, windows, ledger, entry, stray>>

\* The turn that ends keeps only what the properties compare.
Ended(t) ==
    [t EXCEPT !.leg = "over", !.said = Nobody, !.clip = Nobody, !.asked = Nobody,
              !.token = IF t.bot = "verified" THEN @ ELSE Nobody]

\* An answer or a refusal of a request whose units were really spent.
Done(r, reason) ==
    /\ Release(r, reason)
    /\ turn' = [turn EXCEPT ![r] = Ended(@)]

\* A route whose model is not set says so before admission: nothing is charged.
RefuseUnready(r) ==
    /\ req[r].pc = "new"
    /\ ~Open(RouteOf[r])
    /\ req' = [req EXCEPT ![r] = Refused([Idle EXCEPT !.at = now], "gateway_not_configured")]
    /\ turn' = [turn EXCEPT ![r] = Ended(@)]
    /\ UNCHANGED <<now, windows, budget, ledger, inflight, waiters, entry, stray,
                   penaltiesOk, spent, audio, tickets, contexts, used>>

-----------------------------------------------------------------------------
(* Signed artefacts                                                         *)

Alive(x) == now <= x.at + Lifetime

\* The history a context stands for; one that expired stands for none.
HistoryOf(c) == IF c # Nobody /\ Alive(c) THEN c.history ELSE <<>>

\* echoOf: the line is one Moxie's side of the history holds.
Echo(line, history) ==
    \E k \in DOMAIN history :
        /\ history[k].role = "assistant"
        /\ Norm(history[k].text) # <<>>
        /\ Norm(history[k].text) = Norm(line.text)

\* One ticket for each chunk of a line, if there is a voice to redeem it with.
MintTickets(event, text) ==
    IF ~HasVoice THEN {}
    ELSE LET chunks == ChunksOf[text] IN
         {[event |-> event, words |-> chunks[k], chunk |-> k - 1, at |-> now] : k \in DOMAIN chunks}

User(s) == [role |-> "user", said |-> s, size |-> Sayings[s].size]
Assistant(text) == [role |-> "assistant", text |-> text, size |-> SizeOf[text]]

MintContext(history, s, text) ==
    [history |-> ClampTurns(history \o <<User(s), Assistant(text)>>), at |-> now]

\* One fetch: counted, with what was asked.
Calling(t, leg, asked) == [t EXCEPT !.leg = leg, !.calls = @ + 1, !.asked = asked]

\* The body of a turn: with the penalty fields while the isolate believes in them.
Asking(r, avoid, passage) ==
    BuildUpstreamBody(turn[r].history, Sayings[turn[r].said], avoid, passage,
                      penaltiesOk[IsolateOf[r]])

-----------------------------------------------------------------------------
(* The body                                                                 *)

\* A body that cannot be read, a context or a ticket that is none of ours.
RefuseBody(r) ==
    /\ InLeg(r, "body")
    /\ \E reason \in BadBodies[RouteOf[r]] : SpentNothing(r, reason)
    /\ turn' = [turn EXCEPT ![r] = Ended(@)]
    /\ UNCHANGED <<penaltiesOk, spent, audio, tickets, contexts, used>>

\* What a line is refused for; and what the floor says of it.
RefusalOfText(s) ==
    CASE Sayings[s].size = 0 -> "too_short"
      [] Sayings[s].size > IntOf("DEMO_MAX_INPUT_CHARS") -> "too_long"
      [] OTHER -> "none"
Verdict == Tabled([s \in DOMAIN Sayings |-> Assess(Sayings[s].tokens, Sayings[s].size)])

RefuseText(r) ==
    /\ RouteOf[r] = "chat"
    /\ InLeg(r, "body")
    /\ \E s \in DOMAIN Sayings :
          RefusalOfText(s) # "none" /\ SpentNothing(r, RefusalOfText(s))
    /\ turn' = [turn EXCEPT ![r] = Ended(@)]
    /\ UNCHANGED <<penaltiesOk, spent, audio, tickets, contexts, used>>

\* The floor answers in the deployment's own words, for free.
BlockText(r) ==
    /\ RouteOf[r] = "chat"
    /\ InLeg(r, "body")
    /\ SpentNothing(r, "blocked")
    /\ \E s \in DOMAIN Sayings :
          /\ RefusalOfText(s) = "none" /\ Verdict[s].blocked
          /\ turn' = [turn EXCEPT ![r] =
                        [Ended(@) EXCEPT !.said = s, !.answer = Verdict[s].redirect]]
    /\ UNCHANGED <<penaltiesOk, spent, audio, tickets, contexts, used>>

\* What a clip is refused for.
ClipRefusal == Tabled([clip \in Clips |-> RefusalOfClip(clip)])

NextLegAfterBody == IF Guarded THEN "bot" ELSE "ready"

\* A turn's body: the text passes, the context is one of ours or absent.
ReadChat(r) ==
    /\ RouteOf[r] = "chat"
    /\ InLeg(r, "body")
    /\ \E s \in DOMAIN Sayings, c \in contexts \union {Nobody}, tok \in Tokens \union {Nobody} :
          /\ RefusalOfText(s) = "none" /\ ~Verdict[s].blocked
          /\ turn' = [turn EXCEPT ![r] = [@ EXCEPT !.leg = NextLegAfterBody, !.said = s,
                        !.history = HistoryOf(c), !.token = tok]]
    /\ UNCHANGED <<admissionVars, penaltiesOk, spent, audio, tickets, contexts, used>>

RefuseClip(r) ==
    /\ RouteOf[r] = "transcribe"
    /\ InLeg(r, "body")
    /\ \E clip \in Clips :
          ClipRefusal[clip] # "none" /\ SpentNothing(r, ClipRefusal[clip])
    /\ turn' = [turn EXCEPT ![r] = Ended(@)]
    /\ UNCHANGED <<penaltiesOk, spent, audio, tickets, contexts, used>>

\* An utterance's body: the container, the format and the length pass.
ReadAudio(r) ==
    /\ RouteOf[r] = "transcribe"
    /\ InLeg(r, "body")
    /\ \E clip \in Clips, tok \in Tokens \union {Nobody} :
          /\ ClipRefusal[clip] = "none"
          /\ turn' = [turn EXCEPT ![r] =
                        [@ EXCEPT !.leg = NextLegAfterBody, !.clip = clip, !.token = tok]]
    /\ UNCHANGED <<admissionVars, penaltiesOk, spent, audio, tickets, contexts, used>>

\* A ticket that expired, one over a cap lowered since, one redeemed here.
TooLong(t) == Size(t.words) > IntOf("DEMO_MAX_TTS_CHARS")

RefusalOfTicket(t, i) ==
    CASE ~Alive(t) -> "bad_ticket"
      [] Alive(t) /\ TooLong(t) -> "too_long"
      [] Alive(t) /\ ~TooLong(t) /\ t \in spent[i] -> "bad_ticket"
      [] OTHER -> "none"

RefuseTicket(r) ==
    /\ RouteOf[r] = "speech"
    /\ InLeg(r, "body")
    /\ \E t \in tickets :
          /\ RefusalOfTicket(t, IsolateOf[r]) # "none"
          /\ SpentNothing(r, RefusalOfTicket(t, IsolateOf[r]))
    /\ turn' = [turn EXCEPT ![r] = Ended(@)]
    /\ UNCHANGED <<penaltiesOk, spent, audio, tickets, contexts, used>>

\* Mutant: the ticket is not remembered.
MutTicketForgotten(i, t) == UNCHANGED spent

\* A good ticket is marked before anything is awaited.
MarkSpent(i, t) ==
    spent' = [spent EXCEPT ![i] = (IF Cardinality(@) >= SpentMax THEN {} ELSE @) \union {t}]

Redeem(r) ==
    /\ RouteOf[r] = "speech"
    /\ InLeg(r, "body")
    /\ \E t \in tickets :
          /\ RefusalOfTicket(t, IsolateOf[r]) = "none"
          /\ MarkSpent(IsolateOf[r], t)
          /\ turn' = [turn EXCEPT ![r] =
                IF TtsCache THEN [@ EXCEPT !.ticket = t, !.leg = "cache"]
                ELSE [Calling(@, "call", BuildSpeechBody(t.words)) EXCEPT !.ticket = t]]
    /\ UNCHANGED <<admissionVars, penaltiesOk, audio, tickets, contexts, used>>

-----------------------------------------------------------------------------
(* The bot control                                                          *)

\* No token: refused without asking Cloudflare.
NoToken(r) ==
    /\ InLeg(r, "bot")
    /\ turn[r].token = Nobody
    /\ SpentNothing(r, "turnstile_failed")
    /\ turn' = [turn EXCEPT ![r] = Ended(@)]
    /\ UNCHANGED <<penaltiesOk, spent, audio, tickets, contexts, used>>

\* Mutant: every route accepts the widget of a typed turn.
MutOneActionForAll(rt) == "chat"

\* The widget action a route demands of a token.
ActionFor(rt) == rt

\* Cloudflare's verdict on a token: yes once, whoever presents it.
CloudflareSays(r) ==
    [sent |-> TRUE, ok |-> TRUE, codes |-> {}, success |-> turn[r].token \notin used,
     action |-> WidgetOf[turn[r].token].action, host |-> WidgetOf[turn[r].token].host]

OurFaultCodes == {"missing-input-secret", "invalid-input-secret", "bad-request"}
TheirFaultCodes == {"internal-error"}
OurFault(says) == says.codes \intersect OurFaultCodes # {}

HostAllowed(r, host) ==
    IF TurnstileHosts # {} THEN host \in TurnstileHosts ELSE host = HeadersOf[r].self

\* The three checks of a reply that is a verdict.
CheckVerdict(r, says) ==
    CASE ~says.success -> IF OurFault(says) THEN "misconfigured" ELSE "failed"
      [] says.success /\ says.action # ActionFor(RouteOf[r]) -> "failed"
      [] says.success /\ says.action = ActionFor(RouteOf[r]) ->
            IF HostAllowed(r, says.host) THEN "verified" ELSE "misconfigured"

\* No answer, a broken one and an error of theirs let the visitor through; an
\* error that names our secret or our request does not.
OutcomeOfVerify(r, says) ==
    CASE ~says.sent -> "unreachable"
      [] says.sent /\ ~says.ok -> IF OurFault(says) THEN "misconfigured" ELSE "unreachable"
      [] says.sent /\ says.ok ->
            IF says.codes \intersect TheirFaultCodes # {} THEN "unreachable"
            ELSE CheckVerdict(r, says)

\* Whether a token was used up is not known after trouble.
AskCloudflare(r, says) ==
    IF says \in Troubles
    THEN used' = used \/ used' = used \union {turn[r].token}
    ELSE used' = used \union {turn[r].token}

Verify(r) ==
    /\ InLeg(r, "bot")
    /\ turn[r].token # Nobody
    /\ \E says \in Troubles \union {CloudflareSays(r)} :
          LET outcome == OutcomeOfVerify(r, says) IN
          /\ AskCloudflare(r, says)
          /\ IF outcome \in {"verified", "unreachable"}
             THEN /\ turn' = [turn EXCEPT ![r] = [@ EXCEPT !.leg = "ready", !.bot = outcome]]
                  /\ UNCHANGED admissionVars
             ELSE /\ SpentNothing(r, IF outcome = "failed" THEN "turnstile_failed"
                                     ELSE "turnstile_misconfigured")
                  /\ turn' = [turn EXCEPT ![r] = Ended(@)]
    /\ UNCHANGED <<penaltiesOk, spent, audio, tickets, contexts>>

-----------------------------------------------------------------------------
(* The gateway                                                              *)

\* The docs lookup, for a line that asks how she works, is over, with the passage
\* it found or without one: the first call.
CallChat(r) ==
    /\ RouteOf[r] = "chat"
    /\ InLeg(r, "ready")
    /\ \E passage \in {"none", Sayings[turn[r].said].docs} :
          turn' = [turn EXCEPT ![r] = Calling(@, "call", Asking(r, <<>>, passage))]
    /\ UNCHANGED <<admissionVars, penaltiesOk, spent, audio, tickets, contexts, used>>

CallEars(r) ==
    /\ RouteOf[r] = "transcribe"
    /\ InLeg(r, "ready")
    /\ turn' = [turn EXCEPT ![r] = Calling(@, "call", BuildTranscribeForm(turn[r].clip))]
    /\ UNCHANGED <<admissionVars, penaltiesOk, spent, audio, tickets, contexts, used>>

\* A 400 blamed on the penalty fields: the body carried them, and the isolate
\* still believes in them.
MayRetry(r) ==
    /\ RouteOf[r] = "chat"
    /\ InLeg(r, "call") \/ InLeg(r, "reroll")
    /\ turn[r].asked.penalties
    /\ penaltiesOk[IsolateOf[r]]

Blames(r, reply) == reply.status = 400 /\ MayRetry(r)

\* One call more, without them.
Retrying(t) ==
    [t EXCEPT !.calls = @ + 1, !.retries = @ + 1, !.asked.penalties = FALSE]

RetryPlain(r) ==
    /\ MayRetry(r)
    /\ \E reply \in Replies["chat"] : Blames(r, reply)
    /\ penaltiesOk' = [penaltiesOk EXCEPT ![IsolateOf[r]] = FALSE]
    /\ turn' = [turn EXCEPT ![r] = Retrying(@)]
    /\ UNCHANGED <<admissionVars, spent, audio, tickets, contexts, used>>

\* Mutant: a failed call is treated as a refusal that spent nothing.
MutFailureRefunded(r) ==
    /\ InLeg(r, "call")
    /\ \E reply \in Replies[RouteOf[r]] :
          /\ Outcome[RouteOf[r]][reply] # "none" /\ ~Blames(r, reply)
          /\ SpentNothing(r, Outcome[RouteOf[r]][reply])
    /\ turn' = [turn EXCEPT ![r] = Ended(@)]
    /\ UNCHANGED <<penaltiesOk, spent, audio, tickets, contexts, used>>

GatewayFails(r) ==
    /\ InLeg(r, "call")
    /\ \E reply \in Replies[RouteOf[r]] :
          /\ Outcome[RouteOf[r]][reply] # "none" /\ ~Blames(r, reply)
          /\ Done(r, Outcome[RouteOf[r]][reply])
    /\ UNCHANGED <<penaltiesOk, spent, audio, tickets, contexts, used>>

-----------------------------------------------------------------------------
(* Chat: the reply, and the one re-roll                                     *)

\* What the visitor is shown and told of a line: its text, its face and
\* picture, whether the conversation is over, and the passage it draws on.
Message(line, said, passage) ==
    LET closing == Leaving[said] IN
    [text |-> line.text, picture |-> line.picture,
     face |-> MarkupFloor(line, IF closing THEN SignOff ELSE ""),
     ends |-> closing, cited |-> passage]

\* Mutant: the voice tickets are minted for the line that was re-rolled.
MutVoiceOfTheFirst(r, line, asked) ==
    LET t == turn[r] IN
    /\ Release(r, "none")
    /\ turn' = [turn EXCEPT ![r] = [Ended(@) EXCEPT
                  !.answer = Message(line, t.said, t.asked.passage), !.asked = asked]]
    /\ tickets' = tickets \union
                    MintTickets(r, IF t.first = Nobody THEN line.text ELSE t.first.line.text)
    /\ contexts' = contexts \union {MintContext(t.history, t.said, line.text)}
    /\ UNCHANGED <<penaltiesOk, spent, audio, used>>

\* The line with its face and picture, its voice and what is remembered of it.
\* `asked` is the body the line answers.
Reply(r, line, asked) ==
    LET t == turn[r] IN
    /\ Release(r, "none")
    /\ turn' = [turn EXCEPT ![r] = [Ended(@) EXCEPT
                  !.answer = Message(line, t.said, t.asked.passage), !.asked = asked]]
    /\ tickets' = tickets \union MintTickets(r, line.text)
    /\ contexts' = contexts \union {MintContext(t.history, t.said, line.text)}
    /\ UNCHANGED <<penaltiesOk, spent, audio, used>>

\* What a re-roll needs beside time: the switch, an echo, and the units.
WantsReroll(r, line) == Reroll /\ Echo(line, turn[r].history)

FirstReply(r) ==
    /\ RouteOf[r] = "chat"
    /\ InLeg(r, "call")
    /\ \E line \in Servings :
          \/ Reply(r, line, turn[r].asked)      \* no echo, no time left, or no units
          \/ /\ WantsReroll(r, line)
             /\ ChargeExtra(r)
             /\ turn' = [turn EXCEPT ![r] =
                   [Calling(@, "reroll", Asking(r, line.text, turn[r].asked.passage))
                    EXCEPT !.first = [line |-> line, asked |-> turn[r].asked]]]
             /\ UNCHANGED <<penaltiesOk, spent, audio, tickets, contexts, used>>

\* The second line is served unless it repeats anything; whatever else came of
\* the second call keeps the first.
SecondReply(r) ==
    LET first == turn[r].first
        second == {line \in Servings : ~Echo(line, turn[r].history)} IN
    /\ InLeg(r, "reroll")
    /\ \E kept \in {first} \union {[line |-> line, asked |-> turn[r].asked] : line \in second} :
          Reply(r, kept.line, kept.asked)

-----------------------------------------------------------------------------
(* Speech and ears                                                          *)

\* A piece of speech: its text, the voice being the deployment's.
Voice(t) == t.words

Spoken(r) ==
    /\ Release(r, "none")
    /\ turn' = [turn EXCEPT ![r] = [Ended(@) EXCEPT !.answer = Voice(turn[r].ticket)]]

\* Mutant: the cache is read without a deadline, and never answers a miss.
MutCacheHangs(r) ==
    /\ InLeg(r, "cache")
    /\ Voice(turn[r].ticket) \in audio
    /\ Spoken(r)
    /\ UNCHANGED <<penaltiesOk, spent, audio, tickets, contexts, used>>

\* A hit is played for nothing; a miss, or an entry too late, too old or broken,
\* is synthesised.
CacheAnswers(r) ==
    LET words == Voice(turn[r].ticket) IN
    /\ InLeg(r, "cache")
    /\ \/ words \in audio /\ Spoken(r)
       \/ /\ turn' = [turn EXCEPT ![r] = Calling(@, "call", BuildSpeechBody(words))]
          /\ UNCHANGED admissionVars
    /\ UNCHANGED <<penaltiesOk, spent, audio, tickets, contexts, used>>

Synthesised(r) ==
    /\ RouteOf[r] = "speech"
    /\ InLeg(r, "call")
    /\ \E reply \in Replies["speech"] : Outcome["speech"][reply] = "none"
    /\ IF TtsCache
       THEN /\ turn' = [turn EXCEPT ![r].leg = "store"]
            /\ UNCHANGED admissionVars
       ELSE Spoken(r)
    /\ UNCHANGED <<penaltiesOk, spent, audio, tickets, contexts, used>>

\* The write lands or not; the visitor has the audio either way.
StoreOver(r) ==
    /\ InLeg(r, "store")
    /\ \/ audio' = audio \union {Voice(turn[r].ticket)}
       \/ UNCHANGED audio
    /\ Spoken(r)
    /\ UNCHANGED <<penaltiesOk, spent, tickets, contexts, used>>

Transcribed(r) ==
    /\ RouteOf[r] = "transcribe"
    /\ InLeg(r, "call")
    /\ \E reply \in Replies["transcribe"] :
          /\ Outcome["transcribe"][reply] = "none"
          /\ Release(r, "none")
          /\ turn' = [turn EXCEPT ![r] =
                        [Ended(@) EXCEPT !.answer = CleanTranscript(reply.content)]]
    /\ UNCHANGED <<penaltiesOk, spent, audio, tickets, contexts, used>>

-----------------------------------------------------------------------------
(* What the visitor gets                                                    *)

Live == [ok |-> TRUE, degraded |-> FALSE, reason |-> "none", retry_after_s |-> 0, mode |-> "live"]

\* What each route adds to the reply of a live one.
Contents(r) ==
    CASE RouteOf[r] = "chat" ->
            [messages |-> <<turn[r].answer.text>>,
             speech |-> {t \in tickets \ Posted : t.event = r},
             diagram |-> turn[r].answer.picture, cited |-> turn[r].answer.cited,
             turnstile |-> PublicTurnstile, context |-> "signed"]
      [] RouteOf[r] = "speech" -> [messages |-> <<turn[r].answer>>]
      [] RouteOf[r] = "transcribe" -> [transcript |-> turn[r].answer]

\* The reply of a request that is over.
ReplyOf(r) ==
    LET load == LoadOf(IsolateOf[r], RouteOf[r])
        why == req[r].reason IN
    CASE why = "none" -> Respond(Contents(r) @@ Live, load)
      [] why = "blocked" ->
            Respond([messages |-> <<turn[r].answer>>, degraded |-> TRUE, reason |-> "blocked",
                     turnstile |-> PublicTurnstile] @@ Live, load)
      [] OTHER -> Respond(Refusal(why, 0), load)

-----------------------------------------------------------------------------

RoutesInit ==
    /\ AdmissionInit
    /\ turn = [r \in Requests |-> Unread]
    /\ penaltiesOk = [i \in Isolates |-> TRUE]
    /\ spent = [i \in Isolates |-> {}]
    /\ audio = {}
    /\ tickets = Posted
    /\ contexts = Elsewhere
    /\ used = {}

\* What a request with a slot does next.
RouteAction(r) ==
    \/ RefuseBody(r)
    \/ RefuseText(r)
    \/ BlockText(r)
    \/ ReadChat(r)
    \/ RefuseClip(r)
    \/ ReadAudio(r)
    \/ RefuseTicket(r)
    \/ Redeem(r)
    \/ NoToken(r)
    \/ Verify(r)
    \/ CallChat(r)
    \/ CallEars(r)
    \/ GatewayFails(r)
    \/ RetryPlain(r)
    \/ FirstReply(r)
    \/ SecondReply(r)
    \/ CacheAnswers(r)
    \/ Synthesised(r)
    \/ StoreOver(r)
    \/ Transcribed(r)

RoutesNext ==
    \/ /\ Tick \/ LateLanding \/ \E r \in Requests : Open(RouteOf[r]) /\ AdmissionStep(r)
       /\ UNCHANGED routeVars
    \/ \E r \in Requests : RefuseUnready(r) \/ RouteAction(r)

\* Where a request waits for something nothing bounds: for the rest of its own
\* body, or for the site's own files while the docs are looked up for its line.
Unbounded(r) ==
    \/ InLeg(r, "body")
    \/ RouteOf[r] = "chat" /\ InLeg(r, "ready") /\ Sayings[turn[r].said].docs # "none"

\* A request that was let in goes on: its queue seat, its reads of the shared
\* tier, of Cloudflare, of the gateway and of the audio cache have deadlines of
\* their own.
GoesOn(r) ==
    \/ /\ Expire(r) \/ ReadMinute(r) \/ ReadWide(r) \/ ReadBudget(r) \/ PutOver(r)
       /\ UNCHANGED routeVars
    \/ ~Unbounded(r) /\ RouteAction(r)

RoutesFairness == \A r \in Requests : WF_vars(GoesOn(r))

RoutesSpec == RoutesInit /\ [][RoutesNext]_vars /\ RoutesFairness

-----------------------------------------------------------------------------
(* Correctness                                                              *)

Legs == {"body", "bot", "ready", "call", "reroll", "cache", "store", "over"}

\* Shape of the routes' state, and a route is over exactly when its request is.
RoutesTypeOK ==
    /\ TypeOK
    /\ \A r \in Requests :
          /\ turn[r].leg \in Legs
          /\ turn[r].calls \in 0 .. 3 /\ turn[r].retries \in 0 .. 1
          /\ turn[r].leg = "over" => req[r].pc = "done"
    /\ \A i \in Isolates : Cardinality(spent[i]) <= SpentMax

\* chat.js, speech.js, transcribe.js: a refusal that spent nothing upstream
\* costs nothing, whatever was refused on the way costs no call, and every
\* gateway call is paid for before it is made; the one call that is not is the
\* retry of a body the gateway could not read.
CallsArePaid ==
    /\ RoutesTypeOK
    /\ \A r \in Requests :
        /\ req[r].refunded \/ ~Open(RouteOf[r]) => turn[r].calls = 0
        /\ ~req[r].refunded => turn[r].calls <= req[r].times + turn[r].retries
        /\ req[r].pc = "done" /\ req[r].times > 0 /\ turn[r].calls = 0
              => RouteOf[r] = "speech" /\ turn[r].answer \in audio

Served == {r \in Requests :
    RouteOf[r] = "chat" /\ req[r].pc = "done" /\ req[r].reason = "none"}

\* What a voice is asked to read of a turn: its tickets, in order.
VoiceOf(r) ==
    LET mine == {k \in tickets \ Posted : k.event = r} IN
    [n \in 1 .. Cardinality(mine) |-> (CHOOSE k \in mine : k.chunk = n - 1).words]

\* The lines of the completions, as the page may show them.
Look(line, face) == [text |-> line.text, picture |-> line.picture, face |-> face]
Looks == {Look(line, MarkupFloor(line, tree)) : line \in Servings, tree \in {"", SignOff}}

\* chat.js steps 8b to 10: what the visitor hears, what Moxie's side of the
\* history says she said, the face she wears, the picture she shows, the
\* passage she cites and the leave she takes are those of the one line that was
\* served, as the model gave it to the body it answers; what is remembered is
\* the end of the talk it answered, a child's line and that one; and a turn that
\* paid for a second line serves it only if it repeats nothing of the conversation.
VoiceAndMemoryAgree ==
    /\ \A r \in Served :
          LET t == turn[r] IN
          /\ t.answer.text # <<>> => VoiceOf(r) # <<>>
          /\ IsPrefix(FlattenSeq(VoiceOf(r)), t.answer.text)
          /\ Look(t.answer, t.answer.face) \in Looks
          /\ t.answer.cited = t.asked.passage
          /\ t.answer.ends => t.answer.face.body = SignOff
          /\ TurnShape => (t.asked.cue = "close" <=> t.answer.ends)
          /\ t.first # Nobody /\ t.answer.text # t.first.line.text
                => ~Echo(t.answer, t.history)
    /\ \A c \in contexts \ Elsewhere :
          /\ Len(c.history) >= 2 /\ Last(Front(c.history)).role = "user"
          /\ \E r \in Served :
                /\ IsPrefix(Last(c.history).text, turn[r].answer.text)
                /\ IsSuffix(Front(Front(c.history)), turn[r].history)

\* The lines of the completions that are of a shape Careless names.
CarelessTexts == {Serve(raw).text : raw \in {x \in Completions : Careless(x)}}

\* reply.js, hmac.js: what a voice is asked to read is in at most three pieces
\* the voice can take, and has no brace, drawing or field in it, unless the
\* completion itself was one of the shapes Careless names.
NothingUnspeakable ==
    \A r \in Served :
        /\ Len(VoiceOf(r)) <= MaxSpeechChunks
        /\ \A k \in tickets \ Posted :
              k.event = r =>
                /\ Size(k.words) <= IntOf("DEMO_MAX_TTS_CHARS")
                /\ ToSet(k.words) \intersect Unspeakable # {} => turn[r].answer.text \in CarelessTexts

\* The sayings that name a blocked thing, and those that do it with no guard and
\* disguised in at most one way throughout.
StemsOf(tokens) == [k \in DOMAIN tokens |-> tokens[k].stem]
Mentioned == {s \in DOMAIN Sayings : Mentions(StemsOf(Sayings[s].tokens)) # {}}
Blockable ==
    {s \in Mentioned :
        LET tokens == Sayings[s].tokens IN
        /\ ~GuardedLine(StemsOf(tokens))
        /\ \A k \in DOMAIN tokens :
              Cardinality(tokens[k].disguise) <= 1 /\ tokens[k].disguise = tokens[1].disguise}

\* safety.js, wav.js, transcribe.js: no line the floor must block and no clip the
\* ears cannot take is ever sent to a model, and a line is answered by the floor
\* only for something it names; the floor and the measure of a clip keep their
\* own promises.
FloorHolds ==
    /\ FloorMeetsItsTable /\ WavesAreMeasured /\ StoredIsPlayed
    /\ \A r \in Requests :
          LET t == turn[r] IN
          /\ t.calls > 0 => t.said \notin Blockable
          /\ req[r].reason = "blocked" => t.said \in Mentioned
          /\ t.clip # Nobody /\ t.calls > 0 => ClipRefusal[t.clip] = "none"

\* The speech requests of isolate i that redeemed a ticket: past their body,
\* and paid for.
Redeemers(i) == {r \in Requests : /\ IsolateOf[r] = i /\ RouteOf[r] = "speech"
                                  /\ turn[r].leg # "body" /\ req[r].times > 0}

\* speech.js: while no more tickets were redeemed in an isolate than it can
\* remember, none is redeemed twice in it, not even by two requests that
\* overlap or after a failed synthesis.
OneVoicePerTicket ==
    \A i \in Isolates :
        Cardinality({turn[r].ticket : r \in Redeemers(i)}) <= SpentMax =>
            \A r, q \in Redeemers(i) : r # q => turn[r].ticket # turn[q].ticket

\* limits.js and the routes: whoever entered is answered, in the queue, at a silent
\* cache or with a slot, although somebody before them may hold a slot for ever
\* over a body that never ends or a docs lookup that never answers.  Requests come
\* once, so that is: again and again only those are still inside.
Answered == []<>(\A r \in Requests : req[r].pc \in {"new", "done"} \/ Unbounded(r))

\* turnstile.js: where the control is on, the gateway is called for a turn or
\* an utterance only on a verdict or while Cloudflare cannot be reached; a
\* token buys one request, on the route its widget was for.
TokenBuysOneCall ==
    /\ \A r \in Requests :
          Guarded /\ RouteOf[r] # "speech" /\ turn[r].calls > 0
              => turn[r].bot \in {"verified", "unreachable"}
    /\ \A r \in Requests : turn[r].bot = "verified" => WidgetOf[turn[r].token].action = RouteOf[r]
    /\ \A r, q \in Requests :
          turn[r].bot = "verified" /\ turn[q].bot = "verified" /\ r # q
              => turn[r].token # turn[q].token

=============================================================================
