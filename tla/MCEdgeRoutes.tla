-------------------------- MODULE MCEdgeRoutes --------------------------
(* Small instances of EdgeRoutes: constants the cfg files name.            *)
EXTENDS EdgeRoutes

CONSTANTS c1, c2, c3, s1, s2, s3, t1, i1, k1, k2

OneIsolate == Tabled([r \in Requests |-> i1])
ByName == Tabled([r \in Requests |->
    IF r \in {c1, c2, c3} THEN "chat" ELSE IF r = t1 THEN "transcribe" ELSE "speech"])

\* An address and the same one written as an IPv4-mapped IPv6 address.
OneVisitor == [r \in Requests |-> [xff |-> Absent, cf |->
    IF r = t1 THEN V6(<<>>, TRUE, <<"ffff", "1.2", "3.4">>) ELSE V4(<<"1.2", "3.4">>)]]

\* Only c3 comes from another site.
OwnPage == Tabled([r \in Requests |->
    [self |-> "demo", site |-> IF r = c3 THEN "cross-site" ELSE "same-origin",
     origin |-> "demo", referer |-> ""]])

LongSpans == Tabled([s \in Scales |-> 9])

Deployed == [
    DEMO_GATEWAY_BASE_URL |-> Word("url"), DEMO_GATEWAY_API_KEY |-> Word("key"),
    DEMO_CHAT_MODEL |-> Word("model"), DEMO_TTS_MODEL |-> Model("amy"),
    DEMO_CACHE_COUNTER |-> Number(0), DEMO_UNIT_BUDGET_DAY |-> Number(0)]

\* The bot control is on, the ears have a model, and three chunks are short.
TurnsEnv == [
    DEMO_STT_MODEL |-> Word("ears"), DEMO_MAX_RECORD_MS |-> Number(1000),
    DEMO_TURNSTILE_SECRET |-> Word("secret"), DEMO_TURNSTILE_SITEKEY |-> Word("site"),
    DEMO_MAX_CONCURRENT_CHAT |-> Number(2), DEMO_QUEUE_MAX_DEPTH |-> Number(0),
    DEMO_UNIT_BUDGET_HOUR |-> Number(12), DEMO_MAX_TTS_CHARS |-> Number(12),
    DEMO_MAX_HISTORY_TURNS |-> Number(4)] @@ Deployed

\* No ears; one slot each, and units for a turn and two voices.
VoicesEnv == [
    DEMO_MAX_CONCURRENT_CHAT |-> Number(1), DEMO_MAX_CONCURRENT_SPEECH |-> Number(1),
    DEMO_QUEUE_MAX_DEPTH |-> Number(2), DEMO_REROLL |-> Word("off"),
    DEMO_UNIT_BUDGET_HOUR |-> Number(7), DEMO_MAX_TTS_CHARS |-> Number(16),
    DEMO_MAX_HISTORY_TURNS |-> Number(2)] @@ Deployed

Entry(len, ending, stem, hints) == [len |-> len, ending |-> ending, stem |-> stem, hints |-> hints]
SmallLexicon ==
    ("Hi" :> Entry(2, "none", "hi", {})) @@ ("friend." :> Entry(7, "stop", "friend", {}))
    @@ ("friend!" :> Entry(7, "shout", "friend", {}))
    @@ ("Dragons" :> Entry(7, "none", "dragons", {"wow"})) @@ ("fly!" :> Entry(4, "shout", "fly", {}))
    @@ ("Shall" :> Entry(5, "none", "shall", {})) @@ ("we" :> Entry(2, "none", "we", {"propose"}))
    @@ ("draw" :> Entry(4, "none", "draw", {})) @@ ("today?" :> Entry(6, "ask", "today", {}))
    @@ ("Yes." :> Entry(4, "stop", "yes", {})) @@ ("Look!" :> Entry(5, "shout", "look", {"star"}))

Says(words, tokens, size) ==
    [words |-> words, tokens |-> tokens, size |-> size, draws |-> FALSE, docs |-> "none"]
Named(s, saying) == s :> saying

\* A goodbye and a question the docs answer, with words a guard allows; a line
\* the floor blocks, none at all and one too long.
Talk ==
    Named("bye", Says(<<"closing", "name">>, PlainLine(<<"bye">>), 9))
    @@ Named("how", [Says(<<"other", "closing">>, PlainLine(<<"kill", "myself", "laughing">>), 30)
                     EXCEPT !.draws = TRUE, !.docs = "page"])
    @@ Named("hurt", Says(<<"other">>, <<Token("suicide", {"marked"})>>, 13))
    @@ Named("nothing", Says(<<>>, <<>>, 0))
    @@ Named("rant", Says(<<"other">>, PlainLine(<<"hello">>), 600))
Greeting == Named("hi", Says(<<"other">>, PlainLine(<<"hello">>), 2))

\* A second of speech, and more of it than may be sent.
Speech(size) == Body("wav", <<Fmt(1, 1, 16000, 16), Data(size)>>, size + 44, "")
Recordings == {Speech(32000), Speech(64000)}

\* Prose with a stray brace, and an object whose line quotes another and a drawing.
Hello == Completes(<<Said("Hi"), Said("friend."), Brace>>)
Story == Completes(<<Tag("think"), Said("Yes."), Tag("unthink"),
    Object([say |-> <<Said("Dragons"), Brace, Said("fly!"), Said("Shall"), Said("we"),
                      Said("draw"), Said("today?"), Drawing("dragon"), Said("Yes.")>>,
            mood |-> "happy", gesture |-> "big"])>>)
Tale == Completes(<<Said("Dragons"), Said("fly!"), Said("Shall"), Said("we"), Said("draw")>>)

TurnReplies == [
    chat |-> {Hello, Story, Status(400)},
    speech |-> {},
    transcribe |-> {Hears(20, TRUE)}]
VoiceReplies == [
    chat |-> {Tale}, transcribe |-> {},
    speech |-> {Speaks(Speech(480)), Speaks(Body("html", <<>>, 900, ""))}]

WrongBodies == [chat |-> {"bad_request"}, speech |-> {"bad_ticket"}, transcribe |-> {}]
NoBadBodies == [chat |-> {}, speech |-> {"bad_ticket"}, transcribe |-> {}]

Widgets == Tabled([k \in Tokens |-> [action |-> IF k = k1 THEN "chat" ELSE "transcribe", host |-> "demo"]])
Trouble(sent, ok, codes) == [sent |-> sent, ok |-> ok, success |-> FALSE, codes |-> codes]
SomeTrouble == {Trouble(FALSE, FALSE, {})}

Nothing == {}
\* Moxie has said hello and shown a tree before; and a talk of yesterday.
OldTalk == {[at |-> -1, history |-> <<>>], [at |-> 0, history |->
    <<[role |-> "user", said |-> "how", size |-> 30],
      [role |-> "assistant", text |-> <<"Hi", "friend!">>, size |-> 10],
      [role |-> "user", said |-> "how", size |-> 30],
      [role |-> "assistant", text |-> <<"Look!">>, size |-> 5]>>]}
\* Signed when the cap was higher, and too long ago.
Signed(words, at) == [event |-> c1, words |-> words, chunk |-> 9, at |-> at]
OldTickets == {Signed(<<"Dragons", "fly!", "Look!">>, 0), Signed(<<"Look!">>, -1)}

\* Two children of one page: nothing tells c1 and c2 apart.
Twins == Permutations({c1, c2})
=============================================================================
