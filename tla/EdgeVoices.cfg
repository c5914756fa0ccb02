\* One turn and three voices that share one slot; a stranger is turned away, and
\* an utterance finds no ears.
CONSTANTS
    c1 = c1  c2 = c2  c3 = c3  s1 = s1  s2 = s2  s3 = s3  t1 = t1
    i1 = i1  k1 = k1  k2 = k2  Nobody = Nobody
    Env <- VoicesEnv
    Lexicon <- SmallLexicon
    Requests = {c1, s1, s2, s3, c3, t1}
    Isolates = {i1}
    Routes = {"chat", "speech", "transcribe"}
    IsolateOf <- OneIsolate
    SourceOf <- OneVisitor
    RouteOf <- ByName
    HeadersOf <- OwnPage
    HasCache = TRUE
    Span <- LongSpans
    MaxNow = 0
    MaxStray = 0
    Sayings <- Greeting
    Clips <- Nothing
    BadBodies <- NoBadBodies
    Replies <- VoiceReplies
    Tokens = {}
    WidgetOf <- Widgets
    Troubles <- Nothing
    Lifetime = 0
    SpentMax = 4
    Elsewhere <- Nothing
    Posted <- OldTickets
SPECIFICATION RoutesSpec
CHECK_DEADLOCK FALSE
INVARIANTS OneVoicePerTicket
PROPERTIES FairOrder Answered
