\* Two turns of one isolate, which may overlap, and an utterance.
CONSTANTS
    c1 = c1  c2 = c2  c3 = c3  s1 = s1  s2 = s2  s3 = s3  t1 = t1
    i1 = i1  k1 = k1  k2 = k2  Nobody = Nobody
    Env <- TurnsEnv
    Lexicon <- SmallLexicon
    Requests = {c1, c2, t1}
    Isolates = {i1}
    Routes = {"chat", "speech", "transcribe"}
    IsolateOf <- OneIsolate
    SourceOf <- OneVisitor
    RouteOf <- ByName
    HeadersOf <- OwnPage
    HasCache = TRUE
    Span <- LongSpans
    MaxNow = 0
    MaxStray = 0
    Sayings <- Talk
    Clips <- Recordings
    BadBodies <- WrongBodies
    Replies <- TurnReplies
    Tokens = {k1}
    WidgetOf <- Widgets
    Troubles <- SomeTrouble
    Lifetime = 0
    SpentMax = 3
    Elsewhere <- OldTalk
    Posted <- Nothing
SPECIFICATION RoutesSpec
SYMMETRY Twins
CHECK_DEADLOCK FALSE
INVARIANTS CallsArePaid VoiceAndMemoryAgree TokenBuysOneCall NothingUnspeakable FloorHolds
