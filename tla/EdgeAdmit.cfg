\* Three requests of one visitor, two of them in one isolate with one slot.
CONSTANTS
    r1 = r1  r2 = r2  r3 = r3  i1 = i1  i2 = i2
    Env <- TightEnv
    Requests = {r1, r2, r3}
    Isolates = {i1, i2}
    Routes = {"chat"}
    IsolateOf <- TwoIsolates
    SourceOf <- OneHousehold
    RouteOf <- AllChat
    HeadersOf <- OwnPage
    HasCache = TRUE
    Span <- ShortSpans
    MaxNow = 1
    MaxStray = 1
SPECIFICATION Spec
SYMMETRY Alike
CHECK_DEADLOCK FALSE
INVARIANTS SlotsConserved ChargesAddUp WindowsUndercount LedgerIsRealSpend ProbeIsHonest
