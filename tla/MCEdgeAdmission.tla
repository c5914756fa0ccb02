-------------------------- MODULE MCEdgeAdmission --------------------------
(* Small instances of EdgeAdmission: constants the cfg files name.          *)
EXTENDS EdgeAdmission

CONSTANTS r1, r2, r3, i1, i2

\* One slot, one seat, two requests a window, and room for two turns an hour.
TightEnv == [
    DEMO_GATEWAY_BASE_URL |-> Word("url"), DEMO_GATEWAY_API_KEY |-> Word("key"),
    DEMO_CHAT_MODEL |-> Word("model"),
    DEMO_MAX_CONCURRENT_CHAT |-> Number(1), DEMO_QUEUE_MAX_DEPTH |-> Number(1),
    DEMO_CHAT_PER_MIN |-> Number(2), DEMO_CHAT_PER_HOUR |-> Number(2),
    DEMO_CHAT_PER_DAY |-> Number(3),
    DEMO_UNIT_BUDGET_HOUR |-> Number(6), DEMO_UNIT_BUDGET_DAY |-> Number(0)]

TwoIsolates == (r1 :> i1) @@ (r2 :> i1) @@ (r3 :> i2)

\* Two hosts of one household, written at length and with "::".
OneHousehold == [r \in Requests |-> [xff |-> Absent, cf |->
    IF r = r3 THEN V6(<<"2001", "db8">>, TRUE, <<"1">>)
    ELSE V6(<<"2001", "db8", Zero, Zero, Zero, Zero, Zero, "2">>, FALSE, <<>>)]]

AllChat == Tabled([r \in Requests |-> "chat"])
OwnPage == [r \in Requests |->
    [self |-> "demo", site |-> "same-origin", origin |-> "demo", referer |-> ""]]

\* r1 and r2 share their isolate and their visitor.
Alike == Permutations({r1, r2})

ShortSpans == Tabled([s \in Scales |-> IF s = "day" THEN 2 ELSE 1])
=============================================================================
