--------------------------- MODULE EdgeAdmission ---------------------------
(***************************************************************************)
(* How a request gets into one of the three spending routes of the edge    *)
(* functions (functions/api/_lib: limits.js, counters.js, sharedtier.js).  *)
(*                                                                         *)
(* A request runs in one isolate.  JavaScript runs each stretch between    *)
(* two awaits without interruption, so every action below is one stretch:  *)
(* the local decision up to the first await, one answer of the colo's      *)
(* cache together with everything decided on it, one timer.  The requests  *)
(* of all isolates interleave between stretches.                           *)
(*                                                                         *)
(* A counter is a bag of the keys charged to it; a key carries the bucket  *)
(* of the clock it was charged in, as the Map keys of the code do.         *)
(***************************************************************************)
EXTENDS EdgeVisitor, EdgeEnvelope, FiniteSets, Bags, FiniteSetsExt, SequencesExt

CONSTANTS
    Requests,           \* the requests of the run
    Isolates, Routes,
    IsolateOf, RouteOf, \* where each request lands
    SourceOf,           \* the addresses each request comes with
    HeadersOf,          \* what its browser says of where it comes from
    HasCache,           \* the runtime has a cache
    Span,               \* scale -> its length in ticks of the clock
    MaxNow,             \* bound: the clock stops here
    MaxStray            \* bound: writes that outlive their deadline

Scales == {"min", "hour", "day"}
BudgetScales == {"hour", "day"}

ASSUME RequestsAssumption ==
    /\ IsFiniteSet(Requests)
    /\ Routes \subseteq {"chat", "speech", "transcribe"}
    /\ IsolateOf \in [Requests -> Isolates]
    /\ RouteOf \in [Requests -> Routes]
    /\ HasCache \in BOOLEAN
    /\ Span \in [Scales -> Nat \ {0}]
    /\ MaxNow \in Nat /\ MaxStray \in Nat

\* health.js tells the load of the turn.
ASSUME ProbeAssumption == "chat" \in Routes

\* The variables that cap each route; the ears share the ceiling of the turn.
CeilingVar == [chat |-> "DEMO_MAX_CONCURRENT_CHAT", speech |-> "DEMO_MAX_CONCURRENT_SPEECH",
               transcribe |-> "DEMO_MAX_CONCURRENT_CHAT"]
WindowVars == [
    chat |-> [min |-> "DEMO_CHAT_PER_MIN", hour |-> "DEMO_CHAT_PER_HOUR",
              day |-> "DEMO_CHAT_PER_DAY"],
    speech |-> [min |-> "DEMO_SPEECH_PER_MIN", hour |-> "DEMO_SPEECH_PER_HOUR"],
    transcribe |-> [min |-> "DEMO_STT_PER_MIN", hour |-> "DEMO_STT_PER_HOUR"]]
BudgetVar == [hour |-> "DEMO_UNIT_BUDGET_HOUR", day |-> "DEMO_UNIT_BUDGET_DAY"]

\* Slots of a route, seats of its queue (none: the queue is off), requests a
\* visitor has per window and units a deployment has (zero: uncapped).
Cap == [rt \in Routes |-> IntOf(CeilingVar[rt])]
Depth == IF IntOf("DEMO_QUEUE_MAX_WAIT_MS") = 0 THEN 0 ELSE IntOf("DEMO_QUEUE_MAX_DEPTH")
Limit == Tabled([rt \in Routes |-> Tabled([s \in Scales |->
            IF s \in DOMAIN WindowVars[rt] THEN IntOf(WindowVars[rt][s]) ELSE 0])])
Ceiling == [s \in BudgetScales |-> IntOf(BudgetVar[s])]

CacheOn == SwitchOf("DEMO_CACHE_COUNTER", TRUE) /\ HasCache

\* The requests the origin pin refuses.
Foreign == {r \in Requests : ~SameSite(HeadersOf[r])}

VARIABLES
    now,        \* the clock
    windows,    \* isolate -> bag of the per-visitor window keys charged
    budget,     \* isolate -> bag of the budget keys, one copy per unit
    ledger,     \* isolate -> scale -> units spent and not yet published
    inflight,   \* isolate -> route -> slots taken
    waiters,    \* isolate -> route -> the FIFO of requests waiting
    entry,      \* the colo's cache: key -> what is stored under it
    stray,      \* writes given up at their deadline that may yet land
    req         \* where each request stands

admissionVars == <<now, windows, budget, ledger, inflight, waiters, entry, stray, req>>

-----------------------------------------------------------------------------
(* Clock, costs and keys                                                    *)

Bucket(t, s) == t \div Span[s]

Units(rt) == IF rt = "chat" THEN 3 ELSE 2

\* The visitor a request is counted under.
ClientIp == Tabled([r \in Requests |-> IpKey(AddressOf(SourceOf[r]))])

WindowKey(r, s, t) ==
    [ip |-> ClientIp[r], route |-> RouteOf[r], scale |-> s, bucket |-> Bucket(t, s)]

LimitedScales(rt) == {s \in Scales : Limit[rt][s] > 0}

CappedScales == {s \in BudgetScales : Ceiling[s] > 0}

BudgetKey(s, t) == [scale |-> s, bucket |-> Bucket(t, s)]

\* Mutant: the key of the shared minute window forgets its bucket.
MutMinuteEntryForever(r) == <<"minute", ClientIp[r], RouteOf[r], 0>>

MinuteEntry(r) == <<"minute", ClientIp[r], RouteOf[r], Bucket(req[r].at, "min")>>
WideEntry(r) == <<"wide", ClientIp[r], RouteOf[r], Bucket(req[r].at, "day")>>
UnitEntry(s, b) == <<"units", s, b>>

\* what `units` more units do to the budget, charged at time t
UnitBag(t, units) == [k \in {BudgetKey(s, t) : s \in CappedScales} |-> units]

-----------------------------------------------------------------------------
(* The local decision                                                       *)

NoCount == [n |-> 0, bucket |-> 0]
NoWide == [hour |-> NoCount, day |-> NoCount]

Idle == [pc |-> "new", at |-> 0, reason |-> "none", held |-> {}, times |-> 0,
         refunded |-> FALSE, used |-> 0, next |-> NoWide, owes |-> 0, counted |-> FALSE]

\* What a counter holds for a key.
Charged(key, counter) == IF BagIn(key, counter) THEN counter[key] ELSE 0

OverWindow(r) ==
    \E s \in LimitedScales(RouteOf[r]) :
        Charged(WindowKey(r, s, now), windows[IsolateOf[r]]) >= Limit[RouteOf[r]][s]

OverBudget(i, rt, t) ==
    \E s \in CappedScales :
        Charged(BudgetKey(s, t), budget[i]) + Units(rt) > Ceiling[s]

WindowKeysOf(r, t) == {WindowKey(r, s, t) : s \in LimitedScales(RouteOf[r])}

ChargeWindows(r) ==
    windows' = [windows EXCEPT ![IsolateOf[r]] = @ (+) SetToBag(WindowKeysOf(r, now))]

ChargeBudget(r, t) ==
    budget' = [budget EXCEPT ![IsolateOf[r]] = @ (+) UnitBag(t, Units(RouteOf[r]))]

\* Mutant: the refund looks the budget key up on the clock of the refund.
MutRefundOnNow(r) ==
    budget' = [budget EXCEPT ![IsolateOf[r]] =
                 @ (-) UnitBag(now, Units(RouteOf[r]) * req[r].times)]

\* refundCharges takes back what was charged, and no key goes below zero.
RefundUnits(r) ==
    budget' = [budget EXCEPT ![IsolateOf[r]] =
                 @ (-) UnitBag(req[r].at, Units(RouteOf[r]) * req[r].times)]

RefundWindows(r) ==
    windows' = [windows EXCEPT ![IsolateOf[r]] = @ (-) SetToBag(req[r].held)]

\* A request that is charged, and where it goes next.
Arrived(r, pc) ==
    [Idle EXCEPT !.pc = pc, !.at = now, !.held = WindowKeysOf(r, now), !.times = 1]

Refused(q, reason) ==
    [q EXCEPT !.pc = "done", !.reason = reason, !.used = 0, !.owes = 0]

\* A free slot on a lane, and nobody ahead.
FreeLane(i, rt) == waiters[i][rt] = <<>> /\ inflight[i][rt] < Cap[rt]

SlotFree(r) == FreeLane(IsolateOf[r], RouteOf[r])

\* Where a request with a slot starts: at the colo's minute window, or served.
FirstStage == IF CacheOn THEN "minute" ELSE "granted"

ForbidOrigin(r) ==
    /\ r \in Foreign
    /\ req' = [req EXCEPT ![r] = Refused([Idle EXCEPT !.at = now], "forbidden_origin")]
    /\ UNCHANGED <<windows, budget, inflight, waiters>>

RefuseWindow(r) ==
    /\ r \notin Foreign
    /\ OverWindow(r)
    /\ req' = [req EXCEPT ![r] = Refused([Idle EXCEPT !.at = now], "rate_limited")]
    /\ UNCHANGED <<windows, budget, inflight, waiters>>

\* The window stays charged: only the budget was refused.
RefuseBudget(r) ==
    /\ r \notin Foreign
    /\ ~OverWindow(r)
    /\ OverBudget(IsolateOf[r], RouteOf[r], now)
    /\ ChargeWindows(r)
    /\ req' = [req EXCEPT ![r] =
                 Refused([Arrived(r, "done") EXCEPT !.times = 0], "budget_exhausted")]
    /\ UNCHANGED <<budget, inflight, waiters>>

Affordable(r) ==
    /\ r \notin Foreign
    /\ ~OverWindow(r)
    /\ ~OverBudget(IsolateOf[r], RouteOf[r], now)

TakeSlot(r) ==
    /\ Affordable(r)
    /\ SlotFree(r)
    /\ ChargeWindows(r)
    /\ ChargeBudget(r, now)
    /\ inflight' = [inflight EXCEPT ![IsolateOf[r]][RouteOf[r]] = @ + 1]
    /\ req' = [req EXCEPT ![r] = Arrived(r, FirstStage)]
    /\ UNCHANGED waiters

\* Charged and refunded in one stretch: the counters end where they were.
RefuseFull(r) ==
    /\ Affordable(r)
    /\ ~SlotFree(r)
    /\ Len(waiters[IsolateOf[r]][RouteOf[r]]) >= Depth
    /\ req' = [req EXCEPT ![r] = Refused([Idle EXCEPT !.at = now], "at_capacity")]
    /\ UNCHANGED <<windows, budget, inflight, waiters>>

\* Mutant: the newcomer is put at the head of the line.
MutJoinFirst(r) ==
    /\ Affordable(r)
    /\ ~SlotFree(r)
    /\ Len(waiters[IsolateOf[r]][RouteOf[r]]) < Depth
    /\ ChargeWindows(r)
    /\ ChargeBudget(r, now)
    /\ waiters' = [waiters EXCEPT ![IsolateOf[r]][RouteOf[r]] = <<r>> \o @]
    /\ req' = [req EXCEPT ![r] = Arrived(r, "queued")]
    /\ UNCHANGED inflight

JoinQueue(r) ==
    /\ Affordable(r)
    /\ ~SlotFree(r)
    /\ Len(waiters[IsolateOf[r]][RouteOf[r]]) < Depth
    /\ ChargeWindows(r)
    /\ ChargeBudget(r, now)
    /\ waiters' = [waiters EXCEPT ![IsolateOf[r]][RouteOf[r]] = Append(@, r)]
    /\ req' = [req EXCEPT ![r] = Arrived(r, "queued")]
    /\ UNCHANGED inflight

Admit(r) ==
    /\ req[r].pc = "new"
    /\ \/ ForbidOrigin(r)
       \/ RefuseWindow(r)
       \/ RefuseBudget(r)
       \/ TakeSlot(r)
       \/ RefuseFull(r)
       \/ JoinQueue(r)
    /\ UNCHANGED <<now, ledger, entry, stray>>

-----------------------------------------------------------------------------
(* The slot: handed to the longest waiter, or freed                         *)

\* What giving a slot of lane i, rt back does to the requests rq.
WithHandOff(rq, i, rt) ==
    IF waiters[i][rt] = <<>> THEN rq
    ELSE [rq EXCEPT ![Head(waiters[i][rt])].pc = FirstStage]

\* Mutant: a slot handed on is counted free as well.
MutHandOffAlsoFrees(i, rt) ==
    /\ inflight' = [inflight EXCEPT ![i][rt] = @ - 1]
    /\ waiters' = [waiters EXCEPT ![i][rt] = IF @ = <<>> THEN @ ELSE Tail(@)]

HandOffOrRelease(i, rt) ==
    IF waiters[i][rt] = <<>>
    THEN /\ inflight' = [inflight EXCEPT ![i][rt] = IF @ > 0 THEN @ - 1 ELSE 0]
         /\ UNCHANGED waiters
    ELSE /\ waiters' = [waiters EXCEPT ![i][rt] = Tail(@)]
         /\ UNCHANGED inflight

\* The wait is over: the request leaves the queue and pays nothing.
Expire(r) ==
    LET i == IsolateOf[r]  rt == RouteOf[r] IN
    /\ req[r].pc = "queued"
    /\ \E k \in DOMAIN waiters[i][rt] :
          waiters[i][rt][k] = r /\ waiters' = [waiters EXCEPT ![i][rt] = RemoveAt(@, k)]
    /\ RefundWindows(r)
    /\ RefundUnits(r)
    /\ req' = [req EXCEPT ![r] = Refused([@ EXCEPT !.held = {}, !.times = 0], "at_capacity")]
    /\ UNCHANGED <<now, ledger, inflight, entry, stray>>

\* A refusal of the colo's cache: the slot first, then both charges.
SharedRefuse(r, reason) ==
    /\ HandOffOrRelease(IsolateOf[r], RouteOf[r])
    /\ RefundWindows(r)
    /\ RefundUnits(r)
    /\ req' = WithHandOff([req EXCEPT ![r] =
                  Refused([@ EXCEPT !.held = {}, !.times = 0], reason)],
                IsolateOf[r], RouteOf[r])

-----------------------------------------------------------------------------
(* The colo's cache                                                         *)

Stored(k, none) == IF k \in DOMAIN entry THEN entry[k] ELSE none

\* A match that answers: what is stored, or nothing (evicted, stale, unread).
Answers(k, none) == {Stored(k, none), none}

\* The ledger read for bucket b: one of another bucket is dropped.
Rolled(l, b) == IF l.bucket = b THEN l ELSE [pending |-> 0, bucket |-> b]

\* The budget stages come hour before day, each with its write.
FirstOf(stages) == IF "hour" \in stages THEN "hour" ELSE "day"
PutStage == [hour |-> "hourPut", day |-> "dayPut"]

\* Go on to the first of the budget stages left, reading what this isolate
\* owes before the cache is asked; with none left the slot is granted.
GoOn(r, q, stages, led) ==
    IF stages = {}
    THEN /\ req' = [req EXCEPT ![r] = [q EXCEPT !.pc = "granted", !.owes = 0]]
         /\ ledger' = led
    ELSE LET s == FirstOf(stages)
             own == Rolled(led[IsolateOf[r]][s], Bucket(q.at, s)) IN
         /\ req' = [req EXCEPT ![r] = [q EXCEPT !.pc = s, !.owes = own.pending]]
         /\ ledger' = [led EXCEPT ![IsolateOf[r]][s] = own]

ReadMinute(r) ==
    LET rt == RouteOf[r] IN
    /\ req[r].pc = "minute"
    /\ \/ /\ GoOn(r, req[r], CappedScales, ledger)      \* timed out or failed
          /\ UNCHANGED <<windows, budget, inflight, waiters>>
       \/ \E seen \in Answers(MinuteEntry(r), 0) :
             IF seen >= Limit[rt]["min"]
             THEN /\ SharedRefuse(r, "rate_limited")
                  /\ UNCHANGED ledger
             ELSE /\ req' = [req EXCEPT ![r].pc = "wide", ![r].used = seen]
                  /\ UNCHANGED <<windows, budget, ledger, inflight, waiters>>
    /\ UNCHANGED <<now, entry, stray>>

\* A count stamped with another bucket reads as zero.
WideUsed(seen, s, t) == IF seen[s].bucket = Bucket(t, s) THEN seen[s].n ELSE 0

WideNext(r, seen) ==
    [s \in BudgetScales |->
        IF Limit[RouteOf[r]][s] > 0
        THEN [n |-> WideUsed(seen, s, req[r].at) + 1, bucket |-> Bucket(req[r].at, s)]
        ELSE NoCount]

ReadWide(r) ==
    LET rt == RouteOf[r] IN
    /\ req[r].pc = "wide"
    /\ \/ /\ req' = [req EXCEPT ![r].pc = "minutePut", ![r].counted = TRUE]
          /\ UNCHANGED <<windows, budget, inflight, waiters>>
       \/ \E seen \in Answers(WideEntry(r), NoWide) :
             IF \E s \in LimitedScales(rt) \ {"min"} :
                   WideUsed(seen, s, req[r].at) >= Limit[rt][s]
             THEN SharedRefuse(r, "rate_limited")
             ELSE /\ req' = [req EXCEPT ![r].pc = "widePut", ![r].counted = TRUE,
                                       ![r].next = WideNext(r, seen)]
                  /\ UNCHANGED <<windows, budget, inflight, waiters>>
    /\ UNCHANGED <<now, ledger, entry, stray>>

ReadBudget(r) ==
    \E s \in BudgetScales :
    LET key == UnitEntry(s, Bucket(req[r].at, s))
        left == IF s = "hour" THEN CappedScales \ {"hour"} ELSE {} IN
    /\ req[r].pc = s
    /\ \/ /\ GoOn(r, req[r], {}, ledger)                \* timed out or failed
          /\ UNCHANGED <<windows, budget, inflight, waiters>>
       \/ \E seen \in Answers(key, 0) :
             IF seen + req[r].owes >= Ceiling[s]
             THEN /\ SharedRefuse(r, "budget_exhausted")
                  /\ UNCHANGED ledger
             ELSE /\ UNCHANGED <<windows, budget, inflight, waiters>>
                  /\ IF req[r].owes > 0
                     THEN /\ req' = [req EXCEPT ![r].pc = PutStage[s], ![r].used = seen]
                          /\ UNCHANGED ledger
                     ELSE GoOn(r, req[r], left, ledger)
    /\ UNCHANGED <<now, entry, stray>>

\* What the request is storing, and where.
Write(r) ==
    CASE req[r].pc = "widePut" -> [key |-> WideEntry(r), body |-> req[r].next]
      [] req[r].pc = "minutePut" -> [key |-> MinuteEntry(r), body |-> req[r].used + 1]
      [] req[r].pc = "hourPut" ->
            [key |-> UnitEntry("hour", Bucket(req[r].at, "hour")),
             body |-> req[r].used + req[r].owes]
      [] req[r].pc = "dayPut" ->
            [key |-> UnitEntry("day", Bucket(req[r].at, "day")),
             body |-> req[r].used + req[r].owes]

With(w) == [k \in DOMAIN entry \union {w.key} |-> IF k = w.key THEN w.body ELSE entry[k]]

\* The ledger is forgotten once its publication was attempted.
Cleared(r, s) ==
    [ledger EXCEPT ![IsolateOf[r]][s] = [pending |-> 0, bucket |-> Bucket(req[r].at, s)]]

\* The write landed, was lost, or is given up at its deadline and may yet land.
PutOver(r) ==
    /\ req[r].pc \in {"widePut", "minutePut", "hourPut", "dayPut"}
    /\ \/ entry' = With(Write(r)) /\ UNCHANGED stray
       \/ UNCHANGED <<entry, stray>>
       \/ /\ Cardinality(stray) < MaxStray
          /\ stray' = stray \union {Write(r)}
          /\ UNCHANGED entry
    /\ \/ /\ req[r].pc = "widePut"
          /\ req' = [req EXCEPT ![r].pc = "minutePut", ![r].next = NoWide]
          /\ UNCHANGED ledger
       \/ /\ req[r].pc = "minutePut"
          /\ GoOn(r, [req[r] EXCEPT !.used = 0], CappedScales, ledger)
       \/ /\ req[r].pc = "hourPut"
          /\ GoOn(r, [req[r] EXCEPT !.used = 0], CappedScales \ {"hour"}, Cleared(r, "hour"))
       \/ /\ req[r].pc = "dayPut"
          /\ GoOn(r, [req[r] EXCEPT !.used = 0], {}, Cleared(r, "day"))
    /\ UNCHANGED <<now, windows, budget, inflight, waiters>>

\* A write that outlived its deadline lands after all.
LateLanding ==
    \E w \in stray :
        /\ entry' = With(w)
        /\ stray' = stray \ {w}
        /\ UNCHANGED <<now, windows, budget, ledger, inflight, waiters, req>>

-----------------------------------------------------------------------------
(* A granted slot                                                           *)

\* A served request's units join what the isolate owes, unless the ledger
\* holds another bucket's.
Accrued(l, b, units) ==
    IF l.pending = 0 THEN [pending |-> units, bucket |-> b]
    ELSE IF l.bucket = b THEN [l EXCEPT !.pending = @ + units]
    ELSE l

\* Mutant: a refunded request is settled like any other.
MutSettleRefunded(r) ==
    ledger' = [ledger EXCEPT ![IsolateOf[r]] = [s \in BudgetScales |->
        IF s \in CappedScales
        THEN Accrued(@[s], Bucket(req[r].at, s), Units(RouteOf[r]))
        ELSE @[s]]]

Settle(r) ==
    ledger' = [ledger EXCEPT ![IsolateOf[r]] = [s \in BudgetScales |->
        IF s \in CappedScales /\ ~req[r].refunded
        THEN Accrued(@[s], Bucket(req[r].at, s), Units(RouteOf[r]) * req[r].times)
        ELSE @[s]]]

\* release(): the settle, then the slot.
Release(r, reason) ==
    /\ req[r].pc = "granted"
    /\ Settle(r)
    /\ HandOffOrRelease(IsolateOf[r], RouteOf[r])
    /\ req' = WithHandOff([req EXCEPT ![r].pc = "done", ![r].reason = reason],
                          IsolateOf[r], RouteOf[r])
    /\ UNCHANGED <<now, windows, budget, entry, stray>>

\* refundBudget(): every unit charged goes back, and the window stays charged.
RefundBudget(r) ==
    /\ req[r].pc = "granted"
    /\ ~req[r].refunded
    /\ RefundUnits(r)
    /\ req' = [req EXCEPT ![r].refunded = TRUE, ![r].times = 0]
    /\ UNCHANGED <<now, windows, ledger, inflight, waiters, entry, stray>>

\* chargeExtra(): one more gateway call, on the admission's clock.
CanChargeExtra(r) ==
    /\ ~req[r].refunded
    /\ ~OverBudget(IsolateOf[r], RouteOf[r], req[r].at)

ChargeExtra(r) ==
    /\ req[r].pc = "granted"
    /\ CanChargeExtra(r)
    /\ ChargeBudget(r, req[r].at)
    /\ req' = [req EXCEPT ![r].times = @ + 1]
    /\ UNCHANGED <<now, windows, ledger, inflight, waiters, entry, stray>>

Tick ==
    /\ now < MaxNow
    /\ now' = now + 1
    /\ UNCHANGED <<windows, budget, ledger, inflight, waiters, entry, stray, req>>

-----------------------------------------------------------------------------
(* The probe: what an isolate says of itself without asking anybody         *)

LoadOf(i, rt) == [inflight |-> inflight[i][rt], capacity |-> Cap[rt]]

\* Mutant: the budget is looked up whatever window it was spent in.
MutSpentInAnyWindow(i) ==
    {s \in CappedScales : \E t \in 0 .. now :
        Charged(BudgetKey(s, t), budget[i]) >= Ceiling[s]}

\* The budget scales isolate i has used up, and when the first of them ends.
SpentScales(i) ==
    {s \in CappedScales : Charged(BudgetKey(s, now), budget[i]) >= Ceiling[s]}

UntilNext(s) == (Bucket(now, s) + 1) * Span[s] - now

BudgetState(i) == [
    exhausted |-> SpentScales(i) # {},
    retryAfter |-> CASE "hour" \in SpentScales(i) -> UntilNext("hour")
                     [] SpentScales(i) = {"day"} -> UntilNext("day")
                     [] OTHER -> 0]

\* onRequestGet: always 200, so that only a missing route is not.
Probe(i) ==
    LET state == BudgetState(i)
        says == ModeOf(state.exhausted) IN
    [Respond([ok |-> TRUE, degraded |-> says.mode # "live", reason |-> says.reason,
              retry_after_s |-> IF says.reason = "budget_exhausted" THEN state.retryAfter ELSE 0,
              mode |-> says.mode, turnstile |-> PublicTurnstile],
             LoadOf(i, "chat"))
     EXCEPT !.status = 200]

-----------------------------------------------------------------------------

AdmissionInit ==
    /\ now = 0
    /\ windows = [i \in Isolates |-> EmptyBag]
    /\ budget = [i \in Isolates |-> EmptyBag]
    /\ ledger = [i \in Isolates |-> [s \in BudgetScales |-> [pending |-> 0, bucket |-> 0]]]
    /\ inflight = [i \in Isolates |-> [rt \in Routes |-> 0]]
    /\ waiters = [i \in Isolates |-> [rt \in Routes |-> <<>>]]
    /\ entry = <<>>
    /\ stray = {}
    /\ req = [r \in Requests |-> Idle]

\* The steps of admission itself, whatever the route then does with its slot.
AdmissionStep(r) ==
    \/ Admit(r)
    \/ Expire(r)
    \/ ReadMinute(r)
    \/ ReadWide(r)
    \/ ReadBudget(r)
    \/ PutOver(r)

\* Any route: it may refund a turn nobody paid for, may pay for one more
\* call, and releases.
RouteStep(r) ==
    \/ RefundBudget(r)
    \/ req[r].times < 2 /\ ChargeExtra(r)
    \/ Release(r, "none")

Next ==
    \/ Tick
    \/ LateLanding
    \/ \E r \in Requests : AdmissionStep(r) \/ RouteStep(r)

Spec == AdmissionInit /\ [][Next]_admissionVars

-----------------------------------------------------------------------------
(* Correctness                                                              *)

Stages == {"new", "queued", "minute", "wide", "widePut", "minutePut", "hour",
           "hourPut", "day", "dayPut", "granted", "done"}

\* Shape of the state: what each counter, queue and request record may hold.
TypeOK ==
    /\ now \in 0 .. MaxNow
    /\ inflight \in [Isolates -> [Routes -> Nat]]
    /\ waiters \in [Isolates -> [Routes -> Seq(Requests)]]
    /\ \A i \in Isolates :
          /\ IsABag(windows[i]) /\ IsABag(budget[i])
          /\ ledger[i] \in [BudgetScales -> [pending : Nat, bucket : Nat]]
    /\ Cardinality(stray) <= MaxStray
    /\ \A r \in Requests : req[r].pc \in Stages /\ req[r].used \in Nat

\* The requests that hold a slot of lane i, rt.
HoldsSlot(r) == req[r].pc \notin {"new", "queued", "done"}
Holders(i, rt) == {r \in Requests : HoldsSlot(r) /\ IsolateOf[r] = i /\ RouteOf[r] = rt}

\* limits.js: a slot is never leaked and never issued twice: the count each
\* isolate keeps is the number of requests that hold a slot, it stays within
\* the ceiling, while somebody waits no slot is free, and nobody who was
\* answered keeps a place in the queue.
SlotsConserved ==
    /\ TypeOK
    /\ \A i \in Isolates, rt \in Routes :
          /\ inflight[i][rt] = Cardinality(Holders(i, rt))
          /\ inflight[i][rt] <= Cap[rt]
          /\ waiters[i][rt] # <<>> => inflight[i][rt] = Cap[rt]
          /\ \A k \in DOMAIN waiters[i][rt] : req[waiters[i][rt][k]].pc = "queued"

Total(S, Amount(_)) == MapThenSumSet(Amount, S)

\* limits.js: a refund gives back exactly what was charged: each window key
\* holds one charge per request charged to it that was not given both back,
\* each budget key the units of the requests not refunded, whatever the clock
\* did in between.
ChargesAddUp ==
    \A i \in Isolates :
        LET here == {r \in Requests : IsolateOf[r] = i} IN
        /\ \A k \in BagToSet(windows[i]) \union UNION {req[r].held : r \in here} :
              Charged(k, windows[i]) = Cardinality({r \in here : k \in req[r].held})
        /\ \A s \in CappedScales, b \in 0 .. MaxNow :
              Charged([scale |-> s, bucket |-> b], budget[i]) =
                 Total({r \in here : Bucket(req[r].at, s) = b},
                       LAMBDA r : Units(RouteOf[r]) * req[r].times)

Writing == {Write(r) : r \in {q \in Requests :
                req[q].pc \in {"widePut", "minutePut", "hourPut", "dayPut"}}}

\* What is or may yet be stored under a key: held, being sent or given up.
Stocked(k) == (IF k \in DOMAIN entry THEN {entry[k]} ELSE {})
                \union {w.body : w \in {x \in stray \union Writing : x.key = k}}

\* The requests of r's visitor that were let through its window of scale s.
LetThrough(r, s) ==
    {q \in Requests : /\ req[q].counted
                       /\ ClientIp[q] = ClientIp[r] /\ RouteOf[q] = RouteOf[r]
                       /\ Bucket(req[q].at, s) = Bucket(req[r].at, s)}

\* sharedtier.js: no loss, delay or reordering of a write makes a visitor's
\* window read higher than the requests that were let through it, so nobody is
\* refused before the limit is really used up; the one remainder the code
\* names is a request that a later budget check refuses.
WindowsUndercount ==
    \A r \in Requests :
        /\ req[r].pc = "minute" =>
              \A n \in Stocked(MinuteEntry(r)) : n <= Cardinality(LetThrough(r, "min"))
        /\ req[r].pc = "wide" =>
              \A v \in Stocked(WideEntry(r)), s \in BudgetScales :
                  WideUsed(v, s, req[r].at) <= Cardinality(LetThrough(r, s))

\* Units really spent at the gateway, by isolate and bucket.
SpentUnits(R, s, b) ==
    Total({r \in R : req[r].pc = "done" /\ Bucket(req[r].at, s) = b},
          LAMBDA r : Units(RouteOf[r]) * req[r].times)

\* counters.js: the ledger an isolate will publish holds only units of its own
\* requests that were released without a refund, in the bucket they were
\* charged in.
LedgerIsRealSpend ==
    \A i \in Isolates, s \in CappedScales :
        ledger[i][s].pending <=
            SpentUnits({r \in Requests : IsolateOf[r] = i /\ req[r].reason = "none"},
                       s, ledger[i][s].bucket)

\* health.js: the probe answers whatever the state, never says more is spent
\* than is: while it says budget_exhausted every request of the isolate is
\* refused and the wait it names ends the window that is spent; while it says
\* live less than one call's units are missing; and the load is full exactly
\* when a newcomer finds no slot.
ProbeIsHonest ==
    \A i \in Isolates :
        LET probe == Probe(i) IN
        /\ probe.status = 200 /\ probe.body.ok
        /\ probe.body.reason = "budget_exhausted" =>
              /\ \A rt \in Routes : OverBudget(i, rt, now)
              /\ \E s \in SpentScales(i) :
                    Bucket(now + probe.retryAfter, s) = Bucket(now, s) + 1
        /\ probe.body.mode = "live" =>
              \A s \in CappedScales : Charged(BudgetKey(s, now), budget[i]) < Ceiling[s]
        /\ probe.body.load.level = "full" <=> ~FreeLane(i, "chat")

\* The promise of FairSlots, on each lane: the longest waiter is served first,
\* and only ever with a slot somebody gave back.
Slots(i, rt) == INSTANCE FairSlots WITH
    People <- Requests, Cap <- Cap[rt], holding <- Holders(i, rt), queue <- waiters[i][rt]

FairOrder ==
    /\ \A i \in Isolates, rt \in Routes : Slots(i, rt)!FairInit
    /\ [][\A i \in Isolates, rt \in Routes :
            [Slots(i, rt)!FairNext]_(Slots(i, rt)!fairVars)]_admissionVars

=============================================================================
